SPECIFICATION Spec
CONSTANTS
  Record = {1, 2, 3}
  LinkValues <- OtherLinks
  Stored <- OtherLinks
  Proc = {p1, p2}
  Kinds = {"upsert", "delete"}
  MaxTx = 2
CHECK_DEADLOCK FALSE
PROPERTY AckedValuesLand
