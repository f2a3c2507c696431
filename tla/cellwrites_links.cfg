SPECIFICATION Spec
CONSTANTS
  Record = {1, 2, 3}
  LinkValues <- ApartLinks
  Stored <- SharedLinks
  Proc = {p1, p2, p3}
  Kinds = {"upsert", "delete"}
  MaxTx = 3
SYMMETRY Handlers
CHECK_DEADLOCK FALSE
INVARIANTS
  NoDanglingLinks
PROPERTIES
  EveryChangeLogged
  ImplementsStore
  OnlyDeletionsLoseWrites
