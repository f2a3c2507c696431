SPECIFICATION FairSpec
CONSTANTS
  Record = {1, 2}
  LinkValues <- MutualLinks
  Stored <- MutualLinks
  Proc = {p1, p2}
  Kinds = {"upsert", "batch"}
  MaxTx = 3
CHECK_DEADLOCK FALSE
INVARIANT HistoryReplays
PROPERTY EveryRequestEnds
