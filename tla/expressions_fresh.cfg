SPECIFICATION FilledSpec
CONSTANTS
  Record = {1, 2}
  a = a
  b = b
  e1 = e1
  e2 = e2
  Source = {a, b}
  Value = {v}
  Empty = empty
  Expr = {e1, e2}
  NoExpr = none
  DependsOn <- Reads
  Writer = {w1, w2}
  Definer = {d1}
  Kinds = {"upsert", "batch", "create", "delete"}
  BatchSize = 1
  MaxTx = 3
CHECK_DEADLOCK FALSE
INVARIANTS
  StaleOnlyAhead
PROPERTY BackfillEnds
