SPECIFICATION Spec
CONSTANTS
  Tx = {t1, t2}
  Record = {r1, r2}
  Worker = {w1, w2}
  NoTx = none
  Cap = 1
  MaxAttempts = 2
  ClaimLimit = 2
  MaxRetries = 1
SYMMETRY Interchangeable
CONSTRAINT Focus
CHECK_DEADLOCK FALSE
INVARIANTS
  QueueBounded
  GapStaysVisible
  DeletionWins
  SendBudget
  OneLeaseHolder
PROPERTIES
  EventsCollected
  ImplementsQueue
