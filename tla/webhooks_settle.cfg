SPECIFICATION FairSpec
CONSTANTS
  Tx = {t1, t2}
  Record = {r1}
  Worker = {w1}
  NoTx = none
  Cap = 2
  MaxAttempts = 2
  ClaimLimit = 2
  MaxRetries = 0
CHECK_DEADLOCK FALSE
PROPERTY EventSettles
