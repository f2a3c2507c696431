SPECIFICATION Spec
CONSTANTS
  v = v
  u = u
  h1 = h1
  h2 = h2
  b1 = b1
  b2 = b2
  Client = {v, u}
  Visitor = {v}
  Handler = {h1, h2}
  Body = {b1, b2}
  MaxAttempts = 2
  MaxTick = 2
  Window = 1
  MaxPub = 2
  Lives = {1, 3}
SYMMETRY Interchangeable
CONSTRAINTS OneSurface FewAttempts
CHECK_DEADLOCK FALSE
INVARIANTS
  OncePerSubmission
  AnswersAreTrue
PROPERTIES
  AgainOnlyAfterWindow
  CapabilityHeldAtCommit
