SPECIFICATION Spec
CONSTANTS
  o = o
  m = m
  tab = tab
  c1 = c1
  c2 = c2
  i1 = i1
  User = {o, m}
  Creator = o
  Invite = {i1}
  Page = {tab}
  Socket = {c1, c2}
  UserOf <- PageOwner
  PageOf <- SocketPage
  Budget = 3
  MaxCalls = 2
  MaxOps = 2
  MaxChanges = 2
  MaxGaps = 1
  MaxMoves = 2
CONSTRAINT Focus
CHECK_DEADLOCK FALSE
INVARIANTS
  OwnerRemains
  PagesFresh
PROPERTIES
  OutsidersStayOut
