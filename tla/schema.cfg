SPECIFICATION Spec
CONSTANTS
  f1 = f1
  f2 = f2
  v1 = v1
  v2 = v2
  s1 = s1
  e1 = e1
  e2 = e2
  r1 = r1
  tA = tA
  tD = tD
  d1 = d1
  d2 = d2
  l1 = l1
  l2 = l2
  k1 = k1
  k2 = k2
  x1 = x1
  Field = {f1, f2}
  View = {v1, v2}
  Share = {s1}
  Editor = {e1, e2}
  Reader = {r1}
  FirstField = f1
  FirstView = v1
  Options <- FilterOrHide
  Table = {tA, tD}
  Home <- RecordsOfD
  First = {d1}
  Link = {l1, l2}
  Caller = {k1, k2}
  Deleter = {x1}
  Rounds = 3
  Batch = 1
  Tab = {e1, e2}
  Kinds = {"grid", "board", "form"}
  MaxEdits = 2
  MaxMishaps = 1
CONSTRAINTS
  Spoken
SYMMETRY Interchangeable
CHECK_DEADLOCK FALSE
INVARIANTS
  StoredReferencesLive
  QuietReadsAreExact
  NothingDangles
  OwnEditsKept
  SettingsSettle
