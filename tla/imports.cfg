SPECIFICATION Spec
CONSTANTS
  a1 = a1
  a2 = a2
  a3 = a3
  r1 = r1
  r2 = r2
  Attempt = {a1, a2, a3}
  Request = {r1, r2}
  RequestOf <- TwoRequests
  FileCount = 2
  x1 = x1
  x2 = x2
  fv = fv
  fl = fl
  fo = fo
  d1 = d1
  d2 = d2
  d3 = d3
  SrcTable = {x1, x2}
  SrcField = {fv, fl, fo}
  SrcRecord = {d1, d2, d3, d4, d5}
  KindOf <- FieldKinds
  LinksTo <- Across
  FirstSchema <- TwoTables
  FirstRows <- ThreeRows
  PageSize = 1
  RateRetries = 1
  ServerRetries = 2
  MaxRecords = 4
  MaxSourceEdits = 2
  RequestIds = 2
  s1 = s1
  s2 = s2
  s3 = s3
  StartCalls = {s1, s2, s3}
  MaxReloads = 1
  MaxPreviews = 2
  i1 = i1
  i2 = i2
  e1 = e1
  e2 = e2
  t2 = t2
  CsvTable = {t1, t2}
  CsvImport = {i1, i2}
  CsvExport = {e1, e2}
  BatchCount = 2
  PageRows = 2
  MaxMishaps = 1
  g1 = g1
  g2 = g2
  w1 = w1
  File = {g1, g2}
  SizeOf <- Sizes
  MaxSize = 2
  Quota = 2
  User = {u1}
  FileTable = {w1, w2}
  Pinned = w2
  Get = {d1, d2}
  Limit = 1
  MaxStops = 1
  b1 = b1
  b2 = b2
  Base = {b1, b2, b3}
  AllBases = all
  FirstBases = {b1, b2}
  Token = {k1}
  Agent = {c1}
  Tools = {"list_bases", "create_base", "delete_base", "update_field", "update_record", "get_record", "create_record", "delete_record"}
  CellsPerWrite = 2
  MaxActive = 1
  MaxRoleChanges = 2
CONSTRAINTS OnlySlot CallsInOrder TwoTransfers TwoAtWork
SYMMETRY Retries
CHECK_DEADLOCK FALSE
INVARIANTS
  FilesMatchBases
  AnswersStayTrue
  PreparedIsSound
  OneBasePerWish
  ImportsAccounted
  ExportsOneInstant
  BrakesHold
  RowsHaveFiles
  TokenBounded
