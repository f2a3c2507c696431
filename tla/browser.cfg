SPECIFICATION Spec
CONSTANTS
  Grid = Grid
  Record = {1, 2}
  FirstRecords = {1}
  Field = {"amount", "sum", "note", "status"}
  Recomputed <- SumOfAmount
  Query <- Queries
  Blank = 0
  MaxChanges = 1
  GridPage = {1, 2}
  PageSize = 1
  Typed = {"amount", "note"}
  SortField = "sum"
  MaxTyped = 2
  GridFails = TRUE
  Scope = {"all", "mine"}
  PasteField = "note"
  Height = 2
  MaxPastes = 1
  MaxGenerations = 2
  StatusField = "status"
  Choice = {1}
  LaneSize = 1
  MaxLanePages = 2
  MaxMoves = 2
  MaxBoards = 2
  MovesFail = TRUE
  Budget = 3
CONSTRAINT Focus
CHECK_DEADLOCK FALSE
INVARIANTS
  GridSettles
  PastedAsWished
  BoardSettles
