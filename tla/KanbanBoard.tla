---------------------------- MODULE KanbanBoard ----------------------------
(* The board of one session (src/apps/web/src/components/kanban): a lane    *)
(* per status with its own pages of record.kanbanPage, and cards moved by   *)
(* drag and drop or from a menu.  A move is not shown before its answer:    *)
(* the answer has every lane fetched again.                                 *)
EXTENDS RecordCache

CONSTANTS
  StatusField,
  Choice,          \* the statuses a card may be moved to; a cell may be Blank
  LaneSize,        \* cards per page
  MaxLanePages,
  MaxMoves,        \* bound: moves of the session
  MaxBoards,       \* bound: boards mounted, one after the other
  MovesFail        \* BOOLEAN: whether requests may fail

VARIABLES
  lanePages,   \* lanePages[l]: how many pages of the lane were asked for
  dragging,    \* the card being dragged, 0 for none
  inFlight,    \* cards whose move has not ended, for this board
  moves,       \* moves sent and not ended
  moved,       \* moves so far: each has a number
  board        \* the board mounted: a change of its settings mounts another

boardVars == <<lanePages, dragging, inFlight, moves, moved, board>>

Lane == Choice \cup {Blank}
LaneQuery(l, p) == <<l, p>>
OnLane(l) == {LaneQuery(l, p) : p \in 1..lanePages[l]}
OnBoard == UNION {OnLane(l) : l \in Lane}

(* getKanbanPage: the lane's cards, newest first.                           *)
LanePage(l, p) ==
  LET cards == {r \in alive : stored[r][StatusField] = l}
  IN PageOf(Ordered(cards, [r \in cards |-> 0]), (p - 1) * LaneSize, LaneSize)

Visible(r) == \E q \in OnBoard : Shows(cache[q].data, r)

BoardInit(shown) ==
  /\ lanePages = [l \in Lane |-> IF shown THEN 1 ELSE 0]
  /\ dragging = 0
  /\ inFlight = {}
  /\ moves = {}
  /\ moved = 0
  /\ board = 1

----------------------------------------------------------------------------
(* kanban-lane: the pages of a lane.                                        *)

LoadMore(l) ==
  /\ lanePages[l] \in 1..(MaxLanePages - 1)
  /\ \A q \in OnLane(l) : cache[q].data # NoData /\ ~cache[q].failed
  /\ lanePages[l] * LaneSize < cache[LaneQuery(l, 1)].data.total
  /\ lanePages' = [lanePages EXCEPT ![l] = @ + 1]
  /\ cache' = [cache EXCEPT ![LaneQuery(l, lanePages[l] + 1)] = Asked(@)]
  /\ UNCHANGED <<storeVars, news, behind, dragging, inFlight, moves, moved, board>>

RetryLane(l) ==
  /\ \E q \in OnLane(l) : cache[q].failed
  /\ cache' = Refetched(cache, OnLane(l))
  /\ UNCHANGED <<storeVars, news, behind, boardVars>>

ServeLane(l, p) == Serve(LaneQuery(l, p), LanePage(l, p)) /\ UNCHANGED boardVars
LandLane(l, p) == Land(LaneQuery(l, p)) /\ UNCHANGED boardVars
FailLane(l, p) == MovesFail /\ FetchFails(LaneQuery(l, p)) /\ UNCHANGED boardVars
FlushBoard == Flush(OnBoard) /\ UNCHANGED boardVars

----------------------------------------------------------------------------
(* kanban-board: dragging, moving, and the end of a move.                   *)

DragStart(r) ==
  /\ dragging = 0
  /\ Visible(r) /\ r \notin inFlight
  /\ dragging' = r
  /\ UNCHANGED <<cacheVars, lanePages, inFlight, moves, moved, board>>

DragEnd ==
  /\ dragging # 0
  /\ dragging' = 0
  /\ UNCHANGED <<cacheVars, lanePages, inFlight, moves, moved, board>>

Move(r, l) ==
  /\ moved < MaxMoves
  /\ r \notin inFlight
  /\ moved' = moved + 1
  /\ inFlight' = inFlight \cup {r}
  /\ moves' = moves \cup
       {[n |-> moved + 1, r |-> r, to |-> l, board |-> board, stage |-> "sent"]}
  /\ UNCHANGED <<cacheVars, lanePages, board>>

MoveFromMenu(r, l) == Visible(r) /\ Move(r, l) /\ UNCHANGED dragging

Drop(l) ==
  /\ dragging # 0
  /\ Visible(dragging)
  /\ Move(dragging, l)
  /\ dragging' = 0

Reaches(m, stage) == moves' = (moves \ {m}) \cup {[m EXCEPT !.stage = stage]}

StoreMove(m) ==
  /\ m.stage = "sent"
  /\ m.r \in alive
  /\ stored' = Written(m.r, StatusField, m.to)
  /\ Reaches(m, "stored")
  /\ UNCHANGED <<alive, changes, news, cache, behind, lanePages, dragging,
                 inFlight, moved, board>>

(* The table is refreshed even if the board that moved is gone.             *)
IfMounted(m) == m.board = board
Refreshes(m) == TRUE

AnswerMove(m) ==
  /\ m.stage = "stored"
  /\ cache' = IF Refreshes(m) THEN Refetched(cache, OnBoard) ELSE cache
  /\ Reaches(m, "refreshing")
  /\ UNCHANGED <<storeVars, news, behind, lanePages, dragging, inFlight, moved, board>>

Ended(m) ==
  /\ moves' = moves \ {m}
  /\ inFlight' = IF m.board = board THEN inFlight \ {m.r} ELSE inFlight

(* The fetches it waits for have landed, or have given way to later ones.   *)
EndMove(m) ==
  /\ m.stage = "refreshing"
  /\ Ended(m)
  /\ UNCHANGED <<cacheVars, lanePages, dragging, moved, board>>

(* Refused, or stored with the answer lost: nothing is fetched.             *)
FailMove(m) ==
  /\ \/ m.stage = "sent" /\ (MovesFail \/ m.r \notin alive) /\ UNCHANGED <<cache, behind>>
     \/ /\ m.stage = "stored" /\ MovesFail
        /\ cache' = [q \in Query |-> [cache[q] EXCEPT !.late = @ \/ Served(q)]]
        /\ behind' = behind \cup OnBoard
  /\ Ended(m)
  /\ UNCHANGED <<storeVars, news, lanePages, dragging, moved, board>>

(* The signature of the settings changed: another ConfiguredBoard, with     *)
(* empty refs and one page per lane.  Its first pages are still fresh.      *)
Remount ==
  /\ lanePages[Blank] > 0
  /\ board < MaxBoards
  /\ board' = board + 1
  /\ inFlight' = {}
  /\ dragging' = 0
  /\ lanePages' = [l \in Lane |-> 1]
  /\ cache' = [q \in Query |->
       IF q \in OnBoard /\ q[2] > 1 THEN NotAsked ELSE cache[q]]
  /\ behind' = {q \in behind : q[2] = 1}
  /\ UNCHANGED <<storeVars, news, moves, moved>>

OthersMove ==
  \/ \E r \in Record, l \in Lane : stored[r][StatusField] # l /\ ChangeCell(r, StatusField, l)
  \/ \E r \in Record : CreateRecord(r) \/ DeleteRecord(r)

BoardNext ==
  \/ \E l \in Lane : LoadMore(l) \/ RetryLane(l) \/ Drop(l)
  \/ \E l \in Lane, p \in 1..MaxLanePages : ServeLane(l, p) \/ LandLane(l, p) \/ FailLane(l, p)
  \/ \E r \in Record : DragStart(r) \/ \E l \in Lane : MoveFromMenu(r, l)
  \/ \E m \in moves : StoreMove(m) \/ AnswerMove(m) \/ EndMove(m) \/ FailMove(m)
  \/ FlushBoard \/ DragEnd \/ Remount
  \/ OthersMove /\ UNCHANGED boardVars

----------------------------------------------------------------------------
BoardQuiet ==
  /\ ~news
  /\ moves = {}
  /\ \A q \in OnBoard : ~InFlight(q) /\ ~cache[q].failed

(* Once every move has ended, every broadcast is acted on and every fetch   *)
(* has landed, each lane shows exactly its cards: none in two lanes, none   *)
(* in the lane it left, also when the board was mounted anew while a move   *)
(* was under way.  Excepted until their next fetch are the lanes a lost     *)
(* answer left behind, and those whose first fetch was answered too early.  *)
BoardSettles ==
  BoardQuiet => \A l \in Lane : \A p \in 1..lanePages[l] :
    LaneQuery(l, p) \in behind \/ cache[LaneQuery(l, p)].data = LanePage(l, p)

=============================================================================
