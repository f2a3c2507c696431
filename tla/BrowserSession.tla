--------------------------- MODULE BrowserSession ---------------------------
(* One session of the browser on the records of a table                     *)
(* (bases/[baseId]/tables/[tableId]/table-view.tsx): by the kind of its     *)
(* view it shows the grid, with pasting, or the board.  Both invalidate the *)
(* queries of the same table.                                               *)
EXTENDS GridPaste, KanbanBoard

ASSUME BoardAssumption ==
  /\ StatusField \in Field /\ Choice \subseteq Nat
  /\ LaneSize \in Nat \ {0} /\ MaxLanePages \in Nat \ {0}
  /\ \A l \in Lane, p \in 1..MaxLanePages : LaneQuery(l, p) \in Query

vars == <<cacheVars, gridVars, pasteVars, boardVars>>

Init ==
  /\ \E grid \in BOOLEAN : GridInit(grid) /\ BoardInit(~grid)
  /\ PasteInit
  /\ CacheInit(OnGrid \cup OnBoard)

Next ==
  \/ pages > 0 /\ GridNext /\ UNCHANGED <<pasteVars, boardVars>>
  \/ pages > 0 /\ PasteNext /\ UNCHANGED boardVars
  \/ pages = 0 /\ BoardNext /\ UNCHANGED <<gridVars, pasteVars>>

Spec == Init /\ [][Next]_vars
=============================================================================
