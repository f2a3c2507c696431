----------------------------- MODULE MCBrowser -----------------------------
(* Instances of the browser's session.                                      *)
EXTENDS BrowserSession

CONSTANT Budget

SumOfAmount == [f \in Field |-> IF f = "amount" THEN {"sum"} ELSE {}]

Queries ==
  {GridQuery(p) : p \in GridPage}
  \cup {LaneQuery(l, p) : l \in Lane, p \in 1..MaxLanePages}

(* Bounds: a session of the grid edits cells or pastes.                     *)
Focus ==
  /\ typed + changes <= Budget
  /\ moved + changes + board <= Budget
  /\ typed = 0 \/ pastes = 0
  /\ generation = 0 \/ pastes > 0

(* The counterexample sought is not the one of a first fetch that was       *)
(* answered too early.                                                      *)
FirstFetchesInTime == \A q \in Query : ~cache[q].late
=============================================================================
