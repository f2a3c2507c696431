------------------------------ MODULE MCSchema ------------------------------
(* Instances of Views, of TableDelete and of ViewSettings for TLC.  The     *)
(* three share no state: a behaviour is one of a single module.             *)
EXTENDS Views, TableDelete, ViewSettings, TLC

CONSTANTS
  f1, f2, v1, v2, s1, e1, e2, r1, tA, tD, d1, d2, l1, l2, k1, k2, x1

FilterOrHide ==
  {[filter |-> F, hidden |-> {}] : F \in SUBSET Field}
  \cup {[filter |-> {f1}, hidden |-> {f2}]}

RecordsOfD == [r \in {d1, d2} |-> tD]

Interchangeable ==
  Permutations(Editor)
  \cup Permutations(Caller) \cup Permutations(Link)

VARIABLE part   \* the module a behaviour is of

vars == <<part, viewVars, tableVars, settingsVars>>

Init ==
  /\ part \in {"views", "tables", "settings"}
  /\ ViewsInit /\ TablesInit /\ SettingsInit
  /\ part # "settings" => kind = "grid"

Next ==
  /\ UNCHANGED part
  /\ \/ part = "views" /\ ViewsNext /\ UNCHANGED <<tableVars, settingsVars>>
     \/ part = "tables" /\ TablesNext /\ UNCHANGED <<viewVars, settingsVars>>
     \/ part = "settings" /\ SettingsNext /\ UNCHANGED <<viewVars, tableVars>>

Spec == Init /\ [][Next]_vars

(* Reads that ended or were disturbed act on nothing, and no property       *)
(* speaks of what they show later: behaviours go on without.                *)
Spoken == \A r \in Reader : read[r].quiet /\ read[r].at # "done"
=============================================================================
