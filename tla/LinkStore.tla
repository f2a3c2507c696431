----------------------------- MODULE LinkStore -----------------------------
(***************************************************************************)
(* What the record store promises about link cells, seen one committed     *)
(* transaction at a time.  A link cell holds the set of records it points  *)
(* at; the empty set is "no cell row" (ADR-0005: an empty value is an      *)
(* absent row).  A write may only point at records that exist when it      *)
(* commits, and deleting a record removes every link to it in the same     *)
(* atomic step.                                                            *)
(*                                                                         *)
(* CellWrites shows that the statement-by-statement code implements this.  *)
(***************************************************************************)
CONSTANT Record          \* record identities, live or not yet created

VARIABLES
  live,                  \* the records that exist
  born,                  \* every record that ever existed
  cell                   \* cell[r]: the records that r's link cell names

storeVars == <<live, born, cell>>

StoreInit ==
  /\ live \subseteq Record
  /\ born = live
  /\ cell \in [Record -> SUBSET live]
  /\ \A r \in Record \ live : cell[r] = {}

Create(r) ==
  /\ r \notin born
  /\ live' = live \cup {r}
  /\ born' = born \cup {r}
  /\ UNCHANGED cell

(***************************************************************************)
(* The rows of W get the values of v.  Which rows of a request make up W   *)
(* is the implementation's business (OnlyDeletionsLoseWrites tells).       *)
(***************************************************************************)
Write(W, v) ==
  /\ W \subseteq live
  /\ \A r \in W : v[r] \subseteq live
  /\ cell' = [r \in Record |-> IF r \in W THEN v[r] ELSE cell[r]]
  /\ UNCHANGED <<live, born>>

Delete(d) ==
  /\ d \in live
  /\ live' = live \ {d}
  /\ cell' = [r \in Record |-> IF r = d THEN {} ELSE cell[r] \ {d}]
  /\ UNCHANGED born

StoreNext ==
  \/ \E r \in Record : Create(r) \/ Delete(r)
  \/ \E W \in SUBSET Record, v \in [Record -> SUBSET Record] : Write(W, v)

StoreSpec == StoreInit /\ [][StoreNext]_storeVars

=============================================================================
