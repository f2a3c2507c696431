----------------------------- MODULE MCWebhooks -----------------------------
(* Instances of Webhooks for TLC. *)
EXTENDS Webhooks, TLC

Interchangeable == Permutations(Tx) \cup Permutations(Record) \cup Permutations(Worker)

(* Bounds: one transaction over two records with two workers, or two       *)
(* transactions that write one record, with one worker.                    *)
Writing == {t \in Tx : txState[t] # "new"}
Written ==
  {r \in Record : \E t \in Tx : r \in touched[t] \cup doomed[t] \/ delivery[<<t, r>>] # NoRow
                                 \/ <<t, r>> \in accepted}
Sending == {w \in Worker : jobs[w] # {}}
Focus ==
  \/ Cardinality(Writing) <= 1
  \/ Cardinality(Written) <= 1 /\ Cardinality(Sending) <= 1
=============================================================================
