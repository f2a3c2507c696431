---------------------------- MODULE MCExpressions ----------------------------
(* Instances of Expressions for TLC: one definition reads one field, the    *)
(* other reads two; behaviours start with one or two filled records, and    *)
(* upserts and batches empty and fill them.                                 *)
EXTENDS Expressions, TLC

CONSTANTS a, b, e1, e2
Reads == e1 :> {a} @@ e2 :> {a, b}

FilledInit == Init /\ \A r \in live, s \in Source : src[r][s] # Empty
FilledSpec == FilledInit /\ [][Next]_vars /\ Fairness
=============================================================================
