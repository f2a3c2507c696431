--------------------------- MODULE MCSubmissions ---------------------------
(* Instances of Submissions for TLC. *)
EXTENDS Submissions, TLC

(* Visitors and users have different actor keys and share no row but the   *)
(* records, so a behaviour looks at one kind of client, and at the owner's *)
(* doings only when there are visitors.                                    *)
OneSurface ==
  \/ \A x \in Paster : attempt[x] = 0
  \/ isOwner /\ \A q \in Pub : pub[q].state = "none"

(* Bounds: one paste; a second attempt of a form, or a second or a         *)
(* short-lived publication.                                                *)
FewAttempts ==
  /\ \A x \in Paster : attempt[x] <= 1
  /\ \A x \in Visitor : attempt[x] <= 1 \/
       \A q \in Pub : pub[q].state \in {"none", "gone"} \/ (q = 1 /\ pub[q].until > MaxTick)

Interchangeable == Permutations(Handler) \cup Permutations(Body)
============================================================================
