----------------------------- MODULE EventQueue -----------------------------
(***************************************************************************)
(* What a webhook subscription promises about the events it collected      *)
(* (docs/WEBHOOKS.md): a bounded queue with at-least-once delivery.  An    *)
(* event leaves the queue because the receiver accepted it or because the  *)
(* sender gave up on it; a given-up event can be queued again; nothing     *)
(* else removes an event before it is settled, except the removal of the   *)
(* subscription.                                                           *)
(*                                                                         *)
(* Webhooks shows that the outbox trigger, the worker and the router       *)
(* implement this.                                                         *)
(***************************************************************************)
EXTENDS Naturals, FiniteSets

CONSTANTS
  Event,                 \* event ids, queued or not
  Cap                    \* events a queue may hold

VARIABLES
  queued,                \* still to be delivered
  accepted,              \* the receiver accepted them at least once
  succeeded,             \* known to be accepted
  dead                   \* given up

queueVars == <<queued, accepted, succeeded, dead>>

QueueInit == queued = {} /\ accepted = {} /\ succeeded = {} /\ dead = {}

Enqueue(K) ==
  /\ K \cap (queued \cup succeeded \cup dead) = {}
  /\ Cardinality(queued \cup K) <= Cap
  /\ queued' = queued \cup K
  /\ UNCHANGED <<accepted, succeeded, dead>>

(* A request that is on its way arrives, whatever became of its event. *)
Accept(k) ==
  /\ accepted' = accepted \cup {k}
  /\ UNCHANGED <<queued, succeeded, dead>>

Succeed(k) ==
  /\ k \in queued \cap accepted
  /\ queued' = queued \ {k}
  /\ succeeded' = succeeded \cup {k}
  /\ UNCHANGED <<accepted, dead>>

GiveUp(K) ==
  /\ K \subseteq queued
  /\ queued' = queued \ K
  /\ dead' = dead \cup K
  /\ UNCHANGED <<accepted, succeeded>>

Requeue(k) ==
  /\ k \in dead
  /\ Cardinality(queued) < Cap
  /\ queued' = queued \cup {k}
  /\ dead' = dead \ {k}
  /\ UNCHANGED <<accepted, succeeded>>

Forget(k) ==
  /\ succeeded' = succeeded \ {k}
  /\ dead' = dead \ {k}
  /\ UNCHANGED <<queued, accepted>>

Discard ==
  /\ queued' = {} /\ succeeded' = {} /\ dead' = {}
  /\ UNCHANGED accepted

QueueNext ==
  \/ \E K \in SUBSET Event : Enqueue(K) \/ GiveUp(K)
  \/ \E k \in Event : Accept(k) \/ Succeed(k) \/ Requeue(k) \/ Forget(k)
  \/ Discard

QueueSpec == QueueInit /\ [][QueueNext]_queueVars

=============================================================================
