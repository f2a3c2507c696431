------------------------------ MODULE Webhooks ------------------------------
(***************************************************************************)
(* One webhook subscription from the change of a record to the receiver:   *)
(* the outbox trigger (webhooks/outbox.sql) inside the transactions that   *)
(* write, the worker (webhooks/worker.ts) and the owner's calls            *)
(* (trpc/routers/webhook.ts).                                              *)
(*                                                                         *)
(* Subscriptions share no row, so one is modelled.  Its row lock is what   *)
(* orders everybody: the trigger takes it FOR UPDATE at the first event of *)
(* a transaction and keeps it until the transaction ends (holder), the     *)
(* owner's calls and prepareSend wait for it, the claim skips it.  Each of *)
(* those others is one step here: it holds the lock only to its own end.   *)
(* A transaction's events are its own until it commits (draft, spilt).     *)
(*                                                                         *)
(* A delivery row is identified by (transaction, record), the unique key   *)
(* of the table.  Time is two facts about a row that passing time turns:   *)
(* due (next_attempt_at has come) and fresh (lease_until has not).  A      *)
(* leaseToken is never reused, so the n-th lease of a row has token n; the *)
(* code clears or replaces it whenever the row stops being leased, and     *)
(* every comparison also requires the row to be leased.                    *)
(***************************************************************************)
EXTENDS Naturals, FiniteSets

CONSTANTS
  Tx,            \* transactions that write records (txid_current)
  Record,        \* records of the table
  Worker,        \* processes running the worker
  NoTx,          \* nobody holds the subscription row
  Cap,           \* 10000: queued deliveries of a subscription
  MaxAttempts,   \* 5: automatic attempts of a delivery
  ClaimLimit,    \* 2: deliveries of one claim
  MaxRetries     \* bound: manual retries of one delivery

ASSUME WebhooksAssumption ==
  /\ NoTx \notin Tx
  /\ Cap \in Nat /\ MaxAttempts \in Nat \ {0} /\ ClaimLimit \in Nat /\ MaxRetries \in Nat
  /\ IsFiniteSet(Tx) /\ IsFiniteSet(Record)

Event == Tx \X Record
EventKinds == {"changed", "deleted"}

VARIABLES
  \* the subscription row
  state, overflowAt, events,
  ownerOk,       \* its configuring user still owns the base
  keyOk,         \* the server's key decrypts its secret
  \* the delivery rows
  delivery,
  \* the writing transactions
  txState, holder, draft, spilt, touched, doomed,
  \* the sends of each worker
  jobs,
  \* history, read by the properties only
  retried,       \* manual retries of a delivery
  accepted,      \* events the receiver has accepted
  missed         \* records a transaction changed while nothing collected

subVars == <<state, overflowAt, events, ownerOk, keyOk>>
txVars == <<txState, holder, draft, spilt, touched, doomed, missed>>
vars == <<subVars, delivery, txVars, jobs, retried, accepted>>

States == {"active", "paused", "overflow", "disabled", "removed"}

Row == [status : {"none", "pending", "leased", "succeeded", "dead"},
        kind : EventKinds, attempts : Nat, token : Nat,
        due : BOOLEAN, fresh : BOOLEAN]

Outcomes == {"ok", "retry", "fatal"}
Job == [id : Event, token : Nat, phase : {"claimed", "ready"} \cup Outcomes]

TypeOK ==
  /\ state \in States
  /\ overflowAt \in BOOLEAN
  /\ events \in SUBSET EventKinds
  /\ ownerOk \in BOOLEAN
  /\ keyOk \in BOOLEAN
  /\ delivery \in [Event -> Row]
  /\ txState \in [Tx -> {"new", "open", "done"}]
  /\ holder \in Tx \cup {NoTx}
  /\ draft \in [Record -> EventKinds \cup {"none"}]
  /\ spilt \in BOOLEAN
  /\ touched \in [Tx -> SUBSET Record]
  /\ doomed \in [Tx -> SUBSET Record]
  /\ jobs \in [Worker -> SUBSET Job]
  /\ retried \in [Event -> Nat]
  /\ accepted \in SUBSET Event
  /\ missed \in [Tx -> SUBSET Record]

NoRow == [status |-> "none", kind |-> "changed", attempts |-> 0, token |-> 0,
          due |-> FALSE, fresh |-> FALSE]

WithStatus(S) == {e \in Event : delivery[e].status \in S}
Queue == WithStatus({"pending", "leased"})
Drafts == {r \in Record : draft[r] # "none"}

-----------------------------------------------------------------------------
(***************************************************************************)
(* markpocket_record_outbox(), fired by every row a transaction inserts,   *)
(* updates or deletes in record and cell.                                  *)
(***************************************************************************)
(* The event queued for r by transaction t itself, and the subscription    *)
(* state t sees: its own overflow is not committed yet.                    *)
Draft(t, r) == IF holder = t THEN draft[r] ELSE "none"
StateSeenBy(t) == IF holder = t /\ spilt THEN "overflow" ELSE state

QueueIsFull == Cardinality(Queue) + Cardinality(Drafts) >= Cap

(* Mutant of Collects: only an active subscription sees events. *)
CollectsWhenActive(t, r, k) == StateSeenBy(t) = "active" /\ r \in Record /\ k \in EventKinds

Collects(t, r, k) ==
  StateSeenBy(t) = "active" \/ (k = "deleted" /\ Draft(t, r) # "none")

(* A queued event absorbs a later one of its record; deletion wins. *)
Coalesce(r, k) ==
  /\ draft' = IF k = "deleted" THEN [draft EXCEPT ![r] = k] ELSE draft
  /\ UNCHANGED spilt

(* Mutant of QueueEvent: a full queue drops the event and nobody is told. *)
QueueOrDrop(r, k) ==
  /\ draft' = IF QueueIsFull THEN draft ELSE [draft EXCEPT ![r] = k]
  /\ UNCHANGED spilt

QueueEvent(r, k) ==
  IF QueueIsFull
    THEN spilt' = TRUE /\ UNCHANGED draft
    ELSE draft' = [draft EXCEPT ![r] = k] /\ UNCHANGED spilt

(* A receiver of changes only never gets a just-deleted record. *)
DropChange(r) ==
  /\ draft' = [draft EXCEPT ![r] = IF @ = "changed" THEN "none" ELSE @]
  /\ UNCHANGED spilt

Collect(t, r, k) ==
  IF k = "deleted" /\ k \notin events THEN DropChange(r)
  ELSE IF k \notin events THEN UNCHANGED <<draft, spilt>>
  ELSE IF Draft(t, r) # "none" THEN Coalesce(r, k)
  ELSE IF StateSeenBy(t) = "active" THEN QueueEvent(r, k)
  ELSE UNCHANGED <<draft, spilt>>

(* A record is written by nobody once it is deleted, and a transaction that *)
(* deletes it excludes others that write it.                                *)
RecordIsFree(t, r, k) ==
  /\ \A u \in Tx : r \notin doomed[u]
  /\ k = "deleted" => \A u \in Tx \ {t} : r \notin touched[u]

RowEvent(t, r, k) ==
  /\ txState[t] # "done" /\ RecordIsFree(t, r, k)
  /\ txState' = [txState EXCEPT ![t] = "open"]
  /\ touched' = [touched EXCEPT ![t] = @ \cup {r}]
  /\ doomed' = IF k = "deleted" THEN [doomed EXCEPT ![t] = @ \cup {r}] ELSE doomed
  /\ missed' = IF state = "active" THEN missed ELSE [missed EXCEPT ![t] = @ \cup {r}]
  /\ \/ /\ Collects(t, r, k)
        /\ holder \in {NoTx, t}
        /\ holder' = t
        /\ Collect(t, r, k)
     \/ /\ ~Collects(t, r, k)
        /\ UNCHANGED <<holder, draft, spilt>>
  /\ UNCHANGED <<subVars, delivery, jobs, retried, accepted>>

EndTx(t) ==
  /\ txState[t] = "open"
  /\ txState' = [txState EXCEPT ![t] = "done"]
  /\ IF holder = t
       THEN holder' = NoTx /\ spilt' = FALSE /\ draft' = [r \in Record |-> "none"]
       ELSE UNCHANGED <<holder, spilt, draft>>
  /\ touched' = [touched EXCEPT ![t] = {}]
  /\ missed' = [missed EXCEPT ![t] = {}]
  /\ UNCHANGED <<events, ownerOk, keyOk, jobs, retried, accepted>>

NewRow(k) == [status |-> "pending", kind |-> k, attempts |-> 0, token |-> 0,
              due |-> TRUE, fresh |-> FALSE]

Commit(t) ==
  /\ EndTx(t)
  /\ delivery' = [e \in Event |-> IF e[1] = t /\ Draft(t, e[2]) # "none"
                                    THEN NewRow(draft[e[2]]) ELSE delivery[e]]
  /\ IF holder = t /\ spilt
       THEN state' = "overflow" /\ overflowAt' = TRUE
       ELSE UNCHANGED <<state, overflowAt>>
  /\ UNCHANGED doomed

Abort(t) ==
  /\ EndTx(t)
  /\ doomed' = [doomed EXCEPT ![t] = {}]
  /\ UNCHANGED <<state, overflowAt, delivery>>

-----------------------------------------------------------------------------
(***************************************************************************)
(* The worker.  Its callers run claims one after another and settle every  *)
(* send of a claim before the next.                                        *)
(***************************************************************************)
Claimable ==
  {e \in Event : /\ delivery[e].attempts < MaxAttempts
                 /\ \/ delivery[e].status = "pending" /\ delivery[e].due
                    \/ delivery[e].status = "leased" /\ ~delivery[e].fresh}

(* Mutant of Exhausted: a lease lost on the last attempt stays as it is. *)
NeverExhausted == {}

Exhausted ==
  {e \in Event : /\ delivery[e].status = "leased" /\ ~delivery[e].fresh
                 /\ delivery[e].attempts >= MaxAttempts}

(* The limit counts the rows of every subscription, oldest due first: how  *)
(* many of this one are among them, and which, is left open.               *)
Picks(P) == P \subseteq Claimable /\ Cardinality(P) <= ClaimLimit

(* Mutant of LeasedRow: a new lease keeps the token of the last. *)
SameLease(d) == [d EXCEPT !.status = "leased", !.fresh = TRUE, !.attempts = @ + 1]

LeasedRow(d) ==
  [d EXCEPT !.status = "leased", !.fresh = TRUE, !.token = @ + 1, !.attempts = @ + 1]

Claim(w) ==
  /\ jobs[w] = {} /\ state = "active" /\ holder = NoTx /\ keyOk
  /\ \E P \in SUBSET Claimable :
       /\ Picks(P)
       /\ P # {} \/ Exhausted # {}
       /\ delivery' = [e \in Event |->
            IF e \in P THEN LeasedRow(delivery[e])
            ELSE IF e \in Exhausted THEN [delivery[e] EXCEPT !.status = "dead"]
            ELSE delivery[e]]
       /\ jobs' = [jobs EXCEPT ![w] =
            {[id |-> e, token |-> delivery[e].token + 1, phase |-> "claimed"] : e \in P}]
  /\ UNCHANGED <<subVars, txVars, retried, accepted>>

(* The key preflight comes before any lease or attempt. *)
ClaimWithoutKey(w) ==
  /\ jobs[w] = {} /\ state = "active" /\ holder = NoTx /\ ~keyOk
  /\ state' = "disabled"
  /\ UNCHANGED <<overflowAt, events, ownerOk, keyOk, delivery, txVars, jobs,
                 retried, accepted>>

HoldsLease(j) ==
  LET d == delivery[j.id] IN d.status = "leased" /\ d.token = j.token /\ d.fresh

SetJob(w, j, S) == jobs' = [jobs EXCEPT ![w] = (@ \ {j}) \cup S]

PrepareSend(w) == \E j \in jobs[w] :
  /\ j.phase = "claimed"
  /\ \/ /\ state # "active"
        /\ SetJob(w, j, {}) /\ UNCHANGED state
     \/ /\ state = "active" /\ holder = NoTx
        /\ \/ /\ ~ownerOk
              /\ state' = "paused" /\ SetJob(w, j, {})
           \/ /\ ownerOk /\ ~keyOk
              /\ state' = "disabled" /\ SetJob(w, j, {})
           \/ /\ ownerOk /\ keyOk
              /\ SetJob(w, j, IF HoldsLease(j) THEN {[j EXCEPT !.phase = "ready"]} ELSE {})
              /\ UNCHANGED state
  /\ UNCHANGED <<overflowAt, events, ownerOk, keyOk, delivery, txVars,
                 retried, accepted>>

(***************************************************************************)
(* The request.  2xx is ok; 408, 429, 5xx, a network error and a timeout   *)
(* may be retried; everything else is fatal.  A request the worker sees    *)
(* fail may still have been accepted.                                      *)
(***************************************************************************)
Send(w) == \E j \in jobs[w], o \in Outcomes, arrived \in BOOLEAN :
  /\ j.phase = "ready"
  /\ o = "ok" => arrived
  /\ SetJob(w, j, {[j EXCEPT !.phase = o]})
  /\ accepted' = IF arrived THEN accepted \cup {j.id} ELSE accepted
  /\ UNCHANGED <<subVars, delivery, txVars, retried>>

(* retryDelayMs: there is no delay after the last attempt. *)
MayRetry(d, o) == o = "retry" /\ d.attempts < MaxAttempts

(* Mutant of Settled: any answer counts as success. *)
AnyAnswer(d, o) ==
  [d EXCEPT !.status = IF MayRetry(d, o) THEN "pending" ELSE "succeeded",
            !.due = FALSE, !.fresh = FALSE]

Settled(d, o) ==
  [d EXCEPT !.status = IF o = "ok" THEN "succeeded"
                       ELSE IF MayRetry(d, o) THEN "pending" ELSE "dead",
            !.due = FALSE, !.fresh = FALSE]

Acknowledge(w) == \E j \in jobs[w] :
  /\ j.phase \in Outcomes
  /\ SetJob(w, j, {})
  /\ delivery' = IF HoldsLease(j)
                   THEN [delivery EXCEPT ![j.id] = Settled(@, j.phase)]
                   ELSE delivery
  /\ UNCHANGED <<subVars, txVars, retried, accepted>>

(* A send that ends without acknowledgement: shutdown, a failed statement  *)
(* or, for all sends of the worker one after another, a crash.             *)
DropJob(w) ==
  /\ \E j \in jobs[w] : SetJob(w, j, {})
  /\ UNCHANGED <<subVars, delivery, txVars, retried, accepted>>

(* Terminal rows are deleted seven days after their event. *)
Cleanup(e) ==
  /\ delivery[e].status \in {"succeeded", "dead"}
  /\ delivery' = [delivery EXCEPT ![e] = NoRow]
  /\ UNCHANGED <<subVars, txVars, jobs, retried, accepted>>

-----------------------------------------------------------------------------
(***************************************************************************)
(* The owner's calls: withSubscription locks the subscription row, so it   *)
(* waits for a writing transaction that holds it.                          *)
(***************************************************************************)
Locked == state # "removed" /\ holder = NoTx

(* Mutant of Invalidated: the lost attempt is given back. *)
AttemptGivenBack(d) ==
  IF d.status = "leased"
    THEN [d EXCEPT !.status = "pending", !.attempts = 0, !.due = TRUE, !.fresh = FALSE]
    ELSE d

Invalidated(d) ==
  IF d.status = "leased"
    THEN [d EXCEPT !.status = IF d.attempts >= MaxAttempts THEN "dead" ELSE "pending",
                   !.due = TRUE, !.fresh = FALSE]
    ELSE d

InvalidateLeases == delivery' = [e \in Event |-> Invalidated(delivery[e])]

(* Mutant of Pause: it hides an overflow. *)
PauseAnyway ==
  /\ Locked
  /\ state' = "paused"
  /\ InvalidateLeases
  /\ UNCHANGED <<overflowAt, events, ownerOk, keyOk, txVars, jobs, retried, accepted>>

Pause ==
  /\ Locked
  /\ state' = IF state = "overflow" \/ overflowAt THEN "overflow" ELSE "paused"
  /\ InvalidateLeases
  /\ UNCHANGED <<overflowAt, events, ownerOk, keyOk, txVars, jobs, retried, accepted>>

Resume(acknowledgeGap) ==
  /\ Locked
  /\ (state = "overflow" \/ overflowAt) => acknowledgeGap
  /\ keyOk
  /\ state' = "active" /\ overflowAt' = FALSE /\ ownerOk' = TRUE
  /\ InvalidateLeases
  /\ UNCHANGED <<events, keyOk, txVars, jobs, retried, accepted>>

Rotate ==
  /\ Locked
  /\ keyOk' = TRUE
  /\ InvalidateLeases
  /\ UNCHANGED <<state, overflowAt, events, ownerOk, txVars, jobs, retried, accepted>>

(* The foreign key deletes the deliveries; so does deleting the table. *)
Remove ==
  /\ Locked
  /\ state' = "removed" /\ overflowAt' = FALSE
  /\ delivery' = [e \in Event |-> NoRow]
  /\ UNCHANGED <<events, ownerOk, keyOk, txVars, jobs, retried, accepted>>

(* Mutant of Retry: it counts the queue without the subscription's lock. *)
RetryUnlocked(e) ==
  /\ state # "removed"
  /\ retried[e] < MaxRetries /\ delivery[e].status = "dead"
  /\ Cardinality(Queue) < Cap
  /\ delivery' = [delivery EXCEPT ![e] = NewRow(@.kind)]
  /\ retried' = [retried EXCEPT ![e] = @ + 1]
  /\ UNCHANGED <<subVars, txVars, jobs, accepted>>

Retry(e) ==
  /\ Locked
  /\ retried[e] < MaxRetries
  /\ delivery[e].status = "dead"
  /\ Cardinality(Queue) < Cap
  /\ delivery' = [delivery EXCEPT ![e].status = "pending", ![e].attempts = 0,
                                  ![e].due = TRUE, ![e].fresh = FALSE]
  /\ retried' = [retried EXCEPT ![e] = @ + 1]
  /\ UNCHANGED <<subVars, txVars, jobs, accepted>>

-----------------------------------------------------------------------------
(***************************************************************************)
(* The surroundings: time, membership, the key the server was started with.*)
(***************************************************************************)
BecomeDue(e) ==
  /\ delivery[e].status = "pending" /\ ~delivery[e].due
  /\ delivery' = [delivery EXCEPT ![e].due = TRUE]
  /\ UNCHANGED <<subVars, txVars, jobs, retried, accepted>>

ExpireLease(e) ==
  /\ delivery[e].status = "leased" /\ delivery[e].fresh
  /\ delivery' = [delivery EXCEPT ![e].fresh = FALSE]
  /\ UNCHANGED <<subVars, txVars, jobs, retried, accepted>>

OwnerChange ==
  /\ state # "removed"
  /\ ownerOk' = ~ownerOk
  /\ UNCHANGED <<state, overflowAt, events, keyOk, delivery, txVars, jobs,
                 retried, accepted>>

KeyChange ==
  /\ state # "removed"
  /\ keyOk' = ~keyOk
  /\ UNCHANGED <<state, overflowAt, events, ownerOk, delivery, txVars, jobs,
                 retried, accepted>>

Transaction(t) ==
  Commit(t) \/ Abort(t) \/ \E r \in Record, k \in EventKinds : RowEvent(t, r, k)

Work(w) ==
  \/ Claim(w) \/ ClaimWithoutKey(w) \/ PrepareSend(w) \/ Send(w) \/ Acknowledge(w)

Owner ==
  \/ Pause \/ Rotate \/ Remove
  \/ \E ack \in BOOLEAN : Resume(ack)
  \/ \E e \in Event : Retry(e)

Time == \E e \in Event : BecomeDue(e) \/ ExpireLease(e)

Next ==
  \/ \E t \in Tx : Transaction(t)
  \/ \E w \in Worker : Work(w) \/ DropJob(w)
  \/ \E e \in Event : Cleanup(e)
  \/ Owner \/ Time \/ OwnerChange \/ KeyChange

(* A subscription just created: createSubscription inserts it active. *)
Init ==
  /\ state = "active" /\ overflowAt = FALSE
  /\ events \in SUBSET EventKinds \ {{}}
  /\ ownerOk = TRUE /\ keyOk = TRUE
  /\ delivery = [e \in Event |-> NoRow]
  /\ txState = [t \in Tx |-> "new"]
  /\ holder = NoTx /\ draft = [r \in Record |-> "none"] /\ spilt = FALSE
  /\ touched = [t \in Tx |-> {}] /\ doomed = [t \in Tx |-> {}]
  /\ jobs = [w \in Worker |-> {}]
  /\ retried = [e \in Event |-> 0]
  /\ accepted = {} /\ missed = [t \in Tx |-> {}]

Spec == Init /\ [][Next]_vars

(***************************************************************************)
(* The worker runs its loop and time passes; a transaction that writes     *)
(* ends.                                                                   *)
(***************************************************************************)
FairSpec ==
  /\ Spec
  /\ \A w \in Worker : WF_vars(Work(w))
  /\ \A e \in Event : WF_vars(BecomeDue(e)) /\ WF_vars(ExpireLease(e))
  /\ \A t \in Tx : WF_vars(Commit(t) \/ Abort(t))

-----------------------------------------------------------------------------
(***************************************************************************)
(* Properties.                                                             *)
(***************************************************************************)
(* The queue never exceeds its cap, counting what an open transaction is   *)
(* about to add: the cap is checked by the trigger and by the owner's      *)
(* retry, and the subscription lock keeps their counts true.               *)
QueueBounded == Cardinality(Queue) + Cardinality(Drafts) <= Cap

(* An event a full queue turned away is never forgotten silently: until    *)
(* the owner acknowledges the gap the subscription shows overflow and      *)
(* collects nothing, whatever pause, rotation, a lost key or a lost owner  *)
(* do in between.                                                          *)
GapStaysVisible == overflowAt <=> state = "overflow"

(* The events of a transaction that deleted a record say so: a receiver of *)
(* changes only gets nothing about it, also when the transaction ran into  *)
(* the cap in between.                                                     *)
DeletionWins ==
  \A t \in Tx, r \in Record :
    LET said == IF Draft(t, r) # "none" THEN Draft(t, r) ELSE delivery[<<t, r>>].kind
    IN  Draft(t, r) # "none" \/ delivery[<<t, r>>].status # "none" =>
          said \in events /\ (said = "deleted" <=> r \in doomed[t])

(* An event is sent at most MaxAttempts times, plus as often for every     *)
(* time its owner retries it: no crash, expiry, pause or rotation buys     *)
(* another automatic attempt.                                              *)
SendBudget ==
  \A e \in Event :
    /\ delivery[e].attempts <= MaxAttempts
    /\ delivery[e].token <= MaxAttempts * (1 + retried[e])

(* Two sends never hold the same lease, and at most one send of a delivery *)
(* can acknowledge it.                                                     *)
OneLeaseHolder ==
  \A v, w \in Worker : \A i \in jobs[v], j \in jobs[w] :
    i.id = j.id /\ i.token = j.token => v = w /\ i = j

(* What a transaction changed while the subscription was collecting is in  *)
(* the queue when it commits, or the subscription has overflowed.          *)
Expected(t) == {r \in touched[t] :
                  (IF r \in doomed[t] THEN "deleted" ELSE "changed") \in events}
Queued(t, r) == delivery'[<<t, r>>].status = "pending"
CollectedOrOverflown(t) ==
  \A r \in Expected(t) : r \in missed[t] \/ Queued(t, r) \/ state' = "overflow"
EventsCollected == [][\A t \in Tx : Commit(t) => CollectedOrOverflown(t)]_vars

(* What commits while the subscription is active is in the queue.          *)
CommitIsCollected(t) ==
  Commit(t) /\ state' = "active" => \A r \in Expected(t) : Queued(t, r)
ActiveCollects == [][\A t \in Tx : CommitIsCollected(t)]_vars

(* Every queued event of an active subscription is settled eventually,     *)
(* unless the subscription stops being active.                             *)
EventSettles ==
  \A e \in Event :
    (e \in Queue /\ state = "active") ~> (e \notin Queue \/ state # "active")

(* The three parts together implement the event queue. *)
EventQueue == INSTANCE EventQueue WITH
  queued <- Queue,
  accepted <- accepted,
  succeeded <- WithStatus({"succeeded"}),
  dead <- WithStatus({"dead"})
ImplementsQueue == EventQueue!QueueSpec

=============================================================================
