--------------------------- MODULE WebhooksProofs ---------------------------
(***************************************************************************)
(* Theorems about Webhooks: every safety property its runs check, and that *)
(* it implements EventQueue, for any finite sets of transactions and       *)
(* records, and any workers, cap, claim limit, attempts and retries.       *)
(***************************************************************************)
EXTENDS Webhooks, FiniteSetTheorems, TLAPS

(* What the code does to a delivery row leaves a delivery row. *)
LEMMA RowsTyped ==
  ASSUME NEW d \in Row
  PROVE  /\ LeasedRow(d) \in Row
         /\ Invalidated(d) \in Row
         /\ [d EXCEPT !.status = "dead"] \in Row
         /\ [d EXCEPT !.fresh = FALSE] \in Row
         /\ [d EXCEPT !.due = TRUE] \in Row
         /\ [d EXCEPT !.status = "pending", !.attempts = 0,
                      !.due = TRUE, !.fresh = FALSE] \in Row
         /\ \A o : Settled(d, o) \in Row
<1>1. LeasedRow(d) \in Row
  <2>1. d.token + 1 \in Nat /\ d.attempts + 1 \in Nat
    BY DEF Row
  <2>2. LeasedRow(d) = [d EXCEPT !.status = "leased", !.fresh = TRUE,
                                 !.token = d.token + 1, !.attempts = d.attempts + 1]
    BY DEF LeasedRow, Row
  <2>3. QED
    BY <2>1, <2>2 DEF Row
<1>2. Invalidated(d) \in Row
  BY DEF Invalidated, Row
<1>3. \A o : Settled(d, o) \in Row
  BY DEF Settled, Row
<1>4. QED
  BY <1>1, <1>2, <1>3 DEF Row

(* Taking a job off a worker's list and putting others on it. *)
LEMMA SetJobTyped ==
  ASSUME TypeOK, NEW w \in Worker, NEW j, NEW S \in SUBSET Job, SetJob(w, j, S)
  PROVE  jobs' \in [Worker -> SUBSET Job]
  BY DEF SetJob, TypeOK

(* An event queued by the trigger, whatever it does to the queue. *)
LEMMA CollectTyped ==
  ASSUME TypeOK, NEW t \in Tx, NEW r \in Record, NEW k \in EventKinds, Collect(t, r, k)
  PROVE  draft' \in [Record -> EventKinds \cup {"none"}] /\ spilt' \in BOOLEAN
  BY DEF Collect, Coalesce, QueueEvent, DropChange, TypeOK, EventKinds

(* The end of a transaction, committed or not. *)
LEMMA EndTxTyped ==
  ASSUME TypeOK, NEW t \in Tx, EndTx(t)
  PROVE  /\ txState' \in [Tx -> {"new", "open", "done"}]
         /\ holder' \in Tx \cup {NoTx}
         /\ draft' \in [Record -> EventKinds \cup {"none"}]
         /\ spilt' \in BOOLEAN
         /\ touched' \in [Tx -> SUBSET Record]
         /\ missed' \in [Tx -> SUBSET Record]
  BY DEF EndTx, TypeOK

(* What a writing transaction does, the trigger included. *)
LEMMA TransactionTyped ==
  ASSUME TypeOK, NEW t \in Tx, Transaction(t)
  PROVE  TypeOK'
<1>1. CASE Commit(t)
  <2>1. delivery' \in [Event -> Row]
    <3>1. ASSUME NEW e \in Event, Draft(t, e[2]) # "none"
          PROVE  NewRow(draft[e[2]]) \in Row
      BY <3>1 DEF NewRow, Row, Draft, TypeOK, Event
    <3>2. QED
      BY <1>1, <3>1 DEF Commit, TypeOK
  <2>2. state' \in States /\ overflowAt' \in BOOLEAN
    BY <1>1 DEF Commit, TypeOK, States
  <2>3. QED
    BY <1>1, <2>1, <2>2, EndTxTyped DEF Commit, EndTx, TypeOK
<1>2. CASE Abort(t)
  BY <1>2, EndTxTyped DEF Abort, EndTx, TypeOK
<1>3. ASSUME NEW r \in Record, NEW k \in EventKinds, RowEvent(t, r, k)
      PROVE  TypeOK'
  <2>1. draft' \in [Record -> EventKinds \cup {"none"}] /\ spilt' \in BOOLEAN
    BY <1>3, CollectTyped DEF RowEvent, TypeOK
  <2>2. holder' \in Tx \cup {NoTx}
    BY <1>3 DEF RowEvent, TypeOK
  <2>3. QED
    BY <1>3, <2>1, <2>2 DEF RowEvent, subVars, TypeOK
<1>4. QED
  BY <1>1, <1>2, <1>3 DEF Transaction

(* What a worker does, or leaves undone when it dies. *)
LEMMA WorkTyped ==
  ASSUME TypeOK, NEW w \in Worker, Work(w) \/ DropJob(w)
  PROVE  TypeOK'
<1>1. CASE Claim(w)
  <2>1. PICK P \in SUBSET Claimable :
          /\ delivery' = [e \in Event |->
               IF e \in P THEN LeasedRow(delivery[e])
               ELSE IF e \in Exhausted THEN [delivery[e] EXCEPT !.status = "dead"]
               ELSE delivery[e]]
          /\ jobs' = [jobs EXCEPT ![w] =
               {[id |-> e, token |-> delivery[e].token + 1, phase |-> "claimed"] : e \in P}]
    BY <1>1 DEF Claim
  <2>2. delivery' \in [Event -> Row]
    BY <2>1, RowsTyped DEF TypeOK
  <2>3. \A e \in P : [id |-> e, token |-> delivery[e].token + 1, phase |-> "claimed"] \in Job
    BY DEF Claimable, Job, Row, TypeOK
  <2>4. jobs' \in [Worker -> SUBSET Job]
    BY <2>1, <2>3 DEF TypeOK
  <2>5. QED
    BY <1>1, <2>2, <2>4 DEF Claim, subVars, txVars, TypeOK
<1>2. CASE ClaimWithoutKey(w)
  BY <1>2 DEF ClaimWithoutKey, txVars, TypeOK, States
<1>3. CASE PrepareSend(w)
  <2>1. PICK j \in jobs[w] :
          /\ j.phase = "claimed"
          /\ \/ SetJob(w, j, {})
             \/ SetJob(w, j, {[j EXCEPT !.phase = "ready"]})
    BY <1>3 DEF PrepareSend
  <2>2. [j EXCEPT !.phase = "ready"] \in Job
    BY DEF TypeOK, Job
  <2>3. jobs' \in [Worker -> SUBSET Job]
    BY <2>1, <2>2, SetJobTyped
  <2>4. state' \in States
    BY <1>3 DEF PrepareSend, TypeOK, States
  <2>5. QED
    BY <1>3, <2>3, <2>4 DEF PrepareSend, txVars, TypeOK
<1>4. CASE Send(w)
  <2>1. PICK j \in jobs[w], o \in Outcomes, arrived \in BOOLEAN :
          /\ SetJob(w, j, {[j EXCEPT !.phase = o]})
          /\ accepted' = IF arrived THEN accepted \cup {j.id} ELSE accepted
    BY <1>4 DEF Send
  <2>2. [j EXCEPT !.phase = o] \in Job /\ j.id \in Event
    BY DEF TypeOK, Job
  <2>3. jobs' \in [Worker -> SUBSET Job] /\ accepted' \in SUBSET Event
    BY <2>1, <2>2, SetJobTyped DEF TypeOK
  <2>4. QED
    BY <1>4, <2>3 DEF Send, subVars, txVars, TypeOK
<1>5. CASE Acknowledge(w)
  <2>1. PICK j \in jobs[w] :
          /\ SetJob(w, j, {})
          /\ delivery' = IF HoldsLease(j)
                           THEN [delivery EXCEPT ![j.id] = Settled(@, j.phase)]
                           ELSE delivery
    BY <1>5 DEF Acknowledge
  <2>2. delivery' \in [Event -> Row] /\ jobs' \in [Worker -> SUBSET Job]
    BY <2>1, RowsTyped, SetJobTyped DEF TypeOK
  <2>3. QED
    BY <1>5, <2>2 DEF Acknowledge, subVars, txVars, TypeOK
<1>6. CASE DropJob(w)
  <2>1. jobs' \in [Worker -> SUBSET Job]
    BY <1>6, SetJobTyped DEF DropJob
  <2>2. QED
    BY <1>6, <2>1 DEF DropJob, subVars, txVars, TypeOK
<1>7. QED
  BY <1>1, <1>2, <1>3, <1>4, <1>5, <1>6 DEF Work

(* Pause and rotate take the leases back. *)
LEMMA InvalidateTyped ==
  ASSUME TypeOK, InvalidateLeases
  PROVE  delivery' \in [Event -> Row]
  BY RowsTyped DEF InvalidateLeases, TypeOK

(* The absent delivery row. *)
LEMMA NoRowTyped == NoRow \in Row
  BY DEF NoRow, Row, EventKinds

(* The calls of the subscription's owner. *)
LEMMA OwnerTyped ==
  ASSUME TypeOK, Owner
  PROVE  TypeOK'
<1>1. CASE Pause
  BY <1>1, InvalidateTyped DEF Pause, txVars, TypeOK, States
<1>2. CASE Rotate
  BY <1>2, InvalidateTyped DEF Rotate, txVars, TypeOK
<1>3. CASE Remove
  BY <1>3, NoRowTyped DEF Remove, txVars, TypeOK, States
<1>4. ASSUME NEW ack \in BOOLEAN, Resume(ack) PROVE TypeOK'
  BY <1>4, InvalidateTyped DEF Resume, txVars, TypeOK, States
<1>5. ASSUME NEW e \in Event, Retry(e) PROVE TypeOK'
  <2>1. delivery' \in [Event -> Row]
    <3>1. [delivery[e] EXCEPT !.status = "pending", !.attempts = 0,
                              !.due = TRUE, !.fresh = FALSE] \in Row
      BY RowsTyped DEF TypeOK
    <3>2. delivery' = [delivery EXCEPT ![e] =
            [delivery[e] EXCEPT !.status = "pending", !.attempts = 0,
                                !.due = TRUE, !.fresh = FALSE]]
      BY <1>5 DEF Retry, TypeOK
    <3>3. QED
      BY <3>1, <3>2 DEF TypeOK
  <2>2. QED
    BY <1>5, <2>1 DEF Retry, subVars, txVars, TypeOK
<1>6. QED
  BY <1>1, <1>2, <1>3, <1>4, <1>5 DEF Owner

(* Time, clean-up, and what happens to the owner and the key. *)
LEMMA SurroundingsTyped ==
  ASSUME TypeOK, Time \/ OwnerChange \/ KeyChange \/ \E e \in Event : Cleanup(e)
  PROVE  TypeOK'
<1>1. ASSUME NEW e \in Event, BecomeDue(e) PROVE TypeOK'
  <2>1. delivery' \in [Event -> Row]
    <3>1. [delivery[e] EXCEPT !.due = TRUE] \in Row
      BY RowsTyped DEF TypeOK
    <3>2. delivery' = [delivery EXCEPT ![e] = [delivery[e] EXCEPT !.due = TRUE]]
      BY <1>1 DEF BecomeDue, TypeOK
    <3>3. QED
      BY <3>1, <3>2 DEF TypeOK
  <2>2. QED
    BY <1>1, <2>1 DEF BecomeDue, subVars, txVars, TypeOK
<1>2. ASSUME NEW e \in Event, ExpireLease(e) PROVE TypeOK'
  <2>1. delivery' \in [Event -> Row]
    <3>1. [delivery[e] EXCEPT !.fresh = FALSE] \in Row
      BY RowsTyped DEF TypeOK
    <3>2. delivery' = [delivery EXCEPT ![e] = [delivery[e] EXCEPT !.fresh = FALSE]]
      BY <1>2 DEF ExpireLease, TypeOK
    <3>3. QED
      BY <3>1, <3>2 DEF TypeOK
  <2>2. QED
    BY <1>2, <2>1 DEF ExpireLease, subVars, txVars, TypeOK
<1>3. ASSUME NEW e \in Event, Cleanup(e) PROVE TypeOK'
  BY <1>3, NoRowTyped DEF Cleanup, subVars, txVars, TypeOK
<1>4. CASE OwnerChange
  BY <1>4 DEF OwnerChange, txVars, TypeOK
<1>5. CASE KeyChange
  BY <1>5 DEF KeyChange, txVars, TypeOK
<1>6. QED
  BY <1>1, <1>2, <1>3, <1>4, <1>5 DEF Time

(***************************************************************************)
(* Every variable keeps its type.                                          *)
(***************************************************************************)
THEOREM TypeCorrect == Spec => []TypeOK
<1>1. Init => TypeOK
  <2> SUFFICES ASSUME Init PROVE TypeOK
    OBVIOUS
  <2>1. delivery \in [Event -> Row]
    BY NoRowTyped DEF Init
  <2>2. events \in SUBSET EventKinds
    BY DEF Init
  <2>3. jobs \in [Worker -> SUBSET Job] /\ accepted \in SUBSET Event
    BY DEF Init
  <2>4. QED
    BY <2>1, <2>2, <2>3 DEF Init, TypeOK, States
<1>2. TypeOK /\ [Next]_vars => TypeOK'
  <2> SUFFICES ASSUME TypeOK, [Next]_vars PROVE TypeOK'
    OBVIOUS
  <2>1. CASE UNCHANGED vars
    BY <2>1 DEF vars, subVars, txVars, TypeOK
  <2>2. QED
    BY <2>1, TransactionTyped, WorkTyped, OwnerTyped, SurroundingsTyped DEF Next
<1>3. QED
  BY <1>1, <1>2, PTL DEF Spec

-----------------------------------------------------------------------------
(***************************************************************************)
(* An overflow stays visible until the owner acknowledges the gap: only    *)
(* the end of the transaction that overflowed, Resume and Remove touch     *)
(* overflow_at, and nobody else moves the subscription out of overflow.    *)
(***************************************************************************)
THEOREM GapVisible == Spec => []GapStaysVisible
<1>1. Init => GapStaysVisible
  BY DEF Init, GapStaysVisible
<1>2. TypeOK /\ GapStaysVisible /\ [Next]_vars => GapStaysVisible'
  <2> SUFFICES ASSUME TypeOK, GapStaysVisible, [Next]_vars PROVE GapStaysVisible'
    OBVIOUS
  <2>1. ASSUME NEW t \in Tx, Transaction(t) PROVE GapStaysVisible'
    BY <2>1 DEF Transaction, Commit, Abort, RowEvent, subVars, GapStaysVisible
  <2>2. ASSUME NEW w \in Worker, Work(w) \/ DropJob(w) PROVE GapStaysVisible'
    BY <2>2 DEF Work, DropJob, Claim, ClaimWithoutKey, PrepareSend, Send, Acknowledge,
                subVars, GapStaysVisible
  <2>3. CASE Owner
    BY <2>3 DEF Owner, Pause, Resume, Rotate, Remove, Retry, subVars, GapStaysVisible
  <2>4. CASE Time \/ OwnerChange \/ KeyChange \/ \E e \in Event : Cleanup(e)
    BY <2>4 DEF Time, BecomeDue, ExpireLease, OwnerChange, KeyChange, Cleanup,
                subVars, GapStaysVisible
  <2>5. CASE UNCHANGED vars
    BY <2>5 DEF vars, subVars, GapStaysVisible
  <2>6. QED
    BY <2>1, <2>2, <2>3, <2>4, <2>5 DEF Next
<1>3. QED
  BY <1>1, <1>2, TypeCorrect, PTL DEF Spec

-----------------------------------------------------------------------------
(***************************************************************************)
(* What one step can do to the lease and the attempts of a delivery row:   *)
(* nothing, a new lease for one more attempt, a manual retry, or a row     *)
(* that starts or goes.                                                    *)
(***************************************************************************)
SameCounts(e) ==
  /\ delivery'[e].token = delivery[e].token
  /\ delivery'[e].attempts = delivery[e].attempts
  /\ delivery'[e].status = "none" <=> delivery[e].status = "none"
  /\ retried'[e] = retried[e]

Leased(e) ==
  /\ delivery[e].status # "none" /\ delivery[e].attempts < MaxAttempts
  /\ delivery'[e].token = delivery[e].token + 1
  /\ delivery'[e].attempts = delivery[e].attempts + 1
  /\ delivery'[e].status # "none"
  /\ retried'[e] = retried[e]

Retried(e) ==
  /\ delivery[e].status # "none"
  /\ delivery'[e].token = delivery[e].token
  /\ delivery'[e].attempts = 0
  /\ delivery'[e].status # "none"
  /\ retried'[e] = retried[e] + 1

Started(e) ==
  /\ txState[e[1]] = "open" /\ txState'[e[1]] = "done"
  /\ delivery'[e].token = 0 /\ delivery'[e].attempts = 0
  /\ retried'[e] = retried[e]

Gone(e) == delivery'[e] = NoRow /\ retried'[e] = retried[e]

RowStep(e) == SameCounts(e) \/ Leased(e) \/ Retried(e) \/ Started(e) \/ Gone(e)

(* Every step does to every delivery row one of these. *)
LEMMA RowSteps ==
  ASSUME TypeOK, [Next]_vars, NEW e \in Event
  PROVE  RowStep(e)
<1>1. ASSUME NEW t \in Tx, Transaction(t) PROVE RowStep(e)
  <2>1. CASE Commit(t)
    BY <2>1 DEF Commit, EndTx, NewRow, TypeOK, RowStep, SameCounts, Started, Event
  <2>2. CASE Abort(t)
    BY <2>2 DEF Abort, EndTx, RowStep, SameCounts
  <2>3. ASSUME NEW r \in Record, NEW k \in EventKinds, RowEvent(t, r, k)
        PROVE  RowStep(e)
    BY <2>3 DEF RowEvent, RowStep, SameCounts
  <2>4. QED
    BY <1>1, <2>1, <2>2, <2>3 DEF Transaction
<1>2. ASSUME NEW w \in Worker, Work(w) \/ DropJob(w) PROVE RowStep(e)
  <2>1. CASE Claim(w)
    <3>1. PICK P \in SUBSET Claimable : delivery' = [x \in Event |->
            IF x \in P THEN LeasedRow(delivery[x])
            ELSE IF x \in Exhausted THEN [delivery[x] EXCEPT !.status = "dead"]
            ELSE delivery[x]]
      BY <2>1 DEF Claim
    <3>2. retried' = retried
      BY <2>1 DEF Claim
    <3>3. CASE e \in P
      BY <3>1, <3>2, <3>3 DEF Claimable, LeasedRow, TypeOK, Row, RowStep, Leased
    <3>4. CASE e \notin P
      BY <3>1, <3>2, <3>4 DEF Exhausted, TypeOK, Row, RowStep, SameCounts
    <3>5. QED
      BY <3>3, <3>4
  <2>2. CASE ClaimWithoutKey(w) \/ PrepareSend(w) \/ Send(w) \/ DropJob(w)
    BY <2>2 DEF ClaimWithoutKey, PrepareSend, Send, DropJob, RowStep, SameCounts
  <2>3. CASE Acknowledge(w)
    <3>1. PICK j \in jobs[w] :
            delivery' = IF HoldsLease(j)
                          THEN [delivery EXCEPT ![j.id] = Settled(@, j.phase)]
                          ELSE delivery
      BY <2>3 DEF Acknowledge
    <3>2. retried' = retried
      BY <2>3 DEF Acknowledge
    <3>3. QED
      BY <3>1, <3>2 DEF HoldsLease, Settled, TypeOK, Row, RowStep, SameCounts
  <2>4. QED
    BY <1>2, <2>1, <2>2, <2>3 DEF Work
<1>3. CASE Owner
  <2>1. CASE InvalidateLeases /\ retried' = retried
    BY <2>1 DEF InvalidateLeases, Invalidated, TypeOK, Row, RowStep, SameCounts
  <2>2. CASE Remove
    BY <2>2 DEF Remove, RowStep, Gone
  <2>3. ASSUME NEW x \in Event, Retry(x) PROVE RowStep(e)
    BY <2>3 DEF Retry, TypeOK, Row, RowStep, SameCounts, Retried
  <2>4. QED
    BY <1>3, <2>1, <2>2, <2>3 DEF Owner, Pause, Rotate, Resume
<1>4. CASE Time \/ OwnerChange \/ KeyChange
  BY <1>4 DEF Time, BecomeDue, ExpireLease, OwnerChange, KeyChange, TypeOK, Row,
              RowStep, SameCounts
<1>5. ASSUME NEW x \in Event, Cleanup(x) PROVE RowStep(e)
  BY <1>5 DEF Cleanup, TypeOK, RowStep, SameCounts, Gone
<1>6. CASE UNCHANGED vars
  BY <1>6 DEF vars, RowStep, SameCounts
<1>7. QED
  BY <1>1, <1>2, <1>3, <1>4, <1>5, <1>6 DEF Next

-----------------------------------------------------------------------------
(***************************************************************************)
(* The leases a row ever had are the attempts since the last retry and a   *)
(* full budget for every retry before it.                                  *)
(***************************************************************************)
BudgetInv ==
  \A e \in Event :
    /\ delivery[e].attempts <= MaxAttempts
    /\ delivery[e].token <= MaxAttempts * retried[e] + delivery[e].attempts

(* One retry more is one full budget more. *)
LEMMA OneMore == \A m, n \in Nat : /\ m * n \in Nat
                                   /\ m * (n + 1) = m * n + m
                                   /\ m * (1 + n) = m * n + m
  OBVIOUS

(***************************************************************************)
(* A delivery is sent at most MaxAttempts times per retry of its owner.    *)
(***************************************************************************)
THEOREM SendsBounded == Spec => []SendBudget
<1>1. Init => BudgetInv
  BY WebhooksAssumption, OneMore DEF Init, BudgetInv, NoRow
<1>2. TypeOK /\ TypeOK' /\ BudgetInv /\ [Next]_vars => BudgetInv'
  <2> SUFFICES ASSUME TypeOK, TypeOK', BudgetInv, [Next]_vars, NEW e \in Event
               PROVE  /\ delivery'[e].attempts <= MaxAttempts
                      /\ delivery'[e].token <= MaxAttempts * retried'[e] + delivery'[e].attempts
    BY DEF BudgetInv
  <2> DEFINE full == MaxAttempts * retried[e]
             full1 == MaxAttempts * retried'[e]
  <2>1. /\ delivery[e].attempts \in Nat /\ delivery[e].token \in Nat
        /\ delivery[e].attempts <= MaxAttempts
        /\ delivery[e].token <= full + delivery[e].attempts
    BY DEF TypeOK, Row, BudgetInv
  <2>2. MaxAttempts \in Nat \ {0} /\ full \in Nat /\ full1 \in Nat
    BY WebhooksAssumption, OneMore DEF TypeOK
  <2>3. retried'[e] = retried[e] + 1 => full1 = full + MaxAttempts
    BY WebhooksAssumption, OneMore DEF TypeOK
  <2>4. retried'[e] = retried[e] => full1 = full
    OBVIOUS
  <2> HIDE DEF full, full1
  <2>5. delivery'[e].attempts <= MaxAttempts /\ delivery'[e].token <= full1 + delivery'[e].attempts
    BY <2>1, <2>2, <2>3, <2>4, RowSteps
       DEF RowStep, SameCounts, Leased, Retried, Started, Gone, NoRow
  <2>6. QED
    BY <2>5 DEF full1
<1>3. TypeOK /\ BudgetInv => SendBudget
  <2> SUFFICES ASSUME TypeOK, BudgetInv, NEW e \in Event
               PROVE  /\ delivery[e].attempts <= MaxAttempts
                      /\ delivery[e].token <= MaxAttempts * (1 + retried[e])
    BY DEF SendBudget
  <2> DEFINE full == MaxAttempts * retried[e]
  <2>1. full \in Nat /\ MaxAttempts * (1 + retried[e]) = full + MaxAttempts
    BY WebhooksAssumption, OneMore DEF TypeOK
  <2>2. /\ delivery[e].attempts \in Nat /\ delivery[e].token \in Nat
        /\ delivery[e].attempts <= MaxAttempts
        /\ delivery[e].token <= full + delivery[e].attempts
    BY DEF TypeOK, Row, BudgetInv
  <2> HIDE DEF full
  <2>3. QED
    BY <2>1, <2>2, WebhooksAssumption
<1>4. QED
  BY <1>1, <1>2, <1>3, TypeCorrect, PTL DEF Spec

-----------------------------------------------------------------------------
(***************************************************************************)
(* Why leases are exclusive: a job's token is not above its row's, so the  *)
(* next lease has a token no job has; and a row that went does not return, *)
(* because its transaction is over.                                        *)
(***************************************************************************)
LeaseInv ==
  /\ OneLeaseHolder
  /\ \A w \in Worker : \A j \in jobs[w] :
       /\ txState[j.id[1]] = "done"
       /\ delivery[j.id].status # "none" => j.token <= delivery[j.id].token
  /\ \A e \in Event : delivery[e].status # "none" => txState[e[1]] = "done"

(* A transaction that is over stays so. *)
LEMMA DoneStays ==
  ASSUME TypeOK, [Next]_vars, NEW t \in Tx, txState[t] = "done"
  PROVE  txState'[t] = "done"
<1>1. ASSUME NEW u \in Tx, Transaction(u) PROVE txState'[t] = "done"
  BY <1>1 DEF Transaction, Commit, Abort, EndTx, RowEvent, TypeOK
<1>2. CASE UNCHANGED txVars
  BY <1>2 DEF txVars
<1>3. QED
  BY <1>1, <1>2 DEF Next, Work, DropJob, Claim, ClaimWithoutKey, PrepareSend, Send,
     Acknowledge, Cleanup, Owner, Pause, Resume, Rotate, Remove, Retry, Time,
     BecomeDue, ExpireLease, OwnerChange, KeyChange, vars, txVars

(* A row appears when its transaction ends, and at no other time. *)
LEMMA RowsAreOver ==
  ASSUME TypeOK, LeaseInv, [Next]_vars, NEW e \in Event, delivery'[e].status # "none"
  PROVE  txState'[e[1]] = "done"
<1>1. e[1] \in Tx
  BY DEF Event
<1>2. CASE Started(e)
  BY <1>2 DEF Started
<1>3. CASE ~Started(e)
  <2>1. delivery[e].status # "none"
    BY <1>3, RowSteps DEF RowStep, SameCounts, Leased, Retried, Gone, NoRow
  <2>2. QED
    BY <1>1, <2>1, DoneStays DEF LeaseInv
<1>4. QED
  BY <1>2, <1>3

(* The row of a job that is there after a step was there before it, and *)
(* its token has not fallen.                                            *)
LEMMA TokensRise ==
  ASSUME TypeOK, TypeOK', [Next]_vars, NEW e \in Event,
         txState[e[1]] = "done", delivery'[e].status # "none"
  PROVE  delivery[e].status # "none" /\ delivery[e].token <= delivery'[e].token
<1>1. delivery[e].token \in Nat
  BY DEF TypeOK, Row
<1>2. QED
  BY <1>1, RowSteps DEF RowStep, SameCounts, Leased, Retried, Started, Gone, NoRow

(***************************************************************************)
(* No two sends ever hold the same lease.                                  *)
(***************************************************************************)
THEOREM LeasesExclusive == Spec => []OneLeaseHolder
<1>1. Init => LeaseInv
  BY DEF Init, LeaseInv, OneLeaseHolder, NoRow
<1>2. TypeOK /\ TypeOK' /\ LeaseInv /\ [Next]_vars => LeaseInv'
  <2> SUFFICES ASSUME TypeOK, TypeOK', LeaseInv, [Next]_vars PROVE LeaseInv'
    OBVIOUS
  <2>1. \A e \in Event : delivery'[e].status # "none" => txState'[e[1]] = "done"
    BY RowsAreOver
  <2>2. ASSUME NEW j \in Job, txState[j.id[1]] = "done",
               delivery[j.id].status # "none" => j.token <= delivery[j.id].token
        PROVE  /\ txState'[j.id[1]] = "done"
               /\ delivery'[j.id].status # "none" => j.token <= delivery'[j.id].token
    <3>1. j.id \in Event /\ j.id[1] \in Tx /\ j.token \in Nat
      BY DEF Job, Event
    <3>2. delivery[j.id].token \in Nat /\ delivery'[j.id].token \in Nat
      BY <3>1 DEF TypeOK, Row
    <3>3. QED
      BY <2>2, <3>1, <3>2, DoneStays, TokensRise
  <2>3. CASE UNCHANGED jobs
    <3>1. OneLeaseHolder'
      BY <2>3 DEF LeaseInv, OneLeaseHolder
    <3>2. \A w \in Worker : \A j \in jobs'[w] : j \in Job /\ j \in jobs[w]
      BY <2>3 DEF TypeOK
    <3>3. QED
      BY <2>1, <2>2, <3>1, <3>2 DEF LeaseInv
  <2>4. ASSUME NEW w \in Worker, NEW j \in jobs[w], NEW S, SetJob(w, j, S),
               \A i \in S : i \in Job /\ i.id = j.id /\ i.token = j.token,
               \A h, i \in S : h = i
        PROVE  LeaseInv'
    <3>1. jobs' = [jobs EXCEPT ![w] = (@ \ {j}) \cup S]
      BY <2>4 DEF SetJob
    <3>2. ASSUME NEW v \in Worker, NEW i \in jobs'[v]
          PROVE  i \in Job /\ \/ i \in jobs[v] /\ (v = w => i # j)
                              \/ v = w /\ i \in S
      BY <2>4, <3>1, <3>2 DEF TypeOK
    <3>3. \A u, v \in Worker : \A h \in jobs[u], i \in jobs[v] :
            h.id = i.id /\ h.token = i.token => u = v /\ h = i
      BY DEF LeaseInv, OneLeaseHolder
    <3>4. OneLeaseHolder'
      <4> SUFFICES ASSUME NEW u \in Worker, NEW v \in Worker,
                          NEW h \in jobs'[u], NEW i \in jobs'[v],
                          h.id = i.id, h.token = i.token
                   PROVE  u = v /\ h = i
        BY DEF OneLeaseHolder
      <4>1. CASE h \in jobs[u] /\ (u = w => h # j) /\ i \in jobs[v] /\ (v = w => i # j)
        BY <3>3, <4>1
      <4>2. CASE u = w /\ h \in S /\ i \in jobs[v] /\ (v = w => i # j)
        BY <2>4, <3>3, <4>2
      <4>3. CASE h \in jobs[u] /\ (u = w => h # j) /\ v = w /\ i \in S
        BY <2>4, <3>3, <4>3
      <4>4. CASE u = w /\ h \in S /\ v = w /\ i \in S
        BY <2>4, <4>4
      <4>5. QED
        BY <3>2, <4>1, <4>2, <4>3, <4>4
    <3>5. ASSUME NEW v \in Worker, NEW i \in jobs'[v]
          PROVE  /\ txState'[i.id[1]] = "done"
                 /\ delivery'[i.id].status # "none" => i.token <= delivery'[i.id].token
      <4>1. /\ i \in Job
            /\ txState[i.id[1]] = "done"
            /\ delivery[i.id].status # "none" => i.token <= delivery[i.id].token
        BY <2>4, <3>2, <3>5 DEF LeaseInv
      <4>2. QED
        BY <2>2, <4>1
    <3>6. QED
      BY <2>1, <3>4, <3>5 DEF LeaseInv
  <2>5. ASSUME NEW w \in Worker, NEW j \in jobs[w], NEW i \in Job,
                SetJob(w, j, {i}), i.id = j.id, i.token = j.token
         PROVE  LeaseInv'
    <3> DEFINE S == {i}
    <3>1. SetJob(w, j, S) /\ \A h \in S : h = i
      BY <2>5
    <3> HIDE DEF S
    <3>2. QED
      BY <2>4, <2>5, <3>1
  <2>6. ASSUME NEW w \in Worker, Claim(w) PROVE LeaseInv'
    <3>1. PICK P \in SUBSET Claimable :
            /\ delivery' = [e \in Event |->
                 IF e \in P THEN LeasedRow(delivery[e])
                 ELSE IF e \in Exhausted THEN [delivery[e] EXCEPT !.status = "dead"]
                 ELSE delivery[e]]
            /\ jobs' = [jobs EXCEPT ![w] =
                 {[id |-> e, token |-> delivery[e].token + 1, phase |-> "claimed"] : e \in P}]
      BY <2>6 DEF Claim
    <3>2. ASSUME NEW v \in Worker, NEW i \in jobs'[v]
          PROVE  \/ i \in jobs[v]
                 \/ v = w /\ i.id \in P /\ i.token = delivery[i.id].token + 1
                          /\ i.phase = "claimed"
      BY <3>1, <3>2 DEF TypeOK
    <3>3. ASSUME NEW e \in P
          PROVE  /\ e \in Event /\ delivery[e].status # "none" /\ txState[e[1]] = "done"
                 /\ delivery[e].token \in Nat
                 /\ delivery'[e].token = delivery[e].token + 1
      <4>1. e \in Event /\ delivery[e].status # "none"
        BY DEF Claimable
      <4>2. txState[e[1]] = "done" /\ delivery[e] \in Row
        BY <4>1 DEF LeaseInv, TypeOK
      <4>3. delivery'[e] = LeasedRow(delivery[e])
        BY <3>1, <4>1
      <4>4. QED
        BY <4>1, <4>2, <4>3 DEF Row, LeasedRow
    <3>4. ASSUME NEW v \in Worker, NEW i \in jobs[v], i.id \in P
          PROVE  i.token # delivery[i.id].token + 1
      <4>1. i.token <= delivery[i.id].token /\ i.token \in Nat
        BY <3>3, <3>4 DEF LeaseInv, TypeOK, Job
      <4>2. QED
        BY <3>3, <3>4, <4>1
    <3>5. \A u, v \in Worker : \A h \in jobs[u], i \in jobs[v] :
            h.id = i.id /\ h.token = i.token => u = v /\ h = i
      BY DEF LeaseInv, OneLeaseHolder
    <3>6. \A v \in Worker : \A i \in jobs'[v] : i \in Job
      BY DEF TypeOK
    <3>7. OneLeaseHolder'
      <4> SUFFICES ASSUME NEW u \in Worker, NEW v \in Worker,
                          NEW h \in jobs'[u], NEW i \in jobs'[v],
                          h.id = i.id, h.token = i.token
                   PROVE  u = v /\ h = i
        BY DEF OneLeaseHolder
      <4>1. CASE h \in jobs[u] /\ i \in jobs[v]
        BY <3>5, <4>1
      <4>2. CASE h \in jobs[u] /\ i \notin jobs[v]
        BY <3>2, <3>4, <4>2
      <4>3. CASE h \notin jobs[u] /\ i \in jobs[v]
        BY <3>2, <3>4, <4>3
      <4>4. CASE h \notin jobs[u] /\ i \notin jobs[v]
        <5>1. u = w /\ v = w /\ h.phase = i.phase
          BY <3>2, <4>4
        <5>2. h \in Job /\ i \in Job
          BY <3>6
        <5>3. QED
          BY <5>1, <5>2 DEF Job
      <4>5. QED
        BY <4>1, <4>2, <4>3, <4>4
    <3>8. ASSUME NEW v \in Worker, NEW i \in jobs'[v]
          PROVE  /\ txState'[i.id[1]] = "done"
                 /\ delivery'[i.id].status # "none" => i.token <= delivery'[i.id].token
      <4>1. CASE i \in jobs[v]
        BY <2>2, <3>6, <4>1 DEF LeaseInv
      <4>2. CASE i.id \in P /\ i.token = delivery[i.id].token + 1
        <5>1. i.id[1] \in Tx
          BY <3>3, <4>2 DEF Event
        <5>2. QED
          BY <3>3, <4>2, <5>1, DoneStays
      <4>3. QED
        BY <3>2, <4>1, <4>2
    <3>9. QED
      BY <2>1, <3>7, <3>8 DEF LeaseInv
  <2>7. ASSUME NEW w \in Worker, PrepareSend(w) PROVE LeaseInv'
    <3>1. PICK j \in jobs[w] :
            SetJob(w, j, {}) \/ SetJob(w, j, {[j EXCEPT !.phase = "ready"]})
      BY <2>7 DEF PrepareSend
    <3>2. [j EXCEPT !.phase = "ready"] \in Job
      BY DEF TypeOK, Job
    <3>3. /\ [j EXCEPT !.phase = "ready"].id = j.id
          /\ [j EXCEPT !.phase = "ready"].token = j.token
      BY DEF TypeOK, Job
    <3>4. CASE SetJob(w, j, {})
      BY <2>4, <3>4
    <3>5. CASE SetJob(w, j, {[j EXCEPT !.phase = "ready"]})
      BY <2>5, <3>2, <3>3, <3>5
    <3>6. QED
      BY <3>1, <3>4, <3>5
  <2>8. ASSUME NEW w \in Worker, Send(w) PROVE LeaseInv'
    <3>1. PICK j \in jobs[w], o \in Outcomes : SetJob(w, j, {[j EXCEPT !.phase = o]})
      BY <2>8 DEF Send
    <3>2. [j EXCEPT !.phase = o] \in Job
      BY DEF TypeOK, Job
    <3>3. [j EXCEPT !.phase = o].id = j.id /\ [j EXCEPT !.phase = o].token = j.token
      BY DEF TypeOK, Job
    <3>4. QED
      BY <2>5, <3>1, <3>2, <3>3
  <2>9. ASSUME NEW w \in Worker, Acknowledge(w) \/ DropJob(w) PROVE LeaseInv'
    <3>1. PICK j \in jobs[w] : SetJob(w, j, {})
      BY <2>9 DEF Acknowledge, DropJob
    <3>2. QED
      BY <2>4, <3>1
  <2>10. ASSUME NEW w \in Worker, Work(w) \/ DropJob(w) PROVE LeaseInv'
    BY <2>3, <2>6, <2>7, <2>8, <2>9, <2>10 DEF Work, ClaimWithoutKey
  <2>11. ASSUME NEW t \in Tx, Transaction(t) PROVE jobs' = jobs
    BY <2>11 DEF Transaction, Commit, Abort, EndTx, RowEvent
  <2>12. CASE Owner \/ Time \/ OwnerChange \/ KeyChange \/ \E e \in Event : Cleanup(e)
    BY <2>3, <2>12 DEF Owner, Pause, Resume, Rotate, Remove, Retry, Time, BecomeDue,
       ExpireLease, OwnerChange, KeyChange, Cleanup
  <2>13. CASE UNCHANGED vars
    BY <2>3, <2>13 DEF vars
  <2>14. QED
    BY <2>3, <2>10, <2>11, <2>12, <2>13 DEF Next
<1>3. LeaseInv => OneLeaseHolder
  BY DEF LeaseInv
<1>4. QED
  BY <1>1, <1>2, <1>3, TypeCorrect, PTL DEF Spec

-----------------------------------------------------------------------------
(***************************************************************************)
(* The queue.  Only the holder of the subscription row has drafts, so the  *)
(* count its trigger took stays true until it commits, and its commit      *)
(* turns drafts into queued rows one for one.                              *)
(***************************************************************************)
BoundInv == QueueBounded /\ (holder = NoTx => Drafts = {})

(* Queue and drafts are finite, before a step and after. *)
LEMMA FiniteQueues ==
  /\ IsFiniteSet(Queue) /\ Cardinality(Queue) \in Nat
  /\ IsFiniteSet(Drafts) /\ Cardinality(Drafts) \in Nat
  /\ IsFiniteSet(Queue') /\ Cardinality(Queue') \in Nat
  /\ IsFiniteSet(Drafts') /\ Cardinality(Drafts') \in Nat
<1>1. IsFiniteSet(Event)
  BY WebhooksAssumption, FS_Product DEF Event
<1>2. Queue \in SUBSET Event /\ Drafts \in SUBSET Record
  BY DEF Queue, WithStatus, Drafts
<1>3. Queue' \in SUBSET Event /\ Drafts' \in SUBSET Record
  BY DEF Queue, WithStatus, Drafts
<1>4. QED
  BY <1>1, <1>2, <1>3, WebhooksAssumption, FS_Subset, FS_CardinalityType

(* A set with at most one new element has at most one more. *)
LEMMA OneElementMore ==
  ASSUME NEW S, IsFiniteSet(S), NEW x, NEW T \in SUBSET (S \cup {x})
  PROVE  Cardinality(T) <= Cardinality(S) + 1
<1>1. Cardinality(S) \in Nat
  BY FS_CardinalityType
<1>2. /\ IsFiniteSet(S \cup {x})
      /\ Cardinality(S \cup {x}) = IF x \in S THEN Cardinality(S) ELSE Cardinality(S) + 1
  BY FS_AddElement
<1>3. IsFiniteSet(T) /\ Cardinality(T) <= Cardinality(S \cup {x})
  BY <1>2, FS_Subset
<1>4. Cardinality(T) \in Nat
  BY <1>3, FS_CardinalityType
<1>5. Cardinality(S \cup {x}) <= Cardinality(S) + 1 /\ Cardinality(S \cup {x}) \in Nat
  BY <1>1, <1>2
<1>6. QED
  BY <1>1, <1>3, <1>4, <1>5

(* If no row enters the queue, the queue does not grow. *)
LEMMA QueueShrinks ==
  ASSUME \A e \in Event : delivery'[e].status \in {"pending", "leased"} =>
                            delivery[e].status \in {"pending", "leased"}
  PROVE  Queue' \subseteq Queue
  BY DEF Queue, WithStatus

(* A step that adds nothing to either keeps the bound. *)
LEMMA Shrinks ==
  ASSUME TypeOK, BoundInv, TypeOK', Queue' \subseteq Queue, Drafts' \subseteq Drafts,
         UNCHANGED holder
  PROVE  BoundInv'
<1>1. Cardinality(Queue') <= Cardinality(Queue) /\ Cardinality(Drafts') <= Cardinality(Drafts)
  BY FiniteQueues, FS_Subset
<1>2. /\ Cardinality(Queue') \in Nat /\ Cardinality(Drafts') \in Nat
      /\ Cardinality(Queue) \in Nat /\ Cardinality(Drafts) \in Nat
  BY FiniteQueues
<1>3. QueueBounded'
  BY <1>1, <1>2, WebhooksAssumption DEF BoundInv, QueueBounded
<1>4. QED
  BY <1>3 DEF BoundInv

(* Committed drafts become queued rows, at most one each. *)
LEMMA CommitMoves ==
  ASSUME TypeOK, BoundInv, NEW t \in Tx, Commit(t), TypeOK'
  PROVE  BoundInv'
<1>1. CASE holder # t
  <2>1. Queue' \subseteq Queue
    BY <1>1 DEF Commit, EndTx, Draft, Queue, WithStatus
  <2>2. Drafts' \subseteq Drafts /\ UNCHANGED holder
    BY <1>1 DEF Commit, EndTx, Drafts
  <2>3. QED
    BY <2>1, <2>2, Shrinks
<1>2. CASE holder = t
  <2> DEFINE moved == {<<t, r>> : r \in Drafts}
             move == [r \in Drafts |-> <<t, r>>]
  <2>1. move \in Surjection(Drafts, moved)
    BY DEF Surjection
  <2>2. IsFiniteSet(moved) /\ Cardinality(moved) <= Cardinality(Drafts)
    BY <2>1, FiniteQueues, FS_Surjection
  <2>3. Cardinality(moved) \in Nat
    BY <2>2, FS_CardinalityType
  <2>4. Queue' \in SUBSET (Queue \cup moved)
    <3> SUFFICES ASSUME NEW e \in Queue', e \notin Queue PROVE e \in moved
      OBVIOUS
    <3>1. e \in Event /\ e[1] = t /\ Draft(t, e[2]) # "none"
      BY DEF Commit, Queue, WithStatus
    <3>2. e = <<t, e[2]>> /\ e[2] \in Record
      BY <3>1 DEF Event
    <3>3. e[2] \in Drafts
      BY <1>2, <3>1, <3>2 DEF Draft, Drafts
    <3>4. QED
      BY <3>2, <3>3
  <2> HIDE DEF moved
  <2>5. /\ IsFiniteSet(Queue \cup moved)
        /\ Cardinality(Queue \cup moved) =
             Cardinality(Queue) + Cardinality(moved) - Cardinality(Queue \cap moved)
    BY <2>2, FiniteQueues, FS_Union
  <2>6. Cardinality(Queue \cap moved) \in Nat
    BY FiniteQueues, FS_Subset, FS_CardinalityType
  <2>7. Cardinality(Queue') <= Cardinality(Queue \cup moved)
    BY <2>4, <2>5, FS_Subset
  <2>8. Drafts' = {}
    BY <1>2 DEF Commit, EndTx, Drafts
  <2>9. Cardinality(Drafts') = 0
    BY <2>8, FS_EmptySet
  <2>10. Cardinality(Queue') \in Nat
    BY FiniteQueues
  <2>11. QueueBounded'
    BY <2>2, <2>3, <2>5, <2>6, <2>7, <2>9, <2>10, FiniteQueues, WebhooksAssumption
       DEF BoundInv, QueueBounded
  <2>12. QED
    BY <2>8, <2>11 DEF BoundInv
<1>3. QED
  BY <1>1, <1>2

(* The trigger counts queue and drafts under the row lock before it adds. *)
LEMMA TriggerBounded ==
  ASSUME TypeOK, BoundInv, NEW t \in Tx, NEW r \in Record, NEW k \in EventKinds,
         RowEvent(t, r, k), TypeOK'
  PROVE  BoundInv'
<1>1. Queue' = Queue
  BY DEF RowEvent, Queue, WithStatus
<1>2. CASE ~Collects(t, r, k)
  <2>1. Drafts' = Drafts /\ UNCHANGED holder
    BY <1>2 DEF RowEvent, Drafts
  <2>2. QED
    BY <1>1, <2>1, Shrinks
<1>3. CASE Collects(t, r, k)
  <2>1. holder' = t /\ t # NoTx /\ Collect(t, r, k)
    BY <1>3, WebhooksAssumption DEF RowEvent
  <2>2. CASE Drafts' \subseteq Drafts
    <3>1. Cardinality(Drafts') <= Cardinality(Drafts) /\ Cardinality(Drafts') \in Nat
      BY <2>2, FiniteQueues, FS_Subset
    <3>2. QED
      BY <1>1, <2>1, <3>1, FiniteQueues, WebhooksAssumption DEF BoundInv, QueueBounded
  <2>3. CASE ~(Drafts' \subseteq Drafts)
    <3>1. draft' = [draft EXCEPT ![r] = k] /\ ~QueueIsFull
      <4>1. CASE QueueEvent(r, k)
        BY <2>3, <4>1 DEF QueueEvent, Drafts
      <4>2. CASE Coalesce(r, k) /\ Draft(t, r) # "none"
        BY <2>3, <4>2 DEF Coalesce, Draft, Drafts, TypeOK
      <4>3. CASE DropChange(r)
        BY <2>3, <4>3 DEF DropChange, Drafts, TypeOK
      <4>4. CASE UNCHANGED <<draft, spilt>>
        BY <2>3, <4>4 DEF Drafts
      <4>5. QED
        BY <2>1, <4>1, <4>2, <4>3, <4>4 DEF Collect
    <3>2. Drafts' \in SUBSET (Drafts \cup {r})
      BY <3>1 DEF Drafts, TypeOK
    <3>3. Cardinality(Drafts') <= Cardinality(Drafts) + 1
      BY <3>2, FiniteQueues, OneElementMore
    <3>4. Cardinality(Queue) + Cardinality(Drafts) < Cap
      BY <3>1, FiniteQueues, WebhooksAssumption DEF QueueIsFull
    <3>5. QueueBounded'
      BY <1>1, <3>3, <3>4, FiniteQueues, WebhooksAssumption DEF QueueBounded
    <3>6. QED
      BY <2>1, <3>5 DEF BoundInv
  <2>4. QED
    BY <2>2, <2>3
<1>4. QED
  BY <1>2, <1>3

(* A retry finds room, and nobody has drafts while it has the lock. *)
LEMMA RetryBounded ==
  ASSUME TypeOK, BoundInv, NEW e \in Event, Retry(e), TypeOK'
  PROVE  BoundInv'
<1>1. holder = NoTx /\ UNCHANGED <<holder, draft>> /\ Cardinality(Queue) < Cap
  BY DEF Retry, Locked, txVars
<1>2. Queue' \in SUBSET (Queue \cup {e})
  BY DEF Retry, Queue, WithStatus, TypeOK
<1>3. Cardinality(Queue') <= Cardinality(Queue) + 1
  BY <1>2, FiniteQueues, OneElementMore
<1>4. Drafts' = {} /\ Cardinality(Drafts') = 0
  BY <1>1, FS_EmptySet DEF BoundInv, Drafts
<1>5. QueueBounded'
  BY <1>1, <1>3, <1>4, FiniteQueues, WebhooksAssumption DEF QueueBounded
<1>6. QED
  BY <1>4, <1>5 DEF BoundInv

(* The strengthened bound is an invariant. *)
LEMMA BoundHolds == Spec => []BoundInv
<1>1. Init => BoundInv
  <2> SUFFICES ASSUME Init PROVE BoundInv
    OBVIOUS
  <2>1. Queue = {} /\ Drafts = {}
    BY DEF Init, Queue, WithStatus, Drafts, NoRow
  <2>2. QED
    BY <2>1, FS_EmptySet, WebhooksAssumption DEF BoundInv, QueueBounded
<1>2. TypeOK /\ TypeOK' /\ BoundInv /\ [Next]_vars => BoundInv'
  <2> SUFFICES ASSUME TypeOK, TypeOK', BoundInv, [Next]_vars PROVE BoundInv'
    OBVIOUS
  <2>1. ASSUME NEW t \in Tx, Abort(t) PROVE BoundInv'
    <3>1. Queue' = Queue
      BY <2>1 DEF Abort, Queue, WithStatus
    <3>2. CASE holder = t
      <4>1. Drafts' = {} /\ Cardinality(Drafts') = 0
        BY <2>1, <3>2, FS_EmptySet DEF Abort, EndTx, Drafts
      <4>2. QED
        BY <3>1, <4>1, FiniteQueues, WebhooksAssumption DEF BoundInv, QueueBounded
    <3>3. CASE holder # t
      BY <2>1, <3>1, <3>3, Shrinks DEF Abort, EndTx, Drafts
    <3>4. QED
      BY <3>2, <3>3
  <2>2. CASE UNCHANGED txVars /\ Queue' \subseteq Queue
    BY <2>2, Shrinks DEF txVars, Drafts
  <2>3. ASSUME NEW w \in Worker, Work(w) \/ DropJob(w) PROVE BoundInv'
    <3>1. CASE Claim(w)
      <4>1. Queue' \subseteq Queue
        <5> SUFFICES ASSUME NEW e \in Event, delivery'[e].status \in {"pending", "leased"}
                     PROVE  delivery[e].status \in {"pending", "leased"}
          BY QueueShrinks
        <5>1. PICK P \in SUBSET Claimable : delivery' = [x \in Event |->
                IF x \in P THEN LeasedRow(delivery[x])
                ELSE IF x \in Exhausted THEN [delivery[x] EXCEPT !.status = "dead"]
                ELSE delivery[x]]
          BY <3>1 DEF Claim
        <5>2. QED
          BY <5>1 DEF Claimable, Exhausted, TypeOK, Row
      <4>2. QED
        BY <2>2, <3>1, <4>1 DEF Claim
    <3>2. CASE Acknowledge(w)
      <4>1. Queue' \subseteq Queue
        BY <3>2 DEF Acknowledge, HoldsLease, Settled, Queue, WithStatus, TypeOK, Row
      <4>2. QED
        BY <2>2, <3>2, <4>1 DEF Acknowledge
    <3>3. CASE ClaimWithoutKey(w) \/ PrepareSend(w) \/ Send(w) \/ DropJob(w)
      BY <2>2, <3>3 DEF ClaimWithoutKey, PrepareSend, Send, DropJob, Queue, WithStatus
    <3>4. QED
      BY <2>3, <3>1, <3>2, <3>3 DEF Work
  <2>4. CASE Pause \/ Rotate \/ Remove \/ \E ack \in BOOLEAN : Resume(ack)
    <3>1. Queue' \subseteq Queue
      <4>1. CASE InvalidateLeases
        BY <4>1, QueueShrinks DEF InvalidateLeases, Invalidated, TypeOK, Row
      <4>2. CASE Remove
        BY <4>2, QueueShrinks DEF Remove, NoRow
      <4>3. QED
        BY <2>4, <4>1, <4>2 DEF Pause, Rotate, Resume
    <3>2. QED
      BY <2>2, <2>4, <3>1 DEF Pause, Rotate, Remove, Resume
  <2>5. CASE Time \/ OwnerChange \/ KeyChange \/ \E e \in Event : Cleanup(e)
    <3>1. Queue' \subseteq Queue
      <4>1. ASSUME NEW e \in Event, BecomeDue(e) \/ ExpireLease(e) \/ Cleanup(e)
            PROVE  Queue' \subseteq Queue
        <5>1. \A x \in Event : x # e => delivery'[x] = delivery[x]
          BY <4>1 DEF BecomeDue, ExpireLease, Cleanup, TypeOK
        <5>2. delivery'[e].status \in {delivery[e].status, "none"}
          <6>1. CASE BecomeDue(e) \/ ExpireLease(e)
            BY <6>1 DEF BecomeDue, ExpireLease, TypeOK, Row
          <6>2. CASE Cleanup(e)
            BY <6>2 DEF Cleanup, NoRow, TypeOK
          <6>3. QED
            BY <4>1, <6>1, <6>2
        <5>3. \A x \in Event : delivery'[x].status \in {"pending", "leased"} =>
                                delivery[x].status \in {"pending", "leased"}
          BY <5>1, <5>2
        <5>4. QED
          BY <5>3, QueueShrinks
      <4>2. CASE OwnerChange \/ KeyChange
        BY <4>2, QueueShrinks DEF OwnerChange, KeyChange
      <4>3. QED
        BY <2>5, <4>1, <4>2 DEF Time
    <3>2. QED
      BY <2>2, <2>5, <3>1 DEF Time, BecomeDue, ExpireLease, OwnerChange, KeyChange, Cleanup
  <2>6. CASE UNCHANGED vars
    BY <2>2, <2>6 DEF vars, Queue, WithStatus
  <2>7. QED
    BY <2>1, <2>3, <2>4, <2>5, <2>6, CommitMoves, TriggerBounded, RetryBounded
       DEF Next, Transaction, Owner
<1>3. QED
  BY <1>1, <1>2, TypeCorrect, PTL DEF Spec

(***************************************************************************)
(* Queued deliveries and what an open transaction is about to add stay     *)
(* within the cap.                                                         *)
(***************************************************************************)
THEOREM QueueStaysBounded == Spec => []QueueBounded
<1>1. BoundInv => QueueBounded
  BY DEF BoundInv
<1>2. QED
  BY <1>1, BoundHolds, PTL

-----------------------------------------------------------------------------
(***************************************************************************)
(* Collection.  What a transaction changed while the subscription was      *)
(* collecting is among its drafts, or it has overflowed, and it holds the  *)
(* subscription either way.                                                *)
(***************************************************************************)
CollectInv ==
  \A t \in Tx : \A r \in Expected(t) :
    r \in missed[t] \/ (holder = t /\ (draft[r] # "none" \/ spilt))

(* The trigger collects what it is told, or overflows. *)
LEMMA TriggerCollects ==
  ASSUME TypeOK, CollectInv, NEW t \in Tx, NEW r \in Record, NEW k \in EventKinds,
         RowEvent(t, r, k)
  PROVE  CollectInv'
<1> SUFFICES ASSUME NEW u \in Tx, NEW x \in Expected(u)', x \notin missed'[u]
             PROVE  holder' = u /\ (draft'[x] # "none" \/ spilt')
  BY DEF CollectInv
<1>1. x \in Record /\ events' = events /\ NoTx \notin Tx
  BY WebhooksAssumption DEF RowEvent, subVars, Expected, TypeOK
<1>2. CASE u # t
  <2>1. x \in Expected(u) /\ x \notin missed[u]
    BY <1>1, <1>2 DEF RowEvent, Expected, TypeOK
  <2>2. holder = u /\ (draft[x] # "none" \/ spilt)
    BY <2>1 DEF CollectInv
  <2>3. QED
    BY <1>1, <1>2, <2>2 DEF RowEvent
<1>3. CASE u = t /\ x # r
  <2>1. x \in Expected(t) /\ x \notin missed[t]
    BY <1>1, <1>3 DEF RowEvent, Expected, TypeOK
  <2>2. holder = t /\ (draft[x] # "none" \/ spilt)
    BY <2>1 DEF CollectInv
  <2>3. CASE Collect(t, r, k)
    BY <1>1, <1>3, <2>2, <2>3
       DEF RowEvent, Collect, Coalesce, QueueEvent, DropChange, TypeOK
  <2>4. CASE ~Collect(t, r, k)
    BY <1>3, <2>2, <2>4 DEF RowEvent
  <2>5. QED
    BY <2>3, <2>4
<1>4. CASE u = t /\ x = r
  <2>1. state = "active"
    BY <1>4 DEF RowEvent, TypeOK
  <2>2. r \notin doomed[t]
    BY DEF RowEvent, RecordIsFree
  <2>3. k \in events
    BY <1>1, <1>4, <2>2 DEF RowEvent, Expected, EventKinds, TypeOK
  <2>4. CASE Collects(t, r, k)
    <3>1. holder' = t /\ Collect(t, r, k)
      BY <2>4 DEF RowEvent
    <3>2. CASE Draft(t, r) # "none"
      BY <1>4, <2>3, <3>1, <3>2 DEF Collect, Coalesce, Draft, TypeOK, EventKinds
    <3>3. CASE Draft(t, r) = "none"
      BY <1>4, <2>3, <2>4, <3>1, <3>3
         DEF Collects, Collect, QueueEvent, TypeOK, EventKinds
    <3>4. QED
      BY <3>2, <3>3
  <2>5. CASE ~Collects(t, r, k)
    BY <1>4, <2>1, <2>5 DEF Collects, StateSeenBy, RowEvent
  <2>6. QED
    BY <2>4, <2>5
<1>5. QED
  BY <1>2, <1>3, <1>4

(***************************************************************************)
(* What commits is in the queue, unless the subscription overflows or was  *)
(* not collecting when the change was made.                                *)
(***************************************************************************)
THEOREM CommitsCollected == Spec => EventsCollected
<1>1. Init => CollectInv
  BY DEF Init, CollectInv, Expected
<1>2. TypeOK /\ CollectInv /\ [Next]_vars => CollectInv'
  <2> SUFFICES ASSUME TypeOK, CollectInv, [Next]_vars PROVE CollectInv'
    OBVIOUS
  <2>1. ASSUME NEW t \in Tx, EndTx(t), doomed' = doomed \/ doomed' = [doomed EXCEPT ![t] = {}]
        PROVE  CollectInv'
    <3> SUFFICES ASSUME NEW u \in Tx, NEW x \in Expected(u)', x \notin missed'[u]
                 PROVE  holder' = u /\ (draft'[x] # "none" \/ spilt')
      BY DEF CollectInv
    <3>1. u # t
      BY <2>1 DEF EndTx, Expected, TypeOK
    <3>2. x \in Expected(u) /\ x \notin missed[u]
      BY <2>1, <3>1 DEF EndTx, Expected, TypeOK
    <3>3. QED
      BY <2>1, <3>1, <3>2 DEF CollectInv, EndTx
  <2>2. CASE UNCHANGED <<txVars, events>>
    BY <2>2 DEF txVars, CollectInv, Expected
  <2>3. QED
    BY <2>1, <2>2, TriggerCollects
       DEF Next, Transaction, Commit, Abort, Work, DropJob, Claim, ClaimWithoutKey,
           PrepareSend, Send, Acknowledge, Cleanup, Owner, Pause, Resume, Rotate, Remove,
           Retry, Time, BecomeDue, ExpireLease, OwnerChange, KeyChange, vars, subVars
<1>3. TypeOK /\ CollectInv /\ [Next]_vars => [\A t \in Tx : Commit(t) => CollectedOrOverflown(t)]_vars
  <2> SUFFICES ASSUME TypeOK, CollectInv, NEW t \in Tx, Commit(t),
                      NEW r \in Expected(t), r \notin missed[t]
               PROVE  Queued(t, r) \/ state' = "overflow"
    BY DEF CollectedOrOverflown
  <2>1. r \in Record /\ holder = t /\ (draft[r] # "none" \/ spilt)
    BY DEF CollectInv, Expected, TypeOK
  <2>2. CASE draft[r] # "none"
    BY <2>1, <2>2 DEF Commit, Draft, NewRow, Queued, Event
  <2>3. CASE spilt
    BY <2>1, <2>3 DEF Commit
  <2>4. QED
    BY <2>1, <2>2, <2>3
<1>4. QED
  BY <1>1, <1>2, <1>3, TypeCorrect, PTL DEF Spec, EventsCollected

-----------------------------------------------------------------------------
(***************************************************************************)
(* Deletion wins.  Only the holder has drafts, and rows of a transaction   *)
(* appear when it ends, after which it dooms nothing more.                 *)
(***************************************************************************)
Says(t, r, k) == k \in events /\ (k = "deleted" <=> r \in doomed[t])

DeletionInv ==
  /\ \A t \in Tx, r \in Record :
       /\ Draft(t, r) # "none" => Says(t, r, draft[r])
       /\ delivery[<<t, r>>].status # "none" =>
            txState[t] = "done" /\ Says(t, r, delivery[<<t, r>>].kind)
  /\ holder = NoTx => Drafts = {}

(* The trigger's coalescing keeps a deletion and the kinds asked for. *)
LEMMA TriggerSays ==
  ASSUME TypeOK, DeletionInv, NEW t \in Tx, NEW r \in Record, NEW k \in EventKinds,
         RowEvent(t, r, k)
  PROVE  DeletionInv'
<1>1. events' = events /\ delivery' = delivery /\ NoTx \notin Tx
  BY WebhooksAssumption DEF RowEvent, subVars
<1>2. r \notin doomed[t] /\ txState[t] # "done"
  BY DEF RowEvent, RecordIsFree
<1>3. holder' = NoTx => Drafts' = {}
  BY <1>1 DEF RowEvent, DeletionInv, Drafts
<1>4. ASSUME NEW u \in Tx, NEW x \in Record, delivery'[<<u, x>>].status # "none"
      PROVE  txState'[u] = "done" /\ Says(u, x, delivery[<<u, x>>].kind)'
  <2>1. u # t /\ txState[u] = "done" /\ Says(u, x, delivery[<<u, x>>].kind)
    BY <1>1, <1>2, <1>4 DEF DeletionInv
  <2>2. QED
    BY <1>1, <2>1 DEF RowEvent, Says, TypeOK
<1>5. ASSUME NEW u \in Tx, NEW x \in Record, Draft(u, x)' # "none"
      PROVE  Says(u, x, draft[x])'
  <2>1. holder' = u /\ draft'[x] # "none"
    BY <1>5 DEF Draft
  <2>2. CASE u # t
    <3>1. holder = u /\ draft' = draft
      BY <1>1, <2>1, <2>2 DEF RowEvent
    <3>2. QED
      BY <1>1, <2>1, <2>2, <3>1 DEF RowEvent, DeletionInv, Draft, Says, TypeOK
  <2>3. CASE u = t /\ ~Collects(t, r, k)
    <3>1. holder = t /\ draft' = draft
      BY <1>1, <2>1, <2>3 DEF RowEvent, Collect
    <3>2. Says(t, x, draft[x])
      BY <2>1, <3>1 DEF DeletionInv, Draft
    <3>3. x = r => k # "deleted"
      BY <2>1, <2>3, <3>1 DEF Collects, Draft
    <3>4. QED
      BY <1>1, <2>3, <3>1, <3>2, <3>3 DEF RowEvent, Says, TypeOK
  <2>4. CASE u = t /\ Collects(t, r, k)
    <3>1. Collect(t, r, k) /\ holder \in {NoTx, t}
      BY <2>4 DEF RowEvent
    <3>2. CASE x # r
      <4>1. draft'[x] = draft[x]
        BY <3>1, <3>2 DEF Collect, Coalesce, QueueEvent, DropChange, TypeOK
      <4>2. holder = t
        BY <2>1, <3>1, <4>1 DEF DeletionInv, Drafts
      <4>3. Says(t, x, draft[x])
        BY <2>1, <4>1, <4>2 DEF DeletionInv, Draft
      <4>4. QED
        BY <1>1, <2>4, <3>2, <4>1, <4>3 DEF RowEvent, Says, TypeOK
    <3>3. CASE x = r
      <4>1. draft[r] # "none" => draft[r] = "changed" /\ "changed" \in events /\ holder = t
        <5> SUFFICES ASSUME draft[r] # "none"
                     PROVE  draft[r] = "changed" /\ "changed" \in events /\ holder = t
          OBVIOUS
        <5>1. holder = t
          BY <3>1 DEF DeletionInv, Drafts
        <5>2. Says(t, r, draft[r])
          BY <5>1 DEF DeletionInv, Draft
        <5>3. draft[r] \in EventKinds
          BY DEF TypeOK
        <5>4. QED
          BY <1>2, <5>1, <5>2, <5>3 DEF Says, EventKinds
      <4>2. CASE k = "deleted"
        <5>1. r \in doomed'[t]
          BY <4>2 DEF RowEvent, TypeOK
        <5>2. draft'[r] = "deleted" /\ k \in events
          BY <2>1, <3>1, <3>3, <4>1, <4>2
             DEF Collect, Coalesce, QueueEvent, DropChange, Collects, Draft, TypeOK
        <5>3. QED
          BY <1>1, <2>4, <3>3, <4>2, <5>1, <5>2 DEF Says
      <4>3. CASE k = "changed"
        <5>1. doomed' = doomed
          BY <4>3 DEF RowEvent
        <5>2. draft'[r] = "changed" /\ "changed" \in events
          BY <2>1, <3>1, <3>3, <4>1, <4>3
             DEF Collect, Coalesce, QueueEvent, DropChange, TypeOK
        <5>3. QED
          BY <1>1, <1>2, <2>4, <3>3, <5>1, <5>2 DEF Says
      <4>4. QED
        BY <4>2, <4>3 DEF EventKinds
    <3>4. QED
      BY <3>2, <3>3
  <2>5. QED
    BY <2>2, <2>3, <2>4
<1>6. QED
  BY <1>3, <1>4, <1>5 DEF DeletionInv

(* The end of a transaction turns what drafts say into what rows say. *)
LEMMA EndSays ==
  ASSUME TypeOK, DeletionInv, NEW t \in Tx, Commit(t) \/ Abort(t)
  PROVE  DeletionInv'
<1>1. /\ EndTx(t) /\ events' = events /\ NoTx \notin Tx
      /\ \A u \in Tx \ {t} : doomed'[u] = doomed[u]
  BY WebhooksAssumption DEF Commit, Abort, EndTx, TypeOK
<1>2. holder' = NoTx => Drafts' = {}
  BY <1>1 DEF EndTx, DeletionInv, Drafts
<1>3. ASSUME NEW u \in Tx, NEW x \in Record, Draft(u, x)' # "none"
      PROVE  Says(u, x, draft[x])'
  <2>1. u # t /\ holder = u /\ draft' = draft /\ draft[x] # "none"
    BY <1>1, <1>3 DEF EndTx, Draft
  <2>2. QED
    BY <1>1, <2>1 DEF DeletionInv, Draft, Says
<1>4. ASSUME NEW u \in Tx, NEW x \in Record, delivery'[<<u, x>>].status # "none"
      PROVE  txState'[u] = "done" /\ Says(u, x, delivery[<<u, x>>].kind)'
  <2>1. <<u, x>> \in Event /\ txState[t] = "open"
    BY <1>1 DEF Event, EndTx
  <2>2. CASE u # t
    <3>1. delivery'[<<u, x>>] = delivery[<<u, x>>]
      BY <2>1, <2>2 DEF Commit, Abort
    <3>2. txState[u] = "done" /\ Says(u, x, delivery[<<u, x>>].kind)
      BY <1>4, <3>1 DEF DeletionInv
    <3>3. QED
      BY <1>1, <2>2, <3>1, <3>2 DEF EndTx, Says, TypeOK
  <2>3. CASE u = t
    <3>1. delivery[<<u, x>>].status = "none"
      BY <2>1, <2>3 DEF DeletionInv
    <3>2. Commit(t) /\ Draft(t, x) # "none" /\ delivery'[<<u, x>>] = NewRow(draft[x])
      BY <1>4, <2>1, <2>3, <3>1 DEF Commit, Abort
    <3>3. Says(t, x, draft[x]) /\ doomed' = doomed
      BY <3>2 DEF DeletionInv, Commit
    <3>4. QED
      BY <1>1, <2>3, <3>2, <3>3 DEF EndTx, NewRow, Says, TypeOK
  <2>4. QED
    BY <2>2, <2>3
<1>5. QED
  BY <1>2, <1>3, <1>4 DEF DeletionInv

(* Workers, owner and time change no kind and create no row. *)
LEMMA KindStays ==
  ASSUME TypeOK, NEW e \in Event, delivery'[e].status # "none",
         \/ \E w \in Worker : Work(w) \/ DropJob(w)
         \/ Owner \/ Time \/ OwnerChange \/ KeyChange \/ \E x \in Event : Cleanup(x)
         \/ UNCHANGED vars
  PROVE  delivery[e].status # "none" /\ delivery'[e].kind = delivery[e].kind
<1>1. ASSUME NEW w \in Worker, Work(w) \/ DropJob(w)
      PROVE  delivery[e].status # "none" /\ delivery'[e].kind = delivery[e].kind
  <2>1. CASE Claim(w)
    <3>1. PICK P \in SUBSET Claimable : delivery' = [x \in Event |->
            IF x \in P THEN LeasedRow(delivery[x])
            ELSE IF x \in Exhausted THEN [delivery[x] EXCEPT !.status = "dead"]
            ELSE delivery[x]]
      BY <2>1 DEF Claim
    <3>2. QED
      BY <3>1 DEF Claimable, Exhausted, LeasedRow, TypeOK, Row
  <2>2. CASE Acknowledge(w)
    <3>1. PICK j \in jobs[w] :
            delivery' = IF HoldsLease(j)
                          THEN [delivery EXCEPT ![j.id] = Settled(@, j.phase)]
                          ELSE delivery
      BY <2>2 DEF Acknowledge
    <3>2. QED
      BY <3>1 DEF HoldsLease, Settled, TypeOK, Row
  <2>3. QED
    BY <1>1, <2>1, <2>2 DEF Work, ClaimWithoutKey, PrepareSend, Send, DropJob
<1>2. CASE Owner
  <2>1. CASE InvalidateLeases
    BY <2>1 DEF InvalidateLeases, Invalidated, TypeOK, Row
  <2>2. CASE Remove
    BY <2>2 DEF Remove, NoRow
  <2>3. ASSUME NEW x \in Event, Retry(x)
        PROVE  delivery[e].status # "none" /\ delivery'[e].kind = delivery[e].kind
    BY <2>3 DEF Retry, TypeOK, Row
  <2>4. QED
    BY <1>2, <2>1, <2>2, <2>3 DEF Owner, Pause, Rotate, Resume
<1>3. CASE Time \/ OwnerChange \/ KeyChange
  BY <1>3 DEF Time, BecomeDue, ExpireLease, OwnerChange, KeyChange, TypeOK, Row
<1>4. ASSUME NEW x \in Event, Cleanup(x)
      PROVE  delivery[e].status # "none" /\ delivery'[e].kind = delivery[e].kind
  BY <1>4 DEF Cleanup, NoRow, TypeOK
<1>5. CASE UNCHANGED vars
  BY <1>5 DEF vars
<1>6. QED
  BY <1>1, <1>2, <1>3, <1>4, <1>5

(* The strengthened rule of deletions is an invariant. *)
LEMMA DeletionHolds == Spec => []DeletionInv
<1>1. Init => DeletionInv
  BY DEF Init, DeletionInv, Draft, Drafts, NoRow, Event
<1>2. TypeOK /\ TypeOK' /\ DeletionInv /\ [Next]_vars => DeletionInv'
  <2> SUFFICES ASSUME TypeOK, TypeOK', DeletionInv, [Next]_vars PROVE DeletionInv'
    OBVIOUS
  <2>1. CASE \/ \E w \in Worker : Work(w) \/ DropJob(w)
             \/ Owner \/ Time \/ OwnerChange \/ KeyChange \/ \E x \in Event : Cleanup(x)
             \/ UNCHANGED vars
    <3>1. UNCHANGED <<txVars, events>>
      BY <2>1 DEF Work, DropJob, Claim, ClaimWithoutKey, PrepareSend, Send, Acknowledge,
         Cleanup, Owner, Pause, Resume, Rotate, Remove, Retry, Time, BecomeDue,
         ExpireLease, OwnerChange, KeyChange, vars, subVars
    <3>2. \A t \in Tx, r \in Record : <<t, r>> \in Event
      BY DEF Event
    <3>3. QED
      BY <2>1, <3>1, <3>2, KindStays DEF DeletionInv, Draft, Drafts, Says, txVars
  <2>2. QED
    BY <2>1, TriggerSays, EndSays DEF Next, Transaction
<1>3. QED
  BY <1>1, <1>2, TypeCorrect, PTL DEF Spec

(***************************************************************************)
(* The event of a record its transaction deleted says so, and a receiver   *)
(* gets only the kinds it asked for.                                       *)
(***************************************************************************)
THEOREM DeletionsWin == Spec => []DeletionWins
<1>1. DeletionInv => DeletionWins
  <2> SUFFICES ASSUME DeletionInv, NEW t \in Tx, NEW r \in Record,
                      Draft(t, r) # "none" \/ delivery[<<t, r>>].status # "none"
               PROVE  Says(t, r, IF Draft(t, r) # "none" THEN Draft(t, r)
                                                         ELSE delivery[<<t, r>>].kind)
    BY DEF DeletionWins, Says
  <2>1. Draft(t, r) # "none" => Draft(t, r) = draft[r]
    BY DEF Draft
  <2>2. QED
    BY <2>1 DEF DeletionInv
<1>2. QED
  BY <1>1, DeletionHolds, PTL

-----------------------------------------------------------------------------
(***************************************************************************)
(* The refinement of EventQueue.  A send that reports success was          *)
(* accepted, so acknowledging it as a success is one.                      *)
(***************************************************************************)
AcceptedInv == \A w \in Worker : \A j \in jobs[w] : j.phase = "ok" => j.id \in accepted

Succeeded == WithStatus({"succeeded"})
Dead == WithStatus({"dead"})

(* Only an answer of the receiver makes a send a success. *)
LEMMA AnswersTrue ==
  ASSUME TypeOK, AcceptedInv, [Next]_vars
  PROVE  AcceptedInv'
<1>1. CASE UNCHANGED <<jobs, accepted>>
  BY <1>1 DEF AcceptedInv
<1>2. ASSUME NEW w \in Worker, NEW j \in jobs[w], NEW S, SetJob(w, j, S),
             \A i \in S : i.phase = "ok" => i.id \in accepted',
             accepted \subseteq accepted'
      PROVE  AcceptedInv'
  BY <1>2 DEF AcceptedInv, SetJob, TypeOK
<1>3. ASSUME NEW w \in Worker, Work(w) \/ DropJob(w) PROVE AcceptedInv'
  <2>1. CASE Claim(w)
    BY <2>1 DEF Claim, AcceptedInv, TypeOK
  <2>2. CASE ClaimWithoutKey(w)
    BY <1>1, <2>2 DEF ClaimWithoutKey
  <2>3. CASE PrepareSend(w)
    <3>1. PICK j \in jobs[w] :
            SetJob(w, j, {}) \/ SetJob(w, j, {[j EXCEPT !.phase = "ready"]})
      BY <2>3 DEF PrepareSend
    <3>2. accepted' = accepted /\ [j EXCEPT !.phase = "ready"].phase = "ready"
      BY <2>3 DEF PrepareSend, TypeOK, Job
    <3> DEFINE S == {[j EXCEPT !.phase = "ready"]}
    <3>3. \A i \in S : i.phase = "ok" => i.id \in accepted'
      BY <3>2
    <3>4. SetJob(w, j, {}) \/ SetJob(w, j, S)
      BY <3>1
    <3> HIDE DEF S
    <3>5. QED
      BY <1>2, <3>2, <3>3, <3>4
  <2>4. CASE Send(w)
    <3>1. PICK j \in jobs[w], o \in Outcomes, arrived \in BOOLEAN :
            /\ o = "ok" => arrived
            /\ SetJob(w, j, {[j EXCEPT !.phase = o]})
            /\ accepted' = IF arrived THEN accepted \cup {j.id} ELSE accepted
      BY <2>4 DEF Send
    <3>2. [j EXCEPT !.phase = o].phase = o /\ [j EXCEPT !.phase = o].id = j.id
      BY DEF TypeOK, Job
    <3> DEFINE S == {[j EXCEPT !.phase = o]}
    <3>3. SetJob(w, j, S) /\ accepted \subseteq accepted'
      BY <3>1
    <3>4. \A i \in S : i.phase = "ok" => i.id \in accepted'
      BY <3>1, <3>2
    <3> HIDE DEF S
    <3>5. QED
      BY <1>2, <3>3, <3>4
  <2>5. CASE Acknowledge(w) \/ DropJob(w)
    BY <1>2, <2>5 DEF Acknowledge, DropJob
  <2>6. QED
    BY <1>3, <2>1, <2>2, <2>3, <2>4, <2>5 DEF Work
<1>4. ASSUME NEW t \in Tx, Transaction(t) PROVE UNCHANGED <<jobs, accepted>>
  BY <1>4 DEF Transaction, Commit, Abort, EndTx, RowEvent
<1>5. CASE Owner \/ Time \/ OwnerChange \/ KeyChange \/ \E e \in Event : Cleanup(e)
  BY <1>1, <1>5 DEF Owner, Pause, Resume, Rotate, Remove, Retry, Time, BecomeDue,
     ExpireLease, OwnerChange, KeyChange, Cleanup
<1>6. CASE UNCHANGED vars
  BY <1>1, <1>6 DEF vars
<1>7. QED
  BY <1>1, <1>3, <1>4, <1>5, <1>6 DEF Next

(* EventQueue's own copy of Cardinality is the one of FiniteSets. *)
LEMMA SameCount == \A S : EventQueue!Cardinality(S) = Cardinality(S)
BY DEF EventQueue!Cardinality, Cardinality

(* Rows whose status stays, or moves within the queue, are a stutter. *)
LEMMA SameQueue ==
  ASSUME accepted' = accepted,
         \A e \in Event : \/ delivery'[e].status = delivery[e].status
                          \/ /\ delivery[e].status \in {"pending", "leased"}
                             /\ delivery'[e].status \in {"pending", "leased"}
  PROVE  UNCHANGED <<Queue, accepted, Succeeded, Dead>>
  BY DEF Queue, Succeeded, Dead, WithStatus

(* Rows that leave the queue dead are given up. *)
LEMMA GivesUp ==
  ASSUME accepted' = accepted, NEW K \in SUBSET Queue,
         \A e \in K : delivery'[e].status = "dead",
         \A e \in Event \ K : \/ delivery'[e].status = delivery[e].status
                              \/ /\ delivery[e].status \in {"pending", "leased"}
                                 /\ delivery'[e].status \in {"pending", "leased"}
  PROVE  EventQueue!GiveUp(K)
<1>1. Queue' = Queue \ K /\ WithStatus({"dead"})' = WithStatus({"dead"}) \cup K
  BY DEF Queue, WithStatus
<1>2. WithStatus({"succeeded"})' = WithStatus({"succeeded"})
  BY DEF Queue, WithStatus
<1>3. QED
  BY <1>1, <1>2 DEF EventQueue!GiveUp

Simulated == EventQueue!QueueNext \/ UNCHANGED <<Queue, accepted, Succeeded, Dead>>

(* Giving up is a step of the queue. *)
LEMMA GiveUpSimulated ==
  ASSUME NEW K \in SUBSET Event, EventQueue!GiveUp(K)
  PROVE  Simulated
  BY DEF Simulated, EventQueue!QueueNext

(* A commit enqueues the drafts of its transaction. *)
LEMMA CommitSimulated ==
  ASSUME TypeOK, DeletionInv, BoundInv', NEW t \in Tx, Commit(t)
  PROVE  Simulated
<1> DEFINE K == {e \in Event : e[1] = t /\ Draft(t, e[2]) # "none"}
<1>1. \A e \in K : delivery[e].status = "none" /\ delivery'[e].status = "pending"
  <2> SUFFICES ASSUME NEW e \in K
               PROVE  delivery[e].status = "none" /\ delivery'[e].status = "pending"
    OBVIOUS
  <2>1. e = <<t, e[2]>> /\ e[2] \in Record /\ txState[t] = "open"
    BY DEF Event, Commit, EndTx
  <2>2. QED
    BY <2>1 DEF DeletionInv, Commit, NewRow
<1>2. \A e \in Event \ K : delivery'[e] = delivery[e]
  BY DEF Commit
<1>3. K \cap (Queue \cup Succeeded \cup Dead) = {}
  BY <1>1 DEF Queue, Succeeded, Dead, WithStatus
<1>4. Queue' = Queue \cup K /\ Succeeded' = Succeeded /\ Dead' = Dead
  BY <1>1, <1>2 DEF Queue, Succeeded, Dead, WithStatus
<1>5. Cardinality(Queue') <= Cap
  BY FiniteQueues, WebhooksAssumption DEF BoundInv, QueueBounded
<1>6. accepted' = accepted /\ K \in SUBSET Event
  BY DEF Commit, EndTx
<1> HIDE DEF K
<1>7. Cardinality(Queue \cup K) <= Cap
  BY <1>4, <1>5
<1>8. EventQueue!Enqueue(K)
  BY <1>3, <1>4, <1>6, <1>7, SameCount DEF EventQueue!Enqueue, Succeeded, Dead
<1>9. QED
  BY <1>6, <1>8 DEF Simulated, EventQueue!QueueNext

(* A claim gives up exhausted rows; a send accepts; an answer settles. *)
LEMMA WorkSimulated ==
  ASSUME TypeOK, AcceptedInv, NEW w \in Worker, Work(w) \/ DropJob(w)
  PROVE  Simulated
<1>1. CASE Claim(w)
  <2>1. PICK P \in SUBSET Claimable : delivery' = [x \in Event |->
          IF x \in P THEN LeasedRow(delivery[x])
          ELSE IF x \in Exhausted THEN [delivery[x] EXCEPT !.status = "dead"]
          ELSE delivery[x]]
    BY <1>1 DEF Claim
  <2>2. Exhausted \in SUBSET Queue /\ Exhausted \in SUBSET Event
    BY DEF Exhausted, Queue, WithStatus
  <2>3. \A e \in Claimable : e \notin Exhausted
    <3> SUFFICES ASSUME NEW e \in Claimable PROVE e \notin Exhausted
      OBVIOUS
    <3>1. delivery[e].attempts \in Nat /\ delivery[e].attempts < MaxAttempts
      BY DEF Claimable, TypeOK, Row
    <3>2. QED
      BY <3>1, WebhooksAssumption DEF Exhausted
  <2>4. \A e \in Exhausted : delivery'[e].status = "dead"
    BY <2>1, <2>3 DEF Exhausted, TypeOK, Row
  <2>5. ASSUME NEW e \in Event \ Exhausted
        PROVE  \/ delivery'[e].status = delivery[e].status
               \/ /\ delivery[e].status \in {"pending", "leased"}
                  /\ delivery'[e].status \in {"pending", "leased"}
    BY <2>1 DEF Claimable, LeasedRow, TypeOK, Row
  <2>6. accepted' = accepted
    BY <1>1 DEF Claim
  <2>7. QED
    BY <2>2, <2>4, <2>5, <2>6, GivesUp, GiveUpSimulated
<1>2. CASE ClaimWithoutKey(w) \/ PrepareSend(w) \/ DropJob(w)
  BY <1>2, SameQueue DEF ClaimWithoutKey, PrepareSend, DropJob, Simulated
<1>3. CASE Send(w)
  <2>1. PICK j \in jobs[w] : accepted' = accepted \/ accepted' = accepted \cup {j.id}
    BY <1>3 DEF Send
  <2>2. j.id \in Event
    BY DEF TypeOK, Job
  <2>3. Queue' = Queue /\ Succeeded' = Succeeded /\ Dead' = Dead
    BY <1>3 DEF Send, Queue, Succeeded, Dead, WithStatus
  <2>4. CASE accepted' = accepted
    BY <2>3, <2>4 DEF Simulated
  <2>5. CASE accepted' = accepted \cup {j.id}
    <3>1. EventQueue!Accept(j.id)
      BY <2>3, <2>5 DEF EventQueue!Accept, Succeeded, Dead
    <3>2. QED
      BY <2>2, <3>1 DEF Simulated, EventQueue!QueueNext
  <2>6. QED
    BY <2>1, <2>4, <2>5
<1>4. CASE Acknowledge(w)
  <2>1. PICK j \in jobs[w] :
          /\ j.phase \in Outcomes
          /\ delivery' = IF HoldsLease(j)
                           THEN [delivery EXCEPT ![j.id] = Settled(@, j.phase)]
                           ELSE delivery
    BY <1>4 DEF Acknowledge
  <2>2. j.id \in Event /\ accepted' = accepted
    BY <1>4 DEF TypeOK, Job, Acknowledge
  <2>3. CASE ~HoldsLease(j)
    BY <2>1, <2>2, <2>3, SameQueue DEF Simulated
  <2>4. CASE HoldsLease(j) /\ j.phase = "ok"
    <3>1. delivery[j.id].status = "leased" /\ delivery'[j.id].status = "succeeded"
      BY <2>1, <2>2, <2>4 DEF HoldsLease, Settled, TypeOK, Row
    <3>2. \A e \in Event \ {j.id} : delivery'[e] = delivery[e]
      BY <2>1, <2>2, <2>4 DEF TypeOK
    <3>3. j.id \in Queue \cap accepted
      BY <2>2, <2>4, <3>1 DEF AcceptedInv, Queue, WithStatus
    <3>4. Queue' = Queue \ {j.id} /\ Succeeded' = Succeeded \cup {j.id} /\ Dead' = Dead
      BY <2>2, <3>1, <3>2 DEF Queue, Succeeded, Dead, WithStatus
    <3>5. EventQueue!Succeed(j.id)
      BY <2>2, <3>3, <3>4 DEF EventQueue!Succeed, Succeeded, Dead
    <3>6. QED
      BY <2>2, <3>5 DEF Simulated, EventQueue!QueueNext
  <2>5. CASE HoldsLease(j) /\ j.phase # "ok" /\ MayRetry(delivery[j.id], j.phase)
    BY <2>1, <2>2, <2>5, SameQueue DEF HoldsLease, Settled, TypeOK, Row, Simulated
  <2>6. CASE HoldsLease(j) /\ j.phase # "ok" /\ ~MayRetry(delivery[j.id], j.phase)
    <3> DEFINE K == {j.id}
    <3>1. delivery[j.id].status = "leased" /\ delivery'[j.id].status = "dead"
      BY <2>1, <2>2, <2>6 DEF HoldsLease, Settled, TypeOK, Row
    <3>2. \A e \in Event \ K : delivery'[e] = delivery[e]
      BY <2>1, <2>2, <2>6 DEF TypeOK
    <3>3. K \in SUBSET Queue /\ K \in SUBSET Event /\ \A e \in K : delivery'[e].status = "dead"
      BY <2>2, <3>1 DEF Queue, WithStatus
    <3> HIDE DEF K
    <3>4. QED
      BY <2>2, <3>2, <3>3, GivesUp, GiveUpSimulated
  <2>7. QED
    BY <2>3, <2>4, <2>5, <2>6
<1>5. QED
  BY <1>1, <1>2, <1>3, <1>4 DEF Work

(* Lost leases may give up, a removal discards, a retry requeues. *)
LEMMA OwnerSimulated ==
  ASSUME TypeOK, BoundInv', Owner
  PROVE  Simulated
<1>1. CASE InvalidateLeases /\ accepted' = accepted
  <2> DEFINE K == {e \in Event : delivery[e].status = "leased"
                                   /\ delivery[e].attempts >= MaxAttempts}
  <2>1. K \in SUBSET Queue /\ K \in SUBSET Event
    BY DEF Queue, WithStatus
  <2>2. \A e \in K : delivery'[e].status = "dead"
    BY <1>1 DEF InvalidateLeases, Invalidated, TypeOK, Row
  <2>3. \A e \in Event \ K : \/ delivery'[e].status = delivery[e].status
                             \/ /\ delivery[e].status \in {"pending", "leased"}
                                /\ delivery'[e].status \in {"pending", "leased"}
    <3> SUFFICES ASSUME NEW e \in Event \ K
                 PROVE  \/ delivery'[e].status = delivery[e].status
                        \/ /\ delivery[e].status \in {"pending", "leased"}
                           /\ delivery'[e].status \in {"pending", "leased"}
      OBVIOUS
    <3>1. delivery[e] \in Row /\ delivery'[e] = Invalidated(delivery[e])
      BY <1>1 DEF InvalidateLeases, TypeOK
    <3>2. CASE delivery[e].status = "leased"
      BY <3>1, <3>2 DEF Invalidated, Row
    <3>3. CASE delivery[e].status # "leased"
      BY <3>1, <3>3 DEF Invalidated
    <3>4. QED
      BY <3>2, <3>3
  <2> HIDE DEF K
  <2>4. QED
    BY <1>1, <2>1, <2>2, <2>3, GivesUp, GiveUpSimulated
<1>2. CASE Remove
  <2>1. Queue' = {} /\ WithStatus({"succeeded"})' = {} /\ WithStatus({"dead"})' = {}
    BY <1>2 DEF Remove, NoRow, Queue, WithStatus
  <2>2. EventQueue!Discard
    BY <1>2, <2>1 DEF EventQueue!Discard, Remove
  <2>3. QED
    BY <2>2 DEF Simulated, EventQueue!QueueNext
<1>3. ASSUME NEW e \in Event, Retry(e) PROVE Simulated
  <2>1. delivery[e].status = "dead" /\ delivery'[e].status = "pending"
    BY <1>3 DEF Retry, TypeOK, Row
  <2>2. \A x \in Event \ {e} : delivery'[x] = delivery[x]
    BY <1>3 DEF Retry, TypeOK
  <2>3. /\ Queue' = Queue \cup {e}
        /\ WithStatus({"dead"})' = WithStatus({"dead"}) \ {e}
        /\ WithStatus({"succeeded"})' = WithStatus({"succeeded"})
        /\ e \in WithStatus({"dead"})
    BY <2>1, <2>2 DEF Queue, WithStatus
  <2>4. EventQueue!Requeue(e)
    <3>1. Cardinality(Queue) < Cap /\ accepted' = accepted
      BY <1>3 DEF Retry
    <3>2. QED
      BY <2>3, <3>1, SameCount DEF EventQueue!Requeue
  <2>5. QED
    BY <2>4 DEF Simulated, EventQueue!QueueNext
<1>4. QED
  BY <1>1, <1>2, <1>3 DEF Owner, Pause, Rotate, Resume

(* Clean-up forgets; the rest leaves the queue alone. *)
LEMMA SurroundingsSimulated ==
  ASSUME TypeOK, Time \/ OwnerChange \/ KeyChange \/ \E e \in Event : Cleanup(e)
  PROVE  Simulated
<1>1. CASE Time \/ OwnerChange \/ KeyChange
  <2>1. ASSUME NEW e \in Event, BecomeDue(e) \/ ExpireLease(e) PROVE Simulated
    <3>1. delivery'[e].status = delivery[e].status
      BY <2>1 DEF BecomeDue, ExpireLease, TypeOK, Row
    <3>2. \A x \in Event : x # e => delivery'[x] = delivery[x]
      BY <2>1 DEF BecomeDue, ExpireLease, TypeOK
    <3>3. accepted' = accepted
      BY <2>1 DEF BecomeDue, ExpireLease
    <3>4. QED
      BY <3>1, <3>2, <3>3, SameQueue DEF Simulated
  <2>2. CASE OwnerChange \/ KeyChange
    BY <2>2, SameQueue DEF OwnerChange, KeyChange, Simulated
  <2>3. QED
    BY <1>1, <2>1, <2>2 DEF Time
<1>2. ASSUME NEW e \in Event, Cleanup(e) PROVE Simulated
  <2>1. delivery[e].status \in {"succeeded", "dead"} /\ delivery'[e].status = "none"
    BY <1>2 DEF Cleanup, NoRow, TypeOK
  <2>2. \A x \in Event \ {e} : delivery'[x] = delivery[x]
    BY <1>2 DEF Cleanup, TypeOK
  <2>3. /\ Queue' = Queue
        /\ WithStatus({"dead"})' = WithStatus({"dead"}) \ {e}
        /\ WithStatus({"succeeded"})' = WithStatus({"succeeded"}) \ {e}
    BY <2>1, <2>2 DEF Queue, WithStatus
  <2>4. EventQueue!Forget(e)
    BY <1>2, <2>3 DEF EventQueue!Forget, Cleanup
  <2>5. QED
    BY <2>4 DEF Simulated, EventQueue!QueueNext
<1>3. QED
  BY <1>1, <1>2

QueueInv == TypeOK /\ BoundInv /\ DeletionInv /\ AcceptedInv

(***************************************************************************)
(* The trigger, the worker and the owner's calls together are a bounded    *)
(* queue with at-least-once delivery.                                      *)
(***************************************************************************)
THEOREM Implementation == Spec => ImplementsQueue
<1>1. Init => EventQueue!QueueInit
  BY DEF Init, EventQueue!QueueInit, Queue, WithStatus, NoRow
<1>2. QueueInv /\ QueueInv' /\ [Next]_vars => [EventQueue!QueueNext]_(EventQueue!queueVars)
  <2> SUFFICES ASSUME QueueInv, QueueInv', [Next]_vars
               PROVE  EventQueue!QueueNext \/ UNCHANGED EventQueue!queueVars
    OBVIOUS
  <2>1. Simulated => EventQueue!QueueNext \/ UNCHANGED EventQueue!queueVars
    BY DEF Simulated, EventQueue!queueVars, Succeeded, Dead
  <2>2. ASSUME NEW t \in Tx, Abort(t) PROVE Simulated
    BY <2>2, SameQueue DEF Abort, EndTx, Simulated
  <2>3. ASSUME NEW t \in Tx, NEW r \in Record, NEW k \in EventKinds, RowEvent(t, r, k)
        PROVE  Simulated
    BY <2>3, SameQueue DEF RowEvent, Simulated
  <2>4. CASE UNCHANGED vars
    <3>1. delivery' = delivery /\ accepted' = accepted
      BY <2>4 DEF vars
    <3>2. QED
      BY <2>1, <3>1, SameQueue DEF Simulated
  <2>5. QED
    BY <2>1, <2>2, <2>3, <2>4, CommitSimulated, WorkSimulated, OwnerSimulated,
       SurroundingsSimulated DEF QueueInv, Next, Transaction
<1>3. Spec => []QueueInv
  <2>1. Init => AcceptedInv
    BY DEF Init, AcceptedInv
  <2>2. TypeOK /\ AcceptedInv /\ [Next]_vars => AcceptedInv'
    BY AnswersTrue
  <2>3. QueueInv <=> TypeOK /\ BoundInv /\ DeletionInv /\ AcceptedInv
    BY DEF QueueInv
  <2>4. QED
    BY <2>1, <2>2, <2>3, TypeCorrect, BoundHolds, DeletionHolds, PTL DEF Spec
<1>4. QED
  BY <1>1, <1>2, <1>3, PTL DEF Spec, ImplementsQueue, EventQueue!QueueSpec

=============================================================================
