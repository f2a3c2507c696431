--------------------------- MODULE WriteReceipts ---------------------------
(***************************************************************************)
(* server/records/write-batch.ts: a batch of rows is written once per      *)
(* (actor, request id), however often the request arrives.  The answer of  *)
(* the first execution is kept as a receipt for seven days.                *)
(*                                                                         *)
(* A request is one attempt of one client; request ids are random, so two  *)
(* attempts never share one.  Time is a clock of coarse ticks; a receipt   *)
(* expires more than Window ticks after the start of the transaction that  *)
(* wrote it (created_at is now()), measured by the now() of the            *)
(* transaction that looks at it.  What a batch writes is one new record;   *)
(* its cells are the subject of CellWrites.                                *)
(***************************************************************************)
EXTENDS Naturals, Sequences, FiniteSets

CONSTANTS
  Client,      \* browsers that send requests
  Handler,     \* server-side request handlers (pool connections)
  Body,        \* request bodies
  MaxAttempts, \* bound: requests a client makes up
  MaxTick,     \* bound: the clock
  Window       \* life of a receipt, in ticks

NoReceipt == [body |-> {}, at |-> 0, rec |-> 0]
Nobody == "nobody"

ASSUME WriteReceiptsAssumption ==
  /\ MaxAttempts \in Nat \ {0}
  /\ MaxTick \in Nat
  /\ Window \in Nat \ {0}
  /\ NoReceipt.body \notin Body
  /\ Nobody \notin Handler

Req == Client \X (1..MaxAttempts)
NoReq == <<>>
Receipt == [body : Body, at : Nat, rec : Nat \ {0}]
Message == [req : Req, body : Body]
Answers == {"ok", "conflict", "refused", "error"}

VARIABLES
  now,         \* the clock
  net,         \* requests on their way to the server
  made,        \* executions of each request: the record made, and from what
  live,        \* records that exist: <<request, execution>>
  receipt,     \* write_receipt
  \* the handler's transaction
  pc, req, body,
  start,       \* now() of the transaction
  doomed,      \* receipts its clean-up deletes, seen by others at commit
  result,      \* execution its receipt reports, 0 for a new one
  peer,        \* the handler whose answer each client waits for
  inbox        \* the answer on its way back to each client

storeVars == <<made, live, receipt>>
txVars == <<pc, req, body, start, doomed, result>>
wireVars == <<net, peer, inbox>>

TypeOKReceipts ==
  /\ now \in Nat
  /\ net \in SUBSET Message
  /\ made \in [Req -> Seq([body : Body, at : Nat])]
  /\ live \in SUBSET (Req \X (Nat \ {0}))
  /\ receipt \in [Req -> Receipt \cup {NoReceipt}]
  /\ req \in [Handler -> Req \cup {NoReq}]
  /\ body \in [Handler -> Body \cup {NoReceipt.body}]
  /\ start \in [Handler -> Nat]
  /\ doomed \in [Handler -> SUBSET Req]
  /\ result \in [Handler -> Nat]
  /\ peer \in [Client -> Handler \cup {Nobody}]
  /\ inbox \in [Client -> Answers \cup {"none"}]

InitReceipts ==
  /\ now = 0
  /\ net = {}
  /\ made = [r \in Req |-> <<>>]
  /\ live = {}
  /\ receipt = [r \in Req |-> NoReceipt]
  /\ pc = [h \in Handler |-> "idle"]
  /\ req = [h \in Handler |-> NoReq]
  /\ body = [h \in Handler |-> NoReceipt.body]
  /\ start = [h \in Handler |-> 0]
  /\ doomed = [h \in Handler |-> {}]
  /\ result = [h \in Handler |-> 0]
  /\ peer = [c \in Client |-> Nobody]
  /\ inbox = [c \in Client |-> "none"]

Goto(h, l) == pc' = [pc EXCEPT ![h] = l]

(* created_at < now() - interval '7 days', by the transaction's now(). *)
Expired(r, t) == receipt[r] # NoReceipt /\ receipt[r].at + Window < t

(***************************************************************************)
(* A copy of the request arrives; its transaction begins.  waiting are the *)
(* requests whose fetch is open: this copy may be the one that answers it. *)
(***************************************************************************)
Arrive(h, m, first, waiting) ==
  /\ pc[h] = "idle" /\ m \in net
  /\ net' = net \ {m}
  /\ peer' = [peer EXCEPT ![m.req[1]] = IF m \in waiting /\ @ = Nobody THEN h ELSE @]
  /\ req' = [req EXCEPT ![h] = m.req]
  /\ body' = [body EXCEPT ![h] = m.body]
  /\ start' = [start EXCEPT ![h] = now]
  /\ Goto(h, first)
  /\ UNCHANGED <<now, storeVars, doomed, result, inbox>>

(* The transaction is over and every lock and local of h is dropped. *)
EndTx(h) ==
  /\ Goto(h, "idle")
  /\ req' = [req EXCEPT ![h] = NoReq]
  /\ body' = [body EXCEPT ![h] = NoReceipt.body]
  /\ start' = [start EXCEPT ![h] = 0]
  /\ doomed' = [doomed EXCEPT ![h] = {}]
  /\ result' = [result EXCEPT ![h] = 0]

(* The client that still waits for this handler gets the answer. *)
Answer(h, a) ==
  LET c == req[h][1] IN
  IF peer[c] = h
    THEN /\ inbox' = [inbox EXCEPT ![c] = a]
         /\ peer' = [peer EXCEPT ![c] = Nobody]
    ELSE UNCHANGED <<inbox, peer>>

Refuse(h, a) ==
  /\ EndTx(h) /\ Answer(h, a)
  /\ UNCHANGED <<now, net, storeVars>>

-----------------------------------------------------------------------------
(* The advisory lock on the request is held until the transaction ends. *)
Holds(h) == pc[h] \in {"lookup", "commit"}

(* Mutant of RequestFree: no lock on the request. *)
NoLock(h) == pc[h] = "expire"

RequestFree(h) == \A k \in Handler \ {h} : Holds(k) => req[k] # req[h]

(***************************************************************************)
(* The advisory lock, DELETE of the own receipt if it has expired (waits   *)
(* for a clean-up that is deleting it), then the clean-up of the actor's   *)
(* expired receipts, FOR UPDATE SKIP LOCKED: mates are the requests of the *)
(* same actor, fewer than the 100 the clean-up is limited to.              *)
(***************************************************************************)
ExpireReceipts(h, mates) ==
  LET r == req[h]
      locked == UNION {doomed[k] : k \in Handler \ {h}}
  IN
  /\ pc[h] = "expire" /\ RequestFree(h)
  /\ Expired(r, start[h]) => r \notin locked
  /\ doomed' = [doomed EXCEPT ![h] =
                  {q \in mates \ locked : Expired(q, start[h])}]
  /\ Goto(h, "lookup")
  /\ UNCHANGED <<now, storeVars, req, body, start, result, wireVars>>

Known(h) == receipt[req[h]] # NoReceipt /\ req[h] \notin doomed[h]

(* Mutant of SameBody: the id is enough. *)
AnyBody(h) == h \in Handler

SameBody(h) == receipt[req[h]].body = body[h]

(***************************************************************************)
(* The receipt answers; it must be for the same body, or CONFLICT.  With   *)
(* none, the rows and a receipt are written, which others see at commit.   *)
(***************************************************************************)
LookUp(h) ==
  /\ pc[h] = "lookup"
  /\ \/ /\ Known(h) /\ ~SameBody(h)
        /\ Refuse(h, "conflict")
     \/ /\ Known(h) => SameBody(h)
        /\ result' = [result EXCEPT ![h] = IF Known(h) THEN receipt[req[h]].rec ELSE 0]
        /\ Goto(h, "commit")
        /\ UNCHANGED <<now, storeVars, req, body, start, doomed, wireVars>>

(* This transaction made a record, the next execution of its request. *)
Writes(h) == result[h] = 0

Execution(h) == IF Writes(h) THEN Len(made[req[h]]) + 1 ELSE result[h]

CommitRows(h) ==
  LET r == req[h] IN
  /\ IF Writes(h)
       THEN /\ made' = [made EXCEPT ![r] = Append(@, [body |-> body[h], at |-> start[h]])]
            /\ live' = live \cup {<<r, Execution(h)>>}
       ELSE UNCHANGED <<made, live>>
  /\ receipt' = [q \in Req |->
       IF q = r /\ Writes(h)
         THEN [body |-> body[h], at |-> start[h], rec |-> Execution(h)]
         ELSE IF q \in doomed[h] THEN NoReceipt ELSE receipt[q]]

Commit(h) ==
  /\ pc[h] = "commit"
  /\ CommitRows(h)
  /\ EndTx(h) /\ Answer(h, "ok")
  /\ UNCHANGED <<now, net>>

Tick ==
  /\ now < MaxTick
  /\ now' = now + 1
=============================================================================
