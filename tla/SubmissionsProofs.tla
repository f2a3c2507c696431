------------------------- MODULE SubmissionsProofs -------------------------
(***************************************************************************)
(* Theorems about Submissions: what the receipts, the audit rows and the   *)
(* locks promise to those who retry, for any clients, handlers, bodies and *)
(* publications, and for any window.                                       *)
(***************************************************************************)
EXTENDS Submissions, FiniteSetTheorems, TLAPS

(***************************************************************************)
(* The transactions: who is in one, since when, and what its locks keep    *)
(* others out of.                                                          *)
(***************************************************************************)
Busy ==
  /\ \A h \in Handler : pc[h] = "idle" <=> req[h] = NoReq
  /\ \A h \in Handler : pc[h] # "idle" => body[h] # Nothing
  /\ \A v \in Visitor : attempt[v] # 0 => sent[v] # Nothing
  /\ \A u \in Paster : batch[u] # Nothing => attempt[u] # 0
  /\ \A c \in Client : sending[c] => attempt[c] # 0

InOrder ==
  \A h \in Handler :
    /\ pc[h] \in {"resolve", "receipts"} => InForm(h)
    /\ start[h] <= now
    /\ doomed[h] # {} => Holds(h)

RequestsLocked ==
  \A h, k \in Handler : Holds(h) /\ Holds(k) /\ req[h] = req[k] => h = k

FormLocked ==
  \A h, k \in Handler : HoldsLifecycle(h) /\ HoldsLifecycle(k) => h = k

Locked == InOrder /\ RequestsLocked /\ FormLocked

(***************************************************************************)
(* A receipt is that of the last execution; without one, that execution is *)
(* older than the window.                                                  *)
(***************************************************************************)
ReceiptOfLast ==
  \A r \in Req : receipt[r] # NoReceipt =>
    /\ made[r] # <<>>
    /\ receipt[r].body = made[r][Len(made[r])].body
    /\ receipt[r].at = made[r][Len(made[r])].at

LongAgo(r) == made[r][Len(made[r])].at + Window < now

ForgottenLate == \A r \in Req : receipt[r] = NoReceipt /\ made[r] # <<>> => LongAgo(r)

(* What a clean-up deletes it found expired, and nobody else deletes it. *)
DoomedExpired ==
  \A h \in Handler : \A q \in doomed[h] :
    /\ Expired(q, start[h])
    /\ \A k \in Handler \ {h} : q \notin doomed[k]

(* What a handler is about to do is still what the receipt calls for. *)
Unanswered(h) == receipt[req[h]] = NoReceipt \/ req[h] \in doomed[h]

Executed(r, b) == \E i \in 1..Len(made[r]) : made[r][i].body = b

ResultFits ==
  \A h \in Handler : pc[h] = "commit" =>
    IF Writes(h) THEN Unanswered(h) ELSE Executed(req[h], body[h])

Kept == ReceiptOfLast /\ ForgottenLate /\ DoomedExpired /\ ResultFits

(***************************************************************************)
(* Publications are used in order and one is live; a handler behind        *)
(* resolvePublication keeps its own live, and its owner an owner.          *)
(***************************************************************************)
InSequence ==
  \A p, q \in Pub : p < q /\ pub[p].state \in {"none", "live"} => pub[q].state = "none"

Capable ==
  /\ InSequence
  /\ \A h \in Handler : HoldsLifecycle(h) =>
       /\ h \in memberShare /\ isOwner
       /\ page[req[h][1]] \in Pub /\ pub[page[req[h][1]]].state = "live"

(***************************************************************************)
(* Who saw a receipt will find it again, who saw none finds no audit row,  *)
(* and until the form is deleted every record of a form has its row.       *)
(***************************************************************************)
Judged(h) == HoldsLifecycle(h) /\ pc[h] # "receipts"

SawTruly ==
  \A h \in Handler :
    /\ h \in sawReceipt => Judged(h)
    /\ Judged(h) =>
         IF h \in sawReceipt THEN HasLiveReceipt(h) ELSE audit[req[h]] = 0

OwnKind ==
  \A h \in Handler : \A q \in doomed[h] : q[1] \in Visitor <=> InForm(h)

Recorded(r) == \E x \in live : x[1] = r

AuditComplete ==
  (\E p \in Pub : pub[p].state # "gone") =>
    \A r \in Req : r[1] \in Visitor /\ Recorded(r) => audit[r] # 0

OneRecord ==
  \A x, y \in live : x[1] = y[1] /\ x[1][1] \in Visitor => x = y

Audited == SawTruly /\ OwnKind /\ AuditComplete /\ OneRecord

(***************************************************************************)
(* The handler a client waits for serves the request the client has open,  *)
(* and the copy it arrived in was the only one on the way.                 *)
(***************************************************************************)
Current(c) == [req |-> <<c, attempt[c]>>, body |-> sent[c]]

Waiting ==
  \A c \in Client :
    /\ peer[c] # Nobody =>
         /\ inbox[c] = "none"
         /\ req[peer[c]] = <<c, attempt[c]>> /\ body[peer[c]] = sent[c]
    /\ peer[c] # Nobody \/ inbox[c] # "none" => sending[c] /\ Current(c) \notin net

Answered == Waiting /\ AnswersAreTrue

Typed == TypeOK /\ Busy

-----------------------------------------------------------------------------
(***************************************************************************)
(* The steps of a handler, by what they do to its transaction.             *)
(***************************************************************************)
Began(h) == \E m \in net : ArriveForm(h, m) \/ ArriveBatch(h, m)

Resolved(h) ==
  /\ pc[h] = "resolve" /\ LifecycleFree /\ Resolvable(page[req[h][1]])
  /\ memberShare' = memberShare \cup {h}
  /\ Goto(h, "receipts")
  /\ UNCHANGED <<now, storeVars, req, body, start, doomed, result, wireVars, sawReceipt>>
  /\ Frame

Judges(h) ==
  /\ pc[h] = "receipts"
  /\ audit[req[h]] # 0 => HasLiveReceipt(h)
  /\ sawReceipt' = IF HasLiveReceipt(h) THEN sawReceipt \cup {h} ELSE sawReceipt
  /\ Goto(h, "expire")
  /\ UNCHANGED <<now, storeVars, req, body, start, doomed, result, wireVars, memberShare>>
  /\ Frame

Found(h) ==
  /\ pc[h] = "lookup"
  /\ Known(h) => SameBody(h)
  /\ result' = [result EXCEPT ![h] = IF Known(h) THEN receipt[req[h]].rec ELSE 0]
  /\ Goto(h, "commit")
  /\ UNCHANGED <<now, storeVars, req, body, start, doomed, wireVars, memberShare, sawReceipt>>
  /\ Frame

Ended(h) ==
  /\ pc[h] # "idle"
  /\ \E a \in Answers \ {"ok"} : Refuse(h, a)
  /\ Drop(h) /\ Frame

LEMMA HandlerSteps ==
  ASSUME TypeOK, NEW h \in Handler, Serve(h)
  PROVE  \/ Began(h) \/ Resolved(h) \/ Judges(h) \/ ClearReceipts(h) \/ Found(h)
         \/ CommitRequest(h) \/ Ended(h)
<1>1. CASE \E m \in net : ArriveForm(h, m) \/ ArriveBatch(h, m)
  BY <1>1 DEF Began
<1>2. CASE ResolvePublication(h)
  BY <1>2 DEF ResolvePublication, Resolved, Ended, Answers
<1>3. CASE ReadReceipts(h)
  BY <1>3 DEF ReadReceipts, Judges, Ended, Answers
<1>4. CASE LookUpReceipt(h)
  <2>1. CASE Known(h) /\ ~SameBody(h) /\ Refuse(h, "conflict")
    <3>1. pc'[h] = "idle"
      BY <2>1 DEF Refuse, EndTx, Goto, TypeOK
    <3>2. QED
      BY <1>4, <2>1, <3>1 DEF LookUpReceipt, LookUp, Ended, Answers
  <2>2. CASE ~(Known(h) /\ ~SameBody(h) /\ Refuse(h, "conflict"))
    <3>1. Goto(h, "commit")
      BY <1>4, <2>2 DEF LookUpReceipt, LookUp
    <3>2. pc'[h] = "commit"
      BY <3>1 DEF Goto, TypeOK
    <3>3. QED
      BY <1>4, <2>2, <3>2 DEF LookUpReceipt, LookUp, Found
  <2>3. QED
    BY <2>1, <2>2
<1>5. ASSUME NEW a \in Failures(h), Fail(h, a)
      PROVE  Ended(h)
  <2>1. a \in Answers \ {"ok"}
    BY <1>5 DEF Failures, Answers
  <2>2. QED
    BY <1>5, <2>1 DEF Fail, Ended
<1>6. QED
  BY <1>1, <1>2, <1>3, <1>4, <1>5 DEF Serve

(* Everything else leaves the receipts and the transactions alone.         *)
Quiet == UNCHANGED <<now, made, receipt, txVars>>

LEMMA OtherSteps ==
  ASSUME Next
  PROVE  (\E h \in Handler : Serve(h)) \/ TimePasses \/ Quiet
<1>1. ASSUME NEW v \in Visitor, Visit(v)
      PROVE  Quiet
  BY <1>1 DEF Visit, OpenPage, SubmitNew, Resubmit, FormAnswer, FormLost, Change, Quiet,
              serverVars, storeVars
<1>2. ASSUME NEW u \in Paster, Paste(u)
      PROVE  Quiet
  BY <1>2 DEF Paste, ConfirmPaste, LeaveView, CancelPaste, PasteAnswer, PasteLost,
              PreparePaste, Reuse, Quiet, serverVars, storeVars
<1>3. ASSUME NEW x \in live, DeleteRecord(x)
      PROVE  Quiet
  BY <1>3 DEF DeleteRecord, Quiet
<1>4. CASE Publish \/ Revoke \/ DeleteForm \/ OwnerChange
  BY <1>4 DEF Publish, Revoke, DeleteForm, OwnerChange, Quiet, storeVars
<1>5. QED
  BY <1>1, <1>2, <1>3, <1>4 DEF Next

-----------------------------------------------------------------------------
(***************************************************************************)
(* Types.                                                                  *)
(***************************************************************************)
LEMMA Fresh ==
  /\ NoReq \notin Req
  /\ NoReceipt \notin Receipt
  /\ Nothing \notin Body
  /\ Visitor \subseteq Client /\ Paster \subseteq Client
<1>1. NoReceipt \notin Receipt
  BY DEF NoReceipt, Receipt
<1>2. NoReq \notin Req
  BY DEF NoReq, Req
<1>3. QED
  BY <1>1, <1>2, WriteReceiptsAssumption, SubmissionsAssumption DEF Nothing, Paster

(* A sequence that grows keeps its elements, and ends in the new one.       *)
LEMMA Grows ==
  ASSUME NEW S, NEW s \in Seq(S), NEW e \in S
  PROVE  /\ Append(s, e) \in Seq(S) /\ Append(s, e) # <<>>
         /\ Len(s) \in Nat /\ Len(Append(s, e)) = Len(s) + 1
         /\ \A i \in 1..Len(s) : Append(s, e)[i] = s[i]
         /\ Append(s, e)[Len(s) + 1] = e
  OBVIOUS

LEMMA LastOf ==
  ASSUME NEW S, NEW s \in Seq(S), s # <<>>
  PROVE  s[Len(s)] \in S
<1>1. Len(s) \in 1..Len(s)
  OBVIOUS
<1>2. QED
  BY <1>1

LEMMA MadeTyped ==
  ASSUME Typed, NEW r \in Req
  PROVE  made[r] \in Seq([body : Body, at : Nat]) /\ Len(made[r]) \in Nat
<1>1. made \in [Req -> Seq([body : Body, at : Nat])]
  BY DEF Typed, TypeOK, TypeOKReceipts
<1>2. made[r] \in Seq([body : Body, at : Nat])
  BY <1>1
<1>3. QED
  BY <1>2

LEMMA BusyHandler ==
  ASSUME Typed, NEW h \in Handler, pc[h] # "idle"
  PROVE  /\ req[h] \in Req /\ req[h] # NoReq /\ req[h][1] \in Client
         /\ body[h] \in Body
<1>1. req[h] \in Req /\ req[h] # NoReq
  BY DEF Typed, TypeOK, TypeOKReceipts, Busy
<1>2. body[h] \in Body
  BY DEF Typed, TypeOK, TypeOKReceipts, Busy, Nothing
<1>3. QED
  BY <1>1, <1>2 DEF Req

LEMMA EndTyped ==
  ASSUME Typed, NEW h \in Handler, EndTx(h), NEW a \in Answers, Answer(h, a), pc[h] # "idle"
  PROVE  /\ pc' \in [Handler -> {"idle", "resolve", "receipts", "expire", "lookup", "commit"}]
         /\ req' \in [Handler -> Req \cup {NoReq}]
         /\ body' \in [Handler -> Body \cup {Nothing}]
         /\ start' \in [Handler -> Nat]
         /\ doomed' \in [Handler -> SUBSET Req]
         /\ result' \in [Handler -> Nat]
         /\ peer' \in [Client -> Handler \cup {Nobody}]
         /\ inbox' \in [Client -> Answers \cup {"none"}]
         /\ \A k \in Handler : pc'[k] = "idle" <=> req'[k] = NoReq
         /\ \A k \in Handler : pc'[k] # "idle" => body'[k] # Nothing
<1>1. /\ peer' \in [Client -> Handler \cup {Nobody}]
      /\ inbox' \in [Client -> Answers \cup {"none"}]
  BY BusyHandler DEF Answer, Typed, TypeOK, TypeOKReceipts
<1>2. QED
  BY <1>1 DEF EndTx, Goto, Typed, TypeOK, TypeOKReceipts, Busy, Nothing

LEMMA BeganTyped ==
  ASSUME Typed, NEW h \in Handler, Began(h)
  PROVE  Typed'
<1>1. PICK m \in net : ArriveForm(h, m) \/ ArriveBatch(h, m)
  BY DEF Began
<1>2. PICK first \in {"resolve", "expire"} : Arrive(h, m, first, OpenFetch)
  BY <1>1 DEF ArriveForm, ArriveBatch
<1>3. m.req \in Req /\ m.body \in Body /\ m.req[1] \in Client
  BY DEF Typed, TypeOK, TypeOKReceipts, Message, Req
<1>4. m.req # NoReq /\ m.body # Nothing
  BY <1>3, Fresh
<1>5. TypeOKReceipts'
  BY <1>2, <1>3 DEF Arrive, Goto, Typed, TypeOK, TypeOKReceipts, storeVars
<1>6. pc' \in [Handler -> {"idle", "resolve", "receipts", "expire", "lookup", "commit"}]
  BY <1>2 DEF Arrive, Goto, Typed, TypeOK
<1>7. TypeOK'
  BY <1>1, <1>5, <1>6 DEF ArriveForm, ArriveBatch, Frame, Typed, TypeOK, pageVars, pasteVars,
                          attemptVars
<1>8. UNCHANGED <<attempt, sent, sending, batch>>
  BY <1>1 DEF ArriveForm, ArriveBatch, Frame, pasteVars, attemptVars
<1>9. Busy'
  BY <1>2, <1>4, <1>8 DEF Arrive, Goto, Busy, Typed, TypeOK, TypeOKReceipts
<1>10. QED
  BY <1>7, <1>9 DEF Typed

LEMMA CommitTyped ==
  ASSUME Typed, NEW h \in Handler, CommitRequest(h)
  PROVE  Typed'
<1> DEFINE r == req[h]
<1>1. pc[h] # "idle" /\ r \in Req /\ body[h] \in Body
  <2>1. pc[h] # "idle"
    BY DEF CommitRequest, Commit
  <2>2. QED
    BY <2>1, BusyHandler
<1>2. made[r] \in Seq([body : Body, at : Nat]) /\ Len(made[r]) \in Nat
  BY <1>1, MadeTyped
<1>3. Execution(h) \in Nat \ {0}
  BY <1>2 DEF Execution, Writes, Typed, TypeOK, TypeOKReceipts
<1>4. [body |-> body[h], at |-> start[h]] \in [body : Body, at : Nat]
  BY <1>1 DEF Typed, TypeOK, TypeOKReceipts
<1>5. made' \in [Req -> Seq([body : Body, at : Nat])]
  <2>1. Append(made[r], [body |-> body[h], at |-> start[h]]) \in Seq([body : Body, at : Nat])
    BY <1>2, <1>4, Grows
  <2>2. made' \in {made, [made EXCEPT ![r] = Append(made[r], [body |-> body[h], at |-> start[h]])]}
    BY DEF CommitRequest, Commit, CommitRows
  <2>3. made \in [Req -> Seq([body : Body, at : Nat])]
    BY DEF Typed, TypeOK, TypeOKReceipts
  <2>4. QED
    BY <1>1, <2>1, <2>2, <2>3
<1>6. live' \in SUBSET (Req \X (Nat \ {0}))
  BY <1>1, <1>3 DEF CommitRequest, Commit, CommitRows, Typed, TypeOK, TypeOKReceipts
<1>7. [body |-> body[h], at |-> start[h], rec |-> Execution(h)] \in Receipt
  BY <1>1, <1>3 DEF Receipt, Typed, TypeOK, TypeOKReceipts
<1>8. receipt' \in [Req -> Receipt \cup {NoReceipt}]
  BY <1>7 DEF CommitRequest, Commit, CommitRows, Typed, TypeOK, TypeOKReceipts
<1>9. audit' \in [Req -> Nat]
  BY <1>1, <1>3 DEF CommitRequest, Typed, TypeOK
<1>10. EndTx(h) /\ Answer(h, "ok") /\ "ok" \in Answers
  BY DEF CommitRequest, Commit, Answers
<1>11. TypeOKReceipts'
  BY <1>1, <1>5, <1>6, <1>8, <1>10, EndTyped
     DEF CommitRequest, Commit, Typed, TypeOK, TypeOKReceipts, Nothing
<1>12. TypeOK'
  BY <1>1, <1>9, <1>10, <1>11, EndTyped
     DEF CommitRequest, Drop, Typed, TypeOK, pageVars, pasteVars, attemptVars
<1>13. UNCHANGED <<attempt, sent, sending, batch>>
  BY DEF CommitRequest, pasteVars, attemptVars
<1>14. Busy'
  BY <1>1, <1>10, <1>13, EndTyped DEF Typed, Busy
<1>15. QED
  BY <1>12, <1>14 DEF Typed

LEMMA ServeTyped ==
  ASSUME Typed, NEW h \in Handler, Serve(h)
  PROVE  Typed'
<1>1. CASE Resolved(h)
  BY <1>1 DEF Resolved, Goto, Frame, Typed, TypeOK, TypeOKReceipts, Busy, storeVars, wireVars,
              pageVars, pasteVars, attemptVars
<1>2. CASE Judges(h)
  BY <1>2 DEF Judges, Goto, Frame, Typed, TypeOK, TypeOKReceipts, Busy, storeVars, wireVars,
              pageVars, pasteVars, attemptVars
<1>3. CASE ClearReceipts(h)
  <2>1. Mates(req[h]) \subseteq Req
    BY DEF Mates
  <2>2. doomed' \in [Handler -> SUBSET Req]
    BY <1>3, <2>1 DEF ClearReceipts, ExpireReceipts, Typed, TypeOK, TypeOKReceipts
  <2>3. QED
    BY <1>3, <2>2 DEF ClearReceipts, ExpireReceipts, Goto, Frame, Typed, TypeOK,
         TypeOKReceipts, Busy, storeVars, wireVars, pageVars, pasteVars, attemptVars
<1>4. CASE Found(h)
  <2>1. req[h] \in Req
    BY <1>4, BusyHandler DEF Found
  <2>2. (IF Known(h) THEN receipt[req[h]].rec ELSE 0) \in Nat
    BY <2>1 DEF Known, Receipt, Typed, TypeOK, TypeOKReceipts
  <2>3. result' \in [Handler -> Nat]
    BY <1>4, <2>2 DEF Found, Typed, TypeOK, TypeOKReceipts
  <2>4. QED
    BY <1>4, <2>3 DEF Found, Goto, Frame, Typed, TypeOK, TypeOKReceipts, Busy, storeVars,
                      wireVars, pageVars, pasteVars, attemptVars
<1>5. CASE Ended(h)
  <2>1. PICK a \in Answers : Refuse(h, a)
    BY <1>5 DEF Ended
  <2>2. pc[h] # "idle" /\ EndTx(h) /\ Answer(h, a)
    BY <1>5, <2>1 DEF Ended, Refuse
  <2>3. TypeOK'
    BY <1>5, <2>1, <2>2, EndTyped DEF Ended, Refuse, Drop, Frame, Typed, TypeOK,
         TypeOKReceipts, Nothing, storeVars, pageVars, pasteVars, attemptVars
  <2>4. Busy'
    BY <1>5, <2>2, EndTyped DEF Ended, Frame, Typed, Busy, pasteVars, attemptVars
  <2>5. QED
    BY <2>3, <2>4 DEF Typed
<1>6. TypeOK
  BY DEF Typed
<1>7. QED
  BY <1>1, <1>2, <1>3, <1>4, <1>5, <1>6, BeganTyped, CommitTyped, HandlerSteps

(* What is posted is a request of the client, and its fetch is open.        *)
LEMMA PostTyped ==
  ASSUME Typed, NEW c \in Client, NEW n \in 1..MaxAttempts, NEW b \in Body, Post(c, n, b)
  PROVE  net' \in SUBSET Message /\ sending' \in [Client -> BOOLEAN]
<1>1. [req |-> <<c, n>>, body |-> b] \in Message
  BY DEF Message, Req
<1>2. QED
  BY <1>1 DEF Post, Typed, TypeOK, TypeOKReceipts

LEMMA AttemptsTyped ==
  ASSUME Typed, NEW c \in Client
  PROVE  /\ attempt[c] \in 0..MaxAttempts /\ MaxAttempts \in Nat \ {0}
         /\ attempt[c] # 0 => attempt[c] \in 1..MaxAttempts
         /\ attempt[c] < MaxAttempts => attempt[c] + 1 \in 1..MaxAttempts
  BY WriteReceiptsAssumption DEF Typed, TypeOK

LEMMA VisitTyped ==
  ASSUME Typed, NEW v \in Visitor, Visit(v)
  PROVE  Typed'
<1> v \in Client
  BY Fresh
<1> USE DEF serverVars, storeVars, txVars, formVars, wireVars, pageVars, pasteVars, attemptVars
<1>1. CASE OpenPage(v)
  <2>1. page' \in [Visitor -> 0..MaxPub]
    BY <1>1, SubmissionsAssumption DEF OpenPage, Typed, TypeOK, Pub
  <2>2. QED
    BY <1>1, <2>1 DEF OpenPage, Typed, TypeOK, TypeOKReceipts, Busy
<1>2. CASE SubmitNew(v)
  <2>1. value[v] \in Body /\ value[v] # Nothing
    BY Fresh DEF Typed, TypeOK
  <2>2. net' \in SUBSET Message /\ sending' \in [Client -> BOOLEAN]
    BY <1>2, <2>1, AttemptsTyped, PostTyped DEF SubmitNew
  <2>3. attempt' \in [Client -> 0..MaxAttempts]
    BY <1>2, AttemptsTyped DEF SubmitNew, Typed, TypeOK
  <2>4. TypeOK'
    BY <1>2, <2>1, <2>2, <2>3 DEF SubmitNew, Post, Typed, TypeOK, TypeOKReceipts
  <2>5. attempt'[v] # 0 /\ sent'[v] # Nothing
    BY <1>2, <2>1, AttemptsTyped DEF SubmitNew, Typed, TypeOK
  <2>6. \A c \in Client \ {v} :
          attempt'[c] = attempt[c] /\ sent'[c] = sent[c] /\ sending'[c] = sending[c]
    BY <1>2 DEF SubmitNew, Post, Typed, TypeOK
  <2>7. Busy'
    BY <1>2, <2>5, <2>6, Fresh DEF SubmitNew, Paster, Typed, Busy
  <2>8. QED
    BY <2>4, <2>7 DEF Typed
<1>3. CASE Resubmit(v)
  <2>1. sent[v] \in Body
    BY <1>3 DEF Resubmit, Typed, TypeOK, Busy
  <2>2. net' \in SUBSET Message /\ sending' \in [Client -> BOOLEAN]
    BY <1>3, <2>1, AttemptsTyped, PostTyped DEF Resubmit, Typed, TypeOK, TypeOKReceipts
  <2>3. QED
    BY <1>3, <2>2 DEF Resubmit, Post, Typed, TypeOK, TypeOKReceipts, Busy
<1>4. CASE FormAnswer(v)
  BY <1>4 DEF FormAnswer, Typed, TypeOK, TypeOKReceipts, Busy
<1>5. CASE FormLost(v)
  BY <1>5 DEF FormLost, Typed, TypeOK, TypeOKReceipts, Busy
<1>6. ASSUME NEW x \in Body, Change(v, x)
      PROVE  Typed'
  BY <1>6 DEF Change, Typed, TypeOK, TypeOKReceipts, Busy
<1>7. QED
  BY <1>1, <1>2, <1>3, <1>4, <1>5, <1>6 DEF Visit

LEMMA SettledTyped ==
  ASSUME Typed, NEW u \in Paster, NEW a, PasteSettled(u, a)
  PROVE  /\ batch' \in [Paster -> Body \cup {Nothing}]
         /\ failed' \in [Paster -> BOOLEAN]
         /\ \A w \in Paster : batch'[w] # Nothing => batch[w] # Nothing
<1>1. CASE ~sameView[u]
  BY <1>1 DEF PasteSettled, Typed, TypeOK
<1>2. CASE sameView[u] /\ a = "error"
  BY <1>2 DEF PasteSettled, Typed, TypeOK
<1>3. CASE sameView[u] /\ a # "error"
  BY <1>3 DEF PasteSettled, Typed, TypeOK
<1>4. QED
  BY <1>1, <1>2, <1>3

LEMMA PasteTyped ==
  ASSUME Typed, NEW u \in Paster, Paste(u)
  PROVE  Typed'
<1> u \in Client /\ u \notin Visitor
  BY Fresh DEF Paster
<1> USE DEF serverVars, storeVars, txVars, formVars, wireVars, pageVars, pasteVars, attemptVars
<1>1. CASE ConfirmPaste(u)
  <2>1. batch[u] \in Body /\ attempt[u] # 0
    BY <1>1 DEF ConfirmPaste, Typed, TypeOK, Busy
  <2>2. net' \in SUBSET Message /\ sending' \in [Client -> BOOLEAN]
    BY <1>1, <2>1, AttemptsTyped, PostTyped DEF ConfirmPaste, Typed, TypeOK, TypeOKReceipts
  <2>3. /\ batch' \in [Paster -> Body \cup {Nothing}]
        /\ sent' \in [Client -> Body \cup {Nothing}]
        /\ startedAt' \in [Client -> Nat]
        /\ sameView' \in [Paster -> BOOLEAN]
    <3>1. CASE sent[u] # Nothing /\ TooLate(u)
      BY <1>1, <3>1 DEF ConfirmPaste, Typed, TypeOK
    <3>2. CASE ~(sent[u] # Nothing /\ TooLate(u))
      <4>1. /\ startedAt' = [startedAt EXCEPT ![u] = IF sent[u] = Nothing THEN now ELSE @]
            /\ sent' = [sent EXCEPT ![u] = batch[u]]
            /\ sameView' = [sameView EXCEPT ![u] = TRUE]
            /\ batch' = batch
        BY <1>1, <3>2 DEF ConfirmPaste
      <4>2. (IF sent[u] = Nothing THEN now ELSE startedAt[u]) \in Nat
        BY DEF Typed, TypeOK, TypeOKReceipts
      <4>3. startedAt' \in [Client -> Nat]
        BY <4>1, <4>2 DEF Typed, TypeOK
      <4>4. QED
        BY <2>1, <4>1, <4>3 DEF Typed, TypeOK
    <3>3. QED
      BY <3>1, <3>2
  <2>4. UNCHANGED <<peer, inbox>>
    BY <1>1 DEF ConfirmPaste, Post
  <2> QED
    <3>1. TypeOK'
      BY <1>1, <2>2, <2>3, <2>4 DEF ConfirmPaste, Typed, TypeOK, TypeOKReceipts
    <3>2. \A c \in Client \ {u} :
            attempt'[c] = attempt[c] /\ sent'[c] = sent[c] /\ sending'[c] = sending[c]
      BY <1>1 DEF ConfirmPaste, Post, Typed, TypeOK
    <3>3. attempt' = attempt /\ \A w \in Paster : batch'[w] # Nothing => batch[w] # Nothing
      BY <1>1 DEF ConfirmPaste, Typed, TypeOK
    <3>4. Busy'
      BY <1>1, <2>1, <3>2, <3>3, Fresh DEF ConfirmPaste, Typed, Busy
    <3>5. QED
      BY <3>1, <3>4 DEF Typed
<1>2. CASE LeaveView(u)
  BY <1>2 DEF LeaveView, Typed, TypeOK, TypeOKReceipts, Busy
<1>3. CASE CancelPaste(u)
  BY <1>3 DEF CancelPaste, Typed, TypeOK, TypeOKReceipts, Busy
<1>4. CASE PasteAnswer(u)
  <2>1. inbox' \in [Client -> Answers \cup {"none"}] /\ sending' \in [Client -> BOOLEAN]
    BY <1>4 DEF PasteAnswer, Typed, TypeOK, TypeOKReceipts
  <2>2. QED
    BY <1>4, <2>1, SettledTyped DEF PasteAnswer, Typed, TypeOK, TypeOKReceipts, Busy
<1>5. CASE PasteLost(u)
  <2>1. peer' \in [Client -> Handler \cup {Nobody}] /\ sending' \in [Client -> BOOLEAN]
    BY <1>5 DEF PasteLost, Typed, TypeOK, TypeOKReceipts
  <2>2. QED
    BY <1>5, <2>1, SettledTyped DEF PasteLost, Typed, TypeOK, TypeOKReceipts, Busy
<1>6. ASSUME NEW b \in Body, PreparePaste(u, b)
      PROVE  Typed'
  <2>1. attempt' \in [Client -> 0..MaxAttempts]
    BY <1>6, AttemptsTyped DEF PreparePaste, Typed, TypeOK
  <2>2. TypeOK'
    BY <1>6, <2>1 DEF PreparePaste, Typed, TypeOK, TypeOKReceipts
  <2>3. attempt'[u] # 0 /\ \A v \in Visitor : sent'[v] = sent[v] /\ attempt'[v] = attempt[v]
    BY <1>6, AttemptsTyped, Fresh DEF PreparePaste, Typed, TypeOK
  <2>4. Busy'
    BY <1>6, <2>3 DEF PreparePaste, Typed, TypeOK, Busy
  <2>5. QED
    BY <2>2, <2>4 DEF Typed
<1>7. ASSUME NEW b \in Body, Reuse(u, b)
      PROVE  Typed'
  <2>1. [req |-> <<u, attempt[u]>>, body |-> b] \in Message
    BY <1>7, AttemptsTyped DEF Reuse, Message, Req
  <2>2. QED
    BY <1>7, <2>1 DEF Reuse, Typed, TypeOK, TypeOKReceipts, Busy
<1>8. QED
  BY <1>1, <1>2, <1>3, <1>4, <1>5, <1>6, <1>7 DEF Paste

LEMMA OwnerTyped ==
  ASSUME Typed, Publish \/ Revoke \/ DeleteForm \/ OwnerChange
  PROVE  Typed'
<1> USE DEF storeVars, txVars, wireVars, pageVars, pasteVars, attemptVars
<1>1. RevokeAll(pub) \in [Pub -> [state : PubStates, until : Nat]]
  BY DEF RevokeAll, Revoked, PubStates, Typed, TypeOK
<1>2. CASE Publish
  <2>1. PICK p \in Pub, life \in Lives :
          pub' = [RevokeAll(pub) EXCEPT ![p] = [state |-> "live", until |-> now + life]]
    BY <1>2 DEF Publish
  <2>2. now + life \in Nat
    BY SubmissionsAssumption DEF Typed, TypeOK, TypeOKReceipts
  <2>3. pub' \in [Pub -> [state : PubStates, until : Nat]]
    BY <1>1, <2>1, <2>2 DEF PubStates
  <2>4. QED
    BY <1>2, <2>3 DEF Publish, Typed, TypeOK, TypeOKReceipts, Busy
<1>3. CASE Revoke
  BY <1>1, <1>3 DEF Revoke, Typed, TypeOK, TypeOKReceipts, Busy
<1>4. CASE DeleteForm
  <2>1. pub' \in [Pub -> [state : PubStates, until : Nat]]
    BY <1>4 DEF DeleteForm, PubStates, Typed, TypeOK
  <2>2. QED
    BY <1>4, <2>1 DEF DeleteForm, Typed, TypeOK, TypeOKReceipts, Busy
<1>5. CASE OwnerChange
  BY <1>5 DEF OwnerChange, Typed, TypeOK, TypeOKReceipts, Busy
<1>6. QED
  BY <1>2, <1>3, <1>4, <1>5

LEMMA TypedStep ==
  ASSUME Typed, [Next]_vars
  PROVE  Typed'
<1> USE DEF storeVars, txVars, formVars, wireVars, pageVars, pasteVars, attemptVars
<1>1. ASSUME NEW x \in live, DeleteRecord(x)
      PROVE  Typed'
  BY <1>1 DEF DeleteRecord, Typed, TypeOK, TypeOKReceipts, Busy
<1>2. CASE TimePasses
  <2>1. now' \in Nat
    BY <1>2 DEF TimePasses, Tick, Typed, TypeOK, TypeOKReceipts
  <2>2. QED
    BY <1>2, <2>1 DEF TimePasses, Typed, TypeOK, TypeOKReceipts, Busy
<1>3. CASE UNCHANGED vars
  BY <1>3 DEF vars, serverVars, Typed, TypeOK, TypeOKReceipts, Busy
<1>4. QED
  BY <1>1, <1>2, <1>3, ServeTyped, VisitTyped, PasteTyped, OwnerTyped DEF Next

LEMMA TypedInit ==
  ASSUME Init
  PROVE  Typed
<1>1. TypeOKReceipts
  BY DEF Init, InitReceipts, TypeOKReceipts, Nothing
<1>2. TypeOK
  <2>1. 0 \in 0..MaxAttempts /\ 0 \in 0..MaxPub
    BY WriteReceiptsAssumption, SubmissionsAssumption
  <2>2. QED
    BY <1>1, <2>1 DEF Init, InitReceipts, TypeOK, PubStates, Nothing
<1>3. Busy
  BY Fresh DEF Init, InitReceipts, Busy, Nothing
<1>4. QED
  BY <1>2, <1>3 DEF Typed

(* Every variable keeps the values the program can give it, in particular  *)
(* whoever is in a transaction has a request with a body.                  *)
THEOREM TypeCorrect == Spec => []TypeOK
<1>1. Spec => []Typed
  BY TypedInit, TypedStep, PTL DEF Spec
<1>2. Typed => TypeOK
  BY DEF Typed
<1>3. QED
  BY <1>1, <1>2, PTL

-----------------------------------------------------------------------------
(***************************************************************************)
(* The transactions.  What a step of h does to them, and that it leaves    *)
(* those of the others alone.                                              *)
(***************************************************************************)
Others(h) ==
  \A k \in Handler \ {h} :
    /\ pc'[k] = pc[k] /\ req'[k] = req[k] /\ body'[k] = body[k]
    /\ start'[k] = start[k] /\ doomed'[k] = doomed[k] /\ result'[k] = result[k]

Same(h) == req'[h] = req[h] /\ body'[h] = body[h] /\ start'[h] = start[h]

LEMMA BeganEffect ==
  ASSUME Typed, NEW h \in Handler, Began(h)
  PROVE  \E m \in net :
           /\ pc[h] = "idle" /\ Others(h)
           /\ pc'[h] = IF m.req[1] \in Visitor THEN "resolve" ELSE "expire"
           /\ req'[h] = m.req /\ body'[h] = m.body /\ start'[h] = now
           /\ doomed'[h] = doomed[h] /\ result'[h] = result[h]
           /\ m.req \in Req /\ m.req # NoReq /\ m.body \in Body /\ m.req[1] \in Client
           /\ net' = net \ {m} /\ inbox' = inbox
           /\ peer' = [peer EXCEPT ![m.req[1]] =
                          IF m \in OpenFetch /\ peer[m.req[1]] = Nobody THEN h ELSE peer[m.req[1]]]
           /\ UNCHANGED <<now, storeVars, memberShare, sawReceipt>> /\ Frame
<1>1. PICK m \in net : ArriveForm(h, m) \/ ArriveBatch(h, m)
  BY DEF Began
<1>2. m.req \in Req /\ m.body \in Body /\ m.req[1] \in Client /\ m.req # NoReq
  BY Fresh DEF Typed, TypeOK, TypeOKReceipts, Message, Req
<1>3. /\ Arrive(h, m, IF m.req[1] \in Visitor THEN "resolve" ELSE "expire", OpenFetch)
      /\ UNCHANGED <<memberShare, sawReceipt>> /\ Frame
  BY <1>1 DEF ArriveForm, ArriveBatch
<1>4. /\ pc[h] = "idle" /\ Others(h)
      /\ pc'[h] = IF m.req[1] \in Visitor THEN "resolve" ELSE "expire"
      /\ req'[h] = m.req /\ body'[h] = m.body /\ start'[h] = now
      /\ doomed'[h] = doomed[h] /\ result'[h] = result[h]
  BY <1>3 DEF Arrive, Goto, Others, Typed, TypeOK, TypeOKReceipts
<1>5. QED
  BY <1>2, <1>3, <1>4 DEF Arrive, Others

LEMMA EndEffect ==
  ASSUME Typed, NEW h \in Handler, EndTx(h)
  PROVE  /\ Others(h)
         /\ pc'[h] = "idle" /\ req'[h] = NoReq /\ doomed'[h] = {} /\ start'[h] = 0
  BY DEF EndTx, Goto, Others, Typed, TypeOK, TypeOKReceipts

LEMMA AdvanceEffect ==
  ASSUME Typed, NEW h \in Handler, Resolved(h) \/ Judges(h)
  PROVE  /\ Others(h) /\ Same(h) /\ doomed' = doomed /\ result' = result
         /\ IF Resolved(h) THEN pc[h] = "resolve" /\ pc'[h] = "receipts" /\ LifecycleFree
                           ELSE pc[h] = "receipts" /\ pc'[h] = "expire"
         /\ UNCHANGED <<now, storeVars, wireVars>> /\ Frame
<1>1. CASE Resolved(h)
  BY <1>1 DEF Resolved, Goto, Others, Same, Typed, TypeOK
<1>2. CASE ~Resolved(h) /\ Judges(h)
  BY <1>2 DEF Judges, Goto, Others, Same, Typed, TypeOK
<1>3. QED
  BY <1>1, <1>2

LEMMA ClearEffect ==
  ASSUME Typed, NEW h \in Handler, ClearReceipts(h)
  PROVE  /\ Others(h) /\ Same(h) /\ result' = result
         /\ pc[h] = "expire" /\ pc'[h] = "lookup" /\ RequestFree(h)
         /\ \A q \in doomed'[h] :
              /\ q \in Mates(req[h]) /\ q \in Req /\ Expired(q, start[h])
              /\ \A k \in Handler \ {h} : q \notin doomed[k]
         /\ Expired(req[h], start[h]) => \A k \in Handler \ {h} : req[h] \notin doomed[k]
         /\ UNCHANGED <<now, storeVars, wireVars, memberShare, sawReceipt>> /\ Frame
  BY DEF ClearReceipts, ExpireReceipts, Goto, Mates, Others, Same, Typed, TypeOK, TypeOKReceipts

LEMMA FoundEffect ==
  ASSUME Typed, NEW h \in Handler, Found(h)
  PROVE  /\ Others(h) /\ Same(h) /\ doomed' = doomed
         /\ pc[h] = "lookup" /\ pc'[h] = "commit"
         /\ Known(h) => SameBody(h)
         /\ result'[h] = IF Known(h) THEN receipt[req[h]].rec ELSE 0
         /\ UNCHANGED <<now, storeVars, wireVars, memberShare, sawReceipt>> /\ Frame
  BY DEF Found, Goto, Others, Same, Typed, TypeOK, TypeOKReceipts

LEMMA EndedEffect ==
  ASSUME Typed, NEW h \in Handler, Ended(h)
  PROVE  /\ EndTx(h) /\ Drop(h) /\ Frame /\ pc[h] # "idle"
         /\ UNCHANGED <<now, storeVars, net>>
         /\ \E a \in Answers \ {"ok"} : Answer(h, a)
  BY DEF Ended, Refuse

LEMMA LockedStep ==
  ASSUME Typed, Locked, [Next]_vars
  PROVE  Locked'
<1> USE DEF Locked
<1>1. ASSUME NEW h \in Handler, Serve(h)
      PROVE  Locked'
  <2>1. CASE Began(h)
    <3>1. doomed[h] = {}
      BY <2>1, BeganEffect DEF InOrder, Holds, Typed, TypeOK, TypeOKReceipts
    <3>2. now \in Nat
      BY DEF Typed, TypeOK, TypeOKReceipts
    <3>3. InOrder'
      BY <2>1, <3>1, <3>2, BeganEffect DEF Others, InOrder, InForm, Holds
    <3>4. RequestsLocked'
      BY <2>1, BeganEffect DEF Others, RequestsLocked, Holds
    <3>5. FormLocked'
      BY <2>1, BeganEffect DEF Others, FormLocked, HoldsLifecycle, InForm
    <3>6. QED
      BY <3>3, <3>4, <3>5
  <2>2. CASE Resolved(h) \/ Judges(h)
    <3>1. InOrder'
      BY <2>2, AdvanceEffect DEF Others, Same, InOrder, InForm, Holds
    <3>2. RequestsLocked'
      BY <2>2, AdvanceEffect DEF Others, RequestsLocked, Holds
    <3>3. FormLocked'
      BY <2>2, AdvanceEffect DEF Others, Same, FormLocked, HoldsLifecycle, InForm, LifecycleFree
    <3>4. QED
      BY <3>1, <3>2, <3>3
  <2>3. CASE ClearReceipts(h)
    <3>1. InOrder'
      BY <2>3, ClearEffect DEF Others, Same, InOrder, InForm, Holds
    <3>2. RequestsLocked'
      BY <2>3, ClearEffect DEF Others, Same, RequestsLocked, RequestFree, Holds
    <3>3. FormLocked'
      BY <2>3, ClearEffect DEF Others, Same, FormLocked, HoldsLifecycle, InForm
    <3>4. QED
      BY <3>1, <3>2, <3>3
  <2>4. CASE Found(h)
    <3>1. InOrder'
      BY <2>4, FoundEffect DEF Others, Same, InOrder, InForm, Holds
    <3>2. RequestsLocked'
      BY <2>4, FoundEffect DEF Others, Same, RequestsLocked, Holds
    <3>3. FormLocked'
      BY <2>4, FoundEffect DEF Others, Same, FormLocked, HoldsLifecycle, InForm
    <3>4. QED
      BY <3>1, <3>2, <3>3
  <2>5. CASE CommitRequest(h) \/ Ended(h)
    <3>1. EndTx(h) /\ now' = now
      BY <2>5, EndedEffect DEF CommitRequest, Commit
    <3>2. now \in Nat
      BY DEF Typed, TypeOK, TypeOKReceipts
    <3>3. InOrder'
      BY <3>1, <3>2, EndEffect DEF Others, InOrder, InForm, Holds
    <3>4. RequestsLocked'
      BY <3>1, EndEffect DEF Others, RequestsLocked, Holds
    <3>5. FormLocked'
      BY <3>1, EndEffect DEF Others, FormLocked, HoldsLifecycle, InForm
    <3>6. QED
      BY <3>3, <3>4, <3>5
  <2>6. QED
    BY <1>1, <2>1, <2>2, <2>3, <2>4, <2>5, HandlerSteps DEF Typed
<1>2. CASE TimePasses
  BY <1>2 DEF TimePasses, Tick, txVars, InOrder, RequestsLocked, FormLocked, HoldsLifecycle,
              InForm, Holds, Typed, TypeOK, TypeOKReceipts
<1>3. CASE Quiet
  BY <1>3 DEF Quiet, txVars, InOrder, RequestsLocked, FormLocked, HoldsLifecycle, InForm, Holds
<1>4. CASE UNCHANGED vars
  <2>1. Quiet
    BY <1>4 DEF vars, serverVars, storeVars, Quiet
  <2>2. QED
    BY <1>3, <2>1
<1>5. QED
  BY <1>1, <1>2, <1>3, <1>4, OtherSteps

-----------------------------------------------------------------------------
(***************************************************************************)
(* The receipts.                                                           *)
(***************************************************************************)
Written(h) == [body |-> body[h], at |-> start[h]]

(* A commit appends an execution, or changes none; it replaces the receipt *)
(* of its request, or keeps it, and removes the ones it doomed.            *)
LEMMA CommitEffect ==
  ASSUME Typed, NEW h \in Handler, CommitRequest(h)
  PROVE  /\ pc[h] = "commit" /\ EndTx(h) /\ Answer(h, "ok") /\ now' = now /\ net' = net
         /\ req[h] \in Req /\ body[h] \in Body
         /\ \A q \in Req :
              /\ Len(made[q]) \in Nat /\ Len(made'[q]) \in Nat /\ Len(made[q]) <= Len(made'[q])
              /\ \A i \in 1..Len(made[q]) : made'[q][i] = made[q][i]
              /\ IF q = req[h] /\ Writes(h)
                   THEN /\ Len(made'[q]) = Len(made[q]) + 1 /\ made'[q] # <<>>
                        /\ made'[q][Len(made'[q])] = Written(h)
                        /\ receipt'[q] # NoReceipt
                        /\ receipt'[q].body = body[h] /\ receipt'[q].at = start[h]
                   ELSE /\ made'[q] = made[q]
                        /\ receipt'[q] = IF q \in doomed[h] THEN NoReceipt ELSE receipt[q]
<1>1. pc[h] = "commit" /\ EndTx(h) /\ Answer(h, "ok") /\ now' = now /\ net' = net
  BY DEF CommitRequest, Commit
<1>2. req[h] \in Req /\ body[h] \in Body
  BY <1>1, BusyHandler
<1>3. Written(h) \in [body : Body, at : Nat]
  BY <1>2 DEF Written, Typed, TypeOK, TypeOKReceipts
<1>4. made \in [Req -> Seq([body : Body, at : Nat])]
  BY DEF Typed, TypeOK, TypeOKReceipts
<1>5. made' = IF Writes(h) THEN [made EXCEPT ![req[h]] = Append(made[req[h]], Written(h))] ELSE made
  BY DEF CommitRequest, Commit, CommitRows, Written
<1>6. receipt' = [q \in Req |->
       IF q = req[h] /\ Writes(h)
         THEN [body |-> body[h], at |-> start[h], rec |-> Execution(h)]
         ELSE IF q \in doomed[h] THEN NoReceipt ELSE receipt[q]]
  BY DEF CommitRequest, Commit, CommitRows
<1>7. ASSUME NEW q \in Req, q = req[h], Writes(h)
      PROVE  /\ Len(made[q]) \in Nat /\ Len(made'[q]) = Len(made[q]) + 1 /\ made'[q] # <<>>
             /\ \A i \in 1..Len(made[q]) : made'[q][i] = made[q][i]
             /\ made'[q][Len(made'[q])] = Written(h)
             /\ receipt'[q] # NoReceipt
             /\ receipt'[q].body = body[h] /\ receipt'[q].at = start[h]
  <2>1. made'[q] = Append(made[q], Written(h))
    BY <1>4, <1>5, <1>7
  <2>2. made[q] \in Seq([body : Body, at : Nat])
    BY <1>4
  <2>3. receipt'[q] = [body |-> body[h], at |-> start[h], rec |-> Execution(h)]
    BY <1>6, <1>7
  <2>4. receipt'[q] # NoReceipt
    BY <1>2, <2>3, Fresh DEF Nothing
  <2>5. QED
    BY <1>3, <2>1, <2>2, <2>3, <2>4, Grows
<1>8. ASSUME NEW q \in Req, ~(q = req[h] /\ Writes(h))
      PROVE  /\ Len(made[q]) \in Nat /\ made'[q] = made[q]
             /\ receipt'[q] = IF q \in doomed[h] THEN NoReceipt ELSE receipt[q]
  <2>1. made'[q] = made[q]
    BY <1>2, <1>4, <1>5, <1>8
  <2>2. QED
    BY <1>6, <1>8, <2>1, MadeTyped
<1>9. ASSUME NEW q \in Req
      PROVE  /\ Len(made[q]) \in Nat /\ Len(made'[q]) \in Nat /\ Len(made[q]) <= Len(made'[q])
             /\ \A i \in 1..Len(made[q]) : made'[q][i] = made[q][i]
  BY <1>7, <1>8
<1>10. QED
  BY <1>1, <1>2, <1>7, <1>8, <1>9

(* The times of receipts and executions can be compared.                   *)
LEMMA TimesTyped ==
  ASSUME Typed
  PROVE  /\ now \in Nat /\ Window \in Nat
         /\ \A h \in Handler : start[h] \in Nat
         /\ \A r \in Req : receipt[r].at \in Nat
         /\ \A r \in Req : receipt[r] # NoReceipt => receipt[r].rec \in Nat \ {0}
<1>1. \A r \in Req : receipt[r] \in Receipt \/ receipt[r] = NoReceipt
  BY DEF Typed, TypeOK, TypeOKReceipts
<1>2. NoReceipt.at \in Nat
  BY DEF NoReceipt
<1>3. \A x \in Receipt : x.at \in Nat /\ x.rec \in Nat \ {0}
  BY DEF Receipt
<1>4. \A r \in Req : receipt[r].at \in Nat
  BY <1>1, <1>2, <1>3
<1>5. \A r \in Req : receipt[r] # NoReceipt => receipt[r].rec \in Nat \ {0}
  BY <1>1, <1>3
<1>6. QED
  BY <1>4, <1>5, WriteReceiptsAssumption DEF Typed, TypeOK, TypeOKReceipts

LEMMA ClearKept ==
  ASSUME Typed, Locked, Kept, NEW h \in Handler, ClearReceipts(h)
  PROVE  Kept'
<1>1. ReceiptOfLast' /\ ForgottenLate'
  BY ClearEffect DEF Kept, ReceiptOfLast, ForgottenLate, LongAgo, storeVars
<1>2. DoomedExpired'
  BY ClearEffect DEF Kept, DoomedExpired, Expired, Others, Same, storeVars
<1>3. ResultFits'
  BY ClearEffect DEF Kept, ResultFits, Writes, Unanswered, Executed, Others, storeVars
<1>4. QED
  BY <1>1, <1>2, <1>3 DEF Kept

LEMMA FoundKept ==
  ASSUME Typed, Locked, Kept, NEW h \in Handler, Found(h)
  PROVE  Kept'
<1>1. ReceiptOfLast' /\ ForgottenLate'
  BY FoundEffect DEF Kept, ReceiptOfLast, ForgottenLate, LongAgo, storeVars
<1>2. DoomedExpired'
  BY FoundEffect DEF Kept, DoomedExpired, Expired, Others, Same, storeVars
<1>3. req[h] \in Req
  BY FoundEffect, BusyHandler
<1>4. ASSUME Known(h)
      PROVE  ~Writes(h)' /\ Executed(req[h], body[h])
  <2>1. receipt[req[h]] # NoReceipt /\ receipt[req[h]].body = body[h]
    BY <1>4, FoundEffect DEF Known, SameBody
  <2>2. made[req[h]] # <<>> /\ made[req[h]][Len(made[req[h]])].body = body[h]
    BY <1>3, <2>1 DEF Kept, ReceiptOfLast
  <2>3. Len(made[req[h]]) \in 1..Len(made[req[h]])
    BY <1>3, <2>2, MadeTyped
  <2>4. result'[h] # 0
    BY <1>3, <1>4, <2>1, FoundEffect, TimesTyped
  <2>5. QED
    BY <2>2, <2>3, <2>4 DEF Writes, Executed
<1>5. ASSUME ~Known(h)
      PROVE  Writes(h)' /\ Unanswered(h)
  BY <1>5, FoundEffect DEF Writes, Known, Unanswered
<1>6. ASSUME NEW k \in Handler, pc'[k] = "commit"
      PROVE  IF Writes(k)' THEN Unanswered(k)' ELSE Executed(req[k], body[k])'
  <2>1. CASE k = h
    BY <1>4, <1>5, <2>1, FoundEffect DEF Unanswered, Executed, Same, storeVars
  <2>2. CASE k # h
    BY <1>6, <2>2, FoundEffect
       DEF Kept, ResultFits, Writes, Unanswered, Executed, Others, storeVars
  <2>3. QED
    BY <2>1, <2>2
<1>7. QED
  BY <1>1, <1>2, <1>6 DEF Kept, ResultFits

LEMMA CommitKept ==
  ASSUME Typed, Locked, Kept, NEW h \in Handler, CommitRequest(h)
  PROVE  Kept'
<1> DEFINE r == req[h]
<1>1. /\ pc[h] = "commit" /\ Holds(h) /\ r \in Req /\ now' = now
      /\ Others(h) /\ pc'[h] = "idle" /\ doomed'[h] = {}
  BY CommitEffect, EndEffect DEF Holds
<1>2. Writes(h) => Unanswered(h)
  BY <1>1 DEF Kept, ResultFits
<1>3. ReceiptOfLast'
  <2>1. ASSUME NEW q \in Req, receipt'[q] # NoReceipt
        PROVE  /\ made'[q] # <<>>
               /\ receipt'[q].body = made'[q][Len(made'[q])].body
               /\ receipt'[q].at = made'[q][Len(made'[q])].at
    <3>1. CASE q = r /\ Writes(h)
      <4>1. Written(h).body = body[h] /\ Written(h).at = start[h]
        BY DEF Written
      <4>2. made'[q] # <<>> /\ made'[q][Len(made'[q])] = Written(h)
        BY <3>1, CommitEffect
      <4>3. receipt'[q].body = body[h] /\ receipt'[q].at = start[h]
        BY <3>1, CommitEffect
      <4>4. QED
        BY <4>1, <4>2, <4>3
    <3>2. CASE ~(q = r /\ Writes(h))
      BY <2>1, <3>2, CommitEffect DEF Kept, ReceiptOfLast
    <3>3. QED
      BY <3>1, <3>2
  <2>2. QED
    BY <2>1 DEF ReceiptOfLast
<1>4. ForgottenLate'
  <2>1. ASSUME NEW q \in Req, receipt'[q] = NoReceipt, made'[q] # <<>>
        PROVE  LongAgo(q)'
    <3>1. ~(q = r /\ Writes(h))
      BY <2>1, CommitEffect
    <3>2. made'[q] = made[q]
      BY <3>1, CommitEffect
    <3>3. CASE q \in doomed[h]
      <4>1. receipt[q] # NoReceipt /\ receipt[q].at + Window < start[h]
        BY <3>3 DEF Kept, DoomedExpired, Expired
      <4>2. receipt[q].at = made[q][Len(made[q])].at
        BY <4>1 DEF Kept, ReceiptOfLast
      <4>3. start[h] <= now
        BY DEF Locked, InOrder
      <4>4. QED
        BY <1>1, <3>2, <4>1, <4>2, <4>3, TimesTyped DEF LongAgo
    <3>4. CASE q \notin doomed[h]
      <4>1. receipt[q] = NoReceipt
        BY <2>1, <3>1, <3>4, CommitEffect
      <4>2. LongAgo(q)
        BY <2>1, <3>2, <4>1 DEF Kept, ForgottenLate
      <4>3. QED
        BY <1>1, <3>2, <4>2 DEF LongAgo
    <3>5. QED
      BY <3>3, <3>4
  <2>2. QED
    BY <2>1 DEF ForgottenLate
<1>5. DoomedExpired'
  <2>1. ASSUME NEW k \in Handler, NEW q \in doomed'[k]
        PROVE  Expired(q, start[k])' /\ \A j \in Handler \ {k} : q \notin doomed'[j]
    <3>1. k # h /\ q \in doomed[k] /\ start'[k] = start[k]
      BY <1>1, <2>1 DEF Others
    <3>2. Expired(q, start[k]) /\ \A j \in Handler \ {k} : q \notin doomed[j]
      BY <3>1 DEF Kept, DoomedExpired
    <3>3. ~(q = r /\ Writes(h))
      BY <1>2, <3>1, <3>2 DEF Unanswered, Expired
    <3>4. q \in Req
      BY <3>1 DEF Typed, TypeOK, TypeOKReceipts
    <3>5. receipt'[q] = receipt[q]
      BY <3>1, <3>2, <3>3, <3>4, CommitEffect
    <3>6. QED
      BY <1>1, <3>1, <3>2, <3>5 DEF Expired, Others
  <2>2. QED
    BY <2>1 DEF DoomedExpired
<1>6. ResultFits'
  <2>1. ASSUME NEW k \in Handler, pc'[k] = "commit"
        PROVE  IF Writes(k)' THEN Unanswered(k)' ELSE Executed(req[k], body[k])'
    <3>1. k # h /\ pc[k] = "commit" /\ Holds(k)
      BY <1>1, <2>1 DEF Others, Holds
    <3>2. req[k] # r /\ req[k] \in Req
      BY <1>1, <3>1, BusyHandler DEF Locked, RequestsLocked
    <3>3. IF Writes(k) THEN Unanswered(k) ELSE Executed(req[k], body[k])
      BY <3>1 DEF Kept, ResultFits
    <3>4. /\ made'[req[k]] = made[req[k]]
          /\ receipt'[req[k]] \in {receipt[req[k]], NoReceipt}
      BY <3>2, CommitEffect
    <3>5. QED
      BY <1>1, <3>1, <3>3, <3>4 DEF Others, Writes, Unanswered, Executed
  <2>2. QED
    BY <2>1 DEF ResultFits
<1>7. QED
  BY <1>3, <1>4, <1>5, <1>6 DEF Kept

LEMMA KeptStep ==
  ASSUME Typed, Locked, Kept, [Next]_vars
  PROVE  Kept'
<1>1. ASSUME NEW h \in Handler, Began(h) \/ Resolved(h) \/ Judges(h) \/ Ended(h)
      PROVE  Kept'
  <2>1. /\ now' = now /\ made' = made /\ receipt' = receipt /\ Others(h)
        /\ pc'[h] # "commit" /\ doomed'[h] \in {doomed[h], {}}
        /\ start'[h] = start[h] \/ doomed'[h] = {}
    <3>1. CASE Began(h)
      <4>1. doomed[h] = {}
        BY <3>1, BeganEffect DEF Locked, InOrder, Holds, Typed, TypeOK, TypeOKReceipts
      <4>2. QED
        BY <3>1, <4>1, BeganEffect DEF storeVars
    <3>2. CASE Resolved(h) \/ Judges(h)
      BY <3>2, AdvanceEffect DEF Same, storeVars
    <3>3. CASE Ended(h)
      BY <3>3, EndedEffect, EndEffect DEF storeVars
    <3>4. QED
      BY <1>1, <3>1, <3>2, <3>3
  <2>2. ReceiptOfLast' /\ ForgottenLate'
    BY <2>1 DEF Kept, ReceiptOfLast, ForgottenLate, LongAgo
  <2>3. DoomedExpired'
    BY <2>1 DEF Kept, DoomedExpired, Expired, Others
  <2>4. ResultFits'
    BY <2>1 DEF Kept, ResultFits, Writes, Unanswered, Executed, Others
  <2>5. QED
    BY <2>2, <2>3, <2>4 DEF Kept
<1>2. CASE TimePasses
  <2>1. /\ now' = now + 1 /\ UNCHANGED <<made, receipt, txVars>>
    BY <1>2 DEF TimePasses, Tick, storeVars
  <2>2. ASSUME NEW r \in Req, receipt[r] = NoReceipt, made[r] # <<>>
        PROVE  LongAgo(r)'
    <3>1. LongAgo(r)
      BY <2>2 DEF Kept, ForgottenLate
    <3>2. made[r][Len(made[r])].at \in Nat
      <4>1. made[r][Len(made[r])] \in [body : Body, at : Nat]
        BY <2>2, MadeTyped, LastOf
      <4>2. QED
        BY <4>1
    <3>3. QED
      BY <2>1, <3>1, <3>2, TimesTyped DEF LongAgo
  <2>3. ForgottenLate'
    BY <2>1, <2>2 DEF ForgottenLate
  <2>4. ReceiptOfLast' /\ DoomedExpired' /\ ResultFits'
    BY <2>1 DEF Kept, ReceiptOfLast, DoomedExpired, ResultFits, Expired, Writes, Unanswered,
                Executed, txVars
  <2>5. QED
    BY <2>3, <2>4 DEF Kept
<1>3. CASE Quiet
  BY <1>3 DEF Quiet, txVars, Kept, ReceiptOfLast, ForgottenLate, LongAgo, DoomedExpired,
              ResultFits, Expired, Writes, Unanswered, Executed
<1>4. CASE UNCHANGED vars
  <2>1. Quiet
    BY <1>4 DEF vars, serverVars, storeVars, Quiet
  <2>2. QED
    BY <1>3, <2>1
<1>5. QED
  BY <1>1, <1>2, <1>3, <1>4, OtherSteps, HandlerSteps, ClearKept, FoundKept, CommitKept DEF Typed

LEMMA KeptInit ==
  ASSUME Init
  PROVE  Locked /\ Kept
<1>1. Locked
  BY DEF Init, InitReceipts, Locked, InOrder, RequestsLocked, FormLocked, HoldsLifecycle,
         InForm, Holds
<1>2. Kept
  BY DEF Init, InitReceipts, Kept, ReceiptOfLast, ForgottenLate, DoomedExpired, ResultFits
<1>3. QED
  BY <1>1, <1>2

LEMMA KeptAlways == Spec => [](Typed /\ Locked /\ Kept)
<1>1. Init => Typed /\ Locked /\ Kept
  BY TypedInit, KeptInit
<1>2. Typed /\ Locked /\ Kept /\ [Next]_vars => (Typed /\ Locked /\ Kept)'
  BY TypedStep, LockedStep, KeptStep
<1>3. QED
  BY <1>1, <1>2, PTL DEF Spec

(* Only a commit that writes executes a request, and its own.               *)
LEMMA ExecutedBy ==
  ASSUME Typed, [Next]_vars, NEW r \in Req, made'[r] # made[r]
  PROVE  \E h \in Handler : CommitRequest(h) /\ req[h] = r /\ Writes(h)
<1>1. ~Quiet /\ ~TimePasses /\ ~UNCHANGED vars
  BY DEF Quiet, TimePasses, vars, serverVars, storeVars
<1>2. PICK h \in Handler : Serve(h)
  BY <1>1, OtherSteps
<1>3. CommitRequest(h)
  <2>1. made' # made
    OBVIOUS
  <2>2. ~Began(h) /\ ~Resolved(h) /\ ~Judges(h) /\ ~ClearReceipts(h) /\ ~Found(h) /\ ~Ended(h)
    BY <2>1, BeganEffect, AdvanceEffect, ClearEffect, FoundEffect, EndedEffect DEF storeVars
  <2>3. QED
    BY <1>2, <2>2, HandlerSteps DEF Typed
<1>4. QED
  BY <1>3, CommitEffect

(* A batch is executed again only when its receipt is older than the       *)
(* window: neither a concurrent copy of the request nor the clean-up of    *)
(* other requests makes the server forget sooner (write-batch.ts:73-103).  *)
THEOREM NeverAgainTooSoon == Spec => AgainOnlyAfterWindow
<1>1. ASSUME Typed, Locked, Kept, [Next]_vars
      PROVE  \A r \in Req : made'[r] # made[r] /\ made[r] # <<>> =>
               made[r][Len(made[r])].at + Window < now
  <2>1. SUFFICES ASSUME NEW r \in Req, made'[r] # made[r], made[r] # <<>>
                 PROVE  LongAgo(r)
    BY DEF LongAgo
  <2>2. PICK h \in Handler : CommitRequest(h) /\ req[h] = r /\ Writes(h)
    BY <1>1, <2>1, ExecutedBy
  <2>3. Unanswered(h)
    BY <1>1, <2>2, CommitEffect DEF Kept, ResultFits
  <2>4. CASE receipt[r] = NoReceipt
    BY <1>1, <2>1, <2>4 DEF Kept, ForgottenLate
  <2>5. CASE r \in doomed[h]
    <3>1. receipt[r] # NoReceipt /\ receipt[r].at + Window < start[h]
      BY <1>1, <2>5 DEF Kept, DoomedExpired, Expired
    <3>2. receipt[r].at = made[r][Len(made[r])].at /\ start[h] <= now
      BY <1>1, <3>1 DEF Kept, ReceiptOfLast, Locked, InOrder
    <3>3. QED
      BY <1>1, <3>1, <3>2, TimesTyped DEF LongAgo
  <2>6. QED
    BY <2>2, <2>3, <2>4, <2>5 DEF Unanswered
<1>2. QED
  BY <1>1, KeptAlways, PTL DEF Spec, AgainOnlyAfterWindow

-----------------------------------------------------------------------------
(***************************************************************************)
(* The publication.                                                        *)
(***************************************************************************)
LEMMA FormHandler ==
  ASSUME Typed, Locked, NEW h \in Handler, HoldsLifecycle(h)
  PROVE  /\ pc[h] # "idle" /\ req[h] \in Req /\ req[h][1] \in Visitor
         /\ ~LifecycleFree
         /\ \A k \in Handler \ {h} : ~HoldsLifecycle(k)
<1>1. pc[h] # "idle" /\ req[h][1] \in Visitor
  BY DEF HoldsLifecycle, InForm, Typed, Busy
<1>2. QED
  BY <1>1, BusyHandler DEF LifecycleFree, Locked, FormLocked

(* Steps that leave the publication, its owner, the page and who is in a   *)
(* transaction alone.                                                      *)
LEMMA CapableFrame ==
  ASSUME Capable, UNCHANGED <<pub, isOwner, memberShare, page, pc, req>>
  PROVE  Capable'
  BY DEF Capable, InSequence, HoldsLifecycle, InForm

LEMMA ServeCapable ==
  ASSUME Typed, Locked, Capable, NEW h \in Handler, Serve(h)
  PROVE  Capable'
<1>1. UNCHANGED <<pub, isOwner, page>>
  BY HandlerSteps, BeganEffect, AdvanceEffect, ClearEffect, FoundEffect, EndedEffect
     DEF Typed, Frame, CommitRequest, pageVars
<1>2. InSequence'
  BY <1>1 DEF Capable, InSequence
<1>3. ASSUME NEW k \in Handler, HoldsLifecycle(k)'
      PROVE  /\ k \in memberShare' /\ isOwner
             /\ page[req'[k][1]] \in Pub /\ pub[page[req'[k][1]]].state = "live"
  <2>1. CASE Began(h)
    <3>1. HoldsLifecycle(k) /\ memberShare' = memberShare /\ req'[k] = req[k]
      BY <1>3, <2>1, BeganEffect DEF Others, HoldsLifecycle, InForm
    <3>2. QED
      BY <3>1 DEF Capable
  <2>2. CASE Resolved(h)
    <3>1. Others(h) /\ Same(h) /\ LifecycleFree
      BY <2>2, AdvanceEffect
    <3>2. k = h
      BY <1>3, <3>1 DEF Others, HoldsLifecycle, InForm, LifecycleFree
    <3>3. QED
      BY <2>2, <3>1, <3>2 DEF Resolved, Resolvable, Same
  <2>3. CASE Judges(h) \/ ClearReceipts(h) \/ Found(h)
    <3>1. /\ Others(h) /\ Same(h) /\ pc[h] \notin {"idle", "resolve"} /\ memberShare' = memberShare
      <4>1. CASE Judges(h)
        BY <4>1, AdvanceEffect DEF Judges
      <4>2. CASE ClearReceipts(h) \/ Found(h)
        BY <4>2, ClearEffect, FoundEffect
      <4>3. QED
        BY <2>3, <4>1, <4>2
    <3>2. HoldsLifecycle(k) /\ req'[k] = req[k]
      BY <1>3, <3>1 DEF Others, Same, HoldsLifecycle, InForm
    <3>3. QED
      BY <3>1, <3>2 DEF Capable
  <2>4. CASE CommitRequest(h) \/ Ended(h)
    <3>1. EndTx(h) /\ Drop(h)
      BY <2>4, EndedEffect DEF CommitRequest, Commit
    <3>2. k # h /\ HoldsLifecycle(k) /\ req'[k] = req[k]
      BY <1>3, <3>1, EndEffect DEF Others, HoldsLifecycle, InForm
    <3>3. QED
      BY <3>1, <3>2 DEF Capable, Drop
  <2>5. QED
    BY <2>1, <2>2, <2>3, <2>4, HandlerSteps DEF Typed
<1>4. QED
  BY <1>1, <1>2, <1>3 DEF Capable

LEMMA OwnerCapable ==
  ASSUME Typed, Locked, Capable, Publish \/ Revoke \/ DeleteForm \/ OwnerChange
  PROVE  Capable'
<1> USE DEF storeVars, txVars, wireVars, pageVars, pasteVars, attemptVars
<1>1. CASE Publish \/ Revoke \/ DeleteForm
  <2>1. LifecycleFree /\ UNCHANGED <<pc, req>>
    BY <1>1 DEF Publish, Revoke, DeleteForm
  <2>2. \A h \in Handler : ~HoldsLifecycle(h)'
    BY <2>1 DEF LifecycleFree, HoldsLifecycle, InForm
  <2>3. \A p \in Pub : RevokeAll(pub)[p].state =
           IF pub[p].state = "live" THEN "revoked" ELSE pub[p].state
    BY DEF RevokeAll, Revoked, Typed, TypeOK
  <2>4. InSequence'
    <3>1. CASE Publish
      <4>1. PICK p \in Pub, life \in Lives :
              /\ pub[p].state = "none"
              /\ pub' = [RevokeAll(pub) EXCEPT ![p] = [state |-> "live", until |-> now + life]]
              /\ \A q \in Pub : q < p => pub[q].state # "none"
        BY <3>1 DEF Publish
      <4>2. \A q \in Pub : pub'[q].state =
              IF q = p THEN "live"
              ELSE IF pub[q].state = "live" THEN "revoked" ELSE pub[q].state
        BY <2>3, <4>1 DEF RevokeAll
      <4>3. QED
        BY <4>1, <4>2, SubmissionsAssumption DEF Capable, InSequence, Pub
    <3>2. CASE Revoke
      BY <2>3, <3>2 DEF Revoke, Capable, InSequence
    <3>3. CASE DeleteForm
      BY <3>3 DEF DeleteForm, InSequence, Typed, TypeOK
    <3>4. QED
      BY <1>1, <3>1, <3>2, <3>3
  <2>5. QED
    BY <2>2, <2>4 DEF Capable
<1>2. CASE OwnerChange
  BY <1>2 DEF OwnerChange, Capable, InSequence, HoldsLifecycle, InForm
<1>3. QED
  BY <1>1, <1>2

LEMMA CapableStep ==
  ASSUME Typed, Locked, Capable, [Next]_vars
  PROVE  Capable'
<1> USE DEF serverVars, storeVars, txVars, formVars, wireVars, pageVars, pasteVars, attemptVars
<1>1. ASSUME NEW v \in Visitor, Visit(v)
      PROVE  Capable'
  <2>1. CASE OpenPage(v)
    <3>1. page[v] = 0 /\ \A w \in Visitor \ {v} : page'[w] = page[w]
      BY <2>1 DEF OpenPage, Typed, TypeOK
    <3>2. 0 \notin Pub
      BY DEF Pub
    <3>3. UNCHANGED <<pub, isOwner, memberShare, pc, req>>
      BY <2>1 DEF OpenPage
    <3>4. ASSUME NEW h \in Handler, HoldsLifecycle(h)
          PROVE  page'[req[h][1]] = page[req[h][1]]
      BY <3>1, <3>2, <3>4, FormHandler DEF Capable
    <3>5. QED
      BY <3>3, <3>4 DEF Capable, InSequence, HoldsLifecycle, InForm
  <2>2. CASE ~OpenPage(v)
    BY <1>1, <2>2, CapableFrame
       DEF Visit, SubmitNew, Resubmit, FormAnswer, FormLost, Change
  <2>3. QED
    BY <2>1, <2>2
<1>2. ASSUME NEW u \in Paster, Paste(u)
      PROVE  Capable'
  BY <1>2, CapableFrame
     DEF Paste, ConfirmPaste, LeaveView, CancelPaste, PasteAnswer, PasteLost, PreparePaste, Reuse
<1>3. CASE TimePasses \/ UNCHANGED vars \/ \E x \in live : DeleteRecord(x)
  BY <1>3, CapableFrame DEF TimePasses, vars, DeleteRecord
<1>4. QED
  BY <1>1, <1>2, <1>3, ServeCapable, OwnerCapable DEF Next

(* A record enters through a form only while its publication is live, the  *)
(* latest one, and made by an owner, up to the commit (publications.ts:    *)
(* 109-112), although these were checked statements before.                *)
THEOREM OnlyThroughLiveForms == Spec => CapabilityHeldAtCommit
<1>1. Init => Capable
  BY DEF Init, InitReceipts, Capable, InSequence, HoldsLifecycle, InForm
<1>2. Spec => [](Typed /\ Locked /\ Capable)
  <2>1. Init => Typed /\ Locked /\ Capable
    BY <1>1, TypedInit, KeptInit
  <2>2. Typed /\ Locked /\ Capable /\ [Next]_vars => (Typed /\ Locked /\ Capable)'
    BY TypedStep, LockedStep, CapableStep
  <2>3. QED
    BY <2>1, <2>2, PTL DEF Spec
<1>3. ASSUME Typed, Locked, Capable, [Next]_vars
      PROVE  \A r \in Req : r[1] \in Visitor /\ made'[r] # made[r] =>
               /\ isOwner /\ pub[page[r[1]]].state = "live"
               /\ \A q \in Pub : q > page[r[1]] => pub[q].state = "none"
  <2>1. SUFFICES ASSUME NEW r \in Req, r[1] \in Visitor, made'[r] # made[r]
                 PROVE  /\ isOwner /\ pub[page[r[1]]].state = "live"
                        /\ \A q \in Pub : q > page[r[1]] => pub[q].state = "none"
    OBVIOUS
  <2>2. PICK h \in Handler : CommitRequest(h) /\ req[h] = r
    BY <1>3, <2>1, ExecutedBy
  <2>3. HoldsLifecycle(h)
    BY <1>3, <2>1, <2>2, Fresh, CommitEffect DEF HoldsLifecycle, InForm
  <2>4. isOwner /\ page[r[1]] \in Pub /\ pub[page[r[1]]].state = "live"
    BY <1>3, <2>2, <2>3 DEF Capable
  <2>5. QED
    BY <1>3, <2>4 DEF Capable, InSequence, Pub
<1>4. QED
  BY <1>2, <1>3, PTL DEF Spec, CapabilityHeldAtCommit

-----------------------------------------------------------------------------
(***************************************************************************)
(* The audit rows.                                                         *)
(***************************************************************************)
LEMMA AuditedFrame ==
  ASSUME Audited, UNCHANGED <<pub, audit, live, receipt, sawReceipt, txVars>>
  PROVE  Audited'
  BY DEF Audited, SawTruly, OwnKind, AuditComplete, OneRecord, Judged, HoldsLifecycle, InForm,
         HasLiveReceipt, Expired, Recorded, txVars

(* Steps of a handler before the commit.                                   *)
LEMMA BeforeCommitAudited ==
  ASSUME Typed, Locked, Audited, NEW h \in Handler,
         Began(h) \/ Resolved(h) \/ Judges(h) \/ ClearReceipts(h) \/ Found(h)
  PROVE  Audited'
<1>1. /\ UNCHANGED <<pub, audit, live, receipt>> /\ Others(h)
  BY BeganEffect, AdvanceEffect, ClearEffect, FoundEffect DEF Frame, storeVars
<1>2. AuditComplete' /\ OneRecord'
  BY <1>1 DEF Audited, AuditComplete, OneRecord, Recorded
<1>3. SawTruly'
  <2>1. ASSUME NEW k \in Handler, k # h, k \in sawReceipt' <=> k \in sawReceipt
        PROVE  /\ k \in sawReceipt' => Judged(k)'
               /\ Judged(k)' => IF k \in sawReceipt' THEN HasLiveReceipt(k)'
                                                     ELSE audit'[req'[k]] = 0
    BY <1>1, <2>1 DEF Others, Audited, SawTruly, Judged, HoldsLifecycle, InForm,
                      HasLiveReceipt, Expired
  <2>2. CASE Began(h) \/ Resolved(h)
    <3>1. ~Judged(h) /\ sawReceipt' = sawReceipt
      <4>1. CASE Began(h)
        BY <4>1, BeganEffect DEF Judged, HoldsLifecycle, InForm, Typed, Busy
      <4>2. CASE Resolved(h)
        BY <4>2 DEF Resolved, Judged, HoldsLifecycle
      <4>3. QED
        BY <2>2, <4>1, <4>2
    <3>2. ~Judged(h)'
      BY <2>2, BeganEffect, AdvanceEffect DEF Judged, HoldsLifecycle, InForm
    <3>3. h \notin sawReceipt'
      BY <3>1 DEF Audited, SawTruly
    <3>4. QED
      BY <2>1, <3>1, <3>2, <3>3 DEF SawTruly
  <2>3. CASE Judges(h)
    <3>1. /\ pc[h] = "receipts" /\ pc'[h] = "expire" /\ Same(h) /\ InForm(h)
      BY <2>3, AdvanceEffect DEF Judges, Resolved, Locked, InOrder
    <3>2. h \notin sawReceipt
      BY <3>1 DEF Audited, SawTruly, Judged
    <3>3. Judged(h)' /\ (HasLiveReceipt(h)' <=> HasLiveReceipt(h))
      BY <1>1, <3>1 DEF Judged, HoldsLifecycle, InForm, HasLiveReceipt, Expired, Same
    <3>4. \A k \in Handler : k # h => (k \in sawReceipt' <=> k \in sawReceipt)
      BY <2>3 DEF Judges
    <3>5. IF h \in sawReceipt' THEN HasLiveReceipt(h) ELSE audit[req[h]] = 0
      BY <2>3, <3>2 DEF Judges
    <3>6. QED
      BY <1>1, <2>1, <3>1, <3>3, <3>4, <3>5 DEF SawTruly, Same
  <2>4. CASE ClearReceipts(h) \/ Found(h)
    <3>1. /\ sawReceipt' = sawReceipt /\ Same(h)
          /\ pc[h] \in {"expire", "lookup"} /\ pc'[h] \in {"lookup", "commit"}
      BY <2>4, ClearEffect, FoundEffect
    <3>2. (Judged(h)' <=> Judged(h)) /\ (HasLiveReceipt(h)' <=> HasLiveReceipt(h))
      BY <1>1, <3>1 DEF Judged, HoldsLifecycle, InForm, HasLiveReceipt, Expired, Same
    <3>3. QED
      BY <1>1, <2>1, <3>1, <3>2 DEF Audited, SawTruly, Same
  <2>5. QED
    BY <2>2, <2>3, <2>4
<1>4. OwnKind'
  <2>1. ASSUME NEW q \in doomed'[h]
        PROVE  q[1] \in Visitor <=> InForm(h)'
    <3>1. CASE Began(h)
      BY <2>1, <3>1, BeganEffect DEF Locked, InOrder, Holds
    <3>2. CASE Resolved(h) \/ Judges(h) \/ Found(h)
      BY <2>1, <3>2, AdvanceEffect, FoundEffect DEF Audited, OwnKind, InForm, Same
    <3>3. CASE ClearReceipts(h)
      <4>1. q \in Mates(req[h]) /\ Same(h) /\ req[h] # NoReq
        BY <2>1, <3>3, ClearEffect, BusyHandler
      <4>2. QED
        BY <4>1 DEF Mates, InForm, Same
    <3>4. QED
      BY <3>1, <3>2, <3>3
  <2>2. QED
    BY <1>1, <2>1 DEF Audited, OwnKind, Others, InForm
<1>5. QED
  BY <1>2, <1>3, <1>4 DEF Audited

(* The receipts of form requests are changed by the handler of the form    *)
(* that holds the lifecycle lock, and by nobody else.                      *)
LEMMA CommitJudged ==
  ASSUME Typed, Locked, Kept, Audited, NEW h \in Handler, CommitRequest(h),
         NEW k \in Handler, k # h, Judged(k)
  PROVE  HasLiveReceipt(k) => HasLiveReceipt(k)'
<1>1. req[k] \in Req /\ req[k][1] \in Visitor /\ ~HoldsLifecycle(h)
  BY FormHandler DEF Judged
<1>2. pc[h] = "commit" /\ req[h] # NoReq
  BY CommitEffect, Fresh
<1>3. ~InForm(h)
  BY <1>1, <1>2 DEF HoldsLifecycle
<1>4. req[h] # req[k] /\ req[k] \notin doomed[h]
  BY <1>1, <1>2, <1>3 DEF InForm, Audited, OwnKind
<1>5. receipt'[req[k]] = receipt[req[k]]
  BY <1>1, <1>4, CommitEffect
<1>6. req'[k] = req[k] /\ start'[k] = start[k]
  BY CommitEffect, EndEffect DEF Others
<1>7. QED
  BY <1>5, <1>6 DEF HasLiveReceipt, Expired

(* A form's handler that writes found neither audit row nor record.        *)
LEMMA WritesFirst ==
  ASSUME Typed, Locked, Kept, Capable, Audited, NEW h \in Handler, CommitRequest(h),
         InForm(h), Writes(h)
  PROVE  h \notin sawReceipt /\ ~Recorded(req[h])
<1>1. pc[h] = "commit" /\ req[h] \in Req
  BY CommitEffect
<1>2. Judged(h) /\ HoldsLifecycle(h) /\ req[h][1] \in Visitor
  BY <1>1 DEF Judged, HoldsLifecycle, InForm
<1>3. Unanswered(h)
  BY <1>1 DEF Kept, ResultFits
<1>4. ~HasLiveReceipt(h)
  BY <1>3 DEF Unanswered, HasLiveReceipt, Kept, DoomedExpired
<1>5. h \notin sawReceipt /\ audit[req[h]] = 0
  BY <1>2, <1>4 DEF Audited, SawTruly
<1>6. \E p \in Pub : pub[p].state # "gone"
  BY <1>2 DEF Capable
<1>7. QED
  BY <1>1, <1>2, <1>5, <1>6 DEF Audited, AuditComplete

LEMMA CommitAudited ==
  ASSUME Typed, Locked, Kept, Capable, Audited, NEW h \in Handler, CommitRequest(h)
  PROVE  Audited'
<1> DEFINE r == req[h]
<1>1. /\ pc[h] = "commit" /\ r \in Req
      /\ Others(h) /\ pc'[h] = "idle" /\ req'[h] = NoReq /\ doomed'[h] = {}
      /\ Drop(h) /\ UNCHANGED pub
  BY CommitEffect, EndEffect DEF CommitRequest
<1>2. audit' = IF InForm(h) /\ h \notin sawReceipt THEN [audit EXCEPT ![r] = Execution(h)] ELSE audit
  BY DEF CommitRequest
<1>3. live' = IF Writes(h) THEN live \cup {<<r, Execution(h)>>} ELSE live
  BY DEF CommitRequest, Commit, CommitRows
<1>4. audit \in [Req -> Nat] /\ Execution(h) # 0
  <2>1. Len(made[r]) \in Nat
    BY <1>1, MadeTyped
  <2>2. QED
    BY <2>1 DEF Execution, Writes, Typed, TypeOK
<1>5. OwnKind'
  BY <1>1 DEF Audited, OwnKind, Others, InForm
<1>6. SawTruly'
  <2>1. ASSUME NEW k \in Handler, k # h
        PROVE  /\ k \in sawReceipt' => Judged(k)'
               /\ Judged(k)' => IF k \in sawReceipt' THEN HasLiveReceipt(k)'
                                                     ELSE audit'[req'[k]] = 0
    <3>1. (Judged(k)' <=> Judged(k)) /\ req'[k] = req[k] /\ (k \in sawReceipt' <=> k \in sawReceipt)
      BY <1>1, <2>1 DEF Others, Judged, HoldsLifecycle, InForm, Drop
    <3>2. ASSUME Judged(k)
          PROVE  audit'[req[k]] = audit[req[k]]
      <4>1. ~HoldsLifecycle(h)
        BY <2>1, <3>2, FormHandler DEF Judged
      <4>2. ~InForm(h)
        BY <1>1, <4>1 DEF HoldsLifecycle
      <4>3. QED
        BY <1>2, <4>2
    <3>3. QED
      BY <2>1, <3>1, <3>2, CommitJudged DEF Audited, SawTruly
  <2>2. h \notin sawReceipt' /\ ~Judged(h)'
    BY <1>1 DEF Drop, Judged, HoldsLifecycle, InForm
  <2>3. QED
    BY <2>1, <2>2 DEF SawTruly
<1>7. AuditComplete'
  <2>1. ASSUME \E p \in Pub : pub[p].state # "gone", NEW q \in Req, q[1] \in Visitor, Recorded(q)'
        PROVE  audit'[q] # 0
    <3>1. CASE Recorded(q)
      <4>1. audit[q] # 0
        BY <2>1, <3>1 DEF Audited, AuditComplete
      <4>2. QED
        BY <1>1, <1>2, <1>4, <4>1
    <3>2. CASE ~Recorded(q)
      <4>1. q = r /\ Writes(h)
        BY <1>3, <2>1, <3>2 DEF Recorded
      <4>2. InForm(h)
        BY <1>1, <2>1, <4>1, Fresh DEF InForm
      <4>3. h \notin sawReceipt
        BY <4>1, <4>2, WritesFirst
      <4>4. QED
        BY <1>1, <1>2, <1>4, <4>1, <4>2, <4>3
    <3>3. QED
      BY <3>1, <3>2
  <2>2. QED
    BY <1>1, <2>1 DEF AuditComplete
<1>8. OneRecord'
  <2>1. ASSUME NEW x \in live', NEW y \in live', x[1] = y[1], x[1][1] \in Visitor
        PROVE  x = y
    <3>1. CASE x \in live /\ y \in live
      BY <2>1, <3>1 DEF Audited, OneRecord
    <3>2. CASE ~(x \in live /\ y \in live)
      <4>1. Writes(h) /\ x[1] = r /\ InForm(h)
        BY <1>1, <1>3, <2>1, <3>2, Fresh DEF InForm
      <4>2. x \notin live /\ y \notin live
        BY <2>1, <4>1, WritesFirst DEF Recorded
      <4>3. QED
        BY <1>3, <2>1, <4>2
    <3>3. QED
      BY <3>1, <3>2
  <2>2. QED
    BY <2>1 DEF OneRecord
<1>9. QED
  BY <1>5, <1>6, <1>7, <1>8 DEF Audited

LEMMA ServeAudited ==
  ASSUME Typed, Locked, Kept, Capable, Audited, NEW h \in Handler, Serve(h)
  PROVE  Audited'
<1>1. CASE Ended(h)
  <2>1. /\ Others(h) /\ pc'[h] = "idle" /\ req'[h] = NoReq /\ doomed'[h] = {} /\ Drop(h)
        /\ UNCHANGED <<pub, audit, live, receipt>>
    BY <1>1, EndedEffect, EndEffect DEF Frame, storeVars
  <2>2. AuditComplete' /\ OneRecord'
    BY <2>1 DEF Audited, AuditComplete, OneRecord, Recorded
  <2>3. OwnKind'
    BY <2>1 DEF Audited, OwnKind, Others, InForm
  <2>4. SawTruly'
    BY <2>1 DEF Audited, SawTruly, Judged, HoldsLifecycle, InForm, HasLiveReceipt, Expired,
                Drop, Others
  <2>5. QED
    BY <2>2, <2>3, <2>4 DEF Audited
<1>2. QED
  BY <1>1, BeforeCommitAudited, CommitAudited, HandlerSteps DEF Typed

LEMMA AuditedStep ==
  ASSUME Typed, Locked, Kept, Capable, Audited, [Next]_vars
  PROVE  Audited'
<1> USE DEF serverVars, storeVars, formVars, wireVars, pageVars, pasteVars, attemptVars
<1>1. ASSUME NEW x \in live, DeleteRecord(x)
      PROVE  Audited'
  <2>1. UNCHANGED <<pub, receipt, sawReceipt, txVars>> /\ live' = live \ {x}
    BY <1>1 DEF DeleteRecord
  <2>2. x[1] \in Req /\ audit \in [Req -> Nat]
    BY DEF Typed, TypeOK, TypeOKReceipts
  <2>3. \A r \in Req : audit'[r] = IF r = x[1] /\ audit[r] = x[2] THEN 0 ELSE audit[r]
    BY <1>1 DEF DeleteRecord
  <2>4. OneRecord' /\ OwnKind'
    BY <2>1 DEF Audited, OneRecord, OwnKind, InForm, txVars
  <2>5. AuditComplete'
    BY <2>1, <2>3 DEF Audited, AuditComplete, OneRecord, Recorded
  <2>6. SawTruly'
    <3>1. ASSUME NEW k \in Handler, Judged(k), audit[req[k]] = 0
          PROVE  audit'[req[k]] = 0
      BY <2>3, <3>1, FormHandler DEF Judged
    <3>2. QED
      BY <2>1, <3>1 DEF Audited, SawTruly, Judged, HoldsLifecycle, InForm, HasLiveReceipt,
                        Expired, txVars
  <2>7. QED
    BY <2>4, <2>5, <2>6 DEF Audited
<1>2. CASE DeleteForm
  <2>1. UNCHANGED <<live, receipt, sawReceipt, txVars>> /\ LifecycleFree
    BY <1>2 DEF DeleteForm
  <2>2. \A p \in Pub : pub'[p].state = "gone"
    BY <1>2 DEF DeleteForm, Typed, TypeOK
  <2>3. OneRecord' /\ OwnKind' /\ AuditComplete'
    BY <2>1, <2>2 DEF Audited, OneRecord, OwnKind, AuditComplete, InForm, txVars
  <2>4. SawTruly'
    BY <2>1 DEF Audited, SawTruly, LifecycleFree, Judged, HoldsLifecycle, InForm, txVars
  <2>5. QED
    BY <2>3, <2>4 DEF Audited
<1>3. CASE Publish \/ Revoke
  <2>1. UNCHANGED <<audit, live, receipt, sawReceipt, txVars>>
    BY <1>3 DEF Publish, Revoke
  <2>2. (\E p \in Pub : pub'[p].state # "gone") => \E p \in Pub : pub[p].state # "gone"
    BY <1>3 DEF Publish, Revoke
  <2>3. AuditComplete'
    BY <2>1, <2>2 DEF Audited, AuditComplete, Recorded
  <2>4. OneRecord' /\ OwnKind' /\ SawTruly'
    BY <2>1 DEF Audited, SawTruly, OwnKind, OneRecord, Judged, HoldsLifecycle, InForm,
                HasLiveReceipt, Expired, txVars
  <2>5. QED
    BY <2>3, <2>4 DEF Audited
<1>4. ASSUME NEW v \in Visitor, Visit(v)
      PROVE  Audited'
  BY <1>4, AuditedFrame
     DEF Visit, OpenPage, SubmitNew, Resubmit, FormAnswer, FormLost, Change
<1>5. ASSUME NEW u \in Paster, Paste(u)
      PROVE  Audited'
  BY <1>5, AuditedFrame
     DEF Paste, ConfirmPaste, LeaveView, CancelPaste, PasteAnswer, PasteLost, PreparePaste, Reuse
<1>6. CASE OwnerChange \/ TimePasses \/ UNCHANGED vars
  BY <1>6, AuditedFrame DEF OwnerChange, TimePasses, vars
<1>7. QED
  BY <1>1, <1>2, <1>3, <1>4, <1>5, <1>6, ServeAudited DEF Next

LEMMA AuditedAlways == Spec => []Audited
<1> DEFINE Inv == Typed /\ Locked /\ Kept /\ Capable /\ Audited
<1>1. Init => Inv
  <2>1. SUFFICES ASSUME Init PROVE Inv
    OBVIOUS
  <2>2. Capable
    BY <2>1 DEF Init, InitReceipts, Capable, InSequence, HoldsLifecycle, InForm
  <2>3. Audited
    BY <2>1 DEF Init, InitReceipts, Audited, SawTruly, OwnKind, AuditComplete, OneRecord,
                Judged, HoldsLifecycle, InForm, Recorded
  <2>4. QED
    BY <2>1, <2>2, <2>3, TypedInit, KeptInit
<1>2. Inv /\ [Next]_vars => Inv'
  BY TypedStep, LockedStep, KeptStep, CapableStep, AuditedStep
<1>3. Inv => Audited
  OBVIOUS
<1> HIDE DEF Inv
<1>4. QED
  BY <1>1, <1>2, <1>3, PTL DEF Spec

(* One form submission never has two records, however often its request    *)
(* arrives and however late: while the receipt lives it answers, and after *)
(* that the audit row refuses (submission.ts:139-155).                     *)
THEOREM AtMostOneRecord == Spec => []OncePerSubmission
<1>1. Audited => OncePerSubmission
  <2>1. SUFFICES ASSUME OneRecord, NEW r \in Req, r[1] \in Visitor
                 PROVE  Cardinality({x \in live : x[1] = r}) <= 1
    BY DEF Audited, OncePerSubmission
  <2>2. {x \in live : x[1] = r} = {} \/ \E x \in live : {y \in live : y[1] = r} = {x}
    BY <2>1 DEF OneRecord
  <2>3. CASE {x \in live : x[1] = r} = {}
    <3>1. Cardinality({}) = 0
      BY FS_EmptySet
    <3>2. QED
      BY <2>3, <3>1
  <2>4. ASSUME NEW x \in live, {y \in live : y[1] = r} = {x}
        PROVE  Cardinality({y \in live : y[1] = r}) <= 1
    <3>1. Cardinality({x}) = 1
      BY FS_Singleton
    <3>2. QED
      BY <2>4, <3>1
  <2>5. QED
    BY <2>2, <2>3, <2>4
<1>2. QED
  BY <1>1, AuditedAlways, PTL

-----------------------------------------------------------------------------
(***************************************************************************)
(* The answers.                                                            *)
(***************************************************************************)
(* What was executed stays executed.                                       *)
LEMMA ExecutedStays ==
  ASSUME Typed, [Next]_vars, NEW r \in Req, NEW b, Executed(r, b)
  PROVE  Executed(r, b)'
<1>1. CASE made'[r] = made[r]
  BY <1>1 DEF Executed
<1>2. CASE made'[r] # made[r]
  <2>1. PICK h \in Handler : CommitRequest(h)
    BY <1>2, ExecutedBy
  <2>2. QED
    BY <2>1, CommitEffect DEF Executed
<1>3. QED
  BY <1>1, <1>2

Told(c) == inbox[c] = "ok" => Executed(<<c, attempt[c]>>, sent[c])

Expected(c) ==
  /\ peer[c] # Nobody =>
       /\ inbox[c] = "none"
       /\ req[peer[c]] = <<c, attempt[c]>> /\ body[peer[c]] = sent[c]
  /\ peer[c] # Nobody \/ inbox[c] # "none" => sending[c] /\ Current(c) \notin net

LEMMA AnsweredIs ==
  Answered <=> \A c \in Client : Expected(c) /\ Told(c)
  BY DEF Answered, Waiting, AnswersAreTrue, Expected, Told, Executed

(* A request whose handler commits is executed, now or before.             *)
LEMMA CommitExecutes ==
  ASSUME Typed, Kept, [Next]_vars, NEW h \in Handler, CommitRequest(h),
         NEW r, r = req[h], NEW b, b = body[h]
  PROVE  Executed(r, b)'
<1>1. pc[h] = "commit" /\ r \in Req
  BY CommitEffect
<1>2. CASE Writes(h)
  <2>1. /\ Len(made'[r]) = Len(made[r]) + 1 /\ Len(made[r]) \in Nat
        /\ made'[r][Len(made'[r])] = Written(h)
    BY <1>1, <1>2, CommitEffect
  <2>2. Len(made'[r]) \in 1..Len(made'[r]) /\ Written(h).body = b
    BY <2>1 DEF Written
  <2>3. QED
    BY <2>1, <2>2 DEF Executed
<1>3. CASE ~Writes(h)
  <2>1. Executed(r, b)
    BY <1>1, <1>3 DEF Kept, ResultFits
  <2>2. QED
    BY <1>1, <2>1, ExecutedStays
<1>4. QED
  BY <1>2, <1>3

(* What a client does concerns the messages of that client, and it neither *)
(* waits nor holds an answer after it, or as before.                       *)
Touches(a) ==
  /\ \A c \in Client \ {a} :
       /\ peer'[c] = peer[c] /\ inbox'[c] = inbox[c] /\ attempt'[c] = attempt[c]
       /\ sent'[c] = sent[c] /\ sending'[c] = sending[c]
  /\ \A m \in net' \ net : m.req[1] = a
  /\ UNCHANGED <<req, body, made>>

Released(a) == peer'[a] = Nobody /\ inbox'[a] = "none"

LEMMA TouchesAnswered ==
  ASSUME Answered, NEW a \in Client, Touches(a),
         \/ Released(a)
         \/ /\ peer'[a] = peer[a] /\ inbox'[a] = inbox[a] /\ attempt'[a] = attempt[a]
            /\ sent'[a] = sent[a] /\ sending'[a] = sending[a]
            /\ Current(a) \notin net' \ net
  PROVE  Answered'
<1>1. ASSUME NEW c \in Client, c # a
      PROVE  Expected(c)' /\ Told(c)'
  <2>1. Expected(c) /\ Told(c)
    BY AnsweredIs
  <2>2. Current(c)' = Current(c) /\ Current(c).req[1] = c
    BY <1>1 DEF Touches, Current
  <2>3. Current(c) \notin net' \ net
    BY <1>1, <2>2 DEF Touches
  <2>4. QED
    BY <1>1, <2>1, <2>2, <2>3 DEF Touches, Expected, Told, Executed
<1>2. Expected(a)' /\ Told(a)'
  <2>1. CASE Released(a)
    BY <2>1 DEF Released, Expected, Told
  <2>2. CASE /\ peer'[a] = peer[a] /\ inbox'[a] = inbox[a] /\ attempt'[a] = attempt[a]
             /\ sent'[a] = sent[a] /\ sending'[a] = sending[a]
             /\ Current(a) \notin net' \ net
    <3>1. Current(a)' = Current(a)
      BY <2>2 DEF Current
    <3>2. QED
      BY <2>2, <3>1, AnsweredIs DEF Touches, Expected, Told, Executed
  <2>3. QED
    BY <2>1, <2>2
<1>3. \A c \in Client : Expected(c)' /\ Told(c)'
  BY <1>1, <1>2
<1>4. QED
  BY <1>3 DEF Answered, Waiting, AnswersAreTrue, Expected, Told, Executed

(* Who has no request open waits for nobody.                               *)
LEMMA NotSending ==
  ASSUME Typed, Answered, NEW c \in Client
  PROVE  /\ ~sending[c] => peer[c] = Nobody /\ inbox[c] = "none"
         /\ inbox[c] # "none" => peer[c] = Nobody
  BY AnsweredIs DEF Expected

LEMMA VisitAnswered ==
  ASSUME Typed, Answered, NEW v \in Visitor, Visit(v)
  PROVE  Answered'
<1> v \in Client
  BY Fresh
<1> USE DEF serverVars, storeVars, txVars, formVars, wireVars, pageVars, pasteVars, attemptVars
<1>1. UNCHANGED <<req, body, made>>
  BY DEF Visit, OpenPage, SubmitNew, Resubmit, FormAnswer, FormLost, Change
<1>2. CASE OpenPage(v) \/ \E x \in Body : Change(v, x)
  <2>1. UNCHANGED <<wireVars, attemptVars>>
    BY <1>2 DEF OpenPage, Change
  <2>2. QED
    BY <1>1, <2>1, TouchesAnswered DEF Touches
<1>3. CASE SubmitNew(v) \/ Resubmit(v)
  <2>1. /\ ~sending[v] /\ UNCHANGED <<peer, inbox>>
        /\ \A m \in net' \ net : m.req[1] = v
        /\ \A c \in Client \ {v} :
             attempt'[c] = attempt[c] /\ sent'[c] = sent[c] /\ sending'[c] = sending[c]
    <3>1. CASE SubmitNew(v)
      BY <3>1 DEF SubmitNew, CanSubmit, Post, Typed, TypeOK
    <3>2. CASE Resubmit(v)
      BY <3>2 DEF Resubmit, CanSubmit, Post, Typed, TypeOK
    <3>3. QED
      BY <1>3, <3>1, <3>2
  <2>2. QED
    BY <1>1, <2>1, NotSending, TouchesAnswered DEF Touches, Released
<1>4. CASE FormAnswer(v) \/ FormLost(v)
  <2>1. Touches(v)
    BY <1>1, <1>4 DEF FormAnswer, FormLost, Touches, Typed, TypeOK, TypeOKReceipts
  <2>2. Released(v)
    BY <1>4, NotSending DEF FormAnswer, FormLost, Released, Typed, TypeOK, TypeOKReceipts
  <2>3. QED
    BY <2>1, <2>2, TouchesAnswered
<1>5. QED
  BY <1>2, <1>3, <1>4 DEF Visit

LEMMA PasteAnswered ==
  ASSUME Typed, Answered, NEW u \in Paster, Paste(u)
  PROVE  Answered'
<1> u \in Client
  BY Fresh
<1> USE DEF serverVars, storeVars, txVars, formVars, wireVars, pageVars, pasteVars, attemptVars
<1>1. UNCHANGED <<req, body, made>>
  BY DEF Paste, ConfirmPaste, LeaveView, CancelPaste, PasteAnswer, PasteLost, PreparePaste, Reuse
<1>2. CASE LeaveView(u) \/ CancelPaste(u)
  <2>1. UNCHANGED <<wireVars, attemptVars>>
    BY <1>2 DEF LeaveView, CancelPaste
  <2>2. QED
    BY <1>1, <2>1, TouchesAnswered DEF Touches
<1>3. CASE ConfirmPaste(u) \/ \E b \in Body : PreparePaste(u, b)
  <2>1. /\ ~sending[u] /\ UNCHANGED <<peer, inbox>>
        /\ \A m \in net' \ net : m.req[1] = u
        /\ \A c \in Client \ {u} :
             attempt'[c] = attempt[c] /\ sent'[c] = sent[c] /\ sending'[c] = sending[c]
    <3>1. CASE ConfirmPaste(u)
      BY <3>1 DEF ConfirmPaste, Post, Typed, TypeOK
    <3>2. CASE \E b \in Body : PreparePaste(u, b)
      BY <3>2 DEF PreparePaste, Typed, TypeOK
    <3>3. QED
      BY <1>3, <3>1, <3>2
  <2>2. QED
    BY <1>1, <2>1, NotSending, TouchesAnswered DEF Touches, Released
<1>4. CASE PasteAnswer(u) \/ PasteLost(u)
  <2>1. Touches(u)
    BY <1>1, <1>4 DEF PasteAnswer, PasteLost, Touches, Typed, TypeOK, TypeOKReceipts
  <2>2. Released(u)
    BY <1>4, NotSending DEF PasteAnswer, PasteLost, Released, Typed, TypeOK, TypeOKReceipts
  <2>3. QED
    BY <2>1, <2>2, TouchesAnswered
<1>5. ASSUME NEW b \in Body, Reuse(u, b)
      PROVE  Answered'
  <2>1. /\ net' = net \cup {[req |-> <<u, attempt[u]>>, body |-> b]} /\ b # sent[u]
        /\ UNCHANGED <<peer, inbox, attempt, sent, sending>>
    BY <1>5 DEF Reuse
  <2>2. Touches(u) /\ Current(u) \notin net' \ net
    BY <1>1, <2>1 DEF Touches, Current
  <2>3. QED
    BY <2>1, <2>2, TouchesAnswered
<1>6. QED
  BY <1>2, <1>3, <1>4, <1>5 DEF Paste

(* An answer reaches the client that waits for this handler, and only it.  *)
LEMMA AnswerReaches ==
  ASSUME Typed, Answered, NEW h \in Handler, pc[h] # "idle", NEW a \in Answers, Answer(h, a),
         NEW c \in Client
  PROVE  IF peer[c] = h
           THEN /\ req[h] = <<c, attempt[c]>> /\ body[h] = sent[c]
                /\ inbox'[c] = a /\ peer'[c] = Nobody
                /\ sending[c] /\ Current(c) \notin net
           ELSE inbox'[c] = inbox[c] /\ peer'[c] = peer[c]
<1>1. req[h][1] \in Client
  BY BusyHandler
<1>2. h # Nobody
  BY WriteReceiptsAssumption
<1>3. CASE peer[c] = h
  <2>1. req[h] = <<c, attempt[c]>> /\ body[h] = sent[c] /\ sending[c] /\ Current(c) \notin net
    BY <1>2, <1>3, AnsweredIs DEF Expected
  <2>2. req[h][1] = c
    BY <2>1
  <2>3. QED
    BY <1>3, <2>1, <2>2 DEF Answer, Typed, TypeOK, TypeOKReceipts
<1>4. CASE peer[c] # h
  BY <1>1, <1>4 DEF Answer, Typed, TypeOK, TypeOKReceipts
<1>5. QED
  BY <1>3, <1>4

LEMMA BeganAnswered ==
  ASSUME Typed, Answered, NEW h \in Handler, Began(h)
  PROVE  Answered'
<1>1. PICK m \in net :
        /\ pc[h] = "idle" /\ Others(h) /\ req'[h] = m.req /\ body'[h] = m.body
        /\ m.req[1] \in Client /\ net' = net \ {m} /\ inbox' = inbox
        /\ peer' = [peer EXCEPT ![m.req[1]] =
                       IF m \in OpenFetch /\ peer[m.req[1]] = Nobody THEN h ELSE peer[m.req[1]]]
        /\ made' = made /\ Frame
  BY BeganEffect DEF storeVars
<1>2. UNCHANGED <<attempt, sent, sending>>
  BY <1>1 DEF Frame, attemptVars
<1>3. req[h] = NoReq /\ h # Nobody
  BY <1>1, WriteReceiptsAssumption DEF Typed, Busy
<1>4. ASSUME NEW c \in Client
      PROVE  Expected(c)' /\ Told(c)'
  <2>1. Expected(c) /\ Told(c)
    BY AnsweredIs
  <2>2. Current(c)' = Current(c)
    BY <1>2 DEF Current
  <2>3. peer[c] # h
    <3>1. <<c, attempt[c]>> # NoReq
      BY DEF NoReq
    <3>2. QED
      BY <1>3, <2>1, <3>1 DEF Expected
  <2>4. Told(c)'
    BY <1>1, <1>2, <2>1 DEF Told, Executed
  <2>5. CASE c = m.req[1] /\ m \in OpenFetch /\ peer[c] = Nobody
    <3>1. PICK d \in Client : sending[d] /\ m = Current(d)
      BY <2>5 DEF OpenFetch, Current
    <3>2. m.req = <<d, attempt[d]>> /\ m.body = sent[d]
      BY <3>1 DEF Current
    <3>3. d = c
      BY <2>5, <3>2
    <3>4. inbox[c] = "none"
      BY <2>1, <3>1, <3>3 DEF Expected
    <3>5. peer'[c] = h
      BY <1>1, <2>5 DEF Typed, TypeOK, TypeOKReceipts
    <3>6. QED
      BY <1>1, <1>2, <2>2, <2>4, <3>1, <3>2, <3>3, <3>4, <3>5 DEF Expected
  <2>6. CASE ~(c = m.req[1] /\ m \in OpenFetch /\ peer[c] = Nobody)
    <3>1. peer'[c] = peer[c]
      BY <1>1, <2>6 DEF Typed, TypeOK, TypeOKReceipts
    <3>2. peer[c] # Nobody => peer[c] \in Handler \ {h}
      BY <2>3 DEF Typed, TypeOK, TypeOKReceipts
    <3>3. QED
      BY <1>1, <1>2, <2>1, <2>2, <2>4, <3>1, <3>2 DEF Expected, Others
  <2>7. QED
    BY <2>5, <2>6
<1>5. QED
  BY <1>4 DEF Answered, Waiting, AnswersAreTrue, Expected, Told, Executed

LEMMA ServeAnswered ==
  ASSUME Typed, Kept, Answered, [Next]_vars, NEW h \in Handler, Serve(h)
  PROVE  Answered'
<1>1. CASE Resolved(h) \/ Judges(h) \/ ClearReceipts(h) \/ Found(h)
  <2>1. /\ \A k \in Handler : req'[k] = req[k] /\ body'[k] = body[k]
        /\ UNCHANGED <<made, wireVars, attemptVars>>
    BY <1>1, AdvanceEffect, ClearEffect, FoundEffect DEF Others, Same, storeVars, Frame
  <2>2. ASSUME NEW c \in Client
        PROVE  Expected(c)' /\ Told(c)'
    <3>1. Expected(c) /\ Told(c) /\ Current(c)' = Current(c)
      BY <2>1, AnsweredIs DEF Current, attemptVars
    <3>2. peer[c] # Nobody => peer[c] \in Handler
      BY DEF Typed, TypeOK, TypeOKReceipts
    <3>3. QED
      BY <2>1, <3>1, <3>2 DEF Expected, Told, Executed, wireVars, attemptVars
  <2>3. QED
    BY <2>2 DEF Answered, Waiting, AnswersAreTrue, Expected, Told, Executed
<1>2. CASE CommitRequest(h) \/ Ended(h)
  <2>1. PICK a \in Answers : Answer(h, a) /\ (a = "ok" => CommitRequest(h))
    BY <1>2, CommitEffect, EndedEffect DEF Answers
  <2>2. pc[h] # "idle" /\ EndTx(h) /\ UNCHANGED <<attempt, sent, sending, net>>
    BY <1>2, CommitEffect, EndedEffect DEF CommitRequest, Frame, attemptVars
  <2>3. Others(h) /\ h # Nobody
    BY <2>2, EndEffect, WriteReceiptsAssumption
  <2>4. ASSUME NEW c \in Client
        PROVE  Expected(c)' /\ Told(c)'
    <3>1. Expected(c) /\ Told(c) /\ Current(c)' = Current(c)
      BY <2>2, AnsweredIs DEF Current
    <3>2. PICK r, b : r = <<c, attempt[c]>> /\ b = sent[c]
      OBVIOUS
    <3>3. CASE peer[c] = h
      <4>1. /\ req[h] = r /\ body[h] = b /\ inbox'[c] = a /\ peer'[c] = Nobody
            /\ sending[c] /\ Current(c) \notin net
        BY <2>1, <2>2, <3>2, <3>3, AnswerReaches
      <4>2. Expected(c)'
        BY <2>2, <3>1, <4>1 DEF Expected
      <4>3. a = "ok" => Executed(r, b)'
        BY <2>1, <4>1, CommitExecutes
      <4>4. QED
        BY <2>2, <3>2, <4>1, <4>2, <4>3 DEF Told, Executed
    <3>4. CASE peer[c] # h
      <4>1. inbox'[c] = inbox[c] /\ peer'[c] = peer[c]
        BY <2>1, <2>2, <3>4, AnswerReaches
      <4>2. peer[c] # Nobody => peer[c] \in Handler \ {h}
        BY <3>4 DEF Typed, TypeOK, TypeOKReceipts
      <4>3. Expected(c)'
        BY <2>2, <2>3, <3>1, <4>1, <4>2 DEF Expected, Others
      <4>4. inbox[c] = "ok" => Executed(r, b)'
        <5>1. inbox[c] = "ok" => Executed(r, b)
          BY <3>1, <3>2 DEF Told
        <5>2. inbox[c] = "ok" => r \in Req
          <6>1. inbox[c] = "ok" => sending[c]
            BY <3>1 DEF Expected
          <6>2. inbox[c] = "ok" => attempt[c] \in 1..MaxAttempts
            BY <6>1, AttemptsTyped DEF Typed, Busy
          <6>3. QED
            BY <3>2, <6>2 DEF Req
        <5>3. QED
          BY <5>1, <5>2, ExecutedStays
      <4>5. QED
        BY <2>2, <3>2, <4>1, <4>3, <4>4 DEF Told, Executed
    <3>5. QED
      BY <3>3, <3>4
  <2>5. QED
    BY <2>4 DEF Answered, Waiting, AnswersAreTrue, Expected, Told, Executed
<1>3. QED
  BY <1>1, <1>2, BeganAnswered, HandlerSteps DEF Typed

LEMMA AnsweredStep ==
  ASSUME Typed, Kept, Answered, [Next]_vars
  PROVE  Answered'
<1>1. CASE UNCHANGED <<wireVars, attemptVars, made, req, body>>
  <2>1. ASSUME NEW c \in Client
        PROVE  Expected(c)' /\ Told(c)'
    <3>1. Expected(c) /\ Told(c) /\ Current(c)' = Current(c)
      BY <1>1, AnsweredIs DEF Current, attemptVars
    <3>2. QED
      BY <1>1, <3>1 DEF Expected, Told, Executed, wireVars, attemptVars
  <2>2. QED
    BY <2>1 DEF Answered, Waiting, AnswersAreTrue, Expected, Told, Executed
<1>2. CASE Publish \/ Revoke \/ DeleteForm \/ OwnerChange
  BY <1>1, <1>2 DEF Publish, Revoke, DeleteForm, OwnerChange, storeVars, txVars
<1>3. CASE TimePasses \/ UNCHANGED vars \/ \E x \in live : DeleteRecord(x)
  BY <1>1, <1>3 DEF TimePasses, vars, serverVars, DeleteRecord, storeVars, txVars
<1>4. QED
  BY <1>2, <1>3, ServeAnswered, VisitAnswered, PasteAnswered DEF Next

(* Whoever is told "ok" has what it sent in the store: the answer of a     *)
(* receipt is never the answer to another body.                            *)
THEOREM AnswersTrue == Spec => []AnswersAreTrue
<1> DEFINE Inv == Typed /\ Locked /\ Kept /\ Answered
<1>1. Init => Inv
  <2>1. ASSUME Init PROVE Answered
    BY <2>1 DEF Init, InitReceipts, Answered, Waiting, AnswersAreTrue
  <2>2. QED
    BY <2>1, TypedInit, KeptInit
<1>2. Inv /\ [Next]_vars => Inv'
  BY TypedStep, LockedStep, KeptStep, AnsweredStep
<1>3. Inv => AnswersAreTrue
  BY DEF Answered
<1> HIDE DEF Inv
<1>4. QED
  BY <1>1, <1>2, <1>3, PTL DEF Spec
=============================================================================
