---------------------------- MODULE Submissions ----------------------------
(***************************************************************************)
(* The two users of write receipts, with the clients that retry:           *)
(*   - a public form (server/forms/submission.ts and publications.ts,      *)
(*     components/forms/public-form.tsx): anonymous visitors submit to a   *)
(*     publication that its owner may revoke, replace or lose;             *)
(*   - a paste into the grid (use-grid-paste.tsx): a signed-in user's      *)
(*     batch, confirmed in a dialog that belongs to the view in front.     *)
(*                                                                         *)
(* The base has one table with one form view.  The lifecycle lock of the   *)
(* table is held from "receipts" on; transactions that hold it and take no *)
(* other contended lock are one action.                                    *)
(***************************************************************************)
EXTENDS WriteReceipts

CONSTANTS
  Visitor,     \* browsers with the form open
  MaxPub,      \* bound: publications of the form
  Lives        \* values of expiresInDays, in ticks

ASSUME SubmissionsAssumption ==
  /\ Visitor \subseteq Client
  /\ MaxPub \in Nat \ {0}
  /\ Lives \subseteq Nat \ {0}

Paster == Client \ Visitor
Pub == 1..MaxPub

VARIABLES
  \* form_publication, form_submission, base_member
  pub,         \* state of each publication, and when it expires
  isOwner,     \* whether its creator is an owner of the base
  audit,       \* form_submission: the execution a request was audited with
  memberShare, \* handlers holding the member row FOR SHARE
  sawReceipt,  \* whether the submission saw a live receipt
  \* a visitor's page
  page,        \* publication whose token the page was opened with
  value,       \* what the form fields hold
  attempt,     \* number of the current attempt, 0 before the first
  sent,        \* body of the current attempt
  startedAt,
  needsNew, sending, submitted,
  \* a user's paste dialog
  batch,       \* body of the pending paste, {} when there is none
  failed,      \* the last answer was lost: the dialog offers a retry
  sameView     \* the view has not changed since the request was sent

formVars == <<pub, isOwner, audit, memberShare, sawReceipt>>
pageVars == <<page, value, needsNew, submitted>>
pasteVars == <<batch, failed, sameView>>
attemptVars == <<attempt, sent, startedAt, sending>>
serverVars == <<now, storeVars, txVars, formVars>>
vars == <<serverVars, wireVars, pageVars, pasteVars, attemptVars>>

PubStates == {"none", "live", "revoked", "gone"}
Nothing == NoReceipt.body

TypeOK ==
  /\ TypeOKReceipts
  /\ pc \in [Handler -> {"idle", "resolve", "receipts", "expire", "lookup", "commit"}]
  /\ pub \in [Pub -> [state : PubStates, until : Nat]]
  /\ isOwner \in BOOLEAN
  /\ audit \in [Req -> Nat]
  /\ memberShare \in SUBSET Handler
  /\ sawReceipt \in SUBSET Handler
  /\ page \in [Visitor -> 0..MaxPub]
  /\ value \in [Visitor -> Body]
  /\ attempt \in [Client -> 0..MaxAttempts]
  /\ sent \in [Client -> Body \cup {Nothing}]
  /\ startedAt \in [Client -> Nat]
  /\ needsNew \in [Visitor -> BOOLEAN]
  /\ sending \in [Client -> BOOLEAN]
  /\ submitted \in [Visitor -> BOOLEAN]
  /\ batch \in [Paster -> Body \cup {Nothing}]
  /\ failed \in [Paster -> BOOLEAN]
  /\ sameView \in [Paster -> BOOLEAN]

Init ==
  /\ InitReceipts
  /\ pub = [p \in Pub |-> [state |-> "none", until |-> 0]]
  /\ isOwner = TRUE
  /\ audit = [r \in Req |-> 0]
  /\ memberShare = {} /\ sawReceipt = {}
  /\ page = [v \in Visitor |-> 0]
  /\ value \in [Visitor -> Body]
  /\ attempt = [c \in Client |-> 0]
  /\ sent = [c \in Client |-> Nothing]
  /\ startedAt = [c \in Client |-> 0]
  /\ needsNew = [v \in Visitor |-> FALSE]
  /\ sending = [c \in Client |-> FALSE]
  /\ submitted = [v \in Visitor |-> FALSE]
  /\ batch = [u \in Paster |-> Nothing]
  /\ failed = [u \in Paster |-> FALSE]
  /\ sameView = [u \in Paster |-> TRUE]

-----------------------------------------------------------------------------
(***************************************************************************)
(* The lifecycle lock of the table and the owner's calls that take it.     *)
(***************************************************************************)
InForm(h) == req[h] # NoReq /\ req[h][1] \in Visitor

HoldsLifecycle(h) == InForm(h) /\ pc[h] # "resolve"

LifecycleFree == \A h \in Handler : ~HoldsLifecycle(h)

Unexpired(p) == now < pub[p].until

Resolvable(p) ==
  p \in Pub /\ pub[p].state = "live" /\ Unexpired(p) /\ isOwner

Revoked(q) == IF q.state = "live" THEN [q EXCEPT !.state = "revoked"] ELSE q

RevokeAll(f) == [p \in Pub |-> Revoked(f[p])]

(* publishForm: revoke what is live, insert the new publication. *)
Publish ==
  /\ LifecycleFree /\ isOwner
  /\ \E p \in Pub, life \in Lives :
       /\ pub[p].state = "none"
       /\ \A q \in Pub : q < p => pub[q].state # "none"
       /\ pub' = [RevokeAll(pub) EXCEPT ![p] = [state |-> "live", until |-> now + life]]
  /\ UNCHANGED <<now, storeVars, txVars, isOwner, audit, memberShare, sawReceipt,
                 wireVars, pageVars, pasteVars, attemptVars>>

(* Mutant of Revoke: the lifecycle lock is not taken. *)
RevokeUnlocked ==
  /\ isOwner
  /\ \E p \in Pub : pub[p].state = "live"
  /\ pub' = RevokeAll(pub)
  /\ UNCHANGED <<now, storeVars, txVars, isOwner, audit, memberShare, sawReceipt,
                 wireVars, pageVars, pasteVars, attemptVars>>

(***************************************************************************)
(* form.revoke, and every change of the form's fields or of the options    *)
(* of a field it shows: at most one publication is live, and it is revoked.*)
(***************************************************************************)
Revoke ==
  /\ LifecycleFree /\ isOwner
  /\ \E p \in Pub : pub[p].state = "live"
  /\ pub' = RevokeAll(pub)
  /\ UNCHANGED <<now, storeVars, txVars, isOwner, audit, memberShare, sawReceipt,
                 wireVars, pageVars, pasteVars, attemptVars>>

(* view.delete: publications cascade, and with them their audit rows. *)
DeleteForm ==
  /\ LifecycleFree
  /\ \E p \in Pub : pub[p].state = "live"
  /\ pub' = [p \in Pub |-> [pub[p] EXCEPT !.state = "gone"]]
  /\ audit' = [r \in Req |-> 0]
  /\ UNCHANGED <<now, storeVars, txVars, isOwner, memberShare, sawReceipt,
                 wireVars, pageVars, pasteVars, attemptVars>>

(* member.updateRole and member.remove: FOR UPDATE of the member rows. *)
OwnerChange ==
  /\ memberShare = {}
  /\ isOwner' = ~isOwner
  /\ UNCHANGED <<now, storeVars, txVars, pub, audit, memberShare, sawReceipt,
                 wireVars, pageVars, pasteVars, attemptVars>>

(* record.delete: the foreign key takes the audit row along. *)
DeleteRecord(x) ==
  /\ x \in live
  /\ live' = live \ {x}
  /\ audit' = [r \in Req |-> IF r = x[1] /\ audit[r] = x[2] THEN 0 ELSE audit[r]]
  /\ UNCHANGED <<now, made, receipt, txVars, pub, isOwner, memberShare, sawReceipt,
                 wireVars, pageVars, pasteVars, attemptVars>>

-----------------------------------------------------------------------------
(***************************************************************************)
(* submitForm and writeBatch on the server.                                *)
(***************************************************************************)
Frame == UNCHANGED <<pub, isOwner, audit, pageVars, pasteVars, attemptVars>>

OpenFetch ==
  {[req |-> <<c, attempt[c]>>, body |-> sent[c]] : c \in {d \in Client : sending[d]}}

ArriveForm(h, m) ==
  /\ m.req[1] \in Visitor
  /\ Arrive(h, m, "resolve", OpenFetch)
  /\ UNCHANGED <<memberShare, sawReceipt>> /\ Frame

ArriveBatch(h, m) ==
  /\ m.req[1] \notin Visitor
  /\ Arrive(h, m, "expire", OpenFetch)
  /\ UNCHANGED <<memberShare, sawReceipt>> /\ Frame

Drop(h) == memberShare' = memberShare \ {h} /\ sawReceipt' = sawReceipt \ {h}

(***************************************************************************)
(* resolvePublication: the lifecycle lock, then the publication, the       *)
(* owner's member row FOR SHARE and the configuration, which the locks     *)
(* keep valid.  The page treats every refusal but 409 as an error.         *)
(***************************************************************************)
ResolvePublication(h) ==
  /\ pc[h] = "resolve" /\ LifecycleFree
  /\ \/ /\ Resolvable(page[req[h][1]])
        /\ memberShare' = memberShare \cup {h}
        /\ Goto(h, "receipts")
        /\ UNCHANGED <<now, storeVars, req, body, start, doomed, result, wireVars,
                       sawReceipt>>
     \/ /\ ~Resolvable(page[req[h][1]])
        /\ Refuse(h, "error") /\ Drop(h)
  /\ Frame

(* created_at >= now() - interval '7 days'. *)
HasLiveReceipt(h) == receipt[req[h]] # NoReceipt /\ ~Expired(req[h], start[h])

(* Mutant of ReadReceipts: the audit row is ignored. *)
ReadReceiptOnly(h) ==
  /\ pc[h] = "receipts"
  /\ sawReceipt' = IF HasLiveReceipt(h) THEN sawReceipt \cup {h} ELSE sawReceipt
  /\ Goto(h, "expire")
  /\ UNCHANGED <<now, storeVars, req, body, start, doomed, result, wireVars,
                 memberShare>> /\ Frame

(* An audit row without a live receipt: CONFLICT. *)
ReadReceipts(h) ==
  /\ pc[h] = "receipts"
  /\ IF audit[req[h]] # 0 /\ ~HasLiveReceipt(h)
       THEN Refuse(h, "conflict") /\ Drop(h)
       ELSE /\ sawReceipt' = IF HasLiveReceipt(h) THEN sawReceipt \cup {h} ELSE sawReceipt
            /\ Goto(h, "expire")
            /\ UNCHANGED <<now, storeVars, req, body, start, doomed, result, wireVars,
                           memberShare>>
  /\ Frame

(* form:<publication> or user:<id>: whose expired receipts are cleaned up. *)
Mates(r) ==
  {q \in Req : IF r[1] \in Visitor
                 THEN q[1] \in Visitor /\ page[q[1]] = page[r[1]]
                 ELSE q[1] = r[1]}

ClearReceipts(h) ==
  /\ ExpireReceipts(h, Mates(req[h]))
  /\ UNCHANGED <<memberShare, sawReceipt>> /\ Frame

LookUpReceipt(h) ==
  /\ LookUp(h)
  /\ IF pc'[h] = "idle" THEN Drop(h) ELSE UNCHANGED <<memberShare, sawReceipt>>
  /\ Frame

(* COMMIT; a submission that saw no receipt is audited. *)
CommitRequest(h) ==
  /\ Commit(h)
  /\ audit' = IF InForm(h) /\ h \notin sawReceipt
                THEN [audit EXCEPT ![req[h]] = Execution(h)] ELSE audit
  /\ Drop(h)
  /\ UNCHANGED <<pub, isOwner, pageVars, pasteVars, attemptVars>>

(***************************************************************************)
(* Any statement may refuse the request (a missing row, an invalid value), *)
(* find the database busy (CONFLICT) or fail.                              *)
(***************************************************************************)
Failures(h) == IF InForm(h) THEN {"conflict", "error"} ELSE Answers \ {"ok"}

Fail(h, a) ==
  /\ pc[h] # "idle"
  /\ Refuse(h, a) /\ Drop(h)
  /\ Frame

Serve(h) ==
  \/ \E m \in net : ArriveForm(h, m) \/ ArriveBatch(h, m)
  \/ ResolvePublication(h) \/ ReadReceipts(h)
  \/ ClearReceipts(h) \/ LookUpReceipt(h) \/ CommitRequest(h)
  \/ \E a \in Failures(h) : Fail(h, a)

-----------------------------------------------------------------------------
(***************************************************************************)
(* The visitor's page.                                                     *)
(***************************************************************************)
OpenPage(v) ==
  /\ page[v] = 0
  /\ \E p \in Pub : Resolvable(p) /\ page' = [page EXCEPT ![v] = p]
  /\ UNCHANGED <<serverVars, wireVars, value, needsNew, submitted, pasteVars, attemptVars>>

(* A field changes; the fields are disabled while a request is out. *)
Change(v, x) ==
  /\ page[v] # 0 /\ ~sending[v] /\ ~submitted[v] /\ x # value[v]
  /\ value' = [value EXCEPT ![v] = x]
  /\ needsNew' = [needsNew EXCEPT ![v] = @ \/ attempt[v] # 0]
  /\ UNCHANGED <<serverVars, wireVars, page, submitted, pasteVars, attemptVars>>

Post(c, n, b) ==
  /\ net' = net \cup {[req |-> <<c, n>>, body |-> b]}
  /\ sending' = [sending EXCEPT ![c] = TRUE]
  /\ UNCHANGED <<peer, inbox>>

TooLate(c) == now - startedAt[c] >= Window

CanSubmit(v) == page[v] # 0 /\ ~sending[v] /\ ~submitted[v]

(* The button reads "new" exactly when needsNew: a confirmed submission,   *)
(* like the first one, gets an id of its own.                              *)
SubmitNew(v) ==
  /\ CanSubmit(v) /\ (attempt[v] = 0 \/ needsNew[v]) /\ attempt[v] < MaxAttempts
  /\ attempt' = [attempt EXCEPT ![v] = @ + 1]
  /\ sent' = [sent EXCEPT ![v] = value[v]]
  /\ startedAt' = [startedAt EXCEPT ![v] = now]
  /\ needsNew' = [needsNew EXCEPT ![v] = FALSE]
  /\ Post(v, attempt[v] + 1, value[v])
  /\ UNCHANGED <<serverVars, page, value, submitted, pasteVars>>

(* A retry repeats id and body, inside the window of the receipts. *)
Resubmit(v) ==
  /\ CanSubmit(v) /\ attempt[v] # 0 /\ ~needsNew[v]
  /\ IF TooLate(v)
       THEN /\ needsNew' = [needsNew EXCEPT ![v] = TRUE]
            /\ UNCHANGED <<wireVars, sending>>
       ELSE /\ Post(v, attempt[v], sent[v])
            /\ UNCHANGED needsNew
  /\ UNCHANGED <<serverVars, page, value, submitted, attempt, sent, startedAt, pasteVars>>

(* The answer; only 409 forbids the retry. *)
FormAnswer(v) ==
  /\ inbox[v] # "none"
  /\ submitted' = [submitted EXCEPT ![v] = inbox[v] = "ok"]
  /\ needsNew' = [needsNew EXCEPT ![v] = @ \/ inbox[v] = "conflict"]
  /\ inbox' = [inbox EXCEPT ![v] = "none"]
  /\ sending' = [sending EXCEPT ![v] = FALSE]
  /\ UNCHANGED <<serverVars, net, peer, page, value, attempt, sent, startedAt, pasteVars>>

(* The connection is lost, with the request or its answer. *)
FormLost(v) ==
  /\ sending[v] /\ inbox[v] = "none"
  /\ peer' = [peer EXCEPT ![v] = Nobody]
  /\ sending' = [sending EXCEPT ![v] = FALSE]
  /\ UNCHANGED <<serverVars, net, inbox, pageVars, attempt, sent, startedAt, pasteVars>>

-----------------------------------------------------------------------------
(***************************************************************************)
(* The user's paste dialog.  attempt, sent and startedAt are its request.  *)
(***************************************************************************)
(* The preparation ends in a request with an id of its own. *)
PreparePaste(u, b) ==
  /\ batch[u] = Nothing /\ ~sending[u] /\ attempt[u] < MaxAttempts
  /\ batch' = [batch EXCEPT ![u] = b]
  /\ attempt' = [attempt EXCEPT ![u] = @ + 1]
  /\ startedAt' = [startedAt EXCEPT ![u] = 0]
  /\ sent' = [sent EXCEPT ![u] = Nothing]
  /\ failed' = [failed EXCEPT ![u] = FALSE]
  /\ UNCHANGED <<serverVars, wireVars, pageVars, sameView, sending>>

ConfirmPaste(u) ==
  /\ batch[u] # Nothing /\ ~sending[u]
  /\ IF sent[u] # Nothing /\ TooLate(u)
       THEN /\ batch' = [batch EXCEPT ![u] = Nothing]
            /\ UNCHANGED <<wireVars, sending, startedAt, sent, sameView>>
       ELSE /\ startedAt' = [startedAt EXCEPT ![u] = IF sent[u] = Nothing THEN now ELSE @]
            /\ sent' = [sent EXCEPT ![u] = batch[u]]
            /\ sameView' = [sameView EXCEPT ![u] = TRUE]
            /\ Post(u, attempt[u], batch[u])
            /\ UNCHANGED batch
  /\ UNCHANGED <<serverVars, pageVars, attempt, failed>>

(* Another view, table or mode: the pending paste is dropped for good. *)
LeaveView(u) ==
  /\ batch[u] # Nothing
  /\ batch' = [batch EXCEPT ![u] = Nothing]
  /\ sameView' = [sameView EXCEPT ![u] = ~sending[u]]
  /\ UNCHANGED <<serverVars, wireVars, pageVars, attemptVars, failed>>

CancelPaste(u) ==
  /\ batch[u] # Nothing /\ ~sending[u]
  /\ batch' = [batch EXCEPT ![u] = Nothing]
  /\ UNCHANGED <<serverVars, wireVars, pageVars, attemptVars, failed, sameView>>

(* Only an answer without a verdict leaves the paste to be retried. *)
PasteSettled(u, a) ==
  IF ~sameView[u] THEN UNCHANGED <<batch, failed>>
  ELSE IF a = "error"
    THEN failed' = [failed EXCEPT ![u] = TRUE] /\ UNCHANGED batch
    ELSE batch' = [batch EXCEPT ![u] = Nothing] /\ UNCHANGED failed

PasteAnswer(u) ==
  /\ inbox[u] # "none"
  /\ PasteSettled(u, inbox[u])
  /\ inbox' = [inbox EXCEPT ![u] = "none"]
  /\ sending' = [sending EXCEPT ![u] = FALSE]
  /\ UNCHANGED <<serverVars, net, peer, pageVars, attempt, sent, startedAt, sameView>>

PasteLost(u) ==
  /\ sending[u] /\ inbox[u] = "none"
  /\ PasteSettled(u, "error")
  /\ peer' = [peer EXCEPT ![u] = Nobody]
  /\ sending' = [sending EXCEPT ![u] = FALSE]
  /\ UNCHANGED <<serverVars, net, inbox, pageVars, attempt, sent, startedAt, sameView>>

(* The procedure takes any body, also under an id that was used before. *)
Reuse(u, b) ==
  /\ attempt[u] # 0 /\ sent[u] \notin {Nothing, b}
  /\ net' = net \cup {[req |-> <<u, attempt[u]>>, body |-> b]}
  /\ UNCHANGED <<serverVars, peer, inbox, pageVars, pasteVars, attemptVars>>

-----------------------------------------------------------------------------
Visit(v) ==
  \/ OpenPage(v) \/ SubmitNew(v) \/ Resubmit(v) \/ FormAnswer(v) \/ FormLost(v)
  \/ \E x \in Body : Change(v, x)

Paste(u) ==
  \/ ConfirmPaste(u) \/ LeaveView(u) \/ CancelPaste(u) \/ PasteAnswer(u) \/ PasteLost(u)
  \/ \E b \in Body : PreparePaste(u, b) \/ Reuse(u, b)

TimePasses ==
  /\ Tick
  /\ UNCHANGED <<storeVars, txVars, formVars, wireVars, pageVars, pasteVars, attemptVars>>

Next ==
  \/ \E h \in Handler : Serve(h)
  \/ \E v \in Visitor : Visit(v)
  \/ \E u \in Paster : Paste(u)
  \/ \E x \in live : DeleteRecord(x)
  \/ Publish \/ Revoke \/ DeleteForm \/ OwnerChange \/ TimePasses

Spec == Init /\ [][Next]_vars

-----------------------------------------------------------------------------
(***************************************************************************)
(* Properties.                                                             *)
(***************************************************************************)
(* One form submission never has two records, however often its request    *)
(* arrives and however late: while the receipt lives it answers, and after *)
(* that the audit row refuses (submission.ts:139-155).                     *)
OncePerSubmission ==
  \A r \in Req : r[1] \in Visitor => Cardinality({x \in live : x[1] = r}) <= 1

(* A batch is executed again only when its receipt is older than the       *)
(* window: neither a concurrent copy nor the clean-up of other requests    *)
(* makes the server forget sooner (write-batch.ts:73-103).                 *)
AgainOnlyAfterWindow ==
  [][\A r \in Req : made'[r] # made[r] /\ made[r] # <<>> =>
       made[r][Len(made[r])].at + Window < now]_vars

(* Whoever is told "ok" has what it sent in the store: the answer of a     *)
(* receipt is never the answer to another body.                            *)
AnswersAreTrue ==
  \A c \in Client : inbox[c] = "ok" =>
    \E i \in 1..Len(made[<<c, attempt[c]>>]) : made[<<c, attempt[c]>>][i].body = sent[c]

(* A record enters through a form only while its publication is live, the  *)
(* latest one, and made by an owner, up to the commit (publications.ts:    *)
(* 109-112), although these were checked statements before.                *)
CapabilityHeldAtCommit ==
  [][\A r \in Req : r[1] \in Visitor /\ made'[r] # made[r] =>
       /\ isOwner /\ pub[page[r[1]]].state = "live"
       /\ \A q \in Pub : q > page[r[1]] => pub[q].state = "none"]_vars
=============================================================================
