----------------------------- MODULE ImportPage -----------------------------
(***************************************************************************)
(* The page that imports a base from Airtable (app/bases/import-airtable)   *)
(* against the router and service it calls.  The request id is what makes a *)
(* retry the same import: the page mints it, keeps it over a reload, and    *)
(* lets go of it only with a report.                                       *)
(*                                                                         *)
(* What the server does with attempts of one request id is AirtableImport's *)
(* subject and is abstracted here to its promise: at most one base, and the *)
(* same report ever after.  The counters previewGeneration and              *)
(* startGeneration are kept as what they are compared for, whether a call   *)
(* is the latest of its kind.                                              *)
(***************************************************************************)
EXTENDS FiniteSets, Naturals

CONSTANTS
  RequestIds,     \* bound: request ids the page can mint, 1..n
  StartCalls,     \* calls of start in flight or answered
  MaxReloads, MaxPreviews   \* bounds

ASSUME ImportPageAssumption ==
  RequestIds \in Nat /\ MaxReloads \in Nat /\ MaxPreviews \in Nat

VARIABLES
  \* the page
  requestId, storage,          \* 0: none
  report,                      \* request of the report shown, or 0
  running, cancelled,
  pageToken,                   \* whether the token is typed in
  preview, accepted,           \* the plan shown: none, clean or lossy
  checking,                    \* the preflight in flight: none, latest or stale
  polled,                      \* status.data of the request id
  cancelling,                  \* the cancel in flight: its request id and verdict
  \* calls of start and the server
  startCall, receipts,
  \* history
  lastId, intent, intentOf, reloads, previews

formVars == <<pageToken, preview, accepted, checking, previews>>
runVars == <<requestId, storage, report, running, cancelled, polled>>
historyVars == <<lastId, intent, intentOf, reloads>>
pageVars == <<formVars, runVars, cancelling, startCall, receipts, historyVars>>

NoCancel == [id |-> 0, verdict |-> "none"]

PageInit ==
  /\ requestId = 0 /\ storage = 0 /\ report = 0
  /\ running = FALSE /\ cancelled = FALSE /\ pageToken = FALSE
  /\ preview = "none" /\ accepted = FALSE /\ checking = "none"
  /\ polled = "none" /\ cancelling = NoCancel
  /\ startCall = [s \in StartCalls |-> [at |-> "idle", id |-> 0, mine |-> FALSE]]
  /\ receipts = {}
  /\ lastId = 0 /\ intent = 1 /\ intentOf = <<>>
  /\ reloads = 0 /\ previews = 0

(* `active`: this page runs the import, or the server says it runs. *)
PageActive == report = 0 /\ (running \/ (requestId # 0 /\ polled = "running"))

-----------------------------------------------------------------------------
(***************************************************************************)
(* The form and the preview.                                               *)
(***************************************************************************)
Overtaken == IF checking = "none" THEN "none" ELSE "stale"

(* invalidatePreview, when the base id changes. *)
EditSource ==
  /\ preview' = "none" /\ accepted' = FALSE /\ checking' = Overtaken
  /\ UNCHANGED <<pageToken, previews, runVars, cancelling, startCall, receipts, historyVars>>

TypeToken ==
  /\ ~pageToken /\ pageToken' = TRUE
  /\ IF checking # "none"
     THEN preview' = "none" /\ accepted' = FALSE /\ checking' = "stale"
     ELSE UNCHANGED <<preview, accepted, checking>>
  /\ UNCHANGED <<previews, runVars, cancelling, startCall, receipts, historyVars>>

AskPreview ==
  /\ checking = "none" /\ ~PageActive /\ report = 0 /\ pageToken
  /\ previews < MaxPreviews /\ previews' = previews + 1
  /\ preview' = "none" /\ accepted' = FALSE /\ checking' = "latest"
  /\ UNCHANGED <<pageToken, runVars, cancelling, startCall, receipts, historyVars>>

PreviewAnswered(plan) ==
  /\ checking # "none" /\ checking' = "none"
  /\ IF checking = "stale" THEN UNCHANGED <<preview, pageToken>>
     ELSE IF plan = "none" THEN pageToken' = FALSE /\ UNCHANGED preview
     ELSE preview' = plan /\ UNCHANGED pageToken
  /\ UNCHANGED <<accepted, previews, runVars, cancelling, startCall, receipts, historyVars>>

AcceptLosses ==
  /\ preview = "lossy" /\ report = 0 /\ accepted' = ~accepted
  /\ UNCHANGED <<pageToken, preview, checking, previews, runVars, cancelling, startCall,
                 receipts, historyVars>>

-----------------------------------------------------------------------------
(***************************************************************************)
(* Start.                                                                  *)
(***************************************************************************)
NoneMine == [s \in StartCalls |-> [startCall[s] EXCEPT !.mine = FALSE]]

(* onStart: the request id is minted only if the page has none. *)
StartImport(s) ==
  LET id == IF requestId # 0 THEN requestId ELSE lastId + 1 IN
  /\ startCall[s].at = "idle"
  /\ preview # "none" /\ (preview = "lossy" => accepted) /\ pageToken
  /\ ~PageActive /\ report = 0
  /\ id <= RequestIds
  /\ requestId' = id /\ storage' = id
  /\ polled' = IF requestId = 0 THEN "none" ELSE polled
  /\ IF requestId = 0
     THEN lastId' = id /\ intentOf' = [r \in 1..id |-> IF r = id THEN intent ELSE intentOf[r]]
     ELSE UNCHANGED <<lastId, intentOf>>
  /\ running' = TRUE /\ cancelled' = FALSE
  /\ startCall' = [NoneMine EXCEPT ![s] = [at |-> "sent", id |-> id, mine |-> TRUE]]
  /\ UNCHANGED <<formVars, report, cancelling, receipts, intent, reloads>>

(* The server: a base and its receipt, unless the request has them; or a     *)
(* failure.  A failed attempt may have a COMMIT under way.                  *)
ServerImports(s) ==
  /\ startCall[s].at \in {"sent", "failed"} /\ startCall[s].id \notin receipts
  /\ receipts' = receipts \union {startCall[s].id}
  /\ startCall' = IF startCall[s].at = "sent" THEN [startCall EXCEPT ![s].at = "report"]
                  ELSE startCall
  /\ UNCHANGED <<formVars, runVars, cancelling, historyVars>>

ServerAnswers(s) ==
  /\ startCall[s].at = "sent"
  /\ startCall' = [startCall EXCEPT ![s].at =
       IF startCall[s].id \in receipts THEN "report" ELSE "failed"]
  /\ UNCHANGED <<formVars, runVars, cancelling, receipts, historyVars>>

(* Mutant of Applies: the answer of any call is taken. *)
AppliesAlways(s) == TRUE

(* generation === startGeneration.current *)
Applies(s) == startCall[s].mine

(* The page hears a report, an error, or loses the connection while the     *)
(* server goes on.                                                          *)
StartAnswered(s, lost) ==
  LET call == startCall[s]
      good == call.at = "report" /\ ~lost IN
  /\ call.at \in {"report", "failed"} \/ (call.at = "sent" /\ lost)
  /\ startCall' = [startCall EXCEPT ![s].mine = FALSE,
                     ![s].at = IF @ = "sent" THEN "sent" ELSE IF @ = "failed" THEN "failed" ELSE "over"]
  /\ call.mine \/ (good /\ call.at # "over")
  /\ IF Applies(s)
     THEN /\ report' = IF good THEN call.id ELSE report
          /\ storage' = IF good THEN 0 ELSE storage
          /\ running' = FALSE /\ pageToken' = FALSE
     ELSE UNCHANGED <<report, storage, running, pageToken>>
  /\ UNCHANGED <<preview, accepted, checking, previews, requestId, cancelled, polled,
                 cancelling, receipts, historyVars>>

-----------------------------------------------------------------------------
(***************************************************************************)
(* Status, cancellation, and what ends or begins a request.                *)
(***************************************************************************)
(* status.useQuery, each second, and the effect on its data.  An answer      *)
(* other than "complete" may be old.                                        *)
PollStatus ==
  /\ requestId # 0 /\ report = 0
  /\ \/ /\ requestId \in receipts
        /\ polled' = "complete" /\ report' = requestId
        /\ running' = FALSE /\ pageToken' = FALSE /\ storage' = 0
     \/ /\ \E what \in {"running", "idle"} : polled' = what
        /\ UNCHANGED <<report, running, pageToken, storage>>
  /\ UNCHANGED <<preview, accepted, checking, previews, requestId, cancelled, cancelling,
                 startCall, receipts, historyVars>>

AskCancel ==
  /\ PageActive /\ requestId # 0 /\ cancelling = NoCancel
  /\ cancelling' = [id |-> requestId, verdict |-> "asked"]
  /\ UNCHANGED <<formVars, runVars, startCall, receipts, historyVars>>

(* cancelImport: a receipt stands; else the running attempt is aborted and   *)
(* waited for, and it is cancelled if that left no receipt.                 *)
ServerCancels ==
  LET hit == {s \in StartCalls : startCall[s].at = "sent" /\ startCall[s].id = cancelling.id} IN
  /\ cancelling.verdict = "asked"
  /\ IF cancelling.id \in receipts \/ hit = {}
     THEN cancelling' = [cancelling EXCEPT !.verdict = "no"] /\ UNCHANGED startCall
     ELSE /\ cancelling' = [cancelling EXCEPT !.verdict = "yes"]
          /\ startCall' = [s \in StartCalls |->
               IF s \in hit THEN [startCall[s] EXCEPT !.at = "failed"] ELSE startCall[s]]
  /\ UNCHANGED <<formVars, runVars, receipts, historyVars>>

(* onCancel does not ask whether its request is still the one shown. *)
CancelAnswered(lost) ==
  /\ cancelling # NoCancel /\ (cancelling.verdict = "asked" => lost)
  /\ cancelling' = NoCancel
  /\ IF cancelling.verdict = "yes" /\ ~lost
     THEN cancelled' = TRUE /\ running' = FALSE /\ pageToken' = FALSE
     ELSE UNCHANGED <<cancelled, running, pageToken>>
  /\ UNCHANGED <<preview, accepted, checking, previews, requestId, storage, report, polled,
                 startCall, receipts, historyVars>>

StartAnother ==
  /\ report # 0
  /\ preview' = "none" /\ accepted' = FALSE /\ checking' = Overtaken
  /\ startCall' = NoneMine
  /\ requestId' = 0 /\ storage' = 0 /\ report' = 0 /\ pageToken' = FALSE /\ cancelled' = FALSE
  /\ polled' = "none"
  /\ intent' = intent + 1
  /\ UNCHANGED <<previews, running, cancelling, receipts, lastId, intentOf, reloads>>

(* The page is left and opened again, or reloaded: sessionStorage stays. A   *)
(* report that was shown has been seen.                                     *)
Reload ==
  /\ reloads < MaxReloads /\ reloads' = reloads + 1
  /\ requestId' = storage /\ report' = 0 /\ running' = FALSE /\ cancelled' = FALSE
  /\ pageToken' = FALSE /\ preview' = "none" /\ accepted' = FALSE /\ checking' = "none"
  /\ polled' = "none" /\ cancelling' = NoCancel
  /\ startCall' = NoneMine
  /\ intent' = IF report # 0 THEN intent + 1 ELSE intent
  /\ UNCHANGED <<storage, previews, receipts, lastId, intentOf>>

PageNext ==
  \/ EditSource \/ TypeToken \/ AskPreview \/ AcceptLosses
  \/ \E plan \in {"none", "clean", "lossy"} : PreviewAnswered(plan)
  \/ \E s \in StartCalls :
       \/ StartImport(s) \/ ServerImports(s) \/ ServerAnswers(s)
       \/ \E lost \in BOOLEAN : StartAnswered(s, lost)
  \/ PollStatus \/ AskCancel \/ ServerCancels \/ StartAnother \/ Reload
  \/ \E lost \in BOOLEAN : CancelAnswered(lost)

PageSpec == PageInit /\ [][PageNext]_pageVars

-----------------------------------------------------------------------------
(* However often a user starts, cancels, loses answers, reloads and starts   *)
(* again, one wish for an import makes one base: a request id is given up    *)
(* only together with its report.  And the report shown is that of the       *)
(* request the page is at.                                                  *)
OneBasePerWish ==
  /\ \A r, q \in receipts : intentOf[r] = intentOf[q] => r = q
  /\ report # 0 => report = requestId /\ report \in receipts
=============================================================================
