------------------------------- MODULE Views -------------------------------
(***************************************************************************)
(* The fields, views and public shares of one table:                       *)
(*   server/trpc/routers/field.ts, view.ts, share.ts and public-share.ts.  *)
(*                                                                         *)
(* View options name fields.  They are JSON, no foreign key protects them: *)
(* option writes check them, deletions of fields prune them, and both hold *)
(* the advisory lock of the table meanwhile.  Shares and their readers     *)
(* take no lock at all.                                                    *)
(*                                                                         *)
(* A filter is a conjunction of conditions, one per field it names; a      *)
(* share of a view exposes the records that satisfy them.  A handler's     *)
(* statements under the lock that only it can see are one action.          *)
(***************************************************************************)
EXTENDS FiniteSets, Naturals

CONSTANTS
  Field,       \* ids of fields, each created at most once
  View,        \* ids of views, likewise
  Share,       \* tokens, likewise
  Editor,      \* request handlers of the base's editors
  Reader,      \* request handlers of public readers
  FirstField, FirstView,   \* what a new table comes with
  Options      \* options an editor may submit

None == "none"   \* holds no lock

ASSUME ViewsAssumption ==
  /\ FirstField \in Field /\ FirstView \in View
  /\ Options \subseteq [filter : SUBSET Field, hidden : SUBSET Field]
  /\ None \notin Editor

NoOptions == [filter |-> {}, hidden |-> {}]

VARIABLES
  fields,      \* live fields
  made,        \* fields ever created
  views,       \* live views
  madeViews,   \* views ever created
  options,     \* stored options of each view
  share,       \* share rows: the view, and two history variables
  lock,        \* handler with the table's view-options lock
  step,        \* statement an editor's handler is at
  job,         \* its local variables
  read         \* a public reader's local variables

viewVars == <<fields, made, views, madeViews, options, share, lock, step, job, read>>

(* share[s].grant: conditions the editors who wrote the view's options left *)
(* in force since s was minted.  share[s].raced: minted while a deletion it *)
(* did not wait for was past the point where it revokes shares.             *)
NoShare == [state |-> "none", view |-> FirstView, grant |-> {}, raced |-> FALSE]
NoJob == [view |-> FirstView, opts |-> NoOptions, field |-> FirstField,
          hits |-> {}, doomed |-> {}]
NoRead == [at |-> "idle", share |-> "none", fields |-> {}, want |-> {},
           shown |-> {}, columns |-> {}, quiet |-> TRUE]

LiveShares == {s \in Share : share[s].state = "live"}
References(o) == o.filter \cup o.hidden

ViewsInit ==
  /\ fields = {FirstField} /\ made = {FirstField}
  /\ views = {FirstView} /\ madeViews = {FirstView}
  /\ options = [v \in View |-> NoOptions]
  /\ share = [s \in Share |-> NoShare]
  /\ lock = None
  /\ step = [e \in Editor |-> "idle"]
  /\ job = [e \in Editor |-> NoJob]
  /\ read = [r \in Reader |-> NoRead]

(* A commit changed what a reader in progress may see. *)
Disturbed ==
  [r \in Reader |-> [read[r] EXCEPT !.quiet = read[r].at = "idle"]]

Goto(e, s, j) ==
  /\ step' = [step EXCEPT ![e] = s]
  /\ job' = [job EXCEPT ![e] = j]

Finish(e) == Goto(e, "idle", NoJob)

(* Mutant of LockFree: the transaction does not take the lock. *)
LockIgnored == TRUE

LockFree == lock = None

-----------------------------------------------------------------------------
(***************************************************************************)
(* Fields and options.                                                     *)
(***************************************************************************)
CreateField(f) ==
  /\ f \notin made
  /\ made' = made \cup {f} /\ fields' = fields \cup {f}
  /\ read' = Disturbed
  /\ UNCHANGED <<views, madeViews, options, share, lock, step, job>>

CreateView(v) ==
  /\ v \notin madeViews
  /\ views' = views \cup {v} /\ madeViews' = madeViews \cup {v}
  /\ UNCHANGED <<fields, made, options, share, lock, step, job, read>>

(* Mutant of DeadReferences: the liveness check covers filters only. *)
DeadConditions(o) == o.filter \ fields

DeadReferences(o) == References(o) \ fields

(* updateOptions: what is submitted may come from a client whose list of    *)
(* fields is old, so it names any field that ever was.                      *)
CheckOptions(e, v, o) ==
  /\ step[e] = "idle" /\ LockFree
  /\ v \in views
  /\ References(o) \subseteq made
  /\ DeadReferences(o) = {}
  /\ lock' = e
  /\ Goto(e, "write", [NoJob EXCEPT !.view = v, !.opts = o])
  /\ UNCHANGED <<fields, made, views, madeViews, options, share, read>>

WriteOptions(e) ==
  LET v == job[e].view
  IN /\ step[e] = "write"
     /\ options' = [options EXCEPT ![v] = job[e].opts]
     /\ share' = [s \in Share |->
                    IF share[s].view = v
                    THEN [share[s] EXCEPT !.grant = job[e].opts.filter]
                    ELSE share[s]]
     /\ lock' = None
     /\ read' = Disturbed
     /\ Finish(e)
     /\ UNCHANGED <<fields, made, views, madeViews>>

(* Mutant of FilterHits: the views that hide the field. *)
HidingViews(f) == {v \in views : f \in options[v].hidden}

FilterHits(f) == {v \in views : f \in options[v].filter}

(* removeFieldReferences *)
Pruned(o, f) == [filter |-> o.filter \ {f}, hidden |-> o.hidden \ {f}]

(* field.delete: scan the views under the lock ... *)
ScanViews(e, f) ==
  /\ step[e] = "idle" /\ LockFree
  /\ f \in fields
  /\ lock' = e
  /\ Goto(e, "revoke", [NoJob EXCEPT !.field = f, !.hits = FilterHits(f)])
  /\ UNCHANGED <<fields, made, views, madeViews, options, share, read>>

(* ... delete the shares of the views that lose a condition ... *)
RevokeShares(e) ==
  /\ step[e] = "revoke"
  /\ Goto(e, "drop", [job[e] EXCEPT !.doomed =
                        {s \in LiveShares : share[s].view \in job[e].hits}])
  /\ UNCHANGED <<fields, made, views, madeViews, options, share, lock, read>>

Revoke(S) == [s \in Share |-> IF s \in S THEN [share[s] EXCEPT !.state = "gone"]
                                         ELSE share[s]]

(* ... delete the field, and commit. *)
DropField(e) ==
  LET f == job[e].field
  IN /\ step[e] = "drop"
     /\ fields' = fields \ {f}
     /\ options' = [v \in View |-> Pruned(options[v], f)]
     /\ share' = Revoke(job[e].doomed)
     /\ lock' = None
     /\ read' = Disturbed
     /\ Finish(e)
     /\ UNCHANGED <<made, views, madeViews>>

(* view.delete: shares first, then the view. *)
RevokeViewShares(e, v) ==
  /\ step[e] = "idle" /\ LockFree
  /\ v \in views
  /\ lock' = e
  /\ Goto(e, "dropView", [NoJob EXCEPT !.view = v, !.hits = {v}, !.doomed =
                            {s \in LiveShares : share[s].view = v}])
  /\ UNCHANGED <<fields, made, views, madeViews, options, share, read>>

DropView(e) ==
  /\ step[e] = "dropView"
  /\ views' = views \ {job[e].view}
  /\ options' = [options EXCEPT ![job[e].view] = NoOptions]
  /\ share' = Revoke(job[e].doomed)
  /\ lock' = None
  /\ read' = Disturbed
  /\ Finish(e)
  /\ UNCHANGED <<fields, made, madeViews>>

(* A transaction that holds the lock fails: nothing of it remains. *)
RollBack(e) ==
  /\ step[e] \in {"write", "revoke", "drop", "dropView"}
  /\ lock' = None
  /\ Finish(e)
  /\ UNCHANGED <<fields, made, views, madeViews, options, share, read>>

-----------------------------------------------------------------------------
(***************************************************************************)
(* Shares.                                                                 *)
(***************************************************************************)
(* share.create reads the view, checks its references, then inserts.        *)
ReadForShare(e, v) ==
  /\ step[e] = "idle"
  /\ v \in views
  /\ Goto(e, "vet", [NoJob EXCEPT !.view = v, !.opts = options[v]])
  /\ UNCHANGED <<fields, made, views, madeViews, options, share, lock, read>>

VetShare(e) ==
  /\ step[e] = "vet"
  /\ IF DeadReferences(job[e].opts) = {}
     THEN Goto(e, "mint", job[e])
     ELSE Finish(e)
  /\ UNCHANGED <<fields, made, views, madeViews, options, share, lock, read>>

(* A deletion past its revocation that concerns view v. *)
RevokedAlready(v) ==
  \E e \in Editor : step[e] \in {"drop", "dropView"} /\ v \in job[e].hits

MintShare(e, s) ==
  LET v == job[e].view
  IN /\ step[e] = "mint" /\ share[s].state = "none"
     /\ share' = [share EXCEPT ![s] =
           [state |-> "live", view |-> v,
            grant |-> options[v].filter,
            raced |-> v \notin views \/ RevokedAlready(v)]]
     /\ Finish(e)
     /\ UNCHANGED <<fields, made, views, madeViews, options, lock, read>>

(* share.delete, or expiresAt is past. *)
EndShare(s) ==
  /\ s \in LiveShares
  /\ share' = Revoke({s})
  /\ UNCHANGED <<fields, made, views, madeViews, options, lock, step, job, read>>

-----------------------------------------------------------------------------
(***************************************************************************)
(* getRecords: three statements of a public reader, in no transaction.     *)
(***************************************************************************)
ReadShare(r, s) ==
  /\ read[r].at \in {"idle", "done"} /\ s \in LiveShares
  /\ read' = [read EXCEPT ![r] =
                [NoRead EXCEPT !.at = "fields", !.share = s,
                               !.want = share[s].grant]]
  /\ UNCHANGED <<fields, made, views, madeViews, options, share, lock, step, job>>

ReadFields(r) ==
  /\ read[r].at = "fields"
  /\ read' = [read EXCEPT ![r].at = "view", ![r].fields = fields]
  /\ UNCHANGED <<fields, made, views, madeViews, options, share, lock, step, job>>

Columns(o, known) == known \ o.hidden

(* compileFilter: a condition on a field it does not know is dropped. *)
Compiled(o, known) == o.filter \cap known

(* A share whose view is gone shows nothing: NoRead. *)
ReadView(r) ==
  LET v == share[read[r].share].view
  IN /\ read[r].at = "view"
     /\ read' = [read EXCEPT ![r] =
          IF v \notin views THEN NoRead
          ELSE [@ EXCEPT !.at = "done",
                         !.shown = Compiled(options[v], read[r].fields),
                         !.columns = Columns(options[v], read[r].fields)]]
     /\ UNCHANGED <<fields, made, views, madeViews, options, share, lock, step, job>>

-----------------------------------------------------------------------------
EditorStep(e) ==
  \/ \E v \in View, o \in Options : CheckOptions(e, v, o)
  \/ WriteOptions(e)
  \/ \E f \in Field : ScanViews(e, f)
  \/ RevokeShares(e) \/ DropField(e)
  \/ \E v \in View : RevokeViewShares(e, v)
  \/ DropView(e) \/ RollBack(e)
  \/ \E v \in View : ReadForShare(e, v)
  \/ VetShare(e)
  \/ \E s \in Share : MintShare(e, s)

ReaderStep(r) ==
  \/ \E s \in Share : ReadShare(r, s)
  \/ ReadFields(r) \/ ReadView(r)

ViewsNext ==
  \/ \E f \in Field : CreateField(f)
  \/ \E v \in View : CreateView(v)
  \/ \E e \in Editor : EditorStep(e)
  \/ \E s \in Share : EndShare(s)
  \/ \E r \in Reader : ReaderStep(r)

ViewsSpec == ViewsInit /\ [][ViewsNext]_viewVars

-----------------------------------------------------------------------------
(* No stored view names a field that does not exist, although options and   *)
(* deletions come from different requests and no foreign key ties them      *)
(* (view.ts:143-158, field.ts:355-377).                                     *)
StoredReferencesLive ==
  \A v \in views : References(options[v]) \subseteq fields

(* A public read that no change of the schema interrupts applies every      *)
(* condition its view stores and shows no hidden column, whatever share it  *)
(* came by: no condition is dropped unseen (share.ts:55-64).  Those are the *)
(* conditions in force when the share was minted, but for those an editor   *)
(* removed, so a field's deletion must take the shares of the views it      *)
(* widens with it (field.ts:355-362); this last does not hold of shares     *)
(* minted behind a deletion's back, as share.create takes no lock.          *)
QuietReadsAreExact ==
  \A r \in Reader :
    LET q == read[r]
        v == share[q.share].view
    IN q.at = "done" /\ q.quiet =>
         /\ q.shown = options[v].filter
         /\ q.columns \cap options[v].hidden = {}
         /\ ~share[q.share].raced => q.shown = q.want
=============================================================================
