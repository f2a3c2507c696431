---------------------------- MODULE ViewSettings ----------------------------
(***************************************************************************)
(* The settings of one view, edited in several browser sessions.  The      *)
(* server replaces them as a whole.  A grid saves every edit at once, from *)
(* a queue (use-grid-view-options.ts); the settings of a board and the     *)
(* builder of a form keep a draft until it is saved or discarded.  All     *)
(* show the settings of the query view.list, which a session refetches     *)
(* after a change of its own and when it is told of one of another user.   *)
(***************************************************************************)
EXTENDS Naturals, Sequences

CONSTANTS
  Tab,       \* sessions, each of another user
  Kinds,     \* kinds of view: "grid", "board", "form"
  MaxEdits,  \* bound: edits, each of which chooses a new value, and other
             \* changes of the view
  MaxMishaps \* bound: failures, and times that a session leaves the view

ASSUME SettingsAssumption == MaxEdits \in Nat /\ MaxMishaps \in Nat

VARIABLES
  kind,      \* kind of the view
  view,      \* its row: a value for each key, or Gone
  told,      \* session |-> a broadcast has not been acted on yet
  list,      \* session |-> view.list: what it shows and the fetch under way
  requests,  \* session |-> mutations that are not answered yet
  editor,    \* session |-> the open editor, or Closed
  edits,     \* edits so far; the last value chosen
  mishaps,
  mine,      \* history: session |-> key |-> last edit that nobody undid, or 0
  unheard,   \* history: sessions that have read nothing since a change of
             \* theirs whose answer was lost
  apart      \* history: grids left with a draft of their own, by a cause
             \* named below

settingsVars ==
  <<kind, view, told, list, requests, editor, edits, mishaps, mine, unheard, apart>>

(* The filter stands for filter, sort, group and hidden fields; config for  *)
(* the configuration of a board or form.                                    *)
OptionKeys == {"filter", "columnWidth", "config"}
Keys == OptionKeys \cup {"name"}

Gone == [gone |-> TRUE]
Failed == [failed |-> TRUE]
Nothing == [none |-> TRUE]
Closed == [open |-> FALSE]
NoEdits == [k \in OptionKeys |-> 0]

OptionsOf(row) == [k \in OptionKeys |-> row[k]]

(* A new editor starts from what view.list shows: createSession, and the    *)
(* widths of the grid; the other editors start without a draft.             *)
Opened(row) ==
  IF kind = "grid"
    THEN [open |-> TRUE, draft |-> OptionsOf(row), queue |-> <<>>, at |-> "idle",
          widths |-> row["columnWidth"], timer |-> FALSE]
    ELSE [open |-> TRUE, draft |-> 0, baseline |-> NoEdits, at |-> "idle"]

SettingsInit ==
  /\ kind \in Kinds
  /\ view = [k \in Keys |-> 0]
  /\ told = [t \in Tab |-> FALSE]
  /\ list = [t \in Tab |-> [shown |-> view, fetch |-> "none", got |-> Nothing, awaited |-> FALSE]]
  /\ requests = [t \in Tab |-> {}]
  /\ editor = [t \in Tab |-> Opened(view)]
  /\ edits = 0 /\ mishaps = 0
  /\ mine = [t \in Tab |-> NoEdits]
  /\ unheard = {} /\ apart = {}

Grid(t) == kind = "grid" /\ editor[t].open
Drafts(t) == kind # "grid" /\ editor[t].open
Choose == edits < MaxEdits /\ edits' = edits + 1
Mishap == mishaps < MaxMishaps /\ mishaps' = mishaps + 1

-----------------------------------------------------------------------------
(***************************************************************************)
(* The query view.list of a session.                                       *)
(***************************************************************************)
(* Mutant of Invalidated: what the session changed itself is not fetched.  *)
Unfetched(l, awaited) == [l EXCEPT !.awaited = FALSE]

(* A fetch under way is dropped for a new one; who awaited it goes on.     *)
Invalidated(l, awaited) ==
  [l EXCEPT !.fetch = "asked", !.got = Nothing, !.awaited = awaited]

Fetched(l, shown) == [shown |-> shown, fetch |-> "none", got |-> Nothing, awaited |-> FALSE]

ServerReads(t) ==
  /\ list[t].fetch = "asked"
  /\ list' = [list EXCEPT ![t].fetch = "read", ![t].got = view]
  /\ unheard' = unheard \ {t}
  /\ UNCHANGED <<kind, view, told, requests, editor, edits, mishaps, mine, apart>>

(* Mutant of Adopts: the fetched options always replace the draft. *)
AdoptsAlways(e) == TRUE

(* The fetched options replace the draft unless an edit is pending. *)
Adopts(e) == e.queue = <<>>

Adopted(t, row) ==
  IF Grid(t) /\ OptionsOf(row) # OptionsOf(list[t].shown) /\ Adopts(editor[t])
    THEN [editor EXCEPT ![t].draft = OptionsOf(row)]
    ELSE editor

Left(t) == {[q EXCEPT !.live = FALSE] : q \in requests[t]}

Close(t) ==
  /\ editor' = [editor EXCEPT ![t] = Closed]
  /\ requests' = [requests EXCEPT ![t] = Left(t)]
  /\ mine' = [mine EXCEPT ![t] = NoEdits]

(* The list is rendered: the editor follows it, closes when the view is     *)
(* gone, and opens again after an error.                                    *)
FetchLands(t) ==
  /\ list[t].fetch = "read"
  /\ LET row == list[t].got
         changed == row # Gone /\ editor[t].open /\ list[t].shown \notin {Gone, Failed} IN
     /\ list' = [list EXCEPT ![t] = Fetched(@, row)]
     /\ CASE row = Gone -> Close(t) /\ apart' = apart \ {t}
          [] changed ->
               /\ editor' = Adopted(t, row)
               /\ apart' = IF editor' # editor THEN apart \ {t} ELSE apart
               /\ UNCHANGED <<requests, mine>>
          [] OTHER ->
               /\ editor' = IF list[t].shown = Failed THEN [editor EXCEPT ![t] = Opened(row)]
                            ELSE editor
               /\ apart' = apart \ {t}
               /\ UNCHANGED <<requests, mine>>
  /\ UNCHANGED <<kind, view, told, edits, mishaps, unheard>>

(* An error takes the place of the editor, whose drafts and unsent edits    *)
(* are lost.                                                                *)
FetchFails(t) ==
  /\ list[t].fetch # "none" /\ Mishap
  /\ list' = [list EXCEPT ![t] = Fetched(@, Failed)]
  /\ Close(t)
  /\ UNCHANGED <<kind, view, told, edits, unheard, apart>>

RetryList(t) ==
  /\ list[t].shown = Failed /\ list[t].fetch = "none"
  /\ list' = [list EXCEPT ![t] = Invalidated(@, FALSE)]
  /\ UNCHANGED <<kind, view, told, requests, editor, edits, mishaps, mine, unheard, apart>>

Tell(t) ==
  /\ told[t]
  /\ told' = [told EXCEPT ![t] = FALSE]
  /\ list' = [list EXCEPT ![t] = Invalidated(@, FALSE)]
  /\ UNCHANGED <<kind, view, requests, editor, edits, mishaps, mine, unheard, apart>>

-----------------------------------------------------------------------------
(***************************************************************************)
(* Editors.                                                                *)
(***************************************************************************)
Edited(t, k) == mine' = [mine EXCEPT ![t][k] = edits']

Ask(t, put, live) ==
  requests' = [requests EXCEPT ![t] = @ \cup {[at |-> "sent", put |-> put, live |-> live]}]

(* patchOptions: the whole package as it will be, behind those before it.   *)
Patched(e, k, value) ==
  LET next == [e.draft EXCEPT ![k] = value] IN
  [e EXCEPT !.draft = next, !.queue = Append(@, next)]

(* Filter panel, sort menu, header, grouping and fields menu. *)
Patch(t) ==
  /\ Grid(t) /\ Choose
  /\ editor' = [editor EXCEPT ![t] = Patched(@, "filter", edits')]
  /\ Edited(t, "filter")
  /\ UNCHANGED <<kind, view, told, list, requests, mishaps, unheard, apart>>

(* A column is dragged or stepped; widths are the session's own and follow  *)
(* the server only when the view is opened.                                 *)
Resize(t) ==
  /\ Grid(t) /\ Choose
  /\ editor' = [editor EXCEPT ![t].widths = edits', ![t].timer = TRUE]
  /\ Edited(t, "columnWidth")
  /\ UNCHANGED <<kind, view, told, list, requests, mishaps, unheard, apart>>

(* The mouse is released or the keys rest. *)
CommitWidths(t) ==
  /\ Grid(t) /\ editor[t].timer
  /\ editor' = [editor EXCEPT ![t] = [Patched(@, "columnWidth", editor[t].widths)
                                        EXCEPT !.timer = FALSE]]
  /\ UNCHANGED <<kind, view, told, list, requests, edits, mishaps, mine, unheard, apart>>

SendPatch(t) ==
  /\ Grid(t) /\ editor[t].at = "idle" /\ editor[t].queue # <<>>
  /\ editor' = [editor EXCEPT ![t].at = "sent"]
  /\ Ask(t, Head(editor[t].queue), TRUE)
  /\ UNCHANGED <<kind, view, told, list, edits, mishaps, mine, unheard, apart>>

(* What a draft is compared with: a board with all options. *)
Snapshot(t) ==
  IF kind = "board" THEN OptionsOf(list[t].shown)
  ELSE [NoEdits EXCEPT !["config"] = list[t].shown["config"]]

Conflict(t) == editor[t].draft # 0 /\ editor[t].baseline # Snapshot(t)

(* The board's submitting flag; the disabled fieldset of the form. *)
Editable(t) == Drafts(t) /\ editor[t].at = "idle"

EditDraft(t) ==
  /\ Editable(t) /\ Choose
  /\ editor' = [editor EXCEPT ![t].draft = edits',
       ![t].baseline = IF editor[t].draft = 0 THEN Snapshot(t) ELSE @]
  /\ Edited(t, "config")
  /\ UNCHANGED <<kind, view, told, list, requests, mishaps, unheard, apart>>

(* The form offers it for a conflict only. *)
DiscardDraft(t) ==
  /\ Editable(t) /\ editor[t].draft # 0
  /\ kind = "form" => Conflict(t)
  /\ editor' = [editor EXCEPT ![t].draft = 0, ![t].baseline = NoEdits]
  /\ mine' = [mine EXCEPT ![t]["config"] = 0]
  /\ UNCHANGED <<kind, view, told, list, requests, edits, mishaps, unheard, apart>>

(* A board refuses to save over a change it knows of, a form only warns; a  *)
(* board may save without a draft, which is no edit.                        *)
SaveDraft(t) ==
  /\ Drafts(t) /\ editor[t].at = "idle"
  /\ editor[t].draft = 0 => kind = "board"
  /\ kind = "board" => ~Conflict(t)
  /\ IF editor[t].draft = 0
     THEN Choose /\ mine' = [mine EXCEPT ![t]["config"] = 0]
     ELSE UNCHANGED <<edits, mine>>
  /\ LET row == OptionsOf(list[t].shown) IN
     Ask(t, IF editor[t].draft = 0 THEN row ELSE [row EXCEPT !["config"] = editor[t].draft], TRUE)
  /\ editor' = [editor EXCEPT ![t].at = "sent"]
  /\ UNCHANGED <<kind, view, told, list, mishaps, unheard, apart>>

(* The tabs of the views. *)
Rename(t) ==
  /\ list[t].shown \notin {Gone, Failed} /\ Choose
  /\ Ask(t, [name |-> edits'], FALSE)
  /\ UNCHANGED <<kind, view, told, list, editor, mishaps, mine, unheard, apart>>

Remove(t) ==
  /\ list[t].shown \notin {Gone, Failed} /\ Choose
  /\ Ask(t, Gone, FALSE)
  /\ UNCHANGED <<kind, view, told, list, editor, mishaps, mine, unheard, apart>>

(* Another view is opened: the widths and packages not sent are dropped,    *)
(* a request that was sent goes on without its editor.                      *)
Leave(t) ==
  /\ editor[t].open /\ Mishap
  /\ Close(t)
  /\ apart' = apart \ {t}
  /\ UNCHANGED <<kind, view, told, list, edits, unheard>>

Return(t) ==
  /\ ~editor[t].open /\ list[t].shown \notin {Gone, Failed}
  /\ editor' = [editor EXCEPT ![t] = Opened(list[t].shown)]
  /\ UNCHANGED <<kind, view, told, list, requests, edits, mishaps, mine, unheard, apart>>

-----------------------------------------------------------------------------
(***************************************************************************)
(* Mutations and their answers.                                            *)
(***************************************************************************)
Committed(t) ==
  \/ editor[t].open /\ editor[t].at = "reconcile"
  \/ \E q \in requests[t] : q.live /\ q.at = "ok"

(* Edits of t that will still be written, or stay a draft. *)
Unsaved(t) ==
  IF Grid(t) THEN Len(editor[t].queue) > (IF Committed(t) THEN 1 ELSE 0)
  ELSE Drafts(t) /\ editor[t].draft # 0 /\ ~Committed(t)

(* History: who loses the last edit when q of u is committed.  Widths are   *)
(* shown as they were set.                                                  *)
Undone(q, u) ==
  [t \in Tab |-> [k \in OptionKeys |->
     IF /\ k \in DOMAIN q.put /\ k # "columnWidth"
        /\ q.put[k] # mine[t][k]
        /\ ~(t = u /\ q.live) /\ ~Unsaved(t)
     THEN 0 ELSE mine[t][k]]]

Written(put) ==
  IF put = Gone THEN Gone
  ELSE [k \in Keys |-> IF k \in DOMAIN put THEN put[k] ELSE view[k]]

(* The server answers or the answer is lost; a refusal changes nothing.     *)
(* Apart: grids whose change this one crosses before they fetch the list.   *)
Mutate(t, q) ==
  /\ q.at = "sent"
  /\ \E answer \in {"ok", "lost", "refused"} :
       /\ view = Gone => answer = "refused"
       /\ IF answer = "ok" \/ view = Gone THEN UNCHANGED mishaps ELSE Mishap
       /\ requests' = [requests EXCEPT ![t] = (@ \ {q}) \cup
            {[q EXCEPT !.at = IF answer = "ok" THEN "ok" ELSE "failed"]}]
       /\ IF answer = "refused"
          THEN UNCHANGED <<view, told, mine, unheard, apart>>
          ELSE /\ view' = Written(q.put)
               /\ told' = [u \in Tab |-> told[u] \/ u # t]
               /\ mine' = Undone(q, t)
               /\ unheard' = IF answer = "lost" THEN unheard \cup {t} ELSE unheard
               /\ apart' = apart \cup {u \in Tab : Grid(u) /\ Committed(u)}
  /\ UNCHANGED <<kind, list, editor, edits>>

Done(t, q) == requests' = [requests EXCEPT ![t] = @ \ {q}]

(* An answer reaches the editor that waits for it, or only the list.        *)
Succeed(t, q) ==
  /\ q.at = "ok" /\ Done(t, q)
  /\ list' = [list EXCEPT ![t] = Invalidated(@, q.live)]
  /\ editor' = IF q.live THEN [editor EXCEPT ![t].at = "reconcile"] ELSE editor
  /\ UNCHANGED <<kind, view, told, edits, mishaps, mine, unheard, apart>>

(* An edit that the user is told was not saved is no edit to keep; a grid   *)
(* goes on showing it.                                                      *)
Fail(t, q) ==
  /\ q.at = "failed" /\ Done(t, q)
  /\ IF q.live /\ Grid(t)
     THEN /\ editor' = [editor EXCEPT ![t].at = "idle", ![t].queue = Tail(@)]
          /\ mine' = [mine EXCEPT ![t]["filter"] = IF q.put["filter"] = @ THEN 0 ELSE @]
          /\ apart' = apart \cup {t}
     ELSE /\ editor' = IF q.live THEN [editor EXCEPT ![t].at = "idle"] ELSE editor
          /\ UNCHANGED <<mine, unheard, apart>>
  /\ UNCHANGED <<kind, view, told, list, edits, mishaps, unheard>>

(* The list was fetched, or its fetch was dropped for another. *)
Reconciled(t) ==
  /\ editor[t].open /\ editor[t].at = "reconcile" /\ ~list[t].awaited
  /\ editor' = IF kind = "grid" THEN [editor EXCEPT ![t].at = "idle", ![t].queue = Tail(@)]
               ELSE [editor EXCEPT ![t] = Opened(list[t].shown)]
  /\ UNCHANGED <<kind, view, told, list, requests, edits, mishaps, mine, unheard, apart>>

SettingsNext ==
  \E t \in Tab :
    \/ ServerReads(t) \/ FetchLands(t) \/ FetchFails(t) \/ RetryList(t) \/ Tell(t)
    \/ Patch(t) \/ Resize(t) \/ CommitWidths(t) \/ SendPatch(t)
    \/ EditDraft(t) \/ DiscardDraft(t) \/ SaveDraft(t)
    \/ Rename(t) \/ Remove(t) \/ Leave(t) \/ Return(t)
    \/ Reconciled(t)
    \/ \E q \in requests[t] : Mutate(t, q) \/ Succeed(t, q) \/ Fail(t, q)

SettingsSpec == SettingsInit /\ [][SettingsNext]_settingsVars

-----------------------------------------------------------------------------
(***************************************************************************)
(* Properties.                                                             *)
(***************************************************************************)
Showing(t) ==
  [k \in OptionKeys |->
     IF kind = "grid"
       THEN IF k = "columnWidth" THEN editor[t].widths ELSE editor[t].draft[k]
     ELSE IF k = "config" /\ editor[t].draft # 0 THEN editor[t].draft
     ELSE list[t].shown[k]]

FetchUnderWay(t) == told[t] \/ list[t].fetch # "none"

(* What the user chose last stays on the screen through refetches, answers  *)
(* and changes of others, until another writer replaces it or the save is   *)
(* refused.  The list of a form or board may still be on its way when its   *)
(* draft is closed.                                                         *)
OwnEditsKept ==
  \A t \in Tab, k \in OptionKeys :
    editor[t].open /\ mine[t][k] # 0 /\ (Drafts(t) => ~FetchUnderWay(t))
      => Showing(t)[k] = mine[t][k]

Quiet(t) ==
  /\ requests[t] = {} /\ ~FetchUnderWay(t)
  /\ editor[t].open /\ editor[t].at = "idle"
  /\ IF Grid(t) THEN editor[t].queue = <<>> ELSE editor[t].draft = 0

(* Once nothing is under way a session shows what is stored, except the     *)
(* widths of its columns, and except after a failed save or when another    *)
(* change crossed its own between commit and refetch.                       *)
SettingsSettle ==
  \A t \in Tab :
    Quiet(t) /\ t \notin unheard \cup apart =>
      view # Gone /\ \A k \in OptionKeys :
        (kind = "grid" /\ k = "columnWidth") \/ Showing(t)[k] = view[k]
=============================================================================
