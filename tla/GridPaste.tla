----------------------------- MODULE GridPaste -----------------------------
(* Pasting a block of cells into the grid (use-grid-paste.tsx): the rows    *)
(* under the selected cell are loaded, the block is fixed to their records  *)
(* under a fresh request id, the user confirms, and an attempt without a    *)
(* clear answer may be repeated with that id.  The server's side of a       *)
(* repetition is WriteReceipts; here a receipt answers it until it expires. *)
EXTENDS GridSession

CONSTANTS
  Scope,            \* table, view and view options
  PasteField,
  Height,           \* rows of the block
  MaxPastes,        \* bound
  MaxGenerations    \* bound: changes of scope, and edits begun

ASSUME PasteAssumption == MaxPastes \in Nat /\ PasteField \in Typed

VARIABLES
  scope,         \* scopeKey
  generation,    \* ownership: how often scope or editing changed
  editing,
  preparation,   \* the block whose rows are being loaded
  pending,       \* the block offered for confirmation
  request,       \* the batch in flight, with the generation that sent it
  receipts,      \* request ids the server would answer from a receipt
  written,       \* written[n]: how often the cells of paste n were written
  pastes,        \* pastes so far
  withdrawn      \* pastes cancelled, or left by a change of scope

pasteVars == <<scope, generation, editing, preparation, pending, request,
               receipts, written, pastes, withdrawn>>
serverPasteVars == <<receipts, written>>

Nothing == [n |-> 0]
Anchor(r) == CHOOSE i \in DOMAIN Merged : Merged[i] = r
PasteValue(n) == MaxTyped + MaxChanges + n

PasteInit ==
  /\ scope = CHOOSE s \in Scope : TRUE
  /\ generation = 0
  /\ editing = FALSE
  /\ preparation = Nothing
  /\ pending = Nothing
  /\ request = Nothing
  /\ receipts = {}
  /\ written = [n \in 1..MaxPastes |-> 0]
  /\ pastes = 0
  /\ withdrawn = {}

----------------------------------------------------------------------------
(* onPaste *)
StartPaste(r) ==
  /\ pastes < MaxPastes
  /\ ~editing
  /\ preparation = Nothing /\ pending = Nothing /\ request = Nothing
  /\ Contains(Merged, r)
  /\ preparation' = [n |-> pastes + 1, anchor |-> r, loads |-> 0, at |-> -1]
  /\ pastes' = pastes + 1
  /\ UNCHANGED <<cacheVars, gridVars, scope, generation, editing, pending,
                 request, serverPasteVars, withdrawn>>

(* The effect that prepares the block, at a moment no page is being fetched.*)
Preparing == preparation # Nothing /\ ~AnyFetching
AnchorShown == Contains(Merged, preparation.anchor)
LastRow == Anchor(preparation.anchor) + Height - 1
Required == IF LastRow < Total THEN LastRow ELSE Total

Reject ==
  /\ Preparing
  /\ \/ ~AnchorShown
     \/ /\ AnchorShown /\ Required > Len(Merged) /\ ~AnyFailed
        /\ preparation.at = Len(Merged) \/ preparation.loads = 2
     \/ /\ AnchorShown /\ Required <= Len(Merged)
        /\ LastRow > Len(Merged)    \* nothing is appended to a sorted view
  /\ preparation' = Nothing
  /\ withdrawn' = withdrawn \cup {preparation.n}
  /\ UNCHANGED <<cacheVars, gridVars, scope, generation, editing, pending,
                 request, serverPasteVars, pastes>>

LoadRows ==
  /\ Preparing
  /\ AnchorShown
  /\ Required > Len(Merged)
  /\ preparation.at # Len(Merged) /\ preparation.loads < 2
  /\ ShowMore
  /\ preparation' = [preparation EXCEPT !.loads = @ + 1, !.at = Len(Merged)]
  /\ UNCHANGED <<scope, generation, editing, pending, request,
                 serverPasteVars, pastes, withdrawn>>

(* planPaste *)
Plan ==
  /\ Preparing
  /\ AnchorShown
  /\ Required <= Len(Merged) /\ LastRow <= Len(Merged)
  /\ pending' = [n |-> preparation.n,
                 rows |-> ToSet(SubSeq(Merged, Anchor(preparation.anchor), LastRow)),
                 scope |-> scope, attempted |-> FALSE, old |-> FALSE]
  /\ preparation' = Nothing
  /\ UNCHANGED <<cacheVars, gridVars, scope, generation, editing, request,
                 serverPasteVars, pastes, withdrawn>>

(* The user leaves: another view or changed options, or a cell being edited.*)
Owns == {pending.n, preparation.n, request.n} \ {0}

Leave ==
  /\ generation < MaxGenerations
  /\ generation' = generation + 1
  /\ \/ scope' \in Scope \ {scope} /\ UNCHANGED editing
     \/ editing' = ~editing /\ UNCHANGED scope
  /\ preparation' = Nothing
  /\ pending' = Nothing
  /\ withdrawn' = withdrawn \cup Owns
  /\ UNCHANGED <<cacheVars, gridVars, request, serverPasteVars, pastes>>

CancelPaste ==
  /\ request = Nothing
  /\ preparation # Nothing \/ pending # Nothing
  /\ preparation' = Nothing
  /\ pending' = Nothing
  /\ withdrawn' = withdrawn \cup Owns
  /\ UNCHANGED <<cacheVars, gridVars, scope, generation, editing, request,
                 serverPasteVars, pastes>>

----------------------------------------------------------------------------
(* confirm, and what becomes of the request.                                *)

Ready == pending # Nothing /\ pending.scope = scope /\ ~editing

(* A repetition would find no receipt any more.                             *)
NeverOld == FALSE
TooOld == pending.old

Confirm ==
  /\ Ready
  /\ request = Nothing
  /\ IF TooOld
     THEN pending' = Nothing /\ UNCHANGED request
     ELSE /\ pending' = [pending EXCEPT !.attempted = TRUE]
          /\ request' = [n |-> pending.n, op |-> pending', stage |-> "sent",
                         generation |-> generation]
  /\ UNCHANGED <<cacheVars, gridVars, scope, generation, editing, preparation,
                 serverPasteVars, pastes, withdrawn>>

(* writeBatch: all rows or none, or the receipt of an earlier attempt.      *)
ApplyBatch ==
  /\ request # Nothing /\ request.stage = "sent"
  /\ request.n \in receipts \/ request.op.rows \subseteq alive
  /\ IF request.n \in receipts
     THEN UNCHANGED <<stored, serverPasteVars>>
     ELSE /\ stored' = [r \in Record |->
                          IF r \in request.op.rows
                          THEN Written(r, PasteField, PasteValue(request.n))[r]
                          ELSE stored[r]]
          /\ receipts' = receipts \cup {request.n}
          /\ written' = [written EXCEPT ![request.n] = @ + 1]
  /\ request' = [request EXCEPT !.stage = "stored"]
  /\ UNCHANGED <<alive, changes, news, cache, behind, gridVars, scope, generation,
                 editing, preparation, pending, pastes, withdrawn>>

(* A late answer speaks for the user only if nothing was left since.        *)
Mine == request.generation = generation

PasteSucceeds ==
  /\ request # Nothing /\ request.stage = "stored"
  /\ pending' = IF Mine THEN Nothing ELSE pending
  /\ request' = Nothing
  /\ cache' = Refetched(cache, OnGrid)
  /\ UNCHANGED <<storeVars, news, behind, gridVars, scope, generation, editing,
                 preparation, serverPasteVars, pastes, withdrawn>>

(* The server refused: a record is gone, a role or a value changed.         *)
PasteRefused ==
  /\ request # Nothing /\ request.stage = "sent"
  /\ request.n \notin receipts
  /\ pending' = IF Mine THEN Nothing ELSE pending
  /\ request' = Nothing
  /\ UNCHANGED <<cacheVars, gridVars, scope, generation, editing, preparation,
                 serverPasteVars, pastes, withdrawn>>

(* A time-out or a lost answer: the write may or may not have happened.     *)
PasteUnclear ==
  /\ GridFails
  /\ request # Nothing
  /\ pending' = IF Mine THEN request.op ELSE pending
  /\ request' = Nothing
  /\ IF request.stage = "sent" THEN UNCHANGED <<cache, behind>>
     ELSE /\ cache' = [q \in Query |-> [cache[q] EXCEPT !.late = @ \/ Served(q)]]
          /\ behind' = behind \cup OnGrid
  /\ UNCHANGED <<storeVars, news, gridVars, scope, generation, editing, preparation,
                 serverPasteVars, pastes, withdrawn>>

(* Seven days go by (RETENTION_MS, and the receipts' own expiry).           *)
WeekPasses ==
  /\ request = Nothing
  /\ pending # Nothing /\ pending.attempted /\ ~pending.old
  /\ pending' = [pending EXCEPT !.old = TRUE]
  /\ receipts' = {}
  /\ UNCHANGED <<cacheVars, gridVars, scope, generation, editing, preparation,
                 request, written, pastes, withdrawn>>

PasteNext ==
  \/ \E r \in Record : StartPaste(r)
  \/ Reject \/ LoadRows \/ Plan \/ Leave \/ CancelPaste
  \/ Confirm \/ ApplyBatch \/ PasteSucceeds \/ PasteRefused \/ PasteUnclear
  \/ WeekPasses

----------------------------------------------------------------------------
(* Once every write and paste is answered, every broadcast acted on and     *)
(* every fetch landed, each page of the grid shows what the server would    *)
(* answer now: the rows of its window in order, with the stored cells and   *)
(* the total.                                                               *)
(* Nothing refetches the grid later, so a page that is wrong then stays     *)
(* wrong.  Excepted, until their next fetch, are the pages left behind by a *)
(* race the code does not close: a fetch cancelled by a write, a snapshot   *)
(* restored over something newer, an answer that comes late or never.       *)
GridSettles ==
  GridQuiet /\ request = Nothing =>
    \A p \in 1..pages : GridQuery(p) \in behind \/ Current(p)

(* As use-paged-records.ts:24-28 has it, the invalidation that follows each *)
(* broadcast refetches all loaded pages and closes the holes: quiet pages   *)
(* show what is stored, with no exception.                                  *)
BroadcastsCloseHoles == GridQuiet /\ request = Nothing => \A p \in 1..pages : Current(p)

(* Stated by the comment at grid-editor.tsx:337-340 and refuted where two   *)
(* cells of a record feed one expression: patching each expression from the *)
(* answer of a write keeps none stale, so that while nobody else changes    *)
(* the table, quiet rows show what is stored.                               *)
AnswersKeepCellsFresh ==
  GridQuiet /\ request = Nothing /\ changes = 0 =>
    \A q \in OnGrid : \A i \in DOMAIN cache[q].data.rows :
      cache[q].data.rows[i].cells = stored[cache[q].data.rows[i].id]

(* However often a paste is confirmed, and whatever its attempts came to,   *)
(* its cells are written once: repetitions carry the first attempt's id,    *)
(* and none is sent when its receipt may be gone.                           *)
WrittenOnce == \A n \in 1..MaxPastes : written[n] <= 1

(* A paste the user cancelled, or left behind by a change of view, is never *)
(* offered again, though the answer to an attempt comes after the user has  *)
(* returned to the same view (use-grid-paste.tsx:65-66).                    *)
WithdrawnStaysSo == pending = Nothing \/ pending.n \notin withdrawn

(* Both: a paste is written once at most, and only while its user wants it.  *)
PastedAsWished == WrittenOnce /\ WithdrawnStaysSo
=============================================================================
