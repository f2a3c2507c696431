---------------------------- MODULE GridSession ----------------------------
(* The grid of one session (app/bases/[baseId]/tables/[tableId], files      *)
(* use-paged-records.ts and grid-editor.tsx): pages of record.list loaded   *)
(* one after the other, and cells written through to the server with an     *)
(* optimistic patch of every loaded page, undone from a snapshot when the   *)
(* server refuses and reconciled with its answer when it accepts.           *)
EXTENDS RecordCache

CONSTANTS
  Grid,            \* names the grid's queries
  GridPage,        \* 1..n, the pages the session may ask for
  PageSize,
  Typed,           \* the fields a user writes
  SortField,       \* the view's sort, "none" without one
  MaxTyped,        \* bound: cells the session writes
  GridFails        \* BOOLEAN: whether requests may fail

(* The user cannot write an expression's cell.                              *)
ASSUME GridAssumption ==
  /\ PageSize \in Nat \ {0} /\ MaxTyped \in Nat /\ GridPage \subseteq Nat \ {0}
  /\ \A p \in GridPage \cup {1} : <<Grid, p>> \in Query
  /\ Typed \subseteq Field /\ SortField \in Field \cup {"none"} /\ "none" \notin Field
  /\ \A f \in Field : Recomputed[f] \cap Typed = {}

VARIABLES
  pages,     \* how many pages the session asked for
  typed,     \* cells written so far: each write has a number
  waiting,   \* writes that wait for the cell's earlier ones
  flight     \* writes in flight, with their snapshots

gridVars == <<pages, typed, waiting, flight>>

GridQuery(p) == <<Grid, p>>
OnGrid == {GridQuery(p) : p \in 1..pages}

(* A value is the number of its write: negative as typed, positive as the   *)
(* server normalized it.                                                    *)
Optimistic(w) == -w.n
Normalized(n) == n

(* compileSort with the tie-breaker of listRecordsPivoted: newest first.    *)
SortKey == [r \in Record |-> IF SortField \in Field THEN stored[r][SortField] ELSE 0]

Listed(p) == PageOf(Ordered(alive, SortKey), (p - 1) * PageSize, PageSize)

(* mergeGroups shows a record once, however many pages hold it.             *)
Merged ==
  LET ids(p) == [i \in DOMAIN cache[GridQuery(p)].data.rows |->
                   cache[GridQuery(p)].data.rows[i].id]
  IN FoldLeft(LAMBDA seen, r : IF Contains(seen, r) THEN seen ELSE Append(seen, r),
              <<>>, FlattenSeq([p \in 1..pages |-> ids(p)]))

GridInit(shown) ==
  /\ pages = IF shown THEN 1 ELSE 0
  /\ typed = 0
  /\ waiting = {}
  /\ flight = {}

----------------------------------------------------------------------------
(* use-paged-records: showMore, and the fetches of the pages.               *)

AnyFetching == \E q \in OnGrid : InFlight(q)
AnyFailed == \E q \in OnGrid : cache[q].failed
Total == cache[GridQuery(1)].data.total

ShowMore ==
  /\ pages + 1 \in GridPage
  /\ ~AnyFetching /\ ~AnyFailed
  /\ Len(Merged) < Total
  /\ pages' = pages + 1
  /\ cache' = [cache EXCEPT ![GridQuery(pages + 1)] = Asked(@)]
  /\ UNCHANGED <<storeVars, news, behind, typed, waiting, flight>>

ServePage(p) == Serve(GridQuery(p), Listed(p)) /\ UNCHANGED gridVars
LandPage(p) == Land(GridQuery(p)) /\ UNCHANGED gridVars
FailPage(p) == GridFails /\ FetchFails(GridQuery(p)) /\ UNCHANGED gridVars
RetryPage(p) == RetryFetch(GridQuery(p)) /\ UNCHANGED gridVars
FlushGrid == Flush(OnGrid) /\ UNCHANGED gridVars

----------------------------------------------------------------------------
(* grid-editor: upsertMutate and the callbacks of the mutation.             *)

Type(r, f) ==
  /\ typed < MaxTyped
  /\ Contains(Merged, r)
  /\ typed' = typed + 1
  /\ waiting' = waiting \cup {[n |-> typed + 1, r |-> r, f |-> f]}
  /\ UNCHANGED <<cacheVars, pages, flight>>

(* The promises of the cell's earlier writes have settled.                  *)
AtOnce(w) == TRUE
MyTurn(w) == \A x \in flight : <<x.r, x.f>> # <<w.r, w.f>>
FirstOfCell(w) == \A x \in waiting : <<x.r, x.f>> = <<w.r, w.f>> => x.n >= w.n

(* onMutate: fetches under way are cancelled, whatever they were to bring.  *)
Begin(w) ==
  /\ FirstOfCell(w)
  /\ MyTurn(w)
  /\ waiting' = waiting \ {w}
  /\ flight' = flight \cup
       {[n |-> w.n, r |-> w.r, f |-> w.f, stage |-> "sent",
         snap |-> [q \in OnGrid |-> cache[q].data]]}
  /\ cache' = [q \in Query |->
       IF q \notin OnGrid THEN cache[q]
       ELSE IF cache[q].data = NoData THEN Cancelled(cache[q])
       ELSE SetData(Cancelled(cache[q]),
                    Patch(cache[q].data, w.r, {w.f}, Optimistic(w)))]
  /\ behind' = behind \cup {q \in OnGrid : InFlight(q) \/ cache[q].failed}
  /\ UNCHANGED <<storeVars, news, pages, typed>>

Becomes(w, stage) == flight' = (flight \ {w}) \cup {[w EXCEPT !.stage = stage]}

(* cell.upsert commits, or refuses: the record is gone or the value invalid.*)
Apply(w) ==
  /\ w.stage = "sent"
  /\ w.r \in alive
  /\ stored' = Written(w.r, w.f, Normalized(w.n))
  /\ Becomes(w, "stored")
  /\ UNCHANGED <<alive, changes, news, cache, behind, pages, typed, waiting>>

Refuse(w) ==
  /\ w.stage = "sent"
  /\ GridFails \/ w.r \notin alive
  /\ Becomes(w, "refused")
  /\ UNCHANGED <<cacheVars, pages, typed, waiting>>

(* What the session is told in the answer to a write.                       *)
Answered(w) == {w.f} \cup Recomputed[w.f]

Reconciled(w, page) == Patch(page, w.r, Answered(w), Normalized(w.n))

(* collectViewAffectingFieldIds, for a view that only sorts.                *)
MovesRows(w) == SortField \in Answered(w)

(* A page the server read before it stored the write lands after the answer.*)
Outrun(w, entry) ==
  [entry EXCEPT !.late =
     @ \/ (/\ entry.fetch \notin {Idle, Sent}
           /\ w.stage = "stored"
           /\ MovesRows(w) \/ Reconciled(w, entry.fetch) # entry.fetch)]

(* onError: every page is put back to its snapshot.  An error may also be a *)
(* lost answer to a write that was stored.                                  *)
Restorable(w) == {q \in DOMAIN w.snap : w.snap[q] # NoData}

RollBack(w) ==
  /\ w.stage = "refused" \/ (GridFails /\ w.stage = "stored")
  /\ cache' = [q \in Query |->
       IF q \in Restorable(w) THEN Outrun(w, SetData(cache[q], w.snap[q]))
                              ELSE Outrun(w, cache[q])]
  /\ behind' = behind \cup (IF w.stage = "stored" THEN OnGrid ELSE {}) \cup
       {q \in Restorable(w) :
          cache[q].failed \/ cache[q].data # Patch(w.snap[q], w.r, {w.f}, Optimistic(w))}
  /\ flight' = flight \ {w}
  /\ UNCHANGED <<storeVars, news, pages, typed, waiting>>

(* The page already shows what came after the session's write: what another *)
(* wrote, or what an expression became by the session's write of another    *)
(* cell, answered before this one.                                          *)
Overtaken(w, page) ==
  \E i \in DOMAIN page.rows : \E f \in Answered(w) :
    /\ page.rows[i].id = w.r
    /\ page.rows[i].cells[f] = stored[w.r][f]
    /\ \/ stored[w.r][f] > MaxTyped
       \/ f \in Recomputed[w.f] /\ stored[w.r][f] # Normalized(w.n)

(* onSuccess: the answer's values are patched into every page; a view that  *)
(* depends on one of them is fetched again.                                 *)
Reconcile(w) ==
  /\ w.stage = "stored"
  /\ LET patched ==
           [q \in Query |->
              IF cache[q].data = NoData THEN Outrun(w, cache[q])
              ELSE Outrun(w, SetData(cache[q], Reconciled(w, cache[q].data)))]
     IN cache' = IF MovesRows(w) THEN Refetched(patched, OnGrid) ELSE patched
  /\ behind' = behind \cup
       {q \in OnGrid : cache[q].failed \/ Overtaken(w, cache[q].data)}
  /\ flight' = flight \ {w}
  /\ UNCHANGED <<storeVars, news, pages, typed, waiting>>

Answer(w) == Apply(w) \/ Refuse(w) \/ RollBack(w) \/ Reconcile(w)

OthersChange ==
  \/ \E r \in Record, f \in Typed : ChangeCell(r, f, Normalized(MaxTyped + changes + 1))
  \/ \E r \in Record : CreateRecord(r) \/ DeleteRecord(r)

GridNext ==
  \/ ShowMore \/ FlushGrid
  \/ \E p \in GridPage : ServePage(p) \/ LandPage(p) \/ FailPage(p) \/ RetryPage(p)
  \/ \E r \in Record, f \in Typed : Type(r, f)
  \/ \E w \in waiting : Begin(w)
  \/ \E w \in flight : Answer(w)
  \/ OthersChange /\ UNCHANGED gridVars

----------------------------------------------------------------------------
GridQuiet ==
  /\ ~news /\ ~AnyFetching /\ ~AnyFailed
  /\ waiting = {} /\ flight = {}

Current(p) == cache[GridQuery(p)].data = Listed(p)

=============================================================================
