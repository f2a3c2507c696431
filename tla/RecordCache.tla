---------------------------- MODULE RecordCache ----------------------------
(* The records of one table as the server keeps them, and the queries by    *)
(* which one browser session shows them (record.list, record.kanbanPage in  *)
(* src/apps/web/src/server/trpc/routers/record.ts).  The query client is a  *)
(* library (@tanstack/react-query): Refetched, Cancelled, Land say what it  *)
(* does for the options of lib/trpc/client.tsx, under which nothing but an  *)
(* invalidation refetches a query that is on the screen.                    *)
(*                                                                          *)
(* The session hears of the changes of others (news) and of its own answers;*)
(* its own changes are not broadcast back to it.  That the broadcast of     *)
(* another's change arrives is Realtime's subject, not this module's.       *)
EXTENDS Integers, Sequences, FiniteSets, SequencesExt, Functions

CONSTANTS
  Record,        \* numbers: a later record has a greater one
  FirstRecords,  \* those that exist at the start
  Field,
  Recomputed,    \* Recomputed[f]: the expression fields that read field f
  Query,         \* names of the queries a screen may hold
  Blank,         \* what a cell holds at the start
  MaxChanges     \* bound: changes by others

(* Cells hold numbers; no expression reads more than the cells of its record.*)
ASSUME RecordAssumption ==
  /\ Record \subseteq Nat /\ FirstRecords \subseteq Record /\ IsFiniteSet(FirstRecords)
  /\ Recomputed \in [Field -> SUBSET Field]
  /\ Blank \in Nat /\ MaxChanges \in Nat

(* What stands where a page would: nothing fetched yet, no fetch under way, *)
(* a fetch the server has not answered.                                     *)
NoData == [rows |-> <<>>, total |-> -1]
Idle == [rows |-> <<>>, total |-> -2]
Sent == [rows |-> <<>>, total |-> -3]

VARIABLES
  alive,    \* records of the table
  stored,   \* stored[r][f]
  changes,  \* changes by others so far
  news,     \* a change of another was broadcast and not acted on yet
  cache,    \* cache[q]: data on the screen, and the fetch under way
  behind    \* queries left with data older than what the session was told,
            \* by one of the races named below: no fetch of them is to come

storeVars == <<alive, stored, changes>>
cacheVars == <<storeVars, news, cache, behind>>

(* ORDER BY: by a key, then the newer record first.                         *)
Precedes(key, r, s) == key[r] < key[s] \/ (key[r] = key[s] /\ r > s)
Ordered(A, key) ==
  CHOOSE order \in [1..Cardinality(A) -> A] :
    \A i, j \in 1..Cardinality(A) : i < j => Precedes(key, order[i], order[j])

(* A page of the answer: the rows with their cells, and the total.          *)
PageOf(order, offset, limit) ==
  LET window == SubSeq(order, offset + 1,
                       IF offset + limit < Len(order) THEN offset + limit
                                                      ELSE Len(order))
  IN [rows |-> [i \in DOMAIN window |->
                  [id |-> window[i], cells |-> stored[window[i]]]],
      total |-> Len(order)]

(* patchRecordCell, for each field of F: the cells of one record, in        *)
(* whatever page shows it.                                                  *)
Patch(page, r, F, value) ==
  [page EXCEPT !.rows = [i \in DOMAIN page.rows |->
     IF page.rows[i].id = r
     THEN [page.rows[i] EXCEPT !.cells = [f \in Field |-> IF f \in F THEN value ELSE @[f]]]
     ELSE page.rows[i]]]

Shows(page, r) == \E i \in DOMAIN page.rows : page.rows[i].id = r

InFlight(q) == cache[q].fetch # Idle
Served(q) == cache[q].fetch \notin {Idle, Sent}

(* invalidateQueries on the queries Q of the screen: a fetch under way is   *)
(* dropped for a new one, but a query without data keeps its first fetch,   *)
(* late if the server has answered it already.                              *)
JoinsFirstFetch(q) == cache[q].data = NoData /\ InFlight(q)

(* cancelQueries puts a query back to where its fetch found it.             *)
Cancelled(entry) == [entry EXCEPT !.fetch = Idle, !.late = FALSE]

(* setQueryData: the query counts as fetched, even if its fetch had failed. *)
SetData(entry, data) == [entry EXCEPT !.data = data, !.failed = FALSE]

Asked(entry) == [entry EXCEPT !.fetch = Sent, !.late = FALSE]
NotAsked == [data |-> NoData, fetch |-> Idle, late |-> FALSE, failed |-> FALSE]

Refetched(entries, Q) ==
  [q \in Query |->
     IF q \notin Q THEN entries[q]
     ELSE IF JoinsFirstFetch(q) THEN [entries[q] EXCEPT !.late = @ \/ Served(q)]
     ELSE Asked(entries[q])]

CacheInit(onScreen) ==
  /\ alive = FirstRecords
  /\ stored = [r \in Record |-> [f \in Field |-> Blank]]
  /\ changes = 0
  /\ news = FALSE
  /\ cache = [q \in Query |-> IF q \in onScreen THEN Asked(NotAsked) ELSE NotAsked]
  /\ behind = {}

----------------------------------------------------------------------------
(* What others do to the table, and what the session is told of it.         *)

Changed == changes < MaxChanges /\ changes' = changes + 1 /\ news' = TRUE

(* writeCellInTransaction: the cell, and the expressions that read it.      *)
Written(r, f, value) ==
  [stored EXCEPT ![r] = [g \in Field |->
     IF g \in {f} \cup Recomputed[f] THEN value ELSE @[g]]]

ChangeCell(r, f, value) ==
  /\ Changed
  /\ r \in alive
  /\ stored' = Written(r, f, value)
  /\ UNCHANGED <<alive, cache, behind>>

CreateRecord(r) ==
  /\ Changed
  /\ r \notin alive
  /\ \A s \in alive : s < r
  /\ alive' = alive \cup {r}
  /\ UNCHANGED <<stored, cache, behind>>

DeleteRecord(r) ==
  /\ Changed
  /\ r \in alive
  /\ alive' = alive \ {r}
  /\ UNCHANGED <<stored, cache, behind>>

(* The debounced round of invalidations of the realtime provider.           *)
Flush(onScreen) ==
  /\ news
  /\ news' = FALSE
  /\ cache' = Refetched(cache, onScreen)
  /\ UNCHANGED <<storeVars, behind>>

(* The server reads the page, after every commit before it.                 *)
Serve(q, page) ==
  /\ cache[q].fetch = Sent
  /\ cache' = [cache EXCEPT ![q].fetch = page]
  /\ UNCHANGED <<storeVars, news, behind>>

Land(q) ==
  /\ Served(q)
  /\ cache' = [cache EXCEPT ![q] = [NotAsked EXCEPT !.data = cache[q].fetch]]
  /\ behind' = IF cache[q].late THEN behind \cup {q} ELSE behind \ {q}
  /\ UNCHANGED <<storeVars, news>>

(* After its own retries the library gives up; the screen offers to retry.  *)
FetchFails(q) ==
  /\ InFlight(q)
  /\ cache' = [cache EXCEPT ![q] = [NotAsked EXCEPT !.data = cache[q].data, !.failed = TRUE]]
  /\ UNCHANGED <<storeVars, news, behind>>

RetryFetch(q) ==
  /\ cache[q].failed
  /\ ~InFlight(q)
  /\ cache' = [cache EXCEPT ![q] = Asked(@)]
  /\ UNCHANGED <<storeVars, news, behind>>

=============================================================================
