# markpocket in TLA+

Specifications of [markpocket](../src/README.md), a self-hosted database in the
style of Airtable: one Next.js process, one PostgreSQL database, a WebSocket
gateway and a webhook worker. The modules follow the code statement by statement
where the order of statements matters and abstract the data everywhere else.
`A/` below stands for `src/apps/web/src/`.

- [The system](#the-system): inventory of components
- [Plan](#plan): modules, order, what is done and to do
- [Modules and code](#modules-and-code)
- [Runs](#runs), [bounds](#bounds), [fairness](#fairness)
- [Proofs](#proofs)
- [Where code and documentation disagree](#where-code-and-documentation-disagree)
- [Races the code leaves open](#races-the-code-leaves-open)
- [Not modelled](#not-modelled)

## The system

Everything durable is in PostgreSQL, used at READ COMMITTED over a pool of ten
connections with `lock_timeout` 5 s (`A/server/db/index.ts`). Concurrency is that
of request handlers: each runs transactions statement by statement, and every
`await` between two statements is a place where the others run. Components meet
in rows and row locks, in the outbox trigger that fires inside other components'
transactions, in `LISTEN/NOTIFY`, and in the sockets of the gateway.

| component | state | operations | talks to | what is hard | what makes it correct |
|---|---|---|---|---|---|
| Record and cell writing (`A/server/records`, `A/server/trpc/routers/{record,cell,history}.ts`) | `record`, `cell`, `cell_history`, row and advisory locks | `cell.upsert`, `writeBatch`, `record.create`, `record.delete`, history pages | expressions and the outbox trigger run in its transactions | writers against deletions of the records they link to, lock order, reads without a lock, `now()` | no link to a missing record; an acknowledged write landed; the history replays; every request ends |
| Expression fields (`A/server/expression.ts`, `A/lib/expression-eval.ts`) | the expression's cell per record, the definition in `field.options` | materialization on write, backfill in batches of 500 | called by every write path and by `field.create/updateOptions` | backfill against writes, against another redefinition, interruption half-way | the cell is the value of the current definition over the current cells |
| Webhooks (`A/server/webhooks`, `A/server/trpc/routers/webhook.ts`) | `webhook_subscription`, `webhook_delivery`, leases | trigger, claim, prepare, send, acknowledge, pause, resume, rotate, remove, retry, clean-up | fires in every writing transaction | lease expiry, crashes, cap, overflow, coalescing, owner's calls during sends | bounded queue, at-least-once, gaps visible, attempts bounded, events settled |
| Tables, fields, views (`A/server/trpc/routers/{table,field,view,base}.ts`) | `table`, `field`, `view` rows and their JSON options | create, rename, reorder, updateOptions, delete | cascade into cells, revoke shares and publications | the three windows of `table.delete`; dependency checks outside the transaction; link targets | no link field to a missing table; no expression over a missing field |
| Shares (`.../share.ts`, `public-share.ts`) | `share` tokens | create, delete, public read | views | creation is not under the view-options lock | a token never outlives or widens its view |
| Forms (`A/server/forms`, `.../form.ts`) | publications, receipts, audit rows | publish, revoke, submit | `writeBatch` | retries, expiry, revocation during a submission | one submission per request id |
| Realtime (`A/server/realtime`, `A/lib/realtime/client.ts`, `A/realtime-server.ts`) | channels, sockets, presence | subscribe, unsubscribe, kick, sweep, broadcast, reconnect | `NOTIFY` of every router | an awaited membership check between message and channel | removed members hear nothing; a connected client ends up current |
| Membership (`.../member.ts`, `invite.ts`, `A/lib/roles.ts`) | `base_member`, `base_invite` | invite, accept, revoke, updateRole, remove | kicks sockets | role checks outside the transaction | one owner at least; a revoked invitation admits nobody |
| Agent access (`A/server/agent-access`, `.../token.ts`) | `api_token` rows | mint, revoke, expire; REST and MCP calls | call the routers under the token's scope | role, token and base change between two procedures of a call | a call stays within what the token was minted for and, but for one write, within the owner's role |
| Airtable import (`A/server/imports/airtable`, `A/app/bases/import-airtable`) | the slot, receipts, journals and files on disk, the page's request id | preview, start, status, cancel, recover | Airtable, files, then one transaction | crash or lost COMMIT between file and row; edits at Airtable while it is read; retries from a reloaded page | files exist exactly when rows do; what is written is what was read and consented to; one base per wish |
| CSV import and export (`src/packages/plugin-csv`, `A/server/exports/csv.ts`, settings pages) | tallies of a request | batches of 500 rows, export snapshots | record rows, expressions, broadcasts | a batch that fails or whose COMMIT is unanswered; writes during an export | reports account for what stays; all files of an export are of one instant |
| Attachments (`A/app/api/upload`, `A/app/api/files`, `src/packages/plugin-storage-local`) | `attachment` rows, files | upload, serve, delete unreferenced | cells, table and base deletion | file and row are two steps; quota and slots are read and taken apart | a row has its file; quota and slots bound what they should |
| View query algebra (`A/lib/view-ast.ts`, `view-query.ts`) | none | filters, sorts and groups to SQL | views, exports | null ordering, paging by key | a page sequence lists each row once |
| Browser client (`grid-editor.tsx`, `use-paged-records.ts`, `use-grid-paste.tsx`, `use-grid-view-options.ts`, `components/kanban`) | page cache, optimistic edits, drafts | load, edit, paste, drag, save settings | tRPC, realtime | late answers, refetch during an edit | the screen converges |
| Startup and shutdown (`A/server.ts`, `drain-server.ts`) | process | migrate, listen, drain | all | order, second signal | work is drained or rolled back |
| Plugins and user interface | registries | registration, rendering | all | none of state | none |

The hazards these components are exposed to are listed, each at its line, in
`PROJECT.json`.

## Plan

Order: what may lose or corrupt user data first, then what may mislead another
system, then what controls access, then what a session shows.

| module | models | composed in | status |
|---|---|---|---|
| `CellWrites` | writers and deletions of records; implements `LinkStore` | `MCCellWrites` | checked, proved |
| `Webhooks` | outbox trigger, worker, owner's calls; implements `EventQueue` | `MCWebhooks` | checked, proved |
| `Expressions` | materialization and backfill | `MCExpressions` | checked, proved |
| `WriteReceipts`, `Submissions` | batch receipts; forms and pastes that use them | `MCSubmissions` | checked, proved |
| `Membership`, `Realtime` | members, invitations; channels, pages (extends `Membership`) | `MCRealtime` | checked, proved |
| `Views`, `TableDelete`, `ViewSettings` | options, shares, public reads; link targets; sessions that edit a view | `MCSchema` | checked, proved |
| `AirtableImport`, `AirtableSource`, `ImportPage` | the server's attempt; what it reads; the page | `MCImports` | checked, proved |
| `CsvTransfer`, `Attachments`, `AgentAccess` | CSV both ways; files; tokens | `MCImports` | checked, proved |
| `RecordCache`, `GridSession`, `GridPaste`, `KanbanBoard` | cache, grid, paste, board of one session | `BrowserSession`, `MCBrowser` | checked, proved |

Every invariant and action property a run checks is proved; liveness is model-checked.
What is left is breadth: the components listed as not modelled, and what each entry of
`PROJECT.json` says its component leaves out. No module declares a RECURSIVE operator.

## Modules and code

Modules whose components share no state are checked side by side: `MCSchema` and
`MCImports` have a variable `part` that fixes at the start which module the behaviour
is of. `map` in `PROJECT.json` gives the lines of each
definition.

### CellWrites, LinkStore

One table with one link field. A cell value is the set of records it names; the
empty set stands for the absent row. `live`, `cell` and `hist` are the committed
rows; `pc`, `val`, `todo`, `row`, `scan`, `seen` are the local variables of each
handler; `xLocks`, `sLocks` and `cLocks` its row locks; `eff` and `log` what it
has written and not committed. One action is one statement:

| action | code |
|---|---|
| `BeginUpsert`, `BeginBatch`, `PrelockRow`, `PrelockDone` | `cell.ts`, `write-batch.ts:105-121` |
| `LockRow`, `ShareTarget`, `TargetsDone`, `ReadExisting`, `WriteCell` | `write-cell.ts:65-219`, lock by lock |
| `BeginDelete`, `LockDoomed`, `ScanSnapshot`, `StripReference`, `ScanDone`, `CascadeDelete` | `record.ts:128-215` |
| `Commit`, `Busy`, `Fail` | commit; deadlock or lock timeout mapped to CONFLICT; loss of the connection |

Links matter because they are the only cells that two rows' locks protect: any
other cell value is a link value that names nothing. `LinkStore` is the record
store with each transaction as one step.

### Webhooks, EventQueue

One subscription (subscriptions share no row), the transactions that write, the
workers, and the owner. The subscription's row lock orders everybody: the trigger
keeps it from the first event of a transaction to its end (`holder`), the owner's
calls and `prepareSend` wait for it, the claim skips it. A transaction's events
are drafts until it commits. Time is two facts per delivery, `due` and `fresh`,
that the actions `BecomeDue` and `ExpireLease` turn. `RowEvent` is the trigger;
`Claim`, `ClaimWithoutKey`, `PrepareSend`, `Send`, `Acknowledge`, `DropJob` are the
worker of `worker.ts`, whose process may die (`DropJob`) between any two; `Pause`,
`Resume`, `Rotate`, `Remove`, `Retry` are the router. A claim may take any
claimable deliveries up to its limit, since the limit is shared with other
subscriptions. `EventQueue` is what `docs/WEBHOOKS.md` promises: a bounded queue
with at-least-once delivery.

### Expressions

One expression field over source fields. A value is the definition together with
what it read, so two values are equal only if they must be. The record lock makes
a write's later reads of its record one step: `LockRecord` (lock and write the
source cells), `Materialize` (read the committed definition, evaluate), `CommitWrite`.
`Define` commits a definition; `ReadPage`, `FillRow`, `CommitBatch` are the
backfill, `AbandonFill` its interruption. `skipped` is a history variable: records
the backfill of the last definition cannot reach, because it was interrupted or
because they were not committed when the definition was.

### WriteReceipts, Submissions

`WriteReceipts` is `writeBatch`: with `Arrive` its transaction begins and `now()` is
fixed; `ExpireReceipts` takes the advisory lock of (actor, request id) and deletes
expired receipts; `LookUp` answers from the receipt or refuses another body; `Commit`
writes the rows, stores the receipt and releases the lock. `Submissions` puts the two users of receipts on
top: the public form (`submission.ts`, `publications.ts`, `public-form.tsx`), with
publication, revocation, expiry, expulsion of the owner and the audit row that
outlives the receipt; and the paste of a signed-in user. Clients resubmit the same
attempt, change it into a new one, or lose answers. `AnswersAreTrue` and
`OncePerSubmission` speak of what clients were told, `CapabilityHeldAtCommit` of
the publication at the step that writes.

### Membership, Realtime

A procedure is two steps at least: the role check outside any transaction, then
the transaction; `LockMembers` is its `FOR UPDATE` over the base's members. Commits
leave `notices`, which may overtake each other. `Realtime` takes the notices to the
gateway (`LoseListener`, `MissNotice`, `Relisten`), to sockets (`Gateway`, with the
awaited lookup between frame and channel; kick; `Sweep`) and to pages (`Browser`:
subscribe, invalidate, refetch, reconnect). `seen` and `owed` count changes a page
shows and should show.

### Views, TableDelete, ViewSettings

`Views`: an option write is `CheckOptions` then `WriteOptions` under the advisory
lock; a field's deletion is `ScanViews`, `RevokeShares`, `DropField`; a share is
created without the lock (`ReadForShare`, `VetShare`, `MintShare`); a public read is
`ReadShare`, `ReadFields`, `ReadView`. `TableDelete` is the three phases of
`table.delete` against writers of link cells and makers of link fields, each
statement an action. `ViewSettings` is the browser's side of the same row: the
grid's queue and reload, the draft of a board or form with its baseline, the query
`view.list` with its refetches, and renames and removals by others.

### AirtableImport, AirtableSource, ImportPage

`AirtableImport` is `service.ts`, `importer.ts` and `journal.ts`: one slot per
process, the advisory lock per request id, journal before files before COMMIT,
`Reconcile` and `Clean` after a failure, the recovery command, deadlines that answer
while the transaction goes on, and crashes. `AirtableSource` is `client.ts`,
`prepare.ts`, `mapping.ts`: rate limits and faults with their retries, pages and
offsets over a base that is edited between any two requests, and every check that
notices. `ImportPage` is the page over the promise of the other two: it mints the
request id, keeps it across reloads and lost answers, and lets go of it with a
report. The counters of the page are modelled by what they are compared for.

### CsvTransfer, Attachments, AgentAccess

`CsvTransfer`: an import is `Admit`, then `Batch` by batch, each one transaction;
`BatchFails` rolls back, `BatchTorn` loses the answer of COMMIT; `Finish` and
`ReportPartial` end it. An export takes the slot, opens one REPEATABLE READ
snapshot (`Visible`), lists tables, reads pages. `Attachments`: `CheckQuota`, `Put`
and `InsertRow` are the three steps of an upload; `NameInCell` holds the row FOR
SHARE to `CommitCell`; `StartRowDelete` fixes what no cell names, then waits for
those locks; files go after the commit; a download takes a slot between the
membership check and the end of its body. `AgentAccess`: `Resolve` reads the token
once, then each procedure is checked (`Check`: policy of the tool, scope, current
role) and executed in a step of its own; `update_record` writes one cell per step.

### RecordCache, GridSession, GridPaste, KanbanBoard, BrowserSession

`RecordCache` is the store as `record.list` and `record.kanbanPage` answer it, in one
order (`Ordered`: by a key, the newer record first) cut into pages (`PageOf`), and
the query cache: `Refetched`, `Cancelled` and `Land` say what the library does for
the options in use. `GridSession` adds `use-paged-records.ts` and the optimistic
write of `grid-editor.tsx` (`Begin` cancels, snapshots and patches, `RollBack`
restores, `Reconcile` patches in the answer and, when the answer has the field the view
is sorted by, refetches); `GridPaste` the paste with its dialog; `KanbanBoard` moves of
cards. `BrowserSession` is the table's page, which shows a grid (`pages > 0`) or a
board. `behind` is a history variable: the pages that a race
named in its action leaves stale until their next fetch. It is what the code does
not promise; the properties promise everything else.

## Runs

| run | checks | shows |
|---|---|---|
| `cellwrites_links` | `NoDanglingLinks`, `EveryChangeLogged`, `ImplementsStore`, `OnlyDeletionsLoseWrites` | three handlers, writers and deletions sharing link targets: no dangling link, changes logged once, each transaction atomic; a writer's old value is off only by deleted records, its new one is lost only over a cell whose targets are all deleted |
| `cellwrites_writers` | `HistoryReplays`, `EveryRequestEnds` | without deletions the history of each cell replays to its value, so no acknowledged write is lost; lock cycles are broken and every request ends |
| `cellwrites_lost_write` | `AckedValuesLand` (violated) | a writer links a cell to another record while the record it links to is deleted: the UPDATE hits no row, the new value is logged and acknowledged, the cell is empty |
| `webhooks_queue` | `QueueBounded`, `GapStaysVisible`, `DeletionWins`, `SendBudget`, `OneLeaseHolder`, `EventsCollected`, `ImplementsQueue` | a queue of one that overflows, every owner call, two workers or two transactions: the drafts of one with the retry of what the other left dead |
| `webhooks_settle` | `EventSettles` | crashes, expiries and key loss do not strand an event of an active subscription |
| `expressions_fresh` | `StaleOnlyAhead`, `BackfillEnds` | every kind of writer against one definer |
| `submissions` | `OncePerSubmission`, `AnswersAreTrue`, `AgainOnlyAfterWindow`, `CapabilityHeldAtCommit` | retries of forms and pastes across the receipt's life; publications that end under a submission |
| `realtime` | `OwnerRemains`, `PagesFresh`, `OutsidersStayOut` | members who change each other's roles; a page over two sockets that hears of changes and is expelled |
| `schema` | `StoredReferencesLive`, `QuietReadsAreExact`, `NothingDangles`, `OwnEditsKept`, `SettingsSettle` | options, shares and readers against deletions of fields and views; link fields and cells against the deletion of a table; two sessions editing one view |
| `imports` | `FilesMatchBases`, `AnswersStayTrue`, `PreparedIsSound`, `OneBasePerWish`, `ImportsAccounted`, `ExportsOneInstant`, `BrakesHold`, `RowsHaveFiles`, `TokenBounded` | what comes in and goes out in bulk, each under crashes, lost answers and concurrent changes of what it uses |
| `browser` | `GridSettles`, `PastedAsWished`, `BoardSettles` | one session and the changes of others: quiet pages show the store, a paste is written once and only while wanted, lanes show their cards |
| `grid_cancelled_fetch` | `BroadcastsCloseHoles` (violated) | an edit cancels the refetch a broadcast started, and no other follows |

Each property of a passing run is also run against a mutant of the code's
definition (`PROJECT.json`, "mutants") that breaks it. Some definitions state what
a comment or document claims and the model refutes, without a run of their own:
`ChangedAtIsOrder` (`CellWrites`), `ActiveCollects` (`Webhooks`),
`GapPullsEverything` (`Realtime`), `ActiveBounded` (`AgentAccess`),
`OneImportPerTable` (`CsvTransfer`), `AnswersKeepCellsFresh` (`GridPaste`),
`NamedRowsLive` (`Attachments`).

### Bounds

- `CellWrites`: two or three records and as many handlers, three transactions
  begun (`MaxTx`). Two transactions meet in every pair of statements; the third
  adds the cycle of locks and the second scan. Link values are chosen so that rows
  share targets (`SharedLinks`), point at each other and at themselves
  (`MutualLinks`), or at what the stored value does not name (`ApartLinks`,
  `OtherLinks`): a write is lost only over a value wholly deleted. `Stored` is what
  cells hold at the start. In `cellwrites_links` two deletions may take a cell's
  two targets under one writer; values are cleared in `cellwrites_writers` only.
- `Webhooks`: a queue of one reaches the cap at the second record of one
  transaction, or at the draft of a second one while the owner retries what died of
  the first. `Focus` takes these apart: two records and two workers with one
  transaction, one record and one worker at a time with two; `MaxAttempts` 2 has a first, a last and an exhausted attempt;
  `MaxRetries` bounds manual retries of one delivery. The liveness run has two
  transactions, so that one holds the subscription while the other's event waits.
- `Expressions`: `BatchSize` 1 makes two records two backfill transactions; three
  requests (`MaxTx`) allow a definition, a redefinition and a write, or two writes
  across one backfill. Expression fields start undefined over filled records.
- `submissions`: two handlers, so that two copies of a request meet; one visitor or
  one paster (they share no request id: `OneSurface`), two attempts each, three
  clock ticks around a window of one, two publications that live one or three ticks.
- `realtime`: an owner and a member, one page and two sockets (the old one, not yet
  noticed broken, and the new one), at most three events of roles, changes, gaps and
  moves (`Budget`, `Focus`). One assumption about time, `PromptLookup`: a
  subscription's lookup ends within the 200 ms that the provider waits.
- `schema`: two fields, two views, one share, two editors, one reader; two link
  fields, two records of the doomed table of which one is created late, two callers
  against one deletion, `REWRITE_BATCH` 1, three sweeps; two sessions with two edits
  and one mishap. `Spoken` ends behaviours about which no property says more.
- `imports`: two attempts of one request and a third that only takes the slot, two
  files each; two tables at Airtable with three records and two more to come, pages
  of one, two edits, one rate-limit retry; three start calls over two request ids, a
  reload, two previews; two CSV transfers at a time of two batches or two pages, one
  mishap; two files of unequal size against a quota of two, two downloads against a
  limit of one, a restart, with two of uploads, write and deletion at a time
  (downloads only read, so they run while none of these does); one token and one
  call over three bases, with two changes of the owner's role.
- `browser`: two records of which one is created late, pages of one row, two typed
  writes and one change of others, one paste of two rows over two generations of the
  view; on the board moves, changes and remounts sum to three (`Budget`), two lanes
  of two pages. The grid is sorted by the expression, so that an answer may move rows.

Deadlock checking is off: when the bounded requests are used up the system stops.

### Fairness

- `CellWrites!FairSpec`: weak fairness of each handler's next statement, lock
  waits included: `lock_timeout` and PostgreSQL's deadlock detector end every wait
  (`Busy`), so a handler with work always has a step. `Fail` and new requests are
  not fair.
- `Webhooks!FairSpec`: the worker's loop, the passing of time, and the end of
  every transaction that writes. The claim skips a locked subscription
  (`SKIP LOCKED`), and a fresh transaction may hold it whenever the worker looks;
  the run has finitely many transactions, so what it shows is settlement once
  writers leave the subscription unlocked for a poll, not under an endless overlap
  of writers.
- `Expressions!FairSpec`: handlers and backfills run their statements. Writers are
  finitely many, so a record lock a backfill waits for is free in the end; in the
  code a longer wait ends in `lock_timeout`, which is `AbandonFill`.
- `Realtime!Spec`: the gateway's handlers, its periodic sweep (`gateway.ts:228`) and
  the return of the LISTEN connection, which postgres.js sees to. Nothing is assumed
  of users, of the network or of the browser, so `OutsidersStayOut` does not rest on
  a kick arriving.

`SettingsSettle`, `GridSettles`, `BoardSettles` and `PagesFresh` are invariants
about quiet states (nothing in flight), so they need no fairness.

## Proofs

Eight modules hold theorems, checked by TLAPS for every value of the constants that
the named assumptions allow. All go the same way: an inductive invariant, checked by
TLC on the run's instance first; lemmas on the operators; one lemma or one step per
action, split by the conjuncts it can disturb; PTL for the temporal end.

`CellWritesProofs` holds for any set of records, link values and handlers and any
number of transactions (`CellWritesAssumption`: record ids are naturals, link values
are sets of them, `MaxTx` is a natural):

- `TypeCorrect`: `Spec => []TypeOK`.
- `LocksProtectAlways`: `Spec => []LocksProtect`. `NoDanglingLinks` is not
  inductive. `LocksProtect` strengthens it with what holds between statements:
  conflicting locks are exclusive; locked records are live; a writer past its
  checks holds FOR SHARE what it is about to name; and a deletion past its snapshot
  has, for every committed cell that names the doomed record, that cell's lock or
  still has it to scan.
- `LinksNeverDangle`: `Spec => []NoDanglingLinks`, its consequence.
- `Implementation`: `Spec => Store!StoreSpec`; each commit is one `Create`,
  `Write` or `Delete` of `LinkStore`, every other step a stutter.
- `ChangesAreLogged`: `EveryChangeLogged`. `Logged` adds that a handler's log has one
  entry for each cell it is going to change, of which it holds the lock, and none
  else but for the record it deletes.
- `LossesAreExplained`: `OnlyDeletionsLoseWrites`, with deletions. `OnlyShrunk` adds
  that the cell of a record a writer holds is what the writer read, less what has
  been deleted since: the record lock keeps other writers and the record's own
  deletion away, a deletion of another record takes that record from the cell as it
  takes it from the store, and an id is never used again (`born`).
- `HistoryIsComplete` and `NoWriteIsLost`: `HistoryReplays` and `AckedWritesLand`
  (what the former says of one commit, so no run checks it apart)
  while no handler deletes. The hypothesis `"delete" \notin Kinds` is that of the run
  `cellwrites_writers`; without it both are false, `NoWriteIsLost` as `cellwrites_lost_write` shows.
  `Undisturbed` says what deletions break: the value a writer read is still the
  committed one when it writes.

`WebhooksProofs` proves every safety property of `Webhooks`, for any workers and
bounds, from `WebhooksAssumption` only (cap and limits are naturals, transactions
and records are finitely many):

- `TypeCorrect`, and `GapVisible`, which follows from the steps alone.
- `SendsBounded`: `SendBudget` needs a count that no column keeps. `BudgetInv` adds
  it: the leases a row ever had are its attempts since the last retry and one full
  budget for each retry before.
- `LeasesExclusive`: `OneLeaseHolder` is not inductive, because a claim must hand
  out a token no job has. `LeaseInv` adds that a job's token is at most its row's,
  and that rows exist only for transactions that are over, so that a row that was
  cleaned up never comes back with a low token.
- `QueueStaysBounded`: `BoundInv` adds that only the holder of the subscription row
  has drafts; the count its trigger took therefore stays true until it commits.
- `CommitsCollected`, through `CollectInv`: what a transaction changed is drafted
  or spilt, and the transaction holds the row.
- `DeletionsWin`, through `DeletionInv`, which says the same of drafts and of rows.
- `Implementation`: `Spec => ImplementsQueue`. A commit is an `Enqueue`, an arrived
  request an `Accept`, its answer a `Succeed` or, at the last attempt, a `GiveUp`;
  `AcceptedInv` (a send that reports success was accepted) justifies `Succeed`.

`ExpressionsProofs`, for any records, source fields, definitions, writers and size of a
batch (`ExpressionsAssumption`: the records are finitely many numbers, `Empty` is no value
and `NoExpr` no definition):

- `HistoryIsComplete`: `HistoryReplays`, for any definers. `Locked` says that whoever has
  a record's row has it alone, and that what it read under the lock is what is stored
  until it commits.
- `CellsCatchUp`: `StaleOnlyAhead`, for one definer at a time (`OneDefiner`), as in the
  run. With two it is false (see the races below). `Owed` adds that what a write
  materialized from an older definition the backfill has still to correct
  (`Overtaken`), and that up to the end of a page nothing is left out (`Filled`).
  `PageIsBeginning` is the lemma about the keyset pages.

`SubmissionsProofs`, for any clients, handlers, bodies, publications and any window
(`SubmissionsAssumption`, `WriteReceiptsAssumption`: the placeholders for "no receipt"
and "nobody" are no body and no handler):

- `NeverAgainTooSoon`: `AgainOnlyAfterWindow`. The advisory lock keeps two handlers
  off one request (`Locked`); `Kept` says that a receipt is that of the last
  execution, that a request without one was executed before the window, and that
  what a clean-up is about to delete had expired for it.
- `OnlyThroughLiveForms`: `CapabilityHeldAtCommit`, by `Capable`: behind
  `resolvePublication` the member row is held FOR SHARE and the publication is live.
- `AtMostOneRecord`: `OncePerSubmission`. A receipt may expire, so `Audited` takes the
  audit row into account: a handler that saw no receipt found no audit row, and each
  record of a form that was not deleted has one.
- `AnswersTrue`: `AnswersAreTrue`, by `Waiting`: the handler a client waits for serves
  the request the client has open, and no other copy of it is on its way.

`RealtimeProofs`, for any users, invitations, pages and sockets
(`MembershipAssumption`, with finitely many users; `RealtimeAssumption`: a page is of one
user and a socket of one page, and the placeholders are neither):

- `SomebodyOwns`: `OwnerRemains`. `Owned` adds that one call at a time holds the
  members' rows, and that the owners it read are still the owners.
- `PagesCatchUp`: `PagesFresh`. `Promised` says of each change a page is owed where it
  is: shown, being fetched, queued in the socket, in a frame, in a notice, or to be
  made up for when the socket or LISTEN returns (`OnItsWay`).

`SchemaProofs` proves about three modules that share no state:

- `DeletionLeavesNothing` (`TableDeleteAssumption`): `NothingDangles`, for any tables,
  records, link fields, callers, deletions, sweeps and batch sizes. `Inductive` follows
  the guards of `table.ts`: a target's row is locked until the field is stored; behind
  the second guard nobody refers to the table; the ids read under the lock are all of
  its records'; a value that is going to be written names records its writer holds, or
  ids a deletion has still to sweep.
- `NamesStayLive` and `SharesShowWhatWasGranted` (`ViewsAssumption`):
  `StoredReferencesLive` and `QuietReadsAreExact`, for any fields, views, shares,
  editors and readers. `ViewsInv` adds that the lock is the handler's that is going
  to write or delete; that what it checked or scanned under the lock still holds when
  it writes; that the shares of a view whose filter a deletion will cut are doomed;
  that the grant of a live share nobody raced is its view's filter; and that a reader
  nobody disturbed, of whatever share, has read what is stored now. A view still to come has no
  options, so that the scan of a deletion need not know of it.
- `EditsStay`: `OwnEditsKept`, for any sessions, kinds of view, edits and failures.
  `EditsInv` adds that a session waits for one answer, that of the head of its queue or
  of its draft (`Attached`), and that an edit nobody undid is stored once it is saved and
  in every list fetched since (`SavedIsStored`): so the list that replaces the draft, or
  that the editor opens on, has it.
- `SettingsComeToRest`: `SettingsSettle`, from the same invariant and two more. A
  session that has nothing to hear of has the stored row in its list (`Abreast`). A
  grid's draft without edits differs from its list only while a list that differs from
  the one shown is stored or fetched (`DraftStands`). This holds because a package that
  is written is one nobody has seen: the packages still to be written are all different
  (`PackagesNew`), since each edit is a new value and widths that are set and not sent
  are nobody else's (`WidthUnknown`).

`TransferProofs` proves about six modules that share no state. `AirtableImport`
(`ImportAssumption`), for any attempts, requests and files; `AirtableSource`
(`SourceAssumption`), for any base, schema, page size and edits; `ImportPage`, for any
calls, reloads and previews; and `AgentAccess`, `Attachments` and `CsvTransfer`:

- `FilesAndBasesAgree`: `FilesMatchBases`. `Consistent` says who may hold the lock,
  that a receipt names the base that was committed, that a journal is there before
  the first file and all files before COMMIT, and that a journal is discarded only
  when the base owns the files or there are none.
- `AnswersAreKept`: `AnswersStayTrue`. `Truthful` adds who has the slot, that an
  attempt is answered once, and of which attempt a cancellation is.
- `PreparedImportsAreSound`: `PreparedIsSound`. `SourceInv` says that one table is read
  at a time, that what was kept of it is as long as the offset says (`OneAtATime`), that
  no id was read twice (`NoRecordTwice`, from the count of ids of each page, `IdsApart`),
  and that while nobody edits, what was kept is what the plan keeps of a beginning of
  the table (`AsItStands`); that pages join is `KeptJoins` and `PageIs`.
- `WishesMakeOneBase`: `OneBasePerWish`. `PageInv` says that the storage has the page's
  id until a report is shown (`Stored`), that the id of each wish was minted for no
  other (`WishesApart`), and that an answer the page still takes is of its request
  (`CallsTrue`).
- `TokensStayBounded`: `TokenBounded`, for any tools of the policy
  (`ToolsAssumption`), bases, tokens and calls. `AgentInv` adds that the scope a call
  runs under is that of its token's minting, that what it is about to run was checked
  against that scope, and that a write that outlived its role leaves the call where
  its next check refuses.
- `RowsKeepFiles`: `RowsHaveFiles`, by `FilesInv` (a file is put before its row, and a
  removal takes files of rows that are gone).
- `BrakesAlwaysHold`: `BrakesHold`, for any files, quota, sizes and limit and finitely many
  downloads. The quota is a statement about a sum over a user's files; what one file adds
  to such a sum, and that it grows with the set, are lemmas of their own. `QuotaKept`
  charges a user also with the files the check let past and that may still get a row
  (`Charged`), and says that this sum is within the bound the property states, since each
  upload past the check but the first was raced with and counted by `peak`. The slots are
  the downloads between `tryAcquire` and the end of their body.
- `ImportsStayAccounted`: `ImportsAccounted`, for any number of batches. The number
  counted, the next batch and the rows that ever landed advance together
  (`UploadAccounted`), and a report above zero is told (`AnswersTold`). The rows that
  were there before are of no import (`CsvAssumption`).
- `ExportsStayWhole`: `ExportsOneInstant`, for any sizes of tables and pages. Each file
  is a beginning of its table in the snapshot (`FilesOf`), a page continues it, and a
  page that comes short ends it (`PageContinues`).

`BrowserProofs` is about a session of the browser, for any records and fields, any
expressions over the cells of a record (`RecordAssumption`; only cells that are no
expression are typed, `GridAssumption`), any sort, page sizes and bounds
(`PasteAssumption`, `BoardAssumption`: the field pasted into is one that is typed, the
lanes are numbers):

- `SessionTypes`, and `PagesDivide`: the pages of the grid, read at one moment, are a
  partition: every record is on exactly one page, in exactly one row. It rests on
  `Ordered` being an arrangement of the records, for which one must exist
  (`OrderedArranges`, by `SubsetInduction`).
- `GridAlwaysSettles`: `GridSettles`. The quiet states say nothing of how they were reached,
  so the invariant speaks of pages that are not quiet (`PagesKept`): unless an answer
  still to come or a broadcast will have everything fetched again (`Due`), a page, and
  the answer of its fetch, have the rows of what the server would answer now, and differ
  from it in a cell only as a write in flight explains (`Faithful`, `Explained`): as its
  guess, which its answer will replace or its rollback undo, or because its answer still
  has to bring what it stored. A guess on the page can be undone: the snapshot of its write
  has the stored value of its cell (`Undoable`). One write of a cell is in flight (`OnePerCell`),
  which is what `MyTurn` and the queues of `grid-editor.tsx:389-405` are for. With nothing
  in flight the page is what the server would answer.
- `PastesAreAsWished`: `PastedAsWished`, by `PasteKept`: a paste that was written and whose
  receipt is gone is in no request, and offered only as one too old to confirm; a request
  and the paste offered beside it are the same one; what was withdrawn is neither offered,
  nor being prepared, nor in a request whose generation is still the one on the screen.
- `BoardAlwaysSettles`: `BoardSettles`, by `BoardKept`: unless a broadcast or the answer of
  a stored move will have all lanes fetched again (`LanesDue`), each page of a lane, or
  the answer of its fetch, is what the server would answer now.

The assumptions on constants beyond the ranges of bounds say that placeholders
(`NoReceipt`, `Nobody`, `NoUser`, `Offline`, `OldRow`, `None`) differ from the values they stand
apart from, that users and downloads are finitely many, as in any run of the program,
and that the tools called are those of the policy.

Only model-checked: liveness under fairness (`EveryRequestEnds`, `EventSettles`,
`BackfillEnds`, `OutsidersStayOut`), which is out of the prover's reach, and the properties
that the runs refute. The library's induction theorems take an operator as a parameter,
which the installed provers cannot instantiate; where induction over data was needed
(sums, orderings of a set) the proofs argue from the least counterexample instead
(`LeastNumber`, from the well-foundedness of `<` on the naturals, `SubsetInduction`).

## Where code and documentation disagree

With a run:

- `cellwrites_lost_write`: the comment at `write-cell.ts:120` calls the
  read-modify-write atomic. `record.delete` of a linked record removes the cell row
  between a writer's read and its UPDATE; the writer updates no row, logs a change
  that never was and reports success. More than that deletions cannot do
  (`OnlyDeletionsLoseWrites`).
- `grid_cancelled_fetch`: `use-paged-records.ts:24-28` says the invalidation after a
  broadcast refetches all loaded pages and closes the holes. `onMutate` of a cell
  edit cancels fetches under way (`grid-editor.tsx:315`) and starts none again.

With a definition that the model refutes:

- `ChangedAtIsOrder`: `history.ts:109` takes `changed_at` for the statement's
  clock; it is the transaction's.
- `ActiveCollects`: `docs/WEBHOOKS.md:44` prescribes a reconciliation before
  resuming; a transaction that wrote while paused and commits after the resume is
  in neither.
- `GapPullsEverything`: `gateway.ts:257-260` says clients take the broadcast after a
  loss of LISTEN for "pull everything in this base"; they refetch the structure.
- `ActiveBounded`: "Bound the number of active credentials" is a count and then an
  insert; two creations may pass together.
- `OneImportPerTable`: `client.tsx:11-14` keeps one busy table id for all tables.
- `AnswersKeepCellsFresh`: `grid-editor.tsx:337-340` says that patching each expression
  from the answer keeps none of them stale. Queues are per cell: two cells of a record
  that feed one expression are written at once, and the answer of the older transaction,
  arriving last, puts the older value of the expression back for good. (In the model:
  `Recomputed` with one expression over two fields of `Typed`, `SortField = "none"`, two
  writes, no failures.)
- `NamedRowsLive`: `write-cell.ts:38-42` expects the sweep of a deletion to strip an
  attachment id that was written while the deletion waited; the sweep strips record
  ids only, and the waiting DELETE does not look at the cells again.

Noticed while modelling, without a definition: `view.ts:148-149` calls the silent
drop of a condition unreachable, while a public read takes the fields before the
view; `plugin-csv` reports that the table keeps the rows also when it was deleted
meanwhile; escaping and unescaping a CSV text loses its own leading apostrophe and
its outer blanks, though the comment in `csv.ts` calls the round trip intact; the
share's file proxy looks for the attachment in all attachment cells of the view's
table, its comment says in the view's visible cells.

## Races the code leaves open

The properties except these by a condition or a history variable, or a bound keeps
them out; each is named where it is modelled.

- Definitions: two overlapping redefinitions of an expression, of which the older
  may write last (`expression.ts:213`); a field deleted while an expression over it
  is created (`field.ts:338`); an empty link column redirected while a writer of the
  old target is about to commit (`field.ts:284`); a share created between a
  deletion's revocation and its commit outlives the widening of its view's filter
  (`share.ts:65`, `raced`); a crash between the commit of `table.delete` and its sweep.
- Imports: a journal that another attempt discarded (`journal.ts:59`); "cancelled"
  answered while a COMMIT may still land; loss of the database while files are put;
  a torn journal blocks recovery; a retry with other inputs under one request id
  gets the first one's report; a late "cancelled" shows while a retry runs; a lost
  COMMIT answer of a CSV batch is reported as not imported.
- Files: an upload whose row cannot be inserted leaves its file, so does a removal
  that fails or a restart after the commit of a deletion; the quota can be passed by
  one file per race, as its comment says.
- Agents: a lost COMMIT answer is reported as an error of the cell.
- Browser: a snapshot restored over newer values of other cells; a lost answer after
  a commit rolls back and nothing refetches; a page fetched before the own commit
  and landing after its reconciliation; a reconciliation over a newer value, of the cell
  or of an expression that another cell in flight feeds; the
  first fetch of a page joined by an invalidation; a patch that clears a failed
  page's error; a lost answer of a card's move; view options replaced as a whole by
  another session between an own save and the refetch.

## Not modelled

- Rows created by a batch inside `CellWrites`, value normalization, the arithmetic of
  the evaluator (negative inputs are substituted without parentheses,
  `expression-eval.ts:41`), conversions between field types.
- The view query algebra (`view-ast.ts`, `view-query.ts`, `group-counts.ts`): it
  generates SQL, and what a filter means is the database's evaluation of it. Pages
  of `record.list` and `record.kanbanPage` are atomic reads of a fixed order.
- Creation, renaming and reordering of tables and bases: single statements that no
  other component reads twice.
- Limits per address and per token, the limit of subscriptions per table, body
  sizes, HTTP transport, addresses and DNS, CSV and JSON text, file names, headers.
- Presence, heartbeats and caps of the gateway; group counts, the unavailable lane
  and appended rows of a paste in the browser; selection, keyboard and rendering. A
  session's own creations and deletions count as changes it is told of, and
  broadcasts are assumed to arrive (`Realtime` says when they do).
- Accounts and sessions (a library), plugin registration, startup and shutdown;
  exhaustion of the connection pool.
