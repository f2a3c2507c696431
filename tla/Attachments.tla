---------------------------- MODULE Attachments ----------------------------
(***************************************************************************)
(* The files of one base: uploads (app/api/upload), cells that name them   *)
(* (records/write-cell.ts), their removal with a table or with the base    *)
(* (routers/table.ts, routers/base.ts), downloads by members               *)
(* (app/api/files) and by visitors of a share (app/share/[token]/file).    *)
(*                                                                         *)
(* A row and its file are made in two steps and removed in two steps.      *)
(* Each table has one attachment cell.  An attachment is known by the      *)
(* upload that makes it, and so is its file, whose key is a fresh UUID.    *)
(***************************************************************************)
EXTENDS FiniteSets, FiniteSetsExt, Naturals

CONSTANTS
  File,        \* attachments, each uploaded at most once
  SizeOf,      \* size of each
  MaxSize,     \* MAX_SIZE of a file
  Quota,       \* UPLOAD_USER_QUOTA_MB, 0 for none
  User,
  FileTable,
  Pinned,      \* the table whose view the share shows, or WholeBase
  Get,         \* handlers of downloads
  Limit,       \* DOWNLOAD_CONCURRENCY_LIMIT, 0 for none
  MaxStops     \* bound: restarts of the server

WholeBase == "whole base"
NoOne == "nobody"

ASSUME AttachmentsAssumption ==
  /\ SizeOf \in [File -> Nat \ {0}] /\ MaxSize \in Nat
  /\ Quota \in Nat /\ Limit \in Nat /\ MaxStops \in Nat
  /\ Pinned \in FileTable \cup {WholeBase} /\ WholeBase \notin FileTable
  /\ NoOne \notin User /\ IsFiniteSet(Get)

VARIABLES
  attachments, \* attachment rows
  disk,        \* files in storage
  by,          \* attachment |-> its uploadedBy
  cells,       \* table |-> attachments its cell names
  live,        \* live tables; none once the base is gone
  baseLive,
  member,      \* user |-> role in the base, NoOne if none
  share,       \* the share is live
  post,        \* attachment |-> statement of its upload
  write,       \* user |-> cell write in progress
  deletion,    \* the deletion of a table or of the base in progress
  get,         \* download |-> statement, user or NoOne, attachment
  slots,       \* downloadSlots: user |-> count
  stops,
  peak         \* history: user |-> most uploads at once past the quota

fileVars == <<attachments, disk, by, cells, live, baseLive, member, share,
              post, write, deletion, get, slots, stops, peak>>
stored == <<attachments, disk, by, cells, live, baseLive>>
world == <<member, share, stops>>
handlers == <<post, write, deletion, get>>

NoWrite == [at |-> "idle", table |-> WholeBase, value |-> {}]
NoDeletion == [at |-> "idle", what |-> WholeBase, ids |-> {}, keys |-> {}]
NoGet == [at |-> "idle", user |-> NoOne, file |-> {}]

FilesInit ==
  /\ attachments = {} /\ disk = {} /\ by = [f \in File |-> NoOne]
  /\ cells = [t \in FileTable |-> {}] /\ live = FileTable /\ baseLive = TRUE
  /\ member = [u \in User |-> "editor"] /\ share = TRUE
  /\ post = [f \in File |-> "idle"]
  /\ write = [u \in User |-> NoWrite]
  /\ deletion = NoDeletion
  /\ get = [d \in Get |-> NoGet]
  /\ slots = [u \in User |-> 0]
  /\ stops = 0
  /\ peak = [u \in User |-> 0]

-----------------------------------------------------------------------------
(* Uploads *)

(* The role, the size and the type are checked first; the type only refuses. *)
Upload(f, u) ==
  /\ post[f] = "idle"
  /\ member[u] = "editor" /\ SizeOf[f] <= MaxSize
  /\ post' = [post EXCEPT ![f] = "quota"]
  /\ by' = [by EXCEPT ![f] = u]
  /\ UNCHANGED <<attachments, disk, cells, live, baseLive, world, write, deletion, get, slots, peak>>

Used(u) == MapThenSumSet(LAMBDA f : SizeOf[f], {f \in attachments : by[f] = u})

(* Mutant of OverQuota: the file to come is not counted. *)
OverQuotaAlready(f) == Quota > 0 /\ Used(by[f]) > Quota

(* Nothing holds the sum between its reading and the row of this upload.     *)
OverQuota(f) == Quota > 0 /\ Used(by[f]) + SizeOf[f] > Quota
PastQuota(u) == {f \in File : by[f] = u /\ post[f] \in {"put", "insert"}}

CheckQuota(f) ==
  /\ post[f] = "quota"
  /\ post' = [post EXCEPT ![f] = IF OverQuota(f) THEN "refused" ELSE "put"]
  /\ peak' = IF OverQuota(f) THEN peak
             ELSE [peak EXCEPT ![by[f]] = Max({@, Cardinality(PastQuota(by[f])) + 1})]
  /\ UNCHANGED <<stored, world, write, deletion, get, slots>>

(* A failed put may leave part of the file.                                  *)
Put(f) ==
  /\ post[f] = "put"
  /\ \/ post' = [post EXCEPT ![f] = "insert"] /\ disk' = disk \cup {f}
     \/ post' = [post EXCEPT ![f] = "failed"] /\ disk' \in {disk, disk \cup {f}}
  /\ UNCHANGED <<attachments, by, cells, live, baseLive, world, write, deletion, get, slots, peak>>

(* The row needs its base; when it fails, nobody removes the file.           *)
InsertRow(f) ==
  /\ post[f] = "insert"
  /\ \/ /\ baseLive
        /\ attachments' = attachments \cup {f}
        /\ post' = [post EXCEPT ![f] = "answered"]
     \/ /\ post' = [post EXCEPT ![f] = "failed"]
        /\ UNCHANGED attachments
  /\ UNCHANGED <<disk, by, cells, live, baseLive, world, write, deletion, get, slots, peak>>

-----------------------------------------------------------------------------
(* Cell writes *)

(* The deletion holds the rows of the table: writers wait. *)
BeingDeleted(t) == deletion.at = "rows" /\ deletion.what = t

(* The cell editor adds an attachment to what the cell shows.                *)
Added(t, f) == cells[t] \cup {f}

(* The server keeps the rows it found FOR SHARE until the write commits.     *)
NameInCell(u, t, f) ==
  /\ write[u].at = "idle" /\ member[u] = "editor" /\ t \in live /\ ~BeingDeleted(t)
  /\ post[f] = "answered"
  /\ Added(t, f) \subseteq attachments
  /\ write' = [write EXCEPT ![u] = [at |-> "write", table |-> t, value |-> Added(t, f)]]
  /\ UNCHANGED <<stored, world, post, deletion, get, slots, peak>>

(* Rows held FOR SHARE. *)
Shared == UNION {write[u].value : u \in User}

CommitCell(u) ==
  /\ write[u].at = "write"
  /\ cells' = IF write[u].table \in live
                THEN [cells EXCEPT ![write[u].table] = write[u].value]
                ELSE cells
  /\ write' = [write EXCEPT ![u] = NoWrite]
  /\ UNCHANGED <<attachments, disk, by, live, baseLive, world, post, deletion, get, slots, peak>>

ClearCell(u, t) ==
  /\ write[u].at = "idle" /\ member[u] = "editor" /\ t \in live /\ ~BeingDeleted(t)
  /\ cells' = [cells EXCEPT ![t] = {}]
  /\ UNCHANGED <<attachments, disk, by, live, baseLive, world, handlers, slots, peak>>

-----------------------------------------------------------------------------
(* Deletion of a table or of the base *)

Deleting(at, what, ids, keys) ==
  deletion' = [at |-> at, what |-> what, ids |-> ids, keys |-> keys]

(* In the transaction that deletes the table, first the ids its cells name.  *)
CollectIds(t) ==
  /\ deletion.at = "idle" /\ t \in live
  /\ Deleting("table", t, cells[t], {})
  /\ UNCHANGED <<stored, world, post, write, get, slots, peak>>

NamedElsewhere(t) == UNION {cells[o] : o \in live \ {t}}

(* The table goes with its cells.  Then one DELETE of rows that no cell      *)
(* names; it sees the cells as of its start, and waits for rows held FOR     *)
(* SHARE without looking again.                                              *)
StartRowDelete ==
  /\ deletion.at = "table"
  /\ \A u \in User : write[u].table # deletion.what
  /\ Deleting("rows", deletion.what, deletion.ids,
              (deletion.ids \cap attachments) \ NamedElsewhere(deletion.what))
  /\ UNCHANGED <<stored, world, post, write, get, slots, peak>>

(* Mutant of Returned: the files of all the cells named. *)
Collected == deletion.ids

Returned == deletion.keys

CommitTableDelete ==
  /\ deletion.at = "rows"
  /\ deletion.keys \cap Shared = {}
  /\ live' = live \ {deletion.what}
  /\ cells' = [cells EXCEPT ![deletion.what] = {}]
  /\ attachments' = attachments \ deletion.keys
  /\ Deleting("files", deletion.what, {}, Returned)
  /\ UNCHANGED <<disk, by, baseLive, world, post, write, get, slots, peak>>

CollectKeys ==
  /\ deletion.at = "idle" /\ baseLive
  /\ Deleting("base", WholeBase, {}, attachments)
  /\ UNCHANGED <<stored, world, post, write, get, slots, peak>>

CommitBaseDelete ==
  /\ deletion.at = "base"
  /\ \A u \in User : write[u].at = "idle"
  /\ baseLive' = FALSE /\ live' = {} /\ attachments' = {}
  /\ cells' = [t \in FileTable |-> {}]
  /\ member' = [u \in User |-> NoOne] /\ share' = FALSE
  /\ deletion' = [deletion EXCEPT !.at = "files"]
  /\ UNCHANGED <<disk, by, stops, post, write, get, slots, peak>>

(* Best effort: a file that cannot be removed stays.                         *)
RemoveKey(f) ==
  /\ deletion.at = "files" /\ f \in deletion.keys
  /\ disk' \in {disk, disk \ {f}}
  /\ deletion' = [deletion EXCEPT !.keys = @ \ {f}]
  /\ UNCHANGED <<attachments, by, cells, live, baseLive, world, post, write, get, slots, peak>>

DeletionAnswered ==
  /\ deletion.at = "files" /\ deletion.keys = {}
  /\ deletion' = NoDeletion
  /\ UNCHANGED <<stored, world, post, write, get, slots, peak>>

-----------------------------------------------------------------------------
(* Downloads *)

At(d, s) == get' = [get EXCEPT ![d].at = s]

(* A member asks for a row that exists; the role is read afterwards.         *)
Ask(d, u, f) ==
  /\ get[d].at = "idle" /\ f \in attachments
  /\ get' = [get EXCEPT ![d] = [at |-> "member", user |-> u, file |-> {f}]]
  /\ UNCHANGED <<stored, world, post, write, deletion, slots, peak>>

CheckMember(d) ==
  /\ get[d].at = "member"
  /\ At(d, IF member[get[d].user] # NoOne THEN "slot" ELSE "done")
  /\ UNCHANGED <<stored, world, post, write, deletion, slots, peak>>

TryAcquire(d) ==
  LET u == get[d].user IN
  /\ get[d].at = "slot"
  /\ IF Limit = 0 \/ slots[u] < Limit
       THEN /\ At(d, "open")
            /\ slots' = [slots EXCEPT ![u] = IF Limit = 0 THEN @ ELSE @ + 1]
       ELSE At(d, "done") /\ UNCHANGED slots
  /\ UNCHANGED <<stored, world, post, write, deletion, peak>>

Released(u) == [slots EXCEPT ![u] = IF @ <= 1 THEN 0 ELSE @ - 1]

(* getStream refuses; otherwise the slot stays with the body until it closes *)
(* (to the end, by an error such as a file that is gone, or by the client).  *)
OpenStream(d) ==
  /\ get[d].at = "open" /\ get[d].user # NoOne
  /\ \/ At(d, "body") /\ UNCHANGED slots
     \/ At(d, "done") /\ slots' = Released(get[d].user)
  /\ UNCHANGED <<stored, world, post, write, deletion, peak>>

CloseStream(d) ==
  /\ get[d].at = "body" /\ get[d].user # NoOne
  /\ At(d, "done")
  /\ slots' = Released(get[d].user)
  /\ UNCHANGED <<stored, world, post, write, deletion, peak>>

(* A visitor: the share is live, then the row is of its base, then, if the   *)
(* share shows one view, a cell of the view's table names it.  No slot.      *)
Visit(d, f) ==
  /\ get[d].at = "idle" /\ share
  /\ get' = [get EXCEPT ![d] = [at |-> "row", user |-> NoOne, file |-> {f}]]
  /\ UNCHANGED <<stored, world, post, write, deletion, slots, peak>>

VisitorRow(d) ==
  /\ get[d].at = "row"
  /\ At(d, IF ~(get[d].file \subseteq attachments) THEN "done"
           ELSE IF Pinned = WholeBase THEN "open" ELSE "named")
  /\ UNCHANGED <<stored, world, post, write, deletion, slots, peak>>

VisitorNamed(d) ==
  /\ get[d].at = "named"
  /\ At(d, IF Pinned \in live /\ get[d].file \subseteq cells[Pinned] THEN "open" ELSE "done")
  /\ UNCHANGED <<stored, world, post, write, deletion, slots, peak>>

VisitorBody(d) ==
  /\ get[d].user = NoOne
  /\ \/ get[d].at = "open" /\ (At(d, "body") \/ At(d, "done"))
     \/ get[d].at = "body" /\ At(d, "done")
  /\ UNCHANGED <<stored, world, post, write, deletion, slots, peak>>

Again(d) ==
  /\ get[d].at = "done"
  /\ get' = [get EXCEPT ![d] = NoGet]
  /\ UNCHANGED <<stored, world, post, write, deletion, slots, peak>>

-----------------------------------------------------------------------------
(* Others *)

Leave(u) ==
  /\ member[u] # NoOne
  /\ member' = [member EXCEPT ![u] = NoOne]
  /\ UNCHANGED <<stored, share, stops, handlers, slots, peak>>

RevokeShare ==
  /\ share /\ share' = FALSE
  /\ UNCHANGED <<stored, member, stops, handlers, slots, peak>>

(* The server stops: transactions roll back, what was only in memory is gone. *)
Stop ==
  /\ stops < MaxStops /\ stops' = stops + 1
  /\ post' = [f \in File |-> IF post[f] \in {"quota", "put", "insert"} THEN "failed" ELSE post[f]]
  /\ write' = [u \in User |-> NoWrite]
  /\ deletion' = NoDeletion
  /\ get' = [d \in Get |-> NoGet]
  /\ slots' = [u \in User |-> 0]
  /\ UNCHANGED <<stored, member, share, peak>>

FilesNext ==
  \/ \E f \in File, u \in User : Upload(f, u)
  \/ \E f \in File : CheckQuota(f) \/ Put(f) \/ InsertRow(f) \/ RemoveKey(f)
  \/ \E u \in User, t \in FileTable, f \in File : NameInCell(u, t, f)
  \/ \E u \in User : CommitCell(u) \/ Leave(u)
  \/ \E u \in User, t \in FileTable : ClearCell(u, t)
  \/ \E t \in FileTable : CollectIds(t)
  \/ StartRowDelete \/ CommitTableDelete \/ CollectKeys \/ CommitBaseDelete \/ DeletionAnswered
  \/ \E d \in Get, u \in User, f \in File : Ask(d, u, f)
  \/ \E d \in Get : CheckMember(d) \/ TryAcquire(d) \/ OpenStream(d) \/ CloseStream(d)
                    \/ VisitorRow(d) \/ VisitorNamed(d) \/ VisitorBody(d) \/ Again(d)
  \/ \E d \in Get, f \in File : Visit(d, f)
  \/ RevokeShare \/ Stop

FilesSpec == FilesInit /\ [][FilesNext]_fileVars

-----------------------------------------------------------------------------
(* A user's stored files exceed the quota by at most one file for each       *)
(* upload that raced with another (upload/route.ts), whatever the sizes.     *)
QuotaHolds ==
  Quota > 0 =>
    \A u \in User : Used(u) <= Quota + (IF peak[u] = 0 THEN 0 ELSE peak[u] - 1) * MaxSize

(* A user's slots in use are the downloads between tryAcquire and the end of *)
(* their body, whatever way they end: none is lost and none returned twice.  *)
SlotsBalanced ==
  Limit > 0 =>
    \A u \in User :
      /\ slots[u] = Cardinality({d \in Get : get[d].user = u /\ get[d].at \in {"open", "body"}})
      /\ slots[u] <= Limit

(* Both brakes on attachments hold: what they bound is bounded, and what was *)
(* returned can be had again.                                                *)
BrakesHold == QuotaHolds /\ SlotsBalanced

(* An attachment that can be downloaded has its file: removals only take     *)
(* files of rows that are gone, in whatever order uploads, writes, deletions *)
(* and restarts interleave.  (Files without a row do stay: see the README.)  *)
RowsHaveFiles == attachments \subseteq disk

(* Stated by the comment at write-cell.ts:38 and refuted: a deletion that    *)
(* waited for a write's row lock deletes the row the write has just named.   *)
NamedRowsLive == \A t \in live : cells[t] \subseteq attachments
=============================================================================
