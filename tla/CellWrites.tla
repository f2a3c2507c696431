----------------------------- MODULE CellWrites -----------------------------
(***************************************************************************)
(* The record writers of server/records/write-cell.ts, write-batch.ts and  *)
(* trpc/routers/record.ts as PostgreSQL runs them: READ COMMITTED          *)
(* transactions, one action per statement, rows locked by the statements   *)
(* that lock them and released at commit or rollback.                      *)
(*                                                                         *)
(* The base is one table with one link field over a set of records.  A     *)
(* cell value is the set of records it names; {} stands both for "no cell  *)
(* row" and for the null of cell_history, as an empty value is an absent   *)
(* row (ADR-0005).  Cell row ids are left out: while a transaction holds a *)
(* record row nobody else can insert that record's cell, so "the row with  *)
(* the id I read is gone" and "the cell is empty" are the same fact.       *)
(*                                                                         *)
(* Lock modes: FOR UPDATE and the FOR NO KEY UPDATE of an UPDATE exclude   *)
(* each other and FOR SHARE, so both are xLocks; FOR SHARE is sLocks; row  *)
(* locks on cells are cLocks.  The advisory lock on (record, field) is     *)
(* always taken with the record row already held, so it is never waited    *)
(* for and needs no variable of its own.                                   *)
(***************************************************************************)
EXTENDS Naturals, Sequences, FiniteSets

CONSTANTS
  Record,        \* record ids, in the order of ORDER BY record.id
  LinkValues,    \* the link values users submit
  Stored,        \* the link values earlier requests have left in cells
  Proc,          \* server-side request handlers (pool connections)
  Kinds,         \* which transactions they run
  MaxTx          \* bound: transactions begun in a behaviour

AllKinds == {"upsert", "batch", "delete"}

ASSUME CellWritesAssumption ==
  /\ Record \subseteq Nat
  /\ LinkValues \subseteq SUBSET Record
  /\ Stored \subseteq SUBSET Record
  /\ Kinds \subseteq AllKinds
  /\ MaxTx \in Nat

VARIABLES
  \* committed rows
  live,          \* record rows
  born,          \* ids ever used (randomUUID never repeats)
  cell,          \* cell rows
  hist,          \* cell_history per record, in commit order
  clock,         \* transactions begun; now() of a transaction is its start
  \* the transaction each handler runs
  pc, kind,
  stamp,         \* now(): the start of the transaction
  val,           \* requested value per row
  todo,          \* rows not written yet
  row,           \* current row; for a delete the doomed record
  scan,          \* rows the current statement still has to lock
  seen,          \* the cell value read for the current row
  xLocks, sLocks, cLocks,
  eff,           \* eff[p][r]: value of a locked cell row once p commits
  log            \* cell_history rows inserted, not committed yet

storeVars == <<live, born, cell, hist, clock>>
txVars == <<pc, kind, stamp, val, todo, row, scan, seen,
            xLocks, sLocks, cLocks, eff, log>>
vars == <<storeVars, txVars>>

Entry == [rec : Record, old : SUBSET Record, new : SUBSET Record]
HistEntry == [old : SUBSET Record, new : SUBSET Record, at : Nat]
NoWrites == [r \in Record |-> {}]

PCs == {"idle", "prelock", "lock", "refs", "read", "write",
        "doom", "snapshot", "scan", "cascade", "commit"}

(* The statements that work on the current row. *)
RowPCs == {"refs", "read", "write", "doom", "snapshot", "scan", "cascade"}

TypeOK ==
  /\ live \in SUBSET Record
  /\ born \in SUBSET Record
  /\ cell \in [Record -> SUBSET Record]
  /\ hist \in [Record -> Seq(HistEntry)]
  /\ clock \in Nat
  /\ pc \in [Proc -> PCs]
  /\ kind \in [Proc -> AllKinds \cup {"none"}]
  /\ stamp \in [Proc -> Nat]
  /\ val \in [Proc -> [Record -> SUBSET Record]]
  /\ todo \in [Proc -> SUBSET Record]
  /\ row \in [Proc -> Record \cup {0}]
  /\ scan \in [Proc -> SUBSET Record]
  /\ seen \in [Proc -> SUBSET Record]
  /\ xLocks \in [Proc -> SUBSET Record]
  /\ sLocks \in [Proc -> SUBSET Record]
  /\ cLocks \in [Proc -> SUBSET Record]
  /\ eff \in [Proc -> [Record -> SUBSET Record]]
  /\ log \in [Proc -> SUBSET Entry]
  /\ \A p \in Proc : pc[p] \in RowPCs => row[p] \in Record

-----------------------------------------------------------------------------
(***************************************************************************)
(* Row locks.  A statement that meets a conflicting lock waits, that is,   *)
(* its action is not enabled.                                              *)
(***************************************************************************)
XFree(p, r) == \A q \in Proc \ {p} : r \notin xLocks[q] \cup sLocks[q]

SFree(p, r) == \A q \in Proc \ {p} : r \notin xLocks[q]

CFree(p, r) == \A q \in Proc \ {p} : r \notin cLocks[q]

Goto(p, l) == pc' = [pc EXCEPT ![p] = l]

(* COMMIT and ROLLBACK: every lock and every local of p is dropped. *)
EndTx(p) ==
  /\ Goto(p, "idle")
  /\ kind' = [kind EXCEPT ![p] = "none"]
  /\ stamp' = [stamp EXCEPT ![p] = 0]
  /\ val' = [val EXCEPT ![p] = NoWrites]
  /\ todo' = [todo EXCEPT ![p] = {}]
  /\ row' = [row EXCEPT ![p] = 0]
  /\ scan' = [scan EXCEPT ![p] = {}]
  /\ seen' = [seen EXCEPT ![p] = {}]
  /\ xLocks' = [xLocks EXCEPT ![p] = {}]
  /\ sLocks' = [sLocks EXCEPT ![p] = {}]
  /\ cLocks' = [cLocks EXCEPT ![p] = {}]
  /\ eff' = [eff EXCEPT ![p] = NoWrites]
  /\ log' = [log EXCEPT ![p] = {}]

Rollback(p) == EndTx(p) /\ UNCHANGED storeVars

(* BEGIN: now() is fixed for the whole transaction. *)
Begin(p, k, l) ==
  /\ pc[p] = "idle" /\ k \in Kinds /\ clock < MaxTx
  /\ clock' = clock + 1
  /\ stamp' = [stamp EXCEPT ![p] = clock + 1]
  /\ kind' = [kind EXCEPT ![p] = k]
  /\ Goto(p, l)
  /\ UNCHANGED <<live, born, cell, hist, seen, xLocks, sLocks, cLocks, eff, log>>

-----------------------------------------------------------------------------
(***************************************************************************)
(* record.create: one INSERT.                                              *)
(***************************************************************************)
CreateRecord(r) ==
  /\ r \notin born
  /\ live' = live \cup {r}
  /\ born' = born \cup {r}
  /\ UNCHANGED <<cell, hist, clock, txVars>>

(***************************************************************************)
(* cell.upsert: BEGIN, then the unlocked lookup of the record, which must  *)
(* find it.                                                                *)
(***************************************************************************)
BeginUpsert(p, r, v) ==
  /\ r \in live
  /\ Begin(p, "upsert", "lock")
  /\ val' = [val EXCEPT ![p] = [NoWrites EXCEPT ![r] = v]]
  /\ todo' = [todo EXCEPT ![p] = {r}]
  /\ UNCHANGED <<row, scan>>

(***************************************************************************)
(* writeBatch over existing records: the rows are distinct, and the first  *)
(* statement locks all of them in id order before anything is written.     *)
(***************************************************************************)
BeginBatch(p, rows, v) ==
  /\ rows # {}
  /\ Begin(p, "batch", "prelock")
  /\ val' = [val EXCEPT ![p] = [r \in Record |-> IF r \in rows THEN v ELSE {}]]
  /\ todo' = [todo EXCEPT ![p] = rows]
  /\ scan' = [scan EXCEPT ![p] = rows]
  /\ UNCHANGED row

First(S) == CHOOSE r \in S : \A s \in S : r <= s

PrelockRow(p) ==
  /\ pc[p] = "prelock" /\ scan[p] # {}
  /\ LET r == First(scan[p]) IN
       /\ XFree(p, r)
       /\ xLocks' = [xLocks EXCEPT ![p] = @ \cup ({r} \cap live)]
       /\ scan' = [scan EXCEPT ![p] = @ \ {r}]
  /\ UNCHANGED <<storeVars, pc, kind, stamp, val, todo, row, seen,
                 sLocks, cLocks, eff, log>>

(* Fewer rows than ids: NOT_FOUND. *)
PrelockDone(p) ==
  /\ pc[p] = "prelock" /\ scan[p] = {}
  /\ \/ /\ todo[p] \subseteq xLocks[p]
        /\ Goto(p, "lock")
        /\ UNCHANGED <<storeVars, kind, stamp, val, todo, row, scan, seen,
                       xLocks, sLocks, cLocks, eff, log>>
     \/ /\ ~(todo[p] \subseteq xLocks[p])
        /\ Rollback(p)

-----------------------------------------------------------------------------
(***************************************************************************)
(* writeCellInTransaction, once per row of the request.                    *)
(***************************************************************************)
(* Mutant of LockRow: the record is looked up, not updated. *)
LookUpRow(p) ==
  /\ pc[p] = "lock"
  /\ \E r \in todo[p] \cap live :
       /\ row' = [row EXCEPT ![p] = r]
       /\ scan' = [scan EXCEPT ![p] = val[p][r] \cap live]
  /\ Goto(p, "refs")
  /\ UNCHANGED <<storeVars, kind, stamp, val, todo, seen, xLocks, sLocks, cLocks, eff, log>>

(* UPDATE record SET updated_at: locks the row, or matches nothing. *)
LockRow(p) ==
  /\ pc[p] = "lock"
  /\ \E r \in todo[p] :
       /\ XFree(p, r)
       /\ \/ /\ r \notin live
             /\ Rollback(p)
          \/ /\ r \in live
             /\ xLocks' = [xLocks EXCEPT ![p] = @ \cup {r}]
             /\ row' = [row EXCEPT ![p] = r]
             /\ scan' = [scan EXCEPT ![p] = val[p][r] \cap live]
             /\ Goto(p, "refs")
             /\ UNCHANGED <<storeVars, kind, stamp, val, todo, seen,
                            sLocks, cLocks, eff, log>>

(***************************************************************************)
(* SELECT ... FOR SHARE over the referenced records, row by row.  A target *)
(* deleted while the statement waited for it is skipped.                   *)
(***************************************************************************)
ShareTarget(p) ==
  /\ pc[p] = "refs"
  /\ \E t \in scan[p] :
       /\ SFree(p, t)
       /\ sLocks' = [sLocks EXCEPT ![p] = @ \cup ({t} \cap live)]
       /\ scan' = [scan EXCEPT ![p] = @ \ {t}]
  /\ UNCHANGED <<storeVars, pc, kind, stamp, val, todo, row, seen,
                 xLocks, cLocks, eff, log>>

(* Mutant of TargetsDone: a missing target is not noticed. *)
TargetsUnchecked(p) ==
  /\ pc[p] = "refs" /\ scan[p] = {}
  /\ Goto(p, "read")
  /\ UNCHANGED <<storeVars, kind, stamp, val, todo, row, scan, seen,
                 xLocks, sLocks, cLocks, eff, log>>

(* A referenced record that was not found refuses the write: BAD_REQUEST. *)
TargetsDone(p) ==
  /\ pc[p] = "refs" /\ scan[p] = {}
  /\ \/ /\ val[p][row[p]] \subseteq sLocks[p]
        /\ Goto(p, "read")
        /\ UNCHANGED <<storeVars, kind, stamp, val, todo, row, scan, seen,
                       xLocks, sLocks, cLocks, eff, log>>
     \/ /\ ~(val[p][row[p]] \subseteq sLocks[p])
        /\ Rollback(p)

(* SELECT the existing cell: a plain read, no lock on the cell row. *)
ReadExisting(p) ==
  /\ pc[p] = "read"
  /\ seen' = [seen EXCEPT ![p] = cell[row[p]]]
  /\ Goto(p, "write")
  /\ UNCHANGED <<storeVars, kind, stamp, val, todo, row, scan,
                 xLocks, sLocks, cLocks, eff, log>>

(* The cell row is there to be updated or deleted, or is inserted now. *)
RowHit(p, r) == cell[r] # {} \/ seen[p] = {}

(***************************************************************************)
(* UPDATE or DELETE of the cell that was read, or INSERT ... ON CONFLICT   *)
(* DO UPDATE when none was; the history row always states the value read.  *)
(* An empty value over an absent cell writes nothing.                      *)
(***************************************************************************)
WriteCell(p) ==
  LET r == row[p]
      v == val[p][r]
  IN
  /\ pc[p] = "write"
  /\ \/ /\ v = {} /\ seen[p] = {}
        /\ UNCHANGED <<cLocks, eff, log>>
     \/ /\ v # {} \/ seen[p] # {}
        /\ CFree(p, r)
        /\ log' = [log EXCEPT ![p] = @ \cup {[rec |-> r, old |-> seen[p], new |-> v]}]
        /\ IF RowHit(p, r)
             THEN /\ cLocks' = [cLocks EXCEPT ![p] = @ \cup {r}]
                  /\ eff' = [eff EXCEPT ![p][r] = v]
             ELSE UNCHANGED <<cLocks, eff>>
  /\ todo' = [todo EXCEPT ![p] = @ \ {r}]
  /\ seen' = [seen EXCEPT ![p] = {}]
  /\ Goto(p, IF todo[p] = {r} THEN "commit" ELSE "lock")
  /\ UNCHANGED <<storeVars, kind, stamp, val, row, scan, xLocks, sLocks>>

-----------------------------------------------------------------------------
(***************************************************************************)
(* record.delete.                                                          *)
(***************************************************************************)
BeginDelete(p, d) ==
  /\ d \in live
  /\ Begin(p, "delete", "doom")
  /\ row' = [row EXCEPT ![p] = d]
  /\ UNCHANGED <<val, todo, scan>>

(* SELECT ... FOR UPDATE of the doomed record. *)
LockDoomed(p) ==
  /\ pc[p] = "doom"
  /\ XFree(p, row[p])
  /\ \/ /\ row[p] \notin live
        /\ Rollback(p)
     \/ /\ row[p] \in live
        /\ xLocks' = [xLocks EXCEPT ![p] = @ \cup {row[p]}]
        /\ Goto(p, "snapshot")
        /\ UNCHANGED <<storeVars, kind, stamp, val, todo, row, scan, seen,
                       sLocks, cLocks, eff, log>>

(* SELECT cells naming the record FOR UPDATE OF c: first its snapshot ... *)
ScanSnapshot(p) ==
  /\ pc[p] = "snapshot"
  /\ scan' = [scan EXCEPT ![p] = {r \in Record : row[p] \in cell[r]}]
  /\ Goto(p, "scan")
  /\ UNCHANGED <<storeVars, kind, stamp, val, todo, row, seen,
                 xLocks, sLocks, cLocks, eff, log>>

(* Mutants of StripReference: no history row; the whole cell is emptied. *)
StripUnlogged(p) ==
  /\ pc[p] = "scan"
  /\ \E r \in scan[p] :
       /\ CFree(p, r)
       /\ scan' = [scan EXCEPT ![p] = @ \ {r}]
       /\ cLocks' = [cLocks EXCEPT ![p] = @ \cup {r}]
       /\ eff' = [eff EXCEPT ![p][r] = cell[r] \ {row[p]}]
  /\ UNCHANGED <<storeVars, pc, kind, stamp, val, todo, row, seen, xLocks, sLocks, log>>

EmptyCell(p) ==
  /\ pc[p] = "scan"
  /\ \E r \in scan[p] :
       /\ CFree(p, r)
       /\ scan' = [scan EXCEPT ![p] = @ \ {r}]
       /\ cLocks' = [cLocks EXCEPT ![p] = @ \cup {r}]
       /\ eff' = [eff EXCEPT ![p][r] = {}]
       /\ log' = [log EXCEPT ![p] = @ \cup {[rec |-> r, old |-> cell[r], new |-> {}]}]
  /\ UNCHANGED <<storeVars, pc, kind, stamp, val, todo, row, seen, xLocks, sLocks>>

(***************************************************************************)
(* ... then each cell row, locked and re-read.  The UPDATE or DELETE that  *)
(* strips the id works on the value the lock returned, so it is the same   *)
(* step.  A row that no longer names the record keeps its lock and value;  *)
(* a vanished one is skipped.                                              *)
(***************************************************************************)
StripReference(p) ==
  /\ pc[p] = "scan"
  /\ \E r \in scan[p] :
       /\ CFree(p, r)
       /\ scan' = [scan EXCEPT ![p] = @ \ {r}]
       /\ IF cell[r] = {}
            THEN UNCHANGED <<cLocks, eff, log>>
            ELSE /\ cLocks' = [cLocks EXCEPT ![p] = @ \cup {r}]
                 /\ eff' = [eff EXCEPT ![p][r] = cell[r] \ {row[p]}]
                 /\ log' = IF row[p] \in cell[r]
                             THEN [log EXCEPT ![p] = @ \cup
                                     {[rec |-> r, old |-> cell[r],
                                       new |-> cell[r] \ {row[p]}]}]
                             ELSE log
  /\ UNCHANGED <<storeVars, pc, kind, stamp, val, todo, row, seen, xLocks, sLocks>>

ScanDone(p) ==
  /\ pc[p] = "scan" /\ scan[p] = {}
  /\ Goto(p, "cascade")
  /\ UNCHANGED <<storeVars, kind, stamp, val, todo, row, scan, seen,
                 xLocks, sLocks, cLocks, eff, log>>

(* DELETE the record; the foreign key deletes its cell, without history. *)
CascadeDelete(p) ==
  /\ pc[p] = "cascade"
  /\ CFree(p, row[p])
  /\ cLocks' = [cLocks EXCEPT ![p] = @ \cup {row[p]}]
  /\ eff' = [eff EXCEPT ![p][row[p]] = {}]
  /\ Goto(p, "commit")
  /\ UNCHANGED <<storeVars, kind, stamp, val, todo, row, scan, seen,
                 xLocks, sLocks, log>>

-----------------------------------------------------------------------------
(* The history a commit publishes for record r (at most one row per cell). *)
Published(p, r) ==
  IF \E e \in log[p] : e.rec = r
    THEN LET e == CHOOSE x \in log[p] : x.rec = r
         IN Append(hist[r], [old |-> e.old, new |-> e.new, at |-> stamp[p]])
    ELSE hist[r]

Commit(p) ==
  /\ pc[p] = "commit"
  /\ cell' = [r \in Record |-> IF r \in cLocks[p] THEN eff[p][r] ELSE cell[r]]
  /\ live' = IF kind[p] = "delete" THEN live \ {row[p]} ELSE live
  /\ hist' = [r \in Record |-> Published(p, r)]
  /\ UNCHANGED <<born, clock>>
  /\ EndTx(p)

(***************************************************************************)
(* The statement of p that waits for a row lock, if any.                   *)
(***************************************************************************)
Waiting(p) ==
  \/ pc[p] = "prelock" /\ scan[p] # {} /\ ~XFree(p, First(scan[p]))
  \/ pc[p] = "lock" /\ \A r \in todo[p] : ~XFree(p, r)
  \/ pc[p] = "refs" /\ scan[p] # {} /\ \A t \in scan[p] : ~SFree(p, t)
  \/ pc[p] = "write" /\ (val[p][row[p]] # {} \/ seen[p] # {}) /\ ~CFree(p, row[p])
  \/ pc[p] = "doom" /\ ~XFree(p, row[p])
  \/ pc[p] = "scan" /\ scan[p] # {} /\ \A r \in scan[p] : ~CFree(p, r)
  \/ pc[p] = "cascade" /\ ~CFree(p, row[p])

(* Mutant of Busy: nothing ends a lock wait. *)
WaitForever(p) == Waiting(p) /\ FALSE

(* lock_timeout (5 s) or the deadlock detector: mapped to CONFLICT. *)
Busy(p) == Waiting(p) /\ Rollback(p)

(* The connection or the server process is lost, or a statement fails. *)
Fail(p) == pc[p] # "idle" /\ Rollback(p)

Step(p) ==
  \/ PrelockRow(p) \/ PrelockDone(p)
  \/ LockRow(p) \/ ShareTarget(p) \/ TargetsDone(p) \/ ReadExisting(p) \/ WriteCell(p)
  \/ LockDoomed(p) \/ ScanSnapshot(p) \/ StripReference(p) \/ ScanDone(p)
  \/ CascadeDelete(p) \/ Commit(p) \/ Busy(p)

Request(p) ==
  \/ \E r \in Record, v \in LinkValues : BeginUpsert(p, r, v)
  \/ \E rows \in SUBSET Record, v \in LinkValues : BeginBatch(p, rows, v)
  \/ \E d \in Record : BeginDelete(p, d)

Next ==
  \/ \E r \in Record : CreateRecord(r)
  \/ \E p \in Proc : Request(p) \/ Step(p) \/ Fail(p)

(* The store starts in any state earlier requests can have left. *)
Init ==
  /\ live \in SUBSET Record
  /\ born = live
  /\ cell \in [Record -> Stored \cup {{}}]
  /\ \A r \in Record : cell[r] \subseteq live /\ (r \notin live => cell[r] = {})
  /\ hist = [r \in Record |-> IF cell[r] = {} THEN <<>>
                              ELSE <<[old |-> {}, new |-> cell[r], at |-> 0]>>]
  /\ clock = 0
  /\ pc = [p \in Proc |-> "idle"]
  /\ kind = [p \in Proc |-> "none"]
  /\ stamp = [p \in Proc |-> 0]
  /\ val = [p \in Proc |-> NoWrites]
  /\ todo = [p \in Proc |-> {}]
  /\ row = [p \in Proc |-> 0]
  /\ scan = [p \in Proc |-> {}]
  /\ seen = [p \in Proc |-> {}]
  /\ xLocks = [p \in Proc |-> {}]
  /\ sLocks = [p \in Proc |-> {}]
  /\ cLocks = [p \in Proc |-> {}]
  /\ eff = [p \in Proc |-> NoWrites]
  /\ log = [p \in Proc |-> {}]

Spec == Init /\ [][Next]_vars

(* A handler runs its statements; a lock wait ends at the latest by timeout. *)
FairSpec == Spec /\ \A p \in Proc : WF_vars(Step(p))

-----------------------------------------------------------------------------
(***************************************************************************)
(* What the locks guarantee between statements: the inductive invariant    *)
(* behind NoDanglingLinks and ImplementsStore.                             *)
(***************************************************************************)
LockExclusion ==
  \A p, q \in Proc : p # q =>
    /\ xLocks[p] \cap (xLocks[q] \cup sLocks[q]) = {}
    /\ cLocks[p] \cap cLocks[q] = {}

LocksAlive == \A p \in Proc : xLocks[p] \cup sLocks[p] \subseteq live

IdleInv(p) ==
  (kind[p] = "none" <=> pc[p] = "idle") /\
  (pc[p] = "idle" => xLocks[p] = {} /\ sLocks[p] = {} /\ cLocks[p] = {})

WriterInv(p) == kind[p] \in {"upsert", "batch"} =>
  /\ pc[p] \in {"prelock", "lock", "refs", "read", "write", "commit"}
  /\ pc[p] \in {"refs", "read", "write"} => row[p] \in xLocks[p]
  /\ pc[p] \in {"read", "write"} => val[p][row[p]] \subseteq sLocks[p]
  /\ \A r \in cLocks[p] : r \in xLocks[p] /\ eff[p][r] \subseteq sLocks[p]

DeleterInv(p) == kind[p] = "delete" =>
  /\ pc[p] \in {"doom", "snapshot", "scan", "cascade", "commit"}
  /\ pc[p] \in {"doom", "snapshot"} => cLocks[p] = {}
  /\ pc[p] # "doom" => row[p] \in xLocks[p]
  /\ pc[p] \in {"scan", "cascade", "commit"} =>
       \A r \in Record : row[p] \in cell[r] => r \in scan[p] \cup cLocks[p]
  /\ pc[p] \in {"cascade", "commit"} => scan[p] = {}
  /\ pc[p] = "commit" => row[p] \in cLocks[p] /\ eff[p][row[p]] = {}
  /\ \A r \in cLocks[p] : (pc[p] = "commit" /\ r = row[p])
                            \/ eff[p][r] = cell[r] \ {row[p]}

LockInv ==
  /\ LockExclusion
  /\ LocksAlive
  /\ \A p \in Proc : IdleInv(p) /\ WriterInv(p) /\ DeleterInv(p)

-----------------------------------------------------------------------------
(***************************************************************************)
(* Properties.                                                             *)
(***************************************************************************)
(* Between any two statements the row locks protect what was validated:    *)
(* nothing a writer validated dies before it commits, and a deletion knows *)
(* every cell that names the doomed record.                                *)
LocksProtect == LockInv /\ \A r \in Record : cell[r] \subseteq live

(* No committed link cell names a record that does not exist, whatever     *)
(* writes and deletions overlap: what the FOR SHARE of the writer and the  *)
(* FOR UPDATE of record.delete are there for.                              *)
NoDanglingLinks == \A r \in Record : cell[r] \subseteq live

(* Every change of a live record's cell is published with a history row    *)
(* that ends in the new value (ADR-0005 decision 5).                       *)
ChangeIsLogged ==
  \A r \in live' :
    cell'[r] # cell[r] =>
      /\ Len(hist'[r]) = Len(hist[r]) + 1
      /\ hist'[r][Len(hist'[r])].new = cell'[r]
EveryChangeLogged == [][ChangeIsLogged]_vars

(* Where no record is deleted, an upsert or batch that reports success     *)
(* left the values it was given over those it logs as old: the record lock *)
(* and the advisory lock make the read-modify-write of a cell atomic.      *)
AckedWrite(p) ==
  (pc[p] = "commit" /\ kind[p] # "delete" /\ Commit(p)) =>
    \A e \in log[p] : cell'[e.rec] = e.new /\ cell[e.rec] = e.old
AckedWritesLand == [][\A p \in Proc : AckedWrite(p)]_vars

(* What a writer that reports success logs as the new value is what the    *)
(* cell holds at its commit: the least that "the lock makes the             *)
(* read-modify-write below atomic" (write-cell.ts:120) says, whatever       *)
(* became of the value it replaces.                                        *)
ValueLands(p) ==
  (pc[p] = "commit" /\ kind[p] # "delete" /\ Commit(p)) =>
    \A e \in log[p] : cell'[e.rec] = e.new
AckedValuesLand == [][\A p \in Proc : ValueLands(p)]_vars

(* What deletions of records, which strip cells without the record lock,   *)
(* can do to a writer and nobody else can: the old value it logs names     *)
(* records that are gone by its commit, and differs from the cell in       *)
(* nothing else; and its new value is lost over a cell whose every target  *)
(* was deleted after it had read it, never over another.                   *)
LossExplained(p) ==
  (pc[p] = "commit" /\ kind[p] # "delete" /\ Commit(p)) =>
    \A e \in log[p] :
      /\ cell[e.rec] = e.old \cap live
      /\ cell'[e.rec] = e.new \/ (e.old # {} /\ e.old \cap live = {})
OnlyDeletionsLoseWrites == [][\A p \in Proc : LossExplained(p)]_vars

(* The committed history of every cell replays to its value: each row      *)
(* starts where the row before it ended.                                   *)
Replays(h, v) ==
  /\ \A i \in 1..Len(h) : h[i].old = IF i = 1 THEN {} ELSE h[i - 1].new
  /\ v = IF h = <<>> THEN {} ELSE h[Len(h)].new
HistoryReplays == \A r \in live : Replays(hist[r], cell[r])

(* Ordering a cell's history by changed_at, as history.list does, is the   *)
(* order in which the changes were made.                                   *)
ChangedAtIsOrder ==
  \A r \in live : \A i, j \in 1..Len(hist[r]) : i < j => hist[r][i].at < hist[r][j].at

(* Every request ends: whoever waits for whom, a deadlock is broken and    *)
(* its victim answered with CONFLICT.                                      *)
EveryRequestEnds == \A p \in Proc : (pc[p] # "idle") ~> (pc[p] = "idle")

(* One committed transaction is one step of the atomic store. *)
Store == INSTANCE LinkStore
ImplementsStore == Store!StoreSpec

=============================================================================
