---------------------------- MODULE TableDelete ----------------------------
(***************************************************************************)
(* The deletion of a table (server/trpc/routers/table.ts) beside those who *)
(* point at it: link fields of other tables that target it (field.ts) and  *)
(* link cells that name its records (write-cell.ts).                       *)
(*                                                                         *)
(* The deletion is not one transaction: a guard, transactions that strip   *)
(* the records' ids from surviving cells, the deletion itself, and a sweep *)
(* that strips again.  What closes the seams is row locks: FOR UPDATE on   *)
(* the table by the deletion and by whoever makes it a link's target, FOR  *)
(* SHARE on records by whoever names them.                                 *)
(*                                                                         *)
(* Link fields belong to one surviving table, with one record: a cell is   *)
(* known by its field.  Every table is a possible target.                  *)
(***************************************************************************)
EXTENDS FiniteSets, Naturals

CONSTANTS
  Table,       \* possible targets of a link
  Home,        \* Home[r]: the table of record r
  First,       \* records that exist from the start
  Link,        \* ids of link fields, each created at most once
  Caller,      \* handlers of editors that write links and link fields
  Deleter,     \* handlers of owners that delete tables
  Rounds,      \* POST_DELETE_SWEEP_ROUNDS
  Batch        \* REWRITE_BATCH

Rec == DOMAIN Home
NoTable == "no table"
Nobody == "nobody"

ASSUME TableDeleteAssumption ==
  /\ Home \in [Rec -> Table] /\ First \subseteq Rec
  /\ NoTable \notin Table
  /\ Caller \cap Deleter = {} /\ Nobody \notin Caller \cup Deleter
  /\ Rounds \in Nat \ {0} /\ Batch \in Nat \ {0}

VARIABLES
  tables,      \* live tables
  recs,        \* live records
  madeRecs,    \* records ever created
  target,      \* target of each live link field, NoTable if it does not live
  madeLinks,   \* link fields ever created
  cell,        \* records a link field's cell names
  owner,       \* handler with the FOR UPDATE lock of each table's row
  shares,      \* records a handler holds FOR SHARE
  at,          \* statement of each handler
  want,        \* local variables of a caller
  del          \* local variables of a deleter

tableVars == <<tables, recs, madeRecs, target, madeLinks, cell, owner, shares, at, want, del>>
rows == <<tables, recs, madeRecs, target, madeLinks, cell>>
locks == <<owner, shares>>

Handler == Caller \cup Deleter
NoWant == [link |-> "none", value |-> {}, target |-> NoTable, old |-> NoTable]
NoDel == [table |-> NoTable, ids |-> {}, round |-> 0, found |-> FALSE]

LiveLinks == {l \in Link : target[l] # NoTable}

TablesInit ==
  /\ tables = Table
  /\ recs = First /\ madeRecs = First
  /\ target = [l \in Link |-> NoTable] /\ madeLinks = {}
  /\ cell = [l \in Link |-> {}]
  /\ owner = [t \in Table |-> Nobody]
  /\ shares = [h \in Handler |-> {}]
  /\ at = [h \in Handler |-> "idle"]
  /\ want = [c \in Caller |-> NoWant]
  /\ del = [d \in Deleter |-> NoDel]

Shared(S) == S \cap UNION {shares[h] : h \in Handler} # {}

(* End of a handler's transaction. *)
Release(h) ==
  /\ owner' = [t \in Table |-> IF owner[t] = h THEN Nobody ELSE owner[t]]
  /\ shares' = [shares EXCEPT ![h] = {}]

Move(h, s) == at' = [at EXCEPT ![h] = s]

-----------------------------------------------------------------------------
(***************************************************************************)
(* Records and cells.                                                      *)
(***************************************************************************)
(* record.create: the foreign key to the table takes FOR KEY SHARE, which   *)
(* waits for FOR UPDATE.                                                    *)
CreateRecord(r) ==
  /\ r \notin madeRecs
  /\ Home[r] \in tables /\ owner[Home[r]] = Nobody
  /\ recs' = recs \cup {r} /\ madeRecs' = madeRecs \cup {r}
  /\ UNCHANGED <<tables, target, madeLinks, cell, locks, at, want, del>>

(* writeCellInTransaction: read the field's definition, without a lock, ... *)
ReadLink(c, l, value) ==
  /\ at[c] = "idle" /\ target[l] # NoTable
  /\ want' = [want EXCEPT ![c] = [NoWant EXCEPT !.link = l, !.value = value,
                                                !.target = target[l]]]
  /\ Move(c, "validate")
  /\ UNCHANGED <<rows, locks, del>>

(* assertCellValueReferable: the records exist in the target, FOR SHARE. *)
Existing(c) ==
  /\ want[c].value \subseteq {r \in recs : Home[r] = want[c].target}
  /\ shares' = [shares EXCEPT ![c] = want[c].value]

Dying(S) == \E d \in Deleter : at[d] = "commit" /\ \E r \in S : Home[r] = del[d].table

ValidateValue(c) ==
  /\ at[c] = "validate" /\ ~Dying(want[c].value)
  /\ Existing(c)
  /\ Move(c, "write")
  /\ UNCHANGED <<rows, owner, want, del>>

(* The cell is written unless its field is gone (foreign key). *)
WriteCell(c) ==
  LET l == want[c].link
  IN /\ at[c] = "write"
     /\ cell' = [cell EXCEPT ![l] = IF target[l] = NoTable THEN {}
                                    ELSE want[c].value]
     /\ Release(c) /\ Move(c, "idle")
     /\ want' = [want EXCEPT ![c] = NoWant]
     /\ UNCHANGED <<tables, recs, madeRecs, target, madeLinks, del>>

-----------------------------------------------------------------------------
(***************************************************************************)
(* Link fields.                                                            *)
(***************************************************************************)
(* assertLinkTargetInBase *)
LockTarget(c, t) ==
  /\ t \in tables /\ owner[t] = Nobody
  /\ owner' = [owner EXCEPT ![t] = c]

BeginCreate(c, l, t) ==
  /\ at[c] = "idle" /\ l \notin madeLinks
  /\ LockTarget(c, t)
  /\ madeLinks' = madeLinks \cup {l}
  /\ want' = [want EXCEPT ![c] = [NoWant EXCEPT !.link = l, !.target = t]]
  /\ Move(c, "insert")
  /\ UNCHANGED <<tables, recs, madeRecs, target, cell, shares, del>>

InsertField(c) ==
  /\ at[c] = "insert"
  /\ target' = [target EXCEPT ![want[c].link] = want[c].target]
  /\ Release(c) /\ Move(c, "idle")
  /\ want' = [want EXCEPT ![c] = NoWant]
  /\ UNCHANGED <<tables, recs, madeRecs, madeLinks, cell, del>>

(* updateOptions reads the old target before its transaction ... *)
ReadOptions(c, l, t) ==
  /\ at[c] = "idle" /\ target[l] # NoTable /\ t # target[l]
  /\ want' = [want EXCEPT ![c] = [NoWant EXCEPT !.link = l, !.target = t,
                                                !.old = target[l]]]
  /\ Move(c, "retarget")
  /\ UNCHANGED <<rows, locks, del>>

LockNewTarget(c) ==
  /\ at[c] = "retarget"
  /\ LockTarget(c, want[c].target)
  /\ Move(c, "stored")
  /\ UNCHANGED <<rows, shares, want, del>>

(* ... and refuses a column with committed values. *)
Retarget(c) ==
  LET l == want[c].link
  IN /\ at[c] = "stored"
     /\ cell[l] = {} /\ target[l] # NoTable
     /\ target' = [target EXCEPT ![l] = want[c].target]
     /\ Release(c) /\ Move(c, "idle")
     /\ want' = [want EXCEPT ![c] = NoWant]
     /\ UNCHANGED <<tables, recs, madeRecs, madeLinks, cell, del>>

DeleteField(l) ==
  /\ target[l] # NoTable
  /\ target' = [target EXCEPT ![l] = NoTable]
  /\ cell' = [cell EXCEPT ![l] = {}]
  /\ UNCHANGED <<tables, recs, madeRecs, madeLinks, locks, at, want, del>>

(* A refused, busy or failed request. *)
GiveUp(c) ==
  /\ at[c] # "idle"
  /\ Release(c) /\ Move(c, "idle")
  /\ want' = [want EXCEPT ![c] = NoWant]
  /\ UNCHANGED <<rows, del>>

-----------------------------------------------------------------------------
(***************************************************************************)
(* table.delete.                                                           *)
(***************************************************************************)
Referrers(t) == {l \in LiveLinks : target[l] = t}
RecordsOf(t) == {r \in recs : Home[r] = t}
Hits(ids) == {l \in Link : cell[l] \cap ids # {}}

Guard(d, t) ==
  /\ at[d] = "idle" /\ t \in tables
  /\ Referrers(t) = {}
  /\ del' = [del EXCEPT ![d] = [NoDel EXCEPT !.table = t]]
  /\ Move(d, "ids")
  /\ UNCHANGED <<rows, locks, want>>

ReadIds(d) ==
  /\ at[d] = "ids"
  /\ del' = [del EXCEPT ![d].ids = RecordsOf(del[d].table)]
  /\ Move(d, "clean")
  /\ UNCHANGED <<rows, locks, want>>

(* One transaction of clearDanglingRecordRefs: at most Batch hit cells. *)
Strip(ids, hit) ==
  /\ hit \subseteq Hits(ids)
  /\ \/ hit = Hits(ids) /\ Cardinality(hit) <= Batch
     \/ Cardinality(hit) = Batch
  /\ cell' = [l \in Link |-> IF l \in hit THEN cell[l] \ ids ELSE cell[l]]

CleanUp(d) ==
  /\ at[d] = "clean"
  /\ \E hit \in SUBSET Link :
       /\ Strip(del[d].ids, hit)
       /\ IF Cardinality(hit) < Batch THEN Move(d, "lock") ELSE UNCHANGED at
  /\ UNCHANGED <<tables, recs, madeRecs, target, madeLinks, locks, want, del>>

LockTable(d) ==
  LET t == del[d].table
  IN /\ at[d] = "lock"
     /\ t \in tables /\ owner[t] = Nobody
     /\ owner' = [owner EXCEPT ![t] = d]
     /\ Move(d, "guard")
     /\ UNCHANGED <<rows, shares, want, del>>

GuardAgain(t) == Referrers(t) = {}

Reguard(d) ==
  /\ at[d] = "guard"
  /\ GuardAgain(del[d].table)
  /\ Move(d, "finalIds")
  /\ UNCHANGED <<rows, locks, want, del>>

(* Mutant of FinalIds: the ids of the first snapshot are swept. *)
FirstIds(d) == del[d].ids

FinalIds(d) == RecordsOf(del[d].table)

ReadFinalIds(d) ==
  /\ at[d] = "finalIds"
  /\ del' = [del EXCEPT ![d].ids = FinalIds(d)]
  /\ Move(d, "delete")
  /\ UNCHANGED <<rows, locks, want>>

(* DELETE FROM "table": the cascade waits for FOR SHARE locks on records. *)
DeleteRows(d) ==
  /\ at[d] = "delete"
  /\ ~Shared(RecordsOf(del[d].table))
  /\ Move(d, "commit")
  /\ UNCHANGED <<rows, locks, want, del>>

CommitDelete(d) ==
  LET t == del[d].table
  IN /\ at[d] = "commit"
     /\ tables' = tables \ {t} /\ recs' = recs \ RecordsOf(t)
     /\ Release(d) /\ Move(d, "sweep")
     /\ UNCHANGED <<madeRecs, target, madeLinks, cell, want, del>>

(* Up to Rounds rounds of transactions, until a round strips nothing. *)
Sweep(d) ==
  /\ at[d] = "sweep"
  /\ \E hit \in SUBSET Link :
       LET found == del[d].found \/ hit # {}
           roundEnds == Cardinality(hit) < Batch
       IN /\ Strip(del[d].ids, hit)
          /\ IF roundEnds /\ (~found \/ del[d].round = Rounds - 1)
             THEN /\ Move(d, "idle")
                  /\ del' = [del EXCEPT ![d] = NoDel]
             ELSE /\ del' = [del EXCEPT
                       ![d].found = found /\ ~roundEnds,
                       ![d].round = IF roundEnds THEN @ + 1 ELSE @]
                  /\ UNCHANGED at
  /\ UNCHANGED <<tables, recs, madeRecs, target, madeLinks, locks, want>>

(* Refused by a guard, the table gone, or a transaction that fails; after   *)
(* the commit the request goes on to its end.                               *)
Refused(d) ==
  /\ at[d] \notin {"idle", "sweep"}
  /\ Release(d) /\ Move(d, "idle")
  /\ del' = [del EXCEPT ![d] = NoDel]
  /\ UNCHANGED <<rows, want>>

-----------------------------------------------------------------------------
CallerStep(c) ==
  \/ \E l \in Link, value \in SUBSET Rec : ReadLink(c, l, value)
  \/ ValidateValue(c) \/ WriteCell(c)
  \/ \E l \in Link, t \in Table : BeginCreate(c, l, t) \/ ReadOptions(c, l, t)
  \/ InsertField(c) \/ LockNewTarget(c) \/ Retarget(c)
  \/ GiveUp(c)

DeleterStep(d) ==
  \/ \E t \in Table : Guard(d, t)
  \/ ReadIds(d) \/ CleanUp(d) \/ LockTable(d) \/ Reguard(d)
  \/ ReadFinalIds(d) \/ DeleteRows(d) \/ CommitDelete(d) \/ Sweep(d)
  \/ Refused(d)

TablesNext ==
  \/ \E r \in Rec : CreateRecord(r)
  \/ \E l \in Link : DeleteField(l)
  \/ \E c \in Caller : CallerStep(c)
  \/ \E d \in Deleter : DeleterStep(d)

TablesSpec == TablesInit /\ [][TablesNext]_tableVars

-----------------------------------------------------------------------------
(* No link field outlives its target: the referrer check and the deletion   *)
(* race with requests that make the table a target (table.ts:274-281).      *)
TargetsLive == \A l \in LiveLinks : target[l] \in tables

(* Once the deletion has swept, no cell names a record of the table, though *)
(* writers that validated before it commit after its clean-up, into fields  *)
(* that were retargeted meanwhile (table.ts:268-273, 338-342).              *)
RecordsLive ==
  \A l \in Link, r \in madeRecs \ recs :
    r \in cell[l] => \E d \in Deleter : at[d] = "sweep" /\ r \in del[d].ids

(* Both: whatever runs beside the deletion of a table, no stored link names  *)
(* the table or a record of it once it is through.                          *)
NothingDangles == TargetsLive /\ RecordsLive
=============================================================================
