---------------------------- MODULE SchemaProofs ----------------------------
(***************************************************************************)
(* Theorems about the structure of a base.  TableDelete: whatever runs      *)
(* beside the deletion of tables, no link field outlives its target and no  *)
(* cell names a record that has gone, for any tables, records, fields and   *)
(* handlers, any number of sweep rounds and any size of a batch.  Views:    *)
(* stored options name live fields, and public reads show what their share  *)
(* was granted, for any fields, views, shares, editors and readers.         *)
(* ViewSettings: what a user chose stays on the screen, and at rest the     *)
(* screen shows what is stored, for any sessions, edits and failures.  The  *)
(* three share no state.                                                    *)
(***************************************************************************)
EXTENDS TableDelete, Views, ViewSettings, SequenceTheorems, TLAPS

-----------------------------------------------------------------------------
(***************************************************************************)
(* Deletion of tables.                                                     *)
(***************************************************************************)
Statements ==
  {"idle", "validate", "write", "insert", "retarget", "stored", "ids", "clean", "lock",
   "guard", "finalIds", "delete", "commit", "sweep"}

(* Types of the rows, of the locks and of the handlers. *)
TablesTyped ==
  /\ tables \in SUBSET Table
  /\ recs \in SUBSET Rec /\ madeRecs \in SUBSET Rec /\ recs \subseteq madeRecs
  /\ target \in [Link -> Table \cup {NoTable}]
  /\ cell \in [Link -> SUBSET Rec]
  /\ owner \in [Table -> Handler \cup {Nobody}]
  /\ shares \in [Handler -> SUBSET Rec]
  /\ at \in [Handler -> Statements]
  /\ want \in [Caller -> [link : Link \cup {"none"}, value : SUBSET Rec,
                          target : Table \cup {NoTable}, old : Table \cup {NoTable}]]
  /\ del \in [Deleter -> [table : Table \cup {NoTable}, ids : SUBSET Rec,
                          round : Nat, found : BOOLEAN]]

(* The table a handler has locked is there, and the lock is its own. *)
Owns(h, t) == t \in tables /\ owner[t] = h

TargetsLocked ==
  \A c \in Caller : at[c] \in {"insert", "stored"} => Owns(c, want[c].target)

DeletionLocked ==
  \A d \in Deleter :
    at[d] \in {"guard", "finalIds", "delete", "commit"} => Owns(d, del[d].table)

(* Behind the second guard nobody refers to the table any more. *)
Unreferred ==
  \A d \in Deleter : at[d] \in {"finalIds", "delete", "commit"} =>
    \A l \in Link : target[l] # del[d].table

(* The ids read under the lock are those of all the table's records. *)
IdsComplete ==
  \A d \in Deleter : at[d] \in {"delete", "commit"} => RecordsOf(del[d].table) \subseteq del[d].ids

(* What a writer is about to name it holds, and it exists. *)
ValuesHeld ==
  \A c \in Caller : at[c] = "write" =>
    want[c].value \subseteq recs /\ want[c].value \subseteq shares[c]

(* The cascade has waited for the writers that hold records of the table. *)
NoneNamed ==
  \A d \in Deleter, c \in Caller : at[d] = "commit" /\ at[c] = "write" =>
    \A r \in want[c].value : Home[r] # del[d].table

Inductive ==
  /\ TablesTyped /\ TargetsLocked /\ DeletionLocked /\ Unreferred /\ IdsComplete
  /\ ValuesHeld /\ NoneNamed /\ NothingDangles

-----------------------------------------------------------------------------
(***************************************************************************)
(* Types.                                                                  *)
(***************************************************************************)
LEMMA ReleaseTyped ==
  ASSUME TablesTyped, NEW h \in Handler, Release(h)
  PROVE  /\ owner' \in [Table -> Handler \cup {Nobody}]
         /\ shares' \in [Handler -> SUBSET Rec]
  BY DEF Release, TablesTyped

LEMMA CallerTyped ==
  ASSUME TablesTyped, NEW c \in Caller, CallerStep(c)
  PROVE  TablesTyped'
<1> c \in Handler
  BY DEF Handler
<1>1. ASSUME NEW l \in Link, NEW value \in SUBSET Rec, ReadLink(c, l, value)
      PROVE  TablesTyped'
  BY <1>1 DEF ReadLink, TablesTyped, Move, NoWant, Statements, rows, locks
<1>2. CASE ValidateValue(c)
  BY <1>2 DEF ValidateValue, Existing, TablesTyped, Move, Statements, rows
<1>3. CASE WriteCell(c)
  <2>1. cell' \in [Link -> SUBSET Rec]
    BY <1>3 DEF WriteCell, TablesTyped
  <2>2. QED
    BY <1>3, <2>1, ReleaseTyped DEF WriteCell, TablesTyped, Move, NoWant, Statements
<1>4. ASSUME NEW l \in Link, NEW t \in Table, BeginCreate(c, l, t)
      PROVE  TablesTyped'
  BY <1>4 DEF BeginCreate, LockTarget, TablesTyped, Move, NoWant, Statements
<1>5. ASSUME NEW l \in Link, NEW t \in Table, ReadOptions(c, l, t)
      PROVE  TablesTyped'
  BY <1>5 DEF ReadOptions, TablesTyped, Move, NoWant, Statements, rows, locks
<1>6. CASE InsertField(c)
  BY <1>6, ReleaseTyped DEF InsertField, TablesTyped, Move, NoWant, Statements
<1>7. CASE LockNewTarget(c)
  BY <1>7 DEF LockNewTarget, LockTarget, TablesTyped, Move, Statements, rows
<1>8. CASE Retarget(c)
  BY <1>8, ReleaseTyped DEF Retarget, TablesTyped, Move, NoWant, Statements
<1>9. CASE GiveUp(c)
  BY <1>9, ReleaseTyped DEF GiveUp, TablesTyped, Move, NoWant, Statements, rows
<1>10. QED
  BY <1>1, <1>2, <1>3, <1>4, <1>5, <1>6, <1>7, <1>8, <1>9 DEF CallerStep

(* A batch of the sweep or the clean-up only takes ids out of cells. *)
LEMMA StripShrinks ==
  ASSUME TablesTyped, NEW ids, NEW hit, Strip(ids, hit)
  PROVE  /\ cell' \in [Link -> SUBSET Rec]
         /\ \A l \in Link : cell'[l] \subseteq cell[l]
  BY DEF Strip, TablesTyped

(* A batch that is not full takes the ids out of every cell. *)
LEMMA StripFinishes ==
  ASSUME TablesTyped, NEW ids, NEW hit, Strip(ids, hit), Cardinality(hit) < Batch
  PROVE  \A l \in Link : cell'[l] \cap ids = {}
<1>1. hit = Hits(ids)
  BY TableDeleteAssumption DEF Strip
<1>2. QED
  BY <1>1 DEF Strip, Hits, TablesTyped

LEMMA DeleterTyped ==
  ASSUME TablesTyped, NEW d \in Deleter, DeleterStep(d)
  PROVE  TablesTyped'
<1> d \in Handler
  BY DEF Handler
<1>1. ASSUME NEW t \in Table, Guard(d, t)
      PROVE  TablesTyped'
  BY <1>1 DEF Guard, TablesTyped, Move, NoDel, Statements, rows, locks
<1>2. CASE ReadIds(d)
  <2>1. RecordsOf(del[d].table) \in SUBSET Rec
    BY DEF RecordsOf, TablesTyped
  <2>2. QED
    BY <1>2, <2>1 DEF ReadIds, TablesTyped, Move, Statements, rows, locks
<1>3. CASE CleanUp(d)
  BY <1>3, StripShrinks DEF CleanUp, TablesTyped, Move, Statements, locks
<1>4. CASE LockTable(d)
  BY <1>4 DEF LockTable, TablesTyped, Move, Statements, rows
<1>5. CASE Reguard(d)
  BY <1>5 DEF Reguard, TablesTyped, Move, Statements, rows, locks
<1>6. CASE ReadFinalIds(d)
  <2>1. FinalIds(d) \in SUBSET Rec
    BY DEF FinalIds, RecordsOf, TablesTyped
  <2>2. QED
    BY <1>6, <2>1 DEF ReadFinalIds, TablesTyped, Move, Statements, rows, locks
<1>7. CASE DeleteRows(d)
  BY <1>7 DEF DeleteRows, TablesTyped, Move, Statements, rows, locks
<1>8. CASE CommitDelete(d)
  BY <1>8, ReleaseTyped DEF CommitDelete, TablesTyped, Move, Statements
<1>9. CASE Sweep(d)
  <2>1. PICK hit \in SUBSET Link : Strip(del[d].ids, hit)
    BY <1>9 DEF Sweep
  <2>2. \/ Move(d, "idle") /\ del' = [del EXCEPT ![d] = NoDel]
        \/ /\ UNCHANGED at
           /\ \E found \in BOOLEAN, n \in {del[d].round, del[d].round + 1} :
                del' = [del EXCEPT ![d].found = found, ![d].round = n]
    BY <1>9 DEF Sweep
  <2>3. at' \in [Handler -> Statements]
    BY <2>2 DEF TablesTyped, Move, Statements
  <2>4. del' \in [Deleter -> [table : Table \cup {NoTable}, ids : SUBSET Rec,
                             round : Nat, found : BOOLEAN]]
    <3>1. CASE del' = [del EXCEPT ![d] = NoDel]
      BY <3>1 DEF TablesTyped, NoDel
    <3>2. ASSUME NEW found \in BOOLEAN, NEW n \in {del[d].round, del[d].round + 1},
                 del' = [del EXCEPT ![d].found = found, ![d].round = n]
          PROVE  del' \in [Deleter -> [table : Table \cup {NoTable}, ids : SUBSET Rec,
                                       round : Nat, found : BOOLEAN]]
      <4> DEFINE D == [table : Table \cup {NoTable}, ids : SUBSET Rec,
                       round : Nat, found : BOOLEAN]
      <4>1. del \in [Deleter -> D]
        BY DEF TablesTyped
      <4>2. del[d].round \in Nat
        BY <4>1
      <4>3. n \in Nat
        BY <3>2, <4>2
      <4>4. [del[d] EXCEPT !.found = found, !.round = n] \in D
        BY <4>1, <4>3, <3>2
      <4>5. del' = [del EXCEPT ![d] = [del[d] EXCEPT !.found = found, !.round = n]]
        BY <3>2, <4>1
      <4> HIDE DEF D
      <4>6. del' \in [Deleter -> D]
        BY <4>1, <4>4, <4>5
      <4>7. QED
        BY <4>6 DEF D
    <3>3. QED
      BY <2>2, <3>1, <3>2
  <2>5. QED
    BY <1>9, <2>1, <2>3, <2>4, StripShrinks DEF Sweep, TablesTyped, locks
<1>10. CASE Refused(d)
  BY <1>10, ReleaseTyped DEF Refused, TablesTyped, Move, NoDel, Statements, rows
<1>11. QED
  BY <1>1, <1>2, <1>3, <1>4, <1>5, <1>6, <1>7, <1>8, <1>9, <1>10 DEF DeleterStep

LEMMA InitTyped ==
  ASSUME TablesInit
  PROVE  TablesTyped
  BY TableDeleteAssumption DEF TablesInit, TablesTyped, NoWant, NoDel, Statements

LEMMA StepTyped ==
  ASSUME TablesTyped, [TablesNext]_tableVars
  PROVE  TablesTyped'
<1>1. ASSUME NEW r \in Rec, CreateRecord(r)
      PROVE  TablesTyped'
  BY <1>1 DEF CreateRecord, TablesTyped, locks
<1>2. ASSUME NEW l \in Link, DeleteField(l)
      PROVE  TablesTyped'
  BY <1>2 DEF DeleteField, TablesTyped, locks
<1>3. CASE UNCHANGED tableVars
  BY <1>3 DEF tableVars, TablesTyped
<1>4. QED
  BY <1>1, <1>2, <1>3, CallerTyped, DeleterTyped DEF TablesNext

-----------------------------------------------------------------------------
(***************************************************************************)
(* The inductive invariant.                                                *)
(***************************************************************************)
(* The end of a handler's transaction takes no lock from another handler. *)
LEMMA ReleaseKeeps ==
  ASSUME TablesTyped, NEW h \in Handler, Release(h)
  PROVE  /\ \A t \in Table, g \in Handler : g # h /\ owner[t] = g => owner'[t] = g
         /\ \A g \in Handler : g # h => shares'[g] = shares[g]
  BY DEF Release, TablesTyped

LEMMA CallerKeeps ==
  ASSUME Inductive, TablesTyped', NEW c \in Caller, CallerStep(c)
  PROVE  Inductive'
<1> c \in Handler /\ Caller \subseteq Handler /\ Deleter \subseteq Handler
  BY DEF Handler
<1> TablesTyped
  BY DEF Inductive
<1> USE TableDeleteAssumption
<1> USE DEF Inductive, TargetsLocked, DeletionLocked, Unreferred, IdsComplete, ValuesHeld, NoneNamed,
            Owns, NothingDangles, TargetsLive, RecordsLive, LiveLinks
<1>1. ASSUME NEW l \in Link, NEW value \in SUBSET Rec, ReadLink(c, l, value)
      PROVE  Inductive'
  BY <1>1 DEF ReadLink, TablesTyped, Move, NoWant, rows, locks, RecordsOf
<1>2. CASE ValidateValue(c)
  BY <1>2 DEF ValidateValue, Existing, Dying, TablesTyped, Move, rows, RecordsOf
<1>3. CASE WriteCell(c)
  BY <1>3, ReleaseKeeps DEF WriteCell, TablesTyped, Move, NoWant, RecordsOf
<1>4. ASSUME NEW l \in Link, NEW t \in Table, BeginCreate(c, l, t)
      PROVE  Inductive'
  BY <1>4 DEF BeginCreate, LockTarget, TablesTyped, Move, NoWant, RecordsOf
<1>5. ASSUME NEW l \in Link, NEW t \in Table, ReadOptions(c, l, t)
      PROVE  Inductive'
  BY <1>5 DEF ReadOptions, TablesTyped, Move, NoWant, rows, locks, RecordsOf
<1>6. CASE InsertField(c)
  BY <1>6, ReleaseKeeps DEF InsertField, TablesTyped, Move, NoWant, RecordsOf
<1>7. CASE LockNewTarget(c)
  BY <1>7 DEF LockNewTarget, LockTarget, TablesTyped, Move, rows, RecordsOf
<1>8. CASE Retarget(c)
  BY <1>8, ReleaseKeeps DEF Retarget, TablesTyped, Move, NoWant, RecordsOf
<1>9. CASE GiveUp(c)
  <2>1. /\ UNCHANGED <<rows, del>> /\ Release(c)
        /\ at' = [at EXCEPT ![c] = "idle"] /\ want' = [want EXCEPT ![c] = NoWant]
    BY <1>9 DEF GiveUp, Move
  <2>2. \A h \in Handler : at'[h] = IF h = c THEN "idle" ELSE at[h]
    BY <2>1 DEF TablesTyped
  <2>3. \A g \in Caller : g # c => want'[g] = want[g]
    BY <2>1 DEF TablesTyped
  <2>4. TargetsLocked' /\ DeletionLocked'
    BY <2>1, <2>2, <2>3, ReleaseKeeps DEF TablesTyped, rows
  <2>5. Unreferred' /\ IdsComplete'
    BY <2>1, <2>2 DEF TablesTyped, rows, RecordsOf
  <2>6. ValuesHeld' /\ NoneNamed'
    BY <2>1, <2>2, <2>3, ReleaseKeeps DEF TablesTyped, rows
  <2>7. NothingDangles'
    BY <2>1, <2>2 DEF TablesTyped, rows
  <2>8. QED
    BY <2>4, <2>5, <2>6, <2>7
<1>10. QED
  BY <1>1, <1>2, <1>3, <1>4, <1>5, <1>6, <1>7, <1>8, <1>9 DEF CallerStep

(* A statement of a deleter that changes nothing but its own variables. *)
LEMMA DeleterMoves ==
  ASSUME Inductive, TablesTyped', NEW d \in Deleter,
         UNCHANGED <<rows, owner, shares, want>>,
         \A h \in Handler : h # d => at'[h] = at[h],
         \A e \in Deleter : e # d => del'[e] = del[e],
         at[d] # "sweep", at'[d] \notin {"write", "insert", "stored", "commit"},
         at'[d] \in {"guard", "finalIds", "delete"} => Owns(d, del'[d].table),
         at'[d] \in {"finalIds", "delete"} => \A l \in Link : target[l] # del'[d].table,
         at'[d] = "delete" => RecordsOf(del'[d].table) \subseteq del'[d].ids
  PROVE  Inductive'
<1> Caller \subseteq Handler /\ Deleter \subseteq Handler
  BY DEF Handler
<1>1. TargetsLocked' /\ DeletionLocked'
  BY DEF Inductive, TargetsLocked, DeletionLocked, Owns, rows
<1>2. Unreferred' /\ IdsComplete'
  BY DEF Inductive, Unreferred, IdsComplete, RecordsOf, rows
<1>3. ValuesHeld' /\ NoneNamed'
  BY DEF Inductive, ValuesHeld, NoneNamed, rows
<1>4. TargetsLive' /\ RecordsLive'
  BY DEF Inductive, NothingDangles, TargetsLive, RecordsLive, LiveLinks, rows
<1>5. QED
  BY <1>1, <1>2, <1>3, <1>4 DEF Inductive, NothingDangles

LEMMA DeleterKeeps ==
  ASSUME Inductive, TablesTyped', NEW d \in Deleter, DeleterStep(d)
  PROVE  Inductive'
<1> d \in Handler /\ Caller \subseteq Handler /\ Deleter \subseteq Handler
  BY DEF Handler
<1> TablesTyped
  BY DEF Inductive
<1>1. ASSUME NEW t \in Table, Guard(d, t)
      PROVE  Inductive'
  <2>1. at'[d] = "ids" /\ at[d] = "idle"
    BY <1>1 DEF Guard, Move, TablesTyped
  <2>2. QED
    BY <1>1, <2>1, DeleterMoves DEF Guard, Move, TablesTyped, locks
<1>2. CASE ReadIds(d)
  <2>1. at'[d] = "clean" /\ at[d] = "ids"
    BY <1>2 DEF ReadIds, Move, TablesTyped
  <2>2. QED
    BY <1>2, <2>1, DeleterMoves DEF ReadIds, Move, TablesTyped, locks
<1>3. CASE CleanUp(d)
  <2>1. PICK hit \in SUBSET Link :
          /\ Strip(del[d].ids, hit)
          /\ Move(d, "lock") \/ UNCHANGED at
    BY <1>3 DEF CleanUp
  <2>2. /\ UNCHANGED <<tables, recs, madeRecs, target, owner, shares, want, del>>
        /\ \A h \in Handler : at'[h] = at[h] \/ (h = d /\ at'[h] = "lock")
        /\ at[d] = "clean"
    BY <1>3, <2>1 DEF CleanUp, Move, TablesTyped, locks
  <2>3. TargetsLocked' /\ DeletionLocked' /\ ValuesHeld'
    BY <2>2 DEF Inductive, TargetsLocked, DeletionLocked, ValuesHeld, Owns
  <2>4. Unreferred' /\ IdsComplete' /\ NoneNamed'
    BY <2>2 DEF Inductive, Unreferred, IdsComplete, NoneNamed, RecordsOf
  <2>5. NothingDangles'
    BY <2>1, <2>2, StripShrinks
       DEF Inductive, NothingDangles, TargetsLive, RecordsLive, LiveLinks
  <2>6. QED
    BY <2>3, <2>4, <2>5 DEF Inductive
<1>4. CASE LockTable(d)
  BY <1>4, TableDeleteAssumption DEF LockTable, TablesTyped, Move, rows, RecordsOf,
      Inductive, TargetsLocked, DeletionLocked, Unreferred, IdsComplete,
           ValuesHeld, NoneNamed, Owns, NothingDangles, TargetsLive, RecordsLive, LiveLinks
<1>5. CASE Reguard(d)
  <2>1. at'[d] = "finalIds" /\ at[d] = "guard"
    BY <1>5 DEF Reguard, Move, TablesTyped
  <2>2. Owns(d, del[d].table)
    BY <2>1 DEF Inductive, DeletionLocked
  <2>3. \A l \in Link : target[l] # del[d].table
    BY <1>5, <2>2, TableDeleteAssumption DEF Reguard, GuardAgain, Referrers, LiveLinks,
        Owns, TablesTyped
  <2>4. QED
    BY <1>5, <2>1, <2>2, <2>3, DeleterMoves DEF Reguard, Move, TablesTyped, locks
<1>6. CASE ReadFinalIds(d)
  <2>1. /\ at'[d] = "delete" /\ at[d] = "finalIds"
        /\ del'[d].table = del[d].table /\ del'[d].ids = RecordsOf(del[d].table)
        /\ \A e \in Deleter : e # d => del'[e] = del[e]
    BY <1>6 DEF ReadFinalIds, FinalIds, Move, TablesTyped
  <2>2. Owns(d, del[d].table) /\ \A l \in Link : target[l] # del[d].table
    BY <2>1 DEF Inductive, DeletionLocked, Unreferred
  <2>3. /\ UNCHANGED <<rows, owner, shares, want>>
        /\ \A h \in Handler : h # d => at'[h] = at[h]
    BY <1>6 DEF ReadFinalIds, Move, TablesTyped, locks
  <2>4. QED
    BY <2>1, <2>2, <2>3, DeleterMoves
<1>7. CASE DeleteRows(d)
  BY <1>7 DEF DeleteRows, Shared, TablesTyped, Move, rows, locks, RecordsOf, Inductive,
      TargetsLocked, DeletionLocked, Unreferred, IdsComplete,
           ValuesHeld, NoneNamed, Owns, NothingDangles, TargetsLive, RecordsLive, LiveLinks
<1>8. CASE CommitDelete(d)
  BY <1>8, ReleaseKeeps, TableDeleteAssumption DEF CommitDelete, TablesTyped, Move,
      RecordsOf, Inductive, TargetsLocked, DeletionLocked, Unreferred, IdsComplete,
           ValuesHeld, NoneNamed, Owns, NothingDangles, TargetsLive, RecordsLive, LiveLinks
<1>9. CASE Sweep(d)
  <2>1. PICK hit \in SUBSET Link :
          /\ Strip(del[d].ids, hit)
          /\ \/ Move(d, "idle") /\ Cardinality(hit) < Batch
             \/ UNCHANGED at /\ del'[d].ids = del[d].ids
    BY <1>9 DEF Sweep, TablesTyped
  <2>2. /\ UNCHANGED <<tables, recs, madeRecs, target, owner, shares, want>>
        /\ \A e \in Deleter : e # d => del'[e] = del[e]
        /\ \A h \in Handler : at'[h] = at[h] \/ (h = d /\ at'[h] = "idle")
        /\ at[d] = "sweep"
    BY <1>9, <2>1 DEF Sweep, Move, TablesTyped, locks
  <2>3. TargetsLocked' /\ DeletionLocked' /\ ValuesHeld'
    BY <2>2 DEF Inductive, TargetsLocked, DeletionLocked, ValuesHeld, Owns
  <2>4. Unreferred' /\ IdsComplete' /\ NoneNamed'
    BY <2>2 DEF Inductive, Unreferred, IdsComplete, NoneNamed, RecordsOf
  <2>5. RecordsLive'
    <3> SUFFICES ASSUME NEW l \in Link, NEW r \in madeRecs \ recs, r \in cell'[l]
                 PROVE  \E e \in Deleter : at'[e] = "sweep" /\ r \in del'[e].ids
      BY <2>2 DEF RecordsLive
    <3>1. r \in cell[l]
      BY <2>1, StripShrinks
    <3>2. PICK e \in Deleter : at[e] = "sweep" /\ r \in del[e].ids
      BY <3>1 DEF Inductive, NothingDangles, RecordsLive
    <3>3. CASE e # d
      BY <3>2, <3>3, <2>2
    <3>4. CASE e = d
      <4>1. ~(Cardinality(hit) < Batch)
        BY <3>2, <3>4, <2>1, StripFinishes
      <4>2. QED
        BY <2>1, <4>1, <3>2, <3>4
    <3>5. QED
      BY <3>3, <3>4
  <2>6. TargetsLive'
    BY <2>2 DEF Inductive, NothingDangles, TargetsLive, LiveLinks
  <2>7. QED
    BY <2>3, <2>4, <2>5, <2>6 DEF Inductive, NothingDangles
<1>10. CASE Refused(d)
  <2>1. /\ UNCHANGED <<rows, want>> /\ Release(d) /\ at[d] # "sweep"
        /\ \A h \in Handler : at'[h] = IF h = d THEN "idle" ELSE at[h]
        /\ \A e \in Deleter : e # d => del'[e] = del[e]
    BY <1>10 DEF Refused, Move, TablesTyped
  <2>2. /\ \A g \in Handler, t \in tables : g # d /\ Owns(g, t) => Owns(g, t)'
        /\ \A g \in Handler : g # d => shares'[g] = shares[g]
    BY <2>1, ReleaseKeeps DEF Owns, TablesTyped, rows
  <2>3. TargetsLocked' /\ DeletionLocked'
    BY <2>1, <2>2 DEF Inductive, TargetsLocked, DeletionLocked, Owns
  <2>4. Unreferred' /\ IdsComplete'
    BY <2>1 DEF Inductive, Unreferred, IdsComplete, rows, RecordsOf
  <2>5. ValuesHeld' /\ NoneNamed'
    BY <2>1, <2>2 DEF Inductive, ValuesHeld, NoneNamed, rows
  <2>6. NothingDangles'
    BY <2>1 DEF Inductive, NothingDangles, TargetsLive, RecordsLive, LiveLinks, rows
  <2>7. QED
    BY <2>3, <2>4, <2>5, <2>6 DEF Inductive
<1>11. QED
  BY <1>1, <1>2, <1>3, <1>4, <1>5, <1>6, <1>7, <1>8, <1>9, <1>10 DEF DeleterStep

LEMMA InitInductive ==
  ASSUME TablesInit
  PROVE  Inductive
<1>1. TablesTyped
  BY InitTyped
<1>2. \A h \in Handler : at[h] = "idle"
  BY DEF TablesInit
<1>3. TargetsLocked /\ DeletionLocked /\ Unreferred /\ IdsComplete /\ ValuesHeld /\ NoneNamed
  BY <1>2 DEF TargetsLocked, DeletionLocked, Unreferred, IdsComplete, ValuesHeld, NoneNamed, Handler
<1>4. NothingDangles
  BY DEF TablesInit, NothingDangles, TargetsLive, RecordsLive, LiveLinks
<1>5. QED
  BY <1>1, <1>3, <1>4 DEF Inductive

LEMMA StepInductive ==
  ASSUME Inductive, [TablesNext]_tableVars
  PROVE  Inductive'
<1> TablesTyped /\ TablesTyped'
  BY StepTyped DEF Inductive
<1> USE DEF Inductive, TargetsLocked, DeletionLocked, Unreferred, IdsComplete, ValuesHeld, NoneNamed,
            Owns, NothingDangles, TargetsLive, RecordsLive, LiveLinks
(* The new record is not of a table whose deletion holds the lock. *)
<1>1. ASSUME NEW r \in Rec, CreateRecord(r)
      PROVE  Inductive'
  BY <1>1, TableDeleteAssumption DEF CreateRecord, TablesTyped, RecordsOf, locks, Handler
<1>2. ASSUME NEW l \in Link, DeleteField(l)
      PROVE  Inductive'
  BY <1>2, TableDeleteAssumption DEF DeleteField, TablesTyped, RecordsOf, locks
<1>3. CASE UNCHANGED tableVars
  BY <1>3 DEF tableVars, RecordsOf, TablesTyped
<1>4. QED
  BY <1>1, <1>2, <1>3, CallerKeeps, DeleterKeeps DEF TablesNext

-----------------------------------------------------------------------------
(* Rows, locks and handlers keep their types. *)
THEOREM TablesTypeCorrect == TablesSpec => []TablesTyped
<1>1. QED
  BY InitTyped, StepTyped, PTL DEF TablesSpec

(* Whatever runs beside the deletions of tables (table.ts:264-342), no link *)
(* field outlives its target, and no cell names a record of a deleted table  *)
(* once the deletion is through.                                            *)
THEOREM DeletionLeavesNothing == TablesSpec => []NothingDangles
<1>1. Inductive => NothingDangles
  BY DEF Inductive
<1>2. QED
  BY <1>1, InitInductive, StepInductive, PTL DEF TablesSpec

-----------------------------------------------------------------------------
(***************************************************************************)
(* Views and shares.                                                       *)
(***************************************************************************)
ViewOptions == [filter : SUBSET Field, hidden : SUBSET Field]

ShareRow ==
  [state : {"none", "live", "gone"}, view : View, grant : SUBSET Field, raced : BOOLEAN]

EditorJob ==
  [view : View, opts : ViewOptions, field : Field, hits : SUBSET View, doomed : SUBSET Share]

PublicRead ==
  [at : {"idle", "fields", "view", "done"}, share : Share \cup {"none"}, fields : SUBSET Field,
   want : SUBSET Field, shown : SUBSET Field, columns : SUBSET Field, quiet : BOOLEAN]

EditorSteps == {"idle", "write", "revoke", "drop", "dropView", "vet", "mint"}

ViewsTyped ==
  /\ fields \in SUBSET Field /\ made \in SUBSET Field
  /\ views \in SUBSET View /\ madeViews \in SUBSET View
  /\ options \in [View -> ViewOptions]
  /\ share \in [Share -> ShareRow]
  /\ lock \in Editor \cup {None}
  /\ step \in [Editor -> EditorSteps]
  /\ job \in [Editor -> EditorJob]
  /\ read \in [Reader -> PublicRead]

(* The lock of the table is that of the handler that writes options or      *)
(* deletes.                                                                *)
OptionsLocked ==
  \A e \in Editor : step[e] \in {"write", "revoke", "drop", "dropView"} => lock = e

(* What any view names is there, also of views that are still to come; one   *)
(* that is not there has no options.                                        *)
NamesLive ==
  /\ \A v \in View : References(options[v]) \subseteq fields
  /\ \A v \in View \ views : options[v] = NoOptions

(* What was checked under the lock, or read, is still so. *)
CheckedStill ==
  \A e \in Editor :
    /\ step[e] = "write" => job[e].view \in views /\ References(job[e].opts) \subseteq fields
    /\ step[e] \in {"revoke", "drop"} =>
         \A v \in View : job[e].field \in options[v].filter => v \in job[e].hits
    /\ step[e] = "dropView" => job[e].view \in job[e].hits

(* A share exposes what its view's filter leaves; those that a deletion is   *)
(* about to widen are doomed.                                               *)
DoomedAll ==
  \A e \in Editor : step[e] \in {"drop", "dropView"} =>
    \A s \in LiveShares : ~share[s].raced /\ share[s].view \in job[e].hits => s \in job[e].doomed

Granted ==
  \A s \in LiveShares : ~share[s].raced => share[s].grant = options[share[s].view].filter

(* A reader nobody disturbed has the schema of this moment before it. *)
ReadsNow ==
  \A r \in Reader :
    LET q == read[r] v == share[q.share].view
    IN /\ q.at # "idle" => q.share \in Share /\ share[q.share].state # "none"
       /\ q.quiet /\ q.at # "idle" =>
            /\ ~share[q.share].raced => q.want = options[v].filter
            /\ q.at = "view" => q.fields = fields
            /\ q.at = "done" =>
                 q.shown = options[v].filter /\ q.columns \cap options[v].hidden = {}

ViewsInv ==
  /\ ViewsTyped /\ OptionsLocked /\ NamesLive /\ CheckedStill
  /\ DoomedAll /\ Granted /\ ReadsNow

-----------------------------------------------------------------------------
(* Types of what the actions put together. *)
LEMMA GotoKeepsTypes ==
  ASSUME ViewsTyped, NEW e \in Editor, NEW s \in EditorSteps, NEW j \in EditorJob, Goto(e, s, j)
  PROVE  /\ step' \in [Editor -> EditorSteps] /\ job' \in [Editor -> EditorJob]
         /\ step'[e] = s /\ job'[e] = j
         /\ \A o \in Editor \ {e} : step'[o] = step[o] /\ job'[o] = job[o]
  BY DEF Goto, ViewsTyped

LEMMA JobTypes ==
  /\ NoOptions \in ViewOptions /\ References(NoOptions) = {}
  /\ NoJob \in EditorJob
  BY ViewsAssumption DEF NoOptions, ViewOptions, NoJob, EditorJob, References

(* A revocation only ends shares. *)
LEMMA RevokeEnds ==
  ASSUME ViewsTyped, NEW D \in SUBSET Share
  PROVE  /\ Revoke(D) \in [Share -> ShareRow]
         /\ \A s \in D : Revoke(D)[s].state = "gone"
         /\ \A s \in Share \ D : Revoke(D)[s] = share[s]
         /\ \A s \in Share : /\ Revoke(D)[s].view = share[s].view
                             /\ Revoke(D)[s].raced = share[s].raced
                             /\ Revoke(D)[s].grant = share[s].grant
<1>1. ASSUME NEW s \in Share
      PROVE  LET n == [share[s] EXCEPT !.state = "gone"] IN
             /\ n \in ShareRow /\ n.state = "gone" /\ n.view = share[s].view
             /\ n.raced = share[s].raced /\ n.grant = share[s].grant
  BY DEF ViewsTyped, ShareRow
<1>2. \A s \in Share : share[s] \in ShareRow
  BY DEF ViewsTyped
<1>3. QED
  BY <1>1, <1>2 DEF Revoke

(* Readers in progress are marked, nothing else of them changes. *)
LEMMA DisturbedOnly ==
  ASSUME ViewsTyped, NEW r \in Reader
  PROVE  /\ Disturbed \in [Reader -> PublicRead]
         /\ Disturbed[r].at = read[r].at /\ Disturbed[r].share = read[r].share
         /\ Disturbed[r].quiet <=> read[r].at = "idle"
<1>1. ASSUME NEW q \in PublicRead
      PROVE  LET n == [q EXCEPT !.quiet = q.at = "idle"] IN
             n \in PublicRead /\ n.at = q.at /\ n.share = q.share /\ (n.quiet <=> q.at = "idle")
  BY DEF PublicRead
<1>2. QED
  BY <1>1 DEF Disturbed, ViewsTyped

LEMMA PrunedOptions ==
  ASSUME NEW o \in ViewOptions, NEW f
  PROVE  /\ Pruned(o, f) \in ViewOptions
         /\ References(Pruned(o, f)) = References(o) \ {f}
         /\ f \notin o.filter => Pruned(o, f).filter = o.filter
         /\ Pruned(NoOptions, f) = NoOptions
  BY DEF Pruned, ViewOptions, References, NoOptions

-----------------------------------------------------------------------------
(* Steps of an editor that change no row: the handler's statement, its      *)
(* variables and the lock.                                                 *)
EditorMoves(e) ==
  /\ step' \in [Editor -> EditorSteps] /\ job' \in [Editor -> EditorJob]
  /\ \A o \in Editor \ {e} : step'[o] = step[o] /\ job'[o] = job[o]
  /\ lock' = lock \/ (lock = None /\ lock' = e) \/ (lock = e /\ lock' = None)
  /\ UNCHANGED <<fields, made, views, madeViews, options, share, read>>

OwnStep(e) ==
  /\ step[e] \in {"write", "revoke", "drop", "dropView"} => lock = e
  /\ step[e] = "write" => job[e].view \in views /\ References(job[e].opts) \subseteq fields
  /\ step[e] \in {"revoke", "drop"} =>
       \A v \in View : job[e].field \in options[v].filter => v \in job[e].hits
  /\ step[e] = "dropView" => job[e].view \in job[e].hits
  /\ step[e] \in {"drop", "dropView"} =>
       \A s \in LiveShares : ~share[s].raced /\ share[s].view \in job[e].hits => s \in job[e].doomed

LEMMA MovesKeep ==
  ASSUME ViewsInv, NEW e \in Editor, EditorMoves(e), OwnStep(e)'
  PROVE  ViewsInv'
<1> USE DEF EditorMoves
<1>1. None \notin Editor /\ lock \in Editor \cup {None}
  BY ViewsAssumption DEF ViewsInv, ViewsTyped
<1>2. ViewsTyped'
  BY DEF ViewsInv, ViewsTyped
<1>3. ASSUME NEW o \in Editor, step'[o] \in {"write", "revoke", "drop", "dropView"}
      PROVE  lock' = o
  <2>1. CASE o = e
    BY <1>3, <2>1 DEF OwnStep
  <2>2. CASE o # e
    BY <1>1, <1>3, <2>2 DEF ViewsInv, OptionsLocked
  <2>3. QED
    BY <2>1, <2>2
<1>4. OptionsLocked'
  BY <1>3 DEF OptionsLocked
<1>5. NamesLive' /\ Granted'
  BY DEF ViewsInv, NamesLive, Granted, LiveShares
<1>6. CheckedStill'
  BY DEF ViewsInv, CheckedStill, OwnStep
<1>7. DoomedAll'
  BY DEF ViewsInv, DoomedAll, OwnStep, LiveShares
<1>8. ReadsNow'
  BY DEF ViewsInv, ReadsNow
<1>9. QED
  BY <1>2, <1>4, <1>5, <1>6, <1>7, <1>8 DEF ViewsInv

LEMMA EditorMovesKeep ==
  ASSUME ViewsInv, NEW e \in Editor,
         \/ \E v \in View, o \in Options : CheckOptions(e, v, o)
         \/ \E f \in Field : ScanViews(e, f)
         \/ RevokeShares(e)
         \/ \E v \in View : RevokeViewShares(e, v)
         \/ RollBack(e)
         \/ \E v \in View : ReadForShare(e, v)
         \/ VetShare(e)
  PROVE  ViewsInv'
<1>1. ViewsTyped /\ OptionsLocked /\ NamesLive /\ CheckedStill
  BY DEF ViewsInv
<1>2. job[e] \in EditorJob /\ \A v \in View : options[v] \in ViewOptions
  BY <1>1 DEF ViewsTyped
<1>3. ASSUME NEW s \in EditorSteps, NEW j \in EditorJob, Goto(e, s, j),
             lock' = lock \/ (lock = None /\ lock' = e) \/ (lock = e /\ lock' = None),
             UNCHANGED <<fields, made, views, madeViews, options, share, read>>
      PROVE  EditorMoves(e) /\ step'[e] = s /\ job'[e] = j
  BY <1>1, <1>3, GotoKeepsTypes DEF EditorMoves
<1>4. CASE \E v \in View, o \in Options : CheckOptions(e, v, o)
  <2>1. PICK v \in View, o \in Options : CheckOptions(e, v, o)
    BY <1>4
  <2> DEFINE j == [NoJob EXCEPT !.view = v, !.opts = o]
  <2>2. o \in ViewOptions
    BY ViewsAssumption DEF ViewOptions
  <2>3. j \in EditorJob /\ j.view = v /\ j.opts = o
    BY <2>2, JobTypes DEF EditorJob, NoJob
  <2>4. /\ v \in views /\ References(o) \subseteq fields /\ lock = None /\ lock' = e
        /\ Goto(e, "write", j)
        /\ UNCHANGED <<fields, made, views, madeViews, options, share, read>>
    BY <2>1 DEF CheckOptions, LockFree, DeadReferences
  <2> HIDE DEF j
  <2>5. EditorMoves(e) /\ step'[e] = "write" /\ job'[e] = j
    BY <1>3, <2>3, <2>4 DEF EditorSteps
  <2>6. OwnStep(e)'
    BY <2>3, <2>4, <2>5 DEF OwnStep
  <2>7. QED
    BY <2>5, <2>6, MovesKeep
<1>5. CASE \E f \in Field : ScanViews(e, f)
  <2>1. PICK f \in Field : ScanViews(e, f)
    BY <1>5
  <2> DEFINE j == [NoJob EXCEPT !.field = f, !.hits = FilterHits(f)]
  <2>2. FilterHits(f) \in SUBSET View
    BY <1>1 DEF FilterHits, ViewsTyped
  <2>3. j \in EditorJob /\ j.field = f /\ j.hits = FilterHits(f)
    BY <2>2, JobTypes DEF EditorJob, NoJob
  <2>4. /\ lock = None /\ lock' = e /\ Goto(e, "revoke", j)
        /\ UNCHANGED <<fields, made, views, madeViews, options, share, read>>
    BY <2>1 DEF ScanViews, LockFree
  <2>5. \A v \in View : f \in options[v].filter => v \in FilterHits(f)
    BY <1>1 DEF NamesLive, FilterHits, NoOptions
  <2> HIDE DEF j
  <2>6. EditorMoves(e) /\ step'[e] = "revoke" /\ job'[e] = j
    BY <1>3, <2>3, <2>4 DEF EditorSteps
  <2>7. OwnStep(e)'
    BY <2>3, <2>4, <2>5, <2>6 DEF OwnStep
  <2>8. QED
    BY <2>6, <2>7, MovesKeep
<1>6. CASE RevokeShares(e)
  <2> DEFINE D == {s \in LiveShares : share[s].view \in job[e].hits}
             j == [job[e] EXCEPT !.doomed = D]
  <2>1. D \in SUBSET Share
    BY DEF LiveShares
  <2>2. j \in EditorJob /\ j.field = job[e].field /\ j.hits = job[e].hits /\ j.doomed = D
    BY <1>2, <2>1 DEF EditorJob
  <2>3. /\ step[e] = "revoke" /\ Goto(e, "drop", j) /\ lock = e
        /\ UNCHANGED <<fields, made, views, madeViews, options, share, lock, read>>
    BY <1>1, <1>6 DEF RevokeShares, OptionsLocked
  <2> HIDE DEF j
  <2>4. EditorMoves(e) /\ step'[e] = "drop" /\ job'[e] = j
    BY <1>3, <2>2, <2>3 DEF EditorSteps
  <2>5. \A v \in View : job[e].field \in options[v].filter => v \in job[e].hits
    BY <1>1, <2>3 DEF CheckedStill
  <2>6. OwnStep(e)'
    BY <2>2, <2>3, <2>4, <2>5 DEF OwnStep, LiveShares
  <2>7. QED
    BY <2>4, <2>6, MovesKeep
<1>7. CASE \E v \in View : RevokeViewShares(e, v)
  <2>1. PICK v \in View : RevokeViewShares(e, v)
    BY <1>7
  <2> DEFINE D == {s \in LiveShares : share[s].view = v}
             j == [NoJob EXCEPT !.view = v, !.hits = {v}, !.doomed = D]
  <2>2. D \in SUBSET Share /\ {v} \in SUBSET View
    BY DEF LiveShares
  <2>3. j \in EditorJob /\ j.view = v /\ j.hits = {v} /\ j.doomed = D
    BY <2>2, JobTypes DEF EditorJob, NoJob
  <2>4. /\ lock = None /\ lock' = e /\ Goto(e, "dropView", j)
        /\ UNCHANGED <<fields, made, views, madeViews, options, share, read>>
    BY <2>1 DEF RevokeViewShares, LockFree
  <2> HIDE DEF j
  <2>5. EditorMoves(e) /\ step'[e] = "dropView" /\ job'[e] = j
    BY <1>3, <2>3, <2>4 DEF EditorSteps
  <2>6. OwnStep(e)'
    BY <2>3, <2>4, <2>5 DEF OwnStep, LiveShares
  <2>7. QED
    BY <2>5, <2>6, MovesKeep
<1>8. CASE RollBack(e)
  <2>1. /\ lock = e /\ lock' = None /\ Goto(e, "idle", NoJob)
        /\ UNCHANGED <<fields, made, views, madeViews, options, share, read>>
    BY <1>1, <1>8 DEF RollBack, OptionsLocked, Finish
  <2>2. EditorMoves(e) /\ step'[e] = "idle"
    BY <1>3, <2>1, JobTypes DEF EditorSteps
  <2>3. OwnStep(e)'
    BY <2>2 DEF OwnStep
  <2>4. QED
    BY <2>2, <2>3, MovesKeep
<1>9. CASE \E v \in View : ReadForShare(e, v)
  <2>1. PICK v \in View : ReadForShare(e, v)
    BY <1>9
  <2> DEFINE j == [NoJob EXCEPT !.view = v, !.opts = options[v]]
  <2>2. j \in EditorJob
    BY <1>2, JobTypes DEF EditorJob, NoJob
  <2>3. Goto(e, "vet", j)
        /\ UNCHANGED <<fields, made, views, madeViews, options, share, lock, read>>
    BY <2>1 DEF ReadForShare
  <2> HIDE DEF j
  <2>4. EditorMoves(e) /\ step'[e] = "vet"
    BY <1>3, <2>2, <2>3 DEF EditorSteps
  <2>5. OwnStep(e)'
    BY <2>4 DEF OwnStep
  <2>6. QED
    BY <2>4, <2>5, MovesKeep
<1>10. CASE VetShare(e)
  <2>1. /\ Goto(e, "mint", job[e]) \/ Goto(e, "idle", NoJob)
        /\ UNCHANGED <<fields, made, views, madeViews, options, share, lock, read>>
    BY <1>10 DEF VetShare, Finish
  <2>2. EditorMoves(e) /\ step'[e] \in {"mint", "idle"}
    BY <1>2, <1>3, <2>1, JobTypes DEF EditorSteps
  <2>3. OwnStep(e)'
    BY <2>2 DEF OwnStep
  <2>4. QED
    BY <2>2, <2>3, MovesKeep
<1>11. QED
  BY <1>4, <1>5, <1>6, <1>7, <1>8, <1>9, <1>10

-----------------------------------------------------------------------------
(* A transaction that changes rows commits: no other is at work. *)
Commits(e) ==
  /\ step[e] \in {"write", "drop", "dropView"}
  /\ lock' = None /\ Finish(e)
  /\ read' = Disturbed
  /\ \A s \in Share : share'[s].view = share[s].view /\ share'[s].raced = share[s].raced
                      /\ (share[s].state # "none" => share'[s].state # "none")

LEMMA CommitsAlone ==
  ASSUME ViewsInv, NEW e \in Editor, Commits(e),
         fields' \in SUBSET Field, made' \in SUBSET Field,
         views' \in SUBSET View, madeViews' \in SUBSET View,
         options' \in [View -> ViewOptions], share' \in [Share -> ShareRow],
         NamesLive', Granted'
  PROVE  ViewsInv'
<1>1. ViewsTyped /\ OptionsLocked /\ CheckedStill /\ ReadsNow /\ None \notin Editor
  BY ViewsAssumption DEF ViewsInv
<1>2. /\ step' \in [Editor -> EditorSteps] /\ job' \in [Editor -> EditorJob]
      /\ step'[e] = "idle"
      /\ \A o \in Editor \ {e} : step'[o] = step[o] /\ job'[o] = job[o]
  BY <1>1, JobTypes, GotoKeepsTypes DEF Commits, Finish, EditorSteps
<1>3. \A o \in Editor : step'[o] \notin {"write", "revoke", "drop", "dropView"}
  BY <1>1, <1>2 DEF Commits, OptionsLocked
<1>4. \A r \in Reader : /\ read'[r].at = read[r].at /\ read'[r].share = read[r].share
                        /\ (read'[r].quiet <=> read[r].at = "idle")
  BY <1>1, DisturbedOnly DEF Commits
<1>5. read' \in [Reader -> PublicRead]
  <2>1. Disturbed = [r \in Reader |-> Disturbed[r]]
    BY DEF Disturbed
  <2>2. QED
    BY <1>1, <2>1, DisturbedOnly DEF Commits
<1>6. ViewsTyped'
  BY <1>2, <1>5 DEF Commits, ViewsTyped
<1>7. OptionsLocked' /\ CheckedStill' /\ DoomedAll'
  BY <1>3 DEF OptionsLocked, CheckedStill, DoomedAll
<1>8. ReadsNow'
  BY <1>1, <1>4 DEF ReadsNow, Commits
<1>9. QED
  BY <1>6, <1>7, <1>8 DEF ViewsInv

LEMMA WriteKeeps ==
  ASSUME ViewsInv, NEW e \in Editor, WriteOptions(e)
  PROVE  ViewsInv'
<1> DEFINE v == job[e].view
           o == job[e].opts
<1>1. ViewsTyped /\ NamesLive /\ CheckedStill /\ Granted
  BY DEF ViewsInv
<1>2. job[e] \in EditorJob /\ v \in View /\ o \in ViewOptions
  BY <1>1 DEF ViewsTyped, EditorJob
<1>3. /\ step[e] = "write" /\ options' = [options EXCEPT ![v] = o]
      /\ share' = [s \in Share |->
                     IF share[s].view = v THEN [share[s] EXCEPT !.grant = o.filter] ELSE share[s]]
      /\ lock' = None /\ read' = Disturbed /\ Finish(e)
      /\ UNCHANGED <<fields, made, views, madeViews>>
  BY DEF WriteOptions
<1>4. v \in views /\ References(o) \subseteq fields
  BY <1>1, <1>3 DEF CheckedStill
<1> HIDE DEF v, o
<1>5. /\ options' \in [View -> ViewOptions] /\ options'[v] = o
      /\ \A w \in View \ {v} : options'[w] = options[w]
  BY <1>1, <1>2, <1>3 DEF ViewsTyped
<1>6. ASSUME NEW s \in Share
      PROVE  /\ share'[s] \in ShareRow
             /\ share'[s].state = share[s].state /\ share'[s].view = share[s].view
             /\ share'[s].raced = share[s].raced
             /\ share'[s].grant = IF share[s].view = v THEN o.filter ELSE share[s].grant
  <2>1. share[s] \in ShareRow /\ o.filter \in SUBSET Field
    BY <1>1, <1>2 DEF ViewsTyped, ViewOptions
  <2>2. CASE share[s].view = v
    <3> DEFINE F == o.filter
               n == [share[s] EXCEPT !.grant = F]
    <3>1. share'[s] = n
      BY <1>3, <2>2
    <3> HIDE DEF F
    <3>2. n \in ShareRow /\ n.grant = F /\ n.view = share[s].view /\ n.state = share[s].state
          /\ n.raced = share[s].raced
      BY <2>1 DEF ShareRow, F
    <3>3. QED
      BY <2>2, <3>1, <3>2 DEF F
  <2>3. CASE share[s].view # v
    BY <1>3, <2>1, <2>3
  <2>4. QED
    BY <2>2, <2>3
<1>7. share' \in [Share -> ShareRow]
  <2>1. share' = [s \in Share |-> share'[s]]
    BY <1>3
  <2>2. QED
    BY <1>6, <2>1
<1>8. NamesLive'
  BY <1>1, <1>3, <1>4, <1>5 DEF NamesLive
<1>9. Granted'
  BY <1>1, <1>5, <1>6 DEF Granted, LiveShares, ViewsTyped, ShareRow
<1>10. Commits(e)
  BY <1>3, <1>6 DEF Commits
<1>11. QED
  BY <1>1, <1>3, <1>5, <1>7, <1>8, <1>9, <1>10, CommitsAlone DEF ViewsTyped

LEMMA DropFieldKeeps ==
  ASSUME ViewsInv, NEW e \in Editor, DropField(e)
  PROVE  ViewsInv'
<1> DEFINE f == job[e].field
           D == job[e].doomed
<1>1. ViewsTyped /\ NamesLive /\ CheckedStill /\ DoomedAll /\ Granted
  BY DEF ViewsInv
<1>2. job[e] \in EditorJob /\ f \in Field /\ D \in SUBSET Share
  BY <1>1 DEF ViewsTyped, EditorJob
<1>3. /\ step[e] = "drop" /\ fields' = fields \ {f}
      /\ options' = [v \in View |-> Pruned(options[v], f)]
      /\ share' = Revoke(D)
      /\ lock' = None /\ read' = Disturbed /\ Finish(e)
      /\ UNCHANGED <<made, views, madeViews>>
  BY DEF DropField
<1>4. \A v \in View : f \in options[v].filter => v \in job[e].hits
  BY <1>1, <1>3 DEF CheckedStill
<1>5. \A s \in LiveShares : ~share[s].raced /\ share[s].view \in job[e].hits => s \in D
  BY <1>1, <1>3 DEF DoomedAll
<1> HIDE DEF f, D
<1>6. ASSUME NEW v \in View
      PROVE  /\ options'[v] \in ViewOptions
             /\ References(options'[v]) = References(options[v]) \ {f}
             /\ f \notin options[v].filter => options'[v].filter = options[v].filter
             /\ options[v] = NoOptions => options'[v] = NoOptions
  <2>1. options[v] \in ViewOptions /\ options'[v] = Pruned(options[v], f)
    BY <1>1, <1>3 DEF ViewsTyped
  <2>2. QED
    BY <2>1, PrunedOptions
<1>7. options' \in [View -> ViewOptions]
  BY <1>3, <1>6
<1>8. /\ share' \in [Share -> ShareRow]
      /\ \A s \in D : share'[s].state = "gone"
      /\ \A s \in Share \ D : share'[s] = share[s]
      /\ \A s \in Share : share'[s].view = share[s].view /\ share'[s].raced = share[s].raced
                          /\ share'[s].grant = share[s].grant
  BY <1>1, <1>2, <1>3, RevokeEnds
<1>9. NamesLive'
  BY <1>1, <1>3, <1>6 DEF NamesLive
<1>10. Granted'
  <2> SUFFICES ASSUME NEW s \in Share, share'[s].state = "live", ~share'[s].raced
               PROVE  share'[s].grant = options'[share'[s].view].filter
    BY DEF Granted, LiveShares
  <2>1. s \notin D /\ s \in LiveShares /\ share'[s] = share[s] /\ ~share[s].raced
    BY <1>8 DEF LiveShares
  <2>2. share[s].view \in View /\ share[s].view \notin job[e].hits
    BY <1>1, <1>5, <2>1 DEF ViewsTyped, ShareRow
  <2>3. options'[share[s].view].filter = options[share[s].view].filter
    BY <1>4, <1>6, <2>2
  <2>4. QED
    BY <1>1, <2>1, <2>3 DEF Granted
<1>11. Commits(e)
  BY <1>3, <1>8 DEF Commits
<1>12. /\ fields' \in SUBSET Field /\ made' \in SUBSET Field
      /\ views' \in SUBSET View /\ madeViews' \in SUBSET View
  BY <1>1, <1>3 DEF ViewsTyped
<1>13. QED
  BY <1>7, <1>8, <1>9, <1>10, <1>11, <1>12, CommitsAlone

LEMMA DropViewKeeps ==
  ASSUME ViewsInv, NEW e \in Editor, DropView(e)
  PROVE  ViewsInv'
<1> DEFINE v == job[e].view
           D == job[e].doomed
<1>1. ViewsTyped /\ NamesLive /\ CheckedStill /\ DoomedAll /\ Granted
  BY DEF ViewsInv
<1>2. job[e] \in EditorJob /\ v \in View /\ D \in SUBSET Share
  BY <1>1 DEF ViewsTyped, EditorJob
<1>3. /\ step[e] = "dropView" /\ views' = views \ {v}
      /\ options' = [options EXCEPT ![v] = NoOptions]
      /\ share' = Revoke(D)
      /\ lock' = None /\ read' = Disturbed /\ Finish(e)
      /\ UNCHANGED <<fields, made, madeViews>>
  BY DEF DropView
<1>4. v \in job[e].hits
  BY <1>1, <1>3 DEF CheckedStill
<1>5. \A s \in LiveShares : ~share[s].raced /\ share[s].view \in job[e].hits => s \in D
  BY <1>1, <1>3 DEF DoomedAll
<1> HIDE DEF v, D
<1>6. /\ options' \in [View -> ViewOptions] /\ options'[v] = NoOptions
      /\ \A w \in View \ {v} : options'[w] = options[w]
  BY <1>1, <1>2, <1>3, JobTypes DEF ViewsTyped
<1>7. /\ share' \in [Share -> ShareRow]
      /\ \A s \in D : share'[s].state = "gone"
      /\ \A s \in Share \ D : share'[s] = share[s]
      /\ \A s \in Share : share'[s].view = share[s].view /\ share'[s].raced = share[s].raced
                          /\ share'[s].grant = share[s].grant
  BY <1>1, <1>2, <1>3, RevokeEnds
<1>8. NamesLive'
  BY <1>1, <1>3, <1>6, JobTypes DEF NamesLive
<1>9. Granted'
  <2> SUFFICES ASSUME NEW s \in Share, share'[s].state = "live", ~share'[s].raced
               PROVE  share'[s].grant = options'[share'[s].view].filter
    BY DEF Granted, LiveShares
  <2>1. s \notin D /\ s \in LiveShares /\ share'[s] = share[s] /\ ~share[s].raced
    BY <1>7 DEF LiveShares
  <2>2. share[s].view \in View /\ share[s].view # v
    BY <1>1, <1>4, <1>5, <2>1 DEF ViewsTyped, ShareRow
  <2>3. QED
    BY <1>1, <1>6, <2>1, <2>2 DEF Granted
<1>10. Commits(e)
  BY <1>3, <1>7 DEF Commits
<1>11. /\ fields' \in SUBSET Field /\ made' \in SUBSET Field
      /\ views' \in SUBSET View /\ madeViews' \in SUBSET View
  BY <1>1, <1>3 DEF ViewsTyped
<1>12. QED
  BY <1>6, <1>7, <1>8, <1>9, <1>10, <1>11, CommitsAlone

-----------------------------------------------------------------------------
(* A share minted while a deletion is past its revocations is marked; any    *)
(* other is granted what its view says now.                                 *)
LEMMA MintKeeps ==
  ASSUME ViewsInv, NEW e \in Editor, NEW s \in Share, MintShare(e, s)
  PROVE  ViewsInv'
<1> DEFINE v == job[e].view
           late == v \notin views \/ RevokedAlready(v)
           row == [state |-> "live", view |-> v, grant |-> options[v].filter, raced |-> late]
<1>1. /\ ViewsTyped /\ OptionsLocked /\ NamesLive /\ CheckedStill
      /\ DoomedAll /\ Granted /\ ReadsNow
  BY DEF ViewsInv
<1>2. v \in View /\ options[v] \in ViewOptions /\ late \in BOOLEAN
  BY <1>1 DEF ViewsTyped, EditorJob, RevokedAlready
<1>3. /\ step[e] = "mint" /\ share[s].state = "none"
      /\ share' = [share EXCEPT ![s] = row] /\ Goto(e, "idle", NoJob)
      /\ UNCHANGED <<fields, made, views, madeViews, options, lock, read>>
  BY DEF MintShare, Finish
<1>4. row \in ShareRow /\ row.view = v /\ row.grant = options[v].filter /\ row.raced = late
      /\ row.state = "live"
  BY <1>2 DEF ShareRow, ViewOptions
<1>5. ~late => ~\E o \in Editor : step[o] \in {"drop", "dropView"} /\ v \in job[o].hits
  BY DEF RevokedAlready
<1> HIDE DEF v, late, row
<1>6. /\ step' \in [Editor -> EditorSteps] /\ job' \in [Editor -> EditorJob]
      /\ step'[e] = "idle"
      /\ \A o \in Editor \ {e} : step'[o] = step[o] /\ job'[o] = job[o]
  BY <1>1, <1>3, JobTypes, GotoKeepsTypes DEF EditorSteps
<1>7. /\ share' \in [Share -> ShareRow] /\ share'[s] = row
      /\ \A t \in Share \ {s} : share'[t] = share[t]
  BY <1>1, <1>3, <1>4 DEF ViewsTyped
<1>8. ViewsTyped'
  BY <1>1, <1>3, <1>6, <1>7 DEF ViewsTyped
<1>9. OptionsLocked' /\ NamesLive'
  BY <1>1, <1>3, <1>6 DEF OptionsLocked, NamesLive
<1>10. CheckedStill'
  BY <1>1, <1>3, <1>6 DEF CheckedStill
<1>11. DoomedAll'
  <2> SUFFICES ASSUME NEW o \in Editor, step'[o] \in {"drop", "dropView"},
                      NEW t \in Share, share'[t].state = "live", ~share'[t].raced,
                      share'[t].view \in job'[o].hits
               PROVE  t \in job'[o].doomed
    BY DEF DoomedAll, LiveShares
  <2>1. o # e /\ step[o] \in {"drop", "dropView"} /\ job'[o] = job[o]
    BY <1>6
  <2>2. t # s
    BY <1>4, <1>5, <1>7, <2>1
  <2>3. QED
    BY <1>1, <1>7, <2>1, <2>2 DEF DoomedAll, LiveShares
<1>12. Granted'
  BY <1>1, <1>3, <1>4, <1>7 DEF Granted, LiveShares
<1>13. ReadsNow'
  BY <1>1, <1>3, <1>7 DEF ReadsNow
<1>14. QED
  BY <1>8, <1>9, <1>10, <1>11, <1>12, <1>13 DEF ViewsInv

LEMMA EndShareKeeps ==
  ASSUME ViewsInv, NEW s \in Share, EndShare(s)
  PROVE  ViewsInv'
<1>1. /\ ViewsTyped /\ OptionsLocked /\ NamesLive /\ CheckedStill
      /\ DoomedAll /\ Granted /\ ReadsNow
  BY DEF ViewsInv
<1>2. /\ share' = Revoke({s})
      /\ UNCHANGED <<fields, made, views, madeViews, options, lock, step, job, read>>
  BY DEF EndShare
<1>3. /\ share' \in [Share -> ShareRow] /\ share'[s].state = "gone"
      /\ \A t \in Share \ {s} : share'[t] = share[t]
      /\ \A t \in Share : share'[t].view = share[t].view /\ share'[t].raced = share[t].raced
                          /\ share'[t].grant = share[t].grant
  BY <1>1, <1>2, RevokeEnds
<1>4. ViewsTyped'
  BY <1>1, <1>2, <1>3 DEF ViewsTyped
<1>5. OptionsLocked' /\ NamesLive' /\ CheckedStill'
  BY <1>1, <1>2 DEF OptionsLocked, NamesLive, CheckedStill
<1>6. \A t \in Share : share'[t].state = "live" => t # s /\ share[t].state = "live"
  BY <1>3
<1>7. DoomedAll' /\ Granted'
  <2>1. \A t \in LiveShares' : /\ t \in LiveShares /\ share'[t].view = share[t].view
                               /\ share'[t].raced = share[t].raced /\ share'[t].grant = share[t].grant
    BY <1>3, <1>6 DEF LiveShares
  <2>2. DoomedAll'
    BY <1>1, <1>2, <2>1 DEF DoomedAll
  <2>3. Granted'
    BY <1>1, <1>2, <2>1 DEF Granted
  <2>4. QED
    BY <2>2, <2>3
<1>8. ReadsNow'
  <2>1. \A t \in Share : /\ share'[t].view = share[t].view /\ share'[t].raced = share[t].raced
                         /\ share[t].state # "none" => share'[t].state # "none"
    BY <1>3
  <2>2. ASSUME NEW r \in Reader
        PROVE  LET q == read[r] v == share'[q.share].view IN
               /\ q.at # "idle" => q.share \in Share /\ share'[q.share].state # "none"
               /\ q.quiet /\ q.at # "idle" =>
                    /\ ~share'[q.share].raced => q.want = options[v].filter
                    /\ q.at = "view" => q.fields = fields
                    /\ q.at = "done" =>
                         q.shown = options[v].filter /\ q.columns \cap options[v].hidden = {}
    <3>1. CASE read[r].at = "idle"
      BY <3>1
    <3>2. CASE read[r].at # "idle"
      <4>1. read[r].share \in Share
        BY <1>1, <3>2 DEF ReadsNow
      <4>2. QED
        BY <1>1, <2>1, <3>2, <4>1 DEF ReadsNow
    <3>3. QED
      BY <3>1, <3>2
  <2>3. QED
    BY <1>2, <2>2 DEF ReadsNow
<1>9. QED
  BY <1>4, <1>5, <1>7, <1>8 DEF ViewsInv

(* A field that comes, and a view that comes: it has no options.            *)
LEMMA CreationKeeps ==
  ASSUME ViewsInv,
         (\E f \in Field : CreateField(f)) \/ (\E v \in View : CreateView(v))
  PROVE  ViewsInv'
<1>1. /\ ViewsTyped /\ OptionsLocked /\ NamesLive /\ CheckedStill
      /\ DoomedAll /\ Granted /\ ReadsNow
  BY DEF ViewsInv
<1>2. /\ UNCHANGED <<options, share, lock, step, job>>
      /\ fields \subseteq fields' /\ views \subseteq views'
      /\ \/ read' = read /\ fields' = fields
         \/ read' = Disturbed
      /\ fields' \in SUBSET Field /\ made' \in SUBSET Field
      /\ views' \in SUBSET View /\ madeViews' \in SUBSET View
  BY <1>1 DEF CreateField, CreateView, ViewsTyped
<1>3. /\ read' \in [Reader -> PublicRead]
      /\ \A r \in Reader : /\ read'[r].at = read[r].at /\ read'[r].share = read[r].share
                           /\ \/ read'[r] = read[r] /\ fields' = fields
                              \/ read'[r].quiet <=> read[r].at = "idle"
  <2>1. Disturbed = [r \in Reader |-> Disturbed[r]]
    BY DEF Disturbed
  <2>2. CASE read' = read /\ fields' = fields
    BY <1>1, <2>2 DEF ViewsTyped
  <2>3. CASE read' = Disturbed
    BY <1>1, <2>1, <2>3, DisturbedOnly
  <2>4. QED
    BY <1>2, <2>2, <2>3
<1>4. ViewsTyped'
  BY <1>1, <1>2, <1>3 DEF ViewsTyped
<1>5. OptionsLocked' /\ DoomedAll' /\ Granted'
  BY <1>1, <1>2 DEF OptionsLocked, DoomedAll, Granted, LiveShares
<1>6. NamesLive' /\ CheckedStill'
  BY <1>1, <1>2 DEF NamesLive, CheckedStill
<1>7. ReadsNow'
  BY <1>1, <1>2, <1>3 DEF ReadsNow
<1>8. QED
  BY <1>4, <1>5, <1>6, <1>7 DEF ViewsInv

(* The statements of a reader, each on the schema of its moment.            *)
LEMMA ReaderKeeps ==
  ASSUME ViewsInv, NEW r \in Reader, ReaderStep(r)
  PROVE  ViewsInv'
<1> DEFINE q == read[r]
           Sound(n) ==
             LET v == share[n.share].view IN
             /\ n.at # "idle" => n.share \in Share /\ share[n.share].state # "none"
             /\ n.quiet /\ n.at # "idle" =>
                  /\ ~share[n.share].raced => n.want = options[v].filter
                  /\ n.at = "view" => n.fields = fields
                  /\ n.at = "done" =>
                       n.shown = options[v].filter /\ n.columns \cap options[v].hidden = {}
<1>1. /\ ViewsTyped /\ OptionsLocked /\ NamesLive /\ CheckedStill
      /\ DoomedAll /\ Granted /\ ReadsNow
  BY DEF ViewsInv
<1>2. UNCHANGED <<fields, made, views, madeViews, options, share, lock, step, job>>
  BY DEF ReaderStep, ReadShare, ReadFields, ReadView
<1>3. q \in PublicRead /\ Sound(q) /\ fields \in SUBSET Field
  BY <1>1 DEF ViewsTyped, ReadsNow
<1>4. NoRead \in PublicRead /\ NoRead.at = "idle" /\ NoRead.quiet = TRUE
  BY DEF NoRead, PublicRead
<1>5. ASSUME NEW n \in PublicRead, Sound(n), read' = [read EXCEPT ![r] = n]
      PROVE  ViewsInv'
  <2>1. read' \in [Reader -> PublicRead] /\ read'[r] = n
        /\ \A o \in Reader \ {r} : read'[o] = read[o]
    BY <1>1, <1>5 DEF ViewsTyped
  <2>2. ViewsTyped'
    BY <1>1, <1>2, <2>1 DEF ViewsTyped
  <2>3. OptionsLocked' /\ NamesLive' /\ CheckedStill' /\ DoomedAll' /\ Granted'
    BY <1>1, <1>2 DEF OptionsLocked, NamesLive, CheckedStill, DoomedAll, Granted, LiveShares
  <2>4. ReadsNow'
    <3> SUFFICES ASSUME NEW o \in Reader
                 PROVE  LET p == read'[o] v == share[p.share].view IN
                        /\ p.at # "idle" => p.share \in Share /\ share[p.share].state # "none"
                        /\ p.quiet /\ p.at # "idle" =>
                             /\ ~share[p.share].raced => p.want = options[v].filter
                             /\ p.at = "view" => p.fields = fields
                             /\ p.at = "done" => p.shown = options[v].filter
                                  /\ p.columns \cap options[v].hidden = {}
      BY <1>2 DEF ReadsNow
    <3>1. CASE o = r
      BY <1>5, <2>1, <3>1
    <3>2. CASE o # r
      BY <1>1, <2>1, <3>2 DEF ReadsNow
    <3>3. QED
      BY <3>1, <3>2
  <2>5. QED
    BY <2>2, <2>3, <2>4 DEF ViewsInv
<1>6. ASSUME NEW s \in Share, ReadShare(r, s) PROVE ViewsInv'
  <2> DEFINE n == [[[NoRead EXCEPT !.at = "fields"] EXCEPT !.share = s]
                   EXCEPT !.want = share[s].grant]
  <2>1. s \in LiveShares /\ read' = [read EXCEPT ![r] = n]
    BY <1>6, <1>4 DEF ReadShare, PublicRead
  <2>2. share[s].grant \in SUBSET Field
    BY <1>1 DEF ViewsTyped, ShareRow
  <2>3. n \in PublicRead /\ n.at = "fields" /\ n.share = s /\ n.want = share[s].grant
    BY <1>4, <2>2 DEF PublicRead
  <2> HIDE DEF n
  <2>4. Sound(n)
    BY <1>1, <2>1, <2>3 DEF Granted, LiveShares
  <2>5. QED
    BY <1>5, <2>1, <2>3, <2>4
<1>7. ASSUME ReadFields(r) PROVE ViewsInv'
  <2> DEFINE n == [[q EXCEPT !.at = "view"] EXCEPT !.fields = fields]
  <2>1. q.at = "fields" /\ read' = [read EXCEPT ![r] = n]
    BY <1>1, <1>3, <1>7 DEF ReadFields, ViewsTyped, PublicRead
  <2>2. n \in PublicRead /\ n.at = "view" /\ n.share = q.share /\ n.want = q.want
        /\ n.fields = fields /\ n.quiet = q.quiet
    BY <1>3 DEF PublicRead
  <2> HIDE DEF n
  <2>3. Sound(n)
    BY <1>3, <2>1, <2>2
  <2>4. QED
    BY <1>5, <2>1, <2>2, <2>3
<1>8. ASSUME ReadView(r) PROVE ViewsInv'
  <2> DEFINE v == share[q.share].view
             F == Compiled(options[v], q.fields)
             C == Columns(options[v], q.fields)
             n == [[[q EXCEPT !.at = "done"] EXCEPT !.shown = F] EXCEPT !.columns = C]
  <2>1. q.at = "view" /\ read' = [read EXCEPT ![r] = IF v \notin views THEN NoRead ELSE n]
    BY <1>1, <1>3, <1>8 DEF ReadView, ViewsTyped, PublicRead
  <2>2. CASE v \notin views
    <3>1. Sound(NoRead)
      BY <1>4
    <3>2. QED
      BY <1>4, <1>5, <2>1, <2>2, <3>1
  <2>3. CASE v \in views
    <3>1. F = options[v].filter \cap q.fields /\ C = q.fields \ options[v].hidden
          /\ F \in SUBSET Field /\ C \in SUBSET Field
      BY <1>3 DEF Compiled, Columns, PublicRead
    <3> HIDE DEF F, C
    <3>2. n \in PublicRead /\ n.at = "done" /\ n.share = q.share /\ n.want = q.want
          /\ n.shown = F /\ n.columns = C /\ n.quiet = q.quiet
      BY <1>3, <3>1 DEF PublicRead
    <3> HIDE DEF n
    <3>3. options[v].filter \subseteq fields
      <4>1. v \in View
        BY <1>1, <2>3 DEF ViewsTyped
      <4>2. QED
        BY <1>1, <4>1 DEF NamesLive, References
    <3>4. Sound(n)
      BY <1>3, <2>1, <3>1, <3>2, <3>3
    <3>5. QED
      BY <1>5, <2>1, <2>3, <3>2, <3>4
  <2>4. QED
    BY <2>2, <2>3
<1>9. QED
  BY <1>6, <1>7, <1>8 DEF ReaderStep

LEMMA ViewsInvInit == ViewsInit => ViewsInv
<1> SUFFICES ASSUME ViewsInit PROVE ViewsInv
  OBVIOUS
<1> USE ViewsAssumption DEF ViewsInit
<1>1. /\ NoShare \in ShareRow /\ NoShare.state = "none"
      /\ NoRead \in PublicRead /\ NoRead.at = "idle"
  BY DEF NoShare, ShareRow, NoRead, PublicRead
<1>2. ViewsTyped
  BY <1>1, JobTypes DEF ViewsTyped, EditorSteps
<1>3. OptionsLocked /\ CheckedStill /\ DoomedAll
  BY DEF OptionsLocked, CheckedStill, DoomedAll
<1>4. NamesLive
  BY JobTypes DEF NamesLive
<1>5. Granted /\ ReadsNow
  BY <1>1 DEF Granted, LiveShares, ReadsNow
<1>6. QED
  BY <1>2, <1>3, <1>4, <1>5 DEF ViewsInv

LEMMA ViewsInvStep == ViewsInv /\ [ViewsNext]_viewVars => ViewsInv'
<1> SUFFICES ASSUME ViewsInv, [ViewsNext]_viewVars PROVE ViewsInv'
  OBVIOUS
<1>1. ASSUME NEW e \in Editor, EditorStep(e) PROVE ViewsInv'
  <2>1. CASE WriteOptions(e)
    BY <2>1, WriteKeeps
  <2>2. CASE DropField(e)
    BY <2>2, DropFieldKeeps
  <2>3. CASE DropView(e)
    BY <2>3, DropViewKeeps
  <2>4. CASE \E s \in Share : MintShare(e, s)
    BY <2>4, MintKeeps
  <2>5. QED
    BY <1>1, <2>1, <2>2, <2>3, <2>4, EditorMovesKeep DEF EditorStep
<1>2. CASE \E s \in Share : EndShare(s)
  BY <1>2, EndShareKeeps
<1>3. CASE \E r \in Reader : ReaderStep(r)
  BY <1>3, ReaderKeeps
<1>4. CASE UNCHANGED viewVars
  <2>1. /\ ViewsTyped /\ OptionsLocked /\ NamesLive /\ CheckedStill
        /\ DoomedAll /\ Granted /\ ReadsNow
    BY DEF ViewsInv
  <2>2. ViewsTyped' /\ OptionsLocked' /\ NamesLive' /\ CheckedStill'
    BY <1>4, <2>1 DEF viewVars, ViewsTyped, OptionsLocked, NamesLive, CheckedStill
  <2>3. DoomedAll' /\ Granted' /\ ReadsNow'
    BY <1>4, <2>1 DEF viewVars, DoomedAll, Granted, LiveShares, ReadsNow
  <2>4. QED
    BY <2>2, <2>3 DEF ViewsInv
<1>5. QED
  BY <1>1, <1>2, <1>3, <1>4, CreationKeeps DEF ViewsNext

(* No stored view ever names a field that is not there, although options    *)
(* and deletions come from different requests (view.ts:143-158,             *)
(* field.ts:355-377).                                                       *)
THEOREM NamesStayLive == ViewsSpec => []StoredReferencesLive
<1>1. ViewsInv => StoredReferencesLive
  BY DEF ViewsInv, ViewsTyped, NamesLive, StoredReferencesLive
<1>2. QED
  BY <1>1, ViewsInvInit, ViewsInvStep, PTL DEF ViewsSpec

(* A public read that nothing disturbs applies all conditions its view       *)
(* stores and shows no hidden column, whatever fields and views were deleted *)
(* before; and those are the conditions the share was minted with, less what *)
(* editors removed, unless it was minted behind a deletion's back            *)
(* (public-share.ts, share.ts:55-64, field.ts:355-362).                      *)
THEOREM SharesShowWhatWasGranted == ViewsSpec => []QuietReadsAreExact
<1>1. ViewsInv => QuietReadsAreExact
  BY DEF ViewsInv, ReadsNow, QuietReadsAreExact
<1>2. QED
  BY <1>1, ViewsInvInit, ViewsInvStep, PTL DEF ViewsSpec

-----------------------------------------------------------------------------
(***************************************************************************)
(* ViewSettings.                                                           *)
(***************************************************************************)
OptionRows == [OptionKeys -> Nat]
ViewRows == [Keys -> Nat]
Names == [name : Nat]

GridEditors ==
  [open : {TRUE}, draft : OptionRows, queue : Seq(OptionRows),
   at : {"idle", "sent", "reconcile"}, widths : Nat, timer : BOOLEAN]
DraftEditors ==
  [open : {TRUE}, draft : Nat, baseline : OptionRows, at : {"idle", "sent", "reconcile"}]
Editors == {Closed} \cup IF kind = "grid" THEN GridEditors ELSE DraftEditors
Lists ==
  [shown : ViewRows \cup {Gone, Failed}, fetch : {"none", "asked", "read"},
   got : ViewRows \cup {Gone, Nothing}, awaited : BOOLEAN]
Mutations ==
  [at : {"sent", "ok", "failed"}, put : OptionRows \cup Names \cup {Gone}, live : BOOLEAN]

SettingsTyped ==
  /\ view \in ViewRows \cup {Gone}
  /\ told \in [Tab -> BOOLEAN]
  /\ list \in [Tab -> Lists]
  /\ requests \in [Tab -> SUBSET Mutations]
  /\ editor \in [Tab -> Editors]
  /\ mine \in [Tab -> OptionRows]
  /\ edits \in Nat

(* What a session has open follows a row, and the request it waits for is   *)
(* one, of the head of the queue or of the draft.                          *)
Attached(t) ==
  /\ editor[t].open => list[t].shown \in ViewRows
  /\ list[t].fetch = "read" => list[t].got # Nothing
  /\ ~ editor[t].open => mine[t] = NoEdits
  /\ \A q \in requests[t] : q.live =>
       /\ editor[t].open /\ editor[t].at = "sent"
       /\ q.put \in OptionRows
       /\ Grid(t) => q.put = Head(editor[t].queue)
       /\ Drafts(t) => IF editor[t].draft = 0 THEN mine[t]["config"] = 0
                       ELSE q.put["config"] = editor[t].draft
  /\ \A q, p \in requests[t] : q.live /\ p.live => q = p
  /\ Grid(t) /\ editor[t].at # "idle" => editor[t].queue # <<>>
  /\ Grid(t) /\ editor[t].queue # <<>> =>
       editor[t].queue[Len(editor[t].queue)] = editor[t].draft
  /\ Drafts(t) /\ editor[t].at = "sent" /\ editor[t].draft = 0 => mine[t]["config"] = 0

(* The list a session fetches is not older than what it has saved. *)
Follows(t) ==
  IF kind = "grid" THEN Len(editor[t].queue) = IF editor[t].at = "reconcile" THEN 1 ELSE 0
  ELSE editor[t].draft = 0 \/ editor[t].at = "reconcile"

(* An edit of key k that was saved and that nobody undid is stored, and     *)
(* shown by every list fetched since.                                      *)
SavedIsStored(t, k) ==
  editor[t].open /\ mine[t][k] # 0 =>
    /\ ~Unsaved(t) /\ view # Gone => view[k] = mine[t][k]
    /\ Follows(t) /\ list[t].fetch = "read" /\ list[t].got # Gone => list[t].got[k] = mine[t][k]

GridKept(t) ==
  /\ mine[t]["config"] = 0
  /\ mine[t]["columnWidth"] # 0 => editor[t].widths = mine[t]["columnWidth"]
  /\ mine[t]["filter"] # 0 => editor[t].draft["filter"] = mine[t]["filter"]
  /\ SavedIsStored(t, "filter")

DraftKept(t) ==
  /\ mine[t]["filter"] = 0 /\ mine[t]["columnWidth"] = 0
  /\ mine[t]["config"] # 0 =>
       /\ editor[t].draft # 0 => editor[t].draft = mine[t]["config"]
       /\ Follows(t) /\ list[t].fetch = "none" => list[t].shown["config"] = mine[t]["config"]
  /\ SavedIsStored(t, "config")

EditsKept(t) == (Grid(t) => GridKept(t)) /\ (Drafts(t) => DraftKept(t))

EditsInv == SettingsTyped /\ \A t \in Tab : Attached(t) /\ EditsKept(t)

LEMMA Placeholders ==
  /\ Gone \notin ViewRows /\ Failed \notin ViewRows /\ Nothing \notin ViewRows
  /\ Gone \notin OptionRows /\ Gone \notin Names /\ Gone # Failed /\ Gone # Nothing
  /\ Closed.open = FALSE /\ Closed \notin GridEditors /\ Closed \notin DraftEditors
  /\ \A n \in Names : n \notin OptionRows
  /\ \A o \in OptionRows : o # Gone
<1>1. /\ DOMAIN Gone = {"gone"} /\ DOMAIN Failed = {"failed"} /\ DOMAIN Nothing = {"none"}
      /\ \A r \in ViewRows : DOMAIN r = Keys
      /\ \A o \in OptionRows : DOMAIN o = OptionKeys
      /\ \A n \in Names : DOMAIN n = {"name"}
  BY DEF Gone, Failed, Nothing, ViewRows, OptionRows, Names
<1>2. "filter" \in OptionKeys /\ "filter" \in Keys /\ "gone" \notin OptionKeys /\ "name" \notin OptionKeys
  BY DEF OptionKeys, Keys
<1>3. "filter" \notin {"gone"} /\ "filter" \notin {"failed"} /\ "filter" \notin {"none"}
      /\ "filter" \notin {"name"} /\ {"gone"} # {"failed"} /\ {"gone"} # {"none"} /\ {"gone"} # {"name"}
  OBVIOUS
<1>4. Closed.open = FALSE /\ Closed \notin GridEditors /\ Closed \notin DraftEditors
  BY DEF Closed, GridEditors, DraftEditors
<1>5. QED
  BY <1>1, <1>2, <1>3, <1>4

LEMMA RowOptions ==
  ASSUME NEW row \in ViewRows
  PROVE  OptionsOf(row) \in OptionRows /\ \A k \in OptionKeys : OptionsOf(row)[k] = row[k]
BY DEF OptionsOf, OptionRows, ViewRows, Keys

LEMMA Opens ==
  ASSUME NEW row \in ViewRows
  PROVE  /\ Opened(row) \in IF kind = "grid" THEN GridEditors ELSE DraftEditors
         /\ Opened(row).open /\ Opened(row).at = "idle"
         /\ kind = "grid" => /\ Opened(row).draft = OptionsOf(row) /\ Opened(row).queue = <<>>
                             /\ Opened(row).widths = row["columnWidth"] /\ Opened(row).timer = FALSE
         /\ kind # "grid" => Opened(row).draft = 0
<1>1. OptionsOf(row) \in OptionRows /\ row["columnWidth"] \in Nat /\ <<>> \in Seq(OptionRows)
  BY RowOptions, EmptySeq DEF ViewRows, Keys, OptionKeys
<1>2. NoEdits \in OptionRows
  BY DEF NoEdits, OptionRows
<1>3. CASE kind = "grid"
  BY <1>1, <1>3 DEF Opened, GridEditors
<1>4. CASE kind # "grid"
  BY <1>2, <1>4 DEF Opened, DraftEditors
<1>5. QED
  BY <1>3, <1>4

(* What an edit, a save and an answer make of an open editor. *)
LEMMA GridEditorTypes ==
  ASSUME NEW e \in GridEditors
  PROVE  /\ e.open /\ e.draft \in OptionRows /\ e.queue \in Seq(OptionRows)
         /\ e.at \in {"idle", "sent", "reconcile"} /\ e.widths \in Nat /\ e.timer \in BOOLEAN
BY DEF GridEditors

LEMMA GridDraftSet ==
  ASSUME NEW e \in GridEditors, NEW o \in OptionRows
  PROVE  /\ [e EXCEPT !.draft = o] \in GridEditors /\ [e EXCEPT !.draft = o].draft = o
         /\ [e EXCEPT !.draft = o].open /\ [e EXCEPT !.draft = o].queue = e.queue
         /\ [e EXCEPT !.draft = o].at = e.at /\ [e EXCEPT !.draft = o].widths = e.widths
         /\ [e EXCEPT !.draft = o].timer = e.timer
BY DEF GridEditors

LEMMA GridAtSet ==
  ASSUME NEW e \in GridEditors, NEW s \in {"idle", "sent", "reconcile"}
  PROVE  /\ [e EXCEPT !.at = s] \in GridEditors /\ [e EXCEPT !.at = s].draft = e.draft
         /\ [e EXCEPT !.at = s].open /\ [e EXCEPT !.at = s].queue = e.queue
         /\ [e EXCEPT !.at = s].at = s /\ [e EXCEPT !.at = s].widths = e.widths
         /\ [e EXCEPT !.at = s].timer = e.timer
BY DEF GridEditors

LEMMA GridEdits ==
  ASSUME NEW e \in GridEditors, NEW k \in OptionKeys, NEW v \in Nat
  PROVE  LET next == [e.draft EXCEPT ![k] = v] IN
         /\ Patched(e, k, v) \in GridEditors /\ Patched(e, k, v).draft = next
         /\ Patched(e, k, v).queue = Append(e.queue, next) /\ next \in OptionRows
         /\ Patched(e, k, v).open /\ Patched(e, k, v).at = e.at
         /\ Patched(e, k, v).widths = e.widths /\ Patched(e, k, v).timer = e.timer
         /\ [Patched(e, k, v) EXCEPT !.timer = FALSE] \in GridEditors
         /\ [e EXCEPT !.widths = v, !.timer = TRUE] \in GridEditors
<1> DEFINE next == [e.draft EXCEPT ![k] = v]
<1>1. next \in OptionRows /\ e.queue \in Seq(OptionRows)
  BY DEF GridEditors, OptionRows
<1> HIDE DEF next
<1>2. Append(e.queue, next) \in Seq(OptionRows)
  BY <1>1, AppendProperties
<1>3. Patched(e, k, v) = [e EXCEPT !.draft = next, !.queue = Append(@, next)]
  BY DEF Patched, next
<1>4. QED
  BY <1>1, <1>2, <1>3 DEF GridEditors, next

LEMMA QueueMoves ==
  ASSUME NEW e \in GridEditors, e.queue # <<>>
  PROVE  /\ [e EXCEPT !.at = "idle", !.queue = Tail(@)] \in GridEditors
         /\ Len(e.queue) \in Nat \ {0} /\ Len(Tail(e.queue)) = Len(e.queue) - 1
         /\ Tail(e.queue) \in Seq(OptionRows)
         /\ \A i \in 1..(Len(e.queue) - 1) : Tail(e.queue)[i] = e.queue[i + 1]
         /\ Head(e.queue) = e.queue[1] /\ Head(e.queue) \in OptionRows
<1>1. e.queue \in Seq(OptionRows)
  BY DEF GridEditors
<1>2. /\ Tail(e.queue) \in Seq(OptionRows) /\ Len(Tail(e.queue)) = Len(e.queue) - 1
      /\ Head(e.queue) \in OptionRows
      /\ \A i \in 1..Len(Tail(e.queue)) : Tail(e.queue)[i] = e.queue[i + 1]
  BY <1>1, HeadTailProperties
<1>3. Len(e.queue) \in Nat \ {0}
  BY <1>1, EmptySeq
<1>4. Head(e.queue) = e.queue[1]
  OBVIOUS
<1>5. [e EXCEPT !.at = "idle", !.queue = Tail(@)] \in GridEditors
  BY <1>2 DEF GridEditors
<1>6. QED
  BY <1>2, <1>3, <1>4, <1>5

LEMMA DraftEditorTypes ==
  ASSUME NEW e \in DraftEditors
  PROVE  /\ e.open /\ e.draft \in Nat /\ e.baseline \in OptionRows
         /\ e.at \in {"idle", "sent", "reconcile"}
BY DEF DraftEditors

LEMMA DraftAtSet ==
  ASSUME NEW e \in DraftEditors, NEW s \in {"idle", "sent", "reconcile"}
  PROVE  /\ [e EXCEPT !.at = s] \in DraftEditors /\ [e EXCEPT !.at = s].draft = e.draft
         /\ [e EXCEPT !.at = s].open /\ [e EXCEPT !.at = s].at = s
BY DEF DraftEditors

LEMMA ListTypes ==
  ASSUME NEW l \in Lists
  PROVE  /\ l.shown \in ViewRows \cup {Gone, Failed} /\ l.got \in ViewRows \cup {Gone, Nothing}
         /\ l.fetch \in {"none", "asked", "read"}
         /\ \A b \in BOOLEAN : /\ Invalidated(l, b) \in Lists /\ Invalidated(l, b).shown = l.shown
                               /\ Invalidated(l, b).fetch = "asked" /\ Invalidated(l, b).got = Nothing
BY DEF Lists, Invalidated

LEMMA FetchedIs ==
  ASSUME NEW l, NEW r \in ViewRows \cup {Gone, Failed}
  PROVE  /\ Fetched(l, r) \in Lists /\ Fetched(l, r).shown = r
         /\ Fetched(l, r).fetch = "none" /\ Fetched(l, r).got = Nothing
BY DEF Lists, Fetched

(* What one session does leaves what is said of the others. *)
LEMMA OthersStand ==
  ASSUME EditsInv, NEW t \in Tab, UNCHANGED <<kind, view>>,
         \A u \in Tab \ {t} : /\ editor'[u] = editor[u] /\ list'[u] = list[u]
                              /\ requests'[u] = requests[u] /\ mine'[u] = mine[u]
  PROVE  \A u \in Tab \ {t} : Attached(u)' /\ EditsKept(u)'
<1> SUFFICES ASSUME NEW u \in Tab \ {t} PROVE Attached(u)' /\ EditsKept(u)'
  OBVIOUS
<1>1. /\ kind' = kind /\ view' = view /\ editor'[u] = editor[u] /\ list'[u] = list[u]
      /\ requests'[u] = requests[u] /\ mine'[u] = mine[u]
  OBVIOUS
<1>2. (Grid(u)' <=> Grid(u)) /\ (Drafts(u)' <=> Drafts(u)) /\ (Follows(u)' <=> Follows(u))
      /\ (Unsaved(u)' <=> Unsaved(u))
  BY <1>1 DEF Grid, Drafts, Follows, Unsaved, Committed
<1>3. Attached(u)'
  BY <1>1, <1>2 DEF EditsInv, Attached
<1>4. \A k : SavedIsStored(u, k) => SavedIsStored(u, k)'
  BY <1>1, <1>2 DEF SavedIsStored
<1>5. EditsKept(u)'
  BY <1>1, <1>2, <1>4 DEF EditsInv, EditsKept, GridKept, DraftKept
<1>6. QED
  BY <1>3, <1>5

(* The list of a session moves on under its editor. *)
LEMMA ListMoves ==
  ASSUME SettingsTyped, NEW t \in Tab, ServerReads(t) \/ RetryList(t) \/ Tell(t)
  PROVE  /\ UNCHANGED <<kind, view, requests, editor, edits, mine, apart>>
         /\ told' \in [Tab -> BOOLEAN]
         /\ list' \in [Tab -> Lists] /\ list'[t].shown = list[t].shown
         /\ \A u \in Tab \ {t} : list'[u] = list[u]
         /\ \/ list'[t].fetch = "read" /\ list'[t].got = view
            \/ list'[t].fetch = "asked" /\ list'[t].got = Nothing
<1>1. UNCHANGED <<kind, view, requests, editor, edits, mine, apart>> /\ told' \in [Tab -> BOOLEAN]
  BY DEF ServerReads, RetryList, Tell, SettingsTyped
<1>2. list \in [Tab -> Lists] /\ list[t] \in Lists /\ view \in ViewRows \cup {Gone}
  BY DEF SettingsTyped
<1>3. PICK l \in Lists :
        /\ list' = [list EXCEPT ![t] = l] /\ l.shown = list[t].shown
        /\ (l.fetch = "read" /\ l.got = view) \/ (l.fetch = "asked" /\ l.got = Nothing)
  <2>1. CASE ServerReads(t)
    <3> DEFINE l == [list[t] EXCEPT !.fetch = "read", !.got = view]
    <3>1. l \in Lists /\ l.shown = list[t].shown /\ l.fetch = "read" /\ l.got = view
      BY <1>2 DEF Lists
    <3>2. list' = [list EXCEPT ![t] = l]
      BY <1>2, <2>1 DEF ServerReads
    <3> HIDE DEF l
    <3>3. QED
      BY <3>1, <3>2
  <2>2. CASE RetryList(t) \/ Tell(t)
    <3> DEFINE l == Invalidated(list[t], FALSE)
    <3>1. l \in Lists /\ l.shown = list[t].shown /\ l.fetch = "asked" /\ l.got = Nothing
      BY <1>2, ListTypes
    <3>2. list' = [list EXCEPT ![t] = l]
      BY <2>2 DEF RetryList, Tell
    <3> HIDE DEF l
    <3>3. QED
      BY <3>1, <3>2
  <2>3. QED
    BY <2>1, <2>2
<1>4. QED
  BY <1>1, <1>2, <1>3

LEMMA ListKeeps ==
  ASSUME EditsInv, NEW t \in Tab, ServerReads(t) \/ RetryList(t) \/ Tell(t)
  PROVE  EditsInv'
<1>1. /\ UNCHANGED <<kind, view, requests, editor, edits, mine>>
      /\ told' \in [Tab -> BOOLEAN]
  BY ListMoves DEF EditsInv
<1>2. /\ list' \in [Tab -> Lists] /\ list'[t].shown = list[t].shown
      /\ \A u \in Tab \ {t} : list'[u] = list[u]
      /\ \/ list'[t].fetch = "read" /\ list'[t].got = view
         \/ list'[t].fetch = "asked"
  BY ListMoves DEF EditsInv
<1>3. SettingsTyped'
  BY <1>1, <1>2 DEF EditsInv, SettingsTyped, Editors
<1>4. /\ (Grid(t)' <=> Grid(t)) /\ (Drafts(t)' <=> Drafts(t)) /\ (Follows(t)' <=> Follows(t))
      /\ (Unsaved(t)' <=> Unsaved(t))
  BY <1>1 DEF Grid, Drafts, Follows, Unsaved, Committed
<1>5. Attached(t)'
  BY <1>1, <1>2, <1>4, Placeholders DEF EditsInv, SettingsTyped, Attached
<1>6. Follows(t) /\ editor[t].open => ~Unsaved(t)
  BY DEF EditsInv, Attached, Follows, Unsaved, Grid, Drafts, Committed
<1>7. EditsKept(t)'
  <2>1. EditsKept(t)
    BY DEF EditsInv
  <2>2. ASSUME NEW k, SavedIsStored(t, k) PROVE SavedIsStored(t, k)'
    BY <1>1, <1>2, <1>4, <1>6, <2>2 DEF SavedIsStored
  <2>3. QED
    BY <1>1, <1>2, <1>4, <2>1, <2>2 DEF EditsKept, GridKept, DraftKept
<1>8. QED
  BY <1>1, <1>2, <1>3, <1>5, <1>7, OthersStand DEF EditsInv

(* An editor that closes, or opens, has no edits of its user. *)
LEMMA ClosedKeeps ==
  ASSUME EditsInv, NEW t \in Tab, UNCHANGED <<kind, view, edits>>,
         told' \in [Tab -> BOOLEAN], list' \in [Tab -> Lists], requests' \in [Tab -> SUBSET Mutations],
         editor' \in [Tab -> Editors], mine' \in [Tab -> OptionRows],
         \A u \in Tab \ {t} : /\ editor'[u] = editor[u] /\ list'[u] = list[u]
                              /\ requests'[u] = requests[u] /\ mine'[u] = mine[u],
         list'[t].fetch = "read" => list'[t].got # Nothing,
         mine'[t] = NoEdits, \A q \in requests'[t] : ~ q.live,
         \/ editor'[t] = Closed
         \/ list'[t].shown \in ViewRows /\ \E row \in ViewRows : editor'[t] = Opened(row)
  PROVE  EditsInv'
<1>1. SettingsTyped'
  BY DEF EditsInv, SettingsTyped, Editors
<1>2. Attached(t)'
  <2>1. CASE editor'[t] = Closed
    BY <2>1, Placeholders DEF Attached, Grid, Drafts
  <2>2. CASE list'[t].shown \in ViewRows /\ \E row \in ViewRows : editor'[t] = Opened(row)
    <3>1. /\ editor'[t].open /\ editor'[t].at = "idle"
          /\ kind = "grid" => editor'[t].queue = <<>>
      <4>1. PICK row \in ViewRows : editor'[t] = Opened(row)
        BY <2>2
      <4>2. /\ Opened(row).open /\ Opened(row).at = "idle"
            /\ kind = "grid" => Opened(row).queue = <<>>
        BY Opens
      <4>3. QED
        BY <4>1, <4>2
    <3>2. QED
      BY <2>2, <3>1 DEF Attached, Grid, Drafts
  <2>3. QED
    BY <2>1, <2>2
<1>3. \A k \in OptionKeys : mine'[t][k] = 0
  BY DEF NoEdits
<1>4. EditsKept(t)'
  BY <1>3 DEF EditsKept, GridKept, DraftKept, SavedIsStored, OptionKeys
<1>5. QED
  BY <1>1, <1>2, <1>4, OthersStand DEF EditsInv

LEMMA LeftTypes ==
  ASSUME SettingsTyped, NEW t \in Tab
  PROVE  Left(t) \in SUBSET Mutations /\ \A q \in Left(t) : ~ q.live
<1>1. \A q \in Mutations : [q EXCEPT !.live = FALSE] \in Mutations /\ ~ [q EXCEPT !.live = FALSE].live
  BY DEF Mutations
<1>2. QED
  BY <1>1 DEF Left, SettingsTyped

LEMMA CloseIs ==
  ASSUME EditsInv, NEW t \in Tab, Close(t)
  PROVE  /\ requests' \in [Tab -> SUBSET Mutations] /\ \A q \in requests'[t] : ~ q.live
         /\ editor' \in [Tab -> Editors] /\ editor'[t] = Closed
         /\ mine' \in [Tab -> OptionRows] /\ mine'[t] = NoEdits
         /\ \A u \in Tab \ {t} : /\ editor'[u] = editor[u] /\ requests'[u] = requests[u]
                                 /\ mine'[u] = mine[u]
<1>1. NoEdits \in OptionRows
  BY DEF NoEdits, OptionRows
<1>2. /\ requests \in [Tab -> SUBSET Mutations] /\ editor \in [Tab -> Editors] /\ Closed \in Editors
      /\ mine \in [Tab -> OptionRows] /\ SettingsTyped
  BY DEF EditsInv, SettingsTyped, Editors
<1> HIDE DEF Editors
<1>3. Left(t) \in SUBSET Mutations /\ \A q \in Left(t) : ~ q.live
  BY <1>2, LeftTypes
<1>4. QED
  BY <1>1, <1>2, <1>3 DEF Close

LEMMA ClosesKeep ==
  ASSUME EditsInv, NEW t \in Tab, Leave(t) \/ Return(t) \/ FetchFails(t)
  PROVE  EditsInv'
<1>1. CASE Leave(t)
  <2>1. UNCHANGED <<kind, view, edits, told, list>> /\ Close(t)
    BY <1>1 DEF Leave
  <2>2. told \in [Tab -> BOOLEAN] /\ list \in [Tab -> Lists] /\ Attached(t)
    BY DEF EditsInv, SettingsTyped
  <2>3. QED
    BY <2>1, <2>2, CloseIs, ClosedKeeps DEF Attached
<1>2. CASE FetchFails(t)
  <2>1. UNCHANGED <<kind, view, edits, told>> /\ Close(t)
        /\ list' = [list EXCEPT ![t] = Fetched(list[t], Failed)]
    BY <1>2 DEF FetchFails
  <2>2. told \in [Tab -> BOOLEAN] /\ list \in [Tab -> Lists]
    BY DEF EditsInv, SettingsTyped
  <2>3. Fetched(list[t], Failed) \in Lists /\ Fetched(list[t], Failed).fetch = "none"
    <3>1. list[t] \in Lists /\ Failed \in ViewRows \cup {Gone, Failed}
      BY <2>2
    <3>2. QED
      BY <3>1, FetchedIs
  <2>4. list' \in [Tab -> Lists] /\ list'[t].fetch = "none" /\ \A u \in Tab \ {t} : list'[u] = list[u]
    BY <2>1, <2>2, <2>3
  <2>5. QED
    BY <2>1, <2>2, <2>4, CloseIs, ClosedKeeps
<1>3. CASE Return(t)
  <2>1. /\ ~editor[t].open /\ list[t].shown \notin {Gone, Failed}
        /\ editor' = [editor EXCEPT ![t] = Opened(list[t].shown)]
        /\ UNCHANGED <<kind, view, edits, told, list, requests, mine>>
    BY <1>3 DEF Return
  <2>2. /\ told \in [Tab -> BOOLEAN] /\ list \in [Tab -> Lists] /\ requests \in [Tab -> SUBSET Mutations]
        /\ mine \in [Tab -> OptionRows] /\ editor \in [Tab -> Editors] /\ Attached(t)
    BY DEF EditsInv, SettingsTyped
  <2>3. list[t].shown \in ViewRows
    <3>1. list[t] \in Lists
      BY <2>2
    <3>2. list[t].shown \in ViewRows \cup {Gone, Failed}
      BY <3>1, ListTypes
    <3>3. QED
      BY <2>1, <3>2
  <2>4. Opened(list[t].shown) \in Editors
    BY <2>3, Opens DEF Editors
  <2>5. mine[t] = NoEdits /\ \A q \in requests[t] : ~ q.live
    BY <2>1, <2>2, Placeholders DEF Attached
  <2>6. editor' \in [Tab -> Editors] /\ editor'[t] = Opened(list[t].shown)
        /\ \A u \in Tab \ {t} : editor'[u] = editor[u]
    BY <2>1, <2>2, <2>4
  <2>7. list[t].fetch = "read" => list[t].got # Nothing
    BY <2>2 DEF Attached
  <2>8. QED
    BY <2>1, <2>2, <2>3, <2>5, <2>6, <2>7, ClosedKeeps
<1>4. QED
  BY <1>1, <1>2, <1>3

(* What FetchLands does, as one of three things. *)
LEMMA Landings ==
  ASSUME EditsInv, NEW t \in Tab, FetchLands(t)
  PROVE  /\ list[t].fetch = "read" /\ list' = [list EXCEPT ![t] = Fetched(list[t], list[t].got)]
         /\ UNCHANGED <<kind, view, told, edits, mishaps, unheard>>
         /\ \/ list[t].got = Gone /\ Close(t)
            \/ /\ list[t].got \in ViewRows /\ editor[t].open /\ UNCHANGED <<requests, mine>>
               /\ editor' = Adopted(t, list[t].got)
            \/ /\ list[t].got \in ViewRows /\ ~ editor[t].open /\ UNCHANGED <<requests, mine>>
               /\ \/ editor' = editor
                  \/ editor' = [editor EXCEPT ![t] = Opened(list[t].got)]
<1>1. list[t] \in Lists /\ list[t].fetch = "read" /\ list[t].got # Nothing
  BY DEF FetchLands, EditsInv, SettingsTyped, Attached
<1>2. list[t].got \in ViewRows \cup {Gone}
  BY <1>1, ListTypes
<1>3. editor[t].open => list[t].shown \notin {Gone, Failed}
  BY Placeholders DEF EditsInv, Attached
<1>4. QED
  BY <1>1, <1>2, <1>3 DEF FetchLands

LEMMA LandsKeeps ==
  ASSUME EditsInv, NEW t \in Tab, FetchLands(t)
  PROVE  EditsInv'
<1> DEFINE row == list[t].got
           l == Fetched(list[t], row)
<1>1. /\ list \in [Tab -> Lists] /\ list[t] \in Lists /\ told \in [Tab -> BOOLEAN]
      /\ requests \in [Tab -> SUBSET Mutations] /\ mine \in [Tab -> OptionRows]
      /\ editor \in [Tab -> Editors] /\ Attached(t) /\ EditsKept(t)
  BY DEF EditsInv, SettingsTyped
<1>2. row \in ViewRows \cup {Gone} /\ UNCHANGED <<kind, view, told, edits>>
      /\ list' = [list EXCEPT ![t] = l] /\ list[t].fetch = "read"
  BY Landings
<1>3. l \in Lists /\ l.shown = row /\ l.fetch = "none"
  <2> HIDE DEF row
  <2>1. list[t] \in Lists /\ row \in ViewRows \cup {Gone, Failed}
    BY <1>1, <1>2
  <2>2. QED
    BY <2>1, FetchedIs
<1> HIDE DEF l, row
<1>4. list' \in [Tab -> Lists] /\ list'[t].shown = row /\ list'[t].fetch = "none"
      /\ \A u \in Tab \ {t} : list'[u] = list[u]
  BY <1>1, <1>2, <1>3
<1>5. CASE row = Gone /\ Close(t)
  BY <1>1, <1>2, <1>4, <1>5, CloseIs, ClosedKeeps
<1>6. CASE /\ row \in ViewRows /\ ~ editor[t].open /\ UNCHANGED <<requests, mine>>
           /\ \/ editor' = editor
              \/ editor' = [editor EXCEPT ![t] = Opened(row)]
  <2>1. mine[t] = NoEdits /\ (\A q \in requests[t] : ~ q.live) /\ editor[t] = Closed
    BY <1>1, <1>6, GridEditorTypes, DraftEditorTypes DEF Attached, Editors
  <2>2. Opened(row) \in Editors
    BY <1>6, Opens DEF Editors
  <2>3. /\ editor' \in [Tab -> Editors] /\ \A u \in Tab \ {t} : editor'[u] = editor[u]
        /\ editor'[t] \in {Closed, Opened(row)}
    BY <1>1, <1>6, <2>1, <2>2
  <2>4. QED
    BY <1>1, <1>2, <1>4, <1>6, <2>1, <2>3, ClosedKeeps
<1>7. CASE /\ row \in ViewRows /\ editor[t].open /\ UNCHANGED <<requests, mine>>
           /\ editor' = Adopted(t, row)
  <2>1. OptionsOf(row) \in OptionRows /\ \A k \in OptionKeys : OptionsOf(row)[k] = row[k]
    BY <1>7, RowOptions
  <2>2. kind = "grid" => editor[t] \in GridEditors
    BY <1>1, <1>7, Placeholders DEF Editors
  <2>3. \/ editor' = editor
        \/ /\ kind = "grid" /\ editor[t].queue = <<>>
           /\ editor' = [editor EXCEPT ![t] = [editor[t] EXCEPT !.draft = OptionsOf(row)]]
    BY <1>7 DEF Adopted, Adopts, Grid
  <2>4. /\ editor' \in [Tab -> Editors] /\ \A u \in Tab \ {t} : editor'[u] = editor[u]
        /\ \/ editor'[t] = editor[t]
           \/ /\ kind = "grid" /\ editor'[t].open /\ editor'[t].draft = OptionsOf(row)
              /\ editor'[t].queue = <<>> /\ editor[t].queue = <<>> /\ editor'[t].at = editor[t].at
              /\ editor'[t].widths = editor[t].widths
    <3> DEFINE e == [editor[t] EXCEPT !.draft = OptionsOf(row)]
    <3>1. kind = "grid" => /\ e \in Editors /\ e.open /\ e.draft = OptionsOf(row) /\ e.queue = editor[t].queue
                           /\ e.at = editor[t].at /\ e.widths = editor[t].widths
      <4> DEFINE o == OptionsOf(row)
      <4> HIDE DEF o
      <4>1. o \in OptionRows
        BY <2>1 DEF o
      <4>2. kind = "grid" =>
              /\ [editor[t] EXCEPT !.draft = o] \in GridEditors /\ [editor[t] EXCEPT !.draft = o].open
              /\ [editor[t] EXCEPT !.draft = o].draft = o
              /\ [editor[t] EXCEPT !.draft = o].queue = editor[t].queue
              /\ [editor[t] EXCEPT !.draft = o].at = editor[t].at
              /\ [editor[t] EXCEPT !.draft = o].widths = editor[t].widths
        BY <2>2, <4>1, GridDraftSet
      <4>3. QED
        BY <4>2 DEF o, Editors
    <3> HIDE DEF e, Editors
    <3>2. QED
      BY <1>1, <2>3, <3>1 DEF e
  <2>5. SettingsTyped'
    BY <1>1, <1>2, <1>4, <1>7, <2>4 DEF EditsInv, SettingsTyped, Editors
  <2>6. Attached(t)'
    BY <1>1, <1>2, <1>4, <1>7, <2>4 DEF Attached, Grid, Drafts
  <2>7. /\ (Grid(t)' <=> Grid(t)) /\ (Drafts(t)' <=> Drafts(t)) /\ (Follows(t)' <=> Follows(t))
        /\ (Unsaved(t)' <=> Unsaved(t))
    BY <1>2, <1>7, <2>4 DEF Grid, Drafts, Follows, Unsaved, Committed
  <2>8. \A k : SavedIsStored(t, k) => SavedIsStored(t, k)'
    BY <1>2, <1>4, <1>7, <2>7 DEF SavedIsStored
  <2>9. row # Gone
    BY <1>7, Placeholders
  <2>10. ASSUME Grid(t) PROVE EditsKept(t)'
    <3>1. editor'[t].draft # editor[t].draft => Follows(t)
      BY <1>1, <2>4, <2>10, EmptySeq DEF Follows, Attached
    <3>2. mine[t]["filter"] # 0 => editor'[t].draft["filter"] = mine[t]["filter"]
      BY <1>1, <1>2, <1>7, <2>1, <2>4, <2>9, <2>10, <3>1 DEF EditsKept, GridKept, SavedIsStored, OptionKeys, row
    <3>3. editor'[t].widths = editor[t].widths
      BY <2>4
    <3>4. /\ mine'[t] = mine[t] /\ ~ Drafts(t) /\ mine[t]["config"] = 0
          /\ mine[t]["columnWidth"] # 0 => editor[t].widths = mine[t]["columnWidth"]
          /\ SavedIsStored(t, "filter")
      BY <1>1, <1>7, <2>10 DEF EditsKept, GridKept, Grid, Drafts
    <3>5. SavedIsStored(t, "filter")'
      BY <2>8, <3>4
    <3>6. /\ mine'[t]["config"] = 0
          /\ mine'[t]["columnWidth"] # 0 => editor'[t].widths = mine'[t]["columnWidth"]
          /\ mine'[t]["filter"] # 0 => editor'[t].draft["filter"] = mine'[t]["filter"]
      BY <2>7, <3>2, <3>3, <3>4
    <3>7. GridKept(t)'
      BY <3>5, <3>6 DEF GridKept
    <3>8. (Grid(t)' => GridKept(t)') /\ (Drafts(t)' => DraftKept(t)')
      BY <2>7, <3>4, <3>7
    <3>9. QED
      BY <3>8 DEF EditsKept
  <2>11. ASSUME ~ Grid(t) PROVE EditsKept(t)'
    <3>1. editor'[t] = editor[t]
      BY <1>7, <2>4, <2>11 DEF Grid
    <3>2. Drafts(t) /\ Follows(t) /\ mine[t]["config"] # 0 => list'[t].shown["config"] = mine[t]["config"]
      BY <1>1, <1>2, <1>4, <1>7, <2>9 DEF EditsKept, DraftKept, SavedIsStored, row
    <3>3. ASSUME Drafts(t) PROVE DraftKept(t)'
      <4>1. DraftKept(t) /\ mine'[t] = mine[t]
        BY <1>1, <1>7, <3>3 DEF EditsKept
      <4>2. SavedIsStored(t, "config")'
        BY <2>8, <4>1 DEF DraftKept
      <4>3. Follows(t)' /\ mine[t]["config"] # 0 => list'[t].shown["config"] = mine[t]["config"]
        BY <2>7, <3>2, <3>3
      <4>4. QED
        BY <3>1, <4>1, <4>2, <4>3 DEF DraftKept
    <3>4. (Grid(t)' => GridKept(t)') /\ (Drafts(t)' => DraftKept(t)')
      BY <2>7, <2>11, <3>3
    <3>5. QED
      BY <3>4 DEF EditsKept
  <2>12. QED
    BY <1>2, <1>4, <1>7, <2>4, <2>5, <2>6, <2>10, <2>11, OthersStand DEF EditsInv
<1>8. QED
  BY <1>5, <1>6, <1>7, Landings DEF row

LEMMA SessionIs ==
  ASSUME EditsInv, NEW t \in Tab
  PROVE  /\ list[t] \in Lists /\ requests[t] \in SUBSET Mutations
         /\ mine[t] \in OptionRows /\ edits \in Nat /\ Attached(t)
         /\ editor[t].open \in BOOLEAN
         /\ Grid(t) => editor[t] \in GridEditors /\ GridKept(t)
         /\ Drafts(t) => editor[t] \in DraftEditors /\ DraftKept(t)
<1>1. /\ list[t] \in Lists /\ requests[t] \in SUBSET Mutations
      /\ mine[t] \in OptionRows /\ edits \in Nat /\ Attached(t) /\ EditsKept(t)
      /\ editor[t] \in Editors
  BY DEF EditsInv, SettingsTyped
<1>2. /\ Grid(t) => editor[t] \in GridEditors
      /\ Drafts(t) => editor[t] \in DraftEditors
  BY <1>1, Placeholders DEF Editors, Grid, Drafts
<1>3. editor[t].open \in BOOLEAN
  BY <1>1, Placeholders, GridEditorTypes, DraftEditorTypes DEF Editors
<1>4. QED
  BY <1>1, <1>2, <1>3 DEF EditsKept

(* A step of one session keeps the invariant if it keeps its own part. *)
LEMMA SessionStep ==
  ASSUME EditsInv, NEW t \in Tab, UNCHANGED <<kind, view, told>>, edits' \in Nat,
         NEW e \in Editors, NEW m \in OptionRows, NEW r \in SUBSET Mutations, NEW l \in Lists,
         editor' = [editor EXCEPT ![t] = e], mine' = [mine EXCEPT ![t] = m],
         requests' = [requests EXCEPT ![t] = r], list' = [list EXCEPT ![t] = l],
         Attached(t)', Grid(t)' => GridKept(t)', Drafts(t)' => DraftKept(t)'
  PROVE  EditsInv'
<1>1. /\ told \in [Tab -> BOOLEAN] /\ list \in [Tab -> Lists] /\ view \in ViewRows \cup {Gone}
      /\ requests \in [Tab -> SUBSET Mutations] /\ mine \in [Tab -> OptionRows]
      /\ editor \in [Tab -> Editors]
  BY DEF EditsInv, SettingsTyped
<1>2. /\ list' \in [Tab -> Lists] /\ requests' \in [Tab -> SUBSET Mutations]
      /\ mine' \in [Tab -> OptionRows] /\ editor' \in [Tab -> Editors]
  <2> HIDE DEF Editors, Lists, Mutations, OptionRows
  <2>1. QED
    BY <1>1
<1>3. \A u \in Tab \ {t} : /\ editor'[u] = editor[u] /\ list'[u] = list[u]
                           /\ requests'[u] = requests[u] /\ mine'[u] = mine[u]
  BY <1>1
<1>4. SettingsTyped'
  BY <1>1, <1>2 DEF SettingsTyped, Editors
<1>5. EditsKept(t)'
  BY DEF EditsKept
<1>6. \A u \in Tab \ {t} : Attached(u)' /\ EditsKept(u)'
  BY <1>3, OthersStand
<1>7. QED
  BY <1>4, <1>5, <1>6 DEF EditsInv

(* A package at the end of the queue is unsaved. *)
LEMMA PackageAdded ==
  ASSUME EditsInv, NEW t \in Tab, Grid(t), UNCHANGED <<kind, requests, list>>,
         NEW e \in GridEditors, editor'[t] = e,
         e.at = editor[t].at, e.queue = Append(editor[t].queue, e.draft)
  PROVE  Grid(t)' /\ Attached(t)' /\ Unsaved(t)' /\ ~ Follows(t)' /\ ~ Drafts(t)'
<1>1. /\ editor[t] \in GridEditors /\ Attached(t) /\ requests[t] \in SUBSET Mutations
      /\ editor[t].queue \in Seq(OptionRows) /\ e.draft \in OptionRows /\ e.open
      /\ editor[t].at \in {"idle", "sent", "reconcile"}
  BY SessionIs, GridEditorTypes
<1> DEFINE s == editor[t].queue
<1>2. /\ Len(e.queue) = Len(s) + 1 /\ e.queue # <<>>
      /\ e.queue[Len(e.queue)] = e.draft
      /\ s # <<>> => Head(e.queue) = Head(s) /\ Len(s) > 0
      /\ Len(s) \in Nat
  <2>1. s \in Seq(OptionRows) /\ e.draft \in OptionRows /\ e.queue = Append(s, e.draft)
    BY <1>1
  <2> HIDE DEF s
  <2>2. QED
    BY <2>1, AppendProperties, EmptySeq
<1>3. Grid(t)' /\ ~ Drafts(t)'
  BY <1>1 DEF Grid, Drafts
<1>4. Attached(t)'
  BY <1>1, <1>2, <1>3 DEF Attached, Grid, Drafts
<1>5. Committed(t)' => s # <<>>
  BY <1>1 DEF Committed, Attached
<1>6. Unsaved(t)'
  BY <1>2, <1>3, <1>5 DEF Unsaved
<1>7. ~ Follows(t)'
  BY <1>1, <1>2, <1>3 DEF Follows, Grid, Attached
<1>8. QED
  BY <1>3, <1>4, <1>6, <1>7

LEMMA PatchKeeps ==
  ASSUME EditsInv, NEW t \in Tab, Patch(t)
  PROVE  EditsInv'
<1>0. PICK v \in Nat : v = edits'
  BY SessionIs DEF Patch, Choose
<1> DEFINE e == Patched(editor[t], "filter", v)
           m == [mine[t] EXCEPT !["filter"] = v]
<1>1. /\ Grid(t) /\ edits' \in Nat /\ UNCHANGED <<kind, view, told, list, requests>>
      /\ editor[t] \in GridEditors /\ GridKept(t) /\ mine[t] \in OptionRows
      /\ requests[t] \in SUBSET Mutations /\ list[t] \in Lists
  BY SessionIs DEF Patch, Choose
<1>2. /\ editor \in [Tab -> Editors] /\ mine \in [Tab -> OptionRows]
      /\ list \in [Tab -> Lists] /\ requests \in [Tab -> SUBSET Mutations]
  BY DEF EditsInv, SettingsTyped
<1>3. editor' = [editor EXCEPT ![t] = e] /\ mine' = [mine EXCEPT ![t] = m]
      /\ requests' = [requests EXCEPT ![t] = requests[t]] /\ list' = [list EXCEPT ![t] = list[t]]
  BY <1>0, <1>1, <1>2 DEF Patch, Edited
<1> DEFINE next == [editor[t].draft EXCEPT !["filter"] = v]
<1>4. /\ e \in GridEditors /\ e.draft = next /\ e.queue = Append(editor[t].queue, next)
      /\ e.at = editor[t].at /\ e.widths = editor[t].widths
  BY <1>0, <1>1, GridEdits DEF OptionKeys
<1>5. m \in OptionRows /\ m["config"] = mine[t]["config"] /\ m["columnWidth"] = mine[t]["columnWidth"]
      /\ m["filter"] = v
  BY <1>0, <1>1 DEF OptionRows, OptionKeys
<1>6. e.draft["filter"] = v
  BY <1>0, <1>1, <1>4, GridEditorTypes DEF OptionRows, OptionKeys
<1> HIDE DEF e, m, next
<1>7. e \in Editors
  BY <1>1, <1>4 DEF Editors, Grid
<1>8. editor'[t] = e /\ mine'[t] = m
  BY <1>2, <1>3
<1>9. Grid(t)' /\ Attached(t)' /\ Unsaved(t)' /\ ~ Follows(t)' /\ ~ Drafts(t)'
  BY <1>1, <1>4, <1>8, PackageAdded
<1>10. GridKept(t)'
  BY <1>1, <1>4, <1>5, <1>6, <1>8, <1>9 DEF GridKept, SavedIsStored
<1>11. QED
  BY <1>1, <1>3, <1>5, <1>7, <1>9, <1>10, SessionStep

LEMMA CommitWidthsKeeps ==
  ASSUME EditsInv, NEW t \in Tab, CommitWidths(t)
  PROVE  EditsInv'
<1> DEFINE e == [Patched(editor[t], "columnWidth", editor[t].widths) EXCEPT !.timer = FALSE]
<1>1. /\ Grid(t) /\ edits' \in Nat /\ UNCHANGED <<kind, view, told, list, requests, mine>>
      /\ editor[t] \in GridEditors /\ GridKept(t) /\ mine[t] \in OptionRows
      /\ requests[t] \in SUBSET Mutations /\ list[t] \in Lists
      /\ editor[t].widths \in Nat /\ editor[t].draft \in OptionRows
  BY SessionIs, GridEditorTypes DEF CommitWidths
<1>2. /\ editor \in [Tab -> Editors] /\ mine \in [Tab -> OptionRows]
      /\ list \in [Tab -> Lists] /\ requests \in [Tab -> SUBSET Mutations]
  BY DEF EditsInv, SettingsTyped
<1>3. editor' = [editor EXCEPT ![t] = e] /\ mine' = [mine EXCEPT ![t] = mine[t]]
      /\ requests' = [requests EXCEPT ![t] = requests[t]] /\ list' = [list EXCEPT ![t] = list[t]]
  BY <1>1, <1>2 DEF CommitWidths
<1>4. /\ e \in GridEditors /\ e.at = editor[t].at /\ e.queue = Append(editor[t].queue, e.draft)
      /\ e.draft["filter"] = editor[t].draft["filter"] /\ e.widths = editor[t].widths
  <2> DEFINE next == [editor[t].draft EXCEPT !["columnWidth"] = editor[t].widths]
             p == Patched(editor[t], "columnWidth", editor[t].widths)
  <2>1. next["filter"] = editor[t].draft["filter"]
    BY <1>1 DEF OptionRows, OptionKeys
  <2>2. p \in GridEditors /\ p.draft = next /\ p.queue = Append(editor[t].queue, next)
        /\ p.at = editor[t].at /\ p.widths = editor[t].widths /\ e \in GridEditors
    BY <1>1, GridEdits DEF OptionKeys
  <2> HIDE DEF p, next
  <2>3. e = [p EXCEPT !.timer = FALSE]
    BY DEF p
  <2> HIDE DEF e
  <2>4. e.draft = p.draft /\ e.queue = p.queue /\ e.at = p.at /\ e.widths = p.widths
    BY <2>2, <2>3 DEF GridEditors
  <2>5. QED
    BY <2>1, <2>2, <2>4
<1> HIDE DEF e
<1>5. e \in Editors
  BY <1>1, <1>4 DEF Editors, Grid
<1>6. editor'[t] = e /\ mine'[t] = mine[t]
  BY <1>1, <1>2, <1>3
<1>7. Grid(t)' /\ Attached(t)' /\ Unsaved(t)' /\ ~ Follows(t)' /\ ~ Drafts(t)'
  BY <1>1, <1>4, <1>6, PackageAdded
<1>8. GridKept(t)'
  BY <1>1, <1>4, <1>6, <1>7 DEF GridKept, SavedIsStored
<1>9. QED
  BY <1>1, <1>3, <1>5, <1>7, <1>8, SessionStep

LEMMA ResizeKeeps ==
  ASSUME EditsInv, NEW t \in Tab, Resize(t)
  PROVE  EditsInv'
<1>1. /\ Grid(t) /\ edits' \in Nat /\ UNCHANGED <<kind, view, told, list, requests>>
      /\ editor[t] \in GridEditors /\ GridKept(t) /\ mine[t] \in OptionRows /\ Attached(t)
      /\ requests[t] \in SUBSET Mutations /\ list[t] \in Lists
  BY SessionIs DEF Resize, Choose
<1>2. PICK v \in Nat : v = edits'
  BY <1>1
<1> DEFINE e == [editor[t] EXCEPT !.widths = v, !.timer = TRUE]
           m == [mine[t] EXCEPT !["columnWidth"] = v]
<1>3. /\ editor \in [Tab -> Editors] /\ mine \in [Tab -> OptionRows]
      /\ list \in [Tab -> Lists] /\ requests \in [Tab -> SUBSET Mutations]
  BY DEF EditsInv, SettingsTyped
<1>4. editor' = [editor EXCEPT ![t] = e] /\ mine' = [mine EXCEPT ![t] = m]
      /\ requests' = [requests EXCEPT ![t] = requests[t]] /\ list' = [list EXCEPT ![t] = list[t]]
  BY <1>1, <1>2, <1>3 DEF Resize, Edited
<1>5. /\ e \in GridEditors /\ e.open /\ e.at = editor[t].at /\ e.queue = editor[t].queue
      /\ e.draft = editor[t].draft /\ e.widths = v
  BY <1>1, <1>2 DEF GridEditors
<1>6. m \in OptionRows /\ m["config"] = mine[t]["config"] /\ m["filter"] = mine[t]["filter"]
      /\ m["columnWidth"] = v
  BY <1>1, <1>2 DEF OptionRows, OptionKeys
<1> HIDE DEF e, m
<1>7. e \in Editors /\ editor'[t] = e /\ mine'[t] = m
  BY <1>1, <1>3, <1>4, <1>5 DEF Editors, Grid
<1>8. Grid(t)' /\ ~ Drafts(t)' /\ (Unsaved(t)' <=> Unsaved(t)) /\ (Follows(t)' <=> Follows(t))
  BY <1>1, <1>5, <1>7 DEF Grid, Drafts, Unsaved, Committed, Follows
<1>9. Attached(t)'
  BY <1>1, <1>5, <1>7, <1>8 DEF Attached, Grid
<1>10. GridKept(t)'
  BY <1>1, <1>5, <1>6, <1>7, <1>8 DEF GridKept, SavedIsStored, Grid
<1>11. QED
  BY <1>1, <1>4, <1>6, <1>7, <1>8, <1>9, <1>10, SessionStep

(* A request that is not answered yet commits nothing. *)
LEMMA AskIs ==
  ASSUME EditsInv, NEW t \in Tab, NEW put \in OptionRows \cup Names \cup {Gone}, NEW live \in BOOLEAN
  PROVE  LET q == [at |-> "sent", put |-> put, live |-> live]
             r == requests[t] \cup {q}
         IN /\ r \in SUBSET Mutations
            /\ (\E p \in r : p.live /\ p.at = "ok") <=> (\E p \in requests[t] : p.live /\ p.at = "ok")
            /\ ~ live => \A p \in r : p.live => p \in requests[t]
            /\ (\A p \in requests[t] : ~ p.live) => \A p \in r : p.live => p = q
BY SessionIs DEF Mutations

LEMMA SendPatchKeeps ==
  ASSUME EditsInv, NEW t \in Tab, SendPatch(t)
  PROVE  EditsInv'
<1>1. /\ Grid(t) /\ edits' \in Nat /\ UNCHANGED <<kind, view, told, list, mine>>
      /\ editor[t].at = "idle" /\ editor[t].queue # <<>>
      /\ editor[t] \in GridEditors /\ GridKept(t) /\ mine[t] \in OptionRows /\ Attached(t)
      /\ requests[t] \in SUBSET Mutations /\ list[t] \in Lists
  BY SessionIs DEF SendPatch
<1> DEFINE put == Head(editor[t].queue)
           q == [at |-> "sent", put |-> put, live |-> TRUE]
           r == requests[t] \cup {q}
           e == [editor[t] EXCEPT !.at = "sent"]
<1>2. /\ editor \in [Tab -> Editors] /\ mine \in [Tab -> OptionRows]
      /\ list \in [Tab -> Lists] /\ requests \in [Tab -> SUBSET Mutations]
  BY DEF EditsInv, SettingsTyped
<1>3. editor' = [editor EXCEPT ![t] = e] /\ mine' = [mine EXCEPT ![t] = mine[t]]
      /\ requests' = [requests EXCEPT ![t] = r] /\ list' = [list EXCEPT ![t] = list[t]]
  BY <1>1, <1>2 DEF SendPatch, Ask
<1>4. /\ e \in GridEditors /\ e.open /\ e.at = "sent" /\ e.queue = editor[t].queue
      /\ e.draft = editor[t].draft /\ e.widths = editor[t].widths
  BY <1>1, GridAtSet
<1>5. put \in OptionRows /\ q.live /\ q.at = "sent" /\ q.put = put
  BY <1>1, QueueMoves
<1>6. \A p \in requests[t] : ~ p.live
  BY <1>1 DEF Attached
<1> HIDE DEF put
<1>7. r \in SUBSET Mutations /\ (\A p \in r : p.live => p = q)
      /\ ~ (\E p \in r : p.live /\ p.at = "ok")
  BY <1>5, <1>6, AskIs
<1> HIDE DEF q, r, e
<1>8. e \in Editors /\ editor'[t] = e /\ requests'[t] = r
  BY <1>1, <1>2, <1>3, <1>4 DEF Editors, Grid
<1>9. Grid(t)' /\ ~ Drafts(t)'
  BY <1>1, <1>4, <1>8 DEF Grid, Drafts
<1>10. (Unsaved(t)' <=> Unsaved(t)) /\ (Follows(t)' <=> Follows(t))
  BY <1>1, <1>4, <1>6, <1>7, <1>8, <1>9 DEF Unsaved, Committed, Follows, Grid
<1>11. Attached(t)'
  BY <1>1, <1>4, <1>5, <1>7, <1>8, <1>9 DEF Attached, Grid, put
<1>12. GridKept(t)'
  BY <1>1, <1>4, <1>8, <1>10 DEF GridKept, SavedIsStored, Grid
<1>13. QED
  BY <1>1, <1>3, <1>7, <1>8, <1>9, <1>11, <1>12, SessionStep

LEMMA EditDraftKeeps ==
  ASSUME EditsInv, NEW t \in Tab, EditDraft(t)
  PROVE  EditsInv'
<1>1. /\ Drafts(t) /\ edits' \in Nat \ {0} /\ UNCHANGED <<kind, view, told, list, requests>>
      /\ editor[t].at = "idle"
      /\ editor[t] \in DraftEditors /\ DraftKept(t) /\ mine[t] \in OptionRows /\ Attached(t)
      /\ requests[t] \in SUBSET Mutations /\ list[t] \in Lists
  BY SessionIs DEF EditDraft, Choose, Editable
<1>2. PICK v \in Nat \ {0} : v = edits'
  BY <1>1
<1> DEFINE o == IF editor[t].draft = 0 THEN Snapshot(t) ELSE editor[t].baseline
           e == [editor[t] EXCEPT !.draft = v, !.baseline = o]
           m == [mine[t] EXCEPT !["config"] = v]
<1>3. /\ editor \in [Tab -> Editors] /\ mine \in [Tab -> OptionRows]
      /\ list \in [Tab -> Lists] /\ requests \in [Tab -> SUBSET Mutations]
  BY DEF EditsInv, SettingsTyped
<1>4. editor' = [editor EXCEPT ![t] = e] /\ mine' = [mine EXCEPT ![t] = m]
      /\ requests' = [requests EXCEPT ![t] = requests[t]] /\ list' = [list EXCEPT ![t] = list[t]]
  BY <1>1, <1>2, <1>3 DEF EditDraft, Edited
<1>5. o \in OptionRows
  <2>1. list[t].shown \in ViewRows
    BY <1>1 DEF Attached, Drafts
  <2>2. OptionsOf(list[t].shown) \in OptionRows
    BY <2>1, RowOptions
  <2>3. [NoEdits EXCEPT !["config"] = list[t].shown["config"]] \in OptionRows
    BY <2>1 DEF ViewRows, Keys, OptionKeys, NoEdits, OptionRows
  <2>4. QED
    BY <1>1, <2>2, <2>3, DraftEditorTypes DEF Snapshot
<1> HIDE DEF o
<1>6. e \in DraftEditors /\ e.open /\ e.at = "idle" /\ e.draft = v
  BY <1>1, <1>5 DEF DraftEditors
<1>7. m \in OptionRows /\ m["config"] = v /\ m["filter"] = mine[t]["filter"]
      /\ m["columnWidth"] = mine[t]["columnWidth"]
  BY <1>1, <1>2 DEF OptionRows, OptionKeys
<1> HIDE DEF e, m
<1>8. e \in Editors /\ editor'[t] = e /\ mine'[t] = m
  BY <1>1, <1>3, <1>4, <1>6 DEF Editors, Drafts
<1>9. Drafts(t)' /\ ~ Grid(t)' /\ Unsaved(t)' /\ ~ Follows(t)'
  BY <1>1, <1>2, <1>6, <1>8 DEF Grid, Drafts, Unsaved, Committed, Follows, Attached
<1>10. Attached(t)'
  BY <1>1, <1>6, <1>8, <1>9 DEF Attached, Drafts
<1>11. DraftKept(t)'
  BY <1>1, <1>2, <1>6, <1>7, <1>8, <1>9 DEF DraftKept, SavedIsStored
<1>12. QED
  BY <1>1, <1>4, <1>7, <1>8, <1>9, <1>10, <1>11, SessionStep

LEMMA DiscardDraftKeeps ==
  ASSUME EditsInv, NEW t \in Tab, DiscardDraft(t)
  PROVE  EditsInv'
<1>1. /\ Drafts(t) /\ edits' \in Nat /\ UNCHANGED <<kind, view, told, list, requests>>
      /\ editor[t].at = "idle"
      /\ editor[t] \in DraftEditors /\ DraftKept(t) /\ mine[t] \in OptionRows /\ Attached(t)
      /\ requests[t] \in SUBSET Mutations /\ list[t] \in Lists
  BY SessionIs DEF DiscardDraft, Editable
<1> DEFINE e == [editor[t] EXCEPT !.draft = 0, !.baseline = NoEdits]
           m == [mine[t] EXCEPT !["config"] = 0]
<1>2. /\ editor \in [Tab -> Editors] /\ mine \in [Tab -> OptionRows]
      /\ list \in [Tab -> Lists] /\ requests \in [Tab -> SUBSET Mutations]
  BY DEF EditsInv, SettingsTyped
<1>3. editor' = [editor EXCEPT ![t] = e] /\ mine' = [mine EXCEPT ![t] = m]
      /\ requests' = [requests EXCEPT ![t] = requests[t]] /\ list' = [list EXCEPT ![t] = list[t]]
  BY <1>1, <1>2 DEF DiscardDraft
<1>4. NoEdits \in OptionRows
  BY DEF NoEdits, OptionRows
<1>5. e \in DraftEditors /\ e.open /\ e.at = "idle" /\ e.draft = 0
  BY <1>1, <1>4 DEF DraftEditors
<1>6. m \in OptionRows /\ m["config"] = 0 /\ m["filter"] = mine[t]["filter"]
      /\ m["columnWidth"] = mine[t]["columnWidth"]
  BY <1>1 DEF OptionRows, OptionKeys
<1> HIDE DEF e, m
<1>7. e \in Editors /\ editor'[t] = e /\ mine'[t] = m
  BY <1>1, <1>2, <1>3, <1>5 DEF Editors, Drafts
<1>8. Drafts(t)' /\ ~ Grid(t)'
  BY <1>1, <1>5, <1>7 DEF Grid, Drafts
<1>9. Attached(t)'
  BY <1>1, <1>5, <1>7, <1>8 DEF Attached, Drafts
<1>10. DraftKept(t)'
  BY <1>1, <1>5, <1>6, <1>7 DEF DraftKept, SavedIsStored
<1>11. QED
  BY <1>1, <1>3, <1>6, <1>7, <1>8, <1>9, <1>10, SessionStep

LEMMA SaveDraftKeeps ==
  ASSUME EditsInv, NEW t \in Tab, SaveDraft(t)
  PROVE  EditsInv'
<1>1. /\ Drafts(t) /\ edits' \in Nat /\ UNCHANGED <<kind, view, told, list>>
      /\ editor[t].at = "idle"
      /\ editor[t] \in DraftEditors /\ DraftKept(t) /\ mine[t] \in OptionRows /\ Attached(t)
      /\ requests[t] \in SUBSET Mutations /\ list[t] \in Lists
  BY SessionIs DEF SaveDraft, Choose
<1> DEFINE row == OptionsOf(list[t].shown)
           put == IF editor[t].draft = 0 THEN row ELSE [row EXCEPT !["config"] = editor[t].draft]
           q == [at |-> "sent", put |-> put, live |-> TRUE]
           r == requests[t] \cup {q}
           e == [editor[t] EXCEPT !.at = "sent"]
           m == IF editor[t].draft = 0 THEN [mine[t] EXCEPT !["config"] = 0] ELSE mine[t]
<1>2. /\ editor \in [Tab -> Editors] /\ mine \in [Tab -> OptionRows]
      /\ list \in [Tab -> Lists] /\ requests \in [Tab -> SUBSET Mutations]
  BY DEF EditsInv, SettingsTyped
<1>3. editor' = [editor EXCEPT ![t] = e] /\ mine' = [mine EXCEPT ![t] = m]
      /\ requests' = [requests EXCEPT ![t] = r] /\ list' = [list EXCEPT ![t] = list[t]]
  BY <1>1, <1>2 DEF SaveDraft, Ask
<1>4. /\ e \in DraftEditors /\ e.open /\ e.at = "sent" /\ e.draft = editor[t].draft
  BY <1>1, DraftAtSet
<1>5. m \in OptionRows /\ (editor[t].draft = 0 => m["config"] = 0)
      /\ (editor[t].draft # 0 => m["config"] = mine[t]["config"])
      /\ m["filter"] = mine[t]["filter"] /\ m["columnWidth"] = mine[t]["columnWidth"]
  BY <1>1 DEF OptionRows, OptionKeys
<1>6. put \in OptionRows /\ (editor[t].draft # 0 => put["config"] = editor[t].draft)
  <2>1. list[t].shown \in ViewRows
    BY <1>1 DEF Attached, Drafts
  <2>2. row \in OptionRows /\ editor[t].draft \in Nat
    BY <1>1, <2>1, RowOptions, DraftEditorTypes
  <2> HIDE DEF row
  <2>3. QED
    BY <2>2 DEF OptionRows, OptionKeys
<1>7. \A p \in requests[t] : ~ p.live
  BY <1>1 DEF Attached
<1> HIDE DEF put
<1>8. q.live /\ q.at = "sent" /\ q.put = put
  OBVIOUS
<1>9. r \in SUBSET Mutations /\ (\A p \in r : p.live => p = q)
      /\ ~ (\E p \in r : p.live /\ p.at = "ok")
  BY <1>6, <1>7, AskIs
<1> HIDE DEF q, r, e, m
<1>10. e \in Editors /\ editor'[t] = e /\ requests'[t] = r /\ mine'[t] = m
  BY <1>1, <1>2, <1>3, <1>4 DEF Editors, Drafts
<1>11. Drafts(t)' /\ ~ Grid(t)'
  BY <1>1, <1>4, <1>10 DEF Grid, Drafts
<1>12. editor[t].draft # 0 => Unsaved(t)' /\ ~ Follows(t)'
  BY <1>1, <1>4, <1>9, <1>10, <1>11 DEF Unsaved, Committed, Follows, Drafts
<1>13. Attached(t)'
  BY <1>1, <1>4, <1>5, <1>6, <1>8, <1>9, <1>10, <1>11 DEF Attached, Drafts
<1>14. DraftKept(t)'
  BY <1>1, <1>4, <1>5, <1>10, <1>12 DEF DraftKept, SavedIsStored
<1>15. QED
  BY <1>1, <1>3, <1>5, <1>9, <1>10, <1>11, <1>13, <1>14, SessionStep

LEMMA AsksKeep ==
  ASSUME EditsInv, NEW t \in Tab, Rename(t) \/ Remove(t)
  PROVE  EditsInv'
<1>1. /\ edits' \in Nat /\ UNCHANGED <<kind, view, told, list, editor, mine>>
      /\ mine[t] \in OptionRows /\ Attached(t) /\ requests[t] \in SUBSET Mutations /\ list[t] \in Lists
      /\ Grid(t) => GridKept(t)
      /\ Drafts(t) => DraftKept(t)
  <2>1. edits' \in Nat /\ UNCHANGED <<kind, view, told, list, editor, mine>>
    <3>1. edits \in Nat
      BY SessionIs
    <3>2. edits' = edits + 1
      BY DEF Rename, Remove, Choose
    <3>3. UNCHANGED <<kind, view, told, list, editor, mine>>
      BY DEF Rename, Remove
    <3>4. edits' \in Nat
      BY <3>1, <3>2
    <3>5. QED
      BY <3>3, <3>4
  <2>2. QED
    BY <2>1, SessionIs
<1>2. /\ editor \in [Tab -> Editors] /\ mine \in [Tab -> OptionRows]
      /\ list \in [Tab -> Lists] /\ requests \in [Tab -> SUBSET Mutations]
  BY DEF EditsInv, SettingsTyped
<1>3. PICK put \in Names \cup {Gone} :
        requests' = [requests EXCEPT ![t] = requests[t] \cup {[at |-> "sent", put |-> put, live |-> FALSE]}]
  BY <1>1, <1>2 DEF Rename, Remove, Ask, Names, Choose
<1> DEFINE q == [at |-> "sent", put |-> put, live |-> FALSE]
           r == requests[t] \cup {q}
<1>4. r \in SUBSET Mutations /\ (\A p \in r : p.live => p \in requests[t])
      /\ ((\E p \in r : p.live /\ p.at = "ok") <=> (\E p \in requests[t] : p.live /\ p.at = "ok"))
  BY AskIs
<1>5. requests' = [requests EXCEPT ![t] = r]
  BY <1>3
<1> HIDE DEF r
<1>6. /\ editor' = [editor EXCEPT ![t] = editor[t]] /\ mine' = [mine EXCEPT ![t] = mine[t]]
      /\ list' = [list EXCEPT ![t] = list[t]] /\ editor[t] \in Editors /\ requests'[t] = r
  BY <1>1, <1>2, <1>5
<1>7. /\ (Grid(t)' <=> Grid(t)) /\ (Drafts(t)' <=> Drafts(t)) /\ (Follows(t)' <=> Follows(t))
      /\ (Unsaved(t)' <=> Unsaved(t))
  BY <1>1, <1>4, <1>6 DEF Grid, Drafts, Unsaved, Committed, Follows
<1>8. Attached(t)'
  BY <1>1, <1>4, <1>6, <1>7 DEF Attached
<1>9. Grid(t)' => GridKept(t)'
  BY <1>1, <1>7 DEF GridKept, SavedIsStored
<1>10. Drafts(t)' => DraftKept(t)'
  BY <1>1, <1>7 DEF DraftKept, SavedIsStored
<1>11. QED
  BY <1>1, <1>4, <1>5, <1>6, <1>8, <1>9, <1>10, SessionStep

(* An answer takes its request away. *)
LEMMA SucceedKeeps ==
  ASSUME EditsInv, NEW t \in Tab, NEW q \in requests[t], Succeed(t, q)
  PROVE  EditsInv'
<1> DEFINE r == requests[t] \ {q}
           l == Invalidated(list[t], q.live)
           e == IF q.live THEN [editor[t] EXCEPT !.at = "reconcile"] ELSE editor[t]
<1>1. /\ edits' \in Nat /\ UNCHANGED <<kind, view, told, mine>> /\ q.at = "ok"
      /\ mine[t] \in OptionRows /\ Attached(t) /\ requests[t] \in SUBSET Mutations /\ list[t] \in Lists
      /\ Grid(t) => editor[t] \in GridEditors /\ GridKept(t)
      /\ Drafts(t) => editor[t] \in DraftEditors /\ DraftKept(t)
      /\ editor[t].open \in BOOLEAN /\ q.live \in BOOLEAN
  <2>1. q \in Mutations
    BY SessionIs
  <2>2. q.live \in BOOLEAN
    BY <2>1 DEF Mutations
  <2>3. QED
    BY <2>2, SessionIs DEF Succeed
<1>2. /\ editor \in [Tab -> Editors] /\ mine \in [Tab -> OptionRows]
      /\ list \in [Tab -> Lists] /\ requests \in [Tab -> SUBSET Mutations]
  BY DEF EditsInv, SettingsTyped
<1>3. /\ editor' = [editor EXCEPT ![t] = e] /\ mine' = [mine EXCEPT ![t] = mine[t]]
      /\ requests' = [requests EXCEPT ![t] = r] /\ list' = [list EXCEPT ![t] = l]
  BY <1>1, <1>2 DEF Succeed, Done
<1>4. l \in Lists /\ l.shown = list[t].shown /\ l.fetch = "asked"
  BY <1>1, ListTypes
<1>5. q.live => editor[t].open /\ editor[t].at = "sent" /\ \A p \in r : ~ p.live
  BY <1>1 DEF Attached
<1>6. /\ e \in Editors /\ e.open = editor[t].open
      /\ q.live => e.at = "reconcile"
      /\ ~ q.live => e.at = editor[t].at
      /\ Grid(t) => /\ e.queue = editor[t].queue /\ e.draft = editor[t].draft
                    /\ e.widths = editor[t].widths
      /\ Drafts(t) => e.draft = editor[t].draft
  <2>1. CASE ~ q.live
    BY <1>2, <2>1
  <2>2. CASE q.live /\ kind = "grid"
    <3>1. editor[t] \in GridEditors /\ ~ Drafts(t) /\ editor[t].open
      BY <1>1, <1>5, <2>2 DEF Grid, Drafts
    <3>2. QED
      BY <2>2, <3>1 DEF GridEditors, Editors
  <2>3. CASE q.live /\ kind # "grid"
    <3>1. editor[t] \in DraftEditors /\ ~ Grid(t) /\ editor[t].open
      BY <1>1, <1>5, <2>3 DEF Grid, Drafts
    <3>2. QED
      BY <2>3, <3>1 DEF DraftEditors, Editors
  <2>4. QED
    BY <2>1, <2>2, <2>3
<1>7. r \in SUBSET Mutations
  BY <1>1
<1>8. \A p \in r : p \in requests[t]
  OBVIOUS
<1>9. (\E p \in r : p.live /\ p.at = "ok") \/ q.live <=> \E p \in requests[t] : p.live /\ p.at = "ok"
  BY <1>1
<1> HIDE DEF e, l, r
<1>10. editor'[t] = e /\ requests'[t] = r /\ list'[t] = l
  BY <1>2, <1>3
<1>11. /\ (Grid(t)' <=> Grid(t)) /\ (Drafts(t)' <=> Drafts(t))
  BY <1>1, <1>6, <1>10 DEF Grid, Drafts
<1>12. Committed(t)' <=> Committed(t)
  BY <1>1, <1>5, <1>6, <1>9, <1>10 DEF Committed
<1>13. Unsaved(t)' <=> Unsaved(t)
  BY <1>6, <1>10, <1>11, <1>12 DEF Unsaved
<1>14. Attached(t)'
  BY <1>1, <1>4, <1>5, <1>6, <1>8, <1>10, <1>11 DEF Attached, Grid, Drafts
<1>15. Grid(t)' => GridKept(t)'
  BY <1>1, <1>4, <1>6, <1>10, <1>11, <1>13 DEF GridKept, SavedIsStored, Grid
<1>16. Drafts(t)' => DraftKept(t)'
  BY <1>1, <1>4, <1>6, <1>10, <1>11, <1>13 DEF DraftKept, SavedIsStored, Drafts
<1>17. QED
  BY <1>1, <1>3, <1>4, <1>6, <1>7, <1>14, <1>15, <1>16, SessionStep

(* The last package of a queue is the draft. *)
LEMMA LastPackage ==
  ASSUME EditsInv, NEW t \in Tab, Grid(t), editor[t].queue # <<>>, NEW e \in GridEditors,
         e.queue = Tail(editor[t].queue), e.draft = editor[t].draft
  PROVE  /\ Len(e.queue) \in Nat /\ Len(editor[t].queue) = Len(e.queue) + 1
         /\ Head(editor[t].queue) \in OptionRows
         /\ Len(e.queue) = 0 => Head(editor[t].queue) = editor[t].draft
         /\ e.queue # <<>> => e.queue[Len(e.queue)] = e.draft
<1>1. editor[t] \in GridEditors /\ Attached(t)
  BY SessionIs
<1>2. /\ Len(editor[t].queue) \in Nat \ {0} /\ Len(e.queue) = Len(editor[t].queue) - 1
      /\ e.queue \in Seq(OptionRows)
      /\ \A i \in 1..(Len(editor[t].queue) - 1) : e.queue[i] = editor[t].queue[i + 1]
      /\ Head(editor[t].queue) = editor[t].queue[1] /\ Head(editor[t].queue) \in OptionRows
  BY <1>1, QueueMoves
<1>3. editor[t].queue[Len(editor[t].queue)] = editor[t].draft
  BY <1>1 DEF Attached
<1>4. e.queue # <<>> => Len(e.queue) \in 1..(Len(editor[t].queue) - 1)
  BY <1>2, EmptySeq
<1>5. QED
  BY <1>2, <1>3, <1>4

LEMMA FailKeeps ==
  ASSUME EditsInv, NEW t \in Tab, NEW q \in requests[t], Fail(t, q)
  PROVE  EditsInv'
<1> DEFINE r == requests[t] \ {q}
<1>1. /\ edits' \in Nat /\ UNCHANGED <<kind, view, told, list>> /\ q.at = "failed"
      /\ mine[t] \in OptionRows /\ Attached(t) /\ requests[t] \in SUBSET Mutations /\ list[t] \in Lists
      /\ Grid(t) => editor[t] \in GridEditors /\ GridKept(t)
      /\ Drafts(t) => editor[t] \in DraftEditors /\ DraftKept(t)
      /\ editor[t].open \in BOOLEAN
  <2>1. edits' \in Nat /\ UNCHANGED <<kind, view, told, list>> /\ q.at = "failed"
    BY SessionIs DEF Fail
  <2>2. QED
    BY <2>1, SessionIs
<1>2. /\ editor \in [Tab -> Editors] /\ mine \in [Tab -> OptionRows]
      /\ list \in [Tab -> Lists] /\ requests \in [Tab -> SUBSET Mutations]
      /\ edits' \in Nat /\ UNCHANGED <<kind, view, told>>
      /\ mine[t] \in OptionRows /\ list[t] \in Lists
  BY <1>1 DEF EditsInv, SettingsTyped
<1>3. requests' = [requests EXCEPT ![t] = r] /\ list' = [list EXCEPT ![t] = list[t]]
  BY <1>1, <1>2 DEF Fail, Done
<1>4. r \in SUBSET Mutations /\ \A p \in r : p \in requests[t]
  BY <1>1
<1>5. q.live =>
        /\ editor[t].open /\ editor[t].at = "sent" /\ (\A p \in r : ~ p.live)
        /\ Grid(t) => q.put = Head(editor[t].queue) /\ editor[t].queue # <<>>
        /\ Drafts(t) /\ editor[t].draft = 0 => mine[t]["config"] = 0
  BY <1>1 DEF Attached
<1>6. (\E p \in r : p.live /\ p.at = "ok") <=> \E p \in requests[t] : p.live /\ p.at = "ok"
  BY <1>1
<1> HIDE DEF r
<1>7. requests'[t] = r /\ list'[t] = list[t]
  BY <1>2, <1>3
<1>8. CASE ~ q.live
  <2>1. editor' = editor /\ mine' = mine
    BY <1>8 DEF Fail
  <2>2. /\ editor' = [editor EXCEPT ![t] = editor[t]] /\ mine' = [mine EXCEPT ![t] = mine[t]]
        /\ editor[t] \in Editors
    BY <1>2, <2>1
  <2>3. /\ (Grid(t)' <=> Grid(t)) /\ (Drafts(t)' <=> Drafts(t)) /\ (Follows(t)' <=> Follows(t))
        /\ (Unsaved(t)' <=> Unsaved(t))
    BY <1>1, <1>6, <1>7, <2>1 DEF Grid, Drafts, Unsaved, Committed, Follows
  <2>4. Attached(t)'
    BY <1>1, <1>4, <1>7, <2>1, <2>3 DEF Attached
  <2>5. Grid(t)' => GridKept(t)'
    BY <1>1, <2>1, <2>3 DEF GridKept, SavedIsStored
  <2>6. Drafts(t)' => DraftKept(t)'
    BY <1>1, <2>1, <2>3 DEF DraftKept, SavedIsStored
  <2>7. QED
    BY <1>2, <1>3, <1>4, <2>2, <2>4, <2>5, <2>6, SessionStep
<1>9. CASE q.live /\ Grid(t)
  <2> DEFINE e == [editor[t] EXCEPT !.at = "idle", !.queue = Tail(@)]
             m == [mine[t] EXCEPT !["filter"] = IF q.put["filter"] = @ THEN 0 ELSE @]
  <2>1. editor' = [editor EXCEPT ![t] = e] /\ mine' = [mine EXCEPT ![t] = m]
    BY <1>2, <1>9 DEF Fail
  <2>2. /\ m \in OptionRows
        /\ m["config"] = mine[t]["config"] /\ m["columnWidth"] = mine[t]["columnWidth"]
        /\ m["filter"] # 0 => m["filter"] = mine[t]["filter"] /\ q.put["filter"] # mine[t]["filter"]
    BY <1>1 DEF OptionRows, OptionKeys
  <2>3. editor[t].queue # <<>> /\ q.put = Head(editor[t].queue)
    BY <1>5, <1>9
  <2>4. e \in GridEditors /\ e.open /\ e.at = "idle" /\ e.queue = Tail(editor[t].queue)
        /\ e.draft = editor[t].draft /\ e.widths = editor[t].widths
    <3>1. e \in GridEditors
      BY <1>1, <1>9, <2>3, QueueMoves
    <3>2. QED
      BY <1>1, <1>9, <3>1 DEF GridEditors
  <2> HIDE DEF e, m
  <2>5. e \in Editors /\ editor'[t] = e /\ mine'[t] = m
    BY <1>2, <1>9, <2>1, <2>4 DEF Editors, Grid
  <2>6. Grid(t)' /\ ~ Drafts(t)'
    BY <1>1, <1>9, <2>4, <2>5 DEF Grid, Drafts
  <2>7. /\ Len(e.queue) \in Nat /\ (Len(e.queue) = 0 => Head(editor[t].queue) = editor[t].draft)
        /\ (e.queue # <<>> => e.queue[Len(e.queue)] = e.draft)
    BY <1>9, <2>3, <2>4, LastPackage
  <2>8. ~ Unsaved(t)' \/ Follows(t)' => Len(e.queue) = 0
    <3>1. ~ Committed(t)'
      BY <1>5, <1>7, <1>9, <2>4, <2>5 DEF Committed
    <3>2. Unsaved(t)' <=> Len(e.queue) > 0
      BY <2>5, <2>6, <3>1 DEF Unsaved
    <3>3. Follows(t)' <=> Len(e.queue) = 0
      BY <1>2, <1>9, <2>4, <2>5 DEF Follows, Grid
    <3>4. QED
      BY <2>7, <3>2, <3>3
  <2>9. Attached(t)'
    BY <1>1, <1>5, <1>7, <1>9, <2>4, <2>5, <2>6, <2>7 DEF Attached, Grid
  <2>10. m["filter"] # 0 => editor[t].draft["filter"] = m["filter"] /\ Unsaved(t)' /\ ~ Follows(t)'
    BY <1>1, <1>9, <2>2, <2>3, <2>7, <2>8 DEF GridKept
  <2>11. GridKept(t)'
    BY <1>1, <1>9, <2>2, <2>4, <2>5, <2>10 DEF GridKept, SavedIsStored
  <2>12. QED
    BY <1>2, <1>3, <1>4, <2>1, <2>2, <2>5, <2>6, <2>9, <2>11, SessionStep
<1>10. CASE q.live /\ ~ Grid(t)
  <2> DEFINE e == [editor[t] EXCEPT !.at = "idle"]
  <2>1. /\ Drafts(t) /\ editor' = [editor EXCEPT ![t] = e] /\ mine' = [mine EXCEPT ![t] = mine[t]]
    BY <1>2, <1>5, <1>10 DEF Fail, Grid, Drafts
  <2>2. e \in DraftEditors /\ e.open /\ e.at = "idle" /\ e.draft = editor[t].draft
    BY <1>1, <2>1 DEF DraftEditors
  <2>3. e.draft = 0 => mine[t]["config"] = 0
    BY <1>5, <1>10, <2>1, <2>2
  <2> HIDE DEF e
  <2>4. e \in Editors /\ editor'[t] = e /\ mine'[t] = mine[t]
    BY <1>2, <2>1, <2>2 DEF Editors, Drafts
  <2>5. Drafts(t)' /\ ~ Grid(t)'
    BY <1>1, <2>1, <2>2, <2>4 DEF Grid, Drafts
  <2>6. e.draft # 0 => Unsaved(t)' /\ ~ Follows(t)'
    <3>1. ~ Committed(t)'
      BY <1>5, <1>7, <1>10, <2>2, <2>4 DEF Committed
    <3>2. QED
      BY <1>2, <2>1, <2>2, <2>4, <2>5, <3>1 DEF Unsaved, Follows, Drafts
  <2>7. Attached(t)'
    BY <1>1, <1>5, <1>7, <1>10, <2>1, <2>2, <2>4, <2>5 DEF Attached, Drafts
  <2>8. DraftKept(t)'
    BY <1>1, <2>1, <2>2, <2>3, <2>4, <2>6 DEF DraftKept, SavedIsStored
  <2>9. QED
    BY <1>2, <1>3, <1>4, <2>1, <2>4, <2>5, <2>7, <2>8, SessionStep
<1>11. QED
  BY <1>8, <1>9, <1>10

LEMMA ReconciledKeeps ==
  ASSUME EditsInv, NEW t \in Tab, Reconciled(t)
  PROVE  EditsInv'
<1>1. /\ edits' \in Nat /\ UNCHANGED <<kind, view, told, list, requests, mine>>
      /\ editor[t].open /\ editor[t].at = "reconcile"
      /\ mine[t] \in OptionRows /\ Attached(t) /\ requests[t] \in SUBSET Mutations /\ list[t] \in Lists
      /\ Grid(t) => editor[t] \in GridEditors /\ GridKept(t)
      /\ Drafts(t) => editor[t] \in DraftEditors /\ DraftKept(t)
  <2>1. /\ edits' \in Nat /\ UNCHANGED <<kind, view, told, list, requests, mine>>
        /\ editor[t].open /\ editor[t].at = "reconcile"
    BY SessionIs DEF Reconciled
  <2>2. QED
    BY <2>1, SessionIs
<1>2. /\ editor \in [Tab -> Editors] /\ mine \in [Tab -> OptionRows]
      /\ list \in [Tab -> Lists] /\ requests \in [Tab -> SUBSET Mutations]
      /\ edits' \in Nat /\ UNCHANGED <<kind, view, told>>
      /\ mine[t] \in OptionRows /\ list[t] \in Lists /\ requests[t] \in SUBSET Mutations
  BY <1>1 DEF EditsInv, SettingsTyped
<1>3. /\ mine' = [mine EXCEPT ![t] = mine[t]] /\ requests' = [requests EXCEPT ![t] = requests[t]]
      /\ list' = [list EXCEPT ![t] = list[t]]
      /\ mine'[t] = mine[t] /\ requests'[t] = requests[t] /\ list'[t] = list[t]
  BY <1>1, <1>2
<1>4. Committed(t) /\ \A q \in requests[t] : ~ q.live
  BY <1>1 DEF Committed, Attached
<1>5. CASE kind = "grid"
  <2> DEFINE e == [editor[t] EXCEPT !.at = "idle", !.queue = Tail(@)]
  <2>1. Grid(t) /\ editor' = [editor EXCEPT ![t] = e] /\ editor[t].queue # <<>>
    <3>1. Grid(t)
      BY <1>1, <1>5 DEF Grid
    <3>2. editor[t].queue # <<>>
      BY <1>1, <3>1 DEF Attached
    <3>3. editor' = [editor EXCEPT ![t] = e]
      BY <1>2, <1>5 DEF Reconciled
    <3>4. QED
      BY <3>1, <3>2, <3>3
  <2>2. e \in GridEditors /\ e.open /\ e.at = "idle" /\ e.queue = Tail(editor[t].queue)
        /\ e.draft = editor[t].draft /\ e.widths = editor[t].widths
    <3>1. e \in GridEditors
      BY <1>1, <2>1, QueueMoves
    <3>2. QED
      BY <1>1, <2>1, <3>1 DEF GridEditors
  <2> HIDE DEF e
  <2>3. e \in Editors /\ editor'[t] = e
    BY <1>2, <1>5, <2>1, <2>2 DEF Editors
  <2>4. Grid(t)' /\ ~ Drafts(t)'
    BY <1>1, <2>1, <2>2, <2>3 DEF Grid, Drafts
  <2>5. /\ Len(e.queue) \in Nat /\ Len(editor[t].queue) = Len(e.queue) + 1
        /\ (e.queue # <<>> => e.queue[Len(e.queue)] = e.draft)
    BY <2>1, <2>2, LastPackage
  <2>6. (Unsaved(t)' <=> Unsaved(t)) /\ (Follows(t)' <=> Follows(t))
    <3>1. ~ Committed(t)'
      BY <1>3, <1>4, <2>2, <2>3 DEF Committed
    <3>2. Unsaved(t)' <=> Len(e.queue) > 0
      BY <2>3, <2>4, <3>1 DEF Unsaved
    <3>3. Unsaved(t) <=> Len(editor[t].queue) > 1
      BY <1>4, <2>1 DEF Unsaved
    <3>4. (Follows(t)' <=> Len(e.queue) = 0) /\ (Follows(t) <=> Len(editor[t].queue) = 1)
      BY <1>1, <1>2, <1>5, <2>2, <2>3 DEF Follows
    <3>5. QED
      BY <2>5, <3>2, <3>3, <3>4
  <2>7. Attached(t)'
    BY <1>1, <1>3, <1>4, <2>2, <2>3, <2>4, <2>5 DEF Attached
  <2>8. GridKept(t)'
    BY <1>1, <1>3, <2>1, <2>2, <2>3, <2>6 DEF GridKept, SavedIsStored
  <2>9. QED
    BY <1>2, <1>3, <2>1, <2>3, <2>4, <2>7, <2>8, SessionStep
<1>6. CASE kind # "grid"
  <2> DEFINE e == Opened(list[t].shown)
  <2>1. Drafts(t) /\ editor' = [editor EXCEPT ![t] = e] /\ list[t].shown \in ViewRows
    BY <1>1, <1>2, <1>6 DEF Reconciled, Drafts, Attached
  <2>2. e \in DraftEditors /\ e.open /\ e.at = "idle" /\ e.draft = 0
    BY <1>6, <2>1, Opens
  <2> HIDE DEF e
  <2>3. e \in Editors /\ editor'[t] = e
    BY <1>2, <1>6, <2>1, <2>2 DEF Editors
  <2>4. Drafts(t)' /\ ~ Grid(t)'
    BY <1>1, <2>1, <2>2, <2>3 DEF Grid, Drafts
  <2>5. ~ Unsaved(t) /\ Follows(t)
    BY <1>1, <1>4, <1>6, <2>1 DEF Unsaved, Follows, Grid
  <2>6. Attached(t)'
    BY <1>1, <1>3, <1>4, <2>1, <2>2, <2>3, <2>4 DEF Attached
  <2>7. DraftKept(t)'
    BY <1>1, <1>3, <2>1, <2>2, <2>3, <2>5 DEF DraftKept, SavedIsStored
  <2>8. QED
    BY <1>2, <1>3, <2>1, <2>3, <2>4, <2>6, <2>7, SessionStep
<1>7. QED
  BY <1>5, <1>6

LEMMA UndoneIs ==
  ASSUME SettingsTyped, NEW t \in Tab, NEW q, NEW u \in Tab, NEW k \in OptionKeys
  PROVE  /\ Undone(q, t) \in [Tab -> OptionRows]
         /\ Undone(q, t)[u][k] \in {0, mine[u][k]}
         /\ k \in DOMAIN q.put /\ k # "columnWidth" /\ Undone(q, t)[u][k] # 0 =>
              q.put[k] = mine[u][k] \/ (u = t /\ q.live) \/ Unsaved(u)
<1>1. mine \in [Tab -> OptionRows]
  BY DEF SettingsTyped
<1>2. Undone(q, t) \in [Tab -> OptionRows]
  BY <1>1 DEF Undone, OptionRows
<1>3. Undone(q, t)[u][k] =
        IF /\ k \in DOMAIN q.put /\ k # "columnWidth"
           /\ q.put[k] # mine[u][k]
           /\ ~(u = t /\ q.live) /\ ~Unsaved(u)
        THEN 0 ELSE mine[u][k]
  BY DEF Undone
<1>4. QED
  BY <1>2, <1>3

LEMMA WrittenIs ==
  ASSUME view \in ViewRows, NEW put \in OptionRows \cup Names \cup {Gone}
  PROVE  /\ put = Gone => Written(put) = Gone
         /\ put # Gone =>
              /\ Written(put) \in ViewRows
              /\ \A k \in OptionKeys : /\ k \in DOMAIN put => Written(put)[k] = put[k]
                                       /\ k \notin DOMAIN put => Written(put)[k] = view[k]
         /\ put \in OptionRows => put # Gone /\ DOMAIN put = OptionKeys
<1>1. put \in OptionRows => put # Gone /\ DOMAIN put = OptionKeys
  BY Placeholders DEF OptionRows
<1>2. ASSUME put # Gone PROVE \A k \in DOMAIN put : put[k] \in Nat
  BY <1>2 DEF OptionRows, Names
<1>3. ASSUME put # Gone
      PROVE  Written(put) = [k \in Keys |-> IF k \in DOMAIN put THEN put[k] ELSE view[k]]
  BY <1>3 DEF Written
<1>4. ASSUME put # Gone PROVE Written(put) \in ViewRows
  BY <1>2, <1>3, <1>4 DEF ViewRows
<1>5. ASSUME put # Gone, NEW k \in OptionKeys
      PROVE  /\ k \in DOMAIN put => Written(put)[k] = put[k]
             /\ k \notin DOMAIN put => Written(put)[k] = view[k]
  BY <1>3, <1>5 DEF Keys
<1>6. QED
  BY <1>1, <1>4, <1>5 DEF Written

(* A request that is answered is as it was but for the answer. *)
LEMMA Answers ==
  ASSUME EditsInv, NEW t \in Tab, NEW q \in requests[t], q.at = "sent",
         NEW s \in {"ok", "failed"}
  PROVE  LET p == [q EXCEPT !.at = s]
             r == (requests[t] \ {q}) \cup {p}
         IN /\ r \in SUBSET Mutations
            /\ p.at = s /\ p.put = q.put /\ p.live = q.live
            /\ \A x \in r : x = p \/ (x \in requests[t] /\ x # q)
            /\ ~ (q.live /\ s = "ok") =>
                 ((\E x \in r : x.live /\ x.at = "ok") <=> (\E x \in requests[t] : x.live /\ x.at = "ok"))
<1>1. requests[t] \in SUBSET Mutations /\ q \in Mutations
  BY SessionIs
<1> DEFINE p == [q EXCEPT !.at = s]
<1>2. p \in Mutations /\ p.at = s /\ p.put = q.put /\ p.live = q.live
  BY <1>1 DEF Mutations
<1> HIDE DEF p
<1>3. p.live /\ p.at = "ok" => q.live /\ s = "ok"
  BY <1>2
<1>4. QED
  BY <1>1, <1>2, <1>3 DEF p

LEMMA MutateTypes ==
  ASSUME EditsInv, NEW t \in Tab, NEW q \in requests[t], Mutate(t, q)
  PROVE  \E answer \in {"ok", "lost", "refused"} :
           LET p == [q EXCEPT !.at = IF answer = "ok" THEN "ok" ELSE "failed"]
               r == (requests[t] \ {q}) \cup {p}
           IN /\ UNCHANGED <<kind, list, editor, edits>> /\ q.at = "sent"
              /\ requests' = [requests EXCEPT ![t] = r]
              /\ answer # "refused" => view \in ViewRows /\ view' = Written(q.put) /\ mine' = Undone(q, t)
              /\ answer = "refused" => view' = view /\ mine' = mine
              /\ SettingsTyped'
<1>1. PICK answer \in {"ok", "lost", "refused"} :
        /\ view = Gone => answer = "refused"
        /\ requests' = [requests EXCEPT ![t] = (requests[t] \ {q}) \cup
             {[q EXCEPT !.at = IF answer = "ok" THEN "ok" ELSE "failed"]}]
        /\ IF answer = "refused"
           THEN UNCHANGED <<view, told, mine>>
           ELSE /\ view' = Written(q.put)
                /\ told' = [u \in Tab |-> told[u] \/ u # t]
                /\ mine' = Undone(q, t)
  BY DEF Mutate
<1>2. UNCHANGED <<kind, list, editor, edits>> /\ q.at = "sent"
  BY DEF Mutate
<1>3. /\ view \in ViewRows \cup {Gone} /\ told \in [Tab -> BOOLEAN] /\ mine \in [Tab -> OptionRows]
      /\ requests \in [Tab -> SUBSET Mutations] /\ SettingsTyped /\ list \in [Tab -> Lists]
      /\ editor \in [Tab -> Editors] /\ edits \in Nat
  BY DEF EditsInv, SettingsTyped
<1> DEFINE s == IF answer = "ok" THEN "ok" ELSE "failed"
           r == (requests[t] \ {q}) \cup {[q EXCEPT !.at = s]}
<1>4. r \in SUBSET Mutations
  <2>1. s \in {"ok", "failed"}
    OBVIOUS
  <2> HIDE DEF s
  <2>2. QED
    BY <1>2, <2>1, Answers
<1>5. requests' \in [Tab -> SUBSET Mutations]
  <2>1. requests' = [requests EXCEPT ![t] = r]
    BY <1>1
  <2> HIDE DEF r
  <2>2. QED
    BY <1>3, <1>4, <2>1
<1>6. answer # "refused" => view \in ViewRows
  BY <1>1, <1>3
<1>7. q.put \in OptionRows \cup Names \cup {Gone}
  BY <1>3 DEF Mutations
<1>8. /\ view' \in ViewRows \cup {Gone}
      /\ told' \in [Tab -> BOOLEAN] /\ mine' \in [Tab -> OptionRows]
  <2>1. CASE answer = "refused"
    BY <1>1, <1>3, <2>1
  <2>2. CASE answer # "refused"
    <3>1. Written(q.put) \in ViewRows \cup {Gone}
      BY <1>6, <1>7, <2>2, WrittenIs
    <3>2. Undone(q, t) \in [Tab -> OptionRows]
      BY <1>3, UndoneIs DEF OptionKeys
    <3>3. [u \in Tab |-> told[u] \/ u # t] \in [Tab -> BOOLEAN]
      OBVIOUS
    <3>4. view' = Written(q.put) /\ told' = [u \in Tab |-> told[u] \/ u # t] /\ mine' = Undone(q, t)
      BY <1>1, <2>2
    <3>5. QED
      BY <3>1, <3>2, <3>3, <3>4
  <2>3. QED
    BY <2>1, <2>2
<1>9. SettingsTyped'
  BY <1>2, <1>3, <1>5, <1>8 DEF SettingsTyped, Editors
<1>10. QED
  BY <1>1, <1>2, <1>6, <1>9

LEMMA MutateKeeps ==
  ASSUME EditsInv, NEW t \in Tab, NEW q \in requests[t], Mutate(t, q)
  PROVE  EditsInv'
<1>1. PICK answer \in {"ok", "lost", "refused"} :
        /\ UNCHANGED <<kind, list, editor, edits>> /\ q.at = "sent"
        /\ requests' = [requests EXCEPT ![t] = (requests[t] \ {q}) \cup
             {[q EXCEPT !.at = IF answer = "ok" THEN "ok" ELSE "failed"]}]
        /\ answer # "refused" => view \in ViewRows /\ view' = Written(q.put) /\ mine' = Undone(q, t)
        /\ answer = "refused" => view' = view /\ mine' = mine
        /\ SettingsTyped'
  BY MutateTypes
<1> DEFINE s == IF answer = "ok" THEN "ok" ELSE "failed"
           p == [q EXCEPT !.at = s]
           r == (requests[t] \ {q}) \cup {p}
<1>2. /\ p.put = q.put /\ p.live = q.live
      /\ \A x \in r : x = p \/ (x \in requests[t] /\ x # q)
      /\ ~ (q.live /\ answer = "ok") =>
           ((\E x \in r : x.live /\ x.at = "ok") <=> (\E x \in requests[t] : x.live /\ x.at = "ok"))
  <2>1. s \in {"ok", "failed"} /\ (s = "ok" <=> answer = "ok")
    OBVIOUS
  <2> HIDE DEF s
  <2>2. QED
    BY <1>1, <2>1, Answers
<1>3. requests \in [Tab -> SUBSET Mutations] /\ mine \in [Tab -> OptionRows] /\ SettingsTyped
  BY DEF EditsInv, SettingsTyped
<1>4. requests' = [requests EXCEPT ![t] = r]
  BY <1>1
<1> HIDE DEF r, p, s
<1>5. requests'[t] = r /\ \A u \in Tab \ {t} : requests'[u] = requests[u]
  BY <1>3, <1>4
<1>6. \A u \in Tab : (Grid(u)' <=> Grid(u)) /\ (Drafts(u)' <=> Drafts(u)) /\ (Follows(u)' <=> Follows(u))
  BY <1>1 DEF Grid, Drafts, Follows
<1>7. \A u \in Tab : ~ (u = t /\ q.live /\ answer = "ok") => (Committed(u)' <=> Committed(u))
  BY <1>1, <1>2, <1>5 DEF Committed
<1>8. \A u \in Tab : ~ (u = t /\ q.live /\ answer = "ok") => (Unsaved(u)' <=> Unsaved(u))
  BY <1>1, <1>6, <1>7 DEF Unsaved
<1>9. ASSUME NEW u \in Tab, NEW k \in OptionKeys
      PROVE  mine'[u][k] \in {0, mine[u][k]}
  BY <1>1, <1>3, <1>9, UndoneIs
<1>10. ASSUME NEW u \in Tab PROVE Attached(u)'
  <2>1. Attached(u) /\ mine[u] \in OptionRows /\ mine'[u] \in OptionRows
    BY <1>1, <1>3 DEF EditsInv, SettingsTyped
  <2>2. mine[u] = NoEdits => mine'[u] = NoEdits
    <3>1. ASSUME mine[u] = NoEdits PROVE \A k \in OptionKeys : mine'[u][k] = 0
      BY <1>9, <3>1 DEF NoEdits
    <3>2. QED
      BY <2>1, <3>1 DEF NoEdits, OptionRows
  <2>3. mine[u]["config"] = 0 => mine'[u]["config"] = 0
    BY <1>9 DEF OptionKeys
  <2>4. CASE u = t
    <3>1. ASSUME NEW x \in requests'[t], x.live
          PROVE  \E y \in requests[t] : y.live /\ y.put = x.put /\ (x = y \/ (y = q /\ x = p))
      BY <1>2, <1>5, <3>1
    <3>2. \A x \in requests'[t] : x.live =>
            /\ editor'[t].open /\ editor'[t].at = "sent"
            /\ x.put \in OptionRows
            /\ Grid(t)' => x.put = Head(editor'[t].queue)
            /\ Drafts(t)' => IF editor'[t].draft = 0 THEN mine'[t]["config"] = 0
                             ELSE x.put["config"] = editor'[t].draft
      BY <1>1, <1>6, <2>1, <2>3, <2>4, <3>1 DEF Attached
    <3>3. ASSUME NEW x \in requests'[t], NEW y \in requests'[t], x.live, y.live PROVE x = y
      <4>1. CASE x = p /\ y = p
        BY <4>1
      <4>2. CASE x \in requests[t] /\ y \in requests[t]
        BY <2>1, <2>4, <3>3, <4>2 DEF Attached
      <4>3. ASSUME NEW a \in {x, y}, NEW b \in {x, y}, a = p, b \in requests[t], b # q PROVE FALSE
        BY <1>2, <2>1, <2>4, <3>3, <4>3 DEF Attached
      <4>4. QED
        BY <1>2, <1>5, <4>1, <4>2, <4>3
    <3>4. QED
      BY <1>1, <1>6, <2>1, <2>2, <2>3, <2>4, <3>2, <3>3 DEF Attached
  <2>5. CASE u # t
    BY <1>1, <1>5, <1>6, <2>1, <2>2, <2>3, <2>5 DEF Attached
  <2>6. QED
    BY <2>4, <2>5
<1>11. ASSUME NEW u \in Tab, NEW k \in OptionKeys,
              (k = "filter" /\ Grid(u)) \/ (k = "config" /\ Drafts(u))
       PROVE  SavedIsStored(u, k)'
  <2> SUFFICES ASSUME editor[u].open, mine'[u][k] # 0
               PROVE  /\ ~ Unsaved(u)' /\ view' # Gone => view'[k] = mine[u][k]
                      /\ Follows(u) /\ list[u].fetch = "read" /\ list[u].got # Gone =>
                           list[u].got[k] = mine[u][k]
    BY <1>1, <1>6, <1>9 DEF SavedIsStored
  <2>1. mine[u][k] = mine'[u][k] /\ mine[u][k] # 0
    BY <1>9
  <2>2. /\ Attached(u) /\ editor[u].open
        /\ Grid(u) => GridKept(u) /\ editor[u] \in GridEditors
        /\ Drafts(u) => DraftKept(u) /\ editor[u] \in DraftEditors
    BY SessionIs
  <2>3. /\ ~ Unsaved(u) /\ view # Gone => view[k] = mine[u][k]
        /\ Follows(u) /\ list[u].fetch = "read" /\ list[u].got # Gone => list[u].got[k] = mine[u][k]
    BY <1>11, <2>1, <2>2 DEF GridKept, DraftKept, SavedIsStored
  <2>4. q \in requests[t] /\ q \in Mutations
    BY <1>3
  <2>5. ASSUME ~ Unsaved(u)', view' # Gone, answer # "refused" PROVE view'[k] = mine[u][k]
    <3>1. view \in ViewRows /\ view # Gone /\ view' = Written(q.put)
      BY <1>1, <2>5, Placeholders
    <3>2. q.put \in OptionRows \cup Names \cup {Gone}
      BY <2>4 DEF Mutations
    <3>3. /\ k \in DOMAIN q.put => view'[k] = q.put[k]
          /\ k \notin DOMAIN q.put => view'[k] = view[k]
          /\ q.put \in OptionRows => k \in DOMAIN q.put
      BY <2>5, <3>1, <3>2, WrittenIs
    <3>4. u = t /\ q.live =>
            /\ editor[u].at = "sent" /\ q.put \in OptionRows
            /\ Grid(u) => q.put = Head(editor[u].queue) /\ editor[u].queue # <<>>
            /\ Drafts(u) => editor[u].draft # 0 /\ q.put["config"] = editor[u].draft
            /\ \A x \in requests[t] : x.live => x.at = "sent"
      BY <1>1, <1>11, <2>1, <2>2, <2>4 DEF Attached, Grid, Drafts
    <3>5. CASE u = t /\ q.live
      <4>1. ~ Committed(u)
        BY <3>4, <3>5 DEF Committed
      <4>2. CASE Grid(u)
        <5>1. editor[u].queue \in Seq(OptionRows) /\ Len(editor[u].queue) \in Nat \ {0}
          BY <2>2, <3>4, <3>5, <4>2, GridEditorTypes, EmptySeq
        <5>2. Len(editor[u].queue) = 1
          <6>1. editor' = editor /\ Grid(u)' /\ ~ Unsaved(u)'
            BY <1>1, <1>6, <2>5, <4>2
          <6>2. Committed(u)' => ~ (Len(editor'[u].queue) > 1)
            BY <6>1 DEF Unsaved
          <6>3. ~ Committed(u)' => ~ (Len(editor'[u].queue) > 0)
            BY <6>1 DEF Unsaved
          <6>4. Len(editor'[u].queue) = Len(editor[u].queue)
            BY <6>1
          <6>5. ASSUME NEW n \in Nat \ {0}, ~ (n > 1) \/ ~ (n > 0) PROVE n = 1
            BY <6>5
          <6>6. ~ (Len(editor[u].queue) > 1) \/ ~ (Len(editor[u].queue) > 0)
            BY <6>2, <6>3, <6>4
          <6>7. QED
            BY <5>1, <6>5, <6>6
        <5>3. q.put = editor[u].draft
          BY <2>2, <3>4, <3>5, <4>2, <5>2 DEF Attached
        <5>4. k = "filter"
          BY <1>11, <4>2 DEF Grid, Drafts
        <5>5. QED
          BY <2>1, <2>2, <3>3, <3>4, <3>5, <4>2, <5>3, <5>4 DEF GridKept
      <4>3. CASE Drafts(u)
        <5>1. k = "config"
          BY <1>11, <4>3 DEF Grid, Drafts
        <5>2. editor[u].draft = mine[u]["config"]
          BY <2>1, <2>2, <3>4, <3>5, <4>3, <5>1 DEF DraftKept
        <5>3. QED
          BY <3>3, <3>4, <3>5, <4>3, <5>1, <5>2
      <4>4. QED
        BY <1>11, <4>2, <4>3
    <3>6. CASE ~ (u = t /\ q.live)
      <4>1. ~ Unsaved(u)
        BY <1>8, <2>5, <3>6
      <4>2. CASE k \in DOMAIN q.put
        <5>1. k # "columnWidth" /\ Undone(q, t)[u][k] # 0
          BY <1>1, <1>11, <2>1, <2>5
        <5>2. q.put[k] = mine[u][k]
          BY <1>3, <3>6, <4>1, <4>2, <5>1, UndoneIs
        <5>3. QED
          BY <3>3, <4>2, <5>2
      <4>3. CASE k \notin DOMAIN q.put
        BY <2>3, <3>1, <3>3, <4>1, <4>3
      <4>4. QED
        BY <4>2, <4>3
    <3>7. QED
      BY <3>5, <3>6
  <2>6. ASSUME ~ Unsaved(u)', view' # Gone, answer = "refused" PROVE view'[k] = mine[u][k]
    BY <1>1, <1>8, <2>3, <2>6
  <2>7. QED
    BY <2>3, <2>5, <2>6
<1>12. ASSUME NEW u \in Tab PROVE EditsKept(u)'
  <2>1. \A k \in OptionKeys : mine'[u][k] # 0 => mine'[u][k] = mine[u][k]
    BY <1>9
  <2>2. (Grid(u) => GridKept(u)) /\ (Drafts(u) => DraftKept(u))
    BY SessionIs
  <2>3. ASSUME Grid(u) PROVE GridKept(u)'
    <3>1. SavedIsStored(u, "filter")'
      BY <1>11, <2>3 DEF OptionKeys
    <3>2. QED
      BY <1>1, <1>9, <2>1, <2>2, <2>3, <3>1 DEF GridKept, OptionKeys
  <2>4. ASSUME Drafts(u) PROVE DraftKept(u)'
    <3>1. SavedIsStored(u, "config")'
      BY <1>11, <2>4 DEF OptionKeys
    <3>2. QED
      BY <1>1, <1>6, <1>9, <2>1, <2>2, <2>4, <3>1 DEF DraftKept, OptionKeys
  <2>5. (Grid(u)' => GridKept(u)') /\ (Drafts(u)' => DraftKept(u)')
    BY <1>6, <2>3, <2>4
  <2>6. QED
    BY <2>5 DEF EditsKept
<1>13. QED
  BY <1>1, <1>10, <1>12 DEF EditsInv

LEMMA SettingsInitially ==
  ASSUME SettingsInit
  PROVE  EditsInv
<1>1. /\ view = [k \in Keys |-> 0]
      /\ told = [u \in Tab |-> FALSE]
      /\ list = [u \in Tab |-> [shown |-> view, fetch |-> "none", got |-> Nothing, awaited |-> FALSE]]
      /\ requests = [u \in Tab |-> {}]
      /\ editor = [u \in Tab |-> Opened(view)]
      /\ edits = 0
      /\ mine = [u \in Tab |-> NoEdits]
  BY DEF SettingsInit
<1>2. view \in ViewRows
  BY <1>1 DEF ViewRows
<1>3. NoEdits \in OptionRows /\ \A k \in OptionKeys : NoEdits[k] = 0
  BY DEF NoEdits, OptionRows
<1>4. /\ Opened(view) \in Editors /\ Opened(view).open /\ Opened(view).at = "idle"
      /\ kind = "grid" => Opened(view).queue = <<>>
  BY <1>2, Opens DEF Editors
<1>5. list \in [Tab -> Lists] /\ \A u \in Tab : list[u].shown = view /\ list[u].fetch = "none"
  BY <1>1, <1>2 DEF Lists
<1>6. SettingsTyped
  BY <1>1, <1>2, <1>3, <1>4, <1>5 DEF SettingsTyped
<1>7. ASSUME NEW u \in Tab PROVE Attached(u) /\ EditsKept(u)
  <2>1. /\ editor[u].open /\ editor[u].at = "idle" /\ (kind = "grid" => editor[u].queue = <<>>)
        /\ requests[u] = {} /\ mine[u] = NoEdits /\ list[u].shown \in ViewRows /\ list[u].fetch = "none"
    BY <1>1, <1>2, <1>4, <1>5
  <2>2. Attached(u)
    BY <2>1 DEF Attached, Grid, Drafts
  <2>3. \A k \in OptionKeys : mine[u][k] = 0
    BY <1>3, <2>1
  <2>4. GridKept(u) /\ DraftKept(u)
    BY <2>3 DEF GridKept, DraftKept, SavedIsStored, OptionKeys
  <2>5. QED
    BY <2>2, <2>4 DEF EditsKept
<1>8. QED
  BY <1>6, <1>7 DEF EditsInv

LEMMA EditsAreKept == EditsInv => OwnEditsKept
<1> SUFFICES ASSUME EditsInv, NEW t \in Tab, NEW k \in OptionKeys,
                    editor[t].open, mine[t][k] # 0, Drafts(t) => ~ FetchUnderWay(t)
             PROVE  Showing(t)[k] = mine[t][k]
  BY DEF OwnEditsKept
<1>1. /\ (Grid(t) => GridKept(t)) /\ (Drafts(t) => DraftKept(t)) /\ list[t] \in Lists
      /\ Drafts(t) => editor[t] \in DraftEditors
  BY SessionIs
<1>2. k \in {"filter", "columnWidth", "config"}
  BY DEF OptionKeys
<1>3. CASE Grid(t)
  BY <1>1, <1>2, <1>3 DEF GridKept, Showing, Grid
<1>4. CASE Drafts(t)
  <2>1. k = "config" /\ list[t].fetch = "none"
    BY <1>1, <1>2, <1>4, ListTypes DEF DraftKept, FetchUnderWay
  <2>2. CASE editor[t].draft # 0
    BY <1>1, <1>4, <2>1, <2>2 DEF DraftKept, Showing, Drafts
  <2>3. CASE editor[t].draft = 0
    BY <1>1, <1>4, <2>1, <2>3 DEF DraftKept, Showing, Drafts, Follows
  <2>4. QED
    BY <2>2, <2>3
<1>5. QED
  BY <1>3, <1>4 DEF Grid, Drafts

LEMMA EditsInvStep == EditsInv /\ [SettingsNext]_settingsVars => EditsInv'
<1> SUFFICES ASSUME EditsInv, [SettingsNext]_settingsVars PROVE EditsInv'
  OBVIOUS
<1>1. CASE UNCHANGED settingsVars
  BY <1>1 DEF settingsVars, EditsInv, SettingsTyped, Editors, Attached, EditsKept, GridKept, DraftKept,
       SavedIsStored, Follows, Unsaved, Committed, Grid, Drafts
<1>2. CASE SettingsNext
  <2>1. PICK t \in Tab :
          \/ ServerReads(t) \/ FetchLands(t) \/ FetchFails(t) \/ RetryList(t) \/ Tell(t)
          \/ Patch(t) \/ Resize(t) \/ CommitWidths(t) \/ SendPatch(t)
          \/ EditDraft(t) \/ DiscardDraft(t) \/ SaveDraft(t)
          \/ Rename(t) \/ Remove(t) \/ Leave(t) \/ Return(t)
          \/ Reconciled(t)
          \/ \E q \in requests[t] : Mutate(t, q) \/ Succeed(t, q) \/ Fail(t, q)
    BY <1>2 DEF SettingsNext
  <2>2. CASE ServerReads(t) \/ RetryList(t) \/ Tell(t)
    BY <2>2, ListKeeps
  <2>3. CASE FetchLands(t)
    BY <2>3, LandsKeeps
  <2>4. CASE FetchFails(t) \/ Leave(t) \/ Return(t)
    BY <2>4, ClosesKeep
  <2>5. CASE Patch(t) \/ Resize(t) \/ CommitWidths(t) \/ SendPatch(t)
    BY <2>5, PatchKeeps, ResizeKeeps, CommitWidthsKeeps, SendPatchKeeps
  <2>6. CASE EditDraft(t) \/ DiscardDraft(t) \/ SaveDraft(t)
    BY <2>6, EditDraftKeeps, DiscardDraftKeeps, SaveDraftKeeps
  <2>7. CASE Rename(t) \/ Remove(t)
    BY <2>7, AsksKeep
  <2>8. CASE Reconciled(t)
    BY <2>8, ReconciledKeeps
  <2>9. CASE \E q \in requests[t] : Mutate(t, q) \/ Succeed(t, q) \/ Fail(t, q)
    BY <2>9, MutateKeeps, SucceedKeeps, FailKeeps
  <2>10. QED
    BY <2>1, <2>2, <2>3, <2>4, <2>5, <2>6, <2>7, <2>8, <2>9
<1>3. QED
  BY <1>1, <1>2

(* What a user chose last stays on the screen of the session: no refetch,  *)
(* answer or edit of another session takes it away, but one that replaces  *)
(* it in the database or a save that is refused.                           *)
THEOREM EditsStay == SettingsSpec => []OwnEditsKept
<1>1. SettingsInit => EditsInv
  BY SettingsInitially
<1>2. EditsInv /\ [SettingsNext]_settingsVars => EditsInv'
  BY EditsInvStep
<1>3. EditsInv => OwnEditsKept
  BY EditsAreKept
<1>4. QED
  BY <1>1, <1>2, <1>3, PTL DEF SettingsSpec

(* A session that has nothing to hear of shows, or has read, what is stored. *)
Abreast(t) ==
  ~told[t] /\ t \notin unheard /\ (\A q \in requests[t] : q.at # "ok") =>
    /\ list[t].fetch = "none" => list[t].shown \in {view, Failed}
    /\ list[t].fetch = "read" => list[t].got = view

(* Options that a session knows of. *)
Seen(o) ==
  \/ view # Gone /\ o = OptionsOf(view)
  \/ \E t \in Tab : \/ list[t].shown \in ViewRows /\ o = OptionsOf(list[t].shown)
                    \/ list[t].got \in ViewRows /\ o = OptionsOf(list[t].got)

(* Packages of a grid that are still to be written. *)
SentBy(t) == {q \in requests[t] : q.at = "sent" /\ q.put \in OptionRows}
UnsentBy(t) ==
  IF editor[t].open THEN {i \in DOMAIN editor[t].queue : i > 1 \/ editor[t].at = "idle"} ELSE {}
PendingBy(t) == {q.put : q \in SentBy(t)} \cup {editor[t].queue[i] : i \in UnsentBy(t)}

DraftStands(t) ==
  Grid(t) /\ t \notin apart =>
    /\ Committed(t) /\ view # Gone => OptionsOf(view) = Head(editor[t].queue)
    /\ editor[t].at = "reconcile" =>
         /\ list[t].fetch = "read" /\ list[t].got # Gone =>
              OptionsOf(list[t].got) = Head(editor[t].queue)
         /\ list[t].fetch = "none" => OptionsOf(list[t].shown) = Head(editor[t].queue)
    /\ editor[t].queue = <<>> /\ editor[t].draft # OptionsOf(list[t].shown) =>
         /\ view # Gone => OptionsOf(view) # OptionsOf(list[t].shown)
         /\ list[t].fetch = "read" /\ list[t].got # Gone =>
              OptionsOf(list[t].got) # OptionsOf(list[t].shown)

(* No two packages of a session are alike. *)
PackagesApart(t) ==
  /\ \A q, p \in SentBy(t) : q.put = p.put => q = p
  /\ \A i, j \in UnsentBy(t) : editor[t].queue[i] = editor[t].queue[j] => i = j
  /\ \A q \in SentBy(t), i \in UnsentBy(t) : q.put # editor[t].queue[i]

PackagesNew ==
  /\ \A t \in Tab : \A o \in PendingBy(t) : ~Seen(o)
  /\ \A t, u \in Tab : t # u => PendingBy(t) \cap PendingBy(u) = {}
  /\ \A t \in Tab : PackagesApart(t)

(* Widths that are set and not sent are nobody else's. *)
WidthUnknown(t) ==
  /\ \A o \in OptionRows : Seen(o) => o["columnWidth"] # editor[t].widths
  /\ \A u \in Tab :
       /\ \A o \in PendingBy(u) : o["columnWidth"] # editor[t].widths
       /\ Grid(u) => editor[u].draft["columnWidth"] # editor[t].widths
       /\ u # t /\ Grid(u) /\ editor[u].timer => editor[u].widths # editor[t].widths

Bounded(o) == \A k \in OptionKeys : o[k] <= edits
ValuesBounded ==
  /\ \A o \in OptionRows : Seen(o) => Bounded(o)
  /\ \A t \in Tab : /\ \A o \in PendingBy(t) : Bounded(o)
                    /\ Grid(t) => Bounded(editor[t].draft) /\ editor[t].widths <= edits

GridInv ==
  kind = "grid" =>
    /\ \A t \in Tab : DraftStands(t)
    /\ PackagesNew
    /\ \A t \in Tab : Grid(t) /\ editor[t].timer => WidthUnknown(t)
    /\ ValuesBounded

SettleInv == EditsInv /\ (\A t \in Tab : Abreast(t)) /\ GridInv

LEMMA EditsSettle == SettleInv => SettingsSettle
<1> SUFFICES ASSUME SettleInv, NEW t \in Tab, Quiet(t), t \notin unheard \cup apart
             PROVE  view # Gone /\ \A k \in OptionKeys :
                      (kind = "grid" /\ k = "columnWidth") \/ Showing(t)[k] = view[k]
  BY DEF SettingsSettle
<1>1. EditsInv /\ Abreast(t)
  BY DEF SettleInv
<1>2. /\ list[t] \in Lists /\ Attached(t) /\ editor[t].open /\ requests[t] = {}
      /\ ~ told[t] /\ list[t].fetch = "none"
  BY <1>1, SessionIs DEF Quiet, FetchUnderWay
<1>3. list[t].shown \in ViewRows /\ list[t].shown = view
  BY <1>1, <1>2, Placeholders DEF Attached, Abreast
<1>4. view # Gone /\ \A k \in OptionKeys : OptionsOf(view)[k] = view[k]
  BY <1>3, Placeholders, RowOptions
<1>5. CASE kind = "grid"
  <2>1. Grid(t) /\ editor[t].queue = <<>>
    BY <1>2, <1>5 DEF Quiet, Grid
  <2>2. DraftStands(t)
    BY <1>5 DEF SettleInv, GridInv
  <2>3. editor[t].draft = OptionsOf(view)
    BY <1>3, <1>4, <2>1, <2>2 DEF DraftStands
  <2>4. QED
    BY <1>4, <1>5, <2>3 DEF Showing
<1>6. CASE kind # "grid"
  <2>1. editor[t].draft = 0
    BY <1>6 DEF Quiet, Grid
  <2>2. QED
    BY <1>3, <1>4, <1>6, <2>1 DEF Showing
<1>7. QED
  BY <1>5, <1>6

(* What a step of one session leaves of another's list. *)
LEMMA AbreastStays ==
  ASSUME NEW u, Abreast(u), UNCHANGED view, list'[u] = list[u],
         ~ told'[u] => ~ told[u], u \notin unheard' => u \notin unheard,
         (\A q \in requests'[u] : q.at # "ok") => (\A q \in requests[u] : q.at # "ok")
  PROVE  Abreast(u)'
BY DEF Abreast

LEMMA AbreastStep ==
  ASSUME EditsInv, \A u \in Tab : Abreast(u), SettingsNext
  PROVE  \A u \in Tab : Abreast(u)'
<1>1. PICK t \in Tab :
        \/ ServerReads(t) \/ FetchLands(t) \/ FetchFails(t) \/ RetryList(t) \/ Tell(t)
        \/ Patch(t) \/ Resize(t) \/ CommitWidths(t) \/ SendPatch(t)
        \/ EditDraft(t) \/ DiscardDraft(t) \/ SaveDraft(t)
        \/ Rename(t) \/ Remove(t) \/ Leave(t) \/ Return(t)
        \/ Reconciled(t)
        \/ \E q \in requests[t] : Mutate(t, q) \/ Succeed(t, q) \/ Fail(t, q)
  BY DEF SettingsNext
<1>2. /\ list \in [Tab -> Lists] /\ requests \in [Tab -> SUBSET Mutations] /\ told \in [Tab -> BOOLEAN]
      /\ list[t] \in Lists /\ requests[t] \in SUBSET Mutations
  BY DEF EditsInv, SettingsTyped
<1>3. CASE ServerReads(t) \/ RetryList(t) \/ Tell(t)
  <2>1. /\ UNCHANGED <<view, requests>> /\ \A u \in Tab \ {t} : list'[u] = list[u] /\ told'[u] = told[u]
        /\ \A u \in Tab \ {t} : u \in unheard' <=> u \in unheard
        /\ \/ list'[t].fetch = "read" /\ list'[t].got = view
           \/ list'[t].fetch = "asked"
    <3>1. CASE ServerReads(t)
      <4>1. list' = [list EXCEPT ![t].fetch = "read", ![t].got = view]
        BY <3>1 DEF ServerReads
      <4>2. list'[t].fetch = "read" /\ list'[t].got = view
        BY <1>2, <4>1 DEF Lists
      <4>3. QED
        BY <1>2, <3>1, <4>1, <4>2 DEF ServerReads
    <3>2. CASE RetryList(t) \/ Tell(t)
      <4>1. list' = [list EXCEPT ![t] = Invalidated(list[t], FALSE)] /\ Invalidated(list[t], FALSE).fetch = "asked"
        BY <1>2, <3>2, ListTypes DEF RetryList, Tell
      <4>2. QED
        BY <1>2, <3>2, <4>1 DEF RetryList, Tell
    <3>3. QED
      BY <1>3, <3>1, <3>2
  <2>2. \A u \in Tab \ {t} : Abreast(u)'
    BY <2>1, AbreastStays
  <2>3. Abreast(t)'
    BY <2>1 DEF Abreast
  <2>4. QED
    BY <2>2, <2>3
<1>4. ASSUME NEW r, requests' = [requests EXCEPT ![t] = r],
             (\A q \in r : q.at # "ok") => (\A q \in requests[t] : q.at # "ok")
      PROVE  \A u \in Tab : (\A q \in requests'[u] : q.at # "ok") => (\A q \in requests[u] : q.at # "ok")
  BY <1>2, <1>4
<1>5. (\A q \in Left(t) : q.at # "ok") => (\A q \in requests[t] : q.at # "ok")
  <2>1. \A q \in requests[t] : [q EXCEPT !.live = FALSE].at = q.at
    BY <1>2 DEF Mutations
  <2>2. QED
    BY <2>1 DEF Left
<1>6. CASE FetchLands(t)
  <2>1. /\ list[t].fetch = "read" /\ list' = [list EXCEPT ![t] = Fetched(list[t], list[t].got)]
        /\ UNCHANGED <<view, told, unheard>> /\ list[t].got \in ViewRows \cup {Gone}
        /\ UNCHANGED requests \/ Close(t)
    BY <1>6, Landings
  <2>2. \A u \in Tab : (\A q \in requests'[u] : q.at # "ok") => (\A q \in requests[u] : q.at # "ok")
    BY <1>4, <1>5, <2>1 DEF Close
  <2>3. \A u \in Tab \ {t} : Abreast(u)'
    BY <1>2, <2>1, <2>2, AbreastStays
  <2>4. list'[t].shown = list[t].got /\ list'[t].fetch = "none"
    BY <1>2, <2>1, FetchedIs
  <2>5. Abreast(t)'
    BY <2>1, <2>2, <2>4 DEF Abreast
  <2>6. QED
    BY <2>3, <2>5
<1>7. CASE FetchFails(t)
  <2>1. list' = [list EXCEPT ![t] = Fetched(list[t], Failed)] /\ UNCHANGED <<view, told, unheard>> /\ Close(t)
    BY <1>7 DEF FetchFails
  <2>2. \A u \in Tab : (\A q \in requests'[u] : q.at # "ok") => (\A q \in requests[u] : q.at # "ok")
    BY <1>4, <1>5, <2>1 DEF Close
  <2>3. \A u \in Tab \ {t} : Abreast(u)'
    BY <1>2, <2>1, <2>2, AbreastStays
  <2>4. list'[t].shown = Failed /\ list'[t].fetch = "none"
    BY <1>2, <2>1, FetchedIs
  <2>5. Abreast(t)'
    BY <2>4 DEF Abreast
  <2>6. QED
    BY <2>3, <2>5
<1>8. CASE \/ Patch(t) \/ Resize(t) \/ CommitWidths(t) \/ EditDraft(t) \/ DiscardDraft(t)
           \/ Return(t) \/ Reconciled(t)
  <2>1. UNCHANGED <<view, told, unheard, list, requests>>
    BY <1>8 DEF Patch, Resize, CommitWidths, EditDraft, DiscardDraft, Return, Reconciled
  <2>2. QED
    BY <2>1, AbreastStays
<1>9. CASE SendPatch(t) \/ SaveDraft(t) \/ Rename(t) \/ Remove(t) \/ Leave(t)
  <2>1. UNCHANGED <<view, told, unheard, list>>
        /\ (Close(t) \/ \E put, live : requests' = [requests EXCEPT ![t] =
              requests[t] \cup {[at |-> "sent", put |-> put, live |-> live]}])
    BY <1>9 DEF SendPatch, SaveDraft, Rename, Remove, Leave, Ask
  <2>2. \A u \in Tab : (\A q \in requests'[u] : q.at # "ok") => (\A q \in requests[u] : q.at # "ok")
    BY <1>4, <1>5, <2>1 DEF Close
  <2>3. QED
    BY <2>1, <2>2, AbreastStays
<1>10. ASSUME NEW q \in requests[t], Mutate(t, q) PROVE \A u \in Tab : Abreast(u)'
  <2>1. PICK answer \in {"ok", "lost", "refused"} :
          /\ requests' = [requests EXCEPT ![t] = (requests[t] \ {q}) \cup
               {[q EXCEPT !.at = IF answer = "ok" THEN "ok" ELSE "failed"]}]
          /\ IF answer = "refused"
             THEN UNCHANGED <<view, told, unheard>>
             ELSE /\ told' = [u \in Tab |-> told[u] \/ u # t]
                  /\ unheard' = IF answer = "lost" THEN unheard \cup {t} ELSE unheard
    BY <1>10 DEF Mutate
  <2>2. list' = list /\ q.at = "sent"
    BY <1>10 DEF Mutate
  <2> DEFINE p == [q EXCEPT !.at = IF answer = "ok" THEN "ok" ELSE "failed"]
  <2>3. p.at = IF answer = "ok" THEN "ok" ELSE "failed"
    BY <1>2 DEF Mutations
  <2>4. requests'[t] = (requests[t] \ {q}) \cup {p}
    BY <1>2, <2>1
  <2> HIDE DEF p
  <2>5. CASE answer = "refused"
    <3>1. (\A x \in (requests[t] \ {q}) \cup {p} : x.at # "ok") => (\A x \in requests[t] : x.at # "ok")
      BY <2>2
    <3>2. \A u \in Tab : (\A x \in requests'[u] : x.at # "ok") => (\A x \in requests[u] : x.at # "ok")
      BY <1>4, <2>1, <3>1 DEF p
    <3>3. QED
      BY <2>1, <2>2, <2>5, <3>2, AbreastStays
  <2>6. CASE answer # "refused"
    <3>1. ASSUME NEW u \in Tab \ {t} PROVE Abreast(u)'
      BY <2>1, <2>6, <3>1 DEF Abreast
    <3>2. t \in unheard' \/ \E x \in requests'[t] : x.at = "ok"
      BY <2>1, <2>3, <2>4, <2>6
    <3>3. Abreast(t)'
      BY <3>2 DEF Abreast
    <3>4. QED
      BY <3>1, <3>3
  <2>7. QED
    BY <2>5, <2>6
<1>11. ASSUME NEW q \in requests[t], Succeed(t, q) PROVE \A u \in Tab : Abreast(u)'
  <2>1. /\ list' = [list EXCEPT ![t] = Invalidated(list[t], q.live)] /\ UNCHANGED <<view, told, unheard>>
        /\ \A u \in Tab \ {t} : requests'[u] = requests[u] /\ list'[u] = list[u]
    BY <1>2, <1>11 DEF Succeed, Done
  <2>2. list'[t].fetch = "asked"
    BY <1>2, <2>1, ListTypes DEF Mutations
  <2>3. Abreast(t)'
    BY <2>2 DEF Abreast
  <2>4. \A u \in Tab \ {t} : Abreast(u)'
    BY <2>1, AbreastStays
  <2>5. QED
    BY <2>3, <2>4
<1>12. ASSUME NEW q \in requests[t], Fail(t, q) PROVE \A u \in Tab : Abreast(u)'
  <2>1. /\ UNCHANGED <<view, told, unheard, list>> /\ q.at = "failed"
        /\ requests' = [requests EXCEPT ![t] = requests[t] \ {q}]
    BY <1>12 DEF Fail, Done
  <2>2. (\A x \in requests[t] \ {q} : x.at # "ok") => (\A x \in requests[t] : x.at # "ok")
    BY <2>1
  <2>3. \A u \in Tab : (\A x \in requests'[u] : x.at # "ok") => (\A x \in requests[u] : x.at # "ok")
    BY <1>4, <2>1, <2>2
  <2>4. QED
    BY <2>1, <2>3, AbreastStays
<1>13. QED
  BY <1>1, <1>3, <1>6, <1>7, <1>8, <1>9, <1>10, <1>11, <1>12

(***************************************************************************)
(* The packages of grids.                                                  *)
(***************************************************************************)
LEMMA PendingIs ==
  ASSUME SettingsTyped, kind = "grid", NEW u \in Tab
  PROVE  PendingBy(u) \in SUBSET OptionRows
<1>1. editor[u] \in {Closed} \cup GridEditors
  BY DEF SettingsTyped, Editors
<1>2. editor[u].open => editor[u].queue \in Seq(OptionRows)
  BY <1>1, Placeholders, GridEditorTypes
<1>3. \A i \in UnsentBy(u) : editor[u].queue[i] \in OptionRows
  BY <1>2 DEF UnsentBy
<1>4. QED
  BY <1>3 DEF PendingBy, SentBy

LEMMA PendingStays ==
  ASSUME NEW u, editor'[u] = editor[u], requests'[u] = requests[u]
  PROVE  PendingBy(u)' = PendingBy(u) /\ (PackagesApart(u) => PackagesApart(u)')
<1>1. SentBy(u)' = SentBy(u) /\ UnsentBy(u)' = UnsentBy(u)
  BY DEF SentBy, UnsentBy
<1>2. QED
  BY <1>1 DEF PendingBy, PackagesApart

LEMMA SeenStays ==
  ASSUME NEW t \in Tab, UNCHANGED view, \A u \in Tab \ {t} : list'[u] = list[u],
         list'[t].shown \in ViewRows => Seen(OptionsOf(list'[t].shown)),
         list'[t].got \in ViewRows => Seen(OptionsOf(list'[t].got)),
         NEW o, Seen(o)'
  PROVE  Seen(o)
<1>1. CASE view' # Gone /\ o = OptionsOf(view')
  BY <1>1 DEF Seen
<1>2. ASSUME NEW u \in Tab, \/ list'[u].shown \in ViewRows /\ o = OptionsOf(list'[u].shown)
                            \/ list'[u].got \in ViewRows /\ o = OptionsOf(list'[u].got)
      PROVE  Seen(o)
  <2>1. CASE u = t
    BY <1>2, <2>1
  <2>2. CASE u # t
    BY <1>2, <2>2 DEF Seen
  <2>3. QED
    BY <2>1, <2>2
<1>3. QED
  BY <1>1, <1>2 DEF Seen, OptionsOf

(* A step of one session that changes nothing in the database: its packages *)
(* n are new, what it shows and drafts is known or new, and so are widths.  *)
LEMMA GridStep ==
  ASSUME EditsInv, EditsInv', kind = "grid", GridInv, NEW t \in Tab, UNCHANGED <<kind, view>>,
         edits <= edits',
         \A u \in Tab \ {t} : /\ editor'[u] = editor[u] /\ list'[u] = list[u]
                              /\ requests'[u] = requests[u] /\ (u \in apart' <=> u \in apart),
         list'[t].shown \in ViewRows => Seen(OptionsOf(list'[t].shown)),
         list'[t].got \in ViewRows => Seen(OptionsOf(list'[t].got)),
         NEW n \in SUBSET OptionRows, PendingBy(t)' \subseteq PendingBy(t) \cup n,
         \A o \in n : /\ ~ Seen(o) /\ (\A u \in Tab : o \notin PendingBy(u)) /\ Bounded(o)'
                      /\ \A u \in Tab : Grid(u)' /\ editor'[u].timer => o["columnWidth"] # editor'[u].widths,
         Grid(t)' => \/ Grid(t) /\ editor'[t].draft = editor[t].draft
                     \/ Seen(editor'[t].draft) \/ editor'[t].draft \in n,
         Grid(t)' => editor'[t].widths <= edits',
         Grid(t)' /\ editor'[t].timer =>
           \/ Grid(t) /\ editor[t].timer /\ editor'[t].widths = editor[t].widths
           \/ editor'[t].widths > edits,
         PackagesApart(t)', DraftStands(t)'
  PROVE  GridInv'
<1>1. /\ \A u \in Tab : DraftStands(u)
      /\ PackagesNew /\ ValuesBounded
      /\ \A u \in Tab : Grid(u) /\ editor[u].timer => WidthUnknown(u)
      /\ SettingsTyped /\ SettingsTyped' /\ edits \in Nat /\ edits' \in Nat
  BY DEF GridInv, EditsInv, SettingsTyped
<1>2. \A o : Seen(o)' => Seen(o)
  BY SeenStays
<1>3. \A u \in Tab \ {t} : PendingBy(u)' = PendingBy(u) /\ PackagesApart(u)'
  BY <1>1, PendingStays DEF PackagesNew
<1>4. \A u \in Tab \ {t} : /\ Grid(u)' <=> Grid(u)
                           /\ Committed(u)' <=> Committed(u)
  BY DEF Grid, Committed
<1>5. \A u \in Tab \ {t} : DraftStands(u)'
  BY <1>1, <1>4 DEF DraftStands
<1>6. PackagesNew'
  <2>1. ASSUME NEW u \in Tab, NEW o \in PendingBy(u)' PROVE ~ Seen(o)'
    BY <1>1, <1>2, <1>3, <2>1 DEF PackagesNew
  <2>2. ASSUME NEW u \in Tab, NEW v \in Tab, u # v PROVE PendingBy(u)' \cap PendingBy(v)' = {}
    <3>1. PendingBy(u) \cap PendingBy(v) = {}
      BY <1>1, <2>2 DEF PackagesNew
    <3>2. QED
      BY <1>3, <2>2, <3>1
  <2>3. QED
    BY <1>3, <2>1, <2>2 DEF PackagesNew
<1>7. \A u \in Tab : PendingBy(u) \in SUBSET OptionRows /\ (Grid(u) => editor[u].draft \in OptionRows /\ editor[u].widths \in Nat)
  <2>1. ASSUME NEW u \in Tab, Grid(u) PROVE editor[u].draft \in OptionRows /\ editor[u].widths \in Nat
    BY <2>1, SessionIs, GridEditorTypes
  <2>2. QED
    BY <1>1, <2>1, PendingIs
<1>8. \A u \in Tab : Grid(u)' => editor'[u].draft \in OptionRows /\ editor'[u].widths \in Nat
  <2>1. ASSUME NEW u \in Tab, Grid(u)' PROVE editor'[u] \in GridEditors
    BY <1>1, <2>1, Placeholders DEF SettingsTyped, Editors, Grid
  <2>2. QED
    BY <2>1, GridEditorTypes
<1>9. \A o \in OptionRows : Bounded(o) => Bounded(o)' /\ o["columnWidth"] \in Nat /\ o["columnWidth"] <= edits
  BY <1>1 DEF Bounded, OptionRows, OptionKeys
<1>10. ValuesBounded'
  <2>1. \A o \in OptionRows : Seen(o)' => Bounded(o)'
    BY <1>1, <1>2, <1>9 DEF ValuesBounded
  <2>2. ASSUME NEW u \in Tab, NEW o \in PendingBy(u)' PROVE Bounded(o)'
    BY <1>1, <1>3, <1>7, <1>9, <2>2 DEF ValuesBounded
  <2>3. ASSUME NEW u \in Tab, Grid(u)' PROVE (Bounded(editor[u].draft) /\ editor[u].widths <= edits)'
    <3>1. PICK o \in OptionRows : o = editor'[u].draft
      BY <1>8, <2>3
    <3>2. Bounded(o)'
      <4>1. CASE Grid(u) /\ o = editor[u].draft
        BY <1>1, <1>9, <4>1 DEF ValuesBounded
      <4>2. CASE Seen(o) \/ o \in n
        BY <1>1, <1>9, <4>2 DEF ValuesBounded
      <4>3. QED
        BY <1>4, <2>3, <3>1, <4>1, <4>2
    <3>3. editor'[u].widths <= edits'
      BY <1>1, <1>4, <1>7, <2>3 DEF ValuesBounded
    <3>4. QED
      BY <3>1, <3>2, <3>3
  <2>4. QED
    BY <2>1, <2>2, <2>3 DEF ValuesBounded
<1>11. ASSUME NEW u \in Tab, Grid(u)', editor'[u].timer PROVE WidthUnknown(u)'
  <2> DEFINE w == editor'[u].widths
  <2>1. w \in Nat
    BY <1>8, <1>11
  <2>2. \/ WidthUnknown(u) /\ Grid(u) /\ editor[u].timer /\ w = editor[u].widths
        \/ w > edits /\ u = t
    BY <1>1, <1>4, <1>11
  <2> HIDE DEF w
  <2>3. ASSUME NEW o \in OptionRows, Seen(o)' PROVE o["columnWidth"] # w
    BY <1>1, <1>2, <1>9, <2>1, <2>2, <2>3 DEF WidthUnknown, ValuesBounded
  <2>4. ASSUME NEW v \in Tab, NEW o \in PendingBy(v)' PROVE o["columnWidth"] # w
    <3>1. CASE o \in n
      BY <1>11, <3>1 DEF w
    <3>2. CASE o \in PendingBy(v)
      BY <1>1, <1>7, <1>9, <2>1, <2>2, <3>2 DEF WidthUnknown, ValuesBounded
    <3>3. QED
      BY <1>3, <2>4, <3>1, <3>2
  <2>5. ASSUME NEW v \in Tab, Grid(v)' PROVE editor'[v].draft["columnWidth"] # w
    <3>1. CASE Grid(v) /\ editor'[v].draft = editor[v].draft
      BY <1>1, <1>7, <1>9, <2>1, <2>2, <3>1 DEF WidthUnknown, ValuesBounded
    <3>2. CASE Seen(editor'[v].draft)
      BY <1>1, <1>8, <1>9, <2>1, <2>2, <2>5, <3>2 DEF WidthUnknown, ValuesBounded
    <3>3. CASE editor'[v].draft \in n
      BY <1>11, <3>3 DEF w
    <3>4. QED
      BY <1>4, <2>5, <3>1, <3>2, <3>3
  <2>6. ASSUME NEW v \in Tab, v # u, Grid(v)', editor'[v].timer PROVE editor'[v].widths # w
    <3>1. \/ WidthUnknown(v) /\ Grid(v) /\ editor[v].timer /\ editor'[v].widths = editor[v].widths
          \/ editor'[v].widths > edits /\ v = t
      BY <1>1, <1>4, <2>6
    <3>2. CASE w > edits
      BY <1>1, <1>4, <1>7, <2>1, <2>2, <2>6, <3>2 DEF ValuesBounded
    <3>3. CASE WidthUnknown(u) /\ Grid(u) /\ w = editor[u].widths
      <4>1. CASE Grid(v) /\ editor[v].timer /\ editor'[v].widths = editor[v].widths
        BY <2>6, <3>3, <4>1 DEF WidthUnknown
      <4>2. CASE editor'[v].widths > edits /\ v = t
        BY <1>1, <1>7, <1>8, <2>6, <3>3, <4>2 DEF ValuesBounded
      <4>3. QED
        BY <3>1, <4>1, <4>2
    <3>4. QED
      BY <2>2, <3>2, <3>3
  <2>7. QED
    BY <2>3, <2>4, <2>5, <2>6 DEF WidthUnknown, w
<1>12. QED
  BY <1>5, <1>6, <1>10, <1>11 DEF GridInv

LEMMA GridQuiet ==
  ASSUME EditsInv, EditsInv', kind = "grid", GridInv, NEW t \in Tab, UNCHANGED <<kind, view>>,
         edits <= edits',
         \A u \in Tab \ {t} : /\ editor'[u] = editor[u] /\ list'[u] = list[u]
                              /\ requests'[u] = requests[u] /\ (u \in apart' <=> u \in apart),
         list'[t].shown \in ViewRows => Seen(OptionsOf(list'[t].shown)),
         list'[t].got \in ViewRows => Seen(OptionsOf(list'[t].got)),
         PendingBy(t)' \subseteq PendingBy(t),
         Grid(t)' => (Grid(t) /\ editor'[t].draft = editor[t].draft) \/ Seen(editor'[t].draft),
         Grid(t)' => \/ /\ Grid(t) /\ editor'[t].widths = editor[t].widths
                        /\ editor'[t].timer => editor[t].timer
                     \/ editor'[t].widths <= edits /\ ~ editor'[t].timer,
         PackagesApart(t)', DraftStands(t)'
  PROVE  GridInv'
<1>1. edits \in Nat /\ edits' \in Nat /\ (Grid(t) => editor[t].widths <= edits)
  BY DEF EditsInv, SettingsTyped, GridInv, ValuesBounded
<1>2. Grid(t)' => editor'[t].widths \in Nat
  <2>1. ASSUME Grid(t)' PROVE editor'[t] \in GridEditors
    BY <2>1, Placeholders DEF EditsInv, SettingsTyped, Editors, Grid
  <2>2. QED
    BY <2>1, GridEditorTypes
<1>3. Grid(t)' => editor'[t].widths <= edits'
  BY <1>1, <1>2
<1>4. Grid(t)' /\ editor'[t].timer =>
        \/ Grid(t) /\ editor[t].timer /\ editor'[t].widths = editor[t].widths
        \/ editor'[t].widths > edits
  OBVIOUS
<1> DEFINE n == {}
<1>5. n \in SUBSET OptionRows /\ PendingBy(t)' \subseteq PendingBy(t) \cup n /\ \A o : o \notin n
  OBVIOUS
<1> HIDE DEF n
<1>6. Grid(t)' => \/ Grid(t) /\ editor'[t].draft = editor[t].draft
                  \/ Seen(editor'[t].draft) \/ editor'[t].draft \in n
  OBVIOUS
<1>7. QED
  BY <1>3, <1>4, <1>5, <1>6, GridStep

LEMMA KnownOptions ==
  ASSUME SettingsTyped, NEW t \in Tab
  PROVE  /\ view \in ViewRows => Seen(OptionsOf(view))
         /\ list[t].shown \in ViewRows => Seen(OptionsOf(list[t].shown))
         /\ list[t].got \in ViewRows => Seen(OptionsOf(list[t].got))
         /\ kind = "grid" /\ ValuesBounded =>
              \A row \in ViewRows : Seen(OptionsOf(row)) => row["columnWidth"] <= edits
<1>1. /\ view \in ViewRows => Seen(OptionsOf(view))
      /\ list[t].shown \in ViewRows => Seen(OptionsOf(list[t].shown))
      /\ list[t].got \in ViewRows => Seen(OptionsOf(list[t].got))
  BY Placeholders DEF Seen
<1>2. ASSUME ValuesBounded, NEW row \in ViewRows, Seen(OptionsOf(row)) PROVE row["columnWidth"] <= edits
  <2>1. OptionsOf(row) \in OptionRows /\ OptionsOf(row)["columnWidth"] = row["columnWidth"]
    BY RowOptions DEF OptionKeys
  <2>2. QED
    BY <1>2, <2>1 DEF ValuesBounded, Bounded, OptionKeys
<1>3. QED
  BY <1>1, <1>2

LEMMA ListsGrid ==
  ASSUME EditsInv, EditsInv', kind = "grid", GridInv, NEW t \in Tab,
         ServerReads(t) \/ RetryList(t) \/ Tell(t)
  PROVE  GridInv'
<1>1. /\ UNCHANGED <<kind, view, requests, editor, edits, mine, apart>>
      /\ list'[t].shown = list[t].shown /\ \A u \in Tab \ {t} : list'[u] = list[u]
      /\ \/ list'[t].fetch = "read" /\ list'[t].got = view
         \/ list'[t].fetch = "asked" /\ list'[t].got = Nothing
  BY ListMoves DEF EditsInv
<1>2. SettingsTyped /\ DraftStands(t) /\ PackagesApart(t) /\ ValuesBounded /\ edits \in Nat
  BY DEF EditsInv, GridInv, PackagesNew, SettingsTyped
<1>3. /\ list'[t].shown \in ViewRows => Seen(OptionsOf(list'[t].shown))
      /\ list'[t].got \in ViewRows => Seen(OptionsOf(list'[t].got))
  BY <1>1, <1>2, KnownOptions, Placeholders
<1>4. PendingBy(t)' = PendingBy(t) /\ PackagesApart(t)'
  BY <1>1, <1>2, PendingStays
<1>5. DraftStands(t)'
  <2>1. (Grid(t)' <=> Grid(t)) /\ (Committed(t)' <=> Committed(t))
    BY <1>1 DEF Grid, Committed
  <2>2. Grid(t) /\ editor[t].at = "reconcile" => Committed(t)
    BY DEF Grid, Committed
  <2>3. QED
    BY <1>1, <1>2, <2>1, <2>2, Placeholders DEF DraftStands
<1>6. Grid(t)' => Grid(t) /\ editor[t].widths <= edits
  BY <1>1, <1>2 DEF Grid, ValuesBounded
<1>7. edits <= edits'
  BY <1>1, <1>2
<1>8. QED
  BY <1>1, <1>3, <1>4, <1>5, <1>6, <1>7, GridQuiet

LEMMA ClosedGrid ==
  ASSUME EditsInv, NEW t \in Tab, PackagesApart(t), editor'[t] = Closed, requests'[t] = Left(t)
  PROVE  /\ ~ Grid(t)' /\ DraftStands(t)' /\ PackagesApart(t)'
         /\ PendingBy(t)' \subseteq PendingBy(t)
<1>1. ~ editor'[t].open
  BY Placeholders
<1>2. ~ Grid(t)' /\ UnsentBy(t)' = {}
  BY <1>1 DEF Grid, UnsentBy
<1>3. \A p \in SentBy(t)' : \E q \in SentBy(t) : p = [q EXCEPT !.live = FALSE] /\ p.put = q.put
  <2>1. requests[t] \in SUBSET Mutations
    BY SessionIs
  <2>2. \A q \in requests[t] : [q EXCEPT !.live = FALSE].at = q.at /\ [q EXCEPT !.live = FALSE].put = q.put
    BY <2>1 DEF Mutations
  <2>3. ASSUME NEW p \in SentBy(t)' PROVE \E q \in SentBy(t) : p = [q EXCEPT !.live = FALSE] /\ p.put = q.put
    <3>1. PICK q \in requests[t] : p = [q EXCEPT !.live = FALSE]
      BY DEF SentBy, Left
    <3>2. p.at = "sent" /\ p.put \in OptionRows /\ p.at = q.at /\ p.put = q.put
      BY <2>2, <3>1 DEF SentBy
    <3>3. QED
      BY <3>1, <3>2 DEF SentBy
  <2>4. QED
    BY <2>3
<1>4. PackagesApart(t)'
  <2>1. ASSUME NEW x \in SentBy(t)', NEW y \in SentBy(t)', x.put = y.put PROVE x = y
    <3>1. PICK q \in SentBy(t) : x = [q EXCEPT !.live = FALSE] /\ x.put = q.put
      BY <1>3
    <3>2. PICK p \in SentBy(t) : y = [p EXCEPT !.live = FALSE] /\ y.put = p.put
      BY <1>3
    <3>3. q = p
      BY <2>1, <3>1, <3>2 DEF PackagesApart
    <3>4. QED
      BY <3>1, <3>2, <3>3
  <2>2. QED
    BY <1>2, <2>1 DEF PackagesApart
<1>5. PendingBy(t)' \subseteq PendingBy(t)
  BY <1>2, <1>3 DEF PendingBy
<1>6. QED
  BY <1>2, <1>4, <1>5 DEF DraftStands

LEMMA OpenedGrid ==
  ASSUME EditsInv, NEW t \in Tab, PackagesApart(t), UNCHANGED kind, kind = "grid",
         requests'[t] = requests[t], ~ editor[t].open,
         NEW row \in ViewRows, editor'[t] = Opened(row), list'[t].shown = row
  PROVE  /\ DraftStands(t)' /\ PackagesApart(t)' /\ PendingBy(t)' \subseteq PendingBy(t)
         /\ editor'[t].draft = OptionsOf(row) /\ editor'[t].widths = row["columnWidth"]
         /\ ~ editor'[t].timer
<1>1. /\ editor'[t].draft = OptionsOf(row) /\ editor'[t].widths = row["columnWidth"] /\ ~ editor'[t].timer
      /\ editor'[t].queue = <<>> /\ editor'[t].at = "idle"
  BY Opens
<1>2. UnsentBy(t)' = {} /\ SentBy(t)' = SentBy(t)
  BY <1>1 DEF UnsentBy, SentBy
<1>3. PackagesApart(t)' /\ PendingBy(t)' \subseteq PendingBy(t)
  BY <1>2 DEF PackagesApart, PendingBy
<1>4. ~ Committed(t)'
  BY <1>1, SessionIs DEF Committed, Attached
<1>5. DraftStands(t)'
  BY <1>1, <1>4 DEF DraftStands
<1>6. QED
  BY <1>1, <1>3, <1>5

LEMMA ClosesGrid ==
  ASSUME EditsInv, EditsInv', kind = "grid", GridInv, NEW t \in Tab,
         Leave(t) \/ Return(t) \/ FetchFails(t)
  PROVE  GridInv'
<1>1. /\ SettingsTyped /\ DraftStands(t) /\ PackagesApart(t) /\ ValuesBounded /\ edits \in Nat
      /\ list \in [Tab -> Lists] /\ editor \in [Tab -> Editors]
  BY DEF EditsInv, GridInv, PackagesNew, SettingsTyped
<1>2. UNCHANGED <<kind, view, edits>> /\ \A u \in Tab \ {t} : u \in apart' <=> u \in apart
  BY DEF Leave, Return, FetchFails
<1>3. edits <= edits'
  BY <1>1, <1>2
<1>4. CASE Leave(t) \/ FetchFails(t)
  <2>1. Close(t)
    BY <1>4 DEF Leave, FetchFails
  <2>2. /\ editor'[t] = Closed /\ requests'[t] = Left(t)
        /\ \A u \in Tab \ {t} : editor'[u] = editor[u] /\ requests'[u] = requests[u]
    BY <2>1, CloseIs DEF Close, EditsInv, SettingsTyped
  <2>3. \/ list' = list
        \/ list' = [list EXCEPT ![t] = Fetched(list[t], Failed)]
    BY <1>4 DEF Leave, FetchFails
  <2>4. Fetched(list[t], Failed).shown = Failed /\ Fetched(list[t], Failed).got = Nothing
    BY FetchedIs
  <2>5. /\ \A u \in Tab \ {t} : list'[u] = list[u]
        /\ list'[t].shown \in ViewRows => Seen(OptionsOf(list'[t].shown))
        /\ list'[t].got \in ViewRows => Seen(OptionsOf(list'[t].got))
    BY <1>1, <2>3, <2>4, KnownOptions, Placeholders
  <2>6. ~ Grid(t)' /\ DraftStands(t)' /\ PackagesApart(t)' /\ PendingBy(t)' \subseteq PendingBy(t)
    BY <1>1, <2>2, ClosedGrid
  <2>7. QED
    BY <1>2, <1>3, <2>2, <2>5, <2>6, GridQuiet
<1>5. CASE Return(t)
  <2>1. /\ UNCHANGED <<list, requests, apart>> /\ ~ editor[t].open
        /\ editor' = [editor EXCEPT ![t] = Opened(list[t].shown)] /\ list[t].shown \notin {Gone, Failed}
    BY <1>5 DEF Return
  <2>2. list[t].shown \in ViewRows
    BY <1>1, <2>1, ListTypes
  <2>3. editor'[t] = Opened(list[t].shown) /\ \A u \in Tab \ {t} : editor'[u] = editor[u]
    BY <1>1, <2>1
  <2>4. /\ DraftStands(t)' /\ PackagesApart(t)' /\ PendingBy(t)' \subseteq PendingBy(t)
        /\ editor'[t].draft = OptionsOf(list[t].shown) /\ editor'[t].widths = list[t].shown["columnWidth"]
        /\ ~ editor'[t].timer
    BY <1>1, <1>2, <2>1, <2>2, <2>3, OpenedGrid
  <2>5. /\ Seen(OptionsOf(list[t].shown)) /\ list[t].shown["columnWidth"] <= edits
        /\ list'[t].shown \in ViewRows => Seen(OptionsOf(list'[t].shown))
        /\ list'[t].got \in ViewRows => Seen(OptionsOf(list'[t].got))
    BY <1>1, <2>1, <2>2, KnownOptions
  <2>6. QED
    BY <1>2, <1>3, <2>1, <2>3, <2>4, <2>5, GridQuiet
<1>6. QED
  BY <1>4, <1>5

LEMMA LandsGrid ==
  ASSUME EditsInv, EditsInv', kind = "grid", GridInv, NEW t \in Tab, FetchLands(t)
  PROVE  GridInv'
<1> DEFINE row == list[t].got
<1>1. /\ SettingsTyped /\ DraftStands(t) /\ PackagesApart(t) /\ ValuesBounded /\ edits \in Nat
      /\ list \in [Tab -> Lists] /\ editor \in [Tab -> Editors] /\ list[t] \in Lists
  BY DEF EditsInv, GridInv, PackagesNew, SettingsTyped
<1>2. /\ UNCHANGED <<kind, view, edits>> /\ list[t].fetch = "read"
      /\ list' = [list EXCEPT ![t] = Fetched(list[t], row)]
  BY Landings
<1>3. \A u \in Tab \ {t} : u \in apart' <=> u \in apart
  BY DEF FetchLands
<1>4. edits <= edits'
  BY <1>1, <1>2
<1>5. list'[t].shown = row /\ list'[t].got = Nothing /\ list'[t].fetch = "none"
      /\ \A u \in Tab \ {t} : list'[u] = list[u]
  <2>1. row \in ViewRows \cup {Gone}
    BY Landings
  <2> HIDE DEF row
  <2>2. /\ Fetched(list[t], row).shown = row /\ Fetched(list[t], row).got = Nothing
        /\ Fetched(list[t], row).fetch = "none"
    BY <1>1, <2>1, FetchedIs
  <2>3. QED
    BY <1>1, <1>2, <2>2
<1>6. /\ list'[t].shown \in ViewRows => Seen(OptionsOf(list'[t].shown))
      /\ list'[t].got \in ViewRows => Seen(OptionsOf(list'[t].got))
  BY <1>1, <1>5, KnownOptions, Placeholders
<1> HIDE DEF row
<1>7. CASE row = Gone /\ Close(t)
  <2>1. /\ editor'[t] = Closed /\ requests'[t] = Left(t)
        /\ \A u \in Tab \ {t} : editor'[u] = editor[u] /\ requests'[u] = requests[u]
    BY <1>7, CloseIs DEF Close, EditsInv, SettingsTyped
  <2>2. ~ Grid(t)' /\ DraftStands(t)' /\ PackagesApart(t)' /\ PendingBy(t)' \subseteq PendingBy(t)
    BY <1>1, <2>1, ClosedGrid
  <2>3. QED
    BY <1>2, <1>3, <1>4, <1>5, <1>6, <2>1, <2>2, GridQuiet
<1>8. CASE /\ row \in ViewRows /\ ~ editor[t].open /\ UNCHANGED requests
           /\ editor' = [editor EXCEPT ![t] = Opened(row)]
  <2>1. editor'[t] = Opened(row) /\ \A u \in Tab \ {t} : editor'[u] = editor[u]
    BY <1>1, <1>8
  <2>2. /\ DraftStands(t)' /\ PackagesApart(t)' /\ PendingBy(t)' \subseteq PendingBy(t)
        /\ editor'[t].draft = OptionsOf(row) /\ editor'[t].widths = row["columnWidth"]
        /\ ~ editor'[t].timer
    BY <1>1, <1>2, <1>5, <1>8, <2>1, OpenedGrid
  <2>3. Seen(OptionsOf(row)) /\ row["columnWidth"] <= edits
    BY <1>1, <1>8, KnownOptions DEF row
  <2>4. QED
    BY <1>2, <1>3, <1>4, <1>5, <1>6, <1>8, <2>1, <2>2, <2>3, GridQuiet
<1>9. CASE /\ row \in ViewRows /\ ~ editor[t].open /\ UNCHANGED <<requests, editor>>
  <2>1. ~ Grid(t)' /\ DraftStands(t)'
    BY <1>9 DEF Grid, DraftStands
  <2>2. PendingBy(t)' = PendingBy(t) /\ PackagesApart(t)'
    BY <1>1, <1>9, PendingStays
  <2>3. QED
    BY <1>2, <1>3, <1>4, <1>5, <1>6, <1>9, <2>1, <2>2, GridQuiet
<1>10. CASE /\ row \in ViewRows /\ editor[t].open /\ UNCHANGED requests
            /\ editor' = Adopted(t, row)
  <2>1. Grid(t) /\ Attached(t) /\ editor[t] \in GridEditors /\ list[t].shown \in ViewRows /\ row # Gone
    BY <1>10, SessionIs, Placeholders DEF Grid, Attached
  <2>2. editor' = editor => apart' = apart
    BY <1>10, <2>1, Placeholders DEF FetchLands, row
  <2>3. CASE OptionsOf(row) # OptionsOf(list[t].shown) /\ editor[t].queue = <<>>
    <3> DEFINE o == OptionsOf(row)
    <3>1. o \in OptionRows
      BY <1>10, RowOptions
    <3>2. editor' = [editor EXCEPT ![t].draft = o]
      BY <1>10, <2>1, <2>3 DEF Adopted, Adopts
    <3> HIDE DEF o
    <3>3. /\ editor'[t] \in GridEditors /\ editor'[t].draft = o /\ editor'[t].queue = <<>>
          /\ editor'[t].at = editor[t].at /\ editor'[t].widths = editor[t].widths
          /\ editor'[t].timer = editor[t].timer /\ editor'[t].open
      <4> DEFINE e == [editor[t] EXCEPT !.draft = o]
      <4>1. /\ e \in GridEditors /\ e.draft = o /\ e.queue = <<>> /\ e.at = editor[t].at
            /\ e.widths = editor[t].widths /\ e.timer = editor[t].timer /\ e.open
        BY <2>1, <2>3, <3>1, GridDraftSet
      <4>2. editor'[t] = e
        BY <1>1, <3>2
      <4> HIDE DEF e
      <4>3. QED
        BY <4>1, <4>2
    <3>4. \A u \in Tab \ {t} : editor'[u] = editor[u]
      BY <1>1, <3>2
    <3>5. editor[t].at = "idle" /\ ~ Committed(t)'
      <4>1. editor[t].at = "idle"
        BY <2>1, <2>3 DEF Attached
      <4>2. \A q \in requests[t] : ~ q.live
        BY <2>1, <4>1 DEF Attached
      <4>3. QED
        BY <1>10, <3>3, <4>1, <4>2 DEF Committed
    <3>6. DraftStands(t)'
      BY <1>5, <3>3, <3>5 DEF DraftStands, o
    <3>7. SentBy(t)' = SentBy(t) /\ UnsentBy(t)' = {}
      BY <1>10, <3>3 DEF SentBy, UnsentBy
    <3>8. PackagesApart(t)' /\ PendingBy(t)' \subseteq PendingBy(t)
      BY <1>1, <3>7 DEF PackagesApart, PendingBy
    <3>9. Seen(o)
      BY <1>5, <1>6, <1>10 DEF o
    <3>10. QED
      BY <1>2, <1>3, <1>4, <1>5, <1>6, <1>10, <2>1, <3>3, <3>4, <3>6, <3>8, <3>9, GridQuiet
  <2>4. CASE OptionsOf(row) = OptionsOf(list[t].shown) \/ editor[t].queue # <<>>
    <3>1. editor' = editor /\ apart' = apart
      BY <1>10, <2>2, <2>4 DEF Adopted, Adopts
    <3>2. (Grid(t)' <=> Grid(t)) /\ (Committed(t)' <=> Committed(t))
      BY <1>2, <1>10, <3>1 DEF Grid, Committed
    <3>3. DraftStands(t)'
      BY <1>1, <1>2, <1>5, <2>1, <2>4, <3>1, <3>2 DEF DraftStands, row
    <3>4. PendingBy(t)' = PendingBy(t) /\ PackagesApart(t)'
      BY <1>1, <1>10, <3>1, PendingStays
    <3>5. QED
      BY <1>2, <1>3, <1>4, <1>5, <1>6, <1>10, <2>1, <3>1, <3>3, <3>4, GridQuiet
  <2>5. QED
    BY <2>3, <2>4
<1>11. QED
  BY <1>7, <1>8, <1>9, <1>10, Landings DEF row

(* A request of no package, and an answer, leave the packages.              *)
LEMMA AsksGrid ==
  ASSUME EditsInv, EditsInv', kind = "grid", GridInv, NEW t \in Tab, Rename(t) \/ Remove(t)
  PROVE  GridInv'
<1>1. /\ SettingsTyped /\ DraftStands(t) /\ PackagesApart(t) /\ ValuesBounded
      /\ requests \in [Tab -> SUBSET Mutations] /\ edits \in Nat
  BY DEF EditsInv, GridInv, PackagesNew, SettingsTyped
<1>2. UNCHANGED <<kind, view, list, editor, apart>>
  BY DEF Rename, Remove
<1>3. edits' = edits + 1
  BY DEF Rename, Remove, Choose
<1>4. edits <= edits' /\ edits' \in Nat
  BY <1>1, <1>3
<1>5. PICK put \in Names \cup {Gone} :
        requests' = [requests EXCEPT ![t] = requests[t] \cup {[at |-> "sent", put |-> put, live |-> FALSE]}]
  BY <1>1, <1>4 DEF Rename, Remove, Ask, Names
<1>6. put \notin OptionRows
  BY Placeholders
<1> DEFINE q == [at |-> "sent", put |-> put, live |-> FALSE]
<1>7. /\ requests'[t] = requests[t] \cup {q} /\ \A u \in Tab \ {t} : requests'[u] = requests[u]
      /\ q.put = put /\ ~ q.live
  BY <1>1, <1>5
<1> HIDE DEF q
<1>8. SentBy(t)' = SentBy(t) /\ UnsentBy(t)' = UnsentBy(t)
  BY <1>2, <1>6, <1>7 DEF SentBy, UnsentBy
<1>9. PackagesApart(t)' /\ PendingBy(t)' = PendingBy(t)
  BY <1>1, <1>2, <1>8 DEF PackagesApart, PendingBy
<1>10. (Grid(t)' <=> Grid(t)) /\ (Committed(t)' <=> Committed(t))
  BY <1>2, <1>7 DEF Grid, Committed
<1>11. DraftStands(t)'
  BY <1>1, <1>2, <1>10 DEF DraftStands
<1>12. /\ list'[t].shown \in ViewRows => Seen(OptionsOf(list'[t].shown))
       /\ list'[t].got \in ViewRows => Seen(OptionsOf(list'[t].got))
  BY <1>1, <1>2, KnownOptions
<1>13. QED
  BY <1>2, <1>4, <1>7, <1>9, <1>10, <1>11, <1>12, GridQuiet

LEMMA ResizeGrid ==
  ASSUME EditsInv, EditsInv', kind = "grid", GridInv, NEW t \in Tab, Resize(t)
  PROVE  GridInv'
<1>1. /\ SettingsTyped /\ DraftStands(t) /\ PackagesApart(t) /\ edits \in Nat
      /\ editor \in [Tab -> Editors]
  BY DEF EditsInv, GridInv, PackagesNew, SettingsTyped
<1>2. /\ Grid(t) /\ edits' = edits + 1 /\ UNCHANGED <<kind, view, list, requests, apart>>
      /\ editor[t] \in GridEditors
  BY SessionIs DEF Resize, Choose
<1>3. PICK w \in Nat : w = edits'
  BY <1>1, <1>2
<1> DEFINE e == [editor[t] EXCEPT !.widths = w, !.timer = TRUE]
<1>4. editor' = [editor EXCEPT ![t] = e]
  BY <1>1, <1>3 DEF Resize
<1>5. /\ e.open /\ e.at = editor[t].at /\ e.queue = editor[t].queue
      /\ e.draft = editor[t].draft /\ e.widths = w
  BY <1>2 DEF GridEditors
<1> HIDE DEF e
<1>6. editor'[t] = e /\ \A u \in Tab \ {t} : editor'[u] = editor[u]
  BY <1>1, <1>4
<1>7. SentBy(t)' = SentBy(t) /\ UnsentBy(t)' = UnsentBy(t)
  BY <1>2, <1>5, <1>6 DEF SentBy, UnsentBy, Grid
<1>8. PackagesApart(t)' /\ PendingBy(t)' = PendingBy(t)
  BY <1>1, <1>5, <1>6, <1>7 DEF PackagesApart, PendingBy
<1>9. Committed(t)' <=> Committed(t)
  BY <1>2, <1>5, <1>6 DEF Grid, Committed
<1>10. DraftStands(t)'
  BY <1>1, <1>2, <1>5, <1>6, <1>9 DEF DraftStands
<1>11. /\ list'[t].shown \in ViewRows => Seen(OptionsOf(list'[t].shown))
       /\ list'[t].got \in ViewRows => Seen(OptionsOf(list'[t].got))
  BY <1>1, <1>2, KnownOptions
<1> DEFINE n == {}
<1>12. n \in SUBSET OptionRows /\ PendingBy(t)' \subseteq PendingBy(t) \cup n /\ \A o : o \notin n
  BY <1>8
<1> HIDE DEF n
<1>13. edits <= edits' /\ editor'[t].widths <= edits' /\ editor'[t].widths > edits
  BY <1>1, <1>2, <1>3, <1>5, <1>6
<1>14. editor'[t].draft = editor[t].draft
  BY <1>5, <1>6
<1>15. QED
  BY <1>2, <1>6, <1>8, <1>10, <1>11, <1>12, <1>13, <1>14, GridStep

LEMMA SendsGrid ==
  ASSUME EditsInv, EditsInv', kind = "grid", GridInv, NEW t \in Tab, SendPatch(t)
  PROVE  GridInv'
<1>1. /\ SettingsTyped /\ DraftStands(t) /\ PackagesApart(t) /\ edits \in Nat
      /\ editor \in [Tab -> Editors] /\ requests \in [Tab -> SUBSET Mutations]
  BY DEF EditsInv, GridInv, PackagesNew, SettingsTyped
<1>2. /\ Grid(t) /\ UNCHANGED <<kind, view, list, edits, apart>>
      /\ editor[t].at = "idle" /\ editor[t].queue # <<>> /\ editor[t] \in GridEditors /\ Attached(t)
  BY SessionIs DEF SendPatch
<1> DEFINE put == editor[t].queue[1]
           q == [at |-> "sent", put |-> put, live |-> TRUE]
           e == [editor[t] EXCEPT !.at = "sent"]
<1>3. put = Head(editor[t].queue) /\ put \in OptionRows /\ 1 \in DOMAIN editor[t].queue
      /\ DOMAIN editor[t].queue \subseteq Nat
  <2>1. /\ editor[t].queue \in Seq(OptionRows) /\ Len(editor[t].queue) \in Nat \ {0}
        /\ put = Head(editor[t].queue) /\ put \in OptionRows
    BY <1>2, QueueMoves, GridEditorTypes
  <2>2. DOMAIN editor[t].queue = 1..Len(editor[t].queue)
    BY <2>1
  <2>3. QED
    BY <2>1, <2>2
<1>4. editor' = [editor EXCEPT ![t] = e]
      /\ requests' = [requests EXCEPT ![t] = requests[t] \cup {q}]
  BY <1>1, <1>3 DEF SendPatch, Ask
<1>5. e.open /\ e.at = "sent" /\ e.queue = editor[t].queue /\ e.draft = editor[t].draft
      /\ e.widths = editor[t].widths /\ e.timer = editor[t].timer
  BY <1>2, GridAtSet
<1>6. q.at = "sent" /\ q.put = put /\ q.live
  OBVIOUS
<1> HIDE DEF e, q
<1>7. /\ editor'[t] = e /\ requests'[t] = requests[t] \cup {q}
      /\ \A u \in Tab \ {t} : editor'[u] = editor[u] /\ requests'[u] = requests[u]
  BY <1>1, <1>4
<1>8. UnsentBy(t) = DOMAIN editor[t].queue /\ UnsentBy(t)' = {i \in DOMAIN editor[t].queue : i > 1}
  BY <1>2, <1>5, <1>7 DEF UnsentBy, Grid
<1>9. SentBy(t)' = SentBy(t) \cup {q}
  BY <1>3, <1>6, <1>7 DEF SentBy
<1>10. PendingBy(t)' \subseteq PendingBy(t)
  BY <1>3, <1>5, <1>6, <1>7, <1>8, <1>9 DEF PendingBy
<1>11. PackagesApart(t)'
  <2>1. ASSUME NEW p \in SentBy(t) PROVE p.put # q.put
    BY <1>1, <1>3, <1>6, <1>8 DEF PackagesApart
  <2>2. ASSUME NEW i \in UnsentBy(t)' PROVE editor[t].queue[i] # q.put /\ i \in UnsentBy(t)
    BY <1>1, <1>3, <1>6, <1>8 DEF PackagesApart
  <2>3. QED
    BY <1>1, <1>5, <1>7, <1>9, <2>1, <2>2 DEF PackagesApart
<1>12. ~ Committed(t)'
  <2>1. \A p \in requests[t] : ~ p.live
    BY <1>2 DEF Attached
  <2>2. QED
    BY <1>5, <1>6, <1>7, <2>1 DEF Committed
<1>13. DraftStands(t)'
  BY <1>2, <1>5, <1>7, <1>12 DEF DraftStands
<1>14. /\ list'[t].shown \in ViewRows => Seen(OptionsOf(list'[t].shown))
       /\ list'[t].got \in ViewRows => Seen(OptionsOf(list'[t].got))
  BY <1>1, <1>2, KnownOptions
<1>15. edits <= edits'
  BY <1>1, <1>2
<1>16. QED
  BY <1>2, <1>5, <1>7, <1>10, <1>11, <1>13, <1>14, <1>15, GridQuiet

(* A new package is no other. *)
LEMMA PackagedGrid ==
  ASSUME EditsInv, EditsInv', kind = "grid", GridInv, NEW t \in Tab, Grid(t),
         UNCHANGED <<kind, view, requests, list, apart>>, edits <= edits', NEW e \in GridEditors,
         editor' = [editor EXCEPT ![t] = e], e.at = editor[t].at,
         e.queue = Append(editor[t].queue, e.draft), e.widths = editor[t].widths,
         e.timer => editor[t].timer,
         ~ Seen(e.draft), \A u \in Tab : e.draft \notin PendingBy(u), Bounded(e.draft)',
         \A u \in Tab : Grid(u)' /\ editor'[u].timer => e.draft["columnWidth"] # editor'[u].widths
  PROVE  GridInv'
<1>1. /\ SettingsTyped /\ DraftStands(t) /\ PackagesApart(t) /\ edits \in Nat /\ edits' \in Nat
      /\ editor \in [Tab -> Editors] /\ editor[t].widths <= edits
  BY DEF EditsInv, GridInv, PackagesNew, SettingsTyped, ValuesBounded
<1>2. /\ editor[t] \in GridEditors /\ Attached(t) /\ editor[t].queue \in Seq(OptionRows)
      /\ e.draft \in OptionRows /\ editor[t].widths \in Nat
  BY SessionIs, GridEditorTypes
<1>3. editor'[t] = e /\ \A u \in Tab \ {t} : editor'[u] = editor[u]
  BY <1>1
<1> DEFINE s == editor[t].queue
           k == Len(s) + 1
<1>4. /\ Len(s) \in Nat /\ DOMAIN s = 1..Len(s) /\ DOMAIN e.queue = 1..k
      /\ \A i \in 1..Len(s) : e.queue[i] = s[i]
      /\ e.queue[k] = e.draft /\ e.queue # <<>>
      /\ s # <<>> => Head(e.queue) = Head(s)
      /\ s = <<>> => Len(s) = 0
      /\ Len(s) = 0 => s = <<>>
  <2>1. s \in Seq(OptionRows) /\ e.draft \in OptionRows /\ e.queue = Append(s, e.draft)
    BY <1>2
  <2> HIDE DEF s
  <2>2. QED
    BY <2>1, AppendProperties, EmptySeq
<1>5. s = <<>> => editor[t].at = "idle"
  BY <1>2 DEF Attached
<1>6. editor[t].open /\ e.open
  BY GridEditorTypes DEF Grid
<1> HIDE DEF s, k
<1>7. UnsentBy(t)' = UnsentBy(t) \cup {k}
  BY <1>3, <1>4, <1>5, <1>6 DEF UnsentBy, s, k
<1>8. SentBy(t)' = SentBy(t)
  BY DEF SentBy
<1>9. \A i \in UnsentBy(t) : i \in 1..Len(s) /\ e.queue[i] = s[i] /\ s[i] \in PendingBy(t)
  BY <1>4, <1>6 DEF UnsentBy, PendingBy, s
<1>10. \A q \in SentBy(t) : q.put \in PendingBy(t)
  BY DEF PendingBy
<1>11. PendingBy(t)' \subseteq PendingBy(t) \cup {e.draft}
  <2>1. ASSUME NEW i \in UnsentBy(t)' PROVE e.queue[i] \in PendingBy(t) \cup {e.draft}
    BY <1>4, <1>7, <1>9
  <2>2. \A q \in SentBy(t)' : q.put \in PendingBy(t)
    BY <1>8, <1>10
  <2>3. ASSUME NEW o \in PendingBy(t)' PROVE o \in PendingBy(t) \cup {e.draft}
    <3>1. (\E q \in SentBy(t)' : o = q.put) \/ \E i \in UnsentBy(t)' : o = editor'[t].queue[i]
      BY DEF PendingBy
    <3>2. CASE \E q \in SentBy(t)' : o = q.put
      BY <2>2, <3>2
    <3>3. CASE \E i \in UnsentBy(t)' : o = editor'[t].queue[i]
      <4>1. PICK i \in UnsentBy(t)' : o = editor'[t].queue[i]
        BY <3>3
      <4>2. e.queue[i] \in PendingBy(t) \cup {e.draft} /\ editor'[t].queue = e.queue
        BY <1>3, <2>1
      <4>3. QED
        BY <4>1, <4>2
    <3>4. QED
      BY <3>1, <3>2, <3>3
  <2>4. QED
    BY <2>3
<1>12. PackagesApart(t)'
  <2>1. ASSUME NEW q \in SentBy(t), NEW i \in UnsentBy(t)' PROVE q.put # e.queue[i]
    <3>1. CASE i = k
      BY <1>4, <1>10, <3>1
    <3>2. CASE i \in UnsentBy(t)
      BY <1>1, <1>9, <3>2 DEF PackagesApart, s
    <3>3. QED
      BY <1>7, <3>1, <3>2
  <2>2. ASSUME NEW i \in UnsentBy(t)', NEW j \in UnsentBy(t)', e.queue[i] = e.queue[j] PROVE i = j
    <3>1. CASE i \in UnsentBy(t) /\ j \in UnsentBy(t)
      BY <1>1, <1>9, <2>2, <3>1 DEF PackagesApart, s
    <3>2. CASE i = k \/ j = k
      BY <1>4, <1>7, <1>9, <2>2, <3>2
    <3>3. QED
      BY <1>7, <3>1, <3>2
  <2>3. \A q, p \in SentBy(t) : q.put = p.put => q = p
    BY <1>1 DEF PackagesApart
  <2>4. SentBy(t)' = SentBy(t) /\ editor'[t].queue = e.queue
    BY <1>3, <1>8
  <2>5. /\ \A q, p \in SentBy(t)' : q.put = p.put => q = p
        /\ \A i, j \in UnsentBy(t)' : editor'[t].queue[i] = editor'[t].queue[j] => i = j
        /\ \A q \in SentBy(t)', i \in UnsentBy(t)' : q.put # editor'[t].queue[i]
    <3>1. \A q, p \in SentBy(t)' : q.put = p.put => q = p
      BY <2>3, <2>4
    <3>2. \A i, j \in UnsentBy(t)' : editor'[t].queue[i] = editor'[t].queue[j] => i = j
      BY <2>2, <2>4
    <3>3. \A q \in SentBy(t)', i \in UnsentBy(t)' : q.put # editor'[t].queue[i]
      BY <2>1, <2>4
    <3>4. QED
      BY <3>1, <3>2, <3>3
  <2>6. QED
    BY <2>5 DEF PackagesApart
<1>13. (Committed(t)' <=> Committed(t)) /\ (Committed(t) => s # <<>>) /\ Grid(t)'
  BY <1>2, <1>3, <1>6 DEF Committed, Attached, Grid, s
<1>14. DraftStands(t)'
  BY <1>1, <1>3, <1>4, <1>5, <1>13 DEF DraftStands, s
<1>15. /\ list'[t].shown \in ViewRows => Seen(OptionsOf(list'[t].shown))
       /\ list'[t].got \in ViewRows => Seen(OptionsOf(list'[t].got))
  BY <1>1, KnownOptions
<1> DEFINE n == {e.draft}
<1>16. n \in SUBSET OptionRows /\ e.draft \in n /\ PendingBy(t)' \subseteq PendingBy(t) \cup n
  BY <1>2, <1>11
<1>17. \A o \in n : /\ ~ Seen(o) /\ (\A u \in Tab : o \notin PendingBy(u)) /\ Bounded(o)'
                    /\ \A u \in Tab : Grid(u)' /\ editor'[u].timer => o["columnWidth"] # editor'[u].widths
  OBVIOUS
<1> HIDE DEF n
<1>18. /\ editor'[t].draft \in n /\ editor'[t].widths <= edits'
       /\ editor'[t].widths = editor[t].widths /\ editor'[t].timer => editor[t].timer
  BY <1>1, <1>2, <1>3, <1>16
<1>19. QED
  BY <1>3, <1>12, <1>14, <1>15, <1>16, <1>17, <1>18, GridStep

LEMMA PatchesGrid ==
  ASSUME EditsInv, EditsInv', kind = "grid", GridInv, NEW t \in Tab, Patch(t)
  PROVE  GridInv'
<1>1. /\ ValuesBounded /\ edits \in Nat /\ edits' = edits + 1 /\ editor \in [Tab -> Editors]
      /\ \A u \in Tab : Grid(u) /\ editor[u].timer => WidthUnknown(u)
  BY DEF EditsInv, GridInv, SettingsTyped, Patch, Choose
<1>2. /\ Grid(t) /\ UNCHANGED <<kind, view, list, requests, apart>> /\ editor[t] \in GridEditors
      /\ editor[t].draft \in OptionRows /\ Bounded(editor[t].draft)
  BY <1>1, SessionIs, GridEditorTypes DEF Patch, ValuesBounded
<1>3. PICK v \in Nat : v = edits'
  BY <1>1
<1>4. PICK e \in GridEditors :
        /\ editor' = [editor EXCEPT ![t] = e] /\ e.at = editor[t].at
        /\ e.queue = Append(editor[t].queue, e.draft)
        /\ e.widths = editor[t].widths /\ e.timer = editor[t].timer
        /\ e.draft = [editor[t].draft EXCEPT !["filter"] = v]
  <2> DEFINE p == Patched(editor[t], "filter", v)
             next == [editor[t].draft EXCEPT !["filter"] = v]
  <2>1. /\ p \in GridEditors /\ p.draft = next /\ p.queue = Append(editor[t].queue, next)
        /\ p.at = editor[t].at /\ p.widths = editor[t].widths /\ p.timer = editor[t].timer
    BY <1>2, <1>3, GridEdits DEF OptionKeys
  <2>2. editor' = [editor EXCEPT ![t] = p]
    BY <1>3 DEF Patch
  <2> HIDE DEF p
  <2>3. QED
    BY <2>1, <2>2
<1>5. PICK next \in OptionRows : next = e.draft
  BY <1>4, GridEditorTypes
<1>6. /\ next["filter"] = v /\ next["columnWidth"] = editor[t].draft["columnWidth"]
      /\ next["config"] = editor[t].draft["config"]
  BY <1>2, <1>4, <1>5 DEF OptionRows, OptionKeys
<1>7. editor'[t] = e /\ \A u \in Tab \ {t} : editor'[u] = editor[u]
  BY <1>1, <1>4
<1>8. ~ Bounded(next)
  BY <1>1, <1>3, <1>6 DEF Bounded, OptionKeys
<1>9. ~ Seen(next) /\ \A u \in Tab : next \notin PendingBy(u)
  BY <1>1, <1>8 DEF ValuesBounded
<1>10. Bounded(next)'
  <2>1. /\ editor[t].draft["columnWidth"] \in Nat /\ editor[t].draft["columnWidth"] <= edits
        /\ editor[t].draft["config"] \in Nat /\ editor[t].draft["config"] <= edits
    BY <1>2 DEF Bounded, OptionRows, OptionKeys
  <2>2. next["filter"] <= edits' /\ next["columnWidth"] <= edits' /\ next["config"] <= edits'
    BY <1>1, <1>3, <1>6, <2>1
  <2>3. QED
    BY <2>2 DEF Bounded, OptionKeys
<1>11. \A u \in Tab : Grid(u)' /\ editor'[u].timer => next["columnWidth"] # editor'[u].widths
  <2>1. ASSUME NEW u \in Tab, Grid(u)', editor'[u].timer PROVE next["columnWidth"] # editor'[u].widths
    <3>1. Grid(u) /\ editor[u].timer /\ editor'[u].widths = editor[u].widths
      BY <1>2, <1>4, <1>7, <2>1 DEF Grid
    <3>2. QED
      BY <1>1, <1>2, <1>6, <3>1 DEF WidthUnknown
  <2>2. QED
    BY <2>1
<1>12. edits <= edits'
  BY <1>1
<1>13. /\ ~ Seen(e.draft) /\ \A u \in Tab : e.draft \notin PendingBy(u)
       /\ \A u \in Tab : Grid(u)' /\ editor'[u].timer => e.draft["columnWidth"] # editor'[u].widths
  BY <1>5, <1>9, <1>11
<1>14. Bounded(e.draft)'
  BY <1>5, <1>10 DEF Bounded
<1>15. QED
  BY <1>2, <1>4, <1>12, <1>13, <1>14, PackagedGrid

LEMMA CommitsGrid ==
  ASSUME EditsInv, EditsInv', kind = "grid", GridInv, NEW t \in Tab, CommitWidths(t)
  PROVE  GridInv'
<1>1. /\ ValuesBounded /\ edits \in Nat /\ edits' = edits /\ editor \in [Tab -> Editors]
      /\ Grid(t) /\ UNCHANGED <<kind, view, list, requests, apart>> /\ editor[t].timer
  BY DEF EditsInv, GridInv, SettingsTyped, CommitWidths
<1>2. WidthUnknown(t)
  BY <1>1 DEF GridInv
<1>3. /\ editor[t] \in GridEditors /\ editor[t].widths \in Nat /\ editor[t].draft \in OptionRows
      /\ Bounded(editor[t].draft) /\ editor[t].widths <= edits
  BY <1>1, SessionIs, GridEditorTypes DEF ValuesBounded
<1>4. PICK e \in GridEditors :
        /\ editor' = [editor EXCEPT ![t] = e] /\ e.at = editor[t].at
        /\ e.queue = Append(editor[t].queue, e.draft)
        /\ e.widths = editor[t].widths /\ ~ e.timer
        /\ e.draft = [editor[t].draft EXCEPT !["columnWidth"] = editor[t].widths]
  <2> DEFINE w == editor[t].widths
             next == [editor[t].draft EXCEPT !["columnWidth"] = w]
             p == Patched(editor[t], "columnWidth", w)
             r == [p EXCEPT !.timer = FALSE]
  <2>1. /\ p \in GridEditors /\ p.draft = next /\ p.queue = Append(editor[t].queue, next)
        /\ p.at = editor[t].at /\ p.widths = w /\ r \in GridEditors
    BY <1>3, GridEdits DEF OptionKeys
  <2>2. editor' = [editor EXCEPT ![t] = r]
    BY DEF CommitWidths
  <2> HIDE DEF p
  <2>3. r.draft = p.draft /\ r.queue = p.queue /\ r.at = p.at /\ r.widths = w /\ ~ r.timer
    BY <2>1 DEF GridEditors
  <2> HIDE DEF r
  <2>4. QED
    BY <2>1, <2>2, <2>3
<1>5. PICK next \in OptionRows : next = e.draft
  BY <1>4, GridEditorTypes
<1>6. /\ next["filter"] = editor[t].draft["filter"] /\ next["columnWidth"] = editor[t].widths
      /\ next["config"] = editor[t].draft["config"]
  BY <1>3, <1>4, <1>5 DEF OptionRows, OptionKeys
<1>7. editor'[t] = e /\ \A u \in Tab \ {t} : editor'[u] = editor[u]
  BY <1>1, <1>4
<1>8. ~ Seen(next) /\ \A u \in Tab : next \notin PendingBy(u)
  BY <1>2, <1>6 DEF WidthUnknown
<1>9. Bounded(next)'
  <2>1. /\ editor[t].draft["filter"] <= edits /\ editor[t].draft["config"] <= edits
    BY <1>3 DEF Bounded, OptionKeys
  <2>2. next["filter"] <= edits' /\ next["columnWidth"] <= edits' /\ next["config"] <= edits'
    BY <1>1, <1>3, <1>6, <2>1
  <2>3. QED
    BY <2>2 DEF Bounded, OptionKeys
<1>10. \A u \in Tab : Grid(u)' /\ editor'[u].timer => next["columnWidth"] # editor'[u].widths
  <2>1. ASSUME NEW u \in Tab, Grid(u)', editor'[u].timer PROVE next["columnWidth"] # editor'[u].widths
    <3>1. u # t /\ Grid(u) /\ editor[u].timer /\ editor'[u].widths = editor[u].widths
      BY <1>1, <1>4, <1>7, <2>1 DEF Grid
    <3>2. QED
      BY <1>2, <1>6, <3>1 DEF WidthUnknown
  <2>2. QED
    BY <2>1
<1>11. edits <= edits'
  BY <1>1
<1>12. /\ ~ Seen(e.draft) /\ \A u \in Tab : e.draft \notin PendingBy(u)
       /\ \A u \in Tab : Grid(u)' /\ editor'[u].timer => e.draft["columnWidth"] # editor'[u].widths
  BY <1>5, <1>8, <1>10
<1>13. Bounded(e.draft)'
  BY <1>5, <1>9 DEF Bounded
<1>14. QED
  BY <1>1, <1>4, <1>11, <1>12, <1>13, PackagedGrid

LEMMA SucceedsGrid ==
  ASSUME EditsInv, EditsInv', kind = "grid", GridInv, NEW t \in Tab,
         NEW q \in requests[t], Succeed(t, q)
  PROVE  GridInv'
<1>1. /\ SettingsTyped /\ DraftStands(t) /\ PackagesApart(t) /\ edits \in Nat
      /\ editor \in [Tab -> Editors] /\ requests \in [Tab -> SUBSET Mutations]
      /\ list \in [Tab -> Lists] /\ list[t] \in Lists /\ Attached(t)
  BY DEF EditsInv, GridInv, PackagesNew, SettingsTyped
<1>2. /\ UNCHANGED <<kind, view, edits, apart>> /\ q.at = "ok"
      /\ requests' = [requests EXCEPT ![t] = requests[t] \ {q}]
      /\ list' = [list EXCEPT ![t] = Invalidated(list[t], q.live)]
  BY DEF Succeed, Done
<1>3. /\ requests'[t] = requests[t] \ {q} /\ list'[t].shown = list[t].shown
      /\ list'[t].got = Nothing /\ list'[t].fetch = "asked"
      /\ \A u \in Tab \ {t} : requests'[u] = requests[u] /\ list'[u] = list[u]
  <2>1. q.live \in BOOLEAN
    BY <1>1 DEF Mutations
  <2>2. /\ Invalidated(list[t], q.live).shown = list[t].shown /\ Invalidated(list[t], q.live).got = Nothing
        /\ Invalidated(list[t], q.live).fetch = "asked"
    BY <1>1, <2>1, ListTypes
  <2>3. QED
    BY <1>1, <1>2, <2>2
<1>4. SentBy(t)' = SentBy(t)
  BY <1>2, <1>3 DEF SentBy
<1>5. /\ list'[t].shown \in ViewRows => Seen(OptionsOf(list'[t].shown))
      /\ list'[t].got \in ViewRows => Seen(OptionsOf(list'[t].got))
  BY <1>1, <1>3, KnownOptions, Placeholders
<1>6. edits <= edits'
  BY <1>1, <1>2
<1>7. CASE ~ q.live
  <2>1. editor' = editor
    BY <1>7 DEF Succeed
  <2>2. UnsentBy(t)' = UnsentBy(t)
    BY <2>1 DEF UnsentBy
  <2>3. PackagesApart(t)' /\ PendingBy(t)' = PendingBy(t)
    BY <1>1, <1>4, <2>1, <2>2 DEF PackagesApart, PendingBy
  <2>4. (Grid(t)' <=> Grid(t)) /\ (Committed(t)' <=> Committed(t))
    BY <1>2, <1>3, <1>7, <2>1 DEF Grid, Committed
  <2>5. DraftStands(t)'
    BY <1>1, <1>2, <1>3, <2>1, <2>4 DEF DraftStands
  <2>6. QED
    BY <1>2, <1>3, <1>5, <1>6, <2>1, <2>3, <2>4, <2>5, GridQuiet
<1>8. CASE q.live
  <2> DEFINE e == [editor[t] EXCEPT !.at = "reconcile"]
  <2>1. editor' = [editor EXCEPT ![t] = e]
    BY <1>1, <1>8 DEF Succeed
  <2>2. Grid(t) /\ editor[t].at = "sent" /\ editor[t] \in GridEditors
    BY <1>1, <1>8, SessionIs DEF Attached, Grid
  <2>3. /\ e.open /\ e.at = "reconcile" /\ e.queue = editor[t].queue /\ e.draft = editor[t].draft
        /\ e.widths = editor[t].widths /\ e.timer = editor[t].timer
    BY <2>2, GridAtSet
  <2> HIDE DEF e
  <2>4. editor'[t] = e /\ \A u \in Tab \ {t} : editor'[u] = editor[u]
    BY <1>1, <2>1
  <2>5. UnsentBy(t)' = UnsentBy(t)
    BY <2>2, <2>3, <2>4 DEF UnsentBy, Grid
  <2>6. PackagesApart(t)' /\ PendingBy(t)' = PendingBy(t)
    BY <1>1, <1>4, <2>3, <2>4, <2>5 DEF PackagesApart, PendingBy
  <2>7. Committed(t)
    BY <1>2, <1>8 DEF Committed
  <2>8. editor[t].queue # <<>>
    BY <1>1, <2>2 DEF Attached
  <2>9. DraftStands(t)'
    BY <1>1, <1>2, <1>3, <2>2, <2>3, <2>4, <2>7, <2>8 DEF DraftStands
  <2>10. QED
    BY <1>2, <1>3, <1>5, <1>6, <2>2, <2>3, <2>4, <2>6, <2>9, GridQuiet
<1>9. QED
  BY <1>7, <1>8

(* When the head of a queue has gone, the rest is still to be sent. *)
LEMMA TailPackages ==
  ASSUME EditsInv, NEW t \in Tab, Grid(t), editor[t].queue # <<>>, PackagesApart(t),
         NEW e \in GridEditors, editor'[t] = e, e.queue = Tail(editor[t].queue),
         SentBy(t)' = SentBy(t)
  PROVE  PackagesApart(t)' /\ PendingBy(t)' \subseteq PendingBy(t)
<1> DEFINE s == editor[t].queue
<1>1. /\ s \in Seq(OptionRows) /\ Len(s) \in Nat \ {0}
      /\ Tail(s) \in Seq(OptionRows) /\ Len(Tail(s)) = Len(s) - 1
      /\ \A i \in 1..(Len(s) - 1) : Tail(s)[i] = s[i + 1]
  <2>1. editor[t] \in GridEditors
    BY SessionIs
  <2>2. QED
    BY <2>1, GridEditorTypes, QueueMoves
<1>2. DOMAIN s = 1..Len(s) /\ DOMAIN e.queue = 1..(Len(s) - 1)
      /\ \A i \in 1..(Len(s) - 1) : e.queue[i] = s[i + 1]
  <2>1. e.queue = Tail(s)
    OBVIOUS
  <2>2. \A z \in Seq(OptionRows) : DOMAIN z = 1..Len(z)
    OBVIOUS
  <2> HIDE DEF s
  <2>3. DOMAIN s = 1..Len(s) /\ DOMAIN Tail(s) = 1..(Len(s) - 1)
    BY <1>1, <2>2
  <2>4. QED
    BY <1>1, <2>1, <2>3
<1>3. \A i \in UnsentBy(t)' : i \in Nat /\ i + 1 \in UnsentBy(t) /\ e.queue[i] = s[i + 1]
  <2>1. editor[t].open /\ UnsentBy(t)' \subseteq DOMAIN e.queue
    BY DEF UnsentBy, Grid
  <2>2. UnsentBy(t) = {i \in DOMAIN s : i > 1 \/ editor[t].at = "idle"}
    BY <2>1 DEF UnsentBy
  <2> HIDE DEF s
  <2>3. QED
    BY <1>1, <1>2, <2>1, <2>2
<1>4. /\ \A q, p \in SentBy(t) : q.put = p.put => q = p
      /\ \A i, j \in UnsentBy(t) : s[i] = s[j] => i = j
      /\ \A q \in SentBy(t), i \in UnsentBy(t) : q.put # s[i]
  BY DEF PackagesApart
<1> HIDE DEF s
<1>5. PackagesApart(t)'
  <2>1. ASSUME NEW q \in SentBy(t), NEW i \in UnsentBy(t)' PROVE q.put # e.queue[i]
    <3>1. i + 1 \in UnsentBy(t) /\ e.queue[i] = s[i + 1]
      BY <1>3
    <3>2. QED
      BY <1>4, <3>1
  <2>2. ASSUME NEW i \in UnsentBy(t)', NEW j \in UnsentBy(t)', e.queue[i] = e.queue[j] PROVE i = j
    <3>1. i + 1 = j + 1
      BY <1>3, <1>4, <2>2
    <3>2. QED
      BY <1>3, <3>1
  <2>3. editor'[t].queue = e.queue /\ \A q, p \in SentBy(t)' : q.put = p.put => q = p
    BY <1>4
  <2>4. QED
    BY <2>1, <2>2, <2>3 DEF PackagesApart
<1>6. PendingBy(t)' \subseteq PendingBy(t)
  <2>1. \A i \in UnsentBy(t)' : e.queue[i] \in PendingBy(t)
    BY <1>3 DEF PendingBy, s
  <2>2. \A q \in SentBy(t)' : q.put \in PendingBy(t)
    BY DEF PendingBy
  <2>3. ASSUME NEW o \in PendingBy(t)' PROVE o \in PendingBy(t)
    <3>1. (\E q \in SentBy(t)' : o = q.put) \/ \E i \in UnsentBy(t)' : o = editor'[t].queue[i]
      BY DEF PendingBy
    <3>2. CASE \E q \in SentBy(t)' : o = q.put
      BY <2>2, <3>2
    <3>3. CASE \E i \in UnsentBy(t)' : o = editor'[t].queue[i]
      BY <2>1, <3>3
    <3>4. QED
      BY <3>1, <3>2, <3>3
  <2>4. QED
    BY <2>3
<1>7. QED
  BY <1>5, <1>6

LEMMA FailsGrid ==
  ASSUME EditsInv, EditsInv', kind = "grid", GridInv, NEW t \in Tab,
         NEW q \in requests[t], Fail(t, q)
  PROVE  GridInv'
<1>1. /\ SettingsTyped /\ DraftStands(t) /\ PackagesApart(t) /\ edits \in Nat
      /\ editor \in [Tab -> Editors] /\ requests \in [Tab -> SUBSET Mutations] /\ Attached(t)
  BY DEF EditsInv, GridInv, PackagesNew, SettingsTyped
<1>2. /\ UNCHANGED <<kind, view, edits, list>> /\ q.at = "failed"
      /\ requests' = [requests EXCEPT ![t] = requests[t] \ {q}]
  BY DEF Fail, Done
<1>3. /\ requests'[t] = requests[t] \ {q}
      /\ \A u \in Tab \ {t} : requests'[u] = requests[u]
  BY <1>1, <1>2
<1>4. SentBy(t)' = SentBy(t)
  BY <1>2, <1>3 DEF SentBy
<1>5. /\ list'[t].shown \in ViewRows => Seen(OptionsOf(list'[t].shown))
      /\ list'[t].got \in ViewRows => Seen(OptionsOf(list'[t].got))
  BY <1>1, <1>2, KnownOptions
<1>6. edits <= edits'
  BY <1>1, <1>2
<1>7. CASE ~ q.live
  <2>1. editor' = editor /\ apart' = apart
    BY <1>7 DEF Fail
  <2>2. UnsentBy(t)' = UnsentBy(t)
    BY <2>1 DEF UnsentBy
  <2>3. PackagesApart(t)' /\ PendingBy(t)' = PendingBy(t)
    BY <1>1, <1>4, <2>1, <2>2 DEF PackagesApart, PendingBy
  <2>4. (Grid(t)' <=> Grid(t)) /\ (Committed(t)' <=> Committed(t))
    BY <1>2, <1>3, <1>7, <2>1 DEF Grid, Committed
  <2>5. DraftStands(t)'
    BY <1>1, <1>2, <2>1, <2>4 DEF DraftStands
  <2>6. QED
    BY <1>2, <1>3, <1>5, <1>6, <2>1, <2>3, <2>4, <2>5, GridQuiet
<1>8. CASE q.live
  <2> DEFINE e == [editor[t] EXCEPT !.at = "idle", !.queue = Tail(@)]
  <2>1. Grid(t) /\ editor[t].queue # <<>> /\ editor[t] \in GridEditors
    <3>1. Grid(t) /\ editor[t].at = "sent"
      BY <1>1, <1>8 DEF Attached, Grid
    <3>2. QED
      BY <1>1, <3>1, SessionIs DEF Attached
  <2>2. editor' = [editor EXCEPT ![t] = e] /\ apart' = apart \cup {t}
    BY <1>1, <1>8, <2>1 DEF Fail
  <2>3. e \in GridEditors
    BY <2>1, QueueMoves
  <2>4. e.queue = Tail(editor[t].queue) /\ e.draft = editor[t].draft
        /\ e.widths = editor[t].widths /\ e.timer = editor[t].timer
    BY <2>1, <2>3 DEF GridEditors
  <2> HIDE DEF e
  <2>5. editor'[t] = e /\ \A u \in Tab \ {t} : editor'[u] = editor[u]
    BY <1>1, <2>2
  <2>6. PackagesApart(t)' /\ PendingBy(t)' \subseteq PendingBy(t)
    BY <1>1, <1>4, <2>1, <2>3, <2>4, <2>5, TailPackages
  <2>7. DraftStands(t)'
    BY <2>2 DEF DraftStands
  <2>8. QED
    BY <1>2, <1>3, <1>5, <1>6, <2>1, <2>2, <2>4, <2>5, <2>6, <2>7, GridQuiet
<1>9. QED
  BY <1>7, <1>8

LEMMA ReconcilesGrid ==
  ASSUME EditsInv, EditsInv', kind = "grid", GridInv, NEW t \in Tab, Reconciled(t)
  PROVE  GridInv'
<1>1. /\ SettingsTyped /\ DraftStands(t) /\ PackagesApart(t) /\ edits \in Nat
      /\ editor \in [Tab -> Editors] /\ Attached(t)
  BY DEF EditsInv, GridInv, PackagesNew, SettingsTyped
<1>2. /\ UNCHANGED <<kind, view, edits, list, requests, apart>>
      /\ Grid(t) /\ editor[t].at = "reconcile" /\ editor[t] \in GridEditors
  BY SessionIs DEF Reconciled, Grid
<1>3. editor[t].queue # <<>> /\ \A q \in requests[t] : ~ q.live
  BY <1>1, <1>2 DEF Attached
<1> DEFINE e == [editor[t] EXCEPT !.at = "idle", !.queue = Tail(@)]
<1>4. editor' = [editor EXCEPT ![t] = e]
  BY <1>1 DEF Reconciled
<1>5. e \in GridEditors
  BY <1>2, <1>3, QueueMoves
<1>6. e.queue = Tail(editor[t].queue) /\ e.draft = editor[t].draft /\ e.at = "idle"
      /\ e.widths = editor[t].widths /\ e.timer = editor[t].timer
  BY <1>2, <1>5 DEF GridEditors
<1> HIDE DEF e
<1>7. editor'[t] = e /\ \A u \in Tab \ {t} : editor'[u] = editor[u]
  BY <1>1, <1>4
<1>8. SentBy(t)' = SentBy(t)
  BY <1>2 DEF SentBy
<1>9. PackagesApart(t)' /\ PendingBy(t)' \subseteq PendingBy(t)
  BY <1>1, <1>2, <1>3, <1>5, <1>6, <1>7, <1>8, TailPackages
<1>10. ~ Committed(t)' /\ Committed(t)
  BY <1>2, <1>3, <1>6, <1>7 DEF Committed, Grid
<1>11. e.queue = <<>> => Head(editor[t].queue) = editor[t].draft
  <2>1. Len(e.queue) = 0 => Head(editor[t].queue) = editor[t].draft
    BY <1>2, <1>3, <1>5, <1>6, LastPackage
  <2>2. QED
    BY <2>1
<1>12. DraftStands(t)'
  BY <1>1, <1>2, <1>6, <1>7, <1>10, <1>11 DEF DraftStands
<1>13. /\ list'[t].shown \in ViewRows => Seen(OptionsOf(list'[t].shown))
       /\ list'[t].got \in ViewRows => Seen(OptionsOf(list'[t].got))
  BY <1>1, <1>2, KnownOptions
<1>14. edits <= edits'
  BY <1>1, <1>2
<1>15. QED
  BY <1>2, <1>6, <1>7, <1>9, <1>12, <1>13, <1>14, GridQuiet

(* Another row in the database makes a package known only when it was sent. *)
LEMMA MutatedGrid ==
  ASSUME EditsInv, GridInv, kind = "grid", UNCHANGED <<kind, list, editor, edits>>,
         \A u \in Tab : PendingBy(u)' \subseteq PendingBy(u) /\ PackagesApart(u)' /\ DraftStands(u)',
         \A o : Seen(o)' => Seen(o) \/ \E u \in Tab : o \in PendingBy(u),
         \A u \in Tab : \A o \in PendingBy(u)' : ~ Seen(o)'
  PROVE  GridInv'
<1>1. /\ PackagesNew /\ ValuesBounded /\ \A u \in Tab : Grid(u) /\ editor[u].timer => WidthUnknown(u)
  BY DEF GridInv
<1>2. \A u \in Tab : Grid(u)' <=> Grid(u)
  BY DEF Grid
<1>3. PackagesNew'
  <2>1. ASSUME NEW u \in Tab, NEW v \in Tab, u # v PROVE PendingBy(u)' \cap PendingBy(v)' = {}
    <3>1. PendingBy(u) \cap PendingBy(v) = {}
      BY <1>1, <2>1 DEF PackagesNew
    <3>2. QED
      BY <3>1
  <2>2. QED
    BY <2>1 DEF PackagesNew
<1>4. \A o : Bounded(o)' <=> Bounded(o)
  BY DEF Bounded
<1>5. ASSUME NEW o \in OptionRows, Seen(o)' PROVE Bounded(o)'
  <2>1. Seen(o) \/ \E u \in Tab : o \in PendingBy(u)
    BY <1>5
  <2>2. Bounded(o)
    BY <1>1, <2>1 DEF ValuesBounded
  <2>3. QED
    BY <1>4, <2>2
<1>6. ASSUME NEW u \in Tab
      PROVE  /\ \A o \in PendingBy(u)' : Bounded(o)'
             /\ Grid(u)' => Bounded(editor[u].draft)' /\ editor'[u].widths <= edits'
  <2>1. \A o \in PendingBy(u)' : Bounded(o)'
    BY <1>1, <1>4 DEF ValuesBounded
  <2>2. Bounded(editor[u].draft)' <=> Bounded(editor[u].draft)
    BY DEF Bounded
  <2>3. QED
    BY <1>1, <1>2, <2>1, <2>2 DEF ValuesBounded
<1>7. ValuesBounded'
  BY <1>5, <1>6 DEF ValuesBounded
<1>8. ASSUME NEW u \in Tab, Grid(u)', editor'[u].timer PROVE WidthUnknown(u)'
  <2>1. WidthUnknown(u)
    BY <1>1, <1>2, <1>8
  <2>2. ASSUME NEW o \in OptionRows, Seen(o)' PROVE o["columnWidth"] # editor'[u].widths
    <3>1. Seen(o) \/ \E v \in Tab : o \in PendingBy(v)
      BY <2>2
    <3>2. QED
      BY <2>1, <3>1 DEF WidthUnknown
  <2>3. ASSUME NEW v \in Tab
        PROVE  /\ \A o \in PendingBy(v)' : o["columnWidth"] # editor'[u].widths
               /\ Grid(v)' => editor'[v].draft["columnWidth"] # editor'[u].widths
               /\ v # u /\ Grid(v)' /\ editor'[v].timer => editor'[v].widths # editor'[u].widths
    BY <1>2, <2>1 DEF WidthUnknown
  <2>4. QED
    BY <2>2, <2>3 DEF WidthUnknown
<1>9. QED
  BY <1>3, <1>7, <1>8 DEF GridInv

(* What an answer makes of the packages of the session that asked. *)
LEMMA AnsweredGrid ==
  ASSUME EditsInv, NEW t \in Tab, NEW q \in requests[t], q.at = "sent", PackagesApart(t),
         NEW s \in {"ok", "failed"}, UNCHANGED <<editor>>,
         requests' = [requests EXCEPT ![t] = (requests[t] \ {q}) \cup {[q EXCEPT !.at = s]}]
  PROVE  /\ \A u \in Tab : PendingBy(u)' \subseteq PendingBy(u)
         /\ PackagesApart(t)'
         /\ q.put \in OptionRows => q.put \in PendingBy(t) /\ q.put \notin PendingBy(t)'
         /\ \A u \in Tab \ {t} : requests'[u] = requests[u]
         /\ \A u \in Tab : ~ (u = t /\ q.live /\ s = "ok") => (Committed(u)' <=> Committed(u))
<1> DEFINE p == [q EXCEPT !.at = s]
           r == (requests[t] \ {q}) \cup {p}
<1>1. /\ r \in SUBSET Mutations /\ p.at = s /\ p.put = q.put /\ p.live = q.live
      /\ \A x \in r : x = p \/ (x \in requests[t] /\ x # q)
      /\ ~ (q.live /\ s = "ok") =>
           ((\E x \in r : x.live /\ x.at = "ok") <=> (\E x \in requests[t] : x.live /\ x.at = "ok"))
  BY Answers
<1>2. requests \in [Tab -> SUBSET Mutations] /\ requests' = [requests EXCEPT ![t] = r]
  BY DEF EditsInv, SettingsTyped
<1> HIDE DEF p, r
<1>3. requests'[t] = r /\ \A u \in Tab \ {t} : requests'[u] = requests[u]
  BY <1>2
<1>4. SentBy(t)' \subseteq SentBy(t) \ {q}
  BY <1>1, <1>3 DEF SentBy
<1>5. \A u \in Tab : UnsentBy(u)' = UnsentBy(u)
  BY DEF UnsentBy
<1>6. \A u \in Tab \ {t} : SentBy(u)' = SentBy(u)
  BY <1>3 DEF SentBy
<1>7. ASSUME NEW u \in Tab PROVE PendingBy(u)' \subseteq PendingBy(u)
  <2>1. SentBy(u)' \subseteq SentBy(u)
    BY <1>4, <1>6
  <2>2. QED
    BY <1>5, <2>1 DEF PendingBy
<1>8. PackagesApart(t)'
  BY <1>4, <1>5 DEF PackagesApart
<1>9. ASSUME q.put \in OptionRows PROVE q.put \in PendingBy(t) /\ q.put \notin PendingBy(t)'
  <2>1. q \in SentBy(t)
    BY <1>9 DEF SentBy
  <2>2. \A x \in SentBy(t)' : x.put # q.put
    BY <1>4, <2>1 DEF PackagesApart
  <2>3. \A i \in UnsentBy(t)' : editor'[t].queue[i] # q.put
    BY <1>5, <2>1 DEF PackagesApart
  <2>4. QED
    BY <2>1, <2>2, <2>3 DEF PendingBy
<1>10. \A u \in Tab : ~ (u = t /\ q.live /\ s = "ok") => (Committed(u)' <=> Committed(u))
  <2>1. \A u \in Tab \ {t} : Committed(u)' <=> Committed(u)
    BY <1>3 DEF Committed
  <2>2. ~ (q.live /\ s = "ok") => (Committed(t)' <=> Committed(t))
    BY <1>1, <1>3 DEF Committed
  <2>3. QED
    BY <2>1, <2>2
<1>11. QED
  BY <1>3, <1>7, <1>8, <1>9, <1>10

LEMMA MutatesGrid ==
  ASSUME EditsInv, EditsInv', kind = "grid", GridInv, NEW t \in Tab,
         NEW q \in requests[t], Mutate(t, q)
  PROVE  GridInv'
<1>1. PICK answer \in {"ok", "lost", "refused"} :
        /\ view = Gone => answer = "refused"
        /\ requests' = [requests EXCEPT ![t] = (requests[t] \ {q}) \cup
             {[q EXCEPT !.at = IF answer = "ok" THEN "ok" ELSE "failed"]}]
        /\ IF answer = "refused"
           THEN UNCHANGED <<view, apart>>
           ELSE /\ view' = Written(q.put)
                /\ apart' = apart \cup {u \in Tab : Grid(u) /\ Committed(u)}
  BY DEF Mutate
<1>2. UNCHANGED <<kind, list, editor, edits>> /\ q.at = "sent"
  BY DEF Mutate
<1>3. /\ view \in ViewRows \cup {Gone} /\ q \in Mutations /\ PackagesNew /\ PackagesApart(t)
      /\ \A u \in Tab : DraftStands(u) /\ Attached(u)
  BY SessionIs DEF EditsInv, SettingsTyped, GridInv, PackagesNew
<1> DEFINE s == IF answer = "ok" THEN "ok" ELSE "failed"
<1>4. /\ \A u \in Tab : PendingBy(u)' \subseteq PendingBy(u)
      /\ PackagesApart(t)'
      /\ q.put \in OptionRows => q.put \in PendingBy(t) /\ q.put \notin PendingBy(t)'
      /\ \A u \in Tab \ {t} : requests'[u] = requests[u]
      /\ \A u \in Tab : ~ (u = t /\ q.live /\ s = "ok") => (Committed(u)' <=> Committed(u))
  <2>1. s \in {"ok", "failed"}
    OBVIOUS
  <2>2. requests' = [requests EXCEPT ![t] = (requests[t] \ {q}) \cup {[q EXCEPT !.at = s]}]
    BY <1>1
  <2> HIDE DEF s
  <2>3. QED
    BY <1>2, <1>3, <2>1, <2>2, AnsweredGrid
<1>5. \A u \in Tab : PackagesApart(u)'
  <2>1. \A u \in Tab \ {t} : PackagesApart(u)'
    BY <1>2, <1>3, <1>4, PendingStays DEF PackagesNew
  <2>2. QED
    BY <1>4, <2>1
<1>6. \A u \in Tab : (Grid(u)' <=> Grid(u)) /\ (Grid(u) => editor[u].open)
  BY <1>2 DEF Grid
<1>7. CASE answer = "refused"
  <2>1. view' = view /\ apart' = apart /\ s = "failed"
    BY <1>1, <1>7
  <2>2. ASSUME NEW u \in Tab PROVE DraftStands(u)'
    BY <1>2, <1>3, <1>4, <1>6, <2>1 DEF DraftStands
  <2>3. \A o : Seen(o)' <=> Seen(o)
    BY <1>2, <2>1 DEF Seen, OptionsOf
  <2>4. QED
    BY <1>2, <1>3, <1>4, <1>5, <2>2, <2>3, MutatedGrid DEF PackagesNew
<1>8. CASE answer # "refused"
  <2>1. /\ view \in ViewRows /\ view' = Written(q.put) /\ view # Gone
        /\ apart' = apart \cup {u \in Tab : Grid(u) /\ Committed(u)}
    BY <1>1, <1>3, <1>8
  <2>2. q.put \in OptionRows \cup Names \cup {Gone}
    BY <1>3 DEF Mutations
  <2>3. view' # Gone => OptionsOf(view') = IF q.put \in OptionRows THEN q.put ELSE OptionsOf(view)
    <3>1. CASE q.put = Gone
      BY <2>1, <2>2, <3>1, WrittenIs
    <3>2. CASE q.put \in OptionRows
      <4>1. \A k \in OptionKeys : view'[k] = q.put[k]
        BY <2>1, <2>2, <3>2, WrittenIs
      <4>2. OptionsOf(view') = [k \in OptionKeys |-> q.put[k]]
        BY <4>1 DEF OptionsOf
      <4>3. QED
        BY <3>2, <4>2 DEF OptionRows
    <3>3. CASE q.put \in Names
      <4>1. q.put \notin OptionRows /\ q.put # Gone /\ \A k \in OptionKeys : k \notin DOMAIN q.put
        BY <3>3, Placeholders DEF Names, OptionKeys
      <4>2. \A k \in OptionKeys : view'[k] = view[k]
        BY <2>1, <2>2, <4>1, WrittenIs
      <4>3. QED
        BY <4>1, <4>2 DEF OptionsOf
    <3>4. QED
      BY <2>2, <3>1, <3>2, <3>3
  <2>4. ASSUME NEW o, Seen(o)' PROVE Seen(o) \/ (q.put \in OptionRows /\ o = q.put)
    <3>1. CASE view' # Gone /\ o = OptionsOf(view')
      BY <2>1, <2>3, <3>1 DEF Seen
    <3>2. CASE \E u \in Tab : \/ list[u].shown \in ViewRows /\ o = OptionsOf(list[u].shown)
                              \/ list[u].got \in ViewRows /\ o = OptionsOf(list[u].got)
      BY <3>2 DEF Seen
    <3>3. QED
      BY <1>2, <2>4, <3>1, <3>2 DEF Seen, OptionsOf
  <2>5. ASSUME NEW u \in Tab, NEW o \in PendingBy(u)' PROVE ~ Seen(o)'
    <3>1. o \in PendingBy(u) /\ ~ Seen(o)
      BY <1>3, <1>4, <2>5 DEF PackagesNew
    <3>2. q.put \in OptionRows => o # q.put
      BY <1>3, <1>4, <2>5, <3>1 DEF PackagesNew
    <3>3. QED
      BY <2>4, <3>1, <3>2
  <2>6. ASSUME NEW o, Seen(o)' PROVE Seen(o) \/ \E u \in Tab : o \in PendingBy(u)
    BY <1>4, <2>4, <2>6
  <2>7. ASSUME NEW u \in Tab PROVE DraftStands(u)'
    <3> SUFFICES ASSUME Grid(u)', u \notin apart' PROVE DraftStands(u)'
      BY DEF DraftStands
    <3>1. /\ Grid(u) /\ editor[u].open /\ u \notin apart /\ ~ Committed(u) /\ editor[u].at # "reconcile"
          /\ list[u].shown \in ViewRows /\ Seen(OptionsOf(list[u].shown))
      <4>1. Grid(u) /\ editor[u].open /\ u \notin apart /\ ~ Committed(u)
        BY <1>6, <2>1
      <4>2. list[u].shown \in ViewRows
        BY <1>3, <4>1 DEF Attached
      <4>3. QED
        BY <4>1, <4>2 DEF Committed, Seen
    <3>2. CASE u = t /\ q.live
      <4>1. q.put \in OptionRows /\ q.put = Head(editor[t].queue) /\ editor[t].at = "sent"
        BY <1>3, <3>1, <3>2 DEF Attached
      <4>2. editor[t].queue # <<>>
        BY <1>3, <3>1, <3>2, <4>1 DEF Attached
      <4>3. view' # Gone => OptionsOf(view') = Head(editor[t].queue)
        BY <2>3, <4>1
      <4>4. /\ Committed(u)' /\ view' # Gone => OptionsOf(view') = Head(editor'[u].queue)
            /\ editor'[u].at # "reconcile" /\ editor'[u].queue # <<>>
        BY <1>2, <3>2, <4>1, <4>2, <4>3
      <4>5. QED
        BY <4>4 DEF DraftStands
    <3>3. CASE ~ (u = t /\ q.live)
      <4>1. ~ Committed(u)'
        BY <1>4, <3>1, <3>3
      <4>2. q.put \in OptionRows => q.put # OptionsOf(list[u].shown)
        BY <1>3, <1>4, <3>1 DEF PackagesNew
      <4>3. editor[u].queue = <<>> /\ editor[u].draft # OptionsOf(list[u].shown) =>
              /\ OptionsOf(view) # OptionsOf(list[u].shown)
              /\ list[u].fetch = "read" /\ list[u].got # Gone =>
                   OptionsOf(list[u].got) # OptionsOf(list[u].shown)
        BY <1>3, <2>1, <3>1 DEF DraftStands
      <4>4. editor[u].queue = <<>> /\ editor[u].draft # OptionsOf(list[u].shown) =>
              /\ view' # Gone => OptionsOf(view') # OptionsOf(list[u].shown)
              /\ list[u].fetch = "read" /\ list[u].got # Gone =>
                   OptionsOf(list[u].got) # OptionsOf(list[u].shown)
        BY <2>3, <4>2, <4>3
      <4>5. OptionsOf(list[u].shown)' = OptionsOf(list[u].shown) /\ OptionsOf(list[u].got)' = OptionsOf(list[u].got)
        BY <1>2 DEF OptionsOf
      <4>6. editor'[u].at # "reconcile" /\ editor' = editor /\ list' = list
        BY <1>2, <3>1
      <4>7. QED
        BY <4>1, <4>4, <4>5, <4>6 DEF DraftStands
    <3>4. QED
      BY <3>2, <3>3
  <2>8. QED
    BY <1>2, <1>4, <1>5, <2>5, <2>6, <2>7, MutatedGrid
<1>9. QED
  BY <1>7, <1>8

LEMMA GridInitially ==
  ASSUME SettingsInit
  PROVE  SettleInv
<1>1. EditsInv
  BY SettingsInitially
<1>2. /\ view = [k \in Keys |-> 0] /\ edits = 0
      /\ \A u \in Tab : /\ list[u] = [shown |-> view, fetch |-> "none", got |-> Nothing, awaited |-> FALSE]
                        /\ requests[u] = {} /\ editor[u] = Opened(view) /\ told[u] = FALSE
      /\ unheard = {}
  BY DEF SettingsInit
<1>3. view \in ViewRows
  BY <1>2 DEF ViewRows
<1>4. \A u \in Tab : Abreast(u)
  BY <1>2 DEF Abreast
<1>5. ASSUME kind = "grid", NEW u \in Tab
      PROVE  /\ editor[u].draft = OptionsOf(view) /\ editor[u].queue = <<>> /\ editor[u].at = "idle"
             /\ editor[u].widths = 0 /\ ~ editor[u].timer
  <2>1. view["columnWidth"] = 0
    BY <1>2 DEF Keys, OptionKeys
  <2>2. editor[u] = Opened(view)
    BY <1>2
  <2>3. QED
    BY <1>3, <1>5, <2>1, <2>2, Opens
<1>6. ASSUME kind = "grid", NEW u \in Tab
      PROVE  DraftStands(u) /\ PendingBy(u) = {} /\ PackagesApart(u)
  <2>1. SentBy(u) = {} /\ UnsentBy(u) = {}
    BY <1>2, <1>5, <1>6 DEF SentBy, UnsentBy
  <2>2. ~ Committed(u)
    BY <1>2, <1>5, <1>6 DEF Committed
  <2>3. QED
    BY <1>2, <1>5, <1>6, <2>1, <2>2 DEF DraftStands, PendingBy, PackagesApart
<1>7. Bounded(OptionsOf(view)) /\ \A o : Seen(o) => o = OptionsOf(view)
  <2>1. Bounded(OptionsOf(view))
    BY <1>2 DEF Bounded, OptionsOf, Keys
  <2>2. QED
    BY <1>2, <2>1, Placeholders DEF Seen
<1>8. ASSUME kind = "grid" PROVE GridInv
  <2>1. PackagesNew
    BY <1>6, <1>8 DEF PackagesNew
  <2>2. ValuesBounded
    BY <1>2, <1>5, <1>6, <1>7, <1>8 DEF ValuesBounded
  <2>3. QED
    BY <1>5, <1>6, <1>8, <2>1, <2>2 DEF GridInv
<1>9. QED
  BY <1>1, <1>4, <1>8 DEF SettleInv, GridInv

LEMMA SettleInvStep == SettleInv /\ [SettingsNext]_settingsVars => SettleInv'
<1> SUFFICES ASSUME SettleInv, [SettingsNext]_settingsVars PROVE SettleInv'
  OBVIOUS
<1>1. EditsInv /\ (\A u \in Tab : Abreast(u)) /\ GridInv /\ EditsInv'
  BY EditsInvStep DEF SettleInv
<1>2. CASE UNCHANGED settingsVars
  <2>1. /\ \A u \in Tab : Abreast(u)'
    BY <1>1, <1>2 DEF settingsVars, Abreast
  <2>2. GridInv'
    <3>1. /\ UNCHANGED <<kind, view, list, requests, editor, edits, apart>>
      BY <1>2 DEF settingsVars
    <3>2. \A u \in Tab : PendingBy(u)' = PendingBy(u) /\ (PackagesApart(u)' <=> PackagesApart(u))
      BY <3>1 DEF PendingBy, SentBy, UnsentBy, PackagesApart
    <3>3. \A o : Seen(o)' <=> Seen(o)
      BY <3>1 DEF Seen, OptionsOf
    <3>4. \A u \in Tab : DraftStands(u)' <=> DraftStands(u)
      BY <3>1 DEF DraftStands, Grid, Committed, OptionsOf
    <3>5. CASE kind = "grid"
      BY <1>1, <3>1, <3>2, <3>3, <3>4, <3>5, MutatedGrid DEF GridInv, PackagesNew
    <3>6. QED
      BY <3>1, <3>5 DEF GridInv
  <2>3. QED
    BY <1>1, <2>1, <2>2 DEF SettleInv
<1>3. CASE SettingsNext
  <2>1. \A u \in Tab : Abreast(u)'
    BY <1>1, <1>3, AbreastStep
  <2>2. PICK t \in Tab :
          \/ ServerReads(t) \/ FetchLands(t) \/ FetchFails(t) \/ RetryList(t) \/ Tell(t)
          \/ Patch(t) \/ Resize(t) \/ CommitWidths(t) \/ SendPatch(t)
          \/ EditDraft(t) \/ DiscardDraft(t) \/ SaveDraft(t)
          \/ Rename(t) \/ Remove(t) \/ Leave(t) \/ Return(t)
          \/ Reconciled(t)
          \/ \E q \in requests[t] : Mutate(t, q) \/ Succeed(t, q) \/ Fail(t, q)
    BY <1>3 DEF SettingsNext
  <2>3. CASE kind = "grid"
    <3>1. GridInv'
      <4>1. CASE ServerReads(t) \/ RetryList(t) \/ Tell(t)
        BY <1>1, <2>3, <4>1, ListsGrid
      <4>2. CASE FetchLands(t)
        BY <1>1, <2>3, <4>2, LandsGrid
      <4>3. CASE FetchFails(t) \/ Leave(t) \/ Return(t)
        BY <1>1, <2>3, <4>3, ClosesGrid
      <4>4. CASE Patch(t) \/ Resize(t) \/ CommitWidths(t) \/ SendPatch(t)
        BY <1>1, <2>3, <4>4, PatchesGrid, ResizeGrid, CommitsGrid, SendsGrid
      <4>5. ~ (EditDraft(t) \/ DiscardDraft(t) \/ SaveDraft(t))
        BY <2>3 DEF EditDraft, DiscardDraft, SaveDraft, Editable, Drafts
      <4>6. CASE Rename(t) \/ Remove(t)
        BY <1>1, <2>3, <4>6, AsksGrid
      <4>7. CASE Reconciled(t)
        BY <1>1, <2>3, <4>7, ReconcilesGrid
      <4>8. CASE \E q \in requests[t] : Mutate(t, q) \/ Succeed(t, q) \/ Fail(t, q)
        BY <1>1, <2>3, <4>8, MutatesGrid, SucceedsGrid, FailsGrid
      <4>9. QED
        BY <2>2, <4>1, <4>2, <4>3, <4>4, <4>5, <4>6, <4>7, <4>8
    <3>2. QED
      BY <1>1, <2>1, <3>1 DEF SettleInv
  <2>4. CASE kind # "grid"
    <3>1. kind' = kind
      BY <2>2 DEF ServerReads, FetchLands, FetchFails, RetryList, Tell, Patch, Resize, CommitWidths,
           SendPatch, EditDraft, DiscardDraft, SaveDraft, Rename, Remove, Leave, Return, Reconciled,
           Mutate, Succeed, Fail
    <3>2. GridInv'
      BY <2>4, <3>1 DEF GridInv
    <3>3. QED
      BY <1>1, <2>1, <3>2 DEF SettleInv
  <2>5. QED
    BY <2>3, <2>4
<1>4. QED
  BY <1>2, <1>3

(* Once nothing is under way a session shows what the database holds: a     *)
(* draft that no edit is behind never survives the list that differs, but   *)
(* after a failed save or a change that crossed its own.                    *)
THEOREM SettingsComeToRest == SettingsSpec => []SettingsSettle
<1>1. SettingsInit => SettleInv
  BY GridInitially
<1>2. SettleInv /\ [SettingsNext]_settingsVars => SettleInv'
  BY SettleInvStep
<1>3. SettleInv => SettingsSettle
  BY EditsSettle
<1>4. QED
  BY <1>1, <1>2, <1>3, PTL DEF SettingsSpec
=============================================================================
