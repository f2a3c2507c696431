-------------------------- MODULE CellWritesProofs --------------------------
(***************************************************************************)
(* Theorems about CellWrites: types, the lock invariant, the absence of    *)
(* dangling links, the refinement of LinkStore and the history of cells,   *)
(* for any set of records, handlers and values and for any number of       *)
(* transactions.                                                           *)
(***************************************************************************)
EXTENDS CellWrites, TLAPS

(***************************************************************************)
(* Adding a member to the set a handler keeps, and setting one entry of    *)
(* the table it keeps.                                                     *)
(***************************************************************************)
LEMMA AddTyped ==
  ASSUME NEW S, NEW f \in [Proc -> SUBSET S], NEW p \in Proc, NEW x \in S
  PROVE  [f EXCEPT ![p] = @ \cup {x}] \in [Proc -> SUBSET S]
  OBVIOUS

LEMMA SetTyped ==
  ASSUME NEW f \in [Proc -> [Record -> SUBSET Record]], NEW p \in Proc,
         NEW r \in Record, NEW v \in SUBSET Record
  PROVE  [f EXCEPT ![p][r] = v] \in [Proc -> [Record -> SUBSET Record]]
  OBVIOUS

LEMMA EndTxTyped ==
  ASSUME TypeOK, NEW p \in Proc, EndTx(p)
  PROVE  /\ pc' \in [Proc -> PCs]
         /\ kind' \in [Proc -> AllKinds \cup {"none"}]
         /\ stamp' \in [Proc -> Nat]
         /\ val' \in [Proc -> [Record -> SUBSET Record]]
         /\ todo' \in [Proc -> SUBSET Record]
         /\ row' \in [Proc -> Record \cup {0}]
         /\ scan' \in [Proc -> SUBSET Record]
         /\ seen' \in [Proc -> SUBSET Record]
         /\ xLocks' \in [Proc -> SUBSET Record]
         /\ sLocks' \in [Proc -> SUBSET Record]
         /\ cLocks' \in [Proc -> SUBSET Record]
         /\ eff' \in [Proc -> [Record -> SUBSET Record]]
         /\ log' \in [Proc -> SUBSET Entry]
         /\ \A q \in Proc : pc'[q] \in RowPCs => row'[q] \in Record
  BY DEF EndTx, TypeOK, Goto, PCs, RowPCs, NoWrites

LEMMA RollbackTyped ==
  ASSUME TypeOK, NEW p \in Proc, Rollback(p)
  PROVE  TypeOK'
  BY EndTxTyped DEF Rollback, storeVars, TypeOK

LEMMA BeginTyped ==
  ASSUME TypeOK, NEW p \in Proc, Request(p)
  PROVE  TypeOK'
<1>1. ASSUME NEW r \in Record, NEW v \in LinkValues, BeginUpsert(p, r, v)
      PROVE  TypeOK'
  BY <1>1, CellWritesAssumption
     DEF BeginUpsert, Begin, Goto, TypeOK, PCs, RowPCs, AllKinds, NoWrites
<1>2. ASSUME NEW rows \in SUBSET Record, NEW v \in LinkValues, BeginBatch(p, rows, v)
      PROVE  TypeOK'
  BY <1>2, CellWritesAssumption
     DEF BeginBatch, Begin, Goto, TypeOK, PCs, RowPCs, AllKinds, NoWrites
<1>3. ASSUME NEW d \in Record, BeginDelete(p, d)
      PROVE  TypeOK'
  BY <1>3 DEF BeginDelete, Begin, Goto, TypeOK, PCs, RowPCs, AllKinds
<1>4. QED
  BY <1>1, <1>2, <1>3 DEF Request

LEMMA CommitTyped ==
  ASSUME TypeOK, NEW p \in Proc, Commit(p)
  PROVE  TypeOK'
<1>1. cell' \in [Record -> SUBSET Record] /\ live' \in SUBSET Record
  BY DEF Commit, TypeOK
<1>2. ASSUME NEW r \in Record
      PROVE  Published(p, r) \in Seq(HistEntry)
  <2>1. CASE \E e \in log[p] : e.rec = r
    <3> DEFINE e == CHOOSE x \in log[p] : x.rec = r
    <3>1. e \in Entry
      BY <2>1 DEF TypeOK
    <3>2. [old |-> e.old, new |-> e.new, at |-> stamp[p]] \in HistEntry
      BY <3>1 DEF Entry, HistEntry, TypeOK
    <3>3. hist[r] \in Seq(HistEntry)
      BY DEF TypeOK
    <3>4. QED
      BY <2>1, <3>2, <3>3 DEF Published
  <2>2. CASE ~ \E e \in log[p] : e.rec = r
    BY <2>2 DEF Published, TypeOK
  <2>3. QED
    BY <2>1, <2>2
<1>3. hist' \in [Record -> Seq(HistEntry)]
  BY <1>2 DEF Commit
<1>4. QED
  BY <1>1, <1>3, EndTxTyped DEF Commit, TypeOK

LEMMA StepTyped ==
  ASSUME TypeOK, NEW p \in Proc, Step(p)
  PROVE  TypeOK'
<1>1. CASE PrelockRow(p)
  BY <1>1 DEF PrelockRow, TypeOK, storeVars
<1>2. CASE PrelockDone(p)
  BY <1>2, RollbackTyped DEF PrelockDone, TypeOK, storeVars, Goto, PCs, RowPCs
<1>3. CASE LockRow(p)
  <2>1. CASE Rollback(p)
    BY <2>1, RollbackTyped
  <2>2. CASE ~Rollback(p)
    <3>1. PICK r \in todo[p] :
            /\ xLocks' = [xLocks EXCEPT ![p] = @ \cup {r}]
            /\ row' = [row EXCEPT ![p] = r]
            /\ scan' = [scan EXCEPT ![p] = val[p][r] \cap live]
      BY <1>3, <2>2 DEF LockRow
    <3>2. r \in Record
      BY DEF TypeOK
    <3>3. /\ Goto(p, "refs")
          /\ UNCHANGED <<storeVars, kind, stamp, val, todo, seen,
                         sLocks, cLocks, eff, log>>
      BY <1>3, <2>2 DEF LockRow
    <3>4. QED
      BY <3>1, <3>2, <3>3 DEF TypeOK, storeVars, Goto, PCs, RowPCs
  <2>3. QED
    BY <2>1, <2>2
<1>4. CASE ShareTarget(p)
  BY <1>4 DEF ShareTarget, TypeOK, storeVars
<1>5. CASE TargetsDone(p)
  BY <1>5, RollbackTyped DEF TargetsDone, TypeOK, storeVars, Goto, PCs, RowPCs
<1>6. CASE ReadExisting(p)
  BY <1>6 DEF ReadExisting, TypeOK, storeVars, Goto, PCs, RowPCs
<1>7. CASE WriteCell(p)
  <2>1. row[p] \in Record /\ val[p][row[p]] \in SUBSET Record
    BY <1>7 DEF WriteCell, TypeOK, RowPCs
  <2>2. log' \in [Proc -> SUBSET Entry]
    <3> DEFINE e == [rec |-> row[p], old |-> seen[p], new |-> val[p][row[p]]]
    <3>1. e \in Entry
      BY <2>1 DEF TypeOK, Entry
    <3>2. log' = log \/ log' = [log EXCEPT ![p] = @ \cup {e}]
      BY <1>7 DEF WriteCell
    <3>3. log \in [Proc -> SUBSET Entry]
      BY DEF TypeOK
    <3> HIDE DEF e
    <3>4. QED
      BY <3>1, <3>2, <3>3, AddTyped
  <2>3. cLocks' \in [Proc -> SUBSET Record] /\ eff' \in [Proc -> [Record -> SUBSET Record]]
    <3>1. \/ UNCHANGED <<cLocks, eff>>
          \/ /\ cLocks' = [cLocks EXCEPT ![p] = @ \cup {row[p]}]
             /\ eff' = [eff EXCEPT ![p][row[p]] = val[p][row[p]]]
      BY <1>7 DEF WriteCell
    <3>2. /\ cLocks \in [Proc -> SUBSET Record]
          /\ eff \in [Proc -> [Record -> SUBSET Record]]
      BY DEF TypeOK
    <3>3. [eff EXCEPT ![p][row[p]] = val[p][row[p]]] \in [Proc -> [Record -> SUBSET Record]]
      BY <2>1, <3>2, SetTyped
    <3>4. [cLocks EXCEPT ![p] = @ \cup {row[p]}] \in [Proc -> SUBSET Record]
      BY <2>1, <3>2, AddTyped
    <3>5. QED
      BY <3>1, <3>2, <3>3, <3>4
  <2>4. QED
    BY <1>7, <2>2, <2>3 DEF WriteCell, TypeOK, storeVars, Goto, PCs, RowPCs
<1>8. CASE LockDoomed(p)
  <2>1. CASE Rollback(p)
    BY <2>1, RollbackTyped
  <2>2. CASE ~Rollback(p)
    <3>1. /\ xLocks' = [xLocks EXCEPT ![p] = @ \cup {row[p]}]
          /\ pc' = [pc EXCEPT ![p] = "snapshot"]
          /\ row[p] \in Record
          /\ UNCHANGED <<storeVars, kind, stamp, val, todo, row, scan, seen,
                         sLocks, cLocks, eff, log>>
      BY <1>8, <2>2 DEF LockDoomed, Goto, TypeOK, RowPCs
    <3>2. QED
      BY <3>1 DEF TypeOK, storeVars, PCs, RowPCs
  <2>3. QED
    BY <2>1, <2>2
<1>9. CASE ScanSnapshot(p)
  BY <1>9 DEF ScanSnapshot, TypeOK, storeVars, Goto, PCs, RowPCs
<1>10. CASE StripReference(p)
  <2>1. PICK r \in scan[p] :
          /\ scan' = [scan EXCEPT ![p] = @ \ {r}]
          /\ \/ UNCHANGED <<cLocks, eff, log>>
             \/ /\ cLocks' = [cLocks EXCEPT ![p] = @ \cup {r}]
                /\ eff' = [eff EXCEPT ![p][r] = cell[r] \ {row[p]}]
                /\ \/ log' = log
                   \/ log' = [log EXCEPT ![p] = @ \cup
                                {[rec |-> r, old |-> cell[r], new |-> cell[r] \ {row[p]}]}]
    BY <1>10 DEF StripReference
  <2>2. r \in Record /\ cell[r] \in SUBSET Record
    BY DEF TypeOK
  <2> DEFINE e == [rec |-> r, old |-> cell[r], new |-> cell[r] \ {row[p]}]
  <2>3. e \in Entry
    BY <2>2 DEF Entry
  <2>4. log' = log \/ log' = [log EXCEPT ![p] = @ \cup {e}]
    BY <2>1
  <2>5. /\ cLocks \in [Proc -> SUBSET Record]
        /\ eff \in [Proc -> [Record -> SUBSET Record]]
        /\ scan \in [Proc -> SUBSET Record]
        /\ log \in [Proc -> SUBSET Entry]
    BY DEF TypeOK
  <2> HIDE DEF e
  <2>6. /\ cLocks' \in [Proc -> SUBSET Record]
        /\ eff' \in [Proc -> [Record -> SUBSET Record]]
    <3>1. cell[r] \ {row[p]} \in SUBSET Record
      BY <2>2
    <3>2. [eff EXCEPT ![p][r] = cell[r] \ {row[p]}] \in [Proc -> [Record -> SUBSET Record]]
      BY <2>2, <2>5, <3>1, SetTyped
    <3>3. [cLocks EXCEPT ![p] = @ \cup {r}] \in [Proc -> SUBSET Record]
      BY <2>2, <2>5, AddTyped
    <3>4. QED
      BY <2>1, <2>5, <3>2, <3>3
  <2>7. scan' \in [Proc -> SUBSET Record]
    BY <2>1, <2>5
  <2>8. log' \in [Proc -> SUBSET Entry]
    BY <2>3, <2>4, <2>5, AddTyped
  <2>9. QED
    BY <1>10, <2>6, <2>7, <2>8 DEF StripReference, TypeOK, RowPCs, storeVars
<1>11. CASE ScanDone(p)
  BY <1>11 DEF ScanDone, TypeOK, storeVars, Goto, PCs, RowPCs
<1>12. CASE CascadeDelete(p)
  BY <1>12 DEF CascadeDelete, TypeOK, storeVars, Goto, PCs, RowPCs
<1>13. CASE Commit(p)
  BY <1>13, CommitTyped
<1>14. CASE Busy(p)
  BY <1>14, RollbackTyped DEF Busy
<1>15. QED
  BY <1>1, <1>2, <1>3, <1>4, <1>5, <1>6, <1>7, <1>8, <1>9, <1>10,
     <1>11, <1>12, <1>13, <1>14 DEF Step

(***************************************************************************)
(* Every variable keeps its type.                                          *)
(***************************************************************************)
THEOREM TypeCorrect == Spec => []TypeOK
<1>1. Init => TypeOK
  <2> SUFFICES ASSUME Init PROVE TypeOK
    OBVIOUS
  <2>1. cell \in [Record -> SUBSET Record]
    BY CellWritesAssumption DEF Init
  <2>2. ASSUME NEW r \in Record PROVE hist[r] \in Seq(HistEntry)
    <3>1. [old |-> {}, new |-> cell[r], at |-> 0] \in HistEntry
      BY <2>1 DEF HistEntry
    <3>2. QED
      BY <3>1 DEF Init
  <2>3. hist \in [Record -> Seq(HistEntry)]
    BY <2>2 DEF Init
  <2>4. QED
    BY <2>1, <2>3 DEF Init, TypeOK, PCs, RowPCs, AllKinds, NoWrites
<1>2. TypeOK /\ [Next]_vars => TypeOK'
  <2> SUFFICES ASSUME TypeOK, [Next]_vars PROVE TypeOK'
    OBVIOUS
  <2>1. ASSUME NEW r \in Record, CreateRecord(r) PROVE TypeOK'
    BY <2>1 DEF CreateRecord, txVars, TypeOK
  <2>2. ASSUME NEW p \in Proc, Fail(p) PROVE TypeOK'
    BY <2>2, RollbackTyped DEF Fail
  <2>3. CASE UNCHANGED vars
    BY <2>3 DEF vars, storeVars, txVars, TypeOK
  <2>4. QED
    BY <2>1, <2>2, <2>3, BeginTyped, StepTyped DEF Next
<1>3. QED
  BY <1>1, <1>2, PTL DEF Spec

-----------------------------------------------------------------------------
(***************************************************************************)
(* The lock invariant.  Most steps touch one handler's locals and no       *)
(* committed row: OneHandler reduces them to that handler.                 *)
(***************************************************************************)
Frame(p) ==
  \A q \in Proc \ {p} :
    /\ pc'[q] = pc[q] /\ kind'[q] = kind[q] /\ val'[q] = val[q]
    /\ row'[q] = row[q] /\ scan'[q] = scan[q] /\ eff'[q] = eff[q]
    /\ xLocks'[q] = xLocks[q] /\ sLocks'[q] = sLocks[q] /\ cLocks'[q] = cLocks[q]

Apart(p) ==
  \A q \in Proc \ {p} :
    /\ xLocks[p] \cap (xLocks[q] \cup sLocks[q]) = {}
    /\ sLocks[p] \cap xLocks[q] = {}
    /\ cLocks[p] \cap cLocks[q] = {}

OwnInv(p) ==
  /\ Apart(p)
  /\ xLocks[p] \cup sLocks[p] \subseteq live
  /\ IdleInv(p) /\ WriterInv(p) /\ DeleterInv(p)

LEMMA LockInvByHandler == LockInv <=> \A p \in Proc : OwnInv(p)
  BY DEF LockInv, LockExclusion, LocksAlive, OwnInv, Apart

LEMMA OneHandler ==
  ASSUME LockInv, NEW p \in Proc, Frame(p), UNCHANGED <<live, cell>>, OwnInv(p)'
  PROVE  LockInv'
<1>1. ASSUME NEW q \in Proc, q # p PROVE OwnInv(q)'
  <2>1. OwnInv(q) /\ q \in Proc \ {p}
    BY <1>1, LockInvByHandler
  <2>2. Apart(q)'
    <3>1. ASSUME NEW s \in Proc \ {q}, s # p
          PROVE  /\ xLocks'[q] \cap (xLocks'[s] \cup sLocks'[s]) = {}
                 /\ sLocks'[q] \cap xLocks'[s] = {}
                 /\ cLocks'[q] \cap cLocks'[s] = {}
      BY <2>1, <3>1 DEF OwnInv, Apart, Frame
    <3>2. /\ xLocks'[q] \cap (xLocks'[p] \cup sLocks'[p]) = {}
          /\ sLocks'[q] \cap xLocks'[p] = {}
          /\ cLocks'[q] \cap cLocks'[p] = {}
      BY <1>1 DEF OwnInv, Apart
    <3>3. QED
      BY <3>1, <3>2 DEF Apart
  <2>3. (xLocks[q] \cup sLocks[q] \subseteq live)'
    BY <2>1 DEF OwnInv, Frame
  <2>4. IdleInv(q)'
    BY <2>1 DEF OwnInv, Frame, IdleInv
  <2>5. WriterInv(q)'
    BY <2>1 DEF OwnInv, Frame, WriterInv
  <2>6. DeleterInv(q)'
    BY <2>1 DEF OwnInv, Frame, DeleterInv
  <2>7. QED
    BY <2>2, <2>3, <2>4, <2>5, <2>6 DEF OwnInv
<1>2. \A q \in Proc : OwnInv(q)'
  BY <1>1
<1>3. QED
  BY <1>2 DEF LockInv, LockExclusion, LocksAlive, OwnInv, Apart

LEMMA RollbackLocks ==
  ASSUME TypeOK, LockInv, NEW p \in Proc, Rollback(p)
  PROVE  LockInv'
<1>1. Frame(p) /\ UNCHANGED <<live, cell>>
  BY DEF Rollback, EndTx, Goto, storeVars, Frame, TypeOK
<1>2. /\ pc'[p] = "idle" /\ kind'[p] = "none"
      /\ xLocks'[p] = {} /\ sLocks'[p] = {} /\ cLocks'[p] = {}
  BY DEF Rollback, EndTx, Goto, TypeOK
<1>3. OwnInv(p)'
  BY <1>2 DEF OwnInv, Apart, IdleInv, WriterInv, DeleterInv
<1>4. QED
  BY <1>1, <1>3, OneHandler

LEMMA BeginLocks ==
  ASSUME TypeOK, LockInv, NEW p \in Proc, Request(p)
  PROVE  LockInv'
<1>1. PICK k \in AllKinds, l \in {"lock", "prelock", "doom"} :
        /\ Begin(p, k, l)
        /\ k = "delete" <=> l = "doom"
        /\ \A q \in Proc \ {p} : val'[q] = val[q] /\ row'[q] = row[q] /\ scan'[q] = scan[q]
  BY DEF Request, BeginUpsert, BeginBatch, BeginDelete, AllKinds, TypeOK
<1>2. Frame(p) /\ UNCHANGED <<live, cell>>
  BY <1>1 DEF Begin, Goto, Frame, TypeOK
<1>3. /\ pc[p] = "idle" /\ pc'[p] = l /\ kind'[p] = k
      /\ UNCHANGED <<xLocks, sLocks, cLocks>>
  BY <1>1 DEF Begin, Goto, TypeOK
<1>4. xLocks'[p] = {} /\ sLocks'[p] = {} /\ cLocks'[p] = {}
  BY <1>3 DEF LockInv, IdleInv
<1>5. OwnInv(p)'
  BY <1>1, <1>3, <1>4 DEF OwnInv, Apart, IdleInv, WriterInv, DeleterInv, AllKinds
<1>6. QED
  BY <1>2, <1>5, OneHandler

(***************************************************************************)
(* The statements of a writer.                                             *)
(***************************************************************************)
WriterStep(p) ==
  \/ PrelockRow(p) \/ PrelockDone(p) \/ LockRow(p) \/ ShareTarget(p)
  \/ TargetsDone(p) \/ ReadExisting(p) \/ WriteCell(p)

LEMMA WriterLocks ==
  ASSUME TypeOK, LockInv, NEW p \in Proc, WriterStep(p)
  PROVE  LockInv'
<1>0. OwnInv(p) /\ kind[p] \in {"upsert", "batch", "delete", "none"}
  BY LockInvByHandler DEF TypeOK, AllKinds
<1> SUFFICES ASSUME ~Rollback(p) PROVE LockInv'
  BY RollbackLocks
<1>1. kind[p] \in {"upsert", "batch"}
  BY <1>0 DEF WriterStep, PrelockRow, PrelockDone, LockRow, ShareTarget, TargetsDone,
              ReadExisting, WriteCell, OwnInv, IdleInv, DeleterInv
<1>2. UNCHANGED <<live, cell, kind>>
  BY DEF WriterStep, PrelockRow, PrelockDone, LockRow, ShareTarget, TargetsDone,
         ReadExisting, WriteCell, storeVars
<1>3. Frame(p)
  BY DEF WriterStep, PrelockRow, PrelockDone, LockRow, ShareTarget, TargetsDone,
         ReadExisting, WriteCell, Goto, Frame, TypeOK
<1>4. OwnInv(p)'
  <2>1. CASE PrelockRow(p)
    BY <2>1, <1>0, <1>1, <1>2, <1>3
       DEF PrelockRow, XFree, OwnInv, Apart, Frame, IdleInv, WriterInv, DeleterInv, TypeOK
  <2>2. CASE PrelockDone(p)
    BY <2>2, <1>0, <1>1, <1>2, <1>3
       DEF PrelockDone, Goto, OwnInv, Apart, Frame, IdleInv, WriterInv, DeleterInv, TypeOK
  <2>3. CASE LockRow(p)
    BY <2>3, <1>0, <1>1, <1>2, <1>3
       DEF LockRow, XFree, Goto, OwnInv, Apart, Frame, IdleInv, WriterInv, DeleterInv, TypeOK
  <2>4. CASE ShareTarget(p)
    BY <2>4, <1>0, <1>1, <1>2, <1>3
       DEF ShareTarget, SFree, OwnInv, Apart, Frame, IdleInv, WriterInv, DeleterInv, TypeOK
  <2>5. CASE TargetsDone(p)
    BY <2>5, <1>0, <1>1, <1>2, <1>3
       DEF TargetsDone, Goto, OwnInv, Apart, Frame, IdleInv, WriterInv, DeleterInv, TypeOK
  <2>6. CASE ReadExisting(p)
    BY <2>6, <1>0, <1>1, <1>2, <1>3
       DEF ReadExisting, Goto, OwnInv, Apart, Frame, IdleInv, WriterInv, DeleterInv, TypeOK
  <2>7. CASE WriteCell(p)
    BY <2>7, <1>0, <1>1, <1>2, <1>3
       DEF WriteCell, CFree, Goto, OwnInv, Apart, Frame, IdleInv, WriterInv, DeleterInv, TypeOK
  <2>8. QED
    BY <2>1, <2>2, <2>3, <2>4, <2>5, <2>6, <2>7 DEF WriterStep
<1>5. QED
  BY <1>2, <1>3, <1>4, OneHandler

(***************************************************************************)
(* The statements of record.delete.                                        *)
(***************************************************************************)
DeleterStep(p) ==
  LockDoomed(p) \/ ScanSnapshot(p) \/ StripReference(p) \/ ScanDone(p) \/ CascadeDelete(p)

LEMMA DeleterLocks ==
  ASSUME TypeOK, LockInv, NEW p \in Proc, DeleterStep(p)
  PROVE  LockInv'
<1>0. OwnInv(p) /\ kind[p] \in {"upsert", "batch", "delete", "none"}
  BY LockInvByHandler DEF TypeOK, AllKinds
<1> SUFFICES ASSUME ~Rollback(p) PROVE LockInv'
  BY RollbackLocks
<1>1. kind[p] = "delete"
  BY <1>0 DEF DeleterStep, LockDoomed, ScanSnapshot, StripReference, ScanDone,
              CascadeDelete, OwnInv, IdleInv, WriterInv
<1>2. UNCHANGED <<live, cell, kind, row>>
  BY DEF DeleterStep, LockDoomed, ScanSnapshot, StripReference, ScanDone,
         CascadeDelete, storeVars
<1>3. Frame(p)
  BY DEF DeleterStep, LockDoomed, ScanSnapshot, StripReference, ScanDone,
         CascadeDelete, Goto, Frame, TypeOK
<1>4. OwnInv(p)'
  <2>1. CASE LockDoomed(p)
    BY <2>1, <1>0, <1>1, <1>2, <1>3
       DEF LockDoomed, XFree, Goto, OwnInv, Apart, Frame, IdleInv, WriterInv, DeleterInv, TypeOK
  <2>2. CASE ScanSnapshot(p)
    BY <2>2, <1>0, <1>1, <1>2, <1>3
       DEF ScanSnapshot, Goto, OwnInv, Apart, Frame, IdleInv, WriterInv, DeleterInv, TypeOK
  <2>3. CASE StripReference(p)
    <3>1. PICK r \in scan[p] :
            /\ CFree(p, r)
            /\ scan' = [scan EXCEPT ![p] = @ \ {r}]
            /\ \/ cell[r] = {} /\ UNCHANGED <<cLocks, eff>>
               \/ /\ cLocks' = [cLocks EXCEPT ![p] = @ \cup {r}]
                  /\ eff' = [eff EXCEPT ![p][r] = cell[r] \ {row[p]}]
      BY <2>3 DEF StripReference
    <3>2. pc[p] = "scan" /\ UNCHANGED <<pc, xLocks, sLocks>>
      BY <2>3 DEF StripReference
    <3>3. Apart(p)' /\ (xLocks[p] \cup sLocks[p] \subseteq live)' /\ IdleInv(p)' /\ WriterInv(p)'
      BY <3>1, <3>2, <1>0, <1>1, <1>2, <1>3
         DEF CFree, OwnInv, Apart, Frame, IdleInv, WriterInv, TypeOK
    <3>4. DeleterInv(p)'
      BY <3>1, <3>2, <1>0, <1>1, <1>2 DEF OwnInv, DeleterInv, TypeOK
    <3>5. QED
      BY <3>3, <3>4 DEF OwnInv
  <2>4. CASE ScanDone(p)
    BY <2>4, <1>0, <1>1, <1>2, <1>3
       DEF ScanDone, Goto, OwnInv, Apart, Frame, IdleInv, WriterInv, DeleterInv, TypeOK
  <2>5. CASE CascadeDelete(p)
    BY <2>5, <1>0, <1>1, <1>2, <1>3
       DEF CascadeDelete, CFree, Goto, OwnInv, Apart, Frame, IdleInv, WriterInv, DeleterInv,
           TypeOK, RowPCs
  <2>6. QED
    BY <2>1, <2>2, <2>3, <2>4, <2>5 DEF DeleterStep
<1>5. QED
  BY <1>2, <1>3, <1>4, OneHandler

(***************************************************************************)
(* Commit, seen from the store: a writer's rows take values whose targets  *)
(* it still holds, a deletion strips its record everywhere.                *)
(***************************************************************************)
LEMMA WriterCommit ==
  ASSUME TypeOK, LockInv, NEW p \in Proc, Commit(p), kind[p] # "delete"
  PROVE  /\ Store!Write(cLocks[p], eff[p])
         /\ \A r \in cLocks[p] : r \in xLocks[p] /\ eff[p][r] \subseteq sLocks[p]
<1>1. kind[p] \in {"upsert", "batch"}
  BY DEF Commit, LockInv, IdleInv, TypeOK, AllKinds
<1>2. \A r \in cLocks[p] : r \in xLocks[p] /\ eff[p][r] \subseteq sLocks[p]
  BY <1>1 DEF LockInv, WriterInv
<1>3. xLocks[p] \cup sLocks[p] \subseteq live
  BY DEF LockInv, LocksAlive
<1>4. QED
  BY <1>2, <1>3 DEF Store!Write, Commit

LEMMA DeleterCommit ==
  ASSUME TypeOK, LockInv, NEW p \in Proc, Commit(p), kind[p] = "delete"
  PROVE  Store!Delete(row[p]) /\ row[p] \in xLocks[p]
<1>1. /\ pc[p] = "commit"
      /\ row[p] \in xLocks[p] /\ row[p] \in live
      /\ row[p] \in cLocks[p] /\ eff[p][row[p]] = {}
      /\ \A r \in Record : row[p] \in cell[r] => r \in cLocks[p]
      /\ \A r \in cLocks[p] : r = row[p] \/ eff[p][r] = cell[r] \ {row[p]}
  BY DEF Commit, LockInv, LocksAlive, DeleterInv
<1>2. ASSUME NEW r \in Record
      PROVE  cell'[r] = IF r = row[p] THEN {} ELSE cell[r] \ {row[p]}
  BY <1>1 DEF Commit
<1>3. cell' = [r \in Record |-> IF r = row[p] THEN {} ELSE cell[r] \ {row[p]}]
  BY <1>2 DEF Commit
<1>4. QED
  BY <1>1, <1>3 DEF Store!Delete, Commit

LEMMA CommitLocks ==
  ASSUME TypeOK, LockInv, NEW p \in Proc, Commit(p)
  PROVE  LockInv'
<1>1. Frame(p)
  BY DEF Commit, EndTx, Goto, Frame, TypeOK
<1>2. /\ pc'[p] = "idle" /\ kind'[p] = "none"
      /\ xLocks'[p] = {} /\ sLocks'[p] = {} /\ cLocks'[p] = {}
  BY DEF Commit, EndTx, Goto, TypeOK
<1>3. \A r \in Record : r \notin cLocks[p] => cell'[r] = cell[r]
  BY DEF Commit
<1>4. live \ live' \subseteq xLocks[p]
  BY WriterCommit, DeleterCommit DEF Store!Write, Store!Delete, Commit
<1>5. \A r, d \in Record : d \in cell'[r] => d \in cell[r] \/ d \in sLocks[p]
  <2>1. CASE kind[p] = "delete"
    <3>1. \A r \in Record : cell'[r] \subseteq cell[r]
      BY <2>1, DeleterCommit DEF Store!Delete
    <3>2. QED
      BY <3>1
  <2>2. CASE kind[p] # "delete"
    BY <2>2, WriterCommit DEF Store!Write, TypeOK
  <2>3. QED
    BY <2>1, <2>2
<1>6. ASSUME NEW q \in Proc, q # p PROVE OwnInv(q)'
  <2>1. OwnInv(q) /\ q \in Proc \ {p}
    BY <1>6, LockInvByHandler
  <2>2. /\ xLocks[p] \cap (xLocks[q] \cup sLocks[q]) = {}
        /\ sLocks[p] \cap xLocks[q] = {}
        /\ cLocks[p] \cap cLocks[q] = {}
    BY <2>1, <1>6 DEF OwnInv, Apart
  <2>3. Apart(q)'
    BY <2>1, <1>1, <1>2 DEF OwnInv, Apart, Frame
  <2>4. (xLocks[q] \cup sLocks[q] \subseteq live)'
    BY <2>1, <2>2, <1>1, <1>4 DEF OwnInv, Frame
  <2>5. IdleInv(q)' /\ WriterInv(q)'
    BY <2>1, <1>1 DEF OwnInv, Frame, IdleInv, WriterInv
  <2>6. DeleterInv(q)'
    BY <2>1, <2>2, <1>1, <1>3, <1>5 DEF OwnInv, Frame, DeleterInv, TypeOK
  <2>7. QED
    BY <2>3, <2>4, <2>5, <2>6 DEF OwnInv
<1>7. OwnInv(p)'
  BY <1>2 DEF OwnInv, Apart, IdleInv, WriterInv, DeleterInv
<1>8. QED
  BY <1>6, <1>7 DEF LockInv, LockExclusion, LocksAlive, OwnInv, Apart

LEMMA CreateLocks ==
  ASSUME TypeOK, LockInv, NEW r \in Record, CreateRecord(r)
  PROVE  LockInv'
<1>1. UNCHANGED <<txVars, cell>> /\ live \subseteq live'
  BY DEF CreateRecord
<1>2. LockExclusion' /\ LocksAlive'
  BY <1>1 DEF LockInv, LockExclusion, LocksAlive, txVars
<1>3. ASSUME NEW q \in Proc PROVE IdleInv(q)' /\ WriterInv(q)' /\ DeleterInv(q)'
  BY <1>1 DEF LockInv, IdleInv, WriterInv, DeleterInv, txVars
<1>4. QED
  BY <1>2, <1>3 DEF LockInv

LEMMA NextLocks == TypeOK /\ LockInv /\ [Next]_vars => LockInv'
<1> SUFFICES ASSUME TypeOK, LockInv, [Next]_vars PROVE LockInv'
  OBVIOUS
<1>1. ASSUME NEW p \in Proc, Step(p) PROVE LockInv'
  BY <1>1, WriterLocks, DeleterLocks, CommitLocks, RollbackLocks
     DEF Step, WriterStep, DeleterStep, Busy
<1>2. ASSUME NEW p \in Proc, Fail(p) PROVE LockInv'
  BY <1>2, RollbackLocks DEF Fail
<1>3. CASE UNCHANGED vars
  <2>1. LockExclusion' /\ LocksAlive'
    BY <1>3 DEF LockInv, LockExclusion, LocksAlive, vars, storeVars, txVars
  <2>2. ASSUME NEW q \in Proc PROVE IdleInv(q)' /\ WriterInv(q)' /\ DeleterInv(q)'
    BY <1>3 DEF LockInv, IdleInv, WriterInv, DeleterInv, vars, storeVars, txVars
  <2>3. QED
    BY <2>1, <2>2 DEF LockInv
<1>4. QED
  BY <1>1, <1>2, <1>3, BeginLocks, CreateLocks DEF Next

-----------------------------------------------------------------------------
(***************************************************************************)
(* Every step of the statement-level store is a step of LinkStore or       *)
(* leaves the committed rows alone.                                        *)
(***************************************************************************)
LEMMA StepImplements ==
  ASSUME TypeOK, LockInv, [Next]_vars
  PROVE  [Store!StoreNext]_(Store!storeVars)
<1>1. ASSUME NEW r \in Record, CreateRecord(r) PROVE Store!StoreNext
  BY <1>1 DEF CreateRecord, Store!StoreNext, Store!Create
<1>2. ASSUME NEW p \in Proc, Commit(p) PROVE Store!StoreNext
  <2>1. CASE kind[p] = "delete"
    BY <1>2, <2>1, DeleterCommit DEF Store!StoreNext, TypeOK
  <2>2. CASE kind[p] # "delete"
    BY <1>2, <2>2, WriterCommit DEF Store!StoreNext, TypeOK
  <2>3. QED
    BY <2>1, <2>2
<1>3. ASSUME NEW p \in Proc, Rollback(p) PROVE UNCHANGED <<live, born, cell>>
  BY <1>3 DEF Rollback, storeVars
<1>4. ASSUME NEW p \in Proc, Request(p) PROVE UNCHANGED <<live, born, cell>>
  BY <1>4 DEF Request, BeginUpsert, BeginBatch, BeginDelete, Begin
<1>5. ASSUME NEW p \in Proc, WriterStep(p) \/ DeleterStep(p)
      PROVE  UNCHANGED <<live, born, cell>>
  BY <1>5, <1>3 DEF WriterStep, PrelockRow, PrelockDone, LockRow, ShareTarget,
     TargetsDone, ReadExisting, WriteCell, DeleterStep, LockDoomed, ScanSnapshot,
     StripReference, ScanDone, CascadeDelete, storeVars
<1>6. CASE UNCHANGED vars
  BY <1>6 DEF vars, storeVars, Store!storeVars
<1>7. QED
  BY <1>1, <1>2, <1>3, <1>4, <1>5, <1>6
     DEF Next, Step, Fail, Busy, WriterStep, DeleterStep, Store!storeVars

LEMMA StoreKeepsLinks ==
  ASSUME TypeOK, NoDanglingLinks, [Store!StoreNext]_(Store!storeVars)
  PROVE  NoDanglingLinks'
<1>1. ASSUME NEW r \in Record, Store!Create(r) PROVE NoDanglingLinks'
  BY <1>1 DEF Store!Create, NoDanglingLinks
<1>2. ASSUME NEW r \in Record, Store!Delete(r) PROVE NoDanglingLinks'
  BY <1>2 DEF Store!Delete, NoDanglingLinks, TypeOK
<1>3. ASSUME NEW W \in SUBSET Record, NEW v \in [Record -> SUBSET Record],
             Store!Write(W, v)
      PROVE  NoDanglingLinks'
  BY <1>3 DEF Store!Write, NoDanglingLinks, TypeOK
<1>4. CASE UNCHANGED Store!storeVars
  BY <1>4 DEF Store!storeVars, NoDanglingLinks
<1>5. QED
  BY <1>1, <1>2, <1>3, <1>4 DEF Store!StoreNext

(***************************************************************************)
(* The locks protect what was validated, and no link ever dangles, however *)
(* many handlers, records and transactions there are.                      *)
(***************************************************************************)
THEOREM LocksProtectAlways == Spec => []LocksProtect
<1>1. Init => LocksProtect
  BY DEF Init, LocksProtect, LockInv, LockExclusion, LocksAlive,
         IdleInv, WriterInv, DeleterInv
<1>2. TypeOK /\ LocksProtect /\ [Next]_vars => LocksProtect'
  <2> SUFFICES ASSUME TypeOK, LocksProtect, [Next]_vars PROVE LocksProtect'
    OBVIOUS
  <2>1. LockInv'
    BY NextLocks DEF LocksProtect
  <2>2. NoDanglingLinks'
    BY StepImplements, StoreKeepsLinks DEF LocksProtect, NoDanglingLinks
  <2>3. QED
    BY <2>1, <2>2 DEF LocksProtect, NoDanglingLinks
<1>3. QED
  BY <1>1, <1>2, TypeCorrect, PTL DEF Spec

THEOREM LinksNeverDangle == Spec => []NoDanglingLinks
<1>1. LocksProtect => NoDanglingLinks
  BY DEF LocksProtect, NoDanglingLinks
<1>2. QED
  BY <1>1, LocksProtectAlways, PTL

(***************************************************************************)
(* The statement-level writers implement the atomic store.                 *)
(***************************************************************************)
THEOREM Implementation == Spec => ImplementsStore
<1>1. Init => Store!StoreInit
  BY CellWritesAssumption DEF Init, Store!StoreInit
<1>2. TypeOK /\ LocksProtect /\ [Next]_vars => [Store!StoreNext]_(Store!storeVars)
  BY StepImplements DEF LocksProtect
<1>3. QED
  BY <1>1, <1>2, TypeCorrect, LocksProtectAlways, PTL
     DEF Spec, ImplementsStore, Store!StoreSpec

-----------------------------------------------------------------------------
(***************************************************************************)
(* The history.  What a transaction has logged is what it will commit:     *)
(* each row it logged ends in the value requested, or stripped, and each   *)
(* cell it changes is logged, but for the cell that goes with its record.  *)
(***************************************************************************)
Doomed(p, r) == kind[p] = "delete" /\ r = row[p]

LogInv(p) ==
  /\ pc[p] = "idle" => log[p] = {}
  /\ kind[p] \in {"upsert", "batch"} =>
       /\ \A e \in log[p] : e.new = val[p][e.rec]
       /\ \A r \in cLocks[p] : eff[p][r] = val[p][r] /\ \E e \in log[p] : e.rec = r
  /\ kind[p] = "delete" =>
       /\ \A e \in log[p] : e.rec \in cLocks[p] /\ e.new = cell[e.rec] \ {row[p]}
       /\ \A r \in cLocks[p] : row[p] \in cell[r] =>
            r = row[p] \/ \E e \in log[p] : e.rec = r

Logged == \A p \in Proc : LogInv(p)

(***************************************************************************)
(* Where no record is deleted the value read stays the committed one until *)
(* the write commits, and the history of every cell replays, also of those *)
(* whose record is still to come.                                          *)
(***************************************************************************)
ReadInv(p) ==
  /\ pc[p] = "write" => seen[p] = cell[row[p]]
  /\ \A e \in log[p] : e.rec \in cLocks[p] /\ e.old = cell[e.rec]

Undisturbed ==
  /\ \A p \in Proc : kind[p] # "delete" /\ ReadInv(p)
  /\ \A r \in Record : Replays(hist[r], cell[r])

(* The others' transactions, in a step of p.                               *)
OthersStay(p) ==
  \A q \in Proc \ {p} :
    /\ pc'[q] = pc[q] /\ kind'[q] = kind[q] /\ val'[q] = val[q] /\ row'[q] = row[q]
    /\ seen'[q] = seen[q] /\ cLocks'[q] = cLocks[q] /\ eff'[q] = eff[q] /\ log'[q] = log[q]
    /\ xLocks'[q] = xLocks[q]

LEMMA OthersStayEnd ==
  ASSUME TypeOK, NEW p \in Proc, EndTx(p)
  PROVE  /\ OthersStay(p)
         /\ pc'[p] = "idle" /\ kind'[p] = "none" /\ log'[p] = {} /\ cLocks'[p] = {}
  BY DEF EndTx, Goto, OthersStay, TypeOK

LEMMA OthersStayBegin ==
  ASSUME TypeOK, LockInv, Logged, NEW p \in Proc, Request(p)
  PROVE  /\ OthersStay(p) /\ UNCHANGED <<live, born, cell, hist>>
         /\ pc'[p] # "idle" /\ pc'[p] # "write" /\ kind'[p] \in Kinds
         /\ log'[p] = {} /\ cLocks'[p] = {}
<1>1. PICK k \in Kinds, l \in {"lock", "prelock", "doom"} :
        /\ Begin(p, k, l)
        /\ \A q \in Proc \ {p} : val'[q] = val[q] /\ row'[q] = row[q]
  BY DEF Request, BeginUpsert, BeginBatch, BeginDelete, Begin, TypeOK
<1>2. pc[p] = "idle" /\ UNCHANGED <<log, cLocks>>
  BY <1>1 DEF Begin
<1>3. log[p] = {} /\ cLocks[p] = {}
  BY <1>2 DEF Logged, LogInv, LockInv, IdleInv
<1>4. /\ OthersStay(p) /\ UNCHANGED <<live, born, cell, hist>>
      /\ pc'[p] = l /\ kind'[p] = k
  BY <1>1 DEF Begin, Goto, OthersStay, TypeOK
<1>5. QED
  BY <1>2, <1>3, <1>4

(* The statements that log nothing and lock no cell.                       *)
PlainStep(p) ==
  \/ PrelockRow(p) \/ PrelockDone(p) \/ LockRow(p) \/ ShareTarget(p) \/ TargetsDone(p)
  \/ ReadExisting(p) \/ LockDoomed(p) \/ ScanSnapshot(p) \/ ScanDone(p)

LEMMA OthersStayPlain ==
  ASSUME TypeOK, LockInv, NEW p \in Proc, PlainStep(p), ~Rollback(p)
  PROVE  /\ OthersStay(p) /\ UNCHANGED <<storeVars, kind, val, cLocks, eff, log>>
         /\ pc[p] # "idle" /\ pc'[p] # "idle"
         /\ row'[p] # row[p] => kind[p] # "delete"
         /\ pc'[p] = "write" => seen'[p] = cell[row[p]] /\ row'[p] = row[p]
         /\ xLocks[p] \subseteq xLocks'[p]
<1>1. CASE PrelockRow(p) \/ PrelockDone(p) \/ ShareTarget(p) \/ TargetsDone(p)
           \/ LockDoomed(p) \/ ScanSnapshot(p) \/ ScanDone(p)
  BY <1>1 DEF PrelockRow, PrelockDone, ShareTarget, TargetsDone, LockDoomed, ScanSnapshot,
              ScanDone, Goto, OthersStay, TypeOK
<1>2. CASE LockRow(p)
  <2>1. kind[p] # "delete"
    BY <1>2 DEF LockRow, LockInv, DeleterInv
  <2>2. QED
    BY <1>2, <2>1 DEF LockRow, Goto, OthersStay, TypeOK
<1>3. CASE ReadExisting(p)
  BY <1>3 DEF ReadExisting, Goto, OthersStay, TypeOK
<1>4. QED
  BY <1>1, <1>2, <1>3 DEF PlainStep

(* WriteCell logs the value read and the one requested, and takes the cell *)
(* if it hits the row.                                                     *)
LEMMA WriteEffect ==
  ASSUME TypeOK, LockInv, NEW p \in Proc, WriteCell(p)
  PROVE  /\ kind[p] \in {"upsert", "batch"} /\ row[p] \in Record
         /\ OthersStay(p) /\ UNCHANGED <<storeVars, kind, val, xLocks>>
         /\ pc[p] = "write" /\ pc'[p] \in {"commit", "lock"}
         /\ \/ log'[p] = log[p] /\ cLocks'[p] = cLocks[p] /\ eff'[p] = eff[p]
            \/ /\ log'[p] = log[p] \cup {[rec |-> row[p], old |-> seen[p], new |-> val[p][row[p]]]}
               /\ CFree(p, row[p])
               /\ IF RowHit(p, row[p])
                    THEN /\ cLocks'[p] = cLocks[p] \cup {row[p]}
                         /\ eff'[p] = [eff[p] EXCEPT ![row[p]] = val[p][row[p]]]
                    ELSE cLocks'[p] = cLocks[p] /\ eff'[p] = eff[p]
<1>1. pc[p] = "write" /\ row[p] \in Record
  BY DEF WriteCell, TypeOK, RowPCs
<1>2. kind[p] \in {"upsert", "batch"}
  BY <1>1 DEF LockInv, IdleInv, DeleterInv, TypeOK, AllKinds
<1>3. /\ OthersStay(p) /\ UNCHANGED <<storeVars, kind, val, xLocks>>
      /\ pc'[p] \in {"commit", "lock"}
  BY DEF WriteCell, Goto, OthersStay, TypeOK
<1>4. QED
  BY <1>1, <1>2, <1>3 DEF WriteCell, TypeOK

LEMMA StripEffect ==
  ASSUME TypeOK, LockInv, NEW p \in Proc, StripReference(p)
  PROVE  /\ kind[p] = "delete" /\ OthersStay(p) /\ UNCHANGED <<storeVars, kind, val, row, pc>>
         /\ pc[p] = "scan"
         /\ \E r \in Record :
              /\ CFree(p, r)
              /\ \/ cLocks'[p] = cLocks[p] /\ log'[p] = log[p]
                 \/ /\ cLocks'[p] = cLocks[p] \cup {r}
                    /\ log'[p] = IF row[p] \in cell[r]
                                   THEN log[p] \cup {[rec |-> r, old |-> cell[r],
                                                      new |-> cell[r] \ {row[p]}]}
                                   ELSE log[p]
<1>1. pc[p] = "scan" /\ UNCHANGED <<storeVars, kind, val, row, pc, seen, xLocks>>
  BY DEF StripReference
<1>2. kind[p] = "delete"
  BY <1>1 DEF LockInv, IdleInv, WriterInv, TypeOK, AllKinds
<1>3. PICK r \in scan[p] :
        /\ CFree(p, r)
        /\ \/ UNCHANGED <<cLocks, eff, log>>
           \/ /\ cLocks' = [cLocks EXCEPT ![p] = @ \cup {r}]
              /\ eff' = [eff EXCEPT ![p][r] = cell[r] \ {row[p]}]
              /\ log' = IF row[p] \in cell[r]
                          THEN [log EXCEPT ![p] = @ \cup
                                  {[rec |-> r, old |-> cell[r], new |-> cell[r] \ {row[p]}]}]
                          ELSE log
  BY DEF StripReference
<1>4. r \in Record
  BY DEF TypeOK
<1>5. OthersStay(p)
  BY <1>1, <1>3 DEF OthersStay, TypeOK
<1>6. QED
  BY <1>1, <1>2, <1>3, <1>4, <1>5 DEF TypeOK

LEMMA LogStays ==
  ASSUME NEW q \in Proc, LogInv(q),
         pc'[q] = pc[q], kind'[q] = kind[q], val'[q] = val[q], row'[q] = row[q],
         cLocks'[q] = cLocks[q], eff'[q] = eff[q], log'[q] = log[q],
         \A r \in cLocks[q] : cell'[r] = cell[r]
  PROVE  LogInv(q)'
  BY DEF LogInv

LEMMA LoggedStep ==
  ASSUME TypeOK, LockInv, Logged, [Next]_vars
  PROVE  Logged'
<1>1. ASSUME NEW p \in Proc, OthersStay(p), LogInv(p)',
             \A r \in Record : cell'[r] = cell[r] \/ r \in cLocks[p]
      PROVE  Logged'
  <2>1. ASSUME NEW q \in Proc, q # p
        PROVE  LogInv(q)'
    <3>1. \A r \in cLocks[q] : cell'[r] = cell[r]
      BY <1>1, <2>1 DEF LockInv, LockExclusion, TypeOK
    <3>2. LogInv(q)
      BY DEF Logged
    <3>3. QED
      BY <1>1, <2>1, <3>1, <3>2, LogStays DEF OthersStay
  <2>2. QED
    BY <1>1, <2>1 DEF Logged
<1>2. ASSUME NEW p \in Proc, Rollback(p)
      PROVE  Logged'
  <2>1. LogInv(p)' /\ OthersStay(p) /\ cell' = cell
    BY <1>2, OthersStayEnd DEF Rollback, storeVars, LogInv
  <2>2. QED
    BY <1>1, <2>1
<1>3. ASSUME NEW p \in Proc, Commit(p)
      PROVE  Logged'
  <2>1. LogInv(p)' /\ OthersStay(p)
    BY <1>3, OthersStayEnd DEF Commit, LogInv
  <2>2. \A r \in Record : cell'[r] = cell[r] \/ r \in cLocks[p]
    BY <1>3 DEF Commit
  <2>3. QED
    BY <1>1, <2>1, <2>2
<1>4. ASSUME NEW p \in Proc, Request(p)
      PROVE  Logged'
  <2>1. LogInv(p)' /\ OthersStay(p) /\ cell' = cell
    BY <1>4, OthersStayBegin DEF LogInv
  <2>2. QED
    BY <1>1, <2>1
<1>5. ASSUME NEW p \in Proc, PlainStep(p), ~Rollback(p)
      PROVE  Logged'
  <2>1. LogInv(p)
    BY DEF Logged
  <2>2. LogInv(p)' /\ OthersStay(p) /\ cell' = cell
    BY <1>5, <2>1, OthersStayPlain DEF LogInv, storeVars
  <2>3. QED
    BY <1>1, <2>2
<1>6. ASSUME NEW p \in Proc, WriteCell(p)
      PROVE  Logged'
  <2> DEFINE r == row[p]
             e == [rec |-> r, old |-> seen[p], new |-> val[p][r]]
  <2>1. /\ kind'[p] = kind[p] /\ kind[p] \in {"upsert", "batch"} /\ r \in Record
        /\ OthersStay(p) /\ cell' = cell /\ val' = val /\ pc'[p] # "idle"
    BY <1>6, WriteEffect DEF storeVars
  <2>2. LogInv(p) /\ eff[p] \in [Record -> SUBSET Record] /\ cLocks[p] \subseteq Record
    BY DEF Logged, TypeOK
  <2>3. CASE log'[p] = log[p] /\ cLocks'[p] = cLocks[p] /\ eff'[p] = eff[p]
    BY <1>1, <2>1, <2>2, <2>3 DEF LogInv
  <2>4. CASE /\ log'[p] = log[p] \cup {e}
             /\ IF RowHit(p, r)
                  THEN /\ cLocks'[p] = cLocks[p] \cup {r}
                       /\ eff'[p] = [eff[p] EXCEPT ![r] = val[p][r]]
                  ELSE cLocks'[p] = cLocks[p] /\ eff'[p] = eff[p]
    <3>1. e.rec = r /\ e.new = val[p][r]
      OBVIOUS
    <3>2. \A f \in log'[p] : f.new = val'[p][f.rec]
      BY <2>1, <2>2, <2>4, <3>1 DEF LogInv
    <3>3. \A s \in cLocks'[p] : eff'[p][s] = val'[p][s] /\ \E f \in log'[p] : f.rec = s
      <4>1. \A s \in cLocks[p] : eff[p][s] = val[p][s] /\ \E f \in log[p] : f.rec = s
        BY <2>1, <2>2 DEF LogInv
      <4>2. CASE RowHit(p, r)
        <5>1. /\ log'[p] = log[p] \cup {e}
              /\ cLocks'[p] = cLocks[p] \cup {r}
              /\ eff'[p] = [eff[p] EXCEPT ![r] = val[p][r]]
          BY <2>4, <4>2
        <5>2. \A s \in cLocks'[p] : eff'[p][s] = val'[p][s]
          BY <2>1, <2>2, <4>1, <5>1
        <5>3. \A s \in cLocks'[p] : \E f \in log'[p] : f.rec = s
          BY <3>1, <4>1, <5>1
        <5>4. QED
          BY <5>2, <5>3
      <4>3. CASE ~RowHit(p, r)
        BY <2>1, <2>4, <4>1, <4>3
      <4>4. QED
        BY <4>2, <4>3
    <3>4. LogInv(p)'
      BY <2>1, <3>2, <3>3 DEF LogInv
    <3>5. QED
      BY <1>1, <2>1, <3>4
  <2>5. QED
    BY <1>6, <2>3, <2>4, WriteEffect
<1>7. ASSUME NEW p \in Proc, StripReference(p)
      PROVE  Logged'
  <2>1. /\ kind'[p] = kind[p] /\ kind[p] = "delete" /\ row' = row
        /\ OthersStay(p) /\ cell' = cell /\ pc'[p] # "idle"
    BY <1>7, StripEffect DEF storeVars
  <2>2. PICK r \in Record :
          \/ cLocks'[p] = cLocks[p] /\ log'[p] = log[p]
          \/ /\ cLocks'[p] = cLocks[p] \cup {r}
             /\ log'[p] = IF row[p] \in cell[r]
                            THEN log[p] \cup {[rec |-> r, old |-> cell[r],
                                               new |-> cell[r] \ {row[p]}]}
                            ELSE log[p]
    BY <1>7, StripEffect
  <2>3. LogInv(p)
    BY DEF Logged
  <2>4. LogInv(p)'
    <3>1. \A e \in log'[p] : e.rec \in cLocks'[p] /\ e.new = cell[e.rec] \ {row[p]}
      BY <2>1, <2>2, <2>3 DEF LogInv
    <3>2. \A s \in cLocks'[p] : row[p] \in cell[s] =>
             s = row[p] \/ \E e \in log'[p] : e.rec = s
      <4>1. ASSUME NEW s \in cLocks[p], row[p] \in cell[s], s # row[p]
            PROVE  \E e \in log'[p] : e.rec = s
        <5>1. PICK e \in log[p] : e.rec = s
          BY <2>1, <2>3, <4>1 DEF LogInv
        <5>2. e \in log'[p]
          BY <2>2
        <5>3. QED
          BY <5>1, <5>2
      <4>2. ASSUME r \in cLocks'[p], r \notin cLocks[p], row[p] \in cell[r]
            PROVE  \E e \in log'[p] : e.rec = r
        <5>1. [rec |-> r, old |-> cell[r], new |-> cell[r] \ {row[p]}] \in log'[p]
          BY <2>2, <4>2
        <5>2. QED
          BY <5>1
      <4>3. QED
        BY <2>2, <4>1, <4>2
    <3>3. QED
      BY <2>1, <3>1, <3>2 DEF LogInv
  <2>5. QED
    BY <1>1, <2>1, <2>4
<1>8. ASSUME NEW p \in Proc, CascadeDelete(p)
      PROVE  Logged'
  <2>1. /\ pc[p] = "cascade" /\ pc'[p] = "commit" /\ cLocks'[p] = cLocks[p] \cup {row[p]}
        /\ UNCHANGED <<kind, val, row, log, cell>> /\ OthersStay(p)
    BY <1>8 DEF CascadeDelete, Goto, OthersStay, TypeOK, storeVars
  <2>2. kind[p] = "delete"
    BY <2>1 DEF LockInv, IdleInv, WriterInv, TypeOK, AllKinds
  <2>3. LogInv(p)'
    BY <2>1, <2>2 DEF Logged, LogInv
  <2>4. QED
    BY <1>1, <2>1, <2>3
<1>9. CASE UNCHANGED vars \/ \E r \in Record : CreateRecord(r)
  <2>1. UNCHANGED <<cell, txVars>>
    BY <1>9 DEF vars, storeVars, CreateRecord
  <2>2. QED
    BY <2>1 DEF txVars, Logged, LogInv
<1>10. QED
  BY <1>2, <1>3, <1>4, <1>5, <1>6, <1>7, <1>8, <1>9 DEF Next, Step, Fail, Busy, PlainStep

(* The history row of a change is the one that was logged for it.          *)
LEMMA PublishedRow ==
  ASSUME TypeOK, NEW p \in Proc, Commit(p), NEW r \in Record, NEW e \in log[p], e.rec = r
  PROVE  \E f \in log[p] :
           /\ f.rec = r /\ hist[r] \in Seq(HistEntry)
           /\ [old |-> f.old, new |-> f.new, at |-> stamp[p]] \in HistEntry
           /\ hist'[r] = Append(hist[r], [old |-> f.old, new |-> f.new, at |-> stamp[p]])
<1> DEFINE f == CHOOSE x \in log[p] : x.rec = r
<1>1. f \in log[p] /\ f.rec = r
  OBVIOUS
<1>2. f \in Entry /\ hist[r] \in Seq(HistEntry) /\ stamp[p] \in Nat
  BY <1>1 DEF TypeOK
<1>3. hist'[r] = Append(hist[r], [old |-> f.old, new |-> f.new, at |-> stamp[p]])
  BY DEF Commit, Published
<1>4. [old |-> f.old, new |-> f.new, at |-> stamp[p]] \in HistEntry
  BY <1>2 DEF Entry, HistEntry
<1> HIDE DEF f
<1>5. QED
  BY <1>1, <1>2, <1>3, <1>4

LEMMA AppendLast ==
  ASSUME NEW S, NEW s \in Seq(S), NEW x \in S
  PROVE  /\ Len(s) \in Nat /\ Len(Append(s, x)) = Len(s) + 1 /\ Append(s, x) # <<>>
         /\ Append(s, x)[Len(Append(s, x))] = x
         /\ \A i \in 1..Len(s) : Append(s, x)[i] = s[i]
         /\ s = <<>> <=> Len(s) = 0
  OBVIOUS

(* A change of a live record's cell never lacks its history row.           *)
LEMMA CommitIsLogged ==
  ASSUME TypeOK, LockInv, Logged, NEW p \in Proc, Commit(p),
         NEW r \in live', cell'[r] # cell[r]
  PROVE  /\ Len(hist'[r]) = Len(hist[r]) + 1
         /\ hist'[r][Len(hist'[r])].new = cell'[r]
<1>1. r \in Record /\ r \in cLocks[p] /\ cell'[r] = eff[p][r]
  BY DEF Commit, TypeOK
<1>2. \E e \in log[p] : e.rec = r
  <2>1. CASE kind[p] = "delete"
    <3>1. r # row[p]
      BY <2>1 DEF Commit
    <3>2. eff[p][r] = cell[r] \ {row[p]}
      BY <1>1, <2>1, <3>1 DEF LockInv, DeleterInv
    <3>3. row[p] \in cell[r]
      BY <1>1, <3>2
    <3>4. QED
      BY <1>1, <2>1, <3>1, <3>3 DEF Logged, LogInv
  <2>2. CASE kind[p] # "delete"
    <3>1. kind[p] \in {"upsert", "batch"}
      BY <2>2 DEF Commit, LockInv, IdleInv, TypeOK, AllKinds
    <3>2. QED
      BY <1>1, <3>1 DEF Logged, LogInv
  <2>3. QED
    BY <2>1, <2>2
<1>3. PICK f \in log[p] :
        /\ f.rec = r /\ hist[r] \in Seq(HistEntry)
        /\ [old |-> f.old, new |-> f.new, at |-> stamp[p]] \in HistEntry
        /\ hist'[r] = Append(hist[r], [old |-> f.old, new |-> f.new, at |-> stamp[p]])
  BY <1>1, <1>2, PublishedRow
<1>4. f.new = cell'[r]
  <2>1. CASE kind[p] = "delete"
    <3>1. r # row[p]
      BY <2>1 DEF Commit
    <3>2. eff[p][r] = cell[r] \ {row[p]}
      BY <1>1, <2>1, <3>1 DEF LockInv, DeleterInv
    <3>3. QED
      BY <1>1, <1>3, <2>1, <3>2 DEF Logged, LogInv
  <2>2. CASE kind[p] # "delete"
    <3>1. kind[p] \in {"upsert", "batch"}
      BY <2>2 DEF Commit, LockInv, IdleInv, TypeOK, AllKinds
    <3>2. QED
      BY <1>1, <1>3, <3>1 DEF Logged, LogInv
  <2>3. QED
    BY <2>1, <2>2
<1> DEFINE x == [old |-> f.old, new |-> f.new, at |-> stamp[p]]
<1>5. x.new = f.new
  OBVIOUS
<1> HIDE DEF x
<1>6. Len(hist'[r]) = Len(hist[r]) + 1 /\ hist'[r][Len(hist'[r])] = x
  BY <1>3, AppendLast DEF x
<1>7. QED
  BY <1>4, <1>5, <1>6

(* Every change of a live record's cell is published with a history row    *)
(* that ends in the new value (ADR-0005 decision 5), by writers and by the *)
(* deletion that strips references.                                        *)
THEOREM ChangesAreLogged == Spec => EveryChangeLogged
<1>1. Init => Logged
  BY DEF Init, Logged, LogInv
<1>2. TypeOK /\ LockInv /\ Logged /\ [Next]_vars => Logged'
  BY LoggedStep
<1>3. TypeOK /\ LockInv /\ Logged /\ [Next]_vars => ChangeIsLogged
  <2>1. SUFFICES ASSUME TypeOK, LockInv, Logged, [Next]_vars, NEW r \in live', cell'[r] # cell[r]
                 PROVE  /\ Len(hist'[r]) = Len(hist[r]) + 1
                        /\ hist'[r][Len(hist'[r])].new = cell'[r]
    BY DEF ChangeIsLogged
  <2>2. cell' # cell
    BY <2>1
  <2>3. \E p \in Proc : Commit(p)
    BY <2>1, <2>2
       DEF Next, CreateRecord, Request, BeginUpsert, BeginBatch, BeginDelete, Begin, Step,
           PrelockRow, PrelockDone, LockRow, ShareTarget, TargetsDone, ReadExisting, WriteCell,
           LockDoomed, ScanSnapshot, StripReference, ScanDone, CascadeDelete, Busy, Fail,
           Rollback, storeVars, vars
  <2>4. QED
    BY <2>1, <2>3, CommitIsLogged
<1>4. LocksProtect => LockInv
  BY DEF LocksProtect
<1>5. QED
  BY <1>1, <1>2, <1>3, <1>4, TypeCorrect, LocksProtectAlways, PTL DEF Spec, EveryChangeLogged

-----------------------------------------------------------------------------
(***************************************************************************)
(* What deletions may do to a writer.  While it holds the record, the cell *)
(* it has read shrinks only by records that are deleted, and its write     *)
(* misses the cell only when they were all the cell held.                  *)
(***************************************************************************)
Kept(p) == kind[p] \in {"upsert", "batch"} =>
  /\ pc[p] = "write" => seen[p] \subseteq born /\ cell[row[p]] = seen[p] \cap live
  /\ \A e \in log[p] :
       /\ e.rec \in xLocks[p] /\ e.old \subseteq born /\ cell[e.rec] = e.old \cap live
       /\ e.rec \in cLocks[p] \/ (e.old # {} /\ e.old \cap live = {})

OnlyShrunk ==
  /\ live \subseteq born
  /\ \A p \in Proc : Kept(p)

(* A cell whose record q holds loses what is deleted and nothing else.     *)
LEMMA HeldCellsShrink ==
  ASSUME TypeOK, LocksProtect, NEW p \in Proc, Commit(p), NEW q \in Proc, q # p,
         NEW r \in xLocks[q]
  PROVE  cell'[r] = cell[r] \cap live' /\ live' \subseteq live
<1>1. /\ LockInv /\ r \in Record /\ cell[r] \subseteq live
      /\ cell'[r] = IF r \in cLocks[p] THEN eff[p][r] ELSE cell[r]
      /\ live' = IF kind[p] = "delete" THEN live \ {row[p]} ELSE live
      /\ pc[p] = "commit"
  BY DEF Commit, LocksProtect, TypeOK
<1>2. r \notin xLocks[p]
  BY <1>1 DEF LockInv, LockExclusion
<1>3. CASE kind[p] = "delete"
  <2>1. r # row[p]
    BY <1>1, <1>2, <1>3 DEF LockInv, DeleterInv
  <2>2. r \in cLocks[p] => eff[p][r] = cell[r] \ {row[p]}
    BY <1>1, <1>3, <2>1 DEF LockInv, DeleterInv
  <2>3. r \notin cLocks[p] => row[p] \notin cell[r]
    BY <1>1, <1>3 DEF LockInv, DeleterInv
  <2>4. QED
    BY <1>1, <1>3, <2>2, <2>3
<1>4. CASE kind[p] # "delete"
  <2>1. kind[p] \in {"upsert", "batch"}
    BY <1>1, <1>4 DEF LockInv, IdleInv, TypeOK, AllKinds
  <2>2. r \notin cLocks[p]
    BY <1>1, <1>2, <2>1 DEF LockInv, WriterInv
  <2>3. QED
    BY <1>1, <1>4, <2>2
<1>5. QED
  BY <1>3, <1>4

(* What q has read and logged, when the cells it holds only shrink.        *)
LEMMA KeptStays ==
  ASSUME LockInv, NEW q \in Proc, Kept(q),
         pc'[q] = pc[q], kind'[q] = kind[q], row'[q] = row[q], seen'[q] = seen[q],
         xLocks'[q] = xLocks[q], cLocks'[q] = cLocks[q], log'[q] = log[q],
         born \subseteq born',
         \A S \in SUBSET born : S \cap live' \subseteq live,
         \A r \in xLocks[q] : \A S \in SUBSET born :
           cell[r] = S \cap live => cell'[r] = S \cap live'
  PROVE  Kept(q)'
<1> SUFFICES ASSUME kind[q] \in {"upsert", "batch"} PROVE Kept(q)'
  BY DEF Kept
<1>1. ASSUME pc[q] = "write"
      PROVE  seen[q] \subseteq born' /\ cell'[row[q]] = seen[q] \cap live'
  <2>1. row[q] \in xLocks[q]
    BY <1>1 DEF LockInv, WriterInv
  <2>2. QED
    BY <1>1, <2>1 DEF Kept
<1>2. ASSUME NEW e \in log[q]
      PROVE  /\ e.rec \in xLocks[q] /\ e.old \subseteq born' /\ cell'[e.rec] = e.old \cap live'
             /\ e.rec \in cLocks[q] \/ (e.old # {} /\ e.old \cap live' = {})
  <2>1. /\ e.rec \in xLocks[q] /\ e.old \subseteq born /\ cell[e.rec] = e.old \cap live
        /\ e.rec \in cLocks[q] \/ (e.old # {} /\ e.old \cap live = {})
    BY DEF Kept
  <2>2. e.old \cap live' \subseteq live
    BY <2>1
  <2>3. QED
    BY <2>1, <2>2
<1>3. QED
  BY <1>1, <1>2 DEF Kept

LEMMA OnlyShrunkStep ==
  ASSUME TypeOK, LocksProtect, Logged, OnlyShrunk, [Next]_vars
  PROVE  OnlyShrunk'
<1>1. LockInv /\ live \subseteq born /\ \A r \in Record : cell[r] \subseteq live
  BY DEF LocksProtect, OnlyShrunk
<1>2. ASSUME NEW p \in Proc, OthersStay(p), UNCHANGED <<live, born, cell>>, Kept(p)'
      PROVE  OnlyShrunk'
  <2>1. ASSUME NEW q \in Proc, q # p
        PROVE  Kept(q)'
    BY <1>1, <1>2, <2>1, KeptStays DEF OnlyShrunk, OthersStay
  <2>2. QED
    BY <1>1, <1>2, <2>1 DEF OnlyShrunk
<1>3. ASSUME NEW p \in Proc, Rollback(p)
      PROVE  OnlyShrunk'
  <2>1. OthersStay(p) /\ UNCHANGED <<live, born, cell>> /\ kind'[p] = "none"
    BY <1>3, OthersStayEnd DEF Rollback, storeVars
  <2>2. QED
    BY <1>2, <2>1 DEF Kept
<1>4. ASSUME NEW p \in Proc, Commit(p)
      PROVE  OnlyShrunk'
  <2>1. OthersStay(p) /\ kind'[p] = "none" /\ born' = born /\ live' \subseteq live
    BY <1>4, OthersStayEnd DEF Commit
  <2>2. ASSUME NEW q \in Proc, q # p
        PROVE  Kept(q)'
    <3>1. \A r \in xLocks[q] : cell'[r] = cell[r] \cap live'
      BY <1>4, <2>2, HeldCellsShrink
    <3>2. \A r \in xLocks[q] : \A S \in SUBSET born :
            cell[r] = S \cap live => cell'[r] = S \cap live'
      BY <2>1, <3>1
    <3>3. QED
      BY <1>1, <2>1, <2>2, <3>2, KeptStays DEF OnlyShrunk, OthersStay
  <2>3. Kept(p)'
    BY <2>1 DEF Kept
  <2>4. QED
    BY <1>1, <2>1, <2>2, <2>3 DEF OnlyShrunk
<1>5. ASSUME NEW p \in Proc, Request(p)
      PROVE  OnlyShrunk'
  <2>1. OthersStay(p) /\ UNCHANGED <<live, born, cell>> /\ pc'[p] # "write" /\ log'[p] = {}
    BY <1>1, <1>5, OthersStayBegin
  <2>2. QED
    BY <1>2, <2>1 DEF Kept
<1>6. ASSUME NEW p \in Proc, PlainStep(p), ~Rollback(p)
      PROVE  OnlyShrunk'
  <2>1. /\ OthersStay(p) /\ UNCHANGED <<storeVars, kind, cLocks, log>>
        /\ xLocks[p] \subseteq xLocks'[p]
        /\ pc'[p] = "write" => seen'[p] = cell[row[p]] /\ row'[p] = row[p]
    BY <1>1, <1>6, OthersStayPlain
  <2>2. Kept(p)'
    <3>1. ASSUME pc'[p] = "write", kind[p] \in {"upsert", "batch"}
          PROVE  seen'[p] \subseteq born /\ cell[row'[p]] = seen'[p] \cap live
      <4>1. row[p] \in Record
        BY <1>6, <3>1 DEF TypeOK, RowPCs, PlainStep, PrelockRow, PrelockDone, LockRow,
              ShareTarget, TargetsDone, ReadExisting, LockDoomed, ScanSnapshot, ScanDone, Goto
      <4>2. QED
        BY <1>1, <2>1, <3>1, <4>1
    <3>2. Kept(p)
      BY DEF OnlyShrunk
    <3>3. QED
      BY <2>1, <3>1, <3>2 DEF Kept, storeVars
  <2>3. QED
    BY <1>2, <2>1, <2>2 DEF storeVars
<1>7. ASSUME NEW p \in Proc, WriteCell(p)
      PROVE  OnlyShrunk'
  <2> DEFINE r == row[p]
             e == [rec |-> r, old |-> seen[p], new |-> val[p][r]]
  <2>1. /\ OthersStay(p) /\ UNCHANGED <<live, born, cell, kind, xLocks>> /\ r \in Record
        /\ pc[p] = "write" /\ pc'[p] # "write" /\ kind[p] \in {"upsert", "batch"}
    BY <1>1, <1>7, WriteEffect DEF storeVars
  <2>2. /\ Kept(p) /\ seen[p] \subseteq born /\ cell[r] = seen[p] \cap live
        /\ r \in xLocks[p]
    BY <1>1, <2>1 DEF OnlyShrunk, Kept, LockInv, WriterInv
  <2>3. CASE log'[p] = log[p] /\ cLocks'[p] = cLocks[p]
    BY <1>2, <2>1, <2>2, <2>3 DEF Kept
  <2>4. CASE /\ log'[p] = log[p] \cup {e}
             /\ IF RowHit(p, r) THEN cLocks'[p] = cLocks[p] \cup {r}
                                ELSE cLocks'[p] = cLocks[p]
    <3>1. e.rec = r /\ e.old = seen[p]
      OBVIOUS
    <3>2. r \in cLocks'[p] \/ (seen[p] # {} /\ seen[p] \cap live = {})
      BY <2>2, <2>4 DEF RowHit
    <3>3. cLocks[p] \subseteq cLocks'[p]
      BY <2>4
    <3> HIDE DEF e
    <3>4. \A f \in log'[p] :
            /\ f.rec \in xLocks'[p] /\ f.old \subseteq born' /\ cell'[f.rec] = f.old \cap live'
            /\ f.rec \in cLocks'[p] \/ (f.old # {} /\ f.old \cap live' = {})
      BY <2>1, <2>2, <2>4, <3>1, <3>2, <3>3 DEF Kept
    <3>5. Kept(p)'
      BY <2>1, <3>4 DEF Kept
    <3>6. QED
      BY <1>2, <2>1, <3>5
  <2>5. QED
    BY <1>1, <1>7, <2>3, <2>4, WriteEffect
<1>8. ASSUME NEW p \in Proc, StripReference(p) \/ CascadeDelete(p)
      PROVE  OnlyShrunk'
  <2>1. /\ OthersStay(p) /\ UNCHANGED <<live, born, cell, kind>>
        /\ pc[p] \in {"scan", "cascade"}
    <3>1. CASE StripReference(p)
      BY <1>1, <3>1, StripEffect DEF storeVars
    <3>2. CASE CascadeDelete(p)
      BY <3>2 DEF CascadeDelete, Goto, OthersStay, TypeOK, storeVars
    <3>3. QED
      BY <1>8, <3>1, <3>2
  <2>2. Kept(p)'
    BY <1>1, <2>1 DEF Kept, LockInv, WriterInv
  <2>3. QED
    BY <1>2, <2>1, <2>2
<1>9. ASSUME NEW r \in Record, CreateRecord(r)
      PROVE  OnlyShrunk'
  <2>1. /\ r \notin born /\ live' = live \cup {r} /\ born' = born \cup {r}
        /\ UNCHANGED <<cell, txVars>>
    BY <1>9 DEF CreateRecord
  <2>2. \A S \in SUBSET born : S \cap live' = S \cap live
    BY <2>1
  <2>3. ASSUME NEW q \in Proc
        PROVE  Kept(q)'
    BY <1>1, <2>1, <2>2, KeptStays DEF OnlyShrunk, txVars
  <2>4. QED
    BY <1>1, <2>1, <2>3 DEF OnlyShrunk
<1>10. CASE UNCHANGED vars
  BY <1>10 DEF vars, storeVars, txVars, OnlyShrunk, Kept
<1>11. QED
  BY <1>3, <1>4, <1>5, <1>6, <1>7, <1>8, <1>9, <1>10 DEF Next, Step, Fail, Busy, PlainStep

(* Whatever deletions run, the old value a successful writer logs differs  *)
(* from what the cell held only by records that are gone, and its new      *)
(* value is lost only over a cell every target of which was deleted.       *)
THEOREM LossesAreExplained == Spec => OnlyDeletionsLoseWrites
<1>1. Init => OnlyShrunk /\ Logged
  BY DEF Init, OnlyShrunk, Kept, Logged, LogInv
<1>2. TypeOK /\ LocksProtect /\ OnlyShrunk /\ Logged /\ [Next]_vars => (OnlyShrunk /\ Logged)'
  BY OnlyShrunkStep, LoggedStep DEF LocksProtect
<1>3. ASSUME TypeOK, LocksProtect, OnlyShrunk, Logged
      PROVE  \A p \in Proc : LossExplained(p)
  <2>1. SUFFICES ASSUME NEW p \in Proc, pc[p] = "commit", kind[p] # "delete", Commit(p),
                        NEW e \in log[p]
                 PROVE  /\ cell[e.rec] = e.old \cap live
                        /\ cell'[e.rec] = e.new \/ (e.old # {} /\ e.old \cap live = {})
    BY DEF LossExplained
  <2>2. kind[p] \in {"upsert", "batch"}
    BY <1>3, <2>1 DEF LocksProtect, LockInv, IdleInv, TypeOK, AllKinds
  <2>3. /\ cell[e.rec] = e.old \cap live
        /\ e.rec \in cLocks[p] \/ (e.old # {} /\ e.old \cap live = {})
    BY <1>3, <2>2 DEF OnlyShrunk, Kept
  <2>4. ASSUME e.rec \in cLocks[p]
        PROVE  cell'[e.rec] = e.new
    <3>1. e.rec \in Record
      BY <1>3, <2>4 DEF TypeOK
    <3>2. e.new = val[p][e.rec] /\ eff[p][e.rec] = val[p][e.rec]
      BY <1>3, <2>2, <2>4 DEF Logged, LogInv
    <3>3. QED
      BY <2>1, <2>4, <3>1, <3>2 DEF Commit
  <2>5. QED
    BY <2>3, <2>4
<1>4. TypeOK /\ LocksProtect /\ OnlyShrunk /\ Logged /\ [Next]_vars
        => \A p \in Proc : LossExplained(p)
  BY <1>3
<1>5. QED
  BY <1>1, <1>2, <1>4, TypeCorrect, LocksProtectAlways, PTL DEF Spec, OnlyDeletionsLoseWrites

-----------------------------------------------------------------------------
(***************************************************************************)
(* Without deletions.                                                      *)
(***************************************************************************)
LEMMA ReadStays ==
  ASSUME NEW q \in Proc, ReadInv(q),
         pc'[q] = pc[q], row'[q] = row[q], seen'[q] = seen[q],
         cLocks'[q] = cLocks[q], log'[q] = log[q],
         \A r \in cLocks[q] : cell'[r] = cell[r],
         pc[q] = "write" => cell'[row[q]] = cell[row[q]]
  PROVE  ReadInv(q)'
  BY DEF ReadInv

(* A writer's commit changes only cells whose records it holds, so no      *)
(* other writer has read them.                                             *)
LEMMA CommitReads ==
  ASSUME TypeOK, LockInv, Undisturbed, NEW p \in Proc, Commit(p), NEW q \in Proc, q # p
  PROVE  ReadInv(q)'
<1>1. OthersStay(p) /\ \A r \in Record : cell'[r] = cell[r] \/ r \in cLocks[p]
  BY OthersStayEnd DEF Commit
<1>2. kind[p] # "delete" /\ kind[q] # "delete" /\ ReadInv(q)
  BY DEF Undisturbed
<1>3. kind[p] \in {"upsert", "batch"}
  BY <1>2 DEF Commit, LockInv, IdleInv, TypeOK, AllKinds
<1>4. cLocks[p] \subseteq xLocks[p]
  BY <1>3 DEF LockInv, WriterInv
<1>5. \A r \in cLocks[q] : cell'[r] = cell[r]
  BY <1>1 DEF LockInv, LockExclusion, TypeOK
<1>6. ASSUME pc[q] = "write"
      PROVE  cell'[row[q]] = cell[row[q]]
  <2>1. kind[q] \in {"upsert", "batch"} /\ row[q] \in Record
    BY <1>2, <1>6 DEF LockInv, IdleInv, TypeOK, AllKinds, RowPCs
  <2>2. row[q] \in xLocks[q]
    BY <1>6, <2>1 DEF LockInv, WriterInv
  <2>3. row[q] \notin cLocks[p]
    BY <1>4, <2>2 DEF LockInv, LockExclusion
  <2>4. QED
    BY <1>1, <2>1, <2>3
<1>7. QED
  BY <1>1, <1>2, <1>5, <1>6, ReadStays DEF OthersStay

(* One more row, from the cell's value to its next one.                    *)
LEMMA ReplayGoesOn ==
  ASSUME NEW S, NEW s \in Seq(S), NEW x \in S, NEW v, Replays(s, v), x.old = v
  PROVE  Replays(Append(s, x), x.new)
<1> DEFINE t == Append(s, x)
<1>1. /\ Len(s) \in Nat /\ Len(t) = Len(s) + 1 /\ t # <<>> /\ t[Len(t)] = x
      /\ \A i \in 1..Len(s) : t[i] = s[i]
      /\ s = <<>> <=> Len(s) = 0
  BY AppendLast
<1> HIDE DEF t
<1>2. ASSUME NEW i \in 1..Len(t)
      PROVE  t[i].old = IF i = 1 THEN {} ELSE t[i - 1].new
  <2>1. CASE i \in 1..Len(s)
    <3>1. t[i] = s[i] /\ (i # 1 => t[i - 1] = s[i - 1])
      BY <1>1, <2>1
    <3>2. QED
      BY <2>1, <3>1 DEF Replays
  <2>2. CASE i = Len(t)
    <3>1. i = Len(s) + 1 /\ t[i].old = v
      BY <1>1, <2>2
    <3>2. CASE s = <<>>
      BY <1>1, <3>1, <3>2 DEF Replays
    <3>3. CASE s # <<>>
      <4>1. v = s[Len(s)].new /\ i # 1 /\ i - 1 = Len(s) /\ Len(s) \in 1..Len(s)
        BY <1>1, <3>1, <3>3 DEF Replays
      <4>2. t[i - 1] = s[Len(s)]
        BY <1>1, <4>1
      <4>3. QED
        BY <3>1, <4>1, <4>2
    <3>4. QED
      BY <3>2, <3>3
  <2>3. QED
    BY <1>1, <2>1, <2>2
<1>3. x.new = IF t = <<>> THEN {} ELSE t[Len(t)].new
  BY <1>1
<1>4. Replays(t, x.new)
  BY <1>2, <1>3 DEF Replays
<1>5. QED
  BY <1>4 DEF t

LEMMA CommitReplays ==
  ASSUME TypeOK, LockInv, Logged, Undisturbed, NEW p \in Proc, Commit(p), NEW r \in Record
  PROVE  Replays(hist'[r], cell'[r])
<1>1. /\ pc[p] = "commit" /\ ReadInv(p) /\ Replays(hist[r], cell[r])
      /\ kind[p] \in {"upsert", "batch"}
  BY DEF Undisturbed, Commit, LockInv, IdleInv, TypeOK, AllKinds
<1>2. LogInv(p)
  BY DEF Logged
<1>3. CASE \E e \in log[p] : e.rec = r
  <2>1. PICK f \in log[p] :
          /\ f.rec = r /\ hist[r] \in Seq(HistEntry)
          /\ [old |-> f.old, new |-> f.new, at |-> stamp[p]] \in HistEntry
          /\ hist'[r] = Append(hist[r], [old |-> f.old, new |-> f.new, at |-> stamp[p]])
    BY <1>3, PublishedRow
  <2> DEFINE x == [old |-> f.old, new |-> f.new, at |-> stamp[p]]
  <2>2. x \in HistEntry /\ hist'[r] = Append(hist[r], x) /\ hist[r] \in Seq(HistEntry)
    BY <2>1
  <2>3. f.old = cell[r] /\ r \in cLocks[p] /\ f.new = val[p][r] /\ eff[p][r] = val[p][r]
    BY <1>1, <1>2, <2>1 DEF ReadInv, LogInv
  <2>4. x.old = cell[r] /\ x.new = cell'[r]
    BY <2>3 DEF Commit
  <2> HIDE DEF x
  <2>5. Replays(Append(hist[r], x), x.new)
    BY <1>1, <2>2, <2>4, ReplayGoesOn
  <2>6. QED
    BY <2>2, <2>4, <2>5
<1>4. CASE ~ \E e \in log[p] : e.rec = r
  <2>1. r \notin cLocks[p]
    BY <1>1, <1>2, <1>4 DEF LogInv
  <2>2. cell'[r] = cell[r] /\ hist'[r] = hist[r]
    BY <1>4, <2>1 DEF Commit, Published
  <2>3. QED
    BY <1>1, <2>2
<1>5. QED
  BY <1>3, <1>4

LEMMA UndisturbedStep ==
  ASSUME TypeOK, LockInv, Logged, Undisturbed, [Next]_vars, "delete" \notin Kinds
  PROVE  Undisturbed'
<1>1. ASSUME NEW p \in Proc, OthersStay(p), UNCHANGED <<cell, hist>>,
             ReadInv(p)', kind'[p] # "delete"
      PROVE  Undisturbed'
  <2>1. ASSUME NEW q \in Proc, q # p
        PROVE  kind'[q] # "delete" /\ ReadInv(q)'
    BY <1>1, <2>1, ReadStays DEF Undisturbed, OthersStay
  <2>2. QED
    BY <1>1, <2>1 DEF Undisturbed
<1>2. ASSUME NEW p \in Proc, Rollback(p)
      PROVE  Undisturbed'
  <2>1. ReadInv(p)' /\ OthersStay(p) /\ UNCHANGED <<cell, hist>> /\ kind'[p] = "none"
    BY <1>2, OthersStayEnd DEF Rollback, storeVars, ReadInv
  <2>2. QED
    BY <1>1, <2>1
<1>3. ASSUME NEW p \in Proc, Commit(p)
      PROVE  Undisturbed'
  <2>1. ReadInv(p)' /\ OthersStay(p) /\ kind'[p] = "none"
    BY <1>3, OthersStayEnd DEF Commit, ReadInv
  <2>2. \A q \in Proc : kind'[q] # "delete"
    BY <2>1 DEF Undisturbed, OthersStay
  <2>3. QED
    BY <1>3, <2>1, <2>2, CommitReads, CommitReplays DEF Undisturbed
<1>4. ASSUME NEW p \in Proc, Request(p)
      PROVE  Undisturbed'
  <2>1. ReadInv(p)' /\ OthersStay(p) /\ UNCHANGED <<cell, hist>> /\ kind'[p] # "delete"
    BY <1>4, OthersStayBegin DEF ReadInv
  <2>2. QED
    BY <1>1, <2>1
<1>5. ASSUME NEW p \in Proc, PlainStep(p), ~Rollback(p)
      PROVE  Undisturbed'
  <2>1. ReadInv(p) /\ kind[p] # "delete"
    BY DEF Undisturbed
  <2>2. ReadInv(p)' /\ OthersStay(p) /\ UNCHANGED <<cell, hist>> /\ kind'[p] # "delete"
    BY <1>5, <2>1, OthersStayPlain DEF ReadInv, storeVars
  <2>3. QED
    BY <1>1, <2>2
<1>6. ASSUME NEW p \in Proc, WriteCell(p)
      PROVE  Undisturbed'
  <2> DEFINE r == row[p]
             e == [rec |-> r, old |-> seen[p], new |-> val[p][r]]
  <2>1. /\ kind'[p] # "delete" /\ OthersStay(p) /\ UNCHANGED <<cell, hist>>
        /\ pc[p] = "write" /\ pc'[p] # "write"
    BY <1>6, WriteEffect DEF storeVars, Undisturbed
  <2>2. ReadInv(p) /\ seen[p] = cell[r]
    BY <2>1 DEF Undisturbed, ReadInv
  <2>3. RowHit(p, r)
    BY <2>2 DEF RowHit
  <2>4. \/ log'[p] = log[p] /\ cLocks'[p] = cLocks[p]
        \/ log'[p] = log[p] \cup {e} /\ cLocks'[p] = cLocks[p] \cup {r}
    BY <1>6, <2>3, WriteEffect
  <2>5. e.rec = r /\ e.old = cell[r]
    BY <2>2
  <2>6. ReadInv(p)'
    <3>1. \A f \in log'[p] : f.rec \in cLocks'[p] /\ f.old = cell[f.rec]
      BY <2>2, <2>4, <2>5 DEF ReadInv
    <3>2. QED
      BY <2>1, <3>1 DEF ReadInv
  <2>7. QED
    BY <1>1, <2>1, <2>6
<1>7. ASSUME NEW p \in Proc
      PROVE  ~StripReference(p) /\ ~CascadeDelete(p)
  <2>1. kind[p] # "delete"
    BY DEF Undisturbed
  <2>2. QED
    BY <2>1 DEF StripReference, CascadeDelete, LockInv, IdleInv, WriterInv, TypeOK, AllKinds
<1>8. CASE UNCHANGED vars \/ \E r \in Record : CreateRecord(r)
  <2>1. UNCHANGED <<cell, hist, txVars>>
    BY <1>8 DEF vars, storeVars, CreateRecord
  <2>2. QED
    BY <2>1 DEF txVars, Undisturbed, ReadInv
<1>9. QED
  BY <1>2, <1>3, <1>4, <1>5, <1>6, <1>7, <1>8 DEF Next, Step, Fail, Busy, PlainStep

LEMMA UndisturbedInit ==
  ASSUME Init
  PROVE  Undisturbed
<1>1. \A p \in Proc : kind[p] # "delete" /\ ReadInv(p)
  BY DEF Init, ReadInv
<1>2. ASSUME NEW r \in Record
      PROVE  Replays(hist[r], cell[r])
  <2>1. CASE cell[r] = {}
    <3>1. hist[r] = <<>>
      BY <2>1 DEF Init
    <3>2. QED
      BY <2>1, <3>1 DEF Replays
  <2>2. CASE cell[r] # {}
    <3>1. hist[r] = <<[old |-> {}, new |-> cell[r], at |-> 0]>>
      BY <2>2 DEF Init
    <3>2. /\ Len(hist[r]) = 1 /\ hist[r] # <<>>
          /\ hist[r][1].old = {} /\ hist[r][1].new = cell[r]
      BY <3>1
    <3>3. QED
      BY <3>2 DEF Replays
  <2>3. QED
    BY <2>1, <2>2
<1>3. QED
  BY <1>1, <1>2 DEF Undisturbed

LEMMA UndisturbedAlways == "delete" \notin Kinds /\ Spec => [](TypeOK /\ LockInv /\ Logged /\ Undisturbed)
<1> SUFFICES ASSUME "delete" \notin Kinds
             PROVE  Spec => [](TypeOK /\ LockInv /\ Logged /\ Undisturbed)
  OBVIOUS
<1>1. Init => Logged /\ Undisturbed
  BY UndisturbedInit DEF Init, Logged, LogInv
<1>2. TypeOK /\ LockInv /\ Logged /\ Undisturbed /\ [Next]_vars => (Logged /\ Undisturbed)'
  BY LoggedStep, UndisturbedStep
<1>3. LocksProtect => LockInv
  BY DEF LocksProtect
<1>4. QED
  BY <1>1, <1>2, <1>3, TypeCorrect, LocksProtectAlways, PTL DEF Spec

(* Where no record is deleted, the committed history of every cell replays *)
(* to its value: each row starts where the row before it ended.  Deletions *)
(* break this: they strip a cell between a writer's read and its write.    *)
THEOREM HistoryIsComplete == "delete" \notin Kinds /\ Spec => []HistoryReplays
<1>1. TypeOK /\ LockInv /\ Logged /\ Undisturbed => HistoryReplays
  BY DEF TypeOK, Undisturbed, HistoryReplays
<1>2. QED
  BY <1>1, UndisturbedAlways, PTL

(* And an upsert or batch that reports success leaves the values it was    *)
(* given, over the values it read: the record lock and the advisory lock   *)
(* make the read-modify-write of a cell atomic.                            *)
THEOREM NoWriteIsLost == "delete" \notin Kinds /\ Spec => AckedWritesLand
<1>1. ASSUME TypeOK, LockInv, Logged, Undisturbed, [Next]_vars
      PROVE  \A p \in Proc : AckedWrite(p)
  <2>1. SUFFICES ASSUME NEW p \in Proc, pc[p] = "commit", kind[p] # "delete", Commit(p),
                        NEW e \in log[p]
                 PROVE  cell'[e.rec] = e.new /\ cell[e.rec] = e.old
    BY DEF AckedWrite
  <2>2. e.rec \in cLocks[p] /\ e.old = cell[e.rec] /\ e.rec \in Record
    BY <1>1, <2>1 DEF Undisturbed, ReadInv, TypeOK
  <2>3. kind[p] \in {"upsert", "batch"}
    BY <1>1, <2>1 DEF LockInv, IdleInv, TypeOK, AllKinds
  <2>4. e.new = val[p][e.rec] /\ eff[p][e.rec] = val[p][e.rec]
    BY <1>1, <2>2, <2>3 DEF Logged, LogInv
  <2>5. QED
    BY <2>1, <2>2, <2>4 DEF Commit
<1>2. TypeOK /\ LockInv /\ Logged /\ Undisturbed /\ [Next]_vars => \A p \in Proc : AckedWrite(p)
  BY <1>1
<1>3. QED
  BY <1>2, UndisturbedAlways, PTL DEF Spec, AckedWritesLand
=============================================================================
