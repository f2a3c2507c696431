------------------------- MODULE ExpressionsProofs -------------------------
(***************************************************************************)
(* Theorems about Expressions: what the record locks and the order of a    *)
(* backfill promise of the cells of an expression field, for any records,  *)
(* fields, definitions, writers and size of a batch.                       *)
(***************************************************************************)
EXTENDS Expressions, FiniteSetTheorems, TLAPS

(***************************************************************************)
(* A page of a backfill takes the records that come next, and no more than *)
(* a batch of them.                                                        *)
(***************************************************************************)
LEMMA LeastExists ==
  ASSUME NEW X \in SUBSET Nat, X # {}
  PROVE  \E x \in X : \A y \in X : x <= y
<1>1. PICK x \in X : \A y \in X : ~ (<<y, x>> \in OpToRel(<, Nat))
  BY NatLessThanWellFounded, WFMin
<1>2. \A y \in X : ~ (y < x)
  BY <1>1 DEF OpToRel
<1>3. QED
  BY <1>2

LEMMA GreatestExists ==
  ASSUME NEW X \in SUBSET Nat, X # {}, IsFiniteSet(X)
  PROVE  \E x \in X : \A y \in X : x >= y
<1> DEFINE Above(x) == {y \in X : y > x}
           Counts == {Cardinality(Above(x)) : x \in X}
<1>1. \A x \in X : IsFiniteSet(Above(x)) /\ Cardinality(Above(x)) \in Nat
  BY FS_Subset, FS_CardinalityType
<1>2. PICK n \in Counts : \A m \in Counts : n <= m
  <2>1. Counts \in SUBSET Nat /\ Counts # {}
    BY <1>1
  <2> HIDE DEF Counts
  <2>2. QED
    BY <2>1, LeastExists
<1>3. PICK x \in X : n = Cardinality(Above(x))
  OBVIOUS
<1>4. ASSUME NEW y \in X, y > x
      PROVE  FALSE
  <2>1. Above(y) \in SUBSET Above(x) /\ y \in Above(x) /\ y \notin Above(y)
    <3>1. x \in Nat /\ y \in Nat /\ \A z \in X : z \in Nat
      OBVIOUS
    <3>2. \A z \in X : z > y => z > x
      BY <3>1, <1>4
    <3>3. Above(y) \in SUBSET Above(x)
      BY <3>2
    <3>4. y \in Above(x) /\ y \notin Above(y)
      BY <3>1, <1>4
    <3>5. QED
      BY <3>3, <3>4
  <2>2. /\ Cardinality(Above(y)) <= Cardinality(Above(x))
        /\ Cardinality(Above(y)) # Cardinality(Above(x))
    <3> HIDE DEF Above
    <3>1. QED
      BY <1>1, <2>1, FS_Subset
  <2>3. Cardinality(Above(x)) <= Cardinality(Above(y))
    BY <1>2, <1>3
  <2>4. QED
    <3> HIDE DEF Above
    <3>1. QED
      BY <1>1, <2>2, <2>3
<1>5. QED
  BY <1>4

(* ReadPage loses no record: what is neither on the page nor before it is  *)
(* behind its end, and there is none behind a page that came short.        *)
LEMMA PageIsBeginning ==
  ASSUME TypeOK, NEW q \in Definer, fill[q].after \in Nat, NEW r \in Rest(q), r \notin Page(q)
  PROVE  /\ Page(q) # {}
         /\ r > Greatest(Page(q))
         /\ ~ (Cardinality(Page(q)) < BatchSize)
<1> DEFINE Before(x) == {s \in Rest(q) : s < x}
           Left == Rest(q) \ Page(q)
<1>1. /\ Rest(q) \in SUBSET Nat /\ IsFiniteSet(Rest(q))
      /\ Page(q) \in SUBSET Rest(q) /\ IsFiniteSet(Page(q)) /\ Page(q) \in SUBSET Nat
      /\ BatchSize \in Nat \ {0}
  <2>1. Rest(q) \in SUBSET Record /\ Page(q) \in SUBSET Rest(q)
    BY DEF Rest, Page, TypeOK
  <2>2. QED
    BY <2>1, FS_Subset, ExpressionsAssumption
<1>2. \A x \in Rest(q) : /\ Before(x) \in SUBSET Rest(q)
                         /\ IsFiniteSet(Before(x)) /\ Cardinality(Before(x)) \in Nat
                         /\ x \in Page(q) <=> Cardinality(Before(x)) < BatchSize
  BY <1>1, FS_Subset, FS_CardinalityType DEF Page
<1>3. PICK m \in Left : \A y \in Left : m <= y
  <2>1. Left \in SUBSET Nat /\ Left # {}
    BY <1>1
  <2>2. QED
    BY <2>1, LeastExists
<1>4. Before(m) \in SUBSET Page(q)
  BY <1>1, <1>3
<1>5. /\ Cardinality(Before(m)) <= Cardinality(Page(q)) /\ Cardinality(Page(q)) \in Nat
      /\ ~ (Cardinality(Before(m)) < BatchSize) /\ Cardinality(Before(m)) \in Nat
  <2> HIDE DEF Before
  <2>1. QED
    BY <1>1, <1>2, <1>3, <1>4, FS_Subset, FS_CardinalityType
<1>6. ~ (Cardinality(Page(q)) < BatchSize)
  BY <1>1, <1>5
<1>7. Page(q) # {}
  BY <1>1, <1>6, FS_EmptySet
<1>8. Greatest(Page(q)) \in Page(q)
  BY <1>1, <1>7, GreatestExists DEF Greatest
<1>9. ASSUME NEW g \in Page(q), r < g
      PROVE  FALSE
  <2>1. Before(r) \in SUBSET Before(g)
    BY <1>1, <1>9
  <2>2. Cardinality(Before(r)) <= Cardinality(Before(g))
    <3> HIDE DEF Before
    <3>1. QED
      BY <1>1, <1>2, <1>9, <2>1, FS_Subset
  <2>3. QED
    <3> HIDE DEF Before
    <3>1. QED
      BY <1>1, <1>2, <1>9, <2>2
<1>10. QED
  BY <1>1, <1>6, <1>7, <1>8, <1>9

(***************************************************************************)
(* Values, changes, and what a change does to a cell and its history.      *)
(***************************************************************************)
LEMMA EvaluateIsResult ==
  ASSUME NEW d \in Expr \cup {NoExpr}, NEW cells \in Cells
  PROVE  Evaluate(d, cells) \in Results
<1>1. CASE d = NoExpr \/ \E s \in DependsOn[d] : cells[s] = Empty
  BY <1>1 DEF Evaluate, Results
<1>2. CASE ~ (d = NoExpr \/ \E s \in DependsOn[d] : cells[s] = Empty)
  <2>1. d \in Expr /\ DependsOn[d] \subseteq Source
    BY <1>2, ExpressionsAssumption
  <2>2. [s \in DependsOn[d] |-> cells[s]] \in [DependsOn[d] -> Value]
    BY <1>2, <2>1 DEF Cells
  <2>3. Evaluate(d, cells) \in [expr : {d}, inputs : [DependsOn[d] -> Value]]
    BY <1>2, <2>2 DEF Evaluate
  <2>4. QED
    BY <2>1, <2>3 DEF Results
<1>3. QED
  BY <1>1, <1>2

LEMMA ChangeIsEntry ==
  ASSUME NEW old \in Results, NEW new \in Results
  PROVE  Change(old, new) \in SUBSET Entry
BY DEF Change, Entry

LEMMA ChangeResults ==
  ASSUME NEW old, NEW new
  PROVE  Result(Change(old, new), old) = new
<1>1. CASE old = Empty /\ new = Empty
  BY <1>1 DEF Change, Result
<1>2. CASE ~ (old = Empty /\ new = Empty)
  <2>1. Change(old, new) = {[old |-> old, new |-> new]}
    BY <1>2 DEF Change
  <2>2. (CHOOSE e \in {[old |-> old, new |-> new]} : TRUE) = [old |-> old, new |-> new]
    OBVIOUS
  <2>3. QED
    BY <2>1, <2>2 DEF Result
<1>3. QED
  BY <1>1, <1>2

LEMMA NoChangeResults == \A old, h : Result({}, old) = old /\ Logged(h, {}) = h
BY DEF Result, Logged

LEMMA ChangeTypes ==
  ASSUME NEW out \in SUBSET Entry, NEW old \in Results, NEW h \in Seq(Entry)
  PROVE  Result(out, old) \in Results /\ Logged(h, out) \in Seq(Entry)
<1>1. out # {} => (CHOOSE e \in out : TRUE) \in Entry
  OBVIOUS
<1>2. out # {} => (CHOOSE e \in out : TRUE).new \in Results
  BY <1>1 DEF Entry
<1>3. out # {} => Append(h, CHOOSE e \in out : TRUE) \in Seq(Entry)
  BY <1>1
<1>4. QED
  BY <1>2, <1>3 DEF Result, Logged

(***************************************************************************)
(* Type correctness.                                                       *)
(***************************************************************************)
LEMMA NoTxTypes == NoTx \in Tx /\ NoCells \in Cells
BY DEF NoTx, Tx, NoCells, Cells

LEMMA NoFillTypes == NoFill \in Fill
BY DEF NoFill, Fill

(* Whoever writes has a record to write. *)
Named == \A p \in Writer : tx[p] = NoTx \/ tx[p].row \in Record

Typed == TypeOK /\ Named

LEMMA InitTyped == Init => Typed
<1>1. Init => TypeOK
  BY NoTxTypes, NoFillTypes DEF Init, TypeOK, Results
<1>2. Init => Named
  BY DEF Init, Named, NoTx
<1>3. QED
  BY <1>1, <1>2 DEF Typed

LEMMA RequestTyped ==
  ASSUME Typed, NEW p \in Writer, Request(p)
  PROVE  Typed'
<1>1. begun' = begun + 1 /\ UNCHANGED <<live, src, def, mat, hist, fill, skipped>>
  BY DEF Request, BeginUpsert, BeginBatch, BeginCreate, Begin
<1> DEFINE Asked == \E t \in Tx : /\ tx' = [tx EXCEPT ![p] = t] /\ t.row \in Record
                                 /\ born' \in SUBSET Record
<1>2. Asked
  <2>1. ASSUME NEW r \in Record, NEW s \in Source, NEW v \in Value \cup {Empty},
               BeginUpsert(p, r, s, v)
        PROVE  Asked
    <3> DEFINE t == [NoTx EXCEPT !.phase = "lock", !.kind = "upsert", !.row = r,
                                 !.set = {s}, !.cells[s] = v]
    <3>1. t \in Tx /\ t.row = r
      <4>1. "upsert" \in Kinds
        BY <2>1 DEF BeginUpsert, Begin
      <4>2. [NoCells EXCEPT ![s] = v] \in Cells
        BY DEF NoCells, Cells
      <4>3. QED
        BY <4>1, <4>2 DEF NoTx, Tx
    <3>2. tx' = [tx EXCEPT ![p] = t] /\ born' = born
      BY <2>1 DEF BeginUpsert
    <3> HIDE DEF t
    <3>3. QED
      BY <3>1, <3>2 DEF Typed, TypeOK
  <2>2. ASSUME NEW r \in Record, NEW S \in SUBSET Source, NEW cells \in Cells,
               BeginBatch(p, r, S, cells)
        PROVE  Asked
    <3> DEFINE t == [NoTx EXCEPT !.phase = "lock", !.kind = "batch", !.row = r,
                                 !.set = S, !.cells = cells]
    <3>1. t \in Tx /\ t.row = r
      BY <2>2 DEF BeginBatch, Begin, NoTx, Tx
    <3>2. tx' = [tx EXCEPT ![p] = t] /\ born' = born
      BY <2>2 DEF BeginBatch
    <3> HIDE DEF t
    <3>3. QED
      BY <3>1, <3>2 DEF Typed, TypeOK
  <2>3. ASSUME NEW r \in Record, NEW cells \in Cells, BeginCreate(p, r, cells)
        PROVE  Asked
    <3> DEFINE t == [NoTx EXCEPT !.phase = "materialize", !.kind = "create",
                                 !.row = r, !.set = Source, !.cells = cells]
    <3>1. t \in Tx /\ t.row = r
      BY <2>3 DEF BeginCreate, Begin, NoTx, Tx
    <3>2. tx' = [tx EXCEPT ![p] = t] /\ born' = born \cup {r}
      BY <2>3 DEF BeginCreate
    <3> HIDE DEF t
    <3>3. QED
      BY <3>1, <3>2 DEF Typed, TypeOK
  <2>4. QED
    BY <2>1, <2>2, <2>3 DEF Request
<1>3. QED
  BY <1>1, <1>2 DEF Typed, TypeOK, Named

LEMMA WriteTyped ==
  ASSUME Typed, NEW p \in Writer, Write(p) \/ FailWrite(p)
  PROVE  Typed'
<1>1. tx[p] \in Tx /\ NoTx \in Tx /\ NoTx.phase = "idle" /\ TypeOK
  BY NoTxTypes DEF Typed, TypeOK, NoTx
<1>2. CASE LockRecord(p) /\ tx[p].row \notin live
  BY <1>1, <1>2 DEF LockRecord, EndTx, rows, Typed, TypeOK, Named
<1>3. CASE LockRecord(p) /\ tx[p].row \in live
  <2> DEFINE cells == [s \in Source |-> IF s \in tx[p].set THEN tx[p].cells[s]
                                        ELSE src[tx[p].row][s]]
             t == [tx[p] EXCEPT !.phase = "materialize", !.cells = cells]
  <2>1. tx[p].row \in Record /\ src[tx[p].row] \in Cells /\ tx[p].cells \in Cells
    BY <1>1, <1>3 DEF Tx, TypeOK
  <2>2. cells \in Cells
    BY <2>1 DEF Cells
  <2>3. tx' = [tx EXCEPT ![p] = t] /\ UNCHANGED <<rows, fill, begun, skipped>>
    BY <1>1, <1>3 DEF LockRecord, TypeOK
  <2> HIDE DEF cells
  <2>4. t \in Tx /\ t.row = tx[p].row
    BY <1>1, <2>2 DEF Tx
  <2> HIDE DEF t
  <2>5. QED
    BY <1>1, <2>1, <2>3, <2>4 DEF rows, Typed, TypeOK, Named
<1>4. CASE Materialize(p)
  <2> DEFINE out == IF Recomputes(p, def)
                      THEN Change(mat[tx[p].row], Evaluate(def, tx[p].cells)) ELSE {}
             t == [tx[p] EXCEPT !.phase = "commit", !.def = def, !.out = out]
  <2>1. tx[p].row \in Record
    BY <1>4 DEF Materialize, Typed, Named, NoTx
  <2>2. out \in SUBSET Entry
    BY <1>1, <2>1, EvaluateIsResult, ChangeIsEntry DEF TypeOK, Tx
  <2>3. tx' = [tx EXCEPT ![p] = t] /\ UNCHANGED <<rows, fill, begun, skipped>>
    BY <1>1, <1>4 DEF Materialize, TypeOK
  <2> HIDE DEF out
  <2>4. t \in Tx /\ t.row = tx[p].row
    BY <1>1, <2>2 DEF Tx, TypeOK
  <2> HIDE DEF t
  <2>5. QED
    BY <1>1, <2>1, <2>3, <2>4 DEF rows, Typed, TypeOK, Named
<1>5. CASE CommitWrite(p)
  <2>1. tx[p].row \in Record /\ tx[p].out \in SUBSET Entry /\ tx[p].cells \in Cells
    BY <1>1, <1>5 DEF CommitWrite, Typed, Named, Tx, NoTx
  <2>2. Result(tx[p].out, mat[tx[p].row]) \in Results
        /\ Logged(hist[tx[p].row], tx[p].out) \in Seq(Entry)
    BY <1>1, <2>1, ChangeTypes DEF TypeOK
  <2>3. QED
    BY <1>1, <1>5, <2>1, <2>2 DEF CommitWrite, EndTx, Typed, TypeOK, Named
<1>6. CASE FailWrite(p)
  BY <1>1, <1>6 DEF FailWrite, EndTx, rows, Typed, TypeOK, Named
<1>7. QED
  BY <1>2, <1>3, <1>4, <1>5, <1>6 DEF Write

LEMMA DeleteTyped ==
  ASSUME Typed, NEW r \in Record, DeleteRecord(r)
  PROVE  Typed'
BY NoTxTypes DEF DeleteRecord, Typed, TypeOK, Named, Results

(* FillRow, as one record put in the place of another.                     *)
LEMMA FillRowStep ==
  ASSUME TypeOK, NEW q \in Definer, FillRow(q)
  PROVE  LET l == Least(fill[q].page)
             o == IF l \in live THEN Change(mat[l], Evaluate(fill[q].expr, src[l]))
                  ELSE fill[q].out[l]
             f == [fill[q] EXCEPT !.page = @ \ {l}, !.locked = @ \cup ({l} \cap live),
                                  !.out[l] = o]
         IN  /\ fill' = [fill EXCEPT ![q] = f] /\ fill'[q] = f
             /\ Free(l) /\ fill[q].phase = "fill" /\ UNCHANGED <<rows, tx, begun, skipped>>
<1> DEFINE l == Least(fill[q].page)
           o == IF l \in live THEN Change(mat[l], Evaluate(fill[q].expr, src[l]))
                ELSE fill[q].out[l]
           f == [fill[q] EXCEPT !.page = @ \ {l}, !.locked = @ \cup ({l} \cap live),
                                !.out[l] = o]
<1>1. Free(l) /\ fill[q].phase = "fill" /\ UNCHANGED <<rows, tx, begun, skipped>>
  BY DEF FillRow
<1>2. fill' = [fill EXCEPT ![q] = f]
  <2>1. fill \in [Definer -> Fill]
    BY DEF TypeOK
  <2> HIDE DEF TypeOK
  <2>2. QED
    BY <2>1 DEF FillRow
<1>3. fill'[q] = f
  <2> HIDE DEF f
  <2>1. QED
    BY <1>2 DEF TypeOK
<1>4. QED
  BY <1>1, <1>2, <1>3

LEMMA FillTyped ==
  ASSUME Typed, NEW q \in Definer,
         ReadPage(q) \/ FillRow(q) \/ AbandonFill(q) \/ \E d \in Expr : Define(q, d)
  PROVE  Typed'
<1>1. /\ fill[q] \in Fill /\ NoFill \in Fill /\ TypeOK
      /\ Page(q) \in SUBSET Record /\ IsFiniteSet(Page(q)) /\ Page(q) \in SUBSET Nat
  <2>1. Page(q) \in SUBSET Record
    BY DEF Typed, TypeOK, Page, Rest
  <2>2. QED
    BY <2>1, NoFillTypes, FS_Subset, ExpressionsAssumption DEF Typed, TypeOK
<1>2. CASE ReadPage(q)
  <2>1. Page(q) # {} => Greatest(Page(q)) \in Record
    BY <1>1, GreatestExists DEF Greatest
  <2> DEFINE short == Cardinality(Page(q)) < BatchSize
             f == [fill[q] EXCEPT !.phase = "fill", !.page = Page(q),
                      !.upto = Greatest(Page(q)), !.exhausted = short]
  <2>2. short \in BOOLEAN
    OBVIOUS
  <2>3. Page(q) # {} => f \in Fill
    <3> HIDE DEF short
    <3>1. QED
      BY <1>1, <2>1, <2>2 DEF Fill
  <2>4. fill' = [fill EXCEPT ![q] = IF Page(q) = {} THEN NoFill ELSE f]
    BY <1>1, <1>2 DEF ReadPage, TypeOK
  <2> HIDE DEF f
  <2>5. fill' \in [Definer -> Fill]
    BY <1>1, <2>3, <2>4 DEF TypeOK
  <2>6. QED
    BY <1>1, <1>2, <2>5 DEF ReadPage, rows, Typed, TypeOK, Named
<1>3. CASE FillRow(q)
  <2> DEFINE l == Least(fill[q].page)
             o == IF l \in live THEN Change(mat[l], Evaluate(fill[q].expr, src[l]))
                  ELSE fill[q].out[l]
             f == [fill[q] EXCEPT !.page = @ \ {l}, !.locked = @ \cup ({l} \cap live),
                                  !.out[l] = o]
  <2>1. fill' = [fill EXCEPT ![q] = f] /\ UNCHANGED <<rows, tx, begun, skipped>>
    BY <1>1, <1>3, FillRowStep
  <2>2. l \in Record => o \in SUBSET Entry
    <3>1. l \in live => Change(mat[l], Evaluate(fill[q].expr, src[l])) \in SUBSET Entry
      BY <1>1, EvaluateIsResult, ChangeIsEntry DEF TypeOK, Fill
    <3>2. l \in Record => fill[q].out[l] \in SUBSET Entry
      BY <1>1 DEF Fill
    <3>3. QED
      BY <3>1, <3>2
  <2> HIDE DEF l, o
  <2>3. f \in Fill
    BY <1>1, <2>2 DEF Fill, TypeOK
  <2> HIDE DEF f
  <2>4. QED
    BY <1>1, <2>1, <2>3 DEF rows, Typed, TypeOK, Named
<1>4. CASE AbandonFill(q)
  BY <1>1, <1>4 DEF AbandonFill, rows, Typed, TypeOK, Named
<1>5. CASE \E d \in Expr : Define(q, d)
  <2>1. PICK d \in Expr : Define(q, d)
    BY <1>5
  <2> DEFINE f == [NoFill EXCEPT !.phase = "page", !.expr = d]
  <2>2. f \in Fill /\ fill' = [fill EXCEPT ![q] = f]
    BY <1>1, <2>1 DEF Define, NoFill, Fill
  <2>3. skipped' \in SUBSET Record
    <3>1. ASSUME NEW w \in Writer, tx[w].kind = "create"
          PROVE  tx[w].row \in Record
      BY <3>1 DEF Typed, Named, NoTx
    <3>2. QED
      BY <2>1, <3>1 DEF Define
  <2> HIDE DEF f
  <2>4. begun' = begun + 1 /\ def' = d /\ UNCHANGED <<live, born, src, mat, hist, tx>>
    BY <2>1 DEF Define
  <2>5. fill' \in [Definer -> Fill]
    BY <1>1, <2>2 DEF TypeOK
  <2>6. QED
    BY <1>1, <2>3, <2>4, <2>5 DEF Typed, TypeOK, Named
<1>6. QED
  BY <1>2, <1>3, <1>4, <1>5

LEMMA BatchTyped ==
  ASSUME Typed, NEW q \in Definer, CommitBatch(q)
  PROVE  Typed'
<1>1. \A r \in Record : fill[q].out[r] \in SUBSET Entry
  BY DEF Typed, TypeOK, Fill
<1>2. \A r \in Record : /\ Result(fill[q].out[r], mat[r]) \in Results
                        /\ Logged(hist[r], fill[q].out[r]) \in Seq(Entry)
  BY <1>1, ChangeTypes DEF Typed, TypeOK
<1>3. NextPage(fill[q]) \in Fill
  BY NoFillTypes DEF NextPage, NoFill, Fill, Typed, TypeOK
<1>4. QED
  BY <1>2, <1>3 DEF CommitBatch, Typed, TypeOK, Named

LEMMA StaysTyped == Typed /\ [Next]_vars => Typed'
<1> SUFFICES ASSUME Typed, [Next]_vars PROVE Typed'
  OBVIOUS
<1>1. CASE UNCHANGED vars
  BY <1>1 DEF vars, rows, Typed, TypeOK, Named
<1>2. QED
  BY <1>1, RequestTyped, WriteTyped, DeleteTyped, FillTyped, BatchTyped DEF Next, Backfill

(* Every state of Expressions is type-correct. *)
THEOREM TypeCorrect == Spec => []TypeOK
<1>1. Typed => TypeOK
  BY DEF Typed
<1>2. QED
  BY <1>1, InitTyped, StaysTyped, PTL DEF Spec

(***************************************************************************)
(* What the record locks protect.  Whoever has a record's row has it       *)
(* alone, writer or backfill, and what it read under the lock is what is   *)
(* stored until it commits.                                                *)
(***************************************************************************)
Alone(p) ==
  /\ tx[p].row \in born
  /\ tx[p].kind = "create" <=> tx[p].row \notin live
  /\ \A o \in Writer : HasRow(o) /\ tx[o].row = tx[p].row => o = p
  /\ \A q \in Definer : tx[p].row \notin fill[q].locked

(* An upsert leaves the cells it does not set; a new record has none yet.   *)
CellsKept(p) ==
  /\ tx[p].kind = "upsert" => \A s \in Source \ tx[p].set : tx[p].cells[s] = src[tx[p].row][s]
  /\ tx[p].kind = "create" => mat[tx[p].row] = Empty /\ hist[tx[p].row] = <<>>

OutExact(p) ==
  tx[p].out = IF Recomputes(p, tx[p].def)
                THEN Change(mat[tx[p].row], Evaluate(tx[p].def, tx[p].cells))
                ELSE {}

WriteSound(p) ==
  /\ tx[p].phase = "lock" => tx[p].kind # "create"
  /\ HasRow(p) => Alone(p) /\ CellsKept(p)
  /\ tx[p].phase = "commit" => OutExact(p)

FillSound(q) ==
  /\ fill[q].locked \subseteq live
  /\ \A r \in fill[q].locked, o \in Definer : r \in fill[o].locked => o = q
  /\ \A r \in Record : fill[q].out[r] = IF r \in fill[q].locked
                                          THEN Change(mat[r], Evaluate(fill[q].expr, src[r]))
                                          ELSE {}

Locked ==
  /\ Typed
  /\ live \subseteq born
  /\ \A p \in Writer : WriteSound(p)
  /\ \A q \in Definer : FillSound(q)

Replays(h, m) ==
  /\ \A i \in 1..Len(h) : h[i].old = IF i = 1 THEN Empty ELSE h[i - 1].new
  /\ m = IF h = <<>> THEN Empty ELSE h[Len(h)].new

Replayed ==
  /\ \A r \in live : Replays(hist[r], mat[r])
  /\ \A r \in Record \ born : mat[r] = Empty /\ hist[r] = <<>>

LEMMA LoggedReplays ==
  ASSUME NEW h \in Seq(Entry), NEW m, NEW n, Replays(h, m)
  PROVE  Replays(Logged(h, Change(m, n)), n)
<1>1. CASE m = Empty /\ n = Empty
  BY <1>1 DEF Change, Logged
<1>2. CASE ~ (m = Empty /\ n = Empty)
  <2> DEFINE e == [old |-> m, new |-> n]
  <2>1. (CHOOSE x \in {e} : TRUE) = e
    OBVIOUS
  <2>2. Logged(h, Change(m, n)) = Append(h, e)
    BY <1>2, <2>1 DEF Change, Logged
  <2>3. /\ Len(Append(h, e)) = Len(h) + 1 /\ Len(h) \in Nat
        /\ \A i \in 1..Len(h) : Append(h, e)[i] = h[i]
        /\ Append(h, e)[Len(h) + 1] = e
        /\ Append(h, e) # <<>>
        /\ h = <<>> <=> Len(h) = 0
    OBVIOUS
  <2>4. e.old = m /\ e.new = n
    OBVIOUS
  <2> HIDE DEF e
  <2> DEFINE g == Append(h, e)
  <2>5. ASSUME NEW i \in 1..Len(g)
        PROVE  g[i].old = IF i = 1 THEN Empty ELSE g[i - 1].new
    <3>1. CASE i = Len(h) + 1
      BY <2>3, <2>4, <3>1 DEF Replays
    <3>2. CASE i \in 1..Len(h)
      <4>1. i # 1 => i - 1 \in 1..Len(h)
        BY <2>3, <3>2
      <4>2. QED
        BY <2>3, <3>2, <4>1 DEF Replays
    <3>3. QED
      BY <2>3, <3>1, <3>2
  <2>6. QED
    BY <2>2, <2>3, <2>4, <2>5 DEF Replays
<1>3. QED
  BY <1>1, <1>2

LEMMA InitLocked == Init => Locked /\ Replayed
<1> SUFFICES ASSUME Init PROVE Locked /\ Replayed
  OBVIOUS
<1>1. \A p \in Writer : WriteSound(p)
  BY DEF Init, WriteSound, HasRow, NoTx
<1>2. \A q \in Definer : FillSound(q)
  BY DEF Init, FillSound, NoFill
<1>3. QED
  BY <1>1, <1>2, InitTyped DEF Init, Locked, Replayed, Replays

(* A step of one writer that stores nothing. *)
LEMMA WriterKeeps ==
  ASSUME Locked, Replayed, NEW p \in Writer, NEW t, tx' = [tx EXCEPT ![p] = t], Typed',
         UNCHANGED <<live, src, def, mat, hist, fill>>, born \subseteq born', WriteSound(p)'
  PROVE  Locked' /\ Replayed'
<1>1. ASSUME NEW o \in Writer, o # p
      PROVE  WriteSound(o)'
  <2>1. WriteSound(o) /\ tx'[o] = tx[o]
    BY <1>1 DEF Locked, Typed, TypeOK
  <2>2. ASSUME HasRow(o)
        PROVE  Alone(o)'
    BY <1>1, <2>1, <2>2 DEF WriteSound, Alone, HasRow
  <2>3. QED
    BY <2>1, <2>2 DEF WriteSound, HasRow, CellsKept, OutExact, Recomputes
<1>2. \A q \in Definer : FillSound(q)'
  BY DEF Locked, FillSound
<1>3. QED
  BY <1>1, <1>2 DEF Locked, Replayed, Typed, TypeOK

(* A step of one backfill that stores nothing. *)
LEMMA FillKeeps ==
  ASSUME Locked, Replayed, NEW q \in Definer, NEW f, fill' = [fill EXCEPT ![q] = f], Typed',
         UNCHANGED <<live, born, src, mat, hist, tx>>, FillSound(q)',
         \A p \in Writer : HasRow(p) => tx[p].row \notin f.locked \ fill[q].locked
  PROVE  Locked' /\ Replayed'
<1>1. fill'[q] = f /\ \A o \in Definer : o # q => fill'[o] = fill[o]
  BY DEF Locked, Typed, TypeOK
<1>2. ASSUME NEW o \in Writer
      PROVE  WriteSound(o)'
  <2>1. WriteSound(o)
    BY DEF Locked
  <2>2. ASSUME HasRow(o)
        PROVE  Alone(o)'
    BY <1>1, <2>1, <2>2 DEF WriteSound, Alone, HasRow
  <2>3. QED
    BY <2>1, <2>2 DEF WriteSound, HasRow, CellsKept, OutExact, Recomputes
<1>3. ASSUME NEW o \in Definer, o # q
      PROVE  FillSound(o)'
  <2>1. FillSound(o)
    BY DEF Locked
  <2>2. QED
    BY <1>1, <1>3, <2>1 DEF FillSound
<1>4. QED
  BY <1>2, <1>3 DEF Locked, Replayed

LEMMA RequestLocked ==
  ASSUME Locked, Replayed, NEW p \in Writer, Request(p), Typed'
  PROVE  Locked' /\ Replayed'
<1>1. ASSUME NEW r \in Record, NEW s \in Source, NEW v \in Value \cup {Empty},
             BeginUpsert(p, r, s, v)
      PROVE  Locked' /\ Replayed'
  <2> DEFINE t == [NoTx EXCEPT !.phase = "lock", !.kind = "upsert", !.row = r,
                               !.set = {s}, !.cells[s] = v]
  <2>1. /\ tx' = [tx EXCEPT ![p] = t] /\ t.phase = "lock" /\ t.kind = "upsert"
        /\ UNCHANGED <<live, src, def, mat, hist, fill>> /\ born \subseteq born'
    BY <1>1 DEF BeginUpsert, Begin, NoTx
  <2> HIDE DEF t
  <2>2. WriteSound(p)'
    BY <2>1 DEF WriteSound, HasRow, Locked, Typed, TypeOK
  <2>3. QED
    BY <2>1, <2>2, WriterKeeps
<1>2. ASSUME NEW r \in Record, NEW S \in SUBSET Source, NEW cells \in Cells,
             BeginBatch(p, r, S, cells)
      PROVE  Locked' /\ Replayed'
  <2> DEFINE t == [NoTx EXCEPT !.phase = "lock", !.kind = "batch", !.row = r,
                               !.set = S, !.cells = cells]
  <2>1. /\ tx' = [tx EXCEPT ![p] = t] /\ t.phase = "lock" /\ t.kind = "batch"
        /\ UNCHANGED <<live, src, def, mat, hist, fill>> /\ born \subseteq born'
    BY <1>2 DEF BeginBatch, Begin, NoTx
  <2> HIDE DEF t
  <2>2. WriteSound(p)'
    BY <2>1 DEF WriteSound, HasRow, Locked, Typed, TypeOK
  <2>3. QED
    BY <2>1, <2>2, WriterKeeps
<1>3. ASSUME NEW r \in Record, NEW cells \in Cells, BeginCreate(p, r, cells)
      PROVE  Locked' /\ Replayed'
  <2> DEFINE t == [NoTx EXCEPT !.phase = "materialize", !.kind = "create",
                               !.row = r, !.set = Source, !.cells = cells]
  <2>1. /\ tx' = [tx EXCEPT ![p] = t] /\ t.phase = "materialize" /\ t.kind = "create"
        /\ t.row = r /\ r \notin born /\ born' = born \cup {r}
        /\ UNCHANGED <<live, src, def, mat, hist, fill>>
    BY <1>3 DEF BeginCreate, Begin, NoTx
  <2> HIDE DEF t
  <2>2. tx'[p] = t /\ \A o \in Writer : o # p => tx'[o] = tx[o]
    BY <2>1 DEF Locked, Typed, TypeOK
  <2>3. \A o \in Writer : HasRow(o) => tx[o].row # r
    BY <2>1 DEF Locked, WriteSound, Alone
  <2>4. \A q \in Definer : r \notin fill[q].locked
    BY <2>1 DEF Locked, FillSound
  <2>5. Alone(p)'
    BY <2>1, <2>2, <2>3, <2>4 DEF Alone, HasRow, Locked
  <2>6. CellsKept(p)'
    BY <2>1, <2>2 DEF CellsKept, Replayed
  <2>7. WriteSound(p)'
    BY <2>1, <2>2, <2>5, <2>6 DEF WriteSound
  <2>8. Replayed' /\ Locked'
    BY <2>1, <2>7, WriterKeeps
  <2>9. QED
    BY <2>8
<1>4. QED
  BY <1>1, <1>2, <1>3 DEF Request

LEMMA WriteLocked ==
  ASSUME Locked, Replayed, NEW p \in Writer, Typed',
         LockRecord(p) \/ Materialize(p) \/ FailWrite(p)
  PROVE  Locked' /\ Replayed'
<1>1. WriteSound(p) /\ NoTx.phase = "idle"
  BY DEF Locked, NoTx
<1>2. ASSUME NEW t, tx' = [tx EXCEPT ![p] = t]
      PROVE  tx'[p] = t /\ \A o \in Writer : o # p => tx'[o] = tx[o]
  BY <1>2 DEF Locked, Typed, TypeOK
<1>3. CASE EndTx(p) /\ UNCHANGED <<rows, fill>>
  <2>1. tx'[p] = NoTx
    BY <1>2, <1>3 DEF EndTx
  <2>2. WriteSound(p)'
    BY <1>1, <2>1 DEF WriteSound, HasRow
  <2>3. QED
    BY <1>3, <2>2, WriterKeeps DEF EndTx, rows
<1>4. CASE LockRecord(p) /\ tx[p].row \in live
  <2> DEFINE cells == [s \in Source |-> IF s \in tx[p].set THEN tx[p].cells[s]
                                        ELSE src[tx[p].row][s]]
             t == [tx[p] EXCEPT !.phase = "materialize", !.cells = cells]
  <2>1. tx' = [tx EXCEPT ![p] = t] /\ Free(tx[p].row) /\ tx[p].phase = "lock"
        /\ UNCHANGED <<rows, fill, begun, skipped>>
    BY <1>4 DEF LockRecord, Locked, Typed, TypeOK
  <2>2. /\ t.phase = "materialize" /\ t.row = tx[p].row /\ t.kind = tx[p].kind
        /\ t.kind # "create" /\ t.set = tx[p].set /\ t.cells = cells
    <3>1. tx[p] \in Tx /\ tx[p].kind # "create"
      BY <1>1, <2>1 DEF WriteSound, Locked, Typed, TypeOK
    <3> HIDE DEF cells
    <3>2. QED
      BY <3>1 DEF Tx
  <2>3. \A s \in Source \ tx[p].set : t.cells[s] = src[tx[p].row][s]
    BY <2>2
  <2> HIDE DEF t, cells
  <2>4. Alone(p)'
    BY <1>2, <1>4, <2>1, <2>2 DEF Alone, Free, HasRow, rows, Locked
  <2>5. CellsKept(p)'
    <3>1. tx'[p] = t /\ src' = src
      BY <1>2, <2>1 DEF rows
    <3>2. \A s \in Source \ t.set : t.cells[s] = src[t.row][s]
      BY <2>2, <2>3
    <3>3. QED
      BY <2>2, <3>1, <3>2 DEF CellsKept
  <2>6. WriteSound(p)'
    BY <1>2, <2>1, <2>2, <2>4, <2>5 DEF WriteSound
  <2>7. QED
    BY <2>1, <2>6, WriterKeeps DEF rows
<1>5. CASE Materialize(p)
  <2> DEFINE out == IF Recomputes(p, def)
                      THEN Change(mat[tx[p].row], Evaluate(def, tx[p].cells)) ELSE {}
             t == [tx[p] EXCEPT !.phase = "commit", !.def = def, !.out = out]
  <2>1. tx' = [tx EXCEPT ![p] = t] /\ HasRow(p) /\ UNCHANGED <<rows, fill, begun, skipped>>
    BY <1>5 DEF Materialize, HasRow, Locked, Typed, TypeOK
  <2>2. /\ t.phase = "commit" /\ t.row = tx[p].row /\ t.kind = tx[p].kind /\ t.set = tx[p].set
        /\ t.cells = tx[p].cells /\ t.def = def /\ t.out = out
    BY DEF Locked, Typed, TypeOK, Tx
  <2> HIDE DEF t
  <2>3. Alone(p)'
    BY <1>1, <1>2, <2>1, <2>2 DEF WriteSound, Alone, HasRow, rows
  <2>4. CellsKept(p)'
    BY <1>1, <1>2, <2>1, <2>2 DEF WriteSound, CellsKept, rows
  <2>5. OutExact(p)'
    <3>1. tx'[p] = t /\ mat' = mat
      BY <1>2, <2>1 DEF rows
    <3>2. Recomputes(p, def) <=> def # NoExpr /\ (t.kind = "upsert"
                                                  => t.set \cap DependsOn[def] # {})
      BY <2>2 DEF Recomputes
    <3> HIDE DEF t
    <3>3. t.out = IF def # NoExpr /\ (t.kind = "upsert" => t.set \cap DependsOn[def] # {})
                    THEN Change(mat[t.row], Evaluate(def, t.cells)) ELSE {}
      BY <2>2, <3>2
    <3>4. QED
      BY <2>2, <3>1, <3>3 DEF OutExact, Recomputes
  <2>6. WriteSound(p)'
    BY <1>2, <2>1, <2>2, <2>3, <2>4, <2>5 DEF WriteSound
  <2>7. QED
    BY <2>1, <2>6, WriterKeeps DEF rows
<1>6. QED
  BY <1>3, <1>4, <1>5 DEF LockRecord, FailWrite

(* A commit of rows that somebody has alone disturbs nobody else.          *)
LEMMA OthersKept ==
  ASSUME Locked, NEW o \in Writer, NEW R \in SUBSET Record,
         HasRow(o) => tx[o].row \notin R, tx'[o] = tx[o],
         \A r \in Record \ R : /\ mat'[r] = mat[r] /\ src'[r] = src[r] /\ hist'[r] = hist[r]
                               /\ r \in live' <=> r \in live
         , born \subseteq born',
         \A p \in Writer : HasRow(p)' => HasRow(p) /\ tx'[p] = tx[p],
         \A q \in Definer : fill'[q].locked \subseteq fill[q].locked
  PROVE  WriteSound(o)'
<1>1. WriteSound(o) /\ Typed
  BY DEF Locked
<1>2. HasRow(o) => tx[o].row \in Record \ R
  BY <1>1 DEF HasRow, Typed, Named, NoTx
<1>3. ASSUME HasRow(o)
      PROVE  Alone(o)' /\ CellsKept(o)'
  <2>1. Alone(o)'
    BY <1>1, <1>2, <1>3 DEF WriteSound, Alone, HasRow
  <2>2. CellsKept(o)'
    BY <1>1, <1>2, <1>3 DEF WriteSound, CellsKept
  <2>3. QED
    BY <2>1, <2>2
<1>4. ASSUME tx[o].phase = "commit"
      PROVE  OutExact(o)'
  BY <1>1, <1>2, <1>4 DEF WriteSound, OutExact, Recomputes, HasRow
<1>5. QED
  BY <1>1, <1>3, <1>4 DEF WriteSound, HasRow

LEMMA FillsKept ==
  ASSUME Locked, NEW q \in Definer, NEW R \in SUBSET Record,
         fill[q].locked \cap R = {}, fill'[q] = fill[q],
         \A r \in Record \ R : /\ mat'[r] = mat[r] /\ src'[r] = src[r]
                               /\ r \in live' <=> r \in live
         , \A o \in Definer : fill'[o].locked \subseteq fill[o].locked
  PROVE  FillSound(q)'
<1>1. FillSound(q) /\ fill[q].locked \subseteq Record
  BY DEF Locked, Typed, TypeOK, Fill
<1>2. \A r \in fill[q].locked : r \in Record \ R
  BY <1>1
<1>3. QED
  BY <1>1, <1>2 DEF FillSound

LEMMA CommitLocked ==
  ASSUME Locked, Replayed, NEW p \in Writer, CommitWrite(p), Typed'
  PROVE  Locked' /\ Replayed'
<1> DEFINE r == tx[p].row
<1>1. /\ Typed /\ WriteSound(p) /\ r \in Record /\ HasRow(p) /\ tx[p].phase = "commit"
      /\ NoTx.phase = "idle" /\ live \subseteq born
  <2>1. tx[p] # NoTx
    BY DEF CommitWrite, NoTx
  <2>2. NoTx.phase = "idle"
    BY DEF NoTx
  <2>3. QED
    BY <2>1, <2>2 DEF Locked, CommitWrite, HasRow, Typed, Named
<1>2. /\ live' = live \cup {r} /\ r \in born
      /\ \A x \in Record \ {r} : mat'[x] = mat[x] /\ src'[x] = src[x] /\ hist'[x] = hist[x]
      /\ mat'[r] = Result(tx[p].out, mat[r]) /\ hist'[r] = Logged(hist[r], tx[p].out)
      /\ tx'[p] = NoTx /\ \A o \in Writer : o # p => tx'[o] = tx[o]
      /\ UNCHANGED <<born, def, fill>>
  BY <1>1 DEF CommitWrite, EndTx, Typed, TypeOK, WriteSound, Alone
<1>3. \A o \in Writer : HasRow(o)' => HasRow(o) /\ tx'[o] = tx[o] /\ tx[o].row # r /\ o # p
  BY <1>1, <1>2 DEF HasRow, WriteSound, Alone
<1>4. \A o \in Writer : WriteSound(o)'
  <2>1. WriteSound(p)'
    BY <1>1, <1>2 DEF WriteSound, HasRow
  <2>2. ASSUME NEW o \in Writer, o # p
        PROVE  WriteSound(o)'
    <3>1. HasRow(o) => tx[o].row \notin {r}
      BY <1>1, <2>2 DEF WriteSound, Alone
    <3>2. \A x \in Record \ {r} : /\ mat'[x] = mat[x] /\ src'[x] = src[x] /\ hist'[x] = hist[x]
                                  /\ x \in live' <=> x \in live
      BY <1>2
    <3> HIDE DEF r
    <3>3. QED
      BY <1>1, <1>2, <1>3, <2>2, <3>1, <3>2, OthersKept
  <2>3. QED
    BY <2>1, <2>2
<1>5. ASSUME NEW q \in Definer
      PROVE  FillSound(q)'
  <2>1. fill[q].locked \cap {r} = {}
    BY <1>1 DEF WriteSound, Alone
  <2> HIDE DEF r
  <2>2. QED
    BY <1>1, <1>2, <2>1, FillsKept
<1>6. Replayed'
  <2>1. Replays(hist[r], mat[r])
    BY <1>1 DEF WriteSound, Alone, CellsKept, Replayed, Replays
  <2>2. Replays(hist'[r], mat'[r])
    <3>1. CASE tx[p].out = {}
      BY <1>2, <2>1, <3>1, NoChangeResults
    <3>2. CASE tx[p].out = Change(mat[r], Evaluate(tx[p].def, tx[p].cells))
      BY <1>1, <1>2, <2>1, <3>2, LoggedReplays, ChangeResults DEF Typed, TypeOK
    <3>3. QED
      BY <1>1, <3>1, <3>2 DEF WriteSound, OutExact
  <2>3. \A x \in Record \ born' : x # r
    BY <1>1, <1>2
  <2> HIDE DEF r
  <2>4. live \subseteq Record
    BY <1>1 DEF Typed, TypeOK
  <2>5. QED
    BY <1>2, <2>2, <2>3, <2>4 DEF Replayed
<1>7. QED
  BY <1>1, <1>2, <1>4, <1>5, <1>6 DEF Locked

LEMMA DeleteLocked ==
  ASSUME Locked, Replayed, NEW r \in Record, DeleteRecord(r), Typed'
  PROVE  Locked' /\ Replayed'
<1>1. /\ live' = live \ {r} /\ r \in live /\ Free(r) /\ Typed /\ live \subseteq born
      /\ \A x \in Record \ {r} : mat'[x] = mat[x] /\ src'[x] = src[x] /\ hist'[x] = hist[x]
      /\ UNCHANGED <<born, def, hist, tx, fill>>
  BY DEF DeleteRecord, Locked, Typed, TypeOK
<1>2. ASSUME NEW o \in Writer
      PROVE  WriteSound(o)'
  <2>1. HasRow(o) => tx[o].row \notin {r}
    BY <1>1 DEF Free
  <2>2. \A x \in Record \ {r} : x \in live' <=> x \in live
    BY <1>1
  <2>3. \A p \in Writer : HasRow(p)' => HasRow(p) /\ tx'[p] = tx[p]
    BY <1>1 DEF HasRow
  <2>4. QED
    BY <1>1, <2>1, <2>2, <2>3, OthersKept
<1>3. ASSUME NEW q \in Definer
      PROVE  FillSound(q)'
  <2>1. fill[q].locked \cap {r} = {}
    BY <1>1 DEF Free
  <2>2. QED
    BY <1>1, <2>1, FillsKept
<1>4. Replayed'
  <2>1. live \subseteq Record
    BY <1>1 DEF Typed, TypeOK
  <2>2. QED
    BY <1>1, <2>1 DEF Replayed
<1>5. QED
  BY <1>1, <1>2, <1>3, <1>4 DEF Locked

LEMMA EmptyFillSound ==
  ASSUME NEW q \in Definer, fill[q].locked = {}, \A r \in Record : fill[q].out[r] = {}
  PROVE  FillSound(q)
BY DEF FillSound

LEMMA FillLocked ==
  ASSUME Locked, Replayed, NEW q \in Definer, Typed',
         ReadPage(q) \/ FillRow(q) \/ AbandonFill(q) \/ \E d \in Expr : Define(q, d)
  PROVE  Locked' /\ Replayed'
<1>1. Typed /\ fill[q] \in Fill /\ FillSound(q) /\ TypeOK
  BY DEF Locked, Typed, TypeOK
<1>2. ASSUME NEW f, fill' = [fill EXCEPT ![q] = f]
      PROVE  fill'[q] = f /\ \A o \in Definer : o # q => fill'[o] = fill[o]
  BY <1>1, <1>2 DEF TypeOK
<1>3. ASSUME NEW f, fill' = [fill EXCEPT ![q] = f],
             UNCHANGED <<live, born, src, mat, hist, tx>>,
             f.locked = {}, \A r \in Record : f.out[r] = {}
      PROVE  Locked' /\ Replayed'
  <2>1. FillSound(q)'
    BY <1>2, <1>3 DEF FillSound
  <2>2. QED
    BY <1>3, <2>1, FillKeeps
<1>4. NoFill.locked = {} /\ \A r \in Record : NoFill.out[r] = {}
  BY DEF NoFill
<1>5. CASE ReadPage(q)
  <2>1. CASE Page(q) = {}
    BY <1>1, <1>3, <1>4, <1>5, <2>1 DEF ReadPage, rows, TypeOK
  <2>2. CASE Page(q) # {}
    <3> DEFINE f == [fill[q] EXCEPT !.phase = "fill", !.page = Page(q),
                        !.upto = Greatest(Page(q)),
                        !.exhausted = Cardinality(Page(q)) < BatchSize]
    <3>1. /\ fill' = [fill EXCEPT ![q] = f] /\ UNCHANGED <<live, born, src, mat, hist, tx>>
          /\ f.locked = fill[q].locked /\ f.out = fill[q].out /\ f.expr = fill[q].expr
      BY <1>1, <1>5, <2>2 DEF ReadPage, rows, TypeOK, Fill
    <3> HIDE DEF f
    <3>2. FillSound(q)'
      BY <1>1, <1>2, <3>1 DEF FillSound
    <3>3. QED
      BY <3>1, <3>2, FillKeeps
  <2>3. QED
    BY <2>1, <2>2
<1>6. CASE FillRow(q)
  <2> DEFINE l == Least(fill[q].page)
             o == IF l \in live THEN Change(mat[l], Evaluate(fill[q].expr, src[l]))
                  ELSE fill[q].out[l]
             f == [fill[q] EXCEPT !.page = @ \ {l}, !.locked = @ \cup ({l} \cap live),
                                  !.out[l] = o]
  <2>1. /\ fill' = [fill EXCEPT ![q] = f] /\ UNCHANGED <<live, born, src, mat, hist, tx>>
        /\ Free(l)
    BY <1>1, <1>6, FillRowStep DEF rows
  <2>2. /\ f.locked = fill[q].locked \cup ({l} \cap live) /\ f.expr = fill[q].expr
        /\ f.out = [fill[q].out EXCEPT ![l] = o]
    BY <1>1 DEF Fill
  <2> HIDE DEF f
  <2>3. /\ \A r \in Record \ {l} : f.out[r] = fill[q].out[r]
        /\ l \in Record => f.out[l] = o
        /\ l \in live => o = Change(mat[l], Evaluate(fill[q].expr, src[l]))
        /\ l \notin live => o = fill[q].out[l]
    BY <1>1, <2>2 DEF Fill
  <2>4. l \notin fill[q].locked /\ \A e \in Definer : l \notin fill[e].locked
    BY <2>1 DEF Free
  <2> HIDE DEF l, o
  <2>5. fill'[q] = f /\ \A e \in Definer : e # q => fill'[e] = fill[e]
    BY <1>2, <2>1
  <2>6. /\ f.locked \subseteq live
        /\ \A r \in Record : r \in f.locked <=> r \in fill[q].locked \/ (r = l /\ r \in live)
    BY <1>1, <2>2 DEF FillSound
  <2>7. \A r \in Record : f.out[r] = IF r \in f.locked
                                       THEN Change(mat[r], Evaluate(fill[q].expr, src[r]))
                                       ELSE {}
    BY <1>1, <2>3, <2>4, <2>6 DEF FillSound
  <2>8. \A r \in f.locked, e \in Definer : r \in fill'[e].locked => e = q
    BY <1>1, <2>2, <2>4, <2>5 DEF FillSound
  <2>9. FillSound(q)'
    <3>1. /\ fill'[q].locked = f.locked /\ fill'[q].out = f.out
          /\ fill'[q].expr = fill[q].expr /\ UNCHANGED <<live, src, mat>>
      BY <2>1, <2>2, <2>5
    <3>2. \A r \in fill'[q].locked, e \in Definer : r \in fill'[e].locked => e = q
      BY <2>8, <3>1
    <3>3. \A r \in Record : fill'[q].out[r] = IF r \in fill'[q].locked
                              THEN Change(mat'[r], Evaluate(fill'[q].expr, src'[r])) ELSE {}
      BY <2>7, <3>1
    <3>4. QED
      BY <2>6, <3>1, <3>2, <3>3 DEF FillSound
  <2>10. \A p \in Writer : HasRow(p) => tx[p].row \notin f.locked \ fill[q].locked
    BY <2>1, <2>2 DEF Free
  <2>11. QED
    BY <2>1, <2>9, <2>10, FillKeeps
<1>7. CASE AbandonFill(q)
  BY <1>3, <1>4, <1>7 DEF AbandonFill, rows
<1>8. CASE \E d \in Expr : Define(q, d)
  <2>1. PICK d \in Expr : Define(q, d)
    BY <1>8
  <2> DEFINE f == [NoFill EXCEPT !.phase = "page", !.expr = d]
  <2>2. /\ fill' = [fill EXCEPT ![q] = f] /\ UNCHANGED <<live, born, src, mat, hist, tx>>
        /\ f.locked = NoFill.locked /\ f.out = NoFill.out
    BY <2>1 DEF Define, NoFill
  <2> HIDE DEF f
  <2>3. QED
    BY <1>3, <1>4, <2>2
<1>9. QED
  BY <1>5, <1>6, <1>7, <1>8

(* A batch stores what it read of the records it holds. *)
LEMMA BatchStores ==
  ASSUME Locked, NEW q \in Definer, CommitBatch(q), NEW r \in Record
  PROVE  /\ r \in fill[q].locked => mat'[r] = Evaluate(fill[q].expr, src[r])
         /\ r \notin fill[q].locked => mat'[r] = mat[r] /\ hist'[r] = hist[r]
         /\ src'[r] = src[r] /\ live' = live /\ born' = born /\ tx' = tx /\ def' = def
         /\ fill'[q] = NextPage(fill[q]) /\ \A o \in Definer : o # q => fill'[o] = fill[o]
<1>1. /\ mat'[r] = Result(fill[q].out[r], mat[r]) /\ hist'[r] = Logged(hist[r], fill[q].out[r])
      /\ fill'[q] = NextPage(fill[q]) /\ \A o \in Definer : o # q => fill'[o] = fill[o]
      /\ UNCHANGED <<live, born, src, def, tx>> /\ FillSound(q)
  BY DEF CommitBatch, Locked, Typed, TypeOK
<1>2. r \in fill[q].locked => mat'[r] = Evaluate(fill[q].expr, src[r])
  BY <1>1, ChangeResults DEF FillSound
<1>3. r \notin fill[q].locked => mat'[r] = mat[r] /\ hist'[r] = hist[r]
  BY <1>1, NoChangeResults DEF FillSound
<1>4. QED
  BY <1>1, <1>2, <1>3

LEMMA BatchLocked ==
  ASSUME Locked, Replayed, NEW q \in Definer, CommitBatch(q), Typed'
  PROVE  Locked' /\ Replayed'
<1>1. /\ Typed /\ FillSound(q) /\ live \subseteq born /\ live \subseteq Record
      /\ fill[q].locked \in SUBSET Record
      /\ fill'[q] = NextPage(fill[q]) /\ \A o \in Definer : o # q => fill'[o] = fill[o]
      /\ UNCHANGED <<live, born, src, def, tx>>
  BY DEF CommitBatch, Locked, Typed, TypeOK, Fill
<1>2. fill'[q].locked = {} /\ \A r \in Record : fill'[q].out[r] = {}
  BY <1>1 DEF NextPage, NoFill
<1>3. /\ \A o \in Definer : fill'[o].locked \subseteq fill[o].locked
      /\ \A r \in Record \ fill[q].locked : /\ mat'[r] = mat[r] /\ src'[r] = src[r]
                                            /\ hist'[r] = hist[r]
                                            /\ r \in live' <=> r \in live
      /\ \A p \in Writer : HasRow(p)' => HasRow(p) /\ tx'[p] = tx[p]
  BY <1>1, <1>2, BatchStores DEF HasRow
<1>4. ASSUME NEW o \in Writer
      PROVE  WriteSound(o)'
  <2>1. HasRow(o) => tx[o].row \notin fill[q].locked
    BY DEF Locked, WriteSound, Alone
  <2>2. QED
    BY <1>1, <1>3, <2>1, OthersKept
<1>5. ASSUME NEW o \in Definer
      PROVE  FillSound(o)'
  <2>1. CASE o = q
    BY <1>2, <2>1 DEF FillSound
  <2>2. CASE o # q
    <3>1. fill[o].locked \cap fill[q].locked = {}
      BY <1>1, <2>2 DEF FillSound
    <3>2. QED
      BY <1>1, <1>3, <2>2, <3>1, FillsKept
  <2>3. QED
    BY <2>1, <2>2
<1>6. ASSUME NEW r \in live
      PROVE  Replays(hist'[r], mat'[r])
  <2>1. r \in Record /\ Replays(hist[r], mat[r]) /\ hist[r] \in Seq(Entry)
    BY <1>1, <1>6 DEF Replayed, Typed, TypeOK
  <2>2. CASE r \in fill[q].locked
    <3>1. fill[q].out[r] = Change(mat[r], Evaluate(fill[q].expr, src[r]))
      BY <1>1, <2>1, <2>2 DEF FillSound
    <3>2. hist'[r] = Logged(hist[r], fill[q].out[r])
      BY <2>1 DEF CommitBatch
    <3>3. mat'[r] = Evaluate(fill[q].expr, src[r])
      BY <2>1, <2>2, BatchStores
    <3>4. QED
      BY <2>1, <3>1, <3>2, <3>3, LoggedReplays
  <2>3. CASE r \notin fill[q].locked
    BY <1>3, <2>1, <2>3
  <2>4. QED
    BY <2>2, <2>3
<1>7. \A r \in Record \ born : r \notin fill[q].locked
  BY <1>1 DEF FillSound
<1>8. Replayed'
  BY <1>1, <1>3, <1>6, <1>7 DEF Replayed
<1>9. QED
  BY <1>1, <1>4, <1>5, <1>8 DEF Locked

LEMMA StaysLocked == Locked /\ Replayed /\ [Next]_vars => Locked' /\ Replayed'
<1> SUFFICES ASSUME Locked, Replayed, [Next]_vars PROVE Locked' /\ Replayed'
  OBVIOUS
<1>1. Typed'
  BY StaysTyped DEF Locked
<1>2. CASE UNCHANGED vars
  <2>1. UNCHANGED <<live, born, src, def, mat, hist, tx, fill>>
    BY <1>2 DEF vars, rows
  <2>2. QED
    BY <1>1, <2>1 DEF Locked, Replayed, WriteSound, FillSound, Alone, CellsKept, OutExact,
                      HasRow, Recomputes
<1>3. QED
  BY <1>1, <1>2, RequestLocked, WriteLocked, CommitLocked, DeleteLocked, FillLocked, BatchLocked
     DEF Next, Write, Backfill

(* The history of an expression cell replays to its value, for any number  *)
(* of writers, deletions and backfills, also of definitions that overlap.  *)
THEOREM HistoryIsComplete == Spec => []HistoryReplays
<1>1. Replayed => HistoryReplays
  BY DEF Replayed, Replays, HistoryReplays
<1>2. QED
  BY <1>1, InitLocked, StaysLocked, PTL DEF Spec

(***************************************************************************)
(* What a backfill owes.  With one definer at a time, whose backfill is of *)
(* the definition that is committed.                                       *)
(***************************************************************************)
OneDefiner == \A q, o \in Definer : q = o

Current ==
  \A q \in Definer : fill[q].phase # "idle" => fill[q].expr = def /\ def \in Expr

Undefined ==
  def = NoExpr => /\ \A r \in Record : mat[r] = Empty
                  /\ \A p \in Writer : tx[p].phase = "commit" => tx[p].def = NoExpr

(* The backfill comes to record r, and has not read it yet.                *)
Pending(q, r) ==
  /\ fill[q].phase # "idle" /\ r > fill[q].after
  /\ \/ fill[q].phase = "page"
     \/ r \in fill[q].page
     \/ ~ fill[q].exhausted /\ r > fill[q].upto

(* A write materialized before the definition changed is corrected by the  *)
(* backfill, which waits for its lock, unless it cannot see the record.    *)
Overtaken ==
  \A p \in Writer : tx[p].phase = "commit" /\ tx[p].def # def =>
    \/ tx[p].row \in skipped
    \/ tx[p].kind # "create" /\ \E q \in Definer : Pending(q, tx[p].row)

(* Of what comes up to the end of a page nothing is left out.              *)
Filled ==
  \A q \in Definer : fill[q].phase = "fill" =>
    \A r \in live : r > fill[q].after /\ (fill[q].exhausted \/ r <= fill[q].upto) =>
      \/ r \in fill[q].page \/ r \in fill[q].locked \/ r \in skipped
      \/ mat[r] = Evaluate(def, src[r])

Owed == Current /\ Undefined /\ Overtaken /\ Filled /\ StaleOnlyAhead

FreshInv == OneDefiner /\ Locked /\ Replayed /\ Owed

LEMMA UndefinedIsEmpty == \A cells : Evaluate(NoExpr, cells) = Empty
BY DEF Evaluate

LEMMA EvaluateReads ==
  ASSUME NEW d \in Expr, NEW c, NEW e, \A s \in DependsOn[d] : c[s] = e[s]
  PROVE  Evaluate(d, c) = Evaluate(d, e)
<1>1. [s \in DependsOn[d] |-> c[s]] = [s \in DependsOn[d] |-> e[s]]
  OBVIOUS
<1>2. QED
  BY <1>1 DEF Evaluate

LEMMA RecordsAreNat == \A r \in Record \cup {0} : r \in Nat
BY ExpressionsAssumption

LEMMA InitOwes == Init => Owed
<1> SUFFICES ASSUME Init PROVE Owed
  OBVIOUS
<1>1. \A p \in Writer : tx[p].phase = "idle"
  BY DEF Init, NoTx
<1>2. \A q \in Definer : fill[q].phase = "idle"
  BY DEF Init, NoFill
<1>3. def = NoExpr /\ \A r \in Record : mat[r] = Empty
  BY DEF Init
<1>4. StaleOnlyAhead
  BY <1>3, UndefinedIsEmpty DEF Init, StaleOnlyAhead
<1>5. QED
  BY <1>1, <1>2, <1>3, <1>4 DEF Owed, Current, Undefined, Overtaken, Filled

(* A writer's step that stores nothing.                                    *)
LEMMA WriterOwes ==
  ASSUME FreshInv, NEW p \in Writer, NEW t, tx' = [tx EXCEPT ![p] = t],
         UNCHANGED <<live, src, def, mat, fill, skipped>>,
         t.phase = "commit" => t.def = def
  PROVE  Owed'
<1>1. tx'[p] = t /\ \A o \in Writer : o # p => tx'[o] = tx[o]
  BY DEF FreshInv, Locked, Typed, TypeOK
<1>2. Current' /\ Filled' /\ StaleOnlyAhead'
  BY DEF FreshInv, Owed, Current, Filled, StaleOnlyAhead, Ahead
<1>3. Undefined'
  BY <1>1 DEF FreshInv, Owed, Undefined
<1>4. Overtaken'
  BY <1>1 DEF FreshInv, Owed, Overtaken, Pending
<1>5. QED
  BY <1>2, <1>3, <1>4 DEF Owed

LEMMA RequestOwes ==
  ASSUME FreshInv, NEW p \in Writer, Request(p) \/ LockRecord(p) \/ Materialize(p) \/ FailWrite(p)
  PROVE  Owed'
<1>1. NoTx.phase = "idle" /\ tx \in [Writer -> Tx]
  BY DEF NoTx, FreshInv, Locked, Typed, TypeOK
<1>2. CASE Request(p)
  <2>1. \E t : tx' = [tx EXCEPT ![p] = t] /\ t.phase # "commit"
    <3>1. ASSUME NEW x \in Record, NEW s \in Source, NEW v \in Value \cup {Empty},
                 BeginUpsert(p, x, s, v)
          PROVE  \E t : tx' = [tx EXCEPT ![p] = t] /\ t.phase # "commit"
      <4> DEFINE t == [NoTx EXCEPT !.phase = "lock", !.kind = "upsert", !.row = x,
                                   !.set = {s}, !.cells[s] = v]
      <4>1. tx' = [tx EXCEPT ![p] = t] /\ t.phase = "lock"
        BY <3>1 DEF BeginUpsert, NoTx
      <4>2. QED
        BY <4>1
    <3>2. ASSUME NEW x \in Record, NEW S \in SUBSET Source, NEW cells \in Cells,
                 BeginBatch(p, x, S, cells)
          PROVE  \E t : tx' = [tx EXCEPT ![p] = t] /\ t.phase # "commit"
      <4> DEFINE t == [NoTx EXCEPT !.phase = "lock", !.kind = "batch", !.row = x,
                                   !.set = S, !.cells = cells]
      <4>1. tx' = [tx EXCEPT ![p] = t] /\ t.phase = "lock"
        BY <3>2 DEF BeginBatch, NoTx
      <4>2. QED
        BY <4>1
    <3>3. ASSUME NEW x \in Record, NEW cells \in Cells, BeginCreate(p, x, cells)
          PROVE  \E t : tx' = [tx EXCEPT ![p] = t] /\ t.phase # "commit"
      <4> DEFINE t == [NoTx EXCEPT !.phase = "materialize", !.kind = "create",
                                   !.row = x, !.set = Source, !.cells = cells]
      <4>1. tx' = [tx EXCEPT ![p] = t] /\ t.phase = "materialize"
        BY <3>3 DEF BeginCreate, NoTx
      <4>2. QED
        BY <4>1
    <3>4. QED
      BY <1>2, <3>1, <3>2, <3>3 DEF Request
  <2>2. UNCHANGED <<live, src, def, mat, fill, skipped>>
    BY <1>2 DEF Request, BeginUpsert, BeginBatch, BeginCreate, Begin
  <2>3. QED
    BY <2>1, <2>2, WriterOwes
<1>3. CASE LockRecord(p)
  <2>1. \E t : tx' = [tx EXCEPT ![p] = t] /\ t.phase # "commit"
    BY <1>1, <1>3 DEF LockRecord, EndTx, Tx
  <2>2. QED
    BY <1>3, <2>1, WriterOwes DEF LockRecord, rows
<1>4. CASE Materialize(p)
  <2>1. \E t : tx' = [tx EXCEPT ![p] = t] /\ t.def = def
    <3> DEFINE out == IF Recomputes(p, def)
                        THEN Change(mat[tx[p].row], Evaluate(def, tx[p].cells)) ELSE {}
               t == [tx[p] EXCEPT !.phase = "commit", !.def = def, !.out = out]
    <3>1. tx' = [tx EXCEPT ![p] = t] /\ t.def = def
      BY <1>1, <1>4 DEF Materialize, Tx
    <3>2. QED
      BY <3>1
  <2>2. QED
    BY <1>4, <2>1, WriterOwes DEF Materialize, rows
<1>5. CASE FailWrite(p)
  BY <1>1, <1>5, WriterOwes DEF FailWrite, EndTx, rows
<1>6. QED
  BY <1>2, <1>3, <1>4, <1>5

(* What a commit makes of its record: fresh, as it was, or still owed.     *)
LEMMA CommitOwes ==
  ASSUME FreshInv, NEW p \in Writer, CommitWrite(p)
  PROVE  Owed'
<1> DEFINE r == tx[p].row
           Same == skipped' = skipped
           Fresh(x) == mat'[x] = Evaluate(def, src'[x])
<1>1. /\ Locked /\ Typed /\ WriteSound(p) /\ HasRow(p) /\ tx[p].phase = "commit"
      /\ OutExact(p) /\ NoTx.phase = "idle" /\ live \subseteq Record
      /\ tx[p].cells \in Cells /\ def \in Expr \cup {NoExpr}
  <2>1. Typed /\ WriteSound(p) /\ tx[p] \in Tx
    BY DEF FreshInv, Locked, Typed, TypeOK
  <2>2. QED
    BY <2>1 DEF FreshInv, Locked, CommitWrite, HasRow, WriteSound, NoTx, Typed, TypeOK, Tx
<1>2. /\ r \in Record /\ live' = live \cup {r}
      /\ \A x \in Record \ {r} : mat'[x] = mat[x] /\ src'[x] = src[x]
      /\ mat'[r] = Result(tx[p].out, mat[r]) /\ src'[r] = tx[p].cells
      /\ tx'[p] = NoTx /\ \A o \in Writer : o # p => tx'[o] = tx[o]
      /\ UNCHANGED <<born, def, fill>>
      /\ skipped' = IF Recomputes(p, def) /\ tx[p].def = def THEN skipped \ {r} ELSE skipped
  <2>1. tx[p] # NoTx
    BY <1>1
  <2>2. r \in Record
    BY <1>1, <2>1 DEF Typed, Named
  <2>3. QED
    BY <1>1, <2>2 DEF CommitWrite, EndTx, Typed, TypeOK
<1>3. ASSUME tx[p].def = def, Recomputes(p, def)
      PROVE  Fresh(r)
  <2>1. tx[p].out = Change(mat[r], Evaluate(def, tx[p].cells))
    BY <1>1, <1>3 DEF OutExact
  <2>2. QED
    BY <1>2, <2>1, ChangeResults
<1>4. ASSUME tx[p].def = def, ~ Recomputes(p, def)
      PROVE  Same /\ mat'[r] = mat[r]
             /\ \/ Fresh(r)
                \/ r \in live /\ (mat[r] = Evaluate(def, src[r]) => Fresh(r))
  <2>1. Same /\ mat'[r] = mat[r]
    BY <1>1, <1>2, <1>4, NoChangeResults DEF OutExact
  <2>2. CASE def = NoExpr
    BY <1>2, <2>1, <2>2, UndefinedIsEmpty DEF FreshInv, Owed, Undefined
  <2>3. CASE def # NoExpr
    <3>1. def \in Expr /\ tx[p].kind = "upsert" /\ tx[p].set \cap DependsOn[def] = {}
      BY <1>1, <1>4, <2>3 DEF Recomputes
    <3>2. r \in live
      BY <1>1, <3>1 DEF WriteSound, Alone
    <3>3. \A s \in DependsOn[def] : tx[p].cells[s] = src[r][s]
      <4>1. DependsOn[def] \subseteq Source
        BY <3>1, ExpressionsAssumption
      <4>2. QED
        BY <1>1, <3>1, <4>1 DEF WriteSound, CellsKept
    <3>4. Evaluate(def, tx[p].cells) = Evaluate(def, src[r])
      BY <3>1, <3>3, EvaluateReads
    <3>5. QED
      BY <1>2, <2>1, <3>2, <3>4
  <2>4. QED
    BY <2>2, <2>3
<1>5. ASSUME tx[p].def # def
      PROVE  Same /\ (r \in skipped \/ \E q \in Definer : Pending(q, r))
  BY <1>1, <1>2, <1>5 DEF FreshInv, Owed, Overtaken
<1>6. \/ Fresh(r)
      \/ Same /\ r \in live /\ (mat[r] = Evaluate(def, src[r]) => Fresh(r))
      \/ Same /\ r \in skipped
      \/ \E q \in Definer : Pending(q, r)
  BY <1>3, <1>4, <1>5
<1>7. \A x \in skipped : x \in skipped' \/ x = r
  BY <1>2
<1> HIDE DEF r
<1>8. StaleOnlyAhead'
  <2>1. ASSUME NEW x \in live, x # r
        PROVE  Fresh(x) \/ x \in skipped' \/ \E q \in Definer : Ahead(q, x)
    BY <1>1, <1>2, <1>7, <2>1 DEF FreshInv, Owed, StaleOnlyAhead
  <2>2. Fresh(r) \/ r \in skipped' \/ \E q \in Definer : Ahead(q, r)
    BY <1>6 DEF FreshInv, Owed, StaleOnlyAhead, Pending, Ahead, Current
  <2>3. QED
    BY <1>2, <2>1, <2>2 DEF StaleOnlyAhead, Ahead
<1>9. Filled'
  <2>1. SUFFICES ASSUME NEW q \in Definer, fill[q].phase = "fill", NEW x \in live \cup {r},
                        x > fill[q].after, fill[q].exhausted \/ x <= fill[q].upto
                 PROVE  x \in fill[q].page \/ x \in fill[q].locked \/ x \in skipped' \/ Fresh(x)
    BY <1>2 DEF Filled
  <2>2. CASE x # r
    BY <1>1, <1>2, <1>7, <2>1, <2>2 DEF FreshInv, Owed, Filled
  <2>3. CASE x = r
    <3>1. CASE \E o \in Definer : Pending(o, r)
      <4>1. Pending(q, r)
        BY <3>1 DEF FreshInv, OneDefiner
      <4>2. fill[q] \in Fill /\ r \in Nat
        BY <1>1, <1>2, ExpressionsAssumption DEF Typed, TypeOK
      <4>3. fill[q].upto \in Nat
        <5>1. fill[q].upto \in Record \cup {0}
          BY <4>2 DEF Fill
        <5>2. QED
          BY <5>1, RecordsAreNat
      <4>4. QED
        BY <2>1, <2>3, <4>1, <4>2, <4>3 DEF Pending
    <3>2. CASE Fresh(r) \/ (Same /\ r \in skipped)
      BY <2>3, <3>2
    <3>3. CASE Same /\ r \in live /\ (mat[r] = Evaluate(def, src[r]) => Fresh(r))
      BY <2>1, <2>3, <3>3 DEF FreshInv, Owed, Filled
    <3>4. QED
      BY <1>6, <3>1, <3>2, <3>3
  <2>4. QED
    BY <2>2, <2>3
<1>10. Overtaken'
  <2>1. SUFFICES ASSUME NEW o \in Writer, o # p, tx[o].phase = "commit", tx[o].def # def
                 PROVE  \/ tx[o].row \in skipped'
                        \/ tx[o].kind # "create" /\ \E q \in Definer : Pending(q, tx[o].row)
    BY <1>1, <1>2 DEF Overtaken, Pending
  <2>2. tx[o].row # r
    BY <1>1, <2>1 DEF WriteSound, Alone, HasRow, r
  <2>3. QED
    BY <1>7, <2>1, <2>2 DEF FreshInv, Owed, Overtaken
<1>11. Undefined'
  <2>1. SUFFICES ASSUME def = NoExpr
                 PROVE  /\ \A x \in Record : mat'[x] = Empty
                        /\ \A o \in Writer : tx'[o].phase = "commit" => tx'[o].def = NoExpr
    BY <1>2 DEF Undefined
  <2>2. tx[p].out = {}
    BY <1>1, <2>1 DEF FreshInv, Owed, Undefined, OutExact, Recomputes
  <2>3. QED
    BY <1>1, <1>2, <2>1, <2>2, NoChangeResults DEF FreshInv, Owed, Undefined
<1>12. Current'
  BY <1>2 DEF FreshInv, Owed, Current
<1>13. QED
  BY <1>8, <1>9, <1>10, <1>11, <1>12 DEF Owed

LEMMA DeleteOwes ==
  ASSUME FreshInv, NEW r \in Record, DeleteRecord(r)
  PROVE  Owed'
<1>1. /\ live' = live \ {r} /\ live \subseteq Record
      /\ \A x \in Record \ {r} : mat'[x] = mat[x] /\ src'[x] = src[x]
      /\ mat'[r] = Empty /\ UNCHANGED <<born, def, tx, fill, skipped>>
  BY DEF DeleteRecord, FreshInv, Locked, Typed, TypeOK
<1>2. StaleOnlyAhead'
  BY <1>1 DEF FreshInv, Owed, StaleOnlyAhead, Ahead
<1>3. Filled'
  BY <1>1 DEF FreshInv, Owed, Filled
<1>4. Overtaken'
  BY <1>1 DEF FreshInv, Owed, Overtaken, Pending
<1>5. Undefined' /\ Current'
  BY <1>1 DEF FreshInv, Owed, Undefined, Current
<1>6. QED
  BY <1>2, <1>3, <1>4, <1>5 DEF Owed

LEMMA DefineOwes ==
  ASSUME FreshInv, NEW q \in Definer, NEW d \in Expr, Define(q, d)
  PROVE  Owed'
<1>1. Locked /\ Typed /\ \A o \in Definer : o = q
  BY DEF FreshInv, OneDefiner, Locked
<1>2. /\ fill'[q].phase = "page" /\ fill'[q].expr = d /\ fill'[q].after = 0
      /\ def' = d /\ UNCHANGED <<live, born, src, mat, hist, tx>>
      /\ skipped' = {tx[p].row : p \in {w \in Writer : tx[w].kind = "create"}}
  <2> DEFINE f == [NoFill EXCEPT !.phase = "page", !.expr = d]
  <2>1. f.phase = "page" /\ f.expr = d /\ f.after = 0 /\ fill' = [fill EXCEPT ![q] = f]
    BY DEF Define, NoFill
  <2> HIDE DEF f
  <2>2. fill'[q] = f
    BY <1>1, <2>1 DEF Typed, TypeOK
  <2>3. QED
    BY <2>1, <2>2 DEF Define
<1>3. \A r \in Record : r > 0
  BY ExpressionsAssumption
<1>4. StaleOnlyAhead'
  BY <1>1, <1>2, <1>3 DEF StaleOnlyAhead, Ahead, Typed, TypeOK
<1>5. Filled' /\ Current' /\ Undefined'
  BY <1>1, <1>2, ExpressionsAssumption DEF Filled, Current, Undefined
<1>6. ASSUME NEW p \in Writer, tx[p].phase = "commit"
      PROVE  \/ tx[p].row \in skipped'
             \/ tx[p].kind # "create" /\ Pending(q, tx[p].row)'
  <2>1. tx[p].row \in Record
    BY <1>1, <1>6 DEF Typed, Named, NoTx
  <2>2. QED
    BY <1>2, <1>3, <2>1 DEF Pending
<1>7. Overtaken'
  BY <1>2, <1>6 DEF Overtaken, Pending
<1>8. QED
  BY <1>4, <1>5, <1>7 DEF Owed

(* Steps of a backfill that store nothing.                                 *)
LEMMA FillOwes ==
  ASSUME FreshInv, NEW q \in Definer, UNCHANGED <<rows, tx>>, skipped \subseteq skipped',
         Current', Filled',
         \A r \in live : Ahead(q, r) => Ahead(q, r)' \/ r \in skipped',
         \A p \in Writer : HasRow(p) /\ tx[p].kind # "create" /\ Pending(q, tx[p].row)
                           => Pending(q, tx[p].row)' \/ tx[p].row \in skipped'
  PROVE  Owed'
<1>1. \A o \in Definer : o = q
  BY DEF FreshInv, OneDefiner
<1>2. UNCHANGED <<live, src, def, mat, tx>>
  BY DEF rows
<1>3. StaleOnlyAhead'
  <2>1. ASSUME NEW r \in live
        PROVE  \/ mat[r] = Evaluate(def, src[r]) \/ r \in skipped' \/ Ahead(q, r)'
    BY <1>1 DEF FreshInv, Owed, StaleOnlyAhead
  <2>2. QED
    BY <1>2, <2>1 DEF StaleOnlyAhead
<1>4. Overtaken'
  <2>1. ASSUME NEW p \in Writer, tx[p].phase = "commit", tx[p].def # def
        PROVE  \/ tx[p].row \in skipped'
               \/ tx[p].kind # "create" /\ Pending(q, tx[p].row)'
    BY <1>1, <2>1 DEF FreshInv, Owed, Overtaken, HasRow
  <2>2. ASSUME NEW p \in Writer, tx'[p].phase = "commit" /\ tx'[p].def # def'
        PROVE  \/ tx'[p].row \in skipped'
               \/ tx'[p].kind # "create" /\ Pending(q, tx[p].row)'
    BY <1>2, <2>1, <2>2
  <2>3. QED
    BY <1>2, <2>2 DEF Overtaken
<1>5. Undefined'
  BY <1>2 DEF FreshInv, Owed, Undefined
<1>6. QED
  BY <1>3, <1>4, <1>5 DEF Owed

LEMMA ReadOwes ==
  ASSUME FreshInv, NEW q \in Definer, ReadPage(q)
  PROVE  Owed'
<1>1. /\ Locked /\ Typed /\ TypeOK /\ fill[q] \in Fill /\ live \subseteq Record
      /\ \A o \in Definer : o = q
      /\ fill[q].phase = "page" /\ UNCHANGED <<rows, tx, skipped>>
  BY DEF FreshInv, OneDefiner, Locked, Typed, TypeOK, ReadPage
<1>2. fill[q].after \in Nat
  <2>1. fill[q].after \in Record \cup {0}
    BY <1>1 DEF Fill
  <2>2. QED
    BY <2>1, RecordsAreNat
<1>3. \A r \in live : r > fill[q].after => r \in Rest(q)
  BY DEF Rest
<1>4. \A p \in Writer : HasRow(p) /\ tx[p].kind # "create" => tx[p].row \in live
  BY <1>1 DEF Locked, WriteSound, Alone
<1>5. CASE Page(q) = {}
  <2>1. fill'[q] = NoFill /\ NoFill.phase = "idle"
    BY <1>1, <1>5 DEF ReadPage, NoFill, TypeOK
  <2>2. \A r \in live : ~ (r > fill[q].after)
    BY <1>1, <1>2, <1>3, <1>5, PageIsBeginning
  <2>3. Current' /\ Filled'
    BY <1>1, <2>1 DEF Current, Filled
  <2>4. QED
    BY <1>1, <1>4, <2>2, <2>3, FillOwes DEF Ahead, Pending
<1>6. CASE Page(q) # {}
  <2>1. /\ fill'[q].phase = "fill" /\ fill'[q].page = Page(q) /\ fill'[q].after = fill[q].after
        /\ fill'[q].upto = Greatest(Page(q)) /\ fill'[q].expr = fill[q].expr
        /\ fill'[q].exhausted <=> Cardinality(Page(q)) < BatchSize
    <3> DEFINE f == [fill[q] EXCEPT !.phase = "fill", !.page = Page(q),
                        !.upto = Greatest(Page(q)),
                        !.exhausted = Cardinality(Page(q)) < BatchSize]
    <3>1. fill'[q] = f
      BY <1>1, <1>6 DEF ReadPage, TypeOK
    <3>2. /\ f.phase = "fill" /\ f.page = Page(q) /\ f.after = fill[q].after
          /\ f.upto = Greatest(Page(q)) /\ f.expr = fill[q].expr
          /\ f.exhausted = (Cardinality(Page(q)) < BatchSize)
      BY <1>1 DEF Fill
    <3> HIDE DEF f
    <3>3. QED
      BY <3>1, <3>2
  <2>2. /\ IsFiniteSet(Page(q)) /\ Page(q) \in SUBSET Nat /\ Greatest(Page(q)) \in Nat
    <3>1. Page(q) \in SUBSET Record
      BY <1>1 DEF Page, Rest
    <3>2. IsFiniteSet(Page(q)) /\ Page(q) \in SUBSET Nat
      BY <3>1, FS_Subset, ExpressionsAssumption
    <3>3. QED
      BY <1>6, <3>2, GreatestExists DEF Greatest
  <2>3. \A r \in Rest(q) : r \in Page(q)
                           \/ (~ fill'[q].exhausted /\ r > fill'[q].upto)
    BY <1>1, <1>2, <2>1, PageIsBeginning
  <2>4. Current'
    BY <1>1, <2>1 DEF FreshInv, Owed, Current, rows
  <2>5. Filled'
    <3>1. ASSUME NEW r \in live, r > fill[q].after, fill'[q].exhausted \/ r <= fill'[q].upto
          PROVE  r \in Page(q)
      <4>1. r \in Nat
        BY <1>1, ExpressionsAssumption
      <4>2. QED
        BY <1>3, <2>1, <2>2, <2>3, <3>1, <4>1
    <3>2. QED
      BY <1>1, <2>1, <3>1 DEF Filled, rows
  <2>6. QED
    BY <1>1, <1>3, <1>4, <2>1, <2>3, <2>4, <2>5, FillOwes DEF FreshInv, Owed, Current, Ahead,
       Pending, rows
<1>7. QED
  BY <1>5, <1>6

LEMMA FillRowOwes ==
  ASSUME FreshInv, NEW q \in Definer, FillRow(q)
  PROVE  Owed'
<1> DEFINE l == Least(fill[q].page)
<1>1. /\ Locked /\ TypeOK /\ fill[q] \in Fill /\ \A o \in Definer : o = q
      /\ fill[q].phase = "fill" /\ UNCHANGED <<rows, tx, skipped>> /\ Free(l)
  BY DEF FreshInv, OneDefiner, Locked, Typed, TypeOK, FillRow
<1>2. /\ fill'[q].phase = fill[q].phase /\ fill'[q].expr = fill[q].expr
      /\ fill'[q].after = fill[q].after /\ fill'[q].upto = fill[q].upto
      /\ fill'[q].exhausted = fill[q].exhausted /\ fill'[q].page = fill[q].page \ {l}
      /\ fill'[q].locked = fill[q].locked \cup ({l} \cap live)
  <2> DEFINE o == IF l \in live THEN Change(mat[l], Evaluate(fill[q].expr, src[l]))
                  ELSE fill[q].out[l]
             f == [fill[q] EXCEPT !.page = @ \ {l}, !.locked = @ \cup ({l} \cap live),
                                  !.out[l] = o]
  <2>1. fill'[q] = f
    BY <1>1 DEF FillRow, TypeOK
  <2>2. QED
    BY <1>1, <2>1 DEF Fill
<1> HIDE DEF l
<1>3. Current'
  BY <1>1, <1>2 DEF FreshInv, Owed, Current, rows
<1>4. Filled'
  BY <1>1, <1>2 DEF FreshInv, Owed, Filled, rows
<1>5. \A p \in Writer : HasRow(p) => tx[p].row # l
  BY <1>1 DEF Free
<1>6. QED
  BY <1>1, <1>2, <1>3, <1>4, <1>5, FillOwes DEF Ahead, Pending, rows

LEMMA AbandonOwes ==
  ASSUME FreshInv, NEW q \in Definer, AbandonFill(q)
  PROVE  Owed'
<1>1. /\ Locked /\ TypeOK /\ \A o \in Definer : o = q
      /\ UNCHANGED <<rows, tx>> /\ fill'[q] = NoFill /\ NoFill.phase = "idle"
      /\ skipped' = skipped \cup {r \in born : r > fill[q].after}
  BY DEF FreshInv, OneDefiner, Locked, Typed, TypeOK, AbandonFill, NoFill
<1>2. Current' /\ Filled'
  BY <1>1 DEF Current, Filled
<1>3. live \subseteq born /\ \A p \in Writer : HasRow(p) => tx[p].row \in born
  BY <1>1 DEF Locked, WriteSound, Alone
<1>4. QED
  BY <1>1, <1>2, <1>3, FillOwes DEF Ahead, Pending

(* A batch pays for the records of its page, and the next one begins       *)
(* behind it.                                                              *)
LEMMA BatchOwes ==
  ASSUME FreshInv, NEW q \in Definer, CommitBatch(q)
  PROVE  Owed'
<1>1. /\ Locked /\ TypeOK /\ fill[q] \in Fill /\ live \subseteq Record
      /\ \A o \in Definer : o = q
      /\ fill[q].phase = "fill" /\ fill[q].page = {}
      /\ UNCHANGED <<live, born, src, def, tx>> /\ fill'[q] = NextPage(fill[q])
      /\ \A r \in skipped : r \in skipped' \/ r \in fill[q].locked
      /\ fill[q].expr = def /\ def \in Expr
  BY DEF FreshInv, OneDefiner, Locked, Typed, TypeOK, CommitBatch, Owed, Current
<1>2. /\ fill[q].exhausted => fill'[q].phase = "idle"
      /\ ~ fill[q].exhausted => /\ fill'[q].phase = "page" /\ fill'[q].expr = def
                                /\ fill'[q].after = fill[q].upto
  BY <1>1 DEF NextPage, NoFill
<1>3. \A r \in Record : IF r \in fill[q].locked THEN mat'[r] = Evaluate(def, src[r])
                                                ELSE mat'[r] = mat[r]
  BY <1>1, BatchStores
<1>4. Current' /\ Filled' /\ Undefined'
  BY <1>1, <1>2, ExpressionsAssumption DEF Current, Filled, Undefined
<1>5. StaleOnlyAhead'
  <2>1. ASSUME NEW r \in live, r \notin fill[q].locked
        PROVE  mat[r] = Evaluate(def, src[r]) \/ r \in skipped' \/ Ahead(q, r)'
    <3>1. CASE Ahead(q, r) /\ (fill[q].exhausted \/ r <= fill[q].upto)
      BY <1>1, <2>1, <3>1 DEF FreshInv, Owed, Filled, Ahead
    <3>2. CASE ~ fill[q].exhausted /\ ~ (r <= fill[q].upto)
      <4>1. r \in Nat /\ fill[q].upto \in Nat
        <5>1. r \in Record /\ fill[q].upto \in Record \cup {0}
          BY <1>1 DEF Fill
        <5>2. QED
          BY <5>1, RecordsAreNat
      <4>2. QED
        BY <1>1, <1>2, <3>2, <4>1 DEF Ahead
    <3>3. CASE ~ Ahead(q, r)
      BY <1>1, <2>1, <3>3 DEF FreshInv, Owed, StaleOnlyAhead
    <3>4. QED
      BY <3>1, <3>2, <3>3
  <2>2. QED
    BY <1>1, <1>3, <2>1 DEF StaleOnlyAhead
<1>6. Overtaken'
  <2>1. ASSUME NEW p \in Writer, tx[p].phase = "commit", tx[p].def # def
        PROVE  \/ tx[p].row \in skipped'
               \/ tx[p].kind # "create" /\ Pending(q, tx[p].row)'
    <3>1. tx[p].row \notin fill[q].locked
      BY <1>1, <2>1 DEF Locked, WriteSound, Alone, HasRow
    <3>2. QED
      BY <1>1, <1>2, <2>1, <3>1 DEF FreshInv, Owed, Overtaken, Pending
  <2>2. QED
    BY <1>1, <2>1 DEF Overtaken, Pending
<1>7. QED
  BY <1>4, <1>5, <1>6 DEF Owed

LEMMA StaysFresh == FreshInv /\ [Next]_vars => FreshInv'
<1> SUFFICES ASSUME FreshInv, [Next]_vars PROVE FreshInv'
  OBVIOUS
<1>1. OneDefiner' /\ Locked' /\ Replayed'
  BY StaysLocked DEF FreshInv, OneDefiner
<1>2. Owed'
  <2>1. CASE UNCHANGED vars
    BY <2>1 DEF vars, rows, FreshInv, Owed, Current, Undefined, Overtaken, Pending, Filled,
       StaleOnlyAhead, Ahead
  <2>2. QED
    BY <2>1, RequestOwes, CommitOwes, DeleteOwes, DefineOwes, ReadOwes, FillRowOwes, AbandonOwes,
       BatchOwes DEF Next, Write, Backfill
<1>3. QED
  BY <1>1, <1>2 DEF FreshInv

(* A committed expression cell is stale only where the backfill of the     *)
(* definition has still to come, or could not: for any number of writers,  *)
(* any pages, and any redefinitions, one after the other.                  *)
THEOREM CellsCatchUp == OneDefiner /\ Spec => []StaleOnlyAhead
<1>1. OneDefiner /\ Init => FreshInv
  BY InitLocked, InitOwes DEF FreshInv
<1>2. FreshInv => StaleOnlyAhead
  BY DEF FreshInv, Owed
<1>3. QED
  BY <1>1, <1>2, StaysFresh, PTL DEF Spec
=============================================================================
