---------------------------- MODULE Expressions ----------------------------
(***************************************************************************)
(* Write-time materialization of one expression field of one table         *)
(* (server/expression.ts) by the transactions that run it: cell.upsert,    *)
(* writeBatch, record.create, and the backfill that follows field.create   *)
(* and field.updateOptions.                                                *)
(*                                                                         *)
(* The committed cell of the expression field of a record (mat) is meant   *)
(* to be the value of the committed definition (def) over the record's     *)
(* committed source cells (src).  An expression is abstracted to the set   *)
(* of source fields it reads, and its value to the definition together     *)
(* with what it read, so two values are equal only when they must be;      *)
(* {__error} is a value like any other.  Empty is an absent cell row.      *)
(*                                                                         *)
(* Every transaction that writes cells of a record first locks the record  *)
(* row and keeps it until it ends, so its later reads of the record's      *)
(* cells are one step.  A transaction that inserts its record is alone     *)
(* with it until it commits.                                               *)
(***************************************************************************)
EXTENDS Naturals, Sequences, FiniteSets

CONSTANTS
  Record,        \* record ids, in the order of ORDER BY record.id
  Source,        \* the fields expressions may read
  Value, Empty,  \* their values; the absent cell
  Expr, NoExpr,  \* definitions; the expression field does not exist yet
  DependsOn,     \* the fields a definition reads
  Writer,        \* handlers that write records
  Definer,       \* handlers that create or redefine the expression field
  Kinds,         \* which transactions the writers run
  BatchSize,     \* 500: records per backfill transaction
  MaxTx          \* bound: requests of a behaviour

ASSUME ExpressionsAssumption ==
  /\ Record \subseteq Nat \ {0} /\ IsFiniteSet(Record)
  /\ Empty \notin Value /\ NoExpr \notin Expr
  /\ DependsOn \in [Expr -> SUBSET Source]
  /\ Kinds \subseteq {"upsert", "batch", "create", "delete"}
  /\ BatchSize \in Nat \ {0} /\ MaxTx \in Nat

VARIABLES
  live, born,    \* record rows; ids ever used
  src,           \* src[r][s]: the source cells
  def,           \* the expression field's definition
  mat,           \* mat[r]: its cell
  hist,          \* hist[r]: the cell_history rows of that cell
  tx,            \* the write each writer runs
  fill,          \* the backfill each definer runs
  begun,         \* requests so far
  skipped        \* history: records the last definition's backfill misses

rows == <<live, born, src, def, mat, hist>>
vars == <<rows, tx, fill, begun, skipped>>

Cells == [Source -> Value \cup {Empty}]
NoCells == [s \in Source |-> Empty]
Results ==
  {Empty} \cup UNION {[expr : {d}, inputs : [DependsOn[d] -> Value]] : d \in Expr}
Entry == [old : Results, new : Results]

Tx == [phase : {"idle", "lock", "materialize", "commit"},
       kind : Kinds \cup {"none"}, row : Record \cup {0},
       set : SUBSET Source, cells : Cells,
       def : Expr \cup {NoExpr}, out : SUBSET Entry]
NoTx == [phase |-> "idle", kind |-> "none", row |-> 0, set |-> {}, cells |-> NoCells,
         def |-> NoExpr, out |-> {}]

Fill == [phase : {"idle", "page", "fill"}, expr : Expr \cup {NoExpr},
         after : Record \cup {0}, upto : Record \cup {0}, page : SUBSET Record,
         exhausted : BOOLEAN, locked : SUBSET Record, out : [Record -> SUBSET Entry]]
NoFill == [phase |-> "idle", expr |-> NoExpr, after |-> 0, upto |-> 0, page |-> {},
           exhausted |-> FALSE, locked |-> {}, out |-> [r \in Record |-> {}]]

TypeOK ==
  /\ live \in SUBSET Record
  /\ born \in SUBSET Record
  /\ src \in [Record -> Cells]
  /\ def \in Expr \cup {NoExpr}
  /\ mat \in [Record -> Results]
  /\ hist \in [Record -> Seq(Entry)]
  /\ tx \in [Writer -> Tx]
  /\ fill \in [Definer -> Fill]
  /\ begun \in Nat
  /\ skipped \in SUBSET Record

-----------------------------------------------------------------------------
(* evaluateExpression: a missing input makes the result empty. *)
Evaluate(d, cells) ==
  IF d = NoExpr \/ \E s \in DependsOn[d] : cells[s] = Empty
    THEN Empty
    ELSE [expr |-> d, inputs |-> [s \in DependsOn[d] |-> cells[s]]]

(* writeExpressionCell: the history row of a write; empty over no row is none. *)
Change(old, new) ==
  IF old = Empty /\ new = Empty THEN {} ELSE {[old |-> old, new |-> new]}

(* What committing a change does to the cell and to its history. *)
Result(out, old) == IF out = {} THEN old ELSE (CHOOSE e \in out : TRUE).new
Logged(h, out) == IF out = {} THEN h ELSE Append(h, CHOOSE e \in out : TRUE)

(* Record rows locked by the other writers and by the other backfills. *)
HasRow(p) == tx[p].phase \in {"materialize", "commit"}

Free(r) ==
  /\ \A p \in Writer : HasRow(p) => tx[p].row # r
  /\ \A q \in Definer : r \notin fill[q].locked

-----------------------------------------------------------------------------
(***************************************************************************)
(* Writers.                                                                *)
(***************************************************************************)
Begin(p, k) ==
  /\ tx[p].phase = "idle" /\ k \in Kinds /\ begun < MaxTx
  /\ begun' = begun + 1
  /\ UNCHANGED <<live, src, def, mat, hist, fill, skipped>>

BeginUpsert(p, r, s, v) ==
  /\ r \in live
  /\ Begin(p, "upsert")
  /\ tx' = [tx EXCEPT ![p] = [NoTx EXCEPT !.phase = "lock", !.kind = "upsert", !.row = r,
                                          !.set = {s}, !.cells[s] = v]]
  /\ UNCHANGED born

(* A row of a batch sets any fields of an existing record. *)
BeginBatch(p, r, S, cells) ==
  /\ Begin(p, "batch")
  /\ \A s \in Source \ S : cells[s] = Empty
  /\ tx' = [tx EXCEPT ![p] = [NoTx EXCEPT !.phase = "lock", !.kind = "batch", !.row = r,
                                          !.set = S, !.cells = cells]]
  /\ UNCHANGED born

(* record.create, or a batch row without an id. *)
BeginCreate(p, r, cells) ==
  /\ r \notin born
  /\ Begin(p, "create")
  /\ born' = born \cup {r}
  /\ tx' = [tx EXCEPT ![p] = [NoTx EXCEPT !.phase = "materialize", !.kind = "create",
                                          !.row = r, !.set = Source, !.cells = cells]]

EndTx(p) == tx' = [tx EXCEPT ![p] = NoTx]

(* The record lock, and the source cells written under it. *)
LockRecord(p) ==
  LET r == tx[p].row IN
  /\ tx[p].phase = "lock" /\ Free(r)
  /\ \/ r \notin live /\ EndTx(p)
     \/ /\ r \in live
        /\ tx' = [tx EXCEPT ![p].phase = "materialize",
                            ![p].cells = [s \in Source |->
                               IF s \in tx[p].set THEN tx[p].cells[s] ELSE src[r][s]]]
  /\ UNCHANGED <<rows, fill, begun, skipped>>

(* An upsert recomputes the field when it depends on what was written. *)
Recomputes(p, d) ==
  d # NoExpr /\ (tx[p].kind = "upsert" => tx[p].set \cap DependsOn[d] # {})

(* materializeExpressionsForRecord: the definition as committed now. *)
Materialize(p) ==
  /\ tx[p].phase = "materialize"
  /\ tx' = [tx EXCEPT ![p].phase = "commit", ![p].def = def,
              ![p].out = IF Recomputes(p, def)
                           THEN Change(mat[tx[p].row], Evaluate(def, tx[p].cells))
                           ELSE {}]
  /\ UNCHANGED <<rows, fill, begun, skipped>>

CommitWrite(p) ==
  LET r == tx[p].row IN
  /\ tx[p].phase = "commit"
  /\ live' = live \cup {r}
  /\ src' = [src EXCEPT ![r] = tx[p].cells]
  /\ mat' = [mat EXCEPT ![r] = Result(tx[p].out, @)]
  /\ hist' = [hist EXCEPT ![r] = Logged(@, tx[p].out)]
  /\ skipped' = IF Recomputes(p, def) /\ tx[p].def = def THEN skipped \ {r} ELSE skipped
  /\ EndTx(p)
  /\ UNCHANGED <<born, def, fill, begun>>

(* A refused, timed out or lost transaction is rolled back. *)
FailWrite(p) ==
  /\ tx[p].phase # "idle"
  /\ EndTx(p)
  /\ UNCHANGED <<rows, fill, begun, skipped>>

(* record.delete, seen from here: its cells go with the record. *)
DeleteRecord(r) ==
  /\ "delete" \in Kinds /\ begun < MaxTx /\ r \in live /\ Free(r)
  /\ begun' = begun + 1
  /\ live' = live \ {r}
  /\ src' = [src EXCEPT ![r] = NoCells]
  /\ mat' = [mat EXCEPT ![r] = Empty]
  /\ UNCHANGED <<born, def, hist, tx, fill, skipped>>

-----------------------------------------------------------------------------
(***************************************************************************)
(* field.create and field.updateOptions: the definition commits, then the  *)
(* backfill runs in transactions of its own with the definition it was     *)
(* given.                                                                  *)
(***************************************************************************)
Define(q, d) ==
  /\ fill[q].phase = "idle" /\ begun < MaxTx
  /\ begun' = begun + 1
  /\ def' = d
  /\ fill' = [fill EXCEPT ![q] = [NoFill EXCEPT !.phase = "page", !.expr = d]]
  /\ skipped' = {tx[p].row : p \in {w \in Writer : tx[w].kind = "create"}}
  /\ UNCHANGED <<live, born, src, mat, hist, tx>>

Least(S) == CHOOSE r \in S : \A s \in S : r <= s
Greatest(S) == CHOOSE r \in S : \A s \in S : r >= s

(* Keyset pagination on id. *)
Rest(q) == {r \in live : r > fill[q].after}
Page(q) == {r \in Rest(q) : Cardinality({s \in Rest(q) : s < r}) < BatchSize}

ReadPage(q) ==
  /\ fill[q].phase = "page"
  /\ fill' = [fill EXCEPT ![q] =
       IF Page(q) = {} THEN NoFill
       ELSE [@ EXCEPT !.phase = "fill", !.page = Page(q), !.upto = Greatest(Page(q)),
                      !.exhausted = Cardinality(Page(q)) < BatchSize]]
  /\ UNCHANGED <<rows, tx, begun, skipped>>

(* Mutant of FillRow: the record row is not locked first. *)
FillUnlocked(q) ==
  /\ fill[q].phase = "fill" /\ fill[q].page # {}
  /\ LET r == Least(fill[q].page) IN
       fill' = [fill EXCEPT ![q].page = @ \ {r},
            ![q].out[r] = IF r \in live THEN Change(mat[r], Evaluate(fill[q].expr, src[r]))
                          ELSE @]
  /\ UNCHANGED <<rows, tx, begun, skipped>>

(* Lock the record, read its cells, write the result; a vanished one is skipped. *)
FillRow(q) ==
  /\ fill[q].phase = "fill" /\ fill[q].page # {}
  /\ LET r == Least(fill[q].page) IN
       /\ Free(r)
       /\ fill' = [fill EXCEPT ![q].page = @ \ {r},
            ![q].locked = @ \cup ({r} \cap live),
            ![q].out[r] = IF r \in live THEN Change(mat[r], Evaluate(fill[q].expr, src[r]))
                          ELSE @]
  /\ UNCHANGED <<rows, tx, begun, skipped>>

(* Mutant of NextPage: the pagination key is not moved on. *)
SamePage(f) ==
  IF f.exhausted THEN NoFill ELSE [NoFill EXCEPT !.phase = "page", !.expr = f.expr]

NextPage(f) ==
  IF f.exhausted THEN NoFill
  ELSE [NoFill EXCEPT !.phase = "page", !.expr = f.expr, !.after = f.upto]

CommitBatch(q) ==
  /\ fill[q].phase = "fill" /\ fill[q].page = {}
  /\ mat' = [r \in Record |-> Result(fill[q].out[r], mat[r])]
  /\ hist' = [r \in Record |-> Logged(hist[r], fill[q].out[r])]
  /\ fill' = [fill EXCEPT ![q] = NextPage(@)]
  /\ skipped' = IF fill[q].expr = def THEN skipped \ fill[q].locked ELSE skipped
  /\ UNCHANGED <<live, born, src, def, tx, begun>>

(* A lock timeout, an error or a crash: the committed batches stay. *)
AbandonFill(q) ==
  /\ fill[q].phase # "idle"
  /\ skipped' = skipped \cup {r \in born : r > fill[q].after}
  /\ fill' = [fill EXCEPT ![q] = NoFill]
  /\ UNCHANGED <<rows, tx, begun>>

-----------------------------------------------------------------------------
Write(p) == LockRecord(p) \/ Materialize(p) \/ CommitWrite(p)
Backfill(q) == ReadPage(q) \/ FillRow(q) \/ CommitBatch(q)

Request(p) ==
  \/ \E r \in Record, s \in Source, v \in Value \cup {Empty} : BeginUpsert(p, r, s, v)
  \/ \E r \in Record, S \in SUBSET Source, cells \in Cells : BeginBatch(p, r, S, cells)
  \/ \E r \in Record, cells \in Cells : BeginCreate(p, r, cells)

Next ==
  \/ \E p \in Writer : Request(p) \/ Write(p) \/ FailWrite(p)
  \/ \E r \in Record : DeleteRecord(r)
  \/ \E q \in Definer : Backfill(q) \/ AbandonFill(q) \/ \E d \in Expr : Define(q, d)

(* A table with records and no expression field yet. *)
Init ==
  /\ live \in SUBSET Record /\ born = live
  /\ src \in [Record -> Cells]
  /\ \A r \in Record \ live : src[r] = NoCells
  /\ def = NoExpr
  /\ mat = [r \in Record |-> Empty]
  /\ hist = [r \in Record |-> <<>>]
  /\ tx = [p \in Writer |-> NoTx]
  /\ fill = [q \in Definer |-> NoFill]
  /\ begun = 0
  /\ skipped = {}

Spec == Init /\ [][Next]_vars

(* Handlers run their statements. *)
Fairness ==
  /\ \A p \in Writer : WF_vars(Write(p))
  /\ \A q \in Definer : WF_vars(Backfill(q))
FairSpec == Spec /\ Fairness

-----------------------------------------------------------------------------
(***************************************************************************)
(* Properties.                                                             *)
(***************************************************************************)
(* A committed expression cell differs from the value of the committed     *)
(* definition over the committed cells only while the backfill of that     *)
(* definition has not come to its record yet, or if that backfill cannot   *)
(* come to it: it was interrupted before, or the record was not committed  *)
(* when the definition was.  In particular no write is materialized from a *)
(* stale snapshot, and no backfill overwrites a fresher value.             *)
Ahead(q, r) == fill[q].phase # "idle" /\ fill[q].expr = def /\ r > fill[q].after
StaleOnlyAhead ==
  \A r \in live :
    \/ mat[r] = Evaluate(def, src[r])
    \/ r \in skipped
    \/ \E q \in Definer : Ahead(q, r)

(* The history of an expression cell replays to its value; the imprecise   *)
(* oldValue that writeExpressionCell excuses on a racing insert never      *)
(* happens.                                                                *)
HistoryReplays ==
  \A r \in live :
    /\ \A i \in 1..Len(hist[r]) :
         hist[r][i].old = IF i = 1 THEN Empty ELSE hist[r][i - 1].new
    /\ mat[r] = IF hist[r] = <<>> THEN Empty ELSE hist[r][Len(hist[r])].new

(* A backfill ends, also while records are written and deleted under it.   *)
BackfillEnds == \A q \in Definer : (fill[q].phase # "idle") ~> (fill[q].phase = "idle")

=============================================================================
