--------------------------- MODULE BrowserProofs ----------------------------
(***************************************************************************)
(* Theorems about a session of the browser, for any records, fields,       *)
(* expressions, sort, page sizes and bounds: pages divide the table; the   *)
(* grid settles on what the server would answer, and so does the board;    *)
(* pastes are written once, and only while their user wants it.            *)
(*                                                                         *)
(* The invariant behind GridSettles says of each page, and of each answer  *)
(* under way, how it may differ from what the server would answer now: not *)
(* in its rows, and in a cell only if a write in flight accounts for it,   *)
(* either a guess its answer will replace or undo, or a stored value its   *)
(* answer will bring (Faithful).  A page is excused only by a fetch or an  *)
(* answer still to come (Due), by a fetch under way, a failure, or one of  *)
(* the races the property names (behind).                                  *)
(***************************************************************************)
EXTENDS BrowserSession, SequenceTheorems, FiniteSetTheorems, WellFoundedInduction, TLAPS

-----------------------------------------------------------------------------
(***************************************************************************)
(* Ordering: the records of a page are a window of all of them in order.    *)
(***************************************************************************)
(* Every nonempty set of numbers has a least one.                           *)
LEMMA LeastNumber ==
  ASSUME NEW T \in SUBSET Nat, T # {}
  PROVE  \E n \in T : \A m \in T : n <= m
<1>1. PICK n \in T : \A m \in T : ~ (<<m, n>> \in OpToRel(<, Nat))
  BY NatLessThanWellFounded, WFMin, Zenon
<1>2. \A m \in T : m < n => <<m, n>> \in OpToRel(<, Nat)
  BY Zenon DEF OpToRel
<1>3. \A m \in T : ~(m < n)
  BY <1>1, <1>2, Zenon
<1> QED BY <1>3

(* What holds of a set when it holds of its smaller subsets holds of every  *)
(* subset of a finite set.                                                  *)
LEMMA SubsetInduction ==
  ASSUME NEW D, IsFiniteSet(D), NEW G,
         \A s \in SUBSET D : (\A t \in SUBSET s : t # s => t \in G) => s \in G
  PROVE  \A s \in SUBSET D : s \in G
<1> DEFINE T == {n \in Nat : \E s \in SUBSET D : s \notin G /\ Cardinality(s) = n}
<1> SUFFICES ASSUME NEW r \in SUBSET D, r \notin G PROVE FALSE
  OBVIOUS
<1>1. Cardinality(r) \in T
  BY FS_CardinalityType, FS_Subset
<1>2. PICK n \in T : \A m \in T : n <= m
  BY <1>1, LeastNumber
<1>3. PICK s \in SUBSET D : s \notin G /\ Cardinality(s) = n
  BY <1>2
<1>4. PICK t \in SUBSET s : t # s /\ t \notin G
  BY <1>3
<1>5. IsFiniteSet(s) /\ IsFiniteSet(t)
  BY FS_Subset
<1>6. Cardinality(t) < Cardinality(s) /\ Cardinality(t) \in Nat
  <2>1. Cardinality(t) \in Nat /\ Cardinality(s) \in Nat
    BY <1>5, FS_CardinalityType
  <2>2. Cardinality(t) <= Cardinality(s) /\ Cardinality(s) # Cardinality(t)
    BY <1>4, <1>5, FS_Subset
  <2> QED BY <2>1, <2>2
<1>7. Cardinality(t) \in T
  BY <1>4, <1>6
<1> QED BY <1>2, <1>3, <1>6, <1>7

(* The order is total on distinct records, and transitive.                  *)
LEMMA PrecedesOrders ==
  ASSUME NEW D \in SUBSET Record, NEW key, \A r \in D : key[r] \in Nat
  PROVE  /\ \A r, s \in D : r # s => Precedes(key, r, s) \/ Precedes(key, s, r)
         /\ \A r, s, t \in D : Precedes(key, r, s) /\ Precedes(key, s, t) => Precedes(key, r, t)
<1>1. \A r \in D : r \in Nat
  BY RecordAssumption
<1> QED BY <1>1 DEF Precedes

(* A nonempty set of records has one that comes after all the others.       *)
LEMMA LastExists ==
  ASSUME NEW D \in SUBSET Record, IsFiniteSet(D), NEW key, \A r \in D : key[r] \in Nat
  PROVE  \A s \in SUBSET D : s # {} => \E m \in s : \A r \in s \ {m} : Precedes(key, r, m)
<1> DEFINE Tops(s) == s # {} => \E m \in s : \A r \in s \ {m} : Precedes(key, r, m)
           G == {s \in SUBSET D : Tops(s)}
<1>1. ASSUME NEW s \in SUBSET D, \A t \in SUBSET s : t # s => t \in G
      PROVE  s \in G
  <2> SUFFICES ASSUME NEW x \in s
               PROVE  \E m \in s : \A r \in s \ {m} : Precedes(key, r, m)
    OBVIOUS
  <2> DEFINE t == s \ {x}
  <2>1. t \in G
    BY <1>1
  <2>2. CASE t = {}
    BY <2>2
  <2>3. CASE t # {}
    <3>1. PICK m \in t : \A r \in t \ {m} : Precedes(key, r, m)
      BY <2>1, <2>3
    <3>2. m \in D /\ x \in D /\ m # x
      OBVIOUS
    <3>3. CASE Precedes(key, x, m)
      BY <3>1, <3>3
    <3>4. CASE Precedes(key, m, x)
      <4>1. \A r \in s \ {x} : Precedes(key, r, x)
        BY <3>1, <3>4, PrecedesOrders
      <4> QED BY <4>1
    <3> QED BY <3>2, <3>3, <3>4, PrecedesOrders
  <2> QED BY <2>2, <2>3
<1> HIDE DEF G
<1>2. \A s \in SUBSET D : s \in G
  BY <1>1, SubsetInduction
<1> QED BY <1>2 DEF G

(* Ordered is an arrangement of its records.                                *)
LEMMA OrderedArranges ==
  ASSUME NEW D \in SUBSET Record, IsFiniteSet(D), NEW key, \A r \in D : key[r] \in Nat
  PROVE  /\ Ordered(D, key) \in [1..Cardinality(D) -> D]
         /\ Cardinality(D) \in Nat
         /\ \A i, j \in 1..Cardinality(D) :
              i < j => Precedes(key, Ordered(D, key)[i], Ordered(D, key)[j])
<1> DEFINE Sorted(s, order) ==
             \A i, j \in 1..Cardinality(s) : i < j => Precedes(key, order[i], order[j])
           Has(s) == \E order \in [1..Cardinality(s) -> s] : Sorted(s, order)
           G == {s \in SUBSET D : Has(s)}
<1>1. ASSUME NEW s \in SUBSET D, \A t \in SUBSET s : t # s => t \in G
      PROVE  s \in G
  <2>1. CASE s = {}
    <3>1. Cardinality(s) = 0
      BY <2>1, FS_EmptySet
    <3>2. <<>> \in [1..Cardinality(s) -> s] /\ Sorted(s, <<>>)
      BY <3>1
    <3> QED BY <3>2
  <2>2. CASE s # {}
    <3>1. PICK m \in s : \A r \in s \ {m} : Precedes(key, r, m)
      BY <2>2, LastExists
    <3> DEFINE t == s \ {m}
               n == Cardinality(t)
    <3>2. n \in Nat /\ Cardinality(s) = n + 1
      BY FS_Subset, FS_RemoveElement, FS_CardinalityType
    <3>3. Has(t)
      BY <1>1, <3>1
    <3>4. PICK o \in [1..n -> t] : Sorted(t, o)
      BY <3>3
    <3> HIDE DEF t, n
    <3> DEFINE order == [i \in 1..(n + 1) |-> IF i = n + 1 THEN m ELSE o[i]]
    <3>5. \A i \in 1..n : o[i] \in t /\ t = s \ {m}
      BY <3>4 DEF t
    <3>6. order \in [1..(n + 1) -> s]
      BY <3>2, <3>5
    <3>7. \A i, j \in 1..(n + 1) : i < j => Precedes(key, order[i], order[j])
      <4>1. ASSUME NEW i \in 1..(n + 1), NEW j \in 1..(n + 1), i < j
            PROVE  Precedes(key, order[i], order[j])
        <5>1. i \in 1..n /\ order[i] = o[i]
          BY <3>2, <4>1
        <5>2. CASE j = n + 1
          <6>1. order[j] = m
            BY <5>2
          <6> HIDE DEF order
          <6> QED BY <3>1, <3>5, <5>1, <6>1
        <5>3. CASE j # n + 1
          <6>1. j \in 1..n /\ order[j] = o[j]
            BY <3>2, <5>3
          <6>2. Precedes(key, o[i], o[j])
            BY <3>4, <4>1, <5>1, <6>1 DEF n
          <6> HIDE DEF order
          <6> QED BY <5>1, <6>1, <6>2
        <5> QED BY <5>2, <5>3
      <4> QED BY <4>1
    <3> HIDE DEF order
    <3>8. order \in [1..Cardinality(s) -> s] /\ Sorted(s, order)
      BY <3>2, <3>6, <3>7
    <3> QED BY <3>8
  <2> QED BY <2>1, <2>2
<1>2. \A s \in SUBSET D : s \in G
  <2> HIDE DEF G
  <2> QED BY <1>1, SubsetInduction
<1>3. Has(D)
  BY <1>2
<1>4. Ordered(D, key) \in [1..Cardinality(D) -> D] /\ Sorted(D, Ordered(D, key))
  BY <1>3, Zenon DEF Ordered
<1> QED BY <1>4, FS_CardinalityType

(* Rows and pages whose cells hold values of C; the entries of the cache.     *)
Row(C) == [id : Record, cells : [Field -> C]]
Page(C) == [rows : UNION {[D -> Row(C)] : D \in SUBSET Nat}, total : Nat]

Entry == [data : Page(Int) \cup {NoData}, fetch : Page(Nat) \cup {Idle, Sent},
          late : BOOLEAN, failed : BOOLEAN]

(* Types of the table and the cache.                                        *)
CacheTyped ==
  /\ alive \subseteq Record /\ IsFiniteSet(alive)
  /\ stored \in [Record -> [Field -> Nat]]
  /\ changes \in Nat /\ news \in BOOLEAN
  /\ cache \in [Query -> Entry]
  /\ behind \subseteq Query

(* The writes of the session.                                               *)
Stages == {"sent", "stored", "refused"}
Snapshot == UNION {[Q -> Page(Int) \cup {NoData}] : Q \in SUBSET Query}

WritesTyped ==
  /\ pages \in Nat /\ typed \in Nat
  /\ \A p \in 1..pages : GridQuery(p) \in Query
  /\ waiting \in SUBSET [n : Nat \ {0}, r : Record, f : Typed]
  /\ flight \in SUBSET [n : Nat \ {0}, r : Record, f : Typed, stage : Stages, snap : Snapshot]
  /\ \A w \in flight : DOMAIN w.snap \subseteq OnGrid

(* A cell has one write in flight; what is stored of it is that write's     *)
(* value, or a later one of others or of a paste.                           *)
OnePerCell(writes) == \A w, x \in writes : w.r = x.r /\ w.f = x.f => w = x
StoredOrLater ==
  \A w \in flight : w.stage = "stored" =>
    stored[w.r][w.f] = w.n \/ stored[w.r][w.f] > MaxTyped

(* A page not asked for yet.                                                *)
Unasked(q) == cache[q].data = NoData /\ cache[q].fetch = Idle /\ ~cache[q].failed

(* Something is to come that has the pages fetched again, or left behind.   *)
Due ==
  \/ news
  \/ request # Nothing /\ request.stage = "stored"
  \/ \E w \in flight : w.stage = "stored" /\ MovesRows(w)

(* A query no fetch or failure excuses, and no race the property names.     *)
Settled(q) == cache[q].fetch = Idle /\ q \notin behind /\ ~cache[q].failed

(* A page against the list it should show, the stored cells and the writes  *)
(* in flight: the same rows, and no cell that differs without a write whose *)
(* answer is to come.                                                       *)
SameRows(page, listed) ==
  /\ page.total = listed.total /\ DOMAIN page.rows = DOMAIN listed.rows
  /\ \A i \in DOMAIN page.rows : page.rows[i].id = listed.rows[i].id

Unanswered(r, f, now, writes) ==
  \E w \in writes : /\ w.stage = "stored" /\ w.r = r
                    /\ f \in Answered(w) /\ now[r][f] = w.n
Guessed(r, f, v, writes) ==
  \E w \in writes : w.stage # "stored" /\ w.r = r /\ w.f = f /\ v = Optimistic(w)

Explained(r, f, v, now, writes) ==
  v = now[r][f] \/ Unanswered(r, f, now, writes) \/ Guessed(r, f, v, writes)

Faithful(page, listed, now, writes) ==
  /\ SameRows(page, listed)
  /\ \A i \in DOMAIN page.rows : \A f \in Field :
       Explained(page.rows[i].id, f, page.rows[i].cells[f], now, writes)

(* A write that is refused is undone by its snapshot.                       *)
Guesses(w, page) ==
  \E i \in DOMAIN page.rows : page.rows[i].id = w.r /\ page.rows[i].cells[w.f] = Optimistic(w)
Undoes(w, q, now) ==
  /\ q \in Restorable(w)
  /\ \A j \in DOMAIN w.snap[q].rows :
       w.snap[q].rows[j].id = w.r => w.snap[q].rows[j].cells[w.f] = now[w.r][w.f]
Undoable(page, q, now, writes) ==
  \A w \in writes : w.stage # "stored" /\ Guesses(w, page) => Undoes(w, q, now)

(* What is kept of a page: an answer under way is faithful, and so is the   *)
(* page once nothing excuses it.                                            *)
PageKept(p) ==
  LET q == GridQuery(p)
  IN /\ Served(q) /\ ~cache[q].late => Faithful(cache[q].fetch, Listed(p), stored, flight)
     /\ Settled(q) => /\ cache[q].data # NoData
                      /\ Faithful(cache[q].data, Listed(p), stored, flight)
                      /\ Undoable(cache[q].data, q, stored, flight)

WritesKept == OnePerCell(flight) /\ StoredOrLater
LaterUnasked == \A p \in GridPage : p > pages => Unasked(GridQuery(p))
PagesKept == Due \/ \A p \in 1..pages : PageKept(p)

(* Pastes: the shapes of what is prepared, offered and sent, and what is    *)
(* kept of the numbers of the pastes in each place.                         *)
IsBlock(b) ==
  b \in [n : 1..pastes, rows : {b.rows}, scope : {b.scope}, attempted : BOOLEAN, old : BOOLEAN]
IsRequest(b) ==
  /\ b \in [n : 1..pastes, op : {b.op}, stage : {"sent", "stored"}, generation : 0..generation]
  /\ IsBlock(b.op) /\ b.op.n = b.n /\ ~b.op.old
IsPreparation(b) ==
  b \in [n : 1..pastes, anchor : {b.anchor}, loads : {b.loads}, at : {b.at}]

PasteTyped ==
  /\ pastes \in 0..MaxPastes /\ generation \in Nat
  /\ written \in [1..MaxPastes -> Nat] /\ withdrawn \subseteq 1..pastes
  /\ pending = Nothing \/ IsBlock(pending)
  /\ request = Nothing \/ IsRequest(request)
  /\ preparation = Nothing \/ IsPreparation(preparation)

(* A paste whose receipt is gone is in no request, and offered only as old; *)
(* what was withdrawn is neither offered nor in a request that may still    *)
(* speak for the user.                                                      *)
PasteKept ==
  /\ \A n \in 1..MaxPastes :
       /\ written[n] <= 1
       /\ written[n] > 0 => n <= pastes
       /\ written[n] > 0 /\ n \notin receipts =>
            request.n # n /\ (pending.n = n => pending.old)
  /\ preparation # Nothing =>
       /\ pending = Nothing /\ request = Nothing
       /\ written[preparation.n] = 0 /\ preparation.n \notin withdrawn
  /\ request # Nothing /\ pending # Nothing => pending.n = request.n /\ Mine
  /\ request # Nothing /\ Mine => request.n \notin withdrawn
  /\ pending.n \notin withdrawn

(* Moves of cards; the session shows the grid or the board, never both.     *)
MovesTyped ==
  /\ lanePages \in [Lane -> 0..MaxLanePages]
  /\ moves \in SUBSET [n : Nat, r : Record, to : Lane, board : Nat,
                       stage : {"sent", "stored", "refreshing"}]
  /\ moved \in Nat /\ board \in Nat
  /\ \A l \in Lane : IF pages = 0 THEN lanePages[l] > 0 ELSE lanePages[l] = 0

(* What is kept of the pages of the lanes: here nothing is guessed.         *)
LanesDue == news \/ \E m \in moves : m.stage = "stored"
LaneKept(l, p) ==
  LET q == LaneQuery(l, p)
  IN /\ Served(q) /\ ~cache[q].late => cache[q].fetch = LanePage(l, p)
     /\ Settled(q) => cache[q].data = LanePage(l, p)
BoardKept == LanesDue \/ \A l \in Lane : \A p \in 1..lanePages[l] : LaneKept(l, p)

-----------------------------------------------------------------------------
(* A page, taken apart.                                                     *)
LEMMA PageShape ==
  ASSUME NEW C, NEW P
  PROVE  P \in Page(C) <=>
           /\ P = [rows |-> P.rows, total |-> P.total] /\ P.total \in Nat
           /\ DOMAIN P.rows \subseteq Nat
           /\ P.rows = [i \in DOMAIN P.rows |-> P.rows[i]]
           /\ \A i \in DOMAIN P.rows : P.rows[i] \in Row(C)
<1>1. ASSUME P \in Page(C)
      PROVE  /\ P = [rows |-> P.rows, total |-> P.total] /\ P.total \in Nat
             /\ DOMAIN P.rows \subseteq Nat
             /\ P.rows = [i \in DOMAIN P.rows |-> P.rows[i]]
             /\ \A i \in DOMAIN P.rows : P.rows[i] \in Row(C)
  <2>1. PICK D \in SUBSET Nat : P.rows \in [D -> Row(C)]
    BY <1>1 DEF Page
  <2>2. P = [rows |-> P.rows, total |-> P.total] /\ P.total \in Nat
    BY <1>1 DEF Page
  <2> QED BY <2>1, <2>2
<1>2. ASSUME /\ P = [rows |-> P.rows, total |-> P.total] /\ P.total \in Nat
             /\ DOMAIN P.rows \subseteq Nat
             /\ P.rows = [i \in DOMAIN P.rows |-> P.rows[i]]
             /\ \A i \in DOMAIN P.rows : P.rows[i] \in Row(C)
      PROVE  P \in Page(C)
  <2>1. P.rows \in [DOMAIN P.rows -> Row(C)]
    BY <1>2
  <2>2. P.rows \in UNION {[D -> Row(C)] : D \in SUBSET Nat}
    BY <1>2, <2>1
  <2>3. [rows |-> P.rows, total |-> P.total] \in Page(C)
    BY <1>2, <2>2 DEF Page
  <2> QED BY <1>2, <2>3, Zenon
<1> QED BY <1>1, <1>2

(* A page is told from what stands where a page would.                      *)
LEMMA PagesApart ==
  ASSUME NEW C, NEW P \in Page(C)
  PROVE  P # NoData /\ P # Idle /\ P # Sent
<1>1. P.total \in Nat
  BY PageShape
<1> QED BY <1>1 DEF NoData, Idle, Sent

LEMMA ServedIsPage ==
  /\ Page(Nat) \subseteq Page(Int)
  /\ NoData # Idle /\ NoData # Sent /\ Idle # Sent
<1>1. ASSUME NEW P \in Page(Nat) PROVE P \in Page(Int)
  <2>1. ASSUME NEW row \in Row(Nat) PROVE row \in Row(Int)
    BY <2>1 DEF Row
  <2>2. \A i \in DOMAIN P.rows : P.rows[i] \in Row(Nat)
    BY PageShape
  <2> QED BY <2>1, <2>2, PageShape
<1> QED BY <1>1 DEF NoData, Idle, Sent

(* A page of an answer is typed, and shows the stored cells of its rows.    *)
LEMMA PageOfIs ==
  ASSUME NEW n \in Nat, NEW order \in [1..n -> Record], NEW offset \in Nat, NEW limit \in Nat,
         CacheTyped
  PROVE  /\ PageOf(order, offset, limit) \in Page(Nat)
         /\ PageOf(order, offset, limit).total = n
         /\ \A i \in DOMAIN PageOf(order, offset, limit).rows :
              PageOf(order, offset, limit).rows[i].cells
                = stored[PageOf(order, offset, limit).rows[i].id]
<1> DEFINE last == IF offset + limit < Len(order) THEN offset + limit ELSE Len(order)
           window == SubSeq(order, offset + 1, last)
           P == PageOf(order, offset, limit)
<1>1. Len(order) = n
  OBVIOUS
<1>2. last \in Nat /\ last <= n
  BY <1>1
<1> HIDE DEF last
<1>3. \A i \in (offset + 1)..last : order[i] \in Record
  BY <1>2
<1>4. window \in Seq(Record)
  BY <1>2, <1>3, SubSeqProperties
<1>5. DOMAIN window \subseteq Nat /\ \A i \in DOMAIN window : window[i] \in Record
  <2> HIDE DEF window
  <2>1. DOMAIN window = 1..Len(window) /\ Len(window) \in Nat
    BY <1>4
  <2> QED BY <1>4, <2>1
<1>6. P = [rows |-> [i \in DOMAIN window |-> [id |-> window[i], cells |-> stored[window[i]]]],
           total |-> n]
  BY <1>1 DEF PageOf, last
<1> HIDE DEF window, P
<1>7. \A r \in Record : stored[r] \in [Field -> Nat]
  BY DEF CacheTyped
<1>8. \A i \in DOMAIN P.rows : P.rows[i] \in Row(Nat)
  BY <1>5, <1>6, <1>7 DEF Row
<1>9. P \in Page(Nat)
  BY <1>5, <1>6, <1>8, PageShape
<1> QED BY <1>6, <1>9 DEF P

-----------------------------------------------------------------------------
(****************************************************************************)
(* What the server answers, and what a patch makes of it.                   *)
(****************************************************************************)

(* What the server would answer now for a page of the grid.                 *)
LEMMA ListedIs ==
  ASSUME CacheTyped, NEW p \in Nat \ {0}
  PROVE  /\ Listed(p) \in Page(Nat)
         /\ \A i \in DOMAIN Listed(p).rows : Listed(p).rows[i].cells = stored[Listed(p).rows[i].id]
<1>1. \A r \in alive : SortKey[r] \in Nat
  <2>1. \A r \in Record : stored[r] \in [Field -> Nat]
    BY DEF CacheTyped
  <2> QED BY <2>1 DEF CacheTyped, SortKey
<1> DEFINE order == Ordered(alive, SortKey)
<1>2. order \in [1..Cardinality(alive) -> alive] /\ Cardinality(alive) \in Nat
  BY <1>1, OrderedArranges DEF CacheTyped
<1> HIDE DEF order
<1>3. order \in [1..Cardinality(alive) -> Record]
  BY <1>2 DEF CacheTyped
<1>4. (p - 1) * PageSize \in Nat /\ PageSize \in Nat
  BY GridAssumption
<1> DEFINE offset == (p - 1) * PageSize
           n == Cardinality(alive)
           P == PageOf(order, offset, PageSize)
<1>5. n \in Nat /\ order \in [1..n -> Record] /\ offset \in Nat
  BY <1>2, <1>3, <1>4
<1> HIDE DEF offset, n
<1>6. P \in Page(Nat) /\ \A i \in DOMAIN P.rows : P.rows[i].cells = stored[P.rows[i].id]
  <2>1. P \in Page(Nat)
    BY <1>4, <1>5, PageOfIs
  <2>2. \A i \in DOMAIN P.rows : P.rows[i].cells = stored[P.rows[i].id]
    BY <1>4, <1>5, PageOfIs, SMTT(30)
  <2> QED BY <2>1, <2>2
<1>7. Listed(p) = P
  BY DEF Listed, order, offset
<1> HIDE DEF P
<1> QED BY <1>6, <1>7

(* And for a page of a lane.                                                *)
LEMMA LanePageIs ==
  ASSUME CacheTyped, NEW l, NEW p \in Nat \ {0}
  PROVE  LanePage(l, p) \in Page(Nat)
<1> DEFINE cards == {r \in alive : stored[r][StatusField] = l}
           key == [r \in cards |-> 0]
           order == Ordered(cards, key)
<1>1. cards \in SUBSET Record /\ IsFiniteSet(cards) /\ \A r \in cards : key[r] \in Nat
  BY FS_Subset DEF CacheTyped
<1> HIDE DEF cards, key
<1>2. order \in [1..Cardinality(cards) -> cards] /\ Cardinality(cards) \in Nat
  BY <1>1, OrderedArranges
<1> HIDE DEF order
<1>3. order \in [1..Cardinality(cards) -> Record]
  BY <1>1, <1>2
<1>4. (p - 1) * LaneSize \in Nat /\ LaneSize \in Nat
  BY BoardAssumption
<1> DEFINE offset == (p - 1) * LaneSize
           n == Cardinality(cards)
<1> HIDE DEF offset, n
<1>5. PageOf(order, offset, LaneSize) \in Page(Nat)
  BY <1>2, <1>3, <1>4, PageOfIs DEF offset, n
<1> QED BY <1>5 DEF LanePage, order, offset, cards, key

(* While neither the records nor their sort keys change, pages list the     *)
(* same rows.                                                               *)
LEMMA ListedKeepsRows ==
  ASSUME alive' = alive, SortKey' = SortKey, NEW p
  PROVE  /\ Listed(p)'.total = Listed(p).total
         /\ DOMAIN Listed(p)'.rows = DOMAIN Listed(p).rows
         /\ \A i \in DOMAIN Listed(p).rows : Listed(p)'.rows[i].id = Listed(p).rows[i].id
<1>1. Ordered(alive, SortKey)' = Ordered(alive, SortKey)
  <2>1. Ordered(alive, SortKey)' = Ordered(alive', SortKey')
    BY DEF Ordered, Precedes
  <2> QED BY <2>1, Zenon
<1> QED BY <1>1 DEF Listed, PageOf

(* The sort keys depend on the cells of the sort field only.                *)
LEMMA SortKeyFrame ==
  ASSUME \/ stored' = stored
         \/ SortField \in Field => \A r \in Record : stored'[r][SortField] = stored[r][SortField]
  PROVE  SortKey' = SortKey
  BY DEF SortKey

(* A patch changes the named cells of one record, and nothing else.         *)
LEMMA PatchIs ==
  ASSUME NEW C, NEW P \in Page(C), NEW r, NEW F, NEW v \in C
  PROVE  /\ Patch(P, r, F, v) \in Page(C)
         /\ Patch(P, r, F, v).total = P.total
         /\ DOMAIN Patch(P, r, F, v).rows = DOMAIN P.rows
         /\ \A i \in DOMAIN P.rows :
              /\ Patch(P, r, F, v).rows[i].id = P.rows[i].id
              /\ \A f \in Field :
                   Patch(P, r, F, v).rows[i].cells[f] =
                     IF P.rows[i].id = r /\ f \in F THEN v ELSE P.rows[i].cells[f]
<1> DEFINE patched(row) == [row EXCEPT !.cells = [f \in Field |-> IF f \in F THEN v ELSE @[f]]]
           rows == [i \in DOMAIN P.rows |->
                      IF P.rows[i].id = r THEN patched(P.rows[i]) ELSE P.rows[i]]
<1>1. /\ P = [rows |-> P.rows, total |-> P.total] /\ P.total \in Nat
      /\ DOMAIN P.rows \subseteq Nat
      /\ \A i \in DOMAIN P.rows : P.rows[i] \in Row(C)
  BY PageShape
<1>2. Patch(P, r, F, v) = [rows |-> rows, total |-> P.total]
  BY <1>1 DEF Patch
<1>3. ASSUME NEW row \in Row(C)
      PROVE  /\ patched(row) \in Row(C) /\ patched(row).id = row.id
             /\ \A f \in Field : patched(row).cells[f] = IF f \in F THEN v ELSE row.cells[f]
  BY <1>3 DEF Row
<1>4. \A i \in DOMAIN P.rows :
        /\ rows[i] \in Row(C) /\ rows[i].id = P.rows[i].id
        /\ \A f \in Field :
             rows[i].cells[f] = IF P.rows[i].id = r /\ f \in F THEN v ELSE P.rows[i].cells[f]
  <2> SUFFICES ASSUME NEW i \in DOMAIN P.rows
               PROVE  /\ rows[i] \in Row(C) /\ rows[i].id = P.rows[i].id
                      /\ \A f \in Field : rows[i].cells[f] =
                           IF P.rows[i].id = r /\ f \in F THEN v ELSE P.rows[i].cells[f]
    OBVIOUS
  <2>1. P.rows[i] \in Row(C)
    BY <1>1
  <2>2. rows[i] = IF P.rows[i].id = r THEN patched(P.rows[i]) ELSE P.rows[i]
    OBVIOUS
  <2>3. /\ patched(P.rows[i]) \in Row(C) /\ patched(P.rows[i]).id = P.rows[i].id
        /\ \A f \in Field :
             patched(P.rows[i]).cells[f] = IF f \in F THEN v ELSE P.rows[i].cells[f]
    BY <1>3, <2>1
  <2> HIDE DEF patched, rows
  <2> QED BY <2>1, <2>2, <2>3
<1>5. DOMAIN rows = DOMAIN P.rows /\ rows = [i \in DOMAIN rows |-> rows[i]]
  OBVIOUS
<1> HIDE DEF rows
<1>6. [rows |-> rows, total |-> P.total] \in Page(C)
  BY <1>1, <1>4, <1>5, PageShape
<1> QED BY <1>2, <1>4, <1>5, <1>6

(* Pages with the same rows and cells are equal.                            *)
LEMMA PageEqual ==
  ASSUME NEW C, NEW P \in Page(C), NEW Q \in Page(C),
         P.total = Q.total, DOMAIN P.rows = DOMAIN Q.rows,
         \A i \in DOMAIN P.rows : /\ P.rows[i].id = Q.rows[i].id
                                  /\ \A f \in Field : P.rows[i].cells[f] = Q.rows[i].cells[f]
  PROVE  P = Q
<1>1. ASSUME NEW i \in DOMAIN P.rows PROVE P.rows[i] = Q.rows[i]
  <2>1. P.rows[i] \in Row(C) /\ Q.rows[i] \in Row(C)
    BY PageShape
  <2>2. P.rows[i].cells = Q.rows[i].cells
    BY <2>1 DEF Row
  <2> QED BY <2>1, <2>2 DEF Row
<1>2. P.rows = Q.rows
  <2>1. P.rows = [i \in DOMAIN P.rows |-> P.rows[i]] /\ Q.rows = [i \in DOMAIN Q.rows |-> Q.rows[i]]
    BY PageShape
  <2>2. [i \in DOMAIN P.rows |-> P.rows[i]] = [i \in DOMAIN Q.rows |-> Q.rows[i]]
    BY <1>1
  <2> QED BY <2>1, <2>2, Zenon
<1>3. P = [rows |-> P.rows, total |-> P.total] /\ Q = [rows |-> Q.rows, total |-> Q.total]
  BY PageShape
<1> QED BY <1>2, <1>3

-----------------------------------------------------------------------------
(****************************************************************************)
(* Pages divide the table.                                                  *)
(****************************************************************************)

(* It lists every record once, earlier ones before later ones.              *)
LEMMA OrderedSorts ==
  ASSUME NEW D \in SUBSET Record, IsFiniteSet(D), NEW key, \A r \in D : key[r] \in Nat
  PROVE  LET order == Ordered(D, key)
             n == Cardinality(D)
         IN /\ \A i, j \in 1..n : order[i] = order[j] => i = j
            /\ \A r \in D : \E i \in 1..n : order[i] = r
<1> DEFINE n == Cardinality(D)
           order == Ordered(D, key)
<1>1. /\ order \in [1..n -> D] /\ n \in Nat
      /\ \A i, j \in 1..n : i < j => Precedes(key, order[i], order[j])
  BY OrderedArranges
<1> HIDE DEF order
<1>2. ASSUME NEW i \in 1..n, NEW j \in 1..n, order[i] = order[j] PROVE i = j
  <2>1. \A r \in D : ~Precedes(key, r, r)
    BY RecordAssumption DEF Precedes
  <2>2. ~(i < j) /\ ~(j < i)
    BY <1>1, <1>2, <2>1
  <2> QED BY <1>1, <2>2
<1>3. order \in Injection(1..n, D)
  BY <1>1, <1>2, Zenon DEF Injection, IsInjective
<1>4. IsFiniteSet(1..n) /\ Cardinality(1..n) = n
  BY <1>1, FS_Interval
<1>5. order \in Surjection(1..n, D)
  BY <1>3, <1>4, FS_Injection
<1>6. \A r \in D : \E i \in 1..n : order[i] = r
  BY <1>5, Zenon DEF Surjection
<1> QED BY <1>2, <1>6 DEF order

(* Windows of one length, one after the other, hold each position once.     *)
LEMMA WindowsDivide ==
  ASSUME NEW size \in Nat \ {0}, NEW k \in Nat \ {0}
  PROVE  \E p \in Nat \ {0} : (p - 1) * size + 1 <= k /\ k <= p * size
<1> DEFINE T == {p \in Nat : k <= p * size}
<1>1. k \in T
  <2>1. k <= k * size
    OBVIOUS
  <2> QED BY <2>1
<1>2. PICK p \in T : \A m \in T : p <= m
  BY <1>1, LeastNumber
<1>3. p # 0
  <2>1. 0 * size = 0
    OBVIOUS
  <2> QED BY <1>2, <2>1
<1>4. p - 1 \notin T /\ p - 1 \in Nat
  BY <1>2, <1>3
<1>5. (p - 1) * size \in Nat
  BY <1>4
<1> QED BY <1>2, <1>3, <1>4, <1>5

LEMMA WindowsApart ==
  ASSUME NEW size \in Nat \ {0}, NEW p \in Nat \ {0}, NEW s \in Nat \ {0}, NEW k \in Nat,
         (p - 1) * size + 1 <= k, k <= p * size, (s - 1) * size + 1 <= k, k <= s * size
  PROVE  p = s
<1>1. ASSUME NEW a \in Nat, NEW b \in Nat \ {0}, a <= b - 1 PROVE a * size <= (b - 1) * size
  <2>1. PICK c \in Nat : b - 1 = a + c
    <3>1. b - 1 - a \in Nat /\ b - 1 = a + (b - 1 - a)
      BY <1>1
    <3> QED BY <3>1
  <2>2. (a + c) * size = a * size + c * size /\ c * size \in Nat /\ a * size \in Nat
    OBVIOUS
  <2> QED BY <2>1, <2>2
<1>2. ~(p < s)
  <2>1. p <= s - 1 => p * size <= (s - 1) * size
    BY <1>1
  <2>2. p * size \in Nat /\ (s - 1) * size \in Nat
    OBVIOUS
  <2> QED BY <2>1, <2>2
<1>3. ~(s < p)
  <2>1. s <= p - 1 => s * size <= (p - 1) * size
    BY <1>1
  <2>2. s * size \in Nat /\ (p - 1) * size \in Nat
    OBVIOUS
  <2> QED BY <2>1, <2>2
<1> QED BY <1>2, <1>3

(* The rows of a page, by their place in the order.                         *)
LEMMA WindowOf ==
  ASSUME NEW n \in Nat, NEW order \in [1..n -> Record], NEW p \in Nat \ {0},
         NEW size \in Nat \ {0}
  PROVE  LET P == PageOf(order, (p - 1) * size, size)
         IN /\ \A i \in DOMAIN P.rows :
                 /\ i \in Nat \ {0} /\ (p - 1) * size + i \in 1..n
                 /\ (p - 1) * size + i <= p * size
                 /\ P.rows[i].id = order[(p - 1) * size + i]
            /\ \A k \in 1..n : (p - 1) * size + 1 <= k /\ k <= p * size =>
                 k - (p - 1) * size \in DOMAIN P.rows
<1> DEFINE offset == (p - 1) * size
           last == IF offset + size < Len(order) THEN offset + size ELSE Len(order)
           window == SubSeq(order, offset + 1, last)
           P == PageOf(order, offset, size)
<1>1. offset \in Nat /\ offset + size = p * size /\ Len(order) = n
  OBVIOUS
<1>2. last \in Nat /\ last <= n /\ last <= p * size /\ (last = n \/ last = p * size)
  BY <1>1
<1> HIDE DEF offset, last
<1>3. \A i \in (offset + 1)..last : order[i] \in Record
  BY <1>1, <1>2
<1>4. /\ Len(window) = IF offset + 1 <= last THEN last - (offset + 1) + 1 ELSE 0
      /\ window \in Seq(Record)
      /\ \A i \in 1..(last - (offset + 1) + 1) : window[i] = order[offset + 1 + i - 1]
  BY <1>1, <1>2, <1>3, SubSeqProperties
<1>5. P.rows = [i \in DOMAIN window |-> [id |-> window[i], cells |-> stored[window[i]]]]
  BY DEF PageOf, last
<1> HIDE DEF window, P
<1>6. DOMAIN P.rows = 1..Len(window) /\ \A i \in DOMAIN P.rows : P.rows[i].id = window[i]
  BY <1>4, <1>5
<1>7. \A i \in DOMAIN P.rows :
        /\ i \in Nat \ {0} /\ offset + i \in 1..n /\ offset + i <= p * size
        /\ P.rows[i].id = order[offset + i]
  <2> SUFFICES ASSUME NEW i \in DOMAIN P.rows
               PROVE  /\ i \in Nat \ {0} /\ offset + i \in 1..n /\ offset + i <= p * size
                      /\ P.rows[i].id = order[offset + i]
    OBVIOUS
  <2>1. i \in 1..(last - (offset + 1) + 1) /\ i \in Nat \ {0}
    BY <1>1, <1>2, <1>4, <1>6
  <2>2. offset + 1 + i - 1 = offset + i
    BY <1>1, <2>1
  <2>3. P.rows[i].id = order[offset + i]
    BY <1>4, <1>6, <2>1, <2>2
  <2>4. offset + i <= last
    BY <1>1, <1>2, <2>1
  <2> QED BY <1>1, <1>2, <2>1, <2>3, <2>4
<1>8. \A k \in 1..n : offset + 1 <= k /\ k <= p * size => k - offset \in DOMAIN P.rows
  BY <1>1, <1>2, <1>4, <1>6
<1> QED BY <1>7, <1>8 DEF P, offset

(* Every record is on one page, in one row: none is shown twice, and none   *)
(* is skipped, by the pages of a view at a moment.                          *)
PagesDivideTheTable ==
  /\ \A p, s \in Nat \ {0} : \A i \in DOMAIN Listed(p).rows, j \in DOMAIN Listed(s).rows :
       Listed(p).rows[i].id = Listed(s).rows[j].id => p = s /\ i = j
  /\ \A r \in alive : \E p \in Nat \ {0} : Shows(Listed(p), r)

(* The pages of the grid are windows of the ordered records.                *)
LEMMA ListedDivides ==
  ASSUME CacheTyped
  PROVE  PagesDivideTheTable
<1> DEFINE n == Cardinality(alive)
           order == Ordered(alive, SortKey)
<1>1. alive \in SUBSET Record /\ IsFiniteSet(alive) /\ \A r \in alive : SortKey[r] \in Nat
  <2>1. \A r \in Record : stored[r] \in [Field -> Nat]
    BY DEF CacheTyped
  <2> QED BY <2>1 DEF CacheTyped, SortKey
<1>2. /\ order \in [1..n -> alive] /\ n \in Nat
      /\ \A i, j \in 1..n : order[i] = order[j] => i = j
      /\ \A r \in alive : \E i \in 1..n : order[i] = r
  BY <1>1, OrderedArranges, OrderedSorts
<1> HIDE DEF n, order
<1>3. order \in [1..n -> Record]
  BY <1>1, <1>2
<1>4. PageSize \in Nat \ {0}
  BY GridAssumption
<1>5. \A p \in Nat \ {0} : Listed(p) = PageOf(order, (p - 1) * PageSize, PageSize)
  BY DEF Listed, order
<1>6. ASSUME NEW p \in Nat \ {0}
      PROVE  /\ \A i \in DOMAIN Listed(p).rows :
                  /\ i \in Nat \ {0} /\ (p - 1) * PageSize + i \in 1..n
                  /\ (p - 1) * PageSize + i <= p * PageSize
                  /\ Listed(p).rows[i].id = order[(p - 1) * PageSize + i]
             /\ \A k \in 1..n : (p - 1) * PageSize + 1 <= k /\ k <= p * PageSize =>
                  k - (p - 1) * PageSize \in DOMAIN Listed(p).rows
  <2> DEFINE P == PageOf(order, (p - 1) * PageSize, PageSize)
  <2>1. /\ \A i \in DOMAIN P.rows :
             /\ i \in Nat \ {0} /\ (p - 1) * PageSize + i \in 1..n
             /\ (p - 1) * PageSize + i <= p * PageSize
             /\ P.rows[i].id = order[(p - 1) * PageSize + i]
        /\ \A k \in 1..n : (p - 1) * PageSize + 1 <= k /\ k <= p * PageSize =>
             k - (p - 1) * PageSize \in DOMAIN P.rows
    BY <1>2, <1>3, <1>4, WindowOf
  <2>2. Listed(p) = P
    BY <1>5
  <2> HIDE DEF P
  <2> QED BY <2>1, <2>2
<1>7. ASSUME NEW p \in Nat \ {0}, NEW s \in Nat \ {0},
             NEW i \in DOMAIN Listed(p).rows, NEW j \in DOMAIN Listed(s).rows,
             Listed(p).rows[i].id = Listed(s).rows[j].id
      PROVE  p = s /\ i = j
  <2> DEFINE a == (p - 1) * PageSize
             b == (s - 1) * PageSize
             c == p * PageSize
             d == s * PageSize
  <2>1. /\ i \in Nat \ {0} /\ a + i \in 1..n /\ a + i <= c
        /\ Listed(p).rows[i].id = order[a + i]
    BY <1>6
  <2>2. /\ j \in Nat \ {0} /\ b + j \in 1..n /\ b + j <= d
        /\ Listed(s).rows[j].id = order[b + j]
    BY <1>6
  <2>3. a + i = b + j
    <3> HIDE DEF a, b
    <3> QED BY <1>2, <1>7, <2>1, <2>2
  <2>4. a \in Nat /\ b \in Nat /\ c \in Nat /\ d \in Nat
    BY <1>4
  <2> HIDE DEF a, b, c, d
  <2>5. /\ a + i \in Nat /\ a + 1 <= a + i /\ a + i <= c
        /\ b + 1 <= a + i /\ a + i <= d
    BY <2>1, <2>2, <2>3, <2>4
  <2>6. p = s
    BY <1>4, <2>5, WindowsApart DEF a, b, c, d
  <2>7. a = b
    BY <2>6 DEF a, b
  <2>8. i = j
    BY <2>1, <2>2, <2>3, <2>4, <2>7
  <2> QED BY <2>6, <2>8
<1>8. ASSUME NEW r \in alive
      PROVE  \E p \in Nat \ {0} : Shows(Listed(p), r)
  <2>1. PICK k \in 1..n : order[k] = r
    BY <1>2
  <2>2. k \in Nat \ {0}
    BY <1>2
  <2>3. PICK p \in Nat \ {0} : (p - 1) * PageSize + 1 <= k /\ k <= p * PageSize
    BY <1>4, <2>2, WindowsDivide
  <2> DEFINE a == (p - 1) * PageSize
             i == k - a
  <2>4. a \in Nat
    BY <1>4
  <2>5. i \in DOMAIN Listed(p).rows
    BY <1>6, <2>3
  <2>6. Listed(p).rows[i].id = order[a + i]
    BY <1>6, <2>5
  <2> HIDE DEF a
  <2>7. a + i = k
    BY <2>2, <2>4
  <2> HIDE DEF i
  <2> QED BY <2>1, <2>5, <2>6, <2>7 DEF Shows
<1> QED BY <1>7, <1>8 DEF PagesDivideTheTable

-----------------------------------------------------------------------------
(****************************************************************************)
(* The entries of the cache, and the steps on them.                         *)
(****************************************************************************)

(* What an entry may hold as its data.                                      *)
AnyData == Page(Int) \cup {NoData}

(* The operations on an entry of the cache: what they keep of it, and what  *)
(* they set.                                                                *)
LEMMA Asks ==
  ASSUME NEW e \in Entry
  PROVE  Asked(e) \in Entry /\ Asked(e).fetch = Sent
  BY DEF Entry, Asked

LEMMA Cancels ==
  ASSUME NEW e \in Entry
  PROVE  /\ Cancelled(e) \in Entry /\ Cancelled(e).fetch = Idle
         /\ Cancelled(e).data = e.data /\ Cancelled(e).failed = e.failed
  BY DEF Entry, Cancelled

LEMMA SetsData ==
  ASSUME NEW e \in Entry, NEW d \in AnyData
  PROVE  /\ SetData(e, d) \in Entry /\ SetData(e, d).data = d
         /\ SetData(e, d).fetch = e.fetch /\ SetData(e, d).late = e.late
         /\ ~SetData(e, d).failed
  BY DEF Entry, SetData, AnyData

LEMMA MarksLate ==
  ASSUME NEW e \in Entry, NEW b \in BOOLEAN
  PROVE  /\ [e EXCEPT !.late = b] \in Entry /\ [e EXCEPT !.late = b].late = b
         /\ [e EXCEPT !.late = b].data = e.data /\ [e EXCEPT !.late = b].fetch = e.fetch
         /\ [e EXCEPT !.late = b].failed = e.failed
  BY DEF Entry

LEMMA Answers ==
  ASSUME NEW e \in Entry, NEW f \in Page(Nat)
  PROVE  /\ [e EXCEPT !.fetch = f] \in Entry /\ [e EXCEPT !.fetch = f].fetch = f
         /\ [e EXCEPT !.fetch = f].late = e.late
  BY DEF Entry

LEMMA FreshEntry ==
  NotAsked \in Entry /\ NotAsked.data = NoData /\ NotAsked.fetch = Idle
  /\ ~NotAsked.late /\ ~NotAsked.failed
  BY DEF NotAsked, Entry

LEMMA PutsData ==
  ASSUME NEW e \in Entry, NEW d \in AnyData
  PROVE  /\ [e EXCEPT !.data = d] \in Entry
         /\ [e EXCEPT !.data = d].data = d /\ [e EXCEPT !.data = d].fetch = e.fetch
         /\ [e EXCEPT !.data = d].late = e.late /\ [e EXCEPT !.data = d].failed = e.failed
  BY DEF Entry, AnyData

LEMMA GivesUp ==
  ASSUME NEW e \in Entry, NEW d \in AnyData
  PROVE  /\ [e EXCEPT !.data = d, !.failed = TRUE] \in Entry
         /\ [e EXCEPT !.data = d, !.failed = TRUE].fetch = e.fetch
         /\ [e EXCEPT !.data = d, !.failed = TRUE].data = d
         /\ [e EXCEPT !.data = d, !.failed = TRUE].failed
  BY DEF Entry, AnyData

(* The parts of an entry.                                                   *)
LEMMA EntryParts ==
  ASSUME NEW e \in Entry
  PROVE  /\ e.data \in AnyData /\ e.fetch \in Page(Nat) \cup {Idle, Sent}
         /\ e.late \in BOOLEAN /\ e.failed \in BOOLEAN
         /\ e.fetch \notin {Idle, Sent} => e.fetch \in Page(Nat)
         /\ e.data # NoData => e.data \in Page(Int)
  BY DEF Entry, AnyData

(* An answer marks a fetch late unless the fetch already brings what it     *)
(* says.                                                                    *)
LEMMA OutrunIs ==
  ASSUME NEW w, NEW e \in Entry
  PROVE  /\ Outrun(w, e) \in Entry
         /\ Outrun(w, e).data = e.data /\ Outrun(w, e).fetch = e.fetch
         /\ Outrun(w, e).failed = e.failed
         /\ ~Outrun(w, e).late =>
              /\ ~e.late
              /\ e.fetch \notin {Idle, Sent} /\ w.stage = "stored" =>
                   ~MovesRows(w) /\ Reconciled(w, e.fetch) = e.fetch
         /\ w.stage # "stored" => Outrun(w, e) = e
<1> DEFINE over == (/\ e.fetch \notin {Idle, Sent}
                    /\ w.stage = "stored"
                    /\ MovesRows(w) \/ Reconciled(w, e.fetch) # e.fetch)
           late == e.late \/ over
<1>1. late \in BOOLEAN /\ e.late \in BOOLEAN
  BY EntryParts
<1>2. Outrun(w, e) = [e EXCEPT !.late = late]
  BY DEF Outrun
<1>3. over \in BOOLEAN
  OBVIOUS
<1>4. w.stage # "stored" => ~over
  OBVIOUS
<1>5. ~over /\ e.fetch \notin {Idle, Sent} /\ w.stage = "stored" =>
        ~MovesRows(w) /\ Reconciled(w, e.fetch) = e.fetch
  OBVIOUS
<1> HIDE DEF over
<1>6. w.stage # "stored" => Outrun(w, e) = e
  <2>1. w.stage # "stored" => late = e.late
    BY <1>1, <1>4
  <2> HIDE DEF late
  <2>2. [e EXCEPT !.late = e.late] = e
    BY DEF Entry
  <2> QED BY <1>2, <2>1, <2>2
<1>7. ~late => ~e.late /\ ~over
  BY <1>1, <1>3
<1> HIDE DEF late
<1> QED BY <1>1, <1>2, <1>5, <1>6, <1>7, MarksLate

(* What an invalidation leaves of a query of Q: a fetch not answered yet,   *)
(* or one that is marked late.                                              *)
Redone(e) == e.fetch # Idle /\ (e.fetch = Sent \/ e.late)

(* Every query of Q is fetched again or its fetch marked late; no other     *)
(* changes.                                                                 *)
LEMMA RefetchedIs ==
  ASSUME cache \in [Query -> Entry], NEW entries \in [Query -> Entry], NEW Q,
         \A q \in Query : entries[q].fetch = cache[q].fetch
  PROVE  /\ Refetched(entries, Q) \in [Query -> Entry]
         /\ \A q \in Query \ Q : Refetched(entries, Q)[q] = entries[q]
         /\ \A q \in Query \cap Q : Redone(Refetched(entries, Q)[q])
<1> SUFFICES ASSUME NEW q \in Query
             PROVE  /\ Refetched(entries, Q)[q] \in Entry
                    /\ q \notin Q => Refetched(entries, Q)[q] = entries[q]
                    /\ q \in Q => Redone(Refetched(entries, Q)[q])
  BY DEF Refetched
<1>1. entries[q] \in Entry /\ cache[q] \in Entry /\ entries[q].fetch = cache[q].fetch
  OBVIOUS
<1>2. CASE q \notin Q
  BY <1>1, <1>2 DEF Refetched
<1>3. CASE q \in Q /\ JoinsFirstFetch(q)
  <2> DEFINE late == entries[q].late \/ Served(q)
  <2>1. late \in BOOLEAN /\ (Served(q) => late)
    BY <1>1, EntryParts
  <2>2. Refetched(entries, Q)[q] = [entries[q] EXCEPT !.late = late]
    BY <1>3 DEF Refetched
  <2> HIDE DEF late
  <2>3. [entries[q] EXCEPT !.late = late] \in Entry
        /\ [entries[q] EXCEPT !.late = late].late = late
        /\ [entries[q] EXCEPT !.late = late].fetch = entries[q].fetch
    BY <1>1, <2>1, MarksLate
  <2>4. cache[q].fetch # Idle
    BY <1>3 DEF JoinsFirstFetch, InFlight
  <2> QED BY <1>1, <1>3, <2>1, <2>2, <2>3, <2>4 DEF Redone, Served
<1>4. CASE q \in Q /\ ~JoinsFirstFetch(q)
  <2>1. Refetched(entries, Q)[q] = Asked(entries[q])
    BY <1>4 DEF Refetched
  <2> QED BY <1>1, <1>4, <2>1, Asks, ServedIsPage DEF Redone
<1> QED BY <1>2, <1>3, <1>4

(* A cell is written with the expressions that read it, and no other        *)
(* changes.                                                                 *)
LEMMA WrittenTyped ==
  ASSUME stored \in [Record -> [Field -> Nat]], NEW r \in Record, NEW f, NEW v \in Nat
  PROVE  /\ Written(r, f, v) \in [Record -> [Field -> Nat]]
         /\ \A s \in Record, g \in Field :
              Written(r, f, v)[s][g] =
                IF s = r /\ g \in {f} \cup Recomputed[f] THEN v ELSE stored[s][g]
<1> DEFINE row == [g \in Field |-> IF g \in {f} \cup Recomputed[f] THEN v ELSE stored[r][g]]
<1>1. stored[r] \in [Field -> Nat]
  OBVIOUS
<1>2. row \in [Field -> Nat]
  BY <1>1
<1>3. Written(r, f, v) = [stored EXCEPT ![r] = row]
  BY DEF Written
<1>4. \A g \in Field : row[g] = IF g \in {f} \cup Recomputed[f] THEN v ELSE stored[r][g]
  OBVIOUS
<1> HIDE DEF row
<1> QED BY <1>2, <1>3, <1>4

(* The steps on one query, or on the queries of the screen.                 *)
LEMMA CacheFrame ==
  ASSUME CacheTyped, alive' = alive, stored' = stored, changes' = changes,
         news' \in BOOLEAN, cache' \in [Query -> Entry], behind' \subseteq Query
  PROVE  CacheTyped'
  BY DEF CacheTyped

LEMMA ServeStep ==
  ASSUME CacheTyped, NEW q \in Query, NEW page \in Page(Nat), Serve(q, page)
  PROVE  /\ CacheTyped' /\ cache[q].fetch = Sent
         /\ cache'[q].fetch = page /\ cache'[q].late = cache[q].late
         /\ \A x \in Query \ {q} : cache'[x] = cache[x]
         /\ UNCHANGED <<storeVars, news, behind>>
<1>1. cache \in [Query -> Entry] /\ cache[q] \in Entry
  BY DEF CacheTyped
<1>2. cache' = [cache EXCEPT ![q] = [cache[q] EXCEPT !.fetch = page]]
      /\ UNCHANGED <<storeVars, news, behind>> /\ cache[q].fetch = Sent
  BY DEF Serve
<1> DEFINE e == [cache[q] EXCEPT !.fetch = page]
<1>3. e \in Entry /\ e.fetch = page /\ e.late = cache[q].late
  BY <1>1, Answers
<1> HIDE DEF e
<1>4. cache' \in [Query -> Entry] /\ cache'[q] = e /\ \A x \in Query \ {q} : cache'[x] = cache[x]
  BY <1>1, <1>2, <1>3 DEF e
<1>5. CacheTyped'
  BY <1>2, <1>4, CacheFrame DEF CacheTyped, storeVars
<1> QED BY <1>2, <1>3, <1>4, <1>5

LEMMA LandStep ==
  ASSUME CacheTyped, NEW q \in Query, Land(q)
  PROVE  /\ CacheTyped' /\ Served(q) /\ cache[q].fetch \in Page(Nat)
         /\ cache'[q].data = cache[q].fetch /\ cache'[q].fetch = Idle
         /\ \A x \in Query \ {q} : cache'[x] = cache[x] /\ (x \in behind' <=> x \in behind)
         /\ q \notin behind' => ~cache[q].late
         /\ UNCHANGED <<storeVars, news>>
<1>1. cache \in [Query -> Entry] /\ cache[q] \in Entry /\ cache[q].late \in BOOLEAN
  BY EntryParts DEF CacheTyped
<1> DEFINE page == cache[q].fetch
           e == [NotAsked EXCEPT !.data = page]
<1>2. page \in Page(Nat) /\ page \in AnyData
  BY <1>1, EntryParts, ServedIsPage DEF Land, Served, AnyData
<1>3. cache' = [cache EXCEPT ![q] = e] /\ UNCHANGED <<storeVars, news>> /\ Served(q)
      /\ behind' = IF cache[q].late THEN behind \cup {q} ELSE behind \ {q}
  BY DEF Land
<1> HIDE DEF page
<1>4. e \in Entry /\ e.data = page /\ e.fetch = Idle
  BY <1>2, FreshEntry, PutsData
<1> HIDE DEF e
<1>5. cache' \in [Query -> Entry] /\ cache'[q] = e /\ \A x \in Query \ {q} : cache'[x] = cache[x]
  BY <1>1, <1>3, <1>4
<1>6. behind' \subseteq Query
  BY <1>3 DEF CacheTyped
<1>7. CacheTyped'
  BY <1>3, <1>5, <1>6, CacheFrame DEF CacheTyped, storeVars
<1> QED BY <1>2, <1>3, <1>4, <1>5, <1>7 DEF page

LEMMA FailsStep ==
  ASSUME CacheTyped, NEW q \in Query, FetchFails(q)
  PROVE  /\ CacheTyped' /\ InFlight(q)
         /\ cache'[q].failed /\ cache'[q].fetch = Idle
         /\ \A x \in Query \ {q} : cache'[x] = cache[x]
         /\ UNCHANGED <<storeVars, news, behind>>
<1>1. cache \in [Query -> Entry] /\ cache[q] \in Entry /\ cache[q].data \in AnyData
  BY EntryParts DEF CacheTyped
<1> DEFINE e == [NotAsked EXCEPT !.data = cache[q].data, !.failed = TRUE]
<1>2. cache' = [cache EXCEPT ![q] = e] /\ UNCHANGED <<storeVars, news, behind>> /\ InFlight(q)
  BY DEF FetchFails
<1>3. e \in Entry /\ e.failed /\ e.fetch = Idle
  BY <1>1, FreshEntry, GivesUp
<1> HIDE DEF e
<1>4. cache' \in [Query -> Entry] /\ cache'[q] = e /\ \A x \in Query \ {q} : cache'[x] = cache[x]
  BY <1>1, <1>2, <1>3
<1>5. CacheTyped'
  BY <1>2, <1>4, CacheFrame DEF CacheTyped, storeVars
<1> QED BY <1>2, <1>3, <1>4, <1>5

(* A query is asked anew: retried, or shown for the first time.             *)
LEMMA AskedStep ==
  ASSUME CacheTyped, NEW q \in Query, cache' = [cache EXCEPT ![q] = Asked(@)],
         UNCHANGED <<storeVars, news, behind>>
  PROVE  /\ CacheTyped' /\ cache'[q].fetch = Sent
         /\ \A x \in Query \ {q} : cache'[x] = cache[x]
<1>1. cache \in [Query -> Entry] /\ cache[q] \in Entry
  BY DEF CacheTyped
<1> DEFINE e == Asked(cache[q])
<1>2. e \in Entry /\ e.fetch = Sent
  BY <1>1, Asks
<1>3. cache' = [cache EXCEPT ![q] = e]
  OBVIOUS
<1> HIDE DEF e
<1>4. cache' \in [Query -> Entry] /\ cache'[q] = e /\ \A x \in Query \ {q} : cache'[x] = cache[x]
  BY <1>1, <1>2, <1>3
<1>5. CacheTyped'
  BY <1>4, CacheFrame DEF CacheTyped, storeVars
<1> QED BY <1>2, <1>4, <1>5

LEMMA RefetchStep ==
  ASSUME CacheTyped, NEW Q, cache' = Refetched(cache, Q), news' \in BOOLEAN,
         UNCHANGED <<storeVars, behind>>
  PROVE  /\ CacheTyped'
         /\ \A q \in Query \cap Q : Redone(cache'[q])
         /\ \A q \in Query \ Q : cache'[q] = cache[q]
<1>1. cache \in [Query -> Entry]
  BY DEF CacheTyped
<1>2. /\ cache' \in [Query -> Entry]
      /\ \A q \in Query \ Q : cache'[q] = cache[q]
      /\ \A q \in Query \cap Q : Redone(Refetched(cache, Q)[q])
  BY <1>1, RefetchedIs
<1>3. \A q \in Query \cap Q : Redone(cache'[q])
  BY <1>2
<1>4. CacheTyped'
  BY <1>2, CacheFrame DEF CacheTyped, storeVars
<1> QED BY <1>2, <1>3, <1>4

(* An answer comes late or never: what fetches under way bring may be older.*)
LEMMA LateStep ==
  ASSUME CacheTyped, cache' = [q \in Query |-> [cache[q] EXCEPT !.late = @ \/ Served(q)]],
         UNCHANGED <<storeVars, news>>, behind' \subseteq Query
  PROVE  /\ CacheTyped'
         /\ \A q \in Query : /\ cache'[q].fetch = cache[q].fetch /\ (Served(q)' => cache'[q].late)
                             /\ cache'[q].data = cache[q].data
                             /\ cache'[q].failed = cache[q].failed
<1>1. cache \in [Query -> Entry]
  BY DEF CacheTyped
<1>2. ASSUME NEW q \in Query
      PROVE  /\ cache'[q] \in Entry /\ cache'[q].fetch = cache[q].fetch
             /\ Served(q)' => cache'[q].late
             /\ cache'[q].data = cache[q].data /\ cache'[q].failed = cache[q].failed
  <2> DEFINE late == cache[q].late \/ Served(q)
  <2>1. late \in BOOLEAN /\ (Served(q) => late)
    BY <1>1, EntryParts
  <2>2. cache'[q] = [cache[q] EXCEPT !.late = late]
    OBVIOUS
  <2> HIDE DEF late
  <2>3. cache'[q] \in Entry /\ cache'[q].fetch = cache[q].fetch /\ cache'[q].late = late
        /\ cache'[q].data = cache[q].data /\ cache'[q].failed = cache[q].failed
    <3>1. cache[q] \in Entry
      BY <1>1
    <3> DEFINE marked == [cache[q] EXCEPT !.late = late]
    <3>2. marked \in Entry /\ marked.fetch = cache[q].fetch /\ marked.late = late
          /\ marked.data = cache[q].data /\ marked.failed = cache[q].failed
      BY <2>1, <3>1, MarksLate, Zenon
    <3> QED BY <2>2, <3>2
  <2>4. Served(q)' => Served(q)
    BY <2>3 DEF Served
  <2> QED BY <2>1, <2>3, <2>4
<1>3. cache' \in [Query -> Entry]
  BY <1>2
<1>4. CacheTyped'
  BY <1>3, CacheFrame DEF CacheTyped, storeVars
<1> QED BY <1>2, <1>4

-----------------------------------------------------------------------------
(****************************************************************************)
(* The steps of the grid: their types.                                      *)
(****************************************************************************)

(* The queries of the grid are queries of the cache.                        *)
LEMMA OnGridIs ==
  ASSUME WritesTyped
  PROVE  OnGrid \subseteq Query /\ \A p \in 1..pages : GridQuery(p) \in OnGrid
  BY DEF WritesTyped, OnGrid

(* The changes of others.                                                   *)
LEMMA OthersStep ==
  ASSUME CacheTyped, NEW r \in Record,
         \/ \E f \in Field : \E v \in Nat : ChangeCell(r, f, v)
         \/ CreateRecord(r) \/ DeleteRecord(r)
  PROVE  CacheTyped' /\ news' /\ UNCHANGED <<cache, behind>>
<1>1. news' = TRUE /\ changes' \in Nat /\ UNCHANGED <<cache, behind>>
  BY DEF ChangeCell, CreateRecord, DeleteRecord, Changed, CacheTyped
<1>2. /\ alive' \subseteq Record /\ IsFiniteSet(alive')
      /\ stored' \in [Record -> [Field -> Nat]]
  <2>1. ASSUME NEW f \in Field, NEW v \in Nat, ChangeCell(r, f, v)
        PROVE  /\ alive' \subseteq Record /\ IsFiniteSet(alive')
               /\ stored' \in [Record -> [Field -> Nat]]
    BY <2>1, WrittenTyped DEF ChangeCell, CacheTyped
  <2>2. CASE CreateRecord(r)
    BY <2>2, FS_AddElement DEF CreateRecord, CacheTyped
  <2>3. CASE DeleteRecord(r)
    BY <2>3, FS_RemoveElement DEF DeleteRecord, CacheTyped
  <2> QED BY <2>1, <2>2, <2>3
<1> QED BY <1>1, <1>2 DEF CacheTyped

LEMMA SnapshotOf ==
  ASSUME NEW Q \in SUBSET Query, NEW g \in [Q -> AnyData]
  PROVE  g \in Snapshot
  BY DEF Snapshot, AnyData

LEMMA SnapshotIs ==
  ASSUME NEW s \in Snapshot
  PROVE  DOMAIN s \subseteq Query /\ \A q \in DOMAIN s : s[q] \in AnyData
  BY DEF Snapshot, AnyData

(* The writes in flight.                                                    *)
Flight == [n : Nat \ {0}, r : Record, f : Typed, stage : Stages, snap : Snapshot]

(* The parts of a write in flight; of what its answer tells, only its own   *)
(* cell is typed in.                                                        *)
LEMMA WriteIs ==
  ASSUME WritesTyped, NEW w \in flight
  PROVE  /\ w \in Flight
         /\ w.n \in Nat \ {0} /\ w.r \in Record /\ w.f \in Typed /\ w.f \in Field
         /\ w.stage \in Stages /\ w.snap \in Snapshot /\ DOMAIN w.snap \subseteq OnGrid
         /\ Answered(w) \subseteq Field /\ Answered(w) \cap Typed = {w.f}
<1>1. w \in Flight
  BY DEF WritesTyped, Flight
<1>2. /\ w.n \in Nat \ {0} /\ w.r \in Record /\ w.f \in Typed /\ w.f \in Field
      /\ w.stage \in Stages /\ w.snap \in Snapshot
  BY <1>1, GridAssumption DEF Flight
<1>3. Answered(w) \subseteq Field /\ Answered(w) \cap Typed = {w.f}
  BY <1>2, GridAssumption, RecordAssumption DEF Answered
<1> QED BY <1>1, <1>2, <1>3 DEF WritesTyped

LEMMA BecomesIs ==
  ASSUME NEW w \in Flight, NEW stage \in Stages
  PROVE  /\ [w EXCEPT !.stage = stage] \in Flight
         /\ [w EXCEPT !.stage = stage].stage = stage
         /\ [w EXCEPT !.stage = stage].n = w.n /\ [w EXCEPT !.stage = stage].r = w.r
         /\ [w EXCEPT !.stage = stage].f = w.f /\ [w EXCEPT !.stage = stage].snap = w.snap
  BY DEF Flight

(* Writes and cells of the grid, step by step.                              *)
LEMMA WritesFrame ==
  ASSUME WritesTyped, UNCHANGED <<pages, typed, waiting>>, flight' \subseteq flight
  PROVE  WritesTyped'
<1>1. OnGrid' = OnGrid
  BY DEF OnGrid
<1>2. \A w \in flight' : DOMAIN w.snap \subseteq OnGrid'
  BY <1>1 DEF WritesTyped
<1> QED BY <1>2 DEF WritesTyped

(* The steps of the grid: what they do to the cache and to the writes.      *)
LEMMA ShowMoreTypes ==
  ASSUME CacheTyped, WritesTyped, ShowMore
  PROVE  /\ CacheTyped' /\ WritesTyped'
         /\ pages + 1 \in GridPage /\ pages' = pages + 1
         /\ UNCHANGED <<storeVars, news, behind, flight>>
         /\ cache'[GridQuery(pages + 1)].fetch = Sent
         /\ \A q \in Query \ {GridQuery(pages + 1)} : cache'[q] = cache[q]
<1> DEFINE q == GridQuery(pages + 1)
<1>1. q \in Query /\ pages + 1 \in GridPage
  BY GridAssumption DEF ShowMore, GridQuery
<1>2. /\ cache' = [cache EXCEPT ![q] = Asked(@)] /\ UNCHANGED <<storeVars, news, behind>>
      /\ pages' = pages + 1 /\ UNCHANGED <<typed, waiting, flight>>
  BY DEF ShowMore
<1> HIDE DEF q
<1>3. /\ CacheTyped' /\ cache'[q].fetch = Sent
      /\ \A x \in Query \ {q} : cache'[x] = cache[x]
  BY <1>1, <1>2, AskedStep
<1>4. pages \in Nat /\ OnGrid \subseteq OnGrid'
  BY <1>2 DEF WritesTyped, OnGrid
<1>5. \A p \in 1..pages' : GridQuery(p) \in Query
  BY <1>1, <1>2, <1>4 DEF WritesTyped, q
<1>6. \A w \in flight' : DOMAIN w.snap \subseteq OnGrid'
  BY <1>2, <1>4 DEF WritesTyped
<1>7. WritesTyped'
  BY <1>2, <1>4, <1>5, <1>6 DEF WritesTyped
<1> QED BY <1>1, <1>2, <1>3, <1>7 DEF q

LEMMA TypeTypes ==
  ASSUME WritesTyped, NEW r \in Record, NEW f \in Typed, Type(r, f)
  PROVE  WritesTyped'
<1>1. /\ pages' = pages /\ flight' = flight /\ typed' = typed + 1
      /\ waiting' = waiting \cup {[n |-> typed + 1, r |-> r, f |-> f]}
  BY DEF Type
<1>2. OnGrid' = OnGrid
  BY <1>1 DEF OnGrid
<1>3. [n |-> typed + 1, r |-> r, f |-> f] \in [n : Nat \ {0}, r : Record, f : Typed]
  BY DEF WritesTyped
<1> QED BY <1>1, <1>2, <1>3 DEF WritesTyped

(* What a write begins with, in the cache and in flight.                    *)
Sending(w) ==
  [n |-> w.n, r |-> w.r, f |-> w.f, stage |-> "sent",
   snap |-> [q \in OnGrid |-> cache[q].data]]

LEMMA BeginTypes ==
  ASSUME CacheTyped, WritesTyped, NEW w \in waiting, Begin(w)
  PROVE  /\ CacheTyped' /\ WritesTyped'
         /\ w.n \in Nat \ {0} /\ w.r \in Record /\ w.f \in Typed /\ Sending(w) \in Flight
         /\ flight' = flight \cup {Sending(w)}
         /\ \A q \in Query \ OnGrid : cache'[q] = cache[q]
         /\ \A q \in OnGrid :
              /\ cache'[q].fetch = Idle
              /\ cache[q].data = NoData => cache'[q].data = NoData
              /\ cache[q].data # NoData =>
                   cache'[q].data = Patch(cache[q].data, w.r, {w.f}, Optimistic(w))
<1>1. w.n \in Nat \ {0} /\ w.r \in Record /\ w.f \in Typed
  BY DEF WritesTyped
<1>2. cache \in [Query -> Entry] /\ OnGrid \subseteq Query
  BY OnGridIs DEF CacheTyped
<1> DEFINE snap == [q \in OnGrid |-> cache[q].data]
<1>3. \A q \in OnGrid : cache[q].data \in AnyData
  BY <1>2, EntryParts
<1>4. snap \in Snapshot
  <2>1. snap \in [OnGrid -> AnyData]
    BY <1>3
  <2> QED BY <1>2, <2>1, SnapshotOf
<1> HIDE DEF snap
<1>5. Sending(w) \in Flight
  BY <1>1, <1>4 DEF Sending, Flight, Stages, snap
<1>6. /\ flight' = flight \cup {Sending(w)} /\ waiting' = waiting \ {w}
      /\ UNCHANGED <<storeVars, news, pages, typed>>
      /\ behind' = behind \cup {q \in OnGrid : InFlight(q) \/ cache[q].failed}
      /\ cache' = [q \in Query |->
           IF q \notin OnGrid THEN cache[q]
           ELSE IF cache[q].data = NoData THEN Cancelled(cache[q])
           ELSE SetData(Cancelled(cache[q]),
                        Patch(cache[q].data, w.r, {w.f}, Optimistic(w)))]
  BY DEF Begin, Sending
<1>7. ASSUME NEW q \in OnGrid
      PROVE  /\ cache'[q] \in Entry /\ cache'[q].fetch = Idle
             /\ cache[q].data = NoData => cache'[q].data = NoData
             /\ cache[q].data # NoData =>
                  cache'[q].data = Patch(cache[q].data, w.r, {w.f}, Optimistic(w))
  <2>1. cache[q] \in Entry
    BY <1>2
  <2>2. CASE cache[q].data = NoData
    BY <1>2, <1>6, <2>1, <2>2, Cancels
  <2>3. CASE cache[q].data # NoData
    <3> DEFINE d == Patch(cache[q].data, w.r, {w.f}, Optimistic(w))
    <3>1. cache[q].data \in Page(Int) /\ Optimistic(w) \in Int
      BY <1>1, <2>1, <2>3, EntryParts DEF Optimistic
    <3>2. d \in AnyData
      BY <3>1, PatchIs DEF AnyData
    <3>3. cache'[q] = SetData(Cancelled(cache[q]), d)
      BY <1>2, <1>6, <2>3
    <3> HIDE DEF d
    <3>4. cache'[q] \in Entry /\ cache'[q].data = d /\ cache'[q].fetch = Idle
      BY <2>1, <3>2, <3>3, Cancels, SetsData
    <3> QED BY <2>3, <3>4 DEF d
  <2> QED BY <2>2, <2>3
<1>8. cache' \in [Query -> Entry] /\ \A q \in Query \ OnGrid : cache'[q] = cache[q]
  BY <1>2, <1>6, <1>7
<1>9. CacheTyped'
  BY <1>2, <1>6, <1>8, CacheFrame DEF CacheTyped, storeVars
<1>10. WritesTyped'
  <2>1. OnGrid' = OnGrid
    BY <1>6 DEF OnGrid
  <2>2. DOMAIN Sending(w).snap = OnGrid
    BY DEF Sending
  <2>3. flight' \in SUBSET Flight
    BY <1>5, <1>6 DEF WritesTyped, Flight
  <2>4. \A x \in flight' : DOMAIN x.snap \subseteq OnGrid'
    BY <1>6, <2>1, <2>2 DEF WritesTyped
  <2> QED BY <1>6, <2>3, <2>4 DEF WritesTyped, Flight
<1> QED BY <1>1, <1>5, <1>6, <1>7, <1>8, <1>9, <1>10

LEMMA AnsweredTypes ==
  ASSUME CacheTyped, WritesTyped, NEW w \in flight, Apply(w) \/ Refuse(w)
  PROVE  CacheTyped' /\ WritesTyped'
<1>1. w \in Flight /\ DOMAIN w.snap \subseteq OnGrid
  BY WriteIs
<1>2. ASSUME NEW stage \in Stages, Becomes(w, stage), UNCHANGED <<pages, typed, waiting>>
      PROVE  WritesTyped'
  <2> DEFINE v == [w EXCEPT !.stage = stage]
  <2>1. v \in Flight /\ v.snap = w.snap
    BY <1>1, BecomesIs
  <2>2. flight' = (flight \ {w}) \cup {v} /\ OnGrid' = OnGrid
    BY <1>2 DEF Becomes, OnGrid
  <2> HIDE DEF v
  <2>3. flight' \in SUBSET Flight /\ \A x \in flight' : DOMAIN x.snap \subseteq OnGrid'
    BY <1>1, <2>1, <2>2 DEF WritesTyped, Flight
  <2> QED BY <1>2, <2>3 DEF WritesTyped, Flight
<1>3. CASE Apply(w)
  <2>1. /\ stored' = Written(w.r, w.f, w.n) /\ Becomes(w, "stored")
        /\ UNCHANGED <<alive, changes, news, cache, behind, pages, typed, waiting>>
    BY <1>3 DEF Apply, Normalized
  <2>2. stored' \in [Record -> [Field -> Nat]]
    BY <2>1, WriteIs, WrittenTyped DEF CacheTyped
  <2> QED BY <1>2, <2>1, <2>2 DEF CacheTyped, Stages
<1>4. CASE Refuse(w)
  BY <1>2, <1>4 DEF Refuse, CacheTyped, cacheVars, storeVars, Stages
<1> QED BY <1>3, <1>4

LEMMA RollBackTypes ==
  ASSUME CacheTyped, WritesTyped, NEW w \in flight, RollBack(w)
  PROVE  /\ CacheTyped' /\ WritesTyped'
         /\ flight' = flight \ {w} /\ UNCHANGED <<storeVars, news, pages, typed, waiting>>
         /\ \A q \in Query :
              /\ cache'[q].fetch = cache[q].fetch
              /\ ~cache'[q].late =>
                   /\ ~cache[q].late
                   /\ Served(q) /\ w.stage = "stored" =>
                        ~MovesRows(w) /\ Reconciled(w, cache[q].fetch) = cache[q].fetch
              /\ q \in Restorable(w) => cache'[q].data = w.snap[q]
              /\ q \notin Restorable(w) => /\ cache'[q].data = cache[q].data
                                           /\ cache'[q].failed = cache[q].failed
<1>1. /\ flight' = flight \ {w} /\ UNCHANGED <<storeVars, news, pages, typed, waiting>>
      /\ cache' = [q \in Query |->
           IF q \in Restorable(w) THEN Outrun(w, SetData(cache[q], w.snap[q]))
                                  ELSE Outrun(w, cache[q])]
      /\ behind' = behind \cup (IF w.stage = "stored" THEN OnGrid ELSE {}) \cup
           {q \in Restorable(w) :
              cache[q].failed \/ cache[q].data # Patch(w.snap[q], w.r, {w.f}, Optimistic(w))}
  BY DEF RollBack
<1>2. cache \in [Query -> Entry] /\ OnGrid \subseteq Query /\ Restorable(w) \subseteq Query
  BY OnGridIs, WriteIs, SnapshotIs DEF CacheTyped, Restorable
<1>3. ASSUME NEW q \in Query
      PROVE  /\ cache'[q] \in Entry
             /\ cache'[q].fetch = cache[q].fetch
             /\ ~cache'[q].late =>
                  /\ ~cache[q].late
                  /\ Served(q) /\ w.stage = "stored" =>
                       ~MovesRows(w) /\ Reconciled(w, cache[q].fetch) = cache[q].fetch
             /\ q \in Restorable(w) => cache'[q].data = w.snap[q]
             /\ q \notin Restorable(w) => /\ cache'[q].data = cache[q].data
                                          /\ cache'[q].failed = cache[q].failed
  <2>1. cache[q] \in Entry
    BY <1>2
  <2>2. CASE q \in Restorable(w)
    <3> DEFINE e == SetData(cache[q], w.snap[q])
    <3>1. w.snap[q] \in AnyData
      BY <2>2, WriteIs, SnapshotIs DEF Restorable
    <3>2. e \in Entry /\ e.data = w.snap[q] /\ e.fetch = cache[q].fetch /\ e.late = cache[q].late
      BY <2>1, <3>1, SetsData
    <3>3. cache'[q] = Outrun(w, e)
      BY <1>1, <2>2
    <3> HIDE DEF e
    <3> QED BY <2>2, <3>2, <3>3, OutrunIs DEF Served
  <2>3. CASE q \notin Restorable(w)
    <3>1. cache'[q] = Outrun(w, cache[q])
      BY <1>1, <2>3
    <3> QED BY <2>1, <2>3, <3>1, OutrunIs DEF Served
  <2> QED BY <2>2, <2>3
<1>4. cache' \in [Query -> Entry]
  BY <1>1, <1>3
<1>5. behind' \subseteq Query
  BY <1>1, <1>2 DEF CacheTyped
<1>6. CacheTyped'
  BY <1>1, <1>4, <1>5, CacheFrame DEF CacheTyped, storeVars
<1>7. WritesTyped'
  BY <1>1, WritesFrame
<1> QED BY <1>1, <1>3, <1>6, <1>7

LEMMA ReconcileTypes ==
  ASSUME CacheTyped, WritesTyped, NEW w \in flight, Reconcile(w)
  PROVE  /\ CacheTyped' /\ WritesTyped'
         /\ flight' = flight \ {w} /\ UNCHANGED <<storeVars, news, pages, typed, waiting>>
         /\ \A q \in OnGrid : MovesRows(w) => Redone(cache'[q])
         /\ \A q \in Query : cache[q].data = NoData /\ q \notin OnGrid =>
              /\ cache'[q].data = NoData /\ cache'[q].fetch = cache[q].fetch
              /\ cache'[q].failed = cache[q].failed
         /\ ~MovesRows(w) => \A q \in Query :
              /\ cache'[q].fetch = cache[q].fetch
              /\ ~cache'[q].late =>
                   /\ ~cache[q].late
                   /\ Served(q) => Reconciled(w, cache[q].fetch) = cache[q].fetch
              /\ cache[q].data = NoData => cache'[q].data = NoData
              /\ cache[q].data # NoData => cache'[q].data = Reconciled(w, cache[q].data)
<1> DEFINE patched ==
             [q \in Query |->
                IF cache[q].data = NoData THEN Outrun(w, cache[q])
                ELSE Outrun(w, SetData(cache[q], Reconciled(w, cache[q].data)))]
<1>1. /\ flight' = flight \ {w} /\ UNCHANGED <<storeVars, news, pages, typed, waiting>>
      /\ w.stage = "stored"
      /\ cache' = IF MovesRows(w) THEN Refetched(patched, OnGrid) ELSE patched
      /\ behind' = behind \cup
           {q \in OnGrid : cache[q].failed \/ Overtaken(w, cache[q].data)}
  BY DEF Reconcile
<1>2. cache \in [Query -> Entry] /\ OnGrid \subseteq Query
  BY OnGridIs DEF CacheTyped
<1>3. ASSUME NEW q \in Query
      PROVE  /\ patched[q] \in Entry
             /\ patched[q].fetch = cache[q].fetch
             /\ ~patched[q].late =>
                   /\ ~cache[q].late
                   /\ Served(q) => Reconciled(w, cache[q].fetch) = cache[q].fetch
             /\ cache[q].data = NoData =>
                  patched[q].data = NoData /\ patched[q].failed = cache[q].failed
             /\ cache[q].data # NoData => patched[q].data = Reconciled(w, cache[q].data)
  <2>1. cache[q] \in Entry
    BY <1>2
  <2>2. CASE cache[q].data = NoData
    <3>1. patched[q] = Outrun(w, cache[q])
      BY <2>2
    <3> HIDE DEF patched
    <3> QED BY <1>1, <2>1, <2>2, <3>1, OutrunIs DEF Served
  <2>3. CASE cache[q].data # NoData
    <3> DEFINE d == Reconciled(w, cache[q].data)
               e == SetData(cache[q], d)
    <3>1. d \in AnyData
      <4>1. cache[q].data \in Page(Int) /\ Normalized(w.n) \in Int
        BY <2>1, <2>3, EntryParts, WriteIs DEF Normalized
      <4> QED BY <4>1, PatchIs DEF Reconciled, AnyData
    <3> HIDE DEF d
    <3>2. e \in Entry /\ e.data = d /\ e.fetch = cache[q].fetch /\ e.late = cache[q].late
      BY <2>1, <3>1, SetsData
    <3>3. patched[q] = Outrun(w, e)
      BY <2>3 DEF d
    <3> HIDE DEF e, patched
    <3> QED BY <1>1, <2>3, <3>2, <3>3, OutrunIs DEF Served, d
  <2> QED BY <2>2, <2>3
<1>4. patched \in [Query -> Entry]
  BY <1>3
<1> HIDE DEF patched
<1>5. /\ Refetched(patched, OnGrid) \in [Query -> Entry]
      /\ \A q \in Query \ OnGrid : Refetched(patched, OnGrid)[q] = patched[q]
      /\ \A q \in Query \cap OnGrid : Redone(Refetched(patched, OnGrid)[q])
  BY <1>2, <1>3, <1>4, RefetchedIs
<1>6. cache' \in [Query -> Entry]
  BY <1>1, <1>4, <1>5
<1>7. behind' \subseteq Query
  BY <1>1, <1>2 DEF CacheTyped
<1>8. CacheTyped'
  BY <1>1, <1>6, <1>7, CacheFrame DEF CacheTyped, storeVars
<1>9. WritesTyped'
  BY <1>1, WritesFrame
<1>10. \A q \in OnGrid : MovesRows(w) => Redone(cache'[q])
  BY <1>1, <1>2, <1>5
<1>11. \A q \in Query : q \notin OnGrid => cache'[q] = patched[q]
  BY <1>1, <1>5
<1>12. \A q \in Query : cache[q].data = NoData /\ q \notin OnGrid =>
              /\ cache'[q].data = NoData /\ cache'[q].fetch = cache[q].fetch
              /\ cache'[q].failed = cache[q].failed
  BY <1>3, <1>11
<1>13. ~MovesRows(w) => cache' = patched
  BY <1>1
<1> QED BY <1>1, <1>3, <1>8, <1>9, <1>10, <1>12, <1>13

-----------------------------------------------------------------------------
(****************************************************************************)
(* What each of them does to a faithful page.                               *)
(****************************************************************************)

(* The same of writes that are only known to have the type.                 *)
LEMMA FlightIs ==
  ASSUME NEW w \in Flight
  PROVE  /\ w.n \in Nat \ {0} /\ w.r \in Record /\ w.f \in Typed /\ w.f \in Field
         /\ Answered(w) \subseteq Field /\ Answered(w) \cap Typed = {w.f}
<1>1. w.n \in Nat \ {0} /\ w.r \in Record /\ w.f \in Typed /\ w.f \in Field
  BY GridAssumption DEF Flight
<1> QED BY <1>1, GridAssumption, RecordAssumption DEF Answered

LEMMA RowIs ==
  ASSUME NEW C, NEW P \in Page(C), NEW i \in DOMAIN P.rows
  PROVE  P.rows[i].id \in Record /\ \A f \in Field : P.rows[i].cells[f] \in C
<1>1. P.rows[i] \in Row(C)
  BY PageShape
<1> QED BY <1>1 DEF Row

(* What the server answers now is faithful, and guesses nothing.            *)
LEMMA AnswersAreFaithful ==
  ASSUME NEW L \in Page(Nat), NEW now, NEW writes,
         \A i \in DOMAIN L.rows : L.rows[i].cells = now[L.rows[i].id]
  PROVE  Faithful(L, L, now, writes)
  BY DEF Faithful, SameRows, Explained

(* The server never answers with a value that has not been normalized.      *)
LEMMA AnswersGuessNothing ==
  ASSUME NEW P \in Page(Nat), NEW w \in Flight
  PROVE  ~Guesses(w, P)
<1> SUFFICES ASSUME NEW i \in DOMAIN P.rows, P.rows[i].cells[w.f] = Optimistic(w)
             PROVE  FALSE
  BY DEF Guesses
<1>1. P.rows[i].cells[w.f] \in Nat /\ w.n \in Nat \ {0}
  BY RowIs, FlightIs
<1> QED BY <1>1 DEF Optimistic

(* With no write in flight a faithful page is the list.                     *)
LEMMA FaithfulIsCurrent ==
  ASSUME NEW P \in Page(Int), NEW L \in Page(Int), NEW now, Faithful(P, L, now, {}),
         \A i \in DOMAIN L.rows : L.rows[i].cells = now[L.rows[i].id]
  PROVE  P = L
<1>1. SameRows(P, L)
      /\ \A i \in DOMAIN P.rows : \A f \in Field :
           P.rows[i].cells[f] = now[P.rows[i].id][f]
  BY DEF Faithful, Explained, Unanswered, Guessed
<1>2. \A i \in DOMAIN P.rows : /\ P.rows[i].id = L.rows[i].id
                               /\ \A f \in Field : P.rows[i].cells[f] = L.rows[i].cells[f]
  BY <1>1 DEF SameRows
<1> QED BY <1>1, <1>2, PageEqual DEF SameRows

(* A write that begins is a guess on every page that shows its cell.        *)
LEMMA BeginFaithful ==
  ASSUME NEW P \in Page(Int), NEW L, NEW now, NEW writes, Faithful(P, L, now, writes),
         NEW s \in Flight, s.stage = "sent"
  PROVE  Faithful(Patch(P, s.r, {s.f}, Optimistic(s)), L, now, writes \cup {s})
<1> DEFINE Q == Patch(P, s.r, {s.f}, Optimistic(s))
<1>1. /\ Q.total = P.total /\ DOMAIN Q.rows = DOMAIN P.rows
      /\ \A i \in DOMAIN P.rows :
           /\ Q.rows[i].id = P.rows[i].id
           /\ \A f \in Field : Q.rows[i].cells[f] =
                IF P.rows[i].id = s.r /\ f \in {s.f} THEN Optimistic(s) ELSE P.rows[i].cells[f]
  <2>1. Optimistic(s) \in Int
    BY FlightIs DEF Optimistic
  <2> QED BY <2>1, PatchIs
<1> HIDE DEF Q
<1>2. SameRows(Q, L)
  BY <1>1 DEF Faithful, SameRows
<1>3. ASSUME NEW i \in DOMAIN P.rows, NEW f \in Field
      PROVE  Explained(P.rows[i].id, f, Q.rows[i].cells[f], now, writes \cup {s})
  <2>1. CASE P.rows[i].id = s.r /\ f = s.f
    BY <1>1, <2>1 DEF Explained, Guessed
  <2>2. CASE ~(P.rows[i].id = s.r /\ f = s.f)
    <3>1. Explained(P.rows[i].id, f, P.rows[i].cells[f], now, writes)
      BY DEF Faithful
    <3>2. Q.rows[i].cells[f] = P.rows[i].cells[f]
      BY <1>1, <2>2
    <3> QED BY <3>1, <3>2 DEF Explained, Guessed, Unanswered
  <2> QED BY <2>1, <2>2
<1> QED BY <1>1, <1>2, <1>3 DEF Faithful, Q

(* Its snapshot undoes it, and hides no other write of the cell.            *)
LEMMA BeginUndoable ==
  ASSUME NEW P \in Page(Int), NEW L, NEW now, NEW writes \in SUBSET Flight, NEW q,
         Faithful(P, L, now, writes), Undoable(P, q, now, writes),
         NEW s \in Flight, s.stage = "sent",
         \A w \in writes : <<w.r, w.f>> # <<s.r, s.f>>,
         q \in Restorable(s), s.snap[q] = P
  PROVE  Undoable(Patch(P, s.r, {s.f}, Optimistic(s)), q, now, writes \cup {s})
<1> DEFINE Q == Patch(P, s.r, {s.f}, Optimistic(s))
<1>1. /\ DOMAIN Q.rows = DOMAIN P.rows
      /\ \A i \in DOMAIN P.rows :
           /\ Q.rows[i].id = P.rows[i].id
           /\ \A f \in Field : Q.rows[i].cells[f] =
                IF P.rows[i].id = s.r /\ f \in {s.f} THEN Optimistic(s) ELSE P.rows[i].cells[f]
  <2>1. Optimistic(s) \in Int
    BY FlightIs DEF Optimistic
  <2> QED BY <2>1, PatchIs
<1> HIDE DEF Q
<1>2. ASSUME NEW w \in writes, w.stage # "stored", Guesses(w, Q)
      PROVE  Undoes(w, q, now)
  <2>1. PICK i \in DOMAIN P.rows :
          P.rows[i].id = w.r /\ Q.rows[i].cells[w.f] = Optimistic(w)
    BY <1>1, <1>2 DEF Guesses
  <2>2. w.f \in Field
    BY FlightIs
  <2>3. Q.rows[i].cells[w.f] = P.rows[i].cells[w.f]
    BY <1>1, <2>1, <2>2
  <2>4. Guesses(w, P)
    BY <2>1, <2>3 DEF Guesses
  <2> QED BY <1>2, <2>4 DEF Undoable
<1>3. Undoes(s, q, now)
  <2>1. ASSUME NEW j \in DOMAIN P.rows, P.rows[j].id = s.r
        PROVE  P.rows[j].cells[s.f] = now[s.r][s.f]
    <3>1. s.f \in Field /\ s.f \in Typed
      BY FlightIs
    <3>2. Explained(s.r, s.f, P.rows[j].cells[s.f], now, writes)
      BY <2>1, <3>1 DEF Faithful
    <3>3. ~Unanswered(s.r, s.f, now, writes)
      <4>1. \A w \in writes : s.f \in Answered(w) => s.f = w.f
        BY <3>1, FlightIs
      <4> QED BY <4>1 DEF Unanswered
    <3>4. ~Guessed(s.r, s.f, P.rows[j].cells[s.f], writes)
      BY DEF Guessed
    <3> QED BY <3>2, <3>3, <3>4 DEF Explained
  <2> QED BY <2>1 DEF Undoes
<1> QED BY <1>2, <1>3 DEF Undoable, Q

(* A refused write stays a guess until it is rolled back.                   *)
LEMMA RefuseKeeps ==
  ASSUME NEW P, NEW L, NEW now, NEW q, NEW writes \in SUBSET Flight, NEW w \in writes,
         w.stage = "sent", Faithful(P, L, now, writes)
  PROVE  LET later == (writes \ {w}) \cup {[w EXCEPT !.stage = "refused"]}
         IN /\ Faithful(P, L, now, later)
            /\ Undoable(P, q, now, writes) => Undoable(P, q, now, later)
<1> DEFINE v == [w EXCEPT !.stage = "refused"]
           later == (writes \ {w}) \cup {v}
<1>1. v.stage = "refused" /\ v.n = w.n /\ v.r = w.r /\ v.f = w.f /\ v.snap = w.snap
  BY BecomesIs DEF Stages
<1> HIDE DEF v
<1>2. ASSUME NEW r, NEW f, NEW c, Explained(r, f, c, now, writes)
      PROVE  Explained(r, f, c, now, later)
  <2>1. CASE Unanswered(r, f, now, writes)
    BY <2>1 DEF Unanswered, Explained
  <2>2. CASE Guessed(r, f, c, writes)
    <3>1. PICK x \in writes : x.stage # "stored" /\ x.r = r /\ x.f = f /\ c = Optimistic(x)
      BY <2>2 DEF Guessed
    <3>2. CASE x = w
      <4>1. v \in later /\ v.stage # "stored" /\ v.r = r /\ v.f = f /\ c = Optimistic(v)
        BY <1>1, <3>1, <3>2 DEF Optimistic
      <4> QED BY <4>1 DEF Guessed, Explained
    <3>3. CASE x # w
      BY <3>1, <3>3 DEF Guessed, Explained
    <3> QED BY <3>2, <3>3
  <2> QED BY <1>2, <2>1, <2>2 DEF Explained
<1>3. Faithful(P, L, now, later)
  BY <1>2 DEF Faithful
<1>4. ASSUME Undoable(P, q, now, writes) PROVE Undoable(P, q, now, later)
  <2>1. Guesses(v, P) => Guesses(w, P)
    BY <1>1 DEF Guesses, Optimistic
  <2>2. Undoes(w, q, now) => Undoes(v, q, now)
    BY <1>1 DEF Undoes, Restorable
  <2>3. ASSUME NEW x \in later, x.stage # "stored", Guesses(x, P) PROVE Undoes(x, q, now)
    <3>1. CASE x = v
      BY <1>4, <2>1, <2>2, <2>3, <3>1 DEF Undoable
    <3>2. CASE x \in writes
      BY <1>4, <2>3, <3>2 DEF Undoable
    <3> QED BY <3>1, <3>2
  <2> QED BY <2>3 DEF Undoable
<1> QED BY <1>3, <1>4 DEF v

(* When a write is stored, what pages show differs from the table only      *)
(* where its answer will say so.                                            *)
LEMMA ApplyKeeps ==
  ASSUME NEW P \in Page(Int), NEW L, NEW M, NEW now, NEW next, NEW q,
         NEW writes \in SUBSET Flight, NEW w \in writes, OnePerCell(writes),
         w.stage = "sent", Faithful(P, L, now, writes), SameRows(P, M),
         \A r \in Record, f \in Field :
           next[r][f] = IF r = w.r /\ f \in Answered(w) THEN w.n ELSE now[r][f]
  PROVE  LET later == (writes \ {w}) \cup {[w EXCEPT !.stage = "stored"]}
         IN /\ Faithful(P, M, next, later)
            /\ Undoable(P, q, now, writes) => Undoable(P, q, next, later)
<1> DEFINE v == [w EXCEPT !.stage = "stored"]
           later == (writes \ {w}) \cup {v}
<1>1. v.stage = "stored" /\ v.n = w.n /\ v.r = w.r /\ v.f = w.f
  BY BecomesIs DEF Stages
<1>2. Answered(v) = Answered(w)
  BY <1>1 DEF Answered
<1> HIDE DEF v
<1>3. ASSUME NEW r \in Record, NEW f \in Field, NEW c, Explained(r, f, c, now, writes)
      PROVE  Explained(r, f, c, next, later)
  <2>1. CASE r = w.r /\ f \in Answered(w)
    BY <1>1, <1>2, <2>1 DEF Unanswered, Explained
  <2>2. CASE ~(r = w.r /\ f \in Answered(w))
    <3>1. next[r][f] = now[r][f] /\ w.f \in Answered(w)
      BY <2>2 DEF Answered
    <3>2. CASE c = now[r][f]
      BY <3>1, <3>2 DEF Explained
    <3>3. CASE Unanswered(r, f, now, writes)
      BY <1>3, <3>1, <3>3 DEF Unanswered, Explained
    <3>4. CASE Guessed(r, f, c, writes)
      BY <2>2, <3>1, <3>4 DEF Guessed, Explained
    <3> QED BY <1>3, <3>2, <3>3, <3>4 DEF Explained
  <2> QED BY <2>1, <2>2
<1>4. Faithful(P, M, next, later)
  <2>1. ASSUME NEW i \in DOMAIN P.rows, NEW f \in Field
        PROVE  Explained(P.rows[i].id, f, P.rows[i].cells[f], next, later)
    <3>1. Explained(P.rows[i].id, f, P.rows[i].cells[f], now, writes)
      BY DEF Faithful
    <3>2. P.rows[i].id \in Record
      BY RowIs
    <3> HIDE DEF later
    <3> QED BY <1>3, <3>1, <3>2
  <2> QED BY <2>1 DEF Faithful
<1>5. ASSUME Undoable(P, q, now, writes) PROVE Undoable(P, q, next, later)
  <2>1. ASSUME NEW x \in later, x.stage # "stored", Guesses(x, P) PROVE Undoes(x, q, next)
    <3>1. x \in writes /\ x # w
      BY <1>1, <2>1
    <3>2. Undoes(x, q, now)
      BY <1>5, <2>1, <3>1 DEF Undoable
    <3>3. x.r \in Record /\ x.f \in Field /\ x.f \in Typed /\ Answered(w) \cap Typed = {w.f}
      BY <3>1, FlightIs
    <3>4. next[x.r][x.f] = now[x.r][x.f]
      <4>1. ~(x.r = w.r /\ x.f \in Answered(w))
        BY <3>1, <3>3 DEF OnePerCell
      <4> QED BY <3>3, <4>1
    <3> QED BY <3>2, <3>4 DEF Undoes
  <2> QED BY <2>1 DEF Undoable
<1> QED BY <1>4, <1>5 DEF v

(* An answer leaves alone what fetches under way already bring.             *)
LEMMA FetchKeeps ==
  ASSUME NEW P \in Page(Nat), NEW L, NEW now, NEW writes \in SUBSET Flight, NEW w \in writes,
         Faithful(P, L, now, writes), w.stage = "stored" => Reconciled(w, P) = P
  PROVE  Faithful(P, L, now, writes \ {w})
<1>1. ASSUME NEW i \in DOMAIN P.rows, NEW f \in Field
      PROVE  Explained(P.rows[i].id, f, P.rows[i].cells[f], now, writes \ {w})
  <2> DEFINE r == P.rows[i].id
             v == P.rows[i].cells[f]
  <2>1. Explained(r, f, v, now, writes) /\ v \in Nat
    BY RowIs DEF Faithful
  <2>2. CASE Unanswered(r, f, now, writes)
    <3>1. PICK x \in writes : x.stage = "stored" /\ x.r = r /\ f \in Answered(x) /\ now[r][f] = x.n
      BY <2>2 DEF Unanswered
    <3>2. CASE x = w
      <4>1. w.n \in Nat /\ Reconciled(w, P) = P
        BY <3>1, <3>2, FlightIs
      <4>2. Reconciled(w, P).rows[i].cells[f] = w.n
        <5>1. Reconciled(w, P) = Patch(P, w.r, Answered(w), w.n)
          BY DEF Reconciled, Normalized
        <5>2. Patch(P, w.r, Answered(w), w.n).rows[i].cells[f]
                = IF r = w.r /\ f \in Answered(w) THEN w.n ELSE v
          BY <4>1, PatchIs
        <5> QED BY <3>1, <3>2, <5>1, <5>2
      <4> QED BY <3>1, <3>2, <4>1, <4>2 DEF Explained
    <3>3. CASE x # w
      BY <3>1, <3>3 DEF Unanswered, Explained
    <3> QED BY <3>2, <3>3
  <2>3. CASE Guessed(r, f, v, writes)
    <3>1. PICK x \in writes : v = Optimistic(x)
      BY <2>3 DEF Guessed
    <3>2. x.n \in Nat \ {0}
      BY FlightIs
    <3> QED BY <2>1, <3>1, <3>2 DEF Optimistic
  <2> QED BY <2>1, <2>2, <2>3 DEF Explained
<1> QED BY <1>1 DEF Faithful

(* A refused write is undone by its snapshot, if nothing else came between. *)
LEMMA RestoreKeeps ==
  ASSUME NEW S \in Page(Int), NEW D, NEW L, NEW now, NEW q,
         NEW writes \in SUBSET Flight, NEW w \in writes, OnePerCell(writes),
         w.stage # "stored", q \in Restorable(w), w.snap[q] = S,
         D = Patch(S, w.r, {w.f}, Optimistic(w)),
         Faithful(D, L, now, writes), Undoable(D, q, now, writes)
  PROVE  Faithful(S, L, now, writes \ {w}) /\ Undoable(S, q, now, writes \ {w})
<1>1. /\ D.total = S.total /\ DOMAIN D.rows = DOMAIN S.rows
      /\ \A i \in DOMAIN S.rows :
           /\ D.rows[i].id = S.rows[i].id
           /\ \A f \in Field : D.rows[i].cells[f] =
                IF S.rows[i].id = w.r /\ f \in {w.f} THEN Optimistic(w) ELSE S.rows[i].cells[f]
  <2>1. Optimistic(w) \in Int
    BY FlightIs DEF Optimistic
  <2> QED BY <2>1, PatchIs
<1>2. SameRows(S, L)
  <2>1. SameRows(D, L)
    BY Zenon DEF Faithful
  <2>2. S.total = L.total /\ DOMAIN S.rows = DOMAIN L.rows
    BY <1>1, <2>1, Zenon DEF SameRows
  <2>3. ASSUME NEW i \in DOMAIN S.rows PROVE S.rows[i].id = L.rows[i].id
    <3>1. i \in DOMAIN D.rows /\ D.rows[i].id = S.rows[i].id
      BY <1>1, Zenon
    <3>2. D.rows[i].id = L.rows[i].id
      BY <2>1, <3>1, Zenon DEF SameRows
    <3> QED BY <3>1, <3>2
  <2> QED BY <2>2, <2>3, Zenon DEF SameRows
<1>3. ASSUME NEW i \in DOMAIN S.rows, NEW f \in Field, ~(S.rows[i].id = w.r /\ f = w.f)
      PROVE  i \in DOMAIN D.rows /\ D.rows[i].id = S.rows[i].id
             /\ D.rows[i].cells[f] = S.rows[i].cells[f]
  <2>1. ~(S.rows[i].id = w.r /\ f \in {w.f})
    BY <1>3
  <2> QED BY <1>1, <2>1
<1>4. ASSUME NEW i \in DOMAIN S.rows, S.rows[i].id = w.r
      PROVE  S.rows[i].cells[w.f] = now[w.r][w.f]
  <2>1. w.f \in Field
    BY FlightIs
  <2>2. D.rows[i].id = w.r /\ D.rows[i].cells[w.f] = Optimistic(w)
    BY <1>1, <1>4, <2>1
  <2>3. i \in DOMAIN D.rows
    BY <1>1
  <2>4. Guesses(w, D)
    BY <2>2, <2>3 DEF Guesses
  <2>5. Undoes(w, q, now)
    BY <2>4 DEF Undoable
  <2> QED BY <1>4, <2>5 DEF Undoes
<1>5. ASSUME NEW i \in DOMAIN S.rows, NEW f \in Field
      PROVE  Explained(S.rows[i].id, f, S.rows[i].cells[f], now, writes \ {w})
  <2>1. CASE S.rows[i].id = w.r /\ f = w.f
    BY <1>4, <2>1 DEF Explained
  <2>2. CASE ~(S.rows[i].id = w.r /\ f = w.f)
    <3>1. i \in DOMAIN D.rows /\ D.rows[i].id = S.rows[i].id
          /\ D.rows[i].cells[f] = S.rows[i].cells[f]
      BY <1>3, <2>2
    <3>2. Explained(D.rows[i].id, f, D.rows[i].cells[f], now, writes)
      BY <3>1 DEF Faithful
    <3>3. Explained(S.rows[i].id, f, S.rows[i].cells[f], now, writes)
      BY <3>1, <3>2
    <3> QED BY <2>2, <3>3 DEF Explained, Unanswered, Guessed
  <2> QED BY <2>1, <2>2
<1>6. Faithful(S, L, now, writes \ {w})
  BY <1>2, <1>5 DEF Faithful
<1>7. ASSUME NEW x \in writes \ {w}, x.stage # "stored", Guesses(x, S)
      PROVE  Undoes(x, q, now)
  <2>1. PICK i \in DOMAIN S.rows : S.rows[i].id = x.r /\ S.rows[i].cells[x.f] = Optimistic(x)
    BY <1>7 DEF Guesses
  <2>2. x.f \in Field /\ ~(x.r = w.r /\ x.f = w.f)
    BY FlightIs DEF OnePerCell
  <2>3. i \in DOMAIN D.rows /\ D.rows[i].id = S.rows[i].id
        /\ D.rows[i].cells[x.f] = S.rows[i].cells[x.f]
    BY <1>3, <2>1, <2>2
  <2>4. D.rows[i].id = x.r /\ D.rows[i].cells[x.f] = Optimistic(x)
    BY <2>1, <2>3
  <2>5. Guesses(x, D)
    BY <2>4, <2>3 DEF Guesses
  <2> QED BY <1>7, <2>5 DEF Undoable
<1> QED BY <1>6, <1>7 DEF Undoable

(* A refused write whose snapshot does not hold the page never showed there.*)
LEMMA ForgetKeeps ==
  ASSUME NEW D, NEW L, NEW now, NEW q, NEW writes \in SUBSET Flight, NEW w \in writes,
         w.stage # "stored", q \notin Restorable(w),
         Faithful(D, L, now, writes), Undoable(D, q, now, writes)
  PROVE  Faithful(D, L, now, writes \ {w}) /\ Undoable(D, q, now, writes \ {w})
<1>1. ~Guesses(w, D)
  BY DEF Undoable, Undoes
<1>2. ASSUME NEW i \in DOMAIN D.rows, NEW f \in Field
      PROVE  Explained(D.rows[i].id, f, D.rows[i].cells[f], now, writes \ {w})
  <2>1. Explained(D.rows[i].id, f, D.rows[i].cells[f], now, writes)
    BY DEF Faithful
  <2>2. ~(w.r = D.rows[i].id /\ w.f = f /\ D.rows[i].cells[f] = Optimistic(w))
    BY <1>1 DEF Guesses
  <2> QED BY <2>1, <2>2 DEF Explained, Unanswered, Guessed
<1> QED BY <1>2 DEF Faithful, Undoable

(* The answer to a write, patched into a page it has not been overtaken in. *)
LEMMA ReconcileKeeps ==
  ASSUME NEW D \in Page(Int), NEW L, NEW q,
         WritesTyped, NEW w \in flight, OnePerCell(flight), StoredOrLater, w.stage = "stored",
         ~Overtaken(w, D), Faithful(D, L, stored, flight), Undoable(D, q, stored, flight)
  PROVE  LET P == Reconciled(w, D)
         IN Faithful(P, L, stored, flight \ {w}) /\ Undoable(P, q, stored, flight \ {w})
<1> DEFINE P == Reconciled(w, D)
<1>1. /\ P.total = D.total /\ DOMAIN P.rows = DOMAIN D.rows
      /\ \A i \in DOMAIN D.rows :
           /\ P.rows[i].id = D.rows[i].id
           /\ \A f \in Field : P.rows[i].cells[f] =
                IF D.rows[i].id = w.r /\ f \in Answered(w) THEN w.n ELSE D.rows[i].cells[f]
  <2>1. w.n \in Int
    BY WriteIs
  <2> QED BY <2>1, PatchIs DEF Reconciled, Normalized
<1> HIDE DEF P
<1>2. flight \in SUBSET Flight
  BY DEF WritesTyped, Flight
<1>3. SameRows(P, L)
  BY <1>1 DEF Faithful, SameRows
<1>4. ASSUME NEW i \in DOMAIN D.rows, NEW f \in Answered(w), D.rows[i].id = w.r
      PROVE  stored[w.r][f] = w.n \/ Unanswered(w.r, f, stored, flight \ {w})
  <2> SUFFICES ASSUME stored[w.r][f] # w.n PROVE Unanswered(w.r, f, stored, flight \ {w})
    OBVIOUS
  <2>1. f \in Field /\ w.f \in Typed /\ Answered(w) \cap Typed = {w.f}
    BY WriteIs
  <2>2. stored[w.r][f] > MaxTyped \/ f \in Recomputed[w.f]
    BY DEF StoredOrLater, Answered
  <2>3. D.rows[i].cells[f] # stored[w.r][f]
    BY <1>4, <2>2 DEF Overtaken, Normalized
  <2>4. Explained(w.r, f, D.rows[i].cells[f], stored, flight)
    BY <1>4, <2>1 DEF Faithful
  <2>5. ~Guessed(w.r, f, D.rows[i].cells[f], flight)
    <3> SUFFICES ASSUME NEW x \in flight, x.stage # "stored", x.r = w.r, x.f = f
                 PROVE  FALSE
      BY DEF Guessed
    <3>1. f = w.f
      BY <2>1, WriteIs
    <3> QED BY <3>1 DEF OnePerCell
  <2> QED BY <2>3, <2>4, <2>5 DEF Explained, Unanswered
<1>5. ASSUME NEW i \in DOMAIN D.rows, NEW f \in Field
      PROVE  Explained(D.rows[i].id, f, P.rows[i].cells[f], stored, flight \ {w})
  <2>1. CASE D.rows[i].id = w.r /\ f \in Answered(w)
    BY <1>1, <1>4, <2>1 DEF Explained
  <2>2. CASE ~(D.rows[i].id = w.r /\ f \in Answered(w))
    <3>1. P.rows[i].cells[f] = D.rows[i].cells[f]
      BY <1>1, <2>2
    <3>2. Explained(D.rows[i].id, f, D.rows[i].cells[f], stored, flight)
      BY DEF Faithful
    <3> QED BY <2>2, <3>1, <3>2 DEF Explained, Unanswered, Guessed
  <2> QED BY <2>1, <2>2
<1>6. Faithful(P, L, stored, flight \ {w})
  BY <1>1, <1>3, <1>5 DEF Faithful
<1>7. ASSUME NEW x \in flight \ {w}, x.stage # "stored", Guesses(x, P)
      PROVE  Undoes(x, q, stored)
  <2>1. PICK i \in DOMAIN D.rows : D.rows[i].id = x.r /\ P.rows[i].cells[x.f] = Optimistic(x)
    BY <1>1, <1>7 DEF Guesses
  <2>2. x.f \in Field /\ x.n \in Nat \ {0} /\ w.n \in Nat \ {0}
    BY WriteIs
  <2>3. D.rows[i].cells[x.f] = Optimistic(x)
    BY <1>1, <2>1, <2>2 DEF Optimistic
  <2>4. Guesses(x, D)
    BY <2>1, <2>3 DEF Guesses
  <2> QED BY <1>7, <2>4 DEF Undoable
<1> QED BY <1>6, <1>7 DEF Undoable, P

-----------------------------------------------------------------------------
(****************************************************************************)
(* The grid keeps its pages.                                                *)
(****************************************************************************)

(* What is kept of the grid.                                                *)
GridKept == WritesKept /\ LaterUnasked /\ PagesKept

(* Pages are kept by the steps that leave the table, the writes and the     *)
(* page alone, and by those that ask for the page again.                    *)
LEMMA SameList ==
  ASSUME UNCHANGED <<alive, stored>>, NEW p
  PROVE  Listed(p)' = Listed(p)
<1>1. SortKey' = SortKey
  BY SortKeyFrame
<1>2. Ordered(alive, SortKey)' = Ordered(alive, SortKey)
  <2>1. Ordered(alive, SortKey)' = Ordered(alive', SortKey')
    BY DEF Ordered, Precedes
  <2> QED BY <1>1, <2>1, Zenon
<1> QED BY <1>2 DEF Listed, PageOf

LEMMA KeptFrame ==
  ASSUME NEW p, UNCHANGED <<alive, stored, flight>>, PageKept(p),
         cache'[GridQuery(p)] = cache[GridQuery(p)],
         GridQuery(p) \in behind => GridQuery(p) \in behind'
  PROVE  PageKept(p)'
<1>1. Listed(p)' = Listed(p)
  BY SameList
<1> QED BY <1>1 DEF PageKept, Served, Settled

LEMMA RedoneKept ==
  ASSUME NEW p, Redone(cache'[GridQuery(p)])
  PROVE  PageKept(p)'
  BY DEF PageKept, Served, Settled, Redone

(* Distinct pages have distinct queries.                                    *)
LEMMA QueriesApart ==
  \A p, x : GridQuery(p) = GridQuery(x) => p = x
  BY DEF GridQuery

(* Only a page asked for has a fetch, an answer or a failure.               *)
LEMMA AskedFor ==
  ASSUME WritesTyped, LaterUnasked, NEW p \in GridPage,
         cache[GridQuery(p)].fetch # Idle \/ cache[GridQuery(p)].failed
  PROVE  p \in 1..pages
<1>1. p \in Nat \ {0} /\ pages \in Nat
  BY GridAssumption DEF WritesTyped
<1>2. ~(p > pages)
  BY DEF LaterUnasked, Unasked
<1> QED BY <1>1, <1>2

(* The steps that concern one page.                                         *)
LEMMA OnePageKeeps ==
  ASSUME CacheTyped, WritesTyped, GridKept, NEW p \in 1..pages, ~Due => PageKept(p)',
         UNCHANGED <<storeVars, news, gridVars, request>>,
         \A x \in Query \ {GridQuery(p)} :
           cache'[x] = cache[x] /\ (x \in behind => x \in behind')
  PROVE  GridKept'
<1>1. WritesKept'
  BY DEF GridKept, WritesKept, OnePerCell, StoredOrLater, gridVars, storeVars
<1>2. \A x \in 1..pages : GridQuery(x) \in Query
  BY DEF WritesTyped
<1>3. LaterUnasked'
  <2>1. ASSUME NEW x \in GridPage, x > pages PROVE Unasked(GridQuery(x))'
    <3>1. GridQuery(x) \in Query /\ x # p
      BY <2>1, GridAssumption DEF GridQuery, WritesTyped
    <3>2. Unasked(GridQuery(x))
      BY <2>1 DEF GridKept, LaterUnasked
    <3> QED BY <3>1, <3>2, QueriesApart DEF Unasked
  <2> QED BY <2>1 DEF LaterUnasked, gridVars
<1>4. PagesKept'
  <2>1. CASE Due
    BY <2>1 DEF Due, PagesKept, gridVars
  <2>2. ASSUME NEW x \in 1..pages, x # p, PageKept(x) PROVE PageKept(x)'
    <3>1. GridQuery(x) \in Query \ {GridQuery(p)}
      BY <1>2, <2>2, QueriesApart
    <3> QED BY <2>2, <3>1, KeptFrame DEF gridVars, storeVars
  <2> QED BY <2>1, <2>2 DEF GridKept, PagesKept, gridVars
<1> QED BY <1>1, <1>3, <1>4 DEF GridKept

(* The server reads a page, it lands, fails or is asked for again.          *)
LEMMA FetchesKeep ==
  ASSUME CacheTyped, WritesTyped, GridKept, UNCHANGED request,
         NEW p \in GridPage, ServePage(p) \/ LandPage(p) \/ FailPage(p) \/ RetryPage(p)
  PROVE  CacheTyped' /\ GridKept'
<1> DEFINE q == GridQuery(p)
<1>1. q \in Query /\ p \in Nat \ {0}
  BY GridAssumption DEF GridQuery
<1>2. CASE ServePage(p)
  <2>1. Listed(p) \in Page(Nat)
        /\ \A i \in DOMAIN Listed(p).rows : Listed(p).rows[i].cells = stored[Listed(p).rows[i].id]
    BY <1>1, ListedIs
  <2>2. Serve(q, Listed(p)) /\ UNCHANGED gridVars
    BY <1>2 DEF ServePage
  <2> HIDE DEF q
  <2>3. /\ CacheTyped' /\ cache[q].fetch = Sent
        /\ cache'[q].fetch = Listed(p)
        /\ \A x \in Query \ {q} : cache'[x] = cache[x]
        /\ UNCHANGED <<storeVars, news, behind>>
    BY <1>1, <2>1, <2>2, ServeStep
  <2>4. p \in 1..pages
    BY <2>3, AskedFor, ServedIsPage DEF GridKept, q
  <2>5. PageKept(p)'
    <3>1. Listed(p)' = Listed(p)
      BY <2>3, SameList DEF storeVars
    <3>2. Faithful(Listed(p), Listed(p), stored, flight)
      BY <2>1, AnswersAreFaithful
    <3>3. Listed(p) # Idle
      BY <2>1, PagesApart
    <3>4. stored' = stored /\ flight' = flight
      BY <2>2, <2>3 DEF storeVars, gridVars
    <3> QED BY <2>3, <3>1, <3>2, <3>3, <3>4 DEF PageKept, Settled, q
  <2> QED BY <2>2, <2>3, <2>4, <2>5, OnePageKeeps DEF q
<1>3. CASE LandPage(p)
  <2>2. Land(q) /\ UNCHANGED gridVars
    BY <1>3 DEF LandPage
  <2> HIDE DEF q
  <2>3. /\ CacheTyped' /\ Served(q) /\ cache[q].fetch \in Page(Nat)
        /\ cache'[q].data = cache[q].fetch /\ cache'[q].fetch = Idle
        /\ \A x \in Query \ {q} : cache'[x] = cache[x] /\ (x \in behind' <=> x \in behind)
        /\ q \notin behind' => ~cache[q].late
        /\ UNCHANGED <<storeVars, news>>
    BY <1>1, <2>2, LandStep
  <2>4. p \in 1..pages
    BY <2>3, AskedFor DEF GridKept, Served, q
  <2>5. ASSUME ~Due PROVE PageKept(p)'
    <3>1. Listed(p)' = Listed(p) /\ stored' = stored /\ flight' = flight
      BY <2>2, <2>3, SameList DEF storeVars, gridVars
    <3>2. ~cache[q].late => Faithful(cache[q].fetch, Listed(p), stored, flight)
      BY <2>3, <2>4, <2>5 DEF GridKept, PagesKept, PageKept, q
    <3>3. Undoable(cache[q].fetch, q, stored, flight)
      BY <2>3, AnswersGuessNothing DEF Undoable, WritesTyped, Flight
    <3>4. cache[q].fetch # NoData
      BY <2>3, PagesApart
    <3> QED BY <2>3, <3>1, <3>2, <3>3, <3>4 DEF PageKept, Settled, Served, q
  <2> QED BY <2>2, <2>3, <2>4, <2>5, OnePageKeeps DEF q
<1>4. CASE FailPage(p)
  <2>2. FetchFails(q) /\ UNCHANGED gridVars
    BY <1>4 DEF FailPage
  <2> HIDE DEF q
  <2>3. /\ CacheTyped' /\ InFlight(q)
        /\ cache'[q].failed /\ cache'[q].fetch = Idle
        /\ \A x \in Query \ {q} : cache'[x] = cache[x]
        /\ UNCHANGED <<storeVars, news, behind>>
    BY <1>1, <2>2, FailsStep
  <2>4. p \in 1..pages
    BY <2>3, AskedFor DEF GridKept, InFlight, q
  <2>5. PageKept(p)'
    BY <2>3 DEF PageKept, Settled, Served, q
  <2> QED BY <2>2, <2>3, <2>4, <2>5, OnePageKeeps DEF q
<1>5. CASE RetryPage(p)
  <2>2. cache[q].failed /\ cache' = [cache EXCEPT ![q] = Asked(@)]
        /\ UNCHANGED <<storeVars, news, behind>> /\ UNCHANGED gridVars
    BY <1>5 DEF RetryPage, RetryFetch
  <2> HIDE DEF q
  <2>3. /\ CacheTyped' /\ cache'[q].fetch = Sent
        /\ \A x \in Query \ {q} : cache'[x] = cache[x]
    BY <1>1, <2>2, AskedStep
  <2>4. p \in 1..pages
    BY <2>2, AskedFor DEF GridKept, q
  <2>5. PageKept(p)'
    BY <2>3, ServedIsPage DEF PageKept, Settled, Served, q
  <2> QED BY <2>2, <2>3, <2>4, <2>5, OnePageKeeps DEF q
<1> QED BY <1>2, <1>3, <1>4, <1>5

(* Pages not asked for yet are not on the grid.                             *)
LEMMA BeyondPages ==
  ASSUME WritesTyped, NEW p \in GridPage, p > pages
  PROVE  GridQuery(p) \in Query \ OnGrid
<1>1. GridQuery(p) \in Query /\ p \in Nat /\ pages \in Nat
  BY GridAssumption DEF GridQuery, WritesTyped
<1>2. ~(\E x \in 1..pages : GridQuery(p) = GridQuery(x))
  BY <1>1, QueriesApart
<1> QED BY <1>1, <1>2 DEF OnGrid

(* The steps of the grid, one by one.                                       *)
LEMMA ShowMoreKeeps ==
  ASSUME CacheTyped, WritesTyped, GridKept, UNCHANGED request, ShowMore
  PROVE  GridKept'
<1> DEFINE q == GridQuery(pages + 1)
<1>1. /\ pages + 1 \in GridPage /\ pages' = pages + 1
      /\ UNCHANGED <<storeVars, news, behind, flight>>
      /\ cache'[q].fetch = Sent
      /\ \A x \in Query \ {q} : cache'[x] = cache[x]
  BY ShowMoreTypes
<1>2. WritesKept'
  BY <1>1 DEF GridKept, WritesKept, OnePerCell, StoredOrLater, storeVars
<1>3. pages \in Nat /\ \A p \in 1..pages : GridQuery(p) \in Query
  BY DEF WritesTyped
<1>4. LaterUnasked'
  <2>1. ASSUME NEW x \in GridPage, x > pages + 1
        PROVE  Unasked(GridQuery(x))'
    <3>1. GridQuery(x) \in Query /\ x # pages + 1 /\ x > pages
      BY <1>3, <2>1, GridAssumption DEF GridQuery
    <3>2. GridQuery(x) # q
      BY <3>1, QueriesApart
    <3>3. cache[GridQuery(x)].data = NoData
          /\ cache[GridQuery(x)].fetch = Idle /\ ~cache[GridQuery(x)].failed
      BY <3>1 DEF GridKept, LaterUnasked, Unasked
    <3> QED BY <1>1, <3>1, <3>2, <3>3 DEF Unasked
  <2> QED BY <1>1, <2>1 DEF LaterUnasked
<1>5. PagesKept'
  <2>1. CASE Due
    BY <1>1, <2>1 DEF Due, PagesKept
  <2>2. ASSUME NEW x \in 1..pages, PageKept(x) PROVE PageKept(x)'
    <3>1. GridQuery(x) \in Query \ {q}
      BY <1>3, <2>2, QueriesApart
    <3> QED BY <1>1, <2>2, <3>1, KeptFrame DEF storeVars
  <2>3. ASSUME NEW x, x = pages + 1 PROVE PageKept(x)'
    BY <1>1, <2>3, ServedIsPage DEF PageKept, Settled, Served
  <2>4. 1..pages' = 1..pages \cup {pages + 1}
    BY <1>1, <1>3
  <2> QED BY <2>1, <2>2, <2>3, <2>4 DEF GridKept, PagesKept
<1> QED BY <1>2, <1>4, <1>5 DEF GridKept

LEMMA FlushKeeps ==
  ASSUME CacheTyped, WritesTyped, GridKept, FlushGrid
  PROVE  CacheTyped' /\ GridKept'
<1>1. /\ cache' = Refetched(cache, OnGrid) /\ news' \in BOOLEAN
      /\ UNCHANGED <<storeVars, behind, gridVars>>
  BY DEF FlushGrid, Flush
<1>2. /\ CacheTyped' /\ \A q \in Query \cap OnGrid : Redone(cache'[q])
      /\ \A q \in Query \ OnGrid : cache'[q] = cache[q]
  BY <1>1, RefetchStep
<1>3. WritesKept'
  BY <1>1 DEF GridKept, WritesKept, OnePerCell, StoredOrLater, storeVars, gridVars
<1>4. LaterUnasked'
  <2>1. ASSUME NEW x \in GridPage, x > pages PROVE Unasked(GridQuery(x))'
    BY <1>2, <2>1, BeyondPages DEF GridKept, LaterUnasked, Unasked
  <2> QED BY <1>1, <2>1 DEF LaterUnasked, gridVars
<1>5. PagesKept'
  BY <1>1, <1>2, OnGridIs, RedoneKept DEF PagesKept, gridVars
<1> QED BY <1>2, <1>3, <1>4, <1>5 DEF GridKept

LEMMA TypeKeeps ==
  ASSUME GridKept, UNCHANGED request, NEW r, NEW f, Type(r, f)
  PROVE  GridKept'
<1>1. UNCHANGED <<cacheVars, pages, flight, request>>
  BY DEF Type
<1>2. \A p \in 1..pages : PageKept(p) => PageKept(p)'
  BY <1>1, KeptFrame DEF cacheVars, storeVars
<1>3. Due => Due'
  BY <1>1 DEF Due, cacheVars
<1>4. WritesKept' /\ LaterUnasked'
  BY <1>1 DEF GridKept, WritesKept, OnePerCell, StoredOrLater, LaterUnasked, Unasked,
     cacheVars, storeVars
<1> QED BY <1>1, <1>2, <1>3, <1>4 DEF GridKept, PagesKept

LEMMA BeginKeeps ==
  ASSUME CacheTyped, WritesTyped, GridKept, UNCHANGED request, NEW w \in waiting, Begin(w)
  PROVE  GridKept'
<1> DEFINE s == Sending(w)
<1>1. /\ s \in Flight /\ flight' = flight \cup {s}
      /\ \A q \in Query \ OnGrid : cache'[q] = cache[q]
      /\ \A q \in OnGrid :
           /\ cache'[q].fetch = Idle
           /\ cache[q].data = NoData => cache'[q].data = NoData
           /\ cache[q].data # NoData =>
                cache'[q].data = Patch(cache[q].data, w.r, {w.f}, Optimistic(w))
  BY BeginTypes
<1>2. /\ UNCHANGED <<storeVars, news, pages, typed>>
      /\ behind' = behind \cup {q \in OnGrid : InFlight(q) \/ cache[q].failed}
      /\ \A x \in flight : <<x.r, x.f>> # <<w.r, w.f>>
  BY DEF Begin, MyTurn
<1>3. /\ s.n = w.n /\ s.r = w.r /\ s.f = w.f /\ s.stage = "sent"
      /\ s.snap = [q \in OnGrid |-> cache[q].data]
  BY DEF Sending
<1> HIDE DEF s
<1>4. WritesKept'
  <2>1. OnePerCell(flight)'
    BY <1>1, <1>2, <1>3 DEF GridKept, WritesKept, OnePerCell
  <2> QED BY <1>1, <1>2, <1>3, <2>1 DEF GridKept, WritesKept, StoredOrLater, storeVars
<1>5. LaterUnasked'
  <2>1. ASSUME NEW x \in GridPage, x > pages PROVE Unasked(GridQuery(x))'
    BY <1>1, <2>1, BeyondPages DEF GridKept, LaterUnasked, Unasked
  <2> QED BY <1>2, <2>1 DEF LaterUnasked
<1>6. ASSUME NEW p \in 1..pages, PageKept(p)
      PROVE  PageKept(p)'
  <2> DEFINE q == GridQuery(p)
  <2>1. q \in OnGrid /\ q \in Query
    BY OnGridIs
  <2>2. Listed(p)' = Listed(p) /\ stored' = stored
    BY <1>2, SameList DEF storeVars
  <2>3. ~Served(q)'
    BY <1>1, <2>1 DEF Served
  <2>4. ASSUME Settled(q)'
        PROVE  /\ cache'[q].data # NoData
               /\ Faithful(cache'[q].data, Listed(p), stored, flight')
               /\ Undoable(cache'[q].data, q, stored, flight')
    <3>1. Settled(q)
      BY <1>2, <2>1, <2>4 DEF Settled, InFlight
    <3> DEFINE D == cache[q].data
    <3>2. D # NoData /\ Faithful(D, Listed(p), stored, flight) /\ Undoable(D, q, stored, flight)
      BY <1>6, <3>1 DEF PageKept
    <3>3. D \in Page(Int)
      BY <2>1, <3>2, EntryParts DEF CacheTyped
    <3>4. cache'[q].data = Patch(D, s.r, {s.f}, Optimistic(s))
      BY <1>1, <1>3, <2>1, <3>2 DEF Optimistic
    <3>5. q \in Restorable(s) /\ s.snap[q] = D
      BY <1>3, <2>1, <3>2 DEF Restorable
    <3> HIDE DEF D, q
    <3>6. flight \in SUBSET Flight
      BY DEF WritesTyped, Flight
    <3>7. \A x \in flight : <<x.r, x.f>> # <<s.r, s.f>>
      BY <1>2, <1>3
    <3>8. Faithful(cache'[q].data, Listed(p), stored, flight')
      <4>1. Faithful(Patch(D, s.r, {s.f}, Optimistic(s)), Listed(p), stored, flight \cup {s})
        BY <1>1, <1>3, <3>2, <3>3, BeginFaithful
      <4> QED BY <1>1, <3>4, <4>1
    <3>9. Undoable(cache'[q].data, q, stored, flight')
      <4>1. Undoable(Patch(D, s.r, {s.f}, Optimistic(s)), q, stored, flight \cup {s})
        BY <1>1, <1>3, <3>2, <3>3, <3>5, <3>6, <3>7, BeginUndoable
      <4> QED BY <1>1, <3>4, <4>1
    <3>10. cache'[q].data \in Page(Int)
      <4>1. Optimistic(s) \in Int
        BY <1>1, FlightIs DEF Optimistic
      <4> QED BY <3>3, <3>4, <4>1, PatchIs
    <3> QED BY <3>8, <3>9, <3>10, PagesApart
  <2> QED BY <2>2, <2>3, <2>4 DEF PageKept
<1>7. PagesKept'
  <2>1. Due => Due'
    BY <1>1, <1>2 DEF Due
  <2> QED BY <1>2, <1>6, <2>1 DEF GridKept, PagesKept
<1> QED BY <1>4, <1>5, <1>7 DEF GridKept

LEMMA ApplyStep ==
  ASSUME CacheTyped, WritesTyped, GridKept, UNCHANGED request, NEW w \in flight, Apply(w)
  PROVE  GridKept'
<1> DEFINE v == [w EXCEPT !.stage = "stored"]
<1>1. /\ w.stage = "sent" /\ stored' = Written(w.r, w.f, w.n) /\ flight' = (flight \ {w}) \cup {v}
      /\ UNCHANGED <<alive, changes, news, cache, behind, pages, typed, waiting>>
  BY DEF Apply, Becomes, Normalized
<1>2. /\ w \in Flight /\ w.n \in Nat /\ w.r \in Record /\ w.f \in Typed /\ w.f \in Field
      /\ Answered(w) \subseteq Field /\ Answered(w) \cap Typed = {w.f}
  BY WriteIs
<1>3. v.stage = "stored" /\ v.n = w.n /\ v.r = w.r /\ v.f = w.f /\ Answered(v) = Answered(w)
  BY <1>2, BecomesIs DEF Stages, Answered
<1>4. \A r \in Record, f \in Field :
        stored'[r][f] = IF r = w.r /\ f \in Answered(w) THEN w.n ELSE stored[r][f]
  BY <1>1, <1>2, WrittenTyped DEF CacheTyped, Answered
<1>5. flight \in SUBSET Flight /\ OnePerCell(flight)
  BY DEF WritesTyped, Flight, GridKept, WritesKept
<1> HIDE DEF v
<1>6. WritesKept'
  <2>1. OnePerCell(flight)'
    BY <1>1, <1>3, <1>5 DEF OnePerCell
  <2>2. ASSUME NEW x \in flight', x.stage = "stored"
        PROVE  stored'[x.r][x.f] = x.n \/ stored'[x.r][x.f] > MaxTyped
    <3>1. CASE x = v
      BY <1>2, <1>3, <1>4, <3>1 DEF Answered
    <3>2. CASE x \in flight /\ x # w
      <4>1. x.r \in Record /\ x.f \in Field /\ x.f \in Typed
        BY <3>2, WriteIs
      <4>2. ~(x.r = w.r /\ x.f \in Answered(w))
        BY <1>2, <1>5, <3>2, <4>1 DEF OnePerCell
      <4>3. stored[x.r][x.f] = x.n \/ stored[x.r][x.f] > MaxTyped
        BY <2>2, <3>2 DEF GridKept, WritesKept, StoredOrLater
      <4> QED BY <1>4, <4>1, <4>2, <4>3
    <3> QED BY <1>1, <3>1, <3>2
  <2> QED BY <2>1, <2>2 DEF WritesKept, StoredOrLater
<1>7. LaterUnasked'
  BY <1>1 DEF GridKept, LaterUnasked, Unasked
<1>8. PagesKept'
  <2>1. CASE MovesRows(w)
    <3>1. v \in flight' /\ MovesRows(v)
      BY <1>1, <1>3, <2>1 DEF MovesRows
    <3> QED BY <1>3, <3>1 DEF PagesKept, Due
  <2>2. Due => Due'
    BY <1>1 DEF Due
  <2>3. ASSUME ~MovesRows(w), NEW p \in 1..pages, PageKept(p)
        PROVE  PageKept(p)'
    <3> DEFINE q == GridQuery(p)
               L == Listed(p)
               M == Listed(p)'
    <3>1. SortKey' = SortKey
      <4>1. SortField \in Field => \A r \in Record : stored'[r][SortField] = stored[r][SortField]
        BY <1>4, <2>3 DEF MovesRows
      <4> QED BY <4>1, SortKeyFrame
    <3>2. M.total = L.total /\ DOMAIN M.rows = DOMAIN L.rows
          /\ \A i \in DOMAIN L.rows : M.rows[i].id = L.rows[i].id
      BY <1>1, <3>1, ListedKeepsRows
    <3>3. q \in Query /\ cache[q] \in Entry
      BY DEF WritesTyped, CacheTyped
    <3> HIDE DEF L, M, q
    <3>4. ASSUME NEW P \in Page(Int), Faithful(P, L, stored, flight)
          PROVE  /\ Faithful(P, M, stored', flight')
                 /\ Undoable(P, q, stored, flight) => Undoable(P, q, stored', flight')
      <4>1. SameRows(P, M)
        BY <3>2, <3>4 DEF Faithful, SameRows
      <4>2. /\ Faithful(P, M, stored', (flight \ {w}) \cup {[w EXCEPT !.stage = "stored"]})
            /\ Undoable(P, q, stored, flight) =>
                 Undoable(P, q, stored', (flight \ {w}) \cup {[w EXCEPT !.stage = "stored"]})
        BY <1>1, <1>4, <1>5, <3>4, <4>1, ApplyKeeps
      <4> QED BY <1>1, <4>2 DEF v
    <3>5. Served(q)' /\ ~cache'[q].late => Faithful(cache'[q].fetch, M, stored', flight')
      <4>1. SUFFICES ASSUME Served(q), ~cache[q].late
                     PROVE  Faithful(cache[q].fetch, M, stored', flight')
        BY <1>1 DEF Served
      <4>2. Faithful(cache[q].fetch, L, stored, flight)
        BY <2>3, <4>1 DEF PageKept, q, L
      <4>3. cache[q].fetch \in Page(Int)
        BY <3>3, <4>1, EntryParts, ServedIsPage DEF Served
      <4> QED BY <3>4, <4>2, <4>3
    <3>6. Settled(q)' => /\ cache'[q].data # NoData
                         /\ Faithful(cache'[q].data, M, stored', flight')
                         /\ Undoable(cache'[q].data, q, stored', flight')
      <4>1. SUFFICES ASSUME Settled(q)
                     PROVE  /\ cache[q].data # NoData
                            /\ Faithful(cache[q].data, M, stored', flight')
                            /\ Undoable(cache[q].data, q, stored', flight')
        BY <1>1 DEF Settled
      <4>2. /\ cache[q].data # NoData /\ Faithful(cache[q].data, L, stored, flight)
            /\ Undoable(cache[q].data, q, stored, flight)
        BY <2>3, <4>1 DEF PageKept, q, L
      <4>3. cache[q].data \in Page(Int)
        BY <3>3, <4>2, EntryParts
      <4> QED BY <3>4, <4>2, <4>3
    <3> QED BY <3>5, <3>6 DEF PageKept, q, M
  <2> QED BY <1>1, <2>1, <2>2, <2>3 DEF GridKept, PagesKept
<1> QED BY <1>6, <1>7, <1>8 DEF GridKept

LEMMA RefuseStep ==
  ASSUME CacheTyped, WritesTyped, GridKept, UNCHANGED request, NEW w \in flight, Refuse(w)
  PROVE  GridKept'
<1> DEFINE v == [w EXCEPT !.stage = "refused"]
<1>1. /\ w.stage = "sent" /\ flight' = (flight \ {w}) \cup {v}
      /\ UNCHANGED <<alive, stored, changes, news, cache, behind, pages>>
  BY DEF Refuse, Becomes, cacheVars, storeVars
<1>2. w \in Flight
  BY WriteIs
<1>3. v.stage = "refused" /\ v.n = w.n /\ v.r = w.r /\ v.f = w.f
  BY <1>2, BecomesIs DEF Stages
<1>4. flight \in SUBSET Flight
  BY DEF WritesTyped, Flight
<1> HIDE DEF v
<1>5. WritesKept'
  <2>1. OnePerCell(flight)'
    BY <1>1, <1>3 DEF OnePerCell, GridKept, WritesKept
  <2> QED BY <1>1, <1>3, <2>1 DEF GridKept, WritesKept, StoredOrLater
<1>6. LaterUnasked'
  BY <1>1 DEF GridKept, LaterUnasked, Unasked
<1>7. PagesKept'
  <2>1. Due => Due'
    BY <1>1 DEF Due
  <2>2. ASSUME NEW p \in 1..pages, PageKept(p) PROVE PageKept(p)'
    <3>1. Listed(p)' = Listed(p)
      BY <1>1, SameList
    <3>2. ASSUME NEW P, NEW q, Faithful(P, Listed(p), stored, flight)
          PROVE  /\ Faithful(P, Listed(p), stored, flight')
                 /\ Undoable(P, q, stored, flight) => Undoable(P, q, stored, flight')
      <4> DEFINE L == Listed(p)
      <4> HIDE DEF L
      <4>1. Faithful(P, L, stored, flight)
        BY <3>2 DEF L
      <4>2. /\ Faithful(P, L, stored, (flight \ {w}) \cup {[w EXCEPT !.stage = "refused"]})
            /\ Undoable(P, q, stored, flight) =>
                 Undoable(P, q, stored, (flight \ {w}) \cup {[w EXCEPT !.stage = "refused"]})
        BY <1>1, <1>4, <4>1, RefuseKeeps
      <4> QED BY <1>1, <4>2 DEF v, L
    <3> QED BY <1>1, <2>2, <3>1, <3>2 DEF PageKept, Served, Settled
  <2> QED BY <1>1, <2>1, <2>2 DEF GridKept, PagesKept
<1> QED BY <1>5, <1>6, <1>7 DEF GridKept

(* A write that has ended constrains no other.                              *)
LEMMA EndedWrite ==
  ASSUME WritesKept, UNCHANGED stored, flight' \subseteq flight
  PROVE  WritesKept'
  BY DEF WritesKept, OnePerCell, StoredOrLater

(* It also takes away no announced fetch, unless it is the one that         *)
(* announced it.                                                            *)
LEMMA EndedDue ==
  ASSUME NEW w \in flight, flight' = flight \ {w}, UNCHANGED <<news, request>>,
         ~(w.stage = "stored" /\ MovesRows(w)), Due
  PROVE  Due'
  BY DEF Due

LEMMA RollBackStep ==
  ASSUME CacheTyped, WritesTyped, GridKept, UNCHANGED request, NEW w \in flight, RollBack(w)
  PROVE  GridKept'
<1>1. /\ flight' = flight \ {w} /\ UNCHANGED <<storeVars, news, pages, typed, waiting>>
      /\ \A q \in Query :
           /\ cache'[q].fetch = cache[q].fetch
           /\ ~cache'[q].late =>
                /\ ~cache[q].late
                /\ Served(q) /\ w.stage = "stored" =>
                     ~MovesRows(w) /\ Reconciled(w, cache[q].fetch) = cache[q].fetch
           /\ q \in Restorable(w) => cache'[q].data = w.snap[q]
           /\ q \notin Restorable(w) => /\ cache'[q].data = cache[q].data
                                        /\ cache'[q].failed = cache[q].failed
  BY RollBackTypes
<1>2. behind' = behind \cup (IF w.stage = "stored" THEN OnGrid ELSE {}) \cup
           {q \in Restorable(w) :
              cache[q].failed \/ cache[q].data # Patch(w.snap[q], w.r, {w.f}, Optimistic(w))}
  BY DEF RollBack
<1>3. Restorable(w) \subseteq OnGrid /\ flight \in SUBSET Flight
  BY WriteIs DEF Restorable, WritesTyped, Flight
<1>4. WritesKept'
  BY <1>1, EndedWrite DEF GridKept, storeVars
<1>5. LaterUnasked'
  <2>1. ASSUME NEW x \in GridPage, x > pages PROVE Unasked(GridQuery(x))'
    <3>1. GridQuery(x) \in Query \ OnGrid
      BY <2>1, BeyondPages
    <3>2. /\ cache[GridQuery(x)].data = NoData /\ cache[GridQuery(x)].fetch = Idle
          /\ ~cache[GridQuery(x)].failed
      BY <2>1 DEF GridKept, LaterUnasked, Unasked
    <3> QED BY <1>1, <1>3, <3>1, <3>2 DEF Unasked
  <2> QED BY <1>1, <2>1 DEF LaterUnasked
<1>6. ASSUME NEW p \in 1..pages, Due \/ PageKept(p),
             ~Due \/ (w.stage = "stored" /\ MovesRows(w))
      PROVE  PageKept(p)'
  <2> DEFINE q == GridQuery(p)
             L == Listed(p)
  <2>1. q \in OnGrid /\ q \in Query /\ cache[q] \in Entry
    BY OnGridIs DEF CacheTyped
  <2>2. Listed(p)' = L /\ stored' = stored
    BY <1>1, SameList DEF storeVars
  <2>3. PageKept(p) =>
          /\ Served(q) /\ ~cache[q].late => Faithful(cache[q].fetch, L, stored, flight)
          /\ Settled(q) => /\ cache[q].data # NoData /\ Faithful(cache[q].data, L, stored, flight)
                           /\ Undoable(cache[q].data, q, stored, flight)
    BY DEF PageKept
  <2> HIDE DEF L
  <2>4. Served(q)' /\ ~cache'[q].late => Faithful(cache'[q].fetch, L, stored, flight')
    <3>1. SUFFICES ASSUME Served(q), ~cache'[q].late
                   PROVE  Faithful(cache[q].fetch, L, stored, flight \ {w})
      BY <1>1, <2>1 DEF Served
    <3>2. ~cache[q].late /\ (w.stage = "stored" =>
            ~MovesRows(w) /\ Reconciled(w, cache[q].fetch) = cache[q].fetch)
      BY <1>1, <2>1, <3>1
    <3>3. Faithful(cache[q].fetch, L, stored, flight)
      BY <1>6, <2>3, <3>1, <3>2
    <3>4. cache[q].fetch \in Page(Nat)
      BY <2>1, <3>1, EntryParts DEF Served
    <3> HIDE DEF q
    <3> QED BY <1>3, <3>2, <3>3, <3>4, FetchKeeps
  <2>5. Settled(q)' => /\ cache'[q].data # NoData
                       /\ Faithful(cache'[q].data, L, stored, flight')
                       /\ Undoable(cache'[q].data, q, stored, flight')
    <3>1. SUFFICES ASSUME Settled(q)'
                   PROVE  /\ cache'[q].data # NoData
                          /\ Faithful(cache'[q].data, L, stored, flight \ {w})
                          /\ Undoable(cache'[q].data, q, stored, flight \ {w})
      BY <1>1
    <3>2. w.stage # "stored" /\ q \notin behind /\ cache[q].fetch = Idle
      BY <1>1, <1>2, <2>1, <3>1 DEF Settled
    <3>3. CASE q \in Restorable(w)
      <4> DEFINE S == w.snap[q]
                 D == cache[q].data
      <4>1. ~cache[q].failed /\ D = Patch(S, w.r, {w.f}, Optimistic(w)) /\ cache'[q].data = S
        BY <1>1, <1>2, <2>1, <3>1, <3>3 DEF Settled
      <4>2. /\ Faithful(D, L, stored, flight) /\ Undoable(D, q, stored, flight)
        BY <1>6, <2>3, <3>2, <4>1 DEF Settled
      <4>3. S \in Page(Int) /\ S # NoData
        <5>1. S \in AnyData /\ S # NoData
          BY <3>3, WriteIs, SnapshotIs DEF Restorable
        <5> QED BY <5>1 DEF AnyData
      <4> HIDE DEF S, D, q
      <4>4. Faithful(S, L, stored, flight \ {w}) /\ Undoable(S, q, stored, flight \ {w})
        <5>1. w.snap[q] = S /\ OnePerCell(flight)
          BY DEF S, GridKept, WritesKept
        <5> QED BY <1>3, <3>2, <3>3, <4>1, <4>2, <4>3, <5>1, RestoreKeeps
      <4> QED BY <4>1, <4>3, <4>4
    <3>4. CASE q \notin Restorable(w)
      <4> DEFINE D == cache[q].data
      <4>1. cache'[q].data = D /\ Settled(q)
        BY <1>1, <2>1, <3>1, <3>2, <3>4 DEF Settled
      <4>2. D # NoData /\ Faithful(D, L, stored, flight) /\ Undoable(D, q, stored, flight)
        BY <1>6, <2>3, <3>2, <4>1
      <4> HIDE DEF D, q
      <4> QED BY <1>3, <3>2, <3>4, <4>1, <4>2, ForgetKeeps
    <3> QED BY <3>3, <3>4
  <2> QED BY <2>2, <2>4, <2>5 DEF PageKept
<1>7. PagesKept'
  <2>1. CASE Due /\ ~(w.stage = "stored" /\ MovesRows(w))
    BY <1>1, <2>1, EndedDue DEF PagesKept
  <2>2. CASE ~(Due /\ ~(w.stage = "stored" /\ MovesRows(w)))
    BY <1>1, <1>6, <2>2 DEF GridKept, PagesKept
  <2> QED BY <2>1, <2>2
<1> QED BY <1>4, <1>5, <1>7 DEF GridKept

LEMMA ReconcileStep ==
  ASSUME CacheTyped, WritesTyped, GridKept, UNCHANGED request, NEW w \in flight, Reconcile(w)
  PROVE  GridKept'
<1>1. /\ flight' = flight \ {w} /\ UNCHANGED <<storeVars, news, pages, typed, waiting>>
      /\ \A q \in OnGrid : MovesRows(w) => Redone(cache'[q])
      /\ \A q \in Query : cache[q].data = NoData /\ q \notin OnGrid =>
           /\ cache'[q].data = NoData /\ cache'[q].fetch = cache[q].fetch
           /\ cache'[q].failed = cache[q].failed
      /\ ~MovesRows(w) => \A q \in Query :
           /\ cache'[q].fetch = cache[q].fetch
           /\ ~cache'[q].late =>
                /\ ~cache[q].late
                /\ Served(q) => Reconciled(w, cache[q].fetch) = cache[q].fetch
           /\ cache[q].data = NoData => cache'[q].data = NoData
           /\ cache[q].data # NoData => cache'[q].data = Reconciled(w, cache[q].data)
  BY ReconcileTypes
<1>2. /\ w.stage = "stored"
      /\ behind' = behind \cup
           {q \in OnGrid : cache[q].failed \/ Overtaken(w, cache[q].data)}
  BY DEF Reconcile
<1>3. flight \in SUBSET Flight
  BY DEF WritesTyped, Flight
<1>4. WritesKept'
  BY <1>1, EndedWrite DEF GridKept, storeVars
<1>5. LaterUnasked'
  <2>1. ASSUME NEW x \in GridPage, x > pages PROVE Unasked(GridQuery(x))'
    BY <1>1, <2>1, BeyondPages DEF GridKept, LaterUnasked, Unasked
  <2> QED BY <1>1, <2>1 DEF LaterUnasked
<1>6. ASSUME NEW p \in 1..pages, PageKept(p), ~MovesRows(w)
      PROVE  PageKept(p)'
  <2> DEFINE q == GridQuery(p)
             L == Listed(p)
  <2>1. q \in OnGrid /\ q \in Query /\ cache[q] \in Entry
    BY OnGridIs DEF CacheTyped
  <2>2. Listed(p)' = L /\ stored' = stored
    BY <1>1, SameList DEF storeVars
  <2>3. /\ Served(q) /\ ~cache[q].late => Faithful(cache[q].fetch, L, stored, flight)
        /\ Settled(q) => /\ cache[q].data # NoData /\ Faithful(cache[q].data, L, stored, flight)
                         /\ Undoable(cache[q].data, q, stored, flight)
    BY <1>6 DEF PageKept
  <2> HIDE DEF L
  <2>4. Served(q)' /\ ~cache'[q].late => Faithful(cache'[q].fetch, L, stored, flight')
    <3>1. SUFFICES ASSUME Served(q), ~cache'[q].late
                   PROVE  Faithful(cache[q].fetch, L, stored, flight \ {w})
      BY <1>1, <1>6, <2>1 DEF Served
    <3>2. ~cache[q].late /\ Reconciled(w, cache[q].fetch) = cache[q].fetch
      BY <1>1, <1>6, <2>1, <3>1
    <3>3. Faithful(cache[q].fetch, L, stored, flight)
      BY <2>3, <3>1, <3>2
    <3>4. cache[q].fetch \in Page(Nat)
      BY <2>1, <3>1, EntryParts DEF Served
    <3> HIDE DEF q
    <3> QED BY <1>3, <3>2, <3>3, <3>4, FetchKeeps
  <2>5. Settled(q)' => /\ cache'[q].data # NoData
                       /\ Faithful(cache'[q].data, L, stored, flight')
                       /\ Undoable(cache'[q].data, q, stored, flight')
    <3>1. SUFFICES ASSUME Settled(q)'
                   PROVE  /\ cache'[q].data # NoData
                          /\ Faithful(cache'[q].data, L, stored, flight \ {w})
                          /\ Undoable(cache'[q].data, q, stored, flight \ {w})
      BY <1>1
    <3> DEFINE D == cache[q].data
    <3>2. Settled(q) /\ ~Overtaken(w, D)
      BY <1>1, <1>2, <1>6, <2>1, <3>1 DEF Settled
    <3>3. D # NoData /\ Faithful(D, L, stored, flight) /\ Undoable(D, q, stored, flight)
      BY <2>3, <3>2
    <3>4. D \in Page(Int) /\ cache'[q].data = Reconciled(w, D)
      BY <1>1, <1>6, <2>1, <3>3, EntryParts
    <3> HIDE DEF D, q
    <3>5. /\ Faithful(Reconciled(w, D), L, stored, flight \ {w})
          /\ Undoable(Reconciled(w, D), q, stored, flight \ {w})
      BY <1>2, <3>2, <3>3, <3>4, ReconcileKeeps DEF GridKept, WritesKept
    <3>6. Reconciled(w, D) # NoData
      <4>1. Normalized(w.n) \in Int
        BY WriteIs DEF Normalized
      <4>2. Reconciled(w, D) \in Page(Int)
        BY <3>4, <4>1, PatchIs DEF Reconciled
      <4> QED BY <4>2, PagesApart
    <3> QED BY <3>4, <3>5, <3>6
  <2> QED BY <2>2, <2>4, <2>5 DEF PageKept
<1>7. PagesKept'
  <2>1. CASE MovesRows(w)
    BY <1>1, <2>1, OnGridIs, RedoneKept DEF PagesKept
  <2>2. CASE Due /\ ~MovesRows(w)
    BY <1>1, <2>2, EndedDue DEF PagesKept
  <2>3. CASE ~Due /\ ~MovesRows(w)
    BY <1>1, <1>6, <2>3 DEF GridKept, PagesKept
  <2> QED BY <2>1, <2>2, <2>3
<1> QED BY <1>4, <1>5, <1>7 DEF GridKept

(* What is left alone keeps its type.                                       *)
LEMMA GridFrame ==
  ASSUME WritesTyped, UNCHANGED gridVars
  PROVE  WritesTyped'
  BY WritesFrame DEF gridVars

LEMMA CacheStays ==
  ASSUME CacheTyped, UNCHANGED cacheVars
  PROVE  CacheTyped'
  BY DEF CacheTyped, cacheVars, storeVars

(* While cells change by others or by a paste, a stored write is still there*)
(* or has been overwritten by what came later.                              *)
LEMMA LaterValues ==
  ASSUME WritesTyped, WritesKept, UNCHANGED flight,
         \A r \in Record, f \in Typed : stored'[r][f] = stored[r][f] \/ stored'[r][f] > MaxTyped
  PROVE  WritesKept'
<1>1. \A w \in flight : w.r \in Record /\ w.f \in Typed
  BY WriteIs
<1> QED BY <1>1 DEF WritesKept, OnePerCell, StoredOrLater

(* Others change the table: a broadcast is to come.                         *)
LEMMA OthersKeep ==
  ASSUME CacheTyped, WritesTyped, GridKept, OthersChange, UNCHANGED gridVars
  PROVE  CacheTyped' /\ GridKept'
<1>1. PICK r \in Record :
        \/ \E f \in Typed : ChangeCell(r, f, Normalized(MaxTyped + changes + 1))
        \/ CreateRecord(r) \/ DeleteRecord(r)
  BY DEF OthersChange
<1>2. MaxTyped + changes + 1 \in Nat /\ MaxTyped + changes + 1 > MaxTyped
      /\ MaxTyped \in Nat /\ Typed \subseteq Field
  BY GridAssumption DEF CacheTyped
<1>3. \/ \E f \in Field : \E v \in Nat : ChangeCell(r, f, v)
      \/ CreateRecord(r) \/ DeleteRecord(r)
  BY <1>1, <1>2 DEF Normalized
<1>4. CacheTyped' /\ news' /\ UNCHANGED <<cache, behind>>
  BY <1>3, OthersStep
<1>5. \A s \in Record, g \in Typed : stored'[s][g] = stored[s][g] \/ stored'[s][g] > MaxTyped
  <2>1. CASE CreateRecord(r) \/ DeleteRecord(r)
    BY <2>1 DEF CreateRecord, DeleteRecord
  <2>2. ASSUME NEW f \in Typed, ChangeCell(r, f, Normalized(MaxTyped + changes + 1))
        PROVE  \A s \in Record, g \in Typed :
                 stored'[s][g] = stored[s][g] \/ stored'[s][g] > MaxTyped
    <3> DEFINE v == MaxTyped + changes + 1
    <3>1. stored' = Written(r, f, v) /\ v \in Nat /\ v > MaxTyped
      BY <1>2, <2>2 DEF ChangeCell, Normalized
    <3> HIDE DEF v
    <3>2. \A s \in Record, g \in Field :
            stored'[s][g] = IF s = r /\ g \in {f} \cup Recomputed[f] THEN v ELSE stored[s][g]
      BY <3>1, WrittenTyped DEF CacheTyped
    <3> QED BY <1>2, <3>1, <3>2
  <2> QED BY <1>1, <2>1, <2>2
<1>6. WritesKept'
  BY <1>5, LaterValues DEF GridKept, gridVars
<1>7. LaterUnasked' /\ PagesKept'
  BY <1>4 DEF GridKept, LaterUnasked, Unasked, PagesKept, Due, gridVars
<1> QED BY <1>4, <1>6, <1>7 DEF GridKept

(* Every step of the grid.                                                  *)
LEMMA GridStepKeeps ==
  ASSUME CacheTyped, WritesTyped, GridKept, GridNext, UNCHANGED request
  PROVE  CacheTyped' /\ WritesTyped' /\ GridKept'
<1>1. CASE ShowMore
  BY <1>1, ShowMoreTypes, ShowMoreKeeps
<1>2. CASE FlushGrid
  BY <1>2, FlushKeeps, GridFrame DEF FlushGrid
<1>3. ASSUME NEW p \in GridPage, ServePage(p) \/ LandPage(p) \/ FailPage(p) \/ RetryPage(p)
      PROVE  CacheTyped' /\ WritesTyped' /\ GridKept'
  <2>1. UNCHANGED gridVars
    BY <1>3 DEF ServePage, LandPage, FailPage, RetryPage
  <2> QED BY <1>3, <2>1, FetchesKeep, GridFrame
<1>4. ASSUME NEW r \in Record, NEW f \in Typed, Type(r, f)
      PROVE  CacheTyped' /\ WritesTyped' /\ GridKept'
  <2>1. CacheTyped'
    BY <1>4, CacheStays DEF Type
  <2> QED BY <1>4, <2>1, TypeTypes, TypeKeeps
<1>5. ASSUME NEW w \in waiting, Begin(w)
      PROVE  CacheTyped' /\ WritesTyped' /\ GridKept'
  BY <1>5, BeginTypes, BeginKeeps
<1>6. ASSUME NEW w \in flight, Answer(w)
      PROVE  CacheTyped' /\ WritesTyped' /\ GridKept'
  <2>1. CASE Apply(w)
    BY <2>1, AnsweredTypes, ApplyStep
  <2>2. CASE Refuse(w)
    BY <2>2, AnsweredTypes, RefuseStep
  <2>3. CASE RollBack(w)
    BY <2>3, RollBackTypes, RollBackStep
  <2>4. CASE Reconcile(w)
    BY <2>4, ReconcileTypes, ReconcileStep
  <2> QED BY <1>6, <2>1, <2>2, <2>3, <2>4 DEF Answer
<1>7. CASE OthersChange /\ UNCHANGED gridVars
  BY <1>7, OthersKeep, GridFrame
<1> QED BY <1>1, <1>2, <1>3, <1>4, <1>5, <1>6, <1>7 DEF GridNext

-----------------------------------------------------------------------------
(****************************************************************************)
(* The grid keeps its pages while a block is pasted.                        *)
(****************************************************************************)

(* The steps of a paste, as far as the grid is concerned.                   *)
LEMMA PasteFrame ==
  ASSUME CacheTyped, WritesTyped, GridKept, UNCHANGED <<cacheVars, gridVars>>, Due => Due'
  PROVE  CacheTyped' /\ WritesTyped' /\ GridKept'
<1>1. CacheTyped' /\ WritesTyped'
  BY CacheStays, GridFrame
<1>2. WritesKept' /\ LaterUnasked'
  BY DEF GridKept, WritesKept, OnePerCell, StoredOrLater, LaterUnasked, Unasked,
     cacheVars, storeVars, gridVars
<1>3. \A p \in 1..pages : PageKept(p) => PageKept(p)'
  BY KeptFrame DEF cacheVars, storeVars, gridVars
<1> QED BY <1>1, <1>2, <1>3 DEF GridKept, PagesKept, gridVars

(* A pasted block is written over whatever the session wrote before it.     *)
LEMMA BatchKeeps ==
  ASSUME CacheTyped, WritesTyped, GridKept, PasteTyped, ApplyBatch
  PROVE  CacheTyped' /\ WritesTyped' /\ GridKept'
<1>1. /\ UNCHANGED <<alive, changes, news, cache, behind, gridVars>>
      /\ request # Nothing /\ request' = [request EXCEPT !.stage = "stored"]
      /\ \/ stored' = stored
         \/ stored' = [r \in Record |->
                          IF r \in request.op.rows
                          THEN Written(r, PasteField, PasteValue(request.n))[r]
                          ELSE stored[r]]
  BY DEF ApplyBatch
<1>2. request.n \in Nat \ {0} /\ request' # Nothing /\ request'.stage = "stored"
  <2>1. request \in [n : 1..pastes, op : {request.op}, stage : {"sent", "stored"},
                     generation : 0..generation]
    BY <1>1 DEF PasteTyped, IsRequest
  <2>2. pastes \in Nat
    BY PasteAssumption DEF PasteTyped
  <2>3. request' \in [n : 1..pastes, op : {request.op}, stage : {"sent", "stored"},
                     generation : 0..generation]
        /\ request'.stage = "stored" /\ request'.n = request.n
    BY <1>1, <2>1
  <2>4. request.n \in Nat \ {0}
    BY <2>1, <2>2
  <2> QED BY <2>3, <2>4 DEF Nothing
<1>3. PasteValue(request.n) \in Nat /\ PasteValue(request.n) > MaxTyped /\ PasteField \in Field
  BY <1>2, GridAssumption, RecordAssumption, PasteAssumption DEF PasteValue
<1> DEFINE v == PasteValue(request.n)
<1> HIDE DEF v
<1>4. ASSUME NEW r \in Record
      PROVE  /\ stored'[r] \in [Field -> Nat]
             /\ \A f \in Field : stored'[r][f] = stored[r][f] \/ stored'[r][f] = v
  <2>1. v \in Nat
    BY <1>3 DEF v
  <2>2. /\ Written(r, PasteField, v) \in [Record -> [Field -> Nat]]
        /\ \A f \in Field : \/ Written(r, PasteField, v)[r][f] = v
                            \/ Written(r, PasteField, v)[r][f] = stored[r][f]
    BY <2>1, WrittenTyped DEF CacheTyped
  <2>3. stored'[r] = stored[r] \/ stored'[r] = Written(r, PasteField, v)[r]
    BY <1>1 DEF v
  <2>4. stored[r] \in [Field -> Nat]
    BY DEF CacheTyped
  <2> QED BY <2>2, <2>3, <2>4
<1>5. stored' \in [Record -> [Field -> Nat]]
  <2>1. stored' = [r \in Record |-> stored'[r]]
    BY <1>1 DEF CacheTyped
  <2>2. [r \in Record |-> stored'[r]] \in [Record -> [Field -> Nat]]
    BY <1>4
  <2> QED BY <2>1, <2>2, Zenon
<1>6. CacheTyped'
  BY <1>1, <1>5 DEF CacheTyped
<1>7. WritesKept'
  <2>1. \A r \in Record, f \in Typed : stored'[r][f] = stored[r][f] \/ stored'[r][f] > MaxTyped
    BY <1>3, <1>4, GridAssumption DEF v
  <2> QED BY <1>1, <2>1, LaterValues DEF GridKept, gridVars
<1>8. LaterUnasked' /\ PagesKept'
  BY <1>1, <1>2 DEF GridKept, LaterUnasked, Unasked, PagesKept, Due, gridVars
<1> QED BY <1>1, <1>6, <1>7, <1>8, GridFrame DEF GridKept

(* A paste that succeeds has the grid fetched again.                        *)
LEMMA SucceedsKeeps ==
  ASSUME CacheTyped, WritesTyped, GridKept, PasteSucceeds
  PROVE  CacheTyped' /\ WritesTyped' /\ GridKept'
<1>1. cache' = Refetched(cache, OnGrid) /\ UNCHANGED <<storeVars, news, behind, gridVars>>
  BY DEF PasteSucceeds
<1>2. /\ CacheTyped' /\ \A q \in Query \cap OnGrid : Redone(cache'[q])
      /\ \A q \in Query \ OnGrid : cache'[q] = cache[q]
  <2>1. news' \in BOOLEAN
    BY <1>1 DEF CacheTyped
  <2> QED BY <1>1, <2>1, RefetchStep
<1>3. WritesKept'
  BY <1>1 DEF GridKept, WritesKept, OnePerCell, StoredOrLater, storeVars, gridVars
<1>4. LaterUnasked'
  <2>1. ASSUME NEW x \in GridPage, x > pages PROVE Unasked(GridQuery(x))'
    BY <1>2, <2>1, BeyondPages DEF GridKept, LaterUnasked, Unasked
  <2> QED BY <1>1, <2>1 DEF LaterUnasked, gridVars
<1>5. PagesKept'
  BY <1>1, <1>2, OnGridIs, RedoneKept DEF PagesKept, gridVars
<1> QED BY <1>1, <1>2, <1>3, <1>4, <1>5, GridFrame DEF GridKept

(* One whose answer is lost leaves the grid behind.                         *)
LEMMA UnclearKeeps ==
  ASSUME CacheTyped, WritesTyped, GridKept, PasteTyped, PasteUnclear
  PROVE  CacheTyped' /\ WritesTyped' /\ GridKept'
<1>1. UNCHANGED <<storeVars, news, gridVars>> /\ request' = Nothing /\ request # Nothing
  BY DEF PasteUnclear
<1>2. CASE request.stage = "sent"
  <2>1. UNCHANGED <<cache, behind>>
    BY <1>2 DEF PasteUnclear
  <2>2. Due => Due'
    BY <1>1, <1>2 DEF Due, gridVars
  <2> QED BY <1>1, <2>1, <2>2, PasteFrame DEF cacheVars
<1>3. CASE request.stage # "sent"
  <2>1. cache' = [q \in Query |-> [cache[q] EXCEPT !.late = @ \/ Served(q)]]
        /\ behind' = behind \cup OnGrid
    BY <1>3 DEF PasteUnclear
  <2>2. behind' \subseteq Query
    BY <2>1, OnGridIs DEF CacheTyped
  <2>3. /\ CacheTyped'
        /\ \A q \in Query : /\ cache'[q].fetch = cache[q].fetch /\ (Served(q)' => cache'[q].late)
                            /\ cache'[q].data = cache[q].data
                            /\ cache'[q].failed = cache[q].failed
    BY <1>1, <2>1, <2>2, LateStep
  <2>4. WritesKept'
    BY <1>1 DEF GridKept, WritesKept, OnePerCell, StoredOrLater, storeVars, gridVars
  <2>5. LaterUnasked'
    <3>1. ASSUME NEW x \in GridPage, x > pages PROVE Unasked(GridQuery(x))'
      BY <2>3, <3>1, BeyondPages DEF GridKept, LaterUnasked, Unasked
    <3> QED BY <1>1, <3>1 DEF LaterUnasked, gridVars
  <2>6. PagesKept'
    <3>1. ASSUME NEW p \in 1..pages PROVE PageKept(p)'
      <4>1. GridQuery(p) \in Query /\ GridQuery(p) \in behind'
        BY <2>1, OnGridIs
      <4> QED BY <2>3, <4>1 DEF PageKept, Settled
    <3> QED BY <1>1, <3>1 DEF PagesKept, gridVars
  <2> QED BY <1>1, <2>3, <2>4, <2>5, <2>6, GridFrame DEF GridKept
<1> QED BY <1>2, <1>3

(* Every step of a paste.                                                   *)
LEMMA PasteStepKeeps ==
  ASSUME CacheTyped, WritesTyped, GridKept, PasteTyped, PasteNext
  PROVE  CacheTyped' /\ WritesTyped' /\ GridKept'
<1>1. ASSUME UNCHANGED <<cacheVars, gridVars, request>>
      PROVE  CacheTyped' /\ WritesTyped' /\ GridKept'
  <2>1. Due => Due'
    BY <1>1 DEF Due, cacheVars, gridVars
  <2> QED BY <1>1, <2>1, PasteFrame
<1>2. CASE (\E r \in Record : StartPaste(r)) \/ Reject \/ Plan \/ Leave \/ CancelPaste \/ WeekPasses
  <2>1. UNCHANGED <<cacheVars, gridVars, request>>
    BY <1>2 DEF StartPaste, Reject, Plan, Leave, CancelPaste, WeekPasses
  <2> QED BY <1>1, <2>1
<1>3. CASE LoadRows
  <2>1. ShowMore /\ UNCHANGED request
    BY <1>3 DEF LoadRows
  <2> QED BY <2>1, ShowMoreTypes, ShowMoreKeeps
<1>4. CASE Confirm \/ PasteRefused
  <2>1. UNCHANGED <<cacheVars, gridVars>> /\ ~(request # Nothing /\ request.stage = "stored")
    BY <1>4 DEF Confirm, PasteRefused
  <2>2. Due => Due'
    BY <2>1 DEF Due, cacheVars, gridVars
  <2> QED BY <2>1, <2>2, PasteFrame
<1>5. CASE ApplyBatch
  BY <1>5, BatchKeeps
<1>6. CASE PasteSucceeds
  BY <1>6, SucceedsKeeps
<1>7. CASE PasteUnclear
  BY <1>7, UnclearKeeps
<1> QED BY <1>2, <1>3, <1>4, <1>5, <1>6, <1>7 DEF PasteNext

-----------------------------------------------------------------------------
(****************************************************************************)
(* A paste is written once at most, and only while its user wants it.       *)
(****************************************************************************)

(* What a paste is prepared, offered and sent as is kept by all other       *)
(* steps.                                                                   *)
LEMMA PastesFrame ==
  ASSUME PasteTyped, PasteKept, UNCHANGED pasteVars
  PROVE  PasteTyped' /\ PasteKept'
  BY DEF PasteTyped, PasteKept, IsBlock, IsRequest, IsPreparation, Mine, pasteVars

(* The shapes of what a paste is prepared, offered and sent as.             *)
LEMMA BlockIs ==
  ASSUME PasteTyped, NEW b, IsBlock(b)
  PROVE  /\ b.n \in 1..pastes /\ b.n \in 1..MaxPastes /\ b.n # 0 /\ b # Nothing
         /\ b.attempted \in BOOLEAN /\ b.old \in BOOLEAN
         /\ IsBlock([b EXCEPT !.attempted = TRUE]) /\ [b EXCEPT !.attempted = TRUE].n = b.n
         /\ [b EXCEPT !.attempted = TRUE].old = b.old
         /\ IsBlock([b EXCEPT !.old = TRUE]) /\ [b EXCEPT !.old = TRUE].n = b.n
         /\ [b EXCEPT !.old = TRUE].old
<1>1. b.n \in 1..pastes /\ b.n \in 1..MaxPastes /\ b.n # 0
  BY PasteAssumption DEF PasteTyped, IsBlock
<1>2. b # Nothing
  BY DEF IsBlock, Nothing
<1> QED BY <1>1, <1>2 DEF IsBlock

LEMMA RequestIs ==
  ASSUME PasteTyped, NEW b, IsRequest(b)
  PROVE  /\ b.n \in 1..pastes /\ b.n \in 1..MaxPastes /\ b.n # 0 /\ b # Nothing
         /\ b.generation \in 0..generation
         /\ IsBlock(b.op) /\ b.op.n = b.n /\ ~b.op.old
         /\ IsRequest([b EXCEPT !.stage = "stored"]) /\ [b EXCEPT !.stage = "stored"].n = b.n
         /\ [b EXCEPT !.stage = "stored"].generation = b.generation
<1>1. b.n \in 1..pastes /\ b.n \in 1..MaxPastes /\ b.n # 0 /\ b.generation \in 0..generation
  BY PasteAssumption DEF PasteTyped, IsRequest
<1>2. b # Nothing
  BY DEF IsRequest, Nothing
<1>3. /\ IsRequest([b EXCEPT !.stage = "stored"]) /\ [b EXCEPT !.stage = "stored"].n = b.n
      /\ [b EXCEPT !.stage = "stored"].generation = b.generation
  BY DEF IsRequest
<1> QED BY <1>1, <1>2, <1>3 DEF IsRequest

LEMMA PreparationIs ==
  ASSUME PasteTyped, NEW b, IsPreparation(b)
  PROVE  b.n \in 1..pastes /\ b.n \in 1..MaxPastes /\ b.n # 0 /\ b # Nothing
<1>1. b.n \in 1..pastes /\ b.n \in 1..MaxPastes /\ b.n # 0
  BY PasteAssumption DEF PasteTyped, IsPreparation
<1>2. b # Nothing
  BY DEF IsPreparation, Nothing
<1> QED BY <1>1, <1>2

LEMMA NothingIs == Nothing.n = 0
  BY DEF Nothing

(* More pastes and later generations leave what is offered or sent as it is.*)
LEMMA ShapesStay ==
  ASSUME PasteTyped, pastes' >= pastes, generation' >= generation,
         pastes' \in 0..MaxPastes, generation' \in Nat, NEW b
  PROVE  (IsBlock(b) => IsBlock(b)') /\ (IsRequest(b) => IsRequest(b)')
         /\ (IsPreparation(b) => IsPreparation(b)')
<1>1. 1..pastes \subseteq 1..pastes' /\ 0..generation \subseteq 0..generation'
  BY PasteAssumption DEF PasteTyped
<1> QED BY <1>1 DEF IsBlock, IsRequest, IsPreparation

(* The steps of a paste, one by one.                                        *)
LEMMA StartKeeps ==
  ASSUME PasteTyped, PasteKept, NEW r, StartPaste(r)
  PROVE  PasteTyped' /\ PasteKept'
<1>1. /\ pastes < MaxPastes /\ pastes' = pastes + 1
      /\ preparation = Nothing /\ pending = Nothing /\ request = Nothing
      /\ preparation' = [n |-> pastes + 1, anchor |-> r, loads |-> 0, at |-> -1]
      /\ UNCHANGED <<generation, pending, request, receipts, written, withdrawn>>
  BY DEF StartPaste, serverPasteVars
<1>2. pastes \in Nat /\ pastes' \in 0..MaxPastes /\ pastes' \in 1..MaxPastes
  BY <1>1, PasteAssumption DEF PasteTyped
<1>3. IsPreparation(preparation)' /\ preparation'.n = pastes'
  BY <1>1, <1>2 DEF IsPreparation
<1>4. PasteTyped'
  <2>1. withdrawn' \subseteq 1..pastes'
    BY <1>1, <1>2 DEF PasteTyped
  <2> QED BY <1>1, <1>2, <1>3, <2>1 DEF PasteTyped
<1>5. written'[preparation'.n] = 0 /\ preparation'.n \notin withdrawn'
  <2>1. pastes' \notin withdrawn /\ ~(pastes' <= pastes)
    BY <1>1, <1>2 DEF PasteTyped
  <2>2. written[pastes'] \in Nat /\ ~(written[pastes'] > 0)
    BY <1>2, <2>1 DEF PasteTyped, PasteKept
  <2> QED BY <1>1, <1>3, <2>1, <2>2
<1>6. \A n \in 1..MaxPastes : n <= pastes => n <= pastes'
  BY <1>1, <1>2
<1> QED BY <1>1, <1>4, <1>5, <1>6 DEF PasteKept, Mine

LEMMA RejectKeeps ==
  ASSUME PasteTyped, PasteKept, Reject
  PROVE  PasteTyped' /\ PasteKept'
<1>1. /\ preparation # Nothing /\ preparation' = Nothing
      /\ withdrawn' = withdrawn \cup {preparation.n}
      /\ UNCHANGED <<generation, pending, request, receipts, written, pastes>>
  BY DEF Reject, Preparing, serverPasteVars
<1>2. preparation.n \in 1..pastes /\ preparation.n # 0
  BY <1>1, PreparationIs DEF PasteTyped
<1>3. pending = Nothing /\ request = Nothing
  BY <1>1 DEF PasteKept
<1>4. PasteTyped'
  BY <1>1, <1>2, <1>3 DEF PasteTyped
<1> QED BY <1>1, <1>2, <1>3, <1>4, NothingIs DEF PasteKept

LEMMA LoadKeeps ==
  ASSUME PasteTyped, PasteKept, LoadRows
  PROVE  PasteTyped' /\ PasteKept'
<1>1. /\ preparation # Nothing
      /\ preparation' = [preparation EXCEPT !.loads = @ + 1, !.at = Len(Merged)]
      /\ UNCHANGED <<generation, pending, request, receipts, written, pastes, withdrawn>>
  BY DEF LoadRows, Preparing, serverPasteVars
<1> DEFINE loads == preparation.loads + 1
           at == Len(Merged)
<1>2. preparation' = [preparation EXCEPT !.loads = loads, !.at = at]
  BY <1>1
<1> HIDE DEF loads, at
<1>3. IsPreparation(preparation)
  BY <1>1 DEF PasteTyped
<1>4. preparation' \in [n : 1..pastes, anchor : {preparation.anchor}, loads : {loads}, at : {at}]
      /\ preparation'.n = preparation.n
  BY <1>2, <1>3 DEF IsPreparation
<1>5. IsPreparation(preparation)'
  BY <1>1, <1>4 DEF IsPreparation
<1>6. PasteTyped'
  BY <1>1, <1>5 DEF PasteTyped, IsBlock, IsRequest
<1> QED BY <1>1, <1>4, <1>6 DEF PasteKept, Mine

LEMMA PlanKeeps ==
  ASSUME PasteTyped, PasteKept, Plan
  PROVE  PasteTyped' /\ PasteKept'
<1> DEFINE rows == ToSet(SubSeq(Merged, Anchor(preparation.anchor), LastRow))
<1>1. /\ preparation # Nothing /\ preparation' = Nothing
      /\ pending' = [n |-> preparation.n, rows |-> rows, scope |-> scope,
                     attempted |-> FALSE, old |-> FALSE]
      /\ UNCHANGED <<generation, request, receipts, written, pastes, withdrawn>>
  BY DEF Plan, Preparing, serverPasteVars
<1> HIDE DEF rows
<1>2. preparation.n \in 1..pastes /\ preparation.n \in 1..MaxPastes
  BY <1>1, PreparationIs DEF PasteTyped
<1>3. /\ request = Nothing /\ written[preparation.n] = 0 /\ preparation.n \notin withdrawn
  BY <1>1 DEF PasteKept
<1>4. IsBlock(pending)' /\ pending'.n = preparation.n
  BY <1>1, <1>2 DEF IsBlock
<1>5. PasteTyped'
  BY <1>1, <1>3, <1>4 DEF PasteTyped
<1> QED BY <1>1, <1>2, <1>3, <1>4, <1>5, NothingIs DEF PasteKept

LEMMA OwnsIs ==
  ASSUME PasteTyped
  PROVE  Owns \subseteq 1..pastes
<1>1. pending.n = 0 \/ pending.n \in 1..pastes
  BY BlockIs, NothingIs DEF PasteTyped
<1>2. request.n = 0 \/ request.n \in 1..pastes
  BY RequestIs, NothingIs DEF PasteTyped
<1>3. preparation.n = 0 \/ preparation.n \in 1..pastes
  BY PreparationIs, NothingIs DEF PasteTyped
<1> QED BY <1>1, <1>2, <1>3 DEF Owns

LEMMA LeaveKeeps ==
  ASSUME PasteTyped, PasteKept, Leave
  PROVE  PasteTyped' /\ PasteKept'
<1>1. /\ generation' = generation + 1 /\ preparation' = Nothing /\ pending' = Nothing
      /\ withdrawn' = withdrawn \cup Owns
      /\ UNCHANGED <<request, receipts, written, pastes>>
  BY DEF Leave, serverPasteVars
<1>2. generation \in Nat /\ generation' \in Nat /\ pastes \in Nat
  BY <1>1, PasteAssumption DEF PasteTyped
<1>3. request = Nothing \/ IsRequest(request)'
  <2>1. 0..generation \subseteq 0..generation'
    BY <1>1, <1>2
  <2> QED BY <1>1, <2>1 DEF PasteTyped, IsRequest, IsBlock
<1>4. withdrawn' \subseteq 1..pastes
  BY <1>1, OwnsIs DEF PasteTyped
<1>5. PasteTyped'
  BY <1>1, <1>2, <1>3, <1>4 DEF PasteTyped
<1>6. request # Nothing => request.generation # generation'
  <2>1. request # Nothing => request.generation \in 0..generation
    BY RequestIs DEF PasteTyped
  <2> QED BY <1>1, <1>2, <2>1
<1>7. 0 \notin withdrawn'
  BY <1>2, <1>4
<1> QED BY <1>1, <1>5, <1>6, <1>7, NothingIs DEF PasteKept, Mine

LEMMA CancelKeeps ==
  ASSUME PasteTyped, PasteKept, CancelPaste
  PROVE  PasteTyped' /\ PasteKept'
<1>1. /\ request = Nothing /\ preparation' = Nothing /\ pending' = Nothing
      /\ withdrawn' = withdrawn \cup Owns
      /\ UNCHANGED <<generation, request, receipts, written, pastes>>
  BY DEF CancelPaste, serverPasteVars
<1>2. withdrawn' \subseteq 1..pastes
  BY <1>1, OwnsIs DEF PasteTyped
<1>3. PasteTyped'
  BY <1>1, <1>2 DEF PasteTyped
<1>4. 0 \notin withdrawn'
  BY <1>2
<1> QED BY <1>1, <1>3, <1>4, NothingIs DEF PasteKept

LEMMA ConfirmKeeps ==
  ASSUME PasteTyped, PasteKept, Confirm
  PROVE  PasteTyped' /\ PasteKept'
<1>1. /\ pending # Nothing /\ request = Nothing
      /\ UNCHANGED <<generation, preparation, receipts, written, pastes, withdrawn>>
  BY DEF Confirm, Ready, serverPasteVars
<1>2. IsBlock(pending) /\ preparation = Nothing
  BY <1>1 DEF PasteTyped, PasteKept
<1>3. CASE pending.old
  <2>1. pending' = Nothing /\ request' = Nothing
    BY <1>1, <1>3 DEF Confirm, TooOld
  <2>2. 0 \notin withdrawn
    BY DEF PasteTyped
  <2> QED BY <1>1, <1>2, <2>1, <2>2, NothingIs DEF PasteTyped, PasteKept
<1>4. CASE ~pending.old
  <2> DEFINE b == [pending EXCEPT !.attempted = TRUE]
             s == [n |-> pending.n, op |-> b, stage |-> "sent", generation |-> generation]
  <2>1. pending' = b /\ request' = s
    BY <1>4 DEF Confirm, TooOld
  <2>2. /\ pending.n \in 1..pastes /\ pending.n \in 1..MaxPastes
        /\ IsBlock(b) /\ b.n = pending.n /\ b.old = pending.old
    BY <1>2, BlockIs
  <2> HIDE DEF b
  <2>3. generation \in 0..generation
    BY DEF PasteTyped
  <2>4. IsRequest(s) /\ s.n = pending.n /\ s.generation = generation /\ s # Nothing
    <3>1. IsRequest(s) /\ s.n = pending.n /\ s.generation = generation
      BY <1>4, <2>2, <2>3 DEF IsRequest
    <3> QED BY <3>1, RequestIs
  <2> HIDE DEF s
  <2>5. PasteTyped'
    BY <1>1, <1>2, <2>1, <2>2, <2>4 DEF PasteTyped, IsBlock, IsRequest
  <2>6. \A n \in 1..MaxPastes : written[n] > 0 /\ n \notin receipts => pending.n # n
    BY <1>4 DEF PasteKept
  <2> QED BY <1>1, <1>2, <2>1, <2>2, <2>4, <2>5, <2>6 DEF PasteKept, Mine
<1> QED BY <1>3, <1>4

(* A batch is written only if no earlier attempt was: its receipt is gone   *)
(* only when the block offered is old, and no request carries an old block. *)
LEMMA BatchWrites ==
  ASSUME PasteTyped, PasteKept, ApplyBatch
  PROVE  PasteTyped' /\ PasteKept'
<1>1. /\ request # Nothing /\ request' = [request EXCEPT !.stage = "stored"]
      /\ IF request.n \in receipts THEN UNCHANGED <<receipts, written>>
         ELSE /\ receipts' = receipts \cup {request.n}
              /\ written' = [written EXCEPT ![request.n] = @ + 1]
      /\ UNCHANGED <<generation, preparation, pending, pastes, withdrawn>>
  BY DEF ApplyBatch, serverPasteVars
<1>2. /\ IsRequest(request) /\ request.n \in 1..pastes /\ request.n \in 1..MaxPastes
      /\ IsRequest(request') /\ request'.n = request.n /\ request'.generation = request.generation
      /\ request' # Nothing
  <2>1. IsRequest(request)
    BY <1>1 DEF PasteTyped
  <2>2. IsRequest([request EXCEPT !.stage = "stored"])
    BY <2>1, RequestIs
  <2>3. [request EXCEPT !.stage = "stored"] # Nothing
    BY <2>2, RequestIs
  <2> QED BY <1>1, <2>1, <2>2, <2>3, RequestIs
<1>3. /\ written' \in [1..MaxPastes -> Nat]
      /\ \A n \in 1..MaxPastes : /\ written'[n] <= 1
                                 /\ written'[n] > 0 => n <= pastes
                                 /\ written'[n] > 0 /\ n \notin receipts' =>
                                      written[n] > 0 /\ n \notin receipts
  <2>1. CASE request.n \in receipts
    BY <1>1, <2>1 DEF PasteTyped, PasteKept
  <2>2. CASE request.n \notin receipts
    <3>1. written[request.n] = 0
      <4>1. written[request.n] \in Nat /\ ~(written[request.n] > 0)
        BY <1>2, <2>2 DEF PasteTyped, PasteKept
      <4> QED BY <4>1
    <3>2. written \in [1..MaxPastes -> Nat] /\ pastes \in Nat
      BY PasteAssumption DEF PasteTyped
    <3> QED BY <1>1, <1>2, <2>2, <3>1, <3>2 DEF PasteKept
  <2> QED BY <2>1, <2>2
<1>4. preparation = Nothing
  BY <1>1 DEF PasteKept
<1>5. PasteTyped'
  BY <1>1, <1>2, <1>3 DEF PasteTyped, IsBlock, IsRequest, IsPreparation
<1> QED BY <1>1, <1>2, <1>3, <1>4, <1>5 DEF PasteKept, Mine

(* A request has ended; its block is settled, or, if the answer is unclear, *)
(* offered again.                                                           *)
LEMMA EndKeeps ==
  ASSUME PasteTyped, PasteKept, request # Nothing, request' = Nothing,
         pending' = Nothing \/ pending' = pending \/ (Mine /\ pending' = request.op),
         UNCHANGED <<generation, preparation, receipts, written, pastes, withdrawn>>
  PROVE  PasteTyped' /\ PasteKept'
<1>1. /\ preparation = Nothing /\ IsRequest(request)
      /\ IsBlock(request.op) /\ request.op.n = request.n
  BY RequestIs DEF PasteTyped, PasteKept
<1>2. PasteTyped'
  BY <1>1 DEF PasteTyped, IsBlock
<1>3. 0 \notin withdrawn
  BY DEF PasteTyped
<1>4. \A n \in 1..MaxPastes : n # 0
  OBVIOUS
<1>5. CASE pending' = Nothing
  BY <1>1, <1>2, <1>3, <1>4, <1>5, NothingIs DEF PasteKept
<1>6. CASE pending' = pending
  BY <1>1, <1>2, <1>3, <1>4, <1>6, NothingIs DEF PasteKept
<1>7. CASE Mine /\ pending' = request.op
  <2>1. request.n \notin withdrawn
    BY <1>7 DEF PasteKept
  <2> QED BY <1>1, <1>2, <1>4, <1>7, <2>1, NothingIs DEF PasteKept
<1> QED BY <1>5, <1>6, <1>7

LEMMA WeekKeeps ==
  ASSUME PasteTyped, PasteKept, WeekPasses
  PROVE  PasteTyped' /\ PasteKept'
<1>1. /\ request = Nothing /\ pending # Nothing
      /\ pending' = [pending EXCEPT !.old = TRUE] /\ receipts' = {}
      /\ UNCHANGED <<generation, preparation, request, written, pastes, withdrawn>>
  BY DEF WeekPasses
<1>2. IsBlock(pending)
  BY <1>1 DEF PasteTyped
<1>3. IsBlock(pending') /\ pending'.n = pending.n /\ pending'.old
  BY <1>1, <1>2, BlockIs
<1>4. preparation = Nothing
  BY <1>1 DEF PasteKept
<1>5. PasteTyped'
  BY <1>1, <1>3 DEF PasteTyped, IsBlock, IsPreparation
<1>6. \A n \in 1..MaxPastes : n # 0
  OBVIOUS
<1> QED BY <1>1, <1>3, <1>4, <1>5, <1>6, NothingIs DEF PasteKept

(* Every step of a paste keeps what is known of it.                         *)
LEMMA PastesKeep ==
  ASSUME PasteTyped, PasteKept, PasteNext
  PROVE  PasteTyped' /\ PasteKept'
<1>1. ASSUME NEW r \in Record, StartPaste(r) PROVE PasteTyped' /\ PasteKept'
  BY <1>1, StartKeeps
<1>2. CASE Reject \/ LoadRows \/ Plan \/ Leave \/ CancelPaste \/ Confirm
  BY <1>2, RejectKeeps, LoadKeeps, PlanKeeps, LeaveKeeps, CancelKeeps, ConfirmKeeps
<1>3. CASE ApplyBatch \/ WeekPasses
  BY <1>3, BatchWrites, WeekKeeps
<1>4. CASE PasteSucceeds \/ PasteRefused
  <2>1. /\ request # Nothing /\ request' = Nothing
        /\ pending' = Nothing \/ pending' = pending
        /\ UNCHANGED <<generation, preparation, receipts, written, pastes, withdrawn>>
    BY <1>4 DEF PasteSucceeds, PasteRefused, serverPasteVars
  <2> QED BY <2>1, EndKeeps
<1>5. CASE PasteUnclear
  <2>1. /\ request # Nothing /\ request' = Nothing
        /\ pending' = pending \/ (Mine /\ pending' = request.op)
        /\ UNCHANGED <<generation, preparation, receipts, written, pastes, withdrawn>>
    BY <1>5 DEF PasteUnclear, serverPasteVars
  <2> QED BY <2>1, EndKeeps
<1> QED BY <1>1, <1>2, <1>3, <1>4, <1>5 DEF PasteNext

-----------------------------------------------------------------------------
(****************************************************************************)
(* The board keeps its lanes.                                               *)
(****************************************************************************)

(* Lanes and their pages have names of their own.                           *)
LEMMA LanesAre ==
  /\ Lane \subseteq Nat
  /\ \A k, l, p, s : LaneQuery(k, p) = LaneQuery(l, s) => k = l /\ p = s
  /\ \A l, p : LaneQuery(l, p)[2] = p
  BY BoardAssumption, RecordAssumption DEF Lane, LaneQuery

LEMMA OnBoardIs ==
  ASSUME MovesTyped
  PROVE  /\ OnBoard \subseteq Query
         /\ \A l \in Lane : OnLane(l) \subseteq OnBoard
         /\ \A l \in Lane : \A p \in 1..lanePages[l] :
              LaneQuery(l, p) \in OnLane(l) /\ p \in 1..MaxLanePages
<1>1. ASSUME NEW l \in Lane
      PROVE  /\ OnLane(l) \subseteq Query
             /\ \A p \in 1..lanePages[l] : LaneQuery(l, p) \in OnLane(l) /\ p \in 1..MaxLanePages
  <2>1. lanePages[l] \in 0..MaxLanePages
    BY DEF MovesTyped
  <2>2. 1..lanePages[l] \subseteq 1..MaxLanePages
    BY <2>1, BoardAssumption
  <2> QED BY <2>2, BoardAssumption DEF OnLane
<1> QED BY <1>1 DEF OnBoard

(* Pages of lanes are kept like those of the grid.                          *)
LEMMA SameLane ==
  ASSUME UNCHANGED <<alive, stored>>, NEW l, NEW p
  PROVE  LanePage(l, p)' = LanePage(l, p)
<1> DEFINE cards == {r \in alive : stored[r][StatusField] = l}
           order == Ordered(cards, [r \in cards |-> 0])
<1>1. cards' = cards
  OBVIOUS
<1>2. order' = order
  <2>1. order' = Ordered(cards', [r \in cards' |-> 0])
    BY DEF Ordered, Precedes
  <2> QED BY <1>1, <2>1, Zenon
<1> HIDE DEF order
<1>3. LanePage(l, p) = PageOf(order, (p - 1) * LaneSize, LaneSize)
  BY DEF LanePage, order
<1>4. LanePage(l, p)' = PageOf(order, (p - 1) * LaneSize, LaneSize)'
  BY DEF LanePage, order
<1> QED BY <1>2, <1>3, <1>4 DEF PageOf

LEMMA LaneFrame ==
  ASSUME NEW l, NEW p, UNCHANGED <<alive, stored>>, LaneKept(l, p),
         cache'[LaneQuery(l, p)] = cache[LaneQuery(l, p)],
         LaneQuery(l, p) \in behind => LaneQuery(l, p) \in behind'
  PROVE  LaneKept(l, p)'
<1>1. LanePage(l, p)' = LanePage(l, p)
  BY SameLane
<1> QED BY <1>1 DEF LaneKept, Served, Settled

LEMMA LaneRedone ==
  ASSUME NEW l, NEW p, Redone(cache'[LaneQuery(l, p)])
  PROVE  LaneKept(l, p)'
  BY DEF LaneKept, Served, Settled, Redone

(* The steps that concern one page of a lane.                               *)
LEMMA OneLaneKeeps ==
  ASSUME CacheTyped, MovesTyped, BoardKept, NEW l \in Lane, NEW p \in 1..MaxLanePages,
         LanesDue \/ (p \in 1..lanePages[l] => LaneKept(l, p)'),
         UNCHANGED <<storeVars, news, boardVars>>,
         \A x \in Query \ {LaneQuery(l, p)} :
           cache'[x] = cache[x] /\ (x \in behind => x \in behind')
  PROVE  BoardKept'
<1>1. CASE LanesDue
  BY <1>1 DEF LanesDue, BoardKept, boardVars
<1>2. CASE ~LanesDue
  <2>1. ASSUME NEW k \in Lane, NEW s \in 1..lanePages[k] PROVE LaneKept(k, s)'
    <3>1. CASE k = l /\ s = p
      BY <1>2, <2>1, <3>1
    <3>2. CASE ~(k = l /\ s = p)
      <4>1. LaneQuery(k, s) \in Query \ {LaneQuery(l, p)}
        BY <3>2, LanesAre, OnBoardIs
      <4>2. LaneKept(k, s)
        BY <1>2 DEF BoardKept
      <4> QED BY <4>1, <4>2, LaneFrame DEF storeVars
    <3> QED BY <3>1, <3>2
  <2> QED BY <2>1 DEF BoardKept, boardVars
<1> QED BY <1>1, <1>2

(* The server reads a page of a lane, it lands or fails.                    *)
LEMMA LanesFetch ==
  ASSUME CacheTyped, MovesTyped, BoardKept, NEW l \in Lane, NEW p \in 1..MaxLanePages,
         ServeLane(l, p) \/ LandLane(l, p) \/ FailLane(l, p)
  PROVE  CacheTyped' /\ BoardKept'
<1> DEFINE q == LaneQuery(l, p)
<1>1. q \in Query /\ p \in Nat \ {0}
  BY BoardAssumption
<1>2. CASE ServeLane(l, p)
  <2>1. LanePage(l, p) \in Page(Nat)
    BY <1>1, LanePageIs
  <2>2. Serve(q, LanePage(l, p)) /\ UNCHANGED boardVars
    BY <1>2 DEF ServeLane
  <2> HIDE DEF q
  <2>3. /\ CacheTyped' /\ cache'[q].fetch = LanePage(l, p)
        /\ \A x \in Query \ {q} : cache'[x] = cache[x]
        /\ UNCHANGED <<storeVars, news, behind>>
    BY <1>1, <2>1, <2>2, ServeStep
  <2>4. LaneKept(l, p)'
    <3>1. LanePage(l, p)' = LanePage(l, p)
      BY <2>3, SameLane DEF storeVars
    <3>2. LanePage(l, p) # Idle
      BY <2>1, PagesApart
    <3> QED BY <2>3, <3>1, <3>2 DEF LaneKept, Settled, q
  <2> QED BY <2>2, <2>3, <2>4, OneLaneKeeps DEF q
<1>3. CASE LandLane(l, p)
  <2>1. Land(q) /\ UNCHANGED boardVars
    BY <1>3 DEF LandLane
  <2> HIDE DEF q
  <2>2. /\ CacheTyped' /\ Served(q)
        /\ cache'[q].data = cache[q].fetch /\ cache'[q].fetch = Idle
        /\ \A x \in Query \ {q} : cache'[x] = cache[x] /\ (x \in behind' <=> x \in behind)
        /\ q \notin behind' => ~cache[q].late
        /\ UNCHANGED <<storeVars, news>>
    BY <1>1, <2>1, LandStep
  <2>3. ASSUME ~LanesDue, p \in 1..lanePages[l] PROVE LaneKept(l, p)'
    <3>1. LanePage(l, p)' = LanePage(l, p)
      BY <2>2, SameLane DEF storeVars
    <3>2. ~cache[q].late => cache[q].fetch = LanePage(l, p)
      BY <2>2, <2>3 DEF BoardKept, LaneKept, q
    <3> QED BY <2>2, <3>1, <3>2 DEF LaneKept, Settled, Served, q
  <2> QED BY <2>1, <2>2, <2>3, OneLaneKeeps DEF q
<1>4. CASE FailLane(l, p)
  <2>1. FetchFails(q) /\ UNCHANGED boardVars
    BY <1>4 DEF FailLane
  <2> HIDE DEF q
  <2>2. /\ CacheTyped' /\ cache'[q].failed /\ cache'[q].fetch = Idle
        /\ \A x \in Query \ {q} : cache'[x] = cache[x]
        /\ UNCHANGED <<storeVars, news, behind>>
    BY <1>1, <2>1, FailsStep
  <2>3. LaneKept(l, p)'
    BY <2>2 DEF LaneKept, Settled, Served, q
  <2> QED BY <2>1, <2>2, <2>3, OneLaneKeeps DEF q
<1> QED BY <1>2, <1>3, <1>4

(* Every lane is fetched again, or the whole board is left behind.          *)
LEMMA BoardRefetched ==
  ASSUME CacheTyped, MovesTyped, cache' = Refetched(cache, OnBoard), news' \in BOOLEAN,
         UNCHANGED <<storeVars, behind, lanePages>>
  PROVE  CacheTyped' /\ BoardKept'
<1>1. CacheTyped' /\ \A q \in Query \cap OnBoard : Redone(cache'[q])
  BY RefetchStep
<1>2. \A l \in Lane : \A p \in 1..lanePages[l] : LaneKept(l, p)'
  BY <1>1, OnBoardIs, LaneRedone
<1> QED BY <1>1, <1>2 DEF BoardKept

LEMMA BoardLate ==
  ASSUME CacheTyped, MovesTyped, UNCHANGED <<storeVars, news, lanePages>>,
         cache' = [q \in Query |-> [cache[q] EXCEPT !.late = @ \/ Served(q)]],
         behind' = behind \cup OnBoard
  PROVE  CacheTyped' /\ BoardKept'
<1>1. behind' \subseteq Query
  BY OnBoardIs DEF CacheTyped
<1>2. /\ CacheTyped'
      /\ \A q \in Query : cache'[q].fetch = cache[q].fetch /\ (Served(q)' => cache'[q].late)
  BY <1>1, LateStep
<1>3. ASSUME NEW l \in Lane, NEW p \in 1..lanePages[l] PROVE LaneKept(l, p)'
  <2>1. LaneQuery(l, p) \in OnBoard /\ LaneQuery(l, p) \in Query
    BY OnBoardIs
  <2> QED BY <1>2, <2>1 DEF LaneKept, Settled
<1> QED BY <1>2, <1>3 DEF BoardKept

(* The steps of the board, one by one.                                      *)
LEMMA LoadMoreKeeps ==
  ASSUME CacheTyped, MovesTyped, BoardKept, UNCHANGED pages, NEW l \in Lane, LoadMore(l)
  PROVE  CacheTyped' /\ MovesTyped' /\ BoardKept'
<1> DEFINE n == lanePages[l] + 1
           q == LaneQuery(l, n)
<1>1. /\ lanePages[l] \in 1..(MaxLanePages - 1) /\ lanePages' = [lanePages EXCEPT ![l] = n]
      /\ cache' = [cache EXCEPT ![q] = Asked(@)]
      /\ UNCHANGED <<storeVars, news, behind, dragging, inFlight, moves, moved, board>>
  BY DEF LoadMore
<1>2. n \in 1..MaxLanePages /\ lanePages[l] \in Nat /\ n > 0
  BY <1>1, BoardAssumption
<1>3. q \in Query
  BY <1>2, BoardAssumption
<1>4. 1..n = 1..lanePages[l] \cup {n}
  BY <1>2
<1>5. /\ lanePages \in [Lane -> 0..MaxLanePages]
      /\ moves \in SUBSET [n : Nat, r : Record, to : Lane, board : Nat,
                           stage : {"sent", "stored", "refreshing"}]
  BY DEF MovesTyped
<1> HIDE DEF n, q
<1>6. CacheTyped' /\ cache'[q].fetch = Sent /\ \A x \in Query \ {q} : cache'[x] = cache[x]
  BY <1>1, <1>3, AskedStep
<1>7. MovesTyped'
  BY <1>1, <1>2, <1>5 DEF MovesTyped
<1>8. BoardKept'
  <2>1. CASE LanesDue
    BY <1>1, <2>1 DEF LanesDue, BoardKept
  <2>2. CASE ~LanesDue
    <3>1. ASSUME NEW k \in Lane, NEW s \in 1..lanePages'[k] PROVE LaneKept(k, s)'
      <4>1. CASE k = l /\ s = n
        BY <1>6, <4>1, ServedIsPage DEF LaneKept, Settled, Served, q
      <4>2. CASE ~(k = l /\ s = n)
        <5>1. s \in 1..lanePages[k]
          BY <1>1, <1>4, <1>5, <3>1, <4>2
        <5>2. LaneQuery(k, s) \in Query \ {q} /\ LaneKept(k, s)
          BY <2>2, <4>2, <5>1, LanesAre, OnBoardIs DEF BoardKept, q
        <5> QED BY <1>1, <1>6, <5>2, LaneFrame DEF storeVars
      <4> QED BY <4>1, <4>2
    <3> QED BY <3>1 DEF BoardKept
  <2> QED BY <2>1, <2>2
<1> QED BY <1>6, <1>7, <1>8

LEMMA RetryLaneKeeps ==
  ASSUME CacheTyped, MovesTyped, BoardKept, UNCHANGED pages, NEW l \in Lane, RetryLane(l)
  PROVE  CacheTyped' /\ MovesTyped' /\ BoardKept'
<1>1. cache' = Refetched(cache, OnLane(l)) /\ UNCHANGED <<storeVars, news, behind, boardVars>>
  BY DEF RetryLane
<1>2. /\ CacheTyped' /\ \A q \in Query \cap OnLane(l) : Redone(cache'[q])
      /\ \A q \in Query \ OnLane(l) : cache'[q] = cache[q]
  <2>1. news' \in BOOLEAN
    BY <1>1 DEF CacheTyped
  <2> QED BY <1>1, <2>1, RefetchStep
<1>3. MovesTyped'
  BY <1>1 DEF MovesTyped, boardVars
<1>4. BoardKept'
  <2>1. CASE LanesDue
    BY <1>1, <2>1 DEF LanesDue, BoardKept, boardVars
  <2>2. ASSUME ~LanesDue, NEW k \in Lane, NEW s \in 1..lanePages[k] PROVE LaneKept(k, s)'
    <3>1. LaneQuery(k, s) \in Query /\ LaneKept(k, s)
      BY <2>2, OnBoardIs DEF BoardKept
    <3>2. CASE LaneQuery(k, s) \in OnLane(l)
      BY <1>2, <3>1, <3>2, LaneRedone
    <3>3. CASE LaneQuery(k, s) \notin OnLane(l)
      BY <1>1, <1>2, <3>1, <3>3, LaneFrame DEF storeVars
    <3> QED BY <3>2, <3>3
  <2> QED BY <1>1, <2>1, <2>2 DEF BoardKept, boardVars
<1> QED BY <1>2, <1>3, <1>4

(* Steps that touch neither the table nor what the board shows of it.       *)
LEMMA BoardFrame ==
  ASSUME CacheTyped, BoardKept, UNCHANGED <<cacheVars, lanePages>>, LanesDue => LanesDue'
  PROVE  CacheTyped' /\ BoardKept'
<1>1. CacheTyped'
  BY CacheStays
<1>2. \A l \in Lane : \A p \in 1..lanePages[l] : LaneKept(l, p) => LaneKept(l, p)'
  BY LaneFrame DEF cacheVars, storeVars
<1> QED BY <1>1, <1>2 DEF BoardKept

LEMMA MoveKeeps ==
  ASSUME CacheTyped, MovesTyped, BoardKept, UNCHANGED pages,
         NEW r \in Record, NEW l \in Lane, Move(r, l)
  PROVE  CacheTyped' /\ MovesTyped' /\ BoardKept'
<1> DEFINE m == [n |-> moved + 1, r |-> r, to |-> l, board |-> board, stage |-> "sent"]
<1>1. moves' = moves \cup {m} /\ moved' = moved + 1 /\ UNCHANGED <<cacheVars, lanePages, board>>
  BY DEF Move
<1>2. m \in [n : Nat, r : Record, to : Lane, board : Nat,
             stage : {"sent", "stored", "refreshing"}]
  BY DEF MovesTyped
<1> HIDE DEF m
<1>3. MovesTyped'
  BY <1>1, <1>2 DEF MovesTyped
<1>4. LanesDue => LanesDue'
  BY <1>1 DEF LanesDue, cacheVars
<1> QED BY <1>1, <1>3, <1>4, BoardFrame

LEMMA ReachesTypes ==
  ASSUME MovesTyped, NEW m \in moves, NEW stage \in {"stored", "refreshing"}, Reaches(m, stage),
         UNCHANGED <<pages, lanePages, moved, board>>
  PROVE  /\ MovesTyped'
         /\ stage = "stored" => \E x \in moves' : x.stage = "stored"
<1> DEFINE v == [m EXCEPT !.stage = stage]
<1>1. v \in [n : Nat, r : Record, to : Lane, board : Nat, stage : {"sent", "stored", "refreshing"}]
      /\ v.stage = stage
  BY DEF MovesTyped
<1>2. moves' = (moves \ {m}) \cup {v}
  BY DEF Reaches
<1> HIDE DEF v
<1> QED BY <1>1, <1>2 DEF MovesTyped

LEMMA StoreMoveKeeps ==
  ASSUME CacheTyped, MovesTyped, UNCHANGED pages, NEW m \in moves, StoreMove(m)
  PROVE  CacheTyped' /\ MovesTyped' /\ BoardKept'
<1>1. /\ stored' = Written(m.r, StatusField, m.to) /\ Reaches(m, "stored")
      /\ UNCHANGED <<alive, changes, news, cache, behind, lanePages, moved, board>>
  BY DEF StoreMove
<1>2. m.r \in Record /\ m.to \in Nat
  BY LanesAre DEF MovesTyped
<1>3. CacheTyped'
  <2>1. stored' \in [Record -> [Field -> Nat]]
    BY <1>1, <1>2, WrittenTyped DEF CacheTyped
  <2> QED BY <1>1, <2>1 DEF CacheTyped
<1>4. MovesTyped' /\ \E x \in moves' : x.stage = "stored"
  BY <1>1, ReachesTypes
<1> QED BY <1>3, <1>4 DEF BoardKept, LanesDue

LEMMA AnswerMoveKeeps ==
  ASSUME CacheTyped, MovesTyped, UNCHANGED pages, NEW m \in moves, AnswerMove(m)
  PROVE  CacheTyped' /\ MovesTyped' /\ BoardKept'
<1>1. /\ cache' = Refetched(cache, OnBoard) /\ Reaches(m, "refreshing")
      /\ UNCHANGED <<storeVars, news, behind, lanePages, moved, board>>
  BY DEF AnswerMove, Refreshes
<1>2. news' \in BOOLEAN
  BY <1>1 DEF CacheTyped
<1> QED BY <1>1, <1>2, BoardRefetched, ReachesTypes

LEMMA EndedMoveKeeps ==
  ASSUME CacheTyped, MovesTyped, BoardKept, UNCHANGED pages, NEW m \in moves,
         EndMove(m) \/ FailMove(m)
  PROVE  CacheTyped' /\ MovesTyped' /\ BoardKept'
<1>1. moves' = moves \ {m} /\ UNCHANGED <<storeVars, news, lanePages, moved, board>>
  BY DEF EndMove, FailMove, Ended, cacheVars
<1>2. MovesTyped'
  BY <1>1 DEF MovesTyped
<1>3. CASE m.stage # "stored"
  <2>1. UNCHANGED cacheVars
    BY <1>1, <1>3 DEF EndMove, FailMove, cacheVars
  <2>2. LanesDue => LanesDue'
    BY <1>1, <1>3 DEF LanesDue
  <2> QED BY <1>1, <1>2, <2>1, <2>2, BoardFrame
<1>4. CASE m.stage = "stored"
  <2>1. cache' = [q \in Query |-> [cache[q] EXCEPT !.late = @ \/ Served(q)]]
        /\ behind' = behind \cup OnBoard
    BY <1>4 DEF EndMove, FailMove
  <2> QED BY <1>1, <1>2, <2>1, BoardLate
<1> QED BY <1>3, <1>4

LEMMA RemountKeeps ==
  ASSUME CacheTyped, MovesTyped, BoardKept, UNCHANGED pages, Remount
  PROVE  CacheTyped' /\ MovesTyped' /\ BoardKept'
<1>1. /\ lanePages[Blank] > 0 /\ board' = board + 1
      /\ lanePages' = [l \in Lane |-> 1]
      /\ cache' = [q \in Query |-> IF q \in OnBoard /\ q[2] > 1 THEN NotAsked ELSE cache[q]]
      /\ behind' = {q \in behind : q[2] = 1}
      /\ UNCHANGED <<storeVars, news, moves, moved>>
  BY DEF Remount
<1>2. pages = 0 /\ \A l \in Lane : 1 \in 1..lanePages[l]
  <2>1. Blank \in Lane
    BY DEF Lane
  <2>2. pages = 0
    BY <1>1, <2>1 DEF MovesTyped
  <2>3. \A l \in Lane : lanePages[l] \in Nat /\ lanePages[l] > 0
    BY <2>2, BoardAssumption DEF MovesTyped
  <2> QED BY <2>2, <2>3
<1>3. CacheTyped'
  <2>1. cache' \in [Query -> Entry]
    BY <1>1, FreshEntry DEF CacheTyped
  <2>2. news' \in BOOLEAN /\ behind' \subseteq Query
    BY <1>1 DEF CacheTyped
  <2> QED BY <1>1, <2>1, <2>2, CacheFrame DEF storeVars
<1>4. MovesTyped'
  <2>1. lanePages' \in [Lane -> 0..MaxLanePages] /\ \A l \in Lane : lanePages'[l] = 1
    BY <1>1, BoardAssumption
  <2> QED BY <1>1, <1>2, <2>1 DEF MovesTyped
<1>5. ASSUME ~LanesDue, NEW l \in Lane, NEW p \in 1..lanePages'[l] PROVE LaneKept(l, p)'
  <2>1. p = 1
    BY <1>1, <1>5
  <2>2. LaneQuery(l, 1) \in Query /\ LaneKept(l, 1)
    BY <1>2, <1>5, OnBoardIs DEF BoardKept
  <2>3. LaneQuery(l, 1)[2] = 1
    BY LanesAre
  <2>4. cache'[LaneQuery(l, 1)] = cache[LaneQuery(l, 1)]
        /\ (LaneQuery(l, 1) \in behind => LaneQuery(l, 1) \in behind')
    BY <1>1, <2>2, <2>3
  <2> QED BY <1>1, <2>1, <2>2, <2>4, LaneFrame DEF storeVars
<1>6. BoardKept'
  BY <1>1, <1>5 DEF BoardKept, LanesDue
<1> QED BY <1>3, <1>4, <1>6

LEMMA OthersMoveKeep ==
  ASSUME CacheTyped, MovesTyped, OthersMove, UNCHANGED <<pages, boardVars>>
  PROVE  CacheTyped' /\ MovesTyped' /\ BoardKept'
<1>1. PICK r \in Record : \/ \E l \in Lane : ChangeCell(r, StatusField, l)
                          \/ CreateRecord(r) \/ DeleteRecord(r)
  BY DEF OthersMove
<1>2. \/ \E f \in Field : \E v \in Nat : ChangeCell(r, f, v)
      \/ CreateRecord(r) \/ DeleteRecord(r)
  BY <1>1, LanesAre, BoardAssumption
<1>3. CacheTyped' /\ news'
  BY <1>2, OthersStep
<1>4. MovesTyped'
  BY DEF MovesTyped, boardVars
<1> QED BY <1>3, <1>4 DEF BoardKept, LanesDue

-----------------------------------------------------------------------------
(****************************************************************************)
(* The session.                                                             *)
(****************************************************************************)

(* Every step of the board.                                                 *)
LEMMA BoardStepKeeps ==
  ASSUME CacheTyped, MovesTyped, BoardKept, BoardNext, UNCHANGED pages
  PROVE  CacheTyped' /\ MovesTyped' /\ BoardKept'
<1>1. ASSUME NEW l \in Lane, LoadMore(l) \/ RetryLane(l)
      PROVE  CacheTyped' /\ MovesTyped' /\ BoardKept'
  BY <1>1, LoadMoreKeeps, RetryLaneKeeps
<1>2. ASSUME NEW l \in Lane, Drop(l)
      PROVE  CacheTyped' /\ MovesTyped' /\ BoardKept'
  <2>1. Move(dragging, l) /\ Visible(dragging)
    BY <1>2 DEF Drop
  <2>2. dragging \in Record
    <3>1. PICK q \in OnBoard : Shows(cache[q].data, dragging)
      BY <2>1 DEF Visible
    <3>2. cache[q] \in Entry
      BY OnBoardIs DEF CacheTyped
    <3>3. PICK i \in DOMAIN cache[q].data.rows : cache[q].data.rows[i].id = dragging
      BY <3>1 DEF Shows
    <3>4. cache[q].data # NoData
      BY <3>3 DEF NoData
    <3> QED BY <3>2, <3>3, <3>4, EntryParts, RowIs
  <2> QED BY <2>1, <2>2, MoveKeeps
<1>3. ASSUME NEW r \in Record, NEW l \in Lane, MoveFromMenu(r, l)
      PROVE  CacheTyped' /\ MovesTyped' /\ BoardKept'
  BY <1>3, MoveKeeps DEF MoveFromMenu
<1>4. ASSUME NEW l \in Lane, NEW p \in 1..MaxLanePages,
             ServeLane(l, p) \/ LandLane(l, p) \/ FailLane(l, p)
      PROVE  CacheTyped' /\ MovesTyped' /\ BoardKept'
  <2>1. MovesTyped'
    BY <1>4 DEF ServeLane, LandLane, FailLane, MovesTyped, boardVars
  <2> QED BY <1>4, <2>1, LanesFetch
<1>5. CASE DragEnd \/ \E r \in Record : DragStart(r)
  <2>1. UNCHANGED <<cacheVars, lanePages, moves, moved, board>>
    BY <1>5 DEF DragEnd, DragStart
  <2> QED BY <2>1, BoardFrame DEF MovesTyped, LanesDue, cacheVars
<1>6. ASSUME NEW m \in moves, StoreMove(m) \/ AnswerMove(m) \/ EndMove(m) \/ FailMove(m)
      PROVE  CacheTyped' /\ MovesTyped' /\ BoardKept'
  BY <1>6, StoreMoveKeeps, AnswerMoveKeeps, EndedMoveKeeps
<1>7. CASE FlushBoard
  <2>1. /\ cache' = Refetched(cache, OnBoard) /\ news' \in BOOLEAN
        /\ UNCHANGED <<storeVars, behind, boardVars>>
    BY <1>7 DEF FlushBoard, Flush
  <2> QED BY <2>1, BoardRefetched DEF MovesTyped, boardVars
<1>8. CASE Remount
  BY <1>8, RemountKeeps
<1>9. CASE OthersMove /\ UNCHANGED boardVars
  BY <1>9, OthersMoveKeep
<1> QED BY <1>1, <1>2, <1>3, <1>4, <1>5, <1>6, <1>7, <1>8, <1>9 DEF BoardNext

(* The types of the session, and its invariant.                             *)
TypesHold == CacheTyped /\ WritesTyped /\ PasteTyped /\ MovesTyped
IInv == /\ TypesHold /\ PasteKept
        /\ IF pages = 0 THEN BoardKept ELSE GridKept

(* The invariant holds at first, and every step keeps it.                   *)
LEMMA InitKept == Init => IInv
<1> SUFFICES ASSUME Init PROVE IInv
  OBVIOUS
<1>1. PICK grid \in BOOLEAN : GridInit(grid) /\ BoardInit(~grid)
  BY DEF Init
<1>2. /\ pages = IF grid THEN 1 ELSE 0
      /\ typed = 0 /\ waiting = {} /\ flight = {}
      /\ lanePages = [l \in Lane |-> IF ~grid THEN 1 ELSE 0]
      /\ moves = {} /\ moved = 0 /\ board = 1
  BY <1>1 DEF GridInit, BoardInit
<1>3. /\ alive = FirstRecords /\ stored = [r \in Record |-> [f \in Field |-> Blank]]
      /\ changes = 0 /\ news = FALSE /\ behind = {}
      /\ cache = [q \in Query |-> IF q \in OnGrid \cup OnBoard THEN Asked(NotAsked) ELSE NotAsked]
  BY DEF Init, CacheInit
<1>4. PasteInit
  BY DEF Init
<1>5. NotAsked \in Entry /\ Asked(NotAsked) \in Entry /\ Asked(NotAsked).fetch = Sent
  BY FreshEntry, Asks
<1>6. CacheTyped
  <2>1. stored \in [Record -> [Field -> Nat]]
    BY <1>3, RecordAssumption
  <2>2. cache \in [Query -> Entry]
    BY <1>3, <1>5
  <2> QED BY <1>3, <2>1, <2>2, RecordAssumption DEF CacheTyped
<1>7. WritesTyped
  <2>1. \A p \in 1..pages : GridQuery(p) \in Query
    BY <1>2, GridAssumption DEF GridQuery
  <2> QED BY <1>2, <2>1 DEF WritesTyped
<1>8. MovesTyped
  BY <1>2, BoardAssumption DEF MovesTyped
<1>9. PasteTyped /\ PasteKept
  BY <1>4, PasteAssumption DEF PasteInit, PasteTyped, PasteKept, Nothing
<1>10. OnGrid \subseteq Query /\ OnBoard \subseteq Query
  BY <1>7, <1>8, OnGridIs, OnBoardIs
<1>11. CASE grid
  <2>1. pages = 1
    BY <1>2, <1>11
  <2>2. WritesKept
    BY <1>2 DEF WritesKept, OnePerCell, StoredOrLater
  <2>3. OnBoard = {}
    <3>1. \A l \in Lane : 1..lanePages[l] = {}
      BY <1>2, <1>11
    <3>2. \A l \in Lane : OnLane(l) = {}
      BY <3>1 DEF OnLane
    <3> QED BY <3>2 DEF OnBoard
  <2>4. LaterUnasked
    <3>1. ASSUME NEW p \in GridPage, p > pages PROVE Unasked(GridQuery(p))
      <4>1. GridQuery(p) \in Query \ OnGrid
        BY <1>7, <3>1, BeyondPages
      <4>2. cache[GridQuery(p)] = NotAsked
        BY <1>3, <2>3, <4>1
      <4> QED BY <4>2, FreshEntry DEF Unasked
    <3> QED BY <3>1 DEF LaterUnasked
  <2>5. PagesKept
    <3>1. ASSUME NEW p \in 1..pages PROVE PageKept(p)
      <4>1. GridQuery(p) \in OnGrid /\ GridQuery(p) \in Query
        BY <1>7, OnGridIs
      <4>2. cache[GridQuery(p)].fetch = Sent
        BY <1>3, <1>5, <4>1
      <4> QED BY <4>2, ServedIsPage DEF PageKept, Served, Settled
    <3> QED BY <3>1 DEF PagesKept
  <2> QED BY <1>6, <1>7, <1>8, <1>9, <2>1, <2>2, <2>4, <2>5 DEF IInv, TypesHold, GridKept
<1>12. CASE ~grid
  <2>1. pages = 0
    BY <1>2, <1>12
  <2>2. BoardKept
    <3>1. ASSUME NEW l \in Lane, NEW p \in 1..lanePages[l] PROVE LaneKept(l, p)
      <4>1. LaneQuery(l, p) \in OnBoard /\ LaneQuery(l, p) \in Query
        BY <1>8, OnBoardIs
      <4>2. cache[LaneQuery(l, p)].fetch = Sent
        BY <1>3, <1>5, <4>1
      <4> QED BY <4>2, ServedIsPage DEF LaneKept, Served, Settled
    <3> QED BY <3>1 DEF BoardKept
  <2> QED BY <1>6, <1>7, <1>8, <1>9, <2>1, <2>2 DEF IInv, TypesHold
<1> QED BY <1>11, <1>12

LEMMA NextKeeps == IInv /\ [Next]_vars => IInv'
<1> SUFFICES ASSUME IInv, [Next]_vars PROVE IInv'
  OBVIOUS
<1>1. /\ CacheTyped /\ WritesTyped /\ PasteTyped /\ MovesTyped /\ PasteKept
      /\ pages = 0 => BoardKept
      /\ pages # 0 => GridKept
      /\ pages \in Nat
  BY DEF IInv, TypesHold, WritesTyped
<1>2. UNCHANGED boardVars /\ pages' > 0 /\ pages > 0 => MovesTyped'
  BY <1>1 DEF MovesTyped, boardVars
<1>3. CASE pages > 0 /\ GridNext /\ UNCHANGED <<pasteVars, boardVars>>
  <2>1. GridKept /\ UNCHANGED request
    BY <1>1, <1>3 DEF pasteVars
  <2>2. CacheTyped' /\ WritesTyped' /\ GridKept'
    BY <1>1, <1>3, <2>1, GridStepKeeps
  <2>3. PasteTyped' /\ PasteKept'
    BY <1>1, <1>3, PastesFrame
  <2>4. pages' > 0
    <3>1. pages' = pages \/ pages' = pages + 1
      <4>1. ASSUME NEW w \in flight, Answer(w) PROVE pages' = pages
        BY <4>1 DEF Answer, Apply, Refuse, RollBack, Reconcile
      <4>2. ASSUME NEW p \in GridPage, ServePage(p) \/ LandPage(p) \/ FailPage(p) \/ RetryPage(p)
            PROVE  pages' = pages
        BY <4>2 DEF ServePage, LandPage, FailPage, RetryPage, gridVars
      <4>3. ASSUME NEW r, NEW f, Type(r, f) PROVE pages' = pages
        BY <4>3 DEF Type
      <4>4. ASSUME NEW w, Begin(w) PROVE pages' = pages
        BY <4>4 DEF Begin
      <4> QED BY <1>3, <4>1, <4>2, <4>3, <4>4 DEF GridNext, ShowMore, FlushGrid, gridVars
    <3> QED BY <1>1, <1>3, <3>1
  <2> QED BY <1>2, <1>3, <2>2, <2>3, <2>4 DEF IInv, TypesHold
<1>4. CASE pages > 0 /\ PasteNext /\ UNCHANGED boardVars
  <2>1. GridKept
    BY <1>1, <1>4
  <2>2. CacheTyped' /\ WritesTyped' /\ GridKept'
    BY <1>1, <1>4, <2>1, PasteStepKeeps
  <2>3. PasteTyped' /\ PasteKept'
    BY <1>1, <1>4, PastesKeep
  <2>4. pages' > 0
    BY <1>1, <1>4 DEF PasteNext, StartPaste, Reject, LoadRows, ShowMore, Plan, Leave,
       CancelPaste, Confirm, ApplyBatch, PasteSucceeds, PasteRefused, PasteUnclear,
       WeekPasses, gridVars
  <2> QED BY <1>2, <1>4, <2>2, <2>3, <2>4 DEF IInv, TypesHold
<1>5. CASE pages = 0 /\ BoardNext /\ UNCHANGED <<gridVars, pasteVars>>
  <2>1. BoardKept /\ UNCHANGED pages
    BY <1>1, <1>5 DEF gridVars
  <2>2. CacheTyped' /\ MovesTyped' /\ BoardKept'
    BY <1>1, <1>5, <2>1, BoardStepKeeps
  <2>3. WritesTyped' /\ PasteTyped' /\ PasteKept'
    BY <1>1, <1>5, GridFrame, PastesFrame
  <2> QED BY <1>5, <2>1, <2>2, <2>3 DEF IInv, TypesHold
<1>6. CASE UNCHANGED vars
  <2>1. UNCHANGED <<cacheVars, gridVars, pasteVars, boardVars>>
    BY <1>6 DEF vars
  <2>2. CacheTyped' /\ WritesTyped' /\ PasteTyped' /\ PasteKept'
    BY <1>1, <2>1, CacheStays, GridFrame, PastesFrame
  <2>3. MovesTyped'
    BY <1>1, <2>1 DEF MovesTyped, gridVars, boardVars
  <2>4. CASE pages = 0
    <3>1. BoardKept'
      <4>1. UNCHANGED <<cacheVars, lanePages>> /\ (LanesDue => LanesDue')
        BY <2>1 DEF LanesDue, cacheVars, boardVars
      <4> QED BY <1>1, <2>4, <4>1, BoardFrame
    <3> QED BY <2>1, <2>2, <2>3, <2>4, <3>1 DEF IInv, TypesHold, gridVars
  <2>5. CASE pages # 0
    <3>1. GridKept'
      <4>1. Due => Due'
        BY <2>1 DEF Due, cacheVars, gridVars, pasteVars
      <4> QED BY <1>1, <2>1, <2>5, <4>1, PasteFrame
    <3> QED BY <2>1, <2>2, <2>3, <2>5, <3>1 DEF IInv, TypesHold, gridVars
  <2> QED BY <2>4, <2>5
<1> QED BY <1>3, <1>4, <1>5, <1>6 DEF Next

(* What is kept holds always.                                               *)
LEMMA InvariantHolds == Spec => []IInv
<1> QED BY InitKept, NextKeeps, PTL DEF Spec

(* The variables of a session have their types.                             *)
THEOREM SessionTypes == Spec => []TypesHold
<1>1. IInv => TypesHold
  BY DEF IInv
<1> QED BY <1>1, InvariantHolds, PTL

(* The sort's tie-breaker makes pages of one length cover the table         *)
(* (listRecordsPivoted).                                                    *)
THEOREM PagesDivide == Spec => []PagesDivideTheTable
<1>1. IInv => PagesDivideTheTable
  BY ListedDivides DEF IInv, TypesHold
<1> QED BY <1>1, InvariantHolds, PTL

(* However often a paste is confirmed or repeated, its cells are written    *)
(* once at most, and a paste that was cancelled or left is not offered      *)
(* again (use-grid-paste.tsx).                                              *)
THEOREM PastesAreAsWished == Spec => []PastedAsWished
<1>1. IInv => PastedAsWished
  BY NothingIs DEF IInv, PasteKept, PastedAsWished, WrittenOnce, WithdrawnStaysSo
<1> QED BY <1>1, InvariantHolds, PTL

(* Once all is answered and fetched, every page of the grid that none of    *)
(* the named races left behind shows the rows and cells the server would    *)
(* answer now (use-paged-records.ts, grid-editor.tsx), whatever the order   *)
(* in which writes, pastes, answers, failures and broadcasts came.          *)
THEOREM GridAlwaysSettles == Spec => []GridSettles
<1>1. IInv => GridSettles
  <2> SUFFICES ASSUME IInv, GridQuiet, request = Nothing,
                      NEW p \in 1..pages, GridQuery(p) \notin behind
               PROVE  Current(p)
    BY DEF GridSettles
  <2> DEFINE q == GridQuery(p)
             L == Listed(p)
  <2>1. CacheTyped /\ WritesTyped /\ PagesKept
    BY DEF IInv, TypesHold, GridKept, WritesTyped
  <2>2. q \in OnGrid /\ cache[q] \in Entry /\ p \in Nat \ {0}
    BY <2>1, OnGridIs DEF CacheTyped
  <2>3. ~Due
    BY DEF GridQuiet, Due
  <2>4. Settled(q)
    BY <2>2 DEF GridQuiet, AnyFetching, AnyFailed, InFlight, Settled
  <2>5. cache[q].data # NoData /\ Faithful(cache[q].data, L, stored, {})
    BY <2>1, <2>3, <2>4 DEF PagesKept, PageKept, GridQuiet
  <2>6. cache[q].data \in Page(Int)
    BY <2>2, <2>5, EntryParts
  <2>7. /\ L \in Page(Int)
        /\ \A i \in DOMAIN L.rows : L.rows[i].cells = stored[L.rows[i].id]
    BY <2>1, <2>2, ListedIs, ServedIsPage
  <2> HIDE DEF L, q
  <2>8. cache[q].data = L
    BY <2>5, <2>6, <2>7, FaithfulIsCurrent
  <2> QED BY <2>8 DEF Current, q, L
<1> QED BY <1>1, InvariantHolds, PTL

(* The same of every page of every lane of the board (kanban-board.tsx),    *)
(* also when it is mounted anew while moves are under way.                  *)
THEOREM BoardAlwaysSettles == Spec => []BoardSettles
<1>1. IInv => BoardSettles
  <2> SUFFICES ASSUME IInv, BoardQuiet, NEW l \in Lane, NEW p \in 1..lanePages[l],
                      LaneQuery(l, p) \notin behind
               PROVE  cache[LaneQuery(l, p)].data = LanePage(l, p)
    BY DEF BoardSettles
  <2>1. MovesTyped /\ LaneQuery(l, p) \in OnBoard
    BY OnBoardIs DEF IInv, TypesHold
  <2>2. BoardKept
    BY <2>1 DEF IInv, MovesTyped
  <2>3. ~LanesDue
    BY DEF BoardQuiet, LanesDue
  <2>4. Settled(LaneQuery(l, p))
    BY <2>1 DEF BoardQuiet, InFlight, Settled
  <2> QED BY <2>2, <2>3, <2>4 DEF BoardKept, LaneKept
<1> QED BY <1>1, InvariantHolds, PTL
=============================================================================
