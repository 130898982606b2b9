--------------------------- MODULE EmbeddingsProofs ---------------------------
(***************************************************************************)
(* Proofs for Embeddings: a pass that nothing changed under works on the   *)
(* units of now (PassesRight) and leaves none out (PassesCover); a pass    *)
(* that something changed under is known to both passes (AloneAgree), and  *)
(* makes nothing fresh.  There are always finitely many rows (RowsFinite), *)
(* so that they can be ranked.  What the windows, batches and rankings     *)
(* promise for any input is proved in AlgorithmsProofs.                    *)
(***************************************************************************)
EXTENDS Embeddings, AlgorithmsProofs

UnitSet == [anchor : Segs \cup {0}, scheme : Schemes \cup {"summary"},
            index : Nat, hash : Seq(Seq(Int)) \cup STRING]

\* Units that have a place in the table each.
Placed(units, scheme) ==
    /\ \A u \in units : u \in UnitSet /\ u.anchor \in Segs /\ u.scheme = scheme
    /\ \A u, v \in units : u.anchor = v.anchor /\ u.index = v.index => u = v

\* The utterances that are rendered.
LEMMA RenderedFacts ==
    ASSUME NEW said \in [Segs -> Texts], NEW by \in Names
    PROVE  Rendered(said, by) \in Seq(Seq(Int)) /\ Len(Rendered(said, by)) = Cardinality(Segs)
<1> DEFINE n == Cardinality(Segs)
           r == Rendered(said, by)
<1>1. n \in Nat /\ Segs = 1..n
  BY EmbeddingsAssumption, FS_CardinalityType
<1> HIDE DEF n
<1>2. \A k \in 1..n : said[k] \in Seq(Int) /\ by \o said[k] \in Seq(Int)
  <2> TAKE k \in 1..n
  <2>1. said[k] \in Seq(Int) /\ by \in Seq(Int)
    BY <1>1, EmbeddingsAssumption
  <2> QED BY <2>1, ConcatProperties
<1>3. r \in [1..n -> Seq(Int)]
  BY <1>1, <1>2 DEF Rendered
<1> HIDE DEF r
<1>4. r \in Seq(Seq(Int))
  BY <1>1, <1>3, SeqDef
<1>5. Len(r) = n
  BY <1>1, <1>3, <1>4, LenProperties
<1> QED BY <1>4, <1>5 DEF r, n

\* segment_units, of windows: numbered per anchor, no two have one place.
LEMMA WindowsPlaced ==
    ASSUME NEW said \in [Segs -> Texts], NEW by \in Names
    PROVE  Placed(WindowUnits[said][by], "window")
<1> DEFINE r == Rendered(said, by)
           p == Pieces(r)
           windows == BuildWindows(r)
           Anchor(w) == windows[w][1].seg
           Hash(w) == [i \in DOMAIN windows[w] |-> windows[w][i].words]
           Earlier(w) == {v \in 1..(w - 1) : Anchor(v) = Anchor(w)}
           U(w) == Unit(Anchor(w), "window", Cardinality(Earlier(w)), Hash(w))
<1>1. WindowUnits[said][by] = {U(w) : w \in DOMAIN windows}
  BY DEF WindowUnits
<1>2. r \in Seq(Seq(Int)) /\ Segs = 1..Len(r)
  BY RenderedFacts, EmbeddingsAssumption
<1> HIDE DEF r
<1>3. p \in Seq(Piece) /\ \A i \in 1..Len(p) : p[i].seg \in Segs
  BY <1>2, PiecesFacts
<1>4. windows \in Seq(Seq(Piece)) /\ \E F, G : Runs(windows, p, F, G, Len(p))
  BY <1>2, WindowsAreRuns
<1> HIDE DEF p, windows
<1>5. PICK F, G : Runs(windows, p, F, G, Len(p))
  BY <1>4
<1> DEFINE n == Len(windows)
<1>6. n \in Nat /\ DOMAIN windows = 1..n
  BY <1>4
<1>7. ASSUME NEW w \in 1..n PROVE Anchor(w) \in Segs /\ Hash(w) \in Seq(Seq(Int))
  <2>1. F[w] \in 1..Len(p) /\ windows[w][1] = p[F[w]]
    BY <1>3, <1>5, <1>6, WindowStarts
  <2>2. Anchor(w) \in Segs
    BY <1>3, <2>1
  <2>3. PICK win \in Seq(Piece) : win = windows[w]
    BY <1>4
  <2>4. /\ DOMAIN win = 1..Len(win) /\ Len(win) \in Nat
        /\ \A i \in 1..Len(win) : win[i].words \in Seq(Int)
    <3>1. \A x \in Piece : x.words \in Seq(Int)
      BY DEF Piece
    <3>2. \A i \in 1..Len(win) : win[i] \in Piece
      OBVIOUS
    <3> QED BY <3>1, <3>2
  <2>5. Hash(w) \in Seq(Seq(Int))
    <3>1. Hash(w) = [i \in 1..Len(win) |-> win[i].words]
      BY <2>3, <2>4
    <3>2. Hash(w) \in [1..Len(win) -> Seq(Int)]
      BY <2>4, <3>1
    <3> HIDE DEF Hash
    <3> QED BY <2>4, <3>2, SeqDef
  <2> QED BY <2>2, <2>5
<1>8. \A w \in 1..n : IsFiniteSet(Earlier(w)) /\ Cardinality(Earlier(w)) \in Nat
  <2> TAKE w \in 1..n
  <2>1. IsFiniteSet(1..(w - 1)) /\ Earlier(w) \in SUBSET (1..(w - 1))
    <3>1. PICK k \in Int : k = w - 1
      BY <1>6
    <3>2. IsFiniteSet(1..k)
      BY FS_Interval
    <3> QED BY <3>1, <3>2
  <2> HIDE DEF Earlier
  <2>2. IsFiniteSet(Earlier(w))
    BY <2>1, FS_Subset
  <2> QED BY <2>2, FS_CardinalityType
<1>9. ASSUME NEW v \in 1..n, NEW w \in 1..n, v < w, Anchor(v) = Anchor(w)
      PROVE  Cardinality(Earlier(v)) # Cardinality(Earlier(w))
  <2>1. Earlier(v) \in SUBSET Earlier(w)
    BY <1>6, <1>9
  <2>2. v \in Earlier(w) /\ v \notin Earlier(v)
    BY <1>6, <1>9
  <2>3. IsFiniteSet(Earlier(w))
    BY <1>8
  <2> HIDE DEF Earlier
  <2> QED BY <2>1, <2>2, <2>3, FS_Subset
<1> HIDE DEF Earlier, Anchor, Hash, n
<1>10. \A w \in 1..n : /\ U(w) \in UnitSet /\ U(w).anchor = Anchor(w)
                       /\ U(w).scheme = "window" /\ U(w).index = Cardinality(Earlier(w))
  <2> TAKE w \in 1..n
  <2>1. PICK a, c, h : a = Anchor(w) /\ c = Cardinality(Earlier(w)) /\ h = Hash(w)
    OBVIOUS
  <2>2. a \in Segs /\ c \in Nat /\ h \in Seq(Seq(Int))
    BY <1>7, <1>8, <2>1
  <2>3. U(w) = [anchor |-> a, scheme |-> "window", index |-> c, hash |-> h]
    BY <2>1 DEF Unit
  <2> HIDE DEF U
  <2>4. U(w) \in UnitSet
    BY <2>2, <2>3 DEF UnitSet, Schemes
  <2> QED BY <2>1, <2>3, <2>4
<1>11. ASSUME NEW v \in 1..n, NEW w \in 1..n,
              U(v).anchor = U(w).anchor, U(v).index = U(w).index
       PROVE  v = w
  <2>1. Anchor(v) = Anchor(w) /\ Cardinality(Earlier(v)) = Cardinality(Earlier(w))
    BY <1>10, <1>11
  <2>2. ~(v < w) /\ ~(w < v)
    BY <1>9, <2>1
  <2> QED BY <1>6, <2>2
<1>12. PICK units : units = {U(w) : w \in 1..n}
  OBVIOUS
<1> HIDE DEF U
<1>13. Placed(units, "window")
  <2>1. \A u \in units : u \in UnitSet /\ u.anchor \in Segs /\ u.scheme = "window"
    BY <1>7, <1>10, <1>12
  <2>2. \A u, v \in units : u.anchor = v.anchor /\ u.index = v.index => u = v
    <3> SUFFICES ASSUME NEW x \in units, NEW y \in units, x.anchor = y.anchor, x.index = y.index
                 PROVE  x = y
      OBVIOUS
    <3>1. PICK a \in 1..n : x = U(a)
      BY <1>12
    <3>2. PICK b \in 1..n : y = U(b)
      BY <1>12
    <3>3. a = b
      BY <1>11, <3>1, <3>2
    <3> QED BY <3>1, <3>2, <3>3
  <2> QED BY <2>1, <2>2 DEF Placed
<1> QED BY <1>1, <1>6, <1>12, <1>13 DEF n

\* segment_units
LEMMA UnitsPlaced ==
    ASSUME TypeOK, NEW scheme \in Schemes
    PROVE  Placed(SegmentUnits(scheme), scheme)
<1>1. CASE scheme = "window"
  <2>1. Placed(WindowUnits[texts][name], "window")
    <3>1. texts \in [Segs -> Texts] /\ name \in Names
      BY DEF TypeOK
    <3> QED BY <3>1, WindowsPlaced
  <2> QED BY <1>1, <2>1 DEF SegmentUnits
<1>2. CASE scheme = "segment"
  <2> DEFINE U(n) == Unit(n, "segment", 0, <<texts[n]>>)
             said == {n \in Segs : texts[n] # <<>>}
  <2>1. SegmentUnits(scheme) = {U(n) : n \in said}
    BY <1>2 DEF SegmentUnits
  <2>2. \A n \in said : /\ U(n) \in UnitSet /\ U(n).anchor = n
                        /\ U(n).scheme = "segment" /\ U(n).index = 0
    <3> TAKE n \in said
    <3>1. texts[n] \in Seq(Int)
      BY EmbeddingsAssumption DEF TypeOK
    <3>2. <<texts[n]>> \in Seq(Seq(Int))
      BY <3>1
    <3> QED BY <3>2 DEF Unit, UnitSet, Schemes
  <2>3. said \subseteq Segs
    OBVIOUS
  <2> HIDE DEF U, said
  <2> QED BY <1>2, <2>1, <2>2, <2>3 DEF Placed
<1> QED BY <1>1, <1>2 DEF Schemes

\* summary_units: one per chunk, in its own place.
LEMMA SummaryPlaced ==
    ASSUME TypeOK
    PROVE  /\ summary \in Seq(STRING) /\ Len(summary) \in Nat
           /\ \A u \in SummaryUnits : /\ u \in UnitSet /\ u.anchor = 0
                                      /\ u.scheme = "summary" /\ u.index \in 1..Len(summary)
           /\ \A u, v \in SummaryUnits : u.index = v.index => u = v
<1> DEFINE n == Len(summary)
           U(i) == Unit(0, "summary", i, summary[i])
<1>1. summary \in Seq(STRING)
  BY EmbeddingsAssumption DEF TypeOK
<1>2. n \in Nat /\ DOMAIN summary = 1..n /\ \A i \in 1..n : summary[i] \in STRING
  BY <1>1
<1>3. SummaryUnits = {U(i) : i \in 1..n}
  BY <1>2 DEF SummaryUnits
<1> HIDE DEF n
<1>4. \A i \in 1..n : /\ U(i) \in UnitSet /\ U(i).anchor = 0
                      /\ U(i).scheme = "summary" /\ U(i).index = i
  BY <1>2 DEF Unit, UnitSet
<1> HIDE DEF U
<1> QED BY <1>1, <1>2, <1>3, <1>4 DEF n

RowSet == [anchor : Segs \cup {0}, scheme : Schemes \cup {"summary"}, index : Nat,
           hash : Seq(Seq(Int)) \cup STRING, model : Models]

PassSet == [scheme : Schemes, force : BOOLEAN, part : {"segments", "summary"},
            todo : SUBSET UnitSet, out : SUBSET RowSet, prune : BOOLEAN, keep : Nat,
            model : Models, gone : BOOLEAN, alone : BOOLEAN]

\* A segment's place, or a summary's.
InPlace(x) ==
    \/ x.anchor \in Segs /\ x.scheme \in Schemes
    \/ x.anchor = 0 /\ x.scheme = "summary"

KeysDiffer(set) == \A r, s \in set : Key(r) = Key(s) => r = s

Types ==
    /\ TypeOK /\ rows \subseteq RowSet
    /\ pass \in [Passes -> PassSet \cup {None}]
    /\ fresh = None \/ fresh \in [scheme : Schemes, sure : BOOLEAN]

Answers(row, unit) ==
    /\ row.anchor = unit.anchor /\ row.scheme = unit.scheme /\ row.hash = unit.hash
    /\ unit.scheme = "summary" => row.index = unit.index

Held(set, unit, sure) ==
    \E row \in set : Answers(row, unit) /\ (sure => row.model = model)

CurrentUnits == SummaryUnits \cup SegmentUnits("segment") \cup SegmentUnits("window")

Wanted(scheme) == {u \in SegmentUnits(scheme) : Sole(u)}

UnitOf(row) == Unit(row.anchor, row.scheme, row.index, row.hash)

RightRow(row) == UnitOf(row) \in CurrentUnits /\ row.model = model

\* What a pass works on, and has made: rows of their own place each.
Work(job) ==
    /\ \A u, v \in job.todo : /\ u.scheme = v.scheme
                              /\ u.anchor = v.anchor /\ u.index = v.index => u = v
    /\ \A u \in job.todo : InPlace(u)
    /\ \A r \in job.out : InPlace(r)
    /\ KeysDiffer(job.out)
    /\ job.part = "segments" =>
         /\ \A u \in job.todo : u.anchor # 0
         /\ \A r \in job.out : r.anchor # 0
         /\ job.todo # {} => job.out = {}
         /\ ~job.prune
    /\ job.part = "summary" =>
         /\ \A u \in job.todo : u.anchor = 0
         /\ job.todo # {} => \A r \in job.out : r.anchor # 0

\* A pass that works on what there is now.
Right(job) ==
    /\ job.todo \subseteq CurrentUnits
    /\ \A r \in job.out : RightRow(r)
    /\ job.prune => job.keep = Len(summary)

Sees(job, units) ==
    \A unit \in units :
      unit \in job.todo \/ Held(rows \cup job.out, unit, pinned \/ job.force)

\* A pass that leaves nothing out.
Covers(job) ==
    /\ Sees(job, Wanted(job.scheme))
    /\ job.part = "summary" => Sees(job, SummaryUnits)

PassesWork == \A p \in Passes : Open(p) => Work(pass[p])
AloneAgree == \A p, q \in Passes : Open(p) /\ Open(q) => pass[p].alone = pass[q].alone
PassesRight == \A p \in Passes : Open(p) /\ (pass[p].alone \/ fresh # None) => Right(pass[p])
PassesCover == \A p \in Passes : Open(p) /\ pass[p].alone => Covers(pass[p])
FreshHolds ==
    fresh # None => \A unit \in Wanted(fresh.scheme) \cup SummaryUnits :
                      Held(rows, unit, fresh.sure)

EmbeddingsInv ==
    /\ Types /\ PassesWork /\ AloneAgree /\ PassesRight /\ PassesCover /\ FreshHolds

-----------------------------------------------------------------------------

\* The invariant is what the runs check, and more.
LEMMA InvIsEnough == EmbeddingsInv => RowsInv
<1> SUFFICES ASSUME EmbeddingsInv PROVE TypeOK /\ FreshIsEmbedded
  BY DEF RowsInv
<1>1. TypeOK
  BY DEF EmbeddingsInv, Types
<1>2. ASSUME fresh # None
      PROVE  /\ \A unit \in SegmentUnits(fresh.scheme) : Sole(unit) => Current(unit)
             /\ \A unit \in SummaryUnits : Current(unit)
  <2>1. \A unit \in Wanted(fresh.scheme) \cup SummaryUnits : Held(rows, unit, fresh.sure)
    BY <1>2 DEF EmbeddingsInv, FreshHolds
  <2>2. \A unit : Held(rows, unit, fresh.sure) => Current(unit)
    BY Zenon DEF Held, Answers, Current
  <2> QED BY <2>1, <2>2 DEF Wanted
<1> QED BY <1>1, <1>2 DEF FreshIsEmbedded

\* The units there are now, and their places.
LEMMA CurrentFacts ==
    ASSUME TypeOK
    PROVE  /\ CurrentUnits \subseteq UnitSet
           /\ \A u \in CurrentUnits : InPlace(u)
           /\ \A u \in CurrentUnits : \/ u.scheme = "summary" /\ u \in SummaryUnits
                                      \/ u.scheme \in Schemes /\ u \in SegmentUnits(u.scheme)
           /\ \A u, v \in CurrentUnits :
                u.scheme = v.scheme /\ u.anchor = v.anchor /\ u.index = v.index => u = v
           /\ 0 \notin Segs
<1> DEFINE A == SegmentUnits("segment")
           B == SegmentUnits("window")
           C == SummaryUnits
<1>1. /\ \A u \in A : u \in UnitSet /\ u.anchor \in Segs /\ u.scheme = "segment"
      /\ \A u, v \in A : u.anchor = v.anchor /\ u.index = v.index => u = v
  BY UnitsPlaced DEF Placed, Schemes
<1>2. /\ \A u \in B : u \in UnitSet /\ u.anchor \in Segs /\ u.scheme = "window"
      /\ \A u, v \in B : u.anchor = v.anchor /\ u.index = v.index => u = v
  BY UnitsPlaced DEF Placed, Schemes
<1>3. /\ \A u \in C : u \in UnitSet /\ u.anchor = 0 /\ u.scheme = "summary"
      /\ \A u, v \in C : u.index = v.index => u = v
  BY SummaryPlaced
<1>4. 0 \notin Segs
  <2>1. Cardinality(Segs) \in Nat
    BY EmbeddingsAssumption, FS_CardinalityType
  <2>2. 0 \notin 1..Cardinality(Segs)
    BY <2>1
  <2> QED BY <2>2, EmbeddingsAssumption
<1>5. CurrentUnits = C \cup A \cup B
  BY DEF CurrentUnits
<1>6. \A u \in CurrentUnits : \/ u.scheme = "summary" /\ u \in C
                              \/ u.scheme = "segment" /\ u \in A
                              \/ u.scheme = "window" /\ u \in B
  BY <1>1, <1>2, <1>3, <1>5
<1>7. \A u \in CurrentUnits : \/ u.scheme = "summary" /\ u \in C
                              \/ u.scheme \in Schemes /\ u \in SegmentUnits(u.scheme)
  BY <1>6 DEF Schemes
<1> HIDE DEF A, B, C
<1>8. \A u, v \in CurrentUnits :
        u.scheme = v.scheme /\ u.anchor = v.anchor /\ u.index = v.index => u = v
  BY <1>1, <1>2, <1>3, <1>6
<1>9. \A u \in CurrentUnits : InPlace(u)
  BY <1>1, <1>2, <1>3, <1>6 DEF InPlace, Schemes
<1>10. CurrentUnits \subseteq UnitSet
  BY <1>1, <1>2, <1>3, <1>6
<1> QED BY <1>4, <1>7, <1>8, <1>9, <1>10 DEF C

\* An upsert keeps the unique constraint.
LEMMA UpsertKeys ==
    ASSUME NEW set, NEW new, KeysDiffer(set), KeysDiffer(new)
    PROVE  KeysDiffer(Upsert(set, new))
BY DEF KeysDiffer, Upsert

\* A row that is replaced by one of now that is right leaves its text answered.
LEMMA UpsertHolds ==
    ASSUME TypeOK, NEW set, NEW new, \A r \in new : RightRow(r), new \subseteq RowSet,
           NEW scheme \in Schemes, NEW unit \in Wanted(scheme) \cup SummaryUnits,
           NEW sure, Held(set, unit, sure)
    PROVE  Held(Upsert(set, new), unit, sure)
<1>1. PICK row \in set : Answers(row, unit) /\ (sure => row.model = model)
  BY DEF Held
<1>2. CASE \A s \in new : Key(row) # Key(s)
  BY <1>1, <1>2 DEF Held, Upsert
<1>3. CASE \E s \in new : Key(row) = Key(s)
  <2>1. PICK s \in new : Key(row) = Key(s)
    BY <1>3
  <2>2. /\ row.anchor = s.anchor /\ row.model = s.model
        /\ row.scheme = s.scheme /\ row.index = s.index
    BY <2>1 DEF Key
  <2> DEFINE v == UnitOf(s)
  <2>3. /\ v.anchor = s.anchor /\ v.scheme = s.scheme
        /\ v.index = s.index /\ v.hash = s.hash
    BY DEF UnitOf, Unit
  <2>4. v \in CurrentUnits /\ s.model = model
    BY DEF RightRow
  <2> HIDE DEF v
  <2>5. /\ unit.anchor = v.anchor /\ unit.scheme = v.scheme
        /\ unit.scheme = "summary" => v.index = unit.index
    BY <1>1, <2>2, <2>3 DEF Answers
  <2>6. v = unit
    <3>1. CASE unit \in SummaryUnits
      <4>1. unit.scheme = "summary"
        BY <3>1, SummaryPlaced
      <4>2. unit \in CurrentUnits
        BY <3>1 DEF CurrentUnits
      <4> QED BY <2>4, <2>5, <4>1, <4>2, CurrentFacts
    <3>2. CASE unit \in Wanted(scheme)
      <4>1. unit \in SegmentUnits(scheme) /\ Sole(unit)
        BY <3>2 DEF Wanted
      <4>2. unit.scheme = scheme
        BY <4>1, UnitsPlaced DEF Placed
      <4>3. v \in SegmentUnits(unit.scheme)
        <5>1. "summary" \notin Schemes
          BY DEF Schemes
        <5> QED BY <2>4, <2>5, <4>2, <5>1, CurrentFacts
      <4> QED BY <2>5, <4>1, <4>3 DEF Sole
    <3> QED BY <3>1, <3>2
  <2>7. Answers(s, unit)
    BY <2>3, <2>6 DEF Answers
  <2> QED BY <2>4, <2>7 DEF Held, Upsert
<1> QED BY <1>2, <1>3

\* A table that keeps to its constraints.
RowsOK(set) ==
    set \subseteq RowSet /\ (\A r \in set : InPlace(r)) /\ KeysDiffer(set)

\* The table keeps to its constraints when rows are upserted or deleted.
LEMMA RowsOKFacts ==
    /\ Types => RowsOK(rows)
    /\ \A set, new : RowsOK(set) /\ RowsOK(new) => RowsOK(Upsert(set, new))
    /\ \A set, part : RowsOK(set) /\ part \subseteq set => RowsOK(part)
<1>1. Types => RowsOK(rows)
  BY DEF Types, TypeOK, RowsOK, InPlace, KeysDiffer
<1>2. ASSUME NEW set, NEW new, RowsOK(set), RowsOK(new)
      PROVE  RowsOK(Upsert(set, new))
  <2>1. KeysDiffer(Upsert(set, new))
    BY <1>2, UpsertKeys DEF RowsOK
  <2>2. Upsert(set, new) \subseteq set \cup new
    BY DEF Upsert
  <2> QED BY <1>2, <2>1, <2>2 DEF RowsOK
<1>3. ASSUME NEW set, NEW part, RowsOK(set), part \subseteq set
      PROVE  RowsOK(part)
  BY <1>3 DEF RowsOK, KeysDiffer
<1> QED BY <1>1, <1>2, <1>3

\* The types of a step that changes rows and passes.
LEMMA TypesStep ==
    ASSUME Types, UNCHANGED <<world, pinned>>, RowsOK(rows'),
           pass' \in [Passes -> PassSet \cup {None}],
           fresh' = None \/ fresh' \in [scheme : Schemes, sure : BOOLEAN],
           passes' \in 0..MaxPasses, changes' \in 0..MaxChanges
    PROVE  Types'
<1>1. /\ texts' \in [Segs -> Texts] /\ name' \in Names /\ summary' \in Summaries
      /\ model' \in Models /\ pinned' \in BOOLEAN
  BY DEF Types, TypeOK, world
<1>2. \A r \in RowSet : r.model \in Models /\ r.index \in Nat
  BY DEF RowSet
<1>3. \A r \in rows' : /\ r.model \in Models /\ r.index \in Nat
                       /\ \/ r.anchor \in Segs /\ r.scheme \in Schemes
                          \/ r.anchor = 0 /\ r.scheme = "summary"
  BY <1>2 DEF RowsOK, InPlace
<1>4. \A r, s \in rows' : Key(r) = Key(s) => r = s
  BY DEF RowsOK, KeysDiffer
<1>5. rows' \subseteq RowSet
  BY DEF RowsOK
<1> QED BY <1>1, <1>3, <1>4, <1>5 DEF Types, TypeOK

\* The row that a unit is embedded as.
RowFor(u) == [anchor |-> u.anchor, scheme |-> u.scheme, index |-> u.index,
              hash |-> u.hash, model |-> model]

\* An embedded unit's row is of that unit, and of the embedder of now.
LEMMA RowForFacts ==
    ASSUME TypeOK, NEW u \in UnitSet
    PROVE  /\ RowFor(u) \in RowSet /\ RowFor(u).anchor = u.anchor
           /\ RowFor(u).scheme = u.scheme /\ RowFor(u).index = u.index
           /\ RowFor(u).hash = u.hash /\ RowFor(u).model = model
           /\ UnitOf(RowFor(u)) = u
<1>1. model \in Models
  BY DEF TypeOK
<1>2. u = [anchor |-> u.anchor, scheme |-> u.scheme, index |-> u.index, hash |-> u.hash]
  BY DEF UnitSet
<1> QED BY <1>1, <1>2 DEF RowFor, RowSet, UnitSet, UnitOf, Unit

\* Units that are embedded are held.
LEMMA EmbeddedHeld ==
    ASSUME TypeOK, NEW todo \in SUBSET UnitSet, NEW unit \in todo, NEW sure
    PROVE  Held({RowFor(u) : u \in todo}, unit, sure)
<1>1. Answers(RowFor(unit), unit) /\ RowFor(unit).model = model
  BY RowForFacts DEF Answers
<1> QED BY <1>1 DEF Held

\* More rows hold no less.
LEMMA HeldGrows ==
    ASSUME NEW set, NEW more, set \subseteq more, NEW unit, NEW sure, Held(set, unit, sure)
    PROVE  Held(more, unit, sure)
BY DEF Held

\* What two tables hold, one of them does.
LEMMA HeldJoins ==
    ASSUME NEW a, NEW b, NEW unit, NEW sure, Held(a \cup b, unit, sure)
    PROVE  Held(a, unit, sure) \/ Held(b, unit, sure)
BY DEF Held

-----------------------------------------------------------------------------

\* What is asked for is the same while texts, names, summary and embedder are.
LEMMA SameWorld ==
    ASSUME UNCHANGED world
    PROVE  /\ CurrentUnits' = CurrentUnits /\ SummaryUnits' = SummaryUnits
           /\ \A scheme : Wanted(scheme)' = Wanted(scheme)
           /\ \A job : Right(job)' <=> Right(job)
           /\ \A set, unit, sure : Held(set, unit, sure)' <=> Held(set, unit, sure)
<1>1. texts' = texts /\ name' = name /\ summary' = summary /\ model' = model
  BY DEF world
<1>2. SummaryUnits' = SummaryUnits
  BY <1>1 DEF SummaryUnits
<1>3. \A scheme : SegmentUnits(scheme)' = SegmentUnits(scheme)
  BY <1>1 DEF SegmentUnits
<1>4. CurrentUnits' = CurrentUnits
  BY <1>2, <1>3 DEF CurrentUnits
<1>5. \A unit : Sole(unit)' <=> Sole(unit)
  BY <1>3 DEF Sole
<1>6. \A scheme : Wanted(scheme)' = Wanted(scheme)
  BY <1>3, <1>5 DEF Wanted
<1>7. \A job : Right(job)' <=> Right(job)
  BY <1>1, <1>4 DEF Right, RightRow
<1>8. \A set, unit, sure : Held(set, unit, sure)' <=> Held(set, unit, sure)
  BY <1>1 DEF Held
<1> QED BY <1>2, <1>4, <1>6, <1>7, <1>8

\* A table that answers all that the rows do.
Keeps(set) ==
    \A scheme \in Schemes : \A unit \in Wanted(scheme) \cup SummaryUnits :
      \A sure \in BOOLEAN : Held(rows, unit, sure) => Held(set, unit, sure)

\* An upsert of rows that are right loses no answer.
LEMMA UpsertKeeps ==
    ASSUME Types, NEW new \in SUBSET RowSet, \A r \in new : RightRow(r)
    PROVE  Keeps(Upsert(rows, new))
BY UpsertHolds DEF Keeps, Types

\* A pass that is handed on sees as much after a step that keeps the answers,
\* if what it no longer has to write is written.
LEMMA CoverPasses ==
    ASSUME Types, UNCHANGED <<world, pinned>>, Keeps(rows'),
           NEW job \in PassSet, NEW next \in PassSet, Covers(job),
           next.todo = job.todo, next.scheme = job.scheme, next.part = job.part,
           next.force = job.force, job.out \subseteq rows' \cup next.out
    PROVE  Covers(next)'
<1>1. job.scheme \in Schemes /\ (pinned \/ job.force) \in BOOLEAN
  BY DEF PassSet, Types, TypeOK
<1>2. ASSUME NEW unit \in Wanted(job.scheme) \cup SummaryUnits,
             Held(rows \cup job.out, unit, pinned \/ job.force)
      PROVE  Held(rows' \cup next.out, unit, pinned \/ job.force)
  <2>1. CASE Held(rows, unit, pinned \/ job.force)
    <3>1. Held(rows', unit, pinned \/ job.force)
      BY <1>1, <2>1 DEF Keeps
    <3> QED BY <3>1, HeldGrows
  <2>2. CASE Held(job.out, unit, pinned \/ job.force)
    BY <2>2, HeldGrows
  <2> QED BY <1>2, <2>1, <2>2, HeldJoins
<1>3. pinned' = pinned
  OBVIOUS
<1>4. \A units : units \subseteq Wanted(job.scheme) \cup SummaryUnits /\ Sees(job, units) =>
        \A unit \in units : unit \in next.todo
                            \/ Held(rows' \cup next.out, unit, pinned \/ next.force)
  BY <1>2 DEF Sees
<1>5. Wanted(next.scheme)' = Wanted(job.scheme) /\ SummaryUnits' = SummaryUnits
  BY SameWorld
<1>6. \A unit : Held(rows' \cup next.out, unit, pinned \/ next.force)
                  => Held(rows \cup next.out, unit, pinned \/ next.force)'
  BY <1>3, SameWorld DEF Held, world
<1>7. Covers(next)' <=>
        /\ \A unit \in Wanted(next.scheme)' :
             unit \in next.todo \/ Held(rows \cup next.out, unit, pinned \/ next.force)'
        /\ next.part = "summary" =>
             \A unit \in SummaryUnits' :
               unit \in next.todo \/ Held(rows \cup next.out, unit, pinned \/ next.force)'
  BY Zenon DEF Covers, Sees
<1> QED BY <1>4, <1>5, <1>6, <1>7 DEF Covers

\* A pass that does nothing sees as much.
LEMMA CoverKeeps ==
    ASSUME Types, UNCHANGED <<world, pinned>>, Keeps(rows'),
           NEW job \in PassSet, Covers(job)
    PROVE  Covers(job)'
BY CoverPasses

\* A step of one open pass, which ends it or hands it on, in the same world.
Hands(p, job) ==
    /\ p \in Passes /\ Open(p)
    /\ pass' = [pass EXCEPT ![p] = job] /\ job \in PassSet \cup {None}
    /\ UNCHANGED <<world, pinned, changes>> /\ passes' \in 0..MaxPasses

\* A pass that is open is one.
LEMMA PassTyped ==
    ASSUME Types, NEW p \in Passes, Open(p)
    PROVE  pass[p] \in PassSet
BY DEF Types, Open

\* What a pass's own step must give: its work in order, right if it was right and
\* covering if it covered, and no answer lost that the rows gave.
LEMMA StepKeeps ==
    ASSUME EmbeddingsInv, NEW p, NEW job, Hands(p, job),
           RowsOK(rows'),
           \/ fresh' = fresh
           \/ /\ pass[p].alone /\ FreshHolds'
              /\ fresh' \in [scheme : Schemes, sure : BOOLEAN],
           job # None => Work(job) /\ job.alone = pass[p].alone,
           Right(pass[p]) => Keeps(rows') /\ (job # None => Right(job)),
           Right(pass[p]) /\ Covers(pass[p]) /\ job # None => Covers(job)'
    PROVE  EmbeddingsInv'
<1>0. /\ Types /\ PassesWork /\ AloneAgree /\ PassesRight /\ PassesCover /\ FreshHolds
      /\ p \in Passes /\ Open(p) /\ pass[p] \in PassSet
      /\ UNCHANGED <<world, pinned>>
  BY PassTyped DEF EmbeddingsInv, Hands
<1>1. Types'
  <2>1. pass' \in [Passes -> PassSet \cup {None}]
    BY <1>0 DEF Hands, Types
  <2>2. changes' \in 0..MaxChanges
    BY <1>0 DEF Hands, Types, TypeOK
  <2>3. fresh' = None \/ fresh' \in [scheme : Schemes, sure : BOOLEAN]
    BY <1>0 DEF Types
  <2> QED BY <1>0, <2>1, <2>2, <2>3, TypesStep DEF Hands
<1>2. /\ pass'[p] = job
      /\ \A q \in Passes \ {p} : pass'[q] = pass[q]
  BY <1>0 DEF Hands, Types
<1>3. \A q \in Passes : pass'[q] # None => Open(q)
  BY <1>0, <1>2 DEF Open
<1>4. PassesWork'
  <2> SUFFICES ASSUME NEW q \in Passes, pass'[q] # None PROVE Work(pass'[q])
    BY DEF PassesWork, Open, Work
  <2>1. CASE q = p
    BY <1>2, <2>1
  <2>2. CASE q # p
    BY <1>0, <1>2, <1>3, <2>2 DEF PassesWork
  <2> QED BY <2>1, <2>2
<1>5. \A q \in Passes : pass'[q] # None => pass'[q].alone = pass[q].alone
  BY <1>2
<1>6. AloneAgree'
  BY <1>0, <1>3, <1>5 DEF AloneAgree, Open
<1>7. \A q \in Passes : Open(q) => pass[q].alone = pass[p].alone
  BY <1>0 DEF AloneAgree
<1>8. pass[p].alone \/ fresh # None => Right(pass[p])
  BY <1>0 DEF PassesRight
<1>9. PassesRight'
  <2> SUFFICES ASSUME NEW q \in Passes, pass'[q] # None, pass'[q].alone \/ fresh' # None
               PROVE  Right(pass[q])'
    BY DEF PassesRight, Open
  <2>1. pass[p].alone \/ fresh # None
    BY <1>3, <1>5, <1>7
  <2>2. CASE q = p
    <3>1. Right(job)
      BY <1>2, <1>8, <2>1, <2>2
    <3>2. Right(job)'
      BY <1>0, <3>1, SameWorld
    <3> QED BY <1>2, <2>2, <3>2 DEF Right
  <2>3. CASE q # p
    <3>1. Right(pass[q])
      BY <1>0, <1>2, <1>3, <1>7, <2>3 DEF PassesRight
    <3>2. PICK j : j = pass[q]
      OBVIOUS
    <3>3. Right(j)'
      BY <1>0, <3>1, <3>2, SameWorld
    <3> QED BY <1>2, <2>3, <3>2, <3>3 DEF Right
  <2> QED BY <2>2, <2>3
<1>10. PassesCover'
  <2> SUFFICES ASSUME NEW q \in Passes, pass'[q] # None, pass'[q].alone
               PROVE  Covers(pass[q])'
    BY DEF PassesCover, Open
  <2>1. Open(q) /\ pass[q].alone /\ pass[p].alone
    BY <1>3, <1>5, <1>7
  <2>2. Right(pass[p]) /\ Keeps(rows')
    BY <1>8, <2>1
  <2>3. CASE q = p
    <3>1. Covers(pass[p])
      BY <1>0, <2>1, <2>3 DEF PassesCover
    <3>2. Covers(job)'
      BY <1>2, <2>2, <2>3, <3>1
    <3> QED BY <1>2, <2>3, <3>2 DEF Covers, Sees
  <2>4. CASE q # p
    <3>1. PICK j : j = pass[q]
      OBVIOUS
    <3>2. j \in PassSet /\ Covers(j)
      BY <1>0, <2>1, <3>1, PassTyped DEF PassesCover
    <3>3. Covers(j)'
      BY <1>0, <2>2, <3>2, CoverKeeps
    <3> QED BY <1>2, <2>4, <3>1, <3>3 DEF Covers, Sees
  <2> QED BY <2>3, <2>4
<1>11. FreshHolds'
  <2> SUFFICES ASSUME fresh' = fresh, fresh # None,
                      NEW unit \in (Wanted(fresh.scheme) \cup SummaryUnits)'
               PROVE  Held(rows, unit, fresh.sure)'
    BY DEF FreshHolds
  <2>1. fresh.scheme \in Schemes /\ fresh.sure \in BOOLEAN
    BY <1>0 DEF Types
  <2>2. unit \in Wanted(fresh.scheme) \cup SummaryUnits
    <3>1. PICK s : s = fresh.scheme
      OBVIOUS
    <3>2. Wanted(s)' = Wanted(s) /\ SummaryUnits' = SummaryUnits
      BY <1>0, SameWorld
    <3>3. Wanted(fresh.scheme)' = Wanted(s)'
      BY <3>1 DEF Wanted
    <3> QED BY <3>1, <3>2, <3>3
  <2>3. Held(rows, unit, fresh.sure)
    BY <1>0, <2>2 DEF FreshHolds
  <2>4. Held(rows', unit, fresh.sure)
    BY <1>8, <2>1, <2>2, <2>3 DEF Keeps
  <2> QED BY <1>0, <2>4 DEF Held, world
<1> QED BY <1>1, <1>4, <1>6, <1>9, <1>10, <1>11 DEF EmbeddingsInv

\* Crash: the rows are as they were.
LEMMA CrashKeeps ==
    ASSUME EmbeddingsInv, NEW p \in Passes, Crash(p)
    PROVE  EmbeddingsInv'
<1>1. /\ Types /\ Open(p) /\ pass' = [pass EXCEPT ![p] = None]
      /\ UNCHANGED <<world, pinned, rows, fresh, passes, changes>>
  BY DEF EmbeddingsInv, Crash
<1>2. Hands(p, None)
  BY <1>1 DEF Hands, Types, TypeOK
<1>3. RowsOK(rows') /\ Keeps(rows')
  BY <1>1, RowsOKFacts DEF Keeps
<1> QED BY <1>1, <1>2, <1>3, StepKeeps

\* Embed: what was to do is there to be written.
LEMMA EmbedKeeps ==
    ASSUME EmbeddingsInv, NEW p \in Passes, Embed(p)
    PROVE  EmbeddingsInv'
<1> DEFINE old == pass[p]
           new == {RowFor(u) : u \in old.todo}
           made == [old EXCEPT !.todo = {}, !.model = model, !.out = old.out \cup new]
<1>1. /\ Types /\ TypeOK /\ Open(p) /\ old \in PassSet /\ Work(old) /\ old.todo # {}
      /\ UNCHANGED <<world, pinned, rows, fresh, passes, changes>>
  BY PassTyped DEF EmbeddingsInv, Types, PassesWork, Embed
<1>2. pass' = [pass EXCEPT ![p] = made]
  <2>1. new = {[anchor |-> u.anchor, scheme |-> u.scheme, index |-> u.index,
                hash |-> u.hash, model |-> model] : u \in pass[p].todo}
    BY DEF RowFor
  <2> HIDE DEF new
  <2>2. pass' = [pass EXCEPT ![p].todo = {}, ![p].model = model, ![p].out = @ \cup new]
    BY <2>1 DEF Embed
  <2>3. pass \in [Passes -> PassSet \cup {None}]
    BY <1>1 DEF Types
  <2> QED BY <1>1, <2>2, <2>3 DEF PassSet
<1>3. /\ old.todo \in SUBSET UnitSet /\ old.out \in SUBSET RowSet /\ model \in Models
  BY <1>1 DEF PassSet, TypeOK
<1>4. /\ new \in SUBSET RowSet
      /\ \A r \in new : \E u \in old.todo : r = RowFor(u)
      /\ \A u \in old.todo : RowFor(u) \in new
  BY <1>1, <1>3, RowForFacts
<1> HIDE DEF new
<1>5. PICK job : job = made
  OBVIOUS
<1>6. /\ job \in PassSet /\ job.todo = {} /\ job.out = old.out \cup new
      /\ job.scheme = old.scheme /\ job.force = old.force /\ job.part = old.part
      /\ job.prune = old.prune /\ job.keep = old.keep /\ job.alone = old.alone
  BY <1>1, <1>3, <1>4, <1>5 DEF PassSet
<1> HIDE DEF made, old
<1>7. /\ KeysDiffer(new)
      /\ \A r \in new : InPlace(r)
      /\ old.part = "summary" => \A r \in new : r.anchor = 0
      /\ old.part = "segments" => \A r \in new : r.anchor # 0
  <2>1. ASSUME NEW r \in new, NEW s \in new, Key(r) = Key(s)
        PROVE  r = s
    <3>1. PICK u \in old.todo : r = RowFor(u)
      BY <1>4
    <3>2. PICK v \in old.todo : s = RowFor(v)
      BY <1>4
    <3>3. u \in UnitSet /\ v \in UnitSet
      BY <1>3
    <3>4. u.anchor = v.anchor /\ u.index = v.index
      BY <1>1, <2>1, <3>1, <3>2, <3>3, RowForFacts DEF Key
    <3>5. u = v
      BY <1>1, <3>4 DEF Work
    <3> QED BY <3>1, <3>2, <3>5
  <2>2. ASSUME NEW r \in new
        PROVE  /\ InPlace(r) /\ (old.part = "summary" => r.anchor = 0)
               /\ old.part = "segments" => r.anchor # 0
    <3>1. PICK u \in old.todo : r = RowFor(u)
      BY <1>4
    <3>2. /\ InPlace(u) /\ (old.part = "summary" => u.anchor = 0) /\ u \in UnitSet
          /\ old.part = "segments" => u.anchor # 0
      BY <1>1, <1>3 DEF Work
    <3> QED BY <1>1, <3>1, <3>2, RowForFacts DEF InPlace
  <2> QED BY <2>1, <2>2 DEF KeysDiffer
<1>8. Work(job)
  <2>1. KeysDiffer(job.out)
    <3>1. KeysDiffer(old.out)
      BY <1>1 DEF Work
    <3>2. old.part \in {"segments", "summary"}
      BY <1>1 DEF PassSet
    <3>3. CASE old.part = "segments"
      <4>1. old.out = {}
        BY <1>1, <3>3 DEF Work
      <4> QED BY <1>6, <1>7, <4>1 DEF KeysDiffer
    <3>4. CASE old.part = "summary"
      <4>1. \A r \in old.out : r.anchor # 0
        BY <1>1, <3>4 DEF Work
      <4>2. \A r \in new : r.anchor = 0
        BY <1>7, <3>4
      <4> QED BY <1>6, <1>7, <3>1, <4>1, <4>2 DEF KeysDiffer, Key
    <3> QED BY <3>2, <3>3, <3>4
  <2>2. \A r \in job.out : InPlace(r)
    BY <1>1, <1>6, <1>7 DEF Work
  <2>3. old.part = "segments" => ~old.prune /\ \A r \in job.out : r.anchor # 0
    BY <1>1, <1>6, <1>7 DEF Work
  <2> QED BY <1>6, <2>1, <2>2, <2>3 DEF Work
<1>9. Right(old) => Right(job)
  <2> SUFFICES ASSUME Right(old) PROVE Right(job)
    OBVIOUS
  <2>1. \A r \in new : RightRow(r)
    <3> TAKE r \in new
    <3>1. PICK u \in old.todo : r = RowFor(u)
      BY <1>4
    <3>2. u \in CurrentUnits /\ u \in UnitSet
      BY <1>3 DEF Right
    <3>3. r.model = model /\ UnitOf(r) = u
      BY <1>1, <3>1, <3>2, RowForFacts
    <3> QED BY <3>2, <3>3 DEF RightRow
  <2> QED BY <1>6, <2>1 DEF Right
<1>10. Covers(old) => Covers(job)
  <2> SUFFICES ASSUME Covers(old) PROVE Covers(job)
    OBVIOUS
  <2>1. ASSUME NEW units, Sees(old, units) PROVE Sees(job, units)
    <3> SUFFICES ASSUME NEW unit \in units
                 PROVE  Held(rows \cup job.out, unit, pinned \/ job.force)
      BY DEF Sees
    <3>1. CASE unit \in old.todo
      <4>1. Held(new, unit, pinned \/ job.force)
        BY <1>1, <1>3, <3>1, EmbeddedHeld DEF new
      <4> QED BY <1>6, <4>1, HeldGrows
    <3>2. CASE Held(rows \cup old.out, unit, pinned \/ old.force)
      <4>1. rows \cup old.out \subseteq rows \cup job.out
        BY <1>6
      <4> QED BY <1>6, <3>2, <4>1, HeldGrows
    <3> QED BY <2>1, <3>1, <3>2 DEF Sees
  <2> QED BY <1>6, <2>1 DEF Covers
<1>11. UNCHANGED <<world, pinned>> /\ fresh' = fresh /\ Keeps(rows') /\ RowsOK(rows')
  BY <1>1, RowsOKFacts DEF Keeps
<1>12. Covers(job) => Covers(job)'
  BY <1>1, <1>6, <1>11, CoverKeeps
<1>13. Hands(p, job)
  BY <1>1, <1>2, <1>5, <1>6 DEF Hands, TypeOK
<1> QED BY <1>1, <1>6, <1>8, <1>9, <1>10, <1>11, <1>12, <1>13, StepKeeps DEF old

\* ReadSummary: the units of the summary are known or to do.
LEMMA ReadSummaryKeeps ==
    ASSUME EmbeddingsInv, NEW p \in Passes, ReadSummary(p)
    PROVE  EmbeddingsInv'
<1> DEFINE old == pass[p]
           todo == Pending(SummaryUnits, old.force)
           made == [old EXCEPT !.part = "summary", !.todo = todo,
                              !.prune = todo # {}, !.keep = Len(summary)]
<1>1. /\ Types /\ TypeOK /\ Open(p) /\ old \in PassSet /\ Work(old)
      /\ old.part = "segments" /\ old.todo = {}
      /\ UNCHANGED <<world, pinned, rows, fresh, passes, changes>>
  BY PassTyped DEF EmbeddingsInv, Types, PassesWork, ReadSummary, Written
<1>2. todo \subseteq SummaryUnits
  BY DEF Pending
<1>3. \A unit \in SummaryUnits : unit \in todo \/ (~old.force /\ Known(unit))
  BY DEF Pending
<1>4. pass' = [pass EXCEPT ![p] = made]
  <2>1. pass' = [pass EXCEPT ![p].part = "summary", ![p].todo = todo,
                   ![p].prune = todo # {}, ![p].keep = Len(summary)]
    BY DEF ReadSummary
  <2>2. pass \in [Passes -> PassSet \cup {None}]
    BY <1>1 DEF Types
  <2> HIDE DEF todo
  <2> QED BY <1>1, <2>1, <2>2 DEF PassSet
<1>5. todo \subseteq UnitSet /\ Len(summary) \in Nat
  BY <1>1, <1>2, SummaryPlaced
<1> HIDE DEF todo
<1>6. PICK job : job = made
  OBVIOUS
<1>7. /\ job \in PassSet /\ job.todo = todo /\ job.out = old.out
      /\ job.scheme = old.scheme /\ job.force = old.force /\ job.part = "summary"
      /\ job.prune = (todo # {}) /\ job.keep = Len(summary) /\ job.alone = old.alone
  BY <1>1, <1>5, <1>6 DEF PassSet
<1> HIDE DEF made, old
<1>8. Work(job)
  <2>1. /\ \A u \in todo : u.anchor = 0 /\ u.scheme = "summary"
        /\ \A u, v \in todo : u.index = v.index => u = v
    BY <1>1, <1>2, SummaryPlaced
  <2>2. \A u \in todo : InPlace(u)
    BY <2>1 DEF InPlace
  <2>3. \A r \in job.out : r.anchor # 0
    BY <1>1, <1>7 DEF Work
  <2> QED BY <1>1, <1>7, <2>1, <2>2, <2>3 DEF Work
<1>9. Right(old) => Right(job)
  BY <1>2, <1>7 DEF Right, CurrentUnits
<1>10. Covers(old) => Covers(job)
  <2> SUFFICES ASSUME Covers(old) PROVE Covers(job)
    OBVIOUS
  <2>1. Sees(job, Wanted(job.scheme))
    BY <1>1, <1>7 DEF Covers, Sees
  <2>2. Sees(job, SummaryUnits)
    <3> SUFFICES ASSUME NEW unit \in SummaryUnits, ~old.force, Known(unit)
                 PROVE  Held(rows \cup job.out, unit, pinned \/ job.force)
      BY <1>3, <1>7 DEF Sees
    <3>1. unit.scheme = "summary"
      BY <1>1, SummaryPlaced
    <3>2. Held(rows, unit, pinned \/ job.force)
      BY <1>7, <3>1 DEF Known, SameText, Held, Answers
    <3> QED BY <3>2, HeldGrows
  <2> QED BY <2>1, <2>2 DEF Covers
<1>11. UNCHANGED <<world, pinned>> /\ fresh' = fresh /\ Keeps(rows') /\ RowsOK(rows')
  BY <1>1, RowsOKFacts DEF Keeps
<1>12. Covers(job) => Covers(job)'
  BY <1>1, <1>7, <1>11, CoverKeeps
<1>13. Hands(p, job)
  BY <1>1, <1>4, <1>6, <1>7 DEF Hands, TypeOK
<1> QED BY <1>1, <1>7, <1>8, <1>9, <1>10, <1>11, <1>12, <1>13, StepKeeps DEF old

\* Store: the command writes a row of its own.
LEMMA StoreKeeps ==
    ASSUME EmbeddingsInv, Store
    PROVE  EmbeddingsInv'
<1> DEFINE p == "command"
           old == pass[p]
<1>1. PICK row \in old.out :
        /\ rows' = Upsert(rows, {row})
        /\ pass' = [pass EXCEPT ![p].out = @ \ {row}]
  BY DEF Store
<1> DEFINE made == [old EXCEPT !.out = old.out \ {row}]
<1>2. /\ Types /\ TypeOK /\ p \in Passes /\ Open(p) /\ old \in PassSet /\ Work(old)
      /\ UNCHANGED <<world, pinned, fresh, passes, changes>>
  <2>1. p \in Passes /\ Open(p)
    BY DEF Store, Passes
  <2> QED BY <2>1, PassTyped DEF EmbeddingsInv, Types, PassesWork, Store
<1>3. pass' = [pass EXCEPT ![p] = made]
  <2>1. pass \in [Passes -> PassSet \cup {None}]
    BY <1>2 DEF Types
  <2> QED BY <1>1, <1>2, <2>1 DEF PassSet
<1>4. PICK job : job = made
  OBVIOUS
<1>5. /\ job \in PassSet /\ job.todo = old.todo /\ job.out = old.out \ {row}
      /\ job.scheme = old.scheme /\ job.force = old.force /\ job.part = old.part
      /\ job.prune = old.prune /\ job.keep = old.keep /\ job.alone = old.alone
  BY <1>2, <1>4 DEF PassSet
<1>6. row \in RowSet
  BY <1>2 DEF PassSet
<1> HIDE DEF made, old
<1>7. Work(job)
  BY <1>2, <1>5 DEF Work, KeysDiffer
<1>8. RowsOK(rows')
  <2>1. RowsOK({row})
    BY <1>2, <1>6 DEF RowsOK, KeysDiffer, Work
  <2> QED BY <1>1, <1>2, <2>1, RowsOKFacts
<1>9. Right(old) => Keeps(rows') /\ Right(job)
  <2> SUFFICES ASSUME Right(old) PROVE Keeps(rows') /\ Right(job)
    OBVIOUS
  <2>1. Right(job)
    BY <1>5 DEF Right
  <2>2. RightRow(row) /\ {row} \in SUBSET RowSet
    BY <1>6 DEF Right
  <2>3. Keeps(Upsert(rows, {row}))
    <3>1. PICK new : new = {row}
      OBVIOUS
    <3>2. Keeps(Upsert(rows, new))
      BY <1>2, <2>2, <3>1, UpsertKeeps
    <3> QED BY <3>1, <3>2
  <2> QED BY <1>1, <2>1, <2>3
<1>10. Right(old) /\ Covers(old) => Covers(job)'
  <2> SUFFICES ASSUME Right(old), Covers(old) PROVE Covers(job)'
    OBVIOUS
  <2>1. UNCHANGED <<world, pinned>> /\ Keeps(rows')
    BY <1>2, <1>9
  <2>2. row \in rows'
    BY <1>1 DEF Upsert
  <2>3. PICK j : j = old
    OBVIOUS
  <2>4. /\ j \in PassSet /\ Covers(j) /\ j.out \subseteq rows' \cup job.out
        /\ job.todo = j.todo /\ job.scheme = j.scheme /\ job.part = j.part
        /\ job.force = j.force
    BY <1>2, <1>5, <2>2, <2>3
  <2> QED BY <1>2, <1>5, <2>1, <2>4, CoverPasses
<1>11. Hands(p, job)
  BY <1>2, <1>3, <1>4, <1>5 DEF Hands, TypeOK
<1> QED BY <1>2, <1>5, <1>7, <1>8, <1>9, <1>10, <1>11, StepKeeps DEF old

\* prune_summary_chunks, of a pass: the rows it leaves.
Pruned(set, job) ==
    {r \in set : ~(/\ job.prune /\ r.scheme = "summary"
                    /\ r.model = job.model /\ r.index > job.keep)}

\* A pass that is right prunes no row that answers for the summary.
LEMMA PrunedHolds ==
    ASSUME TypeOK, NEW job, job.prune => job.keep = Len(summary), NEW set,
           NEW scheme \in Schemes, NEW unit \in Wanted(scheme) \cup SummaryUnits,
           NEW sure, Held(set, unit, sure)
    PROVE  Held(Pruned(set, job), unit, sure)
<1>1. PICK row \in set : Answers(row, unit) /\ (sure => row.model = model)
  BY DEF Held
<1>2. CASE unit \in SummaryUnits
  <2>1. unit.scheme = "summary" /\ unit.index \in 1..Len(summary) /\ Len(summary) \in Nat
    BY <1>2, SummaryPlaced
  <2>2. row.index = unit.index
    BY <1>1, <2>1 DEF Answers
  <2>3. job.prune => ~(row.index > job.keep)
    BY <2>1, <2>2
  <2>4. row \in Pruned(set, job)
    BY <2>3 DEF Pruned
  <2> QED BY <1>1, <2>4 DEF Held
<1>3. CASE unit \in Wanted(scheme)
  <2>1. unit.scheme \in Schemes
    BY <1>3, UnitsPlaced DEF Placed, Wanted
  <2>2. row.scheme # "summary"
    BY <1>1, <2>1 DEF Answers, Schemes
  <2>3. row \in Pruned(set, job)
    BY <2>2 DEF Pruned
  <2> QED BY <1>1, <2>3 DEF Held
<1> QED BY <1>2, <1>3

\* A right pass upserts and prunes without losing an answer.
LEMMA PrunedKeeps ==
    ASSUME Types, NEW job \in PassSet, Right(job)
    PROVE  Keeps(Pruned(Upsert(rows, job.out), job))
<1>1. TypeOK /\ job.out \in SUBSET RowSet
  BY DEF Types, PassSet
<1>2. PICK set : set = Upsert(rows, job.out)
  OBVIOUS
<1>3. Keeps(set)
  BY <1>1, <1>2, UpsertKeeps DEF Right
<1>4. Keeps(Pruned(set, job))
  BY <1>1, <1>3, PrunedHolds DEF Keeps, Right
<1> QED BY <1>2, <1>4

\* Fail: the stage keeps what it has, the command ends.
LEMMA FailKeeps ==
    ASSUME EmbeddingsInv, NEW p \in Passes, Fail(p)
    PROVE  EmbeddingsInv'
<1>1. /\ Types /\ TypeOK /\ Open(p) /\ pass[p] \in PassSet /\ Work(pass[p])
      /\ pass' = [pass EXCEPT ![p] = None]
      /\ rows' = IF p = "stage" THEN Upsert(rows, pass[p].out) ELSE rows
      /\ UNCHANGED <<world, pinned, fresh, passes, changes>>
  BY PassTyped DEF EmbeddingsInv, Types, PassesWork, Fail
<1>2. Hands(p, None)
  BY <1>1 DEF Hands, TypeOK
<1>3. PICK out \in SUBSET RowSet : out = pass[p].out
  BY <1>1 DEF PassSet
<1>4. RowsOK(rows')
  <2>1. RowsOK(out)
    BY <1>1, <1>3 DEF RowsOK, Work
  <2> QED BY <1>1, <1>3, <2>1, RowsOKFacts
<1>5. Right(pass[p]) => Keeps(rows')
  <2> SUFFICES ASSUME Right(pass[p]) PROVE Keeps(rows')
    OBVIOUS
  <2>1. Keeps(Upsert(rows, out))
    BY <1>1, <1>3, UpsertKeeps DEF Right
  <2>2. Keeps(rows)
    BY DEF Keeps
  <2> QED BY <1>1, <1>3, <2>1, <2>2
<1> QED BY <1>1, <1>2, <1>4, <1>5, StepKeeps

\* A finished pass leaves the units it was to see held.
LEMMA FinishedHolds ==
    ASSUME Types, NEW job \in PassSet, Right(job), Covers(job),
           job.part = "summary", job.todo = {},
           NEW unit \in Wanted(job.scheme) \cup SummaryUnits
    PROVE  Held(Pruned(Upsert(rows, job.out), job), unit, pinned \/ job.force)
<1>1. TypeOK /\ job.out \in SUBSET RowSet /\ job.scheme \in Schemes
  BY DEF Types, PassSet
<1>2. Held(rows \cup job.out, unit, pinned \/ job.force)
  BY DEF Covers, Sees
<1>3. PICK set : set = Upsert(rows, job.out)
  OBVIOUS
<1>4. Held(set, unit, pinned \/ job.force)
  <2>1. CASE Held(rows, unit, pinned \/ job.force)
    BY <1>1, <1>3, <2>1, UpsertHolds DEF Right
  <2>2. CASE Held(job.out, unit, pinned \/ job.force)
    <3>1. job.out \subseteq set
      BY <1>3 DEF Upsert
    <3> QED BY <2>2, <3>1, HeldGrows
  <2> QED BY <1>2, <2>1, <2>2, HeldJoins
<1>5. Held(Pruned(set, job), unit, pinned \/ job.force)
  BY <1>1, <1>4, PrunedHolds DEF Right
<1> QED BY <1>3, <1>5

\* Finish: the rows are fresh if nothing changed under the pass.
LEMMA FinishKeeps ==
    ASSUME EmbeddingsInv, NEW p \in Passes, Finish(p)
    PROVE  EmbeddingsInv'
<1>1. PICK job : job = pass[p]
  OBVIOUS
<1>2. /\ Types /\ TypeOK /\ Open(p) /\ job \in PassSet /\ Work(job)
      /\ job.part = "summary" /\ job.todo = {}
      /\ pass' = [pass EXCEPT ![p] = None]
      /\ UNCHANGED <<world, pinned, passes, changes>>
  BY <1>1, PassTyped DEF EmbeddingsInv, Types, PassesWork, Finish, Written
<1>3. rows' = Pruned(Upsert(rows, job.out), job)
  BY <1>1 DEF Finish, Beyond, Pruned
<1>4. \/ fresh' = fresh
      \/ /\ job.alone
         /\ fresh' = [scheme |-> job.scheme, sure |-> pinned \/ job.force]
  BY <1>1 DEF Finish
<1>5. Hands(p, None)
  BY <1>2 DEF Hands, TypeOK
<1>6. RowsOK(rows')
  <2>1. RowsOK(job.out)
    BY <1>2 DEF RowsOK, Work, PassSet
  <2>2. RowsOK(Upsert(rows, job.out))
    BY <1>2, <2>1, RowsOKFacts
  <2>3. rows' \subseteq Upsert(rows, job.out)
    BY <1>3 DEF Pruned
  <2> QED BY <2>2, <2>3, RowsOKFacts
<1>7. Right(job) => Keeps(rows')
  BY <1>2, <1>3, PrunedKeeps
<1>8. ASSUME job.alone, fresh' = [scheme |-> job.scheme, sure |-> pinned \/ job.force]
      PROVE  FreshHolds' /\ fresh' \in [scheme : Schemes, sure : BOOLEAN]
  <2>1. Right(job) /\ Covers(job)
    <3>1. Right(pass[p]) /\ Covers(pass[p])
      BY <1>1, <1>2, <1>8 DEF EmbeddingsInv, PassesRight, PassesCover
    <3> QED BY <1>1, <3>1
  <2>2. job.scheme \in Schemes /\ (pinned \/ job.force) \in BOOLEAN
    BY <1>2 DEF PassSet, TypeOK
  <2>3. \A unit \in Wanted(job.scheme) \cup SummaryUnits :
          Held(rows', unit, pinned \/ job.force)
    BY <1>2, <1>3, <2>1, FinishedHolds
  <2>4. fresh'.scheme = job.scheme /\ fresh'.sure = (pinned \/ job.force)
    BY <1>8
  <2>5. Wanted(job.scheme)' = Wanted(job.scheme) /\ SummaryUnits' = SummaryUnits
    BY <1>2, SameWorld
  <2>6. Wanted(fresh.scheme)' = Wanted(job.scheme)'
    BY <2>4 DEF Wanted
  <2>7. FreshHolds'
    <3> SUFFICES ASSUME NEW unit \in (Wanted(fresh.scheme) \cup SummaryUnits)'
                 PROVE  Held(rows, unit, fresh.sure)'
      BY DEF FreshHolds
    <3>1. Held(rows', unit, pinned \/ job.force)
      BY <2>3, <2>5, <2>6
    <3> QED BY <1>2, <2>4, <3>1 DEF Held, world
  <2> QED BY <1>8, <2>2, <2>7
<1> QED BY <1>1, <1>2, <1>4, <1>5, <1>6, <1>7, <1>8, StepKeeps

\* Read: a pass begins on what is there now.
LEMMA ReadKeeps ==
    ASSUME EmbeddingsInv, NEW p \in Passes, Read(p)
    PROVE  EmbeddingsInv'
<1>0. /\ Types /\ TypeOK /\ PassesWork /\ AloneAgree /\ PassesRight /\ PassesCover
      /\ FreshHolds /\ ~Open(p) /\ passes < MaxPasses /\ passes' = passes + 1
      /\ UNCHANGED <<world, pinned, rows, fresh, changes>>
  BY DEF EmbeddingsInv, Types, Read
<1>1. PICK scheme \in Schemes, force \in BOOLEAN :
        pass' = [pass EXCEPT ![p] =
          [scheme |-> scheme, force |-> force, part |-> "segments",
           todo |-> Pending(SegmentUnits(scheme), force), out |-> {},
           prune |-> FALSE, keep |-> 0, model |-> model, gone |-> FALSE,
           alone |-> \A q \in Passes : Open(q) => pass[q].alone]]
  BY DEF Read
<1>2. PICK todo : todo = Pending(SegmentUnits(scheme), force)
  OBVIOUS
<1>3. PICK alone \in BOOLEAN : alone = (\A q \in Passes : Open(q) => pass[q].alone)
  OBVIOUS
<1>4. PICK m \in Models : m = model
  BY <1>0 DEF TypeOK
<1>5. PICK job : job = [scheme |-> scheme, force |-> force, part |-> "segments",
                        todo |-> todo, out |-> {}, prune |-> FALSE, keep |-> 0,
                        model |-> m, gone |-> FALSE, alone |-> alone]
  OBVIOUS
<1>6. pass' = [pass EXCEPT ![p] = job]
  BY <1>1, <1>2, <1>3, <1>4, <1>5
<1>7. /\ todo \subseteq SegmentUnits(scheme)
      /\ \A u \in SegmentUnits(scheme) : u \in todo \/ (~force /\ Known(u))
  BY <1>2 DEF Pending
<1>8. Placed(SegmentUnits(scheme), scheme)
  BY <1>0, UnitsPlaced
<1>9. todo \in SUBSET UnitSet
  BY <1>7, <1>8 DEF Placed
<1>10. /\ job \in PassSet /\ job.todo = todo /\ job.out = {} /\ job.scheme = scheme
       /\ job.force = force /\ job.part = "segments" /\ ~job.prune /\ job.alone = alone
  BY <1>5, <1>9 DEF PassSet
<1>11. Work(job)
  <2>1. 0 \notin Segs
    BY <1>0, CurrentFacts
  <2> QED BY <1>7, <1>8, <1>10, <2>1 DEF Work, Placed, InPlace, KeysDiffer
<1>12. Right(job)
  <2>1. SegmentUnits(scheme) \subseteq CurrentUnits
    BY DEF CurrentUnits, Schemes
  <2> QED BY <1>7, <1>10, <2>1 DEF Right
<1>13. Covers(job)
  <2> SUFFICES ASSUME NEW unit \in SegmentUnits(scheme), ~force, Known(unit)
               PROVE  Held(rows \cup job.out, unit, pinned \/ job.force)
    BY <1>7, <1>10 DEF Covers, Sees, Wanted
  <2>1. unit.scheme # "summary"
    BY <1>8 DEF Placed, Schemes
  <2> QED BY <1>10, <2>1 DEF Known, SameText, Held, Answers
<1>14. Types'
  <2>1. pass' \in [Passes -> PassSet \cup {None}]
    BY <1>0, <1>6, <1>10 DEF Types
  <2>2. RowsOK(rows')
    BY <1>0, RowsOKFacts
  <2>3. passes' \in 0..MaxPasses /\ changes' \in 0..MaxChanges
    BY <1>0, EmbeddingsAssumption DEF TypeOK
  <2>4. fresh' = None \/ fresh' \in [scheme : Schemes, sure : BOOLEAN]
    BY <1>0 DEF Types
  <2> QED BY <1>0, <2>1, <2>2, <2>3, <2>4, TypesStep
<1>15. /\ pass'[p] = job
       /\ \A q \in Passes \ {p} : pass'[q] = pass[q]
  BY <1>0, <1>6 DEF Types
<1>16. UNCHANGED <<world, pinned>> /\ Keeps(rows')
  BY <1>0 DEF Keeps
<1>17. PassesWork'
  <2> SUFFICES ASSUME NEW q \in Passes, pass'[q] # None PROVE Work(pass'[q])
    BY DEF PassesWork, Open, Work
  <2>1. CASE q = p
    BY <1>11, <1>15, <2>1
  <2>2. CASE q # p
    BY <1>0, <1>15, <2>2 DEF PassesWork, Open
  <2> QED BY <2>1, <2>2
<1>18. AloneAgree'
  <2>1. \A q \in Passes \ {p} : pass'[q] # None => pass[q].alone = alone
    <3>1. \A q \in Passes : Open(q) => pass[q].alone \in BOOLEAN
      BY <1>0, PassTyped DEF PassSet
    <3>2. \A q \in Passes \ {p} : pass'[q] # None => Open(q)
      BY <1>15 DEF Open
    <3>3. \A q \in Passes : Open(q) => pass[q].alone = alone
      BY <1>0, <1>3, <3>1 DEF AloneAgree
    <3> QED BY <3>2, <3>3
  <2>2. \A q \in Passes : pass'[q] # None => pass'[q].alone = alone
    BY <1>10, <1>15, <2>1
  <2> QED BY <2>2 DEF AloneAgree, Open
<1>19. PassesRight'
  <2> SUFFICES ASSUME NEW q \in Passes, pass'[q] # None, pass'[q].alone \/ fresh # None
               PROVE  Right(pass[q])'
    BY <1>0 DEF PassesRight, Open
  <2>1. PICK j : j = pass'[q]
    OBVIOUS
  <2>2. Right(j)
    <3>1. CASE q = p
      BY <1>12, <1>15, <2>1, <3>1
    <3>2. CASE q # p
      BY <1>0, <1>15, <2>1, <3>2 DEF PassesRight, Open
    <3> QED BY <3>1, <3>2
  <2>3. Right(j)'
    BY <1>16, <2>2, SameWorld
  <2> QED BY <2>1, <2>3 DEF Right
<1>20. PassesCover'
  <2> SUFFICES ASSUME NEW q \in Passes, pass'[q] # None, pass'[q].alone
               PROVE  Covers(pass[q])'
    BY DEF PassesCover, Open
  <2>1. PICK j : j = pass'[q]
    OBVIOUS
  <2>2. j \in PassSet /\ Covers(j)
    <3>1. CASE q = p
      BY <1>10, <1>13, <1>15, <2>1, <3>1
    <3>2. CASE q # p
      <4>1. pass'[q] = pass[q] /\ Open(q)
        BY <1>15, <3>2 DEF Open
      <4> QED BY <1>0, <2>1, <4>1, PassTyped DEF PassesCover
    <3> QED BY <3>1, <3>2
  <2>3. Covers(j)'
    BY <1>0, <1>16, <2>2, CoverKeeps
  <2> QED BY <2>1, <2>3 DEF Covers, Sees
<1>21. FreshHolds'
  <2>1. PICK s, b : s = fresh.scheme /\ b = fresh.sure
    OBVIOUS
  <2>2. Wanted(s)' = Wanted(s) /\ SummaryUnits' = SummaryUnits
    BY <1>16, SameWorld
  <2>3. Wanted(fresh.scheme)' = Wanted(s)' /\ Wanted(fresh.scheme) = Wanted(s)
    BY <1>0, <2>1 DEF Wanted
  <2> QED BY <1>0, <2>1, <2>2, <2>3 DEF FreshHolds, Held, world
<1> QED BY <1>14, <1>17, <1>18, <1>19, <1>20, <1>21 DEF EmbeddingsInv

-----------------------------------------------------------------------------

\* What changes under the passes leaves them with what they had, and no longer
\* alone.
LEMMA StaleFacts ==
    ASSUME Types, NEW gone \in BOOLEAN, Stale(gone)
    PROVE  /\ pass' \in [Passes -> PassSet \cup {None}]
           /\ \A q \in Passes : pass'[q] # None =>
                /\ Open(q) /\ pass'[q].alone = FALSE
                /\ pass'[q].todo = pass[q].todo /\ pass'[q].out = pass[q].out
                /\ pass'[q].part = pass[q].part /\ pass'[q].prune = pass[q].prune
                /\ pass'[q].keep = pass[q].keep
<1>1. \A q \in Passes : Open(q) => pass[q] \in PassSet
  BY PassTyped
<1> DEFINE made(q) == [pass[q] EXCEPT !.alone = FALSE, !.gone = pass[q].gone \/ gone]
<1>2. ASSUME NEW q \in Passes, Open(q)
      PROVE  /\ made(q) \in PassSet /\ made(q).alone = FALSE
             /\ made(q).todo = pass[q].todo /\ made(q).out = pass[q].out
             /\ made(q).part = pass[q].part /\ made(q).prune = pass[q].prune
             /\ made(q).keep = pass[q].keep
  <2>1. pass[q] \in PassSet
    BY <1>1, <1>2
  <2>2. pass[q].gone \in BOOLEAN
    BY <2>1 DEF PassSet
  <2> QED BY <2>1, <2>2 DEF PassSet
<1>3. pass' = [q \in Passes |-> IF Open(q) THEN made(q) ELSE None]
  BY DEF Stale
<1> HIDE DEF made
<1>4. \A q \in Passes : pass'[q] = IF Open(q) THEN made(q) ELSE None
  BY <1>3
<1>5. pass' \in [Passes -> PassSet \cup {None}]
  BY <1>2, <1>3
<1> QED BY <1>2, <1>4, <1>5

\* Whatever changes, no pass that is under way makes the rows fresh; and rows
\* that stay fresh stay so on what they still answer for.
LEMMA ChangeKeeps ==
    ASSUME EmbeddingsInv, Types', NEW gone \in BOOLEAN, Stale(gone),
           \/ fresh' = None
           \/ fresh' = fresh /\ UNCHANGED world /\ FreshHolds'
    PROVE  EmbeddingsInv'
<1>0. /\ Types /\ PassesWork /\ PassesRight
      /\ \A q \in Passes : pass'[q] # None =>
           /\ Open(q) /\ pass'[q].alone = FALSE
           /\ pass'[q].todo = pass[q].todo /\ pass'[q].out = pass[q].out
           /\ pass'[q].part = pass[q].part /\ pass'[q].prune = pass[q].prune
           /\ pass'[q].keep = pass[q].keep
  BY StaleFacts DEF EmbeddingsInv
<1>1. PassesWork'
  <2> SUFFICES ASSUME NEW q \in Passes, pass'[q] # None PROVE Work(pass'[q])
    BY DEF PassesWork, Open, Work
  <2>1. Work(pass[q])
    BY <1>0 DEF PassesWork
  <2> QED BY <1>0, <2>1 DEF Work
<1>2. AloneAgree' /\ PassesCover'
  BY <1>0 DEF AloneAgree, PassesCover, Open
<1>3. PassesRight'
  <2> SUFFICES ASSUME NEW q \in Passes, pass'[q] # None, fresh' # None
               PROVE  Right(pass[q])'
    BY <1>0 DEF PassesRight, Open
  <2>1. PICK j : j = pass[q]
    OBVIOUS
  <2>2. Right(j)
    BY <1>0, <2>1 DEF PassesRight
  <2>3. Right(j)'
    BY <2>2, SameWorld
  <2>4. /\ pass'[q].todo = j.todo /\ pass'[q].out = j.out
        /\ pass'[q].prune = j.prune /\ pass'[q].keep = j.keep
    BY <1>0, <2>1
  <2> QED BY <2>3, <2>4 DEF Right
<1>4. FreshHolds'
  BY DEF FreshHolds
<1> QED BY <1>1, <1>2, <1>3, <1>4 DEF EmbeddingsInv

\* Each of the changes under a pass.
LEMMA ChangesKeep ==
    ASSUME EmbeddingsInv,
           \/ Retranscribe \/ Rename \/ Resummarize \/ SwapModel
           \/ PruneScheme \/ PruneOtherModels
    PROVE  EmbeddingsInv'
<1>0. Types /\ TypeOK /\ FreshHolds /\ RowsOK(rows)
  BY RowsOKFacts DEF EmbeddingsInv, Types
<1>1. PICK gone \in BOOLEAN : Stale(gone)
  BY DEF Retranscribe, Rename, Resummarize, SwapModel, PruneScheme, PruneOtherModels
<1>2. /\ passes' = passes /\ pinned' = pinned /\ changes' \in 0..MaxChanges
  <2>1. Change
    BY DEF Retranscribe, Rename, Resummarize, SwapModel, PruneScheme, PruneOtherModels
  <2> QED BY <1>0, <2>1, EmbeddingsAssumption DEF Change, TypeOK
<1>3. rows' \subseteq rows
  BY DEF Retranscribe, Rename, Resummarize, SwapModel, PruneScheme, PruneOtherModels
<1>4. RowsOK(rows')
  BY <1>0, <1>3, RowsOKFacts
<1>5. /\ texts' \in [Segs -> Texts] /\ name' \in Names /\ summary' \in Summaries
      /\ model' \in Models
  BY <1>0 DEF Retranscribe, Rename, Resummarize, SwapModel, PruneScheme,
              PruneOtherModels, world, TypeOK
<1>6. fresh' = None \/ (fresh' = fresh /\ PruneOtherModels)
  BY DEF Retranscribe, Rename, Resummarize, SwapModel, PruneScheme, PruneOtherModels
<1>7. Types'
  <2>1. pass' \in [Passes -> PassSet \cup {None}]
    BY <1>0, <1>1, StaleFacts
  <2>2. \A r \in RowSet : r.model \in Models /\ r.index \in Nat
    BY DEF RowSet
  <2>3. \A r \in rows' : /\ r.model \in Models /\ r.index \in Nat
                         /\ \/ r.anchor \in Segs /\ r.scheme \in Schemes
                            \/ r.anchor = 0 /\ r.scheme = "summary"
    BY <1>4, <2>2 DEF RowsOK, InPlace
  <2>4. (\A r, s \in rows' : Key(r) = Key(s) => r = s) /\ rows' \subseteq RowSet
    BY <1>4 DEF RowsOK, KeysDiffer
  <2>5. fresh' = None \/ fresh' \in [scheme : Schemes, sure : BOOLEAN]
    BY <1>0, <1>6 DEF Types
  <2>6. pinned' \in BOOLEAN /\ passes' \in 0..MaxPasses
    BY <1>0, <1>2 DEF TypeOK
  <2> QED BY <1>2, <1>5, <2>1, <2>3, <2>4, <2>5, <2>6 DEF Types, TypeOK
<1>8. ASSUME PruneOtherModels, fresh' # None
      PROVE  fresh' = fresh /\ UNCHANGED world /\ FreshHolds'
  <2>1. /\ rows' = {r \in rows : r.model = model} /\ fresh' = fresh /\ fresh # None
        /\ fresh.sure /\ UNCHANGED world
    BY <1>8 DEF PruneOtherModels
  <2>2. PICK s : s = fresh.scheme
    OBVIOUS
  <2>3. Wanted(s)' = Wanted(s) /\ SummaryUnits' = SummaryUnits
    BY <2>1, SameWorld
  <2>4. Wanted(fresh.scheme)' = Wanted(s)' /\ Wanted(fresh.scheme) = Wanted(s)
    BY <2>1, <2>2 DEF Wanted
  <2>5. \A unit \in Wanted(s) \cup SummaryUnits : Held(rows, unit, TRUE)
    BY <1>0, <2>1, <2>4 DEF FreshHolds, Held
  <2>6. \A unit \in Wanted(s) \cup SummaryUnits : Held(rows', unit, TRUE)
    BY <2>1, <2>5 DEF Held
  <2>7. \A unit \in (Wanted(s) \cup SummaryUnits)' : Held(rows, unit, fresh.sure)'
    BY <2>1, <2>3, <2>6 DEF Held, world
  <2>8. FreshHolds'
    BY <2>4, <2>7 DEF FreshHolds
  <2> QED BY <2>1, <2>8
<1>9. fresh' = None \/ (fresh' = fresh /\ UNCHANGED world /\ FreshHolds')
  BY <1>6, <1>8
<1> QED BY <1>1, <1>7, <1>9, ChangeKeeps

-----------------------------------------------------------------------------

\* A recording with no rows and no pass.
LEMMA InitHolds == Init => EmbeddingsInv
<1> SUFFICES ASSUME Init PROVE EmbeddingsInv
  OBVIOUS
<1>1. Types
  BY EmbeddingsAssumption DEF Init, Types, TypeOK
<1>2. \A p \in Passes : ~Open(p)
  BY DEF Init, Open
<1> QED BY <1>1, <1>2 DEF Init, EmbeddingsInv, PassesWork, AloneAgree, PassesRight,
                          PassesCover, FreshHolds

\* Every step keeps the invariant.
LEMMA InvIsInductive == EmbeddingsInv /\ [Next]_vars => EmbeddingsInv'
<1> SUFFICES ASSUME EmbeddingsInv, [Next]_vars PROVE EmbeddingsInv'
  OBVIOUS
<1>1. CASE UNCHANGED vars
  <2>1. UNCHANGED <<texts, name, summary, model, pinned, rows, pass, fresh, passes, changes>>
    BY <1>1 DEF vars
  <2>2. UNCHANGED world /\ \A q : Open(q)' <=> Open(q)
    BY <2>1 DEF world, Open
  <2>3. Types' /\ PassesWork' /\ AloneAgree'
    BY <2>1 DEF EmbeddingsInv, Types, TypeOK, PassesWork, AloneAgree, Open
  <2>4. /\ SummaryUnits' = SummaryUnits
        /\ \A s : Wanted(s)' = Wanted(s)
        /\ \A set, unit, sure : Held(set, unit, sure)' <=> Held(set, unit, sure)
        /\ \A job : Right(job)' <=> Right(job)
    BY <2>2, SameWorld
  <2>5. \A job, units : Sees(job, units)' <=> Sees(job, units)
    BY <2>1 DEF Sees, Held
  <2>6. \A job : Covers(job)' <=> Covers(job)
    BY <2>4, <2>5 DEF Covers, Sees
  <2>7. PassesRight'
    <3> SUFFICES ASSUME NEW q \in Passes, Open(q), pass[q].alone \/ fresh # None
                 PROVE  Right(pass[q])'
      BY <2>1, <2>2 DEF PassesRight
    <3>1. PICK j : j = pass[q]
      OBVIOUS
    <3>2. Right(j)'
      BY <2>4, <3>1 DEF EmbeddingsInv, PassesRight
    <3> QED BY <2>1, <3>1, <3>2 DEF Right
  <2>8. PassesCover'
    <3> SUFFICES ASSUME NEW q \in Passes, Open(q), pass[q].alone
                 PROVE  Covers(pass[q])'
      BY <2>1, <2>2 DEF PassesCover
    <3>1. PICK j : j = pass[q]
      OBVIOUS
    <3>2. Covers(j)'
      BY <2>6, <3>1 DEF EmbeddingsInv, PassesCover
    <3> QED BY <2>1, <3>1, <3>2 DEF Covers, Sees
  <2>9. FreshHolds'
    <3>1. PICK s : s = fresh.scheme
      OBVIOUS
    <3>2. Wanted(fresh.scheme)' = Wanted(s)' /\ Wanted(fresh.scheme) = Wanted(s)
      BY <2>1, <3>1 DEF Wanted
    <3> QED BY <2>1, <2>4, <3>2 DEF EmbeddingsInv, FreshHolds, Held
  <2> QED BY <2>3, <2>7, <2>8, <2>9 DEF EmbeddingsInv
<1>2. CASE \E p \in Passes : Read(p)
  BY <1>2, ReadKeeps
<1>3. CASE \E p \in Passes : Embed(p)
  BY <1>3, EmbedKeeps
<1>4. CASE \E p \in Passes : ReadSummary(p)
  BY <1>4, ReadSummaryKeeps
<1>5. CASE \E p \in Passes : Finish(p)
  BY <1>5, FinishKeeps
<1>6. CASE \E p \in Passes : Fail(p)
  BY <1>6, FailKeeps
<1>7. CASE \E p \in Passes : Crash(p)
  BY <1>7, CrashKeeps
<1>8. CASE Store
  BY <1>8, StoreKeeps
<1>9. CASE \/ Retranscribe \/ Rename \/ Resummarize \/ SwapModel
           \/ PruneScheme \/ PruneOtherModels
  BY <1>9, ChangesKeep
<1> QED BY <1>1, <1>2, <1>3, <1>4, <1>5, <1>6, <1>7, <1>8, <1>9 DEF Next

\* Once a pass is through that nothing changed under, the rows cover the transcript
\* and the summary as they are, whatever the other pass, a crash, a failed call or
\* a prune did meanwhile; and the unique constraint is never broken (RowsInv).
THEOREM EmbeddingsHold == Spec => []RowsInv
<1>1. Init => EmbeddingsInv
  BY InitHolds
<1>2. EmbeddingsInv /\ [Next]_vars => EmbeddingsInv'
  BY InvIsInductive
<1>3. EmbeddingsInv => RowsInv
  BY InvIsEnough
<1> QED BY <1>1, <1>2, <1>3, PTL DEF Spec

\* Runs that overlap from the first piece to the last reach every piece.
LEMMA RunsReach ==
    ASSUME NEW p \in Seq(Piece), NEW ws, NEW F, NEW G, Runs(ws, p, F, G, Len(p)),
           Len(ws) \in Nat, Len(ws) # 0, G[Len(ws)] = Len(p), NEW i \in 1..Len(p)
    PROVE  \E w \in 1..Len(ws) : F[w] <= i /\ i <= G[w]
<1> DEFINE n == Len(ws)
           Late == {w \in 1..n : i <= G[w]}
<1>1. /\ F \in [1..n -> 1..Len(p)] /\ G \in [1..n -> 1..Len(p)] /\ F[1] = 1
      /\ \A w \in 1..(n - 1) : F[w + 1] <= G[w] + 1
      /\ n \in Nat \ {0} /\ Len(p) \in Nat
  BY DEF Runs
<1> HIDE DEF n
<1>2. Late \in SUBSET Nat /\ n \in Late
  BY <1>1 DEF n
<1>3. PICK w \in Late : \A v \in Late : w <= v
  <2> HIDE DEF Late
  <2>1. Late # {}
    BY <1>2
  <2> QED BY <1>2, <2>1, LeastElement
<1>4. CASE w = 1
  BY <1>1, <1>3, <1>4 DEF n
<1>5. CASE w # 1
  <2>1. PICK v \in 1..(n - 1) : w = v + 1
    <3>1. w - 1 \in 1..(n - 1) /\ w = (w - 1) + 1
      BY <1>1, <1>5
    <3> QED BY <3>1
  <2>2. v \in 1..n /\ v \notin Late
    BY <1>1, <1>3, <2>1
  <2>3. G[v] < i /\ F[w] <= G[v] + 1
    BY <1>1, <2>1, <2>2
  <2>4. F[w] <= i
    <3>1. F[w] \in Int /\ G[v] \in Int /\ i \in Int
      BY <1>1, <1>3, <2>2
    <3> QED BY <2>3, <3>1
  <2> QED BY <1>3, <2>4 DEF n
<1> QED BY <1>4, <1>5

\* The windows of a transcript hold all its pieces.
LEMMA WindowsReach ==
    ASSUME NEW said \in [Segs -> Texts], NEW by \in Names,
           NEW piece \in ToSet(Pieces(Rendered(said, by)))
    PROVE  \E unit \in WindowUnits[said][by] : piece.words \in ToSet(unit.hash)
<1> DEFINE r == Rendered(said, by)
           p == Pieces(r)
           windows == BuildWindows(r)
           Anchor(w) == windows[w][1].seg
           Hash(w) == [i \in DOMAIN windows[w] |-> windows[w][i].words]
           Index(w) == Cardinality({v \in 1..(w - 1) : Anchor(v) = Anchor(w)})
           U(w) == Unit(Anchor(w), "window", Index(w), Hash(w))
<1>1. WindowUnits[said][by] = {U(w) : w \in DOMAIN windows}
  BY DEF WindowUnits
<1>2. r \in Seq(Seq(Int))
  BY RenderedFacts
<1> HIDE DEF r
<1>3. p \in Seq(Piece)
  BY <1>2, PiecesFacts
<1>4. PICK i \in 1..Len(p) : piece = p[i]
  BY <1>3 DEF ToSet, r
<1>5. p # <<>>
  BY <1>3, <1>4
<1>6. /\ windows \in Seq(Seq(Piece)) /\ windows # <<>>
      /\ \E F, G : Runs(windows, p, F, G, Len(p)) /\ G[Len(windows)] = Len(p)
  BY <1>2, <1>5, WindowsAreRuns
<1> HIDE DEF p, windows
<1>7. PICK F, G : Runs(windows, p, F, G, Len(p)) /\ G[Len(windows)] = Len(p)
  BY <1>6
<1>8. Len(windows) \in Nat /\ Len(windows) # 0 /\ DOMAIN windows = 1..Len(windows)
  BY <1>6
<1>9. PICK w \in 1..Len(windows) : F[w] <= i /\ i <= G[w]
  BY <1>3, <1>7, <1>8, RunsReach
<1>10. /\ F[w] \in 1..Len(p) /\ G[w] \in F[w]..Len(p)
       /\ Len(windows[w]) = G[w] - F[w] + 1
       /\ \A k \in 1..Len(windows[w]) : windows[w][k] = p[F[w] + k - 1]
  BY <1>3, <1>7, <1>8, WindowStarts
<1>11. PICK k \in 1..Len(windows[w]) : windows[w][k] = p[i]
  <2>1. Len(p) \in Nat
    BY <1>3
  <2>2. PICK k \in Int : k = i - F[w] + 1
    BY <1>10
  <2>3. k \in 1..Len(windows[w]) /\ F[w] + k - 1 = i
    BY <1>9, <1>10, <2>1, <2>2
  <2> QED BY <1>10, <2>3
<1>12. PICK win \in Seq(Piece) : win = windows[w]
  BY <1>6
<1>13. DOMAIN Hash(w) = 1..Len(win) /\ Hash(w)[k] = piece.words
  <2>1. DOMAIN win = 1..Len(win)
    OBVIOUS
  <2> QED BY <1>4, <1>11, <1>12, <2>1
<1> HIDE DEF Hash
<1>14. piece.words \in ToSet(Hash(w))
  BY <1>11, <1>12, <1>13 DEF ToSet
<1>15. U(w).hash = Hash(w)
  BY DEF Unit
<1> QED BY <1>1, <1>8, <1>14, <1>15

\* segment_units: the windows of the texts there are hold all of them, and no
\* two of them have one place in the table.
THEOREM TranscriptHolds == Spec => []WindowsHoldTranscript
<1>1. EmbeddingsInv => WindowsHoldTranscript
  <2> SUFFICES ASSUME EmbeddingsInv PROVE WindowsHoldTranscript
    OBVIOUS
  <2>1. PICK said, by : said = texts /\ by = name
    OBVIOUS
  <2>2. said \in [Segs -> Texts] /\ by \in Names
    BY <2>1 DEF EmbeddingsInv, Types, TypeOK
  <2>3. \A u, v \in WindowUnits[said][by] : u.anchor = v.anchor /\ u.index = v.index => u = v
    BY <2>2, WindowsPlaced DEF Placed
  <2>4. \A piece \in ToSet(Pieces(Rendered(said, by))) :
          \E unit \in WindowUnits[said][by] : piece.words \in ToSet(unit.hash)
    BY <2>2, WindowsReach
  <2> QED BY <2>1, <2>3, <2>4 DEF WindowsHoldTranscript
<1> QED BY <1>1, InitHolds, InvIsInductive, PTL DEF Spec

-----------------------------------------------------------------------------
(* What is ranked is finite *)

\* What a finite set is mapped to is finite.
LEMMA ImageFinite ==
    ASSUME NEW S, IsFiniteSet(S), NEW f, f = [x \in S |-> f[x]]
    PROVE  IsFiniteSet({f[x] : x \in S})
<1> DEFINE T == {f[x] : x \in S}
<1>1. f \in [S -> T]
  OBVIOUS
<1>2. f \in Surjection(S, T)
  BY <1>1 DEF Surjection
<1> HIDE DEF T
<1>3. IsFiniteSet(T)
  BY <1>2, FS_Surjection
<1> QED BY <1>3 DEF T

\* The numbers up to a length are finitely many.
LEMMA UpToFinite ==
    ASSUME NEW n \in Nat
    PROVE  IsFiniteSet(1..n)
BY FS_Interval

\* segment_units, summary_units: a recording has finitely many.
LEMMA UnitsFinite ==
    ASSUME TypeOK, NEW scheme \in Schemes
    PROVE  IsFiniteSet(SegmentUnits(scheme)) /\ IsFiniteSet(SummaryUnits)
<1>1. IsFiniteSet(WindowUnits[texts][name])
  <2>1. PICK said \in [Segs -> Texts], by \in Names : said = texts /\ by = name
    BY DEF TypeOK
  <2> DEFINE windows == BuildWindows(Rendered(said, by))
             Anchor(w) == windows[w][1].seg
             U(w) == Unit(Anchor(w), "window",
                          Cardinality({v \in 1..(w - 1) : Anchor(v) = Anchor(w)}),
                          [i \in DOMAIN windows[w] |-> windows[w][i].words])
  <2>2. WindowUnits[said][by] = {U(w) : w \in DOMAIN windows}
    BY DEF WindowUnits
  <2>3. windows \in Seq(Seq(Piece))
    <3>1. PICK r : r = Rendered(said, by)
      OBVIOUS
    <3>2. r \in Seq(Seq(Int))
      BY <3>1, RenderedFacts
    <3>3. BuildWindows(r) \in Seq(Seq(Piece))
      BY <3>2, WindowsAreRuns
    <3> QED BY <3>1, <3>3
  <2> HIDE DEF windows
  <2>4. DOMAIN windows = 1..Len(windows) /\ Len(windows) \in Nat
    BY <2>3
  <2>5. IsFiniteSet(DOMAIN windows)
    BY <2>4, UpToFinite
  <2> HIDE DEF U
  <2>6. PICK f : f = [w \in DOMAIN windows |-> U(w)]
    OBVIOUS
  <2>7. f = [w \in DOMAIN windows |-> f[w]]
    BY <2>6
  <2>8. {U(w) : w \in DOMAIN windows} = {f[w] : w \in DOMAIN windows}
    BY <2>6
  <2>9. IsFiniteSet({f[w] : w \in DOMAIN windows})
    BY <2>5, <2>7, ImageFinite
  <2> QED BY <2>1, <2>2, <2>8, <2>9
<1>2. ASSUME scheme = "segment" PROVE IsFiniteSet(SegmentUnits(scheme))
  <2> DEFINE U(n) == Unit(n, "segment", 0, <<texts[n]>>)
             said == {n \in Segs : texts[n] # <<>>}
  <2>1. SegmentUnits(scheme) = {U(n) : n \in said}
    BY <1>2 DEF SegmentUnits
  <2>2. said \in SUBSET Segs /\ IsFiniteSet(Segs)
    BY EmbeddingsAssumption
  <2> HIDE DEF said, U
  <2>3. IsFiniteSet(said)
    BY <2>2, FS_Subset
  <2>4. PICK f : f = [n \in said |-> U(n)]
    OBVIOUS
  <2>5. f = [n \in said |-> f[n]] /\ {U(n) : n \in said} = {f[n] : n \in said}
    BY <2>4
  <2>6. IsFiniteSet({f[n] : n \in said})
    BY <2>3, <2>5, ImageFinite
  <2> QED BY <2>1, <2>5, <2>6
<1>3. IsFiniteSet(SummaryUnits)
  <2> DEFINE U(i) == Unit(0, "summary", i, summary[i])
  <2>1. SummaryUnits = {U(i) : i \in DOMAIN summary}
    BY DEF SummaryUnits
  <2>2. DOMAIN summary = 1..Len(summary) /\ Len(summary) \in Nat
    BY SummaryPlaced
  <2>3. IsFiniteSet(DOMAIN summary)
    BY <2>2, UpToFinite
  <2> HIDE DEF U
  <2>4. PICK f : f = [i \in DOMAIN summary |-> U(i)]
    OBVIOUS
  <2>5. f = [i \in DOMAIN summary |-> f[i]]
    BY <2>4
  <2>6. {U(i) : i \in DOMAIN summary} = {f[i] : i \in DOMAIN summary}
    BY <2>4
  <2>7. IsFiniteSet({f[i] : i \in DOMAIN summary})
    BY <2>3, <2>5, ImageFinite
  <2> QED BY <2>1, <2>6, <2>7
<1>4. scheme = "window" => IsFiniteSet(SegmentUnits(scheme))
  BY <1>1 DEF SegmentUnits
<1> QED BY <1>2, <1>3, <1>4 DEF Schemes

Finite(job) == IsFiniteSet(job.todo) /\ IsFiniteSet(job.out)

\* A recording has finitely many rows, and a pass finitely many units.
RowsFinite ==
    /\ IsFiniteSet(rows)
    /\ \A p \in Passes : Open(p) => Finite(pass[p])

\* An upsert and a prune leave finitely many rows.
LEMMA UpsertFinite ==
    ASSUME NEW set, NEW new, IsFiniteSet(set), IsFiniteSet(new)
    PROVE  IsFiniteSet(Upsert(set, new))
<1>1. IsFiniteSet(set \cup new)
  BY FS_Union
<1>2. Upsert(set, new) \in SUBSET (set \cup new)
  BY DEF Upsert
<1> QED BY <1>1, <1>2, FS_Subset

\* The rows of finitely many units are finitely many.
LEMMA EmbeddedFinite ==
    ASSUME NEW todo, IsFiniteSet(todo)
    PROVE  IsFiniteSet({RowFor(u) : u \in todo})
<1>1. PICK f : f = [u \in todo |-> RowFor(u)]
  OBVIOUS
<1>2. f = [u \in todo |-> f[u]]
  BY <1>1
<1>3. {RowFor(u) : u \in todo} = {f[u] : u \in todo}
  BY <1>1
<1> QED BY <1>2, <1>3, ImageFinite

\* A step of one pass, to what it has then.
LEMMA PassStaysFinite ==
    ASSUME Types, RowsFinite, NEW p \in Passes, NEW job,
           pass' = [pass EXCEPT ![p] = job], job # None => Finite(job), IsFiniteSet(rows')
    PROVE  RowsFinite'
<1>1. pass \in [Passes -> PassSet \cup {None}]
  BY DEF Types
<1>2. ASSUME NEW q \in Passes, pass'[q] # None PROVE Finite(pass'[q])
  <2>1. CASE q = p
    BY <1>1, <1>2, <2>1
  <2>2. CASE q # p
    <3>1. pass'[q] = pass[q]
      BY <1>1, <2>2
    <3> QED BY <1>2, <3>1 DEF RowsFinite, Open
  <2> QED BY <2>1, <2>2
<1> QED BY <1>2 DEF RowsFinite, Open, Finite

\* Each step of a pass leaves finitely many rows, and finitely much to do.
LEMMA PassesStayFinite ==
    ASSUME EmbeddingsInv, RowsFinite, NEW p \in Passes,
           \/ Read(p) \/ Embed(p) \/ ReadSummary(p) \/ Finish(p) \/ Fail(p) \/ Crash(p)
    PROVE  RowsFinite'
<1>1. Types /\ TypeOK /\ IsFiniteSet(rows)
  BY DEF EmbeddingsInv, Types, RowsFinite
<1>2. ASSUME Open(p)
      PROVE  pass[p] \in PassSet /\ IsFiniteSet(pass[p].todo) /\ IsFiniteSet(pass[p].out)
  BY <1>1, <1>2, PassTyped DEF RowsFinite, Finite
<1>3. pass \in [Passes -> PassSet \cup {None}]
  BY <1>1 DEF Types
<1>4. CASE Read(p)
  <2>1. \E scheme \in Schemes : \E job :
          /\ pass' = [pass EXCEPT ![p] = job] /\ job.out = {}
          /\ \E force : job.todo = Pending(SegmentUnits(scheme), force)
    <3>1. PICK scheme \in Schemes, force \in BOOLEAN :
            pass' = [pass EXCEPT ![p] =
              [scheme |-> scheme, force |-> force, part |-> "segments",
               todo |-> Pending(SegmentUnits(scheme), force), out |-> {},
               prune |-> FALSE, keep |-> 0, model |-> model, gone |-> FALSE,
               alone |-> \A q \in Passes : Open(q) => pass[q].alone]]
      BY <1>4 DEF Read
    <3>2. PICK todo, alone : /\ todo = Pending(SegmentUnits(scheme), force)
                             /\ alone = (\A q \in Passes : Open(q) => pass[q].alone)
      OBVIOUS
    <3>3. PICK job : job = [scheme |-> scheme, force |-> force, part |-> "segments",
                            todo |-> todo, out |-> {}, prune |-> FALSE, keep |-> 0,
                            model |-> model, gone |-> FALSE, alone |-> alone]
      OBVIOUS
    <3>4. pass' = [pass EXCEPT ![p] = job]
      BY <3>1, <3>2, <3>3, Zenon
    <3>5. job.out = {} /\ job.todo = todo
      BY <3>3
    <3> QED BY <3>2, <3>4, <3>5
  <2>2. PICK scheme \in Schemes :
          \E job : /\ pass' = [pass EXCEPT ![p] = job] /\ job.out = {}
                  /\ \E force : job.todo = Pending(SegmentUnits(scheme), force)
    BY <2>1
  <2>3. PICK job : /\ pass' = [pass EXCEPT ![p] = job] /\ job.out = {}
                   /\ \E force : job.todo = Pending(SegmentUnits(scheme), force)
    BY <2>2
  <2>4. job.todo \in SUBSET SegmentUnits(scheme)
    BY <2>3 DEF Pending
  <2>5. IsFiniteSet(SegmentUnits(scheme))
    BY <1>1, UnitsFinite
  <2>6. Finite(job)
    BY <2>3, <2>4, <2>5, FS_Subset, FS_EmptySet DEF Finite
  <2>7. rows' = rows
    BY <1>4 DEF Read
  <2> QED BY <1>1, <2>3, <2>6, <2>7, PassStaysFinite
<1>5. CASE Embed(p)
  <2> DEFINE new == {RowFor(u) : u \in pass[p].todo}
             made == [pass[p] EXCEPT !.todo = {}, !.model = model,
                                     !.out = pass[p].out \cup new]
  <2>1. Open(p) /\ rows' = rows
    BY <1>5 DEF Embed
  <2>2. IsFiniteSet(new)
    BY <1>2, <2>1, EmbeddedFinite
  <2>3. new = {[anchor |-> u.anchor, scheme |-> u.scheme, index |-> u.index,
                hash |-> u.hash, model |-> model] : u \in pass[p].todo}
    BY DEF RowFor
  <2> HIDE DEF new
  <2>4. pass' = [pass EXCEPT ![p] = made]
    <3>1. pass' = [pass EXCEPT ![p].todo = {}, ![p].model = model, ![p].out = @ \cup new]
      BY <1>5, <2>3 DEF Embed
    <3> QED BY <1>2, <1>3, <2>1, <3>1 DEF PassSet
  <2>5. made.todo = {} /\ made.out = pass[p].out \cup new
    BY <1>2, <2>1 DEF PassSet
  <2> HIDE DEF made
  <2>6. Finite(made)
    BY <1>2, <2>1, <2>2, <2>5, FS_Union, FS_EmptySet DEF Finite
  <2> QED BY <1>1, <2>1, <2>4, <2>6, PassStaysFinite
<1>6. CASE ReadSummary(p)
  <2> DEFINE todo == Pending(SummaryUnits, pass[p].force)
             made == [pass[p] EXCEPT !.part = "summary", !.todo = todo,
                              !.prune = todo # {}, !.keep = Len(summary)]
  <2>1. Open(p) /\ rows' = rows
    BY <1>6 DEF ReadSummary
  <2>2. todo \in SUBSET SummaryUnits /\ IsFiniteSet(SummaryUnits)
    BY <1>1, UnitsFinite DEF Pending, Schemes
  <2>3. pass' = [pass EXCEPT ![p].part = "summary", ![p].todo = todo,
                   ![p].prune = todo # {}, ![p].keep = Len(summary)]
    BY <1>6 DEF ReadSummary
  <2> HIDE DEF todo
  <2>4. IsFiniteSet(todo)
    BY <2>2, FS_Subset
  <2>5. pass' = [pass EXCEPT ![p] = made]
    BY <1>2, <1>3, <2>1, <2>3 DEF PassSet
  <2>6. made.todo = todo /\ made.out = pass[p].out
    BY <1>2, <2>1 DEF PassSet
  <2> HIDE DEF made
  <2>7. Finite(made)
    BY <1>2, <2>1, <2>4, <2>6 DEF Finite
  <2> QED BY <1>1, <2>1, <2>5, <2>7, PassStaysFinite
<1>7. CASE Finish(p) \/ Fail(p) \/ Crash(p)
  <2>1. Open(p) /\ pass' = [pass EXCEPT ![p] = None]
    BY <1>7 DEF Finish, Fail, Crash
  <2>2. IsFiniteSet(Upsert(rows, pass[p].out))
    BY <1>1, <1>2, <2>1, UpsertFinite
  <2>3. rows' \in SUBSET Upsert(rows, pass[p].out) \/ rows' = rows
    BY <1>7 DEF Finish, Fail, Crash
  <2>4. IsFiniteSet(rows')
    BY <1>1, <2>2, <2>3, FS_Subset
  <2> QED BY <1>1, <2>1, <2>4, PassStaysFinite
<1> QED BY <1>4, <1>5, <1>6, <1>7

\* The invariant that says what a search can rank is finite is kept by every step.
LEMMA FiniteIsInductive == EmbeddingsInv /\ RowsFinite /\ [Next]_vars => RowsFinite'
<1> SUFFICES ASSUME EmbeddingsInv, RowsFinite, [Next]_vars PROVE RowsFinite'
  OBVIOUS
<1>1. Types /\ IsFiniteSet(rows)
  BY DEF EmbeddingsInv, RowsFinite
<1>2. CASE UNCHANGED vars
  BY <1>2 DEF vars, RowsFinite, Open, Finite
<1>3. CASE \E p \in Passes : \/ Read(p) \/ Embed(p) \/ ReadSummary(p)
                             \/ Finish(p) \/ Fail(p) \/ Crash(p)
  BY <1>3, PassesStayFinite
<1>4. CASE Store
  <2> DEFINE p == "command"
  <2>1. p \in Passes /\ Open(p)
    BY <1>4 DEF Store, Passes
  <2>2. PICK row \in pass[p].out :
          /\ rows' = Upsert(rows, {row})
          /\ pass' = [pass EXCEPT ![p].out = @ \ {row}]
    BY <1>4 DEF Store
  <2>3. pass[p] \in PassSet /\ IsFiniteSet(pass[p].todo) /\ IsFiniteSet(pass[p].out)
    BY <1>1, <2>1, PassTyped DEF RowsFinite, Finite
  <2> DEFINE made == [pass[p] EXCEPT !.out = pass[p].out \ {row}]
  <2>4. pass' = [pass EXCEPT ![p] = made]
    BY <1>1, <2>1, <2>2, <2>3 DEF PassSet, Types
  <2>5. made.todo = pass[p].todo /\ made.out = pass[p].out \ {row}
    BY <2>3 DEF PassSet
  <2> HIDE DEF made
  <2>6. Finite(made)
    BY <2>3, <2>5, FS_RemoveElement DEF Finite
  <2>7. IsFiniteSet({row})
    BY FS_Singleton
  <2>8. IsFiniteSet(rows')
    BY <1>1, <2>2, <2>7, UpsertFinite
  <2> HIDE DEF p
  <2> QED BY <1>1, <2>1, <2>4, <2>6, <2>8, PassStaysFinite
<1>5. CASE \/ Retranscribe \/ Rename \/ Resummarize \/ SwapModel
           \/ PruneScheme \/ PruneOtherModels
  <2>1. PICK gone \in BOOLEAN : Stale(gone)
    BY <1>5 DEF Retranscribe, Rename, Resummarize, SwapModel, PruneScheme, PruneOtherModels
  <2>2. rows' \in SUBSET rows
    BY <1>5 DEF Retranscribe, Rename, Resummarize, SwapModel, PruneScheme,
                PruneOtherModels
  <2>3. IsFiniteSet(rows')
    BY <1>1, <2>2, FS_Subset
  <2>4. \A q \in Passes : pass'[q] # None =>
          Open(q) /\ pass'[q].todo = pass[q].todo /\ pass'[q].out = pass[q].out
    BY <1>1, <2>1, StaleFacts
  <2> QED BY <2>3, <2>4 DEF RowsFinite, Open, Finite
<1> QED BY <1>2, <1>3, <1>4, <1>5 DEF Next

\* The rows found, in some order, are a sequence.
LEMMA FoundRows ==
    ASSUME NEW S, IsFiniteSet(S)
    PROVE  SetToSeq(S) \in Seq(S)
<1> DEFINE n == Cardinality(S)
<1>1. n \in Nat /\ ExistsBijection(1..n, S)
  BY FS_CardinalityType
<1>2. PICK f : f \in Bijection(1..n, S)
  BY <1>1 DEF ExistsBijection
<1>3. f \in [1..n -> S] /\ IsInjective(f)
  BY <1>2 DEF Bijection, Injection, IsInjective
<1>4. SetToSeq(S) \in [1..n -> S]
  BY <1>3 DEF SetToSeq
<1> HIDE DEF n
<1> QED BY <1>1, <1>4, IsSequence

\* The limit a search has is its rows: all of them are looked at.
LEMMA AllAreNear ==
    ASSUME NEW S, NEW nearest \in Seq(S)
    PROVE  AtMost(nearest, Len(nearest)) = nearest
<1>1. AtMost(nearest, Len(nearest)) = SubSeq(nearest, 1, Len(nearest))
  BY DEF AtMost
<1> QED BY <1>1

FoundOnce(scheme, m) ==
    LET found == SetToSeq({r \in rows : r.scheme = scheme /\ r.model = m})
        nearest == [i \in DOMAIN found |-> found[i].anchor]
        hits == VectorHits(nearest, Len(nearest))
    IN IsInjective(hits) /\ ToSet(hits) = ToSet(nearest)

\* _vector_arm: finitely many rows are each found, and an anchor once.
LEMMA AnchorsOnce ==
    ASSUME Types, IsFiniteSet(rows), NEW scheme, NEW m
    PROVE  FoundOnce(scheme, m)
<1>0. SUFFICES ASSUME NEW found, found = SetToSeq({r \in rows : r.scheme = scheme /\ r.model = m}),
                      NEW nearest, nearest = [i \in DOMAIN found |-> found[i].anchor],
                      NEW hits, hits = VectorHits(nearest, Len(nearest))
               PROVE  IsInjective(hits) /\ ToSet(hits) = ToSet(nearest)
  BY DEF FoundOnce
<1>1. PICK S : S = {r \in rows : r.scheme = scheme /\ r.model = m}
  OBVIOUS
<1>2. S \in SUBSET rows /\ rows \subseteq RowSet
  BY <1>1 DEF Types
<1>3. IsFiniteSet(S)
  BY <1>2, FS_Subset
<1>4. found \in Seq(S)
  BY <1>0, <1>1, <1>3, FoundRows
<1>5. Len(found) \in Nat /\ DOMAIN found = 1..Len(found)
  BY <1>4
<1>6. \A i \in 1..Len(found) : found[i].anchor \in Segs \cup {0}
  <2> TAKE i \in 1..Len(found)
  <2>1. found[i] \in S
    BY <1>4
  <2> QED BY <1>2, <2>1 DEF RowSet
<1>7. nearest \in [1..Len(found) -> Segs \cup {0}]
  BY <1>0, <1>5, <1>6
<1>8. nearest \in Seq(Segs \cup {0})
  BY <1>5, <1>7, IsSequence
<1>9. Len(nearest) \in Nat
  BY <1>8
<1>10. PICK n \in Nat : n = Len(nearest)
  BY <1>9
<1>11. AtMost(nearest, n) = nearest
  BY <1>8, <1>10, AllAreNear
<1>12. /\ IsInjective(VectorHits(nearest, n))
       /\ ToSet(VectorHits(nearest, n)) = ToSet(AtMost(nearest, n))
  BY <1>8, VectorHitsOnce
<1> QED BY <1>0, <1>10, <1>11, <1>12

\* What is said is cut into utterances, windows and batches, and a file into
\* parts, and nothing of it is lost or doubled: for any words and any lengths,
\* and for the windows of this recording once a pass is through.
THEOREM NothingIsLost == Spec => []CutsLoseNothing
<1>1. CutsAreExact
  BY CutsHold
<1>2. CutsAreExact /\ WindowsHoldTranscript => CutsLoseNothing
  BY DEF CutsLoseNothing
<1>3. WindowsHoldTranscript => CutsLoseNothing
  BY <1>1, <1>2
<1> QED BY <1>3, TranscriptHolds, PTL

\* The rows of a recording, whatever passes wrote and pruned, rank as they
\* should: an anchor of several rows is found once; and the order of any hits,
\* fused, reranked and cut, is the one the arms and the reranker gave.
THEOREM OrderIsKept == Spec => []RankingHolds
<1>1. Init => EmbeddingsInv /\ RowsFinite
  <2>1. Init => RowsFinite
    BY FS_EmptySet DEF Init, RowsFinite, Open
  <2> QED BY <2>1, InitHolds
<1>2. EmbeddingsInv /\ RowsFinite /\ [Next]_vars => (EmbeddingsInv /\ RowsFinite)'
  BY InvIsInductive, FiniteIsInductive
<1>3. EmbeddingsInv /\ RowsFinite => AnchorsAreFoundOnce
  <2> SUFFICES ASSUME Types, IsFiniteSet(rows) PROVE AnchorsAreFoundOnce
    BY DEF EmbeddingsInv, RowsFinite
  <2>1. \A scheme \in Schemes, m \in Models : FoundOnce(scheme, m)
    BY AnchorsOnce
  <2> QED BY <2>1 DEF AnchorsAreFoundOnce, FoundOnce
<1>4. EmbeddingsInv /\ RowsFinite => RankingHolds
  BY <1>3, OrderHolds DEF RankingHolds
<1> QED BY <1>1, <1>2, <1>4, PTL DEF Spec

=============================================================================
