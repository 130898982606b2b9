---------------------------- MODULE AlgorithmsProofs ----------------------------
(***************************************************************************)
(* Proofs for Algorithms: what the cuts and the rankings promise, for any  *)
(* bound and any input up to it.                                           *)
(*                                                                         *)
(* The definitions recurse over their data.  That such a function exists   *)
(* and what it computes is proved by induction on the set of numbers that  *)
(* have a property (Induction, Recursion); then one invariant per loop     *)
(* says what has been done of the input so far (Windows, Batches,          *)
(* Utterances).  What the code sorts is the one arrangement that its order *)
(* allows (Arrangement), so that hits compare by their scores (Ranks) and  *)
(* a search goes on from a smaller one (Begins).                           *)
(***************************************************************************)
EXTENDS Algorithms, FiniteSetTheorems, SequenceTheorems, WellFoundedInduction, TLAPS

\* A set of naturals has a least element.
LEMMA LeastElement ==
    ASSUME NEW T \in SUBSET Nat, T # {}
    PROVE  \E n \in T : \A m \in T : n <= m
<1> DEFINE Upto(n) == 0..n
           TT == {Upto(n) : n \in T}
           R == StrictSubsetOrdering(Nat)
<1>1. IsWellFoundedOn(R, FiniteSubsetsOf(Nat))
  BY FS_StrictSubsetOrderingWellFounded
<1>2. TT \subseteq FiniteSubsetsOf(Nat) /\ TT # {}
  <2>1. \A n \in T : Upto(n) \in SUBSET Nat /\ IsFiniteSet(Upto(n))
    BY FS_Interval
  <2> QED BY <2>1 DEF FiniteSubsetsOf
<1>3. PICK x \in TT : \A y \in TT : <<y, x>> \notin R
  <2> HIDE DEF TT, R
  <2> QED BY <1>1, <1>2, WFMin
<1>4. PICK n \in T : x = Upto(n)
  BY <1>3
<1>5. ASSUME NEW m \in T, m < n PROVE FALSE
  <2>1. Upto(m) \subseteq Upto(n) /\ n \in Upto(n) /\ n \notin Upto(m)
    BY <1>5
  <2>2. <<Upto(m), x>> \in R
    BY <2>1, <1>4 DEF StrictSubsetOrdering
  <2> QED BY <1>3, <2>2
<1> QED BY <1>5

\* Induction, on the set of the numbers that have a property.
LEMMA Induction ==
    ASSUME NEW P \in SUBSET Nat, 0 \in P, \A n \in P : n + 1 \in P
    PROVE  P = Nat
<1> SUFFICES ASSUME Nat \ P # {} PROVE FALSE
  OBVIOUS
<1>1. PICK n \in Nat \ P : \A m \in Nat \ P : n <= m
  <2> DEFINE T == Nat \ P
  <2>1. T \in SUBSET Nat /\ T # {}
    OBVIOUS
  <2> HIDE DEF T
  <2>2. \E n \in T : \A m \in T : n <= m
    BY <2>1, LeastElement
  <2> QED BY <2>2 DEF T
<1>2. n - 1 \in P
  BY <1>1
<1> QED BY <1>1, <1>2

-----------------------------------------------------------------------------
(* The functions that are defined by recursion *)

Follows(f, b, step, n) ==
    f[0] = b /\ \A i \in 1..n : f[i] = step[i][f[i - 1]]

\* What is defined by recursion on 0..n, in steps that stay within a set, exists.
LEMMA Recursion ==
    ASSUME NEW V, NEW b \in V, NEW n \in Nat, NEW step \in [1..n -> [V -> V]]
    PROVE  \E f \in [0..n -> V] : Follows(f, b, step, n)
<1> DEFINE P == {m \in Nat : m <= n => \E f \in [0..m -> V] : Follows(f, b, step, m)}
<1>1. 0 \in P
  <2>3. 1..0 = {}
    OBVIOUS
  <2> DEFINE f == [i \in 0..0 |-> b]
  <2>1. f \in [0..0 -> V] /\ f[0] = b
    BY 0 \in 0..0
  <2>2. Follows(f, b, step, 0)
    <3> HIDE DEF f
    <3> QED BY <2>1, <2>3, Zenon DEF Follows
  <2> HIDE DEF f
  <2> QED BY <2>1, <2>2
<1>2. ASSUME NEW m \in P PROVE m + 1 \in P
  <2> SUFFICES ASSUME m + 1 <= n
               PROVE  \E f \in [0..(m + 1) -> V] : Follows(f, b, step, m + 1)
    OBVIOUS
  <2>1. PICK f \in [0..m -> V] : Follows(f, b, step, m)
    OBVIOUS
  <2> DEFINE g == [i \in 0..(m + 1) |-> IF i = m + 1 THEN step[m + 1][f[m]] ELSE f[i]]
  <2>2. m + 1 \in 1..n /\ f[m] \in V
    OBVIOUS
  <2>3. step[m + 1][f[m]] \in V
    BY <2>2
  <2>4. g \in [0..(m + 1) -> V] /\ g[m + 1] = step[m + 1][f[m]]
        /\ \A i \in 0..m : g[i] = f[i]
    BY <2>3
  <2> HIDE DEF g
  <2>5. \A i \in 1..(m + 1) : i = m + 1 \/ (i \in 1..m /\ i - 1 \in 0..m)
    OBVIOUS
  <2>6. Follows(g, b, step, m + 1)
    <3>1. m + 1 - 1 = m /\ m \in 0..m /\ 0 \in 0..m
      OBVIOUS
    <3>2. \A i \in 1..m : g[i] = step[i][g[i - 1]]
      BY <2>1, <2>4 DEF Follows
    <3>3. g[m + 1] = step[m + 1][g[m + 1 - 1]]
      BY <2>4, <3>1, Zenon
    <3>4. g[0] = b
      BY <2>1, <2>4, <3>1 DEF Follows
    <3>5. ASSUME NEW i \in 1..(m + 1) PROVE g[i] = step[i][g[i - 1]]
      <4>1. CASE i = m + 1
        BY <3>3, <4>1
      <4>2. CASE i \in 1..m
        BY <3>2, <4>2, Zenon
      <4> QED BY <2>5, <4>1, <4>2
    <3> QED BY <3>4, <3>5 DEF Follows
  <2> QED BY <2>4, <2>6
<1>3. n \in P
  <2> HIDE DEF P
  <2>1. P \in SUBSET Nat
    BY DEF P
  <2> QED BY <1>1, <1>2, <2>1, Induction
<1> QED BY <1>3

-----------------------------------------------------------------------------
(* Lengths *)

Piece == [seg : Nat, part : Nat, words : Seq(Int)]

SizeStep(lines, f) ==
    f = [i \in 0..Len(lines) |->
           IF i = 0 THEN 0 ELSE f[i - 1] + Len(lines[i].words) + 1]

\* The running length is there, and counts.
LEMMA SizeRuns ==
    ASSUME NEW lines \in Seq(Piece)
    PROVE  \E f \in [0..Len(lines) -> Nat] :
             /\ SizeOf(lines) = f[Len(lines)]
             /\ f[0] = 0
             /\ \A i \in 1..Len(lines) : f[i] = f[i - 1] + Len(lines[i].words) + 1
<1> DEFINE n == Len(lines)
           w == [i \in 1..n |-> Len(lines[i].words)]
           step == [i \in 1..n |-> [v \in Nat |-> v + w[i] + 1]]
<1>1. n \in Nat /\ w \in [1..n -> Nat]
  BY DEF Piece
<1>2. \A i \in 1..n : w[i] = Len(lines[i].words)
  OBVIOUS
<1> HIDE DEF w
<1>3. step \in [1..n -> [Nat -> Nat]]
  BY <1>1
<1>4. \A i \in 1..n, v \in Nat : step[i][v] = v + w[i] + 1
  OBVIOUS
<1> HIDE DEF step
<1>5. PICK f \in [0..n -> Nat] : f[0] = 0 /\ \A i \in 1..n : f[i] = step[i][f[i - 1]]
  <2>1. PICK V, b : V = Nat /\ b = 0
    OBVIOUS
  <2>2. step \in [1..n -> [V -> V]] /\ b \in V
    BY <1>3, <2>1
  <2> HIDE DEF n
  <2>3. \E f \in [0..n -> V] : Follows(f, b, step, n)
    BY <1>1, <2>2, Recursion
  <2> QED BY <2>1, <2>3 DEF Follows
<1>6. \E g : SizeStep(lines, g)
  <2>1. \A i \in 0..n : f[i] = IF i = 0 THEN 0 ELSE f[i - 1] + Len(lines[i].words) + 1
    <3>1. \A i \in 0..n : f[i] = IF i = 0 THEN 0 ELSE step[i][f[i - 1]]
      BY <1>1, <1>5
    <3>2. \A i \in 0..n : i # 0 => i \in 1..n /\ f[i - 1] \in Nat
      BY <1>1
    <3> HIDE DEF n
    <3>3. ASSUME NEW i \in 0..n, i # 0
          PROVE  f[i] = f[i - 1] + Len(lines[i].words) + 1
      <4>1. i \in 1..n /\ f[i - 1] \in Nat
        BY <3>2, <3>3
      <4>2. f[i] = step[i][f[i - 1]]
        BY <3>1, <3>3
      <4> QED BY <1>2, <1>4, <4>1, <4>2
    <3> QED BY <3>1, <3>3
  <2>2. f = [i \in 0..n |-> IF i = 0 THEN 0 ELSE f[i - 1] + Len(lines[i].words) + 1]
    BY <2>1, Zenon
  <2> QED BY <2>2 DEF SizeStep
<1> DEFINE g == CHOOSE g : SizeStep(lines, g)
<1>7. SizeStep(lines, g) /\ SizeOf(lines) = g[n]
  <2>1. SizeStep(lines, g)
    BY <1>6
  <2>2. SizeOf(lines) = g[n]
    BY DEF SizeOf, SizeStep
  <2> QED BY <2>1, <2>2
<1> HIDE DEF g
<1>8. g[0] = 0 /\ \A i \in 1..n : g[i] = g[i - 1] + Len(lines[i].words) + 1
  BY <1>1, <1>7 DEF SizeStep
<1>9. \A i \in 0..n : g[i] \in Nat
  <2> DEFINE P == {m \in Nat : m <= n => g[m] \in Nat}
  <2>1. 0 \in P
    BY <1>8
  <2>2. ASSUME NEW m \in P PROVE m + 1 \in P
    <3> SUFFICES ASSUME m + 1 <= n PROVE g[m + 1] \in Nat
      OBVIOUS
    <3>1. m + 1 \in 1..n /\ m + 1 - 1 = m /\ g[m] \in Nat
      OBVIOUS
    <3>2. w[m + 1] \in Nat
      BY <1>1, <3>1
    <3>3. g[m + 1] = g[m] + Len(lines[m + 1].words) + 1
      BY <1>8, <3>1
    <3> QED BY <1>2, <3>1, <3>2, <3>3
  <2> HIDE DEF P
  <2>3. P = Nat
    <3>1. P \in SUBSET Nat
      BY DEF P
    <3> QED BY <2>1, <2>2, <3>1, Induction
  <2> QED BY <1>1, <2>3 DEF P
<1>10. g = [i \in 0..n |-> g[i]]
  BY <1>7 DEF SizeStep
<1> QED BY <1>7, <1>8, <1>9, <1>10

\* Each line counts with its separator.
LEMMA SizeCounts ==
    /\ SizeOf(<<>>) = 0
    /\ \A lines \in Seq(Piece) : SizeOf(lines) \in Nat
    /\ \A lines \in Seq(Piece), x \in Piece :
         SizeOf(Append(lines, x)) = SizeOf(lines) + Len(x.words) + 1
<1>1. SizeOf(<<>>) = 0
  <2>1. <<>> \in Seq(Piece) /\ Len(<<>>) = 0
    OBVIOUS
  <2> QED BY <2>1, SizeRuns
<1>2. ASSUME NEW lines \in Seq(Piece)
      PROVE  SizeOf(lines) \in Nat
  <2>1. Len(lines) \in 0..Len(lines)
    OBVIOUS
  <2> QED BY <2>1, SizeRuns
<1>3. ASSUME NEW lines \in Seq(Piece), NEW x \in Piece
      PROVE  SizeOf(Append(lines, x)) = SizeOf(lines) + Len(x.words) + 1
  <2> DEFINE longer == Append(lines, x)
             n == Len(lines)
  <2>1. /\ n \in Nat /\ longer \in Seq(Piece) /\ Len(longer) = n + 1
        /\ longer[n + 1] = x /\ \A i \in 1..n : longer[i] = lines[i]
    BY AppendProperties
  <2> HIDE DEF longer
  <2>2. PICK f \in [0..n -> Nat] :
          /\ SizeOf(lines) = f[n] /\ f[0] = 0
          /\ \A i \in 1..n : f[i] = f[i - 1] + Len(lines[i].words) + 1
    BY SizeRuns
  <2>3. PICK g \in [0..(n + 1) -> Nat] :
          /\ SizeOf(longer) = g[n + 1] /\ g[0] = 0
          /\ \A i \in 1..(n + 1) : g[i] = g[i - 1] + Len(longer[i].words) + 1
    <3>1. PICK m : m = Len(longer)
      OBVIOUS
    <3>2. longer \in Seq(Piece)
      BY <2>1
    <3>3. PICK g \in [0..m -> Nat] :
            /\ SizeOf(longer) = g[m] /\ g[0] = 0
            /\ \A i \in 1..m : g[i] = g[i - 1] + Len(longer[i].words) + 1
      BY <3>1, <3>2, SizeRuns, Zenon
    <3>4. m = n + 1
      BY <2>1, <3>1
    <3> QED BY <3>3, <3>4, Zenon
  <2> HIDE DEF n
  <2>4. f[n] = g[n]
    <3> DEFINE P == {m \in Nat : m <= n => f[m] = g[m]}
    <3>1. 0 \in P
      BY <2>2, <2>3
    <3>2. ASSUME NEW m \in P PROVE m + 1 \in P
      <4> SUFFICES ASSUME m + 1 <= n PROVE f[m + 1] = g[m + 1]
        OBVIOUS
      <4>1. /\ m + 1 \in 1..n /\ m + 1 \in 1..(n + 1) /\ m + 1 - 1 = m
            /\ f[m] = g[m]
        BY <2>1
      <4>2. /\ f[m + 1] = f[m] + Len(lines[m + 1].words) + 1
            /\ g[m + 1] = g[m] + Len(longer[m + 1].words) + 1
        BY <2>2, <2>3, <4>1
      <4> QED BY <2>1, <4>1, <4>2
    <3> HIDE DEF P
    <3>3. P = Nat
      <4>1. P \in SUBSET Nat
        BY DEF P
      <4> QED BY <3>1, <3>2, <4>1, Induction
    <3> QED BY <2>1, <3>3 DEF P
  <2>5. n + 1 \in 1..(n + 1) /\ n + 1 - 1 = n
    BY <2>1
  <2>6. g[n + 1] = g[n] + Len(longer[n + 1].words) + 1
    <3>0. n \in Nat
      BY <2>1
    <3>1. PICK k \in Int : k = n + 1
      BY <3>0
    <3>2. k \in 1..(n + 1) /\ k - 1 = n
      BY <3>0, <3>1
    <3>3. g[k] = g[k - 1] + Len(longer[k].words) + 1
      BY <2>3, <3>2
    <3> QED BY <3>1, <3>2, <3>3
  <2> QED BY <2>1, <2>2, <2>3, <2>4, <2>6 DEF longer
<1> QED BY <1>1, <1>2, <1>3

\* A tail that fits the overlap is found, and the longest such.
LEMMA CarriedIsTail ==
    ASSUME NEW lines \in Seq(Piece), lines # <<>>
    PROVE  /\ SizeOf(Carried(lines)) <= Overlap
           /\ \E c \in 2..(Len(lines) + 1) : Carried(lines) = SubSeq(lines, c, Len(lines))
<1> DEFINE n == Len(lines)
           S == Suffixes(Tail(lines))
           Fits == {s \in S : SizeOf(s) <= Overlap}
           Short == {n - Len(s) : s \in Fits}
<1>1. n \in Nat \ {0} /\ Tail(lines) \in Seq(Piece) /\ Len(Tail(lines)) = n - 1
      /\ Tail(lines) = SubSeq(lines, 2, n)
  BY HeadTailProperties, TailIsSubSeq
<1>2. ASSUME NEW s \in S
      PROVE  /\ s \in Seq(Piece) /\ Len(s) \in 0..(n - 1)
             /\ \E c \in 2..(n + 1) : s = SubSeq(lines, c, n)
  <2>1. CASE s = <<>>
    <3>1. <<>> = SubSeq(lines, n + 1, n)
      BY <1>1, SubSeqEmpty
    <3> QED BY <1>1, <2>1, <3>1
  <2>2. CASE \E l \in 1..(n - 1) : s = SubSeq(Tail(lines), l, n - 1)
    <3>1. PICK l \in 1..(n - 1) : s = SubSeq(Tail(lines), l, n - 1)
      BY <2>2
    <3>2. s = SubSeq(SubSeq(lines, 2, n), l, n - 1)
      BY <1>1, <3>1
    <3>3. 2 \in 1..n /\ n \in 1..n /\ l \in 1..(n - 2 + 1) /\ n - 1 \in 1..(n - 2 + 1)
      BY <1>1
    <3>4. s = SubSeq(lines, 2 + l - 1, 2 + (n - 1) - 1)
      BY <3>2, <3>3, SubSeqOfSubSeq
    <3>5. s = SubSeq(lines, l + 1, n) /\ l + 1 \in 2..(n + 1)
      BY <1>1, <3>4
    <3>6. \A i \in (l + 1)..n : lines[i] \in Piece
      BY <1>1
    <3>7. s \in Seq(Piece) /\ Len(s) = n - (l + 1) + 1
      BY <1>1, <3>5, <3>6, SubSeqProperties
    <3>8. Len(s) \in 0..(n - 1)
      BY <1>1, <3>7
    <3> QED BY <3>5, <3>7, <3>8
  <2> QED BY <1>1, <2>1, <2>2 DEF Suffixes
<1>3. <<>> \in Fits
  BY SizeCounts, AlgorithmsAssumption DEF Suffixes
<1> HIDE DEF S
<1>4. Short \in SUBSET Nat /\ Short # {}
  BY <1>1, <1>2, <1>3
<1>5. PICK d \in Short : \A e \in Short : d <= e
  <2> HIDE DEF Short
  <2> QED BY <1>4, LeastElement
<1>6. PICK s \in Fits : d = n - Len(s)
  BY <1>5
<1>7. \A t \in Fits : Len(t) <= Len(s)
  <2> SUFFICES ASSUME NEW t \in Fits PROVE Len(t) <= Len(s)
    OBVIOUS
  <2>1. n - Len(t) \in Short
    OBVIOUS
  <2>2. n - Len(s) <= n - Len(t)
    <3> HIDE DEF Short
    <3> QED BY <1>5, <1>6, <2>1
  <2>3. Len(t) \in Nat /\ Len(s) \in Nat
    BY <1>1, <1>2, <1>6
  <2> QED BY <1>1, <2>2, <2>3
<1>8. Carried(lines) \in S /\ SizeOf(Carried(lines)) <= Overlap
  <2>1. \E x \in S : /\ SizeOf(x) <= Overlap
                     /\ \A t \in S : SizeOf(t) <= Overlap => Len(t) <= Len(x)
    BY <1>6, <1>7
  <2> QED BY <2>1 DEF Carried, S
<1> QED BY <1>2, <1>8

-----------------------------------------------------------------------------
(* Pieces *)

\* Division, as SMT knows it, for sizes that are not fixed.
LEMMA Division ==
    ASSUME NEW a \in Nat, NEW b \in Nat \ {0}
    PROVE  /\ a \div b \in Nat
           /\ (a \div b) * b <= a
           /\ a < (a \div b) * b + b
OBVIOUS

\* A piece is known by the utterance it is of and its number there.
PieceOf(piece, seg, k) ==
    piece.seg = seg /\ piece.part = k /\ Len(piece.words) <= MaxLength

\* An utterance is cut into pieces of at most MaxLength words, numbered.
LEMMA SplitCuts ==
    ASSUME NEW seg \in Nat, NEW words \in Seq(Int),
           NEW pieces, pieces = SplitOversized(seg, words)
    PROVE  /\ pieces \in Seq(Piece)
           /\ words # <<>> => pieces # <<>>
           /\ \A k \in 1..Len(pieces) : PieceOf(pieces[k], seg, k)
<1> DEFINE n == (Len(words) + MaxLength - 1) \div MaxLength
           End(i) == IF i = n THEN Len(words) ELSE i * MaxLength
           s == [i \in 1..n |-> [seg |-> seg, part |-> i,
                   words |-> SubSeq(words, (i - 1) * MaxLength + 1, End(i))]]
<1>1. /\ MaxLength \in Nat \ {0} /\ Len(words) \in Nat
      /\ Len(words) + MaxLength - 1 \in Nat
  BY AlgorithmsAssumption
<1>2. /\ n \in Nat /\ n * MaxLength <= Len(words) + MaxLength - 1
      /\ Len(words) + MaxLength - 1 < n * MaxLength + MaxLength
  BY <1>1, Division
<1> HIDE DEF n
<1>3. SplitOversized(seg, words) = s
  BY DEF SplitOversized, n
<1>4. ASSUME NEW i \in 1..n
      PROVE  /\ SubSeq(words, (i - 1) * MaxLength + 1, End(i)) \in Seq(Int)
             /\ Len(SubSeq(words, (i - 1) * MaxLength + 1, End(i))) <= MaxLength
  <2> DEFINE from == (i - 1) * MaxLength + 1
  <2>1. from \in Nat \ {0} /\ End(i) \in Nat /\ End(i) <= Len(words)
    <3>1. i # n => i * MaxLength <= (n - 1) * MaxLength
      BY <1>1, <1>2
    <3>2. (n - 1) * MaxLength = n * MaxLength - MaxLength
      BY <1>1, <1>2
    <3>3. i * MaxLength \in Nat /\ (i - 1) * MaxLength \in Nat
      BY <1>1, <1>2
    <3> QED BY <1>1, <1>2, <3>1, <3>2, <3>3
  <2>2. End(i) - from + 1 <= MaxLength
    <3>1. (i - 1) * MaxLength = i * MaxLength - MaxLength
      BY <1>1, <1>2
    <3> QED BY <1>1, <1>2, <3>1
  <2> HIDE DEF from, End
  <2>3. \A k \in from..End(i) : words[k] \in Int
    BY <1>1, <2>1
  <2>4. /\ SubSeq(words, from, End(i)) \in Seq(Int)
        /\ Len(SubSeq(words, from, End(i))) =
             IF from <= End(i) THEN End(i) - from + 1 ELSE 0
    BY <2>1, <2>3, SubSeqProperties
  <2> QED BY <1>1, <2>1, <2>2, <2>4 DEF from
<1>5. s \in Seq(Piece) /\ Len(s) = n
  BY <1>2, <1>4 DEF Piece
<1>6. words # <<>> => n # 0
  BY <1>1, <1>2
<1>7. \A i \in 1..n : PieceOf(s[i], seg, i)
  BY <1>4 DEF PieceOf
<1>8. words # <<>> => s # <<>>
  BY <1>5, <1>6
<1> HIDE DEF s
<1> QED BY <1>3, <1>5, <1>7, <1>8

\* A sequence of sequences, end to end: one is appended at a time.
LEMMA FlattenRuns ==
    ASSUME NEW S, NEW seqs \in Seq(Seq(S)), seqs # <<>>
    PROVE  \E f : /\ FlattenSeq(seqs) = f[Len(seqs)]
                  /\ f[1] = seqs[1]
                  /\ \A i \in 2..Len(seqs) : f[i] = f[i - 1] \o seqs[i]
<1> DEFINE n == Len(seqs)
           b == seqs[1]
           V == Seq(S)
           step == [i \in 1..(n - 1) |-> [v \in V |-> v \o seqs[i + 1]]]
           Is(f) == f = [i \in 1..n |-> IF i = 1 THEN seqs[i] ELSE f[i - 1] \o seqs[i]]
<1>1. n \in Nat \ {0} /\ n - 1 \in Nat /\ b \in V /\ \A i \in 1..n : seqs[i] \in V
  OBVIOUS
<1>2. step \in [1..(n - 1) -> [V -> V]]
  <2>1. \A i \in 1..(n - 1) : i + 1 \in 1..n
    BY <1>1
  <2> HIDE DEF n
  <2> QED BY <1>1, <2>1, ConcatProperties
<1>3. \A i \in 1..(n - 1), v \in V : step[i][v] = v \o seqs[i + 1]
  OBVIOUS
<1> HIDE DEF n, b, step, V
<1>4. PICK h \in [0..(n - 1) -> V] : Follows(h, b, step, n - 1)
  BY <1>1, <1>2, Recursion
<1> DEFINE g == [i \in 1..n |-> h[i - 1]]
<1>5. Is(g)
  <2>1. ASSUME NEW i \in 1..n
        PROVE  g[i] = IF i = 1 THEN seqs[i] ELSE g[i - 1] \o seqs[i]
    <3>1. CASE i = 1
      BY <1>1, <1>4, <3>1 DEF Follows, b
    <3>2. CASE i # 1
      <4>1. PICK k \in 1..(n - 1) : k = i - 1
        BY <1>1, <3>2
      <4>2. h[k] = step[k][h[k - 1]] /\ h[k - 1] \in V
        BY <1>1, <1>4, <4>1 DEF Follows
      <4>3. h[k] = h[k - 1] \o seqs[k + 1]
        BY <1>3, <4>2
      <4>4. i = k + 1 /\ i - 1 \in 1..n /\ i - 1 = k
        BY <1>1, <4>1
      <4>5. g[i] = h[k] /\ g[i - 1] = h[k - 1]
        BY <4>4
      <4> QED BY <3>2, <4>3, <4>4, <4>5
    <3> QED BY <3>1, <3>2
  <2>2. g = [i \in 1..n |-> g[i]]
    OBVIOUS
  <2> HIDE DEF g
  <2>3. g = [i \in 1..n |-> IF i = 1 THEN seqs[i] ELSE g[i - 1] \o seqs[i]]
    BY <2>1, <2>2
  <2> QED BY <2>3
<1> DEFINE f == CHOOSE f : Is(f)
<1>6. Is(f)
  <2> HIDE DEF Is, g
  <2> QED BY <1>5
<1>7. FlattenSeq(seqs) = f[n]
  BY <1>1 DEF FlattenSeq, n
<1> HIDE DEF f
<1>8. f[1] = seqs[1] /\ \A i \in 2..n : f[i] = f[i - 1] \o seqs[i]
  <2>1. \A i \in 1..n : f[i] = IF i = 1 THEN seqs[i] ELSE f[i - 1] \o seqs[i]
    BY <1>6, Zenon
  <2>2. 1 \in 1..n /\ \A i \in 2..n : i \in 1..n /\ i # 1
    BY <1>1
  <2> HIDE DEF Is
  <2> QED BY <2>1, <2>2, Zenon
<1> QED BY <1>7, <1>8 DEF n

\* The pieces of a transcript: of its utterances, each once, none too long.
LEMMA PiecesFacts ==
    ASSUME NEW said \in Seq(Seq(Int))
    PROVE  LET p == Pieces(said)
           IN  /\ p \in Seq(Piece)
               /\ \A i \in 1..Len(p) : /\ p[i].seg \in 1..Len(said)
                                       /\ Len(p[i].words) <= MaxLength
               /\ \A i, j \in 1..Len(p) : p[i] = p[j] => i = j
               /\ said # <<>> /\ said[1] # <<>> => p # <<>>
<1> DEFINE n == Len(said)
           seqs == [i \in DOMAIN said |-> SplitOversized(i, said[i])]
           Fine(p, k) ==
             /\ p \in Seq(Piece)
             /\ \A i \in 1..Len(p) : p[i].seg \in 1..k /\ Len(p[i].words) <= MaxLength
             /\ \A i, j \in 1..Len(p) : p[i] = p[j] => i = j
             /\ said[1] # <<>> => p # <<>>
<1>1. n \in Nat /\ DOMAIN said = 1..n /\ seqs \in Seq(Seq(Piece)) /\ Len(seqs) = n
      /\ \A i \in 1..n : /\ seqs[i] \in Seq(Piece)
                         /\ said[i] # <<>> => seqs[i] # <<>>
                         /\ \A j \in 1..Len(seqs[i]) :
                              /\ seqs[i][j].seg = i /\ seqs[i][j].part = j
                              /\ Len(seqs[i][j].words) <= MaxLength
  <2>1. n \in Nat /\ DOMAIN said = 1..n /\ DOMAIN seqs = 1..n
    OBVIOUS
  <2>2. \A i \in 1..n : i \in Nat /\ said[i] \in Seq(Int)
                       /\ seqs[i] = SplitOversized(i, said[i])
    OBVIOUS
  <2> HIDE DEF n, seqs
  <2>3. \A i \in 1..n : /\ seqs[i] \in Seq(Piece)
                        /\ said[i] # <<>> => seqs[i] # <<>>
                        /\ \A j \in 1..Len(seqs[i]) :
                             /\ seqs[i][j].seg = i /\ seqs[i][j].part = j
                             /\ Len(seqs[i][j].words) <= MaxLength
    <3> SUFFICES ASSUME NEW i \in 1..n
                 PROVE  /\ seqs[i] \in Seq(Piece)
                        /\ said[i] # <<>> => seqs[i] # <<>>
                        /\ \A j \in 1..Len(seqs[i]) : PieceOf(seqs[i][j], i, j)
      BY DEF PieceOf
    <3>1. PICK words \in Seq(Int) : words = said[i]
      BY <2>2
    <3>2. i \in Nat /\ seqs[i] = SplitOversized(i, words)
      BY <2>2, <3>1
    <3>3. /\ seqs[i] \in Seq(Piece)
          /\ words # <<>> => seqs[i] # <<>>
          /\ \A j \in 1..Len(seqs[i]) : PieceOf(seqs[i][j], i, j)
      BY <3>2, SplitCuts, Zenon
    <3> QED BY <3>1, <3>3
  <2>4. seqs = [i \in 1..n |-> seqs[i]]
    BY <2>1 DEF seqs
  <2>5. seqs \in [1..n -> Seq(Piece)]
    BY <2>3, <2>4
  <2>6. seqs \in Seq(Seq(Piece))
    BY <2>1, <2>5, SeqDef
  <2>7. Len(seqs) = n
    BY <2>1, <2>6, LenProperties
  <2> QED BY <2>1, <2>3, <2>6, <2>7
<1>2. Pieces(said) = FlattenSeq(seqs)
  BY DEF Pieces
<1> HIDE DEF n, seqs
<1>3. CASE n = 0
  <2>1. seqs = <<>> /\ said = <<>>
    BY <1>1, <1>3 DEF n
  <2>2. Pieces(said) = <<>>
    BY <1>2, <2>1 DEF FlattenSeq
  <2>3. <<>> \in Seq(Piece) /\ Len(<<>>) = 0 /\ 1..0 = {}
    OBVIOUS
  <2> HIDE DEF Fine
  <2> QED BY <2>1, <2>2, <2>3
<1>4. CASE n # 0
  <2>1. seqs # <<>>
    BY <1>1, <1>4
  <2>2. PICK f : /\ FlattenSeq(seqs) = f[n] /\ f[1] = seqs[1]
                 /\ \A i \in 2..n : f[i] = f[i - 1] \o seqs[i]
    <3>1. PICK f : /\ FlattenSeq(seqs) = f[Len(seqs)] /\ f[1] = seqs[1]
                   /\ \A i \in 2..Len(seqs) : f[i] = f[i - 1] \o seqs[i]
      <4>1. seqs \in Seq(Seq(Piece))
        BY <1>1
      <4> QED BY <2>1, <4>1, FlattenRuns
    <3> QED BY <1>1, <3>1
  <2>3. ASSUME NEW k \in Nat, k + 2 \in 2..n, Fine(f[k + 1], k + 1)
        PROVE  Fine(f[k + 2], k + 2)
    <3> DEFINE p == f[k + 1]
               q == seqs[k + 2]
               r == f[k + 2]
    <3>1. r = p \o q
      <4>1. PICK m \in 2..n : m = k + 2
        BY <2>3
      <4>2. f[m] = f[m - 1] \o seqs[m]
        BY <2>2, <4>1, Zenon
      <4>3. m - 1 = k + 1
        BY <4>1
      <4> QED BY <4>1, <4>2, <4>3, Zenon
    <3>2. k + 2 \in 1..n
      BY <1>1, <2>3
    <3>3. /\ q \in Seq(Piece)
          /\ \A j \in 1..Len(q) : /\ q[j].seg = k + 2 /\ q[j].part = j
                                  /\ Len(q[j].words) <= MaxLength
      BY <1>1, <3>2
    <3>4. /\ p \in Seq(Piece)
          /\ \A i \in 1..Len(p) : p[i].seg \in 1..(k + 1) /\ Len(p[i].words) <= MaxLength
          /\ \A i, j \in 1..Len(p) : p[i] = p[j] => i = j
          /\ said[1] # <<>> => p # <<>>
      BY <2>3
    <3> HIDE DEF p, q, r, Fine
    <3>5. /\ r \in Seq(Piece) /\ Len(r) = Len(p) + Len(q)
          /\ \A i \in 1..Len(p) : r[i] = p[i]
          /\ \A i \in (Len(p) + 1)..(Len(p) + Len(q)) : r[i] = q[i - Len(p)]
      BY <3>1, <3>3, <3>4, ConcatProperties
    <3>6. Len(p) \in Nat /\ Len(q) \in Nat
      BY <3>3, <3>4
    <3>7. ASSUME NEW i \in 1..Len(r)
          PROVE  \/ i \in 1..Len(p) /\ r[i] = p[i]
                 \/ /\ i - Len(p) \in 1..Len(q) /\ r[i] = q[i - Len(p)]
                    /\ r[i].part = i - Len(p) /\ r[i].seg = k + 2
      <4>1. i \in 1..Len(p) \/ i \in (Len(p) + 1)..(Len(p) + Len(q))
        BY <3>5, <3>6
      <4>2. CASE i \in (Len(p) + 1)..(Len(p) + Len(q))
        <5>1. i - Len(p) \in 1..Len(q)
          BY <3>6, <4>2
        <5> QED BY <3>3, <3>5, <4>2, <5>1
      <4> QED BY <3>5, <4>1, <4>2
    <3>8. \A i \in 1..Len(r) : r[i].seg \in 1..(k + 2) /\ Len(r[i].words) <= MaxLength
      <4> SUFFICES ASSUME NEW i \in 1..Len(r)
                   PROVE  r[i].seg \in 1..(k + 2) /\ Len(r[i].words) <= MaxLength
        OBVIOUS
      <4>1. CASE i \in 1..Len(p) /\ r[i] = p[i]
        <5>1. p[i].seg \in 1..(k + 1) /\ Len(p[i].words) <= MaxLength
          BY <3>4, <4>1
        <5> QED BY <4>1, <5>1
      <4>2. CASE i - Len(p) \in 1..Len(q) /\ r[i] = q[i - Len(p)]
        <5>1. PICK j \in 1..Len(q) : r[i] = q[j]
          BY <4>2
        <5>2. q[j].seg = k + 2 /\ Len(q[j].words) <= MaxLength
          BY <3>3
        <5> QED BY <5>1, <5>2
      <4> QED BY <3>7, <4>1, <4>2
    <3>9. ASSUME NEW i \in 1..Len(r), NEW j \in 1..Len(r), r[i] = r[j]
          PROVE  i = j
      <4>1. \A m \in 1..Len(p) : p[m].seg # k + 2
        BY <3>4
      <4>2. CASE i \in 1..Len(p) /\ r[i] = p[i]
        <5>1. j \in 1..Len(p) /\ r[j] = p[j]
          BY <3>7, <3>9, <4>1, <4>2
        <5> QED BY <3>4, <3>9, <4>2, <5>1
      <4>3. CASE r[i].part = i - Len(p) /\ r[i].seg = k + 2
        <5>1. r[j].part = j - Len(p)
          BY <3>7, <3>9, <4>1, <4>3
        <5> QED BY <3>6, <3>9, <4>3, <5>1
      <4> QED BY <3>7, <4>2, <4>3
    <3>10. said[1] # <<>> => r # <<>>
      BY <3>4, <3>5, <3>6
    <3> QED BY <3>5, <3>8, <3>9, <3>10 DEF Fine, r
  <2>4. Fine(f[n], n)
    <3> DEFINE P == {m \in Nat : m + 1 <= n => Fine(f[m + 1], m + 1)}
    <3>1. 0 \in P
      <4>1. 1 \in 1..n
        BY <1>1, <1>4
      <4>2. Fine(seqs[1], 1)
        <5>1. /\ seqs[1] \in Seq(Piece)
              /\ said[1] # <<>> => seqs[1] # <<>>
              /\ \A j \in 1..Len(seqs[1]) : /\ seqs[1][j].seg = 1 /\ seqs[1][j].part = j
                                              /\ Len(seqs[1][j].words) <= MaxLength
          BY <1>1, <4>1
        <5> DEFINE q == seqs[1]
        <5> HIDE DEF q
        <5>2. /\ q \in Seq(Piece)
              /\ said[1] # <<>> => q # <<>>
              /\ \A j \in 1..Len(q) : /\ q[j].seg = 1 /\ q[j].part = j
                                        /\ Len(q[j].words) <= MaxLength
          BY <5>1 DEF q
        <5>3. \A i, j \in 1..Len(q) : q[i] = q[j] => i = j
          BY <5>2
        <5>4. Fine(q, 1)
          <6>1. \A i \in 1..Len(q) : q[i].seg \in 1..1 /\ Len(q[i].words) <= MaxLength
            BY <5>2
          <6> QED BY <5>2, <5>3, <6>1
        <5> QED BY <5>4 DEF q
      <4> HIDE DEF Fine
      <4> QED BY <2>2, <4>2
    <3>2. ASSUME NEW m \in P PROVE m + 1 \in P
      <4> HIDE DEF Fine
      <4> SUFFICES ASSUME m + 2 <= n PROVE Fine(f[m + 2], m + 2)
        OBVIOUS
      <4>1. m \in Nat /\ m + 2 \in 2..n /\ Fine(f[m + 1], m + 1)
        BY <1>1
      <4> QED BY <2>3, <4>1
    <3> HIDE DEF P
    <3>3. P = Nat
      <4>1. P \in SUBSET Nat
        BY DEF P
      <4> QED BY <3>1, <3>2, <4>1, Induction
    <3>4. PICK m \in Nat : n = m + 1
      BY <1>1, <1>4
    <3> HIDE DEF Fine
    <3>5. m \in P
      BY <3>3
    <3>6. Fine(f[m + 1], m + 1)
      BY <1>1, <3>4, <3>5 DEF P
    <3> QED BY <3>4, <3>6
  <2> QED BY <1>2, <2>2, <2>4 DEF n
<1> QED BY <1>1, <1>3, <1>4

-----------------------------------------------------------------------------
(* Windows *)

Acc == [windows : Seq(Seq(Piece)), lines : Seq(Piece)]

\* Windows that are runs of the pieces p, from F[w] to G[w], of those up to i.
Runs(ws, p, F, G, i) ==
    /\ F \in [1..Len(ws) -> 1..i] /\ G \in [1..Len(ws) -> 1..i]
    /\ \A w \in 1..Len(ws) : /\ F[w] <= G[w] /\ ws[w] = SubSeq(p, F[w], G[w])
                             /\ SizeOf(ws[w]) - 1 <= MaxLength
    /\ \A w \in 1..(Len(ws) - 1) : /\ F[w] < F[w + 1] /\ F[w + 1] <= G[w] + 1
                                   /\ G[w] <= G[w + 1]
    /\ Len(ws) # 0 => F[1] = 1

\* The lines that wait are the run from a to i, which leaves nothing out.
Waits(acc, p, F, G, a, i) ==
    /\ acc.lines = SubSeq(p, a, i)
    /\ SizeOf(acc.lines) - 1 <= MaxLength
    /\ Len(acc.windows) = 0 => a = 1
    /\ Len(acc.windows) # 0 => F[Len(acc.windows)] < a /\ a <= G[Len(acc.windows)] + 1

Packed(acc, p, i) ==
    /\ acc \in Acc
    /\ \E F, G : /\ Runs(acc.windows, p, F, G, i)
                 /\ \E a \in 1..(i + 1) : Waits(acc, p, F, G, a, i)

\* A flush closes a window where lines wait, and takes up after its start.
LEMMA FlushPacks ==
    ASSUME NEW p \in Seq(Piece), NEW i \in 0..Len(p), NEW acc, Packed(acc, p, i)
    PROVE  /\ Packed(Flush(acc), p, i)
           /\ i # 0 => Flush(acc).windows # <<>>
           /\ \E F, G : /\ Runs(Flush(acc).windows, p, F, G, i)
                        /\ i # 0 => G[Len(Flush(acc).windows)] = i
<1> DEFINE ws == acc.windows
           n == Len(ws)
           lines == acc.lines
<1>1. /\ acc \in Acc /\ ws \in Seq(Seq(Piece)) /\ lines \in Seq(Piece) /\ n \in Nat
      /\ i \in Nat /\ Len(p) \in Nat /\ i <= Len(p)
  BY DEF Packed, Acc
<1>2. PICK F, G : Runs(ws, p, F, G, i) /\ \E a \in 1..(i + 1) : Waits(acc, p, F, G, a, i)
  BY DEF Packed
<1>3. PICK a \in 1..(i + 1) : Waits(acc, p, F, G, a, i)
  BY <1>2
<1>4. Len(lines) = i - a + 1
  <2>1. \A k \in a..i : p[k] \in Piece
    BY <1>1
  <2> QED BY <1>1, <1>3, <2>1, SubSeqProperties DEF Waits
<1>5. CASE lines = <<>>
  <2>1. Flush(acc) = acc
    BY <1>5 DEF Flush
  <2>2. a = i + 1
    BY <1>1, <1>4, <1>5
  <2>3. i # 0 => n # 0 /\ G[n] + 1 >= i + 1
    BY <1>1, <1>3, <2>2 DEF Waits
  <2>4. i # 0 => G[n] = i
    <3>1. G \in [1..n -> 1..i] /\ (n # 0 => n \in 1..n)
      BY <1>1, <1>2 DEF Runs
    <3> HIDE DEF n
    <3>2. n # 0 => G[n] \in 1..i
      BY <3>1
    <3> QED BY <1>1, <2>3, <3>2
  <2>5. Packed(acc, p, i) /\ (i # 0 => ws # <<>>)
    BY <1>1, <2>3
  <2> QED BY <1>2, <2>1, <2>4, <2>5
<1>6. CASE lines # <<>>
  <2> DEFINE ws2 == Append(ws, lines)
             new == [windows |-> ws2, lines |-> Carried(lines)]
             F2 == [w \in 1..(n + 1) |-> IF w = n + 1 THEN a ELSE F[w]]
             G2 == [w \in 1..(n + 1) |-> IF w = n + 1 THEN i ELSE G[w]]
  <2>1. Flush(acc) = new
    BY <1>6 DEF Flush
  <2>2. a <= i /\ i # 0
    BY <1>1, <1>4, <1>6
  <2>3. PICK c \in 2..(Len(lines) + 1) : Carried(lines) = SubSeq(lines, c, Len(lines))
    BY <1>1, <1>6, CarriedIsTail
  <2>4. SizeOf(Carried(lines)) <= Overlap
    BY <1>1, <1>6, CarriedIsTail
  <2> DEFINE b == a + c - 1
  <2>5. b \in (a + 1)..(i + 1)
    BY <1>1, <1>4, <2>2, <2>3
  <2>6. Carried(lines) = SubSeq(p, b, i) /\ Carried(lines) \in Seq(Piece)
    <3>1. CASE c = Len(lines) + 1
      <4>1. b = i + 1
        BY <1>1, <1>4, <3>1
      <4>2. Carried(lines) = <<>> /\ SubSeq(p, b, i) = <<>>
        BY <1>1, <1>4, <2>3, <3>1, <4>1, SubSeqEmpty
      <4> QED BY <4>2
    <3>2. CASE c # Len(lines) + 1
      <4>1. /\ a \in 1..Len(p) /\ i \in 1..Len(p)
            /\ c \in 1..(i - a + 1) /\ Len(lines) \in 1..(i - a + 1)
        BY <1>1, <1>4, <2>2, <2>3, <3>2
      <4>2. lines = SubSeq(p, a, i)
        BY <1>3 DEF Waits
      <4>3. SubSeq(SubSeq(p, a, i), c, Len(lines)) = SubSeq(p, a + c - 1, a + Len(lines) - 1)
        BY <4>1, SubSeqOfSubSeq
      <4>4. a + Len(lines) - 1 = i
        BY <1>1, <1>4
      <4>5. Carried(lines) = SubSeq(p, b, i)
        BY <2>3, <4>2, <4>3, <4>4
      <4>6. \A k \in b..i : p[k] \in Piece
        BY <1>1, <2>5
      <4>7. SubSeq(p, b, i) \in Seq(Piece)
        BY <1>1, <2>5, <4>6, SubSeqProperties
      <4> QED BY <4>5, <4>7
    <3> QED BY <3>1, <3>2
  <2>7. /\ ws2 \in Seq(Seq(Piece)) /\ Len(ws2) = n + 1 /\ ws2[n + 1] = lines
        /\ \A w \in 1..n : ws2[w] = ws[w]
    BY <1>1, AppendProperties
  <2>8. /\ F2[n + 1] = a /\ G2[n + 1] = i
        /\ \A w \in 1..n : F2[w] = F[w] /\ G2[w] = G[w]
    BY <1>1
  <2>9. F2 \in [1..(n + 1) -> 1..i] /\ G2 \in [1..(n + 1) -> 1..i]
    <3>1. F \in [1..n -> 1..i] /\ G \in [1..n -> 1..i] /\ a \in 1..i /\ i \in 1..i
      BY <1>1, <1>2, <2>2 DEF Runs
    <3>2. \A w \in 1..(n + 1) : w = n + 1 \/ w \in 1..n
      BY <1>1
    <3> HIDE DEF n
    <3> QED BY <3>1, <3>2
  <2>10. new \in Acc /\ new.windows = ws2 /\ new.lines = Carried(lines)
    BY <2>6, <2>7 DEF Acc
  <2> HIDE DEF ws2, new, F2, G2, b, ws, n
  <2>11. Runs(ws2, p, F2, G2, i)
    <3>1. \A w \in 1..Len(ws2) : /\ F2[w] <= G2[w] /\ ws2[w] = SubSeq(p, F2[w], G2[w])
                                 /\ SizeOf(ws2[w]) - 1 <= MaxLength
      <4> SUFFICES ASSUME NEW w \in 1..(n + 1)
                   PROVE  /\ F2[w] <= G2[w] /\ ws2[w] = SubSeq(p, F2[w], G2[w])
                          /\ SizeOf(ws2[w]) - 1 <= MaxLength
        BY <2>7
      <4>1. CASE w = n + 1
        <5>1. lines = SubSeq(p, a, i) /\ SizeOf(lines) - 1 <= MaxLength
          BY <1>3 DEF Waits
        <5> QED BY <2>2, <2>7, <2>8, <4>1, <5>1
      <4>2. CASE w \in 1..n
        <5>1. /\ F[w] <= G[w] /\ ws[w] = SubSeq(p, F[w], G[w])
              /\ SizeOf(ws[w]) - 1 <= MaxLength
          BY <1>2, <4>2 DEF Runs, n
        <5> QED BY <2>7, <2>8, <4>2, <5>1
      <4>3. w = n + 1 \/ w \in 1..n
        BY <1>1
      <4> QED BY <4>1, <4>2, <4>3
    <3>2. \A w \in 1..(Len(ws2) - 1) : /\ F2[w] < F2[w + 1] /\ F2[w + 1] <= G2[w] + 1
                                       /\ G2[w] <= G2[w + 1]
      <4> SUFFICES ASSUME NEW w \in 1..n
                   PROVE  /\ F2[w] < F2[w + 1] /\ F2[w + 1] <= G2[w] + 1
                          /\ G2[w] <= G2[w + 1]
        BY <1>1, <2>7
      <4>1. CASE w = n
        <5>1. n # 0 /\ F[n] < a /\ a <= G[n] + 1
          BY <1>1, <1>3, <4>1 DEF Waits, n, ws
        <5>2. G[n] <= i
          BY <1>1, <1>2, <4>1 DEF Runs, n
        <5>3. F2[n] = F[n] /\ G2[n] = G[n]
          BY <2>8, <4>1
        <5> QED BY <2>8, <4>1, <5>1, <5>2, <5>3
      <4>2. CASE w # n
        <5>1. w \in 1..(n - 1) /\ w + 1 \in 1..n
          BY <1>1, <4>2
        <5>2. /\ F[w] < F[w + 1] /\ F[w + 1] <= G[w] + 1 /\ G[w] <= G[w + 1]
          BY <1>2, <5>1 DEF Runs, n
        <5>3. F2[w + 1] = F[w + 1] /\ G2[w + 1] = G[w + 1] /\ F2[w] = F[w] /\ G2[w] = G[w]
          BY <2>8, <5>1
        <5> QED BY <5>2, <5>3
      <4> QED BY <4>1, <4>2
    <3>3. F2[1] = 1
      <4>1. CASE n = 0
        <5>1. a = 1
          BY <1>3, <4>1 DEF Waits, n, ws
        <5> QED BY <2>8, <4>1, <5>1
      <4>2. CASE n # 0
        <5>1. 1 \in 1..n
          BY <1>1, <4>2
        <5>2. F[1] = 1
          BY <1>2, <4>2 DEF Runs, n
        <5> QED BY <2>8, <5>1, <5>2
      <4> QED BY <4>1, <4>2
    <3> QED BY <2>7, <2>9, <3>1, <3>2, <3>3 DEF Runs
  <2>12. Waits(new, p, F2, G2, b, i)
    <3>1. SizeOf(Carried(lines)) - 1 <= MaxLength
      <4>1. SizeOf(Carried(lines)) \in Nat
        BY <2>6, SizeCounts
      <4>2. Overlap <= MaxLength
        <5>1. Target \div 2 \in Nat /\ (Target \div 2) * 2 <= Target
          BY AlgorithmsAssumption, Division
        <5> QED BY <5>1, AlgorithmsAssumption
      <4> QED BY <2>4, <4>1, <4>2, AlgorithmsAssumption
    <3>2. Len(new.windows) = n + 1 /\ n + 1 # 0
      BY <1>1, <2>7, <2>10
    <3>3. F2[n + 1] < b /\ b <= G2[n + 1] + 1
      BY <1>1, <2>5, <2>8
    <3> QED BY <2>6, <2>10, <3>1, <3>2, <3>3 DEF Waits
  <2>13. b \in 1..(i + 1)
    BY <1>1, <2>5
  <2>14. Packed(new, p, i)
    BY <2>10, <2>11, <2>12, <2>13 DEF Packed
  <2>15. ws2 # <<>> /\ G2[Len(ws2)] = i
    BY <1>1, <2>7, <2>8
  <2> QED BY <2>1, <2>10, <2>11, <2>14, <2>15
<1> QED BY <1>5, <1>6

\* A piece more: what waits is the run that ends with it.
LEMMA NextPacks ==
    ASSUME NEW p \in Seq(Piece), NEW i \in 0..(Len(p) - 1), NEW acc, Packed(acc, p, i),
           SizeOf(acc.lines) + Len(p[i + 1].words) <= MaxLength
    PROVE  Packed([windows |-> acc.windows, lines |-> Append(acc.lines, p[i + 1])], p, i + 1)
<1> DEFINE ws == acc.windows
           n == Len(ws)
           x == p[i + 1]
           new == [windows |-> ws, lines |-> Append(acc.lines, x)]
<1>1. /\ ws \in Seq(Seq(Piece)) /\ acc.lines \in Seq(Piece) /\ n \in Nat
      /\ i \in Nat /\ Len(p) \in Nat /\ i + 1 <= Len(p) /\ x \in Piece
  BY DEF Packed, Acc
<1>2. PICK F, G : Runs(ws, p, F, G, i) /\ \E a \in 1..(i + 1) : Waits(acc, p, F, G, a, i)
  BY DEF Packed
<1>3. PICK a \in 1..(i + 1) : Waits(acc, p, F, G, a, i)
  BY <1>2
<1>4. /\ Append(acc.lines, x) \in Seq(Piece)
      /\ SizeOf(Append(acc.lines, x)) - 1 <= MaxLength
  <2>1. SizeOf(Append(acc.lines, x)) = SizeOf(acc.lines) + Len(x.words) + 1
    BY <1>1, SizeCounts
  <2>2. SizeOf(acc.lines) \in Nat
    BY <1>1, SizeCounts, Zenon
  <2>3. Len(x.words) \in Nat
    BY <1>1 DEF Piece
  <2>4. MaxLength \in Nat
    BY AlgorithmsAssumption, Zenon
  <2>5. SizeOf(acc.lines) + Len(x.words) <= MaxLength
    OBVIOUS
  <2>6. SizeOf(Append(acc.lines, x)) - 1 <= MaxLength
    BY <2>1, <2>2, <2>3, <2>4, <2>5
  <2> QED BY <1>1, <2>6
<1>5. Append(acc.lines, x) = SubSeq(p, a, i + 1)
  <2> DEFINE s == SubSeq(p, a, i)
             t == SubSeq(p, a, i + 1)
  <2>1. \A k \in a..(i + 1) : p[k] \in Piece
    BY <1>1
  <2>2. /\ s \in Seq(Piece) /\ Len(s) = i - a + 1
        /\ \A k \in 1..(i - a + 1) : s[k] = p[a + k - 1]
    BY <1>1, <2>1, SubSeqProperties
  <2>3. /\ t \in Seq(Piece) /\ Len(t) = i - a + 2
        /\ \A k \in 1..(i - a + 2) : t[k] = p[a + k - 1]
    BY <1>1, <2>1, SubSeqProperties
  <2>4. acc.lines = s
    BY <1>3 DEF Waits
  <2> DEFINE u == Append(s, x)
  <2> HIDE DEF s, t, u
  <2>5. /\ u \in Seq(Piece) /\ Len(u) = i - a + 2 /\ u[i - a + 2] = x
        /\ \A k \in 1..(i - a + 1) : u[k] = s[k]
    <3> DEFINE m == Len(s)
    <3>1. m = i - a + 1 /\ m + 1 = i - a + 2
      BY <1>1, <2>2
    <3>2. /\ u \in Seq(Piece) /\ Len(u) = m + 1 /\ u[m + 1] = x
          /\ \A k \in 1..m : u[k] = s[k]
      <4> HIDE DEF x
      <4>1. x \in Piece
        BY <1>1
      <4>2. s \in Seq(Piece)
        BY <2>2
      <4> QED BY <4>1, <4>2, AppendProperties DEF u
    <3> HIDE DEF m, x
    <3> QED BY <3>1, <3>2
  <2>6. \A k \in 1..(i - a + 2) : u[k] = t[k]
    <3> SUFFICES ASSUME NEW k \in 1..(i - a + 2) PROVE u[k] = t[k]
      OBVIOUS
    <3>1. CASE k \in 1..(i - a + 1)
      BY <2>2, <2>3, <2>5, <3>1
    <3>2. CASE k = i - a + 2
      <4>1. a + k - 1 = i + 1
        BY <1>1, <3>2
      <4>2. t[k] = p[a + k - 1]
        BY <2>3
      <4> QED BY <2>5, <3>2, <4>1, <4>2
    <3> QED BY <1>1, <3>1, <3>2
  <2>7. u = t
    BY <2>3, <2>5, <2>6, SeqEqual
  <2> QED BY <2>4, <2>7 DEF u, t
<1> DEFINE lines == Append(acc.lines, x)
<1>6. new \in Acc /\ new.windows = ws /\ new.lines = lines
  BY <1>1, <1>4 DEF Acc
<1> HIDE DEF lines, new, n
<1>7. Runs(ws, p, F, G, i + 1)
  <2>1. F \in [1..Len(ws) -> 1..i] /\ G \in [1..Len(ws) -> 1..i] /\ 1..i \subseteq 1..(i + 1)
    BY <1>1, <1>2 DEF Runs
  <2>2. F \in [1..Len(ws) -> 1..(i + 1)] /\ G \in [1..Len(ws) -> 1..(i + 1)]
    BY <2>1
  <2> QED BY <1>2, <2>2 DEF Runs
<1>8. Waits(new, p, F, G, a, i + 1)
  BY <1>3, <1>4, <1>5, <1>6 DEF Waits, lines
<1>9. a \in 1..(i + 1 + 1)
  BY <1>1
<1>10. Packed(new, p, i + 1)
  BY <1>6, <1>7, <1>8, <1>9 DEF Packed
<1> QED BY <1>10 DEF new, lines

\* Room is made for a piece that fits the limit by itself.
LEMMA RoomPacks ==
    ASSUME NEW p \in Seq(Piece), NEW i \in 0..(Len(p) - 1), NEW acc, Packed(acc, p, i),
           NEW x \in Piece, Len(x.words) <= MaxLength
    PROVE  \E room : /\ Packed(room, p, i)
                     /\ SizeOf(room.lines) + Len(x.words) <= MaxLength
                     /\ room = IF Exceeds(acc, x) THEN MakesRoom(Flush(acc), x) ELSE acc
<1>1. i \in Nat /\ Len(p) \in Nat /\ i \in 0..Len(p) /\ Len(x.words) \in Nat
  BY DEF Piece
<1>2. ASSUME NEW r, Packed(r, p, i), ~Exceeds(r, x)
      PROVE  SizeOf(r.lines) + Len(x.words) <= MaxLength
  <2>1. SizeOf(r.lines) \in Nat
    BY <1>2, SizeCounts DEF Packed, Acc
  <2>2. r.lines = <<>> => SizeOf(r.lines) = 0
    BY SizeCounts, Zenon
  <2>4. MaxLength \in Nat
    BY AlgorithmsAssumption, Zenon
  <2>3. r.lines = <<>> \/ SizeOf(r.lines) + Len(x.words) + 1 <= MaxLength
    <3>1. ~(SizeOf(r.lines) + Len(x.words) + 1 > MaxLength) \/ r.lines = <<>>
      BY <1>2 DEF Exceeds
    <3> QED BY <1>1, <2>1, <2>4, <3>1
  <2> QED BY <1>1, <2>1, <2>2, <2>3, <2>4
<1>3. CASE ~Exceeds(acc, x)
  BY <1>2, <1>3
<1>4. CASE Exceeds(acc, x)
  <2> DEFINE fl == Flush(acc)
  <2>1. /\ Packed(fl, p, i)
        /\ i # 0 => fl.windows # <<>>
        /\ \E F, G : /\ Runs(fl.windows, p, F, G, i)
                     /\ i # 0 => G[Len(fl.windows)] = i
    BY <1>1, FlushPacks
  <2> HIDE DEF fl
  <2>2. CASE ~Exceeds(fl, x)
    <3>1. MakesRoom(fl, x) = fl
      BY <2>2 DEF MakesRoom
    <3> QED BY <1>2, <1>4, <2>1, <2>2, <3>1 DEF fl
  <2>3. CASE Exceeds(fl, x)
    <3> DEFINE new == [windows |-> fl.windows, lines |-> <<>>]
    <3>1. fl \in Acc /\ fl.windows \in Seq(Seq(Piece))
      BY <2>1 DEF Packed, Acc
    <3>2. MakesRoom(fl, x) = new
      BY <2>3, <3>1 DEF MakesRoom, Acc
    <3>3. new \in Acc /\ new.windows = fl.windows /\ new.lines = <<>>
      BY <3>1 DEF Acc
    <3>4. PICK F, G : Runs(fl.windows, p, F, G, i) /\ (i # 0 => G[Len(fl.windows)] = i)
      BY <2>1
    <3> DEFINE ws == fl.windows
               n == Len(ws)
    <3>5. n \in Nat /\ F \in [1..n -> 1..i] /\ G \in [1..n -> 1..i]
      BY <3>1, <3>4 DEF Runs
    <3>6. n # 0 => i # 0
      <4> HIDE DEF n, ws
      <4> SUFFICES ASSUME n # 0 PROVE i # 0
        OBVIOUS
      <4>1. F \in [1..n -> 1..i] /\ 1 \in 1..n
        BY <3>5
      <4>2. F[1] \in 1..i
        BY <4>1, Zenon
      <4> QED BY <1>1, <4>2
    <3>7. i # 0 => n # 0
      BY <2>1, <3>1
    <3>8. SubSeq(p, i + 1, i) = <<>>
      BY <1>1, SubSeqEmpty
    <3>9. SizeOf(<<>>) = 0
      BY SizeCounts
    <3> HIDE DEF n, new
    <3>10. n # 0 => F[n] < i + 1 /\ i + 1 <= G[n] + 1
      <4>1. n # 0 => F[n] \in 1..i /\ G[n] = i
        BY <3>4, <3>5, <3>6 DEF n
      <4> QED BY <1>1, <4>1
    <3>11. Waits(new, p, F, G, i + 1, i)
      BY <1>1, <3>3, <3>7, <3>8, <3>9, <3>10, AlgorithmsAssumption DEF Waits, n
    <3>12. Packed(new, p, i)
      BY <1>1, <3>3, <3>4, <3>11 DEF Packed
    <3>13. SizeOf(new.lines) + Len(x.words) <= MaxLength
      BY <1>1, <3>3, <3>9
    <3> QED BY <1>4, <3>2, <3>12, <3>13 DEF fl
  <2> QED BY <2>2, <2>3
<1> QED BY <1>3, <1>4

\* A piece is packed, on whichever way.
LEMMA AddPacks ==
    ASSUME NEW p \in Seq(Piece), NEW i \in 0..(Len(p) - 1), NEW acc, Packed(acc, p, i),
           Len(p[i + 1].words) <= MaxLength
    PROVE  Packed(AddPiece(acc, p[i + 1]), p, i + 1)
<1>1. i \in Nat /\ Len(p) \in Nat /\ i + 1 \in 0..Len(p) /\ p[i + 1] \in Piece
  OBVIOUS
<1> DEFINE x == p[i + 1]
<1>2. PICK room : /\ Packed(room, p, i)
                  /\ SizeOf(room.lines) + Len(x.words) <= MaxLength
                  /\ room = IF Exceeds(acc, x) THEN MakesRoom(Flush(acc), x) ELSE acc
  BY <1>1, RoomPacks
<1> DEFINE next == [windows |-> room.windows, lines |-> Append(room.lines, x)]
<1>3. Packed(next, p, i + 1)
  BY <1>2, NextPacks
<1>4. next = [room EXCEPT !.lines = Append(@, x)]
  <2>1. room \in Acc
    BY <1>2 DEF Packed
  <2> DEFINE l == Append(room.lines, x)
  <2> HIDE DEF l
  <2>2. [windows |-> room.windows, lines |-> l] = [room EXCEPT !.lines = l]
    BY <2>1 DEF Acc
  <2> QED BY <2>2 DEF l
<1>5. AddPiece(acc, x) = IF SizeOf(next.lines) >= Target THEN Flush(next) ELSE next
  BY <1>2, <1>4, Zenon DEF AddPiece
<1>6. Packed(Flush(next), p, i + 1)
  <2> HIDE DEF next
  <2> QED BY <1>1, <1>3, FlushPacks
<1> QED BY <1>3, <1>5, <1>6

\* What is packed stays windows and lines.
LEMMA FlushTyped ==
    ASSUME NEW acc \in Acc
    PROVE  Flush(acc) \in Acc
<1>1. acc.windows \in Seq(Seq(Piece)) /\ acc.lines \in Seq(Piece)
  BY DEF Acc
<1>2. CASE acc.lines # <<>>
  <2>1. PICK c \in 2..(Len(acc.lines) + 1) :
          Carried(acc.lines) = SubSeq(acc.lines, c, Len(acc.lines))
    BY <1>1, <1>2, CarriedIsTail
  <2>2. \A k \in c..Len(acc.lines) : acc.lines[k] \in Piece
    BY <1>1
  <2>3. Carried(acc.lines) \in Seq(Piece)
    BY <1>1, <2>1, <2>2, SubSeqProperties
  <2>4. Append(acc.windows, acc.lines) \in Seq(Seq(Piece))
    BY <1>1
  <2> QED BY <1>2, <2>3, <2>4 DEF Flush, Acc
<1> QED BY <1>2 DEF Flush

\* A piece more leaves windows and lines.
LEMMA AddTyped ==
    ASSUME NEW acc \in Acc, NEW x \in Piece
    PROVE  AddPiece(acc, x) \in Acc
<1> DEFINE fl == Flush(acc)
           made == MakesRoom(fl, x)
           room == IF Exceeds(acc, x) THEN made ELSE acc
           next == [room EXCEPT !.lines = Append(@, x)]
<1>1. fl \in Acc
  BY FlushTyped
<1> HIDE DEF fl
<1>2. made \in Acc
  <2>1. PICK l : l = <<>> /\ l \in Seq(Piece)
    <3>1. <<>> \in Seq(Piece)
      OBVIOUS
    <3> QED BY <3>1
  <2>2. [fl EXCEPT !.lines = l] \in Acc
    BY <1>1, <2>1 DEF Acc
  <2> QED BY <1>1, <2>1, <2>2 DEF MakesRoom
<1> HIDE DEF made
<1>3. room \in Acc
  BY <1>2
<1>4. AddPiece(acc, x) = IF SizeOf(next.lines) >= Target THEN Flush(next) ELSE next
  BY DEF AddPiece, made, fl
<1> HIDE DEF room
<1>5. next \in Acc
  <2> DEFINE l == Append(room.lines, x)
  <2>1. l \in Seq(Piece)
    BY <1>3 DEF Acc
  <2> HIDE DEF l
  <2>2. [room EXCEPT !.lines = l] \in Acc
    BY <1>3, <2>1 DEF Acc
  <2> QED BY <2>2 DEF l
<1> HIDE DEF next
<1> QED BY <1>4, <1>5, FlushTyped

Nothing == [windows |-> <<>>, lines |-> <<>>]

AccStep(p, f) ==
    f = [i \in 0..Len(p) |-> IF i = 0 THEN Nothing ELSE AddPiece(f[i - 1], p[i])]

\* The packing is there, a piece at a time.
LEMMA BuildRuns ==
    ASSUME NEW said, Pieces(said) \in Seq(Piece)
    PROVE  LET p == Pieces(said)
           IN  \E f : /\ BuildWindows(said) = Flush(f[Len(p)]).windows
                      /\ f[0] = Nothing
                      /\ \A i \in 1..Len(p) : f[i] = AddPiece(f[i - 1], p[i])
<1> DEFINE p == Pieces(said)
           n == Len(p)
           step == [i \in 1..n |-> [v \in Acc |-> AddPiece(v, p[i])]]
<1>1. n \in Nat /\ Nothing \in Acc /\ \A i \in 1..n : p[i] \in Piece
  BY DEF Nothing, Acc
<1> HIDE DEF p, n
<1>2. step \in [1..n -> [Acc -> Acc]]
  BY <1>1, AddTyped
<1>3. \A i \in 1..n, v \in Acc : step[i][v] = AddPiece(v, p[i])
  OBVIOUS
<1> HIDE DEF step
<1>4. PICK f \in [0..n -> Acc] : Follows(f, Nothing, step, n)
  BY <1>1, <1>2, Recursion
<1>5. AccStep(p, f)
  <2>1. ASSUME NEW i \in 0..n
        PROVE  f[i] = IF i = 0 THEN Nothing ELSE AddPiece(f[i - 1], p[i])
    <3>1. CASE i = 0
      BY <1>4, <3>1 DEF Follows
    <3>2. CASE i # 0
      <4>1. i \in 1..n /\ i - 1 \in 0..n
        BY <1>1, <3>2
      <4>2. f[i] = step[i][f[i - 1]] /\ f[i - 1] \in Acc
        BY <1>4, <4>1 DEF Follows
      <4> QED BY <1>3, <3>2, <4>1, <4>2
    <3> QED BY <3>1, <3>2
  <2>2. f = [i \in 0..n |-> f[i]]
    OBVIOUS
  <2>3. f = [i \in 0..n |-> IF i = 0 THEN Nothing ELSE AddPiece(f[i - 1], p[i])]
    BY <2>1, <2>2, Zenon
  <2> QED BY <2>3 DEF AccStep, n
<1> DEFINE g == CHOOSE g : AccStep(p, g)
<1>6. AccStep(p, g)
  BY <1>5
<1>7. BuildWindows(said) = Flush(g[n]).windows
  BY DEF BuildWindows, AccStep, Nothing, p, n
<1> HIDE DEF g
<1>8. g[0] = Nothing /\ \A i \in 1..n : g[i] = AddPiece(g[i - 1], p[i])
  <2>1. \A i \in 0..n : g[i] = IF i = 0 THEN Nothing ELSE AddPiece(g[i - 1], p[i])
    BY <1>6, Zenon DEF AccStep, n
  <2>2. 0 \in 0..n /\ \A i \in 1..n : i \in 0..n /\ i # 0
    BY <1>1
  <2> QED BY <2>1, <2>2, Zenon
<1> QED BY <1>7, <1>8 DEF p, n

\* build_windows: the windows of any transcript are runs of its pieces, that
\* leave nothing out, overlap, and are no longer than the embedder takes.
LEMMA WindowsAreRuns ==
    ASSUME NEW said \in Seq(Seq(Int))
    PROVE  /\ BuildWindows(said) \in Seq(Seq(Piece))
           /\ Pieces(said) # <<>> => BuildWindows(said) # <<>>
           /\ \E F, G : /\ Runs(BuildWindows(said), Pieces(said), F, G, Len(Pieces(said)))
                        /\ Pieces(said) # <<>> =>
                             G[Len(BuildWindows(said))] = Len(Pieces(said))
<1> DEFINE p == Pieces(said)
           n == Len(p)
<1>1. p \in Seq(Piece) /\ \A i \in 1..n : Len(p[i].words) <= MaxLength
  BY PiecesFacts
<1>2. n \in Nat /\ (p # <<>> => n # 0)
  BY <1>1
<1> HIDE DEF p
<1>3. PICK f : /\ BuildWindows(said) = Flush(f[n]).windows
               /\ f[0] = Nothing
               /\ \A i \in 1..n : f[i] = AddPiece(f[i - 1], p[i])
  BY <1>1, BuildRuns DEF p
<1> HIDE DEF n
<1>4. Packed(f[n], p, n)
  <2> DEFINE P == {m \in Nat : m <= n => Packed(f[m], p, m)}
  <2>1. 0 \in P
    <3>1. Nothing \in Acc /\ Nothing.windows = <<>> /\ Nothing.lines = <<>>
      BY DEF Nothing, Acc
    <3> DEFINE e == [w \in 1..0 |-> 1]
    <3>2. Runs(<<>>, p, e, e, 0)
      BY DEF Runs
    <3>3. Waits(Nothing, p, e, e, 1, 0)
      <4>1. SubSeq(p, 1, 0) = <<>>
        BY SubSeqEmpty
      <4>2. SizeOf(<<>>) - 1 <= MaxLength
        BY SizeCounts, AlgorithmsAssumption
      <4> HIDE DEF e
      <4> QED BY <3>1, <4>1, <4>2 DEF Waits
    <3> HIDE DEF e
    <3>4. Packed(Nothing, p, 0)
      <4>1. 1 \in 1..(0 + 1)
        OBVIOUS
      <4> QED BY <3>1, <3>2, <3>3, <4>1, Zenon DEF Packed
    <3> QED BY <1>3, <3>4
  <2>2. ASSUME NEW m \in P PROVE m + 1 \in P
    <3> SUFFICES ASSUME m + 1 <= n PROVE Packed(f[m + 1], p, m + 1)
      OBVIOUS
    <3>1. PICK k \in 1..n : k = m + 1
      BY <1>2
    <3>2. f[k] = AddPiece(f[k - 1], p[k]) /\ k - 1 = m /\ Len(p[k].words) <= MaxLength
      BY <1>1, <1>3, <3>1 DEF n
    <3>3. m \in 0..(Len(p) - 1) /\ Packed(f[m], p, m)
      BY <1>2, <3>1 DEF n
    <3>4. Packed(AddPiece(f[m], p[m + 1]), p, m + 1)
      BY <1>1, <3>1, <3>2, <3>3, AddPacks
    <3> QED BY <3>1, <3>2, <3>4
  <2> HIDE DEF P
  <2>3. P = Nat
    <3>1. P \in SUBSET Nat
      BY DEF P
    <3> QED BY <2>1, <2>2, <3>1, Induction
  <2> QED BY <1>2, <2>3 DEF P
<1>5. n \in 0..Len(p)
  BY <1>2 DEF n
<1> DEFINE fl == Flush(f[n])
<1>6. /\ Packed(fl, p, n) /\ (n # 0 => fl.windows # <<>>)
      /\ \E F, G : Runs(fl.windows, p, F, G, n) /\ (n # 0 => G[Len(fl.windows)] = n)
  BY <1>1, <1>4, <1>5, FlushPacks
<1> HIDE DEF fl
<1>7. fl.windows \in Seq(Seq(Piece))
  BY <1>6 DEF Packed, Acc
<1>8. BuildWindows(said) = fl.windows
  BY <1>3 DEF fl
<1>9. PICK F, G : Runs(fl.windows, p, F, G, n) /\ (n # 0 => G[Len(fl.windows)] = n)
  BY <1>6
<1> QED BY <1>2, <1>6, <1>7, <1>8, <1>9 DEF p, n

\* Each window is a run of pieces that starts with a piece of its own.
LEMMA WindowStarts ==
    ASSUME NEW p \in Seq(Piece), NEW ws, NEW F, NEW G,
           Runs(ws, p, F, G, Len(p)), Len(ws) \in Nat,
           NEW w \in 1..Len(ws)
    PROVE  /\ F[w] \in 1..Len(p) /\ G[w] \in F[w]..Len(p)
           /\ Len(ws[w]) = G[w] - F[w] + 1
           /\ \A k \in 1..Len(ws[w]) : ws[w][k] = p[F[w] + k - 1]
           /\ Len(ws[w]) # 0 /\ ws[w][1] = p[F[w]]
<1>1. /\ F[w] \in 1..Len(p) /\ G[w] \in 1..Len(p) /\ F[w] <= G[w]
      /\ ws[w] = SubSeq(p, F[w], G[w])
  BY DEF Runs
<1>2. \A k \in F[w]..G[w] : p[k] \in Piece
  BY <1>1
<1>3. /\ Len(ws[w]) = G[w] - F[w] + 1
      /\ \A k \in 1..(G[w] - F[w] + 1) : ws[w][k] = p[F[w] + k - 1]
  BY <1>1, <1>2, SubSeqProperties
<1>4. Len(p) \in Nat
  OBVIOUS
<1>5. 1 \in 1..(G[w] - F[w] + 1) /\ F[w] + 1 - 1 = F[w]
  BY <1>1, <1>4
<1>6. ws[w][1] = p[F[w]]
  BY <1>3, <1>5
<1> QED BY <1>1, <1>3, <1>4, <1>5, <1>6

\* build_windows, for every bound and every transcript of utterances that say
\* something: what the windows promise.
THEOREM WindowsHold == WindowsCover
<1> SUFFICES ASSUME NEW lengths \in Lengths
             PROVE  LET said == [i \in DOMAIN lengths |-> [w \in 1..lengths[i] |-> w]]
                        pieces == Pieces(said)
                        windows == BuildWindows(said)
                        First(w) == CHOOSE i \in DOMAIN pieces : pieces[i] = windows[w][1]
                        End(w) == First(w) + Len(windows[w]) - 1
                    IN /\ lengths # <<>> => /\ First(1) = 1
                                            /\ End(Len(windows)) = Len(pieces)
                       /\ \A w \in DOMAIN windows :
                            /\ windows[w] = SubSeq(pieces, First(w), End(w))
                            /\ SizeOf(windows[w]) - 1 <= MaxLength
                       /\ \A w \in 1..(Len(windows) - 1) :
                            /\ First(w) < First(w + 1) /\ First(w + 1) <= End(w) + 1
                            /\ End(w) <= End(w + 1)
  BY DEF WindowsCover
<1> DEFINE said == [i \in DOMAIN lengths |-> [w \in 1..lengths[i] |-> w]]
           pieces == Pieces(said)
           windows == BuildWindows(said)
           First(w) == CHOOSE i \in DOMAIN pieces : pieces[i] = windows[w][1]
           End(w) == First(w) + Len(windows[w]) - 1
           n == Len(windows)
<1>1. /\ lengths \in Seq(1..(MaxLength + 1)) /\ said \in Seq(Seq(Int))
      /\ lengths # <<>> => said # <<>> /\ said[1] # <<>>
  <2>1. PICK m \in 0..Bound : lengths \in [1..m -> 1..(MaxLength + 1)]
    BY DEF Lengths, BoundedSeq, SeqOf
  <2>2. m \in Nat /\ lengths \in Seq(1..(MaxLength + 1)) /\ Len(lengths) = m
    BY <2>1, AlgorithmsAssumption
  <2>3. \A i \in 1..m : lengths[i] \in Nat \ {0}
    BY <2>1, AlgorithmsAssumption
  <2>4. \A l \in Nat \ {0} : [w \in 1..l |-> w] \in Seq(Int) /\ [w \in 1..l |-> w] # <<>>
    <3> TAKE l \in Nat \ {0}
    <3>1. PICK s : s = [w \in 1..l |-> w]
      OBVIOUS
    <3>2. s \in Seq(Int) /\ Len(s) = l
      BY <3>1
    <3> QED BY <3>1, <3>2
  <2>5. said = [i \in 1..m |-> [w \in 1..lengths[i] |-> w]]
    BY <2>1
  <2>6. \A i \in 1..m : said[i] = [w \in 1..lengths[i] |-> w]
    BY <2>5
  <2>7. \A i \in 1..m : said[i] \in Seq(Int) /\ said[i] # <<>>
    BY <2>3, <2>4, <2>6
  <2>8. said = [i \in 1..m |-> said[i]]
    BY <2>5
  <2> HIDE DEF said
  <2>9. said \in Seq(Seq(Int)) /\ Len(said) = m
    <3>1. said \in [1..m -> Seq(Int)]
      BY <2>7, <2>8
    <3>2. said \in Seq(Seq(Int))
      BY <2>2, <3>1, SeqDef
    <3> QED BY <2>2, <3>1, <3>2, LenProperties
  <2>10. lengths # <<>> => m # 0 /\ 1 \in 1..m
    BY <2>2
  <2>11. lengths # <<>> => said # <<>>
    BY <2>9, <2>10
  <2> QED BY <2>2, <2>7, <2>9, <2>10, <2>11
<1> HIDE DEF said
<1>2. /\ pieces \in Seq(Piece)
      /\ \A i, j \in 1..Len(pieces) : pieces[i] = pieces[j] => i = j
      /\ lengths # <<>> => pieces # <<>>
  BY <1>1, PiecesFacts
<1>3. /\ windows \in Seq(Seq(Piece)) /\ (pieces # <<>> => windows # <<>>)
      /\ \E F, G : /\ Runs(windows, pieces, F, G, Len(pieces))
                   /\ pieces # <<>> => G[Len(windows)] = Len(pieces)
  BY <1>1, WindowsAreRuns
<1> HIDE DEF pieces, windows
<1>4. PICK F, G : /\ Runs(windows, pieces, F, G, Len(pieces))
                  /\ pieces # <<>> => G[Len(windows)] = Len(pieces)
  BY <1>3
<1>5. n \in Nat /\ DOMAIN windows = 1..n /\ DOMAIN pieces = 1..Len(pieces)
  BY <1>2, <1>3
<1>6. ASSUME NEW w \in 1..n PROVE First(w) = F[w] /\ End(w) = G[w]
  <2>1. /\ F[w] \in 1..Len(pieces) /\ G[w] \in F[w]..Len(pieces)
        /\ Len(windows[w]) = G[w] - F[w] + 1 /\ windows[w][1] = pieces[F[w]]
    <3>1. Runs(windows, pieces, F, G, Len(pieces)) /\ Len(windows) \in Nat
      BY <1>4, <1>5
    <3> HIDE DEF n
    <3>2. w \in 1..Len(windows)
      BY DEF n
    <3> QED BY <1>2, <3>1, <3>2, WindowStarts
  <2>2. First(w) = F[w]
    BY <1>2, <1>5, <2>1
  <2>3. Len(pieces) \in Nat
    BY <1>2
  <2> HIDE DEF First
  <2>4. End(w) = F[w] + (G[w] - F[w] + 1) - 1
    BY <2>1, <2>2
  <2> QED BY <2>1, <2>2, <2>3, <2>4
<1> HIDE DEF First, End
<1>7. lengths # <<>> => First(1) = 1 /\ End(n) = Len(pieces)
  <2> SUFFICES ASSUME lengths # <<>> PROVE First(1) = 1 /\ End(n) = Len(pieces)
    OBVIOUS
  <2>1. n # 0 /\ 1 \in 1..n /\ n \in 1..n
    BY <1>2, <1>3, <1>5
  <2>2. F[1] = 1 /\ G[n] = Len(pieces)
    BY <1>2, <1>4, <2>1 DEF Runs
  <2> QED BY <1>6, <2>1, <2>2
<1>8. \A w \in 1..n : windows[w] = SubSeq(pieces, First(w), End(w))
                      /\ SizeOf(windows[w]) - 1 <= MaxLength
  BY <1>4, <1>6 DEF Runs
<1>9. \A w \in 1..(n - 1) : /\ First(w) < First(w + 1) /\ First(w + 1) <= End(w) + 1
                            /\ End(w) <= End(w + 1)
  <2> TAKE w \in 1..(n - 1)
  <2>1. w \in 1..n /\ w + 1 \in 1..n
    BY <1>5
  <2>2. F[w] < F[w + 1] /\ F[w + 1] <= G[w] + 1 /\ G[w] <= G[w + 1]
    BY <1>4 DEF Runs
  <2>3. PICK v \in 1..n : v = w + 1
    BY <2>1
  <2>4. First(v) = F[v] /\ End(v) = G[v]
    BY <1>6
  <2> QED BY <1>6, <2>1, <2>2, <2>3, <2>4
<1> QED BY <1>5, <1>7, <1>8, <1>9 DEF said, pieces, windows, First, End

-----------------------------------------------------------------------------
(* Sums *)

Recurs(f, b, step, n) == f = [i \in 0..n |-> IF i = 0 THEN b ELSE step[i][f[i - 1]]]

\* The same, with the equation by which TLA+ defines such a function.
LEMMA RecursiveFunction ==
    ASSUME NEW V, NEW b \in V, NEW n \in Nat, NEW step \in [1..n -> [V -> V]]
    PROVE  \E f \in [0..n -> V] : Recurs(f, b, step, n)
<1>1. PICK f \in [0..n -> V] : Follows(f, b, step, n)
  BY Recursion
<1>2. ASSUME NEW i \in 0..n
      PROVE  f[i] = IF i = 0 THEN b ELSE step[i][f[i - 1]]
  <2>1. CASE i = 0
    BY <1>1, <2>1 DEF Follows
  <2>2. CASE i # 0
    <3>1. i \in 1..n
      BY <2>2
    <3> QED BY <1>1, <2>2, <3>1, Zenon DEF Follows
  <2> QED BY <2>1, <2>2
<1>3. f = [i \in 0..n |-> f[i]]
  OBVIOUS
<1>4. f = [i \in 0..n |-> IF i = 0 THEN b ELSE step[i][f[i - 1]]]
  BY <1>2, <1>3, Zenon
<1> QED BY <1>4 DEF Recurs

SumStep(numbers, f) ==
    f = [i \in 0..Len(numbers) |-> IF i = 0 THEN 0 ELSE f[i - 1] + numbers[i]]

\* A sum runs through the sums of what comes before.
LEMMA SumRuns ==
    ASSUME NEW numbers \in Seq(Nat)
    PROVE  \E f \in [0..Len(numbers) -> Nat] :
             /\ SumOf(numbers) = f[Len(numbers)]
             /\ f[0] = 0
             /\ \A i \in 1..Len(numbers) : f[i] = f[i - 1] + numbers[i]
<1> DEFINE n == Len(numbers)
           step == [i \in 1..n |-> [v \in Nat |-> v + numbers[i]]]
<1>1. n \in Nat /\ \A i \in 1..n : numbers[i] \in Nat
  OBVIOUS
<1>2. step \in [1..n -> [Nat -> Nat]]
  BY <1>1
<1>3. \A i \in 1..n, v \in Nat : step[i][v] = v + numbers[i]
  OBVIOUS
<1> HIDE DEF step
<1>4. PICK f \in [0..n -> Nat] :
        Recurs(f, 0, step, n)
  <2> HIDE DEF n
  <2> QED BY <1>1, <1>2, RecursiveFunction
<1>5. SumStep(numbers, f)
  <2>1. ASSUME NEW i \in 0..n
        PROVE  f[i] = IF i = 0 THEN 0 ELSE f[i - 1] + numbers[i]
    <3>1. CASE i = 0
      BY <1>4, <3>1 DEF Recurs
    <3>2. CASE i # 0
      <4>1. i \in 1..n /\ i - 1 \in 0..n
        BY <1>1, <3>2
      <4>2. f[i] = step[i][f[i - 1]] /\ f[i - 1] \in Nat
        BY <1>4, <3>2, <4>1 DEF Recurs
      <4> QED BY <1>3, <3>2, <4>1, <4>2
    <3> QED BY <3>1, <3>2
  <2>2. f = [i \in 0..n |-> f[i]]
    OBVIOUS
  <2>3. f = [i \in 0..n |-> IF i = 0 THEN 0 ELSE f[i - 1] + numbers[i]]
    BY <2>1, <2>2, Zenon
  <2> QED BY <2>3 DEF SumStep
<1> DEFINE g == CHOOSE g : SumStep(numbers, g)
<1>6. SumStep(numbers, g)
  BY <1>5
<1>7. SumOf(numbers) = g[n]
  BY DEF SumOf, SumStep
<1> HIDE DEF g
<1>8. g[0] = 0 /\ \A i \in 1..n : g[i] = g[i - 1] + numbers[i]
  BY <1>1, <1>6 DEF SumStep
<1>9. \A i \in 0..n : g[i] \in Nat
  <2> DEFINE P == {m \in Nat : m <= n => g[m] \in Nat}
  <2>1. 0 \in P
    BY <1>8
  <2>2. ASSUME NEW m \in P PROVE m + 1 \in P
    <3> SUFFICES ASSUME m + 1 <= n PROVE g[m + 1] \in Nat
      OBVIOUS
    <3>1. m + 1 \in 1..n /\ m + 1 - 1 = m /\ g[m] \in Nat
      BY <1>1
    <3>2. g[m + 1] = g[m] + numbers[m + 1] /\ numbers[m + 1] \in Nat
      BY <1>1, <1>8, <3>1
    <3> QED BY <3>1, <3>2
  <2> HIDE DEF P
  <2>3. P = Nat
    <3>1. P \in SUBSET Nat
      BY DEF P
    <3> QED BY <2>1, <2>2, <3>1, Induction
  <2> QED BY <1>1, <2>3 DEF P
<1>10. g \in [0..n -> Nat]
  <2>1. g = [i \in 0..n |-> g[i]]
    BY <1>6 DEF SumStep
  <2> QED BY <1>9, <2>1
<1> QED BY <1>7, <1>8, <1>10

\* A function that starts at 0 and grows by the numbers ends at their sum.
LEMMA SumIs ==
    ASSUME NEW numbers \in Seq(Nat), NEW f,
           f[0] = 0, \A i \in 1..Len(numbers) : f[i] = f[i - 1] + numbers[i]
    PROVE  SumOf(numbers) = f[Len(numbers)]
<1> DEFINE n == Len(numbers)
<1>1. n \in Nat
  OBVIOUS
<1>2. PICK g \in [0..n -> Nat] :
        /\ SumOf(numbers) = g[n] /\ g[0] = 0
        /\ \A i \in 1..n : g[i] = g[i - 1] + numbers[i]
  BY SumRuns
<1> DEFINE P == {m \in Nat : m <= n => f[m] = g[m]}
<1> HIDE DEF n
<1>3. 0 \in P
  BY <1>2
<1>4. ASSUME NEW m \in P PROVE m + 1 \in P
  <2> SUFFICES ASSUME m + 1 <= n PROVE f[m + 1] = g[m + 1]
    OBVIOUS
  <2>1. m + 1 \in 1..n /\ m + 1 - 1 = m /\ f[m] = g[m]
    BY <1>1
  <2>2. f[m + 1] = f[m] + numbers[m + 1] /\ g[m + 1] = g[m] + numbers[m + 1]
    BY <1>2, <2>1 DEF n
  <2> QED BY <2>1, <2>2
<1> HIDE DEF P
<1>5. P = Nat
  <2>1. P \in SUBSET Nat
    BY DEF P
  <2> QED BY <1>3, <1>4, <2>1, Induction
<1>6. f[n] = g[n]
  BY <1>1, <1>5 DEF P
<1> QED BY <1>2, <1>6 DEF n

\* What a function on 1..n has to be to be a sequence.
LEMMA IsSequence ==
    ASSUME NEW S, NEW n \in Nat, NEW s \in [1..n -> S]
    PROVE  s \in Seq(S) /\ Len(s) = n /\ DOMAIN s = 1..n
<1>1. s \in Seq(S)
  BY SeqDef
<1> QED BY <1>1, LenProperties

\* A number more is added.
LEMMA SumCounts ==
    /\ SumOf(<<>>) = 0
    /\ \A numbers \in Seq(Nat) : SumOf(numbers) \in Nat
    /\ \A numbers \in Seq(Nat), x \in Nat :
         SumOf(Append(numbers, x)) = SumOf(numbers) + x
<1>1. SumOf(<<>>) = 0
  <2>1. PICK s : s = <<>>
    OBVIOUS
  <2>2. s \in Seq(Nat) /\ Len(s) = 0
    BY <2>1
  <2>3. \E f \in [0..0 -> Nat] : SumOf(s) = f[0] /\ f[0] = 0
    BY <2>2, SumRuns
  <2> QED BY <2>1, <2>3
<1>2. ASSUME NEW numbers \in Seq(Nat) PROVE SumOf(numbers) \in Nat
  <2>1. Len(numbers) \in 0..Len(numbers)
    OBVIOUS
  <2> QED BY <2>1, SumRuns
<1>3. ASSUME NEW numbers \in Seq(Nat), NEW x \in Nat
      PROVE  SumOf(Append(numbers, x)) = SumOf(numbers) + x
  <2> DEFINE longer == Append(numbers, x)
             n == Len(numbers)
  <2>1. /\ n \in Nat /\ longer \in Seq(Nat) /\ Len(longer) = n + 1
        /\ longer[n + 1] = x /\ \A i \in 1..n : longer[i] = numbers[i]
    BY AppendProperties
  <2>2. PICK f \in [0..n -> Nat] :
          /\ SumOf(numbers) = f[n] /\ f[0] = 0
          /\ \A i \in 1..n : f[i] = f[i - 1] + numbers[i]
    BY SumRuns
  <2> HIDE DEF longer, n
  <2> DEFINE g == [i \in 0..(n + 1) |-> IF i = n + 1 THEN f[n] + x ELSE f[i]]
  <2>3. /\ g[0] = 0 /\ g[n + 1] = f[n] + x
        /\ \A i \in 1..(n + 1) : g[i] = g[i - 1] + longer[i]
    <3>1. /\ \A i \in 0..n : g[i] = f[i]
          /\ g[n + 1] = f[n] + x
      BY <2>1
    <3> HIDE DEF g
    <3>2. ASSUME NEW i \in 1..(n + 1) PROVE g[i] = g[i - 1] + longer[i]
      <4>1. CASE i = n + 1
        <5>1. i - 1 = n /\ n \in 0..n
          BY <2>1, <4>1
        <5> QED BY <2>1, <3>1, <4>1, <5>1
      <4>2. CASE i # n + 1
        <5>1. i \in 1..n /\ i - 1 \in 0..n /\ i \in 0..n
          BY <2>1, <4>2
        <5> QED BY <2>1, <2>2, <3>1, <5>1
      <4> QED BY <4>1, <4>2
    <3> QED BY <2>1, <2>2, <3>1, <3>2
  <2> HIDE DEF g
  <2>4. PICK m : m = Len(longer)
    OBVIOUS
  <2>5. \A i \in 1..m : g[i] = g[i - 1] + longer[i]
    BY <2>1, <2>3, <2>4
  <2>6. SumOf(longer) = g[m]
    BY <2>1, <2>3, <2>4, <2>5, SumIs
  <2> QED BY <2>1, <2>2, <2>3, <2>4, <2>6 DEF longer
<1> QED BY <1>1, <1>2, <1>3

-----------------------------------------------------------------------------
(* Parts *)

\* The parts are as many as it takes, and the last one is not empty.
LEMMA PartsReach ==
    ASSUME NEW size \in Nat \ {0}, NEW part \in Nat \ {0},
           NEW total, total = TotalPartsFor(size, part)
    PROVE  /\ total \in Nat \ {0}
           /\ (total - 1) * part < size /\ size <= total * part
<1>1. CASE size <= part
  <2>1. total = 1
    BY <1>1 DEF TotalPartsFor
  <2>2. (total - 1) * part = 0 /\ total * part = part
    BY <2>1
  <2> QED BY <1>1, <2>1, <2>2
<1>2. CASE ~(size <= part)
  <2> DEFINE k == size + part - 1
  <2>1. total = k \div part /\ k \in Nat
    BY <1>2 DEF TotalPartsFor
  <2>2. /\ total \in Nat /\ total * part <= k /\ k < total * part + part
    <3> HIDE DEF k
    <3> QED BY <2>1, Division
  <2>3. total # 0
    <3> SUFFICES ASSUME total = 0 PROVE FALSE
      OBVIOUS
    <3>1. total * part = 0
      OBVIOUS
    <3> QED BY <1>2, <2>2, <3>1
  <2>4. (total - 1) * part = total * part - part
    BY <2>2
  <2> QED BY <2>2, <2>3, <2>4
<1> QED BY <1>1, <1>2

\* Up to the last part all are full; the last one is what is left.
LEMMA PartSizes ==
    ASSUME NEW size \in Nat \ {0}, NEW part \in Nat \ {0},
           NEW total, total = TotalPartsFor(size, part), NEW n \in 1..total
    PROVE  /\ ExpectedPartSize(n, size, part) \in 1..part
           /\ (n - 1) * part \in Nat /\ (n - 1) * part < size
           /\ n < total => n * part < size /\ ExpectedPartSize(n, size, part) = part
           /\ n = total => size <= n * part
<1>1. /\ total \in Nat \ {0}
      /\ (total - 1) * part < size /\ size <= total * part
  BY PartsReach
<1>2. n \in Nat \ {0} /\ n <= total
  BY <1>1
<1>3. PICK a, b \in Nat : a = (n - 1) * part /\ b = n * part /\ b = a + part
  <2>1. n * part = (n - 1) * part + part
    BY <1>2
  <2>2. (n - 1) * part \in Nat /\ n * part \in Nat
    BY <1>2
  <2> QED BY <2>1, <2>2
<1>4. a < size
  <2>1. (n - 1) * part <= (total - 1) * part
    BY <1>1, <1>2
  <2>2. (total - 1) * part \in Nat
    BY <1>1
  <2> QED BY <1>1, <1>3, <2>1, <2>2
<1>5. n < total => b < size
  <2> SUFFICES ASSUME n < total PROVE b < size
    OBVIOUS
  <2>1. n * part <= (total - 1) * part
    BY <1>1, <1>2
  <2>2. (total - 1) * part \in Nat
    BY <1>1
  <2> QED BY <1>1, <1>3, <2>1, <2>2
<1>6. ExpectedPartSize(n, size, part) = (IF b < size THEN b ELSE size) - a
  BY <1>3 DEF ExpectedPartSize
<1>7. n = total => size <= b
  BY <1>1, <1>3
<1> QED BY <1>3, <1>4, <1>5, <1>6, <1>7

\* The sizes the parts should have add up to the file.
LEMMA PartsAddUp ==
    ASSUME NEW size \in Nat \ {0}, NEW part \in Nat \ {0},
           NEW sizes, sizes = [n \in 1..TotalPartsFor(size, part) |->
                                 ExpectedPartSize(n, size, part)]
    PROVE  SumOf(sizes) = size
<1>1. PICK total : total = TotalPartsFor(size, part)
  OBVIOUS
<1>2. /\ total \in Nat \ {0}
      /\ \A n \in 1..total : sizes[n] \in Nat
      /\ sizes = [n \in 1..total |-> sizes[n]]
  <2>1. \A n \in 1..total : ExpectedPartSize(n, size, part) \in 1..part
    BY <1>1, PartSizes
  <2>2. sizes = [n \in 1..total |-> ExpectedPartSize(n, size, part)]
    BY <1>1, Zenon
  <2>3. \A n \in 1..total : sizes[n] \in 1..part
    BY <2>1, <2>2
  <2>4. sizes = [n \in 1..total |-> sizes[n]]
    BY <2>2
  <2>5. total \in Nat \ {0}
    BY <1>1, PartsReach
  <2>6. \A n \in 1..total : sizes[n] \in Nat
    BY <2>3
  <2> QED BY <2>4, <2>5, <2>6, Zenon
<1>3. sizes \in Seq(Nat) /\ Len(sizes) = total
  <2>1. sizes \in [1..total -> Nat]
    BY <1>2
  <2> QED BY <1>2, <2>1, IsSequence
<1> DEFINE f == [n \in 0..total |-> IF n * part < size THEN n * part ELSE size]
<1>4. f[0] = 0
  BY <1>2
<1>5. f[total] = size
  <2>1. total \in 1..total /\ total \in 0..total
    BY <1>2
  <2>2. size <= total * part
    BY <1>1, <2>1, PartSizes
  <2>3. total * part \in Nat
    BY <1>2
  <2> QED BY <2>1, <2>2, <2>3
<1>6. ASSUME NEW n \in 1..total PROVE f[n] = f[n - 1] + sizes[n]
  <2>1. /\ (n - 1) * part \in Nat /\ (n - 1) * part < size
    BY <1>1, PartSizes
  <2>2. n \in 0..total /\ n - 1 \in 0..total /\ n \in Nat
    BY <1>2
  <2>3. f[n - 1] = (n - 1) * part
    BY <2>1, <2>2
  <2>4. f[n] = IF n * part < size THEN n * part ELSE size
    BY <2>2
  <2>5. sizes[n] = f[n] - (n - 1) * part
    BY <1>1, <2>4 DEF ExpectedPartSize
  <2>6. n * part \in Nat
    BY <2>2
  <2> HIDE DEF f
  <2> QED BY <2>1, <2>3, <2>4, <2>5, <2>6
<1> HIDE DEF f
<1>7. PICK k : k = Len(sizes)
  OBVIOUS
<1> QED BY <1>3, <1>4, <1>5, <1>6, <1>7, SumIs

\* total_parts_for, expected_part_size: the parts of a file of any size are
\* full but for the last, which is not empty, and together they are the file.
THEOREM PartsHold == PartsMakeTheFile
<1> SUFFICES ASSUME NEW size \in 1..(2 * Bound), NEW part \in 1..(2 * Bound)
             PROVE  LET total == TotalPartsFor(size, part)
                        Of(n) == ExpectedPartSize(n, size, part)
                    IN /\ Of(total) \in 1..part
                       /\ \A n \in 1..(total - 1) : Of(n) = part
                       /\ SumOf([n \in 1..total |-> Of(n)]) = size
  BY DEF PartsMakeTheFile
<1>1. size \in Nat \ {0} /\ part \in Nat \ {0}
  <2>1. Bound \in Nat
    BY AlgorithmsAssumption, Zenon
  <2> QED BY <2>1
<1>2. PICK total : total = TotalPartsFor(size, part)
  OBVIOUS
<1>3. total \in Nat \ {0}
  BY <1>1, <1>2, PartsReach
<1>4. ExpectedPartSize(total, size, part) \in 1..part
  <2>1. total \in 1..total
    BY <1>3
  <2> QED BY <1>1, <1>2, <2>1, PartSizes
<1>5. \A n \in 1..(total - 1) : ExpectedPartSize(n, size, part) = part
  <2>1. \A n \in 1..(total - 1) : n \in 1..total /\ n < total
    BY <1>3
  <2> QED BY <1>1, <1>2, <2>1, PartSizes
<1>6. SumOf([n \in 1..TotalPartsFor(size, part) |-> ExpectedPartSize(n, size, part)]) = size
  BY <1>1, PartsAddUp
<1> QED BY <1>2, <1>4, <1>5, <1>6

\* Who sends what is missing has sent all.
LEMMA ResumeCompletes ==
    ASSUME NEW size, NEW part, NEW stored, NEW resumed,
           resumed = {p \in stored : p.n \notin MissingParts(stored, size, part)}
                       \cup {[n |-> n, size |-> ExpectedPartSize(n, size, part),
                              sha |-> 0] : n \in MissingParts(stored, size, part)}
    PROVE  MissingParts(resumed, size, part) = {}
<1>1. PICK range : range = 1..TotalPartsFor(size, part)
  OBVIOUS
<1>2. PICK missing : missing = MissingParts(stored, size, part)
  OBVIOUS
<1>3. \A n \in missing : n \in range
  BY <1>1, <1>2 DEF MissingParts
<1>4. ASSUME NEW n \in range PROVE \E p \in GoodParts(resumed, size, part) : p.n = n
  <2>1. CASE n \in missing
    <3>1. PICK p : p = [n |-> n, size |-> ExpectedPartSize(n, size, part), sha |-> 0]
      OBVIOUS
    <3>2. p \in resumed /\ p.n = n /\ p.size = ExpectedPartSize(n, size, part)
      BY <1>2, <2>1, <3>1
    <3> QED BY <1>1, <3>2 DEF GoodParts
  <2>2. CASE n \notin missing
    <3>1. PICK p \in GoodParts(stored, size, part) : p.n = n
      BY <1>1, <1>2, <2>2 DEF MissingParts
    <3>2. p \in stored /\ p.n \in range /\ p.size = ExpectedPartSize(p.n, size, part)
      BY <1>1, <3>1 DEF GoodParts
    <3>3. p \in resumed
      BY <1>2, <2>2, <3>1, <3>2
    <3> QED BY <1>1, <3>1, <3>2, <3>3 DEF GoodParts
  <2> QED BY <2>1, <2>2
<1> QED BY <1>1, <1>4 DEF MissingParts

\* A part of a number is known by it, and is as long as it should be, once
\* none is missing.
LEMMA SentIsGood ==
    ASSUME NEW size, NEW part, NEW stored,
           \A p, q \in stored : p.n = q.n => p = q,
           MissingParts(stored, size, part) = {},
           NEW n \in 1..TotalPartsFor(size, part),
           NEW sent, sent = CHOOSE p \in stored : p.n = n
    PROVE  /\ sent \in GoodParts(stored, size, part)
           /\ sent.n = n /\ sent.size = ExpectedPartSize(n, size, part)
<1>1. PICK p \in GoodParts(stored, size, part) : p.n = n
  BY DEF MissingParts
<1>2. p \in stored /\ p.size = ExpectedPartSize(p.n, size, part)
  BY <1>1 DEF GoodParts
<1>3. sent \in stored /\ sent.n = n
  BY <1>1, <1>2
<1>4. sent = p
  BY <1>1, <1>2, <1>3
<1> QED BY <1>1, <1>2, <1>4

\* verify_manifest, for any listing: what is accepted is as long as the file,
\* and is the file of the fingerprint where the store knows every digest; and
\* who sends what manifest calls missing has sent all.
THEOREM ManifestHolds == ManifestIsTheFile
<1> SUFFICES ASSUME NEW size \in 1..3, NEW part \in 1..2, NEW stored \in Listings
             PROVE  LET total == TotalPartsFor(size, part)
                        missing == MissingParts(stored, size, part)
                        resumed == {p \in stored : p.n \notin missing}
                                     \cup {[n |-> n, size |-> ExpectedPartSize(n, size, part),
                                            sha |-> 0] : n \in missing}
                        Sent(n) == CHOOSE p \in stored : p.n = n
                    IN /\ MissingParts(resumed, size, part) = {}
                       /\ \A declared \in [1..total -> 0..2], fingerprint \in [1..total -> 1..2] :
                            VerifyManifest(stored, declared, fingerprint, size, part) =>
                              /\ SumOf([n \in 1..total |-> Sent(n).size]) = size
                              /\ (\A n \in 1..total : Sent(n).sha # 0) =>
                                   \A n \in 1..total : Sent(n).sha = fingerprint[n]
  BY DEF ManifestIsTheFile
<1> DEFINE total == TotalPartsFor(size, part)
           Sent(n) == CHOOSE p \in stored : p.n = n
           missing == MissingParts(stored, size, part)
           resumed == {p \in stored : p.n \notin missing}
                        \cup {[n |-> n, size |-> ExpectedPartSize(n, size, part),
                               sha |-> 0] : n \in missing}
<1>1. \A p, q \in stored : p.n = q.n => p = q
  BY DEF Listings
<1>2. MissingParts(resumed, size, part) = {}
  <2>1. PICK r : r = resumed
    OBVIOUS
  <2>2. MissingParts(r, size, part) = {}
    BY <2>1, ResumeCompletes
  <2> QED BY <2>1, <2>2, Zenon
<1>3. ASSUME NEW declared, NEW fingerprint,
             VerifyManifest(stored, declared, fingerprint, size, part)
      PROVE  /\ SumOf([n \in 1..total |-> Sent(n).size]) = size
             /\ (\A n \in 1..total : Sent(n).sha # 0) =>
                  \A n \in 1..total : Sent(n).sha = fingerprint[n]
  <2>1. MissingParts(stored, size, part) = {}
    BY <1>3 DEF VerifyManifest
  <2>2. ASSUME NEW n \in 1..total
        PROVE  /\ Sent(n) \in GoodParts(stored, size, part)
               /\ Sent(n).n = n /\ Sent(n).size = ExpectedPartSize(n, size, part)
    <3>1. PICK sent : sent = CHOOSE p \in stored : p.n = n
      OBVIOUS
    <3>2. /\ sent \in GoodParts(stored, size, part)
          /\ sent.n = n /\ sent.size = ExpectedPartSize(n, size, part)
      BY <1>1, <2>1, <3>1, SentIsGood
    <3> QED BY <3>1, <3>2, Zenon
  <2> HIDE DEF Sent
  <2>3. SumOf([n \in 1..total |-> Sent(n).size]) = size
    <3>1. PICK sizes : sizes = [n \in 1..total |-> Sent(n).size]
      OBVIOUS
    <3>2. sizes = [n \in 1..TotalPartsFor(size, part) |-> ExpectedPartSize(n, size, part)]
      BY <2>2, <3>1
    <3>3. SumOf(sizes) = size
      <4>1. size \in Nat \ {0} /\ part \in Nat \ {0}
        OBVIOUS
      <4> QED BY <3>2, <4>1, PartsAddUp
    <3> QED BY <3>1, <3>3
  <2>4. ASSUME \A n \in 1..total : Sent(n).sha # 0, NEW n \in 1..total
        PROVE  Sent(n).sha = fingerprint[n]
    <3>1. ASSUME NEW p \in GoodParts(stored, size, part)
          PROVE  p.sha # 0
      <4>1. p \in stored /\ p.n \in 1..total
        BY DEF GoodParts
      <4>2. Sent(p.n) \in stored /\ Sent(p.n).n = p.n
        BY <2>2, <4>1 DEF GoodParts
      <4>3. Sent(p.n) = p
        BY <1>1, <4>1, <4>2
      <4> QED BY <2>4, <4>1, <4>3
    <3>2. \A p \in GoodParts(stored, size, part) : fingerprint[p.n] = p.sha
      BY <1>3, <3>1 DEF VerifyManifest
    <3> QED BY <2>2, <3>2
  <2> QED BY <2>3, <2>4
<1> QED BY <1>2, <1>3 DEF total, Sent, missing, resumed

-----------------------------------------------------------------------------
(* Batches *)

\* Three sequences end to end, whichever two are joined first.
LEMMA Regroup ==
    ASSUME NEW S
    PROVE  \A s \in Seq(S), t \in Seq(S), u \in Seq(S) : (s \o t) \o u = s \o (t \o u)
BY ConcatAssociative

\* The same, of numbers.
LEMMA RegroupNat ==
    \A s \in Seq(Nat), t \in Seq(Nat), u \in Seq(Nat) : (s \o t) \o u = s \o (t \o u)
BY Regroup

\* Sequences end to end, by the function that puts them there.
LEMMA FlattenIs ==
    ASSUME NEW S, NEW seqs \in Seq(Seq(S)), seqs # <<>>, NEW f,
           f[1] = seqs[1], \A i \in 2..Len(seqs) : f[i] = f[i - 1] \o seqs[i]
    PROVE  FlattenSeq(seqs) = f[Len(seqs)] /\ f[Len(seqs)] \in Seq(S)
<1> DEFINE n == Len(seqs)
<1>1. n \in Nat \ {0} /\ \A i \in 1..n : seqs[i] \in Seq(S)
  OBVIOUS
<1>2. PICK g : /\ FlattenSeq(seqs) = g[n]
               /\ g[1] = seqs[1]
               /\ \A i \in 2..n : g[i] = g[i - 1] \o seqs[i]
  BY FlattenRuns
<1> DEFINE P == {m \in Nat : m + 1 <= n => f[m + 1] = g[m + 1] /\ f[m + 1] \in Seq(S)}
<1> HIDE DEF n
<1>3. 0 \in P
  <2>1. f[1] = g[1] /\ f[1] \in Seq(S)
    BY <1>1, <1>2
  <2> QED BY <2>1
<1>4. ASSUME NEW m \in P PROVE m + 1 \in P
  <2> SUFFICES ASSUME m + 2 <= n
               PROVE  f[m + 1 + 1] = g[m + 1 + 1] /\ f[m + 1 + 1] \in Seq(S)
    OBVIOUS
  <2>1. PICK k \in 2..n : k = m + 1 + 1
    BY <1>1
  <2>2. k - 1 = m + 1 /\ f[k - 1] = g[k - 1] /\ f[k - 1] \in Seq(S) /\ k \in 1..n
    BY <1>1, <2>1
  <2>3. f[k] = f[k - 1] \o seqs[k] /\ g[k] = g[k - 1] \o seqs[k]
    BY <1>2 DEF n
  <2>4. f[k - 1] \o seqs[k] \in Seq(S)
    BY <1>1, <2>2, ConcatProperties
  <2> QED BY <2>1, <2>2, <2>3, <2>4
<1>5. P = Nat
  <2> HIDE DEF P
  <2>1. P \in SUBSET Nat
    BY DEF P
  <2> QED BY <1>3, <1>4, <2>1, Induction
<1>6. n - 1 \in P /\ n - 1 + 1 = n
  <2>1. n - 1 \in Nat /\ n - 1 + 1 = n
    BY <1>1
  <2> HIDE DEF P
  <2> QED BY <1>5, <2>1
<1>7. f[n] = g[n] /\ f[n] \in Seq(S)
  BY <1>1, <1>6
<1> QED BY <1>2, <1>7 DEF n

\* One sequence more is put at the end.
LEMMA FlattenAppends ==
    ASSUME NEW S, NEW seqs \in Seq(Seq(S))
    PROVE  /\ seqs = <<>> => FlattenSeq(seqs) = <<>>
           /\ FlattenSeq(seqs) \in Seq(S)
           /\ \A s \in Seq(S) : FlattenSeq(Append(seqs, s)) = FlattenSeq(seqs) \o s
<1> DEFINE n == Len(seqs)
<1>1. n \in Nat /\ (seqs = <<>> <=> n = 0)
  OBVIOUS
<1>2. n = 0 => FlattenSeq(seqs) = seqs
  BY DEF FlattenSeq
<1>3. CASE n = 0
  <2>1. seqs = <<>> /\ FlattenSeq(seqs) = <<>>
    BY <1>1, <1>2, <1>3
  <2>2. FlattenSeq(seqs) \in Seq(S)
    <3>1. <<>> \in Seq(S)
      BY EmptySeq
    <3> QED BY <2>1, <3>1
  <2>3. ASSUME NEW s \in Seq(S)
        PROVE  FlattenSeq(Append(seqs, s)) = FlattenSeq(seqs) \o s
    <3>1. PICK longer : longer = Append(seqs, s)
      OBVIOUS
    <3>2. longer \in Seq(Seq(S)) /\ Len(longer) = 1 /\ longer[1] = s /\ longer # <<>>
      BY <2>1, <3>1
    <3> DEFINE f == [i \in {1} |-> s]
    <3>3. f[1] = longer[1] /\ \A i \in 2..Len(longer) : f[i] = f[i - 1] \o longer[i]
      BY <3>2
    <3> HIDE DEF f
    <3>4. FlattenSeq(longer) = f[Len(longer)]
      BY <3>2, <3>3, FlattenIs
    <3>5. <<>> \o s = s
      BY ConcatEmptySeq
    <3> QED BY <2>1, <3>1, <3>2, <3>3, <3>4, <3>5
  <2> QED BY <2>1, <2>2, <2>3
<1>4. CASE n # 0
  <2>1. PICK f : /\ FlattenSeq(seqs) = f[n]
                 /\ f[1] = seqs[1]
                 /\ \A i \in 2..n : f[i] = f[i - 1] \o seqs[i]
    BY <1>1, <1>4, FlattenRuns
  <2>2. FlattenSeq(seqs) \in Seq(S)
    <3>1. f[n] \in Seq(S)
      BY <1>1, <1>4, <2>1, FlattenIs
    <3> QED BY <2>1, <3>1
  <2>3. ASSUME NEW s \in Seq(S)
        PROVE  FlattenSeq(Append(seqs, s)) = FlattenSeq(seqs) \o s
    <3>1. PICK longer : longer = Append(seqs, s)
      OBVIOUS
    <3> HIDE DEF n
    <3>2. /\ longer \in Seq(Seq(S)) /\ Len(longer) = n + 1 /\ longer[n + 1] = s
          /\ \A i \in 1..n : longer[i] = seqs[i]
          /\ longer # <<>>
      BY <3>1, AppendProperties DEF n
    <3> DEFINE g == [i \in 1..(n + 1) |-> IF i = n + 1 THEN f[n] \o s ELSE f[i]]
    <3>3. g[n + 1] = f[n] \o s /\ \A i \in 1..n : g[i] = f[i]
      BY <1>1
    <3> HIDE DEF g
    <3>4. g[1] = longer[1]
      <4>1. 1 \in 1..n
        BY <1>1, <1>4
      <4> QED BY <2>1, <3>2, <3>3, <4>1
    <3>5. ASSUME NEW i \in 2..(n + 1) PROVE g[i] = g[i - 1] \o longer[i]
      <4>1. CASE i = n + 1
        <5>1. i - 1 = n /\ n \in 1..n
          BY <1>1, <1>4, <4>1
        <5> QED BY <3>2, <3>3, <4>1, <5>1
      <4>2. CASE i # n + 1
        <5>1. i \in 1..n /\ i \in 2..n /\ i - 1 \in 1..n
          BY <1>1, <4>2
        <5> QED BY <2>1, <3>2, <3>3, <5>1
      <4> QED BY <4>1, <4>2
    <3>6. PICK m : m = Len(longer)
      OBVIOUS
    <3>7. \A i \in 2..m : g[i] = g[i - 1] \o longer[i]
      BY <3>2, <3>5, <3>6
    <3>8. FlattenSeq(longer) = g[m]
      BY <3>2, <3>4, <3>6, <3>7, FlattenIs
    <3> QED BY <2>1, <3>1, <3>2, <3>3, <3>6, <3>8
  <2> QED BY <1>1, <1>4, <2>2, <2>3
<1> QED BY <1>3, <1>4

BatchAcc == [done : Seq(Seq(Nat)), batch : Seq(Nat), chars : Nat]

\* Of a size the embedder takes, unless it is one text.
Fits(batch) ==
    /\ Len(batch) \in 1..BatchSize
    /\ BatchLength > 0 /\ Len(batch) > 1 => SumOf(batch) <= BatchLength

\* What has been done of the first i texts.
Batching(acc, lengths, i) ==
    /\ acc \in BatchAcc
    /\ FlattenSeq(acc.done) \o acc.batch = SubSeq(lengths, 1, i)
    /\ acc.chars = SumOf(acc.batch)
    /\ \A b \in 1..Len(acc.done) : Fits(acc.done[b])
    /\ acc.batch # <<>> => Fits(acc.batch)

\* A sequence taken one further.
LEMMA SubSeqGrows ==
    ASSUME NEW S, NEW s \in Seq(S), NEW i \in 0..(Len(s) - 1)
    PROVE  SubSeq(s, 1, i) \in Seq(S) /\ SubSeq(s, 1, i + 1) = SubSeq(s, 1, i) \o <<s[i + 1]>>
<1>1. Len(s) \in Nat /\ i + 1 \in 1..Len(s) /\ i \in Nat
  OBVIOUS
<1>2. SubSeq(s, 1, i) \in Seq(S)
  <2>1. \A k \in 1..i : s[k] \in S
    BY <1>1
  <2> QED BY <1>1, <2>1, SubSeqProperties
<1>3. PICK k : k = i + 1
  OBVIOUS
<1>4. k \in 1..Len(s) /\ 1 \in 1..Len(s) /\ k - 1 = i
  BY <1>1, <1>3
<1>5. SubSeq(s, 1, k) = SubSeq(s, 1, k - 1) \o <<s[k]>>
  BY <1>4, SubSeqRecursiveSecond
<1> QED BY <1>2, <1>3, <1>4, <1>5

\* A batch that is full is put away.
LEMMA BatchDone ==
    ASSUME NEW done \in Seq(Seq(Nat)), NEW batch \in Seq(Nat),
           \A b \in 1..Len(done) : Fits(done[b]), Fits(batch),
           NEW longer, longer = Append(done, batch)
    PROVE  /\ longer \in Seq(Seq(Nat))
           /\ FlattenSeq(longer) = FlattenSeq(done) \o batch
           /\ FlattenSeq(longer) \in Seq(Nat)
           /\ \A b \in 1..Len(longer) : Fits(longer[b])
<1>1. /\ longer \in Seq(Seq(Nat)) /\ Len(longer) = Len(done) + 1 /\ Len(done) \in Nat
      /\ longer[Len(done) + 1] = batch
      /\ \A b \in 1..Len(done) : longer[b] = done[b]
  BY AppendProperties
<1>2. /\ FlattenSeq(longer) = FlattenSeq(done) \o batch
      /\ FlattenSeq(longer) \in Seq(Nat)
  BY <1>1, FlattenAppends
<1>3. ASSUME NEW b \in 1..Len(longer) PROVE Fits(longer[b])
  <2>1. b \in 1..Len(done) \/ b = Len(done) + 1
    BY <1>1
  <2> QED BY <1>1, <2>1
<1> QED BY <1>1, <1>2, <1>3

\* A text more.
LEMMA TextBatches ==
    ASSUME NEW lengths \in Seq(Nat), NEW i \in 0..(Len(lengths) - 1),
           NEW acc, Batching(acc, lengths, i)
    PROVE  Batching(AddText(acc, lengths[i + 1]), lengths, i + 1)
<1>1. /\ acc.done \in Seq(Seq(Nat)) /\ acc.batch \in Seq(Nat) /\ acc.chars \in Nat
      /\ acc \in BatchAcc
  BY DEF Batching, BatchAcc
<1>2. PICK n \in Nat : n = lengths[i + 1]
  <2>1. i + 1 \in 1..Len(lengths)
    OBVIOUS
  <2> QED BY <2>1
<1>3. /\ SubSeq(lengths, 1, i + 1) = SubSeq(lengths, 1, i) \o <<n>>
      /\ SubSeq(lengths, 1, i) \in Seq(Nat)
  BY <1>2, SubSeqGrows
<1>4. BatchSize \in Nat \ {0} /\ BatchLength \in Nat
  BY AlgorithmsAssumption, Zenon
<1>5. PICK one \in Seq(Nat) : one = <<n>> /\ Len(one) = 1
  <2>1. <<n>> \in Seq(Nat) /\ Len(<<n>>) = 1
    OBVIOUS
  <2> QED BY <2>1
<1>6. SumOf(one) = n
  <2>1. <<>> \in Seq(Nat) /\ one = Append(<<>>, n)
    BY <1>5
  <2>2. SumOf(one) = 0 + n
    BY <2>1, SumCounts
  <2> QED BY <2>2
<1>7. Fits(one)
  BY <1>4, <1>5 DEF Fits
<1> DEFINE full == acc.batch # <<>> /\ \/ Len(acc.batch) >= BatchSize
                                       \/ BatchLength > 0 /\ acc.chars + n > BatchLength
<1>8. CASE full
  <2>1. PICK longer : longer = Append(acc.done, acc.batch)
    OBVIOUS
  <2>2. PICK new : new = [done |-> longer, batch |-> one, chars |-> n]
    OBVIOUS
  <2>3. AddText(acc, n) = new
    BY <1>5, <1>8, <2>1, <2>2 DEF AddText
  <2>4. /\ longer \in Seq(Seq(Nat))
        /\ FlattenSeq(longer) = FlattenSeq(acc.done) \o acc.batch
        /\ \A b \in 1..Len(longer) : Fits(longer[b])
    BY <1>1, <1>8, <2>1, BatchDone DEF Batching
  <2>5. new.done = longer /\ new.batch = one /\ new.chars = n /\ new \in BatchAcc
    BY <1>5, <2>2, <2>4 DEF BatchAcc
  <2>6. FlattenSeq(longer) \o one = SubSeq(lengths, 1, i + 1)
    BY <1>3, <1>5, <2>4 DEF Batching
  <2>7. Batching(new, lengths, i + 1)
    BY <1>6, <1>7, <2>4, <2>5, <2>6 DEF Batching
  <2> QED BY <1>2, <2>3, <2>7
<1>9. CASE ~full
  <2>1. PICK batch, chars : batch = Append(acc.batch, n) /\ chars = acc.chars + n
    OBVIOUS
  <2>2. PICK new : new = [acc EXCEPT !.batch = batch, !.chars = chars]
    OBVIOUS
  <2>3. AddText(acc, n) = new
    BY <1>9, <2>1, <2>2 DEF AddText
  <2>4. /\ batch \in Seq(Nat) /\ Len(batch) = Len(acc.batch) + 1 /\ chars \in Nat
        /\ batch # <<>> /\ batch = acc.batch \o one /\ SumOf(batch) = SumOf(acc.batch) + n
    <3>1. batch = acc.batch \o one
      BY <1>1, <1>5, <2>1, AppendIsConcat
    <3>2. SumOf(batch) = SumOf(acc.batch) + n
      BY <1>1, <2>1, SumCounts
    <3>3. batch \in Seq(Nat) /\ Len(batch) = Len(acc.batch) + 1 /\ batch # <<>>
      <4>1. PICK old \in Seq(Nat) : old = acc.batch
        BY <1>1
      <4>2. batch = Append(old, n)
        BY <2>1, <4>1, Zenon
      <4>3. batch \in Seq(Nat) /\ Len(batch) = Len(old) + 1 /\ batch # <<>>
        BY <4>2, AppendProperties
      <4> QED BY <4>1, <4>3
    <3>4. chars \in Nat
      BY <1>1, <2>1
    <3> QED BY <3>1, <3>2, <3>3, <3>4, Zenon
  <2>5. new.done = acc.done /\ new.batch = batch /\ new.chars = chars /\ new \in BatchAcc
    <3>1. new.done = acc.done /\ new.batch = batch /\ new.chars = chars
      BY <1>1, <2>2 DEF BatchAcc
    <3>2. new \in BatchAcc
      BY <1>1, <2>2, <2>4 DEF BatchAcc
    <3> QED BY <3>1, <3>2
  <2>6. FlattenSeq(acc.done) \o batch = SubSeq(lengths, 1, i + 1)
    <3>1. FlattenSeq(acc.done) \in Seq(Nat)
      BY <1>1, FlattenAppends
    <3>2. (FlattenSeq(acc.done) \o acc.batch) \o one = FlattenSeq(acc.done) \o (acc.batch \o one)
      <4>1. PICK a \in Seq(Nat), b \in Seq(Nat) : a = FlattenSeq(acc.done) /\ b = acc.batch
        BY <1>1, <3>1
      <4> QED BY <1>5, <4>1, RegroupNat, Zenon
    <3> QED BY <1>3, <1>5, <2>4, <3>2 DEF Batching
  <2>7. chars = SumOf(batch)
    BY <2>1, <2>4 DEF Batching
  <2>8. Fits(batch)
    <3>1. Len(acc.batch) \in Nat /\ (acc.batch = <<>> => Len(acc.batch) = 0)
      BY <1>1
    <3>2. Len(batch) \in 1..BatchSize
      BY <1>4, <1>9, <2>4, <3>1
    <3>3. ASSUME BatchLength > 0, Len(batch) > 1 PROVE SumOf(batch) <= BatchLength
      <4>1. acc.batch # <<>>
        BY <2>4, <3>1, <3>3
      <4>2. ~(acc.chars + n > BatchLength)
        BY <1>9, <3>3, <4>1
      <4> QED BY <1>1, <1>4, <2>1, <2>7, <4>2
    <3> QED BY <3>2, <3>3 DEF Fits
  <2>9. Batching(new, lengths, i + 1)
    BY <2>5, <2>6, <2>7, <2>8 DEF Batching
  <2> QED BY <1>2, <2>3, <2>9
<1> QED BY <1>8, <1>9

\* Adding a text to anything typed gives something typed.
LEMMA TextTyped ==
    ASSUME NEW acc \in BatchAcc, NEW n \in Nat
    PROVE  AddText(acc, n) \in BatchAcc
<1>1. acc.done \in Seq(Seq(Nat)) /\ acc.batch \in Seq(Nat) /\ acc.chars \in Nat
  BY DEF BatchAcc
<1>2. PICK longer, one, batch, chars :
        /\ longer = Append(acc.done, acc.batch) /\ one = <<n>>
        /\ batch = Append(acc.batch, n) /\ chars = acc.chars + n
  OBVIOUS
<1>3. /\ longer \in Seq(Seq(Nat)) /\ one \in Seq(Nat)
      /\ batch \in Seq(Nat) /\ chars \in Nat
  BY <1>1, <1>2
<1>4. [done |-> longer, batch |-> one, chars |-> n] \in BatchAcc
  BY <1>3 DEF BatchAcc
<1>5. [acc EXCEPT !.batch = batch, !.chars = chars] \in BatchAcc
  BY <1>3 DEF BatchAcc
<1> QED BY <1>2, <1>4, <1>5 DEF AddText

NoBatch == [done |-> <<>>, batch |-> <<>>, chars |-> 0]

BatchStep(lengths, f) ==
    f = [i \in 0..Len(lengths) |-> IF i = 0 THEN NoBatch ELSE AddText(f[i - 1], lengths[i])]

\* The batches are filled a text at a time.
LEMMA BatchedRuns ==
    ASSUME NEW lengths \in Seq(Nat)
    PROVE  \E f : /\ Batched(lengths) = YieldsRest(f[Len(lengths)])
                  /\ f[0] = NoBatch
                  /\ \A i \in 1..Len(lengths) : f[i] = AddText(f[i - 1], lengths[i])
<1> DEFINE n == Len(lengths)
           step == [i \in 1..n |-> [v \in BatchAcc |-> AddText(v, lengths[i])]]
<1>1. n \in Nat /\ NoBatch \in BatchAcc /\ \A i \in 1..n : lengths[i] \in Nat
  BY DEF NoBatch, BatchAcc
<1> HIDE DEF n
<1>2. step \in [1..n -> [BatchAcc -> BatchAcc]]
  BY <1>1, TextTyped
<1>3. \A i \in 1..n, v \in BatchAcc : step[i][v] = AddText(v, lengths[i])
  OBVIOUS
<1> HIDE DEF step
<1>4. PICK f \in [0..n -> BatchAcc] : Recurs(f, NoBatch, step, n)
  BY <1>1, <1>2, RecursiveFunction
<1>5. BatchStep(lengths, f)
  <2>1. ASSUME NEW i \in 0..n
        PROVE  f[i] = IF i = 0 THEN NoBatch ELSE AddText(f[i - 1], lengths[i])
    <3>1. CASE i = 0
      BY <1>4, <3>1 DEF Recurs
    <3>2. CASE i # 0
      <4>1. i \in 1..n /\ i - 1 \in 0..n
        BY <1>1, <3>2
      <4>2. f[i] = step[i][f[i - 1]] /\ f[i - 1] \in BatchAcc
        BY <1>4, <3>2, <4>1 DEF Recurs
      <4> QED BY <1>3, <3>2, <4>1, <4>2
    <3> QED BY <3>1, <3>2
  <2>2. f = [i \in 0..n |-> f[i]]
    OBVIOUS
  <2>3. f = [i \in 0..n |-> IF i = 0 THEN NoBatch ELSE AddText(f[i - 1], lengths[i])]
    BY <2>1, <2>2, Zenon
  <2> QED BY <2>3 DEF BatchStep, n
<1> DEFINE g == CHOOSE g : BatchStep(lengths, g)
<1>6. BatchStep(lengths, g)
  BY <1>5
<1>7. Batched(lengths) = YieldsRest(g[n])
  BY DEF Batched, BatchStep, NoBatch, n
<1> HIDE DEF g
<1>8. g[0] = NoBatch /\ \A i \in 1..n : g[i] = AddText(g[i - 1], lengths[i])
  <2>1. \A i \in 0..n : g[i] = IF i = 0 THEN NoBatch ELSE AddText(g[i - 1], lengths[i])
    BY <1>6, Zenon DEF BatchStep, n
  <2>2. 0 \in 0..n /\ \A i \in 1..n : i \in 0..n /\ i # 0
    BY <1>1
  <2> QED BY <2>1, <2>2, Zenon
<1> QED BY <1>7, <1>8 DEF n

\* The batches of any texts: all of them, in order, in batches that fit.
LEMMA BatchesFit ==
    ASSUME NEW lengths \in Seq(Nat)
    PROVE  /\ Batched(lengths) \in Seq(Seq(Nat))
           /\ FlattenSeq(Batched(lengths)) = lengths
           /\ \A b \in 1..Len(Batched(lengths)) : Fits(Batched(lengths)[b])
<1> DEFINE n == Len(lengths)
<1>1. n \in Nat
  OBVIOUS
<1>2. PICK f : /\ Batched(lengths) = YieldsRest(f[n])
               /\ f[0] = NoBatch
               /\ \A i \in 1..n : f[i] = AddText(f[i - 1], lengths[i])
  BY BatchedRuns
<1> HIDE DEF n
<1>3. Batching(f[n], lengths, n)
  <2> DEFINE P == {m \in Nat : m <= n => Batching(f[m], lengths, m)}
  <2>1. 0 \in P
    <3>1. PICK e : e = <<>>
      OBVIOUS
    <3>2. e \in Seq(Seq(Nat)) /\ e \in Seq(Nat) /\ Len(e) = 0
      BY <3>1, EmptySeq
    <3>3. NoBatch.done = e /\ NoBatch.batch = e /\ NoBatch.chars = 0 /\ NoBatch \in BatchAcc
      BY <3>1, <3>2 DEF NoBatch, BatchAcc
    <3>4. FlattenSeq(e) = e /\ e \o e = e /\ SumOf(e) = 0
      BY <3>1, <3>2, FlattenAppends, SumCounts, ConcatEmptySeq
    <3>5. SubSeq(lengths, 1, 0) = e
      BY <3>1, SubSeqEmpty
    <3>6. Batching(NoBatch, lengths, 0)
      <4>1. FlattenSeq(NoBatch.done) \o NoBatch.batch = SubSeq(lengths, 1, 0)
        BY <3>3, <3>4, <3>5, Zenon
      <4>2. \A b \in 1..Len(NoBatch.done) : Fits(NoBatch.done[b])
        BY <3>2, <3>3
      <4>3. NoBatch.chars = SumOf(NoBatch.batch) /\ NoBatch.batch = <<>>
        BY <3>1, <3>3, <3>4
      <4> QED BY <3>3, <4>1, <4>2, <4>3 DEF Batching
    <3> QED BY <1>2, <3>6
  <2>2. ASSUME NEW m \in P PROVE m + 1 \in P
    <3> SUFFICES ASSUME m + 1 <= n PROVE Batching(f[m + 1], lengths, m + 1)
      OBVIOUS
    <3>1. m + 1 \in 1..n /\ m + 1 - 1 = m /\ Batching(f[m], lengths, m)
      BY <1>1
    <3>2. PICK k : k = m + 1
      OBVIOUS
    <3>3. f[k] = AddText(f[k - 1], lengths[k]) /\ k - 1 = m
      BY <1>2, <3>1, <3>2
    <3>4. m \in 0..(Len(lengths) - 1)
      BY <1>1, <3>1 DEF n
    <3>5. Batching(AddText(f[m], lengths[m + 1]), lengths, m + 1)
      BY <3>1, <3>4, TextBatches
    <3> QED BY <3>2, <3>3, <3>5
  <2> HIDE DEF P
  <2>3. P = Nat
    <3>1. P \in SUBSET Nat
      BY DEF P
    <3> QED BY <2>1, <2>2, <3>1, Induction
  <2> QED BY <1>1, <2>3 DEF P
<1>4. PICK acc : acc = f[n]
  OBVIOUS
<1>5. /\ acc.done \in Seq(Seq(Nat)) /\ acc.batch \in Seq(Nat)
      /\ FlattenSeq(acc.done) \o acc.batch = SubSeq(lengths, 1, n)
      /\ \A b \in 1..Len(acc.done) : Fits(acc.done[b])
      /\ acc.batch # <<>> => Fits(acc.batch)
  BY <1>3, <1>4 DEF Batching, BatchAcc
<1>6. SubSeq(lengths, 1, n) = lengths
  BY SubSeqFull DEF n
<1>7. PICK batches : batches = YieldsRest(acc)
  OBVIOUS
<1>8. /\ batches \in Seq(Seq(Nat)) /\ FlattenSeq(batches) = lengths
      /\ \A b \in 1..Len(batches) : Fits(batches[b])
  <2>1. CASE acc.batch = <<>>
    <3>1. batches = acc.done
      BY <1>7, <2>1 DEF YieldsRest
    <3>2. FlattenSeq(acc.done) \in Seq(Nat)
      BY <1>5, FlattenAppends
    <3>3. FlattenSeq(acc.done) \o <<>> = FlattenSeq(acc.done)
      BY <3>2, ConcatEmptySeq
    <3> QED BY <1>5, <1>6, <2>1, <3>1, <3>3
  <2>2. CASE acc.batch # <<>>
    <3>1. batches = Append(acc.done, acc.batch)
      BY <1>7, <2>2 DEF YieldsRest
    <3> QED BY <1>5, <1>6, <2>2, <3>1, BatchDone
  <2> QED BY <2>1, <2>2
<1> QED BY <1>2, <1>4, <1>7, <1>8

\* batched, for any limits and texts: embed_texts may put the vectors of the
\* batches end to end.
THEOREM BatchesHold == BatchesPartition
<1> SUFFICES ASSUME NEW lengths \in Lengths
             PROVE  LET batches == Batched(lengths) IN
                    /\ FlattenSeq(batches) = lengths
                    /\ \A b \in DOMAIN batches :
                         /\ Len(batches[b]) \in 1..BatchSize
                         /\ BatchLength > 0 /\ Len(batches[b]) > 1 =>
                              SumOf(batches[b]) <= BatchLength
  BY DEF BatchesPartition
<1>1. lengths \in Seq(Nat)
  <2>1. PICK m \in 0..Bound : lengths \in [1..m -> 1..(MaxLength + 1)]
    BY DEF Lengths, BoundedSeq, SeqOf
  <2>2. m \in Nat
    BY AlgorithmsAssumption
  <2>3. MaxLength \in Nat
    BY AlgorithmsAssumption, Zenon
  <2>4. lengths \in [1..m -> Nat]
    BY <2>1, <2>3
  <2> QED BY <2>2, <2>4, IsSequence
<1>2. PICK batches : batches = Batched(lengths)
  OBVIOUS
<1>3. /\ batches \in Seq(Seq(Nat)) /\ FlattenSeq(batches) = lengths
      /\ \A b \in 1..Len(batches) : Fits(batches[b])
  BY <1>1, <1>2, BatchesFit
<1>4. DOMAIN batches = 1..Len(batches)
  BY <1>3
<1> QED BY <1>2, <1>3, <1>4 DEF Fits

-----------------------------------------------------------------------------
(* Utterances *)

Speakers == {"a", "b"}
Utterance == [speaker : Speakers, words : Seq(Nat)]
UtterAcc == [done : Seq(Utterance), words : Seq(Nat), speaker : Speakers]

\* The words of utterances, end to end.
Told(us) == FlattenSeq([u \in DOMAIN us |-> us[u].words])

Rising(s) == \A k, l \in 1..Len(s) : k < l => s[k] < s[l]

\* In order, up to a word, and with every word until then that says something.
Tells(s, words, upto) ==
    /\ s \in Seq(Nat) /\ Rising(s)
    /\ \A k \in 1..Len(s) : s[k] \in 1..upto
    /\ \A j \in 1..upto : ~words[j].blank => \E k \in 1..Len(s) : s[k] = j

\* The words that follow a given one, as many as there are.
RunsFrom(s, from) == s \in Seq(Nat) /\ \A k \in 1..Len(s) : s[k] = from + k

\* As an utterance has to be.
Utters(s, speaker, words) ==
    /\ Len(s) <= MaxWords
    /\ \A k \in 1..Len(s) : /\ words[s[k]].speaker = speaker
                            /\ k > MinWords => ~words[s[k]].pause

\* What has been made of the first i words.
Uttering(acc, words, i) ==
    /\ acc \in UtterAcc
    /\ Len(acc.words) <= i
    /\ RunsFrom(acc.words, i - Len(acc.words))
    /\ Tells(Told(acc.done), words, i - Len(acc.words))
    /\ \A u \in 1..Len(acc.done) : Utters(acc.done[u].words, acc.done[u].speaker, words)
    /\ Utters(acc.words, acc.speaker, words)
    /\ IF i = 0 THEN acc.words = <<>> /\ (Len(words) > 0 => acc.speaker = words[1].speaker)
       ELSE acc.words # <<>>

\* An utterance more puts its words at the end.
LEMMA ToldAppends ==
    ASSUME NEW us \in Seq(Utterance)
    PROVE  /\ us = <<>> => Told(us) = <<>>
           /\ Told(us) \in Seq(Nat)
           /\ \A u \in Utterance : Told(Append(us, u)) = Told(us) \o u.words
<1> DEFINE n == Len(us)
           all == [k \in 1..n |-> us[k].words]
<1>1. n \in Nat /\ DOMAIN us = 1..n /\ \A k \in 1..n : us[k] \in Utterance
  OBVIOUS
<1>2. all \in [1..n -> Seq(Nat)]
  BY <1>1 DEF Utterance
<1>3. Told(us) = FlattenSeq(all)
  BY <1>1 DEF Told
<1> HIDE DEF n
<1>4. \A k \in 1..n : all[k] = us[k].words
  OBVIOUS
<1> HIDE DEF all
<1>5. all \in Seq(Seq(Nat)) /\ Len(all) = n
  BY <1>1, <1>2, IsSequence
<1>6. Told(us) \in Seq(Nat)
  BY <1>3, <1>5, FlattenAppends
<1>7. us = <<>> => Told(us) = <<>>
  <2>1. us = <<>> => all = <<>>
    BY <1>5 DEF n
  <2> QED BY <1>3, <1>5, <2>1, FlattenAppends
<1>8. ASSUME NEW u \in Utterance PROVE Told(Append(us, u)) = Told(us) \o u.words
  <2>1. PICK longer : longer = Append(us, u)
    OBVIOUS
  <2>2. /\ longer \in Seq(Utterance) /\ Len(longer) = n + 1 /\ longer[n + 1] = u
        /\ DOMAIN longer = 1..(n + 1) /\ \A k \in 1..n : longer[k] = us[k]
    BY <2>1, AppendProperties DEF n
  <2>3. PICK s \in Seq(Nat) : s = u.words
    BY DEF Utterance
  <2>4. PICK more : more = Append(all, s)
    OBVIOUS
  <2>5. /\ more \in Seq(Seq(Nat)) /\ Len(more) = n + 1 /\ more[n + 1] = s
        /\ DOMAIN more = 1..(n + 1) /\ \A k \in 1..n : more[k] = all[k]
    BY <1>5, <2>4, AppendProperties
  <2>6. more = [k \in DOMAIN longer |-> longer[k].words]
    <3>1. \A k \in 1..(n + 1) : more[k] = longer[k].words
      <4>1. \A k \in 1..(n + 1) : k \in 1..n \/ k = n + 1
        BY <1>1
      <4> QED BY <1>4, <2>2, <2>3, <2>5, <4>1
    <3>2. more = [k \in 1..(n + 1) |-> more[k]]
      BY <2>5
    <3> QED BY <2>2, <3>1, <3>2
  <2>7. FlattenSeq(more) = FlattenSeq(all) \o s
    BY <1>5, <2>4, FlattenAppends
  <2> QED BY <1>3, <2>1, <2>3, <2>6, <2>7 DEF Told
<1> QED BY <1>6, <1>7, <1>8

\* What was told, and the words right after it.
LEMMA TellsOn ==
    ASSUME NEW words, NEW from \in Nat, NEW s, Tells(s, words, from),
           NEW t, RunsFrom(t, from)
    PROVE  Tells(s \o t, words, from + Len(t))
<1> DEFINE m == Len(s)
           n == Len(t)
<1>1. s \in Seq(Nat) /\ t \in Seq(Nat) /\ m \in Nat /\ n \in Nat
  BY DEF Tells, RunsFrom
<1>2. PICK r : r = s \o t
  OBVIOUS
<1>3. /\ r \in Seq(Nat) /\ Len(r) = m + n
      /\ \A k \in 1..(m + n) : r[k] = IF k <= m THEN s[k] ELSE t[k - m]
  BY <1>1, <1>2, ConcatProperties
<1>4. /\ \A k \in 1..m : s[k] \in 1..from
      /\ \A k \in 1..n : t[k] = from + k
      /\ \A k, l \in 1..m : k < l => s[k] < s[l]
      /\ \A j \in 1..from : ~words[j].blank => \E k \in 1..m : s[k] = j
  BY DEF Tells, RunsFrom, Rising
<1> HIDE DEF m, n
<1>5. /\ \A k \in 1..m : k \in 1..(m + n) /\ r[k] = s[k]
      /\ \A k \in (m + 1)..(m + n) : r[k] = from + (k - m)
  <2>1. ASSUME NEW k \in 1..m PROVE k \in 1..(m + n) /\ r[k] = s[k]
    BY <1>1, <1>3
  <2>2. ASSUME NEW k \in (m + 1)..(m + n) PROVE r[k] = from + (k - m)
    <3>1. k \in 1..(m + n) /\ ~(k <= m) /\ k - m \in 1..n
      BY <1>1
    <3> QED BY <1>3, <1>4, <3>1
  <2> QED BY <2>1, <2>2
<1>6. \A k \in 1..(m + n) : k \in 1..m \/ k \in (m + 1)..(m + n)
  BY <1>1
<1>7. \A k \in 1..(m + n) : r[k] \in 1..(from + n)
  <2> TAKE k \in 1..(m + n)
  <2>1. CASE k \in 1..m
    <3>1. r[k] = s[k] /\ s[k] \in 1..from
      BY <1>4, <1>5, <2>1
    <3>2. 1..from \subseteq 1..(from + n)
      BY <1>1
    <3> QED BY <3>1, <3>2
  <2>2. CASE k \in (m + 1)..(m + n)
    BY <1>1, <1>5, <2>2
  <2> QED BY <1>6, <2>1, <2>2
<1>8. \A k, l \in 1..(m + n) : k < l => r[k] < r[l]
  <2> TAKE k, l \in 1..(m + n)
  <2> HAVE k < l
  <2>1. CASE l \in 1..m
    <3>1. k \in 1..m
      BY <1>1, <2>1
    <3> QED BY <1>4, <1>5, <2>1, <3>1
  <2>2. CASE k \in 1..m /\ l \in (m + 1)..(m + n)
    <3>1. r[k] \in 1..from /\ r[l] = from + (l - m)
      BY <1>4, <1>5, <2>2
    <3> QED BY <1>1, <2>2, <3>1
  <2>3. CASE k \in (m + 1)..(m + n)
    <3>1. l \in (m + 1)..(m + n)
      BY <1>1, <2>3
    <3>2. r[k] = from + (k - m) /\ r[l] = from + (l - m)
      BY <1>5, <2>3, <3>1
    <3> QED BY <1>1, <3>2
  <2> QED BY <1>6, <2>1, <2>2, <2>3
<1>9. \A j \in 1..(from + n) : ~words[j].blank => \E k \in 1..(m + n) : r[k] = j
  <2> TAKE j \in 1..(from + n)
  <2> HAVE ~words[j].blank
  <2>1. CASE j \in 1..from
    BY <1>4, <1>5, <2>1
  <2>2. CASE j \notin 1..from
    <3>1. (m + (j - from)) \in (m + 1)..(m + n) /\ (m + (j - from)) \in 1..(m + n)
      BY <1>1, <2>2
    <3>2. r[m + (j - from)] = from + ((m + (j - from)) - m)
      BY <1>5, <3>1
    <3>3. r[m + (j - from)] = j
      BY <1>1, <3>2
    <3> QED BY <3>1, <3>3
  <2> QED BY <2>1, <2>2
<1>10. Tells(r, words, from + n)
  BY <1>3, <1>7, <1>8, <1>9 DEF Tells, Rising
<1> QED BY <1>2, <1>10 DEF n

\* Words that say nothing need not be told.
LEMMA TellsNothing ==
    ASSUME NEW words, NEW from \in Nat, NEW s, Tells(s, words, from),
           NEW t, RunsFrom(t, from), \A i \in ToSet(t) : words[i].blank
    PROVE  Tells(s, words, from + Len(t))
<1> DEFINE n == Len(t)
<1>1. s \in Seq(Nat) /\ t \in Seq(Nat) /\ n \in Nat
  BY DEF Tells, RunsFrom
<1>2. ASSUME NEW j \in 1..(from + n), ~words[j].blank
      PROVE  \E k \in 1..Len(s) : s[k] = j
  <2>1. j \in 1..from
    <3>1. SUFFICES ASSUME j \notin 1..from PROVE FALSE
      OBVIOUS
    <3>2. j - from \in 1..n /\ from + (j - from) = j
      BY <1>1, <3>1
    <3>3. PICK k \in 1..n : k = j - from
      BY <3>2
    <3>4. t[k] = j
      BY <3>2, <3>3 DEF RunsFrom
    <3>5. j \in ToSet(t)
      BY <1>1, <3>4 DEF ToSet
    <3> QED BY <1>2, <3>5
  <2> QED BY <1>2, <2>1 DEF Tells
<1>3. \A k \in 1..Len(s) : s[k] \in 1..(from + n)
  BY <1>1 DEF Tells
<1> QED BY <1>2, <1>3 DEF Tells

\* An utterance is put away, unless it says nothing.
LEMMA UtterDone ==
    ASSUME NEW words, NEW i \in Nat, NEW acc, Uttering(acc, words, i)
    PROVE  /\ Utter(acc, words) \in Seq(Utterance)
           /\ Tells(Told(Utter(acc, words)), words, i)
           /\ \A u \in 1..Len(Utter(acc, words)) :
                Utters(Utter(acc, words)[u].words, Utter(acc, words)[u].speaker, words)
<1>1. /\ acc.done \in Seq(Utterance) /\ acc.words \in Seq(Nat) /\ acc.speaker \in Speakers
      /\ Len(acc.words) \in Nat /\ Len(acc.done) \in Nat
  BY DEF Uttering, UtterAcc
<1>2. PICK from \in Nat : from = i - Len(acc.words) /\ from + Len(acc.words) = i
  <2>1. Len(acc.words) <= i
    BY DEF Uttering
  <2>2. i - Len(acc.words) \in Nat /\ (i - Len(acc.words)) + Len(acc.words) = i
    BY <1>1, <2>1
  <2> QED BY <2>2
<1>3. PICK s : s = acc.words
  OBVIOUS
<1>4. RunsFrom(s, from) /\ Tells(Told(acc.done), words, from) /\ from + Len(s) = i
  BY <1>2, <1>3 DEF Uttering
<1>5. CASE \A j \in ToSet(acc.words) : words[j].blank
  <2>1. Utter(acc, words) = acc.done
    BY <1>5 DEF Utter
  <2>2. Tells(Told(acc.done), words, from + Len(s))
    BY <1>3, <1>4, <1>5, TellsNothing
  <2> QED BY <1>1, <1>4, <2>1, <2>2 DEF Uttering
<1>6. CASE ~(\A j \in ToSet(acc.words) : words[j].blank)
  <2>1. PICK u : u = [speaker |-> acc.speaker, words |-> acc.words]
    OBVIOUS
  <2>2. u \in Utterance /\ u.words = s /\ u.speaker = acc.speaker
    BY <1>1, <1>3, <2>1 DEF Utterance
  <2>3. PICK longer : longer = Append(acc.done, u)
    OBVIOUS
  <2>4. Utter(acc, words) = longer
    BY <1>6, <2>1, <2>3 DEF Utter
  <2>5. /\ longer \in Seq(Utterance) /\ Len(longer) = Len(acc.done) + 1
        /\ longer[Len(acc.done) + 1] = u
        /\ \A k \in 1..Len(acc.done) : longer[k] = acc.done[k]
    BY <1>1, <2>2, <2>3, AppendProperties
  <2>6. Told(longer) = Told(acc.done) \o s
    BY <1>1, <2>2, <2>3, ToldAppends
  <2>7. Tells(Told(longer), words, i)
    <3>1. Tells(Told(acc.done) \o s, words, from + Len(s))
      BY <1>4, TellsOn
    <3> QED BY <1>4, <2>6, <3>1
  <2>8. ASSUME NEW k \in 1..Len(longer)
        PROVE  Utters(longer[k].words, longer[k].speaker, words)
    <3>1. k \in 1..Len(acc.done) \/ k = Len(acc.done) + 1
      BY <1>1, <2>5
    <3>2. Utters(u.words, u.speaker, words)
      BY <1>3, <2>2 DEF Uttering
    <3> QED BY <2>5, <3>1, <3>2 DEF Uttering
  <2> QED BY <2>4, <2>5, <2>7, <2>8
<1> QED BY <1>5, <1>6

\* A run of one word.
LEMMA OneWord ==
    ASSUME NEW i \in Nat, NEW one, one = <<i + 1>>
    PROVE  one \in Seq(Nat) /\ Len(one) = 1 /\ one[1] = i + 1 /\ one # <<>> /\ RunsFrom(one, i)
<1>1. i + 1 \in Nat
  OBVIOUS
<1>2. one \in Seq(Nat) /\ Len(one) = 1 /\ one[1] = i + 1 /\ one # <<>>
  BY <1>1
<1>3. RunsFrom(one, i)
  BY <1>2 DEF RunsFrom
<1> QED BY <1>2, <1>3

\* A word more.
LEMMA WordUtters ==
    ASSUME NEW words \in Seq(Word), NEW i \in 0..(Len(words) - 1),
           NEW acc, Uttering(acc, words, i)
    PROVE  Uttering(AddWord(acc, words, i + 1), words, i + 1)
<1>1. /\ acc.done \in Seq(Utterance) /\ acc.words \in Seq(Nat) /\ acc.speaker \in Speakers
      /\ acc \in UtterAcc /\ Len(acc.words) \in Nat /\ Len(acc.words) <= i
      /\ (acc.words = <<>> <=> Len(acc.words) = 0)
  <2>1. acc.words \in Seq(Nat) /\ Len(acc.words) <= i
    BY DEF Uttering, UtterAcc
  <2> QED BY <2>1 DEF Uttering, UtterAcc
<1>2. i \in Nat /\ i + 1 \in 1..Len(words) /\ i + 1 # 0
  OBVIOUS
<1>3. PICK w \in Word : w = words[i + 1]
  BY <1>2
<1>4. w.speaker \in Speakers
  BY DEF Word, Speakers
<1>5. MinWords \in Nat \ {0} /\ MaxWords \in Nat /\ MinWords <= MaxWords
  BY AlgorithmsAssumption, Zenon
<1> DEFINE cut == acc.words # <<>> /\ Cuts(acc, w)
<1>6. CASE cut
  <2>1. PICK one, done, speaker :
          one = <<i + 1>> /\ done = Utter(acc, words) /\ speaker = w.speaker
    OBVIOUS
  <2>2. PICK new : new = [done |-> done, words |-> one, speaker |-> speaker]
    OBVIOUS
  <2>3. AddWord(acc, words, i + 1) = new
    BY <1>3, <1>6, <2>1, <2>2 DEF AddWord, NextSpeaker
  <2>4. one \in Seq(Nat) /\ Len(one) = 1 /\ one[1] = i + 1 /\ one # <<>> /\ RunsFrom(one, i)
    BY <1>2, <2>1, OneWord
  <2>5. /\ done \in Seq(Utterance) /\ Tells(Told(done), words, i)
        /\ \A u \in 1..Len(done) : Utters(done[u].words, done[u].speaker, words)
    BY <1>2, <2>1, UtterDone
  <2>6. new.done = done /\ new.words = one /\ new.speaker = speaker /\ new \in UtterAcc
    BY <1>4, <2>1, <2>2, <2>4, <2>5 DEF UtterAcc
  <2>7. Utters(one, speaker, words)
    <3>1. \A k \in 1..Len(one) : k = 1
      BY <2>4
    <3>2. words[one[1]] = w
      BY <1>3, <2>4
    <3>3. Len(one) <= MaxWords /\ ~(1 > MinWords)
      BY <1>5, <2>4
    <3> QED BY <2>1, <3>1, <3>2, <3>3 DEF Utters
  <2>8. PICK j : j = i + 1
    OBVIOUS
  <2>9. Len(one) <= j /\ j - Len(one) = i /\ j # 0
    BY <1>2, <2>4, <2>8
  <2>10. Uttering(new, words, j)
    <3>1. RunsFrom(new.words, j - Len(new.words)) /\ Len(new.words) <= j
      BY <2>4, <2>6, <2>9
    <3>2. Tells(Told(new.done), words, j - Len(new.words))
      BY <2>5, <2>6, <2>9
    <3>3. /\ \A u \in 1..Len(new.done) : Utters(new.done[u].words, new.done[u].speaker, words)
          /\ Utters(new.words, new.speaker, words) /\ new.words # <<>>
      BY <2>4, <2>5, <2>6, <2>7
    <3> QED BY <2>6, <2>9, <3>1, <3>2, <3>3 DEF Uttering
  <2> QED BY <2>3, <2>8, <2>10
<1>7. CASE ~cut
  <2>1. PICK more : more = Append(acc.words, i + 1)
    OBVIOUS
  <2>2. PICK new : new = [acc EXCEPT !.words = more]
    OBVIOUS
  <2>3. AddWord(acc, words, i + 1) = new
    BY <1>3, <1>7, <2>1, <2>2 DEF AddWord
  <2>4. PICK m \in Nat : m = Len(acc.words)
    BY <1>1
  <2>5. /\ more \in Seq(Nat) /\ Len(more) = m + 1 /\ more[m + 1] = i + 1 /\ more # <<>>
        /\ \A k \in 1..m : more[k] = acc.words[k]
    <3>1. PICK old \in Seq(Nat) : old = acc.words
      BY <1>1
    <3>2. more = Append(old, i + 1) /\ i + 1 \in Nat
      BY <1>2, <2>1, <3>1
    <3>3. more \in Seq(Nat) /\ Len(more) = Len(old) + 1 /\ more[Len(old) + 1] = i + 1
          /\ \A k \in 1..Len(old) : more[k] = old[k]
      BY <3>2, AppendProperties
    <3> QED BY <2>4, <3>1, <3>3
  <2>6. new.done = acc.done /\ new.words = more /\ new.speaker = acc.speaker /\ new \in UtterAcc
    <3>1. new.done = acc.done /\ new.words = more /\ new.speaker = acc.speaker
      BY <1>1, <2>2 DEF UtterAcc
    <3>2. new \in UtterAcc
      BY <1>1, <2>2, <2>5 DEF UtterAcc
    <3> QED BY <3>1, <3>2
  <2>7. PICK j \in Nat : j = i + 1
    BY <1>2
  <2>8. Len(more) <= j /\ j - Len(more) = i - m /\ j # 0 /\ m <= i
    BY <1>1, <1>2, <2>4, <2>5, <2>7
  <2>9. \A k \in 1..(m + 1) : k \in 1..m \/ k = m + 1
    BY <2>4
  <2>10. RunsFrom(more, i - m)
    <3>1. \A k \in 1..m : acc.words[k] = i - m + k
      BY <2>4 DEF Uttering, RunsFrom
    <3>2. i + 1 = i - m + (m + 1)
      <4>1. i \in Nat /\ m \in Nat
        BY <1>2, <2>4
      <4> QED BY <4>1
    <3>3. \A k \in 1..(m + 1) : more[k] = i - m + k
      BY <2>5, <2>9, <3>1, <3>2
    <3> QED BY <2>5, <3>3 DEF RunsFrom
  <2>11. Utters(more, acc.speaker, words)
    <3>1. words[more[m + 1]] = w
      BY <1>3, <2>5
    <3>2. Utters(acc.words, acc.speaker, words)
      BY DEF Uttering
    <3>3. m + 1 <= MaxWords /\ w.speaker = acc.speaker /\ (m + 1 > MinWords => ~w.pause)
      <4>1. CASE acc.words = <<>>
        <5>1. m = 0 /\ i = 0
          BY <1>1, <2>4, <4>1 DEF Uttering
        <5>2. acc.speaker = words[1].speaker
          BY <1>2, <5>1 DEF Uttering
        <5> QED BY <1>3, <1>5, <5>1, <5>2
      <4>2. CASE acc.words # <<>>
        <5>1. /\ w.speaker = acc.speaker /\ ~(Len(acc.words) >= MaxWords)
              /\ ~(Len(acc.words) >= MinWords /\ w.pause)
          BY <1>7, <4>2 DEF Cuts
        <5> QED BY <1>5, <2>4, <5>1
      <4> QED BY <4>1, <4>2
    <3>4. ASSUME NEW k \in 1..(m + 1)
          PROVE  words[more[k]].speaker = acc.speaker /\ (k > MinWords => ~words[more[k]].pause)
      <4>1. CASE k \in 1..m
        BY <2>4, <2>5, <3>2, <4>1 DEF Utters
      <4>2. CASE k = m + 1
        BY <3>1, <3>3, <4>2
      <4> QED BY <2>9, <4>1, <4>2
    <3> QED BY <2>5, <3>3, <3>4 DEF Utters
  <2>12. Uttering(new, words, j)
    <3>1. RunsFrom(new.words, j - Len(new.words)) /\ Len(new.words) <= j
      BY <2>6, <2>8, <2>10
    <3>2. Tells(Told(new.done), words, j - Len(new.words))
      <4>1. Tells(Told(acc.done), words, i - m)
        BY <2>4 DEF Uttering
      <4> QED BY <2>6, <2>8, <4>1
    <3>3. /\ \A u \in 1..Len(new.done) : Utters(new.done[u].words, new.done[u].speaker, words)
          /\ Utters(new.words, new.speaker, words) /\ new.words # <<>>
      BY <2>5, <2>6, <2>11 DEF Uttering
    <3> QED BY <2>6, <2>8, <3>1, <3>2, <3>3 DEF Uttering
  <2> QED BY <2>3, <2>7, <2>12
<1> QED BY <1>6, <1>7

\* Adding a word to anything typed gives something typed.
LEMMA WordTyped ==
    ASSUME NEW words \in Seq(Word), NEW acc \in UtterAcc, NEW i \in 1..Len(words)
    PROVE  AddWord(acc, words, i) \in UtterAcc
<1>1. acc.done \in Seq(Utterance) /\ acc.words \in Seq(Nat) /\ acc.speaker \in Speakers
  BY DEF UtterAcc
<1>2. words[i].speaker \in Speakers /\ i \in Nat
  <2>1. words[i] \in Word
    OBVIOUS
  <2> QED BY <2>1 DEF Word, Speakers
<1>3. PICK one, more, done, speaker, u :
        /\ one = <<i>> /\ more = Append(acc.words, i) /\ done = Utter(acc, words)
        /\ speaker = words[i].speaker /\ u = [speaker |-> acc.speaker, words |-> acc.words]
  OBVIOUS
<1>4. one \in Seq(Nat) /\ more \in Seq(Nat) /\ u \in Utterance
  BY <1>1, <1>2, <1>3 DEF Utterance
<1>5. done \in Seq(Utterance)
  <2>1. Append(acc.done, u) \in Seq(Utterance)
    BY <1>1, <1>4, AppendProperties
  <2> QED BY <1>1, <1>3, <2>1 DEF Utter
<1>6. [done |-> done, words |-> one, speaker |-> speaker] \in UtterAcc
  BY <1>2, <1>3, <1>4, <1>5 DEF UtterAcc
<1>7. [acc EXCEPT !.words = more] \in UtterAcc
  BY <1>4 DEF UtterAcc
<1> QED BY <1>3, <1>6, <1>7 DEF AddWord, NextSpeaker

NoWords(words) == [done |-> <<>>, words |-> <<>>, speaker |-> words[1].speaker]

UtterStep(words, f) ==
    f = [i \in 0..Len(words) |-> IF i = 0 THEN NoWords(words) ELSE AddWord(f[i - 1], words, i)]

\* The utterances grow a word at a time.
LEMMA UtterancesRun ==
    ASSUME NEW words \in Seq(Word), words # <<>>
    PROVE  \E f : /\ Utterances(words) = Utter(f[Len(words)], words)
                  /\ f[0] = NoWords(words)
                  /\ \A i \in 1..Len(words) : f[i] = AddWord(f[i - 1], words, i)
<1> DEFINE n == Len(words)
           step == [i \in 1..n |-> [v \in UtterAcc |-> AddWord(v, words, i)]]
           first == NoWords(words)
<1>1. n \in Nat /\ first \in UtterAcc
  <2>1. 1 \in 1..n /\ n \in Nat
    OBVIOUS
  <2>2. words[1] \in Word
    BY <2>1
  <2>3. words[1].speaker \in Speakers
    BY <2>2 DEF Word, Speakers
  <2>4. PICK e : e = <<>>
    OBVIOUS
  <2>5. e \in Seq(Utterance) /\ e \in Seq(Nat)
    BY <2>4, EmptySeq
  <2> QED BY <2>1, <2>3, <2>4, <2>5 DEF NoWords, UtterAcc
<1> HIDE DEF first
<1>2. step \in [1..n -> [UtterAcc -> UtterAcc]]
  BY WordTyped
<1> HIDE DEF n
<1>3. \A i \in 1..n, v \in UtterAcc : step[i][v] = AddWord(v, words, i)
  OBVIOUS
<1> HIDE DEF step
<1>4. PICK f \in [0..n -> UtterAcc] : Recurs(f, first, step, n)
  BY <1>1, <1>2, RecursiveFunction
<1>5. UtterStep(words, f)
  <2>1. ASSUME NEW i \in 0..n
        PROVE  f[i] = IF i = 0 THEN first ELSE AddWord(f[i - 1], words, i)
    <3>1. CASE i = 0
      BY <1>4, <3>1 DEF Recurs
    <3>2. CASE i # 0
      <4>1. i \in 1..n /\ i - 1 \in 0..n
        BY <1>1, <3>2
      <4>2. f[i] = step[i][f[i - 1]] /\ f[i - 1] \in UtterAcc
        BY <1>4, <3>2, <4>1 DEF Recurs
      <4> QED BY <1>3, <3>2, <4>1, <4>2
    <3> QED BY <3>1, <3>2
  <2>2. f = [i \in 0..n |-> f[i]]
    OBVIOUS
  <2>3. f = [i \in 0..n |-> IF i = 0 THEN first ELSE AddWord(f[i - 1], words, i)]
    BY <2>1, <2>2, Zenon
  <2> QED BY <2>3 DEF UtterStep, n, first
<1> DEFINE g == CHOOSE g : UtterStep(words, g)
<1>6. UtterStep(words, g)
  BY <1>5
<1>7. Utterances(words) = Utter(g[n], words)
  BY DEF Utterances, UtterStep, NoWords, n
<1> HIDE DEF g
<1>8. g[0] = NoWords(words) /\ \A i \in 1..n : g[i] = AddWord(g[i - 1], words, i)
  <2>1. \A i \in 0..n : g[i] = IF i = 0 THEN NoWords(words) ELSE AddWord(g[i - 1], words, i)
    BY <1>6, Zenon DEF UtterStep, n
  <2>2. 0 \in 0..n /\ \A i \in 1..n : i \in 0..n /\ i # 0
    BY <1>1
  <2> QED BY <2>1, <2>2, Zenon
<1> QED BY <1>7, <1>8 DEF n

\* The utterances of any words.
LEMMA UtterancesTell ==
    ASSUME NEW words \in Seq(Word), words # <<>>
    PROVE  /\ Utterances(words) \in Seq(Utterance)
           /\ Tells(Told(Utterances(words)), words, Len(words))
           /\ \A u \in 1..Len(Utterances(words)) :
                Utters(Utterances(words)[u].words, Utterances(words)[u].speaker, words)
<1> DEFINE n == Len(words)
<1>1. n \in Nat
  OBVIOUS
<1>2. PICK f : /\ Utterances(words) = Utter(f[n], words)
               /\ f[0] = NoWords(words)
               /\ \A i \in 1..n : f[i] = AddWord(f[i - 1], words, i)
  BY UtterancesRun
<1> HIDE DEF n
<1> DEFINE P == {m \in Nat : m <= n => Uttering(f[m], words, m)}
<1>3. 0 \in P
  <2>1. PICK e : e = <<>>
    OBVIOUS
  <2>2. e \in Seq(Utterance) /\ e \in Seq(Nat) /\ Len(e) = 0
    BY <2>1, EmptySeq
  <2>3. PICK acc : acc = NoWords(words)
    OBVIOUS
  <2>4. words[1].speaker \in Speakers
    <3>1. 1 \in 1..Len(words)
      OBVIOUS
    <3>2. words[1] \in Word
      BY <3>1
    <3> QED BY <3>2 DEF Word, Speakers
  <2>5. acc.done = e /\ acc.words = e /\ acc.speaker = words[1].speaker /\ acc \in UtterAcc
    BY <2>1, <2>2, <2>3, <2>4 DEF NoWords, UtterAcc
  <2>6. RunsFrom(e, 0) /\ Utters(e, acc.speaker, words)
    <3>1. MaxWords \in Nat
      BY AlgorithmsAssumption, Zenon
    <3> QED BY <2>2, <3>1 DEF RunsFrom, Utters
  <2>7. Told(e) = e
    BY <2>1, <2>2, ToldAppends
  <2>8. Tells(e, words, 0)
    BY <2>2 DEF Tells, Rising
  <2>9. 0 - Len(e) = 0
    BY <2>2
  <2>10. Uttering(acc, words, 0)
    <3>1. /\ Len(acc.words) <= 0 /\ acc.words = <<>>
          /\ RunsFrom(acc.words, 0 - Len(acc.words))
          /\ Tells(Told(acc.done), words, 0 - Len(acc.words))
      BY <2>1, <2>2, <2>5, <2>6, <2>7, <2>8, <2>9
    <3>2. \A u \in 1..Len(acc.done) : Utters(acc.done[u].words, acc.done[u].speaker, words)
      BY <2>2, <2>5
    <3> QED BY <2>5, <2>6, <3>1, <3>2 DEF Uttering
  <2> QED BY <1>2, <2>3, <2>10
<1>4. ASSUME NEW m \in P PROVE m + 1 \in P
  <2> SUFFICES ASSUME m + 1 <= n PROVE Uttering(f[m + 1], words, m + 1)
    OBVIOUS
  <2>1. m + 1 \in 1..n /\ m + 1 - 1 = m /\ Uttering(f[m], words, m)
    BY <1>1
  <2>2. PICK k : k = m + 1
    OBVIOUS
  <2>3. f[k] = AddWord(f[k - 1], words, k) /\ k - 1 = m
    BY <1>2, <2>1, <2>2
  <2>4. m \in 0..(Len(words) - 1)
    BY <1>1, <2>1 DEF n
  <2>5. Uttering(AddWord(f[m], words, m + 1), words, m + 1)
    BY <2>1, <2>4, WordUtters
  <2> QED BY <2>2, <2>3, <2>5
<1> HIDE DEF P
<1>5. P = Nat
  <2>1. P \in SUBSET Nat
    BY DEF P
  <2> QED BY <1>3, <1>4, <2>1, Induction
<1>6. Uttering(f[n], words, n)
  BY <1>1, <1>5 DEF P
<1> QED BY <1>1, <1>2, <1>6, UtterDone DEF n

\* _utterances_from_words, for any limits and words: every word that says
\* something is in one utterance, of its own speaker and in order, and none
\* runs on past the hard limit or a pause it could have ended at.
THEOREM UtterancesHold == UtterancesPartition
<1> SUFFICES ASSUME NEW words \in BoundedSeq(Word, Bound)
             PROVE  LET us == Utterances(words)
                        all == FlattenSeq([u \in DOMAIN us |-> us[u].words])
                    IN /\ \A i, j \in DOMAIN all : i < j => all[i] < all[j]
                       /\ \A i \in DOMAIN words : ~words[i].blank => i \in ToSet(all)
                       /\ \A u \in DOMAIN us :
                            /\ Len(us[u].words) <= MaxWords
                            /\ \A i \in DOMAIN us[u].words :
                                 /\ words[us[u].words[i]].speaker = us[u].speaker
                                 /\ i > MinWords => ~words[us[u].words[i]].pause
  BY DEF UtterancesPartition
<1>1. words \in Seq(Word) /\ DOMAIN words = 1..Len(words)
  <2>1. PICK m \in 0..Bound : words \in [1..m -> Word]
    BY DEF BoundedSeq, SeqOf
  <2>2. m \in Nat
    <3>1. Bound \in Nat
      BY AlgorithmsAssumption, Zenon
    <3> QED BY <3>1
  <2> QED BY <2>1, <2>2, IsSequence
<1>2. PICK us : us = Utterances(words)
  OBVIOUS
<1>3. PICK all : all = Told(us)
  OBVIOUS
<1>4. /\ us \in Seq(Utterance) /\ Tells(all, words, Len(words))
      /\ \A u \in 1..Len(us) : Utters(us[u].words, us[u].speaker, words)
  <2>1. CASE words = <<>>
    <3>1. PICK e : e = <<>>
      OBVIOUS
    <3>2. us = e
      BY <1>2, <2>1, <3>1 DEF Utterances
    <3>3. e \in Seq(Utterance) /\ e \in Seq(Nat) /\ Len(e) = 0
      BY <3>1, EmptySeq
    <3>4. all = e
      BY <1>3, <3>1, <3>2, <3>3, ToldAppends
    <3>5. Len(words) = 0
      BY <2>1, EmptySeq
    <3> QED BY <3>2, <3>3, <3>4, <3>5 DEF Tells, Rising
  <2>2. CASE words # <<>>
    BY <1>1, <1>2, <1>3, <2>2, UtterancesTell
  <2> QED BY <2>1, <2>2
<1>5. all \in Seq(Nat) /\ DOMAIN all = 1..Len(all) /\ DOMAIN us = 1..Len(us)
  BY <1>4 DEF Tells
<1>6. \A i, j \in DOMAIN all : i < j => all[i] < all[j]
  BY <1>4, <1>5 DEF Tells, Rising
<1>7. \A i \in DOMAIN words : ~words[i].blank => i \in ToSet(all)
  BY <1>1, <1>4, <1>5 DEF Tells, ToSet
<1>8. ASSUME NEW u \in DOMAIN us
      PROVE  /\ Len(us[u].words) <= MaxWords
             /\ \A i \in DOMAIN us[u].words :
                  /\ words[us[u].words[i]].speaker = us[u].speaker
                  /\ i > MinWords => ~words[us[u].words[i]].pause
  <2>1. us[u] \in Utterance /\ Utters(us[u].words, us[u].speaker, words)
    BY <1>4, <1>5
  <2>2. DOMAIN us[u].words = 1..Len(us[u].words)
    BY <2>1 DEF Utterance
  <2> QED BY <2>1, <2>2 DEF Utters
<1> QED BY <1>2, <1>3, <1>6, <1>7, <1>8 DEF Told

\* What is said is cut into utterances, windows and batches, and a file into
\* parts, for any limits and inputs: all of it is there afterwards, in order.
THEOREM CutsHold == CutsAreExact
BY WindowsHold, BatchesHold, UtterancesHold, PartsHold, ManifestHolds DEF CutsAreExact

-----------------------------------------------------------------------------
(* What is put in an order *)

\* The first place of a key, and none where it is not.
LEMMA Places ==
    ASSUME NEW S, NEW keys \in Seq(S), NEW x
    PROVE  /\ Place(keys, x) \in 0..Len(keys)
           /\ Place(keys, x) # 0 => /\ Place(keys, x) \in 1..Len(keys)
                                    /\ keys[Place(keys, x)] = x
           /\ \A i \in 1..Len(keys) : keys[i] = x => Place(keys, x) # 0 /\ Place(keys, x) <= i
<1> DEFINE I == {i \in 1..Len(keys) : keys[i] = x}
<1>1. Len(keys) \in Nat
  OBVIOUS
<1>2. Place(keys, x) = IF I # {} THEN CHOOSE p \in I : \A q \in I : p =< q ELSE 0
  BY DEF Place, SelectInSeq, Min
<1>3. CASE I = {}
  <2>1. Place(keys, x) = 0
    BY <1>2, <1>3
  <2>2. 0 \in 0..Len(keys)
    BY <1>1
  <2> QED BY <1>3, <2>1, <2>2
<1>4. CASE I # {}
  <2>1. \E p \in I : \A q \in I : p =< q
    <3>1. I \in SUBSET Nat
      OBVIOUS
    <3> HIDE DEF I
    <3> QED BY <1>4, <3>1, LeastElement
  <2>2. Place(keys, x) \in I /\ \A q \in I : Place(keys, x) =< q
    <3> HIDE DEF I
    <3> QED BY <1>2, <1>4, <2>1
  <2> QED BY <1>1, <2>2
<1> QED BY <1>3, <1>4

\* A strict total order, as the set of the pairs in it.
Orders(R, S) ==
    /\ \A x \in S : <<x, x>> \notin R
    /\ \A x, y \in S : x # y => <<x, y>> \in R \/ <<y, x>> \in R
    /\ \A x, y, z \in S : <<x, y>> \in R /\ <<y, z>> \in R => <<x, z>> \in R

\* Each element once, and in the order.
Arranges(s, R, S) ==
    /\ s \in [1..Cardinality(S) -> S]
    /\ \A i, j \in 1..Cardinality(S) : i # j => s[i] # s[j]
    /\ \A x \in S : \E i \in 1..Cardinality(S) : s[i] = x
    /\ \A i, j \in 1..Cardinality(S) : i < j => <<s[i], s[j]>> \in R

\* A finite set has an arrangement: its elements by how many come before each.
LEMMA Arrangement ==
    ASSUME NEW S, IsFiniteSet(S), NEW R, Orders(R, S)
    PROVE  \E s : Arranges(s, R, S)
<1> DEFINE n == Cardinality(S)
           Below(x) == {y \in S : <<y, x>> \in R}
           rank == [x \in S |-> Cardinality(Below(x)) + 1]
<1>1. n \in Nat
  BY FS_CardinalityType
<1>2. \A x \in S : IsFiniteSet(Below(x)) /\ Cardinality(Below(x)) \in Nat
  <2> TAKE x \in S
  <2>1. Below(x) \in SUBSET S
    OBVIOUS
  <2> HIDE DEF Below
  <2>2. IsFiniteSet(Below(x))
    BY <2>1, FS_Subset
  <2> QED BY <2>2, FS_CardinalityType
<1>3. \A x \in S : rank[x] \in 1..n
  <2> TAKE x \in S
  <2>1. Below(x) \in SUBSET S /\ Below(x) # S
    BY DEF Orders
  <2>2. rank[x] = Cardinality(Below(x)) + 1
    OBVIOUS
  <2> HIDE DEF Below, rank
  <2>3. Cardinality(Below(x)) <= n /\ Cardinality(Below(x)) # n
    BY <2>1, FS_Subset
  <2> QED BY <1>1, <1>2, <2>2, <2>3
<1>4. \A x, y \in S : <<x, y>> \in R => rank[x] < rank[y]
  <2> TAKE x, y \in S
  <2> HAVE <<x, y>> \in R
  <2>1. Below(x) \in SUBSET Below(y) /\ x \in Below(y) /\ x \notin Below(x)
    BY DEF Orders
  <2>2. rank[x] = Cardinality(Below(x)) + 1 /\ rank[y] = Cardinality(Below(y)) + 1
    OBVIOUS
  <2> HIDE DEF Below, rank
  <2>3. /\ Cardinality(Below(x)) <= Cardinality(Below(y))
        /\ Cardinality(Below(x)) # Cardinality(Below(y))
    BY <1>2, <2>1, FS_Subset
  <2> QED BY <1>2, <2>2, <2>3
<1> HIDE DEF rank
<1>5. \A x, y \in S : rank[x] = rank[y] => x = y
  <2> TAKE x, y \in S
  <2> HAVE rank[x] = rank[y]
  <2>1. SUFFICES ASSUME x # y PROVE FALSE
    OBVIOUS
  <2>2. <<x, y>> \in R \/ <<y, x>> \in R
    BY <2>1 DEF Orders
  <2>3. rank[x] < rank[y] \/ rank[y] < rank[x]
    BY <1>4, <2>2
  <2>4. rank[x] \in Nat /\ rank[y] \in Nat
    BY <1>1, <1>3
  <2> QED BY <2>3, <2>4
<1>6. rank \in [S -> 1..n]
  <2>1. rank = [x \in S |-> rank[x]]
    BY DEF rank
  <2> QED BY <1>3, <2>1
<1>7. \A i \in 1..n : \E x \in S : rank[x] = i
  <2>1. rank \in Injection(S, 1..n)
    BY <1>5, <1>6 DEF Injection, IsInjective
  <2>2. IsFiniteSet(1..n) /\ Cardinality(1..n) = n
    <3>1. Cardinality(1..n) = IF 1 > n THEN 0 ELSE n - 1 + 1
      BY <1>1, FS_Interval
    <3>2. IsFiniteSet(1..n)
      BY <1>1, FS_Interval
    <3> HIDE DEF n
    <3> QED BY <1>1, <3>1, <3>2
  <2>3. rank \in Surjection(S, 1..n)
    BY <2>1, <2>2, FS_Injection
  <2> QED BY <2>3 DEF Surjection
<1> DEFINE s == [i \in 1..n |-> CHOOSE x \in S : rank[x] = i]
<1>8. \A i \in 1..n : s[i] \in S /\ rank[s[i]] = i
  BY <1>7
<1>9. s \in [1..n -> S]
  BY <1>8
<1> HIDE DEF s, n
<1>10. \A i, j \in 1..n : i < j => <<s[i], s[j]>> \in R
  <2> TAKE i, j \in 1..n
  <2> HAVE i < j
  <2>1. s[i] \in S /\ s[j] \in S /\ rank[s[i]] = i /\ rank[s[j]] = j
    BY <1>8
  <2>2. s[i] # s[j]
    BY <2>1
  <2>3. ASSUME <<s[j], s[i]>> \in R PROVE FALSE
    <3>1. rank[s[j]] < rank[s[i]]
      BY <1>4, <2>1, <2>3
    <3> QED BY <1>1, <2>1, <3>1
  <2> QED BY <2>1, <2>2, <2>3 DEF Orders
<1>11. \A i, j \in 1..n : i # j => s[i] # s[j]
  BY <1>8
<1>12. \A x \in S : \E i \in 1..n : s[i] = x
  <2> TAKE x \in S
  <2>1. rank[x] \in 1..n
    BY <1>3
  <2>2. s[rank[x]] \in S /\ rank[s[rank[x]]] = rank[x]
    BY <1>8, <2>1
  <2> QED BY <1>5, <2>1, <2>2
<1> QED BY <1>9, <1>10, <1>11, <1>12 DEF Arranges, n

\* What SetToSeqs gives has each element once.
LEMMA AllThere ==
    ASSUME NEW S, IsFiniteSet(S), NEW s \in SetToSeqs(S)
    PROVE  /\ Cardinality(S) \in Nat /\ s \in [1..Cardinality(S) -> S]
           /\ \A i, j \in 1..Cardinality(S) : i # j => s[i] # s[j]
           /\ \A x \in S : \E i \in 1..Cardinality(S) : s[i] = x
<1> DEFINE n == Cardinality(S)
<1>1. n \in Nat
  BY FS_CardinalityType
<1>2. s \in [1..n -> S] /\ \A i, j \in 1..n : i # j => s[i] # s[j]
  BY DEF SetToSeqs
<1> HIDE DEF n
<1>3. \A x \in S : \E i \in 1..n : s[i] = x
  <2>1. s \in Injection(1..n, S)
    BY <1>2 DEF Injection, IsInjective
  <2>2. IsFiniteSet(1..n) /\ Cardinality(1..n) = n
    <3>1. Cardinality(1..n) = IF 1 > n THEN 0 ELSE n - 1 + 1
      BY <1>1, FS_Interval
    <3>2. IsFiniteSet(1..n)
      BY <1>1, FS_Interval
    <3> QED BY <1>1, <3>1, <3>2
  <2>3. s \in Surjection(1..n, S)
    BY <2>1, <2>2, FS_Injection DEF n
  <2> QED BY <2>3 DEF Surjection
<1> QED BY <1>1, <1>2, <1>3 DEF n

\* Positions, first to last, each once.
Enumerates(s, S) ==
    /\ s \in Seq(S) /\ Len(s) = Cardinality(S) /\ Rising(s)
    /\ \A x \in S : \E i \in 1..Len(s) : s[i] = x

\* Positions that are put in order are all there, and rise.
LEMMA InOrderIs ==
    ASSUME NEW S \in SUBSET Nat, IsFiniteSet(S)
    PROVE  Enumerates(InOrder(S), S)
<1> DEFINE R == {p \in S \X S : p[1] < p[2]}
           n == Cardinality(S)
<1> SUFFICES ASSUME NEW s, s = InOrder(S) PROVE Enumerates(s, S)
  OBVIOUS
<1>1. \A x, y \in S : <<x, y>> \in R <=> x < y
  OBVIOUS
<1> HIDE DEF R
<1>2. Orders(R, S)
  BY <1>1 DEF Orders
<1>3. n \in Nat
  BY FS_CardinalityType
<1>4. PICK t : Arranges(t, R, S)
  BY <1>2, Arrangement
<1>5. t \in SetToSeqs(S) /\ \A i, j \in DOMAIN t : i < j => t[i] < t[j]
  <2>1. t \in SetToSeqs(S)
    BY <1>4 DEF Arranges, SetToSeqs
  <2>2. DOMAIN t = 1..n
    BY <1>4 DEF Arranges
  <2>3. ASSUME NEW i \in 1..n, NEW j \in 1..n, i < j PROVE t[i] < t[j]
    <3>1. t[i] \in S /\ t[j] \in S /\ <<t[i], t[j]>> \in R
      BY <1>4, <2>3 DEF Arranges
    <3> QED BY <1>1, <3>1
  <2> QED BY <2>1, <2>2, <2>3
<1>6. InOrder(S) = CHOOSE u \in SetToSeqs(S) : \A i, j \in DOMAIN u : i < j => u[i] < u[j]
  BY DEF InOrder, Arranged
<1>7. s \in SetToSeqs(S) /\ \A i, j \in DOMAIN s : i < j => s[i] < s[j]
  BY <1>5, <1>6
<1>8. /\ s \in [1..n -> S]
      /\ \A x \in S : \E i \in 1..n : s[i] = x
  BY <1>7, AllThere
<1>9. s \in Seq(S) /\ Len(s) = n /\ DOMAIN s = 1..n
  <2> HIDE DEF n
  <2> QED BY <1>3, <1>8, IsSequence
<1> QED BY <1>7, <1>8, <1>9 DEF Rising, Enumerates, n

-----------------------------------------------------------------------------
(* Fusion *)

ProductStep(f) ==
    f = [i \in 0..Bound |-> IF i = 0 THEN 1 ELSE f[i - 1] * (RrfK + i)]

\* The common denominator runs through the products before it.
LEMMA DenominatorRuns ==
    \E f : /\ Denominator = f[Bound]
           /\ f[0] = 1
           /\ \A i \in 1..Bound : f[i] = f[i - 1] * (RrfK + i)
<1> DEFINE step == [i \in 1..Bound |-> [v \in Nat |-> v * (RrfK + i)]]
<1>1. Bound \in Nat /\ RrfK \in Nat
  BY AlgorithmsAssumption, Zenon
<1>2. step \in [1..Bound -> [Nat -> Nat]]
  <2>1. \A i \in 1..Bound, v \in Nat : v * (RrfK + i) \in Nat
    <3> TAKE i \in 1..Bound, v \in Nat
    <3>1. RrfK + i \in Nat
      BY <1>1
    <3>2. PICK k \in Nat : k = RrfK + i
      BY <3>1
    <3>3. v * k \in Nat
      OBVIOUS
    <3> QED BY <3>2, <3>3
  <2> QED BY <2>1
<1>3. \A i \in 1..Bound, v \in Nat : step[i][v] = v * (RrfK + i)
  OBVIOUS
<1> HIDE DEF step
<1>4. PICK f \in [0..Bound -> Nat] : Recurs(f, 1, step, Bound)
  BY <1>1, <1>2, RecursiveFunction
<1>5. ProductStep(f)
  <2>1. ASSUME NEW i \in 0..Bound
        PROVE  f[i] = IF i = 0 THEN 1 ELSE f[i - 1] * (RrfK + i)
    <3>1. CASE i = 0
      BY <1>4, <3>1 DEF Recurs
    <3>2. CASE i # 0
      <4>1. i \in 1..Bound /\ i - 1 \in 0..Bound
        BY <1>1, <3>2
      <4>2. f[i] = step[i][f[i - 1]] /\ f[i - 1] \in Nat
        BY <1>4, <3>2, <4>1 DEF Recurs
      <4>3. step[i][f[i - 1]] = f[i - 1] * (RrfK + i)
        BY <1>3, <4>1, <4>2, Zenon
      <4> QED BY <3>2, <4>2, <4>3, Zenon
    <3> QED BY <3>1, <3>2
  <2>2. f = [i \in 0..Bound |-> f[i]]
    OBVIOUS
  <2>3. f = [i \in 0..Bound |-> IF i = 0 THEN 1 ELSE f[i - 1] * (RrfK + i)]
    BY <2>1, <2>2, Zenon
  <2> QED BY <2>3 DEF ProductStep
<1> DEFINE g == CHOOSE g : ProductStep(g)
<1>6. ProductStep(g)
  BY <1>5
<1>7. Denominator = g[Bound]
  BY DEF Denominator, ProductStep
<1> HIDE DEF g
<1>8. g[0] = 1 /\ \A i \in 1..Bound : g[i] = g[i - 1] * (RrfK + i)
  <2>1. \A i \in 0..Bound : g[i] = IF i = 0 THEN 1 ELSE g[i - 1] * (RrfK + i)
    BY <1>6, Zenon DEF ProductStep
  <2>2. 0 \in 0..Bound /\ \A i \in 1..Bound : i \in 0..Bound /\ i # 0
    BY <1>1
  <2> QED BY <2>1, <2>2, Zenon
<1> QED BY <1>7, <1>8

Positive == Nat \ {0}

\* A product of positive numbers, taken one by one.
LEMMA Multiply ==
    /\ \A a, b \in Positive : a * b \in Positive
    /\ \A a, b, c \in Positive : (a * b) * c = a * (b * c) /\ a * b = b * a
    /\ \A a, b, c \in Positive : a < b => a * c < b * c
BY DEF Positive

\* It is a multiple of what each place divides it by.
LEMMA Multiples ==
    \A p \in 1..Bound : RrfK + p \in Positive /\ \E c \in Positive : Denominator = (RrfK + p) * c
<1>1. Bound \in Nat /\ RrfK \in Nat
  BY AlgorithmsAssumption, Zenon
<1>2. PICK f : /\ Denominator = f[Bound]
               /\ f[0] = 1
               /\ \A i \in 1..Bound : f[i] = f[i - 1] * (RrfK + i)
  BY DenominatorRuns
<1>3. \A p \in 1..Bound : RrfK + p \in Positive
  BY <1>1 DEF Positive
<1> DEFINE P == {m \in Nat : m <= Bound =>
                   /\ f[m] \in Positive
                   /\ \A p \in 1..m : \E c \in Positive : f[m] = (RrfK + p) * c}
<1>4. 0 \in P
  BY <1>2 DEF Positive
<1>5. ASSUME NEW m \in P PROVE m + 1 \in P
  <2> SUFFICES ASSUME m + 1 <= Bound
               PROVE  /\ f[m + 1] \in Positive
                      /\ \A p \in 1..(m + 1) : \E c \in Positive : f[m + 1] = (RrfK + p) * c
    OBVIOUS
  <2>1. m \in Nat /\ m <= Bound
    BY <1>1
  <2>2. f[m] \in Positive /\ \A p \in 1..m : \E c \in Positive : f[m] = (RrfK + p) * c
    BY <2>1
  <2>3. PICK k : k = m + 1
    OBVIOUS
  <2>4. k \in 1..Bound /\ k - 1 = m
    BY <1>1, <2>1, <2>3
  <2>5. PICK next \in Positive : next = RrfK + k
    BY <1>3, <2>4
  <2>6. f[k] = f[m] * next
    BY <1>2, <2>4, <2>5
  <2>7. f[k] \in Positive
    BY <2>2, <2>6, Multiply
  <2>8. ASSUME NEW p \in 1..k PROVE \E c \in Positive : f[k] = (RrfK + p) * c
    <3>1. CASE p = k
      BY <2>2, <2>5, <2>6, <3>1, Multiply
    <3>2. CASE p # k
      <4>1. p \in 1..m /\ p \in 1..Bound
        <5>1. p \in 1..k /\ k = m + 1 /\ m \in Nat /\ m + 1 <= Bound
          BY <2>1, <2>3
        <5> QED BY <1>1, <3>2, <5>1
      <4>2. PICK c \in Positive : f[m] = (RrfK + p) * c
        BY <2>2, <4>1
      <4>3. PICK a \in Positive : a = RrfK + p
        BY <1>3, <4>1
      <4>4. c * next \in Positive /\ (a * c) * next = a * (c * next)
        BY Multiply
      <4>5. f[k] = (a * c) * next
        BY <2>6, <4>2, <4>3
      <4> QED BY <4>3, <4>4, <4>5
    <3> QED BY <3>1, <3>2
  <2> QED BY <2>3, <2>7, <2>8
<1> HIDE DEF P
<1>6. P = Nat
  <2>1. P \in SUBSET Nat
    BY DEF P
  <2> QED BY <1>4, <1>5, <2>1, Induction
<1>7. \A p \in 1..Bound : \E c \in Positive : f[Bound] = (RrfK + p) * c
  BY <1>1, <1>6 DEF P
<1> QED BY <1>2, <1>3, <1>7

Share(p) == Denominator \div (RrfK + p)

\* An exact quotient.
LEMMA Quotient ==
    ASSUME NEW a \in Positive, NEW c \in Positive, NEW d, d = a * c
    PROVE  d \div a = c
<1>1. d \in Positive
  BY Multiply
<1>2. PICK q : q = d \div a
  OBVIOUS
<1>3. q \in Nat /\ q * a <= d /\ d < q * a + a
  BY <1>1, <1>2, Division DEF Positive
<1>4. c \in Nat /\ a \in Nat /\ a > 0
  BY DEF Positive
<1>5. ~(q < c)
  <2> SUFFICES ASSUME q < c PROVE FALSE
    OBVIOUS
  <2>1. PICK e \in Nat : c = q + 1 + e
    <3>1. c - q - 1 \in Nat /\ c = q + 1 + (c - q - 1)
      BY <1>3, <1>4
    <3> QED BY <3>1
  <2>2. a * c = q * a + a + e * a /\ e * a \in Nat
    BY <1>3, <1>4, <2>1
  <2> QED BY <1>1, <1>3, <1>4, <2>2 DEF Positive
<1>6. ~(q > c)
  <2> SUFFICES ASSUME q > c PROVE FALSE
    OBVIOUS
  <2>1. PICK e \in Nat : q = c + 1 + e
    <3>1. q - c - 1 \in Nat /\ q = c + 1 + (q - c - 1)
      BY <1>3, <1>4
    <3> QED BY <3>1
  <2>2. q * a = a * c + a + e * a /\ e * a \in Nat
    BY <1>3, <1>4, <2>1
  <2> QED BY <1>1, <1>3, <1>4, <2>2 DEF Positive
<1> QED BY <1>2, <1>3, <1>4, <1>5, <1>6

\* An earlier place is worth more.
LEMMA SharesFall ==
    /\ \A p \in 1..Bound : Share(p) \in Positive
    /\ \A p, q \in 1..Bound : p < q => Share(q) < Share(p)
<1>1. Bound \in Nat /\ RrfK \in Nat
  BY AlgorithmsAssumption, Zenon
<1>2. ASSUME NEW p \in 1..Bound
      PROVE  Share(p) \in Positive /\ Denominator = (RrfK + p) * Share(p)
  <2>1. PICK c \in Positive : Denominator = (RrfK + p) * c
    BY Multiples
  <2>2. PICK a \in Positive : a = RrfK + p
    BY Multiples
  <2>3. PICK d : d = Denominator
    OBVIOUS
  <2>4. d \div a = c
    BY <2>1, <2>2, <2>3, Quotient
  <2>5. Share(p) = c
    BY <2>2, <2>3, <2>4 DEF Share
  <2> QED BY <2>1, <2>5
<1>3. ASSUME NEW p \in 1..Bound, NEW q \in 1..Bound, p < q
      PROVE  Share(q) < Share(p)
  <2>1. PICK a \in Positive, b \in Positive, x \in Positive, y \in Positive :
          a = RrfK + p /\ b = RrfK + q /\ x = Share(p) /\ y = Share(q)
    BY <1>2, Multiples
  <2>2. a * x = b * y
    BY <1>2, <2>1
  <2>3. a < b
    BY <1>1, <1>3, <2>1
  <2>4. a * y < b * y
    BY <2>3, Multiply
  <2>5. ~(x <= y)
    <3> SUFFICES ASSUME x <= y PROVE FALSE
      OBVIOUS
    <3>1. x * a <= y * a
      <4>1. x = y \/ x < y
        BY DEF Positive
      <4>2. x < y => x * a < y * a
        BY Multiply
      <4>3. x * a \in Nat /\ y * a \in Nat
        BY Multiply DEF Positive
      <4> QED BY <4>1, <4>2, <4>3
    <3>2. x * a = a * x /\ y * a = a * y /\ a * x \in Nat /\ a * y \in Nat
      BY Multiply DEF Positive
    <3>3. a * x <= a * y /\ a * y < a * x
      BY <2>2, <2>4, <3>1, <3>2
    <3> QED BY <3>2, <3>3
  <2> QED BY <2>1, <2>5 DEF Positive
<1> QED BY <1>2, <1>3

\* What an arm adds: for the first place of a key alone.
LEMMA ArmScores ==
    ASSUME NEW S, NEW keys \in Seq(S), Len(keys) <= Bound, NEW x
    PROVE  ArmScore(keys, x) = IF Place(keys, x) = 0 THEN 0 ELSE Share(Place(keys, x))
<1> DEFINE n == Len(keys)
           p == Place(keys, x)
           numbers == [i \in DOMAIN keys |->
                         IF i \in Counted(keys, x) THEN Denominator \div (RrfK + i) ELSE 0]
<1>1. n \in Nat /\ Bound \in Nat /\ DOMAIN keys = 1..n /\ p \in 0..n
  <2>1. Bound \in Nat
    BY AlgorithmsAssumption, Zenon
  <2>2. p \in 0..n
    BY Places
  <2> HIDE DEF p
  <2> QED BY <2>1, <2>2
<1>2. ArmScore(keys, x) = SumOf(numbers)
  BY DEF ArmScore
<1> HIDE DEF n
<1>3. \A i \in 1..n : numbers[i] = IF i = p THEN Share(i) ELSE 0
  BY <1>1 DEF Counted, Share
<1>4. DOMAIN numbers = 1..n /\ numbers = [i \in 1..n |-> numbers[i]]
  BY <1>1
<1> HIDE DEF numbers, p
<1>5. p # 0 => Share(p) \in Nat
  <2>1. p # 0 => p \in 1..Bound
    BY <1>1 DEF n
  <2> QED BY <2>1, SharesFall DEF Positive
<1>6. numbers \in Seq(Nat) /\ Len(numbers) = n
  <2>1. \A i \in 1..n : numbers[i] \in Nat
    BY <1>1, <1>3, <1>5
  <2>2. numbers \in [1..n -> Nat]
    BY <1>4, <2>1
  <2> QED BY <1>1, <2>2, IsSequence
<1> DEFINE f == [i \in 0..n |-> IF p # 0 /\ p <= i THEN Share(p) ELSE 0]
<1>7. /\ f[0] = 0
      /\ \A i \in 1..n : f[i] = f[i - 1] + numbers[i]
      /\ f[n] = IF p = 0 THEN 0 ELSE Share(p)
  <2>1. \A i \in 0..n : f[i] = IF p # 0 /\ p <= i THEN Share(p) ELSE 0
    OBVIOUS
  <2> HIDE DEF f
  <2>2. f[0] = 0
    BY <1>1, <2>1
  <2>3. ASSUME NEW i \in 1..n PROVE f[i] = f[i - 1] + numbers[i]
    <3>1. i \in 0..n /\ i - 1 \in 0..n /\ i # 0
      BY <1>1
    <3>2. CASE p = i
      <4>1. f[i] = Share(p) /\ f[i - 1] = 0 /\ numbers[i] = Share(p) /\ Share(p) \in Nat
        BY <1>1, <1>3, <1>5, <2>1, <3>1, <3>2
      <4> QED BY <4>1
    <3>3. CASE p # i
      <4>1. numbers[i] = 0 /\ f[i] \in Nat /\ f[i - 1] = f[i]
        BY <1>1, <1>3, <1>5, <2>1, <3>1, <3>3
      <4> QED BY <4>1
    <3> QED BY <3>2, <3>3
  <2>4. f[n] = IF p = 0 THEN 0 ELSE Share(p)
    BY <1>1, <2>1
  <2> QED BY <2>2, <2>3, <2>4
<1> HIDE DEF f
<1>8. PICK m : m = Len(numbers)
  OBVIOUS
<1>9. SumOf(numbers) = f[m]
  <2>1. \A i \in 1..m : f[i] = f[i - 1] + numbers[i]
    BY <1>6, <1>7, <1>8
  <2> QED BY <1>6, <1>7, <1>8, <2>1, SumIs
<1> QED BY <1>2, <1>6, <1>7, <1>8, <1>9 DEF p

Ahead(arms, weight, x, y) ==
    \/ Score(arms, weight, x) > Score(arms, weight, y)
    \/ Score(arms, weight, x) = Score(arms, weight, y) /\ x < y

\* A weight and what it weighs.
LEMMA Weighing ==
    /\ \A w \in 0..2, a \in Nat : w * a \in Nat
    /\ \A w \in 0..2, a, b \in Nat : b <= a => w * b <= w * a
    /\ \A w \in 0..2, a, b \in Nat : w # 0 /\ b < a => w * b < w * a
<1>1. \A w \in 0..2 : w = 0 \/ w = 1 \/ w = 2
  OBVIOUS
<1>2. \A a \in Nat : 0 * a = 0 /\ 1 * a = a /\ 2 * a = a + a
  OBVIOUS
<1> QED BY <1>1, <1>2

\* What a key scores in an arm, by its place there.
LEMMA ArmsCount ==
    ASSUME NEW keys \in Seq(Keys), Len(keys) <= Bound, NEW x
    PROVE  /\ ArmScore(keys, x) \in Nat
           /\ Place(keys, x) # 0 =>
                \A y : Place(keys, y) = 0 \/ Place(keys, x) < Place(keys, y) =>
                         ArmScore(keys, y) < ArmScore(keys, x)
<1>1. Len(keys) \in Nat /\ Bound \in Nat
  <2>1. Bound \in Nat
    BY AlgorithmsAssumption, Zenon
  <2> QED BY <2>1
<1>2. \A y : Place(keys, y) \in 0..Len(keys)
  BY Places
<1>3. \A y : Place(keys, y) # 0 => Place(keys, y) \in 1..Bound
  BY <1>1, <1>2
<1>4. \A y : ArmScore(keys, y) = IF Place(keys, y) = 0 THEN 0 ELSE Share(Place(keys, y))
  BY ArmScores
<1>5. ArmScore(keys, x) \in Nat
  <2>1. CASE Place(keys, x) = 0
    BY <1>4, <2>1
  <2>2. CASE Place(keys, x) # 0
    BY <1>3, <1>4, <2>2, SharesFall DEF Positive
  <2> QED BY <2>1, <2>2
<1>6. ASSUME Place(keys, x) # 0, NEW y, Place(keys, y) = 0 \/ Place(keys, x) < Place(keys, y)
      PROVE  ArmScore(keys, y) < ArmScore(keys, x)
  <2>1. ArmScore(keys, x) = Share(Place(keys, x)) /\ Share(Place(keys, x)) \in Positive
    BY <1>3, <1>4, <1>6, SharesFall
  <2>2. CASE Place(keys, y) = 0
    BY <1>4, <2>1, <2>2 DEF Positive
  <2>3. CASE Place(keys, y) # 0
    BY <1>3, <1>4, <1>6, <2>1, <2>3, SharesFall
  <2> QED BY <2>2, <2>3
<1> QED BY <1>5, <1>6

\* The hits of the arms that count, the best first.
Ranks(fused, arms, weight) ==
    /\ fused \in Seq(Keys)
    /\ \A i \in 1..Len(fused) :
         \E a \in {1, 2} : weight[a] # 0 /\ Place(arms[a], fused[i]) # 0
    /\ \A i, j \in 1..Len(fused) : i < j => Ahead(arms, weight, fused[i], fused[j])

\* The fused hits are the hits of the arms that count, the best first.
LEMMA FusedIs ==
    ASSUME NEW text \in Seq(Keys), NEW vector \in Seq(Keys),
           Len(text) <= Bound, Len(vector) <= Bound, NEW weight \in [{1, 2} -> 0..2],
           NEW arms, arms = <<text, vector>>, NEW fused, fused = Fused(arms, weight)
    PROVE  Ranks(fused, arms, weight)
<1> DEFINE S == UNION {ToSet(arms[a]) : a \in {a \in {1, 2} : weight[a] # 0}}
           R == {p \in S \X S : Ahead(arms, weight, p[1], p[2])}
           n == Cardinality(S)
<1>1. arms[1] = text /\ arms[2] = vector /\ \A a \in {1, 2} : arms[a] \in Seq(Keys)
  OBVIOUS
<1>2. \A x : Score(arms, weight, x) \in Nat
  <2> TAKE x
  <2>1. ArmScore(arms[1], x) \in Nat /\ ArmScore(arms[2], x) \in Nat
    BY <1>1, ArmsCount
  <2>2. weight[1] * ArmScore(arms[1], x) \in Nat /\ weight[2] * ArmScore(arms[2], x) \in Nat
    BY <2>1, Weighing
  <2> QED BY <2>2 DEF Score
<1>3. \A x : x \in S => \E a \in {1, 2} : /\ weight[a] # 0
                                         /\ \E k \in 1..Len(arms[a]) : arms[a][k] = x
  BY <1>1 DEF ToSet
<1>4. Bound \in Nat /\ Keys = 1..Bound
  BY AlgorithmsAssumption, Zenon DEF Keys
<1>5. S \in SUBSET Keys
  <2>1. ASSUME NEW x \in S PROVE x \in Keys
    <3>1. PICK a \in {1, 2} : \E k \in 1..Len(arms[a]) : arms[a][k] = x
      BY <1>3
    <3>2. PICK keys \in Seq(Keys) : keys = arms[a]
      BY <1>1
    <3>3. PICK k \in 1..Len(keys) : keys[k] = x
      BY <3>1, <3>2
    <3> QED BY <3>3
  <2> HIDE DEF S
  <2> QED BY <2>1
<1>6. IsFiniteSet(S) /\ n \in Nat
  <2>1. IsFiniteSet(Keys)
    BY <1>4, FS_Interval
  <2> HIDE DEF S
  <2>2. IsFiniteSet(S)
    BY <1>5, <2>1, FS_Subset
  <2> QED BY <2>2, FS_CardinalityType
<1>7. Fused(arms, weight) =
        CHOOSE s \in SetToSeqs(S) :
          \A i, j \in DOMAIN s : i < j => Ahead(arms, weight, s[i], s[j])
  BY DEF Fused, Arranged, Ahead
<1> HIDE DEF S
<1>8. \A x, y \in S : <<x, y>> \in R <=> Ahead(arms, weight, x, y)
  OBVIOUS
<1> HIDE DEF R
<1>9. Orders(R, S)
  <2>1. \A x \in S : x \in Nat
    BY <1>4, <1>5
  <2>2. \A x \in S : ~Ahead(arms, weight, x, x)
    <3> TAKE x \in S
    <3>1. PICK sx \in Nat : sx = Score(arms, weight, x)
      BY <1>2
    <3>2. x \in Nat
      BY <2>1
    <3> QED BY <3>1, <3>2 DEF Ahead
  <2>3. \A x, y \in S : x # y => Ahead(arms, weight, x, y) \/ Ahead(arms, weight, y, x)
    <3> TAKE x, y \in S
    <3>1. PICK sx \in Nat, sy \in Nat :
            sx = Score(arms, weight, x) /\ sy = Score(arms, weight, y)
      BY <1>2
    <3>2. x \in Nat /\ y \in Nat
      BY <2>1
    <3> QED BY <3>1, <3>2 DEF Ahead
  <2>4. \A x, y, z \in S : Ahead(arms, weight, x, y) /\ Ahead(arms, weight, y, z)
                             => Ahead(arms, weight, x, z)
    <3> TAKE x, y, z \in S
    <3>1. PICK sx \in Nat, sy \in Nat, sz \in Nat :
            /\ sx = Score(arms, weight, x) /\ sy = Score(arms, weight, y)
            /\ sz = Score(arms, weight, z)
      BY <1>2
    <3>2. x \in Nat /\ y \in Nat /\ z \in Nat
      BY <2>1
    <3> QED BY <3>1, <3>2 DEF Ahead
  <2> QED BY <1>8, <2>2, <2>3, <2>4 DEF Orders
<1>10. PICK t : Arranges(t, R, S)
  BY <1>6, <1>9, Arrangement
<1>11. t \in SetToSeqs(S) /\ \A i, j \in DOMAIN t : i < j => Ahead(arms, weight, t[i], t[j])
  <2>1. t \in SetToSeqs(S)
    BY <1>10 DEF Arranges, SetToSeqs
  <2>2. DOMAIN t = 1..n
    BY <1>10 DEF Arranges
  <2>3. ASSUME NEW i \in 1..n, NEW j \in 1..n, i < j PROVE Ahead(arms, weight, t[i], t[j])
    <3>1. t[i] \in S /\ t[j] \in S /\ <<t[i], t[j]>> \in R
      BY <1>10, <2>3 DEF Arranges
    <3> QED BY <1>8, <3>1
  <2> QED BY <2>1, <2>2, <2>3
<1>12. /\ fused \in SetToSeqs(S)
       /\ \A i, j \in DOMAIN fused : i < j => Ahead(arms, weight, fused[i], fused[j])
  BY <1>7, <1>11
<1>13. fused \in [1..n -> S]
  BY <1>6, <1>12, AllThere DEF n
<1> HIDE DEF n
<1>14. fused \in [1..n -> Keys]
  BY <1>5, <1>13
<1>15. fused \in Seq(Keys) /\ Len(fused) = n /\ DOMAIN fused = 1..n
  BY <1>6, <1>14, IsSequence
<1>16. ASSUME NEW i \in 1..n
       PROVE  \E a \in {1, 2} : weight[a] # 0 /\ Place(arms[a], fused[i]) # 0
  <2>1. fused[i] \in S
    BY <1>13
  <2>2. PICK a \in {1, 2} : weight[a] # 0 /\ \E k \in 1..Len(arms[a]) : arms[a][k] = fused[i]
    BY <1>3, <2>1
  <2>3. arms[a] \in Seq(Keys)
    BY <1>1
  <2>4. Place(arms[a], fused[i]) # 0
    BY <2>2, <2>3, Places
  <2> QED BY <2>2, <2>4
<1> QED BY <1>12, <1>15, <1>16 DEF Ranks

\* What a bounded sequence is.
LEMMA BoundedKeys ==
    ASSUME NEW s \in BoundedSeq(Keys, Bound)
    PROVE  s \in Seq(Keys) /\ Len(s) \in 0..Bound /\ DOMAIN s = 1..Len(s)
<1>1. PICK m \in 0..Bound : s \in [1..m -> Keys]
  BY DEF BoundedSeq, SeqOf
<1>2. m \in Nat
  <2>1. Bound \in Nat
    BY AlgorithmsAssumption, Zenon
  <2> QED BY <2>1
<1> QED BY <1>1, <1>2, IsSequence

\* reciprocal_rank_fusion, for any arms and places: what every arm that counts
\* has ahead, or has where it leaves the other out, comes ahead.
THEOREM FusionHolds == FusionRespectsArms
<1> SUFFICES ASSUME NEW text \in BoundedSeq(Keys, Bound), NEW vector \in BoundedSeq(Keys, Bound),
                    NEW weight \in [{1, 2} -> 0..2],
                    NEW arms, arms = <<text, vector>>, NEW fused, fused = Fused(arms, weight),
                    NEW i \in DOMAIN fused, NEW j \in DOMAIN fused,
                    \A a \in {1, 2} : weight[a] # 0 =>
                      (Place(arms[a], fused[i]) # 0 =>
                         /\ Place(arms[a], fused[j]) # 0
                         /\ Place(arms[a], fused[j]) < Place(arms[a], fused[i]))
             PROVE  j <= i
  BY DEF FusionRespectsArms
<1>1. /\ text \in Seq(Keys) /\ vector \in Seq(Keys)
      /\ Len(text) <= Bound /\ Len(vector) <= Bound
  <2>1. Bound \in Nat
    BY AlgorithmsAssumption, Zenon
  <2>2. text \in Seq(Keys) /\ Len(text) \in 0..Bound
    BY BoundedKeys
  <2>3. vector \in Seq(Keys) /\ Len(vector) \in 0..Bound
    BY BoundedKeys
  <2> QED BY <2>1, <2>2, <2>3
<1>2. /\ fused \in Seq(Keys)
      /\ \A k \in 1..Len(fused) :
           \E a \in {1, 2} : weight[a] # 0 /\ Place(arms[a], fused[k]) # 0
      /\ \A k, l \in 1..Len(fused) : k < l => Ahead(arms, weight, fused[k], fused[l])
  <2>1. Ranks(fused, arms, weight)
    BY <1>1, FusedIs
  <2> QED BY <2>1 DEF Ranks
<1>3. i \in 1..Len(fused) /\ j \in 1..Len(fused) /\ Len(fused) \in Nat
  BY <1>2
<1>4. SUFFICES ASSUME i < j PROVE FALSE
  BY <1>3
<1>5. PICK x, y : x = fused[i] /\ y = fused[j]
  OBVIOUS
<1>6. Ahead(arms, weight, x, y)
  BY <1>2, <1>3, <1>4, <1>5
<1>7. arms[1] = text /\ arms[2] = vector
  OBVIOUS
<1>8. ASSUME NEW a \in {1, 2}
      PROVE  /\ arms[a] \in Seq(Keys) /\ Len(arms[a]) <= Bound
             /\ ArmScore(arms[a], x) \in Nat /\ ArmScore(arms[a], y) \in Nat
             /\ weight[a] # 0 => ArmScore(arms[a], x) <= ArmScore(arms[a], y)
             /\ weight[a] # 0 /\ Place(arms[a], x) # 0 =>
                  ArmScore(arms[a], x) < ArmScore(arms[a], y)
  <2>1. arms[a] \in Seq(Keys) /\ Len(arms[a]) <= Bound
    BY <1>1, <1>7
  <2>2. ArmScore(arms[a], x) \in Nat /\ ArmScore(arms[a], y) \in Nat
    BY <2>1, ArmsCount
  <2>3. ASSUME weight[a] # 0, Place(arms[a], x) # 0
        PROVE  ArmScore(arms[a], x) < ArmScore(arms[a], y)
    <3>1. Place(arms[a], y) # 0 /\ Place(arms[a], y) < Place(arms[a], x)
      BY <1>5, <2>3
    <3> QED BY <2>1, <3>1, ArmsCount
  <2>4. ASSUME weight[a] # 0, Place(arms[a], x) = 0
        PROVE  ArmScore(arms[a], x) <= ArmScore(arms[a], y)
    <3>1. ArmScore(arms[a], x) = 0
      BY <2>1, <2>4, ArmScores
    <3> QED BY <2>2, <3>1
  <2> QED BY <2>1, <2>2, <2>3, <2>4
<1> DEFINE sx(a) == weight[a] * ArmScore(arms[a], x)
           sy(a) == weight[a] * ArmScore(arms[a], y)
<1>9. ASSUME NEW a \in {1, 2}
      PROVE  /\ sx(a) \in Nat /\ sy(a) \in Nat /\ sx(a) <= sy(a)
             /\ weight[a] # 0 /\ Place(arms[a], x) # 0 => sx(a) < sy(a)
  <2>1. PICK w \in 0..2 : w = weight[a]
    OBVIOUS
  <2>2. PICK m \in Nat, n \in Nat : m = ArmScore(arms[a], x) /\ n = ArmScore(arms[a], y)
    BY <1>8
  <2>3. w * m \in Nat /\ w * n \in Nat
    BY Weighing
  <2>4. w * m <= w * n
    <3>1. CASE w = 0
      BY <3>1
    <3>2. CASE w # 0
      <4>1. m <= n
        BY <1>8, <2>1, <2>2, <3>2
      <4> QED BY <4>1, Weighing
    <3> QED BY <3>1, <3>2
  <2>5. weight[a] # 0 /\ Place(arms[a], x) # 0 => w * m < w * n
    <3> HAVE weight[a] # 0 /\ Place(arms[a], x) # 0
    <3>1. m < n /\ w # 0
      BY <1>8, <2>1, <2>2
    <3> QED BY <3>1, Weighing
  <2> QED BY <2>1, <2>2, <2>3, <2>4, <2>5
<1>10. Score(arms, weight, x) = sx(1) + sx(2) /\ Score(arms, weight, y) = sy(1) + sy(2)
  BY DEF Score
<1>11. sx(1) < sy(1) \/ sx(2) < sy(2)
  <2>1. PICK a \in {1, 2} : weight[a] # 0 /\ Place(arms[a], x) # 0
    BY <1>2, <1>3, <1>5
  <2> QED BY <1>9, <2>1
<1> HIDE DEF sx, sy
<1>12. Score(arms, weight, x) < Score(arms, weight, y)
  <2>1. sx(1) \in Nat /\ sx(2) \in Nat /\ sy(1) \in Nat /\ sy(2) \in Nat
    BY <1>9
  <2>2. sx(1) <= sy(1) /\ sx(2) <= sy(2)
    BY <1>9
  <2> QED BY <1>10, <1>11, <2>1, <2>2
<1>13. Score(arms, weight, x) \in Nat /\ Score(arms, weight, y) \in Nat
  BY <1>9, <1>10
<1> QED BY <1>6, <1>12, <1>13 DEF Ahead

-----------------------------------------------------------------------------
(* What is asked for *)

Shorter(m, n) == IF m < n THEN m ELSE n

\* The first n of what there is.
LEMMA FirstOf ==
    ASSUME NEW S, NEW hits \in Seq(S), NEW n \in Nat, NEW m, m = Shorter(Len(hits), n)
    PROVE  /\ AtMost(hits, n) \in Seq(S) /\ Len(AtMost(hits, n)) = m
           /\ m \in Nat /\ m <= n /\ m <= Len(hits)
           /\ \A i \in 1..m : AtMost(hits, n)[i] = hits[i]
<1>1. Len(hits) \in Nat
  OBVIOUS
<1>2. m \in Nat /\ m <= n /\ m <= Len(hits)
  BY <1>1 DEF Shorter
<1>3. AtMost(hits, n) = SubSeq(hits, 1, m)
  BY DEF AtMost, Shorter
<1>4. \A i \in 1..m : hits[i] \in S
  BY <1>1, <1>2
<1>5. PICK s : s = SubSeq(hits, 1, m)
  OBVIOUS
<1>6. s \in Seq(S) /\ Len(s) = m /\ \A i \in 1..m : s[i] = hits[i]
  <2>1. s = [i \in 1..m |-> hits[i]]
    BY <1>1, <1>2, <1>5
  <2>2. s \in [1..m -> S]
    BY <1>4, <2>1
  <2>3. s \in Seq(S) /\ Len(s) = m
    BY <1>2, <2>2, IsSequence
  <2> QED BY <2>1, <2>3
<1> QED BY <1>2, <1>3, <1>5, <1>6

\* What comes after them.
LEMMA RestOf ==
    ASSUME NEW S, NEW hits \in Seq(S), NEW h \in Nat, h <= Len(hits),
           NEW n, n = Len(hits), NEW t, t = SubSeq(hits, h + 1, n)
    PROVE  t \in Seq(S) /\ Len(t) = n - h /\ \A i \in 1..(n - h) : t[i] = hits[h + i]
<1>1. n \in Nat
  OBVIOUS
<1>2. PICK k \in Nat : k = h + 1
  OBVIOUS
<1>3. \A i \in k..n : hits[i] \in S
  <2>1. \A i \in k..n : i \in 1..Len(hits)
    BY <1>1, <1>2
  <2> QED BY <2>1
<1>4. /\ t \in Seq(S) /\ Len(t) = IF k <= n THEN n - k + 1 ELSE 0
      /\ \A i \in 1..(n - k + 1) : t[i] = hits[k + i - 1]
  BY <1>1, <1>2, <1>3, SubSeqProperties
<1>5. n - k + 1 = n - h /\ (IF k <= n THEN n - k + 1 ELSE 0) = n - h
  BY <1>1, <1>2
<1>6. \A i \in 1..(n - h) : k + i - 1 = h + i
  BY <1>1, <1>2
<1> QED BY <1>4, <1>5, <1>6

\* A sequence and one that goes on from it.
Begins(s, t) == Len(s) <= Len(t) /\ \A i \in 1..Len(s) : s[i] = t[i]

\* What begins another is its prefix.
LEMMA BeginsIsPrefix ==
    ASSUME NEW S, NEW s \in Seq(S), NEW t \in Seq(S), Begins(s, t)
    PROVE  IsPrefix(s, t)
<1> DEFINE n == Len(s)
<1>1. n \in Nat /\ Len(t) \in Nat /\ n <= Len(t) /\ \A i \in 1..n : s[i] = t[i]
  BY DEF Begins
<1> HIDE DEF n
<1>2. SubSeq(s, 1, n) = [i \in 1..n |-> s[i]] /\ SubSeq(t, 1, n) = [i \in 1..n |-> t[i]]
  BY <1>1
<1>3. SubSeq(s, 1, n) = SubSeq(t, 1, n)
  BY <1>1, <1>2
<1> QED BY <1>1, <1>3 DEF IsPrefix, n

\* Who asks for no less gets what begins the same.
LEMMA FirstsBegin ==
    ASSUME NEW S, NEW s \in Seq(S), NEW t \in Seq(S), Begins(s, t),
           NEW m \in Nat, NEW n \in Nat, m <= n
    PROVE  Begins(AtMost(s, m), AtMost(t, n))
<1>1. Len(s) \in Nat /\ Len(t) \in Nat /\ Len(s) <= Len(t) /\ \A i \in 1..Len(s) : s[i] = t[i]
  BY DEF Begins
<1>2. PICK k, l : k = Shorter(Len(s), m) /\ l = Shorter(Len(t), n)
  OBVIOUS
<1>3. /\ Len(AtMost(s, m)) = k /\ k \in Nat /\ k <= Len(s)
      /\ \A i \in 1..k : AtMost(s, m)[i] = s[i]
  BY <1>2, FirstOf
<1>4. /\ Len(AtMost(t, n)) = l /\ l \in Nat
      /\ \A i \in 1..l : AtMost(t, n)[i] = t[i]
  BY <1>2, FirstOf
<1>5. k <= l
  BY <1>1, <1>2 DEF Shorter
<1>6. \A i \in 1..k : i \in 1..l /\ i \in 1..Len(s)
  BY <1>1, <1>3, <1>4, <1>5
<1>7. \A i \in 1..k : AtMost(s, m)[i] = AtMost(t, n)[i]
  BY <1>1, <1>3, <1>4, <1>6
<1> QED BY <1>3, <1>4, <1>5, <1>7 DEF Begins

\* A sequence goes on from itself.
LEMMA BeginsItself ==
    ASSUME NEW S, NEW s \in Seq(S)
    PROVE  Begins(s, s)
BY DEF Begins

-----------------------------------------------------------------------------
(* The vector arm *)

\* Where the keys first come.
FirstPlaces(near) == {j \in DOMAIN near : j = Place(near, near[j])}

\* There is one for each key, and each key has one.
LEMMA FirstPlacesAre ==
    ASSUME NEW S, NEW near \in Seq(S)
    PROVE  /\ FirstPlaces(near) \in SUBSET (1..Len(near)) /\ IsFiniteSet(FirstPlaces(near))
           /\ FirstPlaces(near) \in SUBSET Nat
           /\ \A j, k \in FirstPlaces(near) : near[j] = near[k] => j = k
           /\ \A i \in 1..Len(near) : Place(near, near[i]) \in FirstPlaces(near)
           /\ Cardinality(FirstPlaces(near)) = Cardinality(ToSet(near))
<1> DEFINE F == FirstPlaces(near)
<1>1. Len(near) \in Nat /\ DOMAIN near = 1..Len(near)
  OBVIOUS
<1>2. F \in SUBSET (1..Len(near)) /\ \A j \in F : j = Place(near, near[j])
  BY <1>1 DEF FirstPlaces
<1>3. IsFiniteSet(F)
  <2>1. IsFiniteSet(1..Len(near))
    BY <1>1, FS_Interval
  <2> HIDE DEF F
  <2> QED BY <1>2, <2>1, FS_Subset
<1>4. \A j, k \in F : near[j] = near[k] => j = k
  BY <1>2
<1>5. \A i \in 1..Len(near) : Place(near, near[i]) \in F /\ near[Place(near, near[i])] = near[i]
  <2> TAKE i \in 1..Len(near)
  <2>1. Place(near, near[i]) # 0
    BY Places
  <2>2. Place(near, near[i]) \in 1..Len(near) /\ near[Place(near, near[i])] = near[i]
    BY <2>1, Places
  <2> QED BY <1>1, <2>2 DEF FirstPlaces
<1> HIDE DEF F
<1>6. Cardinality(F) = Cardinality(ToSet(near))
  <2> DEFINE key == [j \in F |-> near[j]]
             T == ToSet(near)
  <2>1. T = {near[i] : i \in 1..Len(near)}
    BY <1>1 DEF ToSet
  <2>2. key \in [F -> T]
    BY <1>2, <2>1
  <2>3. \A j \in F : key[j] = near[j]
    OBVIOUS
  <2> HIDE DEF key
  <2>4. key \in Injection(F, T)
    BY <1>4, <2>2, <2>3 DEF Injection, IsInjective
  <2>5. key \in Surjection(F, T)
    <3>1. ASSUME NEW x \in T PROVE \E j \in F : key[j] = x
      <4>1. PICK i \in 1..Len(near) : x = near[i]
        BY <2>1
      <4> QED BY <1>5, <2>3, <4>1
    <3> QED BY <2>2, <3>1 DEF Surjection
  <2> HIDE DEF T
  <2>6. ExistsBijection(F, T)
    BY <2>4, <2>5 DEF ExistsBijection, Bijection
  <2>7. Cardinality(F) = Cardinality(T)
    BY <1>3, <2>6, FS_Bijection
  <2> QED BY <2>7 DEF T
<1>7. F \in SUBSET Nat
  BY <1>1, <1>2
<1> QED BY <1>2, <1>3, <1>4, <1>5, <1>6, <1>7 DEF F

AtPlaces(hits, near, places, S) ==
    /\ near \in Seq(S) /\ places \in Seq(FirstPlaces(near)) /\ Rising(places)
    /\ \A j \in FirstPlaces(near) : \E i \in 1..Len(places) : places[i] = j
    /\ hits \in Seq(S) /\ Len(hits) = Len(places)
    /\ \A i \in 1..Len(places) : hits[i] = near[places[i]]

\* The vector arm's hits: each key at its first place.
LEMMA VectorHitsAre ==
    ASSUME NEW S, NEW nearest \in Seq(S), NEW limit \in Nat,
           NEW near, near = AtMost(nearest, limit),
           NEW places, places = InOrder(FirstPlaces(near)),
           NEW hits, hits = VectorHits(nearest, limit)
    PROVE  AtPlaces(hits, near, places, S)
<1>1. near \in Seq(S)
  BY FirstOf
<1>2. /\ FirstPlaces(near) \in SUBSET (1..Len(near)) /\ IsFiniteSet(FirstPlaces(near))
      /\ FirstPlaces(near) \in SUBSET Nat
      /\ Cardinality(FirstPlaces(near)) = Cardinality(ToSet(near))
  BY <1>1, FirstPlacesAre
<1>3. PICK F : F = FirstPlaces(near)
  OBVIOUS
<1>4. /\ places \in Seq(F) /\ Len(places) = Cardinality(F) /\ Rising(places)
      /\ \A j \in F : \E i \in 1..Len(places) : places[i] = j
  <2>1. F \in SUBSET Nat /\ IsFiniteSet(F) /\ places = InOrder(F)
    BY <1>2, <1>3
  <2>2. Enumerates(places, F)
    BY <2>1, InOrderIs
  <2> QED BY <2>2 DEF Enumerates
<1>5. PICK n \in Nat : n = Len(places) /\ n = Cardinality(ToSet(near))
  BY <1>2, <1>3, <1>4
<1>6. hits = [i \in 1..n |-> near[places[i]]]
  BY <1>5 DEF VectorHits, FirstPlaces
<1>7. \A i \in 1..n : near[places[i]] \in S
  <2> TAKE i \in 1..n
  <2>1. places[i] \in F
    BY <1>4, <1>5
  <2>2. places[i] \in 1..Len(near)
    BY <1>2, <1>3, <2>1
  <2> QED BY <1>1, <2>2
<1>8. hits \in [1..n -> S]
  BY <1>6, <1>7
<1>9. hits \in Seq(S) /\ Len(hits) = n
  BY <1>8, IsSequence
<1> QED BY <1>1, <1>3, <1>4, <1>5, <1>6, <1>9 DEF AtPlaces

\* Each key the arm was given is hit once.
LEMMA VectorHitsOnce ==
    ASSUME NEW S, NEW nearest \in Seq(S), NEW limit \in Nat
    PROVE  /\ IsInjective(VectorHits(nearest, limit))
           /\ ToSet(VectorHits(nearest, limit)) = ToSet(AtMost(nearest, limit))
<1>1. PICK near, hits : near = AtMost(nearest, limit) /\ hits = VectorHits(nearest, limit)
  OBVIOUS
<1>2. PICK places : places = InOrder(FirstPlaces(near))
  OBVIOUS
<1>3. /\ near \in Seq(S) /\ places \in Seq(FirstPlaces(near)) /\ Rising(places)
      /\ \A j \in FirstPlaces(near) : \E i \in 1..Len(places) : places[i] = j
      /\ hits \in Seq(S) /\ Len(hits) = Len(places)
      /\ \A i \in 1..Len(places) : hits[i] = near[places[i]]
  <2>1. AtPlaces(hits, near, places, S)
    BY <1>1, <1>2, VectorHitsAre
  <2> QED BY <2>1 DEF AtPlaces
<1>4. /\ FirstPlaces(near) \in SUBSET (1..Len(near))
      /\ \A j, k \in FirstPlaces(near) : near[j] = near[k] => j = k
      /\ \A i \in 1..Len(near) : Place(near, near[i]) \in FirstPlaces(near)
  BY <1>3, FirstPlacesAre
<1>5. PICK n \in Nat : n = Len(places)
  BY <1>3
<1>6. /\ DOMAIN hits = 1..n /\ DOMAIN near = 1..Len(near)
      /\ \A i \in 1..n : places[i] \in FirstPlaces(near)
  BY <1>3, <1>5
<1>7. IsInjective(hits)
  <2>1. ASSUME NEW i \in 1..n, NEW k \in 1..n, hits[i] = hits[k] PROVE i = k
    <3>1. places[i] = places[k]
      BY <1>3, <1>4, <1>5, <1>6, <2>1
    <3>2. i < k => places[i] < places[k]
      BY <1>3, <1>5 DEF Rising
    <3>3. k < i => places[k] < places[i]
      BY <1>3, <1>5 DEF Rising
    <3>4. places[i] \in 1..Len(near) /\ places[k] \in 1..Len(near)
      BY <1>4, <1>6
    <3> QED BY <1>5, <3>1, <3>2, <3>3, <3>4
  <2> QED BY <1>6, <2>1 DEF IsInjective
<1>8. ASSUME NEW x PROVE x \in ToSet(hits) <=> x \in ToSet(near)
  <2>1. ASSUME x \in ToSet(hits) PROVE x \in ToSet(near)
    <3>1. PICK i \in 1..n : x = hits[i]
      BY <1>6, <2>1 DEF ToSet
    <3>2. x = near[places[i]] /\ places[i] \in 1..Len(near)
      BY <1>3, <1>4, <1>5, <1>6, <3>1
    <3> QED BY <1>6, <3>2 DEF ToSet
  <2>2. ASSUME x \in ToSet(near) PROVE x \in ToSet(hits)
    <3>1. PICK k \in 1..Len(near) : x = near[k]
      BY <1>6, <2>2 DEF ToSet
    <3>2. PICK j : j = Place(near, x)
      OBVIOUS
    <3>3. j \in FirstPlaces(near)
      BY <1>4, <3>1, <3>2
    <3>4. near[j] = x
      <4>1. j # 0
        BY <1>3, <3>1, <3>2, Places
      <4> QED BY <1>3, <3>2, <4>1, Places
    <3>5. PICK i \in 1..n : places[i] = j
      BY <1>3, <1>5, <3>3
    <3>6. hits[i] = x
      BY <1>3, <1>5, <3>4, <3>5
    <3> QED BY <1>6, <3>6 DEF ToSet
  <2> QED BY <2>1, <2>2
<1> QED BY <1>1, <1>7, <1>8

-----------------------------------------------------------------------------
(* Reranking *)

\* The places an order names and those it leaves, of h.
Splits(order, rest, h) ==
    /\ Len(order) \in Nat /\ Len(order) <= h /\ order \in Seq(1..h)
    /\ rest \in Seq(1..h) /\ Len(rest) = h - Len(order)
    /\ \A j \in 1..h : \/ \E i \in 1..Len(order) : order[i] = j
                       \/ \E i \in 1..Len(rest) : rest[i] = j

\* A valid answer and what it leaves out, in order, name each hit of the head once.
LEMMA LeftPlaces ==
    ASSUME NEW h \in Nat, NEW order \in Seq(Int), ValidOrder(order, h),
           NEW left, left = (1..h) \ ToSet(order), NEW rest, rest = InOrder(left)
    PROVE  Splits(order, rest, h)
<1> DEFINE k == Len(order)
           named == ToSet(order)
<1>1. k \in Nat /\ DOMAIN order = 1..k /\ order \in [1..k -> Int]
  OBVIOUS
<1>2. (\A i \in 1..k : order[i] \in 1..h) /\ \A i, j \in 1..k : order[i] = order[j] => i = j
  BY <1>1 DEF ValidOrder, InRange, IsInjective
<1>3. named = {order[i] : i \in 1..k}
  BY <1>1 DEF ToSet
<1>4. IsFiniteSet(1..h) /\ Cardinality(1..h) = h
  <2>1. Cardinality(1..h) = IF 1 > h THEN 0 ELSE h - 1 + 1
    BY FS_Interval
  <2>2. IsFiniteSet(1..h)
    BY FS_Interval
  <2> QED BY <2>1, <2>2
<1> HIDE DEF k
<1>5. IsFiniteSet(1..k) /\ Cardinality(1..k) = k
  <2>1. Cardinality(1..k) = IF 1 > k THEN 0 ELSE k - 1 + 1
    BY <1>1, FS_Interval
  <2>2. IsFiniteSet(1..k)
    BY <1>1, FS_Interval
  <2> QED BY <1>1, <2>1, <2>2
<1>6. named \in SUBSET (1..h)
  BY <1>2, <1>3
<1>7. ExistsBijection(1..k, named)
  <2>1. order \in [1..k -> named]
    BY <1>1, <1>3
  <2>2. order \in Injection(1..k, named)
    BY <1>2, <2>1 DEF Injection, IsInjective
  <2>3. order \in Surjection(1..k, named)
    BY <1>3, <2>1 DEF Surjection
  <2> HIDE DEF named
  <2> QED BY <2>2, <2>3 DEF ExistsBijection, Bijection
<1> HIDE DEF named
<1>8. IsFiniteSet(named) /\ Cardinality(named) = k
  BY <1>5, <1>7, FS_Bijection
<1>9. k <= h
  BY <1>4, <1>6, <1>8, FS_Subset
<1>10. left = (1..h) \ named
  BY DEF named
<1>11. IsFiniteSet(left) /\ Cardinality(left) = h - k
  <2>1. (1..h) \cap named = named
    BY <1>6
  <2>2. Cardinality((1..h) \ named) = Cardinality(1..h) - Cardinality((1..h) \cap named)
    BY <1>4, FS_Difference
  <2>3. IsFiniteSet((1..h) \ named)
    BY <1>4, FS_Difference
  <2> QED BY <1>4, <1>8, <1>10, <2>1, <2>2, <2>3
<1>12. /\ rest \in Seq(left) /\ Len(rest) = h - k
       /\ \A j \in left : \E i \in 1..Len(rest) : rest[i] = j
  <2>1. left \in SUBSET Nat /\ rest = InOrder(left)
    BY <1>10
  <2>2. /\ rest \in Seq(left) /\ Len(rest) = Cardinality(left)
        /\ \A j \in left : \E i \in 1..Len(rest) : rest[i] = j
    <3>1. Enumerates(rest, left)
      BY <1>11, <2>1, InOrderIs
    <3> QED BY <3>1 DEF Enumerates
  <2> QED BY <1>11, <2>2
<1>13. rest \in Seq(1..h) /\ order \in Seq(1..h)
  <2>1. rest \in [1..(h - k) -> 1..h]
    <3>1. PICK seq \in Seq(left) : seq = rest /\ Len(seq) = h - k
      BY <1>12
    <3>2. seq \in [1..Len(seq) -> left]
      BY LenProperties
    <3>3. left \subseteq 1..h
      BY <1>10
    <3>4. seq \in [1..(h - k) -> left]
      BY <3>1, <3>2
    <3>5. seq \in [1..(h - k) -> 1..h]
      BY <3>3, <3>4
    <3> QED BY <3>1, <3>5
  <2>2. h - k \in Nat
    BY <1>1, <1>9
  <2>3. rest \in Seq(1..h)
    BY <2>1, <2>2, IsSequence
  <2>4. order \in [1..k -> 1..h]
    BY <1>1, <1>2
  <2>5. order \in Seq(1..h)
    BY <1>1, <2>4, IsSequence
  <2> QED BY <2>3, <2>5
<1>14. ASSUME NEW j \in 1..h
       PROVE  (\E i \in 1..k : order[i] = j) \/ \E i \in 1..Len(rest) : rest[i] = j
  <2>1. j \in named \/ j \in left
    BY <1>10
  <2> QED BY <1>3, <1>12, <2>1 DEF named
<1> QED BY <1>1, <1>9, <1>12, <1>13, <1>14 DEF k, Splits

\* Where the reranked head takes its hits from.
Refused(order, h) == order = Failed \/ ~ValidOrder(order, h)
Taken(order, h) ==
    IF Refused(order, h) THEN Indices(h) ELSE order \o InOrder((1..h) \ ToSet(order))

Permutes(p, h) ==
    p \in Seq(1..h) /\ Len(p) = h /\ \A j \in 1..h : \E i \in 1..h : p[i] = j

\* Whatever the provider answers, each hit of the head is taken, and once.
LEMMA TakenPermutes ==
    ASSUME NEW h \in Nat, NEW order \in Seq(Int) \cup {Failed}
    PROVE  Permutes(Taken(order, h), h)
<1>1. CASE Refused(order, h)
  <2>1. PICK p : p = Indices(h)
    OBVIOUS
  <2>2. p \in [1..h -> 1..h] /\ \A i \in 1..h : p[i] = i
    BY <2>1 DEF Indices
  <2>3. p \in Seq(1..h) /\ Len(p) = h
    BY <2>2, IsSequence
  <2> QED BY <1>1, <2>1, <2>2, <2>3 DEF Permutes, Taken
<1>2. CASE ~Refused(order, h)
  <2>1. order \in Seq(Int) /\ ValidOrder(order, h)
    BY <1>2 DEF Refused
  <2>2. PICK left, rest : left = (1..h) \ ToSet(order) /\ rest = InOrder(left)
    OBVIOUS
  <2>3. /\ Len(order) \in Nat /\ Len(order) <= h /\ order \in Seq(1..h)
        /\ rest \in Seq(1..h) /\ Len(rest) = h - Len(order)
        /\ \A j \in 1..h : \/ \E i \in 1..Len(order) : order[i] = j
                           \/ \E i \in 1..Len(rest) : rest[i] = j
    <3>1. Splits(order, rest, h)
      BY <2>1, <2>2, LeftPlaces
    <3> QED BY <3>1 DEF Splits
  <2>4. PICK p : p = order \o rest
    OBVIOUS
  <2>5. PICK k \in Nat : k = Len(order) /\ k <= h
    BY <2>3
  <2>6. /\ p \in Seq(1..h) /\ Len(p) = Len(order) + Len(rest)
        /\ \A i \in 1..(Len(order) + Len(rest)) :
             p[i] = IF i <= Len(order) THEN order[i] ELSE rest[i - Len(order)]
    BY <2>3, <2>4, ConcatProperties
  <2>7. Len(p) = h /\ k + Len(rest) = h /\ Len(rest) \in Nat
    BY <2>3, <2>5, <2>6
  <2>8. \A i \in 1..k : i \in 1..h /\ p[i] = order[i]
    BY <2>5, <2>6, <2>7
  <2>9. \A i \in 1..Len(rest) : k + i \in 1..h /\ p[k + i] = rest[i]
    <3> TAKE i \in 1..Len(rest)
    <3>1. k + i \in 1..h /\ ~(k + i <= k) /\ (k + i) - k = i
      BY <2>5, <2>7
    <3> QED BY <2>5, <2>6, <2>7, <3>1
  <2>10. \A j \in 1..h : \E i \in 1..h : p[i] = j
    <3> TAKE j \in 1..h
    <3>1. CASE \E i \in 1..Len(order) : order[i] = j
      <4>1. PICK i \in 1..k : order[i] = j
        BY <2>5, <3>1
      <4> QED BY <2>8, <4>1
    <3>2. CASE \E i \in 1..Len(rest) : rest[i] = j
      <4>1. PICK i \in 1..Len(rest) : rest[i] = j
        BY <3>2
      <4> QED BY <2>9, <4>1
    <3> QED BY <2>3, <3>1, <3>2
  <2>11. Taken(order, h) = p
    BY <1>2, <2>2, <2>4 DEF Taken
  <2> QED BY <2>6, <2>7, <2>10, <2>11 DEF Permutes
<1> QED BY <1>1, <1>2

\* The hits of the head, taken from where the order says, and then the rest.
Takes(r, hits, p, h, S) ==
    /\ r \in Seq(S) /\ Len(r) = Len(hits)
    /\ \A i \in 1..h : r[i] = hits[p[i]]
    /\ \A i \in (h + 1)..Len(hits) : r[i] = hits[i]

\* _apply_rerank: the head as it is taken, and the rest as it was.
LEMMA RerankedTakes ==
    ASSUME NEW S, NEW hits \in Seq(S), NEW order \in Seq(Int) \cup {Failed},
           NEW h, h = Shorter(Len(hits), TopK)
    PROVE  /\ h \in Nat /\ h <= TopK /\ h <= Len(hits)
           /\ Takes(Reranked(hits, order), hits, Taken(order, h), h, S)
<1>1. TopK \in Nat \ {0}
  <2>1. {TopK, ArmLimit} \subseteq Nat \ {0}
    BY AlgorithmsAssumption, Zenon
  <2> QED BY <2>1
<1>2. PICK head : head = AtMost(hits, TopK)
  OBVIOUS
<1>3. /\ head \in Seq(S) /\ Len(head) = h /\ h \in Nat /\ h <= TopK /\ h <= Len(hits)
      /\ \A i \in 1..h : head[i] = hits[i]
  BY <1>1, <1>2, FirstOf
<1>4. PICK n \in Nat : n = Len(hits)
  OBVIOUS
<1>5. PICK p : p = Taken(order, h)
  OBVIOUS
<1>6. Permutes(p, h)
  BY <1>3, <1>5, TakenPermutes
<1>7. \A i \in 1..h : p[i] \in 1..h
  BY <1>3, <1>6 DEF Permutes
<1>8. CASE Refused(order, h)
  <2>1. Reranked(hits, order) = hits
    BY <1>2, <1>3, <1>8 DEF Reranked, Refused
  <2>2. \A i \in 1..h : p[i] = i
    BY <1>5, <1>8 DEF Taken, Indices
  <2> QED BY <1>3, <1>5, <2>1, <2>2 DEF Takes
<1>9. CASE ~Refused(order, h)
  <2>1. order \in Seq(Int) /\ ValidOrder(order, h)
    BY <1>9 DEF Refused
  <2>2. PICK left, rest : left = (1..h) \ ToSet(order) /\ rest = InOrder(left)
    OBVIOUS
  <2>3. /\ Len(order) \in Nat /\ Len(order) <= h /\ order \in Seq(1..h)
        /\ rest \in Seq(1..h) /\ Len(rest) = h - Len(order)
    <3>1. Splits(order, rest, h)
      BY <1>3, <2>1, <2>2, LeftPlaces
    <3> QED BY <3>1 DEF Splits
  <2>4. PICK k \in Nat : k = Len(order) /\ k <= h
    BY <2>3
  <2>5. p = order \o rest
    BY <1>5, <1>9, <2>2 DEF Taken
  <2>6. DOMAIN head = 1..h /\ DOMAIN order = 1..k
    BY <1>3, <2>3, <2>4
  <2>7. PICK a, b, t : /\ a = [i \in 1..k |-> head[order[i]]]
                       /\ b = [i \in 1..(h - k) |-> head[rest[i]]]
                       /\ t = SubSeq(hits, h + 1, n)
    OBVIOUS
  <2>8. Reranked(hits, order) = a \o b \o t
    BY <1>2, <1>3, <1>4, <1>9, <2>2, <2>4, <2>6, <2>7 DEF Reranked, Refused
  <2>9. a \in Seq(S) /\ Len(a) = k /\ \A i \in 1..k : a[i] = head[order[i]]
    <3>1. \A i \in 1..k : head[order[i]] \in S
      BY <1>3, <2>3, <2>4
    <3>2. a \in [1..k -> S]
      BY <2>7, <3>1
    <3>3. a \in Seq(S) /\ Len(a) = k
      BY <3>2, IsSequence
    <3> QED BY <2>7, <3>3
  <2>10. b \in Seq(S) /\ Len(b) = h - k /\ \A i \in 1..(h - k) : b[i] = head[rest[i]]
    <3>1. \A i \in 1..(h - k) : head[rest[i]] \in S
      BY <1>3, <2>3, <2>4
    <3>2. h - k \in Nat /\ b \in [1..(h - k) -> S]
      BY <1>3, <2>4, <2>7, <3>1
    <3>3. b \in Seq(S) /\ Len(b) = h - k
      BY <3>2, IsSequence
    <3> QED BY <2>7, <3>3
  <2>11. t \in Seq(S) /\ Len(t) = n - h /\ \A i \in 1..(n - h) : t[i] = hits[h + i]
    <3>1. h \in Nat /\ h <= Len(hits) /\ n = Len(hits) /\ t = SubSeq(hits, h + 1, n)
      BY <1>3, <1>4, <2>7
    <3> QED BY <3>1, RestOf
  <2>12. PICK ab : ab = a \o b
    OBVIOUS
  <2>13. /\ ab \in Seq(S) /\ Len(ab) = h
         /\ \A i \in 1..h : ab[i] = IF i <= k THEN a[i] ELSE b[i - k]
    <3>1. /\ ab \in Seq(S) /\ Len(ab) = Len(a) + Len(b)
          /\ \A i \in 1..(Len(a) + Len(b)) : ab[i] = IF i <= Len(a) THEN a[i] ELSE b[i - Len(a)]
      BY <2>9, <2>10, <2>12, ConcatProperties
    <3>2. Len(a) + Len(b) = h
      BY <1>3, <2>4, <2>9, <2>10
    <3> QED BY <2>9, <3>1, <3>2
  <2>14. \A i \in 1..h : p[i] = IF i <= k THEN order[i] ELSE rest[i - k]
    <3>1. \A i \in 1..(Len(order) + Len(rest)) :
            p[i] = IF i <= Len(order) THEN order[i] ELSE rest[i - Len(order)]
      BY <2>3, <2>5, ConcatProperties
    <3>2. Len(order) + Len(rest) = h
      BY <1>3, <2>3
    <3> QED BY <2>4, <3>1, <3>2
  <2>15. \A i \in 1..h : ab[i] = hits[p[i]]
    <3> TAKE i \in 1..h
    <3>1. CASE i <= k
      <4>1. i \in 1..k
        BY <1>3, <2>4, <3>1
      <4>2. ab[i] = head[order[i]] /\ p[i] = order[i]
        BY <2>9, <2>13, <2>14, <3>1, <4>1
      <4> QED BY <1>3, <1>7, <4>2
    <3>2. CASE ~(i <= k)
      <4>1. i - k \in 1..(h - k)
        BY <1>3, <2>4, <3>2
      <4>2. ab[i] = head[rest[i - k]] /\ p[i] = rest[i - k]
        BY <2>10, <2>13, <2>14, <3>2, <4>1
      <4> QED BY <1>3, <1>7, <4>2
    <3> QED BY <3>1, <3>2
  <2>16. PICK r : r = ab \o t
    OBVIOUS
  <2>17. /\ r \in Seq(S) /\ Len(r) = n
         /\ \A i \in 1..n : r[i] = IF i <= h THEN ab[i] ELSE t[i - h]
    <3>1. /\ r \in Seq(S) /\ Len(r) = Len(ab) + Len(t)
          /\ \A i \in 1..(Len(ab) + Len(t)) : r[i] = IF i <= Len(ab) THEN ab[i] ELSE t[i - Len(ab)]
      BY <2>11, <2>13, <2>16, ConcatProperties
    <3>2. Len(ab) + Len(t) = n
      BY <1>3, <1>4, <2>11, <2>13
    <3> QED BY <2>13, <3>1, <3>2
  <2>18. \A i \in 1..h : r[i] = hits[p[i]]
    <3> TAKE i \in 1..h
    <3>1. i \in 1..n /\ i <= h
      BY <1>3, <1>4
    <3> QED BY <2>15, <2>17, <3>1
  <2>19. \A i \in (h + 1)..n : r[i] = hits[i]
    <3> TAKE i \in (h + 1)..n
    <3>1. i \in 1..n /\ ~(i <= h) /\ i - h \in 1..(n - h) /\ h + (i - h) = i
      BY <1>3, <1>4
    <3> QED BY <2>11, <2>17, <3>1
  <2>20. Reranked(hits, order) = r
    BY <2>8, <2>12, <2>16
  <2> QED BY <1>3, <1>4, <1>5, <2>17, <2>18, <2>19, <2>20 DEF Takes
<1> QED BY <1>8, <1>9

\* _apply_rerank, for any head and whatever the provider answers: each hit is
\* returned once, and none from beyond the head gets into it.
THEOREM RerankHolds == RerankKeepsHits
<1> SUFFICES ASSUME NEW n \in 0..Bound,
                    NEW order \in BoundedSeq(0..(n + 1), Bound) \cup {Failed},
                    NEW hits, hits = Indices(n), NEW r, r = Reranked(hits, order)
             PROVE  /\ Len(r) = n
                    /\ ToSet(r) = ToSet(hits)
                    /\ \A i \in (TopK + 1)..n : r[i] = i
  BY DEF RerankKeepsHits
<1>1. Bound \in Nat /\ TopK \in Nat \ {0}
  <2>1. Bound \in Nat /\ {TopK, ArmLimit} \subseteq Nat \ {0}
    BY AlgorithmsAssumption, Zenon
  <2> QED BY <2>1
<1>2. n \in Nat
  BY <1>1
<1>3. hits \in Seq(Nat) /\ Len(hits) = n /\ DOMAIN hits = 1..n /\ \A i \in 1..n : hits[i] = i
  <2>1. hits \in [1..n -> Nat]
    BY <1>2 DEF Indices
  <2>2. hits \in Seq(Nat) /\ Len(hits) = n
    BY <1>2, <2>1, IsSequence
  <2> QED BY <2>2 DEF Indices
<1>4. order \in Seq(Int) \cup {Failed}
  <2>1. ASSUME order \in BoundedSeq(0..(n + 1), Bound) PROVE order \in Seq(Int)
    <3>1. PICK m \in 0..Bound : order \in [1..m -> 0..(n + 1)]
      BY <2>1 DEF BoundedSeq, SeqOf
    <3>2. m \in Nat /\ order \in [1..m -> Int]
      BY <1>1, <1>2, <3>1
    <3> QED BY <3>2, IsSequence
  <2> QED BY <2>1
<1>5. PICK h : h = Shorter(Len(hits), TopK)
  OBVIOUS
<1>6. PICK p : p = Taken(order, h)
  OBVIOUS
<1>7. h \in Nat /\ h <= TopK /\ h <= n /\ Takes(r, hits, p, h, Nat)
  BY <1>3, <1>4, <1>5, <1>6, RerankedTakes
<1>8. /\ r \in Seq(Nat) /\ Len(r) = n /\ DOMAIN r = 1..n
      /\ \A i \in 1..h : r[i] = hits[p[i]]
      /\ \A i \in (h + 1)..n : r[i] = hits[i]
  BY <1>3, <1>7 DEF Takes
<1>9. Permutes(p, h)
  BY <1>4, <1>6, <1>7, TakenPermutes
<1>10. \A i \in 1..h : p[i] \in 1..h /\ p[i] \in 1..n
  <2>1. \A i \in 1..h : p[i] \in 1..h
    <3>1. PICK seq \in Seq(1..h) : seq = p /\ Len(seq) = h
      BY <1>9 DEF Permutes
    <3>2. \A i \in 1..h : seq[i] \in 1..h
      BY <3>1
    <3> QED BY <3>1, <3>2
  <2>2. 1..h \subseteq 1..n
    BY <1>2, <1>7
  <2> QED BY <2>1, <2>2
<1>11. \A i \in 1..n : i \in 1..h \/ i \in (h + 1)..n
  BY <1>2, <1>7
<1>12. \A i \in 1..n : r[i] \in 1..n
  BY <1>3, <1>8, <1>10, <1>11
<1>13. \A j \in 1..n : \E i \in 1..n : r[i] = j
  <2> TAKE j \in 1..n
  <2>1. CASE j \in 1..h
    <3>1. PICK i \in 1..h : p[i] = j
      BY <1>9, <2>1 DEF Permutes
    <3>2. i \in 1..n
      BY <1>2, <1>7
    <3>3. r[i] = j
      BY <1>3, <1>8, <3>1
    <3> QED BY <3>2, <3>3
  <2>2. CASE j \in (h + 1)..n
    BY <1>3, <1>8, <2>2
  <2> QED BY <1>11, <2>1, <2>2
<1>14. ToSet(r) = ToSet(hits)
  <2>1. ToSet(r) = {r[i] : i \in 1..n} /\ ToSet(hits) = {hits[i] : i \in 1..n}
    BY <1>3, <1>8 DEF ToSet
  <2>2. {hits[i] : i \in 1..n} = 1..n
    BY <1>3
  <2>3. {r[i] : i \in 1..n} = 1..n
    BY <1>12, <1>13
  <2> QED BY <2>1, <2>2, <2>3
<1>15. \A i \in (TopK + 1)..n : r[i] = i
  <2> TAKE i \in (TopK + 1)..n
  <2>1. i \in (h + 1)..n /\ i \in 1..n
    BY <1>1, <1>2, <1>7
  <2> QED BY <1>3, <1>8, <2>1
<1> QED BY <1>8, <1>14, <1>15

-----------------------------------------------------------------------------
(* Searches *)

\* Positions in order: those of a set that goes on from another go on from its.
LEMMA EnumerationsBegin ==
    ASSUME NEW F \in SUBSET Nat, NEW G \in SUBSET Nat, IsFiniteSet(G), F \subseteq G,
           \A f \in F, g \in G \ F : f < g,
           NEW s, Enumerates(s, F), NEW t, Enumerates(t, G)
    PROVE  Begins(s, t)
<1>1. /\ s \in Seq(F) /\ Len(s) \in Nat /\ \A i, j \in 1..Len(s) : i < j => s[i] < s[j]
      /\ \A x \in F : \E i \in 1..Len(s) : s[i] = x
  BY DEF Enumerates, Rising
<1>2. /\ t \in Seq(G) /\ Len(t) \in Nat /\ \A i, j \in 1..Len(t) : i < j => t[i] < t[j]
      /\ \A x \in G : \E i \in 1..Len(t) : t[i] = x
  BY DEF Enumerates, Rising
<1>3. Len(s) <= Len(t)
  <2>1. Cardinality(F) <= Cardinality(G)
    BY FS_Subset
  <2>2. Len(s) = Cardinality(F) /\ Len(t) = Cardinality(G)
    BY DEF Enumerates
  <2> QED BY <2>1, <2>2
<1>4. \A i \in 1..Len(s) : s[i] \in F /\ s[i] \in Nat
  <2> TAKE i \in 1..Len(s)
  <2>1. s[i] \in F
    BY <1>1, ElementOfSeq
  <2> QED BY <2>1
<1>5. \A i \in 1..Len(t) : t[i] \in G /\ t[i] \in Nat
  <2> TAKE i \in 1..Len(t)
  <2>1. t[i] \in G
    BY <1>2, ElementOfSeq
  <2> QED BY <2>1
<1> DEFINE D == {i \in 1..Len(s) : s[i] # t[i]}
<1>6. ASSUME D # {} PROVE FALSE
  <2>1. PICK i \in D : \A j \in D : i <= j
    <3>1. D \in SUBSET Nat
      OBVIOUS
    <3> HIDE DEF D
    <3> QED BY <1>6, <3>1, LeastElement
  <2>2. i \in 1..Len(s) /\ i \in 1..Len(t) /\ s[i] # t[i]
    BY <1>1, <1>2, <1>3
  <2>3. \A j \in 1..Len(s) : j < i => s[j] = t[j]
    BY <1>1, <2>1
  <2> HIDE DEF D
  <2>4. ASSUME s[i] < t[i] PROVE FALSE
    <3>1. PICK k \in 1..Len(t) : t[k] = s[i]
      BY <1>2, <1>4, <2>2
    <3>2. CASE k < i
      <4>1. k \in 1..Len(s)
        BY <2>2, <3>2
      <4>2. s[k] = s[i] /\ s[k] < s[i]
        BY <1>1, <2>2, <2>3, <3>1, <3>2, <4>1
      <4> QED BY <1>4, <2>2, <4>1, <4>2
    <3>3. CASE k >= i
      <4>1. k = i \/ i < k
        BY <2>2, <3>3
      <4>2. i < k => t[i] < t[k]
        BY <1>2, <2>2
      <4> QED BY <1>4, <1>5, <2>2, <2>4, <3>1, <4>1, <4>2
    <3> QED BY <2>2, <3>2, <3>3
  <2>5. ASSUME t[i] < s[i] PROVE FALSE
    <3>1. t[i] \in F
      <4>1. t[i] \notin F => s[i] < t[i]
        BY <1>4, <1>5, <2>2
      <4> QED BY <1>4, <1>5, <2>2, <2>5, <4>1
    <3>2. PICK k \in 1..Len(s) : s[k] = t[i]
      BY <1>1, <3>1
    <3>3. CASE k < i
      <4>1. k \in 1..Len(t) /\ t[k] = t[i] /\ t[k] < t[i]
        BY <1>2, <1>3, <2>2, <2>3, <3>2, <3>3
      <4> QED BY <1>5, <2>2, <4>1
    <3>4. CASE k >= i
      <4>1. k = i \/ i < k
        BY <2>2, <3>4
      <4>2. i < k => s[i] < s[k]
        BY <1>1, <2>2
      <4> QED BY <1>4, <1>5, <2>2, <2>5, <3>2, <4>1, <4>2
    <3> QED BY <2>2, <3>3, <3>4
  <2> QED BY <1>4, <1>5, <2>2, <2>4, <2>5
<1> QED BY <1>3, <1>6 DEF Begins

\* The places an arm of more rows adds come after those it had.
LEMMA PlacesGrow ==
    ASSUME NEW S, NEW s \in Seq(S), NEW t \in Seq(S), Begins(s, t)
    PROVE  /\ FirstPlaces(s) \subseteq FirstPlaces(t)
           /\ \A j \in FirstPlaces(t) \ FirstPlaces(s) : j > Len(s)
<1>1. Len(s) \in Nat /\ Len(t) \in Nat /\ Len(s) <= Len(t) /\ \A i \in 1..Len(s) : s[i] = t[i]
  BY DEF Begins
<1>2. DOMAIN s = 1..Len(s) /\ DOMAIN t = 1..Len(t) /\ \A i \in 1..Len(s) : i \in 1..Len(t)
  BY <1>1
<1>3. ASSUME NEW j \in 1..Len(s) PROVE Place(s, s[j]) = Place(t, t[j])
  <2>1. PICK x : x = s[j] /\ x = t[j]
    BY <1>1
  <2>2. PICK p, q : p = Place(s, x) /\ q = Place(t, x)
    OBVIOUS
  <2>3. p # 0 /\ p <= j
    BY <2>1, <2>2, Places
  <2>4. p \in 1..Len(s) /\ s[p] = x
    BY <2>2, <2>3, Places
  <2>5. p \in 1..Len(t) /\ t[p] = x
    BY <1>1, <1>2, <2>4
  <2>6. q # 0 /\ q <= p
    BY <2>2, <2>5, Places
  <2>7. q \in 1..Len(t) /\ t[q] = x
    BY <2>2, <2>6, Places
  <2>8. q \in 1..Len(s) /\ s[q] = x
    <3>1. q \in 1..Len(s)
      BY <1>1, <2>4, <2>6, <2>7
    <3> QED BY <1>1, <2>7, <3>1
  <2>9. p <= q
    BY <2>2, <2>8, Places
  <2> QED BY <2>1, <2>2, <2>4, <2>6, <2>7, <2>9
<1>4. \A j \in 1..Len(s) : j \in FirstPlaces(s) <=> j \in FirstPlaces(t)
  BY <1>2, <1>3 DEF FirstPlaces
<1>5. FirstPlaces(s) \subseteq 1..Len(s) /\ FirstPlaces(t) \subseteq 1..Len(t)
  BY <1>2 DEF FirstPlaces
<1>6. \A j \in FirstPlaces(t) \ FirstPlaces(s) : j > Len(s)
  <2> TAKE j \in FirstPlaces(t) \ FirstPlaces(s)
  <2>1. j \notin 1..Len(s) /\ j \in 1..Len(t)
    BY <1>4, <1>5
  <2> QED BY <1>1, <2>1
<1> QED BY <1>4, <1>5, <1>6

\* The vector arm: of more rows, what it finds goes on from what it found; and
\* finds as many as there are rows, where no two are of one segment.
LEMMA VectorBegins ==
    ASSUME NEW S, NEW nearest \in Seq(S), NEW m \in Nat, NEW n \in Nat, m <= n
    PROVE  /\ VectorHits(nearest, m) \in Seq(S)
           /\ Begins(VectorHits(nearest, m), VectorHits(nearest, n))
           /\ Len(VectorHits(nearest, m)) <= Len(nearest)
           /\ IsInjective(nearest) =>
                Len(VectorHits(nearest, m)) = Shorter(Len(nearest), m)
<1>1. PICK near, more : near = AtMost(nearest, m) /\ more = AtMost(nearest, n)
  OBVIOUS
<1>2. PICK hits, found : hits = VectorHits(nearest, m) /\ found = VectorHits(nearest, n)
  OBVIOUS
<1>3. PICK F, G : F = FirstPlaces(near) /\ G = FirstPlaces(more)
  OBVIOUS
<1>4. PICK s, t : s = InOrder(F) /\ t = InOrder(G)
  OBVIOUS
<1>5. AtPlaces(hits, near, s, S)
  BY <1>1, <1>2, <1>3, <1>4, VectorHitsAre
<1>6. AtPlaces(found, more, t, S)
  BY <1>1, <1>2, <1>3, <1>4, VectorHitsAre
<1>7. near \in Seq(S) /\ more \in Seq(S) /\ Begins(near, more)
  <2>1. near \in Seq(S) /\ more \in Seq(S)
    BY <1>5, <1>6 DEF AtPlaces
  <2>2. Begins(nearest, nearest)
    BY BeginsItself
  <2> QED BY <1>1, <2>1, <2>2, FirstsBegin
<1>8. /\ F \in SUBSET (1..Len(near)) /\ IsFiniteSet(F) /\ F \in SUBSET Nat
  BY <1>3, <1>7, FirstPlacesAre
<1>9. G \in SUBSET (1..Len(more)) /\ IsFiniteSet(G) /\ G \in SUBSET Nat
  BY <1>3, <1>7, FirstPlacesAre
<1>10. F \subseteq G /\ \A j \in G \ F : j > Len(near)
  BY <1>3, <1>7, PlacesGrow
<1>11. Enumerates(s, F) /\ Enumerates(t, G)
  BY <1>4, <1>8, <1>9, InOrderIs
<1>12. \A f \in F, g \in G \ F : f < g
  <2> TAKE f \in F, g \in G \ F
  <2>1. f \in 1..Len(near) /\ g \in Nat /\ g > Len(near) /\ Len(near) \in Nat
    BY <1>7, <1>8, <1>9, <1>10
  <2> QED BY <2>1
<1>13. Begins(s, t)
  BY <1>8, <1>9, <1>10, <1>11, <1>12, EnumerationsBegin
<1>14. /\ Len(s) \in Nat /\ Len(t) \in Nat /\ Len(hits) = Len(s) /\ Len(found) = Len(t)
       /\ hits \in Seq(S)
       /\ \A i \in 1..Len(s) : hits[i] = near[s[i]] /\ s[i] \in F
       /\ \A i \in 1..Len(t) : found[i] = more[t[i]]
  BY <1>3, <1>5, <1>6 DEF AtPlaces
<1>15. Begins(hits, found)
  <2>1. Len(s) <= Len(t) /\ \A i \in 1..Len(s) : s[i] = t[i]
    BY <1>13 DEF Begins
  <2>2. ASSUME NEW i \in 1..Len(s) PROVE hits[i] = found[i]
    <3>1. i \in 1..Len(t) /\ s[i] \in 1..Len(near)
      <4>1. s[i] \in F
        BY <1>14
      <4>2. s[i] \in 1..Len(near)
        BY <1>8, <4>1
      <4> QED BY <1>14, <2>1, <4>2
    <3>2. near[s[i]] = more[s[i]]
      BY <1>7, <3>1 DEF Begins
    <3> QED BY <1>14, <2>1, <3>1, <3>2
  <2> QED BY <1>14, <2>1, <2>2 DEF Begins
<1>16. PICK l : l = Shorter(Len(nearest), m)
  OBVIOUS
<1>17. /\ Len(near) = l /\ l \in Nat /\ l <= Len(nearest)
       /\ \A i \in 1..l : near[i] = nearest[i]
  BY <1>1, <1>16, FirstOf
<1>18. IsFiniteSet(1..l) /\ Cardinality(1..l) = l
  <2>1. Cardinality(1..l) = IF 1 > l THEN 0 ELSE l - 1 + 1
    BY <1>17, FS_Interval
  <2>2. IsFiniteSet(1..l)
    BY <1>17, FS_Interval
  <2> QED BY <1>17, <2>1, <2>2
<1>19. Len(s) = Cardinality(F)
  BY <1>11 DEF Enumerates
<1>20. Len(hits) <= Len(nearest)
  <2>1. Cardinality(F) <= l
    BY <1>8, <1>17, <1>18, FS_Subset
  <2>2. Len(nearest) \in Nat
    OBVIOUS
  <2> QED BY <1>14, <1>17, <1>19, <2>1, <2>2
<1>21. ASSUME IsInjective(nearest) PROVE Len(hits) = l
  <2>1. \A i \in 1..l : i \in FirstPlaces(near)
    <3> TAKE i \in 1..l
    <3>1. PICK j : j = Place(near, near[i])
      OBVIOUS
    <3>2. i \in 1..Len(near)
      BY <1>17
    <3>3. j # 0
      BY <1>7, <3>1, <3>2, Places
    <3>4. j \in 1..Len(near) /\ near[j] = near[i]
      BY <1>7, <3>1, <3>3, Places
    <3>5. nearest[j] = nearest[i] /\ j \in DOMAIN nearest /\ i \in DOMAIN nearest
      <4>1. 1..l \subseteq 1..Len(nearest)
        BY <1>17
      <4>2. DOMAIN nearest = 1..Len(nearest)
        OBVIOUS
      <4> QED BY <1>17, <3>2, <3>4, <4>1, <4>2
    <3>6. i = j
      BY <1>21, <3>5 DEF IsInjective
    <3>7. i \in DOMAIN near
      BY <1>7, <3>2
    <3> QED BY <3>1, <3>6, <3>7 DEF FirstPlaces
  <2>2. F = 1..l
    BY <1>3, <1>8, <1>17, <2>1
  <2> QED BY <1>14, <1>18, <1>19, <2>2
<1> QED BY <1>2, <1>14, <1>15, <1>16, <1>20, <1>21

\* A reranked list goes on as the list does, where the heads are the same.
LEMMA RerankBegins ==
    ASSUME NEW S, NEW hits \in Seq(S), NEW more \in Seq(S), Begins(hits, more),
           Shorter(Len(hits), TopK) = Shorter(Len(more), TopK),
           NEW order \in Seq(Int) \cup {Failed}
    PROVE  /\ Reranked(hits, order) \in Seq(S) /\ Reranked(more, order) \in Seq(S)
           /\ Begins(Reranked(hits, order), Reranked(more, order))
<1>1. PICK h : h = Shorter(Len(hits), TopK) /\ h = Shorter(Len(more), TopK)
  OBVIOUS
<1>2. PICK p : p = Taken(order, h)
  OBVIOUS
<1>3. PICK r, q : r = Reranked(hits, order) /\ q = Reranked(more, order)
  OBVIOUS
<1>4. h \in Nat /\ h <= Len(hits) /\ Takes(r, hits, p, h, S)
  BY <1>1, <1>2, <1>3, RerankedTakes
<1>5. h <= Len(more) /\ Takes(q, more, p, h, S)
  BY <1>1, <1>2, <1>3, RerankedTakes
<1>6. Permutes(p, h)
  BY <1>2, <1>4, TakenPermutes
<1>7. \A i \in 1..h : p[i] \in 1..h
  <2>1. PICK seq \in Seq(1..h) : seq = p /\ Len(seq) = h
    BY <1>6 DEF Permutes
  <2>2. \A i \in 1..h : seq[i] \in 1..h
    BY <2>1
  <2> QED BY <2>1, <2>2
<1>8. Len(hits) \in Nat /\ Len(more) \in Nat /\ Len(hits) <= Len(more)
      /\ \A i \in 1..Len(hits) : hits[i] = more[i]
  BY DEF Begins
<1>9. /\ r \in Seq(S) /\ Len(r) = Len(hits) /\ q \in Seq(S) /\ Len(q) = Len(more)
      /\ \A i \in 1..h : r[i] = hits[p[i]] /\ q[i] = more[p[i]]
      /\ \A i \in (h + 1)..Len(hits) : r[i] = hits[i]
      /\ \A i \in (h + 1)..Len(more) : q[i] = more[i]
  BY <1>4, <1>5 DEF Takes
<1>10. ASSUME NEW i \in 1..Len(hits) PROVE r[i] = q[i]
  <2>1. CASE i \in 1..h
    <3>1. p[i] \in 1..Len(hits)
      BY <1>4, <1>7, <1>8, <2>1
    <3> QED BY <1>8, <1>9, <2>1, <3>1
  <2>2. CASE i \notin 1..h
    <3>1. i \in (h + 1)..Len(hits) /\ i \in (h + 1)..Len(more)
      BY <1>4, <1>8, <2>2
    <3> QED BY <1>8, <1>9, <3>1
  <2> QED BY <2>1, <2>2
<1> QED BY <1>3, <1>8, <1>9, <1>10 DEF Begins

\* What a search finds before it is reranked and cut.
Found(mode, text, nearest, candidates) ==
    LET wide == IF candidates < ArmLimit THEN ArmLimit ELSE candidates
    IN CASE mode = "text" -> AtMost(text, candidates)
         [] mode = "vector" -> VectorHits(nearest, candidates)
         [] mode = "hybrid" -> Fused(<<AtMost(text, wide), VectorHits(nearest, wide)>>,
                                     [a \in {1, 2} |-> 1])

\* The fused hits of two arms are hits.
LEMMA HybridFinds ==
    ASSUME NEW text \in Seq(Keys), NEW nearest \in Seq(Keys), NEW wide \in Nat,
           Len(text) <= Bound, Len(nearest) <= Bound
    PROVE  Fused(<<AtMost(text, wide), VectorHits(nearest, wide)>>, [a \in {1, 2} |-> 1])
             \in Seq(Keys)
<1>1. Bound \in Nat
  BY AlgorithmsAssumption, Zenon
<1>2. PICK l : l = Shorter(Len(text), wide)
  OBVIOUS
<1>3. PICK one \in Seq(Keys) : one = AtMost(text, wide) /\ Len(one) <= Bound
  <2>1. /\ AtMost(text, wide) \in Seq(Keys) /\ Len(AtMost(text, wide)) = l
        /\ l <= Len(text) /\ l \in Nat
    BY <1>2, FirstOf
  <2>2. l <= Bound
    BY <1>1, <2>1
  <2> QED BY <2>1, <2>2
<1>4. PICK two \in Seq(Keys) : two = VectorHits(nearest, wide) /\ Len(two) <= Bound
  <2>1. PICK hits : hits = VectorHits(nearest, wide)
    OBVIOUS
  <2>2. hits \in Seq(Keys) /\ Len(hits) <= Len(nearest)
    BY <2>1, VectorBegins
  <2>3. Len(hits) <= Bound
    BY <1>1, <2>2
  <2> QED BY <2>1, <2>2, <2>3
<1>5. PICK weight \in [{1, 2} -> 0..2] : weight = [a \in {1, 2} |-> 1]
  <2>1. [a \in {1, 2} |-> 1] \in [{1, 2} -> 0..2]
    OBVIOUS
  <2> QED BY <2>1
<1>6. PICK arms, fused : arms = <<one, two>> /\ fused = Fused(arms, weight)
  OBVIOUS
<1>7. Ranks(fused, arms, weight)
  BY <1>3, <1>4, <1>6, FusedIs
<1>8. fused \in Seq(Keys)
  BY <1>7 DEF Ranks
<1> QED BY <1>3, <1>4, <1>5, <1>6, <1>8, Zenon

GoesOn(hits, more, rerank) ==
    /\ hits \in Seq(Keys) /\ more \in Seq(Keys) /\ Begins(hits, more)
    /\ rerank => Shorter(Len(hits), TopK) = Shorter(Len(more), TopK)

\* Who asks for one more finds what goes on from what was found before, and
\* what the reranker is given of it is the same.
LEMMA FoundBegins ==
    ASSUME NEW mode \in {"text", "vector", "hybrid"}, NEW rerank \in BOOLEAN,
           NEW text \in Seq(Keys), NEW nearest \in Seq(Keys),
           Len(text) <= Bound, Len(nearest) <= Bound, NEW limit \in Nat,
           mode = "hybrid" =>
             limit < (IF rerank /\ ArmLimit < TopK THEN TopK ELSE ArmLimit),
           rerank => IsInjective(nearest),
           NEW hits, hits = Found(mode, text, nearest, CandidateLimit(limit, rerank)),
           NEW more, more = Found(mode, text, nearest, CandidateLimit(limit + 1, rerank))
    PROVE  GoesOn(hits, more, rerank)
<1>1. TopK \in Nat /\ ArmLimit \in Nat
  <2>1. {TopK, ArmLimit} \subseteq Nat \ {0}
    BY AlgorithmsAssumption, Zenon
  <2> QED BY <2>1
<1>2. PICK c, d : c = CandidateLimit(limit, rerank) /\ d = CandidateLimit(limit + 1, rerank)
  OBVIOUS
<1>3. c \in Nat /\ d \in Nat /\ c <= d /\ (rerank => TopK <= c)
  BY <1>1, <1>2 DEF CandidateLimit
<1>4. Len(text) \in Nat /\ Len(nearest) \in Nat
  OBVIOUS
<1>5. CASE mode = "text"
  <2>1. hits = AtMost(text, c) /\ more = AtMost(text, d)
    BY <1>2, <1>5 DEF Found
  <2>2. Begins(text, text)
    BY BeginsItself
  <2>3. Begins(hits, more)
    BY <1>3, <2>1, <2>2, FirstsBegin
  <2>4. PICK k, l : k = Shorter(Len(text), c) /\ l = Shorter(Len(text), d)
    OBVIOUS
  <2>5. hits \in Seq(Keys) /\ Len(hits) = k
    BY <1>3, <2>1, <2>4, FirstOf
  <2>6. more \in Seq(Keys) /\ Len(more) = l
    BY <1>3, <2>1, <2>4, FirstOf
  <2>7. rerank => Shorter(k, TopK) = Shorter(l, TopK)
    BY <1>1, <1>3, <1>4, <2>4 DEF Shorter
  <2> QED BY <2>3, <2>5, <2>6, <2>7 DEF GoesOn
<1>6. CASE mode = "vector"
  <2>1. hits = VectorHits(nearest, c) /\ more = VectorHits(nearest, d)
    BY <1>2, <1>6 DEF Found
  <2>2. hits \in Seq(Keys) /\ Begins(hits, more)
    BY <1>3, <2>1, VectorBegins
  <2>3. more \in Seq(Keys)
    BY <1>3, <2>1, VectorBegins
  <2>4. PICK k, l : k = Shorter(Len(nearest), c) /\ l = Shorter(Len(nearest), d)
    OBVIOUS
  <2>5. ASSUME rerank PROVE Len(hits) = k
    <3>1. IsInjective(nearest)
      BY <2>5
    <3> QED BY <1>3, <2>1, <2>4, <3>1, VectorBegins
  <2>6. ASSUME rerank PROVE Len(more) = l
    <3>1. IsInjective(nearest) /\ d <= d
      BY <1>3, <2>6
    <3> QED BY <1>3, <2>1, <2>4, <3>1, VectorBegins
  <2>7. rerank => Shorter(k, TopK) = Shorter(l, TopK)
    BY <1>1, <1>3, <1>4, <2>4 DEF Shorter
  <2> QED BY <2>2, <2>3, <2>5, <2>6, <2>7 DEF GoesOn
<1>7. CASE mode = "hybrid"
  <2> DEFINE Wide(n) == IF n < ArmLimit THEN ArmLimit ELSE n
  <2>1. Wide(c) = Wide(d) /\ Wide(c) \in Nat
    BY <1>1, <1>2, <1>3, <1>7 DEF CandidateLimit
  <2>2. PICK w \in Nat : w = Wide(c) /\ w = Wide(d)
    BY <2>1
  <2>3. PICK fused : fused = Fused(<<AtMost(text, w), VectorHits(nearest, w)>>,
                                   [a \in {1, 2} |-> 1])
    OBVIOUS
  <2>4. hits = fused
    BY <1>2, <1>7, <2>2, <2>3 DEF Found
  <2>5. more = fused
    BY <1>2, <1>7, <2>2, <2>3 DEF Found
  <2>6. fused \in Seq(Keys)
    BY <2>3, HybridFinds
  <2> QED BY <2>4, <2>5, <2>6, BeginsItself DEF GoesOn
<1> QED BY <1>5, <1>6, <1>7

\* search_recordings, for any arms, limits and answers of the reranker: who
\* asks for more sees the same results first, as long as the arms are asked for
\* as much and no two rows that are reranked are of one segment.
THEOREM SearchHolds == MoreKeepsTheOrder
<1> SUFFICES ASSUME NEW mode \in {"text", "vector", "hybrid"}, NEW rerank \in BOOLEAN,
                    NEW text \in BoundedSeq(Keys, Bound),
                    NEW nearest \in BoundedSeq(Keys, Bound), NEW limit \in 1..(Bound - 1),
                    mode = "hybrid" =>
                      limit < (IF rerank /\ ArmLimit < TopK THEN TopK ELSE ArmLimit),
                    rerank => IsInjective(nearest),
                    NEW order \in {Failed, <<TopK>>, Reverse(Indices(TopK))}
             PROVE  IsPrefix(Search(mode, text, nearest, limit, rerank, order),
                             Search(mode, text, nearest, limit + 1, rerank, order))
  BY DEF MoreKeepsTheOrder
<1>1. Bound \in Nat /\ TopK \in Nat
  <2>1. Bound \in Nat /\ {TopK, ArmLimit} \subseteq Nat \ {0}
    BY AlgorithmsAssumption, Zenon
  <2> QED BY <2>1
<1>2. text \in Seq(Keys) /\ Len(text) <= Bound
  <2>1. text \in Seq(Keys) /\ Len(text) \in 0..Bound
    BY BoundedKeys
  <2> QED BY <1>1, <2>1
<1>3. nearest \in Seq(Keys) /\ Len(nearest) <= Bound
  <2>1. nearest \in Seq(Keys) /\ Len(nearest) \in 0..Bound
    BY BoundedKeys
  <2> QED BY <1>1, <2>1
<1>4. order \in Seq(Int) \cup {Failed}
  <2>1. <<TopK>> \in Seq(Int)
    BY <1>1
  <2>2. Reverse(Indices(TopK)) \in Seq(Int)
    <3>1. PICK s : s = Indices(TopK)
      OBVIOUS
    <3>2. s \in [1..TopK -> Int]
      BY <1>1, <3>1 DEF Indices
    <3>3. s \in Seq(Int) /\ Len(s) = TopK
      BY <1>1, <3>2, IsSequence
    <3>4. PICK r : r = Reverse(s)
      OBVIOUS
    <3>5. r = [i \in 1..TopK |-> s[(TopK - i) + 1]]
      BY <3>3, <3>4 DEF Reverse
    <3>6. \A i \in 1..TopK : s[(TopK - i) + 1] \in Int
      BY <1>1, <3>2
    <3>7. r \in [1..TopK -> Int]
      BY <3>5, <3>6
    <3> QED BY <1>1, <3>1, <3>4, <3>7, IsSequence
  <2> QED BY <2>1, <2>2
<1>5. limit \in Nat /\ limit + 1 \in Nat /\ limit <= limit + 1
  OBVIOUS
<1>6. PICK hits, more :
        /\ hits = Found(mode, text, nearest, CandidateLimit(limit, rerank))
        /\ more = Found(mode, text, nearest, CandidateLimit(limit + 1, rerank))
  OBVIOUS
<1>7. /\ hits \in Seq(Keys) /\ more \in Seq(Keys) /\ Begins(hits, more)
      /\ rerank => Shorter(Len(hits), TopK) = Shorter(Len(more), TopK)
  <2>1. GoesOn(hits, more, rerank)
    BY <1>2, <1>3, <1>5, <1>6, FoundBegins
  <2> QED BY <2>1 DEF GoesOn
<1>8. PICK r, q : /\ r = IF rerank THEN Reranked(hits, order) ELSE hits
                  /\ q = IF rerank THEN Reranked(more, order) ELSE more
  OBVIOUS
<1>9. r \in Seq(Keys) /\ q \in Seq(Keys) /\ Begins(r, q)
  <2>1. CASE rerank
    BY <1>4, <1>7, <1>8, <2>1, RerankBegins
  <2>2. CASE ~rerank
    BY <1>7, <1>8, <2>2
  <2> QED BY <2>1, <2>2
<1>10. /\ Search(mode, text, nearest, limit, rerank, order) = AtMost(r, limit)
       /\ Search(mode, text, nearest, limit + 1, rerank, order) = AtMost(q, limit + 1)
  BY <1>6, <1>8 DEF Search, Found
<1>11. Begins(AtMost(r, limit), AtMost(q, limit + 1))
  BY <1>5, <1>9, FirstsBegin
<1>12. AtMost(r, limit) \in Seq(Keys) /\ AtMost(q, limit + 1) \in Seq(Keys)
  BY <1>5, <1>9, FirstOf
<1>13. IsPrefix(AtMost(r, limit), AtMost(q, limit + 1))
  BY <1>11, <1>12, BeginsIsPrefix
<1> QED BY <1>10, <1>13

\* What was found is fused, reranked and cut to what was asked for, for any
\* arms, and its order means what the arms and the reranker said.
THEOREM OrderHolds == RankingIsExact
BY FusionHolds, RerankHolds, SearchHolds DEF RankingIsExact

=============================================================================
