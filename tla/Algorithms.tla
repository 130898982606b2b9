------------------------------ MODULE Algorithms ------------------------------
(***************************************************************************)
(* The pure functions between a provider's words and an answered search:   *)
(* utterances made of words (stages.py), utterances packed into windows    *)
(* (vector/chunking.py), texts sent in batches (vector/embedding.py), hits *)
(* fused and reranked (vector/search.py); and the parts a file is uploaded *)
(* in (chunked.py).  Each is stated as the code computes it and compared   *)
(* with what its callers rely on, over all inputs up to a bound.           *)
(*                                                                         *)
(* Lengths are counted in words: a text is a sequence of words, cut where  *)
(* the code cuts at spaces.                                                *)
(***************************************************************************)
EXTENDS Integers, Sequences, FiniteSets, SequencesExt

CONSTANTS
    Target, MaxLength, Overlap, \* SEGMENT_WINDOW, in words
    BatchSize, BatchLength,     \* BATCH_SIZE, BATCH_MAX_CHARS
    MinWords, MaxWords,         \* UTTERANCE_MIN_WORDS, and UTTERANCE_MAX_*
    RrfK, TopK, ArmLimit,       \* RRF_K, RERANK.TOP_K, ARM_LIMIT
    Bound,                      \* bound: longest input compared
    Failed                      \* an answer that is not one

ASSUME AlgorithmsAssumption ==
    /\ Target \in Nat \ {0} /\ MaxLength \in Nat /\ Target <= MaxLength
    /\ Overlap \in 0..(Target \div 2)
    /\ BatchSize \in Nat \ {0} /\ BatchLength \in Nat
    /\ MinWords \in Nat \ {0} /\ MaxWords \in Nat /\ MinWords <= MaxWords
    /\ RrfK \in Nat /\ {TopK, ArmLimit} \subseteq Nat \ {0}
    /\ Bound \in Nat /\ Failed \notin Seq(Int)

SumOf(numbers) ==
    LET sum[i \in 0..Len(numbers)] == IF i = 0 THEN 0 ELSE sum[i - 1] + numbers[i]
    IN sum[Len(numbers)]

\* A finite set in the order of Before, which is a strict total order on it.
Arranged(S, Before(_, _)) ==
    CHOOSE s \in SetToSeqs(S) : \A i, j \in DOMAIN s : i < j => Before(s[i], s[j])

\* Positions, first to last.
InOrder(S) == Arranged(S, LAMBDA i, j : i < j)

-----------------------------------------------------------------------------
(* Windows *)

\* _split_oversized; `part` tells pieces apart and is not in the text.
SplitOversized(seg, words) ==
    LET n == (Len(words) + MaxLength - 1) \div MaxLength
    IN [i \in 1..n |->
          [seg |-> seg, part |-> i,
           words |-> SubSeq(words, (i - 1) * MaxLength + 1,
                            IF i = n THEN Len(words) ELSE i * MaxLength)]]

\* What build_windows runs over: texts in transcript order, blank ones skipped.
Pieces(said) == FlattenSeq([i \in DOMAIN said |-> SplitOversized(i, said[i])])

\* The separator counts too.
SizeOf(lines) ==
    LET size[i \in 0..Len(lines)] ==
          IF i = 0 THEN 0 ELSE size[i - 1] + Len(lines[i].words) + 1
    IN size[Len(lines)]

Exceeds(acc, piece) ==
    acc.lines # <<>> /\ SizeOf(acc.lines) + Len(piece.words) + 1 > MaxLength

\* The tail that fits the overlap, never the whole window.
Carried(lines) ==
    CHOOSE s \in Suffixes(Tail(lines)) :
      /\ SizeOf(s) <= Overlap
      /\ \A t \in Suffixes(Tail(lines)) : SizeOf(t) <= Overlap => Len(t) <= Len(s)

Flush(acc) ==
    IF acc.lines = <<>> THEN acc
    ELSE [windows |-> Append(acc.windows, acc.lines), lines |-> Carried(acc.lines)]

\* Mutant: the overlap is kept whatever comes next.
KeepsOverlap(acc, piece) == acc
\* An overlap that leaves no room is dropped.
MakesRoom(acc, piece) ==
    IF Exceeds(acc, piece) THEN [acc EXCEPT !.lines = <<>>] ELSE acc

AddPiece(acc, piece) ==
    LET room == IF Exceeds(acc, piece) THEN MakesRoom(Flush(acc), piece) ELSE acc
        next == [room EXCEPT !.lines = Append(@, piece)]
    IN IF SizeOf(next.lines) >= Target THEN Flush(next) ELSE next

\* build_windows; a window is the sequence of its pieces.
BuildWindows(said) ==
    LET pieces == Pieces(said)
        acc[i \in 0..Len(pieces)] ==
          IF i = 0 THEN [windows |-> <<>>, lines |-> <<>>]
          ELSE AddPiece(acc[i - 1], pieces[i])
    IN Flush(acc[Len(pieces)]).windows

-----------------------------------------------------------------------------
(* Batches *)

\* Mutant: the batch that is being filled is never yielded at the end.
DropsRest(acc) == acc.done
YieldsRest(acc) == IF acc.batch = <<>> THEN acc.done ELSE Append(acc.done, acc.batch)

AddText(acc, n) ==
    IF acc.batch # <<>> /\ \/ Len(acc.batch) >= BatchSize
                           \/ BatchLength > 0 /\ acc.chars + n > BatchLength
    THEN [done |-> Append(acc.done, acc.batch), batch |-> <<n>>, chars |-> n]
    ELSE [acc EXCEPT !.batch = Append(@, n), !.chars = @ + n]

\* batched, over the lengths of the texts.
Batched(lengths) ==
    LET acc[i \in 0..Len(lengths)] ==
          IF i = 0 THEN [done |-> <<>>, batch |-> <<>>, chars |-> 0]
          ELSE AddText(acc[i - 1], lengths[i])
    IN YieldsRest(acc[Len(lengths)])

-----------------------------------------------------------------------------
(* Utterances *)

Word == [speaker : {"a", "b"}, blank : BOOLEAN,
         pause : BOOLEAN]   \* before it: a gap, or the end of a sentence

\* Mutant: the speaker of the first word stays.
KeepsSpeaker(acc, word) == acc.speaker
NextSpeaker(acc, word) == word.speaker

Cuts(acc, word) ==
    \/ word.speaker # acc.speaker
    \/ Len(acc.words) >= MaxWords
    \/ Len(acc.words) >= MinWords /\ word.pause

\* An utterance without text is dropped.
Utter(acc, words) ==
    IF \A i \in ToSet(acc.words) : words[i].blank THEN acc.done
    ELSE Append(acc.done, [speaker |-> acc.speaker, words |-> acc.words])

AddWord(acc, words, i) ==
    IF acc.words # <<>> /\ Cuts(acc, words[i])
    THEN [done |-> Utter(acc, words), words |-> <<i>>,
          speaker |-> NextSpeaker(acc, words[i])]
    ELSE [acc EXCEPT !.words = Append(@, i)]

\* _utterances_from_words
Utterances(words) ==
    LET acc[i \in 0..Len(words)] ==
          IF i = 0 THEN [done |-> <<>>, words |-> <<>>, speaker |-> words[1].speaker]
          ELSE AddWord(acc[i - 1], words, i)
    IN IF words = <<>> THEN <<>> ELSE Utter(acc[Len(words)], words)

-----------------------------------------------------------------------------
(* Parts of a verified upload *)

TotalPartsFor(size, part) == IF size <= part THEN 1 ELSE (size + part - 1) \div part

\* Mutant: every part is a full one.
FullPartSize(n, size, part) == part
ExpectedPartSize(n, size, part) ==
    (IF n * part < size THEN n * part ELSE size) - (n - 1) * part

\* A part as the store lists it; a digest is known by a number, 0 where the
\* store keeps none.
StoredPart == [n : 0..3, size : 0..2, sha : 0..2]

\* _good_parts: in range and of the size its number calls for.
GoodParts(stored, size, part) ==
    {p \in stored : /\ p.n \in 1..TotalPartsFor(size, part)
                    /\ p.size = ExpectedPartSize(p.n, size, part)}

\* manifest: what a client that resumes has still to send.
MissingParts(stored, size, part) ==
    1..TotalPartsFor(size, part) \ {p.n : p \in GoodParts(stored, size, part)}

\* verify_manifest; `declared` is what the client says of each part, or 0, and
\* a fingerprint is known by the digests it was made of.
VerifyManifest(stored, declared, fingerprint, size, part) ==
    LET good == GoodParts(stored, size, part)
        all == \A p \in good : p.sha # 0
    IN /\ MissingParts(stored, size, part) = {}
       /\ \A p \in good : 0 \in {p.sha, declared[p.n]} \/ p.sha = declared[p.n]
       /\ all => \A p \in good : fingerprint[p.n] = p.sha

-----------------------------------------------------------------------------
(* Ranking *)

\* The first place of a key, zero where an arm does not have it.
Place(keys, x) == SelectInSeq(keys, LAMBDA k : k = x)

\* Mutant: a key that an arm names twice counts twice.
CountsAll(keys, x) == {i \in DOMAIN keys : keys[i] = x}
Counted(keys, x) == {i \in DOMAIN keys : i = Place(keys, x)}

\* A score is a sum of weight / (k + place), kept over a common denominator.
Denominator ==
    LET product[i \in 0..Bound] == IF i = 0 THEN 1 ELSE product[i - 1] * (RrfK + i)
    IN product[Bound]
ArmScore(keys, x) ==
    SumOf([i \in DOMAIN keys |->
             IF i \in Counted(keys, x) THEN Denominator \div (RrfK + i) ELSE 0])
Score(arms, weight, x) == weight[1] * ArmScore(arms[1], x) + weight[2] * ArmScore(arms[2], x)

\* reciprocal_rank_fusion of a text and a vector arm; an arm of no weight is
\* left out.
Fused(arms, weight) ==
    Arranged(UNION {ToSet(arms[a]) : a \in {a \in {1, 2} : weight[a] # 0}},
             LAMBDA x, y : LET sx == Score(arms, weight, x)
                               sy == Score(arms, weight, y)
                           IN sx > sy \/ (sx = sy /\ x < y))

\* Mutant: an index may come twice.
InRange(order, n) == \A i \in DOMAIN order : order[i] \in 1..n
\* _rerank_order refuses an index that is out of range or comes twice.
ValidOrder(order, n) == InRange(order, n) /\ IsInjective(order)

Indices(n) == [i \in 1..n |-> i]

AtMost(hits, n) == SubSeq(hits, 1, IF Len(hits) < n THEN Len(hits) ELSE n)

\* _apply_rerank, which fails open.
Reranked(hits, order) ==
    LET head == AtMost(hits, TopK)
        tail == SubSeq(hits, Len(head) + 1, Len(hits))
    IN IF order = Failed \/ ~ValidOrder(order, Len(head)) THEN hits
       ELSE [i \in DOMAIN order |-> head[order[i]]]
            \o [i \in 1..(Len(head) - Len(order)) |->
                  head[InOrder(DOMAIN head \ ToSet(order))[i]]]
            \o tail

\* Mutant: an arm is asked for no more than is wanted.
JustEnough(limit, rerank) == limit
\* _candidate_limit: the reranker is given its whole head.
CandidateLimit(limit, rerank) == IF rerank /\ limit < TopK THEN TopK ELSE limit

\* _vector_arm: of the nearest rows, the segments they are anchored at.
VectorHits(nearest, limit) ==
    LET near == AtMost(nearest, limit)
    IN [i \in 1..Cardinality(ToSet(near)) |->
          near[InOrder({j \in DOMAIN near : j = Place(near, near[j])})[i]]]

\* search_recordings, over what the two arms rank; the reranker's answer to a
\* head is the same each time.
Search(mode, text, nearest, limit, rerank, order) ==
    LET candidates == CandidateLimit(limit, rerank)
        wide == IF candidates < ArmLimit THEN ArmLimit ELSE candidates
        hits == CASE mode = "text" -> AtMost(text, candidates)
                  [] mode = "vector" -> VectorHits(nearest, candidates)
                  [] mode = "hybrid" -> Fused(<<AtMost(text, wide), VectorHits(nearest, wide)>>,
                                              [a \in {1, 2} |-> 1])
    IN AtMost(IF rerank THEN Reranked(hits, order) ELSE hits, limit)

-----------------------------------------------------------------------------
(* What the callers rely on *)

Lengths == BoundedSeq(1..(MaxLength + 1), Bound)

\* build_windows: windows are runs of the transcript, in its order, that leave
\* nothing out; none is longer than the embedder takes, and each one starts
\* past the start of the one before it and at the latest where that ended.
WindowsCover ==
    \A lengths \in Lengths :
      LET said == [i \in DOMAIN lengths |-> [w \in 1..lengths[i] |-> w]]
          pieces == Pieces(said)
          windows == BuildWindows(said)
          First(w) == CHOOSE i \in DOMAIN pieces : pieces[i] = windows[w][1]
          End(w) == First(w) + Len(windows[w]) - 1
      IN /\ lengths # <<>> => /\ First(1) = 1
                              /\ End(Len(windows)) = Len(pieces)
         /\ \A w \in DOMAIN windows :
              /\ windows[w] = SubSeq(pieces, First(w), End(w))
              /\ SizeOf(windows[w]) - 1 <= MaxLength
         /\ \A w \in 1..(Len(windows) - 1) :
              /\ First(w) < First(w + 1) /\ First(w + 1) <= End(w) + 1
              /\ End(w) <= End(w + 1)

\* batched: embed_texts may put the vectors of the batches end to end; no
\* batch is empty or over a limit that one text alone does not exceed.
BatchesPartition ==
    \A lengths \in Lengths :
      LET batches == Batched(lengths) IN
      /\ FlattenSeq(batches) = lengths
      /\ \A b \in DOMAIN batches :
           /\ Len(batches[b]) \in 1..BatchSize
           /\ BatchLength > 0 /\ Len(batches[b]) > 1 =>
                SumOf(batches[b]) <= BatchLength

\* _utterances_from_words: every word that says something is in one utterance,
\* of its own speaker, in order, and none runs on past the hard limit or past
\* a pause it was long enough to end at.
UtterancesPartition ==
    \A words \in BoundedSeq(Word, Bound) :
      LET us == Utterances(words)
          all == FlattenSeq([u \in DOMAIN us |-> us[u].words])
      IN /\ \A i, j \in DOMAIN all : i < j => all[i] < all[j]
         /\ \A i \in DOMAIN words : ~words[i].blank => i \in ToSet(all)
         /\ \A u \in DOMAIN us :
              /\ Len(us[u].words) <= MaxWords
              /\ \A i \in DOMAIN us[u].words :
                   /\ words[us[u].words[i]].speaker = us[u].speaker
                   /\ i > MinWords => ~words[us[u].words[i]].pause

\* The store lists a part once.
Listings == {stored \in {ToSet(s) : s \in BoundedSeq(StoredPart, 2)} :
               \A p, q \in stored : p.n = q.n => p = q}

\* total_parts_for, expected_part_size: the parts of a file are full but for the
\* last, which is not empty, and are the file.
PartsMakeTheFile ==
    \A size, part \in 1..(2 * Bound) :
      LET total == TotalPartsFor(size, part)
          Of(n) == ExpectedPartSize(n, size, part)
      IN /\ Of(total) \in 1..part
         /\ \A n \in 1..(total - 1) : Of(n) = part
         /\ SumOf([n \in 1..total |-> Of(n)]) = size

\* verify_manifest: what is accepted is as long as the file, and is the file of
\* the fingerprint where the store knows every digest, whatever was listed and
\* whatever the client declared; and who sends what is missing has sent all.
ManifestIsTheFile ==
    \A size \in 1..3, part \in 1..2, stored \in Listings :
      LET total == TotalPartsFor(size, part)
          missing == MissingParts(stored, size, part)
          resumed == {p \in stored : p.n \notin missing}
                       \cup {[n |-> n, size |-> ExpectedPartSize(n, size, part),
                              sha |-> 0] : n \in missing}
          Sent(n) == CHOOSE p \in stored : p.n = n
      IN /\ MissingParts(resumed, size, part) = {}
         /\ \A declared \in [1..total -> 0..2], fingerprint \in [1..total -> 1..2] :
              VerifyManifest(stored, declared, fingerprint, size, part) =>
                /\ SumOf([n \in 1..total |-> Sent(n).size]) = size
                /\ (\A n \in 1..total : Sent(n).sha # 0) =>
                     \A n \in 1..total : Sent(n).sha = fingerprint[n]

\* What is said is cut into utterances, windows and batches, and a file into
\* parts, and all of it is there afterwards, once and in order.
CutsAreExact ==
    /\ WindowsCover /\ BatchesPartition /\ UtterancesPartition
    /\ PartsMakeTheFile /\ ManifestIsTheFile

Keys == 1..Bound

\* reciprocal_rank_fusion: what every arm that counts places ahead, or places
\* where it leaves the other out, comes ahead, even if an arm repeats itself.
FusionRespectsArms ==
    \A text, vector \in BoundedSeq(Keys, Bound), weight \in [{1, 2} -> 0..2] :
      LET arms == <<text, vector>>
          fused == Fused(arms, weight)
          Ahead(keys, x, y) == Place(keys, y) # 0 =>
                                 Place(keys, x) # 0 /\ Place(keys, x) < Place(keys, y)
      IN \A i, j \in DOMAIN fused :
           (\A a \in {1, 2} : weight[a] # 0 => Ahead(arms[a], fused[j], fused[i]))
             => j <= i

\* _apply_rerank: whatever the provider answers, each hit is returned once, and
\* none from beyond the head gets into it.
RerankKeepsHits ==
    \A n \in 0..Bound :
      \A order \in BoundedSeq(0..(n + 1), Bound) \cup {Failed} :
        LET hits == Indices(n) IN
        /\ Len(Reranked(hits, order)) = n
        /\ ToSet(Reranked(hits, order)) = ToSet(hits)
        /\ \A i \in (TopK + 1)..n : Reranked(hits, order)[i] = i

\* search_recordings: who asks for more sees the same results first, as long as
\* the arms are asked for as much.  With a reranker, which answers the same to
\* the same head, no two rows may be of one segment: the limit counts rows.
MoreKeepsTheOrder ==
    \A mode \in {"text", "vector", "hybrid"}, rerank \in BOOLEAN,
       text \in {t \in BoundedSeq(Keys, Bound) : IsInjective(t)},
       nearest \in BoundedSeq(Keys, Bound), limit \in 1..(Bound - 1) :
      LET reach == IF rerank /\ ArmLimit < TopK THEN TopK ELSE ArmLimit IN
      (mode = "hybrid" => limit < reach) /\ (rerank => IsInjective(nearest)) =>
        \A order \in {Failed, <<TopK>>, Reverse(Indices(TopK))} :
          IsPrefix(Search(mode, text, nearest, limit, rerank, order),
                   Search(mode, text, nearest, limit + 1, rerank, order))

\* What was found is fused, reranked and cut to what was asked for, and its
\* order means what the arms and the reranker said.
RankingIsExact == FusionRespectsArms /\ RerankKeepsHits /\ MoreKeepsTheOrder

=============================================================================
