------------------------------ MODULE Embeddings ------------------------------
(***************************************************************************)
(* The rows of the vector layer for one recording: the pipeline stage and  *)
(* the recordings_reembed command embed what is missing, while the texts,  *)
(* the names in them, the embedder and the rows themselves change between  *)
(* a pass's reads and its writes.                                          *)
(*                                                                         *)
(* A summary row is written here as a row of anchor 0 and scheme           *)
(* "summary"; the code keeps them in a table of their own.                 *)
(***************************************************************************)
EXTENDS Algorithms

CONSTANTS
    Segs, Texts,       \* utterances 1..n, and what they may say
    Names,             \* of the one speaker; a name set by the host
    Summaries,         \* sequences of chunks
    Models,            \* embedders
    MaxPasses,         \* bound: passes begun
    MaxChanges,        \* bound: changes of text, name, embedder, and prunes
    None

ASSUME EmbeddingsAssumption ==
    /\ IsFiniteSet(Segs) /\ Segs = 1..Cardinality(Segs)
    /\ Texts \subseteq Seq(Int) /\ Names \subseteq Seq(Int)
    /\ Summaries \subseteq Seq(STRING)
    /\ Models # {} /\ {MaxPasses, MaxChanges} \subseteq Nat

VARIABLES
    texts, name, summary,
    model,     \* what llm.embed answers with now
    pinned,    \* VECTOR["MODEL"] is set, and then names that embedder
    rows,      \* SegmentEmbedding and RecordingEmbedding
    pass,      \* embed_recording, run by the stage and by the command
    fresh,     \* history: a pass has finished and nothing has changed since
    passes, changes

vars == <<texts, name, summary, model, pinned, rows, pass, fresh, passes, changes>>
world == <<texts, name, summary, model>>

Passes == {"stage", "command"}
Schemes == {"segment", "window"}

-----------------------------------------------------------------------------

Unit(anchor, scheme, index, hash) ==
    [anchor |-> anchor, scheme |-> scheme, index |-> index, hash |-> hash]

\* render_utterance: who says it, and what; a blank text is nothing said.
Rendered(said, by) ==
    [n \in Segs |-> IF said[n] = <<>> THEN <<>> ELSE by \o said[n]]

\* windows_from_segments, and units numbered per anchor.
WindowUnits ==
    [said \in [Segs -> Texts] |-> [by \in Names |->
      LET windows == BuildWindows(Rendered(said, by))
          Anchor(w) == windows[w][1].seg
      IN {Unit(Anchor(w), "window",
               Cardinality({v \in 1..(w - 1) : Anchor(v) = Anchor(w)}),
               [i \in DOMAIN windows[w] |-> windows[w][i].words])
          : w \in DOMAIN windows}]]

\* segment_units
SegmentUnits(scheme) ==
    IF scheme = "window" THEN WindowUnits[texts][name]
    ELSE {Unit(n, "segment", 0, <<texts[n]>>) : n \in {n \in Segs : texts[n] # <<>>}}

SummaryUnits == {Unit(0, "summary", i, summary[i]) : i \in DOMAIN summary}

\* Mutant: an anchor that has a row is not embedded again.
HasRow(row, unit) == TRUE
SameText(row, unit) == row.hash = unit.hash

\* _hash_known, which does not compare the index of a segment's row, and
\* summary_hashes, where it is compared.
Known(unit) ==
    \E row \in rows :
      /\ row.anchor = unit.anchor /\ row.scheme = unit.scheme
      /\ unit.scheme = "summary" => row.index = unit.index
      /\ SameText(row, unit)
      /\ pinned => row.model = model

Pending(units, force) == {u \in units : force \/ ~Known(u)}

Key(row) == <<row.anchor, row.model, row.scheme, row.index>>

\* Mutant: the row is added beside the one it replaces.
Insert(kept, new) == kept \cup new
\* upsert_segment, upsert_summary_chunk
Upsert(kept, new) == {r \in kept : \A s \in new : Key(r) # Key(s)} \cup new

-----------------------------------------------------------------------------

Open(p) == pass[p] # None

Init ==
    /\ texts \in [Segs -> Texts] /\ name \in Names /\ summary \in Summaries
    /\ model \in Models /\ pinned \in BOOLEAN
    /\ rows = {} /\ pass = [p \in Passes |-> None] /\ fresh = None
    /\ passes = 0 /\ changes = 0

\* A pass reads the segments and what is stored of them.  The stage never
\* forces; the scheme it builds is a setting.
Read(p) ==
    /\ ~Open(p) /\ passes < MaxPasses
    /\ \E scheme \in Schemes, force \in IF p = "command" THEN BOOLEAN ELSE {FALSE} :
         pass' = [pass EXCEPT ![p] =
           [scheme |-> scheme, force |-> force, part |-> "segments",
            todo |-> Pending(SegmentUnits(scheme), force), out |-> {},
            prune |-> FALSE, keep |-> 0, model |-> model, gone |-> FALSE,
            alone |-> \A q \in Passes : Open(q) => pass[q].alone]]
    /\ passes' = passes + 1
    /\ UNCHANGED <<world, pinned, rows, fresh, changes>>

\* embed_texts: all batches are answered before any row is written.
Embed(p) ==
    /\ Open(p) /\ pass[p].todo # {}
    /\ pass' = [pass EXCEPT ![p].todo = {}, ![p].model = model,
         ![p].out = @ \cup {[anchor |-> u.anchor, scheme |-> u.scheme, index |-> u.index,
                             hash |-> u.hash, model |-> model] : u \in pass[p].todo}]
    /\ UNCHANGED <<world, pinned, rows, fresh, passes, changes>>

\* The command's rows are written one by one, each for good; a row of a segment
\* that is no longer there cannot be.
Store ==
    /\ Open("command")
    /\ \E row \in pass["command"].out :
         /\ row.anchor # 0 => ~pass["command"].gone
         /\ rows' = Upsert(rows, {row})
         /\ pass' = [pass EXCEPT !["command"].out = @ \ {row}]
    /\ UNCHANGED <<world, pinned, fresh, passes, changes>>

\* The stage's rows are written in its own transaction.
Written(p) == pass[p].todo = {} /\ (p = "command" => pass[p].out = {})

ReadSummary(p) ==
    /\ Open(p) /\ pass[p].part = "segments" /\ Written(p)
    /\ LET todo == Pending(SummaryUnits, pass[p].force) IN
       pass' = [pass EXCEPT ![p].part = "summary", ![p].todo = todo,
                  ![p].prune = todo # {}, ![p].keep = Len(summary)]
    /\ UNCHANGED <<world, pinned, rows, fresh, passes, changes>>

\* prune_summary_chunks: of the model just written.
Beyond(row, p) ==
    /\ pass[p].prune /\ row.scheme = "summary"
    /\ row.model = pass[p].model /\ row.index > pass[p].keep

Finish(p) ==
    /\ Open(p) /\ pass[p].part = "summary" /\ Written(p)
    /\ rows' = {r \in Upsert(rows, pass[p].out) : ~Beyond(r, p)}
    /\ pass' = [pass EXCEPT ![p] = None]
    /\ fresh' = IF pass[p].alone /\ \A q \in Passes \ {p} : Open(q) => pass[q].alone
                THEN [scheme |-> pass[p].scheme, sure |-> pinned \/ pass[p].force]
                ELSE fresh
    /\ UNCHANGED <<world, pinned, passes, changes>>

\* llm.embed fails: the stage is retried later, on what it has written; the
\* command ends.
Fail(p) ==
    /\ Open(p) /\ pass[p].todo # {}
    /\ rows' = IF p = "stage" THEN Upsert(rows, pass[p].out) ELSE rows
    /\ pass' = [pass EXCEPT ![p] = None]
    /\ UNCHANGED <<world, pinned, fresh, passes, changes>>

\* The process dies; the stage's transaction goes with it.
Crash(p) ==
    /\ Open(p)
    /\ pass' = [pass EXCEPT ![p] = None]
    /\ UNCHANGED <<world, pinned, rows, fresh, passes, changes>>

-----------------------------------------------------------------------------
(* What changes under a pass *)

Stale(gone) ==
    pass' = [p \in Passes |->
               IF Open(p) THEN [pass[p] EXCEPT !.alone = FALSE, !.gone = @ \/ gone]
               ELSE None]

Change ==
    /\ changes < MaxChanges /\ changes' = changes + 1
    /\ UNCHANGED <<pinned, passes>>

\* Segments are replaced by a stage, under the lock an embed stage holds; their
\* rows go with them.
Retranscribe ==
    /\ Change /\ ~Open("stage")
    /\ texts' \in [Segs -> Texts]
    /\ rows' = {r \in rows : r.anchor = 0}
    /\ Stale(TRUE) /\ fresh' = None
    /\ UNCHANGED <<name, summary, model>>

\* External: the host names a voice.
Rename ==
    /\ Change
    /\ name' \in Names \ {name}
    /\ Stale(FALSE) /\ fresh' = None
    /\ UNCHANGED <<texts, summary, model, rows>>

Resummarize ==
    /\ Change
    /\ summary' \in Summaries \ {summary}
    /\ Stale(FALSE) /\ fresh' = None
    /\ UNCHANGED <<texts, name, model, rows>>

SwapModel ==
    /\ Change
    /\ model' \in Models \ {model}
    /\ Stale(FALSE) /\ fresh' = None
    /\ UNCHANGED <<texts, name, summary, rows>>

\* recordings_reembed --prune-scheme, before its own pass.
PruneScheme ==
    /\ Change /\ ~Open("command")
    /\ \E scheme \in Schemes : rows' = {r \in rows : r.scheme # scheme}
    /\ Stale(FALSE) /\ fresh' = None
    /\ UNCHANGED world

\* --prune-other-models, after its own pass; the model to keep is asked for
\* where it is not pinned.  A pass that covered that model stays good.
PruneOtherModels ==
    /\ Change /\ ~Open("command")
    /\ \E keep \in IF pinned THEN {model} ELSE Models :
         /\ rows' = {r \in rows : r.model = keep}
         /\ fresh' = IF fresh # None /\ keep = model
                     THEN IF fresh.sure THEN fresh ELSE None
                     ELSE None
    /\ Stale(FALSE)
    /\ UNCHANGED world

Next ==
    \/ \E p \in Passes : \/ Read(p) \/ Embed(p) \/ ReadSummary(p) \/ Finish(p)
                         \/ Fail(p) \/ Crash(p)
    \/ Store
    \/ Retranscribe \/ Rename \/ Resummarize \/ SwapModel
    \/ PruneScheme \/ PruneOtherModels

Spec == Init /\ [][Next]_vars

-----------------------------------------------------------------------------

\* The rows of a recording: one per anchor, embedder, scheme and index, which
\* is the unique constraint of SegmentEmbedding and RecordingEmbedding; a
\* summary's rows and a segment's do not mix.
TypeOK ==
    /\ texts \in [Segs -> Texts] /\ name \in Names /\ summary \in Summaries
    /\ model \in Models /\ pinned \in BOOLEAN
    /\ \A r \in rows :
         /\ r.model \in Models /\ r.index \in Nat
         /\ \/ r.anchor \in Segs /\ r.scheme \in Schemes
            \/ r.anchor = 0 /\ r.scheme = "summary"
    /\ \A r, s \in rows : Key(r) = Key(s) => r = s
    /\ passes \in 0..MaxPasses /\ changes \in 0..MaxChanges

\* A unit that shares its anchor may be taken for the other one.
Sole(unit) == \A u \in SegmentUnits(unit.scheme) : u.anchor = unit.anchor => u = unit

Current(unit) ==
    \E row \in rows : /\ row.anchor = unit.anchor /\ row.scheme = unit.scheme
                      /\ row.hash = unit.hash
                      /\ fresh.sure => row.model = model

\* embed_recording: once a pass is through that nothing changed under, and no
\* older pass is still to write, the scheme it built covers the transcript and
\* the summary as they are, in the embedder's own rows if the pass was forced
\* or the embedder is pinned; pruning the other embedders' rows keeps that.
FreshIsEmbedded ==
    fresh # None =>
      /\ \A unit \in SegmentUnits(fresh.scheme) : Sole(unit) => Current(unit)
      /\ \A unit \in SummaryUnits : Current(unit)

\* The same, on rows that keep to the unique constraints.
RowsInv == TypeOK /\ FreshIsEmbedded

\* segment_units, once a pass is through: its windows hold every piece of the
\* transcript, and no two of them have one place in the table.
WindowsHoldTranscript ==
    fresh # None =>
      LET units == WindowUnits[texts][name] IN
      /\ \A piece \in ToSet(Pieces(Rendered(texts, name))) :
           \E unit \in units : piece.words \in ToSet(unit.hash)
      /\ \A u, v \in units : u.anchor = v.anchor /\ u.index = v.index => u = v

\* What is said is cut into utterances, windows and batches, and all of it is
\* there afterwards, once and in order: for any words, and for this recording.
CutsLoseNothing == CutsAreExact /\ WindowsHoldTranscript

\* _vector_arm, once a pass is through: an anchor of several rows is found once.
AnchorsAreFoundOnce ==
    fresh # None =>
      \A scheme \in Schemes, m \in Models :
      LET found == SetToSeq({r \in rows : r.scheme = scheme /\ r.model = m})
          nearest == [i \in DOMAIN found |-> found[i].anchor]
          hits == VectorHits(nearest, Len(nearest))
      IN IsInjective(hits) /\ ToSet(hits) = ToSet(nearest)

\* What was found is fused, reranked and cut to what was asked for, and its
\* order means what the arms and the reranker said: for any arms, and for the
\* rows of this recording.
RankingHolds == RankingIsExact /\ AnchorsAreFoundOnce

=============================================================================
