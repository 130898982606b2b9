--------------------------- MODULE StageBodiesProofs ---------------------------
(***************************************************************************)
(* Proofs for StageBodies and Erasure.  The keys of the row name what lies *)
(* under them as long as no worker died; and as long as convert's          *)
(* fingerprint was not lost, a recording without a source has its last     *)
(* upload's audio.  Before an erasure touches an object this holds; until  *)
(* the row is gone every object is one the row names, or has a cause that  *)
(* the strays and the crashes record.                                      *)
(***************************************************************************)
EXTENDS Erasure, SequenceTheorems, TLAPS

\* A key that was put and not finalized holds the next file.
Keys ==
    /\ row.source \in {None, uploads}
    /\ store.source \in {None, uploads, uploads + 1}
    /\ putting => row.source = None
    /\ putting <=> store.source = uploads + 1
    /\ row.normalized # None <=> row.hash # None
    /\ "convert" \in row.done => row.normalized # None
    /\ "transcribe" \in row.done => row.segments # None

Stored(p) == store.normalized[p]

\* What convert has recorded is about the audio the row names, or about one
\* that has been replaced by the source's since.
Audio ==
    printLost \/
    /\ "convert" \in row.done => row.prints.convert # None
    /\ row.source = None => /\ row.normalized # None /\ row.hash.file = uploads
                            /\ Stored(row.normalized) = uploads
                            /\ row.prints.convert # None
                            /\ row.prints.convert.file = uploads
    /\ row.normalized # None => Stored(row.normalized) \in {row.hash.file, uploads}
    /\ row.normalized # None /\ row.prints.convert = None => row.hash.file = uploads
    /\ row.prints.convert # None =>
         /\ row.normalized # None
         /\ row.hash.file \in {row.prints.convert.file, uploads}

\* No audio and no answer is of a later file than n.
Below(n) ==
    /\ row.segments # None => row.segments <= n
    /\ store.handoff # None => store.handoff <= n
    /\ \A q \in Profiles : Stored(q) # None => Stored(q) <= n
    /\ \A t \in DOMAIN tasks :
         /\ tasks[t].hash.file <= n
         /\ tasks[t].wrote # None => tasks[t].wrote <= n

\* Once convert has forgotten its input the row's audio is the latest of all,
\* until convert is to run again.
Known ==
    /\ Below(uploads)
    /\ row.hash # None => row.hash.file <= uploads
    /\ printLost => /\ row.hash # None
                    /\ Below(row.hash.file) \/ IsStale(row, "convert")
    /\ ~reprofiled =>
         row.prints.convert = None \/ row.prints.convert.profile = profile

\* A provider asked about a file hears that file or a later one.
Rising ==
    /\ row.normalized # None => row.hash.profile = row.normalized
    /\ row.hash # None /\ Stored(row.hash.profile) # None =>
         row.hash.file <= Stored(row.hash.profile)
    /\ \A t \in DOMAIN tasks :
         /\ Stored(tasks[t].hash.profile) # None =>
              tasks[t].hash.file <= Stored(tasks[t].hash.profile)
         /\ tasks[t].wrote # None => tasks[t].hash.file <= tasks[t].wrote

\* What was asked, and what was answered, is about no later file than the row's.
Asked ==
    /\ row.awaiting # None =>
         /\ row.awaiting.task \in DOMAIN tasks
         /\ row.awaiting.print = tasks[row.awaiting.task].hash
         /\ row.hash # None /\ row.awaiting.print.file <= row.hash.file
    /\ row.prints.transcribe # None =>
         row.hash # None /\ row.prints.transcribe.file <= row.hash.file
    /\ row.segments # None => row.prints.transcribe # None

\* transcript.json is never older than the row knows, and never newer than the
\* segments, unless a stale answer came in over a newer one.
Merged ==
    /\ "merge" \in row.done => row.prints.merge # None
    /\ row.prints.merge # None => row.transcript /\ row.written = row.prints.merge
    /\ row.transcript => /\ row.written # None /\ store.transcript # None
                         /\ row.written <= store.transcript
    /\ store.transcript # None =>
         /\ row.segments # None /\ row.hash # None
         /\ store.transcript <= row.hash.file
         /\ row.prints.transcribe.file = row.hash.file =>
              store.transcript <= row.segments

IInv == /\ TypeOK /\ Keys /\ Audio /\ AudioIsKept /\ KeysResolve
        /\ Known /\ Rising /\ Asked /\ Merged


-----------------------------------------------------------------------------
(* What the helpers return *)

\* A row is its fields.
LEMMA RowFields ==
    ASSUME NEW r \in Row
    PROVE  /\ r = [status |-> r.status, retry |-> r.retry, source |-> r.source,
                   normalized |-> r.normalized, hash |-> r.hash,
                   segments |-> r.segments, transcript |-> r.transcript,
                   written |-> r.written, done |-> r.done, prints |-> r.prints,
                   awaiting |-> r.awaiting]
           /\ r.status \in {"live", "completed", "stopped"}
           /\ r.retry \in 0..MaxRetries
           /\ r.source \in Maybe(Files)
           /\ r.normalized \in Maybe(Profiles)
           /\ r.hash \in Maybe(Hashes)
           /\ r.segments \in Maybe(Files)
           /\ r.transcript \in BOOLEAN
           /\ r.written \in Maybe(Files)
           /\ r.done \subseteq StageNames
           /\ r.prints \in Prints
           /\ r.awaiting \in Maybe(Waits)
    BY DEF Row

\* The fingerprints, field by field.
LEMMA PrintsFields ==
    ASSUME NEW p \in Prints
    PROVE  /\ p = [convert |-> p.convert, transcribe |-> p.transcribe,
                   merge |-> p.merge]
           /\ p.convert \in Maybe(Hashes)
           /\ p.transcribe \in Maybe(Hashes)
           /\ p.merge \in Maybe(Files)
    BY DEF Prints

\* The store, field by field.
LEMMA StoreFields ==
    ASSUME NEW o \in Store
    PROVE  /\ o = [source |-> o.source, normalized |-> o.normalized,
                   handoff |-> o.handoff, transcript |-> o.transcript]
           /\ o.source \in Maybe(Files)
           /\ o.normalized \in [Profiles -> Maybe(Files)]
           /\ o.handoff \in Maybe(Files)
           /\ o.transcript \in Maybe(Files)
    BY DEF Store

\* The stages the module has.
LEMMA Names == StageNames = {"convert", "transcribe", "merge"}
<1>1. DOMAIN Stages = 1..3
  BY DEF Stages
<1>2. 1..3 = {1, 2, 3}
  OBVIOUS
<1>3. Stages[1] = "convert" /\ Stages[2] = "transcribe" /\ Stages[3] = "merge"
  BY DEF Stages
<1> QED BY <1>1, <1>2, <1>3 DEF StageNames

\* Two rows that agree on their audio, on their transcript, on their cursor.
SameAudio(r, s) ==
    s.source = r.source /\ s.normalized = r.normalized /\ s.hash = r.hash
SameText(r, s) ==
    s.segments = r.segments /\ s.transcript = r.transcript /\ s.written = r.written
SameCursor(r, s) == s.done = r.done /\ s.prints = r.prints
SameTask(r, s) == s.awaiting = r.awaiting
Same(r, s) ==
    SameAudio(r, s) /\ SameText(r, s) /\ SameCursor(r, s) /\ SameTask(r, s)

\* The row with another status, counter, task and cursor.
Moved(r, status, retry, awaiting, done) ==
    [status |-> status, retry |-> retry, source |-> r.source,
     normalized |-> r.normalized, hash |-> r.hash, segments |-> r.segments,
     transcript |-> r.transcript, written |-> r.written, done |-> done,
     prints |-> r.prints, awaiting |-> awaiting]

\* What a move of the cursor leaves alone.
LEMMA MovedFields ==
    ASSUME NEW r \in Row, NEW status \in {"live", "completed", "stopped"},
           NEW retry \in 0..MaxRetries,
           NEW awaiting \in Maybe(Waits),
           NEW done \in SUBSET StageNames
    PROVE  LET s == Moved(r, status, retry, awaiting, done)
           IN  /\ s \in Row /\ SameAudio(r, s) /\ SameText(r, s)
               /\ s.done = done /\ s.prints = r.prints
               /\ s.status = status /\ s.awaiting = awaiting
<1> DEFINE s == Moved(r, status, retry, awaiting, done)
<1>1. s \in Row
  BY RowFields DEF Row, Moved
<1>2. SameAudio(r, s) /\ SameText(r, s)
  BY DEF SameAudio, SameText, Moved
<1> QED BY <1>1, <1>2 DEF Moved

\* Retries and Stops touch the status and the counter alone.
LEMMA RetriesFields ==
    ASSUME NEW r \in Row
    PROVE  /\ Stops(r) \in Row /\ Same(r, Stops(r)) /\ Stops(r).status = "stopped"
           /\ Retries(r) \in Row /\ Same(r, Retries(r))
<1>0. r.done \in SUBSET StageNames
  BY RowFields
<1>1. Stops(r) \in Row /\ Same(r, Stops(r)) /\ Stops(r).status = "stopped"
  <2>1. Stops(r) = Moved(r, "stopped", r.retry, r.awaiting, r.done)
    BY RowFields DEF Stops, Moved
  <2>2. /\ "stopped" \in {"live", "completed", "stopped"}
        /\ r.retry \in 0..MaxRetries
        /\ r.awaiting \in Maybe(Waits)
    BY RowFields
  <2>3. LET s == Moved(r, "stopped", r.retry, r.awaiting, r.done)
        IN  s \in Row /\ SameAudio(r, s) /\ SameText(r, s) /\ s.done = r.done
            /\ s.prints = r.prints /\ s.status = "stopped" /\ s.awaiting = r.awaiting
    BY <2>2, <1>0, MovedFields
  <2> QED BY <2>1, <2>3 DEF Same, SameCursor, SameTask
<1>2. ASSUME r.retry + 1 <= MaxRetries
      PROVE  [r EXCEPT !.retry = @ + 1] \in Row /\ Same(r, [r EXCEPT !.retry = @ + 1])
  <2>1. [r EXCEPT !.retry = @ + 1] = Moved(r, r.status, r.retry + 1, r.awaiting, r.done)
    BY RowFields DEF Moved
  <2>2. r.retry + 1 \in 0..MaxRetries
    BY <1>2, RowFields, StageAssumption
  <2> QED BY <2>1, <2>2, <1>0, RowFields, MovedFields DEF Same, SameCursor, SameTask
<1>3. r.retry + 1 > MaxRetries \/ r.retry + 1 <= MaxRetries
  BY RowFields, StageAssumption
<1> QED BY <1>1, <1>2, <1>3, RowFields, StageAssumption DEF Retries

\* A stage that completes joins the cursor with the fingerprint given.
LEMMA CompletesFields ==
    ASSUME NEW r \in Row, NEW s \in StageNames, NEW print,
           s = "merge" => print \in Maybe(Files),
           s # "merge" => print \in Maybe(Hashes)
    PROVE  LET c == Completes(r, s, print)
           IN  /\ c \in Row /\ SameAudio(r, c) /\ SameText(r, c) /\ SameTask(r, c)
               /\ c.done = r.done \cup {s}
               /\ \/ /\ s = "convert" /\ c.prints.convert = print
                     /\ c.prints.transcribe = r.prints.transcribe
                     /\ c.prints.merge = r.prints.merge
                  \/ /\ s = "transcribe" /\ c.prints.transcribe = print
                     /\ c.prints.convert = r.prints.convert
                     /\ c.prints.merge = r.prints.merge
                  \/ /\ s = "merge" /\ c.prints.merge = print
                     /\ c.prints.convert = r.prints.convert
                     /\ c.prints.transcribe = r.prints.transcribe
<1>1. PICK c : c = Completes(r, s, print)
  OBVIOUS
<1>2. PICK p : p = [r.prints EXCEPT ![s] = print]
  OBVIOUS
<1>3. r.prints \in Prints
  BY RowFields
<1>4. /\ r.prints = [convert |-> r.prints.convert, transcribe |-> r.prints.transcribe,
                     merge |-> r.prints.merge]
      /\ r.prints.convert \in Maybe(Hashes) /\ r.prints.transcribe \in Maybe(Hashes)
      /\ r.prints.merge \in Maybe(Files)
  BY <1>3, PrintsFields
<1>5. \/ s = "convert" /\ p = [convert |-> print, transcribe |-> r.prints.transcribe,
                               merge |-> r.prints.merge]
      \/ s = "transcribe" /\ p = [convert |-> r.prints.convert, transcribe |-> print,
                                  merge |-> r.prints.merge]
      \/ s = "merge" /\ p = [convert |-> r.prints.convert,
                             transcribe |-> r.prints.transcribe, merge |-> print]
  BY <1>2, <1>4, Names
<1>6. /\ p \in Prints
      /\ \/ /\ s = "convert" /\ p.convert = print
            /\ p.transcribe = r.prints.transcribe /\ p.merge = r.prints.merge
         \/ /\ s = "transcribe" /\ p.transcribe = print
            /\ p.convert = r.prints.convert /\ p.merge = r.prints.merge
         \/ /\ s = "merge" /\ p.merge = print
            /\ p.convert = r.prints.convert /\ p.transcribe = r.prints.transcribe
  BY <1>5, <1>4 DEF Prints
<1>7. c = [status |-> r.status, retry |-> 0, source |-> r.source,
           normalized |-> r.normalized, hash |-> r.hash,
           segments |-> r.segments, transcript |-> r.transcript,
           written |-> r.written, done |-> r.done \cup {s}, prints |-> p,
           awaiting |-> r.awaiting]
  <2>1. r = [status |-> r.status, retry |-> r.retry, source |-> r.source,
             normalized |-> r.normalized, hash |-> r.hash,
             segments |-> r.segments, transcript |-> r.transcript,
             written |-> r.written, done |-> r.done, prints |-> r.prints,
             awaiting |-> r.awaiting]
    BY RowFields
  <2>2. c = [r EXCEPT !.retry = 0, !.done = r.done \cup {s}, !.prints = p]
    BY <1>1, <1>2, <2>1 DEF Completes
  <2> QED BY <2>1, <2>2
<1>8. r.done \cup {s} \subseteq StageNames /\ 0 \in 0..MaxRetries
  BY RowFields, StageAssumption
<1>9. c \in Row
  BY <1>6, <1>7, <1>8, RowFields DEF Row
<1>10. /\ SameAudio(r, c) /\ SameText(r, c) /\ SameTask(r, c)
       /\ c.done = r.done \cup {s} /\ c.prints = p
  BY <1>7 DEF SameAudio, SameText, SameTask
<1> QED BY <1>1, <1>2, <1>6, <1>9, <1>10

\* The row a stage's body is given differs in its cursor alone.
LEMMA BegunFields ==
    ASSUME NEW i, row \in Row
    PROVE  /\ Begun(i) \in Row /\ SameAudio(row, Begun(i)) /\ SameText(row, Begun(i))
           /\ Begun(i).done \subseteq row.done /\ Begun(i).prints = row.prints
           /\ Begun(i).awaiting = row.awaiting
<1>1. CASE Stages[i] \in row.done
  <2>1. PICK done : done = row.done \ {Stages[j] : j \in i..Len(Stages)}
    OBVIOUS
  <2>2. Begun(i) = [row EXCEPT !.done = done]
    BY <1>1, <2>1 DEF Begun
  <2>3. Begun(i) = Moved(row, row.status, row.retry, row.awaiting, done)
    BY <2>2, RowFields DEF Moved
  <2>4. done \subseteq row.done /\ done \in SUBSET StageNames
    BY <2>1, RowFields
  <2> QED BY <2>3, <2>4, RowFields, MovedFields
<1>2. CASE Stages[i] \notin row.done
  <2>1. Begun(i) = row
    BY <1>2 DEF Begun
  <2> QED BY <2>1 DEF SameAudio, SameText
<1> QED BY <1>1, <1>2

\* The row without its upload, and with another conversion.
LEMMA SourceFields ==
    ASSUME NEW r \in Row
    PROVE  LET s == [r EXCEPT !.source = None]
           IN  /\ s \in Row /\ SameText(r, s) /\ SameCursor(r, s) /\ SameTask(r, s)
               /\ s.source = None /\ s.normalized = r.normalized /\ s.hash = r.hash
               /\ s.status = r.status
<1>1. PICK s : s = [r EXCEPT !.source = None]
  OBVIOUS
<1>2. s = [status |-> r.status, retry |-> r.retry, source |-> None,
           normalized |-> r.normalized, hash |-> r.hash,
           segments |-> r.segments, transcript |-> r.transcript,
           written |-> r.written, done |-> r.done, prints |-> r.prints,
           awaiting |-> r.awaiting]
  <2>1. r = [status |-> r.status, retry |-> r.retry, source |-> r.source,
             normalized |-> r.normalized, hash |-> r.hash,
             segments |-> r.segments, transcript |-> r.transcript,
             written |-> r.written, done |-> r.done, prints |-> r.prints,
             awaiting |-> r.awaiting]
    BY RowFields
  <2> QED BY <1>1, <2>1
<1>3. None \in Maybe(Files)
  BY DEF Maybe
<1>4. s \in Row
  BY <1>2, <1>3, RowFields DEF Row
<1>5. SameText(r, s) /\ SameCursor(r, s) /\ SameTask(r, s)
  BY <1>2 DEF SameText, SameCursor, SameTask
<1> QED BY <1>1, <1>2, <1>4, <1>5

Converted(r, p, h) == [r EXCEPT !.normalized = p, !.hash = h]

\* What convert's result leaves alone.
LEMMA ConvertedFields ==
    ASSUME NEW r \in Row, NEW p \in Profiles, NEW h \in Hashes
    PROVE  LET s == Converted(r, p, h)
           IN  /\ s \in Row /\ SameText(r, s) /\ SameCursor(r, s) /\ SameTask(r, s)
               /\ s.source = r.source /\ s.normalized = p /\ s.hash = h
               /\ s.status = r.status
<1>1. PICK s : s = Converted(r, p, h)
  OBVIOUS
<1>2. s = [status |-> r.status, retry |-> r.retry, source |-> r.source,
           normalized |-> p, hash |-> h,
           segments |-> r.segments, transcript |-> r.transcript,
           written |-> r.written, done |-> r.done, prints |-> r.prints,
           awaiting |-> r.awaiting]
  <2>1. r = [status |-> r.status, retry |-> r.retry, source |-> r.source,
             normalized |-> r.normalized, hash |-> r.hash,
             segments |-> r.segments, transcript |-> r.transcript,
             written |-> r.written, done |-> r.done, prints |-> r.prints,
             awaiting |-> r.awaiting]
    BY RowFields
  <2> QED BY <1>1, <2>1 DEF Converted
<1>3. p \in Maybe(Profiles) /\ h \in Maybe(Hashes)
  BY DEF Maybe
<1>4. s \in Row
  BY <1>2, <1>3, RowFields DEF Row
<1>5. SameText(r, s) /\ SameCursor(r, s) /\ SameTask(r, s)
  BY <1>2 DEF SameText, SameCursor, SameTask
<1> QED BY <1>1, <1>2, <1>4, <1>5

\* Storage with one key changed.
LEMMA ObjectFields ==
    ASSUME NEW o \in Store, NEW file \in Maybe(Files)
    PROVE  /\ LET s == [o EXCEPT !.source = file]
              IN  /\ s \in Store /\ s.source = file /\ s.normalized = o.normalized
                  /\ s.handoff = o.handoff /\ s.transcript = o.transcript
           /\ LET s == [o EXCEPT !.handoff = file]
              IN  /\ s \in Store /\ s.handoff = file /\ s.normalized = o.normalized
                  /\ s.source = o.source /\ s.transcript = o.transcript
           /\ LET s == [o EXCEPT !.transcript = file]
              IN  /\ s \in Store /\ s.transcript = file /\ s.normalized = o.normalized
                  /\ s.source = o.source /\ s.handoff = o.handoff
    BY StoreFields DEF Store

\* Storing audio under one profile's key leaves every other object.
LEMMA AudioFields ==
    ASSUME NEW o \in Store, NEW p \in Profiles, NEW file \in Maybe(Files)
    PROVE  LET s == [o EXCEPT !.normalized[p] = file]
           IN  /\ s \in Store /\ s.source = o.source /\ s.handoff = o.handoff
               /\ s.transcript = o.transcript
               /\ \A q \in Profiles :
                    s.normalized[q] = IF q = p THEN file ELSE o.normalized[q]
<1>1. PICK s, f : f = [o.normalized EXCEPT ![p] = file] /\ s = [o EXCEPT !.normalized[p] = file]
  OBVIOUS
<1>2. o.normalized \in [Profiles -> Maybe(Files)]
  BY StoreFields
<1>3. /\ f \in [Profiles -> Maybe(Files)]
      /\ \A q \in Profiles : f[q] = IF q = p THEN file ELSE o.normalized[q]
  BY <1>1, <1>2
<1>4. s = [source |-> o.source, normalized |-> f, handoff |-> o.handoff,
           transcript |-> o.transcript]
  BY <1>1, StoreFields
<1> QED BY <1>1, <1>3, <1>4, StoreFields DEF Store

-----------------------------------------------------------------------------
(* What convert can have done *)

\* The upload may be gone from storage, from the row as well, or neither; the
\* row is convert's r or, its worker dead, as it was.
LEMMA PurgeEffect ==
    ASSUME NEW r \in Row, NEW print \in Maybe(Hashes), NEW o \in Store,
           TypeOK, Purges(r, print, o)
    PROVE  /\ row' \in Row /\ store' \in Store /\ crashes' \in 0..MaxCrashes
           /\ store'.normalized = o.normalized /\ store'.handoff = o.handoff
           /\ store'.transcript = o.transcript
           /\ \/ /\ row' = row /\ crashes' # 0
                 /\ \/ store'.source = o.source
                    \/ r.source # None /\ store'.source = None
              \/ /\ crashes' = crashes /\ SameText(r, row') /\ SameTask(r, row')
                 /\ row'.prints.transcribe = r.prints.transcribe
                 /\ row'.prints.merge = r.prints.merge
                 /\ row'.normalized = r.normalized /\ row'.hash = r.hash
                 /\ \/ row'.source = r.source /\ store'.source = o.source
                    \/ r.source # None /\ row'.source = None /\ store'.source = None
                 /\ \/ row'.done = r.done \cup {"convert"} /\ row'.prints.convert = print
                    \/ /\ row'.source = r.source /\ SameCursor(r, row')
<1> DEFINE purged == [o EXCEPT !.source = None]
           bare == [r EXCEPT !.source = None]
<1>1. /\ row \in Row /\ crashes \in 0..MaxCrashes /\ None \in Maybe(Files)
      /\ "convert" \in StageNames /\ "convert" # "merge" /\ "convert" # "transcribe"
  BY Names DEF TypeOK, Maybe
<1>2. /\ purged \in Store /\ purged.source = None /\ purged.normalized = o.normalized
      /\ purged.handoff = o.handoff /\ purged.transcript = o.transcript
  BY <1>1, ObjectFields
<1>3. /\ bare \in Row /\ SameText(r, bare) /\ SameCursor(r, bare) /\ SameTask(r, bare)
      /\ bare.source = None /\ bare.normalized = r.normalized /\ bare.hash = r.hash
  BY SourceFields
<1>4. crashes + 1 # 0
  BY <1>1
<1> HIDE DEF purged, bare
<1>5. CASE Commits(Completes(r, "convert", print), o)
  <2>1. PICK c : c = Completes(r, "convert", print)
    OBVIOUS
  <2>2. /\ c \in Row /\ SameAudio(r, c) /\ SameText(r, c) /\ SameTask(r, c)
        /\ c.done = r.done \cup {"convert"} /\ c.prints.convert = print
        /\ c.prints.transcribe = r.prints.transcribe /\ c.prints.merge = r.prints.merge
    BY <2>1, <1>1, CompletesFields
  <2>3. /\ store' = o
        /\ \/ row' = c /\ crashes' = crashes
           \/ row' = row /\ crashes' = crashes + 1 /\ crashes < MaxCrashes
    BY <1>5, <2>1 DEF Commits
  <2> QED BY <2>2, <2>3, <1>1, <1>4, StageAssumption DEF SameAudio
<1>6. CASE r.source # None /\ Commits(Completes(bare, "convert", print), purged)
  <2>1. PICK c : c = Completes(bare, "convert", print)
    OBVIOUS
  <2>2. /\ c \in Row /\ SameAudio(bare, c) /\ SameText(bare, c) /\ SameTask(bare, c)
        /\ c.done = bare.done \cup {"convert"} /\ c.prints.convert = print
        /\ c.prints.transcribe = bare.prints.transcribe
        /\ c.prints.merge = bare.prints.merge
    BY <2>1, <1>1, <1>3, CompletesFields
  <2>3. /\ store' = purged
        /\ \/ row' = c /\ crashes' = crashes
           \/ row' = row /\ crashes' = crashes + 1 /\ crashes < MaxCrashes
    BY <1>6, <2>1 DEF Commits
  <2>4. CASE row' = c /\ crashes' = crashes
    <3>1. /\ SameText(r, c) /\ SameTask(r, c) /\ c.source = None
          /\ c.normalized = r.normalized /\ c.hash = r.hash
          /\ c.done = r.done \cup {"convert"}
          /\ c.prints.transcribe = r.prints.transcribe /\ c.prints.merge = r.prints.merge
      BY <2>2, <1>3 DEF SameAudio, SameText, SameTask, SameCursor
    <3> QED BY <2>2, <2>3, <2>4, <3>1, <1>1, <1>2, <1>6
  <2>5. CASE row' = row /\ crashes' = crashes + 1 /\ crashes < MaxCrashes
    BY <2>3, <2>5, <1>1, <1>2, <1>4, <1>6, StageAssumption
  <2> QED BY <2>3, <2>4, <2>5
<1>7. CASE r.source # None /\ Commits(Retries(r), o)
  <2>1. PICK c : c = Retries(r)
    OBVIOUS
  <2>2. /\ c \in Row /\ SameAudio(r, c) /\ SameText(r, c) /\ SameTask(r, c)
        /\ SameCursor(r, c)
        /\ c.prints.transcribe = r.prints.transcribe /\ c.prints.merge = r.prints.merge
    BY <2>1, RetriesFields DEF Same, SameCursor
  <2>3. /\ store' = o
        /\ \/ row' = c /\ crashes' = crashes
           \/ row' = row /\ crashes' = crashes + 1 /\ crashes < MaxCrashes
    BY <1>7, <2>1 DEF Commits
  <2> QED BY <2>2, <2>3, <1>1, <1>4, StageAssumption DEF SameAudio
<1> QED BY <1>5, <1>6, <1>7 DEF Purges, purged, bare

\* The audio the row names was good enough, or the source was converted.
Kept == /\ row.normalized # None /\ ~IsStale(row, "convert")
        /\ store'.normalized = store.normalized
Fresh == /\ row.normalized = None \/ IsStale(row, "convert")
         /\ row.source # None /\ store.source = row.source
         /\ \A q \in Profiles : store'.normalized[q] =
              IF q = profile THEN row.source ELSE store.normalized[q]

\* Nothing happened to the audio or the cursor's claims about it.
Quiet == /\ SameAudio(row, row') /\ row'.prints = row.prints
         /\ row'.done \subseteq row.done
         /\ store'.source = store.source /\ store'.normalized = store.normalized

Died == /\ row' = row /\ crashes' # 0
        /\ \/ store'.source = store.source
           \/ row.source # None /\ store'.source = None
        /\ Kept \/ Fresh

Worked ==
    /\ crashes' = crashes
    /\ \/ Kept /\ row'.normalized = row.normalized /\ row'.hash = row.hash
       \/ /\ Fresh /\ row'.normalized = profile
          /\ row'.hash = [file |-> row.source, profile |-> profile]
    /\ \/ row'.source = row.source /\ store'.source = store.source
       \/ row.source # None /\ row'.source = None /\ store'.source = None
    /\ \/ "convert" \in row'.done /\ row'.prints.convert = ConvertPrint(row)
       \/ /\ row'.source = row.source /\ row'.prints = row.prints
          /\ row'.done \subseteq row.done

\* convert does nothing to the stores, dies after storing, or stores and records.
LEMMA ConvertEffect ==
    ASSUME TypeOK, Keys, ConvertStage
    PROVE  /\ row' \in Row /\ store' \in Store /\ crashes' \in 0..MaxCrashes
           /\ crashes' = 0 => crashes = 0
           /\ SameText(row, row') /\ SameTask(row, row')
           /\ row'.prints.transcribe = row.prints.transcribe
           /\ row'.prints.merge = row.prints.merge
           /\ store'.transcript = store.transcript /\ store'.handoff = store.handoff
           /\ row'.done \subseteq row.done \cup {"convert"}
           /\ Quiet \/ Died \/ Worked
<1> DEFINE r == Begun(1)
           print == InputPrint(r, "convert")
<1>1. /\ row \in Row /\ store \in Store /\ crashes \in 0..MaxCrashes
      /\ profile \in Profiles /\ uploads \in Files /\ putting \in BOOLEAN
  BY DEF TypeOK
<1>2. /\ r \in Row /\ SameAudio(row, r) /\ SameText(row, r) /\ SameTask(row, r)
      /\ r.done \subseteq row.done /\ r.prints = row.prints
  BY <1>1, BegunFields DEF SameTask
<1>3. /\ print = ConvertPrint(row) /\ print \in Maybe(Hashes)
      /\ IsStale(r, "convert") <=> IsStale(row, "convert")
  <2>1. r.source = row.source
    BY <1>2 DEF SameAudio
  <2>2. print = ConvertPrint(row) /\ InputPrint(row, "convert") = ConvertPrint(row)
    BY <2>1 DEF InputPrint, ConvertPrint
  <2>3. row.source \in Maybe(Files)
    BY <1>1, RowFields
  <2>4. print \in Maybe(Hashes)
    BY <2>2, <2>3, <1>1 DEF ConvertPrint, Maybe, Hashes
  <2> QED BY <2>2, <2>4, <1>2 DEF IsStale
<1>4. StageAssumption /\ "convert" \in StageNames /\ None \notin Files
  BY StageAssumption, Names DEF Files
<1> HIDE DEF r, print
<1>5. ASSUME NEW q \in Row, NEW o \in Store, Purges(q, print, o),
             q.source = row.source, SameText(row, q), SameTask(row, q),
             SameCursor(r, q), o.source = store.source,
             o.transcript = store.transcript, o.handoff = store.handoff,
             \/ /\ q.normalized = row.normalized /\ q.hash = row.hash
                /\ row.normalized # None /\ ~IsStale(row, "convert")
                /\ o.normalized = store.normalized
             \/ /\ row.normalized = None \/ IsStale(row, "convert")
                /\ row.source # None /\ store.source = row.source
                /\ q.normalized = profile
                /\ q.hash = [file |-> row.source, profile |-> profile]
                /\ \A p \in Profiles : o.normalized[p] =
                     IF p = profile THEN row.source ELSE store.normalized[p]
      PROVE  /\ row' \in Row /\ store' \in Store /\ crashes' \in 0..MaxCrashes
             /\ crashes' = 0 => crashes = 0
             /\ SameText(row, row') /\ SameTask(row, row')
             /\ row'.prints.transcribe = row.prints.transcribe
             /\ row'.prints.merge = row.prints.merge
             /\ store'.transcript = store.transcript /\ store'.handoff = store.handoff
             /\ row'.done \subseteq row.done \cup {"convert"}
             /\ Died \/ Worked
  <2>1. PICK pr : pr = print
    OBVIOUS
  <2>2. /\ row' \in Row /\ store' \in Store /\ crashes' \in 0..MaxCrashes
        /\ store'.normalized = o.normalized /\ store'.transcript = o.transcript
        /\ store'.handoff = o.handoff
        /\ \/ /\ row' = row /\ crashes' # 0
              /\ \/ store'.source = o.source
                 \/ q.source # None /\ store'.source = None
           \/ /\ crashes' = crashes /\ SameText(q, row') /\ SameTask(q, row')
              /\ row'.prints.transcribe = q.prints.transcribe
              /\ row'.prints.merge = q.prints.merge
              /\ row'.normalized = q.normalized /\ row'.hash = q.hash
              /\ \/ row'.source = q.source /\ store'.source = o.source
                 \/ q.source # None /\ row'.source = None /\ store'.source = None
              /\ \/ row'.done = q.done \cup {"convert"} /\ row'.prints.convert = pr
                 \/ row'.source = q.source /\ SameCursor(q, row')
    BY <1>3, <1>5, <2>1, PurgeEffect
  <2>3. CASE row' = row /\ crashes' # 0
    <3>1. Died
      BY <1>5, <2>2, <2>3 DEF Died, Kept, Fresh
    <3> QED BY <1>1, <1>5, <2>2, <2>3, <3>1 DEF SameText, SameTask
  <2>4. CASE /\ crashes' = crashes /\ SameText(q, row') /\ SameTask(q, row')
             /\ row'.prints.transcribe = q.prints.transcribe
             /\ row'.prints.merge = q.prints.merge
             /\ row'.normalized = q.normalized /\ row'.hash = q.hash
             /\ \/ row'.source = q.source /\ store'.source = o.source
                \/ q.source # None /\ row'.source = None /\ store'.source = None
             /\ \/ row'.done = q.done \cup {"convert"} /\ row'.prints.convert = pr
                \/ row'.source = q.source /\ SameCursor(q, row')
    <3>1. q.done = r.done /\ q.prints = row.prints
      BY <1>2, <1>5 DEF SameCursor
    <3>2. \/ row'.done = r.done \cup {"convert"} /\ row'.prints.convert = pr
          \/ /\ row'.source = row.source /\ row'.done = r.done
             /\ row'.prints = row.prints
      BY <3>1, <2>4, <1>5 DEF SameCursor
    <3>3. Kept \/ Fresh
      BY <1>5, <2>2 DEF Kept, Fresh
    <3>4. Worked
      BY <1>2, <1>3, <1>5, <2>1, <2>2, <2>4, <3>2 DEF Worked, Kept, Fresh
    <3>5. /\ SameText(row, row') /\ SameTask(row, row')
          /\ row'.prints.transcribe = row.prints.transcribe
          /\ row'.prints.merge = row.prints.merge
      BY <1>5, <2>4, <3>1 DEF SameText, SameTask
    <3> QED BY <1>2, <1>5, <2>2, <2>4, <3>2, <3>4, <3>5
  <2> QED BY <2>2, <2>3, <2>4
<1>6. ASSUME NEW c \in Row, Commits(c, store), Same(r, c)
      PROVE  /\ row' \in Row /\ store' \in Store /\ crashes' \in 0..MaxCrashes
             /\ crashes' = 0 => crashes = 0
             /\ SameText(row, row') /\ SameTask(row, row')
             /\ row'.prints.transcribe = row.prints.transcribe
             /\ row'.prints.merge = row.prints.merge
             /\ store'.transcript = store.transcript /\ store'.handoff = store.handoff
             /\ row'.done \subseteq row.done \cup {"convert"}
             /\ Quiet
  <2>1. store' = store /\ row' = c /\ crashes' = crashes
    BY <1>6 DEF Commits
  <2> QED BY <1>1, <1>2, <1>6, <2>1
          DEF Quiet, Same, SameAudio, SameText, SameCursor, SameTask
<1>7. CASE r.normalized # None /\ ~IsStale(r, "convert") /\ Purges(r, print, store)
  <2>1. /\ r.source = row.source /\ r.normalized = row.normalized
        /\ r.hash = row.hash /\ SameCursor(r, r)
    BY <1>2 DEF SameAudio, SameCursor
  <2> QED BY <1>1, <1>2, <1>3, <1>5, <1>7, <2>1
<1>8. CASE Commits(Stops(r), store)
  BY <1>2, <1>6, <1>8, RetriesFields
<1>9. CASE Commits(Retries(r), store)
  BY <1>2, <1>6, <1>9, RetriesFields
<1>10. CASE /\ r.source # None /\ store.source # None
            /\ r.normalized = None \/ IsStale(r, "convert")
            /\ Purges([r EXCEPT !.normalized = profile,
                                !.hash = [file |-> store.source,
                                          profile |-> profile]],
                      print,
                      [store EXCEPT !.normalized[profile] = store.source])
  <2> DEFINE h == [file |-> store.source, profile |-> profile]
             q == [r EXCEPT !.normalized = profile, !.hash = h]
             o == [store EXCEPT !.normalized[profile] = store.source]
  <2>1. row.source = uploads /\ store.source = uploads
    <3>1. r.source = row.source
      BY <1>2 DEF SameAudio
    <3> QED BY <1>1, <1>4, <1>10, <3>1 DEF Keys
  <2>2. h \in Hashes /\ store.source \in Maybe(Files)
    BY <1>1, <2>1 DEF Hashes, Maybe
  <2>3. /\ q \in Row /\ SameText(r, q) /\ SameCursor(r, q) /\ SameTask(r, q)
        /\ q.source = r.source /\ q.normalized = profile /\ q.hash = h
    <3>1. PICK g : g = h
      OBVIOUS
    <3>2. g \in Hashes
      BY <2>2, <3>1
    <3>3. LET s == Converted(r, profile, g)
          IN  /\ s \in Row /\ SameText(r, s) /\ SameCursor(r, s) /\ SameTask(r, s)
              /\ s.source = r.source /\ s.normalized = profile /\ s.hash = g
      BY <1>1, <1>2, <3>2, ConvertedFields
    <3>4. q = Converted(r, profile, g)
      BY <3>1 DEF Converted
    <3> HIDE DEF q
    <3> QED BY <3>1, <3>3, <3>4
  <2>4. /\ o \in Store /\ o.source = store.source /\ o.transcript = store.transcript
        /\ o.handoff = store.handoff
        /\ \A p \in Profiles :
             o.normalized[p] = IF p = profile THEN store.source ELSE store.normalized[p]
    BY <1>1, <2>2, AudioFields
  <2>5. Purges(q, print, o) /\ r.source # None
    BY <1>10
  <2> HIDE DEF q, o
  <2>6. q.source = row.source /\ SameText(row, q) /\ SameTask(row, q)
    BY <1>2, <2>3 DEF SameAudio, SameText, SameTask
  <2>7. /\ row.source # None /\ store.source = row.source
        /\ q.hash = [file |-> row.source, profile |-> profile]
        /\ row.normalized = None \/ IsStale(row, "convert")
    <3>1. r.normalized = row.normalized
      BY <1>2 DEF SameAudio
    <3> QED BY <1>1, <1>3, <1>4, <1>10, <2>1, <2>3, <3>1
  <2>8. \A p \in Profiles : o.normalized[p] =
          IF p = profile THEN row.source ELSE store.normalized[p]
    BY <2>4, <2>7
  <2> QED BY <1>5, <2>3, <2>4, <2>5, <2>6, <2>7, <2>8
<1>11. \/ r.normalized # None /\ ~IsStale(r, "convert") /\ Purges(r, print, store)
       \/ Commits(Stops(r), store)
       \/ Commits(Retries(r), store)
       \/ /\ r.source # None /\ store.source # None
          /\ r.normalized = None \/ IsStale(r, "convert")
          /\ Purges([r EXCEPT !.normalized = profile,
                              !.hash = [file |-> store.source,
                                        profile |-> profile]],
                    print,
                    [store EXCEPT !.normalized[profile] = store.source])
  BY DEF ConvertStage, r, print
<1> QED BY <1>7, <1>8, <1>9, <1>10, <1>11

-----------------------------------------------------------------------------
(* What transcribe can have done, asked or answered *)

\* Segments of file f may be stored with fingerprint p; what the files'
\* order promises, it promises until an erasure begins (Erasure).
Sound(f, p) ==
    /\ f # None
    /\ IInv =>
         /\ f <= uploads
         /\ p # None /\ row.hash # None /\ p.file <= row.hash.file
         /\ printLost => f <= row.hash.file \/ IsStale(row, "convert")
         /\ store.transcript # None /\ p.file = row.hash.file =>
              store.transcript <= f

\* The row may wait for w: a task that was asked about its hash.
Asks(w) ==
    /\ row.hash # None /\ w.print = row.hash
    /\ w.task \in DOMAIN tasks' /\ tasks'[w.task].hash = row.hash

\* A row with the same audio and transcript.json, and segments if transcribe
\* claims them.
Lawful(c) ==
    /\ c.prints.merge = row.prints.merge
    /\ "merge" \in c.done => "merge" \in row.done
    /\ \/ c.segments = row.segments /\ c.prints.transcribe = row.prints.transcribe
       \/ Sound(c.segments, c.prints.transcribe)
    /\ c.awaiting = row.awaiting \/ c.awaiting = None \/ Asks(c.awaiting)
    /\ SameAudio(row, c)
    /\ c.prints.convert = row.prints.convert
    /\ "convert" \in c.done => "convert" \in row.done
    /\ c.transcript = row.transcript /\ c.written = row.written
    /\ "transcribe" \in c.done => c.segments # None

\* Only the postbox has changed.
Aside(o) ==
    /\ o.source = store.source /\ o.normalized = store.normalized
    /\ o.transcript = store.transcript
    /\ o.handoff = store.handoff \/ o.handoff = None

\* A retry and a stop are lawful changes of the row.
LEMMA LawfulRetries ==
    ASSUME NEW r \in Row, Lawful(r)
    PROVE  Lawful(Retries(r)) /\ Lawful(Stops(r))
    BY RetriesFields DEF Lawful, Same, SameAudio, SameText, SameCursor, SameTask

\* Transcribe completes on the segments of r; q is r but for those.
LEMMA LawfulCompletes ==
    ASSUME NEW r \in Row, NEW q \in Row, NEW print \in Maybe(Hashes), Lawful(q),
           SameAudio(q, r), SameCursor(q, r), SameTask(q, r),
           r.transcript = q.transcript, r.written = q.written, r.segments # None,
           \/ r.segments = row.segments /\ print = row.prints.transcribe
           \/ Sound(r.segments, print)
    PROVE  Completes(r, "transcribe", print) \in Row
           /\ Lawful(Completes(r, "transcribe", print))
<1>1. PICK c : c = Completes(r, "transcribe", print)
  OBVIOUS
<1>2. "transcribe" \in StageNames /\ "transcribe" # "merge" /\ "transcribe" # "convert"
  BY Names
<1>3. /\ c \in Row /\ SameAudio(r, c) /\ SameText(r, c) /\ SameTask(r, c)
      /\ c.done = r.done \cup {"transcribe"} /\ c.prints.transcribe = print
      /\ c.prints.convert = r.prints.convert /\ c.prints.merge = r.prints.merge
  <2>1. PICK s : s = "transcribe"
    OBVIOUS
  <2>2. s \in StageNames /\ s # "convert" /\ s # "merge"
    BY <1>2, <2>1
  <2>3. c = Completes(r, s, print)
    BY <1>1, <2>1
  <2>4. /\ c \in Row /\ SameAudio(r, c) /\ SameText(r, c) /\ SameTask(r, c)
        /\ c.done = r.done \cup {s} /\ c.prints.convert = r.prints.convert
        /\ c.prints.transcribe = print /\ c.prints.merge = r.prints.merge
    BY <2>2, <2>3, CompletesFields
  <2> QED BY <2>1, <2>4
<1>4. /\ "merge" \in c.done => "merge" \in row.done
      /\ "convert" \in c.done => "convert" \in row.done
  BY <1>2, <1>3 DEF Lawful, SameCursor
<1>5. /\ c.prints.convert = row.prints.convert /\ c.prints.merge = row.prints.merge
      /\ c.transcript = row.transcript /\ c.written = row.written
      /\ SameAudio(row, c)
      /\ c.awaiting = row.awaiting \/ c.awaiting = None \/ Asks(c.awaiting)
  BY <1>3 DEF Lawful, SameAudio, SameText, SameTask, SameCursor
<1>6. /\ c.segments # None
      /\ \/ c.segments = row.segments /\ c.prints.transcribe = row.prints.transcribe
         \/ Sound(c.segments, c.prints.transcribe)
  BY <1>3 DEF SameText
<1>7. Lawful(c)
  BY <1>4, <1>5, <1>6 DEF Lawful
<1> QED BY <1>1, <1>3, <1>7

\* So is a transcript persisted with the print it was made from.
LEMMA LawfulPersists ==
    ASSUME NEW r \in Row, NEW print \in Maybe(Hashes), NEW file \in Files, Lawful(r),
           Sound(file, print)
    PROVE  Persists(r, file, print) \in Row /\ Lawful(Persists(r, file, print))
<1>1. PICK c : c = [r EXCEPT !.segments = file]
  OBVIOUS
<1>2. c = [status |-> r.status, retry |-> r.retry, source |-> r.source,
           normalized |-> r.normalized, hash |-> r.hash,
           segments |-> file, transcript |-> r.transcript,
           written |-> r.written, done |-> r.done, prints |-> r.prints,
           awaiting |-> r.awaiting]
  <2>1. r = [status |-> r.status, retry |-> r.retry, source |-> r.source,
             normalized |-> r.normalized, hash |-> r.hash,
             segments |-> r.segments, transcript |-> r.transcript,
             written |-> r.written, done |-> r.done, prints |-> r.prints,
             awaiting |-> r.awaiting]
    BY RowFields
  <2> QED BY <1>1, <2>1
<1>3. file \in Maybe(Files) /\ file # None
  BY StageAssumption DEF Maybe, Files
<1>4. c \in Row
  BY <1>2, <1>3, RowFields DEF Row
<1>5. /\ c.segments = file /\ c.segments # None
      /\ c.transcript = r.transcript /\ c.written = r.written
      /\ SameAudio(r, c) /\ SameCursor(r, c) /\ SameTask(r, c)
  BY <1>2, <1>3 DEF SameAudio, SameCursor, SameTask
<1>6. /\ Completes(c, "transcribe", print) \in Row
      /\ Lawful(Completes(c, "transcribe", print))
  BY <1>4, <1>5, LawfulCompletes
<1> QED BY <1>1, <1>6 DEF Persists

\* The row with another task to wait for.
LEMMA LawfulAwaits ==
    ASSUME NEW r \in Row, NEW w \in Maybe(Waits), Lawful(r), w = None \/ Asks(w)
    PROVE  LET c == [r EXCEPT !.awaiting = w]
           IN  /\ c \in Row /\ Lawful(c) /\ SameText(r, c)
               /\ c.hash = r.hash /\ c.prints = r.prints /\ c.status = r.status
<1>1. PICK c : c = [r EXCEPT !.awaiting = w]
  OBVIOUS
<1>2. c = Moved(r, r.status, r.retry, w, r.done)
  BY <1>1, RowFields DEF Moved
<1>3. r.done \in SUBSET StageNames
  BY RowFields
<1>4. /\ c \in Row /\ SameAudio(r, c) /\ SameText(r, c) /\ c.done = r.done
      /\ c.prints = r.prints /\ c.status = r.status /\ c.awaiting = w
  BY <1>2, <1>3, RowFields, MovedFields
<1>5. Lawful(c)
  BY <1>4 DEF Lawful, SameAudio, SameText
<1> QED BY <1>1, <1>4, <1>5 DEF SameAudio

\* The row a stage is given is lawful, and it is no row without segments that
\* transcribe has completed on.
LEMMA LawfulBegun ==
    ASSUME NEW i, row \in Row, Keys
    PROVE  Begun(i) \in Row /\ Lawful(Begun(i))
           /\ Begun(i).prints = row.prints /\ Begun(i).segments = row.segments
    BY BegunFields DEF Lawful, SameAudio, SameText, Keys

\* A transcript accepted is committed or lost, and discards the hand-off alone.
LEMMA AcceptsEffect ==
    ASSUME NEW r \in Row, NEW file \in Files, NEW print \in Maybe(Hashes),
           store \in Store, Lawful(r), Sound(file, print), Accepts(r, file, print)
    PROVE  \E c \in Row, o \in Store : Lawful(c) /\ Aside(o) /\ Commits(c, o)
<1>1. /\ Persists(r, file, print) \in Row /\ Lawful(Persists(r, file, print))
      /\ Retries(r) \in Row /\ Lawful(Retries(r))
      /\ Stops(r) \in Row /\ Lawful(Stops(r))
  BY LawfulPersists, LawfulRetries, RetriesFields
<1>2. Aside(store)
  BY DEF Aside
<1>3. ASSUME NEW o \in Discarded
      PROVE  o \in Store /\ Aside(o)
  <2>1. None \in Maybe(Files)
    BY DEF Maybe
  <2>2. PICK bare : bare = [store EXCEPT !.handoff = None]
    OBVIOUS
  <2>3. o = store \/ o = bare
    BY <1>3, <2>2 DEF Discarded
  <2>4. bare \in Store /\ Aside(bare)
    BY <2>1, <2>2, ObjectFields DEF Aside
  <2> QED BY <1>2, <2>3, <2>4
<1> QED BY <1>1, <1>2, <1>3 DEF Accepts

Answered == \E c \in Row, o \in Store : Lawful(c) /\ Aside(o) /\ Commits(c, o)

\* The tasks, one by one.
LEMMA TasksFields ==
    ASSUME TypeOK
    PROVE  /\ DOMAIN tasks = 1..Len(tasks) /\ Len(tasks) \in Nat
           /\ \A t \in DOMAIN tasks : t \in 1..MaxTasks /\ tasks[t] \in Task
<1>1. tasks \in Seq(Task) /\ Len(tasks) <= MaxTasks /\ MaxTasks \in Nat
  BY StageAssumption DEF TypeOK
<1>2. DOMAIN tasks = 1..Len(tasks) /\ Len(tasks) \in Nat
  BY <1>1
<1> QED BY <1>1, <1>2

\* After convert has completed the row has a hash.
LEMMA Hashed ==
    ASSUME row \in Row, Keys, "convert" \in row.done
    PROVE  row.hash \in Hashes /\ row.hash.file \in Files /\ row.hash \in Maybe(Hashes)
<1>1. row.hash # None /\ row.hash \in Maybe(Hashes)
  BY RowFields DEF Keys
<1> QED BY <1>1 DEF Maybe, Hashes

\* transcribe asks once at most, for the audio it read.
LEMMA TranscribeEffect ==
    ASSUME TypeOK, Keys, TranscribeStage
    PROVE  /\ Answered
           /\ tasks' \in Seq(Task) /\ Len(tasks') <= MaxTasks
           /\ \/ tasks' = tasks
              \/ /\ row.hash \in Hashes
                 /\ tasks' = Append(tasks, [hash |-> row.hash, state |-> "running",
                                            wrote |-> None])
<1> DEFINE r == Begun(2)
<1>1. row \in Row /\ store \in Store /\ tasks \in Seq(Task) /\ Len(tasks) <= MaxTasks
      /\ TypeOK /\ Keys
  BY DEF TypeOK
<1>2. /\ r \in Row /\ Lawful(r) /\ r.prints = row.prints /\ r.segments = row.segments
  BY <1>1, LawfulBegun
<1>3. "convert" \in row.done /\ ~IsStale(row, "convert")
  BY DEF TranscribeStage, Runs, IsNext, Pending, Stages
<1>4. /\ r.hash \in Hashes /\ r.hash.file \in Files /\ r.hash \in Maybe(Hashes)
      /\ r.hash = row.hash /\ r.hash # None
  BY <1>1, <1>2, <1>3, Hashed, NoneIsNoRecord DEF Lawful, SameAudio
<1>14. Sound(r.hash.file, r.hash)
  <2>1. r.hash.file <= row.hash.file
    BY <1>4 DEF Files
  <2>2. r.hash.file # None
    BY <1>4, StageAssumption DEF Files
  <2>3. IInv => r.hash.file <= uploads
    BY <1>4 DEF IInv, Known
  <2>4. IInv /\ store.transcript # None => store.transcript <= r.hash.file
    BY <1>4 DEF IInv, Merged
  <2> QED BY <1>4, <2>1, <2>2, <2>3, <2>4 DEF Sound
<1>15. ASSUME Transcribed(r)
       PROVE  r.segments # None /\ (IInv => r.prints.transcribe = r.hash)
  <2>1. r.segments # None /\ ~IsStale(r, "transcribe")
    BY <1>15 DEF Transcribed
  <2>2. IInv => r.prints.transcribe # None
    BY <1>2, <2>1 DEF IInv, Asked
  <2>3. InputPrint(r, "transcribe") = r.hash
    BY DEF InputPrint
  <2> QED BY <1>4, <2>1, <2>2, <2>3 DEF IsStale
<1>5. Aside(store)
  BY DEF Aside
<1> HIDE DEF r
<1>6. CASE Transcribed(r) /\ Commits(Completes(r, "transcribe", r.hash), store) /\ UNCHANGED tasks
  <2>1. r.segments # None /\ (IInv => r.prints.transcribe = r.hash)
    BY <1>6, <1>15
  <2>2. PICK c : c = Completes(r, "transcribe", r.hash)
    OBVIOUS
  <2>3. SameAudio(r, r) /\ SameCursor(r, r) /\ SameTask(r, r)
    BY DEF SameAudio, SameCursor, SameTask
  <2>4. \/ r.segments = row.segments /\ r.hash = row.prints.transcribe
        \/ Sound(r.segments, r.hash)
    BY <1>2, <2>1 DEF Sound
  <2>5. c \in Row /\ Lawful(c)
    BY <1>2, <1>4, <2>1, <2>2, <2>3, <2>4, LawfulCompletes
  <2> QED BY <1>1, <1>5, <1>6, <2>2, <2>5 DEF Answered
<1>7. CASE CopiesDuplicate(r) /\ UNCHANGED tasks
  <2>1. PICK c : c = Persists(r, r.hash.file, r.hash)
    OBVIOUS
  <2>2. c \in Row /\ Lawful(c)
    BY <1>2, <1>4, <1>14, <2>1, LawfulPersists
  <2>3. Commits(c, store)
    BY <1>7, <2>1 DEF CopiesDuplicate
  <2> QED BY <1>1, <1>5, <1>7, <2>2, <2>3 DEF Answered
<1>8. CASE CollectsStranded(r) /\ UNCHANGED tasks
  <2>1. store.handoff \in Files
    BY <1>1, <1>8, StoreFields DEF CollectsStranded, Maybe
  <2>2. Accepts(r, store.handoff, r.hash)
    BY <1>8 DEF CollectsStranded
  <2>3. Sound(store.handoff, r.hash)
    <3>1. row.segments = None /\ store.handoff # None
      BY <1>2, <1>8 DEF CollectsStranded
    <3>2. IInv => store.transcript = None
      BY <3>1 DEF IInv, Merged
    <3>3. IInv => store.handoff <= uploads
      BY <3>1 DEF IInv, Known, Below
    <3>4. IInv /\ printLost => store.handoff <= row.hash.file
      BY <1>3, <3>1 DEF IInv, Known, Below
    <3>5. r.hash.file <= row.hash.file
      BY <1>4 DEF Files
    <3> QED BY <1>4, <3>1, <3>2, <3>3, <3>4, <3>5 DEF Sound
  <2>4. Answered
    BY <1>1, <1>2, <1>4, <2>1, <2>2, <2>3, AcceptsEffect DEF Answered
  <2> QED BY <1>1, <1>8, <2>4
<1>9. CASE Commits(Retries(r), store) /\ UNCHANGED tasks
  BY <1>1, <1>2, <1>5, <1>9, LawfulRetries, RetriesFields DEF Answered
<1>10. ASSUME NEW t \in 1..MaxTasks, Commits(Awaiting(r, t), store),
              t \in DOMAIN tasks', tasks'[t].hash = row.hash
       PROVE  Answered
  <2>1. PICK w : w = [task |-> t, print |-> r.hash]
    OBVIOUS
  <2>2. w \in Maybe(Waits)
    BY <1>4, <2>1 DEF Waits, Maybe
  <2>6. Asks(w)
    BY <1>4, <1>10, <2>1 DEF Asks
  <2>3. PICK c : c = [r EXCEPT !.awaiting = w]
    OBVIOUS
  <2>4. c \in Row /\ Lawful(c)
    BY <1>2, <2>2, <2>3, <2>6, LawfulAwaits
  <2>5. Commits(c, store)
    BY <1>10, <2>1, <2>3 DEF Awaiting
  <2> QED BY <1>1, <1>5, <2>4, <2>5 DEF Answered
<1>11. CASE /\ \E t \in InFlight(r.hash) : Commits(Awaiting(r, t), store)
            /\ UNCHANGED tasks
  <2>1. PICK t \in InFlight(r.hash) : Commits(Awaiting(r, t), store)
    BY <1>11
  <2>2. t \in DOMAIN tasks /\ tasks[t].hash = row.hash
    BY <1>4 DEF InFlight
  <2>3. t \in 1..MaxTasks
    BY <1>1, <2>2, TasksFields
  <2> QED BY <1>1, <2>2, <1>10, <1>11, <2>1, <2>3
<1>12. CASE /\ Len(tasks) < MaxTasks /\ tasks' = Append(tasks, NewTask(r))
            /\ Commits(Awaiting(r, Len(tasks')), store)
  <2>1. NewTask(r) \in Task
    BY <1>4 DEF NewTask, Task, Maybe
  <2>2. PICK new \in Task : new = NewTask(r)
    BY <2>1
  <2>3. tasks' = Append(tasks, new)
    BY <1>12, <2>2
  <2>4. /\ tasks' \in Seq(Task) /\ Len(tasks') = Len(tasks) + 1
        /\ tasks'[Len(tasks) + 1] = new
    BY <1>1, <2>3, AppendProperties
  <2>5. Len(tasks') \in 1..MaxTasks
    BY <1>1, <1>12, <2>4, TasksFields, StageAssumption
  <2>6. DOMAIN tasks' = 1..Len(tasks')
    BY <2>4
  <2>7. Len(tasks') \in DOMAIN tasks' /\ tasks'[Len(tasks')].hash = row.hash
    BY <1>4, <2>2, <2>4, <2>5, <2>6 DEF NewTask
  <2>8. /\ row.hash \in Hashes
        /\ tasks' = Append(tasks, [hash |-> row.hash, state |-> "running",
                                   wrote |-> None])
    BY <1>4, <2>2, <2>3 DEF NewTask
  <2>9. Answered
    <3>1. PICK last \in 1..MaxTasks : last = Len(tasks')
      BY <2>5
    <3> QED BY <1>10, <1>12, <2>7, <3>1
  <2> QED BY <2>4, <2>5, <2>8, <2>9, StageAssumption
<1>13. \/ Transcribed(r) /\ Commits(Completes(r, "transcribe", r.hash), store) /\ UNCHANGED tasks
       \/ CopiesDuplicate(r) /\ UNCHANGED tasks
       \/ CollectsStranded(r) /\ UNCHANGED tasks
       \/ Commits(Retries(r), store) /\ UNCHANGED tasks
       \/ Submits(r)
  BY DEF TranscribeStage, r
<1> QED BY <1>6, <1>7, <1>8, <1>9, <1>11, <1>12, <1>13 DEF Submits

\* transcribe's answer is one of the outcomes of Answered.
LEMMA ResumeEffect ==
    ASSUME TypeOK, Keys, NEW t \in notices, Resume(t)
    PROVE  Answered
<1> DEFINE r == [row EXCEPT !.awaiting = None]
<1>1. /\ row \in Row /\ store \in Store /\ None \in Maybe(Waits) /\ TypeOK
      /\ Lawful(row)
  BY DEF TypeOK, Maybe, Lawful, SameAudio, Keys
<1>2. /\ r \in Row /\ Lawful(r) /\ SameText(row, r) /\ r.hash = row.hash
      /\ r.prints = row.prints
  BY <1>1, LawfulAwaits
<1>10. /\ row.awaiting # None /\ row.awaiting.task = t /\ t \in DOMAIN tasks
       /\ IInv => /\ row.awaiting.print = tasks[t].hash
                  /\ row.hash # None /\ row.awaiting.print.file <= row.hash.file
  BY DEF Resume, Awaits, IInv, Asked, TypeOK
<1>3. /\ row.awaiting.print \in Maybe(Hashes) /\ tasks[t] \in Task
      /\ IInv => row.awaiting.print # None /\ row.awaiting.print \in Hashes
  <2>1. tasks[t] \in Task
    BY <1>1, <1>10, TasksFields
  <2>2. row.awaiting.print \in Maybe(Hashes)
    BY <1>1, <1>10, RowFields DEF Waits, Maybe
  <2> QED BY <1>10, <2>1, <2>2, NoneIsNoRecord DEF Task, Maybe
<1>11. IInv => /\ row.hash \in Hashes /\ row.hash.file \in Nat
               /\ row.awaiting.print.file \in Nat
  BY <1>1, <1>3, <1>10, RowFields DEF Hashes, Files, Maybe
<1>4. Aside(store)
  BY DEF Aside
<1> HIDE DEF r
<1>5. CASE Transcribed(r) /\ Commits(Completes(r, "transcribe", row.awaiting.print), store)
  <2>1. r.segments # None /\ r.segments = row.segments
    BY <1>2, <1>5 DEF Transcribed, SameText
  <2>2. PICK c : c = Completes(r, "transcribe", row.awaiting.print)
    OBVIOUS
  <2>3. IInv => row.prints.transcribe = row.hash
    <3>1. IInv => row.prints.transcribe # None
      BY <2>1 DEF IInv, Asked
    <3>2. InputPrint(r, "transcribe") = row.hash
      BY <1>2 DEF InputPrint
    <3> QED BY <1>2, <1>5, <1>10, <3>1, <3>2 DEF Transcribed, IsStale
  <2>4. Sound(r.segments, row.awaiting.print)
    <3>1. IInv => row.segments <= uploads
      BY <2>1 DEF IInv, Known, Below
    <3>2. IInv /\ printLost => row.segments <= row.hash.file \/ IsStale(row, "convert")
      BY <2>1 DEF IInv, Known, Below
    <3>3. IInv /\ store.transcript # None => store.transcript <= row.segments
      BY <2>3 DEF IInv, Merged
    <3> QED BY <1>3, <1>10, <2>1, <3>1, <3>2, <3>3 DEF Sound
  <2>5. SameAudio(r, r) /\ SameCursor(r, r) /\ SameTask(r, r)
    BY DEF SameAudio, SameCursor, SameTask
  <2>6. c \in Row /\ Lawful(c)
    BY <1>2, <1>3, <2>1, <2>2, <2>4, <2>5, LawfulCompletes
  <2> QED BY <1>1, <1>4, <1>5, <2>2, <2>6 DEF Answered
<1>6. CASE Commits(Retries(r), store)
  BY <1>1, <1>2, <1>4, <1>6, LawfulRetries, RetriesFields DEF Answered
<1>7. CASE Commits(Stops(row), store)
  BY <1>1, <1>4, <1>7, LawfulRetries, RetriesFields DEF Answered
<1>8. CASE Readable(t) /\ Accepts(r, store.handoff, row.awaiting.print)
  <2>1. store.handoff \in Files
    BY <1>1, <1>8, StoreFields DEF Readable, Maybe
  <2>2. tasks[t].wrote = store.handoff /\ store.handoff # None
    BY <1>8 DEF Readable
  <2>3. IInv => store.handoff <= uploads
    BY <2>2 DEF IInv, Known, Below
  <2>4. IInv /\ printLost => store.handoff <= row.hash.file \/ IsStale(row, "convert")
    BY <2>2 DEF IInv, Known, Below
  <2>5. IInv => row.awaiting.print.file <= store.handoff
    BY <1>10, <2>2 DEF IInv, Rising
  <2>6. IInv /\ store.transcript # None => store.transcript <= row.hash.file
    BY DEF IInv, Merged
  <2>7. store.transcript # None => store.transcript \in Nat
    BY <1>1, StoreFields DEF Maybe, Files
  <2>8. IInv /\ store.transcript # None /\ row.awaiting.print.file = row.hash.file =>
          store.transcript <= store.handoff
    BY <1>11, <2>1, <2>5, <2>6, <2>7 DEF Files
  <2>9. Sound(store.handoff, row.awaiting.print)
    BY <1>3, <1>10, <2>2, <2>3, <2>4, <2>8 DEF Sound
  <2> QED BY <1>1, <1>2, <1>3, <1>8, <2>1, <2>9, AcceptsEffect DEF Answered
<1>9. \/ Transcribed(r) /\ Commits(Completes(r, "transcribe", row.awaiting.print), store)
      \/ Commits(Retries(r), store)
      \/ Commits(Stops(row), store)
      \/ Readable(t) /\ Accepts(r, store.handoff, row.awaiting.print)
  BY DEF Resume, Refused, r
<1> QED BY <1>5, <1>6, <1>7, <1>8, <1>9

-----------------------------------------------------------------------------
(* Whatever leaves the audio alone *)

Beside ==
    /\ row' \in Row /\ store' \in Store /\ crashes' \in 0..MaxCrashes
    /\ crashes' = 0 => crashes = 0
    /\ SameAudio(row, row') /\ row'.prints.convert = row.prints.convert
    /\ "convert" \in row'.done => "convert" \in row.done
    /\ "transcribe" \in row'.done => row'.segments # None
    /\ store'.source = store.source /\ store'.normalized = store.normalized
    /\ KeysResolve /\ crashes' = 0 /\ row'.transcript =>
         store'.transcript = row'.written

\* Such an outcome leaves the audio alone.
LEMMA AnsweredBeside ==
    ASSUME TypeOK, Keys, Answered
    PROVE  Beside
<1>1. PICK c \in Row, o \in Store : Lawful(c) /\ Aside(o) /\ Commits(c, o)
  BY DEF Answered
<1>2. row \in Row /\ crashes \in 0..MaxCrashes /\ StageAssumption
  BY StageAssumption DEF TypeOK
<1>3. /\ store' = o
      /\ \/ row' = c /\ crashes' = crashes
         \/ row' = row /\ crashes' = crashes + 1 /\ crashes < MaxCrashes
  BY <1>1 DEF Commits
<1>4. CASE row' = c /\ crashes' = crashes
  BY <1>1, <1>2, <1>3, <1>4 DEF Beside, Lawful, Aside, KeysResolve
<1>5. CASE row' = row /\ crashes' = crashes + 1 /\ crashes < MaxCrashes
  <2>1. crashes' \in 0..MaxCrashes /\ crashes' # 0
    BY <1>2, <1>5 DEF StageAssumption
  <2>2. Lawful(row)
    BY DEF Lawful, SameAudio, Keys
  <2> QED BY <1>1, <1>2, <1>3, <1>5, <2>1, <2>2 DEF Beside, Lawful, Aside
<1> QED BY <1>3, <1>4, <1>5

-----------------------------------------------------------------------------
(* Whatever leaves transcript.json alone *)

\* Segments come with a sound fingerprint, a wait with its task.
Told ==
    /\ row'.prints.merge = row.prints.merge
    /\ "merge" \in row'.done => "merge" \in row.done
    /\ row'.transcript = row.transcript /\ row'.written = row.written
    /\ store'.transcript = store.transcript
    /\ store'.handoff = store.handoff \/ store'.handoff = None
    /\ \/ row'.segments = row.segments
          /\ row'.prints.transcribe = row.prints.transcribe
       \/ Sound(row'.segments, row'.prints.transcribe)
    /\ row'.awaiting = row.awaiting \/ row'.awaiting = None \/ Asks(row'.awaiting)

\* Tasks keep what they were asked and what they wrote; a new one is about the
\* row's hash.
Tasks ==
    /\ \A t \in DOMAIN tasks : /\ t \in DOMAIN tasks'
                               /\ tasks'[t].hash = tasks[t].hash
                               /\ tasks'[t].wrote = tasks[t].wrote
    /\ \A t \in DOMAIN tasks' \ DOMAIN tasks :
         row.hash # None /\ tasks'[t].hash = row.hash /\ tasks'[t].wrote = None

\* And what it says of the transcript is true of its print.
LEMMA AnsweredTold ==
    ASSUME TypeOK, Keys, Answered
    PROVE  Told
<1>1. PICK c \in Row, o \in Store : Lawful(c) /\ Aside(o) /\ Commits(c, o)
  BY DEF Answered
<1>2. store' = o /\ (row' = c \/ row' = row)
  BY <1>1 DEF Commits
<1> QED BY <1>1, <1>2 DEF Told, Lawful, Aside

\* The numbers that are compared.
LEMMA Numbers ==
    ASSUME TypeOK
    PROVE  /\ uploads \in Nat
           /\ row.hash # None => row.hash \in Hashes /\ row.hash.file \in Nat
           /\ row.segments # None => row.segments \in Nat
           /\ row.written # None => row.written \in Nat
           /\ store.handoff # None => store.handoff \in Nat
           /\ store.transcript # None => store.transcript \in Nat
           /\ \A q \in Profiles : Stored(q) # None => Stored(q) \in Nat
           /\ row.prints.transcribe # None => row.prints.transcribe.file \in Nat
<1>1. row \in Row /\ store \in Store /\ uploads \in Files
  BY DEF TypeOK
<1>2. Files \subseteq Nat
  BY DEF Files
<1>3. /\ row.hash \in Maybe(Hashes) /\ row.segments \in Maybe(Files)
      /\ row.written \in Maybe(Files) /\ row.prints.transcribe \in Maybe(Hashes)
  BY <1>1, RowFields, PrintsFields
<1>4. /\ store.handoff \in Maybe(Files) /\ store.transcript \in Maybe(Files)
      /\ \A q \in Profiles : Stored(q) \in Maybe(Files)
  BY <1>1, StoreFields DEF Stored
<1> QED BY <1>1, <1>2, <1>3, <1>4 DEF Maybe, Hashes

\* A step that tells the truth keeps everything said of the transcript.
LEMMA ToldKeeps ==
    ASSUME IInv, Beside, Told, Tasks, UNCHANGED <<uploads, profile, printLost, reprofiled>>
    PROVE  Known' /\ Rising' /\ Asked' /\ Merged'
<1>1. /\ row'.hash = row.hash /\ row'.normalized = row.normalized
      /\ row'.source = row.source /\ row'.prints.convert = row.prints.convert
      /\ \A q \in Profiles : Stored(q)' = Stored(q)
  BY DEF Beside, SameAudio, Stored
<1>2. IsStale(row, "convert")' <=> IsStale(row, "convert")
  BY <1>1 DEF IsStale, InputPrint, ConvertPrint
<1>3. /\ uploads \in Nat
      /\ row.hash # None => row.hash \in Hashes /\ row.hash.file \in Nat
  BY Numbers DEF IInv
<1>4. ASSUME NEW n, Below(n), row.hash # None => row.hash.file <= n,
             row'.segments # row.segments => row'.segments <= n
      PROVE  Below(n)'
  BY <1>1, <1>4 DEF Below, Told, Tasks
<1>5. row'.segments # row.segments =>
        /\ row'.segments <= uploads
        /\ printLost => row'.segments <= row.hash.file \/ IsStale(row, "convert")
  BY DEF Told, Sound
<1>6. Known'
  <2>1. Below(uploads)'
    BY <1>4, <1>5 DEF IInv, Known, Below, Told, Tasks
  <2>2. ASSUME printLost, ~IsStale(row, "convert")
        PROVE  row.hash # None /\ Below(row.hash.file)'
    <3>1. row.hash # None /\ Below(row.hash.file) /\ row.hash.file <= row.hash.file
      BY <1>3, <2>2 DEF IInv, Known
    <3> QED BY <1>1, <1>5, <2>2, <3>1 DEF Below, Told, Tasks
  <2> QED BY <1>1, <1>2, <2>1, <2>2 DEF IInv, Known
<1>7. Rising'
  <2>1. store'.normalized = store.normalized
    BY DEF Beside
  <2>2. ASSUME NEW t \in DOMAIN tasks'
        PROVE  /\ store'.normalized[tasks'[t].hash.profile] # None =>
                    tasks'[t].hash.file <= store'.normalized[tasks'[t].hash.profile]
               /\ tasks'[t].wrote # None => tasks'[t].hash.file <= tasks'[t].wrote
    <3>1. CASE t \in DOMAIN tasks
      BY <2>1, <3>1 DEF IInv, Rising, Stored, Tasks
    <3>2. CASE t \notin DOMAIN tasks
      BY <2>1, <3>2 DEF IInv, Rising, Stored, Tasks
    <3> QED BY <3>1, <3>2
  <2> QED BY <1>1, <2>1, <2>2 DEF IInv, Rising, Stored
<1>8. Asked'
  <2>1. ASSUME row'.awaiting # None
        PROVE  /\ row'.awaiting.task \in DOMAIN tasks'
               /\ row'.awaiting.print = tasks'[row'.awaiting.task].hash
               /\ row'.hash # None /\ row'.awaiting.print.file <= row'.hash.file
    <3>1. CASE row'.awaiting = row.awaiting
      BY <1>1, <2>1, <3>1 DEF IInv, Asked, Tasks
    <3>2. CASE Asks(row'.awaiting)
      <4>1. row.hash # None /\ row.hash.file <= row.hash.file
        BY <1>3, <3>2 DEF Asks
      <4> QED BY <1>1, <3>2, <4>1 DEF Asks
    <3> QED BY <2>1, <3>1, <3>2 DEF Told
  <2>2. row'.prints.transcribe # None =>
          row'.hash # None /\ row'.prints.transcribe.file <= row'.hash.file
    BY <1>1 DEF IInv, Asked, Told, Sound
  <2>3. row'.segments # None => row'.prints.transcribe # None
    BY DEF IInv, Asked, Told, Sound
  <2> QED BY <2>1, <2>2, <2>3 DEF Asked
<1>9. Merged'
  BY <1>1 DEF IInv, Merged, Told, Sound
<1> QED BY <1>6, <1>7, <1>8, <1>9

\* A row's artifact, when merge names it.
LEMMA NamedFields ==
    ASSUME NEW r \in Row, NEW file \in Maybe(Files)
    PROVE  LET s == [r EXCEPT !.transcript = TRUE, !.written = file]
           IN  /\ s \in Row /\ SameAudio(r, s) /\ SameCursor(r, s)
               /\ SameTask(r, s) /\ s.transcript
               /\ s.segments = r.segments /\ s.written = file
<1>1. PICK yes \in BOOLEAN : yes = TRUE
  OBVIOUS
<1>2. PICK s : s = [r EXCEPT !.transcript = yes, !.written = file]
  OBVIOUS
<1>3. s = [status |-> r.status, retry |-> r.retry, source |-> r.source,
           normalized |-> r.normalized, hash |-> r.hash,
           segments |-> r.segments, transcript |-> yes,
           written |-> file, done |-> r.done, prints |-> r.prints,
           awaiting |-> r.awaiting]
  <2>1. r = [status |-> r.status, retry |-> r.retry, source |-> r.source,
             normalized |-> r.normalized, hash |-> r.hash,
             segments |-> r.segments, transcript |-> r.transcript,
             written |-> r.written, done |-> r.done, prints |-> r.prints,
             awaiting |-> r.awaiting]
    BY RowFields
  <2> QED BY <1>2, <2>1
<1>4. s \in Row
  BY <1>1, <1>3, RowFields DEF Row
<1>5. /\ SameAudio(r, s) /\ SameCursor(r, s) /\ SameTask(r, s)
      /\ s.transcript = yes /\ s.segments = r.segments /\ s.written = file
  BY <1>3 DEF SameAudio, SameCursor, SameTask
<1> QED BY <1>1, <1>2, <1>4, <1>5

\* Merge is through with the row's segments, or has died with them stored.
Merges ==
    /\ row'.segments = row.segments
    /\ row'.prints.transcribe = row.prints.transcribe
    /\ row'.awaiting = row.awaiting /\ store'.handoff = store.handoff
    /\ \/ /\ row'.transcript /\ row'.written = row.segments
          /\ row'.prints.merge = row.segments
          /\ \/ store'.transcript = row.segments
             \/ /\ store'.transcript = store.transcript
                /\ row.transcript /\ row.written = row.segments
       \/ row' = row /\ crashes' # 0 /\ store'.transcript = row.segments

\* merge moves the cursor or stores transcript.json.
LEMMA MergeEffect ==
    ASSUME TypeOK, Keys, MergeStage
    PROVE  Beside /\ (Told \/ Merges)
<1> DEFINE r == Begun(3)
           named == [r EXCEPT !.transcript = TRUE, !.written = r.segments]
<1>1. /\ row \in Row /\ store \in Store /\ crashes \in 0..MaxCrashes
      /\ "merge" \in StageNames /\ "merge" # "convert" /\ "merge" # "transcribe"
      /\ TypeOK /\ Keys
  BY Names DEF TypeOK
<1>2. /\ r \in Row /\ Lawful(r) /\ SameText(row, r) /\ SameTask(row, r)
      /\ r.prints = row.prints
  BY <1>1, LawfulBegun, BegunFields DEF SameTask
<1>3. r.segments \in Maybe(Files)
  BY <1>2, RowFields
<1>4. ASSUME NEW q \in Row, NEW c, c = Completes(q, "merge", r.segments),
             SameAudio(r, q), SameCursor(r, q), SameTask(r, q),
             q.segments = r.segments
      PROVE  /\ c \in Row /\ SameAudio(row, c)
             /\ c.prints.convert = row.prints.convert
             /\ "convert" \in c.done => "convert" \in row.done
             /\ "transcribe" \in c.done => c.segments # None
             /\ c.transcript = q.transcript /\ c.written = q.written
             /\ c.segments = row.segments /\ c.awaiting = row.awaiting
             /\ c.prints.merge = row.segments
             /\ c.prints.transcribe = row.prints.transcribe
  <2>1. PICK s, print : s = "merge" /\ print = r.segments
    OBVIOUS
  <2>2. s \in StageNames /\ s # "convert" /\ s # "transcribe" /\ s = "merge" /\ print \in Maybe(Files)
    BY <1>1, <1>3, <2>1
  <2>3. c = Completes(q, s, print)
    BY <1>4, <2>1
  <2>4. /\ c \in Row /\ SameAudio(q, c) /\ SameText(q, c) /\ SameTask(q, c)
        /\ c.done = q.done \cup {s} /\ c.prints.convert = q.prints.convert
        /\ c.prints.transcribe = q.prints.transcribe /\ c.prints.merge = print
    BY <2>2, <2>3, CompletesFields
  <2>5. "convert" \in c.done => "convert" \in r.done
    BY <1>1, <1>4, <2>1, <2>4 DEF SameCursor
  <2>6. "transcribe" \in c.done => "transcribe" \in r.done
    BY <1>1, <1>4, <2>1, <2>4 DEF SameCursor
  <2>7. /\ c.segments = row.segments /\ c.awaiting = row.awaiting
        /\ c.prints.merge = row.segments
        /\ c.prints.transcribe = row.prints.transcribe
    BY <1>2, <1>4, <2>1, <2>4 DEF SameText, SameTask, SameCursor
  <2> QED BY <1>2, <1>4, <2>4, <2>5, <2>6, <2>7
          DEF Lawful, SameAudio, SameText, SameCursor
<1>5. /\ named \in Row /\ SameAudio(r, named) /\ SameCursor(r, named)
      /\ SameTask(r, named) /\ named.transcript
      /\ named.segments = r.segments /\ named.written = r.segments
  <2>1. PICK file \in Maybe(Files) : file = r.segments
    BY <1>3
  <2> QED BY <1>2, <2>1, NamedFields
<1> HIDE DEF r, named
<1>6. CASE Written(r) /\ Commits(Completes(r, "merge", r.segments), store)
  <2>1. PICK c : c = Completes(r, "merge", r.segments)
    OBVIOUS
  <2>2. SameAudio(r, r) /\ SameCursor(r, r) /\ SameTask(r, r)
    BY DEF SameAudio, SameCursor, SameTask
  <2>3. store' = store /\ row' = c /\ crashes' = crashes
    BY <1>6, <2>1 DEF Commits
  <2>4. /\ c \in Row /\ SameAudio(row, c)
        /\ c.prints.convert = row.prints.convert
        /\ "convert" \in c.done => "convert" \in row.done
        /\ "transcribe" \in c.done => c.segments # None
        /\ c.transcript = r.transcript /\ c.written = r.written
        /\ c.segments = row.segments /\ c.awaiting = row.awaiting
        /\ c.prints.merge = row.segments
        /\ c.prints.transcribe = row.prints.transcribe
    BY <1>2, <1>4, <2>1, <2>2
  <2>5. row.transcript /\ row.written = row.segments
    BY <1>2, <1>6 DEF Written, SameText
  <2>6. Merges
    BY <1>2, <2>3, <2>4, <2>5 DEF Merges, SameText
  <2> QED BY <1>1, <1>2, <2>3, <2>4, <2>6 DEF Beside, KeysResolve, SameText
<1>7. CASE Commits(Retries(r), store)
  <2>1. Answered
    BY <1>1, <1>2, <1>7, LawfulRetries, RetriesFields DEF Answered, Aside
  <2> QED BY <2>1, AnsweredBeside, AnsweredTold
<1>8. CASE Commits(Completes(named, "merge", r.segments),
                   [store EXCEPT !.transcript = r.segments])
  <2>1. PICK c, o, file : /\ c = Completes(named, "merge", r.segments)
                          /\ o = [store EXCEPT !.transcript = file]
                          /\ file = r.segments
    OBVIOUS
  <2>2. /\ store' = o
        /\ \/ row' = c /\ crashes' = crashes
           \/ row' = row /\ crashes' = crashes + 1 /\ crashes < MaxCrashes
    BY <1>8, <2>1 DEF Commits
  <2>3. /\ o \in Store /\ o.transcript = r.segments /\ o.source = store.source
        /\ o.normalized = store.normalized /\ o.handoff = store.handoff
    <3>1. file \in Maybe(Files)
      BY <1>3, <2>1
    <3> QED BY <1>1, <2>1, <3>1, ObjectFields
  <2>4. /\ c \in Row /\ SameAudio(row, c)
        /\ c.prints.convert = row.prints.convert
        /\ "convert" \in c.done => "convert" \in row.done
        /\ "transcribe" \in c.done => c.segments # None
        /\ c.written = r.segments /\ c.transcript
        /\ c.segments = row.segments /\ c.awaiting = row.awaiting
        /\ c.prints.merge = row.segments
        /\ c.prints.transcribe = row.prints.transcribe
    BY <1>4, <1>5, <2>1
  <2>5. r.segments = row.segments
    BY <1>2 DEF SameText
  <2>6. Merges
    <3>1. crashes + 1 # 0
      BY <1>1
    <3> QED BY <2>2, <2>3, <2>4, <2>5, <3>1 DEF Merges
  <2>7. CASE row' = c /\ crashes' = crashes
    BY <1>1, <2>2, <2>3, <2>4, <2>7, <2>6 DEF Beside
  <2>8. CASE row' = row /\ crashes' = crashes + 1 /\ crashes < MaxCrashes
    <3>1. crashes' \in 0..MaxCrashes /\ crashes' # 0
      BY <1>1, <2>8, StageAssumption
    <3>2. Lawful(row)
      BY <1>1 DEF Lawful, SameAudio, Keys
    <3> QED BY <1>1, <2>2, <2>3, <2>8, <2>6, <3>1, <3>2 DEF Beside, Lawful
  <2> QED BY <2>2, <2>7, <2>8
<1>9. \/ Written(r) /\ Commits(Completes(r, "merge", r.segments), store)
      \/ Commits(Retries(r), store)
      \/ Commits(Completes(named, "merge", r.segments),
                 [store EXCEPT !.transcript = r.segments])
  BY DEF MergeStage, r, named
<1> QED BY <1>6, <1>7, <1>8, <1>9

\* Before merge runs, no file is later than the row's audio, and its segments
\* are about that audio.
LEMMA BeforeMerge ==
    ASSUME IInv, "convert" \in row.done, ~IsStale(row, "convert"),
           "transcribe" \in row.done, ~IsStale(row, "transcribe")
    PROVE  /\ row.hash \in Hashes /\ row.hash # None /\ row.segments # None
           /\ row.prints.transcribe = row.hash
           /\ row.segments \in Nat /\ row.segments <= row.hash.file
           /\ store.transcript # None => store.transcript <= row.segments
           /\ ~printLost => row.hash.file = uploads /\ Stored(row.normalized) = uploads
<1>1. row \in Row /\ Keys /\ TypeOK /\ uploads \in Files
  BY DEF IInv, TypeOK
<1>2. row.hash \in Hashes /\ row.hash # None /\ row.segments # None
  BY <1>1, Hashed, NoneIsNoRecord DEF Keys
<1>3. row.prints.transcribe = row.hash
  <2>1. row.prints.transcribe # None
    BY <1>2 DEF IInv, Asked
  <2> QED BY <1>2, <2>1 DEF IsStale, InputPrint
<1>4. store.transcript # None => store.transcript <= row.segments
  BY <1>3 DEF IInv, Merged
<1>5. ~printLost => row.hash.file = uploads /\ Stored(row.normalized) = uploads
  <2>1. CASE row.source = None
    BY <2>1 DEF IInv, Audio
  <2>2. CASE row.source # None
    <3>1. row.source = uploads
      BY <2>2 DEF IInv, Keys
    <3>2. PICK h : h = [file |-> uploads, profile |-> profile]
      OBVIOUS
    <3>3. h \in Hashes /\ h.file = uploads
      BY <1>1, <3>2 DEF Hashes, TypeOK
    <3>4. InputPrint(row, "convert") = h
      BY <2>2, <3>1, <3>2 DEF InputPrint, ConvertPrint
    <3>5. row.prints.convert # None => row.prints.convert.file = uploads
      BY <3>3, <3>4, NoneIsNoRecord DEF IsStale
    <3> QED BY <3>5 DEF IInv, Audio
  <2> QED BY <2>1, <2>2
<1>6. row.segments <= row.hash.file
  <2>1. Below(row.hash.file)
    BY <1>5 DEF IInv, Known
  <2> QED BY <1>2, <2>1 DEF Below
<1>7. row.segments \in Nat
  BY <1>1, <1>2, Numbers
<1> QED BY <1>2, <1>3, <1>4, <1>5, <1>6, <1>7

\* transcript.json keeps pace with the segments it was written from.
LEMMA MergeKeeps ==
    ASSUME IInv, MergeStage
    PROVE  Beside /\ Known' /\ Rising' /\ Asked' /\ Merged'
<1>1. Beside /\ (Told \/ Merges)
  BY MergeEffect DEF IInv
<1>2. UNCHANGED <<profile, uploads, printLost, reprofiled, tasks>>
  BY DEF MergeStage, worldVars
<1>3. CASE Told
  BY <1>1, <1>2, <1>3, ToldKeeps DEF Tasks
<1>4. CASE Merges
  <2>1. /\ row.hash \in Hashes /\ row.hash # None /\ row.segments # None
        /\ row.segments \in Nat /\ row.segments <= row.hash.file
        /\ store.transcript # None => store.transcript <= row.segments
    <3>1. /\ "convert" \in row.done /\ ~IsStale(row, "convert")
          /\ "transcribe" \in row.done /\ ~IsStale(row, "transcribe")
      <4>1. \A j \in 1..2 : ~Pending(row, Stages[j])
        BY DEF MergeStage, Runs, IsNext
      <4>2. ~Pending(row, Stages[1]) /\ ~Pending(row, Stages[2])
        BY <4>1
      <4> QED BY <4>2 DEF Pending, Stages
    <3> QED BY <3>1, BeforeMerge
  <2>2. /\ row'.hash = row.hash /\ row'.normalized = row.normalized
        /\ row'.source = row.source /\ row'.prints.convert = row.prints.convert
        /\ store'.normalized = store.normalized
    BY <1>1 DEF Beside, SameAudio
  <2>3. IsStale(row, "convert")' <=> IsStale(row, "convert")
    BY <1>2, <2>2 DEF IsStale, InputPrint, ConvertPrint
  <2>5. Known'
    <3>1. Below(uploads)'
      BY <1>2, <2>2, <1>4 DEF IInv, Known, Below, Stored, Merges
    <3>2. printLost => Below(row.hash.file)' \/ IsStale(row, "convert")
      BY <1>2, <2>2, <1>4 DEF IInv, Known, Below, Stored, Merges
    <3> QED BY <1>2, <2>2, <2>3, <3>1, <3>2 DEF IInv, Known
  <2>6. Rising'
    BY <1>2, <2>2 DEF IInv, Rising, Stored
  <2>7. Asked'
    BY <1>2, <1>4, <2>2 DEF IInv, Asked, Merges
  <2>8. Merged'
    <3>1. row.transcript => row.written # None /\ row.written \in Nat
      <4>1. row.transcript => row.written # None
        BY DEF IInv, Merged
      <4> QED BY <4>1, Numbers DEF IInv
    <3>2. CASE /\ row'.transcript /\ row'.written = row.segments
               /\ row'.prints.merge = row.segments
               /\ store'.transcript = row.segments
      BY <1>4, <2>1, <2>2, <3>2 DEF IInv, Merged, Merges
    <3>3. CASE /\ row'.transcript /\ row'.written = row.segments
               /\ row'.prints.merge = row.segments
               /\ store'.transcript = store.transcript
               /\ row.transcript /\ row.written = row.segments
      BY <1>4, <2>1, <2>2, <3>3 DEF IInv, Merged, Merges
    <3>4. CASE row' = row /\ store'.transcript = row.segments
      <4>1. row.transcript => row.written <= row.segments
        <5>1. row.transcript => /\ row.written \in Nat /\ store.transcript \in Nat
                                /\ row.written <= store.transcript
                                /\ store.transcript <= row.segments
          BY <2>1, <3>1, Numbers DEF IInv, Merged
        <5> QED BY <2>1, <5>1
      <4> QED BY <2>1, <2>2, <3>4, <4>1 DEF IInv, Merged
    <3> QED BY <1>4, <3>2, <3>3, <3>4 DEF Merges
  <2> QED BY <1>1, <2>5, <2>6, <2>7, <2>8
<1> QED BY <1>1, <1>3, <1>4

\* A step that leaves the audio alone keeps everything said of it.
LEMMA BesideKeeps ==
    ASSUME IInv, Beside, UNCHANGED <<uploads, putting, printLost>>
    PROVE  Audio' /\ AudioIsKept' /\ KeysResolve'
<1>2. Audio'
  BY DEF IInv, Beside, Audio, Stored, SameAudio
<1>3. AudioIsKept'
  BY DEF IInv, Beside, AudioIsKept
<1>4. KeysResolve'
  BY DEF IInv, Beside, KeysResolve, SameAudio
<1> QED BY <1>2, <1>3, <1>4

-----------------------------------------------------------------------------
(* Convert keeps the invariant *)

\* convert keeps the types and the keys.
LEMMA ConvertTypes ==
    ASSUME TypeOK, Keys, ConvertStage
    PROVE  TypeOK' /\ Keys'
<1>1. /\ row \in Row /\ store \in Store /\ profile \in Profiles /\ uploads \in Files
      /\ putting \in BOOLEAN /\ printLost \in BOOLEAN
  BY DEF TypeOK
<1>2. /\ row' \in Row /\ store' \in Store /\ crashes' \in 0..MaxCrashes
      /\ SameText(row, row')
      /\ row'.done \subseteq row.done \cup {"convert"}
      /\ Quiet \/ Died \/ Worked
  BY ConvertEffect
<1>3. UNCHANGED <<profile, uploads, putting, reopens, reprofiled, tasks, notices>>
  BY DEF ConvertStage
<1>4. printLost' \in BOOLEAN
  BY <1>1 DEF ConvertStage
<1>5. TypeOK'
  BY <1>1, <1>2, <1>3, <1>4 DEF TypeOK
<1>6. None \notin Hashes /\ None \notin Profiles
      /\ uploads # None /\ uploads + 1 # uploads /\ uploads + 1 # None
  BY <1>1, StageAssumption, NoneIsNoRecord DEF Files
<1>7. row.source # None => [file |-> row.source, profile |-> profile] # None
  <2>1. row.source \in Maybe(Files)
    BY <1>1, RowFields
  <2>2. row.source # None => [file |-> row.source, profile |-> profile] \in Hashes
    BY <1>1, <2>1 DEF Hashes, Maybe
  <2> QED BY <1>6, <2>2
<1>9. "transcribe" \in row'.done => row'.segments # None
  <2>1. "transcribe" \in row'.done => "transcribe" \in row.done
    BY <1>2
  <2> QED BY <1>2, <2>1 DEF Keys, SameText
<1>10. putting => row.source = None
  BY DEF Keys
<1>11. CASE Quiet
  BY <1>3, <1>5, <1>9, <1>11 DEF Keys, Quiet, SameAudio
<1>12. CASE Died
  BY <1>1, <1>3, <1>5, <1>6, <1>10, <1>12 DEF Keys, Died
<1>13. CASE Worked
  <2>2. row'.normalized # None <=> row'.hash # None
    BY <1>1, <1>6, <1>7, <1>13 DEF Worked, Kept, Fresh, Keys
  <2>3. row'.normalized # None
    BY <1>1, <1>6, <1>13 DEF Worked, Kept, Fresh
  <2> QED BY <1>1, <1>3, <1>5, <1>6, <1>9, <1>10, <1>13, <2>2, <2>3 DEF Keys, Worked
<1> QED BY <1>2, <1>11, <1>12, <1>13

\* And the audio's part: it purges the source only with its conversion stored.
LEMMA ConvertKeeps ==
    ASSUME IInv, ConvertStage
    PROVE  TypeOK' /\ Keys' /\ Audio' /\ AudioIsKept' /\ KeysResolve'
<1>1. /\ TypeOK /\ Keys /\ KeysResolve
      /\ row \in Row /\ store \in Store /\ profile \in Profiles /\ uploads \in Files
      /\ putting \in BOOLEAN /\ printLost \in BOOLEAN
  BY DEF IInv, TypeOK
<1>2. /\ row' \in Row /\ store' \in Store /\ crashes' \in 0..MaxCrashes
      /\ crashes' = 0 => crashes = 0
      /\ SameText(row, row') /\ store'.transcript = store.transcript
      /\ row'.done \subseteq row.done \cup {"convert"}
      /\ Quiet \/ Died \/ Worked
  BY <1>1, ConvertEffect
<1>3. UNCHANGED <<profile, uploads, putting, reopens, reprofiled, tasks, notices>>
  BY DEF ConvertStage
<1>4. /\ printLost' = (printLost \/ ("convert" \in row'.done /\ row'.prints.convert = None))
      /\ printLost' \in BOOLEAN
  BY <1>1 DEF ConvertStage
<1>5. TypeOK' /\ Keys'
  BY <1>1, ConvertTypes
<1>6. None \notin Files /\ None \notin Hashes /\ None \notin Profiles
      /\ uploads # None /\ uploads + 1 # uploads /\ uploads + 1 # None
  BY <1>1, StageAssumption, NoneIsNoRecord DEF Files
<1>7. [file |-> row.source, profile |-> profile] # None \/ row.source = None
  <2>1. row.source \in Maybe(Files)
    BY <1>1, RowFields
  <2>2. row.source # None => [file |-> row.source, profile |-> profile] \in Hashes
    BY <1>1, <2>1 DEF Hashes, Maybe
  <2> QED BY <1>6, <2>2
<1>8. row.normalized \in Maybe(Profiles)
  BY <1>1, RowFields
<1>11. CASE Quiet
  <2>2. Audio'
    BY <1>3, <1>4, <1>11 DEF IInv, Audio, Stored, Quiet, SameAudio
  <2>3. AudioIsKept'
    BY <1>3, <1>4, <1>11 DEF IInv, AudioIsKept, Quiet
  <2>4. KeysResolve'
    BY <1>1, <1>2, <1>11 DEF KeysResolve, Quiet, SameAudio, SameText
  <2> QED BY <1>5, <2>2, <2>3, <2>4
<1>12. CASE Died
  <2>1. row.source # None => row.source = uploads
    BY <1>1 DEF Keys
  <2>3. Audio'
    BY <1>1, <1>3, <1>4, <1>8, <1>12, <2>1 DEF IInv, Audio, Stored, Died, Kept, Fresh, Maybe
  <2>4. AudioIsKept'
    <3>1. CASE store'.source = store.source
      <4>1. CASE store'.normalized = store.normalized
        BY <1>3, <1>4, <3>1, <4>1 DEF IInv, AudioIsKept
      <4>2. CASE Fresh
        BY <1>1, <1>3, <2>1, <4>2 DEF Fresh, AudioIsKept
      <4> QED BY <1>12, <4>1, <4>2 DEF Died, Kept
    <3>2. CASE row.source # None
      <4>1. CASE Fresh
        BY <1>1, <1>3, <2>1, <4>1 DEF Fresh, AudioIsKept
      <4>2. CASE Kept
        <5>1. InputPrint(row, "convert") = [file |-> row.source, profile |-> profile]
          BY <3>2 DEF InputPrint, ConvertPrint
        <5>2. row.prints.convert = None \/ row.prints.convert.file = row.source
          BY <1>7, <3>2, <4>2, <5>1 DEF Kept, IsStale
        <5>3. printLost \/ Stored(row.normalized) = uploads
          BY <2>1, <3>2, <4>2, <5>2 DEF IInv, Audio, Kept
        <5>4. row.normalized \in Profiles
          BY <1>8, <4>2 DEF Kept, Maybe
        <5> QED BY <1>3, <1>4, <4>2, <5>3, <5>4 DEF Kept, Stored, AudioIsKept
      <4> QED BY <1>12, <4>1, <4>2 DEF Died
    <3> QED BY <1>12, <3>1, <3>2 DEF Died
  <2>5. KeysResolve'
    BY <1>12 DEF Died, KeysResolve
  <2> QED BY <1>5, <2>3, <2>4, <2>5
<1>13. CASE Worked
  <2>1. row.source # None => row.source = uploads
    BY <1>1 DEF Keys
  <2>3. row'.normalized # None
    BY <1>1, <1>6, <1>13 DEF Worked, Kept, Fresh
  <2>5. KeysResolve'
    <3>1. row'.source # None /\ crashes' = 0 => store'.source = row'.source
      BY <1>1, <1>2, <1>13 DEF KeysResolve, Worked
    <3>2. crashes' = 0 => store'.normalized[row'.normalized] = row'.hash.file
      BY <1>1, <1>2, <1>13 DEF KeysResolve, Worked, Kept, Fresh
    <3>3. crashes' = 0 /\ row'.transcript => store'.transcript = row'.written
      BY <1>1, <1>2 DEF KeysResolve, SameText
    <3> QED BY <3>1, <3>2, <3>3 DEF KeysResolve
  <2>6. CASE printLost'
    BY <1>5, <2>5, <2>6 DEF Audio, AudioIsKept
  <2>7. CASE ~printLost'
    <3>1. ~printLost /\ ~("convert" \in row'.done /\ row'.prints.convert = None)
      BY <1>4, <2>7
    <3>0. row'.source = None =>
            /\ row'.prints.convert # None /\ row'.prints.convert.file = uploads
      <4>1. row.source # None =>
              /\ ConvertPrint(row) # None /\ ConvertPrint(row).file = uploads
        BY <1>7, <2>1 DEF ConvertPrint
      <4>2. row.source = None =>
              /\ ConvertPrint(row) = None
              /\ row.prints.convert # None /\ row.prints.convert.file = uploads
        BY <3>1 DEF ConvertPrint, IInv, Audio
      <4> QED BY <1>13, <3>1, <4>1, <4>2 DEF Worked
    <3>2. CASE Fresh /\ row'.normalized = profile
               /\ row'.hash = [file |-> row.source, profile |-> profile]
      <4>1. row.source = uploads /\ row'.hash.file = uploads
            /\ store'.normalized[row'.normalized] = uploads
        BY <1>1, <2>1, <3>2 DEF Fresh
      <4>2. AudioIsKept'
        BY <1>1, <1>3, <3>2, <4>1 DEF AudioIsKept
      <4>3. Audio'
        BY <1>3, <2>3, <3>0, <3>1, <4>1 DEF Audio, Stored
      <4> QED BY <1>5, <2>5, <4>2, <4>3
    <3>3. CASE Kept /\ row'.normalized = row.normalized /\ row'.hash = row.hash
      <4>1. row.normalized \in Profiles
        BY <1>8, <3>3 DEF Kept, Maybe
      <4>2. row.source # None => row.hash.file = uploads /\ Stored(row.normalized) = uploads
        <5>1. HAVE row.source # None
        <5>2. InputPrint(row, "convert") = [file |-> row.source, profile |-> profile]
          BY <5>1 DEF InputPrint, ConvertPrint
        <5>3. row.prints.convert = None \/ row.prints.convert.file = row.source
          BY <1>7, <3>3, <5>1, <5>2 DEF Kept, IsStale
        <5> QED BY <2>1, <3>1, <3>3, <5>1, <5>3 DEF IInv, Audio, Kept
      <4>3. row.hash.file = uploads /\ Stored(row.normalized) = uploads
        BY <3>1, <4>2 DEF IInv, Audio
      <4>4. row'.hash.file = uploads /\ store'.normalized[row'.normalized] = uploads
        BY <3>3, <4>3 DEF Kept, Stored
      <4>5. AudioIsKept'
        BY <1>3, <3>3, <4>1, <4>4 DEF AudioIsKept
      <4>6. Audio'
        BY <1>3, <2>3, <3>0, <3>1, <4>4 DEF Audio, Stored
      <4> QED BY <1>5, <2>5, <4>5, <4>6
    <3> QED BY <1>13, <3>2, <3>3 DEF Worked
  <2> QED BY <2>6, <2>7
<1> QED BY <1>2, <1>11, <1>12, <1>13

\* And what it converts is never an earlier file.
LEMMA ConvertTexts ==
    ASSUME IInv, ConvertStage
    PROVE  Known' /\ Rising' /\ Asked' /\ Merged'
<1>1. /\ TypeOK /\ Keys /\ row \in Row /\ store \in Store /\ profile \in Profiles
      /\ uploads \in Files /\ uploads \in Nat /\ None \notin Files
      /\ printLost \in BOOLEAN
  BY StageAssumption DEF IInv, TypeOK, Files
<1>2. /\ row' \in Row /\ store' \in Store
      /\ SameText(row, row') /\ SameTask(row, row')
      /\ row'.prints.transcribe = row.prints.transcribe
      /\ row'.prints.merge = row.prints.merge
      /\ store'.transcript = store.transcript /\ store'.handoff = store.handoff
      /\ row'.done \subseteq row.done \cup {"convert"}
      /\ Quiet \/ Died \/ Worked
  BY <1>1, ConvertEffect
<1>3. UNCHANGED <<profile, uploads, reprofiled, tasks>>
  BY DEF ConvertStage
<1>4. printLost' = (printLost \/ ("convert" \in row'.done /\ row'.prints.convert = None))
  BY DEF ConvertStage
<1>5. row.source # None => row.source = uploads
  BY <1>1 DEF Keys
<1>6. row.normalized \in Maybe(Profiles) /\ row.hash \in Maybe(Hashes)
  BY <1>1, RowFields
\* What lies under a profile's key stays or is the last file.
<1>7. \/ store'.normalized = store.normalized
      \/ /\ Fresh
         /\ \A q \in Profiles : store'.normalized[q] =
              IF q = profile THEN uploads ELSE store.normalized[q]
  BY <1>2, <1>5 DEF Quiet, Died, Worked, Kept, Fresh
\* The row's conversion stays or is the last file's.
<1>8. \/ row'.normalized = row.normalized /\ row'.hash = row.hash
      \/ /\ Fresh /\ row'.normalized = profile
         /\ row'.hash = [file |-> uploads, profile |-> profile]
  <2>1. Fresh => row.source = uploads
    BY <1>5 DEF Fresh
  <2> QED BY <1>2, <2>1 DEF Quiet, Died, Worked, SameAudio
<1>9. [file |-> uploads, profile |-> profile] \in Hashes
  BY <1>1 DEF Hashes
<1>10. row.hash # None => row.hash \in Hashes /\ row.hash.file \in Nat
                          /\ row.hash.file <= uploads
  BY <1>1, Numbers DEF IInv, Known
<1>11. /\ row'.hash # None => row'.hash.file <= uploads /\ row'.hash.file \in Nat
       /\ row.hash # None => row'.hash # None /\ row.hash.file <= row'.hash.file
  BY <1>1, <1>8, <1>9, <1>10, NoneIsNoRecord
<1>12. Below(uploads)'
  BY <1>1, <1>2, <1>3, <1>7 DEF IInv, Known, Below, Stored, SameText
<1>13. row.prints.convert = None \/ row.prints.convert.profile = profile \/ reprofiled
  BY <1>1 DEF IInv, Known, TypeOK
<1>14. \/ row'.prints.convert = row.prints.convert
       \/ row'.prints.convert = None
       \/ row'.prints.convert = [file |-> uploads, profile |-> profile]
  BY <1>2, <1>5 DEF Quiet, Died, Worked, ConvertPrint
<1>15. ~reprofiled' =>
         row'.prints.convert = None \/ row'.prints.convert.profile = profile'
  BY <1>3, <1>13, <1>14
<1>16. ASSUME printLost'
       PROVE  /\ row'.hash # None
              /\ Below(row.hash.file)' \/ IsStale(row, "convert")'
  <2>1. CASE row'.hash = [file |-> uploads, profile |-> profile]
    <3>1. row'.hash.file = uploads /\ row'.hash # None
      BY <1>9, <2>1, NoneIsNoRecord
    <3> QED BY <1>3, <1>12, <3>1 DEF Below, Stored
  <2>2. CASE row'.hash = row.hash /\ printLost
    <3>1. row.hash # None /\ (Below(row.hash.file) \/ IsStale(row, "convert"))
      BY <2>2 DEF IInv, Known
    <3>2. CASE Quiet \/ Died
      <4>1. /\ row'.source = row.source /\ row'.prints.convert = row.prints.convert
        BY <3>2 DEF Quiet, Died, SameAudio
      <4>2. IsStale(row, "convert")' <=> IsStale(row, "convert")
        BY <1>3, <4>1 DEF IsStale, InputPrint, ConvertPrint
      <4>3. CASE IsStale(row, "convert")
        BY <2>2, <3>1, <4>2, <4>3
      <4>4. CASE ~IsStale(row, "convert")
        <5>1. CASE store'.normalized = store.normalized
          BY <1>2, <1>3, <2>2, <3>1, <4>4, <5>1 DEF Below, Stored, SameText
        <5>2. CASE Fresh /\ store'.normalized # store.normalized
          <6>1. row.normalized # None
            BY <1>1, <3>1 DEF Keys
          <6> QED BY <4>4, <5>2, <6>1 DEF Fresh
        <5> QED BY <1>7, <5>1, <5>2
      <4> QED BY <4>3, <4>4
    <3>3. CASE Worked
      <4>1. CASE Kept
        <5>1. Below(row.hash.file)
          BY <3>1, <4>1 DEF Kept
        <5> QED BY <1>2, <1>3, <2>2, <3>1, <4>1, <5>1 DEF Below, Stored, Kept, SameText
      <4>2. CASE ~Kept
        <5>1. row'.hash = [file |-> row.source, profile |-> profile] /\ Fresh
          BY <3>3, <4>2 DEF Worked
        <5>2. row'.hash = [file |-> uploads, profile |-> profile]
          BY <1>5, <5>1 DEF Fresh
        <5> QED BY <2>1, <5>2
      <4> QED BY <4>1, <4>2
    <3> QED BY <1>2, <3>2, <3>3
  <2>3. CASE row'.hash = row.hash /\ ~printLost
    <3>1. "convert" \in row'.done /\ row'.prints.convert = None
      BY <1>4, <1>16, <2>3
    <3>2. "convert" \in row.done => row.prints.convert # None
      BY <2>3 DEF IInv, Audio
    <3>3. row.source = None
      <4>1. ConvertPrint(row) = None \/ row'.prints.convert # ConvertPrint(row)
        BY <3>1
      <4>2. row.source # None => ConvertPrint(row) # None
        BY <1>5, <1>9, NoneIsNoRecord DEF ConvertPrint
      <4> QED BY <1>2, <3>1, <3>2, <4>1, <4>2 DEF Quiet, Died, Worked
    <3>4. row.hash # None /\ row.hash.file = uploads
      BY <1>1, <2>3, <3>3 DEF IInv, Audio, Keys
    <3> QED BY <1>3, <1>12, <2>3, <3>4 DEF Below, Stored
  <2> QED BY <1>8, <2>1, <2>2, <2>3
<1>17. Known'
  BY <1>3, <1>11, <1>12, <1>15, <1>16 DEF Known
<1>18. Rising'
  <2>1. row'.normalized # None => row'.hash.profile = row'.normalized
    BY <1>8 DEF IInv, Rising
  <2>2. ASSUME NEW h \in Hashes, h.file <= uploads,
               store.normalized[h.profile] # None => h.file <= store.normalized[h.profile]
        PROVE  store'.normalized[h.profile] # None => h.file <= store'.normalized[h.profile]
    <3>1. h.profile \in Profiles
      BY <2>2 DEF Hashes
    <3> QED BY <1>7, <2>2, <3>1
  <2>3. row'.hash # None /\ store'.normalized[row'.hash.profile] # None =>
          row'.hash.file <= store'.normalized[row'.hash.profile]
    <3>1. CASE row'.hash = row.hash
      BY <1>10, <2>2, <3>1 DEF IInv, Rising, Stored
    <3>2. CASE Fresh /\ row'.normalized = profile
               /\ row'.hash = [file |-> uploads, profile |-> profile]
               /\ row'.hash # row.hash
      <4>1. store'.normalized[profile] = uploads
        BY <1>1, <1>2, <1>5, <3>2 DEF Quiet, Died, Worked, Kept, Fresh, SameAudio
      <4> QED BY <1>1, <3>2, <4>1
    <3> QED BY <1>8, <3>1, <3>2
  <2>4. ASSUME NEW t \in DOMAIN tasks
        PROVE  /\ store'.normalized[tasks[t].hash.profile] # None =>
                    tasks[t].hash.file <= store'.normalized[tasks[t].hash.profile]
               /\ tasks[t].wrote # None => tasks[t].hash.file <= tasks[t].wrote
    <3>1. tasks[t].hash \in Hashes
      BY <1>1, TasksFields DEF Task
    <3>2. tasks[t].hash.file <= uploads
      BY DEF IInv, Known, Below
    <3>3. PICK h \in Hashes : h = tasks[t].hash
      BY <3>1
    <3>4. store.normalized[h.profile] # None => h.file <= store.normalized[h.profile]
      BY <3>3 DEF IInv, Rising, Stored
    <3>5. store'.normalized[h.profile] # None => h.file <= store'.normalized[h.profile]
      BY <2>2, <3>2, <3>3, <3>4
    <3> QED BY <3>3, <3>5 DEF IInv, Rising
  <2> QED BY <1>3, <2>1, <2>3, <2>4 DEF Rising, Stored
<1>19. Asked'
  <2>1. row.awaiting # None => row.awaiting.print.file \in Nat
    <3>1. ASSUME row.awaiting # None
          PROVE  row.awaiting.print.file \in Nat
      <4>1. /\ row.awaiting.task \in DOMAIN tasks
            /\ row.awaiting.print = tasks[row.awaiting.task].hash
        BY <3>1 DEF IInv, Asked
      <4>2. tasks[row.awaiting.task] \in Task
        BY <1>1, <4>1, TasksFields
      <4> QED BY <4>1, <4>2 DEF Task, Hashes, Files
    <3> QED BY <3>1
  <2>2. row.prints.transcribe # None => row.prints.transcribe.file \in Nat
    BY <1>1, Numbers
  <2>3. row.awaiting # None =>
          row'.hash # None /\ row.awaiting.print.file <= row'.hash.file
    <3>1. row.awaiting # None =>
            row.hash # None /\ row.awaiting.print.file <= row.hash.file
      BY DEF IInv, Asked
    <3> QED BY <1>10, <1>11, <2>1, <3>1
  <2>4. row.prints.transcribe # None =>
          row'.hash # None /\ row.prints.transcribe.file <= row'.hash.file
    <3>1. row.prints.transcribe # None =>
            row.hash # None /\ row.prints.transcribe.file <= row.hash.file
      BY DEF IInv, Asked
    <3> QED BY <1>10, <1>11, <2>2, <3>1
  <2> QED BY <1>2, <1>3, <2>3, <2>4 DEF IInv, Asked, SameText, SameTask
<1>20. Merged'
  <2>1. "merge" \in row'.done => "merge" \in row.done
    BY <1>2
  <2>2. ASSUME store.transcript # None
        PROVE  /\ row'.hash # None /\ store.transcript <= row'.hash.file
               /\ row.prints.transcribe.file = row'.hash.file =>
                    store.transcript <= row.segments
    <3>1. /\ row.hash # None /\ store.transcript <= row.hash.file
          /\ row.segments # None /\ store.transcript \in Nat
          /\ row.prints.transcribe.file = row.hash.file =>
               store.transcript <= row.segments
      BY <1>1, <2>2, Numbers DEF IInv, Merged
    <3>2. row.prints.transcribe # None
      BY <3>1 DEF IInv, Asked
    <3>3. row.prints.transcribe.file <= row.hash.file
          /\ row.prints.transcribe.file \in Nat
      BY <1>1, <3>2, Numbers DEF IInv, Asked
    <3> QED BY <1>10, <1>11, <3>1, <3>3
  <2> QED BY <1>2, <2>1, <2>2 DEF IInv, Merged, SameText
<1> QED BY <1>17, <1>18, <1>19, <1>20

-----------------------------------------------------------------------------
(* And so does every other step *)

\* The invariant holds at the start.
LEMMA InitHolds == Init => IInv
<1> SUFFICES ASSUME Init PROVE IInv
  OBVIOUS
<1>1. profile \in Profiles
  BY StageAssumption DEF Init
<1>2. /\ 0 \in 0..MaxRetries /\ 0 \in 0..MaxCrashes /\ 0 \in 0..MaxReopens
      /\ 1 \in Files /\ None \notin Files /\ 0 <= MaxTasks
  BY StageAssumption DEF Files
<1>3. /\ None \in Maybe(Files) /\ 1 \in Maybe(Files) /\ None \in Maybe(Profiles)
      /\ None \in Maybe(Hashes) /\ None \in Maybe(Waits)
  BY <1>2 DEF Maybe
<1>4. store \in Store
  BY <1>3 DEF Init, Store
<1>5. NewRow.prints \in Prints
  BY <1>3 DEF NewRow, Prints
<1>6. PICK no \in BOOLEAN, ps \in Prints :
        no = FALSE /\ ps = NewRow.prints /\ ps.convert = None
  BY <1>5 DEF NewRow
<1>7. row = [status |-> "live", retry |-> 0, source |-> 1, normalized |-> None,
             hash |-> None, segments |-> None, transcript |-> no,
             written |-> None, done |-> {}, prints |-> ps, awaiting |-> None]
  BY <1>6 DEF Init, NewRow
<1>8. row \in Row
  BY <1>2, <1>3, <1>6, <1>7 DEF Row
<1>9. /\ row.source = 1 /\ row.normalized = None /\ row.hash = None
      /\ row.done = {} /\ row.prints.convert = None /\ ~row.transcript
  BY <1>6, <1>7
<1>10. tasks \in Seq(Task) /\ Len(tasks) = 0
  BY DEF Init
<1>11. TypeOK
  BY <1>1, <1>2, <1>4, <1>8, <1>10 DEF Init, TypeOK
<1>12. Keys
  BY <1>2, <1>9 DEF Init, Keys
<1>13. Audio
  BY <1>2, <1>9 DEF Init, Audio
<1>14. AudioIsKept
  BY DEF Init, AudioIsKept
<1>15. KeysResolve
  BY <1>2, <1>9 DEF Init, KeysResolve
<1>16. /\ row.segments = None /\ row.awaiting = None /\ ~row.transcript
       /\ row.prints.transcribe = None /\ row.prints.merge = None
       /\ store.handoff = None /\ store.transcript = None
       /\ \A q \in Profiles : Stored(q) = None
       /\ DOMAIN tasks = {}
  BY <1>6, <1>7, <1>10 DEF Init, NewRow, Stored
<1>17. Known /\ Rising /\ Asked /\ Merged
  BY <1>9, <1>16 DEF Init, Known, Below, Rising, Asked, Merged
<1> QED BY <1>11, <1>12, <1>13, <1>14, <1>15, <1>17 DEF IInv

\* A step that changes the row's status, counter, task or cursor alone.
LEMMA MovedBeside ==
    ASSUME TypeOK, Keys, NEW status \in {"live", "completed", "stopped"},
           NEW retry \in 0..MaxRetries, NEW awaiting \in Maybe(Waits),
           awaiting = row.awaiting \/ awaiting = None,
           NEW done \in {row.done, {}},
           row' = Moved(row, status, retry, awaiting, done),
           UNCHANGED <<store, crashes>>
    PROVE  Beside /\ Told
<1>1. row \in Row /\ store \in Store /\ crashes \in 0..MaxCrashes
  BY DEF TypeOK
<1>2. done \in SUBSET StageNames
  BY <1>1, RowFields
<1>3. /\ row' \in Row /\ SameAudio(row, row') /\ SameText(row, row')
      /\ row'.done = done /\ row'.prints = row.prints /\ row'.awaiting = awaiting
  <2>1. PICK c : c = Moved(row, status, retry, awaiting, done)
    OBVIOUS
  <2>2. /\ c \in Row /\ SameAudio(row, c) /\ SameText(row, c)
        /\ c.done = done /\ c.prints = row.prints /\ c.awaiting = awaiting
    BY <1>1, <1>2, <2>1, MovedFields
  <2>3. row' = c
    BY <2>1
  <2> QED BY <2>2, <2>3
<1>4. "transcribe" \in row'.done => row'.segments # None
  BY <1>3 DEF Keys, SameText
<1>5. Told
  BY <1>3 DEF Told, SameText
<1> QED BY <1>1, <1>3, <1>4, <1>5 DEF Beside, KeysResolve, SameText

\* The end of the run moves the cursor only.
LEMMA FinalizeBeside ==
    ASSUME TypeOK, Keys, Finalize
    PROVE  Beside /\ Told
<1>1. row \in Row
  BY DEF TypeOK
<1>2. row' = Moved(row, "completed", row.retry, row.awaiting, row.done)
  BY <1>1, RowFields DEF Finalize, Moved
<1>3. row.retry \in 0..MaxRetries /\ row.awaiting \in Maybe(Waits)
  BY <1>1, RowFields
<1>4. UNCHANGED <<store, crashes>>
  BY DEF Finalize
<1>5. PICK status \in {"live", "completed", "stopped"} : status = "completed"
  OBVIOUS
<1> QED BY <1>2, <1>3, <1>4, <1>5, MovedBeside

\* A failed task moves the cursor only.
LEMMA TaskFailedBeside ==
    ASSUME TypeOK, Keys, NEW t, TaskFailed(t)
    PROVE  Beside /\ Told
<1>1. row \in Row /\ None \in Maybe(Waits)
  BY DEF TypeOK, Maybe
<1>2. PICK one : one = [row EXCEPT !.awaiting = None]
  OBVIOUS
<1>3. one = Moved(row, row.status, row.retry, None, row.done)
  BY <1>1, <1>2, RowFields DEF Moved
<1>4. row' = Moved(row, "stopped", row.retry, None, row.done)
  BY <1>2, <1>3 DEF TaskFailed, Stops, Moved
<1>5. row.retry \in 0..MaxRetries
  BY <1>1, RowFields
<1>6. UNCHANGED <<store, crashes>>
  BY DEF TaskFailed
<1>7. PICK status \in {"live", "completed", "stopped"} : status = "stopped"
  OBVIOUS
<1> QED BY <1>1, <1>4, <1>5, <1>6, <1>7, MovedBeside

\* A retry or reprocess moves the cursor only.
LEMMA ReopenBeside ==
    ASSUME TypeOK, Keys, Reopen
    PROVE  Beside /\ Told
<1>1. row \in Row
  BY DEF TypeOK
<1>0. row = [status |-> row.status, retry |-> row.retry, source |-> row.source,
             normalized |-> row.normalized, hash |-> row.hash,
             segments |-> row.segments, transcript |-> row.transcript,
             written |-> row.written, done |-> row.done, prints |-> row.prints,
             awaiting |-> row.awaiting]
  BY <1>1, RowFields
<1>2. PICK status \in {"live", "completed", "stopped"}, retry \in 0..MaxRetries :
        status = "live" /\ retry = 0
  BY StageAssumption
<1>3. row.awaiting \in Maybe(Waits)
  BY <1>1, RowFields
<1>4. UNCHANGED <<store, crashes>>
  BY DEF Reopen
<1>5. \/ row' = [row EXCEPT !.status = status, !.retry = retry]
      \/ row' = [row EXCEPT !.status = status, !.retry = retry, !.done = {}]
  BY <1>2 DEF Reopen
<1>6. CASE row' = [row EXCEPT !.status = status, !.retry = retry]
  <2>1. row' = Moved(row, status, retry, row.awaiting, row.done)
    BY <1>0, <1>6 DEF Moved
  <2> QED BY <1>3, <1>4, <2>1, MovedBeside
<1>7. CASE row' = [row EXCEPT !.status = status, !.retry = retry, !.done = {}]
  <2>1. row' = Moved(row, status, retry, row.awaiting, {})
    BY <1>0, <1>7 DEF Moved
  <2> QED BY <1>3, <1>4, <2>1, MovedBeside
<1> QED BY <1>5, <1>6, <1>7

\* A client's PUT replaces the source object only.
LEMMA PutFileEffect ==
    ASSUME TypeOK, Keys, PutFile
    PROVE  /\ store'.source = uploads + 1
           /\ store'.normalized = store.normalized
           /\ store'.transcript = store.transcript
           /\ store'.handoff = store.handoff
           /\ TypeOK' /\ Keys'
<1>1. /\ row \in Row /\ store \in Store /\ uploads \in Files
      /\ row.source = None /\ uploads < MaxUploads
  BY DEF TypeOK, PutFile
<1>2. /\ uploads + 1 \in Files /\ uploads + 1 # uploads /\ None \notin Files
      /\ uploads \in Nat /\ uploads + 1 \in Maybe(Files)
  BY <1>1, StageAssumption DEF Files, Maybe
<1>3. PICK file \in Maybe(Files) : file = uploads + 1
  BY <1>2
<1>4. store' = [store EXCEPT !.source = file]
  BY <1>3 DEF PutFile
<1>5. /\ store' \in Store /\ store'.source = uploads + 1
      /\ store'.normalized = store.normalized /\ store'.transcript = store.transcript
      /\ store'.handoff = store.handoff
  <2>1. PICK o : o = [store EXCEPT !.source = file]
    OBVIOUS
  <2>2. /\ o \in Store /\ o.source = file /\ o.normalized = store.normalized
        /\ o.transcript = store.transcript /\ o.handoff = store.handoff
    BY <1>1, <2>1, ObjectFields
  <2> QED BY <1>3, <1>4, <2>1, <2>2
<1>6. /\ putting' = TRUE
      /\ UNCHANGED <<row, profile, uploads, tasks, notices, crashes, reopens,
                     printLost, reprofiled>>
  BY DEF PutFile
<1>7. TypeOK'
  BY <1>5, <1>6 DEF TypeOK
<1>8. Keys'
  BY <1>1, <1>2, <1>5, <1>6 DEF Keys
<1> QED BY <1>5, <1>7, <1>8

\* It keeps the invariant: the file counts from finalize on.
LEMMA PutFileKeeps ==
    ASSUME IInv, PutFile
    PROVE  IInv'
<1>1. row \in Row /\ row.source = None /\ TypeOK /\ Keys
  BY DEF IInv, TypeOK, PutFile
<1>5. /\ store'.source = uploads + 1
      /\ store'.normalized = store.normalized /\ store'.transcript = store.transcript
      /\ store'.handoff = store.handoff
      /\ TypeOK' /\ Keys'
  BY <1>1, PutFileEffect
<1>6. /\ putting' = TRUE
      /\ UNCHANGED <<row, profile, uploads, tasks, notices, crashes, reopens,
                     printLost, reprofiled>>
  BY DEF PutFile
<1>9. Audio'
  BY <1>5, <1>6 DEF IInv, Audio, Stored
<1>10. AudioIsKept'
  <2>1. CASE printLost
    BY <1>6, <2>1 DEF AudioIsKept
  <2>2. CASE ~printLost
    <3>1. row.normalized \in Profiles /\ store.normalized[row.normalized] = uploads
      BY <1>1, <2>2, RowFields DEF IInv, Audio, Stored, Maybe
    <3> QED BY <1>5, <1>6, <3>1 DEF AudioIsKept
  <2> QED BY <2>1, <2>2
<1>11. KeysResolve'
  BY <1>1, <1>5, <1>6 DEF IInv, KeysResolve
<1>12. IsStale(row, "convert")' <=> IsStale(row, "convert")
  BY <1>6 DEF IsStale, InputPrint, ConvertPrint
<1>13. Known'
  BY <1>5, <1>6, <1>12 DEF IInv, Known, Below, Stored
<1>14. Rising' /\ Asked' /\ Merged'
  BY <1>5, <1>6 DEF IInv, Rising, Stored, Asked, Merged
<1> QED BY <1>5, <1>9, <1>10, <1>11, <1>13, <1>14 DEF IInv

\* Finalize makes the newest file the source, and forgets nothing else.
LEMMA FinalizeUploadEffect ==
    ASSUME TypeOK, Keys, FinalizeUpload
    PROVE  /\ row.source = None /\ store.source = uploads + 1
           /\ row'.source = uploads + 1 /\ row'.normalized = row.normalized
           /\ row'.hash = row.hash /\ row'.segments = row.segments
           /\ row'.transcript = row.transcript /\ row'.written = row.written
           /\ row'.done = row.done /\ row'.prints = row.prints
           /\ row'.awaiting = row.awaiting
           /\ TypeOK' /\ Keys'
<1>1. /\ row \in Row /\ store \in Store /\ uploads \in Files
      /\ row.source = None /\ store.source = uploads + 1
  BY DEF TypeOK, FinalizeUpload, Keys
<1>2. /\ uploads \in Nat /\ uploads + 1 # uploads /\ uploads + 2 # uploads + 1
      /\ None \notin Nat
  BY <1>1, StageAssumption DEF Files
<1>3. uploads + 1 \in Files /\ uploads + 1 \in Maybe(Files)
  BY <1>1, <1>2, StoreFields DEF Maybe
<1>4. PICK file, status : file = uploads + 1 /\ status = "live"
  OBVIOUS
<1>5. row' = [row EXCEPT !.source = file, !.status = status]
  BY <1>4 DEF FinalizeUpload
<1>6. row' = [status |-> status, retry |-> row.retry, source |-> file,
              normalized |-> row.normalized, hash |-> row.hash,
              segments |-> row.segments, transcript |-> row.transcript,
              written |-> row.written, done |-> row.done, prints |-> row.prints,
              awaiting |-> row.awaiting]
  <2>1. row = [status |-> row.status, retry |-> row.retry, source |-> row.source,
               normalized |-> row.normalized, hash |-> row.hash,
               segments |-> row.segments, transcript |-> row.transcript,
               written |-> row.written, done |-> row.done, prints |-> row.prints,
               awaiting |-> row.awaiting]
    BY <1>1, RowFields
  <2> QED BY <1>5, <2>1
<1>7. row' \in Row
  BY <1>1, <1>3, <1>4, <1>6, RowFields DEF Row
<1>8. /\ row'.source = uploads + 1 /\ row'.normalized = row.normalized
      /\ row'.hash = row.hash /\ row'.segments = row.segments
      /\ row'.transcript = row.transcript /\ row'.written = row.written
      /\ row'.done = row.done /\ row'.prints = row.prints
      /\ row'.awaiting = row.awaiting
  BY <1>4, <1>6
<1>9. /\ uploads' = uploads + 1 /\ putting' = FALSE
      /\ UNCHANGED <<store, profile, tasks, notices, crashes, reopens,
                     printLost, reprofiled>>
  BY DEF FinalizeUpload
<1>10. TypeOK'
  BY <1>3, <1>7, <1>9 DEF TypeOK
<1>11. Keys'
  BY <1>1, <1>2, <1>8, <1>9 DEF Keys
<1> QED BY <1>1, <1>8, <1>10, <1>11

\* It keeps the invariant: older audio is now old audio.
LEMMA FinalizeUploadKeeps ==
    ASSUME IInv, FinalizeUpload
    PROVE  IInv'
<1>1. /\ row \in Row /\ uploads \in Files /\ TypeOK /\ Keys
      /\ row.source = None /\ store.source = uploads + 1
  BY DEF IInv, TypeOK, FinalizeUpload, Keys
<1>2. /\ uploads \in Nat /\ uploads + 1 # uploads /\ uploads + 2 # uploads + 1
      /\ None \notin Nat
  BY <1>1, StageAssumption DEF Files
<1>8. /\ row'.source = uploads + 1 /\ row'.normalized = row.normalized
      /\ row'.hash = row.hash /\ row'.segments = row.segments
      /\ row'.transcript = row.transcript /\ row'.written = row.written
      /\ row'.done = row.done /\ row'.prints = row.prints
      /\ row'.awaiting = row.awaiting
      /\ TypeOK' /\ Keys'
  BY <1>1, FinalizeUploadEffect
<1>9. /\ uploads' = uploads + 1 /\ putting' = FALSE
      /\ UNCHANGED <<store, profile, tasks, notices, crashes, reopens,
                     printLost, reprofiled>>
  BY DEF FinalizeUpload
<1>12. Audio'
  BY <1>1, <1>2, <1>8, <1>9 DEF IInv, Audio, Stored
<1>13. AudioIsKept'
  BY <1>1, <1>9 DEF AudioIsKept
<1>14. KeysResolve'
  BY <1>1, <1>8, <1>9 DEF IInv, KeysResolve
<1>15. Known'
  <2>1. /\ TypeOK /\ Below(uploads) /\ uploads \in Nat
        /\ row.hash # None => row.hash.file <= uploads /\ row.hash.file \in Nat
    BY <1>1, <1>2, Numbers DEF IInv, Known
  <2>2. \A t \in DOMAIN tasks :
          /\ tasks[t].hash.file \in Nat
          /\ tasks[t].wrote # None => tasks[t].wrote \in Nat
    <3>1. \A t \in DOMAIN tasks : tasks[t] \in Task
      BY <2>1, TasksFields
    <3> QED BY <3>1 DEF Task, Hashes, Files, Maybe
  <2>3. Below(uploads + 1)
    <3>1. \A x \in Nat : x <= uploads => x <= uploads + 1
      BY <2>1
    <3>2. /\ row.segments # None => row.segments \in Nat
          /\ store.handoff # None => store.handoff \in Nat
          /\ \A q \in Profiles : Stored(q) # None => Stored(q) \in Nat
      BY <2>1, Numbers
    <3> QED BY <2>1, <2>2, <3>1, <3>2 DEF Below
  <2>4. Below(uploads)'
    BY <1>8, <1>9, <2>3 DEF Below, Stored
  <2>5. row'.hash # None => row'.hash.file <= uploads + 1
    BY <1>8, <2>1
  <2>6. printLost => row.hash # None /\ Below(row.hash.file)'
    <3>1. ~IsStale(row, "convert")
      BY <1>1 DEF IsStale, InputPrint, ConvertPrint
    <3> QED BY <1>8, <1>9, <3>1 DEF IInv, Known, Below, Stored
  <2> QED BY <1>8, <1>9, <2>4, <2>5, <2>6 DEF IInv, Known
<1>16. Rising' /\ Asked' /\ Merged'
  BY <1>8, <1>9 DEF IInv, Rising, Stored, Asked, Merged
<1> QED BY <1>8, <1>12, <1>13, <1>14, <1>15, <1>16 DEF IInv

\* What the provider heard lies in the postbox, and its task says so.
Wrote(t, file) ==
    /\ file \in Heard(t) /\ file \in Maybe(Files)
    /\ store'.source = store.source /\ store'.normalized = store.normalized
    /\ store'.transcript = store.transcript /\ store'.handoff = file
    /\ tasks' = [tasks EXCEPT ![t].wrote = file]

\* The provider writes the hand-off of what lies at the key, and nothing else.
LEMMA ProviderWritesBeside ==
    ASSUME TypeOK, Keys, NEW t, ProviderWrites(t)
    PROVE  /\ Beside
           /\ tasks' \in Seq(Task) /\ Len(tasks') = Len(tasks)
           /\ \E file : Wrote(t, file)
<1>1. /\ row \in Row /\ store \in Store /\ crashes \in 0..MaxCrashes
      /\ tasks \in Seq(Task) /\ t \in DOMAIN tasks /\ tasks[t] \in Task
  BY TasksFields DEF TypeOK, ProviderWrites
<1>2. PICK file \in Heard(t) :
        /\ store' = [store EXCEPT !.handoff = file]
        /\ tasks' = [tasks EXCEPT ![t].wrote = file]
  BY DEF ProviderWrites
<1>3. file \in Maybe(Files)
  <2>1. tasks[t].hash.file \in Files /\ tasks[t].hash.profile \in Profiles
    BY <1>1 DEF Task, Hashes
  <2>2. store.normalized[tasks[t].hash.profile] \in Maybe(Files)
    BY <1>1, <2>1, StoreFields
  <2> QED BY <1>2, <2>1, <2>2 DEF Heard, Maybe
<1>4. /\ store' \in Store /\ store'.source = store.source
      /\ store'.normalized = store.normalized /\ store'.transcript = store.transcript
      /\ store'.handoff = file
  <2>1. PICK o : o = [store EXCEPT !.handoff = file]
    OBVIOUS
  <2>2. /\ o \in Store /\ o.source = store.source
        /\ o.normalized = store.normalized /\ o.transcript = store.transcript
        /\ o.handoff = file
    BY <1>1, <1>3, <2>1, ObjectFields
  <2> QED BY <1>2, <2>1, <2>2
<1>5. row' = row /\ crashes' = crashes
  BY DEF ProviderWrites
<1>6. tasks' \in Seq(Task) /\ Len(tasks') = Len(tasks)
  <2>1. PICK new : new = [tasks[t] EXCEPT !.wrote = file]
    OBVIOUS
  <2>2. new \in Task
    BY <1>1, <1>3, <2>1 DEF Task
  <2>3. tasks' = [tasks EXCEPT ![t] = new]
    BY <1>1, <1>2, <2>1
  <2>4. t \in 1..Len(tasks)
    BY <1>1, TasksFields
  <2> QED BY <1>1, <2>2, <2>3, <2>4, ExceptSeq
<1>7. Beside
  BY <1>1, <1>4, <1>5 DEF Beside, Keys, KeysResolve, SameAudio
<1>8. Wrote(t, file)
  BY <1>2, <1>3, <1>4 DEF Wrote
<1> QED BY <1>6, <1>7, <1>8

\* What it heard is no older than what its task was asked for.
LEMMA ProviderWritesKeeps ==
    ASSUME IInv, NEW t, ProviderWrites(t)
    PROVE  Known' /\ Rising' /\ Asked' /\ Merged'
<1>1. /\ TypeOK /\ Keys /\ row \in Row /\ store \in Store
      /\ tasks \in Seq(Task) /\ t \in DOMAIN tasks /\ tasks[t] \in Task
  BY TasksFields DEF IInv, TypeOK, ProviderWrites
<1>2. PICK file : Wrote(t, file)
  BY <1>1, ProviderWritesBeside
<1>3. file \in Maybe(Files) /\ file \in Heard(t)
  BY <1>2 DEF Wrote
<1>4. /\ store'.source = store.source
      /\ store'.normalized = store.normalized /\ store'.transcript = store.transcript
      /\ store'.handoff = file
  BY <1>2 DEF Wrote
<1>5. tasks' = [tasks EXCEPT ![t].wrote = file]
  BY <1>2 DEF Wrote
<1>6. tasks' \in Seq(Task) /\ Len(tasks') = Len(tasks)
  BY <1>1, ProviderWritesBeside
<1>8. UNCHANGED <<row, profile, uploads, printLost, reprofiled>>
  BY DEF ProviderWrites, worldVars
<1>9. /\ DOMAIN tasks' = DOMAIN tasks
      /\ \A k \in DOMAIN tasks :
           /\ tasks'[k].hash = tasks[k].hash
           /\ \/ tasks'[k].wrote = tasks[k].wrote
              \/ k = t /\ tasks'[k].wrote = file
  <2>1. \A k \in DOMAIN tasks : tasks[k] \in Task
    BY <1>1, TasksFields
  <2>2. DOMAIN tasks' = DOMAIN tasks
    BY <1>1, <1>6
  <2>3. PICK new : new = [tasks[t] EXCEPT !.wrote = file]
    OBVIOUS
  <2>4. new.hash = tasks[t].hash /\ new.wrote = file
    BY <1>1, <2>3 DEF Task
  <2>5. tasks' = [tasks EXCEPT ![t] = new]
    BY <1>1, <1>5, <2>3
  <2>6. \A k \in DOMAIN tasks : tasks'[k] = IF k = t THEN new ELSE tasks[k]
    BY <1>1, <2>5
  <2> QED BY <2>2, <2>4, <2>6
<1>10. file # None /\ (file = tasks[t].hash.file \/ file = Stored(tasks[t].hash.profile))
  BY <1>3 DEF Heard, Stored
<1>11. tasks[t].hash.profile \in Profiles /\ tasks[t].hash.file \in Nat
  BY <1>1 DEF Task, Hashes, Files
<1>12. ASSUME NEW n, Below(n)
       PROVE  Below(n)'
  <2>1. file <= n
    BY <1>1, <1>10, <1>11, <1>12 DEF Below
  <2> QED BY <1>4, <1>8, <1>9, <1>12, <2>1 DEF Below, Stored
<1>13. IsStale(row, "convert")' <=> IsStale(row, "convert")
  BY <1>8 DEF IsStale, InputPrint, ConvertPrint
<1>14. Known'
  <2>1. Below(uploads)'
    <3>1. PICK n : n = uploads
      OBVIOUS
    <3>2. Below(n)'
      BY <1>12, <3>1 DEF IInv, Known
    <3> QED BY <1>8, <3>1, <3>2 DEF Below, Stored
  <2>2. Below(row.hash.file) => Below(row.hash.file)'
    <3>1. PICK n : n = row.hash.file
      OBVIOUS
    <3>2. Below(n) => Below(n)'
      BY <1>12
    <3> QED BY <1>8, <3>1, <3>2 DEF Below, Stored
  <2> QED BY <1>8, <1>13, <2>1, <2>2 DEF IInv, Known
<1>15. Rising'
  <2>1. tasks[t].hash.file <= file
    BY <1>1, <1>10, <1>11 DEF IInv, Rising
  <2> QED BY <1>4, <1>8, <1>9, <2>1 DEF IInv, Rising, Stored
<1>16. Asked'
  BY <1>8, <1>9 DEF IInv, Asked
<1>17. Merged'
  BY <1>4, <1>8 DEF IInv, Merged
<1> QED BY <1>14, <1>15, <1>16, <1>17

\* A task that ends changes its own record.
LEMMA TaskEndsBeside ==
    ASSUME TypeOK, Keys, NEW t, TaskEnds(t)
    PROVE  /\ Beside /\ Told /\ Tasks
           /\ tasks' \in Seq(Task) /\ Len(tasks') = Len(tasks)
           /\ t \in DOMAIN tasks
<1>1. /\ row \in Row /\ store \in Store /\ crashes \in 0..MaxCrashes
      /\ tasks \in Seq(Task) /\ t \in DOMAIN tasks /\ tasks[t] \in Task
  BY TasksFields DEF TypeOK, TaskEnds
<1>2. PICK state \in {"ok", "refused", "failed"} :
        tasks' = [tasks EXCEPT ![t].state = state]
  BY DEF TaskEnds
<1>3. UNCHANGED <<row, store, crashes>>
  BY DEF TaskEnds
<1>4. tasks' \in Seq(Task) /\ Len(tasks') = Len(tasks)
  <2>1. PICK new : new = [tasks[t] EXCEPT !.state = state]
    OBVIOUS
  <2>2. new \in Task
    BY <1>1, <1>2, <2>1 DEF Task
  <2>3. tasks' = [tasks EXCEPT ![t] = new]
    BY <1>1, <1>2, <2>1
  <2>4. t \in 1..Len(tasks)
    BY <1>1, TasksFields
  <2> QED BY <1>1, <2>2, <2>3, <2>4, ExceptSeq
<1>5. Beside
  BY <1>1, <1>3 DEF Beside, Keys, KeysResolve, SameAudio
<1>6. Told /\ Tasks
  <2>1. DOMAIN tasks' = DOMAIN tasks
    BY <1>1, <1>4
  <2>2. \A k \in DOMAIN tasks :
          tasks'[k].hash = tasks[k].hash /\ tasks'[k].wrote = tasks[k].wrote
    <3>1. \A k \in DOMAIN tasks : tasks[k] \in Task
      BY <1>1, TasksFields
    <3> QED BY <1>1, <1>2, <3>1 DEF Task
  <2> QED BY <1>3, <2>1, <2>2 DEF Told, Tasks
<1> QED BY <1>1, <1>4, <1>5, <1>6

\* A change of profile keeps the types and the keys.
LEMMA ChangeProfileTypes ==
    ASSUME TypeOK, Keys, ChangeProfile
    PROVE  TypeOK' /\ Keys'
<1>1. UNCHANGED <<row, store, uploads, putting, tasks, notices, crashes,
                  reopens, printLost>>
  BY DEF ChangeProfile
<1>2. profile' \in Profiles /\ reprofiled' = TRUE
  BY DEF ChangeProfile
<1>3. TypeOK'
  BY <1>1, <1>2 DEF TypeOK
<1>4. Keys'
  BY <1>1 DEF Keys
<1> QED BY <1>3, <1>4

\* Another profile makes convert's audio stale or leaves it current.
LEMMA ChangeProfileKeeps ==
    ASSUME IInv, ChangeProfile
    PROVE  IInv'
<1>1. UNCHANGED <<row, store, uploads, putting, tasks, notices, crashes,
                  reopens, printLost>>
  BY DEF ChangeProfile
<1>2. profile \in Profiles /\ profile' \in Profiles /\ ~reprofiled /\ reprofiled'
  BY DEF ChangeProfile, IInv, TypeOK
<1>3. TypeOK' /\ Keys'
  BY ChangeProfileTypes DEF IInv
<1>4. KeysResolve'
  BY <1>1 DEF IInv, KeysResolve
<1>5. Audio' /\ AudioIsKept'
  BY <1>1 DEF IInv, Audio, Stored, AudioIsKept
<1>6. IsStale(row, "convert") => IsStale(row, "convert")'
  <2>1. HAVE IsStale(row, "convert")
  <2>2. /\ row.prints.convert # None /\ row.source # None
        /\ row.prints.convert # [file |-> row.source, profile |-> profile]
    BY <2>1 DEF IsStale, InputPrint, ConvertPrint
  <2>3. row.prints.convert \in Hashes /\ row.prints.convert.profile = profile
    <3>1. row.prints.convert \in Maybe(Hashes)
      BY RowFields, PrintsFields DEF IInv, TypeOK
    <3> QED BY <1>2, <2>2, <3>1 DEF IInv, Known, Maybe
  <2>4. row.prints.convert.file # row.source
    BY <2>2, <2>3 DEF Hashes
  <2>5. [file |-> row.source, profile |-> profile'] \in Hashes
    BY <1>2, <2>2, RowFields DEF IInv, TypeOK, Hashes, Maybe
  <2>6. row.prints.convert # [file |-> row.source, profile |-> profile']
    BY <2>4
  <2> QED BY <1>1, <2>2, <2>5, <2>6, NoneIsNoRecord DEF IsStale, InputPrint, ConvertPrint
<1>7. Known'
  <2>1. ASSUME NEW n, Below(n)
        PROVE  Below(n)'
    BY <1>1, <2>1 DEF Below, Stored
  <2>2. PICK n : n = row.hash.file
    OBVIOUS
  <2>3. Below(uploads)'
    BY <1>1, <2>1 DEF IInv, Known, Below, Stored
  <2>4. Below(n) => Below(row.hash.file)'
    BY <1>1, <2>2 DEF Below, Stored
  <2> QED BY <1>1, <1>2, <1>6, <2>2, <2>3, <2>4 DEF IInv, Known
<1>8. Rising' /\ Asked' /\ Merged'
  BY <1>1 DEF IInv, Rising, Asked, Merged, Stored
<1> QED BY <1>3, <1>4, <1>5, <1>7, <1>8 DEF IInv

\* A step that leaves the audio alone, and its types.
Elsewhere ==
    /\ Beside /\ UNCHANGED <<profile, uploads, putting, printLost, reprofiled>>
    /\ tasks' \in Seq(Task) /\ Len(tasks') <= MaxTasks
    /\ notices' \subseteq DOMAIN tasks' /\ reopens' \in 0..MaxReopens

\* The kinds of steps there are.
LEMMA StepKinds ==
    ASSUME TypeOK, Keys, [Next]_vars
    PROVE  \/ ConvertStage \/ PutFile \/ FinalizeUpload \/ ChangeProfile
           \/ /\ Elsewhere
              /\ \/ Told /\ Tasks
                 \/ MergeStage
                 \/ \E t \in 1..MaxTasks : ProviderWrites(t)
<1>1. /\ TypeOK /\ Keys
      /\ row \in Row /\ store \in Store /\ crashes \in 0..MaxCrashes
      /\ tasks \in Seq(Task) /\ Len(tasks) <= MaxTasks
      /\ notices \subseteq DOMAIN tasks
  BY DEF TypeOK
<1>3. ASSUME NEW t \in notices, Notify(t)
      PROVE  notices' \subseteq DOMAIN tasks
  BY <1>1, <1>3 DEF Notify
<1>4. reopens \in 0..MaxReopens
  BY DEF TypeOK
<1>5. UNCHANGED tasks => Tasks
  BY DEF Tasks
<1>7. CASE TranscribeStage
  <2>1. Answered /\ tasks' \in Seq(Task) /\ Len(tasks') <= MaxTasks
    BY <1>1, <1>7, TranscribeEffect
  <2>2. Beside /\ Told
    BY <1>1, <2>1, AnsweredBeside, AnsweredTold
  <2>3. Tasks /\ DOMAIN tasks \subseteq DOMAIN tasks'
    <3>1. CASE tasks' = tasks
      BY <1>5, <3>1
    <3>2. CASE /\ row.hash \in Hashes
               /\ tasks' = Append(tasks, [hash |-> row.hash, state |-> "running",
                                          wrote |-> None])
      <4>1. PICK one : one = [hash |-> row.hash, state |-> "running", wrote |-> None]
        OBVIOUS
      <4>2. one.hash = row.hash /\ one.wrote = None /\ row.hash # None
        BY <3>2, <4>1, NoneIsNoRecord
      <4>3. DOMAIN tasks = 1..Len(tasks) /\ Len(tasks) \in Nat
        BY <1>1
      <4>4. /\ DOMAIN tasks' = 1..(Len(tasks) + 1)
            /\ \A i \in 1..Len(tasks) : tasks'[i] = tasks[i]
            /\ tasks'[Len(tasks) + 1] = one
        <5>1. tasks' = Append(tasks, one)
          BY <3>2, <4>1
        <5> QED BY <1>1, <2>1, <4>3, <5>1
      <4>5. ASSUME NEW i \in DOMAIN tasks
            PROVE  i \in DOMAIN tasks' /\ tasks'[i] = tasks[i]
        BY <4>3, <4>4
      <4>6. ASSUME NEW i \in DOMAIN tasks' \ DOMAIN tasks
            PROVE  tasks'[i] = one
        <5>1. i = Len(tasks) + 1
          BY <4>3, <4>4
        <5>2. tasks'[Len(tasks) + 1] = one
          BY <4>4
        <5> QED BY ONLY <5>1, <5>2
      <4> QED BY <4>2, <4>5, <4>6 DEF Tasks
    <3> QED BY <1>1, <1>7, <3>1, <3>2, TranscribeEffect
  <2>4. UNCHANGED <<worldVars, notices>>
    BY <1>7 DEF TranscribeStage
  <2> QED BY <1>1, <1>4, <2>1, <2>2, <2>3, <2>4 DEF worldVars, Elsewhere
<1>8. CASE MergeStage
  <2>1. Beside
    BY <1>1, <1>8, MergeEffect
  <2>2. UNCHANGED <<worldVars, tasks, notices>>
    BY <1>8 DEF MergeStage
  <2> QED BY <1>1, <1>4, <1>8, <2>1, <2>2 DEF worldVars, Elsewhere
<1>9. CASE Finalize
  <2>1. Beside /\ Told
    BY <1>1, <1>9, FinalizeBeside
  <2>2. UNCHANGED <<worldVars, tasks, notices>>
    BY <1>9 DEF Finalize
  <2> QED BY <1>1, <1>4, <1>5, <2>1, <2>2 DEF worldVars, Elsewhere
<1>10. ASSUME NEW t \in notices, Resume(t)
       PROVE  Elsewhere /\ Told /\ Tasks
  <2>1. Beside /\ Told
    BY <1>1, <1>10, ResumeEffect, AnsweredBeside, AnsweredTold
  <2>2. UNCHANGED <<worldVars, tasks>> /\ Notify(t)
    BY <1>10 DEF Resume
  <2> QED BY <1>1, <1>3, <1>4, <1>5, <2>1, <2>2 DEF worldVars, Elsewhere
<1>11. ASSUME NEW t \in notices, TaskFailed(t)
       PROVE  Elsewhere /\ Told /\ Tasks
  <2>1. Beside /\ Told
    BY <1>1, <1>11, TaskFailedBeside
  <2>2. UNCHANGED <<worldVars, tasks>> /\ Notify(t)
    BY <1>11 DEF TaskFailed
  <2> QED BY <1>1, <1>3, <1>4, <1>5, <2>1, <2>2 DEF worldVars, Elsewhere
<1>12. ASSUME NEW t \in notices, IgnoreNotice(t)
       PROVE  Elsewhere /\ Told /\ Tasks
  <2>1. UNCHANGED <<worldVars, row, store, tasks, crashes>> /\ Notify(t)
    BY <1>12 DEF IgnoreNotice
  <2>2. Beside /\ Told
    BY <1>1, <2>1 DEF Beside, Told, Keys, KeysResolve, SameAudio
  <2> QED BY <1>1, <1>3, <1>4, <1>5, <2>1, <2>2 DEF worldVars, Elsewhere
<1>13. CASE Reopen
  <2>1. Beside /\ Told
    BY <1>1, <1>13, ReopenBeside
  <2>2. /\ UNCHANGED <<store, profile, uploads, putting, tasks, notices, crashes,
                       printLost, reprofiled>>
        /\ reopens' \in 0..MaxReopens
    BY <1>4, <1>13, StageAssumption DEF Reopen
  <2> QED BY <1>1, <1>5, <2>1, <2>2 DEF Elsewhere
<1>17. ASSUME NEW t \in 1..MaxTasks, ProviderWrites(t)
       PROVE  Elsewhere
  <2>1. Beside /\ tasks' \in Seq(Task) /\ Len(tasks') = Len(tasks)
    BY <1>1, <1>17, ProviderWritesBeside
  <2>2. UNCHANGED <<worldVars, notices>>
    BY <1>17 DEF ProviderWrites
  <2>3. DOMAIN tasks' = DOMAIN tasks
    BY <1>1, <2>1
  <2> QED BY <1>1, <1>4, <2>1, <2>2, <2>3 DEF worldVars, Elsewhere
<1>18. ASSUME NEW t \in 1..MaxTasks, TaskEnds(t)
       PROVE  Elsewhere /\ Told /\ Tasks
  <2>1. /\ Beside /\ Told /\ Tasks
        /\ tasks' \in Seq(Task) /\ Len(tasks') = Len(tasks)
        /\ t \in DOMAIN tasks
    BY <1>1, <1>18, TaskEndsBeside
  <2>2. UNCHANGED worldVars /\ notices' = notices \cup {t}
    BY <1>18 DEF TaskEnds
  <2>3. DOMAIN tasks' = DOMAIN tasks
    BY <1>1, <2>1
  <2> QED BY <1>1, <1>4, <2>1, <2>2, <2>3 DEF worldVars, Elsewhere
<1>19. CASE UNCHANGED vars
  <2>1. Beside /\ Told /\ Tasks
    BY <1>1, <1>19 DEF vars, Beside, Told, Tasks, Keys, KeysResolve, SameAudio
  <2> QED BY <1>1, <1>4, <1>19, <2>1 DEF vars, Elsewhere
<1> QED BY <1>7, <1>8, <1>9, <1>10, <1>11, <1>12, <1>13, <1>17, <1>18, <1>19
        DEF Next, Workers, Requests, Providers

\* Types and keys are inductive by themselves, which is what erasure needs.
LEMMA StepTypes ==
    ASSUME TypeOK, Keys, [Next]_vars
    PROVE  TypeOK' /\ Keys'
<1>1. CASE Elsewhere
  <2>1. TypeOK'
    BY <1>1 DEF TypeOK, Elsewhere, Beside
  <2>2. Keys'
    BY <1>1 DEF Keys, Elsewhere, Beside, SameAudio
  <2> QED BY <2>1, <2>2
<1> QED BY <1>1, StepKinds, ConvertTypes, PutFileEffect, FinalizeUploadEffect,
           ChangeProfileTypes

\* Every step keeps the whole invariant.
LEMMA StepKeeps == IInv /\ [Next]_vars => IInv'
<1> SUFFICES ASSUME IInv, [Next]_vars PROVE IInv'
  OBVIOUS
<1>1. TypeOK /\ Keys
  BY DEF IInv
<1>2. TypeOK' /\ Keys'
  BY <1>1, StepTypes
<1>3. CASE ConvertStage
  BY <1>3, ConvertKeeps, ConvertTexts DEF IInv
<1>4. CASE PutFile \/ FinalizeUpload \/ ChangeProfile
  BY <1>4, PutFileKeeps, FinalizeUploadKeeps, ChangeProfileKeeps
<1>5. ASSUME Elsewhere,
             \/ Told /\ Tasks
             \/ MergeStage
             \/ \E t \in 1..MaxTasks : ProviderWrites(t)
      PROVE  IInv'
  <2>1. Beside /\ UNCHANGED <<profile, uploads, putting, printLost, reprofiled>>
    BY <1>5 DEF Elsewhere
  <2>2. Audio' /\ AudioIsKept' /\ KeysResolve'
    BY <2>1, BesideKeeps
  <2>3. Known' /\ Rising' /\ Asked' /\ Merged'
    BY <1>5, <2>1, ToldKeeps, MergeKeeps, ProviderWritesKeeps
  <2> QED BY <1>2, <2>2, <2>3 DEF IInv
<1> QED BY <1>1, <1>3, <1>4, <1>5, StepKinds

-----------------------------------------------------------------------------
(* What a step does to the status and to the postbox *)

\* Stages leave the status or stop.
Onward(r) == r.status \in {row.status, "stopped"}

\* The postbox keeps what it holds, or the row has it, or stops, or its
\* worker died.
Collected ==
    \/ store'.handoff = store.handoff
    \/ row'.segments = store.handoff
    \/ row'.status = "stopped"
    \/ crashes' > crashes

\* Onward: a step leaves the status or stops the recording.  Moves of the cursor do.
LEMMA OnwardMoves ==
    ASSUME NEW r \in Row, Onward(r), NEW s, NEW print
    PROVE  /\ Onward(Retries(r)) /\ Onward(Stops(r)) /\ Stops(r).status = "stopped"
           /\ Onward(Completes(r, s, print))
           /\ Completes(r, s, print).segments = r.segments
<1>1. r = [status |-> r.status, retry |-> r.retry, source |-> r.source,
           normalized |-> r.normalized, hash |-> r.hash,
           segments |-> r.segments, transcript |-> r.transcript,
           written |-> r.written, done |-> r.done, prints |-> r.prints,
           awaiting |-> r.awaiting]
  BY RowFields
<1>2. Stops(r).status = "stopped"
  BY <1>1 DEF Stops
<1>3. Onward(Retries(r))
  <2>1. Retries(r) = Stops(r) \/ Retries(r) = [r EXCEPT !.retry = r.retry + 1]
    BY <1>1 DEF Retries
  <2>2. [r EXCEPT !.retry = r.retry + 1].status = r.status
    BY <1>1
  <2> QED BY <1>2, <2>1, <2>2 DEF Onward
<1>4. /\ Completes(r, s, print).status = r.status
      /\ Completes(r, s, print).segments = r.segments
  <2>1. PICK p, done, c : /\ p = [r.prints EXCEPT ![s] = print] /\ done = r.done \cup {s}
                          /\ c = Completes(r, s, print)
    OBVIOUS
  <2>2. c = [r EXCEPT !.retry = 0, !.done = done, !.prints = p]
    BY <1>1, <2>1 DEF Completes
  <2>3. c.status = r.status /\ c.segments = r.segments
    BY <1>1, <2>2
  <2> QED BY <2>1, <2>3
<1> QED BY <1>2, <1>3, <1>4 DEF Onward

\* So does the commit of such a row, whether it happens or is lost.
LEMMA OnwardCommits ==
    ASSUME NEW r, Onward(r), NEW o, Commits(r, o)
    PROVE  Onward(row')
    BY DEF Commits, Onward

\* So does the start of a stage.
LEMMA OnwardBegun ==
    ASSUME NEW i, row \in Row
    PROVE  Begun(i) \in Row /\ Onward(Begun(i))
<1>1. Begun(i) \in Row
  BY BegunFields
<1>2. CASE Stages[i] \in row.done
  <2>1. PICK done : done = row.done \ {Stages[j] : j \in i..Len(Stages)}
    OBVIOUS
  <2>2. Begun(i) = [row EXCEPT !.done = done]
    BY <1>2, <2>1 DEF Begun
  <2>3. Begun(i).status = row.status
    BY <2>2, RowFields
  <2> QED BY <1>1, <2>3 DEF Onward
<1>3. CASE Stages[i] \notin row.done
  BY <1>1, <1>3 DEF Begun, Onward
<1> QED BY <1>2, <1>3

\* So does a purge of the source.
LEMMA PurgeOnward ==
    ASSUME NEW r \in Row, NEW print, NEW o, Onward(r), Purges(r, print, o)
    PROVE  Onward(row')
<1>1. PICK bare : bare = [r EXCEPT !.source = None]
  OBVIOUS
<1>2. bare \in Row /\ Onward(bare)
  BY <1>1, SourceFields DEF Onward
<1>3. PICK s, done, kept : /\ s = "convert"
                           /\ done = Completes(bare, s, print)
                           /\ kept = Completes(r, s, print)
  OBVIOUS
<1>4. Onward(done) /\ Onward(kept) /\ Onward(Retries(r))
  BY <1>2, <1>3, OnwardMoves
<1>5. \/ \E objects : Commits(done, objects)
      \/ \E objects : Commits(kept, objects)
      \/ \E objects : Commits(Retries(r), objects)
  BY <1>1, <1>3 DEF Purges
<1> QED BY <1>4, <1>5, OnwardCommits

\* So does convert.
LEMMA ConvertOnward ==
    ASSUME TypeOK, ConvertStage
    PROVE  Onward(row')
<1>1. PICK r : r = Begun(1)
  OBVIOUS
<1>2. row \in Row /\ r \in Row /\ Onward(r)
  BY <1>1, OnwardBegun DEF TypeOK
<1>3. Onward(Retries(r)) /\ Onward(Stops(r))
  BY <1>2, OnwardMoves
<1>4. ASSUME store.source # None
      PROVE  LET q == [r EXCEPT !.normalized = profile,
                                !.hash = [file |-> store.source, profile |-> profile]]
             IN  q \in Row /\ Onward(q)
  <2>1. PICK p, h : p = profile /\ h = [file |-> store.source, profile |-> profile]
    OBVIOUS
  <2>2. p \in Profiles /\ h \in Hashes
    BY <1>4, <2>1, StoreFields DEF TypeOK, Hashes, Maybe
  <2>3. LET q == Converted(r, p, h) IN q \in Row /\ q.status = r.status
    BY <1>2, <2>2, ConvertedFields
  <2> QED BY <1>2, <2>1, <2>3 DEF Converted, Onward
<1>5. CASE \E print, o : Purges(r, print, o)
  BY <1>2, <1>5, PurgeOnward
<1>6. CASE /\ store.source # None
           /\ \E print, o : Purges([r EXCEPT !.normalized = profile,
                                             !.hash = [file |-> store.source,
                                                       profile |-> profile]],
                                   print, o)
  <2>1. PICK q : q = [r EXCEPT !.normalized = profile,
                               !.hash = [file |-> store.source, profile |-> profile]]
    OBVIOUS
  <2>2. q \in Row /\ Onward(q)
    BY <1>4, <1>6, <2>1
  <2>3. \E print, o : Purges(q, print, o)
    BY <1>6, <2>1
  <2> QED BY <2>2, <2>3, PurgeOnward
<1>7. CASE Commits(Stops(r), store) \/ Commits(Retries(r), store)
  BY <1>3, <1>7, OnwardCommits
<1> QED BY <1>1, <1>5, <1>6, <1>7 DEF ConvertStage

\* A transcript persisted is the text from then on, and moves no status.
LEMMA PersistsOnward ==
    ASSUME NEW r \in Row, NEW file, NEW print
    PROVE  LET c == Persists(r, file, print)
           IN  c.status = r.status /\ c.segments = file
<1>1. PICK q, c, s : /\ q = [r EXCEPT !.segments = file] /\ s = "transcribe"
                     /\ c = Completes(q, s, print)
  OBVIOUS
<1>2. q = [status |-> r.status, retry |-> r.retry, source |-> r.source,
           normalized |-> r.normalized, hash |-> r.hash,
           segments |-> file, transcript |-> r.transcript,
           written |-> r.written, done |-> r.done, prints |-> r.prints,
           awaiting |-> r.awaiting]
  <2>1. r = [status |-> r.status, retry |-> r.retry, source |-> r.source,
             normalized |-> r.normalized, hash |-> r.hash,
             segments |-> r.segments, transcript |-> r.transcript,
             written |-> r.written, done |-> r.done, prints |-> r.prints,
             awaiting |-> r.awaiting]
    BY RowFields
  <2> QED BY <1>1, <2>1
<1>3. PICK p, done : p = [q.prints EXCEPT ![s] = print] /\ done = q.done \cup {s}
  OBVIOUS
<1>4. c = [q EXCEPT !.retry = 0, !.done = done, !.prints = p]
  BY <1>1, <1>2, <1>3 DEF Completes
<1>5. c.status = r.status /\ c.segments = file
  BY <1>2, <1>4
<1> QED BY <1>1, <1>5 DEF Persists

\* What an answer is accepted as.
LEMMA AcceptsOnward ==
    ASSUME NEW r \in Row, NEW file, NEW print, Onward(r), crashes \in Nat,
           file = store.handoff, Accepts(r, file, print)
    PROVE  Onward(row') /\ Collected
<1>1. PICK c : c = Persists(r, file, print)
  OBVIOUS
<1>2. c = Persists(r, file, print)
  BY <1>1
<1>3. c.status = r.status /\ c.segments = file
  BY <1>1, PersistsOnward
<1>4. Onward(Retries(r)) /\ Onward(Stops(r)) /\ Stops(r).status = "stopped"
  BY OnwardMoves
<1>5. CASE \E objects : Commits(c, objects)
  <2>1. Onward(row')
    BY <1>3, <1>5, OnwardCommits DEF Onward
  <2>2. Collected
    BY <1>3, <1>5 DEF Commits, Collected
  <2> QED BY <2>1, <2>2
<1>6. CASE \E objects : Commits(Stops(r), objects)
  <2>1. Onward(row')
    BY <1>4, <1>6, OnwardCommits
  <2>2. Collected
    BY <1>4, <1>6 DEF Commits, Collected
  <2> QED BY <2>1, <2>2
<1>7. CASE Commits(Retries(r), store)
  <2>1. Onward(row')
    BY <1>4, <1>7, OnwardCommits
  <2>2. Collected
    BY <1>7 DEF Commits, Collected
  <2> QED BY <2>1, <2>2
<1> QED BY <1>2, <1>5, <1>6, <1>7 DEF Accepts

\* A commit that leaves storage alone.
LEMMA OnwardIdle ==
    ASSUME NEW r, Onward(r), Commits(r, store)
    PROVE  Onward(row') /\ Collected
    BY OnwardCommits DEF Commits, Collected

\* transcribe discards a hand-off with its text in the row, a stop or a crash.
LEMMA TranscribeOnward ==
    ASSUME TypeOK, TranscribeStage
    PROVE  Onward(row') /\ Collected
<1>1. PICK r : r = Begun(2)
  OBVIOUS
<1>2. row \in Row /\ r \in Row /\ Onward(r) /\ crashes \in Nat
  BY <1>1, OnwardBegun DEF TypeOK
<1>3. CASE Commits(Completes(r, "transcribe", r.hash), store)
  <2>1. PICK s, print, c : /\ s = "transcribe" /\ print = r.hash
                           /\ c = Completes(r, s, print)
    OBVIOUS
  <2>2. Onward(c)
    BY <1>2, <2>1, OnwardMoves
  <2>3. Commits(c, store)
    BY <1>3, <2>1
  <2> QED BY <2>2, <2>3, OnwardIdle
<1>4. CASE CopiesDuplicate(r)
  <2>1. PICK c : c = Persists(r, r.hash.file, r.hash)
    OBVIOUS
  <2>2. Onward(c)
    BY <1>2, <2>1, PersistsOnward DEF Onward
  <2> QED BY <1>4, <2>1, <2>2, OnwardIdle DEF CopiesDuplicate
<1>5. CASE CollectsStranded(r)
  <2>1. PICK file, print : file = store.handoff /\ print = r.hash
    OBVIOUS
  <2>2. Accepts(r, file, print)
    BY <1>5, <2>1 DEF CollectsStranded
  <2> QED BY <1>2, <2>1, <2>2, AcceptsOnward
<1>6. CASE Commits(Retries(r), store)
  BY <1>2, <1>6, OnwardMoves, OnwardIdle
<1>7. CASE Submits(r)
  <2>1. PICK t : Commits(Awaiting(r, t), store)
    BY <1>7 DEF Submits
  <2>2. PICK w : w = [task |-> t, print |-> r.hash]
    OBVIOUS
  <2>3. [r EXCEPT !.awaiting = w].status = r.status
    BY <1>2, RowFields
  <2>4. Onward(Awaiting(r, t))
    BY <1>2, <2>2, <2>3 DEF Awaiting, Onward
  <2> QED BY <2>1, <2>4, OnwardIdle
<1> QED BY <1>1, <1>3, <1>4, <1>5, <1>6, <1>7 DEF TranscribeStage

\* So does its answer.
LEMMA ResumeOnward ==
    ASSUME TypeOK, NEW t, Resume(t)
    PROVE  Onward(row') /\ Collected
<1>1. PICK r : r = [row EXCEPT !.awaiting = None]
  OBVIOUS
<1>2. row \in Row /\ r \in Row /\ Onward(r) /\ Onward(row) /\ crashes \in Nat
  <2>1. row \in Row /\ crashes \in Nat /\ None \in Maybe(Waits)
    BY DEF TypeOK, Maybe
  <2>2. r = Moved(row, row.status, row.retry, None, row.done)
    BY <1>1, <2>1, RowFields DEF Moved
  <2>3. r \in Row /\ r.status = row.status
    BY <2>1, <2>2, RowFields, MovedFields
  <2> QED BY <2>1, <2>3 DEF Onward
<1>3. PICK s, print, c : /\ s = "transcribe" /\ print = row.awaiting.print
                         /\ c = Completes(r, s, print)
  OBVIOUS
<1>4. CASE Commits(c, store)
  BY <1>2, <1>3, <1>4, OnwardMoves, OnwardIdle
<1>5. CASE Refused(r)
  BY <1>2, <1>5, OnwardMoves, OnwardIdle DEF Refused
<1>6. CASE Accepts(r, store.handoff, print)
  <2>1. PICK file : file = store.handoff
    OBVIOUS
  <2> QED BY <1>2, <1>6, <2>1, AcceptsOnward
<1>7. CASE Commits(Retries(r), store)
  BY <1>2, <1>7, OnwardMoves, OnwardIdle
<1> QED BY <1>1, <1>3, <1>4, <1>5, <1>6, <1>7 DEF Resume

\* merge stays on and discards none.
LEMMA MergeOnward ==
    ASSUME TypeOK, MergeStage
    PROVE  Onward(row') /\ Collected
<1>1. PICK r, s, print : r = Begun(3) /\ s = "merge" /\ print = r.segments
  OBVIOUS
<1>2. /\ row \in Row /\ r \in Row /\ Onward(r) /\ store \in Store
      /\ print \in Maybe(Files)
  BY <1>1, OnwardBegun, RowFields DEF TypeOK
<1>3. PICK named, c, d, o : /\ named = [r EXCEPT !.transcript = TRUE, !.written = print]
                            /\ c = Completes(r, s, print)
                            /\ d = Completes(named, s, print)
                            /\ o = [store EXCEPT !.transcript = print]
  OBVIOUS
<1>4. o.handoff = store.handoff
  BY <1>2, <1>3, ObjectFields
<1>5. named \in Row /\ Onward(named)
  <2>1. named \in Row
    BY <1>2, <1>3, NamedFields
  <2>2. named.status = r.status
    BY <1>2, <1>3, RowFields
  <2> QED BY <1>2, <2>1, <2>2 DEF Onward
<1>6. Onward(c) /\ Onward(d) /\ Onward(Retries(r))
  BY <1>2, <1>3, <1>5, OnwardMoves
<1>7. Commits(c, store) \/ Commits(Retries(r), store) \/ Commits(d, o)
  BY <1>1, <1>3 DEF MergeStage
<1>8. CASE Commits(d, o)
  <2>1. Onward(row')
    BY <1>6, <1>8, OnwardCommits
  <2>2. store'.handoff = store.handoff
    BY <1>4, <1>8 DEF Commits
  <2> QED BY <2>1, <2>2 DEF Collected
<1> QED BY <1>6, <1>7, <1>8, OnwardIdle

\* The keys, the audio and convert's fingerprint keep agreeing, whatever the
\* stages, the workers that die, the uploads and the providers do.
THEOREM Invariant == Spec => []IInv
<1> QED BY InitHolds, StepKeeps, PTL DEF Spec

\* Every field of the row, of storage and of the tasks stays in its type.
THEOREM TypesHold == Spec => []TypeOK
<1>1. IInv => TypeOK
  BY DEF IInv
<1> QED BY <1>1, Invariant, PTL

\* _purge_source: the last accepted file, or the audio made of it, is stored
\* at every moment, unless convert has forgotten what its audio was made from.
THEOREM AudioStays == Spec => []AudioIsKept
<1>1. IInv => AudioIsKept
  BY DEF IInv
<1> QED BY <1>1, Invariant, PTL

\* The keys of the row name what is stored, while no worker has died between
\* storage and its commit.
THEOREM KeysHold == Spec => []KeysResolve
<1>1. IInv => KeysResolve
  BY DEF IInv
<1> QED BY <1>1, Invariant, PTL

\* What finalize finds when no stage is pending.
LEMMA FinishesOn ==
    ASSUME IInv, Finalize
    PROVE  /\ ~printLost => /\ row.hash.file = uploads
                            /\ store.normalized[row.normalized] = uploads
           /\ store.transcript = row.segments
<1>1. TypeOK
  BY DEF IInv
<1>2. ASSUME NEW s \in StageNames
      PROVE  s \in row.done /\ ~IsStale(row, s)
  BY DEF Finalize, Pending
<1>3. /\ "convert" \in row.done /\ ~IsStale(row, "convert")
      /\ "transcribe" \in row.done /\ ~IsStale(row, "transcribe")
      /\ "merge" \in row.done /\ ~IsStale(row, "merge")
  BY <1>2, Names
<1>4. /\ row.segments # None /\ row.segments \in Nat
      /\ store.transcript # None => store.transcript <= row.segments
      /\ ~printLost => row.hash.file = uploads /\ Stored(row.normalized) = uploads
  BY <1>3, BeforeMerge
<1>5. /\ row.prints.merge # None /\ row.transcript /\ row.written = row.prints.merge
      /\ store.transcript # None /\ row.written <= store.transcript
  BY <1>3 DEF IInv, Merged
<1>6. row.prints.merge = row.segments
  <2>1. InputPrint(row, "merge") = row.segments
    BY DEF InputPrint
  <2> QED BY <1>3, <1>4, <1>5, <2>1 DEF IsStale
<1>7. store.transcript \in Nat
  BY <1>1, <1>5, Numbers
<1> QED BY <1>4, <1>5, <1>6, <1>7 DEF Stored

\* No other step completes a recording or empties the postbox.
LEMMA StepsOn ==
    ASSUME TypeOK, Keys, [Next]_vars
    PROVE  /\ \/ Finalize
              \/ row'.status # "completed"
              \/ row'.status = row.status
           /\ Collected \/ (store'.handoff # None)
<1>1. row \in Row /\ store \in Store
  BY DEF TypeOK
<1>2. ASSUME Onward(row'), Collected
      PROVE  row'.status # "completed" \/ row'.status = row.status
  BY <1>2 DEF Onward
<1>3. CASE ConvertStage
  <2>1. Onward(row')
    BY <1>3, ConvertOnward
  <2>2. store'.handoff = store.handoff
    BY <1>3, ConvertEffect
  <2> QED BY <1>2, <2>1, <2>2 DEF Collected
<1>4. CASE TranscribeStage \/ MergeStage \/ \E t \in notices : Resume(t)
  BY <1>2, <1>4, TranscribeOnward, MergeOnward, ResumeOnward
<1>5. CASE Finalize
  BY <1>5 DEF Finalize, Collected
<1>6. ASSUME NEW t \in notices, TaskFailed(t)
      PROVE  row'.status = "stopped" /\ Collected
  <2>1. PICK r : r = [row EXCEPT !.awaiting = None]
    OBVIOUS
  <2>2. row' = [r EXCEPT !.status = "stopped"] /\ store' = store
    BY <1>6, <2>1 DEF TaskFailed, Stops
  <2>3. row'.status = "stopped"
    BY <1>1, <2>1, <2>2, RowFields
  <2> QED BY <2>3 DEF Collected
<1>7. ASSUME NEW t \in notices, IgnoreNotice(t)
      PROVE  row'.status = row.status /\ Collected
  BY <1>7 DEF IgnoreNotice, Collected
<1>8. CASE Reopen
  <2>1. row'.status = "live"
    <3>1. row = [status |-> row.status, retry |-> row.retry, source |-> row.source,
                 normalized |-> row.normalized, hash |-> row.hash,
                 segments |-> row.segments, transcript |-> row.transcript,
                 written |-> row.written, done |-> row.done, prints |-> row.prints,
                 awaiting |-> row.awaiting]
      BY <1>1, RowFields
    <3>2. \/ row' = [row EXCEPT !.status = "live", !.retry = 0]
          \/ row' = [row EXCEPT !.status = "live", !.retry = 0, !.done = {}]
      BY <1>8 DEF Reopen
    <3> QED BY <3>1, <3>2
  <2> QED BY <1>8, <2>1 DEF Reopen, Collected
<1>9. CASE PutFile
  <2>1. PICK file : file = uploads + 1
    OBVIOUS
  <2>2. store'.handoff = store.handoff
    BY <1>1, <1>9, <2>1, StoreFields DEF PutFile
  <2> QED BY <1>9, <2>2 DEF PutFile, Collected
<1>10. CASE FinalizeUpload
  <2>1. PICK file : file = uploads + 1
    OBVIOUS
  <2>2. row'.status = "live"
    BY <1>1, <1>10, <2>1, RowFields DEF FinalizeUpload
  <2> QED BY <1>10, <2>2 DEF FinalizeUpload, Collected
<1>11. CASE ChangeProfile \/ UNCHANGED vars
  BY <1>11 DEF ChangeProfile, vars, Collected
<1>12. ASSUME NEW t \in 1..MaxTasks, ProviderWrites(t)
       PROVE  row'.status = row.status /\ store'.handoff # None
  <2>1. PICK file \in Heard(t) : store' = [store EXCEPT !.handoff = file]
    BY <1>12 DEF ProviderWrites
  <2>2. file # None
    BY DEF Heard
  <2>3. store'.handoff = file
    BY <1>1, <2>1, StoreFields
  <2> QED BY <1>12, <2>2, <2>3 DEF ProviderWrites
<1>13. ASSUME NEW t \in 1..MaxTasks, TaskEnds(t)
       PROVE  row'.status = row.status /\ Collected
  BY <1>13 DEF TaskEnds, Collected
<1> QED BY <1>3, <1>4, <1>5, <1>6, <1>7, <1>8, <1>9, <1>10, <1>11, <1>12, <1>13
        DEF Next, Workers, Requests, Providers

\* finalize_pipeline: a recording completes on its last accepted file, unless
\* convert has forgotten its input, and on a transcript.json of its segments.
THEOREM FinishesRight == Spec => FinishesOnLastFile
<1>1. ASSUME IInv, [Next]_vars
      PROVE  [row.status # "completed" /\ row'.status = "completed" =>
                /\ ~printLost => /\ row.hash.file = uploads
                                 /\ store.normalized[row.normalized] = uploads
                /\ store.transcript = row.segments]_vars
  BY <1>1, StepsOn, FinishesOn DEF IInv
<1> QED BY <1>1, Invariant, PTL DEF Spec, FinishesOnLastFile

\* _discard_handoff: what a provider delivered leaves the postbox for the row,
\* as a refused transcript, or with the worker that had taken it.
THEOREM NothingDiscarded == Spec => DeliveredIsCollected
<1>1. ASSUME IInv, [Next]_vars
      PROVE  [store.handoff # None /\ store'.handoff = None =>
                \/ row'.segments = store.handoff
                \/ row'.status = "stopped"
                \/ crashes' > crashes]_vars
  BY <1>1, StepsOn DEF IInv, Collected
<1> QED BY <1>1, Invariant, PTL DEF Spec, DeliveredIsCollected

-----------------------------------------------------------------------------
(* Erasure *)

\* Nothing lies where the row does not point, but for the known causes.
Orphans ==
    /\ row.source = None => store.source # uploads
    /\ crashes = 0 /\ ~row.transcript => store.transcript = None
    /\ crashes = 0 /\ row.normalized = None =>
         \A p \in Profiles : Stored(p) = None
    /\ ~reprofiled => /\ row.normalized \in {None, profile}
                      /\ \A p \in Profiles : p # profile => Stored(p) = None

EInv ==
    /\ ETypeOK /\ Keys /\ ErasedLeavesNothing
    /\ gone => touched
    /\ ~gone => Orphans
    /\ ~touched => IInv

-----------------------------------------------------------------------------
(* The recording's life *)

\* Convert forgets a normalized key only by recording another.
LEMMA ConvertOrphans ==
    ASSUME TypeOK, Keys, Orphans, ConvertStage
    PROVE  Orphans'
<1>1. /\ row' \in Row /\ store' \in Store /\ crashes' \in 0..MaxCrashes
      /\ crashes' = 0 => crashes = 0
      /\ SameText(row, row') /\ store'.transcript = store.transcript
      /\ Quiet \/ Died \/ Worked
  BY ConvertEffect
<1>2. UNCHANGED <<profile, uploads, reprofiled>>
  BY DEF ConvertStage
<1>3. uploads # None /\ profile # None /\ profile \in Profiles
  BY StageAssumption DEF TypeOK, Files
<1>4. row'.source = None => store'.source # uploads
  BY <1>1, <1>3 DEF Orphans, Quiet, Died, Worked, SameAudio
<1>5. crashes' = 0 /\ ~row'.transcript => store'.transcript = None
  BY <1>1 DEF Orphans, SameText
<1>6. crashes' = 0 /\ row'.normalized = None =>
        \A p \in Profiles : store'.normalized[p] = None
  BY <1>1, <1>3 DEF Orphans, Stored, Quiet, Died, Worked, Kept, Fresh, SameAudio
<1>7. row'.normalized \in {row.normalized, profile}
  BY <1>1 DEF Quiet, Died, Worked, SameAudio
<1>8. \A p \in Profiles : p # profile => store'.normalized[p] = store.normalized[p]
  BY <1>1 DEF Quiet, Died, Worked, Kept, Fresh
<1> QED BY <1>2, <1>4, <1>5, <1>6, <1>7, <1>8 DEF Orphans, Stored

\* Every step of the recording's life keeps what erasure will find.
LEMMA OrphansKept ==
    ASSUME TypeOK, Keys, Orphans, [Next]_vars
    PROVE  Orphans'
<1>1. ASSUME Elsewhere, crashes' = 0 /\ ~row'.transcript => store'.transcript = None
      PROVE  Orphans'
  <2>1. /\ row'.source = row.source /\ row'.normalized = row.normalized
        /\ store'.source = store.source /\ store'.normalized = store.normalized
        /\ crashes' = 0 => crashes = 0
        /\ UNCHANGED <<profile, uploads, reprofiled>>
    BY <1>1 DEF Elsewhere, Beside, SameAudio
  <2> QED BY <1>1, <2>1 DEF Orphans, Stored
<1>2. CASE Elsewhere /\ Told
  <2>1. crashes' = 0 => crashes = 0
    BY <1>2 DEF Elsewhere, Beside
  <2> QED BY <1>1, <1>2, <2>1 DEF Told, Orphans
<1>3. CASE Elsewhere /\ MergeStage
  <2>1. CASE Told
    BY <1>2, <1>3, <2>1
  <2>2. CASE Merges
    BY <1>1, <1>3, <2>2 DEF Merges
  <2> QED BY <1>3, <2>1, <2>2, MergeEffect
<1>4. ASSUME Elsewhere, NEW t \in 1..MaxTasks, ProviderWrites(t)
      PROVE  Orphans'
  <2>1. store'.transcript = store.transcript
    BY <1>4, ProviderWritesBeside DEF Wrote
  <2>2. UNCHANGED <<row, crashes>>
    BY <1>4 DEF ProviderWrites
  <2> QED BY <1>1, <1>4, <2>1, <2>2 DEF Orphans
<1>5. CASE PutFile
  <2>1. /\ store'.source = uploads + 1 /\ store'.normalized = store.normalized
        /\ store'.transcript = store.transcript
    BY <1>5, PutFileEffect
  <2>2. uploads \in Nat
    BY DEF TypeOK, Files
  <2>3. UNCHANGED <<row, profile, uploads, crashes, reprofiled>>
    BY <1>5 DEF PutFile
  <2> QED BY <2>1, <2>2, <2>3 DEF Orphans, Stored
<1>6. CASE FinalizeUpload
  <2>1. /\ row'.source = uploads + 1 /\ row'.normalized = row.normalized
        /\ row'.transcript = row.transcript /\ store.source = uploads + 1
    BY <1>6, FinalizeUploadEffect
  <2>2. uploads + 1 # None
    BY StageAssumption DEF TypeOK, Files
  <2>3. UNCHANGED <<store, profile, crashes, reprofiled>>
    BY <1>6 DEF FinalizeUpload
  <2> QED BY <2>1, <2>2, <2>3 DEF Orphans, Stored
<1>7. CASE ChangeProfile
  BY <1>7 DEF ChangeProfile, Orphans, Stored
<1> QED BY <1>2, <1>3, <1>4, <1>5, <1>6, <1>7, ConvertOrphans, StepKinds

-----------------------------------------------------------------------------
(* The erasure *)

\* Which keys an erasure deletes.
LEMMA ErasedKeys ==
    ASSUME NEW probed \in BOOLEAN
    PROVE  /\ "source" \in KeysToErase(probed) <=> row.source # None
           /\ "normalized" \in KeysToErase(probed) <=> row.normalized # None
           /\ "transcript" \in KeysToErase(probed) <=> row.transcript
           /\ "handoff" \in KeysToErase(probed) <=> probed /\ store.handoff # None
    BY DEF KeysToErase, RowKeys

\* What lies under the keys that were not deleted.
LEMMA WithoutFields ==
    ASSUME store \in Store, NEW keys
    PROVE  LET o == Without(keys)
           IN  /\ o \in Store
               /\ o.source = IF "source" \in keys THEN None ELSE store.source
               /\ o.handoff = IF "handoff" \in keys THEN None ELSE store.handoff
               /\ o.transcript = IF "transcript" \in keys THEN None ELSE store.transcript
               /\ \A p \in Profiles : o.normalized[p] =
                    IF "normalized" \in keys /\ p = row.normalized
                    THEN None ELSE store.normalized[p]
<1>1. PICK f : f = [p \in Profiles |->
                      IF "normalized" \in keys /\ p = row.normalized
                      THEN None ELSE store.normalized[p]]
  OBVIOUS
<1>2. f \in [Profiles -> Maybe(Files)]
  BY <1>1, StoreFields DEF Maybe
<1>3. PICK s, h, x : /\ s = IF "source" \in keys THEN None ELSE store.source
                     /\ h = IF "handoff" \in keys THEN None ELSE store.handoff
                     /\ x = IF "transcript" \in keys THEN None ELSE store.transcript
  OBVIOUS
<1>4. s \in Maybe(Files) /\ h \in Maybe(Files) /\ x \in Maybe(Files)
  BY <1>3, StoreFields DEF Maybe
<1>5. Without(keys) = [source |-> s, normalized |-> f, handoff |-> h, transcript |-> x]
  BY <1>1, <1>3 DEF Without
<1>6. Without(keys) \in Store
  BY <1>2, <1>4, <1>5 DEF Store
<1> QED BY <1>1, <1>3, <1>5, <1>6

\* A row that is gone names nothing.
LEMMA NoRowFields ==
    /\ NoRow \in Row /\ NoRow.source = None /\ NoRow.normalized = None
    /\ NoRow.hash = None /\ NoRow.done = {}
<1>1. /\ 0 \in 0..MaxRetries /\ None \in Maybe(Files) /\ None \in Maybe(Profiles)
      /\ None \in Maybe(Hashes) /\ None \in Maybe(Waits)
  BY StageAssumption DEF Maybe
<1>2. NewRow.prints \in Prints
  BY <1>1 DEF NewRow, Prints
<1>3. PICK no \in BOOLEAN, ps \in Prints : no = FALSE /\ ps = NewRow.prints
  BY <1>2
<1>4. NoRow = [status |-> "stopped", retry |-> 0, source |-> None, normalized |-> None,
               hash |-> None, segments |-> None, transcript |-> no,
               written |-> None, done |-> {}, prints |-> ps, awaiting |-> None]
  <2>1. NewRow = [status |-> "live", retry |-> 0, source |-> 1, normalized |-> None,
                  hash |-> None, segments |-> None, transcript |-> no,
                  written |-> None, done |-> {}, prints |-> ps, awaiting |-> None]
    BY <1>3 DEF NewRow
  <2>2. PICK new, status : new = NewRow /\ status = "stopped"
    OBVIOUS
  <2>3. NoRow = [new EXCEPT !.status = status, !.source = None]
    BY <2>2 DEF NoRow
  <2> QED BY <2>1, <2>2, <2>3
<1>5. NoRow \in Row
  BY <1>1, <1>3, <1>4 DEF Row
<1> QED BY <1>4, <1>5

\* erase(), with any of its deletes failing.
LEMMA ErasesKeeps ==
    ASSUME EInv, EraseDelivered
    PROVE  EInv'
<1>0. PICK probed \in BOOLEAN :
        \E failed \in SUBSET KeysToErase(probed) :
           Erases(KeysToErase(probed), probed, failed)
  BY DEF EraseDelivered
<1>1. PICK failed \in SUBSET KeysToErase(probed) :
        Erases(KeysToErase(probed), probed, failed)
  BY <1>0
<1>2. PICK keys : keys = KeysToErase(probed) \ failed
  OBVIOUS
<1>3. /\ TypeOK /\ Keys /\ Orphans /\ ~gone /\ row \in Row /\ store \in Store
      /\ uploads \in Nat /\ crashes \in Nat
  BY <1>1 DEF EInv, ETypeOK, TypeOK, Files, Erases
<1>4. /\ store' = Without(keys) /\ touched'
      /\ \/ gone' = FALSE /\ row' = row
         \/ gone' = TRUE /\ row' = NoRow /\ failed = {}
      /\ strays' = strays \cup (IF probed \/ store.handoff = None THEN {} ELSE {"probe"})
                          \cup (IF putting THEN {"upload"} ELSE {})
      /\ UNCHANGED <<worldVars, tasks, notices, crashes, softDeleted, request>>
  BY <1>1, <1>2 DEF Erases, DropsRow
<1>5. /\ store' \in Store
      /\ store'.source = IF "source" \in keys THEN None ELSE store.source
      /\ store'.handoff = IF "handoff" \in keys THEN None ELSE store.handoff
      /\ store'.transcript = IF "transcript" \in keys THEN None ELSE store.transcript
      /\ \A p \in Profiles : store'.normalized[p] =
           IF "normalized" \in keys /\ p = row.normalized
           THEN None ELSE store.normalized[p]
  BY <1>3, <1>4, WithoutFields
<1>6. /\ "source" \in KeysToErase(probed) <=> row.source # None
      /\ "normalized" \in KeysToErase(probed) <=> row.normalized # None
      /\ "transcript" \in KeysToErase(probed) <=> row.transcript
      /\ "handoff" \in KeysToErase(probed) <=> probed /\ store.handoff # None
  BY ErasedKeys
<1>7. row' \in Row
  BY <1>3, <1>4, NoRowFields
<1>8. ETypeOK'
  BY <1>4, <1>5, <1>7 DEF EInv, ETypeOK, TypeOK, worldVars
<1>9. Keys'
  <2>1. /\ store'.source \in {None, uploads, uploads + 1}
        /\ putting <=> store'.source = uploads + 1
    <3>1. "source" \in keys => ~putting
      BY <1>2, <1>3, <1>6 DEF Keys
    <3>2. uploads + 1 # None
      BY <1>3, StageAssumption
    <3> QED BY <1>3, <1>5, <3>1, <3>2 DEF Keys
  <2>2. UNCHANGED <<uploads, putting>>
    BY <1>4 DEF worldVars
  <2>3. CASE row' = row
    BY <1>3, <2>1, <2>2, <2>3 DEF Keys
  <2>4. CASE row' = NoRow
    BY <2>1, <2>2, <2>4, NoRowFields DEF Keys
  <2> QED BY <1>4, <2>3, <2>4
<1>10. ~gone' => Orphans'
  <2>1. HAVE ~gone'
  <2>2. row' = row /\ UNCHANGED <<uploads, profile, crashes, reprofiled>>
    BY <1>4, <2>1 DEF worldVars
  <2>3. row.source = None => store'.source = store.source
    BY <1>2, <1>5, <1>6
  <2> QED BY <1>3, <1>5, <2>2, <2>3 DEF Orphans, Stored
<1>11. ErasedLeavesNothing'
  <2>1. SUFFICES ASSUME gone' PROVE ErasedLeavesNothing'
    BY DEF ErasedLeavesNothing
  <2>2. keys = KeysToErase(probed)
    BY <1>2, <1>4, <2>1
  <2>3. store'.source # None => "upload" \in strays'
    <3>1. HAVE store'.source # None
    <3>2. row.source = None /\ store.source # None
      BY <1>5, <1>6, <2>2, <3>1
    <3>3. putting
      BY <1>3, <3>2 DEF Keys, Orphans
    <3> QED BY <1>4, <3>3
  <2>4. store'.handoff # None => "probe" \in strays'
    BY <1>4, <1>5, <1>6, <2>2
  <2>5. store'.transcript # None => crashes > 0
    BY <1>3, <1>5, <1>6, <2>2 DEF Orphans
  <2>6. ASSUME NEW p \in Profiles, store'.normalized[p] # None
        PROVE  crashes > 0 \/ reprofiled
    <3>1. store.normalized[p] # None /\ ~(row.normalized # None /\ p = row.normalized)
      BY <1>5, <1>6, <2>2, <2>6
    <3>2. CASE crashes = 0 /\ ~reprofiled
      BY <1>3, <3>1, <3>2 DEF Orphans, Stored
    <3> QED BY <1>3, <3>2
  <2>7. UNCHANGED <<crashes, reprofiled>>
    BY <1>4 DEF worldVars
  <2> QED BY <2>3, <2>4, <2>5, <2>6, <2>7 DEF ErasedLeavesNothing
<1> QED BY <1>4, <1>8, <1>9, <1>10, <1>11 DEF EInv

-----------------------------------------------------------------------------

\* The invariant holds at the start.
LEMMA EInitHolds == EInit => EInv
<1> SUFFICES ASSUME EInit PROVE EInv
  OBVIOUS
<1>1. IInv
  BY InitHolds DEF EInit
<1>2. TypeOK /\ Keys
  BY <1>1 DEF IInv
<1>3. /\ softDeleted = FALSE /\ request = "none" /\ gone = FALSE
      /\ touched = FALSE /\ strays = {}
  BY DEF EInit
<1>4. Orphans
  <2>1. /\ row.source = 1 /\ row.normalized = None
        /\ store.transcript = None /\ \A p \in Profiles : Stored(p) = None
    BY DEF EInit, Init, NewRow, Stored
  <2> QED BY <2>1, StageAssumption DEF Orphans
<1> QED BY <1>1, <1>2, <1>3, <1>4 DEF EInv, ETypeOK, ErasedLeavesNothing

\* A step of StageBodies, with the row or without it.
LEMMA LifeKeeps ==
    ASSUME EInv, [Next]_vars, UNCHANGED <<gone, touched>>,
           softDeleted' \in BOOLEAN, request' \in {"none", "open", "receipted"},
           strays' \subseteq {"upload", "provider", "probe"},
           gone => ErasedLeavesNothing'
    PROVE  EInv'
<1>1. TypeOK' /\ Keys'
  BY StepTypes DEF EInv, ETypeOK
<1>2. ~gone => Orphans'
  BY OrphansKept DEF EInv, ETypeOK
<1>3. ~touched => IInv'
  BY StepKeeps DEF EInv
<1>4. ErasedLeavesNothing'
  BY DEF ErasedLeavesNothing
<1>5. ETypeOK'
  BY <1>1 DEF EInv, ETypeOK
<1> QED BY <1>1, <1>2, <1>3, <1>4, <1>5 DEF EInv

\* Every step keeps it.
LEMMA EStepKeeps == EInv /\ [ENext]_evars => EInv'
<1> SUFFICES ASSUME EInv, [ENext]_evars PROVE EInv'
  OBVIOUS
<1>1. ETypeOK
  BY DEF EInv
<1>2. ASSUME UNCHANGED vars, UNCHANGED <<gone, touched, strays>>,
             softDeleted' \in BOOLEAN, request' \in {"none", "open", "receipted"}
      PROVE  EInv'
  <2>1. ErasedLeavesNothing'
    BY <1>2 DEF EInv, ErasedLeavesNothing, vars
  <2> QED BY <1>1, <1>2, <2>1, LifeKeeps DEF ETypeOK
<1>3. CASE Lives
  <2>1. [Next]_vars /\ ~gone /\ UNCHANGED endVars
    BY <1>3 DEF Lives, Next, Requests
  <2> QED BY <1>1, <2>1, LifeKeeps DEF ETypeOK, endVars
<1>4. CASE ClientWrites
  <2>1. PutFile /\ strays' = IF gone THEN strays \cup {"upload"} ELSE strays
    BY <1>4 DEF ClientWrites, Writes
  <2>2. UNCHANGED <<softDeleted, request, gone, touched>>
    BY <1>4 DEF ClientWrites, Writes
  <2>3. gone => ErasedLeavesNothing'
    <3>1. HAVE gone
    <3>2. /\ store'.normalized = store.normalized
          /\ store'.transcript = store.transcript /\ store'.handoff = store.handoff
      BY <1>1, <2>1, PutFileEffect DEF EInv, ETypeOK
    <3>3. UNCHANGED <<crashes, reprofiled>>
      BY <2>1 DEF PutFile
    <3> QED BY <2>1, <2>2, <3>1, <3>2, <3>3 DEF EInv, ErasedLeavesNothing
  <2>4. [Next]_vars
    BY <2>1 DEF Next, Requests
  <2> QED BY <1>1, <2>1, <2>2, <2>3, <2>4, LifeKeeps DEF ETypeOK
<1>5. ASSUME NEW t \in 1..MaxTasks, Writes("provider", ProviderWrites(t))
      PROVE  EInv'
  <2>1. ProviderWrites(t) /\ strays' = IF gone THEN strays \cup {"provider"} ELSE strays
    BY <1>5 DEF Writes
  <2>2. UNCHANGED <<softDeleted, request, gone, touched>>
    BY <1>5 DEF Writes
  <2>3. gone => ErasedLeavesNothing'
    <3>1. HAVE gone
    <3>2. PICK file : Wrote(t, file)
      BY <1>1, <2>1, ProviderWritesBeside DEF EInv, ETypeOK
    <3>3. UNCHANGED <<crashes, reprofiled>>
      BY <2>1 DEF ProviderWrites, worldVars
    <3> QED BY <2>1, <2>2, <3>1, <3>2, <3>3 DEF EInv, ErasedLeavesNothing, Wrote
  <2>4. [Next]_vars
    BY <2>1 DEF Next, Providers
  <2> QED BY <1>1, <2>1, <2>2, <2>3, <2>4, LifeKeeps DEF ETypeOK
<1>6. ASSUME NEW t \in 1..MaxTasks, TaskEnds(t), UNCHANGED endVars
      PROVE  EInv'
  <2>1. [Next]_vars /\ UNCHANGED <<store, crashes, reprofiled>>
    BY <1>6 DEF Next, Providers, TaskEnds, worldVars
  <2>2. ErasedLeavesNothing'
    BY <1>6, <2>1 DEF EInv, ErasedLeavesNothing, endVars
  <2> QED BY <1>1, <1>6, <2>1, <2>2, LifeKeeps DEF ETypeOK, endVars
<1>7. CASE SoftDelete \/ Purge \/ SubjectErased \/ RequestTimesOut \/ Receipt
  BY <1>1, <1>2, <1>7
     DEF ETypeOK, SoftDelete, Purge, SubjectErased, RequestTimesOut, Receipt
<1>8. CASE EraseDelivered
  BY <1>8, ErasesKeeps
<1>9. CASE UNCHANGED evars
  BY <1>1, <1>2, <1>9 DEF evars, ETypeOK
<1> QED BY <1>3, <1>4, <1>5, <1>6, <1>7, <1>8, <1>9 DEF ENext, ProviderWorks

\* erase(): whatever the stages, the client and the provider do before an
\* erasure, while it is retried and after it, nothing of an erased recording is
\* left but for the named causes; and until it begins, its artifacts are whole.
THEOREM ErasureHolds == ESpec => []ErasureInv
<1>1. EInit => EInv
  BY EInitHolds
<1>2. EInv /\ [ENext]_evars => EInv'
  BY EStepKeeps
<1>3. EInv => ErasureInv
  BY DEF EInv, IInv, ErasureInv, ArtifactsUntilErasure
<1> QED BY <1>1, <1>2, <1>3, PTL DEF ESpec

=============================================================================
