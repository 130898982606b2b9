----------------------------- MODULE StageBodies -----------------------------
(***************************************************************************)
(* What the built-in stages of stages.py do to one recording's row and to  *)
(* its objects in storage: convert (and the purge of the upload it came    *)
(* from), transcribe (with the hand-off object a provider writes before it *)
(* answers) and the transcript.json of merge; diarize is a no-op.          *)
(*                                                                         *)
(* A stage runs inside the driver's transaction, storage does not: a       *)
(* worker that dies before the commit leaves the objects as they are and   *)
(* the row as it was.  The driver is reduced to what orders the stages     *)
(* (the cursor, fingerprints, retries); Pipeline models it in full.        *)
(***************************************************************************)
EXTENDS Integers, Sequences, FiniteSets

CONSTANTS
    Profiles,      \* audio profiles the settings may name
    MaxRetries,    \* MAX_STAGE_RETRIES
    MaxUploads,    \* bound: files accepted for the recording
    MaxTasks,      \* bound: transcription tasks
    MaxReopens,    \* bound: retries and reprocesses asked for
    MaxCrashes,    \* bound: workers that die between storage and commit
    None

ASSUME StageAssumption ==
    /\ Profiles # {}
    /\ MaxRetries \in Nat /\ MaxTasks \in Nat /\ MaxReopens \in Nat
    /\ MaxCrashes \in Nat
    /\ MaxUploads \in Nat \ {0}
    /\ None \notin Nat \cup Profiles

VARIABLES
    row,       \* the committed recording
    store,     \* what lies under each of its keys
    profile,   \* the audio profile in force
    uploads,   \* files accepted so far; a file is known by its number
    putting,   \* a new file lies at the source key, not finalized
    tasks,     \* transcription tasks, the position is the id
    notices    \* tasks whose outcome is in flight

(* What happened; the code never reads it. *)
VARIABLES
    crashes,     \* workers lost between a storage effect and its commit
    reopens,     \* times a user or the host asked for another go
    printLost,   \* convert has completed with nothing to record as its input
    reprofiled   \* the profile has changed

worldVars == <<profile, uploads, putting, reopens, printLost, reprofiled>>
vars == <<row, store, profile, uploads, putting, tasks, notices, crashes,
          reopens, printLost, reprofiled>>

Stages == <<"convert", "transcribe", "merge">>
StageNames == {Stages[i] : i \in DOMAIN Stages}
Files == 1..MaxUploads
Maybe(S) == S \cup {None}

\* audio_content_hash: a conversion is known by its file and its profile.
Hashes == [file: Files, profile: Profiles]

ASSUME NoneIsNoRecord == None \notin Hashes

\* input_fingerprint: convert and transcribe name a conversion, merge a transcript.
Prints == [convert: Maybe(Hashes), transcribe: Maybe(Hashes), merge: Maybe(Files)]

\* A row that waits names its task and what it was asked about.
Waits == [task: 1..MaxTasks, print: Maybe(Hashes)]

Row == [status: {"live", "completed", "stopped"}, retry: 0..MaxRetries,
        source: Maybe(Files), normalized: Maybe(Profiles), hash: Maybe(Hashes),
        segments: Maybe(Files), transcript: BOOLEAN, written: Maybe(Files),
        done: SUBSET StageNames, prints: Prints,
        awaiting: Maybe(Waits)]

Store == [source: Maybe(Files), normalized: [Profiles -> Maybe(Files)],
          handoff: Maybe(Files), transcript: Maybe(Files)]

\* "ok" and "refused" are the two answers of a task that completed.
Task == [hash: Hashes, state: {"running", "ok", "refused", "failed"},
         wrote: Maybe(Files)]

TypeOK ==
    /\ row \in Row
    /\ store \in Store
    /\ profile \in Profiles
    /\ uploads \in Files
    /\ putting \in BOOLEAN
    /\ tasks \in Seq(Task) /\ Len(tasks) <= MaxTasks
    /\ notices \subseteq DOMAIN tasks
    /\ crashes \in 0..MaxCrashes
    /\ reopens \in 0..MaxReopens
    /\ printLost \in BOOLEAN /\ reprofiled \in BOOLEAN

-----------------------------------------------------------------------------
(* The cursor *)

\* Mutant: the source is known by its storage key alone.
ConvertPrintByKey(r) ==
    IF r.source = None THEN None ELSE [file |-> 1, profile |-> profile]

\* ConvertStage.input_fingerprint: key, size and profile. Two files of one
\* recording are taken to differ in size.
ConvertPrint(r) ==
    IF r.source = None THEN None ELSE [file |-> r.source, profile |-> profile]

InputPrint(r, s) == CASE s = "convert"    -> ConvertPrint(r)
                 [] s = "transcribe" -> r.hash
                 [] s = "merge"      -> r.segments

IsStale(r, s) ==
    r.prints[s] # None /\ InputPrint(r, s) # None /\ r.prints[s] # InputPrint(r, s)

Pending(r, s) == s \notin r.done \/ IsStale(r, s)

IsNext(r, i) == /\ Pending(r, Stages[i])
                /\ \A j \in 1..(i - 1) : ~Pending(r, Stages[j])

\* The row a stage's body is given: a stale stage leaves the cursor with all
\* that follows it.
Begun(i) ==
    IF Stages[i] \in row.done
    THEN [row EXCEPT !.done = @ \ {Stages[j] : j \in i..Len(Stages)}]
    ELSE row

Completes(r, s, print) ==
    [r EXCEPT !.retry = 0, !.done = @ \cup {s}, !.prints[s] = print]
Stops(r) == [r EXCEPT !.status = "stopped"]

\* Mutant: the count is compared before it is raised.
RetriesOnceMore(r) ==
    IF r.retry > MaxRetries THEN Stops(r) ELSE [r EXCEPT !.retry = @ + 1]
Retries(r) ==
    IF r.retry + 1 > MaxRetries THEN Stops(r) ELSE [r EXCEPT !.retry = @ + 1]

-----------------------------------------------------------------------------
(* Storage and the transaction *)

\* A transaction with storage effects commits, or its worker dies first.
Commits(r, objects) ==
    /\ store' = objects
    /\ \/ row' = r /\ UNCHANGED crashes
       \/ /\ objects # store /\ crashes < MaxCrashes
          /\ crashes' = crashes + 1
          /\ UNCHANGED row

Runs(i) == row.status = "live" /\ IsNext(row, i)

-----------------------------------------------------------------------------
(* ConvertStage *)

\* Mutants: the container goes before its audio is stored; its bytes go and
\* the row keeps the key.
PurgesFirst(r, print, objects) ==
    \/ Commits(Completes([r EXCEPT !.source = None], "convert", print),
               [objects EXCEPT !.source = None])
    \/ Commits(Retries(row), [store EXCEPT !.source = None])
PurgesBytes(r, print, objects) ==
    Commits(Completes(r, "convert", print), [objects EXCEPT !.source = None])

\* _purge_source: kept on request (or with AUDIO_ONLY_INGEST off), deleted
\* and forgotten, or not deleted and tried again.
Purges(r, print, objects) ==
    \/ Commits(Completes(r, "convert", print), objects)
    \/ /\ r.source # None
       /\ Commits(Completes([r EXCEPT !.source = None], "convert", print),
                  [objects EXCEPT !.source = None])
    \/ /\ r.source # None
       /\ Commits(Retries(r), objects)

ConvertStage ==
    LET r == Begun(1)
        print == InputPrint(r, "convert")
    IN
    /\ Runs(1)
    /\ \/ /\ r.normalized # None /\ ~IsStale(r, "convert")
          /\ Purges(r, print, store)
       \/ /\ r.normalized = None /\ r.source = None
          /\ Commits(Stops(r), store)
       \/ /\ r.source # None
          /\ r.normalized = None \/ IsStale(r, "convert")
          /\ \/ Commits(Retries(r), store)     \* download or upload failed
             \/ Commits(Stops(r), store)       \* refused, too large, unpaid
             \/ /\ store.source # None
                /\ Purges([r EXCEPT !.normalized = profile,
                                    !.hash = [file |-> store.source,
                                              profile |-> profile]],
                          print,
                          [store EXCEPT !.normalized[profile] = store.source])
    /\ printLost' = (printLost \/ ("convert" \in row'.done /\ row'.prints.convert = None))
    /\ UNCHANGED <<profile, uploads, putting, reopens, reprofiled, tasks, notices>>

-----------------------------------------------------------------------------
(* TranscribeStage. run(): nothing to do, a duplicate's transcript is copied, *)
(* a stranded answer collected, or a task asked and awaited.                  *)

Transcribed(r) == r.segments # None /\ ~IsStale(r, "transcribe")

\* _persist_transcript replaces segments and speakers.
Persists(r, file, print) ==
    Completes([r EXCEPT !.segments = file], "transcribe", print)

\* Mutant: the postbox is emptied before the rows are written.
AcceptsLast(r, file, print) ==
    \/ Commits(Persists(r, file, print), [store EXCEPT !.handoff = None])
    \/ Commits(Retries(r), [store EXCEPT !.handoff = None])

\* _discard_handoff swallows the store's errors.
Discarded == {store, [store EXCEPT !.handoff = None]}

\* The transcript is stored and its hand-off object deleted; an empty one is
\* refused and deleted all the same; one that cannot be read is tried again.
Accepts(r, file, print) ==
    \/ \E objects \in Discarded :
          Commits(Persists(r, file, print), objects) \/ Commits(Stops(r), objects)
    \/ Commits(Retries(r), store)

\* reuse_waived_duplicate: the transcript of the same file's other recording.
CopiesDuplicate(r) == Commits(Persists(r, r.hash.file, r.hash), store)

\* stranded_handoff: an answer that did not get home; a read error is silence.
CollectsStranded(r) ==
    r.segments = None /\ store.handoff # None /\ Accepts(r, store.handoff, r.hash)

\* start() coalesces with a task in flight for the same fingerprint.
InFlight(h) == {t \in DOMAIN tasks : tasks[t].state = "running" /\ tasks[t].hash = h}

NewTask(r) == [hash |-> r.hash, state |-> "running", wrote |-> None]

Awaiting(r, t) == [r EXCEPT !.awaiting = [task |-> t, print |-> r.hash]]

Submits(r) ==
    \/ /\ \E t \in InFlight(r.hash) : Commits(Awaiting(r, t), store)
       /\ UNCHANGED tasks
    \/ /\ InFlight(r.hash) = {} /\ Len(tasks) < MaxTasks
       /\ tasks' = Append(tasks, NewTask(r))
       /\ Commits(Awaiting(r, Len(tasks')), store)

TranscribeStage ==
    LET r == Begun(2) IN
    /\ Runs(2)
    /\ \/ /\ \/ /\ Transcribed(r)
                /\ Commits(Completes(r, "transcribe", r.hash), store)
             \/ /\ ~Transcribed(r)
                /\ \/ CopiesDuplicate(r)
                   \/ CollectsStranded(r)
                   \/ Commits(Retries(r), store)     \* not submitted
          /\ UNCHANGED tasks
       \/ ~Transcribed(r) /\ Submits(r)
    /\ UNCHANGED <<worldVars, notices>>

Notify(t) == \E again \in SUBSET {t} : notices' = (notices \ {t}) \cup again

Awaits(t) ==
    row.status = "live" /\ row.awaiting # None /\ row.awaiting.task = t

\* transcript_from_result: the object is there, as long as the answer said.
Readable(t) == store.handoff # None /\ store.handoff = tasks[t].wrote

\* raise_for_transcribe_failure: again, or, the input refused, no more (and
\* then the row keeps `awaiting`).
Refused(r) == Commits(Retries(r), store) \/ Commits(Stops(row), store)

Resume(t) ==
    LET r == [row EXCEPT !.awaiting = None]
        print == row.awaiting.print
    IN
    /\ t \in notices /\ tasks[t].state \in {"ok", "refused"} /\ Awaits(t)
    /\ \/ /\ Transcribed(r)
          /\ Commits(Completes(r, "transcribe", print), store)
       \/ /\ ~Transcribed(r) /\ tasks[t].state = "refused"
          /\ Refused(r)
       \/ /\ ~Transcribed(r) /\ tasks[t].state = "ok"
          /\ \/ Readable(t) /\ Accepts(r, store.handoff, print)
             \/ ~Readable(t) /\ Commits(Retries(r), store)
    /\ Notify(t)
    /\ UNCHANGED <<worldVars, tasks>>

TaskFailed(t) ==
    /\ t \in notices /\ tasks[t].state = "failed" /\ Awaits(t)
    /\ row' = Stops([row EXCEPT !.awaiting = None])
    /\ Notify(t)
    /\ UNCHANGED <<worldVars, store, tasks, crashes>>

IgnoreNotice(t) ==
    /\ t \in notices
    /\ ~Awaits(t)
    /\ Notify(t)
    /\ UNCHANGED <<worldVars, row, store, tasks, crashes>>

-----------------------------------------------------------------------------
(* MergeStage, as far as transcript.json; the summary is in Derived. *)

\* Mutant: an artifact of any transcript will do.
WrittenOnce(r) == r.transcript
Written(r) == r.transcript /\ r.written = r.segments

MergeStage ==
    LET r == Begun(3)
        named == [r EXCEPT !.transcript = TRUE, !.written = r.segments]
    IN
    /\ Runs(3)
    /\ \/ /\ Written(r)
          /\ Commits(Completes(r, "merge", r.segments), store)
       \/ /\ ~Written(r)
          /\ \/ Commits(Retries(r), store)
             \/ Commits(Completes(named, "merge", r.segments),
                        [store EXCEPT !.transcript = r.segments])
    /\ UNCHANGED <<worldVars, tasks, notices>>

Finalize ==
    /\ row.status = "live"
    /\ \A s \in StageNames : ~Pending(row, s)
    /\ row' = [row EXCEPT !.status = "completed"]
    /\ UNCHANGED <<worldVars, store, tasks, notices, crashes>>

-----------------------------------------------------------------------------
(* Requests *)

\* retry_recording (when retry_refusal lets it) and resume_after_payment;
\* reprocess_recording clears the cursor and keeps artifacts and fingerprints.
Reopen ==
    /\ reopens < MaxReopens /\ reopens' = reopens + 1
    /\ \/ /\ row.status = "stopped"
          /\ row.source # None \/ row.normalized # None
          /\ row' = [row EXCEPT !.status = "live", !.retry = 0]
       \/ /\ row.status = "completed"
          /\ row' = [row EXCEPT !.status = "live", !.retry = 0, !.done = {}]
    /\ UNCHANGED <<store, profile, uploads, putting, tasks, notices, crashes,
                   printLost, reprofiled>>

\* A new session may be opened once the row names no source.
PutFile ==
    /\ row.source = None /\ uploads < MaxUploads
    /\ putting' = TRUE
    /\ store' = [store EXCEPT !.source = uploads + 1]
    /\ UNCHANGED <<row, profile, uploads, tasks, notices, crashes, reopens,
                   printLost, reprofiled>>

\* _finalize_upload_locked, whatever the status.
FinalizeUpload ==
    /\ putting
    /\ row.source = None
    /\ row' = [row EXCEPT !.source = uploads + 1, !.status = "live"]
    /\ uploads' = uploads + 1
    /\ putting' = FALSE
    /\ UNCHANGED <<store, profile, tasks, notices, crashes, reopens,
                   printLost, reprofiled>>

ChangeProfile ==
    /\ ~reprofiled
    /\ profile' \in Profiles \ {profile}
    /\ reprofiled' = TRUE
    /\ UNCHANGED <<row, store, uploads, putting, tasks, notices, crashes,
                   reopens, printLost>>

-----------------------------------------------------------------------------
(* The provider. It holds two signed URLs: one reads the normalized object,
   at the same key whatever is in it by then, one writes the hand-off. *)

Heard(t) == {tasks[t].hash.file, store.normalized[tasks[t].hash.profile]} \ {None}

\* Also after the task's deadline has passed.
ProviderWrites(t) ==
    /\ t \in DOMAIN tasks /\ tasks[t].wrote = None
    /\ tasks[t].state \in {"running", "failed"}
    /\ \E file \in Heard(t) :
         /\ store' = [store EXCEPT !.handoff = file]
         /\ tasks' = [tasks EXCEPT ![t].wrote = file]
    /\ UNCHANGED <<worldVars, row, notices, crashes>>

TaskEnds(t) ==
    /\ t \in DOMAIN tasks /\ tasks[t].state = "running"
    /\ \E state \in {"ok", "refused", "failed"} :
         /\ state = "ok" => tasks[t].wrote # None
         /\ state = "refused" => tasks[t].wrote = None
         /\ tasks' = [tasks EXCEPT ![t].state = state]
    /\ notices' = notices \cup {t}
    /\ UNCHANGED <<worldVars, row, store, crashes>>

-----------------------------------------------------------------------------

NewRow ==
    [status |-> "live", retry |-> 0, source |-> 1, normalized |-> None,
     hash |-> None, segments |-> None, transcript |-> FALSE, written |-> None,
     done |-> {}, awaiting |-> None,
     prints |-> [convert |-> None, transcribe |-> None, merge |-> None]]

\* finalize_upload has just accepted the first file.
Init ==
    /\ row = NewRow
    /\ store = [source |-> 1, normalized |-> [p \in Profiles |-> None],
                handoff |-> None, transcript |-> None]
    /\ profile = CHOOSE p \in Profiles : TRUE
    /\ uploads = 1 /\ putting = FALSE
    /\ tasks = <<>> /\ notices = {}
    /\ crashes = 0 /\ reopens = 0
    /\ printLost = FALSE /\ reprofiled = FALSE

Workers ==
    \/ ConvertStage \/ TranscribeStage \/ MergeStage \/ Finalize
    \/ \E t \in notices : Resume(t) \/ TaskFailed(t) \/ IgnoreNotice(t)
Requests == Reopen \/ PutFile \/ FinalizeUpload \/ ChangeProfile
Providers == \E t \in 1..MaxTasks : ProviderWrites(t) \/ TaskEnds(t)

Next == Workers \/ Requests \/ Providers

Spec == Init /\ [][Next]_vars

-----------------------------------------------------------------------------
(* Properties *)

\* The last accepted file is never lost: the upload is deleted only when its
\* audio is stored, whatever fails, repeats or dies in between; unless convert
\* has forgotten what its audio was made from.
AudioIsKept ==
    printLost \/ store.source = uploads
              \/ \E p \in Profiles : store.normalized[p] = uploads

\* The keys of the row name stored objects, unless a worker died between
\* deleting the upload and forgetting its key.
KeysResolve ==
    crashes = 0 =>
        /\ row.source # None => store.source = row.source
        /\ row.normalized # None =>
             store.normalized[row.normalized] = row.hash.file
        /\ row.transcript => store.transcript = row.written

\* A recording only finishes on the audio of the last accepted file (unless
\* convert has forgotten its input, and with it the means to notice another),
\* and with a transcript.json that holds its segments, however often they were
\* replaced and whatever merge left behind when it died.
FinishesOnLastFile ==
    [][row.status # "completed" /\ row'.status = "completed" =>
         /\ ~printLost => /\ row.hash.file = uploads
                            /\ store.normalized[row.normalized] = uploads
         /\ store.transcript = row.segments]_vars

\* checkpoints.py:26: "Change the input and the stage recomputes". Not run: a
\* reprocess after the purge makes convert forget its input (README, section 6).
ChangedInputIsConverted ==
    [][row.status # "completed" /\ row'.status = "completed" =>
         row.hash.file = uploads]_vars

\* A transcript a provider delivered leaves the postbox only for the row, or
\* because it is refused as empty, or with the worker that had taken it.
DeliveredIsCollected ==
    [][store.handoff # None /\ store'.handoff = None =>
         \/ row'.segments = store.handoff
         \/ row'.status = "stopped"
         \/ crashes' > crashes]_vars

=============================================================================
