# stapel-recordings in TLA+

This directory holds the specification, the model-checking configurations and
the machine-checked proofs kept beside `stapel-recordings`, the Django library
that takes a recording from an upload through a configurable pipeline of stages
(convert, transcribe, diarize, merge, embed) to a transcript, a summary and a
search index. Paths below are relative to the repository root.

## 1. The system

Everything durable is in one relational database and one object store. Work is
driven by events of `stapel_core.comm`: an outbox commits with the row that
emitted it and delivers at least once; tasks (`llm.transcribe`,
`llm.summarize`) run elsewhere and come back as `task.completed` or
`task.failed`.

| Component | State it keeps | Operations | What makes it correct |
|---|---|---|---|
| Stage driver (`pipeline.py`, `actions.py`, `checkpoints.py`) | `Recording.status`, `retry_count`, `workflow_state.pipeline` (run identity, completed names and index, `awaiting`, fingerprints, invalidations) | `start_pipeline`, `run_stage`, `resume_stage`, `fail_stage`, `retry_recording`, `resume_after_payment`, `reprocess_recording`, `close_recording`, `invalidate_from` | one charge per run; a terminal row moves only on request; nothing live is stranded; a checkpoint tells the truth about its input |
| Built-in stages (`stages.py`) | segments, speakers, transcript and audio objects, the hand-off object | `run`, `resume`, `task_failed` of each stage, `submit_task` | idempotent; never pays twice for the same input; never adopts the wrong answer |
| Watchdog (`recordings_reconcile.py`) | `reconcile_redrives` | one pass: re-drive, give up, sweep abandoned uploads, repair summaries | everything live ends; a re-drive does no harm |
| Uploads (`services.py`, `chunked.py`, upload views) | `UploadSession`, `file_storage_key`, multipart uploads in the store | create, start/sign/complete/abort multipart, finalize, clean up | one object per recording, queued exactly when it is there |
| Re-summaries (`stages.py` from `_inflight_summarize_jobs`) and repair (`summary_repair.py`) | `Job` rows, `metadata.summary*` stamps | start, resume, fail, repair ladder | one answer per request, a summary stamped with the transcript it was made from |
| Duplicates (`duplicates.py`) | waivers in `workflow_state` | detect, waive, reuse | a transcript is reused only for the same audio |
| Shares (`shares.py`) | `RecordingShare` rows | create, unlock, revoke, change passcode | a token dies with the secret it was given for; lockout counts every failure |
| Erasure and retention (`erasure.py`, `tasks.py`, `gdpr.py`) | rows and every object they name | soft delete, erase, purge | nothing of an erased recording is left |
| Account merge (`actions.py`) | owner columns | `handle_user_merged` | every row moves, once |
| Embeddings (`vector/embedding.py`) | `Embedding` rows | embed, prune, re-embed | rows match the text they claim |
| Search, questions, evaluation (`vector/`) | none | queries | ranking |
| Configuration, API, code generation | none beyond settings | | |

How they interact: `finalize_upload` queues the row and emits
`recording.uploaded`; the driver answers with `recording.stage(0)` and then
emits one stage event per completed stage; a stage that needs a provider
submits a task and parks in `awaiting`; the task's outcome comes back as an
event of its own; the watchdog re-emits stage events for rows that have not
moved; users and the host reopen terminal rows; `recording.completed`,
`recording.failed` and `recording.needs_payment` are what billing consumes.

What is hard: every event may be delivered again, late and out of order; a
task's answer can cross a retry, a reprocess, a change of its input or a
declaration; the watchdog works on rows it did not lock; object storage is not
in the transaction. `PROJECT.json` lists these hazards at their lines.

## 2. Plan

Done, in this order:

1. **`Pipeline`**: the driver, with tasks, hand-off and fingerprints;
   **`Lifecycle`**: its abstract specification; **`Reconcile`**: the watchdog and
   a lossy bus around the driver.
2. **`Upload`**: sessions, multipart, finalize and clean-up against concurrent
   requests; the sweep of abandoned uploads.
3. **`StageBodies`**: what the stages do to the row and to storage, with crashes
   between the two; **`Erasure`**, composed with it.
4. **`Summary`**: the summary half of merge, re-summaries, the repair.
5. **`Shares`**; **`Ownership`** (duplicates and account merge).
6. **`Algorithms`** (pure functions against reference definitions) and
   **`Embeddings`**, composed with it.

7. Proofs: `Pipeline` and `Lifecycle`, `Upload`, `Shares`, then `Summary`,
   `Ownership`, `StageBodies`, `Erasure`, `Embeddings` and `Algorithms`: every
   safety property their runs check.

Left, of the models: `DjangoStorageBackend`, the transcript schema's hash, inline
dispatch in `Summary`, several recordings in the repair. Of the proofs: a version
of `BillInv` for the race with the watchdog, where the present one does not hold.

Each module takes its parameters as CONSTANTS with a named assumption, has one
action per handler and states its invariants as conjunctions, so that the
proofs can follow.

## 3. The modules

### `Pipeline` — the stage driver for one recording

Recordings do not interact in the driver, so one is enough. Every handler takes
the row with `select_for_update` and commits it together with its outbox rows:
one handler is one step, and a crash before the commit is a step that did not
happen (delivery will be repeated).

| Variable | Code |
|---|---|
| `row` | the recording: `status` (`"active"` stands for queued and for every status a stage sets, which no guard of the driver tells apart), `retry_count`, and `workflow_state.pipeline` field by field; `run` is the attempt number, 0 before a run identity exists |
| `uploaded`, `stageEvents`, `notices` | deliveries in flight; handling one may leave it in flight (at least once), and the sets deliver in any order |
| `tasks` | tasks started, with their dedupe key and the input they were started for |
| `inputs`, `silent` | the version of what each stage would be computed from now; the stages of `Elusive` that cannot say now what it is, as convert cannot once its source is purged (`stages.py:479-481`): `Fingerprint` is then `None`, as it is of a stage that declares none |
| `made`, `handoff` | the version each stored artifact, and the hand-off object, was computed from |
| `completions`, `verdict`, `repeated` | history for the properties: events published per run, repeated completions |
| `doubted` | history: the stages whose recorded fingerprint may not tell, by the causes `Doubts` lists |

`RunStage(e)` is `run_stage` for event `e`, split by how it ends: dropped,
resolver error, empty list, finalized, unknown stage, completed, aborted,
awaiting a task, or finished with a task that was already over when its status
was read. `ResumeStage`, `FailStage` and `IgnoreNotice` are the two task
handlers. The list `PIPELINE_RESOLVER` returns is chosen afresh at every
delivery from `Pipelines`. A stage's body may raise anything at any time, so
errors need no cause in the model; it may do so with its artifact there, or
having just stored it (convert, whose source cannot be purged). An asynchronous
stage may complete without a task: transcribe on a stranded hand-off or on the
transcript of the recording it repeats, merge with nothing to ask. A hand-off is
independent of the dispatch, so inline tasks may use it too. `AsyncStages`,
`HandoffStages`, `Recovering`, `Fingerprinted` select what the built-in stages
do: transcribe is asynchronous with a hand-off, merge is asynchronous and
recovers from `task.failed`, convert, diarize and embed are synchronous.

### `Lifecycle` — what observers are promised

Four phases, a run number and the last report per run. `Pipeline` implements it
under `phase <- Phase`, `run <- EnsureRun(row).run`, `reports <- verdict`.

### `Reconcile` — the watchdog

`WatchdogReads` takes the snapshot the pass iterates over, `WatchdogWrites`
counts the re-drive and re-emits, or gives up; what is written is the
snapshot's cursor (`save(update_fields=["workflow_state"])`) over the row's
current status. `Lose` drops an event or an answer.

### `Upload` — how a recording gets its file

One recording: the sessions of different recordings share nothing. Only
`_finalize_upload_locked` takes the row lock; every view reads its rows first
and acts on them later, so a request is a record of what it read (`request`)
and each further step of it is an action.

| Variable | Code |
|---|---|
| `rec` | `status` (`"queued"` stands for everything after it) and whether `file_storage_key` is set |
| `sessions`, `kind`, `expired` | `UploadSession` rows in the order of `created_at`: open, finalized or gone; single PUT, legacy or verified multipart; `expires_at` |
| `object` | what is at the storage key (all sessions of a recording share it): nothing, something verification accepts, something it refuses |
| `transfer` | what each multipart upload in the store holds |
| `request` | per request in progress: its operation, its session, the `finalized_at` it saw, the open sessions its query listed |
| `swept` | the sweep's query returned the recording |
| `announced`, `purged`, `crossed` | history: `recording.uploaded` events, purges, and whether two requests were ever in progress together |

A view is a `...Reads` action followed by its effects: `StartReads`,
`ListOpenSessions`, then `SupersedeAndCreate` or, when the store fails,
`SupersedeOnly`; `FinalizeReads` or `CompleteReads`, then one of the ends of
the locked transaction (`AlreadyFinalized`, `ClaimTooLarge`, `PartsRefused`,
`RejectObject`, `SessionIsGone`, `Accept`) and `Cleanup` after a rejection;
`AbortReads`, then `AbortSession`. A transaction that is undone leaves the
multipart upload completed in the store. The first session is the single PUT
the creating view opens (`Init`); the repository opens no other of that kind.
The sweep, the client's transfers and the convert stage's purge run beside
them. The store is `S3Backend`: it swallows the errors of an abort, and
`head_object` answers "absent" for every error.

### `StageBodies` — the stages' effects on one recording

A stage runs inside the driver's transaction; storage is not in it. `Commits`
is the pair of both: the objects change, and the row changes with them or the
worker dies first. The driver is reduced to the cursor, the fingerprints and the
retries.

| Variable | Code |
|---|---|
| `row` | `file_storage_key` (`source`: which accepted file it stands for), `normalized_storage_key`, `audio_content_hash`, segments, `transcript_storage_key`, the cursor with its fingerprints, `awaiting`, `retry_count` |
| `store` | what lies under the source key, each profile's normalized key, the hand-off key and the transcript key; keys name the recording, so a later object replaces an earlier one |
| `profile` | the audio profile of the settings |
| `uploads`, `putting` | files accepted; a file that is there but not finalized |
| `tasks`, `notices` | transcription tasks and their outcomes in flight |
| `crashes`, `reopens`, `printLost`, `reprofiled` | history; `printLost`: convert has completed without recording what its input was |

`ConvertStage`, `TranscribeStage`, `MergeStage` are the `run` of the three
stages (diarize changes nothing); `Resume` and `TaskFailed` are transcribe's
answers; `Purges`, `Accepts`, `CollectsStranded`, `CopiesDuplicate` are
`_purge_source`, `_persist_transcript` with `_discard_handoff`,
`stranded_handoff` and `reuse_waived_duplicate`. The provider holds two signed
URLs: it hears whatever is stored at the normalized key by then, and may write
its hand-off after its deadline.

### `Erasure` — the end of a recording

Extends `StageBodies` with the soft delete, the erasure request (whose
redelivery and time-out are stapel-gdpr's) and `erase()`. `Lives` is the
recording's life up to then; `Writes` is a signed PUT, by the client or the
provider, which needs no row. `Erases` deletes the row's keys and the probed
hand-off, any of them failing, then the row; its transaction may be lost after
the deletes. `strays` records what put an object out of its reach.

### `Summary` — the summary of one recording

| Variable | Code |
|---|---|
| `switches` | `SUMMARIZE_ENABLED` and `SUMMARY_REPAIR_ENABLED`, any values, as the deployment keeps them |
| `text` | version of the transcript; the host may edit it at any time; the versions in `Wordless` have no segment |
| `rec` | status as far as merge goes, `awaiting`, the summary (`of`: the version it was made from, `pinned`: the hash recorded for it), `workflow_state.summary_pending` (`owed`) and `metadata.summary_skipped` |
| `jobs` | `Job` rows of type SUMMARIZE |
| `tasks`, `notices` | `llm.summarize` tasks and their outcomes in flight |
| `pass` | the repair pass between its read, its mark and its request |

`MergeRun`, `MergeResumes`, `Resummarize`, `JobSettles` and the three steps of
the pass (`PassReads`, `PassMarks`, `PassStarts`) follow `MergeStage.run`,
`resume`/`task_failed`, `start_resummarize`, `_apply_summary_result` and
`repair_due`; `Handle` is the dispatch of `actions.py`, `Lose` its dropped
answer. `TaskEnds` is the provider's answer or the task's deadline. Where
summaries are off, or nothing was said, merge returns without any of the three
outcomes (`stages.py:1183`, `stages.py:1194`); debts are made and repaired only
where both switches are on (`Repairs`).

### `Shares` — one link

An unlock request is `UnlockReads` and then one of its ends, on the copy it
read: refused, open, right (the count set to zero in the row as it is now) or
wrong (counted under the row lock). The owner sets passcodes and revokes
meanwhile; locks, tokens and the share itself expire. A passcode is known by the
version it was set at. `failures` is history.

### `Ownership` — who owns, and who pays twice

Two recordings, two accounts. `Create`, `StartUpload`, `StartMultipart` and
`FinalizeUpload` carry the refusal of `duplicates.py` and the owner's request.
`ConvertSource` makes the audio and purges the source, after which another
upload is accepted (`views.py:658`) and the old session's fingerprint still
counts; `mixed` is history: the recordings given another file than their first,
and those that took a waiver or a transcript from one. `JudgeRun` is `judge_run`
with its three ways to a verdict, `Finish` takes or buys the transcript and
announces the charge (`completed_fields`), `Reprocess` begins the next run.
`UserMerged`, `HandleUserMerged`, `SurvivorProjected` and `GuestDeleted` are the
account merge; the foreign key is set to null when the guest's row goes.

### `Algorithms` — pure functions

`SplitOversized`, `BuildWindows` (`vector/chunking.py`), `Batched`
(`vector/embedding.py`), `Utterances` (`stages.py`), the parts and the manifest of
a verified upload (`chunked.py`), `Fused`, `Reranked` and `Search`
(`vector/search.py`). Lengths are counted in words. Loops are recursive functions
over the places of their input, with one operator for a turn (`AddPiece`,
`AddText`, `AddWord`); what the code sorts is the arrangement of a set that its
key allows (`Arranged`), which is unique, so that `CHOOSE` chooses nothing.
`CutsAreExact` and `RankingIsExact` compare them with what their callers rely on;
the run of `Embeddings` checks both, with their use on its own rows, as
`CutsLoseNothing` and `RankingHolds`.

### `Embeddings` — the rows of the vector layer

`embed_recording` as `Read`, `Embed`, `Store`, `ReadSummary`, `Finish`, with
`Fail` and `Crash`, run by the stage (rows appear with its transaction) and by
`recordings_reembed` (each row for good) at once. Between a pass's reads and its
writes the transcript, a speaker's name, the summary, the embedder and the rows
change (`Retranscribe`, `Rename`, `Resummarize`, `SwapModel`, `PruneScheme`,
`PruneOtherModels`). `fresh` is history: a pass nothing changed under is through.

## 4. What is checked

Every configuration but that of `shares` allows deadlock: a completed, failed,
deleted or erased recording with nothing in flight may rest, and so may an upload
that was given up. An invariant whose name ends in `Inv` or `Hold`/`Holds` is a
conjunction of named parts.

| Run | Question | Outcome |
|---|---|---|
| `pipeline_driver` | the driver under duplicates, edited lists, hand-offs, recovery, two runs | `TypeOK`, `CompletedOncePerRun`, `ChargedIsNotRefunded`, `LiveHasDriver`, `ReopeningKeepsTheBill`, `ImplementsLifecycle` hold |
| `pipeline_inputs` | inputs of both stages change at any time, and one goes out of reach of its fingerprint and comes back | `PrintsAreTrue`, `DeliveredIsCurrent` hold, but for the stages of `doubted` and those that cannot say what their input is |
| `pipeline_inline` | inline dispatch, with declarations, a hand-off and an input that goes out of reach | `CheckpointsHold` (`DeclarationsHonoured`, `PrintsAreTrue`) and `ReportedOnce` hold |
| `reconcile_race` | the unlocked pass, a lossy bus | `NothingHangs` holds |
| `uploads` | two requests at a time, three sessions, transfers, sweep and purge beside them | `AnnouncedOncePerUpload`, `GoneStaysGone`, `SweepSparesAccepted` hold however requests overlap; `AloneAcceptedIsStored`, `AloneOneLiveSession`, `AloneMarkerOutlivesSource` as long as they do not |
| `stage_bodies` | two files, two profiles, a crash, a retry or reprocess, late and lost answers | `AudioIsKept`, `KeysResolve`, `FinishesOnLastFile`, `DeliveredIsCollected` hold |
| `erasure` | the same life, ended at any time by an erasure that fails in parts | `ErasureInv` (what an erased recording can leave behind), `RemovedIsErased` hold |
| `summaries` | merge, users, staff and watchdog ask for one summary, in any setting of the switches; the transcript is edited or empty; answers repeat or are lost | `JobsInv`, `JobsSettleOnce`, `SkippedIsNeverOwed`, `NothingForgotten`, `OwedIsSettled` hold |
| `shares` | two unlock requests overlap each other and the owner | `TokenDiesWithItsSecret`, `CountInv`, `LockoutHolds` hold |
| `ownership` | a guest and a user, two recordings, two files, second uploads, a merge | `AskedIsCharged`, `NothingIsStranded` hold; `ChargeInv`, `TextOfOwnFile` for recordings that kept their file and repeat one that did |
| `embeddings` | stage and command embed while everything changes; the pure functions on every input up to the bound | `RowsInv`, `CutsLoseNothing`, `RankingHolds` hold |
| `rejection_deletes_accepted` | | violated: the clean-up of one finalize deletes what another accepted |

**Bounds.** Two stages, one synchronous and one asynchronous, in both orders and
with either missing: guards compare a stage with the cursor, its predecessors
and its successors, and two give each. Two runs, because the third relates to
the second as that to the first; two tasks, one of them stale or superseded; two
input versions. One retry exercises the ladder's both ends, in
`pipeline_driver`; the two runs about checkpoints take none, since a retry is
another delivery to them. In these the synchronous stage is the elusive one
(`Elusive`), as convert is; in `pipeline_inline` the asynchronous one, without a
fingerprint, leaves a hand-off. Inputs that revert, and hand-offs of a
fingerprinted stage under asynchronous dispatch, are covered by the theorems
only. `completions` counts to "several". One stage, one loss and one re-drive
for the liveness run: a longer list only repeats the argument stage by stage,
since completing one resets the counter. Two requests make every race between a
read and its use; three sessions are the single PUT, a multipart upload and the
one that supersedes it; one purge separates "held" from "held before".

In `stage_bodies` a second file, a second profile, a second task and one retry
each make the difference between old and current once; one crash separates every
storage effect from its commit, at any place. `erasure` keeps one profile and no
retries, which its liveness can afford (the safety half was also run with two
profiles, 4.3 million states). In `summaries` two versions of the transcript and
an empty one, two tasks and two jobs are one current and one overtaken of each;
the delays 2, then 3 for 4, meet the ceiling. In `shares` two failures to a
lockout and a cap of four give two lockouts before the cap, and two requests can
cross it together. In `ownership` two recordings are an original and its copy,
in both roles at once; one second upload or second run (`MaxAgain`) and one
fingerprint that clients send, rightly or not (`Claims`), beside none. In
`embeddings` one text fills a window with another and one fills two alone; the
pure functions see every input of up to three elements, with limits small enough
to overflow: a target of five words, batches of two.

**Fairness.** In `reconcile_race` only the watchdog is fair (`WF` of reading and
of writing): it is the periodic process the deployment guarantees. No provider
is assumed to answer, no event to be delivered, no user to act. The model takes
a pass to reach a stuck row eventually; in the code it looks only at rows
untouched for `STUCK_THRESHOLD_SECONDS`, so an event redelivered forever within
that time would put it off, which at-least-once delivery does not do. In
`summaries` the steps of the pass are fair for the same reason, `TaskEnds`
because tasks have deadlines, `Handle` because outcomes are delivered at least
once (`Lose` takes its place when the task cannot be read), `DeadlinePasses`
because time passes. In `erasure` the purge is on the beat schedule (`WF`), and
`SF` of `EraseSucceeds` says that a request made again and again is one day
delivered while the object store works. In `ownership` `user.merged` is
redelivered until it is handled, and users are projected (`WF` of both).

## 5. What is proved

The `...Proofs` modules are checked by TLAPS for every value of the constants,
from the named assumptions of the modules they are about and nothing else:
`ConstantsAssumption`, `UploadAssumption`, `StageAssumption`,
`SummaryAssumption`, `ShareAssumption`, `OwnershipAssumption`,
`AlgorithmsAssumption`, `EmbeddingsAssumption`, and the assumptions that `None`
is no record (`NoneIsNoEntry`, `NoneIsNoRecord`). TLC evaluates each on every
run of its module. Where a module has one invariant behind all its theorems it
is called `IInv`; each of its parts was checked by TLC on the module's
configuration before it was proved.

**`PipelineProofs`.** The proofs go by outcome: a handler works on a row "in
hand" (`InHand`: live, on the recording's run or its first), and one lemma per
outcome (`Fail`, `ParkForPayment`, `Finalize`, `HandleRetry`, `CompleteStage`,
`AwaitTask`) shows what it does to the public half of the state; `EnvOK` carries
the rest.

* `TypeCorrect`; `BillIsKept`, `CompletesOnce`, `ChargeStands`: `BillInv`, and
  from it `CompletedOncePerRun` and `ChargedIsNotRefunded`. Neither is inductive
  alone: that a run completes once rests on the fact that a run with a completion
  is behind the recording, or is the current one and the row is completed or
  deleted, where no handler works and no request reopens the same run.
* `NothingIsStuck`: `LiveHasDriver`. Inductive with `NotStarted` (a recording no
  handler has touched has completed nothing), and with `AwaitedIsStarted`: the
  task a stage waits for exists, so its end will be heard.
* `PrintsTell`, `FinishedIsCurrent`: `PrintsAreTrue` and `DeliveredIsCurrent`,
  from `ConstantsAssumption` alone. Every step is shown to be one of five kinds
  (`StepKinds`): it leaves artifacts and fingerprints alone, stores an artifact
  and stops, parks a stage, completes one on what its body made, or completes one
  on an answer. For the last, the fingerprint recorded is the one the waiting
  entry carries, which is the key of its task (`AwaitInv`), and a task with a
  fingerprint for a key was started from that input; that the artifact kept is of
  that input too follows from an order: inputs that never revert leave nothing an
  artifact could come from (`Sources`: artifact, hand-off, tasks) ahead of the
  input (`AgeInv`). `PrintsInv` says where a recorded fingerprint is about its
  artifact and where it is not: the stages in `doubted`, whose causes are the
  code's (a completion without a fingerprint, an artifact stranded by a body that
  then failed, a hand-off adopted or read in place of the answer, a recovered
  failure, a completion a later answer is recorded over), until one completes
  on the input it records.
* `InlineCheckpoints`, `InlineReports`: with inline dispatch a declaration is
  honoured, fingerprints tell the truth whatever the inputs do, and a stage is
  reported once, because no task is in flight when a handler returns
  (`InlineInv`, `DeclaredInv`).
* `DriverKeepsPromise`: `Spec => ImplementsLifecycle`; every outcome of a handler
  is shown once to be a lifecycle step or invisible, and every handler to be one
  of them. `ReopeningIsSafe`: `ReopeningKeepsTheBill`.

**`UploadProofs`.** Each property of the run `uploads`: `UploadTyped`,
`OneAnnouncement`, `SweepIsSafe`, `GoneForGood`, `AloneKeepsObject`,
`AloneOneSession`, `AloneMarker`. The invariant says of the sweep that an
announced recording is queued, which the sweep's UPDATE excludes; and of
requests that have not overlapped that one of them at most is in progress
(`Alone`) and that what it read is still so (`Current`): the session a
completion, an abort or a clean-up works on is not finalized, a clean-up finds
no key, and the list a start made is the set of open sessions. Those are the
facts an overlap destroys, and with them the three `Alone...` properties.

**`StageBodiesProofs`.** `TypesHold`, `AudioStays`, `KeysHold`, `FinishesRight`,
`NothingDiscarded`: all properties of the run `stage_bodies`. `IInv` has a part
for each thing a stage may forget:

* `Keys`: which files can lie under the source key; inductive with the types
  alone, which is why both survive an erasure in progress.
* `Audio`: a recording without a source has its last file converted, and what
  convert has recorded is about the audio the row names or about one the source
  has replaced since.
* `Known`, `Rising`, `Asked`: files are numbered in the order they were accepted,
  and nothing downstream (audio, task, hand-off, segments) is of a later file
  than the row's audio, while a provider asked about a file hears that file or a
  later one, because keys name the recording. Once convert has forgotten its
  input, that audio is the latest of all until convert runs again.
* `Merged`: `transcript.json` is never older than the row knows, and never newer
  than the segments unless an answer about earlier audio came in late.

Each stage has one lemma for its effect on the row and the store
(`ConvertEffect`, `TranscribeEffect`, `ResumeEffect`, `MergeEffect`), whether it
commits or dies; the steps that leave the audio alone (`Beside`) and those that
tell the truth of what they stored (`Told`) share their preservation lemmas.
The proof uses that the profile changes once at most, a bound of the model.
`AudioIsKept` without the exception for a lost fingerprint is false, which came
to light in this proof (section 6).

In the same module, on `Erasure`: `ErasureHolds`: `ErasureInv`. Until the row is
gone every object is one the row names, or one a recorded cause put there
(`Orphans`); the recording's life keeps this by the lemmas on its stages.

**`SummaryProofs`.** `JobsHold`, `SkipsHold`, `DebtsHold`, `SettleOnce`: every
safety property of the run `summaries`, for any switches. Every writer of the row
leaves a summary, a skip or a debt (`Accounted`) where debts are made, unless
there is nothing to be had, and never a skip with a debt (`Sound`); a job in
progress is the only one, and waits for a task of its own.

**`SharesProofs`.** `TokensDie` rests on `VersionsAgree`: every copy and every
token of the version in force has the passcode in force, because both change in
one UPDATE. `CountIsExact` bounds the count: below the cap it is free, and from
the cap on the count and the requests that read the row before it (`Pressing`)
together stay below the cap and the number of requests, since each failure uses
up one of them. `LockoutStands` needs only the types.

**`OwnershipProofs`.** `ChargesHold`, `TextsHold`, `RequestsHold`: every safety
property of the run `ownership`. Of every row: nothing is found, or made, of a
file that is not there (`RowShape`). Of a recording that is not `mixed`, its
source, its audio, its verified uploads and its transcript are of one file, which
is paid for, by whoever and in the coverage it claims, once it is completed,
billed or waived (`RowOwn`); and what it repeats is the same file until that is
deleted or given another one (`Repeats`). A recording's own change disturbs the
others only where they may repeat it (`Unrepeated`). An account that is gone was
merged, so no row is its.

**`EmbeddingsProofs`.** `EmbeddingsHold`: `RowsInv`. A text counts as embedded
through any row with its hash, so the invariant has to say that no write puts
another text in that row's place. `EmbeddingsInv` says of a pass that nothing
changed under that it works only on units of now (`PassesRight`), so what it
upserts over an answering row is the same text, and that it leaves no unit out
(`PassesCover`); and that both passes know it when something has changed
(`AloneAgree`), so an old pass never ends beside one that makes the rows fresh.
It also says which rows a pass has in hand (`Work`): a summary's chunk answers at
its own index only, which is why pruning the chunks beyond the last one loses
nothing.

* `TranscriptHolds`: `WindowsHoldTranscript`, the use of the windows by
  `segment_units`: that a unit has a place of its own in the table rests on them.
* `NothingIsLost`: `CutsLoseNothing`, from `TranscriptHolds` and `CutsHold`.
* `OrderIsKept`: `RankingHolds`, from `OrderHolds` and one more invariant,
  `RowsFinite`: the rows, and what a pass has to do and has made, are finite sets
  (each recording has finitely many units, a pass makes one row of each). Without
  it the rows a search finds could not be put in a sequence at all. TLC cannot
  see an infinite set, so this one has no run.

**`AlgorithmsProofs`.** Each promise of the pure functions, for every value of the
constants: the limits are any limits, and inputs are as long as any `Bound`
(listings of the store are the small ones `Listings` and `ManifestIsTheFile`
name). The functions recurse over their data. That they exist and what they
compute is proved by induction on the set of numbers a fact holds of
(`Induction`, from the well-foundedness of inclusion on finite sets), with no
operator parameter; then each loop has an invariant of its own.

* `WindowsHold`: `WindowsCover`. `Packed`: the windows so far are overlapping
  runs of the pieces, and the lines in hand are the run that ends with the last.
* `BatchesHold`, `UtterancesHold`: `BatchesPartition`, `UtterancesPartition`
  (`Batching`, `Uttering`). What
  is done and what is in hand are, end to end, the input so far (of the
  utterances: without those that say nothing); and what is in hand is within the
  limits, or is one text alone.
* `PartsHold`, `ManifestHolds`: `PartsMakeTheFile`, `ManifestIsTheFile`. The sums
  of the first parts are where the next part begins, by the arithmetic of the
  rounded-up division; a listing with nothing missing has one good part of each
  number, and with the sizes expected of them.
* `FusionHolds`, `RerankHolds`, `SearchHolds`: `FusionRespectsArms`,
  `RerankKeepsHits`, `MoreKeepsTheOrder`. A finite set with a strict total order
  has an arrangement (`Arrangement`, by counting what comes before each member),
  so the fused hits are ordered by score and then by key (`Ranks`); a share of
  an arm's score falls strictly with the place (`SharesFall`: the common
  denominator is divided exactly by every `RrfK + i` up to `Bound`), which is
  what a key placed ahead in every arm gains by. A reranked head is a
  permutation of the head (`Permutes`), the same for the same head; the first
  hits of a larger search are the hits of the smaller (`Begins`), arm by arm,
  through fusion, reranking and the cut.
* `CutsHold`, `OrderHolds`: `CutsAreExact`, `RankingIsExact`, all of the above.

**Only model-checked.** Liveness (`NothingHangs`, `RemovedIsErased`,
`OwedIsSettled`, `NothingIsStranded`), which the prover does not do, and the race
with the watchdog, where `BillInv` does not hold. Every other property of a
passing run is a theorem.

## 6. Disagreements met while modelling

One is kept as a run (`rejection_deletes_accepted`). The others are described
here, each at the line it was seen.

*The driver.*

* `run_stage` completes a stage without clearing `awaiting`
  (`pipeline.py:413-426`): when the task's answer comes, the stage is reported a
  second time, and the fingerprint `awaiting` carries is recorded over the one
  the completion recorded. A fatal answer leaves `awaiting` behind too
  (`pipeline.py:477-480`), which a second delivery acts on again.
* A stage that completes while it cannot say what it reads drops the fingerprint
  it had (`checkpoints.py:128`), and changes of its input are not noticed from
  then on: in the default deployment convert, once its source is purged
  (`stages.py:481`). "Change the input and the stage recomputes"
  (`checkpoints.py:26`) does not hold of it. `PrintsAreTrue` and
  `DeliveredIsCurrent` except it by name (`doubted`, `silent`).
* A body may store its artifact and then raise (`stages.py:664-671`): the next
  delivery finds it and records the fingerprint of the input as it is by then.
* The hand-off key names the recording and not the input (`stages.py:2107`): a
  late answer for the old input is read as one for the new.
* Any completion of a stage clears the declaration that its input changed
  (`pipeline.py:1041`), also one that was computed before.
* The watchdog re-emits the index the row already has, which the driver drops as
  a duplicate when that stage is complete (`recordings_reconcile.py:120`,
  `pipeline.py:342`): a lost event is counted, not healed. And it saves
  `workflow_state` from a snapshot over a run that has completed since
  (`recordings_reconcile.py:94`).
* `_handle_retry` compares with `>` (`pipeline.py:822`): a stage may buy
  `MAX_STAGE_RETRIES + 1` tasks, one more than `transcribe_attempt_ceiling`
  states.
* `invalidate_from` before `recording.uploaded` is delivered makes
  `workflow_state["pipeline"]` non-empty, which `start_pipeline` takes for its
  own marker (`pipeline.py:158`): only the watchdog starts the recording.
* An input that goes A, B, A while the task for B is in flight: `resume` keeps
  the artifact of A and the checkpoint records B (`InputsRevert` with
  asynchronous dispatch, which `Excused` names; the theorem shows that it takes
  both).

*Uploads.*

* Two starts that overlap leave two live sessions: each lists the open sessions
  before the other creates its own (`services.py:360` says "One recording, one
  live upload session").
* A finalize of a multipart session with a `file_size_bytes` above its ceiling
  is rejected before the upload is completed; the clean-up deletes the row and
  the object but does not abort the multipart upload, whose parts nothing can
  reach any more (`services.py:606` says "a rejected upload costs the tenant
  nothing").
* `S3Backend.head_object` answers "absent" for any error (`storage.py:375`), so a
  passing failure of the store during finalize deletes a complete upload.
* A finalize that read its session before another finalize committed, and gets
  the lock after the purge, finds both markers empty and removes the session of
  the upload that succeeded (`services.py:669-674` describes the case the
  session's marker is meant for).
* After the purge `MultipartStartView` accepts another upload of the recording
  (`views.py:658` tests only the key); it is announced, and `start_pipeline`
  finds its marker and starts nothing.
* `FinalizeUploadView` does not look at `expires_at`; `MultipartCompleteView`
  does.

*Stages and erasure.*

* `stages.py:1110` says the hand-off is "Deleted only after the rows are
  committed"; it is deleted inside the transaction, and a worker that dies before
  the commit takes the transcript with it. The purge of the source
  (`stages.py:638`) comes before the commit as well.
* `stranded_handoff` adopts whatever lies in the postbox, after a re-upload also
  the transcript of the earlier audio.
* `record_fingerprint` drops the recorded fingerprint when a stage completes
  with nothing to fingerprint (`checkpoints.py:128`), and convert does so when it
  completes on audio it already has, its source purged (`stages.py:481`). A file
  uploaded afterwards is then not noticed: convert counts as complete, and the
  recording completes on the earlier file, against "Change the input and the
  stage recomputes" (`checkpoints.py:26`). `ChangedInputIsConverted` of
  `StageBodies` states it; it is not among the runs, and TLC refutes it in a few
  steps. `FinishesOnLastFile` and `AudioIsKept` are what stays true up to that
  point (`printLost`).
* `_handoff_leftover` answers "none" when the probe fails (`erasure.py:253`): the
  row goes and the hand-off stays. Objects a dead worker stored, audio under
  another profile's key, and signed PUTs after the erasure stay too;
  `ErasedLeavesNothing` names exactly these.

*Summaries.*

* `store_summary` says it pins the summary "to the transcript behind it"
  (`stages.py:1673`); on the way through `resume` it pins the transcript of that
  moment, not the one that was sent (`stages.py:1709`). `SummaryIsPinned` states
  the docstring; TLC refutes it in a few steps with an edit in between.
* `MergeStage.resume` marks a debt although a current summary exists;
  `mark_pending` keeps `gave_up` and `exhausted`, so a fresh refusal is never
  repaired; the repair may buy a summary that has just arrived, between its two
  transactions (`summary_repair.py:296`); a re-summary whose answer is lost stays
  PROCESSING and later requests join it (`actions.py:216-220`); a skip is
  recorded over an existing stale summary.

*Shares.*

* "`SHARE_UNLOCK_FAILURE_CAP` consecutive failures disable the passcode until its
  owner sets one again" (`shares.py:21-24`, `shares.py:135`): a request with the
  right passcode that read the row before the cap was reached sets the count to
  zero after it, and the passcode is enabled again. `LockoutHolds` says so.

*Duplicates and merge.*

* After a re-upload the old session's fingerprint still counts as verified: another
  recording may be waived for it, or be waived itself for a file nobody has paid
  for, and get the wrong file's transcript (`duplicates.py:165-175`).
  `WaivedWasPaid` and `TextOfOwnFile` except the recordings this touches
  (`mixed`); without the exception TLC refutes both within seconds. A second file
  in a run that has announced its charge is not charged again.
  `reuse_waived_duplicate` itself looks at the run only; `reusable_original` does
  not ask again whether the original covers the whole.
* The creating view checks twice, the second time with `allow_duplicate`: a twin
  that finishes in between marks the recording as requested by its owner.
* `MergeTargetNotReady` leaves `user.merged` for a later delivery; if the guest is
  deleted before it, its rows have no owner and nothing moves them
  (`NothingIsStranded` excludes it).

*Embeddings and search.*

* `embedding.py:18-20` says a crash between batches "re-runs the stage and embeds
  only the remainder"; rows are stored only after all batches have answered.
* All rows carry the model of the last batch (`embedding.py:181`).
* `_hash_known` does not compare `chunk_index`: a piece of a long utterance that
  moves to another index is taken for known and then overwritten. A slow pass
  writes an older text's vector over a newer one. (`FreshIsEmbedded` speaks of
  passes nothing changed under, and of anchors with one unit.)
* `prune_summary_chunks` runs only when something is pending
  (`embedding.py:442`), so a summary that only lost its tail keeps the tail's rows.
* `build_windows` can emit a window that only repeats the last one's overlap
  (`chunking.py:185-192`); `_candidate_limit` counts rows, not segments, so with
  windows the reranker may see a short head and asking for more may reorder
  (`search.py:250`).

## 7. Not modelled

Of uploads: `DjangoStorageBackend`, whose abort deletes the object itself, the
lookup of an upload to resume, deletion of the recording during an upload, and a
server that dies between creating a multipart upload and its row.

Of the stages: ffmpeg and the normalisation of audio, the texts of prompts and
answers, languages. Of summaries: inline dispatch, the one-at-a-time repair over
several recordings, purposes beside the default one, switches that are turned
while summaries are under way. Of ownership: a cap on the duration that changes,
a source that is kept (it only lets no other file in). Of embeddings: batches
answered by different models.

The arms of a search, question answering and evaluation are floats, prompts and
external queries without state; the HTTP layer, configuration, checks and code
generation keep no state; the transcript schema and speaker names are
conversions between JSON shapes. `stapel_core.comm`, stapel-gdpr, stapel-auth and
the providers are external and modelled from how the code uses them: deliveries
at least once and unordered, `start` coalescing tasks by their dedupe key, a
provider that writes its hand-off before it answers.
