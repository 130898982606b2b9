------------------------------ MODULE Pipeline ------------------------------
(***************************************************************************)
(* The stage driver of pipeline.py for one recording: the recording row    *)
(* and its workflow_state cursor, the at-least-once events that drive it,  *)
(* the tasks its asynchronous stages submit, and the two side effects the  *)
(* driver's guarantees depend on (the artifact a stage leaves behind and   *)
(* the hand-off object a provider writes before it answers).               *)
(*                                                                         *)
(* Every handler takes the row lock (select_for_update) and commits the    *)
(* row together with its outbox rows, so one handler is one step; a crash  *)
(* before the commit is a step that never happened.                        *)
(***************************************************************************)
EXTENDS Integers, Sequences, FiniteSets

CONSTANTS
    Stages,         \* names of the stages a pipeline may list
    AsyncStages,    \* stages that submit a task and wait for its result
    HandoffStages,  \* async stages whose provider leaves the result in storage
    Recovering,     \* async stages whose task_failed hook completes the stage
    Fingerprinted,  \* stages that declare an input_fingerprint
    Elusive,        \* those that may be unable to say what their input is
    Pipelines,      \* the lists PIPELINE_RESOLVER may return, at any delivery
    Declarable,     \* stages the host may name to invalidate_from
    MaxRetries,     \* MAX_STAGE_RETRIES
    InlineDispatch, \* TASK_DISPATCH = "inline": a task is finished at start()
    InputsRevert,   \* a fingerprinted input may return to an earlier value
    MaxRuns,        \* bound: runs of one recording (reprocess)
    MaxTasks,       \* bound: tasks submitted
    MaxVersion,     \* bound: values of a stage's input
    None

ASSUME ConstantsAssumption ==
    /\ AsyncStages \subseteq Stages
    /\ HandoffStages \subseteq AsyncStages
    /\ Recovering \subseteq AsyncStages
    /\ Fingerprinted \subseteq Stages
    /\ Elusive \subseteq Fingerprinted
    /\ Declarable \subseteq Stages
    /\ Pipelines \subseteq Seq(Stages)
    /\ MaxRetries \in Nat
    /\ MaxRuns \in Nat \ {0}
    /\ MaxTasks \in Nat
    /\ MaxVersion \in Nat
    /\ InlineDispatch \in BOOLEAN
    /\ InputsRevert \in BOOLEAN
    /\ None \notin Nat

VARIABLES
    row,          \* the recording: status, retry_count, workflow_state.pipeline
    uploaded,     \* a recording.uploaded event is in flight
    stageEvents,  \* stage_index of every recording.stage event in flight
    tasks,        \* tasks started, in order; the position is the task id
    notices,      \* ids whose task.completed / task.failed is in flight
    inputs,       \* the input each stage would be computed from now
    silent,       \* stages whose input cannot be fingerprinted now
    made,         \* the input each stage's stored artifact was computed from
    handoff       \* the input the stored hand-off object was computed from

taskVars == <<tasks, notices>>
worldVars == <<inputs, silent>>
storeVars == <<made, handoff>>
eventVars == <<uploaded, stageEvents>>

(* What the outside world has been told; the code never reads it. *)
VARIABLES
    completions,  \* per run: recording.completed events published (2: several)
    verdict,      \* per run: the last of completed / failed / needs_payment
    repeated,     \* stages reported completed while already completed
    doubted       \* stages whose fingerprint may no longer tell (see Doubts)

publicVars == <<completions, verdict>>
dataVars == <<made, handoff, doubted>>
history == <<completions, verdict, repeated>>
vars == <<row, uploaded, stageEvents, tasks, notices, inputs, silent, made,
          handoff, completions, verdict, repeated, doubted>>

-----------------------------------------------------------------------------
(* Types *)

Terminal == {"completed", "error", "needs_payment", "deleted"}

\* "active" stands for queued and for every status a stage sets: no guard of
\* the driver tells them apart.
Statuses == {"active"} \cup Terminal

Versions == 0..MaxVersion
RunIds   == 1..MaxRuns
TaskIds  == 1..MaxTasks
Prints   == Versions \cup {None}
Verdicts == {"none", "completed", "failed", "needs_payment"}

Awaiting == [task: TaskIds, stage: Stages, index: Nat, print: Prints]

\* No awaiting entry is None: a row that waits is told from one that does not.
ASSUME NoneIsNoEntry == None \notin Awaiting

Row == [status: Statuses, retry: Nat, run: 0..MaxRuns,
        completed: SUBSET Stages, completedIndex: Nat \cup {-1},
        stageIndex: Nat, awaiting: Awaiting \cup {None},
        invalidated: SUBSET Stages, prints: [Stages -> Prints],
        redrives: Nat]

\* "written": the provider stored its result but has not answered yet.
TaskStates == {"running", "written", "done", "failed"}
Task == [stage: AsyncStages, key: Prints, input: Versions, state: TaskStates]

TypeOK ==
    /\ row \in Row
    /\ uploaded \in BOOLEAN
    /\ stageEvents \subseteq Nat
    /\ tasks \in Seq(Task) /\ Len(tasks) <= MaxTasks
    /\ notices \subseteq DOMAIN tasks
    /\ inputs \in [Stages -> Versions]
    /\ silent \subseteq Elusive
    /\ made \in [Stages -> Prints]
    /\ handoff \in [HandoffStages -> Prints]
    /\ completions \in [RunIds -> 0..2]
    /\ verdict \in [RunIds -> Verdicts]
    /\ repeated \subseteq Stages /\ doubted \subseteq Stages

-----------------------------------------------------------------------------
(* Reading the row *)

\* Mutant: a completed recording is not terminal.
LiveIfCompleted(r) == r.status \notin Terminal \ {"completed"}
Live(r) == r.status \notin Terminal

\* workflow_state["pipeline"] is a non-empty dict: what start_pipeline tests.
HasMarker(r) == r.run # 0 \/ r.invalidated # {} \/ r.redrives > 0

\* None also where a stage that declares a fingerprint cannot say: its input
\* is gone (convert, once its source is purged), absent, or raises.
Fingerprint(s) == IF s \in Fingerprinted \ silent THEN inputs[s] ELSE None

\* Mutant: only declarations make a stage stale.
IsStaleIfDeclared(r, s) == s \in r.invalidated

IsStale(r, s) ==
    \/ s \in r.invalidated
    \/ /\ r.prints[s] # None
       /\ Fingerprint(s) # None
       /\ r.prints[s] # Fingerprint(s)

Pending(r, s) == s \notin r.completed \/ IsStale(r, s)

\* p[i] is the stage _next_pending returns.
IsNext(r, p, i) ==
    /\ i \in DOMAIN p
    /\ Pending(r, p[i])
    /\ \A j \in 1..(i - 1) : ~Pending(r, p[j])

\* Mutant: any artifact will do.
SatisfiedByAny(s) == made[s] # None

\* The stage's own idempotence guard: its artifact is there and not stale.
Satisfied(s) == made[s] # None /\ ~IsStale(row, s)

-----------------------------------------------------------------------------
(* What a handler makes of the row *)

\* Mutant: every handler mints a run identity.
EnsureRunAnew(r) == [r EXCEPT !.run = @ + 1]

EnsureRun(r) == IF r.run = 0 THEN [r EXCEPT !.run = 1] ELSE r

\* _drop_cursor_from; list position i is index i - 1 of the code.
DropCursor(r, p, i) ==
    [r EXCEPT !.completed = @ \ {p[j] : j \in i..Len(p)},
              !.completedIndex = i - 2]

\* The row when its next stage is known: a stale one takes the tail of the
\* list off the cursor with it.
AtCursor(p, i) == IF p[i] \in row.completed THEN DropCursor(row, p, i) ELSE row

\* Mutant: a stale stage is computed again without leaving the cursor.
BegunInPlace(p, i) == [EnsureRun(row) EXCEPT !.stageIndex = i - 1]

\* The row run_stage has saved before it calls the stage's body.
Begun(p, i) == [EnsureRun(AtCursor(p, i)) EXCEPT !.stageIndex = i - 1]

\* Mutant: the first fingerprint recorded is kept.
CompletedKeepingPrint(r, s, k, print) ==
    [EnsureRun(r) EXCEPT !.retry = 0, !.redrives = 0,
                         !.completed = @ \cup {s}, !.completedIndex = k,
                         !.prints[s] = IF @ = None THEN print ELSE @,
                         !.invalidated = @ \ {s}]

Completed(r, s, k, print) ==
    [EnsureRun(r) EXCEPT !.retry = 0, !.redrives = 0,
                         !.completed = @ \cup {s}, !.completedIndex = k,
                         !.prints[s] = print, !.invalidated = @ \ {s}]

-----------------------------------------------------------------------------
(* The outcomes a handler ends in. Each fixes row, verdict, completions and
   repeated; the events it emits are the caller's. *)

\* History counts no further than "several".
OneMore(n) == IF n = 0 THEN 1 ELSE 2

Ends(r, status, v) ==
    LET q == EnsureRun(r)
    IN  /\ row' = [q EXCEPT !.status = status]
        /\ verdict' = [verdict EXCEPT ![q.run] = v]
        /\ UNCHANGED repeated

\* _dlq and _park_for_payment
Fail(r) == Ends(r, "error", "failed") /\ UNCHANGED completions
ParkForPayment(r) ==
    Ends(r, "needs_payment", "needs_payment") /\ UNCHANGED completions

\* _finalize
Finalize(r) ==
    /\ Ends(r, "completed", "completed")
    /\ completions' = [completions EXCEPT ![EnsureRun(r).run] = OneMore(@)]

\* _handle_retry: parked for the watchdog, or dead-lettered. The raised
\* retry_count is not among the fields _dlq saves.
HandleRetry(r) ==
    \/ /\ r.retry + 1 > MaxRetries
       /\ Fail(r)
    \/ /\ r.retry + 1 <= MaxRetries
       /\ row' = [r EXCEPT !.retry = @ + 1]
       /\ UNCHANGED <<completions, verdict, repeated>>

CompleteStage(r, s, k, print) ==
    /\ row' = Completed(r, s, k, print)
    /\ repeated' = IF s \in r.completed THEN repeated \cup {s} ELSE repeated
    /\ UNCHANGED publicVars

\* Stage s completes on r and records `print`. From then on its fingerprint may
\* not tell what its artifact was made from if it could not say what it reads,
\* if it took what was not made for it (`strange`), or if an answer still to
\* come will be recorded over this completion, which leaves `awaiting` as it
\* is; until it completes on the input it records, that is.
Doubts(r, s, print, strange) ==
    LET overtaken == /\ r.awaiting # None /\ r.awaiting.stage = s
                     /\ r.awaiting.print # print
        unsaid    == s \in Fingerprinted /\ None \in {print, Fingerprint(s)}
        settled   == /\ made'[s] # None
                     /\ made'[s] = IF s \in Fingerprinted THEN print ELSE inputs[s]
    IN  doubted' = IF settled /\ ~overtaken THEN doubted \ {s}
                   ELSE IF overtaken \/ unsaid \/ strange THEN doubted \cup {s}
                   ELSE doubted

\* At-least-once delivery: the event handled may come again.
Deliver(e, emitted) ==
    \E again \in SUBSET {e} :
        stageEvents' = (stageEvents \ {e}) \cup again \cup emitted

Notify(t) == \E again \in SUBSET {t} : notices' = (notices \ {t}) \cup again

-----------------------------------------------------------------------------
(* Handlers of recording.uploaded and recording.stage *)

InitialRow ==
    [status |-> "active", retry |-> 0, run |-> 0, completed |-> {},
     completedIndex |-> -1, stageIndex |-> 0, awaiting |-> None,
     invalidated |-> {}, prints |-> [s \in Stages |-> None], redrives |-> 0]

\* finalize_upload has just committed: queued, with its event in the outbox.
Init ==
    /\ row = InitialRow
    /\ uploaded = TRUE
    /\ stageEvents = {}
    /\ tasks = <<>>
    /\ notices = {}
    /\ inputs = [s \in Stages |-> 0] /\ silent = {}
    /\ made = [s \in Stages |-> None]
    /\ handoff = [s \in HandoffStages |-> None]
    /\ completions = [r \in RunIds |-> 0]
    /\ verdict = [r \in RunIds |-> "none"]
    /\ repeated = {}
    /\ doubted = {}

StartPipeline ==
    /\ uploaded
    /\ uploaded' \in BOOLEAN
    /\ \/ /\ Live(row) /\ ~HasMarker(row)
          /\ row' = [row EXCEPT !.run = 1]
          /\ stageEvents' = stageEvents \cup {0}
       \/ /\ ~(Live(row) /\ ~HasMarker(row))
          /\ UNCHANGED <<row, stageEvents>>
    /\ UNCHANGED <<taskVars, worldVars, dataVars, history>>

\* A stage event that changes nothing: a terminal row, or the duplicate
\* delivery of a completed stage.
DropStageEvent(e) ==
    /\ e \in stageEvents
    /\ \/ ~Live(row)
       \/ \E p \in Pipelines :
            /\ p # <<>>
            /\ e <= row.completedIndex
            /\ \A i \in DOMAIN p : IsNext(row, p, i) => p[i] \notin row.completed
    /\ Deliver(e, {})
    /\ UNCHANGED <<row, uploaded, taskVars, worldVars, dataVars, history>>

\* PIPELINE_RESOLVER raised.
ResolverFails(e) ==
    /\ e \in stageEvents /\ Live(row)
    /\ HandleRetry(row)
    /\ Deliver(e, {})
    /\ UNCHANGED <<uploaded, taskVars, worldVars, dataVars>>

EmptyPipeline(e) ==
    /\ e \in stageEvents /\ Live(row)
    /\ <<>> \in Pipelines
    /\ Fail(row)
    /\ Deliver(e, {})
    /\ UNCHANGED <<uploaded, taskVars, worldVars, dataVars>>

\* Every listed stage has completed.
FinishPipeline(e) ==
    /\ e \in stageEvents /\ Live(row)
    /\ e > row.completedIndex
    /\ \E p \in Pipelines \ {<<>>} : \A i \in DOMAIN p : ~Pending(row, p[i])
    /\ Finalize(row)
    /\ Deliver(e, {})
    /\ UNCHANGED <<uploaded, taskVars, worldVars, dataVars>>

\* Delivery of e runs the body of p[i].
RunsStage(e, p, i) ==
    /\ e \in stageEvents /\ Live(row)
    /\ IsNext(row, p, i)
    /\ p[i] \in row.completed \/ e > row.completedIndex

\* Nothing answers to the name the pipeline lists.
UnknownStage(e, p, i) ==
    /\ RunsStage(e, p, i)
    /\ Fail(AtCursor(p, i))
    /\ Deliver(e, {})
    /\ UNCHANGED <<uploaded, taskVars, worldVars, dataVars>>

\* The body ends without waiting: its artifact is there already, or it is
\* computed now (a synchronous stage, the transcript of the recording this one
\* repeats, a merge with nothing to ask), or a result whose reply was lost is
\* collected from storage (stranded_handoff, only with no artifact at all;
\* it swallows a storage error, and the stage then submits a task instead).
RunToCompletion(e, p, i) ==
    LET s == p[i]
        Completes(strange) ==
            /\ CompleteStage(Begun(p, i), s, i - 1, Fingerprint(s))
            /\ Doubts(Begun(p, i), s, Fingerprint(s), strange)
    IN
    /\ RunsStage(e, p, i)
    /\ \/ /\ Satisfied(s) /\ UNCHANGED storeVars
          /\ Completes(FALSE)
       \/ /\ ~Satisfied(s)
          /\ made' = [made EXCEPT ![s] = inputs[s]]
          /\ UNCHANGED handoff
          /\ Completes(FALSE)
       \/ /\ s \in HandoffStages /\ made[s] = None /\ handoff[s] # None
          /\ made' = [made EXCEPT ![s] = handoff[s]]
          /\ handoff' = [handoff EXCEPT ![s] = None]
          /\ Completes(TRUE)
    /\ Deliver(e, {i})
    /\ UNCHANGED <<uploaded, taskVars, worldVars>>

\* The body, or a submission, raises before any task exists: retryable,
\* out of money or fatal. What a synchronous body has stored by then stays
\* (convert, whose source could not be purged).
RunToAbort(e, p, i) ==
    LET s == p[i] IN
    /\ RunsStage(e, p, i)
    /\ HandleRetry(Begun(p, i)) \/ ParkForPayment(Begun(p, i)) \/ Fail(Begun(p, i))
    /\ \/ UNCHANGED <<made, doubted>>
       \/ /\ s \notin AsyncStages /\ ~Satisfied(s)
          /\ made' = [made EXCEPT ![s] = inputs[s]]
          /\ doubted' = doubted \cup ({s} \cap Fingerprinted)
    /\ Deliver(e, {})
    /\ UNCHANGED <<uploaded, taskVars, worldVars, handoff>>

\* Tasks start() coalesces with: same dedupe key, still in flight. The key
\* carries the fingerprint; without one, the object path, which is stable.
InFlight(s) ==
    {t \in DOMAIN tasks :
        /\ tasks[t].stage = s
        /\ tasks[t].state \in {"running", "written"}
        /\ tasks[t].key = Fingerprint(s)}

\* A task of stage s, in the given state.
TaskFor(s, state) == [stage |-> s, key |-> Fingerprint(s), input |-> inputs[s],
                      state |-> state]

AwaitTask(r, s, i, t) ==
    /\ row' = [r EXCEPT !.awaiting = [task |-> t, stage |-> s, index |-> i - 1,
                                      print |-> Fingerprint(s)]]
    /\ UNCHANGED <<publicVars, repeated>>

\* The body submits a task, or joins the one in flight, and waits for it.
RunToAwait(e, p, i) ==
    LET s == p[i]
        id == Len(tasks) + 1
    IN
    /\ RunsStage(e, p, i)
    /\ s \in AsyncStages /\ ~Satisfied(s)
    /\ \/ /\ \E t \in InFlight(s) : AwaitTask(Begun(p, i), s, i, t)
          /\ UNCHANGED tasks
       \/ /\ InFlight(s) = {} /\ id <= MaxTasks /\ ~InlineDispatch
          /\ tasks' = Append(tasks, TaskFor(s, "running"))
          /\ AwaitTask(Begun(p, i), s, i, id)
    /\ Deliver(e, {})
    /\ UNCHANGED <<uploaded, notices, worldVars, dataVars>>

\* How a task in flight may end. A hand-off provider stores before it answers.
MayEnd(task, state) ==
    \/ state = "failed" /\ task.state \in {"running", "written"}
    \/ /\ state = "done"
       /\ task.state = IF task.stage \in HandoffStages THEN "written" ELSE "running"

\* A stage's resume() persists a result computed from `input`; a hand-off
\* result is whatever lies at the key, which is then discarded.
StoreResult(s, input, box) ==
    IF s \in HandoffStages
    THEN /\ box[s] # None
         /\ made' = [made EXCEPT ![s] = box[s]]
         /\ handoff' = [box EXCEPT ![s] = None]
    ELSE /\ made' = [made EXCEPT ![s] = input]
         /\ handoff' = box

\* Task t is over by the time submit_task reads its status: it was in flight
\* and ended in between, or dispatch is inline and it never waited.
Settles(s, t, state) ==
    /\ \/ /\ t \in InFlight(s) /\ MayEnd(tasks[t], state)
          /\ tasks' = [tasks EXCEPT ![t].state = state]
       \/ /\ InlineDispatch /\ t = Len(tasks) + 1
          /\ tasks' = Append(tasks, TaskFor(s, state))
    /\ notices' = notices \cup {t}

\* The postbox when t is over: inline, the provider has stored its result
\* before it answers, and may have before it fails.
Posted(s, t, state) ==
    LET stored == [q \in HandoffStages |-> IF q = s THEN inputs[s] ELSE handoff[q]]
    IN  IF t \in DOMAIN tasks THEN {handoff}
        ELSE IF state = "done" THEN {stored} ELSE {stored, handoff}

\* The body gets its result, or its refusal, at once. An `awaiting` entry
\* left by an earlier delivery is not cleared.
RunToResult(e, p, i, t) ==
    LET s == p[i]
        r == Begun(p, i)
        Refuses(box) == handoff' = box /\ UNCHANGED <<made, doubted>> /\ Deliver(e, {})
    IN
    /\ RunsStage(e, p, i)
    /\ s \in AsyncStages /\ ~Satisfied(s)
    /\ \/ /\ Settles(s, t, "done")
          /\ \E box \in Posted(s, t, "done") : StoreResult(s, tasks'[t].input, box)
          /\ CompleteStage(r, s, i - 1, Fingerprint(s))
          /\ Doubts(r, s, Fingerprint(s), made'[s] # tasks'[t].input)
          /\ Deliver(e, {i})
       \/ /\ Settles(s, t, "done")
          /\ HandleRetry(r) \/ ParkForPayment(r) \/ Fail(r)
          /\ \E box \in Posted(s, t, "done") : Refuses(box)
       \/ /\ Settles(s, t, "failed")
          /\ HandleRetry(r)
          /\ \E box \in Posted(s, t, "failed") : Refuses(box)
    /\ UNCHANGED <<uploaded, worldVars>>

RunStage(e) ==
    \/ DropStageEvent(e)
    \/ ResolverFails(e)
    \/ EmptyPipeline(e)
    \/ FinishPipeline(e)
    \/ \E p \in Pipelines : \E i \in DOMAIN p :
         \/ UnknownStage(e, p, i)
         \/ RunToCompletion(e, p, i)
         \/ RunToAbort(e, p, i)
         \/ RunToAwait(e, p, i)
         \/ \E t \in TaskIds : RunToResult(e, p, i, t)

-----------------------------------------------------------------------------
(* Handlers of task.completed and task.failed *)

AwaitsTask(t) == row.awaiting # None /\ row.awaiting.task = t

Relieved == [row EXCEPT !.awaiting = None]

\* resume_stage and fail_stage: the row is terminal, or awaits another task.
IgnoreNotice(t) ==
    /\ t \in notices
    /\ ~Live(row) \/ ~AwaitsTask(t)
    /\ Notify(t)
    /\ UNCHANGED <<row, eventVars, tasks, worldVars, dataVars, history>>

ResumeStage(t) ==
    LET a == row.awaiting
        Completes(strange) ==
            /\ CompleteStage(Relieved, a.stage, a.index, a.print)
            /\ Doubts(Relieved, a.stage, a.print, strange)
            /\ stageEvents' = stageEvents \cup {a.index + 1}
    IN
    /\ t \in notices /\ tasks[t].state = "done"
    /\ Live(row) /\ AwaitsTask(t)
    /\ Notify(t)
    /\ \/ /\ Satisfied(a.stage) /\ UNCHANGED storeVars
          /\ Completes(FALSE)
       \/ /\ ~Satisfied(a.stage)
          /\ StoreResult(a.stage, tasks[t].input, handoff)
          /\ Completes(made'[a.stage] # tasks[t].input)
       \/ /\ \/ ParkForPayment(Relieved)
             \/ HandleRetry(Relieved)
             \/ Fail(row)           \* StageFatal: `awaiting` stays
          /\ UNCHANGED <<stageEvents, dataVars>>
    /\ UNCHANGED <<uploaded, tasks, worldVars>>

FailStage(t) ==
    LET a == row.awaiting IN
    /\ t \in notices /\ tasks[t].state = "failed"
    /\ Live(row) /\ AwaitsTask(t)
    /\ Notify(t)
    /\ \/ /\ a.stage \in Recovering
          /\ UNCHANGED storeVars
          /\ CompleteStage(Relieved, a.stage, a.index, a.print)
          /\ Doubts(Relieved, a.stage, a.print, TRUE)
          /\ stageEvents' = stageEvents \cup {a.index + 1}
       \/ /\ Fail(Relieved)
          /\ UNCHANGED <<stageEvents, dataVars>>
    /\ UNCHANGED <<uploaded, tasks, worldVars>>

-----------------------------------------------------------------------------
(* Requests of a user or the host. `requeue` is what the three that reopen a
   terminal recording have in common. *)

Requeue(r, index) ==
    /\ row' = [r EXCEPT !.status = "active", !.retry = 0]
    /\ stageEvents' = stageEvents \cup {index}
    /\ UNCHANGED <<uploaded, taskVars, worldVars, dataVars, history>>

\* Mutants: the retry names the stage last begun; it takes what completed too.
RetryStageIndex == row.status = "error" /\ Requeue(row, row.stageIndex)
RetryCompleted ==
    /\ row.status \in {"error", "completed"}
    /\ Requeue(row, row.completedIndex + 1)

RetryRecording ==
    /\ row.status = "error"
    /\ Requeue(row, row.completedIndex + 1)

\* Mutant: paying starts the pipeline over.
RestartAfterPayment ==
    /\ row.status = "needs_payment"
    /\ Requeue([row EXCEPT !.completed = {}, !.completedIndex = -1], 0)

ResumeAfterPayment ==
    /\ row.status = "needs_payment"
    /\ Requeue(row, row.completedIndex + 1)

\* A new run; awaiting, fingerprints and declared invalidations survive it.
ReprocessRecording ==
    /\ row.status = "completed" /\ row.run < MaxRuns
    /\ Requeue([row EXCEPT !.run = @ + 1, !.completed = {}, !.completedIndex = -1,
                           !.stageIndex = 0], 0)

\* Mutant: a recording is closed whatever its status.
CloseAnything ==
    /\ Fail(Relieved)
    /\ UNCHANGED <<eventVars, taskVars, worldVars, dataVars>>

CloseRecording ==
    /\ Live(row)
    /\ Fail(Relieved)
    /\ UNCHANGED <<eventVars, taskVars, worldVars, dataVars>>

\* Marked deleted by the host; nothing under the driver leaves that status.
DeleteRecording ==
    /\ row' = [row EXCEPT !.status = "deleted"]
    /\ UNCHANGED <<eventVars, taskVars, worldVars, dataVars, history>>

Later(v) == {w \in Versions : w > v \/ (InputsRevert /\ w # v)}

\* The host declares s and what follows it stale, because an input that no
\* fingerprint sees has changed.
InvalidateFrom(s) ==
    \E p \in Pipelines \cup {<<>>} :
       LET from   == {i \in DOMAIN p : \E j \in 1..i : p[j] = s}
           doomed == {p[i] : i \in from} \cup {s}
       IN  /\ row' = [row EXCEPT !.invalidated = @ \cup doomed]
           /\ \/ UNCHANGED inputs
              \/ /\ s \notin Fingerprinted
                 /\ \E v \in Later(inputs[s]) :
                      inputs' = [inputs EXCEPT ![s] = v]
           /\ UNCHANGED <<silent, eventVars, taskVars, dataVars, history>>

-----------------------------------------------------------------------------
(* The world around: providers work, what a fingerprint reads changes *)

InputChanges(s) ==
    /\ s \in Fingerprinted
    /\ \E v \in Later(inputs[s]) : inputs' = [inputs EXCEPT ![s] = v]
    /\ UNCHANGED <<row, silent, eventVars, taskVars, dataVars, history>>

\* The input of s goes out of reach of its fingerprint, or comes back.
InputHides(s) ==
    /\ s \in Elusive
    /\ silent' = IF s \in silent THEN silent \ {s} ELSE silent \cup {s}
    /\ UNCHANGED <<row, inputs, eventVars, taskVars, dataVars, history>>

ProviderStores(t) ==
    /\ t \in DOMAIN tasks /\ tasks[t].state = "running"
    /\ tasks[t].stage \in HandoffStages
    /\ tasks' = [tasks EXCEPT ![t].state = "written"]
    /\ handoff' = [handoff EXCEPT ![tasks[t].stage] = tasks[t].input]
    /\ UNCHANGED <<row, eventVars, notices, worldVars, made, doubted, history>>

TaskEnds(t) ==
    /\ t \in DOMAIN tasks
    /\ \E state \in {"done", "failed"} :
         /\ MayEnd(tasks[t], state)
         /\ tasks' = [tasks EXCEPT ![t].state = state]
    /\ notices' = notices \cup {t}
    /\ UNCHANGED <<row, eventVars, worldVars, dataVars, history>>

-----------------------------------------------------------------------------

Deliveries ==
    \/ StartPipeline
    \/ \E e \in stageEvents : RunStage(e)
    \/ \E t \in notices : IgnoreNotice(t) \/ ResumeStage(t) \/ FailStage(t)

Requests ==
    \/ RetryRecording \/ ResumeAfterPayment \/ ReprocessRecording
    \/ CloseRecording \/ DeleteRecording
    \/ \E s \in Declarable : InvalidateFrom(s)

World ==
    \/ \E s \in Stages : InputChanges(s) \/ InputHides(s)
    \/ \E t \in TaskIds : ProviderStores(t) \/ TaskEnds(t)

Next == Deliveries \/ Requests \/ World

Spec == Init /\ [][Next]_vars

-----------------------------------------------------------------------------
(* What an observer sees of it *)

Phase ==
    CASE row.status = "active" -> "open"
      [] row.status = "completed" -> "finished"
      [] row.status \in {"error", "needs_payment"} -> "stopped"
      [] row.status = "deleted" -> "gone"

Promise == INSTANCE Lifecycle WITH phase <- Phase, run <- EnsureRun(row).run,
                                   reports <- verdict

-----------------------------------------------------------------------------
(* Properties *)

\* recording.completed is what a customer is charged on: whatever is
\* delivered twice, late or out of order, one run publishes it at most once.
CompletedOncePerRun == \A r \in RunIds : completions[r] <= 1

\* A run that was reported completed (and charged for) is never reported failed
\* (and refunded) afterwards.
ChargedIsNotRefunded ==
    \A r \in RunIds : completions[r] > 0 => verdict[r] = "completed"

\* Seen from outside the driver is the lifecycle of Lifecycle.tla: a run ends
\* in one report at a time, a completed one is never reopened or taken back,
\* and no delivery, duplicate or late answer shows.
ImplementsLifecycle == Promise!Spec

\* Why these hold: a run with a completion on its account is over, and only a
\* completed (then perhaps deleted) recording is still on it.
BillInv ==
    /\ row.status = "completed" => row.run # 0
    /\ \A r \in RunIds :
         /\ completions[r] <= 1
         /\ completions[r] > 0 =>
              /\ verdict[r] = "completed"
              /\ \/ r < row.run
                 \/ r = row.run /\ row.status \in {"completed", "deleted"}

\* No delivery moves a terminal recording. What reopens one keeps the cursor
\* of the run that stopped (nothing paid for is bought again), or, when that
\* run had completed, opens a run of its own; a deleted one stays deleted.
ReopeningKeepsTheBill ==
    [][~Live(row) /\ row'.status # row.status =>
         \/ row'.status = "deleted"
         \/ /\ row.status \in {"error", "needs_payment"} /\ row'.status = "active"
            /\ row'.run = row.run /\ row'.completed = row.completed
            /\ row'.completedIndex = row.completedIndex
         \/ /\ row.status = "completed" /\ row'.status = "active"
            /\ row'.run = row.run + 1 /\ row'.completed = {}]_vars

\* A live recording that has started is never left with nothing to move it:
\* an event the driver will not drop, a task that will still answer, or a
\* retry parked for the watchdog.
LiveHasDriver ==
    Live(row) /\ row.run # 0 =>
      \/ row.retry > 0
      \/ \E e \in stageEvents : e > row.completedIndex
      \/ /\ row.awaiting # None
         /\ \/ tasks[row.awaiting.task].state \in {"running", "written"}
            \/ row.awaiting.task \in notices

\* What may part a stage's fingerprint from its artifact: one of the causes of
\* Doubts; and where inputs revert, an answer that outlives its question and
\* finds the artifact of the input before it, which has come back.
Excused(s) ==
    \/ s \in doubted
    \/ s \in AsyncStages /\ InputsRevert /\ ~InlineDispatch

\* The fingerprint of a completed stage names the input its stored artifact
\* was really computed from, whatever changed while a task was in flight, and
\* only the causes Excused names part the two: a stage that completes without
\* saying what it reads, an artifact that was not made for it, an answer that
\* is recorded over a later completion.
PrintsAreTrue ==
    \A s \in row.completed \cap Fingerprinted :
        row.prints[s] = made[s] \/ Excused(s)

\* A recording is only ever finished with artifacts computed from what the
\* inputs are at that moment, but for those of stages whose fingerprint may
\* not tell, or which cannot say what their input is by then: convert, whose
\* source is gone, is among them, and a file uploaded after it has completed
\* without its source is not noticed.
DeliveredIsCurrent ==
    [][row.status # "completed" /\ row'.status = "completed" =>
         \E p \in Pipelines : \A i \in DOMAIN p :
            p[i] \in Fingerprinted =>
              made[p[i]] = inputs[p[i]] \/ Excused(p[i]) \/ p[i] \in silent]_vars

\* What invalidate_from declared stale is computed again after the
\* declaration: an answer to a question asked before it does not count (nor
\* does one adopted from the postbox, which does not say what it answers).
DeclarationsHonoured ==
    \A s \in row.completed \ (Fingerprinted \cup row.invalidated) :
        made[s] = inputs[s] \/ s \in doubted

\* A stage is not reported completed again while it stands completed.
ReportedOnce == repeated = {}

\* Checkpoints tell the truth, declared stale or not.
CheckpointsHold == DeclarationsHonoured /\ PrintsAreTrue

=============================================================================
