-------------------------------- MODULE Summary --------------------------------
(***************************************************************************)
(* The summary of one recording: the summary half of the merge stage, the  *)
(* re-summaries a user, the staff or the watchdog ask for (stages.py, from *)
(* MergeStage.run on) and the debt the watchdog repairs                    *)
(* (summary_repair.py).  A summary is a fact about a version of the        *)
(* transcript; the host may edit the transcript at any time.               *)
(*                                                                         *)
(* Handlers hold the row lock and are one step each.  The repair pass is   *)
(* three: it reads without the lock, counts the attempt in one transaction *)
(* and asks in another.                                                    *)
(***************************************************************************)
EXTENDS Integers, Sequences, FiniteSets

CONSTANTS
    MaxTexts,    \* bound: versions of the transcript
    Wordless,    \* the versions without a segment
    MaxTasks,    \* bound: llm.summarize tasks
    MaxJobs,     \* bound: re-summary jobs
    MaxRuns,     \* bound: runs of the pipeline
    FirstDelay,  \* SUMMARY_REPAIR_FIRST_DELAY_SECONDS
    MaxDelay,    \* SUMMARY_REPAIR_MAX_DELAY_SECONDS
    MaxLost,     \* bound: answers dropped because the task could not be read
    None

ASSUME SummaryAssumption ==
    /\ MaxTexts \in Nat \ {0} /\ MaxRuns \in Nat \ {0}
    /\ Wordless \subseteq 1..MaxTexts
    /\ MaxTasks \in Nat /\ MaxJobs \in Nat /\ MaxLost \in Nat
    /\ FirstDelay \in Nat \ {0} /\ MaxDelay \in Nat
    /\ None \notin Nat

VARIABLES
    switches,  \* SUMMARIZE_ENABLED and SUMMARY_REPAIR_ENABLED of the deployment
    text,      \* version of the transcript in the segments
    rec,       \* the recording, as far as its summary goes
    jobs,      \* Job rows of type SUMMARIZE
    tasks,     \* llm.summarize tasks, the position is the id
    notices,   \* tasks whose outcome is in flight
    pass       \* where the repair pass is, and what it read

(* What happened; the code never reads it. *)
VARIABLES
    runs,      \* pipeline runs begun
    lost,      \* tasks whose outcome was dropped
    announced, \* recording.resummarized events per job
    declined   \* the last answer, or the transcript, is that there is none to be had

vars == <<switches, text, rec, jobs, tasks, notices, pass, runs, lost, announced,
          declined>>

Texts == 1..MaxTexts
TaskIds == 1..MaxTasks
Maybe(S) == S \cup {None}
Origins == {"user", "staff", "pipeline_repair"}

\* `of` is the version the provider was sent, `pinned` the one recorded as
\* metadata.derived.summary.transcript_hash.
SummaryOf == [of: Texts, pinned: Texts]

\* _delay_seconds: doubled at every attempt, up to a ceiling that is never
\* below the first delay.
Ceiling == IF MaxDelay < FirstDelay THEN FirstDelay ELSE MaxDelay

\* workflow_state.summary_pending; `late` once the deadline has passed, `delay`
\* the wait the attempts made so far have led to.
Debt == [late: BOOLEAN, delay: FirstDelay..Ceiling,
         end: {"none", "gave_up", "exhausted"}]
NewDebt == [late |-> FALSE, delay |-> FirstDelay, end |-> "none"]

ASSUME NoneIsNoRecord == None \notin Debt \cup SummaryOf

\* Mutant: no ceiling.
DoublesOn(delay) == 2 * delay
Doubled(delay) == IF 2 * delay > Ceiling THEN Ceiling ELSE 2 * delay

Rec == [status: {"merging", "merged", "completed", "error"},
        awaiting: Maybe(TaskIds), summary: Maybe(SummaryOf),
        owed: Maybe(Debt), skipped: BOOLEAN]

Job == [origin: Origins, task: Maybe(TaskIds),
        status: {"processing", "completed", "failed"}]

\* "provider": every provider declined on its own account; "refused": an
\* empty answer or a judgement on the request; "failed": the task itself.
Task == [by: {"merge", "job"}, text: Texts,
         state: {"running", "ok", "refused", "provider", "failed"}]

TypeOK ==
    /\ switches \in [summarize: BOOLEAN, repair: BOOLEAN]
    /\ text \in Texts
    /\ rec \in Rec
    /\ jobs \in Seq(Job) /\ Len(jobs) <= MaxJobs
    /\ tasks \in Seq(Task) /\ Len(tasks) <= MaxTasks
    /\ notices \subseteq DOMAIN tasks
    /\ pass \in [at: {"idle", "read", "marked"}, late: BOOLEAN]
    /\ runs \in 1..MaxRuns
    /\ lost \subseteq DOMAIN tasks
    /\ announced \in [DOMAIN jobs -> Nat]
    /\ declined \in BOOLEAN

-----------------------------------------------------------------------------
(* The debt and the summary *)

\* summary_repair.enabled
Repairs == switches.summarize /\ switches.repair

\* Mutant: a skip is forgotten.
MarksPendingAlways(r) ==
    IF r.owed # None THEN r
    ELSE [r EXCEPT !.owed = NewDebt]

\* mark_pending: keeps `since`, and is silent about a recording whose summary
\* was skipped.
MarksPending(r) ==
    IF r.skipped \/ r.owed # None THEN r
    ELSE [r EXCEPT !.owed = NewDebt]

\* store_summary pins the transcript of now, not the one that was sent.
StoresSummary(r, t) ==
    [r EXCEPT !.summary = [of |-> tasks[t].text, pinned |-> text],
              !.owed = None, !.skipped = FALSE]

RecordsSkip(r) == [r EXCEPT !.owed = None, !.skipped = TRUE]

\* note_repair_failure
NotesFailure(r, state) ==
    IF state = "provider" THEN r ELSE [r EXCEPT !.owed.end = "gave_up"]

IsCurrent(r) == r.summary # None /\ r.summary.pinned = text

-----------------------------------------------------------------------------
(* llm.summarize *)

\* start() coalesces with a task in flight: merge names its transcript, a job
\* the storage key, which does not change.
Twins(by) == {t \in DOMAIN tasks : /\ tasks[t].state = "running"
                                   /\ tasks[t].by = by
                                   /\ by = "merge" => tasks[t].text = text}

NewTask(by) == [by |-> by, text |-> text, state |-> "running"]

Submits(by, t) ==
    \/ t \in Twins(by) /\ UNCHANGED tasks
    \/ /\ Twins(by) = {} /\ t = Len(tasks) + 1 /\ t <= MaxTasks
       /\ tasks' = Append(tasks, NewTask(by))

\* A provider's answer, or the deadline that ends the task.
TaskEnds(t) ==
    /\ t \in DOMAIN tasks /\ tasks[t].state = "running"
    /\ \E state \in {"ok", "refused", "provider", "failed"} :
         tasks' = [tasks EXCEPT ![t].state = state]
    /\ notices' = notices \cup {t}
    /\ UNCHANGED <<switches, text, rec, jobs, pass, runs, lost,
                   announced, declined>>

\* At least once.
Notify(t) == \E again \in SUBSET {t} : notices' = (notices \ {t}) \cup again

-----------------------------------------------------------------------------
(* MergeStage, from the stored transcript on *)

Declines(state) == declined' = (state = "refused")

\* Neither a current summary nor a deployment without summaries.
Wanted == ~IsCurrent(rec) /\ switches.summarize

\* The policy is asked before the transcript is found empty.  A run that finds
\* the answer leaves `awaiting` as it was.
MergeRun ==
    /\ rec.status = "merging"
    /\ \/ /\ ~Wanted \/ text \in Wordless
          /\ rec' = [rec EXCEPT !.status = "merged"]
          /\ UNCHANGED tasks
       \/ /\ Wanted                                \* SUMMARY_SKIP_POLICY
          /\ rec' = [RecordsSkip(rec) EXCEPT !.status = "merged"]
          /\ UNCHANGED tasks
       \/ /\ Wanted /\ text \notin Wordless
          /\ \E t \in TaskIds :
                Submits("merge", t) /\ rec' = [rec EXCEPT !.awaiting = t]
       \/ /\ rec' = [rec EXCEPT !.status = "error"]  \* not stored, not submitted
          /\ UNCHANGED tasks
    /\ declined' = (text \in Wordless)
    /\ UNCHANGED <<switches, text, jobs, notices, pass, runs, lost, announced>>

AwaitedByMerge(t) ==
    rec.awaiting # None /\ rec.awaiting = t /\ rec.status \in {"merging", "merged"}

\* Mutant: the failed task is only logged.
MergeForgets(r, state) == r
\* MergeStage.resume and task_failed; the transcript is the product, so the
\* stage completes whatever the answer.
MergeOutcome(r, state) ==
    IF Repairs /\ (state = "provider" \/ (state = "failed" /\ r.summary = None))
    THEN MarksPending(r) ELSE r

Answered(r) == [r EXCEPT !.awaiting = None, !.status = "merged"]

MergeResumes(t) ==
    /\ AwaitedByMerge(t)
    /\ LET state == tasks[t].state IN
       /\ rec' = IF state = "ok" THEN StoresSummary(Answered(rec), t)
                 ELSE MergeOutcome(Answered(rec), state)
       /\ Declines(state)
    /\ UNCHANGED <<jobs, announced>>

\* What follows merge, and the end of the run.
Finalize ==
    /\ rec.status = "merged"
    /\ rec' = [rec EXCEPT !.status = "completed"]
    /\ UNCHANGED <<switches, text, jobs, tasks, notices, pass, runs, lost,
                   announced, declined>>

-----------------------------------------------------------------------------
(* Re-summaries *)

Processing == {j \in DOMAIN jobs : jobs[j].status = "processing"}

\* Mutant: the job in flight is not looked for.
MayStartAgain == TRUE
\* _inflight_summarize_jobs, under the lock of the recording.
MayStart == Processing = {}

NewJob(origin, task, status) ==
    /\ Len(jobs) < MaxJobs
    /\ jobs' = Append(jobs, [origin |-> origin, task |-> task, status |-> status])
    /\ announced' = Append(announced, 0)

\* _skipped_resummary: a summary that is there outweighs the skip.
SkipsResummary(origin) ==
    /\ origin # "staff"
    /\ NewJob(origin, None, "completed")
    /\ rec' = IF rec.summary # None THEN [rec EXCEPT !.owed = None]
              ELSE RecordsSkip(rec)
    /\ UNCHANGED tasks

\* start_resummarize; joining a job in flight and every refusal (no summaries
\* here, nothing to summarize, the bus down) change nothing.
StartsResummary(origin) ==
    /\ MayStart /\ switches.summarize /\ text \notin Wordless
    /\ \/ SkipsResummary(origin)
       \/ /\ \E t \in TaskIds :
               Submits("job", t) /\ NewJob(origin, t, "processing")
          /\ UNCHANGED rec

Resummarize(origin) ==
    /\ rec.status # "error"
    /\ StartsResummary(origin)
    /\ UNCHANGED <<switches, text, notices, pass, runs, lost, declined>>

\* Mutant: a job is known by its task alone.
JobOf(t) == {j \in DOMAIN jobs : jobs[j].task # None /\ jobs[j].task = t}
\* _job_awaiting
JobAwaiting(t) == {j \in Processing : jobs[j].task = t}

\* _apply_summary_result, and fail_resummarize for a task that failed.
JobSettles(j, t) ==
    LET state == tasks[t].state IN
    /\ jobs' = [jobs EXCEPT ![j].status = IF state = "ok" THEN "completed"
                                                         ELSE "failed"]
    /\ rec' = CASE state = "ok"     -> StoresSummary(rec, t)
                [] state = "failed" -> rec
                [] state \notin {"ok", "failed"} /\ rec.owed # None ->
                     NotesFailure(rec, state)
                [] state = "provider" /\ rec.owed = None /\ Repairs ->
                     MarksPending(rec)
                [] OTHER -> rec
    /\ announced' = IF state = "ok" THEN [announced EXCEPT ![j] = @ + 1] ELSE announced
    /\ IF state = "failed" THEN UNCHANGED declined ELSE Declines(state)

-----------------------------------------------------------------------------
(* handle_task_completed and handle_task_failed: a job's answer first, a
   stage's otherwise, nobody's ignored. *)

Handle(t) ==
    /\ t \in notices
    /\ \/ \E j \in JobAwaiting(t) : JobSettles(j, t)
       \/ JobAwaiting(t) = {} /\ MergeResumes(t)
       \/ /\ JobAwaiting(t) = {} /\ ~AwaitedByMerge(t)
          /\ UNCHANGED <<rec, jobs, announced, declined>>
    /\ Notify(t)
    /\ UNCHANGED <<switches, text, tasks, pass, runs, lost>>

\* status(task_id) raised: logged, and the event is spent.
Lose(t) ==
    /\ t \in notices /\ tasks[t].state # "failed"
    /\ Cardinality(lost) < MaxLost
    /\ notices' = notices \ {t}
    /\ lost' = lost \cup {t}
    /\ UNCHANGED <<switches, text, rec, jobs, tasks, pass, runs,
                   announced, declined>>

-----------------------------------------------------------------------------
(* repair_due *)

\* A job whose answer was lost counts as in flight until its cut-off.
RepairsInFlight == {j \in Processing : jobs[j].origin = "pipeline_repair"}
\* Mutant: for ever.
HoldsBackForever == RepairsInFlight
HoldsBack == {j \in RepairsInFlight : jobs[j].task \notin lost}

PassReads ==
    /\ Repairs /\ pass.at = "idle" /\ HoldsBack = {}
    /\ rec.status = "completed" /\ rec.owed # None /\ rec.owed.end = "none"
    /\ pass' = [at |-> "read", late |-> rec.owed.late]
    /\ UNCHANGED <<switches, text, rec, jobs, tasks, notices, runs, lost,
                   announced, declined>>

Idle == [at |-> "idle", late |-> FALSE]

\* Under the lock only the marker is looked at again; `since` is the one read.
PassMarks ==
    /\ pass.at = "read"
    /\ \/ rec.owed = None /\ pass' = Idle /\ UNCHANGED rec
       \/ /\ rec.owed # None /\ pass.late
          /\ rec' = [rec EXCEPT !.owed.end = "exhausted"]
          /\ pass' = Idle
       \/ /\ rec.owed # None /\ ~pass.late
          /\ pass' = [pass EXCEPT !.at = "marked"]
          /\ rec' = [rec EXCEPT !.owed.delay = Doubled(@)]
    /\ UNCHANGED <<switches, text, jobs, tasks, notices, runs, lost,
                   announced, declined>>

\* Refused, joined to a job in flight, or asked.
PassStarts ==
    /\ pass.at = "marked"
    /\ pass' = Idle
    /\ \/ StartsResummary("pipeline_repair")
       \/ UNCHANGED <<rec, jobs, tasks, announced>>
    /\ UNCHANGED <<switches, text, notices, runs, lost, declined>>

-----------------------------------------------------------------------------
(* The world *)

DeadlinePasses ==
    /\ rec.owed # None /\ ~rec.owed.late
    /\ rec' = [rec EXCEPT !.owed.late = TRUE]
    /\ UNCHANGED <<switches, text, jobs, tasks, notices, pass, runs, lost,
                   announced, declined>>

\* The host corrects the transcript, or transcribe has replaced it.
Edit ==
    /\ text < MaxTexts
    /\ text' = text + 1
    /\ UNCHANGED <<switches, rec, jobs, tasks, notices, pass, runs, lost,
                   announced, declined>>

\* retry_recording and reprocess_recording: the run reaches merge again.
RunAgain ==
    /\ rec.status \in {"completed", "error"} /\ runs < MaxRuns
    /\ rec' = [rec EXCEPT !.status = "merging"]
    /\ runs' = runs + 1
    /\ UNCHANGED <<switches, text, jobs, tasks, notices, pass, lost,
                   announced, declined>>

NewRec == [status |-> "merging", awaiting |-> None, summary |-> None,
           owed |-> None, skipped |-> FALSE]

\* Transcribed, with or without a word; the deployment keeps its switches.
Init ==
    /\ switches \in [summarize: BOOLEAN, repair: BOOLEAN]
    /\ text \in Texts /\ rec = NewRec
    /\ jobs = <<>> /\ tasks = <<>> /\ notices = {} /\ pass = Idle
    /\ runs = 1 /\ lost = {} /\ announced = <<>> /\ declined = FALSE

Next ==
    \/ MergeRun \/ Finalize \/ RunAgain \/ Edit \/ DeadlinePasses
    \/ Resummarize("user") \/ Resummarize("staff")
    \/ \E t \in TaskIds : TaskEnds(t) \/ Handle(t) \/ Lose(t)
    \/ PassReads \/ PassMarks \/ PassStarts

\* The watchdog runs, tasks have deadlines, outcomes are delivered, time goes
\* on. Nobody is made to ask, and no provider to answer well.
Fairness ==
    /\ WF_vars(PassReads) /\ WF_vars(PassMarks) /\ WF_vars(PassStarts)
    /\ WF_vars(DeadlinePasses)
    /\ \A t \in TaskIds : WF_vars(TaskEnds(t)) /\ WF_vars(Handle(t))

Spec == Init /\ [][Next]_vars /\ Fairness

-----------------------------------------------------------------------------
(* Properties *)

\* Two requests never pay for two summaries at once (start_resummarize).
OneJobInFlight == Cardinality(Processing) <= 1

\* The same, on well-formed jobs and a well-formed debt.
JobsInv == TypeOK /\ OneJobInFlight

\* A job is settled once, by one answer, and announces its summary then: an
\* outcome delivered again, or a merge answer, does not touch it.
JobsSettleOnce ==
    [][\A j \in DOMAIN jobs :
         jobs[j].status # "processing" =>
            jobs'[j] = jobs[j] /\ announced'[j] = announced[j]]_vars

\* A skipped summary is an outcome and never owed, whichever of merge, user,
\* staff and watchdog recorded what in which order.
SkippedIsNeverOwed == ~(rec.skipped /\ rec.owed # None)

\* "Owed, not forgotten": where summaries are made and repaired, a completed
\* recording without one was skipped, is owed one, or was told, by an answer or
\* by an empty transcript, that there is none to be had.
NothingForgotten ==
    Repairs /\ rec.status = "completed" =>
        rec.summary # None \/ rec.skipped \/ rec.owed # None \/ declined

\* A summary owed is asked for until there is an outcome: an answer, a skip,
\* or a debt that has been given up or has run out of time.
OwedIsSettled ==
    (rec.status = "completed" /\ rec.owed # None /\ rec.owed.end = "none")
      ~> (rec.status # "completed" \/ rec.owed = None \/ rec.owed.end # "none")

\* stages.py:1673: "Persist a produced summary AND pin it to the transcript
\* behind it."
SummaryIsPinned == rec.summary # None => rec.summary.pinned = rec.summary.of

=============================================================================
