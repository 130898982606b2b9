---------------------------- MODULE SummaryProofs ----------------------------
(***************************************************************************)
(* Proofs for Summary.  A second job is refused under the lock of the      *)
(* recording, so at most one is in flight; a recording that has left merge *)
(* has a summary, a skip, a debt, or the answer that there is none.        *)
(***************************************************************************)
EXTENDS Summary, FiniteSetTheorems, SequenceTheorems, TLAPS

OneJob == \A i, j \in Processing : i = j

\* What NothingForgotten says of the end of a run holds from the end of merge.
Settled ==
    Repairs /\ rec.status \in {"merged", "completed"} =>
        rec.summary # None \/ rec.skipped \/ rec.owed # None \/ declined

\* Only a task that has ended is notified.
Ended == \A t \in notices : tasks[t].state # "running"

IInv == TypeOK /\ OneJob /\ SkippedIsNeverOwed /\ Settled /\ Ended

-----------------------------------------------------------------------------
(* The operators *)

\* Delays stay between the first and the ceiling.
LEMMA DebtTypes ==
  /\ Ceiling \in Nat /\ FirstDelay <= Ceiling
  /\ NewDebt \in Debt
  /\ \A d \in FirstDelay..Ceiling : Doubled(d) \in FirstDelay..Ceiling
BY SummaryAssumption DEF Ceiling, NewDebt, Debt, Doubled

\* What the ladder writes to a debt keeps its type.
LEMMA DebtUpdates ==
  ASSUME NEW d \in Debt
  PROVE  /\ \A e \in {"none", "gave_up", "exhausted"} : [d EXCEPT !.end = e] \in Debt
         /\ [d EXCEPT !.late = TRUE] \in Debt
         /\ [d EXCEPT !.delay = Doubled(@)] \in Debt
BY DebtTypes DEF Debt

\* A recording that is well formed, and not both skipped and owed.
Sound(r) == r \in Rec /\ ~(r.skipped /\ r.owed # None)

Accounted(r) == r.summary # None \/ r.skipped \/ r.owed # None

\* Whatever the repair does to a debt, it is still owed.
LEMMA OwedUpdates ==
  ASSUME NEW r, Sound(r), r.owed # None,
         NEW s, \/ \E e \in {"none", "gave_up", "exhausted"} : s = [r EXCEPT !.owed.end = e]
                \/ s = [r EXCEPT !.owed.late = TRUE]
                \/ s = [r EXCEPT !.owed.delay = Doubled(@)]
  PROVE  Sound(s) /\ s.owed # None /\ s.status = r.status
<1>1. r \in Rec /\ r.owed \in Debt /\ ~r.skipped
    BY DEF Sound, Rec, Maybe
<1>2. \E d \in Debt : s = [r EXCEPT !.owed = d]
    BY <1>1, DebtUpdates
<1>3. PICK d \in Debt : s = [r EXCEPT !.owed = d]
    BY <1>2
<1>4. s = [status |-> r.status, awaiting |-> r.awaiting, summary |-> r.summary,
           owed |-> d, skipped |-> r.skipped]
    BY <1>1, <1>3 DEF Rec
<1>5. s \in Rec
    BY <1>1, <1>4 DEF Rec, Maybe
<1> QED
    BY <1>1, <1>4, <1>5, NoneIsNoRecord DEF Sound

\* mark_pending leaves a debt, which accounts for the summary.
LEMMA MarksPendingSound ==
  ASSUME NEW r, Sound(r)
  PROVE  Sound(MarksPending(r)) /\ Accounted(MarksPending(r))
         /\ MarksPending(r).status = r.status
<1>1. CASE r.skipped \/ r.owed # None
    BY <1>1 DEF MarksPending, Accounted
<1>2. CASE ~r.skipped /\ r.owed = None
  <2>1. MarksPending(r) =
          [status |-> r.status, awaiting |-> r.awaiting, summary |-> r.summary,
           owed |-> NewDebt, skipped |-> r.skipped]
      BY <1>2 DEF MarksPending, Sound, Rec
  <2>2. MarksPending(r) \in Rec
      BY <2>1, DebtTypes DEF Sound, Rec, Maybe
  <2> QED
      BY <1>2, <2>1, <2>2, DebtTypes, NoneIsNoRecord DEF Sound, Accounted
<1> QED
    BY <1>1, <1>2

\* The record that storing a summary or a skip leaves, field by field.
LEMMA OutcomeFields ==
  ASSUME NEW r \in Rec, NEW summary, NEW skipped
  PROVE  [r EXCEPT !.summary = summary, !.owed = None, !.skipped = skipped] =
           [status |-> r.status, awaiting |-> r.awaiting, summary |-> summary,
            owed |-> None, skipped |-> skipped]
<1> DEFINE a == [r EXCEPT !.summary = summary]
           b == [a EXCEPT !.owed = None]
<1>1. a = [status |-> r.status, awaiting |-> r.awaiting, summary |-> summary,
           owed |-> r.owed, skipped |-> r.skipped]
    BY DEF Rec
<1>2. b = [status |-> r.status, awaiting |-> r.awaiting, summary |-> summary,
           owed |-> None, skipped |-> r.skipped]
  <2> HIDE DEF a
  <2> QED
      BY <1>1
<1>3. [b EXCEPT !.skipped = skipped] =
        [status |-> r.status, awaiting |-> r.awaiting, summary |-> summary,
         owed |-> None, skipped |-> skipped]
  <2> HIDE DEF b
  <2> QED
      BY <1>2
<1> QED
    BY <1>3

\* store_summary leaves a summary and no debt.
LEMMA StoresSummarySound ==
  ASSUME TypeOK, NEW r, Sound(r), NEW t \in DOMAIN tasks
  PROVE  Sound(StoresSummary(r, t)) /\ Accounted(StoresSummary(r, t))
         /\ StoresSummary(r, t).status = r.status
<1> DEFINE version == [of |-> tasks[t].text, pinned |-> text]
<1>1. version \in SummaryOf
  <2>1. tasks[t] \in Task /\ text \in Texts
      BY DEF TypeOK
  <2> QED
      BY <2>1 DEF Task, SummaryOf
<1>2. StoresSummary(r, t) =
        [status |-> r.status, awaiting |-> r.awaiting, summary |-> version,
         owed |-> None, skipped |-> FALSE]
    BY OutcomeFields DEF StoresSummary, Sound
<1> HIDE DEF version
<1>3. StoresSummary(r, t) \in Rec
    BY <1>1, <1>2 DEF Sound, Rec, Maybe
<1> QED
    BY <1>1, <1>2, <1>3, NoneIsNoRecord DEF Sound, Accounted

\* record_skip leaves its stamp and no debt.
LEMMA RecordsSkipSound ==
  ASSUME NEW r, Sound(r)
  PROVE  Sound(RecordsSkip(r)) /\ Accounted(RecordsSkip(r))
         /\ RecordsSkip(r).status = r.status
<1>1. RecordsSkip(r) =
        [status |-> r.status, awaiting |-> r.awaiting, summary |-> r.summary,
         owed |-> None, skipped |-> TRUE]
  <2>1. RecordsSkip(r) = [r EXCEPT !.summary = r.summary, !.owed = None, !.skipped = TRUE]
      BY DEF RecordsSkip, Sound, Rec
  <2> QED
      BY <2>1, OutcomeFields DEF Sound
<1>2. RecordsSkip(r) \in Rec
    BY <1>1 DEF Sound, Rec, Maybe
<1> QED
    BY <1>1, <1>2 DEF Sound, Accounted

\* Moving through the run changes neither the summary nor the debt.
LEMMA MovesSound ==
  ASSUME NEW r, Sound(r), NEW status \in {"merging", "merged", "completed", "error"},
         NEW a \in Maybe(TaskIds),
         NEW s, s = [r EXCEPT !.status = status, !.awaiting = a]
  PROVE  Sound(s) /\ (Accounted(s) <=> Accounted(r)) /\ s.status = status
<1>1. s = [status |-> status, awaiting |-> a, summary |-> r.summary,
           owed |-> r.owed, skipped |-> r.skipped]
    BY DEF Sound, Rec
<1>2. s \in Rec
    BY <1>1 DEF Sound, Rec, Maybe
<1> QED
    BY <1>1, <1>2 DEF Sound, Accounted

-----------------------------------------------------------------------------
(* Jobs and tasks *)

\* A task submitted adds at most itself.
LEMMA SubmitsTyped ==
  ASSUME TypeOK, NEW by \in {"merge", "job"}, NEW t \in TaskIds, Submits(by, t)
  PROVE  /\ tasks' \in Seq(Task) /\ Len(tasks') <= MaxTasks
         /\ DOMAIN tasks \subseteq DOMAIN tasks'
         /\ \A u \in DOMAIN tasks : tasks'[u] = tasks[u]
<1>1. CASE t \in Twins(by) /\ UNCHANGED tasks
    BY <1>1 DEF TypeOK
<1>2. CASE t = Len(tasks) + 1 /\ t <= MaxTasks /\ tasks' = Append(tasks, NewTask(by))
  <2>1. NewTask(by) \in Task
      BY DEF NewTask, Task, TypeOK
  <2> QED
      BY <1>2, <2>1, AppendProperties DEF TypeOK
<1> QED
    BY <1>1, <1>2 DEF Submits

\* A job created adds itself and announces itself if it is over.
LEMMA NewJobTyped ==
  ASSUME TypeOK, NEW origin \in Origins, NEW task \in Maybe(TaskIds),
         NEW status \in {"processing", "completed", "failed"},
         NewJob(origin, task, status)
  PROVE  /\ jobs' \in Seq(Job) /\ Len(jobs') <= MaxJobs
         /\ announced' \in [DOMAIN jobs' -> Nat]
         /\ DOMAIN jobs' = DOMAIN jobs \cup {Len(jobs) + 1}
         /\ jobs'[Len(jobs) + 1].status = status
         /\ \A j \in DOMAIN jobs : jobs'[j] = jobs[j] /\ announced'[j] = announced[j]
<1> DEFINE job == [origin |-> origin, task |-> task, status |-> status]
<1>1. job \in Job
    BY DEF Job
<1>2. jobs \in Seq(Job) /\ DOMAIN jobs = 1..Len(jobs) /\ Len(jobs) \in Nat
    BY DEF TypeOK
<1>3. announced \in Seq(Nat) /\ Len(announced) = Len(jobs)
    BY <1>2 DEF TypeOK
<1>4. jobs' = Append(jobs, job) /\ announced' = Append(announced, 0) /\ Len(jobs) < MaxJobs
    BY DEF NewJob
<1>5. job.status = status
    OBVIOUS
<1> HIDE DEF job
<1>6. jobs' \in Seq(Job) /\ Len(jobs') = Len(jobs) + 1
      /\ jobs'[Len(jobs) + 1] = job /\ \A j \in 1..Len(jobs) : jobs'[j] = jobs[j]
    BY <1>1, <1>2, <1>4, AppendProperties
<1>7. announced' \in Seq(Nat) /\ Len(announced') = Len(jobs) + 1
      /\ \A j \in 1..Len(jobs) : announced'[j] = announced[j]
    BY <1>3, <1>4, AppendProperties
<1>8. DOMAIN jobs' = 1..(Len(jobs) + 1) /\ announced' \in [1..(Len(jobs) + 1) -> Nat]
    BY <1>6, <1>7
<1> QED
    BY <1>1, <1>2, <1>4, <1>5, <1>6, <1>7, <1>8, SummaryAssumption

\* Beside the jobs, the tasks and the recording, nothing has an invariant.
Jobs ==
    /\ jobs \in Seq(Job) /\ Len(jobs) <= MaxJobs
    /\ announced \in [DOMAIN jobs -> Nat]
    /\ OneJob

Tasks == tasks \in Seq(Task) /\ Len(tasks) <= MaxTasks

Recording == Sound(rec) /\ Settled

Others ==
    /\ switches \in [summarize: BOOLEAN, repair: BOOLEAN]
    /\ text \in Texts
    /\ pass \in [at: {"idle", "read", "marked"}, late: BOOLEAN]
    /\ runs \in 1..MaxRuns
    /\ notices \subseteq DOMAIN tasks
    /\ lost \subseteq DOMAIN tasks
    /\ declined \in BOOLEAN
    /\ Ended

\* The invariant by what it is about.
LEMMA Parts == IInv <=> Jobs /\ Tasks /\ Recording /\ Others
BY DEF IInv, TypeOK, SkippedIsNeverOwed, Jobs, Tasks, Recording, Sound, Others

\* The same after a step.
LEMMA NextParts == (Jobs /\ Tasks /\ Recording /\ Others)' => IInv'
BY Parts, PTL

\* A row that is sound and accounted for keeps the recording's part.
LEMMA SettledBy ==
  ASSUME Sound(rec'), switches' = switches,
         Repairs /\ rec'.status \in {"merged", "completed"} => Accounted(rec') \/ declined'
  PROVE  Recording'
BY DEF Recording, Settled, Sound, Accounted, Repairs

\* So does a change that leaves the status and the account.
LEMMA StaysSettled ==
  ASSUME Recording, Sound(rec'), rec'.status = rec.status, declined' = declined,
         switches' = switches, Accounted(rec) => Accounted(rec')
  PROVE  Recording'
BY SettledBy DEF Recording, Settled, Accounted

\* So does a move of the status, once the summary is accounted for.
LEMMA MovesSettled ==
  ASSUME NEW r, Sound(r), NEW status \in {"merging", "merged", "completed", "error"},
         NEW a \in Maybe(TaskIds),
         rec' = [r EXCEPT !.status = status, !.awaiting = a], switches' = switches,
         Repairs /\ status \in {"merged", "completed"} => Accounted(r) \/ declined'
  PROVE  Recording'
<1> DEFINE s == [r EXCEPT !.status = status, !.awaiting = a]
<1>1. s = [r EXCEPT !.status = status, !.awaiting = a]
    OBVIOUS
<1>2. rec' = s
    OBVIOUS
<1> HIDE DEF s
<1>3. Sound(s) /\ (Accounted(s) <=> Accounted(r)) /\ s.status = status
  <2>1. s = [status |-> status, awaiting |-> a, summary |-> r.summary,
             owed |-> r.owed, skipped |-> r.skipped]
      BY <1>1 DEF Sound, Rec
  <2>2. s \in Rec
      BY <2>1 DEF Sound, Rec, Maybe
  <2> QED
      BY <2>1, <2>2 DEF Sound, Accounted
<1> QED
    BY <1>2, <1>3, SettledBy

\* A job created when none is in progress is the only one.
LEMMA NewJobAlone ==
  ASSUME IInv, MayStart, NEW origin \in Origins, NEW task \in Maybe(TaskIds),
         NEW status \in {"processing", "completed", "failed"},
         NewJob(origin, task, status)
  PROVE  Jobs'
<1>1. \A j \in DOMAIN jobs : jobs'[j].status # "processing"
    BY NewJobTyped DEF IInv, MayStart, Processing
<1>2. \A j \in DOMAIN jobs' : jobs'[j].status = "processing" => j = Len(jobs) + 1
    BY <1>1, NewJobTyped DEF IInv
<1> QED
    BY <1>2, NewJobTyped DEF IInv, Jobs, OneJob, Processing

\* start_resummarize, on every origin.
LEMMA StartsResummaryStep ==
  ASSUME IInv, NEW origin \in Origins, StartsResummary(origin),
         UNCHANGED <<switches, text, notices, runs, lost, declined>>,
         pass' \in [at: {"idle", "read", "marked"}, late: BOOLEAN]
  PROVE  IInv'
<1>1. Jobs /\ Tasks /\ Recording /\ Others
    BY Parts
<1>2. Sound(rec)
    BY <1>1 DEF Recording
<1>3. CASE SkipsResummary(origin)
  <2>1. Jobs' /\ UNCHANGED tasks
      BY <1>3, NewJobAlone DEF StartsResummary, SkipsResummary, Maybe
  <2>2. CASE rec.summary # None
    <3>1. rec' = [status |-> rec.status, awaiting |-> rec.awaiting,
                  summary |-> rec.summary, owed |-> None, skipped |-> rec.skipped]
        BY <1>2, <1>3, <2>2 DEF SkipsResummary, Sound, Rec
    <3>2. rec' \in Rec
        BY <1>2, <3>1 DEF Sound, Rec, Maybe
    <3>3. Recording'
        BY <1>1, <2>2, <3>1, <3>2, StaysSettled DEF Sound, Accounted
    <3> QED
        BY <1>1, <2>1, <3>3, NextParts DEF Tasks, Others, Ended
  <2>3. CASE rec.summary = None
    <3>1. rec' = RecordsSkip(rec)
        BY <1>3, <2>3 DEF SkipsResummary
    <3>2. Recording'
        BY <1>1, <1>2, <3>1, RecordsSkipSound, StaysSettled
    <3> QED
        BY <1>1, <2>1, <3>2, NextParts DEF Tasks, Others, Ended
  <2> QED
      BY <2>2, <2>3
<1>4. CASE ~SkipsResummary(origin)
  <2>1. PICK t \in TaskIds : Submits("job", t) /\ NewJob(origin, t, "processing")
      BY <1>4 DEF StartsResummary
  <2>2. UNCHANGED rec
      BY <1>4 DEF StartsResummary
  <2>3. Jobs'
      BY <2>1, NewJobAlone DEF StartsResummary, Maybe
  <2>4. Tasks' /\ DOMAIN tasks \subseteq DOMAIN tasks'
      BY <2>1, SubmitsTyped DEF IInv, Tasks
  <2>5. Recording'
      BY <1>1, <2>2, StaysSettled DEF Recording
  <2>6. Others'
      BY <1>1, <2>1, SubmitsTyped DEF IInv, Others, Ended
  <2> QED
      BY <2>3, <2>4, <2>5, <2>6, NextParts
<1> QED
    BY <1>3, <1>4

\* An answer settles the one job that awaits its task.
LEMMA JobSettlesStep ==
  ASSUME IInv, NEW t \in notices, NEW j \in JobAwaiting(t), JobSettles(j, t),
         switches' = switches
  PROVE  /\ Jobs' /\ Recording' /\ declined' \in BOOLEAN
         /\ \A i \in DOMAIN jobs : i # j =>
              jobs'[i] = jobs[i] /\ announced'[i] = announced[i]
<1> DEFINE state == tasks[t].state
           status == IF state = "ok" THEN "completed" ELSE "failed"
<1>1. Jobs /\ Tasks /\ Recording /\ Others
    BY Parts
<1>2. j \in DOMAIN jobs /\ jobs[j].status = "processing"
    BY DEF JobAwaiting, Processing
<1>3. jobs' = [jobs EXCEPT ![j].status = status]
    BY DEF JobSettles
<1>4. jobs' \in Seq(Job) /\ DOMAIN jobs' = DOMAIN jobs /\ Len(jobs') = Len(jobs)
      /\ jobs'[j].status # "processing" /\ \A i \in DOMAIN jobs : i # j => jobs'[i] = jobs[i]
  <2>1. jobs \in Seq(Job) /\ jobs[j] \in Job /\ DOMAIN jobs = 1..Len(jobs)
      BY <1>1, <1>2 DEF Jobs
  <2>2. status \in {"completed", "failed"}
      OBVIOUS
  <2> HIDE DEF status
  <2>3. [jobs[j] EXCEPT !.status = status] \in Job
        /\ [jobs[j] EXCEPT !.status = status].status # "processing"
      BY <2>1, <2>2 DEF Job
  <2>4. jobs' = [jobs EXCEPT ![j] = [jobs[j] EXCEPT !.status = status]]
      BY <1>2, <1>3
  <2> QED
      BY <1>2, <2>1, <2>3, <2>4, ExceptSeq
<1>5. announced' \in [DOMAIN jobs -> Nat]
      /\ \A i \in DOMAIN jobs : i # j => announced'[i] = announced[i]
    BY <1>1, <1>2 DEF JobSettles, Jobs
<1>6. Jobs'
    BY <1>1, <1>4, <1>5 DEF Jobs, OneJob, Processing
<1>7. Sound(rec) /\ t \in DOMAIN tasks /\ state \in {"ok", "refused", "provider", "failed"}
  <2>1. t \in DOMAIN tasks /\ tasks[t].state # "running" /\ Sound(rec)
      BY <1>1 DEF Recording, Others, Ended
  <2>2. tasks[t] \in Task
      BY <1>1, <2>1 DEF Tasks
  <2> QED
      BY <2>1, <2>2 DEF Task
<1>8. ASSUME state # "failed"
      PROVE  (declined' <=> state = "refused") /\ declined' \in BOOLEAN
  <2>1. declined' = (state = "refused")
      BY <1>8 DEF JobSettles, Declines
  <2> QED
      BY <2>1, Zenon
<1>9. CASE state = "ok"
  <2>1. rec' = StoresSummary(rec, t)
      BY <1>9 DEF JobSettles
  <2> QED
      BY <1>4, <1>5, <1>6, <1>7, <1>8, <1>9, <2>1, StoresSummarySound, SettledBy DEF IInv
<1>10. CASE state = "failed"
  <2>1. rec' = rec /\ declined' = declined
      BY <1>10 DEF JobSettles
  <2> QED
      BY <1>1, <1>4, <1>5, <1>6, <1>7, <2>1, StaysSettled DEF Others
<1>11. CASE state # "ok" /\ state # "failed" /\ rec.owed # None
  <2>1. rec' = NotesFailure(rec, state)
      BY <1>11 DEF JobSettles
  <2>2. Sound(rec') /\ rec'.owed # None
      BY <1>7, <1>11, <2>1, OwedUpdates DEF NotesFailure
  <2> QED
      BY <1>4, <1>5, <1>6, <1>8, <1>11, <2>2, SettledBy DEF Accounted
<1>12. CASE state = "provider" /\ rec.owed = None /\ Repairs
  <2>1. rec' = MarksPending(rec)
      BY <1>12 DEF JobSettles
  <2> QED
      BY <1>4, <1>5, <1>6, <1>7, <1>8, <1>12, <2>1, MarksPendingSound, SettledBy
<1>13. CASE rec.owed = None /\ (state = "refused" \/ (state = "provider" /\ ~Repairs))
  <2>1. rec' = rec
      BY <1>13 DEF JobSettles
  <2> QED
      BY <1>4, <1>5, <1>6, <1>7, <1>8, <1>13, <2>1, SettledBy
<1> QED
    BY <1>7, <1>9, <1>10, <1>11, <1>12, <1>13

\* An answer or a failure ends merge's wait.
LEMMA MergeResumesStep ==
  ASSUME IInv, NEW t \in notices, MergeResumes(t), switches' = switches
  PROVE  Recording' /\ declined' \in BOOLEAN
<1> DEFINE state == tasks[t].state
           answered == Answered(rec)
<1>1. Sound(rec) /\ t \in DOMAIN tasks /\ state \in {"ok", "refused", "provider", "failed"}
  <2>1. t \in DOMAIN tasks /\ tasks[t].state # "running" /\ Sound(rec)
      BY Parts DEF Recording, Others, Ended
  <2>2. tasks[t] \in Task
      BY Parts, <2>1 DEF Tasks
  <2> QED
      BY <2>1, <2>2 DEF Task
<1>2. Sound(answered) /\ answered.status = "merged"
  <2>1. answered = [rec EXCEPT !.status = "merged", !.awaiting = None]
      BY <1>1 DEF Answered, Sound, Rec
  <2> HIDE DEF answered
  <2> QED
      BY <1>1, <2>1, MovesSound DEF Maybe
<1>3. (declined' <=> state = "refused") /\ declined' \in BOOLEAN
  <2>1. declined' = (state = "refused")
      BY DEF MergeResumes, Declines
  <2> QED
      BY <2>1, Zenon
<1>4. rec' = IF state = "ok" THEN StoresSummary(answered, t) ELSE MergeOutcome(answered, state)
    BY DEF MergeResumes
<1> HIDE DEF answered, state
<1>5. CASE state = "ok"
    BY <1>1, <1>2, <1>3, <1>4, <1>5, StoresSummarySound, SettledBy DEF IInv
<1>6. CASE Repairs /\ (state = "provider" \/ (state = "failed" /\ answered.summary = None))
    BY <1>2, <1>3, <1>4, <1>6, MarksPendingSound, SettledBy DEF MergeOutcome
<1>7. CASE \/ state = "refused"
           \/ state = "failed" /\ answered.summary # None
           \/ ~Repairs /\ state # "ok"
    BY <1>2, <1>3, <1>4, <1>7, SettledBy DEF MergeOutcome, Accounted
<1> QED
    BY <1>1, <1>3, <1>5, <1>6, <1>7

\* merge's first half: summary there, skipped, or asked for.
LEMMA MergeRunStep ==
  ASSUME IInv, MergeRun
  PROVE  IInv'
<1>1. Jobs /\ Tasks /\ Recording /\ Others /\ Sound(rec) /\ rec \in Rec
    BY Parts DEF Recording, Sound
<1>2. (declined' <=> text \in Wordless) /\ declined' \in BOOLEAN /\ UNCHANGED switches
  <2>1. declined' = (text \in Wordless)
      BY DEF MergeRun
  <2>2. (declined' <=> text \in Wordless) /\ declined' \in BOOLEAN
    <3>1. (text \in Wordless) \in BOOLEAN
        OBVIOUS
    <3> QED
        BY <2>1, <3>1
  <2> QED
      BY <2>2 DEF MergeRun
<1>3. CASE UNCHANGED tasks
  <2>1. Recording'
    <3>1. CASE (~Wanted \/ text \in Wordless) /\ rec' = [rec EXCEPT !.status = "merged"]
      <4>1. rec' = [rec EXCEPT !.status = "merged", !.awaiting = rec.awaiting]
          BY <1>1, <3>1 DEF Rec
      <4> QED
          BY <1>1, <1>2, <3>1, <4>1, MovesSettled
             DEF Rec, Wanted, IsCurrent, Accounted, Repairs
    <3>2. CASE rec' = [RecordsSkip(rec) EXCEPT !.status = "merged"]
      <4>1. Sound(RecordsSkip(rec)) /\ Accounted(RecordsSkip(rec))
          BY <1>1, RecordsSkipSound
      <4> DEFINE s == RecordsSkip(rec)
      <4> HIDE DEF s
      <4>2. rec' = [s EXCEPT !.status = "merged", !.awaiting = s.awaiting]
          BY <3>2, <4>1 DEF s, Sound, Rec
      <4>3. Sound(s) /\ Accounted(s) /\ s.awaiting \in Maybe(TaskIds)
          BY <4>1 DEF s, Sound, Rec
      <4> QED
          BY <1>2, <4>2, <4>3, MovesSettled
    <3>3. CASE rec' = [rec EXCEPT !.status = "error"]
      <4>1. rec' = [rec EXCEPT !.status = "error", !.awaiting = rec.awaiting]
          BY <1>1, <3>3 DEF Rec
      <4> QED
          BY <1>1, <1>2, <4>1, MovesSettled DEF Rec
    <3>4. CASE \E t \in TaskIds : rec' = [rec EXCEPT !.awaiting = t] /\ rec.status = "merging"
      <4>1. PICK t \in TaskIds : rec' = [rec EXCEPT !.awaiting = t] /\ rec.status = "merging"
          BY <3>4
      <4>2. rec' = [rec EXCEPT !.status = "merging", !.awaiting = t]
          BY <1>1, <4>1 DEF Rec
      <4> QED
          BY <1>1, <1>2, <4>1, <4>2, MovesSettled DEF Maybe
    <3> QED
        BY <3>1, <3>2, <3>3, <3>4 DEF MergeRun
  <2> QED
      BY <1>1, <1>3, <2>1, NextParts DEF MergeRun, Jobs, OneJob, Processing, Tasks, Others, Ended
<1>4. CASE \E t \in TaskIds : Submits("merge", t) /\ rec' = [rec EXCEPT !.awaiting = t]
  <2>1. PICK t \in TaskIds : Submits("merge", t) /\ rec' = [rec EXCEPT !.awaiting = t]
      BY <1>4
  <2>2. Tasks' /\ DOMAIN tasks \subseteq DOMAIN tasks'
        /\ \A u \in DOMAIN tasks : tasks'[u] = tasks[u]
      BY <2>1, SubmitsTyped DEF IInv, Tasks
  <2>3. rec' = [rec EXCEPT !.status = "merging", !.awaiting = t]
      BY <1>1, <2>1 DEF MergeRun, Rec
  <2>4. Recording'
      BY <1>1, <1>2, <2>3, MovesSettled DEF Maybe
  <2>5. Jobs' /\ Others'
      BY <1>1, <2>2 DEF MergeRun, Jobs, OneJob, Processing, Others, Ended
  <2> QED
      BY <2>2, <2>4, <2>5, NextParts
<1> QED
    BY <1>3, <1>4 DEF MergeRun

\* A task ends and says so.
LEMMA TaskEndsStep ==
  ASSUME IInv, NEW t \in TaskIds, TaskEnds(t)
  PROVE  IInv'
<1>1. Jobs /\ Tasks /\ Recording /\ Others
    BY Parts
<1>2. PICK state \in {"ok", "refused", "provider", "failed"} :
        tasks' = [tasks EXCEPT ![t].state = state]
    BY DEF TaskEnds
<1>3. tasks \in Seq(Task) /\ t \in DOMAIN tasks /\ tasks[t] \in Task
    BY <1>1 DEF TaskEnds, Tasks
<1>4. [tasks[t] EXCEPT !.state = state] \in Task
      /\ [tasks[t] EXCEPT !.state = state].state # "running"
    BY <1>3 DEF Task
<1>5. Tasks' /\ DOMAIN tasks' = DOMAIN tasks /\ tasks'[t].state # "running"
      /\ \A u \in DOMAIN tasks : u # t => tasks'[u] = tasks[u]
  <2>1. tasks' = [tasks EXCEPT ![t] = [tasks[t] EXCEPT !.state = state]]
      BY <1>2, <1>3
  <2>2. t \in 1..Len(tasks) /\ DOMAIN tasks = 1..Len(tasks)
      BY <1>3
  <2>3. tasks' \in Seq(Task) /\ Len(tasks') = Len(tasks)
      /\ \A u \in 1..Len(tasks) : tasks'[u] = IF u = t THEN [tasks[t] EXCEPT !.state = state]
                                              ELSE tasks[u]
      BY <1>3, <1>4, <2>1, <2>2, ExceptSeq
  <2>4. DOMAIN tasks' = 1..Len(tasks)
      BY <2>3
  <2>5. tasks'[t] = [tasks[t] EXCEPT !.state = state]
      BY <2>2, <2>3
  <2> QED
      BY <1>1, <1>4, <2>2, <2>3, <2>4, <2>5 DEF Tasks
<1>6. Others'
    BY <1>1, <1>3, <1>5 DEF TaskEnds, Others, Ended
<1>7. Recording' /\ Jobs'
    BY <1>1, StaysSettled DEF TaskEnds, Recording, Jobs, OneJob, Processing
<1> QED
    BY <1>5, <1>6, <1>7, NextParts

\* The dispatch of an outcome to its waiter.
LEMMA HandleStep ==
  ASSUME IInv, NEW t \in TaskIds, Handle(t)
  PROVE  IInv'
<1>1. Jobs /\ Tasks /\ Recording /\ Others /\ t \in notices
    BY Parts DEF Handle
<1>2. Jobs' /\ Recording' /\ declined' \in BOOLEAN
  <2> switches' = switches
      BY DEF Handle
  <2>1. CASE \E j \in JobAwaiting(t) : JobSettles(j, t)
      BY <1>1, <2>1, JobSettlesStep
  <2>2. CASE MergeResumes(t)
      BY <1>1, <2>2, MergeResumesStep DEF MergeResumes, Jobs, OneJob, Processing
  <2>3. CASE UNCHANGED <<rec, jobs, announced, declined>>
      BY <1>1, <2>3, StaysSettled DEF Recording, Jobs, OneJob, Processing, Others
  <2> QED
      BY <2>1, <2>2, <2>3 DEF Handle
<1>3. Tasks' /\ Others'
  <2>1. notices' \subseteq notices
      BY <1>1 DEF Handle, Notify
  <2> QED
      BY <1>1, <1>2, <2>1 DEF Handle, Tasks, Others, Ended
<1> QED
    BY <1>2, <1>3, NextParts

\* The pass at rest.
LEMMA IdleTyped == Idle \in [at: {"idle", "read", "marked"}, late: BOOLEAN]
BY DEF Idle

\* The run, the deadline and the marks of the repair pass: jobs and tasks stay.
LEMMA RecStep ==
  ASSUME IInv, Finalize \/ RunAgain \/ DeadlinePasses \/ PassMarks
  PROVE  IInv'
<1>1. Jobs /\ Tasks /\ Recording /\ Others /\ Sound(rec) /\ rec \in Rec
    BY Parts DEF Recording, Sound
<1>2. Others'
  <2>1. pass' \in [at: {"idle", "read", "marked"}, late: BOOLEAN]
      BY <1>1, IdleTyped DEF Finalize, RunAgain, DeadlinePasses, PassMarks, Others
  <2>2. runs' \in 1..MaxRuns
      BY <1>1, SummaryAssumption
         DEF Finalize, RunAgain, DeadlinePasses, PassMarks, Others
  <2> QED
      BY <1>1, <2>1, <2>2
         DEF Finalize, RunAgain, DeadlinePasses, PassMarks, Others, Ended
<1>3. Jobs' /\ Tasks'
    BY <1>1 DEF Finalize, RunAgain, DeadlinePasses, PassMarks,
                Jobs, OneJob, Processing, Tasks
<1>4. Recording'
  <2> switches' = switches
      BY DEF Finalize, RunAgain, DeadlinePasses, PassMarks
  <2>1. CASE Finalize
    <3>1. rec' = [rec EXCEPT !.status = "completed", !.awaiting = rec.awaiting]
        BY <1>1, <2>1 DEF Finalize, Rec
    <3>2. Repairs => Accounted(rec) \/ declined'
        BY <1>1, <2>1 DEF Finalize, Recording, Settled, Accounted
    <3> QED
        BY <1>1, <3>1, <3>2, MovesSettled DEF Rec
  <2>2. CASE RunAgain
    <3>1. rec' = [rec EXCEPT !.status = "merging", !.awaiting = rec.awaiting]
        BY <1>1, <2>2 DEF RunAgain, Rec
    <3> QED
        BY <1>1, <3>1, MovesSettled DEF Rec
  <2>3. CASE (DeadlinePasses \/ PassMarks) /\ rec' # rec
    <3>1. rec.owed # None
          /\ \/ rec' = [rec EXCEPT !.owed.end = "exhausted"]
             \/ rec' = [rec EXCEPT !.owed.late = TRUE]
             \/ rec' = [rec EXCEPT !.owed.delay = Doubled(@)]
        BY <2>3 DEF DeadlinePasses, PassMarks
    <3>2. Sound(rec') /\ rec'.owed # None /\ rec'.status = rec.status
        BY <1>1, <3>1, OwedUpdates
    <3> QED
        BY <3>2, SettledBy DEF Accounted
  <2>4. CASE UNCHANGED <<rec, declined>>
      BY <1>1, <2>4, StaysSettled
  <2> QED
      BY <2>1, <2>2, <2>3, <2>4 DEF PassMarks, DeadlinePasses
<1> QED
    BY <1>2, <1>3, <1>4, NextParts

\* The invariant holds at the start.
LEMMA InitIInv == Init => IInv
<1> SUFFICES ASSUME Init PROVE IInv
    OBVIOUS
<1>1. rec \in Rec
    BY DEF Init, NewRec, Rec, Maybe
<1>2. rec.status = "merging" /\ ~rec.skipped
    BY DEF Init, NewRec
<1>3. Jobs /\ Tasks
    BY SummaryAssumption DEF Init, Jobs, OneJob, Processing, Tasks
<1>4. Others
  <2>1. text \in Texts /\ runs \in 1..MaxRuns
      BY SummaryAssumption DEF Init, Texts
  <2>2. pass \in [at: {"idle", "read", "marked"}, late: BOOLEAN] /\ declined \in BOOLEAN
      BY IdleTyped DEF Init
  <2> QED
      BY <2>1, <2>2 DEF Init, Others, Ended
<1> QED
    BY <1>1, <1>2, <1>3, <1>4, Parts DEF Recording, Sound, Settled

\* Every step keeps it.
LEMMA NextIInv == IInv /\ [Next]_vars => IInv'
<1> SUFFICES ASSUME IInv, [Next]_vars PROVE IInv'
    OBVIOUS
<1>1. Jobs /\ Tasks /\ Recording /\ Others
    BY Parts
<1>2. CASE MergeRun
    BY <1>2, MergeRunStep
<1>3. CASE Finalize \/ RunAgain \/ DeadlinePasses \/ PassMarks
    BY <1>3, RecStep
<1>4. ASSUME NEW origin \in {"user", "staff"}, Resummarize(origin)
      PROVE  IInv'
    BY <1>1, <1>4, StartsResummaryStep DEF Resummarize, Origins, Others
<1>5. CASE PassStarts
  <2>1. CASE StartsResummary("pipeline_repair")
      BY <1>5, <2>1, StartsResummaryStep DEF PassStarts, Origins, Idle
  <2>2. CASE UNCHANGED <<rec, jobs, tasks, announced>>
      BY <1>1, <1>5, <2>2, StaysSettled, NextParts
         DEF PassStarts, Idle, Jobs, OneJob, Processing, Tasks, Recording, Others, Ended
  <2> QED
      BY <1>5, <2>1, <2>2 DEF PassStarts
<1>6. CASE Edit \/ PassReads \/ UNCHANGED vars \/ \E t \in TaskIds : Lose(t)
  <2>1. UNCHANGED <<switches, rec, jobs, tasks, announced, declined, runs>> /\ notices' \subseteq notices
      BY <1>6 DEF Edit, PassReads, Lose, vars
  <2>2. rec.owed # None => rec.owed \in Debt
      BY <1>1 DEF Recording, Sound, Rec, Maybe
  <2>3. lost' \subseteq DOMAIN tasks /\ text' \in Texts
        /\ pass' \in [at: {"idle", "read", "marked"}, late: BOOLEAN]
      BY <1>1, <1>6, <2>2, SummaryAssumption
         DEF Edit, PassReads, Lose, vars, Others, Texts, Debt
  <2> QED
      BY <1>1, <2>1, <2>3, StaysSettled, NextParts
         DEF Jobs, OneJob, Processing, Tasks, Recording, Others, Ended
<1>7. ASSUME NEW t \in TaskIds, TaskEnds(t) \/ Handle(t)
      PROVE  IInv'
    BY <1>7, TaskEndsStep, HandleStep
<1> QED
    BY <1>2, <1>3, <1>4, <1>5, <1>6, <1>7 DEF Next

-----------------------------------------------------------------------------

\* The inductive invariant holds of every behaviour.
THEOREM Invariant == Spec => []IInv
BY InitIInv, NextIInv, PTL DEF Spec

\* However many ask and whatever the tasks answer, at most one re-summary is
\* being paid for, and the rows stay well formed (start_resummarize).
THEOREM JobsHold == Spec => []JobsInv
<1>1. IInv => JobsInv
  <2> SUFFICES ASSUME IInv PROVE OneJobInFlight
      BY DEF IInv, JobsInv
  <2>1. CASE Processing = {}
      BY <2>1, FS_EmptySet DEF OneJobInFlight
  <2>2. CASE Processing # {}
    <3>1. PICK j \in Processing : TRUE
        BY <2>2
    <3>2. Processing = {j}
        BY <3>1 DEF IInv, OneJob
    <3>3. Cardinality({j}) = 1
        BY FS_Singleton
    <3> QED
        BY <3>2, <3>3 DEF OneJobInFlight
  <2> QED
      BY <2>1, <2>2
<1> QED
    BY <1>1, Invariant, PTL

\* No order of merge, user, staff and watchdog leaves a summary both skipped
\* and owed (mark_pending, record_summary_skip).
THEOREM SkipsHold == Spec => []SkippedIsNeverOwed
<1>1. IInv => SkippedIsNeverOwed
    BY DEF IInv
<1> QED
    BY <1>1, Invariant, PTL

\* A recording that has completed without a summary is accounted for.
THEOREM DebtsHold == Spec => []NothingForgotten
<1>1. IInv => NothingForgotten
    BY DEF IInv, Settled, NothingForgotten
<1> QED
    BY <1>1, Invariant, PTL

\* A job has one outcome: an answer delivered twice, and the answer of merge to
\* a task of the same transcript, leave it and its announcement alone.
THEOREM SettleOnce == Spec => JobsSettleOnce
<1>1. IInv /\ [Next]_vars =>
        [\A j \in DOMAIN jobs : jobs[j].status # "processing" =>
           jobs'[j] = jobs[j] /\ announced'[j] = announced[j]]_vars
  <2> SUFFICES ASSUME IInv, Next, NEW j \in DOMAIN jobs, jobs[j].status # "processing"
               PROVE  jobs'[j] = jobs[j] /\ announced'[j] = announced[j]
      BY DEF vars
  <2>1. ASSUME NEW origin \in Origins, StartsResummary(origin)
        PROVE  jobs'[j] = jobs[j] /\ announced'[j] = announced[j]
    <3>1. CASE SkipsResummary(origin)
        BY <3>1, NewJobTyped DEF SkipsResummary, IInv, Maybe
    <3>2. CASE \E t \in TaskIds : NewJob(origin, t, "processing")
        BY <3>2, NewJobTyped DEF IInv, Maybe
    <3> QED
        BY <2>1, <3>1, <3>2 DEF StartsResummary
  <2>2. CASE Resummarize("user") \/ Resummarize("staff") \/ PassStarts
      BY <2>1, <2>2 DEF Resummarize, PassStarts, Origins
  <2>3. ASSUME NEW t \in TaskIds, Handle(t)
        PROVE  jobs'[j] = jobs[j] /\ announced'[j] = announced[j]
    <3>1. t \in notices
        BY <2>3 DEF Handle
    <3>2. CASE \E i \in JobAwaiting(t) : JobSettles(i, t)
        BY <2>3, <3>1, <3>2, JobSettlesStep DEF Handle, JobAwaiting, Processing
    <3>3. CASE UNCHANGED <<jobs, announced>>
        BY <3>3
    <3> QED
        BY <2>3, <3>2, <3>3 DEF Handle, MergeResumes
  <2>4. CASE \/ MergeRun \/ Finalize \/ RunAgain \/ Edit \/ DeadlinePasses
             \/ PassReads \/ PassMarks
             \/ \E t \in TaskIds : TaskEnds(t) \/ Lose(t)
      BY <2>4 DEF MergeRun, Finalize, RunAgain, Edit, DeadlinePasses,
                  PassReads, PassMarks, TaskEnds, Lose
  <2> QED
      BY <2>2, <2>3, <2>4 DEF Next
<1> QED
    BY <1>1, Invariant, PTL DEF Spec, JobsSettleOnce

=============================================================================
