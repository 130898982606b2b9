--------------------------- MODULE PipelineProofs ---------------------------
(***************************************************************************)
(* Proofs about the driver: types and the bill (one completion per run,    *)
(* never followed by a failure of that run); what keeps a live recording   *)
(* moving; the truth of checkpoints; and the lifecycle the driver          *)
(* implements.                                                             *)
(***************************************************************************)
EXTENDS Pipeline, SequenceTheorems, TLAPS

\* _ensure_run leaves a well-formed row with a run.
LEMMA EnsureRunType ==
    ASSUME NEW r \in Row
    PROVE  EnsureRun(r) \in Row /\ EnsureRun(r).run \in RunIds
BY ConstantsAssumption DEF EnsureRun, Row, RunIds

\* A resolved list is a sequence of stages.
LEMMA ListedStages ==
    ASSUME NEW p \in Pipelines
    PROVE  p \in Seq(Stages) /\ Len(p) \in Nat /\ DOMAIN p = 1..Len(p)
           /\ \A i \in DOMAIN p : p[i] \in Stages
BY ConstantsAssumption

\* _mark_completed leaves a well-formed row.
LEMMA CompletedType ==
    ASSUME NEW r \in Row, NEW s \in Stages, NEW k \in Nat, NEW f \in Prints
    PROVE  Completed(r, s, k, f) \in Row
<1>1. EnsureRun(r) \in Row
  BY EnsureRunType
<1> QED
  BY <1>1 DEF Completed, Row

\* A stage's fingerprint is a version or None.
LEMMA FingerprintType ==
    ASSUME TypeOK, NEW s \in Stages
    PROVE  Fingerprint(s) \in Prints
BY DEF TypeOK, Fingerprint, Prints

-----------------------------------------------------------------------------
(* The outcomes of a handler. `r` is the row as the handler has it in hand: *)
(* still live, and on the run the recording is on (or on its first).        *)

PublicOK ==
    /\ row \in Row
    /\ completions \in [RunIds -> 0..2]
    /\ verdict \in [RunIds -> Verdicts]
    /\ repeated \subseteq Stages

InHand(r) ==
    /\ r \in Row
    /\ r.status = "active"
    /\ r.run = row.run \/ (row.run = 0 /\ r.run = 1)

\* The run of a row in hand has not been billed, and every billed run is
\* an earlier one.
LEMMA UnbilledRun ==
    ASSUME TypeOK, BillInv, Live(row), NEW r \in Row, InHand(r)
    PROVE  /\ EnsureRun(r).run \in RunIds
           /\ completions[EnsureRun(r).run] = 0
           /\ \A q \in RunIds : completions[q] > 0 =>
                /\ q < EnsureRun(r).run
                /\ q # EnsureRun(r).run
<1>1. EnsureRun(r).run \in RunIds /\ row.run \in Nat
  BY EnsureRunType DEF TypeOK, Row
<1>2. EnsureRun(r).run >= row.run
  BY ConstantsAssumption DEF InHand, EnsureRun, TypeOK, Row
<1>3. \A q \in RunIds : completions[q] > 0 => q < row.run
  BY DEF BillInv, Live, Terminal
<1>4. completions \in [RunIds -> 0..2] /\ RunIds \subseteq Nat
  BY DEF TypeOK, RunIds
<1> DEFINE n == EnsureRun(r).run
<1>5. n \in RunIds /\ n \in Nat /\ n >= row.run
  BY <1>1, <1>2, <1>4
<1> HIDE DEF n
<1>6. \A q \in RunIds : completions[q] > 0 => q < n /\ q # n
  BY <1>1, <1>3, <1>4, <1>5
<1>7. completions[n] = 0
  BY <1>4, <1>5, <1>6
<1> QED
  BY <1>5, <1>6, <1>7 DEF n

\* A row a handler ends is well formed, and only its own run's verdict moves.
LEMMA EndsOutcome ==
    ASSUME TypeOK, BillInv, Live(row), NEW r \in Row, InHand(r),
           NEW st \in Terminal, NEW v \in Verdicts, Ends(r, st, v)
    PROVE  /\ row' \in Row /\ verdict' \in [RunIds -> Verdicts]
           /\ repeated' \subseteq Stages
           /\ row'.run = EnsureRun(r).run /\ row'.status = st
           /\ verdict' = [verdict EXCEPT ![row'.run] = v]
<1>1. EnsureRun(r) \in Row /\ EnsureRun(r).run \in RunIds
  BY EnsureRunType
<1>2. row' = [EnsureRun(r) EXCEPT !.status = st]
  BY DEF Ends
<1>3. row' \in Row /\ row'.run = EnsureRun(r).run /\ row'.status = st
  BY <1>1, <1>2 DEF Row, Statuses
<1> QED
  BY <1>1, <1>3 DEF Ends, TypeOK

\* Failing or parking a row in hand keeps the bill.
LEMMA FailOutcome ==
    ASSUME TypeOK, BillInv, Live(row), NEW r \in Row, InHand(r),
           Fail(r) \/ ParkForPayment(r)
    PROVE  PublicOK' /\ BillInv'
<1>1. PICK st \in Terminal \ {"completed"}, v \in Verdicts : Ends(r, st, v)
  BY DEF Fail, ParkForPayment, Terminal, Verdicts
<1>2. completions' = completions
  BY DEF Fail, ParkForPayment
<1>3. /\ row' \in Row /\ verdict' \in [RunIds -> Verdicts]
      /\ repeated' \subseteq Stages
      /\ row'.run = EnsureRun(r).run /\ row'.status = st
      /\ verdict' = [verdict EXCEPT ![row'.run] = v]
  BY <1>1, EndsOutcome
<1>4. PublicOK'
  BY <1>2, <1>3 DEF PublicOK, TypeOK
<1>5. BillInv'
  BY <1>2, <1>3, UnbilledRun DEF BillInv, TypeOK
<1> QED
  BY <1>4, <1>5

\* Finalizing a row in hand bills its run for the first time.
LEMMA FinalizeOutcome ==
    ASSUME TypeOK, BillInv, Live(row), NEW r \in Row, InHand(r), Finalize(r)
    PROVE  PublicOK' /\ BillInv'
<1>1. Ends(r, "completed", "completed")
      /\ completions' = [completions EXCEPT ![EnsureRun(r).run] = 1]
  BY UnbilledRun DEF Finalize, OneMore
<1>2. /\ row' \in Row /\ verdict' \in [RunIds -> Verdicts]
      /\ repeated' \subseteq Stages
      /\ row'.run = EnsureRun(r).run /\ row'.status = "completed"
      /\ verdict' = [verdict EXCEPT ![row'.run] = "completed"]
  BY <1>1, EndsOutcome DEF Terminal, Verdicts
<1>3. PublicOK'
  BY <1>1, <1>2 DEF PublicOK, TypeOK
<1>4. row'.run # 0
  BY <1>2, UnbilledRun DEF RunIds
<1>5. BillInv'
  BY <1>1, <1>2, <1>4, UnbilledRun DEF BillInv, TypeOK
<1> QED
  BY <1>3, <1>5

\* The handler leaves the recording live: nothing public happens.
LEMMA StaysLive ==
    ASSUME TypeOK, BillInv, Live(row), NEW r \in Row, InHand(r),
           row' \in Row, row'.status = "active",
           row'.run \in {r.run, EnsureRun(r).run},
           UNCHANGED publicVars, repeated' \subseteq Stages
    PROVE  PublicOK' /\ BillInv'
<1>1. row'.run \in Nat /\ row'.run >= row.run
  BY ConstantsAssumption DEF InHand, EnsureRun, TypeOK, Row
<1>2. \A q \in RunIds : completions[q] > 0 => q < row.run
  BY DEF BillInv, Live, Terminal
<1>3. PublicOK'
  BY DEF PublicOK, TypeOK, publicVars
<1>4. BillInv'
  BY <1>1, <1>2 DEF BillInv, TypeOK, publicVars, RunIds, Row
<1> QED
  BY <1>3, <1>4

\* The retry ladder keeps the bill, whether it retries or fails.
LEMMA RetryOutcome ==
    ASSUME TypeOK, BillInv, Live(row), NEW r \in Row, InHand(r), HandleRetry(r)
    PROVE  PublicOK' /\ BillInv'
<1>1. CASE Fail(r)
  BY <1>1, FailOutcome
<1>2. CASE /\ row' = [r EXCEPT !.retry = @ + 1]
           /\ UNCHANGED <<completions, verdict, repeated>>
  <2>1. row' \in Row /\ row'.run = r.run /\ row'.status = "active"
    BY <1>2 DEF Row, InHand
  <2>2. UNCHANGED publicVars /\ repeated' \subseteq Stages
    BY <1>2 DEF publicVars, TypeOK
  <2> QED
    BY <2>1, <2>2, StaysLive
<1> QED
  BY <1>1, <1>2 DEF HandleRetry

\* Completing a stage keeps the bill: no run ends.
LEMMA CompleteOutcome ==
    ASSUME TypeOK, BillInv, Live(row), NEW r \in Row, InHand(r),
           NEW s \in Stages, NEW k \in Nat, NEW f \in Prints,
           CompleteStage(r, s, k, f)
    PROVE  PublicOK' /\ BillInv'
<1>1. row' \in Row
  BY CompletedType DEF CompleteStage
<1>2. row'.run = EnsureRun(r).run /\ row'.status = "active"
  <2>1. EnsureRun(r) \in Row /\ EnsureRun(r).status = "active"
    BY EnsureRunType DEF EnsureRun, InHand, Row
  <2> QED
    BY <2>1 DEF CompleteStage, Completed, Row
<1>3. UNCHANGED publicVars /\ repeated' \subseteq Stages
  BY DEF CompleteStage, TypeOK
<1> QED
  BY <1>1, <1>2, <1>3, StaysLive

\* Waiting for a task keeps the bill.
LEMMA AwaitOutcome ==
    ASSUME TypeOK, BillInv, Live(row), NEW r \in Row, InHand(r),
           NEW s \in Stages, NEW i \in Nat \ {0}, NEW t \in TaskIds,
           AwaitTask(r, s, i, t)
    PROVE  PublicOK' /\ BillInv'
<1>1. [task |-> t, stage |-> s, index |-> i - 1, print |-> Fingerprint(s)]
        \in Awaiting
  BY FingerprintType DEF Awaiting
<1>2. row' \in Row /\ row'.run = r.run /\ row'.status = "active"
  BY <1>1 DEF AwaitTask, Row, InHand
<1>3. UNCHANGED publicVars /\ repeated' \subseteq Stages
  BY DEF AwaitTask, publicVars, TypeOK
<1> QED
  BY <1>2, <1>3, StaysLive

-----------------------------------------------------------------------------
(* The rest of the state: events, tasks and what stages leave behind.      *)

EnvOK ==
    /\ uploaded \in BOOLEAN
    /\ stageEvents \subseteq Nat
    /\ tasks \in Seq(Task) /\ Len(tasks) <= MaxTasks
    /\ notices \subseteq DOMAIN tasks
    /\ inputs \in [Stages -> Versions]
    /\ silent \subseteq Elusive
    /\ made \in [Stages -> Prints]
    /\ handoff \in [HandoffStages -> Prints]
    /\ doubted \subseteq Stages

\* The type invariant is the public half and the rest.
LEMMA TypeParts == PublicOK' /\ EnvOK' => TypeOK'
BY DEF TypeOK, PublicOK, EnvOK

\* A task that was started has an id, a stage and an input.
LEMMA KnownTask ==
    ASSUME TypeOK, NEW t \in DOMAIN tasks
    PROVE  /\ t \in TaskIds /\ t \in 1..Len(tasks) /\ tasks[t] \in Task
           /\ tasks[t].stage \in Stages /\ tasks[t].input \in Versions
<1>1. tasks \in Seq(Task) /\ Len(tasks) \in Nat /\ Len(tasks) <= MaxTasks
  BY DEF TypeOK
<1>2. t \in 1..Len(tasks) /\ tasks[t] \in Task
  BY <1>1
<1>3. t \in TaskIds
  BY <1>1, <1>2, ConstantsAssumption DEF TaskIds
<1> QED
  BY <1>2, <1>3, ConstantsAssumption DEF Task

\* A task that changes state stays the task it was.
LEMMA TaskMoves ==
    ASSUME TypeOK, NEW t \in DOMAIN tasks, NEW st \in TaskStates,
           tasks' = [tasks EXCEPT ![t].state = st]
    PROVE  /\ tasks' \in Seq(Task) /\ Len(tasks') = Len(tasks)
           /\ DOMAIN tasks' = DOMAIN tasks
           /\ tasks'[t].input = tasks[t].input
<1> DEFINE x == [tasks[t] EXCEPT !.state = st]
<1>1. x \in Task /\ x.input = tasks[t].input
  BY KnownTask DEF Task
<1>2. tasks' = [tasks EXCEPT ![t] = x]
  OBVIOUS
<1> HIDE DEF x
<1>3. tasks \in Seq(Task) /\ t \in 1..Len(tasks)
  BY KnownTask DEF TypeOK
<1> QED
  BY <1>1, <1>2, <1>3, ExceptSeq

\* A started task is the last one.
LEMMA TaskStarts ==
    ASSUME TypeOK, Len(tasks) < MaxTasks, NEW x \in Task, tasks' = Append(tasks, x)
    PROVE  /\ tasks' \in Seq(Task) /\ Len(tasks') <= MaxTasks
           /\ DOMAIN tasks' = DOMAIN tasks \cup {Len(tasks) + 1}
           /\ tasks'[Len(tasks) + 1] = x
<1>1. tasks \in Seq(Task) /\ Len(tasks) \in Nat /\ MaxTasks \in Nat
  BY ConstantsAssumption DEF TypeOK
<1> QED
  BY <1>1, AppendProperties

\* Delivering a stage event, again or for good, adds positions only.
LEMMA DeliverType ==
    ASSUME TypeOK, NEW e \in stageEvents, NEW more \in SUBSET Nat, Deliver(e, more)
    PROVE  stageEvents' \subseteq Nat
BY DEF TypeOK, Deliver

\* A stage's result is stored under the version it was made from.
LEMMA StoreType ==
    ASSUME TypeOK, NEW s \in Stages, NEW v \in Versions,
           NEW box \in [HandoffStages -> Prints], StoreResult(s, v, box)
    PROVE  made' \in [Stages -> Prints] /\ handoff' \in [HandoffStages -> Prints]
BY DEF TypeOK, StoreResult, Prints

\* The postbox holds inputs, whoever stored there last.
LEMMA PostedType ==
    ASSUME TypeOK, NEW s \in Stages, NEW t, NEW st, NEW box \in Posted(s, t, st)
    PROVE  box \in [HandoffStages -> Prints]
BY ConstantsAssumption DEF TypeOK, Posted, Prints

\* Only stages are doubted.
LEMMA DoubtsType ==
    ASSUME TypeOK, NEW s \in Stages, NEW r, NEW f, NEW x, Doubts(r, s, f, x)
    PROVE  doubted' \subseteq Stages
BY DEF TypeOK, Doubts

-----------------------------------------------------------------------------
(* Every step preserves typing and the invariant of the bill.              *)

IInv == TypeOK /\ BillInv

\* What a handler makes of a live row before its outcome is in hand.
LEMMA RowInHand ==
    ASSUME TypeOK, Live(row)
    PROVE  /\ row \in Row /\ InHand(row)
           /\ Relieved \in Row /\ InHand(Relieved)
           /\ \A p \in Pipelines : \A i \in DOMAIN p :
                /\ AtCursor(p, i) \in Row /\ InHand(AtCursor(p, i))
                /\ Begun(p, i) \in Row /\ InHand(Begun(p, i))
<1>1. row \in Row /\ InHand(row)
  BY DEF TypeOK, InHand, Live, Statuses, Row
<1>2. Relieved \in Row /\ InHand(Relieved)
  BY <1>1 DEF Relieved, InHand, Row
<1>3. ASSUME NEW p \in Pipelines, NEW i \in DOMAIN p
      PROVE  /\ AtCursor(p, i) \in Row /\ InHand(AtCursor(p, i))
             /\ Begun(p, i) \in Row /\ InHand(Begun(p, i))
  <2> DEFINE r == AtCursor(p, i)
  <2>1. i - 2 \in Nat \cup {-1} /\ i - 1 \in Nat
    BY ListedStages
  <2>2. r \in Row /\ InHand(r) /\ r.run = row.run
    BY <1>1, <2>1 DEF AtCursor, DropCursor, InHand, Row
  <2> HIDE DEF r
  <2>3. EnsureRun(r) \in Row /\ InHand(EnsureRun(r))
    BY <2>2, EnsureRunType, ConstantsAssumption DEF EnsureRun, InHand, Row
  <2>4. Begun(p, i) = [EnsureRun(r) EXCEPT !.stageIndex = i - 1]
    BY DEF Begun, r
  <2>5. Begun(p, i) \in Row /\ InHand(Begun(p, i))
    BY <2>1, <2>3, <2>4 DEF InHand, Row
  <2> QED
    BY <2>2, <2>5 DEF r
<1> QED
  BY <1>1, <1>2, <1>3

\* The public half is untouched when the row keeps its run and its status.
LEMMA NothingPublic ==
    ASSUME IInv, row' \in Row, row'.run = row.run, row'.status = row.status,
           UNCHANGED publicVars, UNCHANGED repeated
    PROVE  PublicOK' /\ BillInv'
BY DEF IInv, TypeOK, PublicOK, BillInv, publicVars

\* A stage event whose handling submits nothing.
LEMMA QuietStageStep ==
    ASSUME IInv, NEW e \in stageEvents, Live(row),
           \/ ResolverFails(e) \/ EmptyPipeline(e) \/ FinishPipeline(e)
           \/ \E p \in Pipelines : \E i \in DOMAIN p :
                \/ UnknownStage(e, p, i)
                \/ RunToCompletion(e, p, i)
                \/ RunToAbort(e, p, i)
    PROVE  IInv'
<1>1. TypeOK /\ BillInv /\ row \in Row /\ InHand(row)
  BY RowInHand DEF IInv
<1>2. CASE ResolverFails(e)
  <2>1. PublicOK' /\ BillInv'
    BY <1>1, <1>2, RetryOutcome DEF ResolverFails
  <2>2. EnvOK'
    BY <1>1, <1>2, DeliverType DEF ResolverFails, TypeOK, EnvOK, taskVars,
                           worldVars, dataVars
  <2> QED
    BY <2>1, <2>2, TypeParts DEF IInv
<1>3. CASE EmptyPipeline(e)
  <2>1. PublicOK' /\ BillInv'
    BY <1>1, <1>3, FailOutcome DEF EmptyPipeline
  <2>2. EnvOK'
    BY <1>1, <1>3, DeliverType DEF EmptyPipeline, TypeOK, EnvOK, taskVars,
                           worldVars, dataVars
  <2> QED
    BY <2>1, <2>2, TypeParts DEF IInv
<1>4. CASE FinishPipeline(e)
  <2>1. PublicOK' /\ BillInv'
    BY <1>1, <1>4, FinalizeOutcome DEF FinishPipeline
  <2>2. EnvOK'
    BY <1>1, <1>4, DeliverType DEF FinishPipeline, TypeOK, EnvOK, taskVars,
                           worldVars, dataVars
  <2> QED
    BY <2>1, <2>2, TypeParts DEF IInv
<1>5. ASSUME NEW p \in Pipelines, NEW i \in DOMAIN p, RunToCompletion(e, p, i)
      PROVE  IInv'
  <2>1. /\ p[i] \in Stages /\ i - 1 \in Nat /\ i \in Nat
        /\ Fingerprint(p[i]) \in Prints
        /\ Begun(p, i) \in Row /\ InHand(Begun(p, i))
    BY <1>1, ListedStages, FingerprintType, RowInHand
  <2>2. PublicOK' /\ BillInv'
    BY <1>1, <1>5, <2>1, CompleteOutcome DEF RunToCompletion
  <2>3. stageEvents' \subseteq Nat
    BY <1>1, <1>5, <2>1, DeliverType DEF RunToCompletion
  <2>4. made' \in [Stages -> Prints] /\ handoff' \in [HandoffStages -> Prints]
    BY <1>1, <1>5, <2>1 DEF RunToCompletion, TypeOK, Prints, storeVars
  <2>5. doubted' \subseteq Stages
    BY <1>1, <1>5, <2>1, DoubtsType DEF RunToCompletion
  <2>6. EnvOK'
    BY <1>1, <1>5, <2>3, <2>4, <2>5 DEF RunToCompletion, TypeOK, EnvOK, taskVars, worldVars
  <2> QED
    BY <2>2, <2>6, TypeParts DEF IInv
<1>6. ASSUME NEW p \in Pipelines, NEW i \in DOMAIN p, RunToAbort(e, p, i)
      PROVE  IInv'
  <2>1. Begun(p, i) \in Row /\ InHand(Begun(p, i)) /\ p[i] \in Stages
    BY <1>1, RowInHand, ListedStages
  <2>2. PublicOK' /\ BillInv'
    BY <1>1, <1>6, <2>1, FailOutcome, RetryOutcome DEF RunToAbort
  <2>3. made' \in [Stages -> Prints] /\ doubted' \subseteq Stages
    BY <1>1, <1>6, <2>1 DEF RunToAbort, TypeOK, Prints
  <2>4. EnvOK'
    BY <1>1, <1>6, <2>3, DeliverType DEF RunToAbort, TypeOK, EnvOK, taskVars, worldVars
  <2> QED
    BY <2>2, <2>4, TypeParts DEF IInv
<1>7. ASSUME NEW p \in Pipelines, NEW i \in DOMAIN p, UnknownStage(e, p, i)
      PROVE  IInv'
  <2>1. PublicOK' /\ BillInv'
    BY <1>1, <1>7, RowInHand, FailOutcome DEF UnknownStage
  <2>2. EnvOK'
    BY <1>1, <1>7, DeliverType DEF UnknownStage, TypeOK, EnvOK, taskVars,
                           worldVars, dataVars
  <2> QED
    BY <2>1, <2>2, TypeParts DEF IInv
<1> QED
  BY <1>2, <1>3, <1>4, <1>5, <1>6, <1>7

\* A submitted task carries its stage's fingerprint and input.
LEMMA TaskForType ==
    ASSUME TypeOK, NEW s \in AsyncStages, NEW st \in TaskStates
    PROVE  /\ TaskFor(s, st) \in Task /\ TaskFor(s, st).stage = s
           /\ TaskFor(s, st).input = inputs[s] /\ TaskFor(s, st).state = st
           /\ TaskFor(s, st).key = Fingerprint(s)
           /\ TaskFor(s, st).key \in {None, TaskFor(s, st).input}
BY FingerprintType, ConstantsAssumption DEF TaskFor, Task, TypeOK, Fingerprint

\* A task that ends while it is submitted is a started task.
LEMMA SettlesType ==
    ASSUME TypeOK, NEW s \in AsyncStages, NEW t \in TaskIds,
           NEW st \in TaskStates, Settles(s, t, st)
    PROVE  /\ tasks' \in Seq(Task) /\ Len(tasks') <= MaxTasks
           /\ notices' \subseteq DOMAIN tasks'
           /\ tasks'[t].input \in Versions
<1>1. CASE t \in InFlight(s) /\ tasks' = [tasks EXCEPT ![t].state = st]
  <2>1. t \in DOMAIN tasks
    BY <1>1 DEF InFlight
  <2> QED
    BY <1>1, <2>1, TaskMoves, KnownTask DEF Settles, TypeOK
<1>2. CASE t = Len(tasks) + 1 /\ tasks' = Append(tasks, TaskFor(s, st))
  <2> DEFINE x == TaskFor(s, st)
  <2>1. x \in Task /\ x.input \in Versions
    BY TaskForType DEF Task
  <2>2. Len(tasks) < MaxTasks
    BY <1>2, ConstantsAssumption DEF TaskIds, TypeOK
  <2>3. tasks' = Append(tasks, x)
    BY <1>2
  <2> HIDE DEF x
  <2> QED
    BY <1>2, <2>1, <2>2, <2>3, TaskStarts DEF Settles, TypeOK
<1> QED
  BY <1>1, <1>2 DEF Settles

\* A stage that submits a task and waits keeps the invariant.
LEMMA AwaitStep ==
    ASSUME IInv, NEW e \in stageEvents, Live(row),
           NEW p \in Pipelines, NEW i \in DOMAIN p, RunToAwait(e, p, i)
    PROVE  IInv'
<1>1. /\ TypeOK /\ BillInv /\ row \in Row
      /\ p[i] \in Stages /\ p[i] \in AsyncStages /\ i \in Nat \ {0}
      /\ Begun(p, i) \in Row /\ InHand(Begun(p, i))
  BY ListedStages, RowInHand DEF IInv, RunToAwait
<1>2. stageEvents' \subseteq Nat
  BY <1>1, DeliverType DEF RunToAwait
<1>3. CASE \E t \in InFlight(p[i]) : /\ AwaitTask(Begun(p, i), p[i], i, t)
                                     /\ UNCHANGED tasks
  <2>1. PICK t \in InFlight(p[i]) : AwaitTask(Begun(p, i), p[i], i, t)
    BY <1>3
  <2>2. t \in TaskIds
    BY <1>1, <2>1, KnownTask DEF InFlight
  <2>3. PublicOK' /\ BillInv'
    BY <1>1, <2>1, <2>2, AwaitOutcome
  <2>4. EnvOK'
    BY <1>1, <1>2, <1>3 DEF RunToAwait, TypeOK, EnvOK, worldVars, dataVars
  <2> QED
    BY <2>3, <2>4, TypeParts DEF IInv
<1>4. CASE LET s == p[i]
               id == Len(tasks) + 1
           IN  /\ id <= MaxTasks
               /\ tasks' = Append(tasks, TaskFor(s, "running"))
               /\ AwaitTask(Begun(p, i), s, i, id)
  <2> DEFINE x == TaskFor(p[i], "running")
  <2>1. Len(tasks) + 1 \in TaskIds /\ Len(tasks) < MaxTasks
    BY <1>1, <1>4, ConstantsAssumption DEF TypeOK, TaskIds
  <2>2. x \in Task
    BY <1>1, TaskForType DEF TaskStates
  <2>3. tasks' = Append(tasks, x)
    BY <1>4
  <2> HIDE DEF x
  <2>4. PublicOK' /\ BillInv'
    BY <1>1, <1>4, <2>1, AwaitOutcome
  <2>5. tasks' \in Seq(Task) /\ Len(tasks') <= MaxTasks /\ DOMAIN tasks \subseteq DOMAIN tasks'
    BY <1>1, <2>1, <2>2, <2>3, TaskStarts
  <2>6. EnvOK'
    BY <1>1, <1>2, <2>5 DEF RunToAwait, TypeOK, EnvOK, worldVars, dataVars
  <2> QED
    BY <2>4, <2>6, TypeParts DEF IInv
<1> QED
  BY <1>3, <1>4 DEF RunToAwait

\* A stage whose task was over at once keeps the invariant.
LEMMA ResultStep ==
    ASSUME IInv, NEW e \in stageEvents, Live(row),
           NEW p \in Pipelines, NEW i \in DOMAIN p, NEW t \in TaskIds,
           RunToResult(e, p, i, t)
    PROVE  IInv'
<1>1. /\ TypeOK /\ BillInv /\ row \in Row
      /\ p[i] \in Stages /\ p[i] \in AsyncStages /\ i \in Nat /\ i - 1 \in Nat
      /\ Begun(p, i) \in Row /\ InHand(Begun(p, i))
      /\ Fingerprint(p[i]) \in Prints
  BY ListedStages, RowInHand, FingerprintType DEF IInv, RunToResult
<1>2. PICK st \in {"done", "failed"} : Settles(p[i], t, st)
  BY DEF RunToResult
<1>3. /\ tasks' \in Seq(Task) /\ Len(tasks') <= MaxTasks
      /\ notices' \subseteq DOMAIN tasks' /\ tasks'[t].input \in Versions
  BY <1>1, <1>2, SettlesType DEF TaskStates
<1>4. /\ made' \in [Stages -> Prints] /\ handoff' \in [HandoffStages -> Prints]
      /\ doubted' \subseteq Stages
  <2>1. ASSUME NEW x \in TaskStates, NEW box \in Posted(p[i], t, x), NEW strange,
               StoreResult(p[i], tasks'[t].input, box),
               Doubts(Begun(p, i), p[i], Fingerprint(p[i]), strange)
        PROVE  /\ made' \in [Stages -> Prints] /\ handoff' \in [HandoffStages -> Prints]
               /\ doubted' \subseteq Stages
    BY <1>1, <1>3, <2>1, PostedType, StoreType, DoubtsType
  <2>2. ASSUME NEW x \in TaskStates, NEW box \in Posted(p[i], t, x),
               handoff' = box, UNCHANGED <<made, doubted>>
        PROVE  /\ made' \in [Stages -> Prints] /\ handoff' \in [HandoffStages -> Prints]
               /\ doubted' \subseteq Stages
    BY <1>1, <2>2, PostedType DEF TypeOK
  <2> QED
    BY <2>1, <2>2 DEF RunToResult, TaskStates
<1>5. stageEvents' \subseteq Nat
  BY <1>1, DeliverType DEF RunToResult
<1>6. PublicOK' /\ BillInv'
  BY <1>1, CompleteOutcome, RetryOutcome, FailOutcome DEF RunToResult
<1>7. EnvOK'
  BY <1>1, <1>3, <1>4, <1>5 DEF RunToResult, TypeOK, EnvOK, worldVars
<1> QED
  BY <1>6, <1>7, TypeParts DEF IInv

\* Every way run_stage ends keeps the invariant.
LEMMA StageStep ==
    ASSUME IInv, NEW e \in stageEvents, RunStage(e)
    PROVE  IInv'
<1>1. CASE DropStageEvent(e)
  <2>1. EnvOK'
    BY <1>1, DeliverType DEF IInv, DropStageEvent, TypeOK, EnvOK, taskVars, worldVars,
                             dataVars, history
  <2>2. PublicOK' /\ BillInv'
    BY <1>1, NothingPublic DEF IInv, TypeOK, DropStageEvent, history, publicVars
  <2> QED
    BY <2>1, <2>2, TypeParts DEF IInv
<1>2. CASE ResolverFails(e) \/ EmptyPipeline(e) \/ FinishPipeline(e)
  BY <1>2, QuietStageStep DEF ResolverFails, EmptyPipeline, FinishPipeline
<1>3. ASSUME NEW p \in Pipelines, NEW i \in DOMAIN p,
             \/ UnknownStage(e, p, i)
             \/ RunToCompletion(e, p, i) \/ RunToAbort(e, p, i)
             \/ RunToAwait(e, p, i)
             \/ \E t \in TaskIds : RunToResult(e, p, i, t)
      PROVE  IInv'
  <2>1. Live(row)
    BY <1>3 DEF UnknownStage, RunToCompletion, RunToAbort, RunToAwait, RunToResult, RunsStage
  <2> QED
    BY <1>3, <2>1, QuietStageStep, AwaitStep, ResultStep
<1> QED
  BY <1>1, <1>2, <1>3 DEF RunStage

-----------------------------------------------------------------------------
(* The other handlers and the world.                                       *)

\* Redelivery of recording.uploaded starts a run that nothing was billed to.
LEMMA StartStep ==
    ASSUME IInv, StartPipeline
    PROVE  IInv'
<1>1. TypeOK /\ BillInv /\ row \in Row /\ 1 \in RunIds
  BY ConstantsAssumption DEF IInv, TypeOK, RunIds
<1>2. EnvOK'
  BY <1>1 DEF StartPipeline, TypeOK, EnvOK, taskVars, worldVars, dataVars, history
<1>3. CASE /\ Live(row) /\ ~HasMarker(row)
           /\ row' = [row EXCEPT !.run = 1]
  <2>1. row' \in Row /\ row'.run = EnsureRun(row).run /\ row'.status = "active"
    BY <1>1, <1>3, RowInHand DEF Row, RunIds, EnsureRun, HasMarker, InHand
  <2>2. UNCHANGED publicVars /\ repeated' \subseteq Stages
    BY <1>1 DEF StartPipeline, history, publicVars, TypeOK
  <2>3. PublicOK' /\ BillInv'
    BY <1>1, <1>3, <2>1, <2>2, RowInHand, StaysLive
  <2> QED
    BY <1>2, <2>3, TypeParts DEF IInv
<1>4. CASE UNCHANGED row
  <2>1. PublicOK' /\ BillInv'
    BY <1>1, <1>4, NothingPublic DEF IInv, StartPipeline, history, publicVars
  <2> QED
    BY <1>2, <2>1, TypeParts DEF IInv
<1> QED
  BY <1>3, <1>4 DEF StartPipeline

\* Delivering a notice, again or for good, adds none.
LEMMA NotifyType ==
    ASSUME TypeOK, NEW t \in notices, Notify(t)
    PROVE  notices' \subseteq DOMAIN tasks
BY DEF TypeOK, Notify

\* A notice that is not ignored finds a live row whose awaiting entry is an
\* entry of the right type.
LEMMA NoticeFacts ==
    ASSUME TypeOK, NEW t \in notices, AwaitsTask(t)
    PROVE  /\ t \in TaskIds /\ tasks[t].input \in Versions
           /\ row.awaiting.stage \in Stages /\ row.awaiting.index \in Nat
           /\ row.awaiting.print \in Prints
<1>1. t \in DOMAIN tasks
  BY DEF TypeOK
<1>2. row.awaiting \in Awaiting
  BY DEF TypeOK, Row, AwaitsTask
<1> QED
  BY <1>1, <1>2, KnownTask DEF Awaiting

\* task.completed and task.failed, whether they are acted on or dropped.
LEMMA NoticeStep ==
    ASSUME IInv, NEW t \in notices,
           IgnoreNotice(t) \/ ResumeStage(t) \/ FailStage(t)
    PROVE  IInv'
<1>1. TypeOK /\ BillInv /\ row \in Row
  BY DEF IInv, TypeOK
<1>2. notices' \subseteq DOMAIN tasks
  BY <1>1, NotifyType DEF IgnoreNotice, ResumeStage, FailStage
<1>3. CASE IgnoreNotice(t)
  <2>1. EnvOK'
    BY <1>1, <1>2, <1>3 DEF IgnoreNotice, TypeOK, EnvOK, eventVars, worldVars,
                            dataVars, history
  <2>2. PublicOK' /\ BillInv'
    BY <1>1, <1>3, NothingPublic DEF IInv, IgnoreNotice, history, publicVars
  <2> QED
    BY <2>1, <2>2, TypeParts DEF IInv
<1>4. CASE ResumeStage(t)
  <2>1. /\ Live(row) /\ t \in TaskIds /\ tasks[t].input \in Versions
        /\ row.awaiting.stage \in Stages /\ row.awaiting.index \in Nat
        /\ row.awaiting.print \in Prints
    BY <1>1, <1>4, NoticeFacts DEF ResumeStage
  <2>2. PublicOK' /\ BillInv'
    BY <1>1, <1>4, <2>1, RowInHand, CompleteOutcome, RetryOutcome, FailOutcome
    DEF ResumeStage
  <2>3. made' \in [Stages -> Prints] /\ handoff' \in [HandoffStages -> Prints]
    BY <1>1, <1>4, <2>1, StoreType DEF ResumeStage, TypeOK, storeVars, dataVars
  <2>4. doubted' \subseteq Stages
    BY <1>1, <1>4, <2>1, DoubtsType DEF ResumeStage, TypeOK, dataVars
  <2>5. stageEvents' \subseteq Nat
    <3>1. row.awaiting.index + 1 \in Nat /\ stageEvents \subseteq Nat
      BY <1>1, <2>1 DEF TypeOK
    <3>2. \/ stageEvents' = stageEvents \cup {row.awaiting.index + 1}
          \/ stageEvents' = stageEvents
      BY <1>4 DEF ResumeStage
    <3> QED
      BY <3>1, <3>2
  <2>6. UNCHANGED <<uploaded, tasks, inputs, silent>>
    BY <1>4 DEF ResumeStage, worldVars
  <2>7. EnvOK'
    BY <1>1, <1>2, <2>3, <2>4, <2>5, <2>6 DEF TypeOK, EnvOK
  <2> QED
    BY <2>2, <2>7, TypeParts DEF IInv
<1>5. CASE FailStage(t)
  <2>1. /\ Live(row) /\ t \in TaskIds
        /\ row.awaiting.stage \in Stages /\ row.awaiting.index \in Nat
        /\ row.awaiting.print \in Prints
    BY <1>1, <1>5, NoticeFacts DEF FailStage
  <2>2. PublicOK' /\ BillInv'
    BY <1>1, <1>5, <2>1, RowInHand, CompleteOutcome, FailOutcome DEF FailStage
  <2>3. doubted' \subseteq Stages
    BY <1>1, <1>5, <2>1, DoubtsType DEF FailStage, TypeOK, dataVars
  <2>4. stageEvents' \subseteq Nat
    <3>1. row.awaiting.index + 1 \in Nat /\ stageEvents \subseteq Nat
      BY <1>1, <2>1 DEF TypeOK
    <3>2. \/ stageEvents' = stageEvents \cup {row.awaiting.index + 1}
          \/ stageEvents' = stageEvents
      BY <1>5 DEF FailStage
    <3> QED
      BY <3>1, <3>2
  <2>5. UNCHANGED <<uploaded, tasks, inputs, silent, made, handoff>>
    BY <1>5 DEF FailStage, worldVars, storeVars, dataVars
  <2>6. EnvOK'
    BY <1>1, <1>2, <2>3, <2>4, <2>5 DEF TypeOK, EnvOK
  <2> QED
    BY <2>2, <2>6, TypeParts DEF IInv
<1> QED
  BY <1>3, <1>4, <1>5

\* Declaring stages stale touches nothing of the row but the declarations.
LEMMA DeclareRow ==
    ASSUME TypeOK, NEW s \in Declarable, InvalidateFrom(s)
    PROVE  row' \in Row /\ row'.run = row.run /\ row'.status = row.status
<1>1. PICK p \in Pipelines \cup {<<>>} :
        LET from   == {i \in DOMAIN p : \E j \in 1..i : p[j] = s}
            doomed == {p[i] : i \in from} \cup {s}
        IN  row' = [row EXCEPT !.invalidated = @ \cup doomed]
  BY DEF InvalidateFrom
<1>2. \A i \in DOMAIN p : p[i] \in Stages
  BY ListedStages
<1>3. PICK doomed \in SUBSET Stages :
        row' = [row EXCEPT !.invalidated = @ \cup doomed]
  BY <1>1, <1>2, ConstantsAssumption
<1> QED
  BY <1>3 DEF TypeOK, Row

\* Requests move the recording between runs: this is where BillInv has to
\* know that a billed run is behind the recording or completed.
LEMMA RequestStep ==
    ASSUME IInv, Requests
    PROVE  IInv'
<1>1. TypeOK /\ BillInv /\ row \in Row
  BY DEF IInv, TypeOK
<1>2. CASE RetryRecording \/ ResumeAfterPayment
  <2>1. /\ row.status \in {"error", "needs_payment"}
        /\ row' = [row EXCEPT !.status = "active", !.retry = 0]
        /\ stageEvents' = stageEvents \cup {row.completedIndex + 1}
        /\ UNCHANGED <<uploaded, taskVars, worldVars, dataVars, history>>
    BY <1>2 DEF RetryRecording, ResumeAfterPayment, Requeue
  <2> DEFINE reopened == [row EXCEPT !.status = "active", !.retry = 0]
  <2>2. row' \in Row /\ row'.run = row.run /\ row.completedIndex + 1 \in Nat
    <3>1. reopened \in Row /\ reopened.run = row.run
      BY <1>1 DEF Row, Statuses
    <3>2. row.completedIndex \in Nat \cup {-1}
      BY <1>1 DEF Row
    <3> QED
      BY <2>1, <3>1, <3>2
  <2>3. BillInv'
    BY <1>1, <2>1, <2>2 DEF BillInv, history
  <2>4. PublicOK'
    BY <1>1, <2>1, <2>2 DEF PublicOK, TypeOK, history
  <2>5. EnvOK'
    BY <1>1, <2>1, <2>2 DEF EnvOK, TypeOK, taskVars, worldVars, dataVars, history
  <2> QED
    BY <2>3, <2>4, <2>5, TypeParts DEF IInv
<1>3. CASE ReprocessRecording
  <2>1. /\ row.status = "completed" /\ row.run < MaxRuns
        /\ row' = [row EXCEPT !.run = @ + 1, !.completed = {},
                              !.completedIndex = -1, !.stageIndex = 0,
                              !.status = "active", !.retry = 0]
        /\ stageEvents' = stageEvents \cup {0}
        /\ UNCHANGED <<uploaded, taskVars, worldVars, dataVars, history>>
    BY <1>1, <1>3 DEF ReprocessRecording, Requeue, Row
  <2> DEFINE reopened == [row EXCEPT !.run = @ + 1, !.completed = {},
                                     !.completedIndex = -1, !.stageIndex = 0,
                                     !.status = "active", !.retry = 0]
  <2>2. row' \in Row /\ row'.run = row.run + 1
    <3>1. row.run \in 0..MaxRuns
      BY <1>1 DEF Row
    <3>2. row.run + 1 \in 0..MaxRuns
      BY <2>1, <3>1, ConstantsAssumption
    <3>3. reopened \in Row /\ reopened.run = row.run + 1
      BY <1>1, <3>2 DEF Row, Statuses
    <3> QED
      BY <2>1, <3>3
  <2>3. BillInv'
    BY <1>1, <2>1, <2>2 DEF BillInv, history, RunIds, Row
  <2>4. PublicOK'
    BY <1>1, <2>1, <2>2 DEF PublicOK, TypeOK, history
  <2>5. EnvOK'
    BY <1>1, <2>1, <2>2 DEF EnvOK, TypeOK, taskVars, worldVars, dataVars, history
  <2> QED
    BY <2>3, <2>4, <2>5, TypeParts DEF IInv
<1>4. CASE CloseRecording
  <2>1. PublicOK' /\ BillInv'
    BY <1>1, <1>4, RowInHand, FailOutcome DEF CloseRecording
  <2>2. EnvOK'
    BY <1>1, <1>4 DEF CloseRecording, EnvOK, TypeOK, eventVars, taskVars,
                          worldVars, dataVars
  <2> QED
    BY <2>1, <2>2, TypeParts DEF IInv
<1>5. CASE DeleteRecording
  <2>1. row' \in Row /\ row'.run = row.run /\ row'.status = "deleted"
    BY <1>1, <1>5 DEF DeleteRecording, Row, Statuses, Terminal
  <2>2. BillInv'
    BY <1>1, <1>5, <2>1 DEF BillInv, DeleteRecording, history
  <2>3. PublicOK'
    BY <1>1, <1>5, <2>1 DEF PublicOK, TypeOK, DeleteRecording, history
  <2>4. EnvOK'
    BY <1>1, <1>5 DEF DeleteRecording, EnvOK, TypeOK, eventVars, taskVars, worldVars,
                      dataVars, history
  <2> QED
    BY <2>2, <2>3, <2>4, TypeParts DEF IInv
<1>6. ASSUME NEW s \in Declarable, InvalidateFrom(s)
      PROVE  IInv'
  <2>1. row' \in Row /\ row'.run = row.run /\ row'.status = row.status
    BY <1>1, <1>6, DeclareRow
  <2>2. inputs' \in [Stages -> Versions]
    BY <1>1, <1>6 DEF InvalidateFrom, Later, TypeOK
  <2>3. UNCHANGED <<silent, eventVars, taskVars, dataVars, history>>
    BY <1>6 DEF InvalidateFrom
  <2>4. PublicOK' /\ BillInv'
    BY <1>1, <2>1, <2>3, NothingPublic DEF IInv, history, publicVars
  <2>5. EnvOK'
    BY <1>1, <2>2, <2>3 DEF EnvOK, TypeOK, eventVars, taskVars, dataVars, history
  <2> QED
    BY <2>4, <2>5, TypeParts DEF IInv
<1> QED
  BY <1>2, <1>3, <1>4, <1>5, <1>6 DEF Requests

\* What happens outside the driver touches nothing the bill rests on.
LEMMA WorldStep ==
    ASSUME IInv, World
    PROVE  IInv'
<1>1. TypeOK /\ BillInv /\ row \in Row
  BY DEF IInv, TypeOK
<1>2. UNCHANGED <<row, eventVars, made, doubted, history>>
  BY DEF World, InputChanges, InputHides, ProviderStores, TaskEnds, dataVars
<1>3. PublicOK' /\ BillInv'
  BY <1>1, <1>2, NothingPublic DEF IInv, history, publicVars
<1>4. CASE \E s \in Stages : InputChanges(s) \/ InputHides(s)
  <2>1. inputs' \in [Stages -> Versions] /\ silent' \subseteq Elusive
    BY <1>1, <1>4 DEF InputChanges, InputHides, Later, TypeOK
  <2>2. UNCHANGED <<eventVars, taskVars, dataVars>>
    BY <1>4 DEF InputChanges, InputHides
  <2>3. EnvOK'
    BY <1>1, <2>1, <2>2 DEF EnvOK, TypeOK, eventVars, taskVars, dataVars
  <2> QED
    BY <1>3, <2>3, TypeParts DEF IInv
<1>5. ASSUME NEW t \in TaskIds, ProviderStores(t)
      PROVE  IInv'
  <2>1. t \in DOMAIN tasks /\ tasks' = [tasks EXCEPT ![t].state = "written"]
    BY <1>5 DEF ProviderStores
  <2>2. tasks' \in Seq(Task) /\ Len(tasks') = Len(tasks)
        /\ DOMAIN tasks' = DOMAIN tasks
    BY <1>1, <2>1, TaskMoves DEF TaskStates
  <2>3. tasks[t].input \in Prints
    BY <1>1, <2>1, KnownTask DEF Prints
  <2>4. handoff' \in [HandoffStages -> Prints]
    BY <1>1, <1>5, <2>3 DEF ProviderStores, TypeOK
  <2>5. EnvOK'
    BY <1>1, <1>2, <1>5, <2>2, <2>4 DEF ProviderStores, EnvOK, TypeOK, eventVars, worldVars
  <2> QED
    BY <1>3, <2>5, TypeParts DEF IInv
<1>6. ASSUME NEW t \in TaskIds, TaskEnds(t)
      PROVE  IInv'
  <2>1. PICK st \in {"done", "failed"} : tasks' = [tasks EXCEPT ![t].state = st]
    BY <1>6 DEF TaskEnds
  <2>2. t \in DOMAIN tasks /\ notices' = notices \cup {t}
    BY <1>6 DEF TaskEnds
  <2>3. tasks' \in Seq(Task) /\ Len(tasks') = Len(tasks)
        /\ DOMAIN tasks' = DOMAIN tasks
    BY <1>1, <2>1, <2>2, TaskMoves DEF TaskStates
  <2>4. EnvOK'
    BY <1>1, <1>2, <1>6, <2>2, <2>3 DEF TaskEnds, EnvOK, TypeOK, eventVars, worldVars, dataVars
  <2> QED
    BY <1>3, <2>4, TypeParts DEF IInv
<1> QED
  BY <1>4, <1>5, <1>6 DEF World

\* The upload's commit starts the invariant off.
LEMMA InitialState == Init => IInv
<1> SUFFICES ASSUME Init PROVE IInv
  OBVIOUS
<1>1. row \in Row
  BY ConstantsAssumption DEF Init, InitialRow, Row, Statuses, Prints
<1>2. tasks \in Seq(Task) /\ Len(tasks) = 0 /\ notices \subseteq DOMAIN tasks
  BY DEF Init
<1>3. /\ inputs \in [Stages -> Versions] /\ made \in [Stages -> Prints]
      /\ handoff \in [HandoffStages -> Prints]
      /\ completions \in [RunIds -> 0..2] /\ verdict \in [RunIds -> Verdicts]
  BY ConstantsAssumption DEF Init, Versions, Prints, Verdicts
<1>4. TypeOK
  BY <1>1, <1>2, <1>3, ConstantsAssumption DEF Init, TypeOK
<1>5. BillInv
  BY DEF Init, InitialRow, BillInv
<1> QED
  BY <1>4, <1>5 DEF IInv

\* No step of the driver, of a request or of the world breaks it.
LEMMA EveryStep == IInv /\ [Next]_vars => IInv'
<1> SUFFICES ASSUME IInv, [Next]_vars PROVE IInv'
  OBVIOUS
<1>1. CASE Deliveries
  BY <1>1, StartStep, StageStep, NoticeStep DEF Deliveries
<1>2. CASE Requests
  BY <1>2, RequestStep
<1>3. CASE World
  BY <1>3, WorldStep
<1>4. CASE UNCHANGED vars
  BY <1>4 DEF vars, IInv, TypeOK, BillInv, RunIds
<1> QED
  BY <1>1, <1>2, <1>3, <1>4 DEF Next

-----------------------------------------------------------------------------

\* The inductive invariant holds in every reachable state.
THEOREM Inductive == Spec => []IInv
BY InitialState, EveryStep, PTL DEF Spec

\* A run with a completion on its account is over and was last reported
\* completed: what the guarantees of billing rest on.
THEOREM BillIsKept == Spec => []BillInv
<1>1. IInv => BillInv
  BY DEF IInv
<1> QED
  BY <1>1, Inductive, PTL

\* Every handler leaves the row, the events, the tasks and the artifacts
\* well formed, whatever the pipelines, stages and bounds are.
THEOREM TypeCorrect == Spec => []TypeOK
<1>1. IInv => TypeOK
  BY DEF IInv
<1> QED
  BY <1>1, Inductive, PTL

\* However events and answers are duplicated, delayed or reordered, and
\* whoever reopens the recording, one run publishes recording.completed at
\* most once (pipeline.py, _finalize).
THEOREM CompletesOnce == Spec => []CompletedOncePerRun
<1>1. IInv => CompletedOncePerRun
  BY DEF IInv, BillInv, CompletedOncePerRun
<1> QED
  BY <1>1, Inductive, PTL

\* A run that was charged for is never refunded afterwards: no failure or
\* payment hold follows its completion.
THEOREM ChargeStands == Spec => []ChargedIsNotRefunded
<1>1. IInv => ChargedIsNotRefunded
  BY DEF IInv, BillInv, ChargedIsNotRefunded
<1> QED
  BY <1>1, Inductive, PTL

-----------------------------------------------------------------------------
(* Tasks: what starts one, what becomes of it, and who waits for it.       *)

\* A task whose outcome is set is otherwise the task it was.
LEMMA TaskBecomes ==
    ASSUME TypeOK, NEW t \in DOMAIN tasks, NEW st \in TaskStates,
           tasks' = [tasks EXCEPT ![t].state = st]
    PROVE  /\ DOMAIN tasks' = DOMAIN tasks
           /\ tasks'[t].state = st
           /\ tasks'[t].stage = tasks[t].stage /\ tasks'[t].input = tasks[t].input
           /\ tasks'[t].key = tasks[t].key
           /\ \A u \in DOMAIN tasks : u # t => tasks'[u] = tasks[u]
<1> DEFINE x == [tasks[t] EXCEPT !.state = st]
<1>1. /\ x.state = st /\ x.stage = tasks[t].stage /\ x.input = tasks[t].input
      /\ x.key = tasks[t].key
  BY KnownTask DEF Task
<1>2. tasks' = [tasks EXCEPT ![t] = x]
  OBVIOUS
<1> HIDE DEF x
<1> QED
  BY <1>1, <1>2

\* A task that starts takes the next id.
LEMMA TaskAdded ==
    ASSUME TypeOK, Len(tasks) < MaxTasks, NEW x \in Task, tasks' = Append(tasks, x)
    PROVE  /\ Len(tasks) + 1 \in TaskIds \ DOMAIN tasks
           /\ DOMAIN tasks' = DOMAIN tasks \cup {Len(tasks) + 1}
           /\ tasks'[Len(tasks) + 1] = x
           /\ \A u \in DOMAIN tasks : tasks'[u] = tasks[u]
<1>1. tasks \in Seq(Task) /\ Len(tasks) \in Nat /\ MaxTasks \in Nat
  BY ConstantsAssumption DEF TypeOK
<1>2. DOMAIN tasks = 1..Len(tasks)
  BY <1>1
<1> QED
  BY <1>1, <1>2, AppendProperties DEF TaskIds

\* What a submission may do to the tasks: nothing, end one in flight, start
\* one from the input of the moment.
Submits(s) ==
    \/ UNCHANGED tasks
    \/ \E t \in DOMAIN tasks : \E st \in TaskStates :
         tasks' = [tasks EXCEPT ![t].state = st]
    \/ \E st \in TaskStates :
         /\ Len(tasks) < MaxTasks
         /\ tasks' = Append(tasks, TaskFor(s, st))

\* A task keeps its stage, its key and its input for good; a new one is started
\* from what its stage's input is now, and its key says so or nothing.
TasksFollow ==
    /\ DOMAIN tasks \subseteq DOMAIN tasks'
    /\ \A u \in DOMAIN tasks :
         /\ tasks'[u].stage = tasks[u].stage /\ tasks'[u].input = tasks[u].input
         /\ tasks'[u].key = tasks[u].key
    /\ \A u \in DOMAIN tasks' \ DOMAIN tasks :
         /\ tasks'[u].input = inputs[tasks'[u].stage]
         /\ tasks'[u].key \in {None, tasks'[u].input}

\* A submission keeps the tasks there are, whatever it does.
LEMMA SubmissionFollows ==
    ASSUME TypeOK, NEW s \in AsyncStages, Submits(s)
    PROVE  TasksFollow
<1>1. CASE UNCHANGED tasks
  BY <1>1 DEF TasksFollow
<1>2. ASSUME NEW t \in DOMAIN tasks, NEW st \in TaskStates,
             tasks' = [tasks EXCEPT ![t].state = st]
      PROVE  TasksFollow
  BY <1>2, TaskBecomes DEF TasksFollow
<1>3. ASSUME NEW st \in TaskStates, Len(tasks) < MaxTasks,
             tasks' = Append(tasks, TaskFor(s, st))
      PROVE  TasksFollow
  <2> DEFINE x == TaskFor(s, st)
  <2>1. x \in Task /\ x.stage = s /\ x.input = inputs[s] /\ x.key \in {None, x.input}
    BY TaskForType
  <2>2. tasks' = Append(tasks, x)
    BY <1>3
  <2> HIDE DEF x
  <2> QED
    BY <1>3, <2>1, <2>2, TaskAdded DEF TasksFollow
<1> QED
  BY <1>1, <1>2, <1>3 DEF Submits

\* A task that is over by the time its status is read was a submission.
LEMMA SettlingSubmits ==
    ASSUME TypeOK, NEW s \in AsyncStages, NEW t \in TaskIds,
           NEW st \in TaskStates, Settles(s, t, st)
    PROVE  Submits(s)
<1>1. CASE t \in InFlight(s) /\ tasks' = [tasks EXCEPT ![t].state = st]
  BY <1>1 DEF InFlight, Submits
<1>2. CASE t = Len(tasks) + 1 /\ tasks' = Append(tasks, TaskFor(s, st))
  <2>1. Len(tasks) < MaxTasks
    BY <1>2, ConstantsAssumption DEF TaskIds, TypeOK
  <2> QED
    BY <1>2, <2>1 DEF Submits
<1> QED
  BY <1>1, <1>2 DEF Settles

\* A stage that waits, waits for a task of its own that is in flight, with the
\* fingerprint of the moment as its key.
LEMMA AwaitsInFlight ==
    ASSUME TypeOK, NEW e \in stageEvents, NEW p \in Pipelines, NEW i \in DOMAIN p,
           RunToAwait(e, p, i)
    PROVE  /\ Submits(p[i])
           /\ \E t \in TaskIds :
                /\ AwaitTask(Begun(p, i), p[i], i, t)
                /\ t \in DOMAIN tasks'
                /\ tasks'[t].stage = p[i]
                /\ tasks'[t].state \in {"running", "written"}
                /\ tasks'[t].key = Fingerprint(p[i])
                /\ t \in InFlight(p[i]) \/ ~InlineDispatch
<1>1. p[i] \in AsyncStages /\ p[i] \in Stages
  BY ListedStages DEF RunToAwait
<1>2. CASE \E t \in InFlight(p[i]) : /\ AwaitTask(Begun(p, i), p[i], i, t)
                                     /\ UNCHANGED tasks
  <2>1. PICK t \in InFlight(p[i]) : AwaitTask(Begun(p, i), p[i], i, t)
    BY <1>2
  <2>2. t \in DOMAIN tasks /\ UNCHANGED tasks
    BY <1>2, <2>1 DEF InFlight
  <2> QED
    BY <1>2, <2>1, <2>2, KnownTask DEF InFlight, Submits
<1>3. CASE LET s == p[i]
               id == Len(tasks) + 1
           IN  /\ id <= MaxTasks /\ ~InlineDispatch
               /\ tasks' = Append(tasks, TaskFor(s, "running"))
               /\ AwaitTask(Begun(p, i), s, i, id)
  <2> DEFINE x == TaskFor(p[i], "running")
  <2>1. Len(tasks) < MaxTasks
    BY <1>3, ConstantsAssumption DEF TypeOK
  <2>2. x \in Task /\ x.stage = p[i] /\ x.key = Fingerprint(p[i]) /\ x.state = "running"
    BY <1>1, TaskForType DEF TaskStates
  <2>3. tasks' = Append(tasks, x)
    BY <1>3
  <2>4. Submits(p[i])
    BY <2>1, <2>3 DEF Submits, TaskStates
  <2> HIDE DEF x
  <2>5. /\ Len(tasks) + 1 \in TaskIds /\ Len(tasks) + 1 \in DOMAIN tasks'
        /\ tasks'[Len(tasks) + 1] = x
    BY <2>1, <2>2, <2>3, TaskAdded
  <2> QED
    BY <1>3, <2>2, <2>4, <2>5
<1> QED
  BY <1>2, <1>3 DEF RunToAwait

\* The task a submission finds over is the stage's own, with the fingerprint of
\* the moment as its key.
LEMMA SettledTask ==
    ASSUME TypeOK, NEW s \in AsyncStages, NEW t \in TaskIds,
           NEW st \in TaskStates, Settles(s, t, st)
    PROVE  /\ t \in DOMAIN tasks' /\ tasks'[t].stage = s
           /\ tasks'[t].key = Fingerprint(s)
           /\ \/ t \in InFlight(s)
              \/ InlineDispatch /\ tasks'[t].input = inputs[s]
<1>1. CASE t \in InFlight(s) /\ tasks' = [tasks EXCEPT ![t].state = st]
  BY <1>1, TaskBecomes DEF InFlight
<1>2. CASE /\ InlineDispatch /\ t = Len(tasks) + 1
           /\ tasks' = Append(tasks, TaskFor(s, st))
  <2> DEFINE x == TaskFor(s, st)
  <2>1. x \in Task /\ x.stage = s /\ x.input = inputs[s] /\ x.key = Fingerprint(s)
    BY TaskForType
  <2>2. tasks' = Append(tasks, x) /\ Len(tasks) < MaxTasks
    BY <1>2, ConstantsAssumption DEF TaskIds, TypeOK
  <2> HIDE DEF x
  <2> QED
    BY <1>2, <2>1, <2>2, TaskAdded
<1> QED
  BY <1>1, <1>2 DEF Settles

\* No step of the driver or the world loses a task or rewrites its input.
LEMMA TasksStay ==
    ASSUME TypeOK, Next
    PROVE  TasksFollow
<1>1. ASSUME NEW e \in stageEvents, RunStage(e)
      PROVE  TasksFollow
  <2>1. ASSUME NEW p \in Pipelines, NEW i \in DOMAIN p, RunToAwait(e, p, i)
        PROVE  TasksFollow
    <3>1. p[i] \in AsyncStages /\ Submits(p[i])
      BY <2>1, AwaitsInFlight DEF RunToAwait
    <3> QED
      BY <3>1, SubmissionFollows
  <2>2. ASSUME NEW p \in Pipelines, NEW i \in DOMAIN p, NEW t \in TaskIds,
               RunToResult(e, p, i, t)
        PROVE  TasksFollow
    <3>1. PICK st \in TaskStates : Settles(p[i], t, st)
      BY <2>2 DEF RunToResult, TaskStates
    <3>2. p[i] \in AsyncStages
      BY <2>2 DEF RunToResult
    <3>3. Submits(p[i])
      BY <3>1, <3>2, SettlingSubmits
    <3> QED
      BY <3>2, <3>3, SubmissionFollows
  <2>3. CASE UNCHANGED tasks
    BY <2>3 DEF TasksFollow
  <2> QED
    BY <1>1, <2>1, <2>2, <2>3
    DEF RunStage, DropStageEvent, ResolverFails, EmptyPipeline, FinishPipeline,
        UnknownStage, RunToCompletion, RunToAbort, taskVars
<1>2. ASSUME NEW t \in TaskIds, ProviderStores(t) \/ TaskEnds(t)
      PROVE  TasksFollow
  <2>1. PICK st \in TaskStates : tasks' = [tasks EXCEPT ![t].state = st]
    BY <1>2 DEF ProviderStores, TaskEnds, TaskStates
  <2>2. t \in DOMAIN tasks
    BY <1>2 DEF ProviderStores, TaskEnds
  <2> QED
    BY <2>1, <2>2, TaskBecomes DEF TasksFollow
<1>3. CASE UNCHANGED tasks
  BY <1>3 DEF TasksFollow
<1> QED
  BY <1>1, <1>2, <1>3
  DEF Next, Deliveries, Requests, World, StartPipeline, IgnoreNotice, ResumeStage,
      FailStage, RetryRecording, ResumeAfterPayment, ReprocessRecording, Requeue,
      CloseRecording, DeleteRecording, InvalidateFrom, InputChanges, InputHides, taskVars

\* The awaited task has been started, for the stage that awaits it.
AwaitedIsStarted ==
    row.awaiting # None =>
      /\ row.awaiting.task \in DOMAIN tasks
      /\ tasks[row.awaiting.task].stage = row.awaiting.stage

-----------------------------------------------------------------------------
(* What keeps a live recording moving.                                     *)

\* A recording no handler has touched has completed nothing.
NotStarted == row.run = 0 => row.completedIndex = -1

DriverInv == LiveHasDriver /\ NotStarted

\* A recording that ends needs nothing to drive it.
LEMMA EndNeedsNoDriver ==
    ASSUME NEW r \in Row, Fail(r) \/ ParkForPayment(r) \/ Finalize(r)
    PROVE  DriverInv'
<1>1. EnsureRun(r) \in Row /\ EnsureRun(r).run # 0
  BY EnsureRunType DEF RunIds
<1>2. PICK st \in Terminal, v \in Verdicts : Ends(r, st, v)
  BY DEF Fail, ParkForPayment, Finalize, Terminal, Verdicts
<1>3. row'.status \in Terminal /\ row'.run # 0
  BY <1>1, <1>2 DEF Ends, Row
<1> QED
  BY <1>3 DEF DriverInv, NotStarted, LiveHasDriver, Live

\* A retry that is counted is parked for the watchdog.
LEMMA RetryDrives ==
    ASSUME NEW r \in Row, r.run = 0 => r.completedIndex = -1, HandleRetry(r)
    PROVE  DriverInv'
<1>1. CASE Fail(r)
  BY <1>1, EndNeedsNoDriver
<1>2. CASE row' = [r EXCEPT !.retry = @ + 1]
  <2>1. /\ row'.retry = r.retry + 1 /\ r.retry \in Nat
        /\ row'.run = r.run /\ row'.completedIndex = r.completedIndex
    BY <1>2 DEF Row
  <2>2. row'.retry > 0
    BY <2>1
  <2> QED
    BY <2>1, <2>2 DEF DriverInv, NotStarted, LiveHasDriver
<1> QED
  BY <1>1, <1>2 DEF HandleRetry

\* A completed stage is followed by the event of the next position.
LEMMA CompletionDrives ==
    ASSUME NEW r \in Row, NEW s \in Stages, NEW k \in Nat, NEW f \in Prints,
           CompleteStage(r, s, k, f), k + 1 \in stageEvents'
    PROVE  DriverInv'
<1>1. EnsureRun(r) \in Row /\ EnsureRun(r).run # 0
  BY EnsureRunType DEF RunIds
<1>2. row'.completedIndex = k /\ row'.run = EnsureRun(r).run
  BY <1>1 DEF CompleteStage, Completed, Row
<1>3. k + 1 > row'.completedIndex
  BY <1>2
<1> QED
  BY <1>1, <1>2, <1>3 DEF DriverInv, NotStarted, LiveHasDriver

\* The row a stage's body works on is on a run.
LEMMA BegunRun ==
    ASSUME TypeOK, Live(row), NEW p \in Pipelines, NEW i \in DOMAIN p
    PROVE  /\ AtCursor(p, i) \in Row
           /\ Begun(p, i) \in Row /\ Begun(p, i).run # 0
           /\ p[i] \in Stages /\ i - 1 \in Nat /\ (i - 1) + 1 = i
           /\ Fingerprint(p[i]) \in Prints
<1> DEFINE r == AtCursor(p, i)
<1>1. r \in Row /\ Begun(p, i) \in Row
  BY RowInHand
<1>2. Begun(p, i) = [EnsureRun(r) EXCEPT !.stageIndex = i - 1]
  BY DEF Begun
<1> HIDE DEF r
<1>3. EnsureRun(r) \in Row /\ EnsureRun(r).run # 0
  BY <1>1, EnsureRunType DEF RunIds
<1>4. Begun(p, i).run # 0
  BY <1>2, <1>3 DEF Row
<1> QED
  BY <1>1, <1>4, ListedStages, FingerprintType DEF r

\* A stage event that leaves no task to wait for.
LEMMA StageEventDrives ==
    ASSUME IInv, DriverInv, NEW e \in stageEvents, RunStage(e),
           \A p \in Pipelines : \A i \in DOMAIN p : ~RunToAwait(e, p, i)
    PROVE  DriverInv'
<1>1. TypeOK /\ row \in Row /\ stageEvents \subseteq Nat
  BY DEF IInv, TypeOK
<1>2. CASE DropStageEvent(e)
  <2>1. UNCHANGED row /\ UNCHANGED tasks /\ UNCHANGED notices
    BY <1>2 DEF DropStageEvent, taskVars
  <2>2. ~Live(row) \/ e <= row.completedIndex
    BY <1>2 DEF DropStageEvent
  <2>3. \A f \in stageEvents : f # e => f \in stageEvents'
    BY <1>2 DEF DropStageEvent, Deliver
  <2>4. \A f \in stageEvents : Live(row) /\ f > row.completedIndex => f \in stageEvents'
    BY <1>1, <2>2, <2>3 DEF Row
  <2> QED
    BY <2>1, <2>4 DEF DriverInv, LiveHasDriver, NotStarted, Live
<1>3. CASE ResolverFails(e) \/ EmptyPipeline(e) \/ FinishPipeline(e)
  BY <1>1, <1>3, EndNeedsNoDriver, RetryDrives
  DEF ResolverFails, EmptyPipeline, FinishPipeline, DriverInv, NotStarted
<1>4. ASSUME NEW p \in Pipelines, NEW i \in DOMAIN p,
             \/ UnknownStage(e, p, i)
             \/ RunToCompletion(e, p, i) \/ RunToAbort(e, p, i)
             \/ \E t \in TaskIds : RunToResult(e, p, i, t)
      PROVE  DriverInv'
  <2>1. Live(row)
    BY <1>4 DEF UnknownStage, RunToCompletion, RunToAbort, RunToResult, RunsStage
  <2>2. /\ AtCursor(p, i) \in Row
        /\ Begun(p, i) \in Row /\ Begun(p, i).run # 0
        /\ p[i] \in Stages /\ i - 1 \in Nat /\ (i - 1) + 1 = i
        /\ Fingerprint(p[i]) \in Prints
    BY <1>1, <2>1, BegunRun
  <2>3. CASE UnknownStage(e, p, i)
    BY <2>2, <2>3, EndNeedsNoDriver DEF UnknownStage
  <2>4. CASE \/ HandleRetry(Begun(p, i)) \/ ParkForPayment(Begun(p, i))
             \/ Fail(Begun(p, i))
    BY <2>2, <2>4, EndNeedsNoDriver, RetryDrives
  <2>5. CASE /\ CompleteStage(Begun(p, i), p[i], i - 1, Fingerprint(p[i]))
             /\ Deliver(e, {i})
    <3>1. (i - 1) + 1 \in stageEvents'
      BY <2>2, <2>5 DEF Deliver
    <3> QED
      BY <2>2, <2>5, <3>1, CompletionDrives
  <2> QED
    BY <1>4, <2>3, <2>4, <2>5 DEF RunToCompletion, RunToAbort, RunToResult
<1> QED
  BY <1>2, <1>3, <1>4 DEF RunStage

\* A stage that waits is driven by the task it waits for.
LEMMA AwaitDrives ==
    ASSUME IInv, DriverInv, NEW e \in stageEvents,
           NEW p \in Pipelines, NEW i \in DOMAIN p, RunToAwait(e, p, i)
    PROVE  DriverInv'
<1>1. TypeOK /\ Live(row)
  BY DEF IInv, RunToAwait, RunsStage
<1>2. /\ Begun(p, i) \in Row /\ Begun(p, i).run # 0 /\ p[i] \in Stages
      /\ i - 1 \in Nat /\ Fingerprint(p[i]) \in Prints
  BY <1>1, BegunRun
<1>3. PICK t \in TaskIds :
        /\ AwaitTask(Begun(p, i), p[i], i, t)
        /\ tasks'[t].state \in {"running", "written"}
  BY <1>1, AwaitsInFlight
<1> DEFINE a == [task |-> t, stage |-> p[i], index |-> i - 1,
                 print |-> Fingerprint(p[i])]
<1>4. a \in Awaiting /\ a.task = t
  BY <1>2, <1>3 DEF Awaiting
<1>5. row' = [Begun(p, i) EXCEPT !.awaiting = a]
  BY <1>3 DEF AwaitTask
<1> HIDE DEF a
<1>6. row'.awaiting = a /\ row'.run # 0
  BY <1>2, <1>5 DEF Row
<1>7. row'.awaiting # None /\ row'.awaiting.task = t
  BY <1>4, <1>6, NoneIsNoEntry
<1> QED
  BY <1>3, <1>6, <1>7 DEF DriverInv, LiveHasDriver, NotStarted

\* An answer that is acted on ends the recording, parks it or moves it on; one
\* that is ignored was not awaited.
LEMMA NoticeDrives ==
    ASSUME IInv, DriverInv, NEW t \in notices,
           IgnoreNotice(t) \/ ResumeStage(t) \/ FailStage(t)
    PROVE  DriverInv'
<1>1. TypeOK /\ row \in Row
  BY DEF IInv, TypeOK
<1>2. CASE IgnoreNotice(t)
  <2>1. UNCHANGED row /\ UNCHANGED tasks /\ UNCHANGED stageEvents
    BY <1>2 DEF IgnoreNotice, eventVars
  <2>2. Live(row) => row.awaiting = None \/ row.awaiting.task # t
    BY <1>2 DEF IgnoreNotice, AwaitsTask
  <2>3. \A u \in notices : u # t => u \in notices'
    BY <1>2 DEF IgnoreNotice, Notify
  <2> QED
    BY <2>1, <2>2, <2>3 DEF DriverInv, LiveHasDriver, NotStarted, Live
<1>3. CASE ResumeStage(t) \/ FailStage(t)
  <2>1. /\ Live(row) /\ t \in TaskIds
        /\ row.awaiting.stage \in Stages /\ row.awaiting.index \in Nat
        /\ row.awaiting.print \in Prints
    BY <1>1, <1>3, NoticeFacts DEF ResumeStage, FailStage
  <2>2. /\ Relieved \in Row
        /\ Relieved.run = 0 => Relieved.completedIndex = -1
    BY <1>1, <2>1, RowInHand DEF Relieved, DriverInv, NotStarted, Row
  <2>3. CASE ParkForPayment(Relieved) \/ HandleRetry(Relieved) \/ Fail(row)
             \/ Fail(Relieved)
    BY <1>1, <2>2, <2>3, EndNeedsNoDriver, RetryDrives
  <2>4. CASE /\ CompleteStage(Relieved, row.awaiting.stage, row.awaiting.index,
                              row.awaiting.print)
             /\ stageEvents' = stageEvents \cup {row.awaiting.index + 1}
    BY <2>1, <2>2, <2>4, CompletionDrives
  <2> QED
    BY <1>3, <2>3, <2>4 DEF ResumeStage, FailStage
<1> QED
  BY <1>2, <1>3

\* Redelivery of recording.uploaded emits the first stage's event, which a
\* recording that has completed nothing does not drop.
LEMMA StartDrives ==
    ASSUME IInv, DriverInv, StartPipeline
    PROVE  DriverInv'
<1>1. row \in Row /\ UNCHANGED <<tasks, notices>>
  BY DEF IInv, TypeOK, StartPipeline, taskVars
<1>2. CASE /\ ~HasMarker(row) /\ row' = [row EXCEPT !.run = 1]
           /\ stageEvents' = stageEvents \cup {0}
  <2>1. row.run = 0 /\ row.completedIndex = -1
    BY <1>2 DEF HasMarker, DriverInv, NotStarted
  <2>2. row'.run = 1 /\ row'.completedIndex = -1 /\ 0 \in stageEvents'
    BY <1>1, <1>2, <2>1 DEF Row
  <2> QED
    BY <2>2 DEF DriverInv, LiveHasDriver, NotStarted
<1>3. CASE UNCHANGED <<row, stageEvents>>
  BY <1>1, <1>3 DEF DriverInv, LiveHasDriver, NotStarted, Live
<1> QED
  BY <1>2, <1>3 DEF StartPipeline

\* What reopens a recording emits the event of the position after its cursor.
LEMMA RequestDrives ==
    ASSUME IInv, DriverInv, Requests
    PROVE  DriverInv'
<1>1. TypeOK /\ row \in Row
  BY DEF IInv, TypeOK
<1>2. CASE RetryRecording \/ ResumeAfterPayment
  <2>1. /\ row' = [row EXCEPT !.status = "active", !.retry = 0]
        /\ stageEvents' = stageEvents \cup {row.completedIndex + 1}
    BY <1>2 DEF RetryRecording, ResumeAfterPayment, Requeue
  <2>2. /\ row'.run = row.run /\ row'.completedIndex = row.completedIndex
        /\ row.completedIndex + 1 > row.completedIndex
    BY <1>1, <2>1 DEF Row
  <2> QED
    BY <2>1, <2>2 DEF DriverInv, LiveHasDriver, NotStarted
<1>3. CASE ReprocessRecording
  <2>1. row' = [row EXCEPT !.run = @ + 1, !.completed = {}, !.completedIndex = -1,
                           !.stageIndex = 0, !.status = "active", !.retry = 0]
        /\ stageEvents' = stageEvents \cup {0}
    BY <1>1, <1>3 DEF ReprocessRecording, Requeue, Row
  <2>2. row'.completedIndex = -1 /\ 0 > row'.completedIndex
    BY <1>1, <2>1 DEF Row
  <2> QED
    BY <2>1, <2>2 DEF DriverInv, LiveHasDriver, NotStarted
<1>4. CASE CloseRecording
  BY <1>1, <1>4, RowInHand, EndNeedsNoDriver DEF CloseRecording
<1>5. CASE DeleteRecording
  <2>1. /\ row'.status = "deleted" /\ row'.run = row.run
        /\ row'.completedIndex = row.completedIndex
    BY <1>1, <1>5 DEF DeleteRecording, Row
  <2> QED
    BY <2>1 DEF DriverInv, LiveHasDriver, NotStarted, Live, Terminal
<1>6. ASSUME NEW s \in Declarable, InvalidateFrom(s)
      PROVE  DriverInv'
  <2>1. /\ row'.status = row.status /\ row'.run = row.run
        /\ row'.retry = row.retry /\ row'.awaiting = row.awaiting
        /\ row'.completedIndex = row.completedIndex
    BY <1>1, <1>6 DEF InvalidateFrom, Row
  <2>2. UNCHANGED <<stageEvents, tasks, notices>>
    BY <1>6 DEF InvalidateFrom, eventVars, taskVars
  <2> QED
    BY <2>1, <2>2 DEF DriverInv, LiveHasDriver, NotStarted, Live
<1> QED
  BY <1>2, <1>3, <1>4, <1>5, <1>6 DEF Requests

\* A task in flight stays in flight until its outcome is on its way.
LEMMA WorldDrives ==
    ASSUME IInv, AwaitedIsStarted, DriverInv, World
    PROVE  DriverInv'
<1>1. TypeOK /\ row \in Row /\ UNCHANGED row /\ UNCHANGED stageEvents
  BY DEF IInv, TypeOK, World, InputChanges, InputHides, ProviderStores, TaskEnds, eventVars
<1> DEFINE Answering(u) == \/ tasks[u].state \in {"running", "written"}
                           \/ u \in notices
<1>2. \A u \in DOMAIN tasks : Answering(u) => Answering(u)'
  <2>1. CASE \E s \in Stages : InputChanges(s) \/ InputHides(s)
    BY <2>1 DEF InputChanges, InputHides, taskVars
  <2>2. ASSUME NEW t \in TaskIds, ProviderStores(t)
        PROVE  \A u \in DOMAIN tasks : Answering(u) => Answering(u)'
    <3>1. /\ t \in DOMAIN tasks /\ tasks' = [tasks EXCEPT ![t].state = "written"]
          /\ UNCHANGED notices
      BY <2>2 DEF ProviderStores
    <3>2. tasks'[t].state = "written" /\ \A u \in DOMAIN tasks : u # t => tasks'[u] = tasks[u]
      BY <1>1, <3>1, TaskBecomes DEF TaskStates
    <3> QED
      BY <3>1, <3>2
  <2>3. ASSUME NEW t \in TaskIds, TaskEnds(t)
        PROVE  \A u \in DOMAIN tasks : Answering(u) => Answering(u)'
    <3>1. PICK st \in {"done", "failed"} : tasks' = [tasks EXCEPT ![t].state = st]
      BY <2>3 DEF TaskEnds
    <3>2. t \in DOMAIN tasks /\ notices' = notices \cup {t}
      BY <2>3 DEF TaskEnds
    <3>3. \A u \in DOMAIN tasks : u # t => tasks'[u] = tasks[u]
      BY <1>1, <3>1, <3>2, TaskBecomes DEF TaskStates
    <3> QED
      BY <3>2, <3>3
  <2> QED
    BY <2>1, <2>2, <2>3 DEF World
<1> HIDE DEF Answering
<1>3. Answering(row.awaiting.task)' <=>
        \/ tasks'[row'.awaiting.task].state \in {"running", "written"}
        \/ row'.awaiting.task \in notices'
  BY DEF Answering
<1> QED
  BY <1>1, <1>2, <1>3 DEF DriverInv, LiveHasDriver, NotStarted, Live, AwaitedIsStarted, Answering

-----------------------------------------------------------------------------
(* What a step does to the checkpoints: the fingerprints and names the row *)
(* keeps, the artifacts they speak of, and who is awaited.                 *)

\* r is the row but for what a handler drops from the cursor or lets go of.
Keeps(r) ==
    /\ r \in Row
    /\ r.prints = row.prints
    /\ row.invalidated \subseteq r.invalidated
    /\ r.completed \subseteq row.completed
    /\ r.awaiting \in {row.awaiting, None}

\* Inputs change on their own where a fingerprint sees it, and elsewhere
\* together with a declaration.
InputsMove ==
    \/ UNCHANGED inputs
    \/ \E s \in Fingerprinted : \E v \in Later(inputs[s]) :
         inputs' = [inputs EXCEPT ![s] = v]
    \/ \E s \in (Stages \ Fingerprinted) \cap row'.invalidated : \E v \in Versions :
         inputs' = [inputs EXCEPT ![s] = v]

\* No checkpoint is written.
Quiet ==
    /\ Keeps(row') /\ InputsMove
    /\ UNCHANGED <<made, doubted, repeated>>

\* A synchronous body has stored the artifact of s and then raised.
Strands(s) ==
    /\ Keeps(row')
    /\ made' = [made EXCEPT ![s] = inputs[s]]
    /\ doubted' = doubted \cup ({s} \cap Fingerprinted)
    /\ UNCHANGED <<inputs, repeated>>

\* A stage starts to wait for a task.
Waits ==
    \E s \in AsyncStages, t \in DOMAIN tasks', r \in Row, k \in Nat :
       /\ Keeps(r)
       /\ row' = [r EXCEPT !.awaiting = [task |-> t, stage |-> s, index |-> k,
                                         print |-> Fingerprint(s)]]
       /\ tasks'[t].stage = s
       /\ tasks'[t].key = Fingerprint(s)
       /\ ~InlineDispatch \/ t \in InFlight(s)
       /\ UNCHANGED <<inputs, made, doubted, repeated>>

\* Stage s completes with fingerprint f, on row r.
Checkpoints(r, s, f) ==
    /\ Keeps(r)
    /\ row' \in Row
    /\ row'.prints = [row.prints EXCEPT ![s] = f]
    /\ row'.completed = r.completed \cup {s}
    /\ row'.invalidated = r.invalidated \ {s}
    /\ row'.awaiting = r.awaiting
    /\ repeated' = IF s \in r.completed THEN repeated \cup {s} ELSE repeated
    /\ UNCHANGED inputs

\* A delivery runs the body of s to its end: the artifact is there, or it is
\* made now, or it comes from the answer of a task whose key was the fingerprint
\* of the moment; or it was not made for this, which is doubted.
Bodied(s) ==
    \E r \in Row, strange \in BOOLEAN :
       /\ Checkpoints(r, s, Fingerprint(s))
       /\ s \notin r.completed /\ r.invalidated = row.invalidated
       /\ r.awaiting = row.awaiting
       /\ Doubts(r, s, Fingerprint(s), strange)
       /\ \/ Satisfied(s) /\ UNCHANGED made
          \/ made' = [made EXCEPT ![s] = inputs[s]]
          \/ strange /\ \E v \in Versions : made' = [made EXCEPT ![s] = v]
          \/ \E t \in DOMAIN tasks' :
               /\ made' = [made EXCEPT ![s] = tasks'[t].input]
               /\ tasks'[t].key = Fingerprint(s)
               /\ \/ t \in InFlight(s)
                  \/ tasks'[t].input = inputs[s]

\* An answer completes the stage that waited for it, with the fingerprint
\* taken when it was submitted.
Answered ==
    LET a == row.awaiting IN
    /\ row.awaiting # None
    /\ \E r \in Row, strange \in BOOLEAN :
         /\ Checkpoints(r, a.stage, a.print)
         /\ r.completed = row.completed /\ r.awaiting = None
         /\ Doubts(r, a.stage, a.print, strange)
         /\ \/ Satisfied(a.stage) /\ UNCHANGED made
            \/ /\ strange
               /\ \/ UNCHANGED made
                  \/ \E v \in Versions : made' = [made EXCEPT ![a.stage] = v]
            \/ made' = [made EXCEPT ![a.stage] = tasks[a.task].input]

\* The row in hand keeps the checkpoints, but for what the cursor drops.
LEMMA HandKeeps ==
    ASSUME TypeOK, Live(row)
    PROVE  /\ Keeps(row) /\ Keeps(Relieved)
           /\ Relieved.completed = row.completed /\ Relieved.awaiting = None
           /\ \A p \in Pipelines : \A i \in DOMAIN p :
                /\ Keeps(AtCursor(p, i))
                /\ Keeps(Begun(p, i)) /\ p[i] \notin Begun(p, i).completed
                /\ Begun(p, i).invalidated = row.invalidated
                /\ Begun(p, i).awaiting = row.awaiting
<1>1. row \in Row /\ Relieved \in Row
  BY RowInHand
<1>2. Keeps(row)
  BY <1>1 DEF Keeps
<1>3. Keeps(Relieved) /\ Relieved.completed = row.completed /\ Relieved.awaiting = None
  BY <1>1 DEF Keeps, Relieved, Row
<1>4. ASSUME NEW p \in Pipelines, NEW i \in DOMAIN p
      PROVE  /\ Keeps(AtCursor(p, i))
             /\ Keeps(Begun(p, i)) /\ p[i] \notin Begun(p, i).completed
             /\ Begun(p, i).invalidated = row.invalidated
             /\ Begun(p, i).awaiting = row.awaiting
  <2> DEFINE r == AtCursor(p, i)
             q == EnsureRun(r)
  <2>1. r \in Row /\ Begun(p, i) \in Row
    BY RowInHand
  <2>2. /\ r.prints = row.prints /\ r.invalidated = row.invalidated
        /\ r.awaiting = row.awaiting /\ r.completed \subseteq row.completed
        /\ p[i] \notin r.completed
    <3>1. CASE p[i] \in row.completed
      <4>1. i \in i..Len(p)
        BY ListedStages
      <4>2. r.completed = row.completed \ {p[j] : j \in i..Len(p)}
        BY <1>1, <3>1 DEF AtCursor, DropCursor, Row
      <4> QED
        BY <1>1, <3>1, <4>1, <4>2 DEF AtCursor, DropCursor, Row
    <3>2. CASE p[i] \notin row.completed
      BY <3>2 DEF AtCursor
    <3> QED
      BY <3>1, <3>2
  <2> HIDE DEF r
  <2>3. /\ q \in Row /\ q.prints = r.prints /\ q.invalidated = r.invalidated
        /\ q.awaiting = r.awaiting /\ q.completed = r.completed
    BY <2>1, EnsureRunType DEF EnsureRun, Row
  <2>4. Begun(p, i) = [q EXCEPT !.stageIndex = i - 1]
    BY DEF Begun, r
  <2> HIDE DEF q
  <2>5. /\ Begun(p, i).prints = q.prints /\ Begun(p, i).invalidated = q.invalidated
        /\ Begun(p, i).awaiting = q.awaiting /\ Begun(p, i).completed = q.completed
    BY <2>3, <2>4 DEF Row
  <2> QED
    BY <2>1, <2>2, <2>3, <2>5 DEF Keeps, r
<1> QED
  BY <1>2, <1>3, <1>4

\* Ending or retrying writes no checkpoint.
LEMMA StopKeeps ==
    ASSUME TypeOK, NEW r \in Row, Keeps(r),
           Fail(r) \/ ParkForPayment(r) \/ Finalize(r) \/ HandleRetry(r)
    PROVE  Keeps(row') /\ UNCHANGED repeated
<1>1. CASE Fail(r) \/ ParkForPayment(r) \/ Finalize(r)
  <2>1. PICK st \in Terminal, v \in Verdicts : Ends(r, st, v)
    BY <1>1 DEF Fail, ParkForPayment, Finalize, Terminal, Verdicts
  <2> DEFINE q == EnsureRun(r)
  <2>2. /\ q \in Row /\ q.prints = r.prints /\ q.invalidated = r.invalidated
        /\ q.awaiting = r.awaiting /\ q.completed = r.completed
    BY EnsureRunType DEF EnsureRun, Row
  <2>3. row' = [q EXCEPT !.status = st] /\ UNCHANGED repeated
    BY <2>1 DEF Ends
  <2> HIDE DEF q
  <2>4. /\ row' \in Row /\ row'.prints = q.prints /\ row'.invalidated = q.invalidated
        /\ row'.awaiting = q.awaiting /\ row'.completed = q.completed
    BY <2>2, <2>3 DEF Row, Statuses
  <2> QED
    BY <2>2, <2>3, <2>4 DEF Keeps
<1>2. CASE /\ row' = [r EXCEPT !.retry = @ + 1]
           /\ UNCHANGED <<completions, verdict, repeated>>
  <2>1. /\ row' \in Row /\ row'.prints = r.prints /\ row'.invalidated = r.invalidated
        /\ row'.awaiting = r.awaiting /\ row'.completed = r.completed
    BY <1>2 DEF Row
  <2> QED
    BY <1>2, <2>1 DEF Keeps
<1> QED
  BY <1>1, <1>2 DEF HandleRetry

\* Completing a stage writes its checkpoint.
LEMMA CompletionKeeps ==
    ASSUME TypeOK, NEW r \in Row, Keeps(r), NEW s \in Stages, NEW k \in Nat,
           NEW f \in Prints, CompleteStage(r, s, k, f), UNCHANGED inputs
    PROVE  Checkpoints(r, s, f)
<1> DEFINE q == EnsureRun(r)
<1>1. /\ q \in Row /\ q.prints = r.prints /\ q.invalidated = r.invalidated
      /\ q.awaiting = r.awaiting /\ q.completed = r.completed
  BY EnsureRunType DEF EnsureRun, Row
<1>2. row' = [q EXCEPT !.retry = 0, !.redrives = 0,
                       !.completed = @ \cup {s}, !.completedIndex = k,
                       !.prints[s] = f, !.invalidated = @ \ {s}]
  BY DEF CompleteStage, Completed
<1>3. row' \in Row
  BY CompletedType DEF CompleteStage
<1> HIDE DEF q
<1>4. /\ row'.prints = [q.prints EXCEPT ![s] = f]
      /\ row'.completed = q.completed \cup {s}
      /\ row'.invalidated = q.invalidated \ {s}
      /\ row'.awaiting = q.awaiting
  BY <1>1, <1>2 DEF Row
<1> QED
  BY <1>1, <1>3, <1>4 DEF CompleteStage, Checkpoints, Keeps

\* A delivery that waits for a task leaves its entry.
LEMMA AwaitKind ==
    ASSUME TypeOK, NEW e \in stageEvents, NEW p \in Pipelines, NEW i \in DOMAIN p,
           RunToAwait(e, p, i)
    PROVE  Waits
<1> DEFINE s == p[i]
           r == Begun(p, i)
<1>1. Live(row) /\ UNCHANGED inputs /\ s \in AsyncStages
  BY DEF RunToAwait, RunsStage, worldVars
<1>2. i - 1 \in Nat /\ r \in Row /\ Keeps(r)
  BY <1>1, BegunRun, HandKeeps
<1>3. PICK t \in DOMAIN tasks' :
        /\ AwaitTask(r, s, i, t)
        /\ tasks'[t].stage = s
        /\ tasks'[t].key = Fingerprint(s)
        /\ t \in InFlight(s) \/ ~InlineDispatch
  BY AwaitsInFlight
<1>4. row' = [r EXCEPT !.awaiting = [task |-> t, stage |-> s, index |-> i - 1,
                                     print |-> Fingerprint(s)]]
      /\ UNCHANGED <<made, doubted, repeated>>
  BY <1>3 DEF AwaitTask, RunToAwait, dataVars
<1> HIDE DEF r, s
<1> QED
  BY <1>1, <1>2, <1>3, <1>4 DEF Waits

\* A stage event that runs no body writes no checkpoint.
LEMMA NoBodyIsQuiet ==
    ASSUME TypeOK, row' \in Row, NEW e \in stageEvents,
           \/ DropStageEvent(e) \/ ResolverFails(e) \/ EmptyPipeline(e)
           \/ FinishPipeline(e)
           \/ \E p \in Pipelines : \E i \in DOMAIN p : UnknownStage(e, p, i)
    PROVE  Quiet
<1>1. row \in Row /\ UNCHANGED <<inputs, made, doubted>>
  BY DEF TypeOK, DropStageEvent, ResolverFails, EmptyPipeline, FinishPipeline,
         UnknownStage, worldVars, dataVars
<1>2. Keeps(row') /\ UNCHANGED repeated
  <2>1. CASE DropStageEvent(e)
    BY <1>1, <2>1 DEF DropStageEvent, Keeps, history
  <2>2. CASE ResolverFails(e) \/ EmptyPipeline(e) \/ FinishPipeline(e)
    BY <1>1, <2>2, HandKeeps, StopKeeps DEF ResolverFails, EmptyPipeline, FinishPipeline
  <2>3. ASSUME NEW p \in Pipelines, NEW i \in DOMAIN p, UnknownStage(e, p, i)
        PROVE  Keeps(row') /\ UNCHANGED repeated
    <3>1. Live(row)
      BY <2>3 DEF UnknownStage, RunsStage
    <3> QED
      BY <2>3, <3>1, BegunRun, HandKeeps, StopKeeps DEF UnknownStage
  <2> QED
    BY <2>1, <2>2, <2>3
<1> QED
  BY <1>1, <1>2 DEF Quiet, InputsMove

\* A body that ends at once completes its stage, or leaves at most its artifact.
LEMMA BodyKind ==
    ASSUME IInv, NEW e \in stageEvents, NEW p \in Pipelines, NEW i \in DOMAIN p,
           RunToCompletion(e, p, i) \/ RunToAbort(e, p, i)
    PROVE  Quiet \/ Strands(p[i]) \/ Bodied(p[i])
<1> DEFINE s == p[i]
           r == Begun(p, i)
<1>1. TypeOK /\ Live(row) /\ UNCHANGED inputs
  BY DEF IInv, RunToCompletion, RunToAbort, RunsStage, worldVars
<1>2. /\ s \in Stages /\ i - 1 \in Nat /\ Fingerprint(s) \in Prints
      /\ r \in Row /\ Keeps(r) /\ s \notin r.completed
      /\ r.invalidated = row.invalidated /\ r.awaiting = row.awaiting
  BY <1>1, BegunRun, HandKeeps
<1>3. CASE RunToCompletion(e, p, i)
  <2>1. CompleteStage(r, s, i - 1, Fingerprint(s))
    BY <1>3 DEF RunToCompletion
  <2>2. Checkpoints(r, s, Fingerprint(s))
    BY <1>1, <1>2, <2>1, CompletionKeeps
  <2>3. \E strange \in BOOLEAN :
          /\ Doubts(r, s, Fingerprint(s), strange)
          /\ \/ Satisfied(s) /\ UNCHANGED made
             \/ made' = [made EXCEPT ![s] = inputs[s]]
             \/ strange /\ \E v \in Versions : made' = [made EXCEPT ![s] = v]
    BY <1>1, <1>3 DEF RunToCompletion, storeVars, TypeOK, Prints
  <2> HIDE DEF s, r
  <2>4. Bodied(s)
    BY <1>2, <2>2, <2>3 DEF Bodied
  <2> QED
    BY <2>4 DEF s
<1>4. CASE RunToAbort(e, p, i)
  <2>1. Keeps(row') /\ UNCHANGED repeated
    BY <1>1, <1>2, <1>4, StopKeeps DEF RunToAbort
  <2> QED
    BY <1>1, <1>4, <2>1 DEF RunToAbort, Quiet, InputsMove, Strands
<1> QED
  BY <1>3, <1>4

\* A task that is over by the time its status is read completes its stage, or
\* leaves nothing.
LEMMA ResultKind ==
    ASSUME IInv, NEW e \in stageEvents, NEW p \in Pipelines, NEW i \in DOMAIN p,
           NEW t \in TaskIds, RunToResult(e, p, i, t)
    PROVE  Quiet \/ Bodied(p[i])
<1> DEFINE s == p[i]
           r == Begun(p, i)
<1>1. TypeOK /\ Live(row) /\ UNCHANGED inputs /\ s \in AsyncStages
  BY DEF IInv, RunToResult, RunsStage, worldVars
<1>2. /\ s \in Stages /\ i - 1 \in Nat /\ Fingerprint(s) \in Prints
      /\ r \in Row /\ Keeps(r) /\ s \notin r.completed
      /\ r.invalidated = row.invalidated /\ r.awaiting = row.awaiting
  BY <1>1, BegunRun, HandKeeps
<1>3. ASSUME Settles(s, t, "done"), NEW box \in Posted(s, t, "done"),
             StoreResult(s, tasks'[t].input, box),
             CompleteStage(r, s, i - 1, Fingerprint(s)),
             Doubts(r, s, Fingerprint(s), made'[s] # tasks'[t].input)
      PROVE  Bodied(s)
  <2>1. /\ t \in DOMAIN tasks' /\ tasks'[t].key = Fingerprint(s)
        /\ t \in InFlight(s) \/ tasks'[t].input = inputs[s]
    BY <1>1, <1>3, SettledTask DEF TaskStates
  <2>2. box \in [HandoffStages -> Prints]
    BY <1>1, <1>2, <1>3, PostedType
  <2>3. \E v \in Prints \ {None} : made' = [made EXCEPT ![s] = v]
    <3>1. tasks'[t].input \in Versions
      BY <1>1, <1>3, SettlesType DEF TaskStates
    <3>2. tasks'[t].input # None
      BY <3>1, ConstantsAssumption DEF Versions
    <3> QED
      BY <1>3, <2>2, <3>1, <3>2 DEF StoreResult, Prints
  <2>4. PICK v \in Versions : made' = [made EXCEPT ![s] = v]
    BY <2>3 DEF Prints
  <2>5. made'[s] = v
    BY <1>1, <1>2, <2>4 DEF TypeOK
  <2> DEFINE strange == made'[s] # tasks'[t].input
  <2>6. ~strange => made' = [made EXCEPT ![s] = tasks'[t].input]
    BY <2>4, <2>5
  <2>7. strange \in BOOLEAN /\ Doubts(r, s, Fingerprint(s), strange)
    BY <1>3
  <2>8. Checkpoints(r, s, Fingerprint(s))
    BY <1>1, <1>2, <1>3, CompletionKeeps
  <2> HIDE DEF s, r, strange
  <2> QED
    BY <1>2, <2>1, <2>4, <2>6, <2>7, <2>8 DEF Bodied
<1>4. CASE /\ HandleRetry(r) \/ ParkForPayment(r) \/ Fail(r)
           /\ UNCHANGED <<made, doubted>>
  <2>1. Keeps(row') /\ UNCHANGED repeated
    BY <1>1, <1>2, <1>4, StopKeeps
  <2> QED
    BY <1>1, <1>4, <2>1 DEF Quiet, InputsMove
<1> QED
  BY <1>3, <1>4 DEF RunToResult

\* An answer completes the stage that awaits it, or writes no checkpoint.
LEMMA NoticeKind ==
    ASSUME IInv, row' \in Row, NEW t \in notices,
           IgnoreNotice(t) \/ ResumeStage(t) \/ FailStage(t)
    PROVE  Quiet \/ Answered
<1>1. TypeOK /\ row \in Row
  BY DEF IInv, TypeOK
<1>2. CASE IgnoreNotice(t)
  BY <1>1, <1>2 DEF IgnoreNotice, Quiet, Keeps, InputsMove, worldVars, dataVars, history
<1>3. CASE ResumeStage(t) \/ FailStage(t)
  <2> DEFINE a == row.awaiting
  <2>1. /\ Live(row) /\ UNCHANGED inputs
        /\ a.stage \in Stages /\ a.index \in Nat /\ a.print \in Prints
        /\ a # None /\ a.task = t
    BY <1>1, <1>3, NoticeFacts DEF ResumeStage, FailStage, AwaitsTask, worldVars
  <2>2. /\ Keeps(row) /\ Keeps(Relieved) /\ Relieved \in Row
        /\ Relieved.completed = row.completed /\ Relieved.awaiting = None
    BY <1>1, <2>1, HandKeeps, RowInHand
  <2>3. CASE /\ \/ ParkForPayment(Relieved) \/ HandleRetry(Relieved) \/ Fail(row)
                \/ Fail(Relieved)
             /\ UNCHANGED <<made, doubted>>
    <3>1. Keeps(row') /\ UNCHANGED repeated
      BY <1>1, <2>2, <2>3, StopKeeps
    <3> QED
      BY <2>1, <2>3, <3>1 DEF Quiet, InputsMove
  <2>4. ASSUME NEW strange \in BOOLEAN,
               CompleteStage(Relieved, a.stage, a.index, a.print),
               Doubts(Relieved, a.stage, a.print, strange),
               \/ Satisfied(a.stage) /\ UNCHANGED made
               \/ strange /\ UNCHANGED made
               \/ /\ StoreResult(a.stage, tasks[t].input, handoff)
                  /\ strange = (made'[a.stage] # tasks[t].input)
        PROVE  Answered
    <3>1. Checkpoints(Relieved, a.stage, a.print)
      BY <1>1, <2>1, <2>2, <2>4, CompletionKeeps
    <3>2. \/ Satisfied(a.stage) /\ UNCHANGED made
          \/ /\ strange
             /\ \/ UNCHANGED made
                \/ \E v \in Versions : made' = [made EXCEPT ![a.stage] = v]
          \/ made' = [made EXCEPT ![a.stage] = tasks[a.task].input]
      BY <1>1, <2>1, <2>4 DEF StoreResult, TypeOK, Prints
    <3> QED
      BY <2>1, <2>2, <2>4, <3>1, <3>2 DEF Answered
  <2> QED
    <3>1. CASE ResumeStage(t)
      <4>1. (made'[a.stage] # tasks[t].input) \in BOOLEAN
        OBVIOUS
      <4> QED
        BY <2>3, <2>4, <3>1, <4>1 DEF ResumeStage, storeVars, dataVars
    <3>2. CASE FailStage(t)
      BY <2>3, <2>4, <3>2 DEF FailStage, storeVars, dataVars
    <3> QED
      BY <1>3, <3>1, <3>2
<1> QED
  BY <1>2, <1>3

\* No request writes a checkpoint.
LEMMA RequestIsQuiet ==
    ASSUME IInv, row' \in Row, Requests
    PROVE  Quiet
<1>1. TypeOK /\ row \in Row
  BY DEF IInv, TypeOK
<1>2. UNCHANGED <<made, doubted, repeated>>
  BY DEF Requests, RetryRecording, ResumeAfterPayment, ReprocessRecording,
         Requeue, CloseRecording, DeleteRecording, InvalidateFrom, dataVars,
         history, Fail, Ends
<1>3. CASE RetryRecording \/ ResumeAfterPayment \/ ReprocessRecording
           \/ DeleteRecording
  <2>1. UNCHANGED inputs
    BY <1>3 DEF RetryRecording, ResumeAfterPayment, ReprocessRecording, Requeue,
                DeleteRecording, worldVars
  <2>2. Keeps(row')
    BY <1>1, <1>3 DEF RetryRecording, ResumeAfterPayment, ReprocessRecording,
                      Requeue, DeleteRecording, Keeps, Row
  <2> QED
    BY <1>2, <2>1, <2>2 DEF Quiet, InputsMove
<1>4. CASE CloseRecording
  <2>1. Keeps(row')
    BY <1>1, <1>4, HandKeeps, RowInHand, StopKeeps DEF CloseRecording
  <2> QED
    BY <1>2, <1>4, <2>1 DEF CloseRecording, Quiet, InputsMove, worldVars
<1>5. ASSUME NEW s \in Declarable, InvalidateFrom(s)
      PROVE  Quiet
  <2>1. PICK doomed : /\ row' = [row EXCEPT !.invalidated = @ \cup doomed]
                      /\ s \in doomed
    BY <1>5 DEF InvalidateFrom
  <2>2. Keeps(row') /\ s \in row'.invalidated /\ s \in Stages
    BY <1>1, <2>1, ConstantsAssumption DEF Keeps, Row
  <2>3. InputsMove
    BY <1>5, <2>2 DEF InvalidateFrom, InputsMove, Later
  <2> QED
    BY <1>2, <2>2, <2>3 DEF Quiet
<1> QED
  BY <1>3, <1>4, <1>5 DEF Requests

\* Every step is one of these.
LEMMA StepKinds ==
    ASSUME IInv, IInv', Next
    PROVE  \/ Quiet \/ Waits \/ Answered
           \/ \E s \in Stages : Strands(s) \/ Bodied(s)
<1>1. TypeOK /\ row \in Row /\ row' \in Row
  BY DEF IInv, TypeOK
<1>2. ASSUME NEW e \in stageEvents, RunStage(e)
      PROVE  Quiet \/ Waits \/ \E s \in Stages : Strands(s) \/ Bodied(s)
  <2>1. CASE \/ DropStageEvent(e) \/ ResolverFails(e) \/ EmptyPipeline(e)
             \/ FinishPipeline(e)
             \/ \E p \in Pipelines : \E i \in DOMAIN p : UnknownStage(e, p, i)
    BY <1>1, <2>1, NoBodyIsQuiet
  <2>2. ASSUME NEW p \in Pipelines, NEW i \in DOMAIN p,
               \/ RunToCompletion(e, p, i) \/ RunToAbort(e, p, i)
               \/ RunToAwait(e, p, i)
               \/ \E t \in TaskIds : RunToResult(e, p, i, t)
        PROVE  Quiet \/ Waits \/ \E s \in Stages : Strands(s) \/ Bodied(s)
    BY <1>1, <2>2, ListedStages, BodyKind, AwaitKind, ResultKind
  <2> QED
    BY <1>2, <2>1, <2>2 DEF RunStage
<1>3. CASE StartPipeline
  <2>1. row' = [row EXCEPT !.run = 1] \/ UNCHANGED row
    BY <1>3 DEF StartPipeline
  <2>2. UNCHANGED <<inputs, made, doubted, repeated>>
    BY <1>3 DEF StartPipeline, worldVars, dataVars, history
  <2> QED
    BY <1>1, <2>1, <2>2 DEF Quiet, Keeps, InputsMove, Row
<1>4. CASE World
  <2>1. UNCHANGED <<row, made, doubted, repeated>>
    BY <1>4 DEF World, InputChanges, InputHides, ProviderStores, TaskEnds, dataVars,
                history
  <2>2. InputsMove
    BY <1>4 DEF World, InputChanges, InputHides, ProviderStores, TaskEnds, InputsMove,
                worldVars
  <2> QED
    BY <1>1, <2>1, <2>2 DEF Quiet, Keeps
<1> QED
  BY <1>1, <1>2, <1>3, <1>4, NoticeKind, RequestIsQuiet DEF Next, Deliveries

-----------------------------------------------------------------------------
(* Who is awaited, under either dispatch.                                  *)

\* A task's key is the input it was started from, or says nothing; and it is
\* the fingerprint the answer will be recorded with.
AwaitInv ==
    /\ AwaitedIsStarted
    /\ \A u \in DOMAIN tasks : tasks[u].key \in {None, tasks[u].input}
    /\ row.awaiting # None => row.awaiting.print = tasks[row.awaiting.task].key

\* Inline, no task is ever in flight when a handler has returned.
InlineInv ==
    InlineDispatch =>
      /\ row.awaiting = None
      /\ \A u \in DOMAIN tasks : tasks[u].state \notin {"running", "written"}

\* The entry a stage leaves when it waits.
LEMMA WaitingEntry ==
    ASSUME TypeOK, NEW s \in AsyncStages, NEW t \in TaskIds, NEW r \in Row, NEW k \in Nat,
           row' = [r EXCEPT !.awaiting = [task |-> t, stage |-> s, index |-> k,
                                          print |-> Fingerprint(s)]]
    PROVE  /\ row'.awaiting # None /\ row'.awaiting.task = t
           /\ row'.awaiting.stage = s /\ row'.awaiting.print = Fingerprint(s)
           /\ row'.prints = r.prints /\ row'.completed = r.completed
           /\ row'.invalidated = r.invalidated
<1> DEFINE a == [task |-> t, stage |-> s, index |-> k, print |-> Fingerprint(s)]
<1>1. a \in Awaiting /\ a.task = t /\ a.stage = s /\ a.print = Fingerprint(s)
  BY FingerprintType, ConstantsAssumption DEF Awaiting
<1>2. row' = [r EXCEPT !.awaiting = a]
  OBVIOUS
<1> HIDE DEF a
<1>3. /\ row'.awaiting = a /\ row'.prints = r.prints
      /\ row'.completed = r.completed /\ row'.invalidated = r.invalidated
  BY <1>2 DEF Row
<1> QED
  BY <1>1, <1>3, NoneIsNoEntry

\* Every step keeps the awaited entry and its task in agreement.
LEMMA AwaitStays ==
    ASSUME IInv, IInv', AwaitInv, Next
    PROVE  AwaitInv'
<1>1. TypeOK /\ TypeOK' /\ TasksFollow
  BY TasksStay DEF IInv
<1>2. \A u \in DOMAIN tasks' : tasks'[u].key \in {None, tasks'[u].input}
  BY <1>1 DEF AwaitInv, TasksFollow
<1>3. CASE row'.awaiting \in {row.awaiting, None}
  BY <1>1, <1>2, <1>3 DEF AwaitInv, AwaitedIsStarted, TasksFollow
<1>4. CASE Waits
  <2>1. PICK s \in AsyncStages, t \in DOMAIN tasks', r \in Row, k \in Nat :
          /\ row' = [r EXCEPT !.awaiting = [task |-> t, stage |-> s, index |-> k,
                                            print |-> Fingerprint(s)]]
          /\ tasks'[t].stage = s /\ tasks'[t].key = Fingerprint(s)
    BY <1>4 DEF Waits
  <2>2. t \in TaskIds
    BY <1>1, ConstantsAssumption DEF TypeOK, TaskIds
  <2>3. /\ row'.awaiting # None /\ row'.awaiting.task = t
        /\ row'.awaiting.stage = s /\ row'.awaiting.print = Fingerprint(s)
    BY <1>1, <2>1, <2>2, WaitingEntry
  <2> QED
    BY <1>2, <2>1, <2>3 DEF AwaitInv, AwaitedIsStarted
<1> QED
  BY <1>3, <1>4, StepKinds DEF Quiet, Strands, Keeps, Bodied, Answered, Checkpoints

\* Inline, a submission finds nothing to join.
LEMMA NothingInFlight ==
    ASSUME TypeOK, InlineInv, InlineDispatch
    PROVE  \A s \in Stages : InFlight(s) = {}
BY DEF InlineInv, InFlight

\* Inline, every step leaves no task in flight and nobody waiting.
LEMMA InlineStays ==
    ASSUME IInv, IInv', InlineInv, Next, InlineDispatch
    PROVE  InlineInv'
<1>1. TypeOK /\ \A s \in Stages : InFlight(s) = {}
  BY NothingInFlight DEF IInv
<1>2. row'.awaiting = None
  BY <1>1, StepKinds, ConstantsAssumption
  DEF InlineInv, Quiet, Strands, Waits, Bodied, Answered, Keeps, Checkpoints
<1>3. \A u \in DOMAIN tasks' : tasks'[u].state \notin {"running", "written"}
  <2>1. ASSUME NEW e \in stageEvents, NEW p \in Pipelines, NEW i \in DOMAIN p,
               RunToAwait(e, p, i)
        PROVE  FALSE
    BY <1>1, <2>1, ListedStages DEF RunToAwait
  <2>2. ASSUME NEW e \in stageEvents, NEW p \in Pipelines, NEW i \in DOMAIN p,
               NEW t \in TaskIds, RunToResult(e, p, i, t)
        PROVE  \A u \in DOMAIN tasks' : tasks'[u].state \notin {"running", "written"}
    <3>1. PICK st \in {"done", "failed"} : Settles(p[i], t, st)
      BY <2>2 DEF RunToResult
    <3>2. p[i] \in AsyncStages /\ p[i] \in Stages
      BY <2>2, ListedStages DEF RunToResult
    <3> DEFINE x == TaskFor(p[i], st)
    <3>3. x \in Task /\ x.state = st
      BY <1>1, <3>2, TaskForType DEF TaskStates
    <3>4. t = Len(tasks) + 1 /\ tasks' = Append(tasks, x)
      BY <1>1, <3>1, <3>2 DEF Settles
    <3> HIDE DEF x
    <3>5. Len(tasks) < MaxTasks
      BY <1>1, <3>4, ConstantsAssumption DEF TaskIds, TypeOK
    <3> QED
      BY <1>1, <3>1, <3>3, <3>4, <3>5, TaskAdded DEF InlineInv
  <2>3. ASSUME NEW t \in TaskIds, ProviderStores(t) \/ TaskEnds(t)
        PROVE  FALSE
    BY <2>3 DEF ProviderStores, TaskEnds, MayEnd, InlineInv
  <2>4. CASE UNCHANGED tasks
    BY <2>4 DEF InlineInv
  <2>5. ASSUME NEW e \in stageEvents, RunStage(e)
        PROVE  \A u \in DOMAIN tasks' : tasks'[u].state \notin {"running", "written"}
    BY <2>1, <2>2, <2>4, <2>5
    DEF RunStage, DropStageEvent, ResolverFails, EmptyPipeline, FinishPipeline,
        UnknownStage, RunToCompletion, RunToAbort, taskVars
  <2>6. CASE Requests \/ StartPipeline
    BY <2>4, <2>6
    DEF Requests, StartPipeline, RetryRecording, ResumeAfterPayment,
        ReprocessRecording, Requeue, CloseRecording, DeleteRecording,
        InvalidateFrom, taskVars
  <2>7. ASSUME NEW t \in notices, IgnoreNotice(t) \/ ResumeStage(t) \/ FailStage(t)
        PROVE  UNCHANGED tasks
    BY <2>7 DEF IgnoreNotice, ResumeStage, FailStage
  <2>8. CASE \E s \in Stages : InputChanges(s) \/ InputHides(s)
    BY <2>4, <2>8 DEF InputChanges, InputHides, taskVars
  <2> QED
    BY <2>3, <2>4, <2>5, <2>6, <2>7, <2>8 DEF Next, Deliveries, World
<1> QED
  BY <1>2, <1>3 DEF InlineInv

-----------------------------------------------------------------------------
(* The truth of fingerprints.                                              *)

\* The fingerprint on the row is the input of the artifact in storage, or
\* there is neither; but for what Excused names.
PrintsInv ==
    \A s \in Fingerprinted : ~Excused(s) =>
      /\ row.prints[s] = made[s]
      /\ s \in row.completed => made[s] # None

\* Whatever the artifact of s may come to be computed from: what is stored
\* already, as its artifact or for it, and what its tasks were started from.
Sources(s) ==
    {made[s]} \cup {handoff[q] : q \in {s} \cap HandoffStages}
      \cup {tasks[u].input : u \in {v \in DOMAIN tasks : tasks[v].stage = s}}

\* Inputs that never return to an earlier value order what was made of them:
\* nothing is ahead of the input, and the artifact of the stage that is awaited
\* is not ahead of the fingerprint its answer will be recorded with.
AgeInv ==
    /\ \A s \in Fingerprinted : \A x \in Sources(s) : x # None => x <= inputs[s]
    /\ \A s \in Fingerprinted :
         /\ row.awaiting # None /\ row.awaiting.stage = s
         /\ row.awaiting.print # None /\ made[s] # None /\ s \notin doubted
         => made[s] <= row.awaiting.print

TruthInv == AwaitInv /\ InlineInv /\ PrintsInv /\ (~InputsRevert => AgeInv)

\* Where nothing excuses a stage, inputs do not revert or nobody waits.
LEMMA NoExcuse ==
    ASSUME TypeOK, InlineInv, NEW s \in Stages, ~Excused(s)
    PROVE  s \notin doubted /\ (s \in AsyncStages => ~InputsRevert \/ row.awaiting = None)
BY DEF Excused, InlineInv

\* The values a stage's input, artifact and hand-off take.
LEMMA StageValues ==
    ASSUME TypeOK, NEW s \in Fingerprinted
    PROVE  /\ s \in Stages /\ inputs[s] \in Nat /\ inputs[s] # None
           /\ Fingerprint(s) \in {None, inputs[s]}
           /\ \A x \in Sources(s) : x # None => x \in Nat
           /\ made[s] \in Sources(s)
<1>1. s \in Stages /\ inputs[s] \in Nat /\ inputs[s] # None
  BY ConstantsAssumption DEF TypeOK, Versions
<1>2. \A u \in DOMAIN tasks : tasks[u].input \in Nat
  BY KnownTask DEF Versions
<1> QED
  BY <1>1, <1>2 DEF TypeOK, Sources, Fingerprint, Prints, Versions

\* The stage that is awaited submits tasks, and is a stage.
LEMMA AwaitedStage ==
    ASSUME TypeOK, AwaitInv, row.awaiting # None
    PROVE  /\ row.awaiting.stage \in AsyncStages /\ row.awaiting.stage \in Stages
           /\ row.awaiting.task \in DOMAIN tasks
           /\ row.awaiting.print \in Prints
           /\ tasks[row.awaiting.task].stage = row.awaiting.stage
           /\ row.awaiting.print \in {None, tasks[row.awaiting.task].input}
<1>1. row.awaiting \in Awaiting
  BY DEF TypeOK, Row
<1>2. /\ row.awaiting.task \in DOMAIN tasks
      /\ tasks[row.awaiting.task].stage = row.awaiting.stage
      /\ row.awaiting.print \in {None, tasks[row.awaiting.task].input}
  BY DEF AwaitInv, AwaitedIsStarted
<1>3. tasks[row.awaiting.task] \in Task
  BY <1>2, KnownTask
<1> QED
  BY <1>1, <1>2, <1>3, ConstantsAssumption DEF Awaiting, Task

\* What Doubts leaves undoubted has completed on the input it records, or was
\* not doubted before and has none of the causes.
LEMMA Undoubted ==
    ASSUME NEW r, NEW s \in Fingerprinted, NEW f, NEW strange \in BOOLEAN,
           Doubts(r, s, f, strange), s \notin doubted'
    PROVE  /\ r.awaiting # None /\ r.awaiting.stage = s => r.awaiting.print = f
           /\ \/ made'[s] # None /\ made'[s] = f
              \/ /\ s \notin doubted /\ ~strange
                 /\ f # None /\ Fingerprint(s) # None
BY DEF Doubts

\* Doubts concerns one stage only.
LEMMA OthersKeepTheirDoubts ==
    ASSUME NEW r, NEW s, NEW f, NEW strange, Doubts(r, s, f, strange),
           NEW q, q # s
    PROVE  q \in doubted' <=> q \in doubted
BY DEF Doubts

\* What Checkpoints writes on the row, and what it leaves.
LEMMA CheckpointRow ==
    ASSUME TypeOK, NEW r \in Row, NEW s \in Stages, NEW f, Checkpoints(r, s, f)
    PROVE  /\ row'.prints[s] = f
           /\ \A q \in Stages : q # s => row'.prints[q] = row.prints[q]
           /\ row'.completed \subseteq row.completed \cup {s}
           /\ row'.awaiting = r.awaiting /\ r.awaiting \in {row.awaiting, None}
BY DEF Checkpoints, Keeps, TypeOK, Row

\* Completing s keeps the fingerprints true when its own is.
LEMMA PrintsKept ==
    ASSUME TypeOK, PrintsInv, NEW r \in Row, NEW s \in Stages, NEW f,
           NEW strange \in BOOLEAN, Checkpoints(r, s, f), Doubts(r, s, f, strange),
           \A q \in Stages : q # s => made'[q] = made[q],
           s \in Fingerprinted /\ ~Excused(s)' => made'[s] = f /\ f # None
    PROVE  PrintsInv'
<1> SUFFICES ASSUME NEW q \in Fingerprinted, ~Excused(q)'
             PROVE  row'.prints[q] = made'[q] /\ (q \in row'.completed => made'[q] # None)
  BY DEF PrintsInv
<1>1. q \in Stages
  BY ConstantsAssumption
<1>2. CASE q = s
  BY <1>2, CheckpointRow
<1>3. CASE q # s
  <2>1. ~Excused(q)
    BY <1>3, OthersKeepTheirDoubts DEF Excused
  <2> QED
    BY <1>1, <1>3, <2>1, CheckpointRow DEF PrintsInv
<1> QED
  BY <1>2, <1>3

\* A stage whose fingerprint tells and whose input can be fingerprinted is only
\* satisfied by the artifact of the input of the moment.
LEMMA SatisfiedIsCurrent ==
    ASSUME TypeOK, PrintsInv, NEW s \in Fingerprinted, ~Excused(s), Satisfied(s),
           Fingerprint(s) # None
    PROVE  made[s] = Fingerprint(s)
BY DEF Satisfied, IsStale, PrintsInv

\* Every step leaves each fingerprint the input of the artifact, or doubted: a
\* body records the input of the moment, an answer the one it was asked for.
LEMMA PrintsStay ==
    ASSUME IInv, IInv', TruthInv, Next
    PROVE  PrintsInv'
<1>1. TypeOK /\ TypeOK' /\ PrintsInv /\ AwaitInv /\ AwaitInv' /\ InlineInv
      /\ (~InputsRevert => AgeInv)
  BY AwaitStays DEF IInv, TruthInv
<1>2. CASE Quiet
  BY <1>1, <1>2 DEF Quiet, Keeps, PrintsInv, Excused
<1>3. CASE Waits
  <2>1. PICK s \in AsyncStages, t \in DOMAIN tasks', r \in Row, k \in Nat :
          /\ Keeps(r) /\ UNCHANGED <<made, doubted>>
          /\ row' = [r EXCEPT !.awaiting = [task |-> t, stage |-> s, index |-> k,
                                            print |-> Fingerprint(s)]]
    BY <1>3 DEF Waits
  <2>2. row'.prints = r.prints /\ row'.completed = r.completed
    BY <2>1 DEF Row
  <2> QED
    BY <1>1, <2>1, <2>2 DEF Keeps, PrintsInv, Excused
<1>4. ASSUME NEW s \in Stages, Strands(s)
      PROVE  PrintsInv'
  <2>1. \A q \in Fingerprinted : ~Excused(q)' => ~Excused(q) /\ made'[q] = made[q]
    BY <1>1, <1>4, ConstantsAssumption DEF Strands, Excused, TypeOK
  <2> QED
    BY <1>1, <1>4, <2>1 DEF Strands, Keeps, PrintsInv
<1>5. ASSUME NEW s \in Stages, Bodied(s)
      PROVE  PrintsInv'
  <2>1. PICK r \in Row, strange \in BOOLEAN :
          /\ Checkpoints(r, s, Fingerprint(s)) /\ Doubts(r, s, Fingerprint(s), strange)
          /\ \/ Satisfied(s) /\ UNCHANGED made
             \/ made' = [made EXCEPT ![s] = inputs[s]]
             \/ strange
             \/ \E t \in DOMAIN tasks' :
                  /\ made' = [made EXCEPT ![s] = tasks'[t].input]
                  /\ tasks'[t].key = Fingerprint(s)
    BY <1>5 DEF Bodied
  <2>2. \A q \in Stages : q # s => made'[q] = made[q]
    BY <1>1, <1>5 DEF Bodied, TypeOK
  <2>3. ASSUME s \in Fingerprinted, ~Excused(s)'
        PROVE  made'[s] = Fingerprint(s) /\ Fingerprint(s) # None
    <3>1. s \notin doubted' /\ Fingerprint(s) \in {None, inputs[s]}
      BY <1>1, <2>3, StageValues DEF Excused
    <3>2. CASE made'[s] # None /\ made'[s] = Fingerprint(s)
      BY <3>2
    <3>3. CASE s \notin doubted /\ ~strange /\ Fingerprint(s) # None
      <4>1. ~Excused(s)
        BY <2>3, <3>3 DEF Excused
      <4>2. CASE Satisfied(s) /\ UNCHANGED made
        BY <1>1, <2>3, <3>3, <4>1, <4>2, SatisfiedIsCurrent
      <4>3. CASE made' = [made EXCEPT ![s] = inputs[s]]
        BY <1>1, <3>1, <3>3, <4>3 DEF TypeOK
      <4>4. ASSUME NEW t \in DOMAIN tasks',
                   made' = [made EXCEPT ![s] = tasks'[t].input],
                   tasks'[t].key = Fingerprint(s)
            PROVE  made'[s] = Fingerprint(s)
        <5>1. tasks'[t].input = Fingerprint(s)
          BY <1>1, <3>3, <4>4 DEF AwaitInv
        <5> QED
          BY <1>1, <4>4, <5>1 DEF TypeOK
      <4> QED
        BY <2>1, <3>3, <4>2, <4>3, <4>4
    <3> QED
      BY <2>1, <2>3, <3>1, <3>2, <3>3, Undoubted
  <2> QED
    BY <1>1, <2>1, <2>2, <2>3, PrintsKept
<1>6. CASE Answered
  <2> PICK a, s : a = row.awaiting /\ s = row.awaiting.stage
    OBVIOUS
  <2>1. a # None
    BY <1>6 DEF Answered
  <2>2. PICK r \in Row, strange \in BOOLEAN :
          /\ Checkpoints(r, s, a.print) /\ Doubts(r, s, a.print, strange)
          /\ \/ Satisfied(s) /\ UNCHANGED made
             \/ strange
             \/ made' = [made EXCEPT ![s] = tasks[a.task].input]
    BY <1>6 DEF Answered
  <2>3. /\ s \in AsyncStages /\ s \in Stages /\ a.print \in Prints
        /\ a.task \in DOMAIN tasks /\ tasks[a.task].stage = s
        /\ a.print \in {None, tasks[a.task].input}
    BY <1>1, <2>1, AwaitedStage
  <2>4. \A q \in Stages : q # s => made'[q] = made[q]
    BY <1>1, <1>6 DEF Answered, TypeOK
  <2>5. ASSUME s \in Fingerprinted, ~Excused(s)'
        PROVE  made'[s] = a.print /\ a.print # None
    <3>1. s \notin doubted'
      BY <2>5 DEF Excused
    <3>2. CASE made'[s] # None /\ made'[s] = a.print
      BY <3>2
    <3>3. CASE s \notin doubted /\ ~strange /\ a.print # None /\ Fingerprint(s) # None
      <4>1. ~Excused(s)
        BY <2>5, <3>3 DEF Excused
      <4>2. CASE Satisfied(s) /\ UNCHANGED made
        <5>1. made[s] = inputs[s] /\ inputs[s] \in Nat /\ inputs[s] # None
          BY <1>1, <2>5, <3>3, <4>1, <4>2, SatisfiedIsCurrent, StageValues
        <5>2. AgeInv
          BY <1>1, <2>1, <2>3, <4>1, NoExcuse
        <5>3. a.print \in Nat
          BY <2>3, <3>3 DEF Prints, Versions
        <5>4. made[s] <= a.print
          BY <2>1, <2>5, <3>3, <5>1, <5>2 DEF AgeInv
        <5>5. a.print \in Sources(s)
          BY <2>3, <3>3 DEF Sources
        <5>6. a.print <= inputs[s]
          BY <2>5, <3>3, <5>2, <5>5 DEF AgeInv
        <5>7. a.print = inputs[s]
          BY <5>1, <5>3, <5>4, <5>6
        <5> QED
          BY <3>3, <4>2, <5>1, <5>7
      <4>3. CASE made' = [made EXCEPT ![s] = tasks[a.task].input]
        BY <1>1, <2>3, <3>3, <4>3 DEF TypeOK
      <4> QED
        BY <2>2, <3>3, <4>2, <4>3
    <3> QED
      BY <2>2, <2>5, <3>1, <3>2, <3>3, Undoubted
  <2> QED
    BY <1>1, <2>2, <2>3, <2>4, <2>5, PrintsKept
<1> QED
  BY <1>2, <1>3, <1>4, <1>5, <1>6, StepKinds

\* What is stored was stored before, is computed now, or is an answer.
DataFollows ==
    \A s \in Stages :
      /\ made'[s] \in Sources(s) \cup {inputs[s]}
      /\ s \in HandoffStages => handoff'[s] \in Sources(s) \cup {inputs[s], None}

\* The artifact and the hand-off of a stage are among its sources.
LEMMA StoredSources ==
    ASSUME NEW s \in Stages
    PROVE  made[s] \in Sources(s) /\ (s \in HandoffStages => handoff[s] \in Sources(s))
BY DEF Sources

\* Persisting an answer, with what a provider may have stored by then.
LEMMA StoreFollows ==
    ASSUME TypeOK, NEW s \in AsyncStages, NEW t, NEW st, NEW box \in Posted(s, t, st),
           NEW v \in Sources(s) \cup {inputs[s]}, StoreResult(s, v, box)
    PROVE  DataFollows
<1>1. \A q \in HandoffStages : box[q] \in Sources(q) \cup {inputs[q]}
  BY StoredSources, ConstantsAssumption DEF Posted
<1>2. HandoffStages \subseteq Stages /\ s \in Stages
  BY ConstantsAssumption
<1>3. box \in [HandoffStages -> Prints] /\ made \in [Stages -> Prints]
  BY <1>2, PostedType DEF TypeOK
<1>4. CASE s \in HandoffStages
  <2>1. made' = [made EXCEPT ![s] = box[s]] /\ handoff' = [box EXCEPT ![s] = None]
    BY <1>4 DEF StoreResult
  <2> QED
    BY <1>1, <1>2, <1>3, <1>4, <2>1, StoredSources DEF DataFollows
<1>5. CASE s \notin HandoffStages
  <2>1. made' = [made EXCEPT ![s] = v] /\ handoff' = box
    BY <1>5 DEF StoreResult
  <2> QED
    BY <1>1, <1>2, <1>3, <2>1, StoredSources DEF DataFollows
<1> QED
  BY <1>4, <1>5

\* Nothing is stored that no source of the stage accounts for.
LEMMA DataStays ==
    ASSUME TypeOK, AwaitInv, Next
    PROVE  DataFollows
<1>1. /\ HandoffStages \subseteq AsyncStages /\ AsyncStages \subseteq Stages
      /\ made \in [Stages -> Prints] /\ handoff \in [HandoffStages -> Prints]
  BY ConstantsAssumption DEF TypeOK
<1>2. CASE UNCHANGED storeVars
  BY <1>2, StoredSources DEF storeVars, DataFollows
<1>3. ASSUME NEW s \in Stages, made' = [made EXCEPT ![s] = inputs[s]], UNCHANGED handoff
      PROVE  DataFollows
  BY <1>1, <1>3, StoredSources DEF DataFollows
<1>4. ASSUME NEW p \in Pipelines, NEW i \in DOMAIN p, NEW e \in stageEvents,
             RunToCompletion(e, p, i)
      PROVE  DataFollows
  <2>1. CASE /\ p[i] \in HandoffStages
             /\ made' = [made EXCEPT ![p[i]] = handoff[p[i]]]
             /\ handoff' = [handoff EXCEPT ![p[i]] = None]
    BY <1>1, <2>1, StoredSources DEF DataFollows
  <2>2. p[i] \in Stages
    BY ListedStages
  <2> QED
    BY <1>2, <1>3, <1>4, <2>1, <2>2 DEF RunToCompletion
<1>5. ASSUME NEW p \in Pipelines, NEW i \in DOMAIN p, NEW e \in stageEvents,
             RunToAbort(e, p, i)
      PROVE  DataFollows
  <2>1. p[i] \in Stages
    BY ListedStages
  <2> QED
    BY <1>2, <1>3, <1>5, <2>1 DEF RunToAbort, storeVars
<1>6. ASSUME NEW p \in Pipelines, NEW i \in DOMAIN p, NEW e \in stageEvents,
             NEW t \in TaskIds, RunToResult(e, p, i, t)
      PROVE  DataFollows
  <2>1. p[i] \in AsyncStages /\ p[i] \in Stages
    BY <1>1, <1>6 DEF RunToResult
  <2>2. ASSUME NEW st \in TaskStates, NEW box \in Posted(p[i], t, st),
               handoff' = box, UNCHANGED made
        PROVE  DataFollows
    BY <1>1, <2>2, StoredSources DEF DataFollows, Posted
  <2>3. ASSUME NEW box \in Posted(p[i], t, "done"), Settles(p[i], t, "done"),
               StoreResult(p[i], tasks'[t].input, box)
        PROVE  DataFollows
    <3>1. tasks'[t].input \in Sources(p[i]) \cup {inputs[p[i]]}
      <4>1. CASE t \in InFlight(p[i]) /\ tasks' = [tasks EXCEPT ![t].state = "done"]
        <5>1. t \in DOMAIN tasks /\ tasks[t].stage = p[i]
              /\ tasks'[t].input = tasks[t].input
          BY <4>1, TaskBecomes DEF InFlight, TaskStates
        <5> QED
          BY <5>1 DEF Sources
      <4>2. CASE tasks'[t].input = inputs[p[i]]
        BY <4>2
      <4> QED
        BY <2>1, <2>3, <4>1, <4>2, SettledTask DEF Settles, TaskStates, InFlight
    <3> QED
      BY <2>1, <2>3, <3>1, StoreFollows
  <2> QED
    BY <1>6, <2>2, <2>3 DEF RunToResult, TaskStates
<1>7. ASSUME NEW e \in stageEvents, RunStage(e)
      PROVE  DataFollows
  BY <1>2, <1>4, <1>5, <1>6, <1>7
  DEF RunStage, DropStageEvent, ResolverFails, EmptyPipeline, FinishPipeline,
      UnknownStage, RunToAwait, dataVars, storeVars
<1>8. ASSUME NEW t \in notices, ResumeStage(t)
      PROVE  DataFollows
  <2>1. CASE StoreResult(row.awaiting.stage, tasks[t].input, handoff)
    <3> PICK s : s = row.awaiting.stage
      OBVIOUS
    <3>1. row.awaiting # None /\ row.awaiting.task = t
      BY <1>8 DEF ResumeStage, AwaitsTask
    <3>2. s \in AsyncStages /\ t \in DOMAIN tasks /\ tasks[t].stage = s
      BY <3>1, AwaitedStage
    <3>3. tasks[t].input \in Sources(s) /\ handoff \in Posted(s, t, "done")
      BY <3>2 DEF Sources, Posted
    <3> QED
      BY <2>1, <3>2, <3>3, StoreFollows
  <2> QED
    BY <1>2, <1>8, <2>1 DEF ResumeStage, dataVars, storeVars
<1>9. ASSUME NEW t \in TaskIds, ProviderStores(t)
      PROVE  DataFollows
  <2>1. /\ t \in DOMAIN tasks /\ UNCHANGED made
        /\ handoff' = [handoff EXCEPT ![tasks[t].stage] = tasks[t].input]
    BY <1>9 DEF ProviderStores
  <2>2. tasks[t].input \in Sources(tasks[t].stage)
    BY <2>1 DEF Sources
  <2> QED
    BY <1>1, <2>1, <2>2, StoredSources DEF DataFollows
<1>10. CASE Requests \/ StartPipeline
  BY <1>2, <1>10
  DEF Requests, StartPipeline, RetryRecording, ResumeAfterPayment, ReprocessRecording,
      Requeue, CloseRecording, DeleteRecording, InvalidateFrom, dataVars, storeVars
<1>11. ASSUME NEW t \in notices, IgnoreNotice(t) \/ FailStage(t)
       PROVE  DataFollows
  BY <1>2, <1>11 DEF IgnoreNotice, FailStage, dataVars, storeVars
<1> QED
  <2>1. ASSUME NEW s \in Stages, InputChanges(s) \/ InputHides(s)
        PROVE  DataFollows
    BY <1>2, <2>1 DEF InputChanges, InputHides, dataVars, storeVars
  <2>2. ASSUME NEW t \in TaskIds, TaskEnds(t)
        PROVE  DataFollows
    BY <1>2, <2>2 DEF TaskEnds, dataVars, storeVars
  <2> QED
    BY <1>7, <1>8, <1>9, <1>10, <1>11, <2>1, <2>2 DEF Next, Deliveries, World

\* The sources of a stage grow by what its input is now.
LEMMA SourcesStay ==
    ASSUME TypeOK, TypeOK', AwaitInv, Next, NEW s \in Stages
    PROVE  Sources(s)' \subseteq Sources(s) \cup {inputs[s], None}
<1>1. DataFollows /\ TasksFollow
  BY DataStays, TasksStay
<1> SUFFICES ASSUME NEW x \in Sources(s)'
             PROVE  x \in Sources(s) \cup {inputs[s], None}
  OBVIOUS
<1>2. CASE x = made'[s]
  BY <1>1, <1>2 DEF DataFollows
<1>3. CASE s \in HandoffStages /\ x = handoff'[s]
  BY <1>1, <1>3 DEF DataFollows
<1>4. ASSUME NEW u \in DOMAIN tasks', tasks'[u].stage = s, x = tasks'[u].input
      PROVE  x \in Sources(s) \cup {inputs[s], None}
  BY <1>1, <1>4 DEF TasksFollow, Sources
<1> QED
  BY <1>2, <1>3, <1>4 DEF Sources

\* Inputs that do not revert only grow.
LEMMA InputsGrow ==
    ASSUME IInv, IInv', Next, ~InputsRevert, NEW s \in Fingerprinted
    PROVE  inputs[s] \in Nat /\ inputs'[s] \in Nat /\ inputs[s] <= inputs'[s]
<1>1. /\ s \in Stages /\ inputs \in [Stages -> Versions]
      /\ inputs[s] \in Nat /\ inputs'[s] \in Nat
  BY ConstantsAssumption DEF IInv, TypeOK, Versions
<1>2. InputsMove
  BY StepKinds DEF Quiet, Strands, Waits, Bodied, Answered, Checkpoints, InputsMove
<1>3. ASSUME NEW q \in Fingerprinted, NEW v \in Later(inputs[q]),
             inputs' = [inputs EXCEPT ![q] = v]
      PROVE  inputs[s] <= inputs'[s]
  <2>1. v > inputs[q]
    BY <1>3 DEF Later
  <2> QED
    BY <1>1, <1>3, <2>1
<1>4. ASSUME NEW q \in Stages \ Fingerprinted, NEW v \in Versions,
             inputs' = [inputs EXCEPT ![q] = v]
      PROVE  inputs[s] <= inputs'[s]
  BY <1>1, <1>4
<1> QED
  BY <1>1, <1>2, <1>3, <1>4 DEF InputsMove

\* Nothing gets ahead of the input, nor the artifact of the stage that is awaited
\* ahead of the fingerprint its answer will be recorded with.
LEMMA AgeStays ==
    ASSUME IInv, IInv', TruthInv, Next, ~InputsRevert
    PROVE  AgeInv'
<1>1. TypeOK /\ TypeOK' /\ AwaitInv /\ AgeInv
  BY DEF IInv, TruthInv
<1>2. ASSUME NEW s \in Fingerprinted, NEW x \in Sources(s)', x # None
      PROVE  x \in Nat /\ x <= inputs[s] /\ x <= inputs'[s]
  <2>1. s \in Stages /\ inputs[s] \in Nat
    BY <1>1, StageValues
  <2>2. x \in Sources(s) \/ x = inputs[s]
    BY <1>1, <1>2, <2>1, SourcesStay
  <2>3. x \in Nat /\ x <= inputs[s]
    BY <1>1, <1>2, <2>1, <2>2, StageValues DEF AgeInv
  <2> QED
    BY <2>3, InputsGrow
<1>3. \A s \in Fingerprinted : made'[s] \in Sources(s)'
  BY ConstantsAssumption DEF Sources
<1>4. ASSUME NEW s \in Fingerprinted, row'.awaiting # None, row'.awaiting.stage = s,
             row'.awaiting.print # None, made'[s] # None, s \notin doubted'
      PROVE  made'[s] <= row'.awaiting.print
  <2>1. s \in Stages /\ made'[s] <= inputs[s]
    BY <1>2, <1>3, <1>4, ConstantsAssumption
  <2>2. CASE Waits
    <3>1. PICK q \in AsyncStages, t \in DOMAIN tasks', r \in Row, k \in Nat :
            row' = [r EXCEPT !.awaiting = [task |-> t, stage |-> q, index |-> k,
                                           print |-> Fingerprint(q)]]
      BY <2>2 DEF Waits
    <3>2. t \in TaskIds
      BY <1>1, ConstantsAssumption DEF TypeOK, TaskIds
    <3>3. row'.awaiting.stage = q /\ row'.awaiting.print = Fingerprint(q)
      BY <1>1, <3>1, <3>2, WaitingEntry
    <3>4. row'.awaiting.print = inputs[s]
      BY <1>1, <1>4, <3>3, StageValues
    <3> QED
      BY <2>1, <3>4
  <2>3. ASSUME s \notin doubted, made'[s] = made[s], row'.awaiting = row.awaiting
        PROVE  made'[s] <= row'.awaiting.print
    BY <1>1, <1>4, <2>3 DEF AgeInv
  <2>4. row'.awaiting = row.awaiting \/ Waits
    BY <1>4, StepKinds DEF Quiet, Strands, Keeps, Bodied, Answered, Checkpoints
  <2>5. CASE Quiet
    BY <1>4, <2>3, <2>4, <2>2, <2>5 DEF Quiet
  <2>6. ASSUME NEW q \in Stages, Strands(q)
        PROVE  made'[s] <= row'.awaiting.print
    <3>1. s # q /\ s \notin doubted
      BY <1>4, <2>6 DEF Strands
    <3>2. made'[s] = made[s]
      BY <1>1, <2>1, <2>6, <3>1 DEF Strands, TypeOK
    <3> QED
      BY <2>2, <2>3, <2>4, <3>1, <3>2
  <2>7. ASSUME NEW q \in Stages, Bodied(q)
        PROVE  made'[s] <= row'.awaiting.print
    <3>1. PICK r \in Row, strange \in BOOLEAN :
            /\ Checkpoints(r, q, Fingerprint(q)) /\ Doubts(r, q, Fingerprint(q), strange)
            /\ r.awaiting = row.awaiting
      BY <2>7 DEF Bodied
    <3>2. row'.awaiting = r.awaiting
      BY <3>1 DEF Checkpoints
    <3>3. CASE q = s
      <4>1. row'.awaiting.print = Fingerprint(s)
        BY <1>4, <3>1, <3>2, <3>3, Undoubted
      <4>2. row'.awaiting.print = inputs[s]
        BY <1>1, <1>4, <4>1, StageValues
      <4> QED
        BY <2>1, <4>2
    <3>4. CASE q # s
      <4>1. s \notin doubted
        BY <1>4, <3>1, <3>4, OthersKeepTheirDoubts
      <4>2. made'[s] = made[s]
        BY <1>1, <2>1, <2>7, <3>4 DEF Bodied, TypeOK
      <4> QED
        BY <2>3, <3>1, <3>2, <4>1, <4>2
    <3> QED
      BY <3>3, <3>4
  <2>8. ~Answered
    BY <1>4 DEF Answered, Checkpoints
  <2> QED
    BY <2>2, <2>5, <2>6, <2>7, <2>8, StepKinds
<1>5. \A s \in Fingerprinted : \A x \in Sources(s)' : x # None => x <= inputs'[s]
  BY <1>2
<1> QED
  BY <1>4, <1>5 DEF AgeInv, Sources

-----------------------------------------------------------------------------
(* Inline dispatch: declarations and reports.                              *)

\* A stage whose input no fingerprint sees has the artifact of that input
\* unless it is declared stale or took a stranded result, and what stands
\* completed has an artifact.
DeclaredInv ==
    /\ \A s \in Stages \ Fingerprinted :
         made[s] # None /\ s \notin row.invalidated /\ s \notin doubted
           => made[s] = inputs[s]
    /\ \A s \in row.completed : made[s] # None
    /\ ReportedOnce

\* Inline, a stage that completes does so on the input of the moment, so a
\* declaration it clears has been honoured.
LEMMA DeclaredStays ==
    ASSUME IInv, IInv', InlineDispatch, InlineInv, DeclaredInv, Next
    PROVE  DeclaredInv'
<1>1. /\ TypeOK /\ TypeOK' /\ row.awaiting = None
      /\ \A s \in Stages : InFlight(s) = {}
  BY NothingInFlight DEF IInv, InlineInv
<1>2. CASE Quiet
  <2>1. \A s \in Stages \ Fingerprinted : s \notin row'.invalidated =>
          s \notin row.invalidated /\ inputs'[s] = inputs[s]
    BY <1>1, <1>2 DEF Quiet, Keeps, InputsMove, TypeOK
  <2> QED
    BY <1>2, <2>1 DEF Quiet, Keeps, DeclaredInv, ReportedOnce
<1>3. ASSUME NEW s \in Stages, Strands(s)
      PROVE  DeclaredInv'
  <2>1. /\ \A q \in Stages : q # s => made'[q] = made[q]
        /\ made'[s] = inputs[s] /\ inputs[s] # None
    BY <1>1, <1>3, ConstantsAssumption DEF Strands, TypeOK, Versions
  <2>2. row'.completed \subseteq row.completed /\ row.completed \subseteq Stages
    BY <1>1, <1>3 DEF Strands, Keeps, TypeOK, Row
  <2> QED
    BY <1>3, <2>1, <2>2 DEF Strands, Keeps, DeclaredInv, ReportedOnce
<1>4. ASSUME NEW s \in Stages, Bodied(s)
      PROVE  DeclaredInv'
  <2>1. PICK r \in Row, strange \in BOOLEAN :
          /\ Checkpoints(r, s, Fingerprint(s))
          /\ s \notin r.completed /\ r.invalidated = row.invalidated
          /\ r.awaiting = row.awaiting
          /\ Doubts(r, s, Fingerprint(s), strange)
          /\ \/ Satisfied(s) /\ UNCHANGED made
             \/ made' = [made EXCEPT ![s] = inputs[s]]
             \/ strange /\ \E v \in Versions : made' = [made EXCEPT ![s] = v]
             \/ \E t \in DOMAIN tasks' :
                  /\ made' = [made EXCEPT ![s] = tasks'[t].input]
                  /\ t \in InFlight(s) \/ tasks'[t].input = inputs[s]
    BY <1>4 DEF Bodied
  <2>2. \A q \in Stages : q # s => made'[q] = made[q] /\ (q \in doubted' <=> q \in doubted)
    BY <1>1, <1>4, <2>1, OthersKeepTheirDoubts DEF Bodied, TypeOK
  <2>3. \/ Satisfied(s) /\ made'[s] = made[s]
        \/ made'[s] = inputs[s]
        \/ strange /\ made'[s] \in Versions
    BY <1>1, <2>1 DEF TypeOK
  <2>4. inputs'[s] = inputs[s] /\ made'[s] # None
    BY <1>1, <2>1, <2>3, ConstantsAssumption DEF Checkpoints, Satisfied, TypeOK, Versions
  <2>5. ASSUME s \notin Fingerprinted, s \notin doubted'
        PROVE  made'[s] = inputs[s]
    <3>1. made'[s] = inputs[s] \/ (s \notin doubted /\ ~strange)
      BY <2>1, <2>5 DEF Doubts
    <3> QED
      BY <2>3, <2>4, <2>5, <3>1 DEF DeclaredInv, Satisfied, IsStale
  <2>6. /\ row'.completed \subseteq row.completed \cup {s}
        /\ row'.invalidated = row.invalidated \ {s}
        /\ repeated' = repeated /\ inputs' = inputs
        /\ row'.completed \subseteq Stages
    BY <1>1, <2>1 DEF Checkpoints, Keeps, Row
  <2> QED
    BY <2>2, <2>4, <2>5, <2>6 DEF DeclaredInv, ReportedOnce
<1>5. ~Waits /\ ~Answered
  BY <1>1, ConstantsAssumption DEF Waits, Answered
<1> QED
  BY <1>2, <1>3, <1>4, <1>5, StepKinds

-----------------------------------------------------------------------------
(* The inductive invariants together, and what follows.                    *)

\* Whatever the deployment.
MovesInv == IInv /\ AwaitInv /\ DriverInv

\* A queued recording no handler has touched.
LEMMA MovesInit == Init => MovesInv
BY InitialState DEF MovesInv, Init, InitialRow, AwaitInv, AwaitedIsStarted,
                    DriverInv, NotStarted, LiveHasDriver

\* Every step leaves the recording with something to move it.
LEMMA MovesStay == MovesInv /\ [Next]_vars => MovesInv'
<1> SUFFICES ASSUME MovesInv, [Next]_vars PROVE MovesInv'
  OBVIOUS
<1>1. IInv /\ IInv' /\ AwaitInv /\ AwaitedIsStarted /\ DriverInv
  BY EveryStep DEF MovesInv, AwaitInv
<1>2. CASE Next
  <2>1. AwaitInv'
    BY <1>1, <1>2, AwaitStays
  <2>2. ASSUME NEW e \in stageEvents, RunStage(e)
        PROVE  DriverInv'
    BY <1>1, <2>2, StageEventDrives, AwaitDrives
  <2>3. ASSUME Deliveries PROVE DriverInv'
    BY <1>1, <2>2, <2>3, StartDrives, NoticeDrives DEF Deliveries
  <2>4. ASSUME Requests PROVE DriverInv'
    BY <1>1, <2>4, RequestDrives
  <2>5. ASSUME World PROVE DriverInv'
    BY <1>1, <2>5, WorldDrives
  <2> QED
    BY <1>1, <1>2, <2>1, <2>3, <2>4, <2>5 DEF Next, MovesInv
<1>3. CASE UNCHANGED vars
  BY <1>1, <1>3 DEF vars, MovesInv, AwaitInv, AwaitedIsStarted, DriverInv, NotStarted,
                    LiveHasDriver, Live
<1> QED
  BY <1>2, <1>3

\* A live recording that has started has an event the driver will not drop,
\* a task that will still answer, or a retry parked for the watchdog, whatever
\* is delivered again, late or out of order (pipeline.py, every handler's exits).
THEOREM NothingIsStuck == Spec => []LiveHasDriver
<1>1. MovesInv => LiveHasDriver
  BY DEF MovesInv, DriverInv
<1> QED
  BY <1>1, MovesInit, MovesStay, PTL DEF Spec

\* The truth of checkpoints, whatever the deployment.
CheckpointInv == IInv /\ TruthInv

\* A queued recording has no checkpoints.
LEMMA CheckpointInit == Init => CheckpointInv
<1> SUFFICES ASSUME Init PROVE CheckpointInv
  OBVIOUS
<1>1. AwaitInv /\ InlineInv
  BY DEF Init, InitialRow, AwaitInv, AwaitedIsStarted, InlineInv
<1>2. PrintsInv
  BY ConstantsAssumption DEF Init, InitialRow, PrintsInv
<1>3. \A s \in Stages : Sources(s) \subseteq {None}
  BY DEF Init, Sources
<1>4. AgeInv
  BY <1>3, ConstantsAssumption DEF Init, InitialRow, AgeInv
<1> QED
  BY <1>1, <1>2, <1>4, InitialState DEF CheckpointInv, TruthInv

\* Every step keeps them true.
LEMMA CheckpointStays == CheckpointInv /\ [Next]_vars => CheckpointInv'
<1> SUFFICES ASSUME IInv, TruthInv, [Next]_vars
             PROVE  IInv' /\ TruthInv'
  BY DEF CheckpointInv
<1>1. IInv'
  BY EveryStep
<1>2. CASE Next
  <2>1. AwaitInv' /\ InlineInv'
    BY <1>1, <1>2, AwaitStays, InlineStays DEF TruthInv, InlineInv
  <2>2. PrintsInv' /\ (~InputsRevert => AgeInv')
    BY <1>1, <1>2, PrintsStay, AgeStays
  <2> QED
    BY <1>1, <2>1, <2>2 DEF TruthInv
<1>3. CASE UNCHANGED vars
  BY <1>1, <1>3 DEF vars, TruthInv, AwaitInv, AwaitedIsStarted, InlineInv, PrintsInv,
                    AgeInv, Sources, Excused
<1> QED
  BY <1>2, <1>3

\* The fingerprint recorded for a completed stage is the input its stored
\* artifact was computed from, whatever changed while a task was in flight, or
\* the stage completed in one of the ways Excused names (checkpoints.py,
\* record_fingerprint).
THEOREM PrintsTell == Spec => []PrintsAreTrue
<1>1. CheckpointInv => PrintsAreTrue
  BY DEF CheckpointInv, TruthInv, PrintsInv, PrintsAreTrue
<1> QED
  BY <1>1, CheckpointInit, CheckpointStays, PTL DEF Spec

\* No outcome but _finalize leaves a live row completed.
LEMMA OthersDoNotFinish ==
    ASSUME NEW r \in Row, r.status = "active",
           \/ Fail(r) \/ ParkForPayment(r) \/ HandleRetry(r)
           \/ \E s, k, f : CompleteStage(r, s, k, f)
           \/ \E s, i, t : AwaitTask(r, s, i, t)
    PROVE  row'.status # "completed"
<1>1. EnsureRun(r) \in Row /\ EnsureRun(r).status = "active"
  BY EnsureRunType DEF EnsureRun, Row
<1>2. CASE Fail(r) \/ ParkForPayment(r)
  BY <1>1, <1>2 DEF Fail, ParkForPayment, Ends, Row
<1>3. CASE HandleRetry(r)
  <2>1. CASE row' = [r EXCEPT !.retry = @ + 1]
    BY <2>1 DEF Row
  <2> QED
    BY <1>2, <1>3, <2>1 DEF HandleRetry
<1>4. CASE \E s, k, f : CompleteStage(r, s, k, f)
  BY <1>1, <1>4 DEF CompleteStage, Completed, Row
<1>5. CASE \E s, i, t : AwaitTask(r, s, i, t)
  BY <1>5 DEF AwaitTask, Row
<1> QED
  BY <1>2, <1>3, <1>4, <1>5

\* What finishes a recording is a delivery that finds every listed stage
\* completed and not stale.
LEMMA OnlyFinishPipelineFinishes ==
    ASSUME TypeOK, Next, row.status # "completed", row'.status = "completed"
    PROVE  \E p \in Pipelines : \A i \in DOMAIN p : ~Pending(row, p[i])
<1>1. row \in Row
  BY DEF TypeOK
<1>2. ASSUME Live(row)
      PROVE  /\ row.status = "active" /\ Relieved \in Row /\ Relieved.status = "active"
             /\ \A p \in Pipelines : \A i \in DOMAIN p :
                  /\ AtCursor(p, i) \in Row /\ AtCursor(p, i).status = "active"
                  /\ Begun(p, i) \in Row /\ Begun(p, i).status = "active"
  BY <1>2, RowInHand DEF InHand
<1>3. ASSUME NEW e \in stageEvents, RunStage(e)
      PROVE  FinishPipeline(e)
  <2>1. CASE DropStageEvent(e)
    BY <2>1 DEF DropStageEvent
  <2>2. CASE ResolverFails(e) \/ EmptyPipeline(e)
    BY <1>1, <1>2, <2>2, OthersDoNotFinish DEF ResolverFails, EmptyPipeline
  <2>3. ASSUME NEW p \in Pipelines, NEW i \in DOMAIN p,
               \/ UnknownStage(e, p, i)
               \/ RunToCompletion(e, p, i) \/ RunToAbort(e, p, i)
               \/ RunToAwait(e, p, i)
               \/ \E t \in TaskIds : RunToResult(e, p, i, t)
        PROVE  FALSE
    <3>1. Live(row)
      BY <2>3 DEF UnknownStage, RunToCompletion, RunToAbort, RunToAwait, RunToResult,
                  RunsStage
    <3> DEFINE r == Begun(p, i)
    <3>2. /\ r \in Row /\ r.status = "active"
          /\ AtCursor(p, i) \in Row /\ AtCursor(p, i).status = "active"
      BY <1>2, <3>1
    <3>3. \/ Fail(AtCursor(p, i))
          \/ Fail(r) \/ ParkForPayment(r) \/ HandleRetry(r)
          \/ \E s, k, f : CompleteStage(r, s, k, f)
          \/ \E s, k, t : AwaitTask(r, s, k, t)
      BY <2>3 DEF UnknownStage, RunToCompletion, RunToAbort, RunToAwait, RunToResult
    <3> HIDE DEF r
    <3> QED
      BY <3>2, <3>3, OthersDoNotFinish
  <2> QED
    BY <1>3, <2>1, <2>2, <2>3 DEF RunStage
<1>4. ASSUME NEW t \in notices, IgnoreNotice(t) \/ ResumeStage(t) \/ FailStage(t)
      PROVE  FALSE
  <2>1. CASE IgnoreNotice(t)
    BY <2>1 DEF IgnoreNotice
  <2>2. CASE ResumeStage(t) \/ FailStage(t)
    <3>1. \/ Fail(row) \/ Fail(Relieved) \/ ParkForPayment(Relieved)
          \/ HandleRetry(Relieved)
          \/ \E s, k, f : CompleteStage(Relieved, s, k, f)
      BY <2>2 DEF ResumeStage, FailStage
    <3> QED
      BY <1>1, <1>2, <2>2, <3>1, OthersDoNotFinish DEF ResumeStage, FailStage
  <2> QED
    BY <1>4, <2>1, <2>2
<1>5. ~StartPipeline /\ ~World
  BY <1>1 DEF StartPipeline, World, InputChanges, InputHides, ProviderStores, TaskEnds, Row
<1>6. ~Requests
  <2>1. ~(RetryRecording \/ ResumeAfterPayment \/ ReprocessRecording)
    BY <1>1 DEF RetryRecording, ResumeAfterPayment, ReprocessRecording, Requeue, Row
  <2>2. ~CloseRecording
    BY <1>2, OthersDoNotFinish DEF CloseRecording
  <2>3. ~DeleteRecording
    BY <1>1 DEF DeleteRecording, Row
  <2>4. \A s \in Declarable : ~InvalidateFrom(s)
    BY <1>1 DEF InvalidateFrom, Row
  <2> QED
    BY <2>1, <2>2, <2>3, <2>4 DEF Requests
<1> QED
  BY <1>3, <1>4, <1>5, <1>6 DEF Next, Deliveries, FinishPipeline

\* A recording is only ever finished with artifacts computed from what the
\* inputs are at that moment, but for stages whose fingerprint may not tell or
\* whose input cannot be fingerprinted by then (pipeline.py, run_stage and
\* _finalize).
THEOREM FinishedIsCurrent == Spec => DeliveredIsCurrent
<1>1. ASSUME CheckpointInv, [Next]_vars
      PROVE  [row.status # "completed" /\ row'.status = "completed" =>
                \E p \in Pipelines : \A i \in DOMAIN p :
                   p[i] \in Fingerprinted =>
                     made[p[i]] = inputs[p[i]] \/ Excused(p[i]) \/ p[i] \in silent]_vars
  <2>1. TypeOK /\ PrintsInv
    BY <1>1 DEF CheckpointInv, TruthInv, IInv
  <2> SUFFICES ASSUME Next, row.status # "completed", row'.status = "completed"
               PROVE  \E p \in Pipelines : \A i \in DOMAIN p :
                        p[i] \in Fingerprinted =>
                          made[p[i]] = inputs[p[i]] \/ Excused(p[i]) \/ p[i] \in silent
    BY <1>1
  <2>2. PICK p \in Pipelines : \A i \in DOMAIN p : ~Pending(row, p[i])
    BY <2>1, OnlyFinishPipelineFinishes
  <2>3. ASSUME NEW s \in Fingerprinted, ~Pending(row, s), ~Excused(s), s \notin silent
        PROVE  made[s] = inputs[s]
    <3>1. Fingerprint(s) = inputs[s] /\ inputs[s] # None
      BY <2>1, <2>3, StageValues DEF Fingerprint
    <3> QED
      BY <2>1, <2>3, <3>1 DEF Pending, IsStale, PrintsInv
  <2> QED
    BY <2>2, <2>3
<1>2. CheckpointInv /\ [Next]_vars =>
        [row.status # "completed" /\ row'.status = "completed" =>
           \E p \in Pipelines : \A i \in DOMAIN p :
              p[i] \in Fingerprinted =>
                made[p[i]] = inputs[p[i]] \/ Excused(p[i]) \/ p[i] \in silent]_vars
  BY <1>1
<1> QED
  BY <1>2, CheckpointInit, CheckpointStays, PTL DEF Spec, DeliveredIsCurrent

\* With inline dispatch, where no task outlives its handler.
InlineCheckpointInv == InlineDispatch => CheckpointInv /\ DeclaredInv

\* A queued recording has nothing declared or reported.
LEMMA InlineInit == Init => InlineCheckpointInv
<1>1. Init => DeclaredInv
  BY DEF Init, InitialRow, DeclaredInv, ReportedOnce
<1> QED
  BY <1>1, CheckpointInit DEF InlineCheckpointInv

\* Every step keeps declarations honoured and reports single.
LEMMA InlineNext == InlineCheckpointInv /\ [Next]_vars => InlineCheckpointInv'
<1> SUFFICES ASSUME InlineDispatch, CheckpointInv, DeclaredInv, [Next]_vars
             PROVE  CheckpointInv' /\ DeclaredInv'
  BY DEF InlineCheckpointInv
<1>1. CheckpointInv'
  BY CheckpointStays
<1>2. CASE Next
  BY <1>1, <1>2, DeclaredStays DEF CheckpointInv, TruthInv
<1>3. CASE UNCHANGED vars
  BY <1>1, <1>3 DEF vars, DeclaredInv, ReportedOnce
<1> QED
  BY <1>1, <1>2, <1>3

\* With inline dispatch a completed stage has the artifact of its input as it
\* is now, unless declared stale since, and its fingerprint says which, hand-offs,
\* reverting inputs and recovering stages included; a stage that took a result
\* stranded in storage, or could not say what it read, is the exception
\* (pipeline.py, invalidate_from and _mark_completed).
THEOREM InlineCheckpoints ==
    ASSUME InlineDispatch
    PROVE  Spec => []CheckpointsHold
<1>1. InlineCheckpointInv => CheckpointsHold
  BY DEF InlineCheckpointInv, CheckpointInv, TruthInv, DeclaredInv, PrintsInv,
         CheckpointsHold, PrintsAreTrue, DeclarationsHonoured, IInv, TypeOK, Row
<1> QED
  BY <1>1, InlineInit, InlineNext, PTL DEF Spec

\* With inline dispatch no stage is reported completed while it stands
\* completed (pipeline.py, run_stage).
THEOREM InlineReports ==
    ASSUME InlineDispatch
    PROVE  Spec => []ReportedOnce
<1>1. InlineCheckpointInv => ReportedOnce
  BY DEF InlineCheckpointInv, DeclaredInv
<1> QED
  BY <1>1, InlineInit, InlineNext, PTL DEF Spec

-----------------------------------------------------------------------------
(* The driver implements the lifecycle of Lifecycle.tla, and reopening a     *)
(* recording keeps what its run had.                                         *)

Run == EnsureRun(row).run
Unseen == UNCHANGED <<Phase, Run, verdict>>

-----------------------------------------------------------------------------
(* How the outcomes of a handler look from outside.                          *)

\* The phase and the run an observer sees of a row in hand.
LEMMA SeenInHand ==
    ASSUME TypeOK, NEW r \in Row, InHand(r)
    PROVE  EnsureRun(r).run = Run /\ Run \in Nat
<1>1. row \in Row
  BY DEF TypeOK
<1> QED
  BY <1>1, EnsureRunType DEF InHand, Run, EnsureRun, Row, RunIds

\* The driver only works on a recording an observer sees open.
LEMMA SeenOpen ==
    ASSUME TypeOK, Live(row)
    PROVE  row.status = "active" /\ Phase = "open"
BY DEF TypeOK, Live, Row, Statuses, Phase

\* A failure or a payment hold is a Stop.
LEMMA FailIsStop ==
    ASSUME TypeOK, BillInv, Live(row), NEW r \in Row, InHand(r),
           Fail(r) \/ ParkForPayment(r)
    PROVE  Promise!Stop
<1>1. PICK st \in {"error", "needs_payment"}, v \in {"failed", "needs_payment"} :
         Ends(r, st, v)
  BY DEF Fail, ParkForPayment
<1>2. /\ row' \in Row /\ row'.run = Run /\ row'.status = st
      /\ verdict' = [verdict EXCEPT ![Run] = v]
  BY <1>1, EndsOutcome, SeenInHand DEF Terminal, Verdicts
<1>3. Run' = Run
  <2>1. Run \in RunIds
    BY SeenInHand, EnsureRunType DEF TypeOK, Run
  <2> QED
    BY <1>2, <2>1 DEF Run, EnsureRun, RunIds
<1>4. Phase' = "stopped"
  BY <1>2 DEF Phase
<1> QED
  BY <1>2, <1>3, <1>4, SeenOpen DEF Promise!Stop, Run

\* _finalize is a Finish.
LEMMA FinalizeIsFinish ==
    ASSUME TypeOK, BillInv, Live(row), NEW r \in Row, InHand(r), Finalize(r)
    PROVE  Promise!Finish
<1>1. /\ row' \in Row /\ row'.run = Run /\ row'.status = "completed"
      /\ verdict' = [verdict EXCEPT ![Run] = "completed"]
  BY EndsOutcome, SeenInHand DEF Finalize, Terminal, Verdicts
<1>2. Run' = Run
  <2>1. Run \in RunIds
    BY SeenInHand, EnsureRunType DEF TypeOK, Run
  <2> QED
    BY <1>1, <2>1 DEF Run, EnsureRun, RunIds
<1>3. Phase' = "finished"
  BY <1>1 DEF Phase
<1> QED
  BY <1>1, <1>2, <1>3, SeenOpen DEF Promise!Finish, Run

\* A handler that leaves the recording live leaves nothing to see.
LEMMA LiveIsUnseen ==
    ASSUME TypeOK, Live(row), NEW r \in Row, InHand(r),
           row'.status = "active", row'.run \in {r.run, EnsureRun(r).run},
           UNCHANGED verdict
    PROVE  Unseen
<1>1. EnsureRun(r).run = Run /\ Run \in Nat /\ EnsureRun(r).run \in RunIds
  BY SeenInHand, EnsureRunType
<1>2. Run' = Run
  BY <1>1 DEF Run, EnsureRun, RunIds
<1>3. Phase' = Phase
  BY SeenOpen DEF Phase
<1> QED
  BY <1>2, <1>3 DEF Unseen

\* A retry is a Stop when the last one is spent, and unseen before.
LEMMA RetryIsSeen ==
    ASSUME TypeOK, BillInv, Live(row), NEW r \in Row, InHand(r), HandleRetry(r)
    PROVE  Promise!Stop \/ Unseen
<1>1. CASE Fail(r)
  BY <1>1, FailIsStop
<1>2. CASE /\ row' = [r EXCEPT !.retry = @ + 1]
           /\ UNCHANGED <<completions, verdict, repeated>>
  <2>1. row'.run = r.run /\ row'.status = "active"
    BY <1>2 DEF InHand, Row
  <2> QED
    BY <1>2, <2>1, LiveIsUnseen
<1> QED
  BY <1>1, <1>2 DEF HandleRetry

\* Completing a stage is unseen.
LEMMA CompleteIsUnseen ==
    ASSUME TypeOK, Live(row), NEW r \in Row, InHand(r),
           NEW s, NEW k, NEW f, CompleteStage(r, s, k, f)
    PROVE  Unseen
<1>1. row'.run = EnsureRun(r).run /\ row'.status = "active"
  <2>1. EnsureRun(r) \in Row /\ EnsureRun(r).status = "active"
    BY EnsureRunType DEF InHand, EnsureRun, Row
  <2> QED
    BY <2>1 DEF CompleteStage, Completed, Row
<1> QED
  BY <1>1, LiveIsUnseen DEF CompleteStage, publicVars

-----------------------------------------------------------------------------
(* Every handler is one of them.                                             *)

\* Deliveries of recording.stage.
LEMMA StageIsSeen ==
    ASSUME IInv, NEW e \in stageEvents, RunStage(e)
    PROVE  Promise!Finish \/ Promise!Stop \/ Unseen
<1>1. TypeOK /\ BillInv
  BY DEF IInv
<1>2. CASE DropStageEvent(e)
  BY <1>2 DEF DropStageEvent, history, Unseen, Phase, Run
<1>3. CASE ResolverFails(e)
  BY <1>1, <1>3, RowInHand, RetryIsSeen DEF ResolverFails
<1>4. CASE EmptyPipeline(e)
  BY <1>1, <1>4, RowInHand, FailIsStop DEF EmptyPipeline
<1>5. CASE FinishPipeline(e)
  BY <1>1, <1>5, RowInHand, FinalizeIsFinish DEF FinishPipeline
<1>6. ASSUME NEW p \in Pipelines, NEW i \in DOMAIN p,
             \/ UnknownStage(e, p, i)
             \/ RunToCompletion(e, p, i) \/ RunToAbort(e, p, i)
             \/ RunToAwait(e, p, i)
             \/ \E t \in TaskIds : RunToResult(e, p, i, t)
      PROVE  Promise!Stop \/ Unseen
  <2>1. Live(row) /\ Begun(p, i) \in Row /\ InHand(Begun(p, i))
    BY <1>1, <1>6, RowInHand
    DEF UnknownStage, RunToCompletion, RunToAbort, RunToAwait, RunToResult, RunsStage
  <2>2. CASE RunToCompletion(e, p, i)
    BY <1>1, <2>1, <2>2, CompleteIsUnseen DEF RunToCompletion
  <2>3. CASE RunToAbort(e, p, i)
    BY <1>1, <2>1, <2>3, RetryIsSeen, FailIsStop DEF RunToAbort
  <2>4. CASE RunToAwait(e, p, i)
    <3>1. PICK t : AwaitTask(Begun(p, i), p[i], i, t)
      BY <2>4 DEF RunToAwait
    <3>2. row'.run = Begun(p, i).run /\ row'.status = "active" /\ UNCHANGED verdict
      BY <2>1, <3>1 DEF AwaitTask, InHand, Row, publicVars
    <3> QED
      BY <1>1, <2>1, <3>2, LiveIsUnseen
  <2>5. CASE \E t \in TaskIds : RunToResult(e, p, i, t)
    BY <1>1, <2>1, <2>5, CompleteIsUnseen, RetryIsSeen, FailIsStop DEF RunToResult
  <2>6. CASE UnknownStage(e, p, i)
    BY <1>1, <2>6, RowInHand, FailIsStop DEF UnknownStage, RunsStage
  <2> QED
    BY <1>6, <2>2, <2>3, <2>4, <2>5, <2>6
<1> QED
  BY <1>2, <1>3, <1>4, <1>5, <1>6 DEF RunStage

\* Deliveries of recording.uploaded, task.completed and task.failed.
LEMMA DeliveryIsSeen ==
    ASSUME IInv, Deliveries
    PROVE  Promise!Finish \/ Promise!Stop \/ Unseen
<1>1. TypeOK /\ BillInv
  BY DEF IInv
<1>2. CASE StartPipeline
  <2>1. CASE Live(row) /\ row' = [row EXCEPT !.run = 1] /\ ~HasMarker(row)
    <3>1. row'.run = EnsureRun(row).run /\ row'.status = "active"
      BY <1>1, <2>1, RowInHand DEF EnsureRun, HasMarker, InHand, Row
    <3> QED
      BY <1>1, <1>2, <2>1, <3>1, RowInHand, LiveIsUnseen DEF StartPipeline, history
  <2>2. CASE UNCHANGED row
    BY <1>2, <2>2 DEF StartPipeline, history, Unseen, Phase, Run
  <2> QED
    BY <1>2, <2>1, <2>2 DEF StartPipeline
<1>3. ASSUME NEW t \in notices, IgnoreNotice(t) \/ ResumeStage(t) \/ FailStage(t)
      PROVE  Promise!Finish \/ Promise!Stop \/ Unseen
  <2>1. CASE IgnoreNotice(t)
    BY <2>1 DEF IgnoreNotice, history, Unseen, Phase, Run
  <2>2. CASE ResumeStage(t)
    BY <1>1, <2>2, RowInHand, CompleteIsUnseen, RetryIsSeen, FailIsStop DEF ResumeStage
  <2>3. CASE FailStage(t)
    BY <1>1, <2>3, RowInHand, CompleteIsUnseen, FailIsStop DEF FailStage
  <2> QED
    BY <1>3, <2>1, <2>2, <2>3
<1> QED
  BY <1>2, <1>3, StageIsSeen DEF Deliveries

\* Requests of a user or the host.
LEMMA RequestIsSeen ==
    ASSUME IInv, Requests
    PROVE  Promise!Next \/ Unseen
<1>1. TypeOK /\ BillInv /\ row \in Row
  BY DEF IInv, TypeOK
<1>2. CASE RetryRecording \/ ResumeAfterPayment
  <2>1. /\ row.status \in {"error", "needs_payment"}
        /\ row' = [row EXCEPT !.status = "active", !.retry = 0] /\ UNCHANGED verdict
    BY <1>2 DEF RetryRecording, ResumeAfterPayment, Requeue, history
  <2>2. row'.status = "active" /\ row'.run = row.run
    BY <1>1, <2>1 DEF Row
  <2>3. Promise!Reopen
    BY <1>1, <2>1, <2>2 DEF Promise!Reopen, Phase, EnsureRun, Row
  <2> QED
    BY <2>3 DEF Promise!Next
<1>3. CASE ReprocessRecording
  <2>1. /\ row.status = "completed" /\ row.run < MaxRuns
        /\ row' = [row EXCEPT !.run = @ + 1, !.completed = {},
                              !.completedIndex = -1, !.stageIndex = 0,
                              !.status = "active", !.retry = 0]
        /\ UNCHANGED verdict
    BY <1>1, <1>3 DEF ReprocessRecording, Requeue, Row, history
  <2>2. row'.status = "active" /\ row'.run = row.run + 1
    BY <1>1, <2>1 DEF Row
  <2>3. row.run # 0
    BY <1>1, <2>1 DEF BillInv
  <2>4. EnsureRun(row).run = row.run /\ EnsureRun(row)'.run = row.run + 1
    BY <1>1, <2>2, <2>3 DEF EnsureRun, Row
  <2>5. Promise!StartOver
    BY <2>1, <2>2, <2>4 DEF Promise!StartOver, Phase
  <2> QED
    BY <2>5 DEF Promise!Next
<1>4. CASE CloseRecording
  BY <1>1, <1>4, RowInHand, FailIsStop DEF CloseRecording, Promise!Next
<1>5. CASE DeleteRecording
  BY <1>1, <1>5 DEF DeleteRecording, Promise!Next, Promise!Remove, Phase, EnsureRun, Row, history
<1>6. ASSUME NEW s \in Declarable, InvalidateFrom(s)
      PROVE  Unseen
  <2>1. row'.run = row.run /\ row'.status = row.status
    BY <1>1, <1>6, DeclareRow
  <2>2. UNCHANGED verdict
    BY <1>6 DEF InvalidateFrom, history
  <2> QED
    BY <2>1, <2>2 DEF Unseen, Phase, Run, EnsureRun
<1> QED
  BY <1>2, <1>3, <1>4, <1>5, <1>6 DEF Requests

-----------------------------------------------------------------------------

\* The commit of an upload is where the lifecycle begins.
LEMMA StartsOpen == Init => Promise!Init
BY ConstantsAssumption DEF Init, InitialRow, Promise!Init, Phase, EnsureRun, RunIds

\* Every step is a step of the lifecycle, or changes nothing it sees.
LEMMA EveryStepIsSeen == IInv /\ [Next]_vars => [Promise!Next]_(Promise!lvars)
<1> SUFFICES ASSUME IInv, [Next]_vars
             PROVE  Promise!Next \/ UNCHANGED Promise!lvars
  OBVIOUS
<1>1. Unseen => UNCHANGED Promise!lvars
  BY DEF Unseen, Promise!lvars, Run
<1>2. CASE Deliveries
  BY <1>1, <1>2, DeliveryIsSeen DEF Promise!Next
<1>3. CASE Requests
  BY <1>1, <1>3, RequestIsSeen
<1>4. CASE World
  <2>1. UNCHANGED <<row, verdict>>
    BY <1>4 DEF World, InputChanges, InputHides, ProviderStores, TaskEnds, history
  <2> QED
    BY <1>1, <2>1 DEF Unseen, Phase, Run, EnsureRun
<1>5. CASE UNCHANGED vars
  BY <1>1, <1>5 DEF vars, Unseen, Phase, Run, EnsureRun
<1> QED
  BY <1>2, <1>3, <1>4, <1>5 DEF Next

\* The stage driver implements the lifecycle: whatever is delivered twice,
\* late or out of order, billing and the uploader see runs that end in one
\* report at a time, and a completed run never reopened or taken back.
THEOREM DriverKeepsPromise == Spec => ImplementsLifecycle
BY Inductive, StartsOpen, EveryStepIsSeen, PTL DEF Spec, ImplementsLifecycle, Promise!Spec

-----------------------------------------------------------------------------
(* Reopening.                                                                *)

\* What the driver's own handlers and the world do to a terminal row: nothing.
LEMMA TerminalRests ==
    ASSUME ~Live(row), Deliveries \/ World
    PROVE  UNCHANGED row
<1>1. CASE StartPipeline
  BY <1>1 DEF StartPipeline
<1>2. ASSUME NEW e \in stageEvents, RunStage(e)
      PROVE  UNCHANGED row
  <2>1. ~(ResolverFails(e) \/ EmptyPipeline(e) \/ FinishPipeline(e))
    BY DEF ResolverFails, EmptyPipeline, FinishPipeline
  <2>2. ASSUME NEW p \in Pipelines, NEW i \in DOMAIN p
        PROVE  ~(\/ UnknownStage(e, p, i)
                 \/ RunToCompletion(e, p, i) \/ RunToAbort(e, p, i)
                 \/ RunToAwait(e, p, i)
                 \/ \E t \in TaskIds : RunToResult(e, p, i, t))
    BY DEF UnknownStage, RunToCompletion, RunToAbort, RunToAwait, RunToResult,
           RunsStage
  <2>3. DropStageEvent(e)
    BY <1>2, <2>1, <2>2 DEF RunStage
  <2> QED
    BY <2>3 DEF DropStageEvent
<1>3. ASSUME NEW t \in notices, IgnoreNotice(t) \/ ResumeStage(t) \/ FailStage(t)
      PROVE  UNCHANGED row
  BY <1>3 DEF IgnoreNotice, ResumeStage, FailStage
<1>4. CASE World
  BY <1>4 DEF World, InputChanges, InputHides, ProviderStores, TaskEnds
<1> QED
  BY <1>1, <1>2, <1>3, <1>4 DEF Deliveries

\* The body of the action property.
LEMMA ReopeningStep ==
    ASSUME IInv, [Next]_vars, ~Live(row), row'.status # row.status
    PROVE  \/ row'.status = "deleted"
           \/ /\ row.status \in {"error", "needs_payment"} /\ row'.status = "active"
              /\ row'.run = row.run /\ row'.completed = row.completed
              /\ row'.completedIndex = row.completedIndex
           \/ /\ row.status = "completed" /\ row'.status = "active"
              /\ row'.run = row.run + 1 /\ row'.completed = {}
<1>1. TypeOK /\ row \in Row
  BY DEF IInv, TypeOK
<1>2. Requests
  BY TerminalRests DEF Next, vars
<1>3. CASE RetryRecording \/ ResumeAfterPayment
  <2>1. /\ row.status \in {"error", "needs_payment"}
        /\ row' = [row EXCEPT !.status = "active", !.retry = 0]
    BY <1>3 DEF RetryRecording, ResumeAfterPayment, Requeue
  <2> QED
    BY <1>1, <2>1 DEF Row
<1>4. CASE ReprocessRecording
  <2>1. /\ row.status = "completed"
        /\ row' = [row EXCEPT !.run = @ + 1, !.completed = {},
                              !.completedIndex = -1, !.stageIndex = 0,
                              !.status = "active", !.retry = 0]
    BY <1>1, <1>4 DEF ReprocessRecording, Requeue, Row
  <2> QED
    BY <1>1, <2>1 DEF Row
<1>5. CASE CloseRecording
  BY <1>5 DEF CloseRecording
<1>6. CASE DeleteRecording
  BY <1>1, <1>6 DEF DeleteRecording, Row
<1>7. ASSUME NEW s \in Declarable, InvalidateFrom(s) PROVE FALSE
  BY <1>1, <1>7, DeclareRow
<1> QED
  BY <1>2, <1>3, <1>4, <1>5, <1>6, <1>7 DEF Requests

\* Nothing moves a terminal recording but a request, and a request keeps the
\* cursor of a run that stopped and opens a new run after one that completed.
THEOREM ReopeningIsSafe == Spec => ReopeningKeepsTheBill
<1>1. IInv /\ [Next]_vars =>
        [~Live(row) /\ row'.status # row.status =>
           \/ row'.status = "deleted"
           \/ /\ row.status \in {"error", "needs_payment"} /\ row'.status = "active"
              /\ row'.run = row.run /\ row'.completed = row.completed
              /\ row'.completedIndex = row.completedIndex
           \/ /\ row.status = "completed" /\ row'.status = "active"
              /\ row'.run = row.run + 1 /\ row'.completed = {}]_vars
  BY ReopeningStep
<1> QED
  BY <1>1, Inductive, PTL DEF Spec, ReopeningKeepsTheBill
=============================================================================
