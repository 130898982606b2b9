----------------------------- MODULE Lifecycle -----------------------------
(***************************************************************************)
(* What the driver promises those who only see a recording's status and    *)
(* the reports it publishes (recording.completed, recording.failed,        *)
(* recording.needs_payment): billing, notifications, the uploader. Stages, *)
(* tasks, events and retries do not exist here.                            *)
(***************************************************************************)
EXTENDS Naturals

CONSTANT MaxRuns  \* bound: runs of one recording

VARIABLES
    phase,   \* "open", "finished", "stopped" or "gone"
    run,     \* the run the recording is on
    reports  \* per run: the last report published about it

lvars == <<phase, run, reports>>

Init ==
    /\ phase = "open"
    /\ run = 1
    /\ reports = [r \in 1..MaxRuns |-> "none"]

\* The one report a customer is charged on: it closes the run.
Finish ==
    /\ phase = "open"
    /\ phase' = "finished"
    /\ reports' = [reports EXCEPT ![run] = "completed"]
    /\ UNCHANGED run

\* A failure, or a hold until the customer pays: the run may go on later.
Stop ==
    /\ phase = "open"
    /\ phase' = "stopped"
    /\ \E v \in {"failed", "needs_payment"} :
         reports' = [reports EXCEPT ![run] = v]
    /\ UNCHANGED run

Reopen ==
    /\ phase = "stopped"
    /\ phase' = "open"
    /\ UNCHANGED <<run, reports>>

\* What was finished is only ever reopened as a run of its own.
StartOver ==
    /\ phase = "finished" /\ run < MaxRuns
    /\ phase' = "open"
    /\ run' = run + 1
    /\ UNCHANGED reports

Remove ==
    /\ phase' = "gone"
    /\ UNCHANGED <<run, reports>>

Next == Finish \/ Stop \/ Reopen \/ StartOver \/ Remove

Spec == Init /\ [][Next]_lvars
=============================================================================
