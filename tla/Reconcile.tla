----------------------------- MODULE Reconcile -----------------------------
(***************************************************************************)
(* The watchdog of management/commands/recordings_reconcile.py beside the  *)
(* stage driver, on a bus that may lose what it was given. The watchdog    *)
(* reads the recording without a lock and writes it back later in the same *)
(* pass; the driver commits in between.                                    *)
(***************************************************************************)
EXTENDS Pipeline

CONSTANTS
    MaxRedrives,  \* RECONCILE_MAX_REDRIVES; 0 is "no cap"
    MaxLosses     \* bound: events and notices lost

ASSUME ReconcileAssumption == MaxRedrives \in Nat /\ MaxLosses \in Nat

VARIABLES
    snapshot,  \* the row as the watchdog's pass read it, or None
    losses     \* events and notices lost so far

rvars == <<vars, snapshot, losses>>

RInit == Init /\ snapshot = None /\ losses = 0

-----------------------------------------------------------------------------

\* save(update_fields=["workflow_state"]): the cursor is the snapshot's, the
\* status and the retry count are whatever the row holds by now.
WriteBack(r) == [r EXCEPT !.status = row.status, !.retry = row.retry]

\* Mutant: the re-drive is not counted.
RedriveUncounted(r) ==
    /\ MaxRedrives = 0 \/ r.redrives < MaxRedrives
    /\ row' = WriteBack(r)
    /\ stageEvents' = stageEvents \cup {r.stageIndex}
    /\ UNCHANGED <<uploaded, taskVars, worldVars, dataVars, history>>

\* note_reconcile_redrive counts the re-drive on the row it was handed, and
\* the pass re-emits that row's stage_index.
Redrive(r) ==
    /\ MaxRedrives = 0 \/ r.redrives < MaxRedrives
    /\ row' = WriteBack([r EXCEPT !.redrives = @ + 1])
    /\ stageEvents' = stageEvents \cup {r.stageIndex}
    /\ UNCHANGED <<uploaded, taskVars, worldVars, dataVars, history>>

\* The cap is spent: _dlq, which saves status and workflow_state.
GiveUp(r) ==
    /\ MaxRedrives > 0 /\ r.redrives >= MaxRedrives
    /\ Fail(WriteBack(r))
    /\ UNCHANGED <<eventVars, taskVars, worldVars, dataVars>>

WatchdogReads ==
    /\ snapshot = None /\ Live(row)
    /\ snapshot' = row
    /\ UNCHANGED <<vars, losses>>

WatchdogWrites ==
    /\ snapshot # None
    /\ Redrive(snapshot) \/ GiveUp(snapshot)
    /\ snapshot' = None
    /\ UNCHANGED losses

\* A broker gap between emit and consume, or a consumer that died with it.
Lose ==
    /\ losses < MaxLosses
    /\ losses' = losses + 1
    /\ \/ /\ uploaded' = FALSE /\ uploaded
          /\ UNCHANGED <<stageEvents, notices>>
       \/ /\ \E e \in stageEvents : stageEvents' = stageEvents \ {e}
          /\ UNCHANGED <<uploaded, notices>>
       \/ /\ \E t \in notices : notices' = notices \ {t}
          /\ UNCHANGED eventVars
    /\ UNCHANGED <<row, tasks, worldVars, dataVars, history, snapshot>>

Driver == Next /\ UNCHANGED <<snapshot, losses>>

\* A pass and the driver interleave.
RacingNext == Driver \/ WatchdogReads \/ WatchdogWrites \/ Lose
RacingSpec ==
    /\ RInit /\ [][RacingNext]_rvars
    /\ WF_rvars(WatchdogReads) /\ WF_rvars(WatchdogWrites)

-----------------------------------------------------------------------------
(* Properties *)

\* Whatever the bus loses and the providers never answer, no recording stays
\* in the pipeline forever: it completes, fails, or waits for money.
NothingHangs == Live(row) ~> ~Live(row)

=============================================================================
