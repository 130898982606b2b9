------------------------------- MODULE Erasure -------------------------------
(***************************************************************************)
(* The end of a recording (erasure.py, tasks.py): a soft delete, the purge *)
(* that turns an aged one into an erasure request, and the erasure that    *)
(* deletes the objects the row names, then the row.  It runs beside the    *)
(* stages, the provider and the client of StageBodies; the last two hold   *)
(* signed URLs and do not notice that the row is gone.                     *)
(*                                                                         *)
(* Requests, their redelivery and their time-out belong to stapel-gdpr.    *)
(***************************************************************************)
EXTENDS StageBodies

VARIABLES
    softDeleted,  \* deleted_at lies further back than PURGE_AFTER_DAYS
    request,      \* the erasure request for this recording
    gone,         \* the row, and all that cascades from it, is deleted
    touched,      \* an erasure has deleted objects already
    strays        \* what put or left an object out of an erasure's reach

endVars == <<softDeleted, request, gone, touched, strays>>
evars == <<vars, softDeleted, request, gone, touched, strays>>

ETypeOK ==
    /\ TypeOK
    /\ softDeleted \in BOOLEAN
    /\ request \in {"none", "open", "receipted"}
    /\ gone \in BOOLEAN /\ touched \in BOOLEAN
    /\ strays \subseteq {"upload", "provider", "probe"}

-----------------------------------------------------------------------------
(* The recording's life goes on; the row lock keeps a stage and an erasure
   apart, and without a row every handler returns. *)

Lives ==
    /\ ~gone
    /\ Workers \/ Reopen \/ FinalizeUpload \/ ChangeProfile
    /\ UNCHANGED endVars

\* A signed PUT, by the client or the provider.
Writes(by, action) ==
    /\ action
    /\ strays' = IF gone THEN strays \cup {by} ELSE strays
    /\ UNCHANGED <<softDeleted, request, gone, touched>>

ClientWrites == Writes("upload", PutFile)
ProviderWorks ==
    \E t \in 1..MaxTasks :
        \/ Writes("provider", ProviderWrites(t))
        \/ TaskEnds(t) /\ UNCHANGED endVars

-----------------------------------------------------------------------------
(* The request *)

SoftDelete ==
    /\ ~gone
    /\ softDeleted' = TRUE
    /\ UNCHANGED <<vars, request, gone, touched, strays>>

\* purge_soft_deleted_recordings: no second request while one is open.
Purge ==
    /\ softDeleted /\ ~gone /\ request # "open"
    /\ request' = "open"
    /\ UNCHANGED <<vars, softDeleted, gone, touched, strays>>

\* The account or the workspace is closed, or the recording erased by hand.
SubjectErased ==
    /\ request = "none"
    /\ request' = "open"
    /\ UNCHANGED <<vars, softDeleted, gone, touched, strays>>

\* The orchestrator gives up on an owner that did not answer.
RequestTimesOut ==
    /\ request = "open"
    /\ request' = "none"
    /\ UNCHANGED <<vars, softDeleted, gone, touched, strays>>

-----------------------------------------------------------------------------
(* erase() *)

\* The row's three keys, and the hand-off's, which is derived and probed.
RowKeys ==
    {k \in {"source", "normalized", "transcript"} :
        CASE k = "source"     -> row.source # None
          [] k = "normalized" -> row.normalized # None
          [] k = "transcript" -> row.transcript}

Without(keys) ==
    [source |-> IF "source" \in keys THEN None ELSE store.source,
     normalized |-> [p \in Profiles |->
        IF "normalized" \in keys /\ p = row.normalized
        THEN None ELSE store.normalized[p]],
     handoff |-> IF "handoff" \in keys THEN None ELSE store.handoff,
     transcript |-> IF "transcript" \in keys THEN None ELSE store.transcript]

\* Mutant: the hand-off is forgotten.
RowKeysOnly(probed) == RowKeys
KeysToErase(probed) ==
    RowKeys \cup (IF probed /\ store.handoff # None THEN {"handoff"} ELSE {})

\* A deleted row; no action reads it.
NoRow == [NewRow EXCEPT !.status = "stopped", !.source = None]

\* Mutant: an object that is not there counts as one that was not deleted.
DropsRowIfFound(keys, failed) ==
    IF failed = {} /\ ("source" \in keys => store.source # None)
    THEN gone' \in BOOLEAN ELSE gone' = FALSE

\* The row is deleted when every key was; otherwise it stays for the retry.
\* The transaction may be lost after the deletes.
DropsRow(keys, failed) == IF failed = {} THEN gone' \in BOOLEAN ELSE gone' = FALSE

\* A probe that fails answers "no hand-off here".
Erases(keys, probed, failed) ==
    /\ request = "open" /\ ~gone
    /\ store' = Without(keys \ failed)
    /\ touched' = TRUE
    /\ DropsRow(keys, failed)
    /\ row' = IF gone' THEN NoRow ELSE row
    /\ strays' = strays \cup (IF probed \/ store.handoff = None THEN {} ELSE {"probe"})
                        \cup (IF putting THEN {"upload"} ELSE {})
    /\ UNCHANGED <<worldVars, tasks, notices, crashes, softDeleted, request>>

EraseDelivered ==
    \E probed \in BOOLEAN :
        \E failed \in SUBSET KeysToErase(probed) :
            Erases(KeysToErase(probed), probed, failed)

EraseSucceeds == Erases(KeysToErase(TRUE), TRUE, {}) /\ gone'

\* Delivered again, it finds nothing and receipts.
Receipt ==
    /\ request = "open" /\ gone
    /\ request' = "receipted"
    /\ UNCHANGED <<vars, softDeleted, gone, touched, strays>>

-----------------------------------------------------------------------------

EInit ==
    /\ Init
    /\ softDeleted = FALSE /\ request = "none" /\ gone = FALSE
    /\ touched = FALSE /\ strays = {}

ENext ==
    \/ Lives \/ ClientWrites \/ ProviderWorks
    \/ SoftDelete \/ Purge \/ SubjectErased \/ RequestTimesOut
    \/ EraseDelivered \/ Receipt

\* The purge is scheduled, and a request that is made again and again is one
\* day delivered while the object store works.
ESpec ==
    /\ EInit /\ [][ENext]_evars
    /\ WF_evars(Purge)
    /\ SF_evars(EraseSucceeds)

-----------------------------------------------------------------------------
(* Properties *)

\* Nothing of an erased recording is left in storage, except: an upload that
\* was never finalized or came later, a hand-off written later or missed by a
\* failing probe, audio under another profile's key, and what a worker that
\* died had stored under a key the row does not name.
ErasedLeavesNothing ==
    gone =>
      /\ store.source # None => "upload" \in strays
      /\ store.handoff # None => strays \cap {"provider", "probe"} # {}
      /\ store.transcript # None => crashes > 0
      /\ \A p \in Profiles :
           store.normalized[p] # None => crashes > 0 \/ reprofiled

\* What StageBodies promises of a recording's objects holds until an erasure
\* has begun to delete them.
ArtifactsUntilErasure ==
    ~touched => AudioIsKept /\ KeysResolve

\* Before an erasure, while it runs and after it.
ErasureInv == ETypeOK /\ ArtifactsUntilErasure /\ ErasedLeavesNothing

\* A recording its user removed is one day erased.
RemovedIsErased == softDeleted ~> gone

=============================================================================
