------------------------------- MODULE Upload -------------------------------
(***************************************************************************)
(* The upload of one recording (services.py, chunked.py, views.py): its    *)
(* sessions, the object at its storage key, the multipart uploads the      *)
(* object store keeps, and the requests that work on them.  Only finalize  *)
(* locks the recording; every other request acts on rows it read earlier,  *)
(* so a request is a sequence of steps that interleave with the others,    *)
(* with the client's transfers, the watchdog's sweep of abandoned uploads  *)
(* and the purge of the uploaded file by the pipeline's convert stage.     *)
(*                                                                         *)
(* A finalize transaction that fails rolls back the database and not the   *)
(* store, and its clean-up runs after the lock is gone.                    *)
(***************************************************************************)
EXTENDS Integers, FiniteSets

CONSTANTS
    Requests,      \* HTTP requests that may be in progress at once
    MaxSessions,   \* bound: upload sessions of one recording
    MaxPurges,     \* bound: times the pipeline purges a source
    None

ASSUME UploadAssumption ==
    /\ MaxSessions \in Nat \ {0}
    /\ MaxPurges \in Nat
    /\ None \notin Nat

VARIABLES
    rec,        \* the recording: status, and whether file_storage_key is set
    sessions,   \* the rows, numbered in the order of created_at
    kind,       \* how each session uploads: put, legacy or verified multipart
    expired,    \* sessions whose expires_at has passed
    object,     \* what is stored at the recording's key
    transfer,   \* per session: what its multipart upload holds in the store
    request,    \* what each request has read and is about to do
    swept       \* the sweep has picked the recording from its query

(* What happened; the code never reads it. *)
VARIABLES
    announced,  \* recording.uploaded events
    purged,     \* sources purged by the convert stage
    crossed     \* two requests have been in progress at the same time

storeVars == <<object, transfer>>
sessionVars == <<sessions, kind, expired>>
history == <<announced, purged, crossed>>
vars == <<rec, sessions, kind, expired, object, transfer, request, swept,
          announced, purged, crossed>>

SessionIds == 1..MaxSessions

\* "none": not multipart, completed or aborted.
Transfers == {"none", "empty", "partial", "good", "bad"}

\* "queued" stands for every status from QUEUED on.
Recs == [status: {"uploading", "queued", "abandoned"}, key: BOOLEAN]
Idle == [op |-> "idle", session |-> None, saw |-> FALSE, doomed |-> {}]
Ops == {"idle", "start", "supersede", "finalize", "complete", "abort",
        "cleanup"}

\* The request works on one session, which it read.
HasSession(q) ==
    request[q].op \in {"finalize", "complete", "abort", "cleanup"}

\* The types, and that a request works on a session exactly when its view
\* read one (a view that finds none answers 404).
TypeOK ==
    /\ rec \in Recs
    /\ sessions \in [SessionIds -> {"none", "open", "finalized", "gone"}]
    /\ kind \in [SessionIds -> {"put", "legacy", "verified"}]
    /\ expired \subseteq SessionIds
    /\ object \in {"none", "good", "bad"}
    /\ transfer \in [SessionIds -> Transfers]
    /\ request \in [Requests -> [op: Ops, session: SessionIds \cup {None},
                                 saw: BOOLEAN, doomed: SUBSET SessionIds]]
    /\ \A q \in Requests : request[q].session = None <=> ~HasSession(q)
    /\ swept \in BOOLEAN
    /\ announced \in Nat
    /\ purged \in 0..MaxPurges
    /\ crossed \in BOOLEAN

Rows == {s \in SessionIds : sessions[s] \in {"open", "finalized"}}
Multipart(s) == kind[s] # "put"

\* Mutant: only multipart sessions are closed.
OpenMultipart == {s \in SessionIds : sessions[s] = "open" /\ Multipart(s)}
Open == {s \in SessionIds : sessions[s] = "open"}

\* upload_sessions.order_by("-created_at").first()
IsLatest(s) == s \in Rows /\ \A t \in Rows : t <= s

-----------------------------------------------------------------------------
(* The view that creates a recording opens its first session, a single PUT. *)

Init ==
    /\ rec = [status |-> "uploading", key |-> FALSE]
    /\ sessions = [s \in SessionIds |-> IF s = 1 THEN "open" ELSE "none"]
    /\ kind = [s \in SessionIds |-> "put"]
    /\ expired = {}
    /\ object = "none"
    /\ transfer = [s \in SessionIds |-> "none"]
    /\ request = [q \in Requests |-> Idle]
    /\ swept = FALSE
    /\ announced = 0 /\ purged = 0 /\ crossed = FALSE

\* A view reads its rows and goes on with what it read.
Begins(q, op, s, saw) ==
    /\ request[q] = Idle
    /\ request' = [request EXCEPT ![q] =
                     [op |-> op, session |-> s, saw |-> saw, doomed |-> {}]]
    /\ crossed' = (crossed \/ \E r \in Requests : request[r] # Idle)
    /\ UNCHANGED <<rec, sessionVars, storeVars, swept, announced, purged>>

Answers(q) == request' = [request EXCEPT ![q] = Idle]

-----------------------------------------------------------------------------
(* start_multipart_upload *)

StartReads(q) == ~rec.key /\ Begins(q, "start", None, FALSE)

\* _supersede_open_sessions evaluates its query once.
ListOpenSessions(q) ==
    /\ request[q].op = "start"
    /\ request' = [request EXCEPT ![q].op = "supersede", ![q].doomed = Open]
    /\ UNCHANGED <<rec, sessionVars, storeVars, swept, history>>

\* The store drops the multipart uploads of ss, those in lost excepted: the
\* backend swallows the errors of an abort.
Aborted(ss, lost) ==
    [s \in SessionIds |-> IF s \in ss \ lost THEN "none" ELSE transfer[s]]

\* Every listed row goes, those finalized since included.
Superseded(q) == [s \in SessionIds |-> IF s \in request[q].doomed THEN "gone"
                                       ELSE sessions[s]]

SupersedeAndCreate(q) ==
    /\ request[q].op = "supersede"
    /\ \E s \in SessionIds, k \in {"legacy", "verified"},
          lost \in {{}, request[q].doomed} :
         /\ sessions[s] = "none"
         /\ \A t \in 1..(s - 1) : sessions[t] # "none"
         /\ sessions' = [Superseded(q) EXCEPT ![s] = "open"]
         /\ kind' = [kind EXCEPT ![s] = k]
         /\ transfer' = [Aborted(request[q].doomed, lost) EXCEPT ![s] = "empty"]
    /\ Answers(q)
    /\ UNCHANGED <<rec, expired, object, swept, history>>

\* create_multipart_upload raises: the old sessions are gone all the same.
SupersedeOnly(q) ==
    /\ request[q].op = "supersede"
    /\ sessions' = Superseded(q)
    /\ \E lost \in {{}, request[q].doomed} :
         transfer' = Aborted(request[q].doomed, lost)
    /\ Answers(q)
    /\ UNCHANGED <<rec, kind, expired, object, swept, history>>

-----------------------------------------------------------------------------
(* The client's transfers, which ask only the store *)

\* The presigned URL outlives the row: it works until it expires.
Put ==
    /\ 1 \notin expired
    /\ \E content \in {"good", "bad"} : object' = content
    /\ UNCHANGED <<rec, sessionVars, transfer, request, swept, history>>

UploadParts(s) ==
    /\ transfer[s] \in {"empty", "partial"} /\ s \notin expired
    /\ \E held \in {"partial", "good", "bad"} :
         transfer' = [transfer EXCEPT ![s] = held]
    /\ UNCHANGED <<rec, sessionVars, object, request, swept, history>>

\* Nothing reads expires_at of a session that is no longer open.
Expire(s) ==
    /\ s \in Open \ expired
    /\ expired' = expired \cup {s}
    /\ UNCHANGED <<rec, sessions, kind, storeVars, request, swept, history>>

-----------------------------------------------------------------------------
(* finalize_upload *)

\* Mutant: no answer 404 when the recording has no session left.
FinalizeReadsNone(q) ==
    \/ Rows = {} /\ Begins(q, "finalize", None, FALSE)
    \/ \E s \in SessionIds :
         IsLatest(s) /\ Begins(q, "finalize", s, sessions[s] = "finalized")
\* FinalizeUploadView takes the latest session, expired or not.
FinalizeReads(q) ==
    \E s \in SessionIds :
        IsLatest(s) /\ Begins(q, "finalize", s, sessions[s] = "finalized")

CompleteReads(q) ==
    \E s \in Rows : /\ Multipart(s)
                    /\ sessions[s] # "finalized" /\ ~rec.key
                    /\ s \notin expired
                    /\ Begins(q, "complete", s, FALSE)

Finalizing(q) == request[q].op \in {"finalize", "complete"}

\* Mutants: one of the two "already done" markers is not looked at.
AlreadyBySession(q) == request[q].saw
AlreadyByKey(q) == rec.key
\* The row is locked; the session is the caller's copy.
Already(q) == rec.key \/ request[q].saw

AlreadyFinalized(q) ==
    /\ Finalizing(q) /\ Already(q)
    /\ Answers(q)
    /\ UNCHANGED <<rec, sessionVars, storeVars, swept, history>>

\* Mutant: the client's size is checked before the markers.
ClaimTooLargeFirst(q) ==
    /\ request[q].op = "finalize"
    /\ request' = [request EXCEPT ![q].op = "cleanup"]
    /\ UNCHANGED <<rec, sessionVars, storeVars, swept, history>>
\* Only FinalizeUploadView passes the size the client claims.
ClaimTooLarge(q) ==
    /\ request[q].op = "finalize" /\ ~Already(q)
    /\ request' = [request EXCEPT ![q].op = "cleanup"]
    /\ UNCHANGED <<rec, sessionVars, storeVars, swept, history>>

\* The store assembles what it has: for a verified session exactly the
\* declared file; for a legacy one the parts the client lists.
Assembles(q, s) ==
    \/ kind[s] = "verified" /\ transfer[s] \in {"good", "bad"}
    \/ /\ kind[s] = "legacy" /\ request[q].op = "complete"
       /\ transfer[s] \in {"partial", "good", "bad"}

PartsRefused(q) ==
    LET s == request[q].session IN
    /\ Finalizing(q) /\ ~Already(q)
    /\ Multipart(s) /\ ~Assembles(q, s)
    /\ Answers(q)
    /\ UNCHANGED <<rec, sessionVars, storeVars, swept, history>>

\* What verification reads of an incomplete legacy file, a prefix and a size,
\* is in order.
Stored(s) == IF ~Multipart(s) THEN object
             ELSE IF transfer[s] = "partial" THEN "good" ELSE transfer[s]

\* The multipart upload is completed in the store, whatever comes next.
Assembled(q) ==
    LET s == request[q].session IN
    /\ Finalizing(q) /\ ~Already(q)
    /\ Multipart(s) => Assembles(q, s)
    /\ object' = Stored(s)
    /\ transfer' = [transfer EXCEPT ![s] = "none"]

\* The object fails a check, or head_object fails: it answers "absent".
RejectObject(q) ==
    /\ Assembled(q)
    /\ request' = [request EXCEPT ![q].op = "cleanup"]
    /\ UNCHANGED <<rec, sessionVars, swept, history>>

\* save(update_fields=...) finds no row: the transaction is undone.
SessionIsGone(q) ==
    /\ Assembled(q)
    /\ Stored(request[q].session) = "good"
    /\ request[q].session \notin Rows
    /\ Answers(q)
    /\ UNCHANGED <<rec, sessionVars, swept, history>>

Commits(q) ==
    /\ sessions' = [sessions EXCEPT ![request[q].session] = "finalized"]
    /\ rec' = [status |-> "queued", key |-> TRUE]
    /\ announced' = announced + 1
    /\ Answers(q)
    /\ UNCHANGED <<kind, expired, swept, purged, crossed>>

\* Mutant: a plain save() inserts the row again.
AcceptAnyway(q) ==
    /\ Assembled(q)
    /\ Stored(request[q].session) = "good"
    /\ Commits(q)
Accept(q) ==
    /\ Assembled(q)
    /\ Stored(request[q].session) = "good"
    /\ request[q].session \in Rows
    /\ Commits(q)

\* _cleanup_failed_upload: no lock, and an object it fails to delete stays.
Cleanup(q) ==
    /\ request[q].op = "cleanup"
    /\ object' \in {"none", object}
    /\ sessions' = [sessions EXCEPT ![request[q].session] = "gone"]
    /\ Answers(q)
    /\ UNCHANGED <<rec, kind, expired, transfer, swept, history>>

-----------------------------------------------------------------------------
(* MultipartAbortView *)

AbortReads(q) ==
    \E s \in Open : Multipart(s) /\ Begins(q, "abort", s, FALSE)

AbortSession(q) ==
    /\ request[q].op = "abort"
    /\ \E lost \in {{}, {request[q].session}} :
         transfer' = Aborted({request[q].session}, lost)
    /\ sessions' = [sessions EXCEPT ![request[q].session] = "gone"]
    /\ Answers(q)
    /\ UNCHANGED <<rec, kind, expired, object, swept, history>>

-----------------------------------------------------------------------------
(* The watchdog's cleanup_abandoned_uploads, and the pipeline *)

SweepReads ==
    /\ ~swept /\ rec.status = "uploading" /\ ~rec.key
    /\ swept' = TRUE
    /\ UNCHANGED <<rec, sessionVars, storeVars, request, history>>

\* Mutant: a plain save over the row the query returned.
SweepSaves ==
    /\ swept /\ swept' = FALSE
    /\ rec' = [rec EXCEPT !.status = "abandoned"]
    /\ UNCHANGED <<sessionVars, storeVars, request, history>>
\* A conditional UPDATE.
SweepUpdates ==
    /\ swept /\ swept' = FALSE
    /\ rec' = IF rec.status = "uploading" /\ ~rec.key
              THEN [rec EXCEPT !.status = "abandoned"] ELSE rec
    /\ UNCHANGED <<sessionVars, storeVars, request, history>>

\* The convert stage has made its own file of the upload: object and key go.
PurgeSource ==
    /\ rec.key /\ object = "good" /\ purged < MaxPurges
    /\ object' = "none"
    /\ rec' = [rec EXCEPT !.key = FALSE]
    /\ purged' = purged + 1
    /\ UNCHANGED <<sessionVars, transfer, request, swept, announced,
                   crossed>>

Next ==
    \/ \E q \in Requests :
         \/ StartReads(q) \/ ListOpenSessions(q)
         \/ SupersedeAndCreate(q) \/ SupersedeOnly(q)
         \/ FinalizeReads(q) \/ CompleteReads(q)
         \/ AlreadyFinalized(q) \/ ClaimTooLarge(q) \/ PartsRefused(q)
         \/ RejectObject(q) \/ SessionIsGone(q) \/ Accept(q) \/ Cleanup(q)
         \/ AbortReads(q) \/ AbortSession(q)
    \/ \E s \in SessionIds : UploadParts(s) \/ Expire(s)
    \/ Put \/ SweepReads \/ SweepUpdates \/ PurgeSource

Spec == Init /\ [][Next]_vars

-----------------------------------------------------------------------------
(* Properties *)

\* However the sweep's query races finalize, a recording whose upload was
\* announced is never marked abandoned (recordings_reconcile.py:158-161).
SweepSparesAccepted == announced > 0 => rec.status # "abandoned"

\* A held upload was announced exactly once: racing, repeated and late
\* finalizes add no recording.uploaded until a purge has made room for
\* another upload (finalize_upload's idempotence).
AnnouncedOncePerUpload == announced = purged + (IF rec.key THEN 1 ELSE 0)

\* A session that was superseded, aborted or rejected never comes back, not
\* even through a finalize that read it before (save with update_fields).
GoneStaysGone ==
    [][\A s \in SessionIds : sessions[s] = "gone" => sessions'[s] = "gone"]_vars

\* The object an accepted recording points to is in the store.
AcceptedIsStored == rec.key => object # "none"

\* Until two requests overlap, nothing deletes an accepted upload: repeated
\* finalizes with any claim, the sweep and late transfers included.
AloneAcceptedIsStored == ~crossed => AcceptedIsStored

\* Until two requests overlap, a recording has one live session at most
\* (_supersede_open_sessions).
AloneOneLiveSession ==
    ~crossed => Cardinality({s \in SessionIds : sessions[s] = "open"}) <= 1

\* Until two requests overlap, the marker of a finalized session outlives the
\* uploaded file it stands for: a late finalize still finds it after the
\* purge (the comment on the two markers in _finalize_upload_locked).
AloneMarkerOutlivesSource ==
    [][\A s \in SessionIds :
         ~crossed /\ sessions[s] = "finalized" => sessions'[s] = "finalized"]_vars
=============================================================================
