------------------------------- MODULE Ownership -------------------------------
(***************************************************************************)
(* Whose recordings these are, and who pays for a file twice: the refusal  *)
(* of a second upload, the verdict on a run that repeats another and the   *)
(* reuse of its transcript (duplicates.py), and the merge of a guest's     *)
(* account into a user's (handle_user_merged).                             *)
(*                                                                         *)
(* All files are taken to have one size and one length, so that size and   *)
(* duration always suggest a repeat; a recording covers its file or, where *)
(* the duration is capped, a preview of it.  The pipeline is reduced to    *)
(* the conversion, which may purge the source and so lets another file     *)
(* in, the paid stage and the next run; a run that fails and is retried is *)
(* the same run.                                                           *)
(***************************************************************************)
EXTENDS Integers, FiniteSets

CONSTANTS
    Recordings,
    Files,        \* contents; a verified fingerprint names one
    Claims,       \* the fingerprints that clients send; they may send None
    Guest, User,  \* the account merged away and the one that survives
    MaxAgain,     \* bound: second uploads and second runs in all
    None

ASSUME OwnershipAssumption ==
    /\ IsFiniteSet(Recordings) /\ IsFiniteSet(Files) /\ Files # {}
    /\ Claims \subseteq Files \cup {None}
    /\ MaxAgain \in Nat
    /\ Guest # User /\ None \notin {Guest, User} \cup Recordings \cup Files

VARIABLES
    row,        \* the recordings, None before they are created
    account,    \* the merge: its event, the survivor's projection, the guest

    \* what happened
    asked,      \* recordings whose owner was told of a repeat and went on
    paid,       \* what charged completions have covered
    mixed,      \* recordings given another file than their first, or that took
                \* a waiver or a transcript from one that had been
    again       \* second uploads and second runs, to bound them

vars == <<row, account, asked, paid, mixed, again>>

Maybe(S) == S \cup {None}
Accounts == {Guest, User}

\* UploadSession; a multipart one with a fingerprint is verified against it.
Session == [fingerprint: Maybe(Files), verified: BOOLEAN]

\* metadata.duplicate_run; `of` None is the request of an owner as yet unjudged.
Verdict == [of: Maybe(Recordings), waived: BOOLEAN, run: Nat,
            requested: BOOLEAN]

Row == [owner: Maybe(Accounts),
        status: {"uploading", "running", "completed", "deleted"},
        open: Maybe(Session), done: SUBSET Session, \* unfinished, finished
        source: Maybe(Files),                \* under file_storage_key
        file: Maybe(Files), full: BOOLEAN,   \* the audio made from it
        text: Maybe(Files),                  \* what the segments were made from
        run: Nat, billed: BOOLEAN,    \* this run has announced its charge
        verdict: Maybe(Verdict)]

ASSUME NoneIsNoRecord == None \notin Session \cup Verdict \cup Row

Coverage == [file: Files, full: BOOLEAN]

TypeOK ==
    /\ row \in [Recordings -> Maybe(Row)]
    /\ account \in [event: {"none", "sent", "handled"},
                    survivor: BOOLEAN, guest: BOOLEAN]
    /\ asked \subseteq Recordings
    /\ paid \subseteq Coverage /\ mixed \subseteq Recordings /\ again \in Nat
    /\ \A r \in Recordings :               \* no row names a user who is gone
          row[r] # None /\ ~account.guest => row[r].owner # Guest

Live(r) == row[r] # None /\ row[r].status # "deleted"
Is(r, status) == row[r] # None /\ row[r].status = status

-----------------------------------------------------------------------------
(* At upload *)

\* The sessions that make their recording hold a file: the finished ones, and
\* an open one beside a file (_holds_file).
Holding(r) ==
    row[r].done \cup (IF row[r].source # None \/ row[r].file # None
                     THEN {row[r].open} \ {None} ELSE {})

\* find_upload_duplicate.
UploadDuplicates(owner, f, but) ==
    {r \in Recordings \ but :
        /\ f # None /\ Live(r) /\ row[r].owner # None /\ row[r].owner = owner
        /\ \E s \in Holding(r) : s.fingerprint = f}

WasRequested(r) == row[r].verdict # None /\ row[r].verdict.requested

Requested == [of |-> None, waived |-> FALSE, run |-> 0, requested |-> TRUE]

NewRow(owner) ==
    [owner |-> owner, status |-> "uploading", open |-> None, done |-> {}, source |-> None,
     file |-> None, full |-> FALSE, text |-> None, run |-> 0, billed |-> FALSE,
     verdict |-> None]

\* A user known here; a guest until the accounts are merged.
MayUpload(owner) ==
    IF owner = Guest THEN account.event = "none" ELSE account.survivor

\* The view's own check; the session is opened in a second step.
Create(r, owner, f, allow) ==
    /\ row[r] = None /\ MayUpload(owner)
    /\ UploadDuplicates(owner, f, {}) = {} \/ allow
    /\ row' = [row EXCEPT ![r] = NewRow(owner)]
    /\ UNCHANGED <<account, asked, paid, mixed, again>>

\* create_upload_session (`multi` FALSE) and start_multipart_upload, which
\* supersede the open session; refused when a repeat was not asked for.  The
\* fingerprint is optional.
StartsSession(r, f, multi, allow) ==
    /\ Live(r)
    /\ LET twins == UploadDuplicates(row[r].owner, f, {r}) IN
       /\ twins = {} \/ allow \/ WasRequested(r)
       /\ row' = [row EXCEPT ![r] = [@ EXCEPT
            !.open = [fingerprint |-> f, verified |-> multi /\ f # None],
            !.verdict = IF twins = {} THEN row[r].verdict ELSE Requested]]
       /\ asked' = IF twins = {} THEN asked ELSE asked \cup {r}
    /\ UNCHANGED <<account, paid, mixed>>

StartUpload(r, f) ==
    /\ Is(r, "uploading") /\ row[r].open = None
    /\ StartsSession(r, f, FALSE, TRUE) /\ UNCHANGED again

StartMultipart(r, f, allow) ==
    /\ Live(r) /\ MayUpload(row[r].owner) /\ row[r].source = None
    /\ StartsSession(r, f, TRUE, allow)
    /\ IF row[r].open = None /\ row[r].done = {} THEN UNCHANGED again
       ELSE again < MaxAgain /\ again' = again + 1

\* finalize_upload, of a first file or, once the source has been purged, of
\* another one: whatever the recording is doing, it is queued.  start_pipeline
\* begins a run with the first file only.
FinalizeUpload(r, f) ==
    /\ Live(r) /\ row[r].open # None /\ row[r].source = None
    /\ row[r].open.verified => f = row[r].open.fingerprint
    /\ row' = [row EXCEPT ![r] = [@ EXCEPT
         !.done = row[r].done \cup {row[r].open}, !.open = None, !.source = f,
         !.status = "running", !.run = IF row[r].run = 0 THEN 1 ELSE row[r].run]]
    /\ mixed' = IF row[r].file \notin {None, f} THEN mixed \cup {r} ELSE mixed
    /\ UNCHANGED <<account, asked, paid, again>>

\* ConvertStage.run, reduced: the audio is made from the source unless there is
\* audio already and the checkpoint does not say that it is stale; then the
\* source is purged (_purge_source; a source that is kept only lets no other
\* file in).  A cap cuts a recording one way.
ConvertSource(r) ==
    /\ Is(r, "running") /\ row[r].source # None
    /\ \E file \in {row[r].file, row[r].source} \ {None}, full \in BOOLEAN :
         /\ row[r].file # None => full = row[r].full
         /\ row' = [row EXCEPT ![r] = [@ EXCEPT !.file = file, !.full = full, !.source = None]]
    /\ UNCHANGED <<account, asked, paid, mixed, again>>

-----------------------------------------------------------------------------
(* Before paid work *)

\* Mutant: a single PUT's fingerprint is believed.
Believed(r) == {s.fingerprint : s \in row[r].done} \ {None}
\* Those of every finished session, whatever has been uploaded since.
VerifiedFingerprints(r) == {s.fingerprint : s \in {d \in row[r].done : d.verified}}

\* Mutant: recordings in the pipeline are candidates too.
CandidatesLive(r) ==
    {o \in Recordings \ {r} : /\ Live(o) /\ row[o].file # None
                              /\ row[o].owner # None /\ row[o].owner = row[r].owner}
Candidates(r) ==
    {o \in Recordings \ {r} : /\ Is(o, "completed")
                              /\ row[o].owner # None /\ row[o].owner = row[r].owner}

Covers(o, r) == row[r].full => row[o].full

\* find_prior_copy, by fingerprint and by size and duration; the latter looks
\* the same for all files, but for a preview.
Verified(r) ==
    {o \in Candidates(r) : /\ VerifiedFingerprints(o) \cap VerifiedFingerprints(r) # {}
                           /\ Covers(o, r)}
Suspected(r) == {o \in Candidates(r) : row[o].full = row[r].full}

\* What the host proves before it passes verified_original.
HostVerified(r) ==
    {o \in Candidates(r) : row[o].file = row[r].file /\ Covers(o, r)}

\* Mutant: the verdict replaces the request.
ForgetsRequest(r, o, waiving) ==
    [of |-> o, waived |-> waiving /\ ~WasRequested(r), run |-> row[r].run,
     requested |-> FALSE]
Judged(r, o, waiving) ==
    [of |-> o, waived |-> waiving /\ ~WasRequested(r), run |-> row[r].run,
     requested |-> WasRequested(r)]

\* What r takes from o it takes from all that o has held.
Mixing(r, o) == IF o \in mixed THEN mixed \cup {r} ELSE mixed

\* Called by the host once the duration is measured.
JudgeRun(r, hostVerifies) ==
    /\ Is(r, "running") /\ row[r].file # None
    /\ \/ \E o \in Verified(r) :
            /\ row' = [row EXCEPT ![r].verdict = Judged(r, o, TRUE)]
            /\ mixed' = Mixing(r, o)
       \/ /\ Verified(r) = {} /\ hostVerifies
          /\ \E o \in HostVerified(r) :
               /\ row' = [row EXCEPT ![r].verdict = Judged(r, o, TRUE)]
               /\ mixed' = Mixing(r, o)
       \/ /\ Verified(r) = {} /\ ~hostVerifies
          /\ \E o \in Suspected(r) :
               row' = [row EXCEPT ![r].verdict = Judged(r, o, FALSE)]
          /\ UNCHANGED mixed
       \/ /\ Verified(r) \cup Suspected(r) = {} /\ ~hostVerifies
          /\ row' = [row EXCEPT ![r].verdict =
               IF WasRequested(r)
               THEN [@ EXCEPT !.waived = FALSE, !.run = row[r].run] ELSE None]
          /\ UNCHANGED mixed
    /\ UNCHANGED <<account, asked, paid, again>>

\* The verdict belongs to the run that asks.
OfThisRun(r) == row[r].verdict # None /\ row[r].verdict.run = row[r].run

Reusable(r) ==
    IF ~OfThisRun(r) \/ row[r].verdict.of = None THEN {}
    ELSE {o \in {row[r].verdict.of} \ {r} :
            /\ row[r].verdict.waived
            /\ Is(o, "completed") /\ row[o].owner = row[r].owner
            /\ row[o].text # None}

ChargeWaived(r) ==
    OfThisRun(r) /\ row[r].verdict.of # None /\ row[r].verdict.waived

\* The run ends with a transcript: completed_fields tells the consumer who
\* bills for the run, once however often the run completes.
Ends(r, text) ==
    /\ row' = [row EXCEPT ![r] = [@ EXCEPT !.text = text, !.status = "completed",
                                          !.billed = TRUE]]
    /\ paid' = IF ChargeWaived(r) \/ row[r].billed THEN paid
               ELSE paid \cup {[file |-> row[r].file, full |-> row[r].full]}

\* The transcript is bought, or the one that is there is current
\* (TranscribeStage.run), or it is copied (reuse_waived_duplicate, with the
\* same parameters).
Finish(r) ==
    /\ Is(r, "running") /\ row[r].file # None
    /\ \/ \E text \in {row[r].file, row[r].text} \ {None} : Ends(r, text) /\ UNCHANGED mixed
       \/ \E o \in Reusable(r) : Ends(r, row[o].text) /\ mixed' = Mixing(r, o)
    /\ UNCHANGED <<account, asked, again>>

\* reprocess_recording: a new run.
Reprocess(r) ==
    /\ Is(r, "completed") /\ again < MaxAgain /\ again' = again + 1
    /\ row' = [row EXCEPT ![r] = [@ EXCEPT !.status = "running", !.run = row[r].run + 1,
                                          !.billed = FALSE]]
    /\ UNCHANGED <<account, asked, paid, mixed>>

Delete(r) ==
    /\ Live(r)
    /\ row' = [row EXCEPT ![r] = [NewRow(row[r].owner) EXCEPT !.status = "deleted"]]
    /\ asked' = asked \ {r} /\ mixed' = mixed \ {r}
    /\ UNCHANGED <<account, paid, again>>

-----------------------------------------------------------------------------
(* The guest becomes a user *)

Owned(a) == {r \in Recordings : row[r] # None /\ row[r].owner = a}

UserMerged ==
    /\ account.event = "none" /\ account.guest
    /\ account' = [account EXCEPT !.event = "sent"]
    /\ UNCHANGED <<row, asked, paid, mixed, again>>

\* Mutant: a survivor that is not known here ends the delivery.
GivesUp == ~account.survivor
\* MergeTargetNotReady is raised: the event stays.
Redelivered == FALSE

\* handle_user_merged; delivered again, it finds nothing to move.
HandleUserMerged ==
    /\ account.event = "sent"
    /\ \/ /\ Owned(Guest) = {} \/ Redelivered
          /\ UNCHANGED row
       \/ /\ Owned(Guest) # {} /\ account.survivor
          /\ row' = [r \in Recordings |->
                       IF r \in Owned(Guest) THEN [row[r] EXCEPT !.owner = User]
                       ELSE row[r]]
    /\ account' = [account EXCEPT !.event = "handled"]
    /\ UNCHANGED <<asked, paid, mixed, again>>

SurvivorProjected ==
    /\ ~account.survivor
    /\ account' = [account EXCEPT !.survivor = TRUE]
    /\ UNCHANGED <<row, asked, paid, mixed, again>>

\* Mutant: DO_NOTHING.
KeepsOwner(r) == row[r]
SetsNull(r) == [row[r] EXCEPT !.owner = None]

\* stapel-auth deletes the guest once it is merged.
GuestDeleted ==
    /\ account.event # "none" /\ account.guest
    /\ account' = [account EXCEPT !.guest = FALSE]
    /\ row' = [r \in Recordings |->
                 IF r \in Owned(Guest) THEN SetsNull(r) ELSE row[r]]
    /\ UNCHANGED <<asked, paid, mixed, again>>

-----------------------------------------------------------------------------

Init ==
    /\ row = [r \in Recordings |-> None]
    /\ account = [event |-> "none", survivor |-> FALSE, guest |-> TRUE]
    /\ asked = {} /\ paid = {} /\ mixed = {} /\ again = 0

Next ==
    \/ \E r \in Recordings :
         \/ \E o \in Accounts, f \in Claims, allow \in BOOLEAN : Create(r, o, f, allow)
         \/ \E f \in Claims : StartUpload(r, f)
         \/ \E f \in Claims, allow \in BOOLEAN : StartMultipart(r, f, allow)
         \/ \E f \in Files : FinalizeUpload(r, f)
         \/ ConvertSource(r)
         \/ \E host \in BOOLEAN : JudgeRun(r, host)
         \/ Finish(r) \/ Reprocess(r) \/ Delete(r)
    \/ UserMerged \/ HandleUserMerged \/ SurvivorProjected \/ GuestDeleted

\* The event is redelivered until it is handled, and users are projected.
Fairness == WF_vars(HandleUserMerged) /\ WF_vars(SurvivorProjected)

Spec == Init /\ [][Next]_vars /\ Fairness

-----------------------------------------------------------------------------
(* Properties *)

\* A charge is waived only for a file, and as much of it, that has been paid
\* for, unless the recording or the one it repeats has been given another file:
\* recordings in the pipeline together do not waive each other.
WaivedWasPaid ==
    \A r \in Recordings \ mixed : Live(r) /\ ChargeWaived(r) =>
      \E p \in paid : p.file = row[r].file /\ (row[r].full => p.full)

\* The same, on rows that name no user who is gone.
ChargeInv == TypeOK /\ WaivedWasPaid

\* A transcript is one of the recording's own file, also when it was copied from
\* another recording, unless one of the two has been given another file.
TextOfOwnFile ==
    \A r \in Recordings \ mixed :
      Live(r) /\ row[r].text # None => row[r].text = row[r].file

\* A repeat its owner has asked for is charged, however often it is judged.
AskedIsCharged == \A r \in asked : ~ChargeWaived(r)

\* A merged guest's recordings become the user's, in whatever order the event
\* and the user's projection arrive; unless the guest is deleted first.
NothingIsStranded ==
    account.event # "none" ~> (Owned(Guest) = {} \/ ~account.guest)

=============================================================================
