-------------------------------- MODULE Shares --------------------------------
(***************************************************************************)
(* One share link (shares.py): its passcode, the unlock tokens given for   *)
(* it, the count of failed unlocks with its lockouts and its cap.          *)
(*                                                                         *)
(* An unlock request works on the row it read: it tests that copy, and     *)
(* what it then writes meets whatever the owner and other requests have    *)
(* written since.  Tokens are signed, not stored; they carry the           *)
(* token_version of the copy.                                              *)
(***************************************************************************)
EXTENDS Integers, FiniteSets

CONSTANTS
    Requests,     \* unlock requests that may overlap
    MaxAttempts,  \* SHARE_UNLOCK_MAX_ATTEMPTS, failures per lockout
    Cap,          \* SHARE_UNLOCK_FAILURE_CAP
    MaxVersions,  \* bound: passcodes set and revocations
    None

ASSUME ShareAssumption ==
    /\ IsFiniteSet(Requests)
    /\ MaxAttempts \in Nat \ {0}
    /\ Cap \in Nat \ {0}
    /\ MaxVersions \in Nat
    /\ None \notin Int

VARIABLES
    share,     \* the row, and whether its time or its recording is over
    reading,   \* the copy each request in progress has read
    tokens,    \* unlock tokens within their TTL

    \* what happened
    failures   \* wrong passcodes since the count was last set to zero

vars == <<share, reading, tokens, failures>>

\* A passcode is known by the version it was set at: two are never the same.
\* Requests that read before the cap was reached may still pass it.
Share == [passcode: Nat \cup {None}, token_version: Nat,
          failed_unlock_count: 0..(Cap + Cardinality(Requests) - 1),
          locked: BOOLEAN, revoked: BOOLEAN, expired: BOOLEAN]
Token == [v: Nat, given_for: Nat \cup {None}]

TypeOK ==
    /\ share \in Share
    /\ reading \in [Requests -> Share \cup {None}]
    /\ tokens \subseteq Token
    /\ failures \in Nat

NoPasscode(s) == s.passcode = None
FailureCapReached(s) == s.failed_unlock_count >= Cap

-----------------------------------------------------------------------------
(* The owner *)

\* Mutant: the tokens of the old passcode stay good.
SetsPasscodeOnly(p) ==
    [share EXCEPT !.passcode = p, !.failed_unlock_count = 0, !.locked = FALSE]
SetsPasscode(p) ==
    [share EXCEPT !.passcode = p, !.token_version = @ + 1,
                  !.failed_unlock_count = 0, !.locked = FALSE]

SetSharePasscode ==
    /\ share.token_version < MaxVersions
    /\ \E p \in {share.token_version + 1, None} : share' = SetsPasscode(p)
    /\ failures' = 0
    /\ UNCHANGED <<reading, tokens>>

RevokeShare ==
    /\ share.token_version < MaxVersions
    /\ share' = [share EXCEPT !.revoked = TRUE, !.token_version = @ + 1]
    /\ UNCHANGED <<reading, tokens, failures>>

-----------------------------------------------------------------------------
(* Time *)

ShareEnds ==
    /\ ~share.expired
    /\ share' = [share EXCEPT !.expired = TRUE]
    /\ UNCHANGED <<reading, tokens, failures>>

Unlocked == [share EXCEPT !.locked = FALSE]

LockEnds ==
    /\ share.locked
    /\ share' = Unlocked
    /\ UNCHANGED <<reading, tokens, failures>>

TokenEnds ==
    /\ \E t \in tokens : tokens' = tokens \ {t}
    /\ UNCHANGED <<share, reading, failures>>

-----------------------------------------------------------------------------
(* unlock_share *)

UnlockReads(r) ==
    /\ reading[r] = None
    /\ reading' = [reading EXCEPT ![r] = share]
    /\ UNCHANGED <<share, tokens, failures>>

Ends(r) == reading' = [reading EXCEPT ![r] = None]
InProgress(r) == reading[r] # None

\* _assert_live
Live(s) == ~s.revoked /\ ~s.expired

\* Mutant: the lockouts alone hold the requests back.
MayTryForEver(s) == Live(s) /\ ~NoPasscode(s) /\ ~s.locked
MayTry(s) ==
    Live(s) /\ ~NoPasscode(s) /\ ~FailureCapReached(s) /\ ~s.locked

UnlockRefused(r) ==
    /\ InProgress(r)
    /\ LET s == reading[r] IN
       \/ ~Live(s)
       \/ ~NoPasscode(s) /\ (FailureCapReached(s) \/ s.locked)
    /\ Ends(r)
    /\ UNCHANGED <<share, tokens, failures>>

\* Mutant: the version is read when the token is signed.
SignsLate(s) == [v |-> share.token_version, given_for |-> s.passcode]
IssueUnlockToken(s) == [v |-> s.token_version, given_for |-> s.passcode]

\* No passcode to ask for.
UnlockOpen(r) ==
    /\ InProgress(r) /\ Live(reading[r]) /\ NoPasscode(reading[r])
    /\ tokens' = tokens \cup {IssueUnlockToken(reading[r])}
    /\ Ends(r)
    /\ UNCHANGED <<share, failures>>

\* The count is set to zero in the row as it is now.
UnlockRight(r) ==
    /\ InProgress(r) /\ MayTry(reading[r])
    /\ share' = [share EXCEPT !.failed_unlock_count = 0, !.locked = FALSE]
    /\ failures' = 0
    /\ tokens' = tokens \cup {IssueUnlockToken(reading[r])}
    /\ Ends(r)

\* Mutant: only the first time.
LocksOnce(s) ==
    [s EXCEPT !.locked = @ \/ s.failed_unlock_count = MaxAttempts]
Locks(s) ==
    [s EXCEPT !.locked = @ \/ s.failed_unlock_count % MaxAttempts = 0]

\* Mutant: the copy is counted up.
CountsCopy(s) ==
    [share EXCEPT !.failed_unlock_count = s.failed_unlock_count + 1,
                  !.locked = @ \/ (s.failed_unlock_count + 1) % MaxAttempts = 0]

\* _register_failed_unlock: under the row lock, from the row and not the copy.
RegisterFailedUnlock(s) == Locks([share EXCEPT !.failed_unlock_count = @ + 1])

UnlockWrong(r) ==
    /\ InProgress(r) /\ MayTry(reading[r])
    /\ share' = RegisterFailedUnlock(reading[r])
    /\ failures' = failures + 1
    /\ Ends(r)
    /\ UNCHANGED tokens

-----------------------------------------------------------------------------

\* create_share, with a passcode or without.
Init ==
    /\ \E p \in {0, None} :
          share = [passcode |-> p, token_version |-> 0, failed_unlock_count |-> 0,
                   locked |-> FALSE, revoked |-> FALSE, expired |-> FALSE]
    /\ reading = [r \in Requests |-> None]
    /\ tokens = {} /\ failures = 0

Next ==
    \/ SetSharePasscode \/ RevokeShare
    \/ ShareEnds \/ LockEnds \/ TokenEnds
    \/ \E r \in Requests :
         \/ UnlockReads(r) \/ UnlockRefused(r) \/ UnlockOpen(r)
         \/ UnlockRight(r) \/ UnlockWrong(r)

Spec == Init /\ [][Next]_vars

-----------------------------------------------------------------------------
(* Properties *)

\* access_share: a share without a passcode asks for no token.
Opens(t) ==
    Live(share) /\ ~NoPasscode(share) /\ t.v = share.token_version

\* A token opens the share only while the passcode it was given for is in
\* force, even when the passcode changed while the request was in progress;
\* and none opens a revoked one.
TokenDiesWithItsSecret ==
    \A t \in tokens : Opens(t) => t.given_for = share.passcode

\* The row counts every failure since the last reset: none is lost to a
\* request that read before another wrote, and no lockout begins a new count.
EveryFailureCounts == share.failed_unlock_count = failures

\* Every MaxAttempts-th failure locks, however the requests overlap.
LocksInTime ==
    [][share'.failed_unlock_count > share.failed_unlock_count
         /\ share'.failed_unlock_count % MaxAttempts = 0 => share'.locked]_vars

\* The same, and the count stays within the cap and the requests in progress.
CountInv == TypeOK /\ EveryFailureCounts

\* A passcode disabled by its cap is enabled by its owner, or by the right
\* passcode from a request that began before.
DisabledUntilOwnerActs ==
    [][FailureCapReached(share) /\ ~FailureCapReached(share') =>
         \/ share'.token_version > share.token_version
         \/ \E r \in Requests : InProgress(r) /\ ~FailureCapReached(reading[r])]_vars

\* The two together are what holds back who guesses.
LockoutHolds == LocksInTime /\ DisabledUntilOwnerActs

=============================================================================
