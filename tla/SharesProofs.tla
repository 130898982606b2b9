---------------------------- MODULE SharesProofs ----------------------------
(***************************************************************************)
(* Proofs for Shares.  A passcode and a version change together, so a copy *)
(* or a token of the version in force has the passcode in force; and once  *)
(* the cap is reached, only the requests that read the row before can fail *)
(* again.                                                                  *)
(***************************************************************************)
EXTENDS Shares, FiniteSetTheorems, TLAPS

\* A row, with no bound on its count.
Rows == [passcode: Nat \cup {None}, token_version: Nat, failed_unlock_count: Nat,
         locked: BOOLEAN, revoked: BOOLEAN, expired: BOOLEAN]

Typed ==
    /\ share \in Rows
    /\ reading \in [Requests -> Rows \cup {None}]
    /\ tokens \subseteq Token
    /\ failures \in Nat

\* A version was given out with one passcode.
Agrees(v, passcode) ==
    /\ v <= share.token_version
    /\ v = share.token_version => passcode = share.passcode

VersionsAgree ==
    /\ \A r \in Requests : InProgress(r) =>
         Agrees(reading[r].token_version, reading[r].passcode)
    /\ \A t \in tokens : Agrees(t.v, t.given_for)

IInv == Typed /\ VersionsAgree /\ EveryFailureCounts

\* What each action does to the row, in the fields the proofs speak of.
LEMMA OwnersStep ==
  ASSUME share \in Rows, SetSharePasscode \/ RevokeShare
  PROVE  /\ share' \in Rows
         /\ share'.token_version = share.token_version + 1
         /\ SetSharePasscode => share'.failed_unlock_count = 0
         /\ RevokeShare => share'.failed_unlock_count = share.failed_unlock_count
<1>1. ASSUME SetSharePasscode
      PROVE share' \in Rows /\ share'.token_version = share.token_version + 1
            /\ share'.failed_unlock_count = 0
  <2>1. PICK p \in {share.token_version + 1, None} : share' = SetsPasscode(p)
      BY <1>1 DEF SetSharePasscode
  <2>2. p \in Nat \cup {None}
      BY <2>1 DEF Rows
  <2>3. share' = [passcode |-> p, token_version |-> share.token_version + 1,
                  failed_unlock_count |-> 0, locked |-> FALSE,
                  revoked |-> share.revoked, expired |-> share.expired]
      BY <2>1 DEF SetsPasscode, Rows
  <2> QED
      BY <2>2, <2>3 DEF Rows
<1>2. ASSUME RevokeShare
      PROVE share' \in Rows /\ share'.token_version = share.token_version + 1
            /\ share'.failed_unlock_count = share.failed_unlock_count
  <2>1. share' = [passcode |-> share.passcode,
                  token_version |-> share.token_version + 1,
                  failed_unlock_count |-> share.failed_unlock_count,
                  locked |-> share.locked, revoked |-> TRUE, expired |-> share.expired]
      BY <1>2 DEF RevokeShare, Rows
  <2> QED
      BY <2>1 DEF Rows
<1> QED
    BY <1>1, <1>2

\* Steps that touch neither the secret nor the count.
LEMMA QuietStep ==
  ASSUME share \in Rows,
         \/ ShareEnds \/ LockEnds \/ TokenEnds
         \/ \E r \in Requests : UnlockReads(r) \/ UnlockRefused(r) \/ UnlockOpen(r)
  PROVE  /\ share' \in Rows
         /\ share'.token_version = share.token_version
         /\ share'.passcode = share.passcode
         /\ share'.failed_unlock_count = share.failed_unlock_count
         /\ failures' = failures
BY DEF ShareEnds, LockEnds, Unlocked, TokenEnds, UnlockReads, UnlockRefused, UnlockOpen, Rows

\* The right passcode clears the count in the row as it is now.
LEMMA RightStep ==
  ASSUME share \in Rows, NEW r \in Requests, UnlockRight(r)
  PROVE  /\ share' \in Rows
         /\ share'.token_version = share.token_version
         /\ share'.passcode = share.passcode
         /\ share'.failed_unlock_count = 0 /\ failures' = 0
<1>1. share' = [passcode |-> share.passcode, token_version |-> share.token_version,
                failed_unlock_count |-> 0, locked |-> FALSE,
                revoked |-> share.revoked, expired |-> share.expired]
    BY DEF UnlockRight, Rows
<1>2. share' \in Rows
    BY <1>1 DEF Rows
<1> QED
    BY <1>1, <1>2 DEF UnlockRight

\* The wrong one adds exactly one, and locks at every multiple.
LEMMA WrongStep ==
  ASSUME share \in Rows, NEW r \in Requests, UnlockWrong(r)
  PROVE  /\ share' \in Rows
         /\ share'.token_version = share.token_version
         /\ share'.passcode = share.passcode
         /\ share'.failed_unlock_count = share.failed_unlock_count + 1
         /\ failures' = failures + 1
         /\ share'.failed_unlock_count % MaxAttempts = 0 => share'.locked
<1> DEFINE n == share.failed_unlock_count + 1
           full == n % MaxAttempts = 0
<1>1. share' = [passcode |-> share.passcode, token_version |-> share.token_version,
                failed_unlock_count |-> n, locked |-> share.locked \/ full,
                revoked |-> share.revoked, expired |-> share.expired]
  <2>1. [share EXCEPT !.failed_unlock_count = @ + 1] =
          [passcode |-> share.passcode, token_version |-> share.token_version,
           failed_unlock_count |-> n, locked |-> share.locked,
           revoked |-> share.revoked, expired |-> share.expired]
      BY DEF Rows
  <2> QED
      BY <2>1, Zenon DEF UnlockWrong, RegisterFailedUnlock, Locks
<1>2. n \in Nat
    BY DEF Rows
<1>3. share'.failed_unlock_count = n /\ (full => share'.locked)
    BY <1>1
<1> HIDE DEF full
<1>4. share' \in Rows
    BY <1>1, <1>2 DEF Rows
<1> QED
    BY <1>1, <1>3, <1>4 DEF UnlockWrong, full

\* The invariant holds for a new share.
LEMMA InitIInv == Init => IInv
<1> SUFFICES ASSUME Init PROVE IInv
    OBVIOUS
<1>1. share \in Rows /\ share.failed_unlock_count = 0
    BY ShareAssumption DEF Init, Rows
<1>2. \A r \in Requests : ~InProgress(r)
    BY DEF Init, InProgress
<1> QED
    BY <1>1, <1>2 DEF Init, IInv, Typed, VersionsAgree, EveryFailureCounts

\* Every step keeps it.
LEMMA NextIInv == IInv /\ [Next]_vars => IInv'
<1> SUFFICES ASSUME IInv, [Next]_vars PROVE IInv'
    OBVIOUS
<1> USE DEF IInv, Typed, EveryFailureCounts
<1>1. CASE SetSharePasscode \/ RevokeShare
  <2>1. UNCHANGED <<reading, tokens>> /\ share' \in Rows
        /\ share'.token_version = share.token_version + 1
        /\ failures' \in Nat /\ share'.failed_unlock_count = failures'
      BY <1>1, OwnersStep DEF SetSharePasscode, RevokeShare
  <2>2. share.token_version \in Nat
      BY DEF Rows
  <2>3. \A v \in Nat, p \in Nat \cup {None} : Agrees(v, p) => Agrees(v, p)'
      BY <2>1, <2>2 DEF Agrees
  <2>4. \A r \in Requests : InProgress(r) => reading[r] \in Rows
      BY DEF InProgress
  <2>5. VersionsAgree'
      BY <2>1, <2>3, <2>4 DEF VersionsAgree, InProgress, Rows, Token
  <2> QED
      BY <2>1, <2>5
<1>3. CASE ShareEnds \/ LockEnds \/ TokenEnds
  <2>1. tokens' \subseteq tokens /\ UNCHANGED <<reading, failures>>
      BY <1>3 DEF ShareEnds, LockEnds, TokenEnds
  <2> QED
      BY <1>3, <2>1, QuietStep DEF VersionsAgree, Agrees, InProgress
<1>4. ASSUME NEW r \in Requests, UnlockReads(r) PROVE IInv'
  <2>1. reading' \in [Requests -> Rows \cup {None}]
      BY <1>4 DEF UnlockReads
  <2>2. \A q \in Requests : reading'[q] = IF q = r THEN share ELSE reading[q]
      BY <1>4 DEF UnlockReads
  <2>3. VersionsAgree'
      BY <1>4, <2>2 DEF UnlockReads, VersionsAgree, Agrees, InProgress, Rows
  <2> QED
      BY <1>4, <2>1, <2>3 DEF UnlockReads
<1>5. ASSUME NEW r \in Requests,
             UnlockRefused(r) \/ UnlockOpen(r) \/ UnlockRight(r) \/ UnlockWrong(r)
      PROVE IInv'
  <2>1. /\ reading' \in [Requests -> Rows \cup {None}]
        /\ \A q \in Requests : InProgress(q)' => reading'[q] = reading[q] /\ InProgress(q)
        /\ reading[r] \in Rows /\ InProgress(r)
      BY <1>5 DEF UnlockRefused, UnlockOpen, UnlockRight, UnlockWrong, Ends, InProgress
  <2>2. /\ share' \in Rows
        /\ share'.token_version = share.token_version
        /\ share'.passcode = share.passcode
        /\ failures' \in Nat /\ share'.failed_unlock_count = failures'
      BY <1>5, QuietStep, RightStep, WrongStep DEF Rows
  <2>3. tokens' \subseteq tokens \cup {IssueUnlockToken(reading[r])}
      BY <1>5 DEF UnlockRefused, UnlockOpen, UnlockRight, UnlockWrong
  <2>4. /\ IssueUnlockToken(reading[r]) \in Token
        /\ Agrees(IssueUnlockToken(reading[r]).v, IssueUnlockToken(reading[r]).given_for)
      BY <2>1 DEF IssueUnlockToken, Token, Rows, VersionsAgree
  <2>5. \A t \in tokens' : t \in Token /\ Agrees(t.v, t.given_for)
      BY <2>3, <2>4 DEF VersionsAgree
  <2>6. VersionsAgree'
      BY <2>1, <2>2, <2>5 DEF VersionsAgree, Agrees
  <2> QED
      BY <2>1, <2>2, <2>5, <2>6
<1>6. CASE UNCHANGED vars
    BY <1>6 DEF vars, VersionsAgree, Agrees, InProgress
<1> QED
    BY <1>1, <1>3, <1>4, <1>5, <1>6 DEF Next

\* It therefore holds always.
LEMMA SpecIInv == Spec => []IInv
BY InitIInv, NextIInv, PTL DEF Spec

\* A token opens the share only while the passcode it was given for is in
\* force (verify_unlock_token compares versions, never passcodes).
THEOREM TokensDie == Spec => []TokenDiesWithItsSecret
<1>1. IInv => TokenDiesWithItsSecret
    BY DEF IInv, VersionsAgree, Agrees, TokenDiesWithItsSecret, Opens
<1> QED
    BY <1>1, SpecIInv, PTL

-----------------------------------------------------------------------------

\* Every MaxAttempts-th failure locks, and a passcode that its cap disabled
\* stays disabled (_register_failed_unlock, failure_cap_reached).
THEOREM LockoutStands == Spec => LockoutHolds
<1>1. IInv /\ [Next]_vars =>
        (share'.failed_unlock_count > share.failed_unlock_count
           /\ share'.failed_unlock_count % MaxAttempts = 0 => share'.locked)
  <2> DEFINE more == share'.failed_unlock_count > share.failed_unlock_count
             full == share'.failed_unlock_count % MaxAttempts = 0
  <2> SUFFICES ASSUME IInv, [Next]_vars, more PROVE full => share'.locked
      OBVIOUS
  <2> HIDE DEF full
  <2>0. share \in Rows /\ share.failed_unlock_count \in Nat
      BY DEF IInv, Typed, Rows
  <2>1. ~(SetSharePasscode \/ RevokeShare)
      BY <2>0, OwnersStep
  <2>2. ~(ShareEnds \/ LockEnds \/ TokenEnds)
      BY <2>0, QuietStep
  <2>3. \A r \in Requests :
          ~(UnlockReads(r) \/ UnlockRefused(r) \/ UnlockOpen(r) \/ UnlockRight(r))
      BY <2>0, QuietStep, RightStep
  <2>4. PICK r \in Requests : UnlockWrong(r)
      BY <2>0, <2>1, <2>2, <2>3 DEF Next, vars
  <2> QED
      BY <2>0, <2>4, WrongStep DEF full
<1>2. IInv /\ [Next]_vars =>
        (FailureCapReached(share) /\ ~FailureCapReached(share') =>
           \/ share'.token_version > share.token_version
           \/ \E r \in Requests : InProgress(r) /\ ~FailureCapReached(reading[r]))
  <2> SUFFICES ASSUME IInv, [Next]_vars,
                      FailureCapReached(share), ~FailureCapReached(share'),
                      ~ share'.token_version > share.token_version
               PROVE \E r \in Requests : InProgress(r) /\ ~FailureCapReached(reading[r])
      OBVIOUS
  <2> USE ShareAssumption
  <2>0. /\ share \in Rows /\ share.failed_unlock_count \in Nat
        /\ share.token_version \in Nat
      BY DEF IInv, Typed, Rows
  <2>1. ~(SetSharePasscode \/ RevokeShare)
      BY <2>0, OwnersStep
  <2>2. ~(ShareEnds \/ LockEnds \/ TokenEnds)
      BY <2>0, QuietStep DEF FailureCapReached
  <2>3. \A r \in Requests : ~(UnlockReads(r) \/ UnlockRefused(r) \/ UnlockOpen(r))
      BY <2>0, QuietStep DEF FailureCapReached
  <2>4. \A r \in Requests : ~UnlockWrong(r)
      BY <2>0, WrongStep DEF FailureCapReached
  <2>5. PICK r \in Requests : UnlockRight(r)
      BY <2>0, <2>1, <2>2, <2>3, <2>4 DEF Next, vars
  <2> QED
      BY <2>5 DEF UnlockRight, MayTry
<1> QED
    BY <1>1, <1>2, SpecIInv, PTL DEF Spec, LockoutHolds, LocksInTime, DisabledUntilOwnerActs

-----------------------------------------------------------------------------
(* The bound of the count: after the cap, only a request that read the row  *)
(* before it can fail once more.                                            *)

Pressing == {r \in Requests : InProgress(r) /\ ~FailureCapReached(reading[r])}

Bounded ==
    \/ share.failed_unlock_count < Cap
    \/ share.failed_unlock_count + Cardinality(Pressing) < Cap + Cardinality(Requests)

CInv == IInv /\ Bounded /\ TypeOK

\* The requests in progress are finite, and subsets of them are no larger.
LEMMA PressingCounts ==
    /\ IsFiniteSet(Pressing)
    /\ Cardinality(Pressing) \in Nat /\ Cardinality(Requests) \in Nat
    /\ \A S \in SUBSET Pressing :
         Cardinality(S) \in Nat /\ Cardinality(S) <= Cardinality(Pressing)
BY ShareAssumption, FS_Subset, FS_CardinalityType DEF Pressing

\* A bounded count is a count of the type.
LEMMA BoundedRowIsShare ==
  ASSUME share \in Rows, Bounded
  PROVE  share \in Share
<1>1. share.failed_unlock_count \in 0..(Cap + Cardinality(Requests) - 1)
    BY PressingCounts, ShareAssumption DEF Bounded, Rows
<1> QED
    BY <1>1 DEF Share, Rows

\* The bound survives a step that adds no failure and no request.
LEMMA StaysBounded ==
  ASSUME Bounded, share \in Rows, Pressing' \subseteq Pressing,
         \/ share'.failed_unlock_count = share.failed_unlock_count
         \/ share'.failed_unlock_count = 0
  PROVE  Bounded'
<1>1. Cardinality(Pressing') \in Nat /\ Cardinality(Pressing') <= Cardinality(Pressing)
    BY PressingCounts
<1>2. Cardinality(Pressing)' = Cardinality(Pressing')
    OBVIOUS
<1> QED
    BY <1>1, <1>2, PressingCounts, ShareAssumption DEF Bounded, Rows

\* It survives a failure, because the failure ends the request that made it.
LEMMA WrongStaysBounded ==
  ASSUME IInv, Bounded, NEW r \in Requests, UnlockWrong(r)
  PROVE  Bounded'
<1>1. r \in Pressing
    BY DEF UnlockWrong, MayTry, Pressing
<1>2. Pressing' = Pressing \ {r}
    BY DEF UnlockWrong, Ends, Pressing, InProgress, FailureCapReached, IInv, Typed
<1>3. /\ Cardinality(Pressing') = Cardinality(Pressing) - 1
      /\ Cardinality(Requests \ {r}) = Cardinality(Requests) - 1
    BY <1>1, <1>2, PressingCounts, ShareAssumption, FS_RemoveElement
<1>4. Cardinality(Pressing') <= Cardinality(Requests) - 1
  <2>1. Pressing' \subseteq Requests \ {r} /\ IsFiniteSet(Requests \ {r})
      BY <1>2, ShareAssumption, FS_Subset DEF Pressing
  <2> QED
      BY <2>1, <1>3, FS_Subset
<1>5. share'.failed_unlock_count = share.failed_unlock_count + 1
      /\ share.failed_unlock_count \in Nat
    BY WrongStep DEF IInv, Typed, Rows
<1> QED
    BY <1>3, <1>4, <1>5, PressingCounts, ShareAssumption DEF Bounded

\* Every step keeps the bound.
LEMMA NextBounded == IInv /\ Bounded /\ [Next]_vars => Bounded'
<1> SUFFICES ASSUME IInv, Bounded, [Next]_vars PROVE Bounded'
    OBVIOUS
<1>0. share \in Rows /\ reading \in [Requests -> Rows \cup {None}]
    BY DEF IInv, Typed
<1>1. CASE SetSharePasscode \/ RevokeShare \/ ShareEnds \/ LockEnds \/ TokenEnds
  <2>1. reading' = reading
      BY <1>1 DEF SetSharePasscode, RevokeShare, ShareEnds, LockEnds, TokenEnds
  <2>2. Pressing' = Pressing
      BY <2>1 DEF Pressing, InProgress, FailureCapReached
  <2>3. \/ share'.failed_unlock_count = share.failed_unlock_count
        \/ share'.failed_unlock_count = 0
      BY <1>0, <1>1, OwnersStep, QuietStep
  <2> QED
      BY <1>0, <2>2, <2>3, StaysBounded
<1>2. ASSUME NEW r \in Requests, UnlockReads(r) PROVE Bounded'
  <2>1. share' = share /\ reading[r] = None
        /\ \A q \in Requests : reading'[q] = IF q = r THEN share ELSE reading[q]
      BY <1>0, <1>2 DEF UnlockReads
  <2>2. CASE FailureCapReached(share)
    <3>1. Pressing' \subseteq Pressing
        BY <2>1, <2>2 DEF Pressing, InProgress, FailureCapReached
    <3> QED
        BY <1>0, <2>1, <3>1, StaysBounded
  <2>3. CASE ~FailureCapReached(share)
      BY <1>0, <2>1, <2>3, ShareAssumption DEF Bounded, FailureCapReached, Rows
  <2> QED
      BY <2>2, <2>3
<1>3. ASSUME NEW r \in Requests, UnlockRefused(r) \/ UnlockOpen(r) \/ UnlockRight(r)
      PROVE Bounded'
  <2>1. \A q \in Requests : InProgress(q)' => InProgress(q) /\ reading'[q] = reading[q]
      BY <1>0, <1>3 DEF UnlockRefused, UnlockOpen, UnlockRight, Ends, InProgress
  <2>2. Pressing' \subseteq Pressing
      BY <2>1 DEF Pressing, FailureCapReached
  <2>3. \/ share'.failed_unlock_count = share.failed_unlock_count
        \/ share'.failed_unlock_count = 0
      BY <1>0, <1>3, QuietStep, RightStep
  <2> QED
      BY <1>0, <2>2, <2>3, StaysBounded
<1>4. ASSUME NEW r \in Requests, UnlockWrong(r) PROVE Bounded'
    BY <1>4, WrongStaysBounded
<1>5. CASE UNCHANGED vars
    BY <1>5 DEF vars, Bounded, Pressing, InProgress, FailureCapReached
<1> QED
    BY <1>1, <1>2, <1>3, <1>4, <1>5 DEF Next

\* Every step keeps the bound and, with it, the types.
LEMMA NextCInv == CInv /\ [Next]_vars => CInv'
<1> SUFFICES ASSUME CInv, [Next]_vars PROVE CInv'
    OBVIOUS
<1>1. IInv' /\ Bounded'
    BY NextIInv, NextBounded DEF CInv
<1>2. share' \in Share
  <2>1. (share \in Rows /\ Bounded => share \in Share)'
      BY BoundedRowIsShare, PTL
  <2> QED
      BY <1>1, <2>1 DEF IInv, Typed
<1>3. \A r \in Requests : reading'[r] \in {reading[r], share, None}
  <2>1. reading \in [Requests -> Rows \cup {None}]
      BY DEF CInv, IInv, Typed
  <2> QED
      BY <2>1 DEF Next, SetSharePasscode, RevokeShare, ShareEnds, LockEnds, TokenEnds,
                  UnlockReads, UnlockRefused, UnlockOpen, UnlockRight, UnlockWrong,
                  Ends, vars
<1>4. reading' \in [Requests -> Share \cup {None}]
    BY <1>1, <1>3 DEF CInv, TypeOK, IInv, Typed
<1> QED
    BY <1>1, <1>2, <1>4 DEF CInv, TypeOK, IInv, Typed

\* The row counts every failure since the last reset, and the count stays
\* within the cap and the requests that were in progress when it was reached
\* (_register_failed_unlock counts under the row lock).
THEOREM CountIsExact == Spec => []CountInv
<1>1. Init => CInv
  <2> SUFFICES ASSUME Init PROVE CInv
      OBVIOUS
  <2>0. share.failed_unlock_count = 0
      BY DEF Init
  <2>1. IInv /\ share \in Rows /\ share.failed_unlock_count = 0
      BY <2>0, InitIInv DEF IInv, Typed
  <2>2. Bounded
      BY <2>1, ShareAssumption DEF Bounded
  <2>3. share \in Share
      BY <2>1, <2>2, BoundedRowIsShare
  <2> QED
      BY <2>1, <2>2, <2>3 DEF CInv, TypeOK, IInv, Typed, Init
<1>2. CInv => CountInv
    BY DEF CInv, IInv, CountInv
<1> QED
    BY <1>1, <1>2, NextCInv, PTL DEF Spec

=============================================================================
