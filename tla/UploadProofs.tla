---------------------------- MODULE UploadProofs ----------------------------
(***************************************************************************)
(* Proofs about Upload, for every number of requests, sessions and purges. *)
(***************************************************************************)
EXTENDS Upload, FiniteSetTheorems, TLAPS

\* No two requests are in progress.
Alone == \A q, r \in Requests :
             request[q].op # "idle" /\ request[r].op # "idle" => q = r

\* What a lone request read is still so when it acts on it.
Current(q) ==
    /\ request[q].op \in {"complete", "abort", "cleanup"}
         => sessions[request[q].session] # "finalized"
    /\ request[q].op = "finalize" /\ ~request[q].saw
         => sessions[request[q].session] # "finalized"
    /\ request[q].op = "cleanup" => ~rec.key
    /\ request[q].op = "supersede" => request[q].doomed = Open

OneLive == \A s, t \in Open : s = t

Undisturbed == /\ Alone
               /\ \A q \in Requests : Current(q)
               /\ AcceptedIsStored
               /\ OneLive

\* A sweep can only have what was never announced: that makes it inductive.
IInv ==
    /\ TypeOK
    /\ AnnouncedOncePerUpload
    /\ announced > 0 => rec.status = "queued"
    /\ ~crossed => Undisturbed

-----------------------------------------------------------------------------
(* Types *)

\* The initial state has every variable in its type.
LEMMA InitTyped == Init => TypeOK
<1> SUFFICES ASSUME Init PROVE TypeOK
  OBVIOUS
<1>1. /\ Idle \in [op: Ops, session: SessionIds \cup {None},
                  saw: BOOLEAN, doomed: SUBSET SessionIds]
      /\ Idle.session = None /\ Idle.op = "idle"
  BY DEF Idle, Ops
<1>2. \A q \in Requests : request[q] = Idle
  BY DEF Init
<1>3. \A q \in Requests : request[q].session = None <=> ~HasSession(q)
  BY <1>1, <1>2 DEF HasSession
<1>4. rec \in Recs /\ purged \in 0..MaxPurges
  BY UploadAssumption DEF UploadAssumption, Init, Recs
<1> QED
  BY <1>1, <1>3, <1>4 DEF Init, TypeOK, Transfers

\* A view that read a session, or none, leaves the request well typed.
LEMMA BeginsTyped ==
    ASSUME TypeOK, NEW q \in Requests, NEW op \in Ops \ {"idle"},
           NEW s \in SessionIds \cup {None}, NEW saw \in BOOLEAN,
           s = None <=> op \notin {"finalize", "complete", "abort", "cleanup"},
           Begins(q, op, s, saw)
    PROVE  TypeOK'
BY UploadAssumption
   DEF UploadAssumption, TypeOK, Begins, Ops, HasSession, SessionIds,
       sessionVars, storeVars

\* Answering puts a request back to rest.
LEMMA AnswersTyped ==
    ASSUME TypeOK, NEW q \in Requests, Answers(q)
    PROVE  /\ request' \in [Requests -> [op: Ops, session: SessionIds \cup {None},
                                         saw: BOOLEAN, doomed: SUBSET SessionIds]]
           /\ \A r \in Requests : (request[r].session = None <=> ~HasSession(r))'
BY UploadAssumption DEF UploadAssumption, TypeOK, Answers, Idle, Ops, HasSession

\* A request that works on a session works on one of the recording's.
LEMMA SessionTyped ==
    ASSUME TypeOK, NEW q \in Requests, HasSession(q)
    PROVE  request[q].session \in SessionIds
BY DEF TypeOK

\* What the store hands to a finalize is an object or nothing.
LEMMA StoredTyped ==
    ASSUME TypeOK, NEW s \in SessionIds, Multipart(s) => transfer[s] # "empty"
    PROVE  Stored(s) \in {"none", "good", "bad"}
BY DEF TypeOK, Stored, Transfers

\* Every step of a request keeps the types.
LEMMA RequestTyped ==
    ASSUME TypeOK, NEW q \in Requests,
           \/ StartReads(q) \/ ListOpenSessions(q) \/ SupersedeAndCreate(q)
           \/ SupersedeOnly(q) \/ FinalizeReads(q) \/ CompleteReads(q)
           \/ AlreadyFinalized(q) \/ ClaimTooLarge(q) \/ PartsRefused(q)
           \/ RejectObject(q) \/ SessionIsGone(q) \/ Accept(q) \/ Cleanup(q)
           \/ AbortReads(q) \/ AbortSession(q)
    PROVE  TypeOK'
<1>1. CASE StartReads(q)
  BY <1>1, BeginsTyped DEF StartReads, Ops
<1>2. CASE ListOpenSessions(q)
  BY <1>2 DEF ListOpenSessions, TypeOK, Ops, HasSession, Open, sessionVars,
              storeVars, history
<1>3. CASE SupersedeAndCreate(q) \/ SupersedeOnly(q)
  <2>1. Superseded(q) \in [SessionIds -> {"none", "open", "finalized", "gone"}]
    BY DEF Superseded, TypeOK
  <2>2. \A ss, lost : Aborted(ss, lost) \in [SessionIds -> Transfers]
    BY DEF Aborted, TypeOK, Transfers
  <2>3. /\ sessions' \in [SessionIds -> {"none", "open", "finalized", "gone"}]
        /\ transfer' \in [SessionIds -> Transfers]
        /\ kind' \in [SessionIds -> {"put", "legacy", "verified"}]
    BY <1>3, <2>1, <2>2 DEF SupersedeAndCreate, SupersedeOnly, TypeOK, Transfers
  <2> QED
    BY <1>3, <2>3, AnswersTyped DEF SupersedeAndCreate, SupersedeOnly, TypeOK,
                                    history
<1>4. CASE FinalizeReads(q)
  <2>1. PICK s \in SessionIds :
           Begins(q, "finalize", s, sessions[s] = "finalized")
    BY <1>4 DEF FinalizeReads
  <2>2. s # None
    BY UploadAssumption DEF UploadAssumption, SessionIds
  <2> QED
    BY <2>1, <2>2, BeginsTyped DEF Ops
<1>5. CASE CompleteReads(q)
  <2>1. PICK s \in Rows : Begins(q, "complete", s, FALSE)
    BY <1>5 DEF CompleteReads
  <2>2. s \in SessionIds /\ s # None
    BY UploadAssumption DEF UploadAssumption, SessionIds, Rows
  <2> QED
    BY <2>1, <2>2, BeginsTyped DEF Ops
<1>6. CASE AbortReads(q)
  <2>1. PICK s \in Open : Begins(q, "abort", s, FALSE)
    BY <1>6 DEF AbortReads
  <2>2. s \in SessionIds /\ s # None
    BY UploadAssumption DEF UploadAssumption, SessionIds, Open
  <2> QED
    BY <2>1, <2>2, BeginsTyped DEF Ops
<1>7. CASE AlreadyFinalized(q) \/ PartsRefused(q)
  BY <1>7, AnswersTyped DEF AlreadyFinalized, PartsRefused, TypeOK,
                            sessionVars, storeVars, history
<1>8. CASE ClaimTooLarge(q)
  BY <1>8 DEF ClaimTooLarge, TypeOK, Ops, HasSession, sessionVars, storeVars,
              history
<1>9. ASSUME Assembled(q)
      PROVE  object' \in {"none", "good", "bad"}
             /\ transfer' \in [SessionIds -> Transfers]
  <2>1. request[q].session \in SessionIds
    BY <1>9, SessionTyped DEF Assembled, Finalizing, HasSession
  <2>2. Multipart(request[q].session) => transfer[request[q].session] # "empty"
    BY <1>9 DEF Assembled, Assembles
  <2>3. object' \in {"none", "good", "bad"}
    BY <1>9, <2>1, <2>2, StoredTyped DEF Assembled
  <2>4. transfer' \in [SessionIds -> Transfers]
    BY <1>9, <2>1 DEF Assembled, TypeOK, Transfers
  <2> QED
    BY <2>3, <2>4
<1>10. CASE RejectObject(q)
  BY <1>10, <1>9 DEF RejectObject, Assembled, Finalizing, TypeOK, Ops,
                     HasSession, sessionVars, history
<1>11. CASE SessionIsGone(q)
  BY <1>11, <1>9, AnswersTyped DEF SessionIsGone, TypeOK, sessionVars, history
<1>12. CASE Accept(q)
  <2>1. rec' \in Recs /\ announced' \in Nat
    BY <1>12 DEF Accept, Commits, TypeOK, Recs
  <2>2. sessions' \in [SessionIds -> {"none", "open", "finalized", "gone"}]
    BY <1>12 DEF Accept, Commits, TypeOK
  <2> QED
    BY <1>12, <1>9, <2>1, <2>2, AnswersTyped DEF Accept, Commits, TypeOK
<1>13. CASE Cleanup(q)
  BY <1>13, AnswersTyped DEF Cleanup, TypeOK, history
<1>14. CASE AbortSession(q)
  <2>1. transfer' \in [SessionIds -> Transfers]
    BY <1>14 DEF AbortSession, Aborted, TypeOK, Transfers
  <2> QED
    BY <1>14, <2>1, AnswersTyped DEF AbortSession, TypeOK, history
<1> QED
  BY <1>1, <1>2, <1>3, <1>4, <1>5, <1>6, <1>7, <1>8, <1>10, <1>11, <1>12,
     <1>13, <1>14

\* Every step keeps the types.
LEMMA StepTyped == TypeOK /\ [Next]_vars => TypeOK'
<1> SUFFICES ASSUME TypeOK, [Next]_vars PROVE TypeOK'
  OBVIOUS
<1>1. ASSUME NEW s \in SessionIds, UploadParts(s) \/ Expire(s) PROVE TypeOK'
  BY <1>1 DEF UploadParts, Expire, TypeOK, Transfers, Open, HasSession,
              sessionVars, storeVars, history
<1>2. CASE Put \/ SweepReads \/ SweepUpdates
  BY <1>2 DEF Put, SweepReads, SweepUpdates, TypeOK, Recs, HasSession,
              sessionVars, storeVars, history
<1>3. CASE PurgeSource
  <2>1. rec' \in Recs
    BY <1>3 DEF PurgeSource, TypeOK, Recs
  <2>2. purged' \in 0..MaxPurges
    BY <1>3, UploadAssumption DEF UploadAssumption, PurgeSource, TypeOK
  <2> QED
    BY <1>3, <2>1, <2>2 DEF PurgeSource, TypeOK, HasSession, sessionVars
<1>4. CASE UNCHANGED vars
  BY <1>4 DEF vars, TypeOK, HasSession
<1> QED
  BY <1>1, <1>2, <1>3, <1>4, RequestTyped DEF Next

-----------------------------------------------------------------------------
(* One announcement per upload, and the sweep *)

\* Only an accepted upload is announced, and it takes the place of the key
\* the last purge left empty; the sweep sees a recording never announced.
LEMMA StepAnnounced ==
    ASSUME TypeOK, AnnouncedOncePerUpload, announced > 0 => rec.status = "queued",
           [Next]_vars
    PROVE  /\ AnnouncedOncePerUpload'
           /\ (announced > 0 => rec.status = "queued")'
<1> USE DEF AnnouncedOncePerUpload
<1>1. ASSUME NEW q \in Requests, Accept(q)
      PROVE  /\ AnnouncedOncePerUpload'
             /\ (announced > 0 => rec.status = "queued")'
  <2>1. ~rec.key
    BY <1>1 DEF Accept, Assembled, Already
  <2> QED
    BY <1>1, <2>1 DEF Accept, Commits, TypeOK
<1>2. CASE PurgeSource
  BY <1>2 DEF PurgeSource, TypeOK, Recs
<1>3. CASE SweepUpdates
  BY <1>3 DEF SweepUpdates, TypeOK, Recs, history
<1>4. CASE UNCHANGED <<rec, announced, purged>>
  BY <1>4
<1>5. ASSUME NEW q \in Requests,
             \/ StartReads(q) \/ ListOpenSessions(q) \/ SupersedeAndCreate(q)
             \/ SupersedeOnly(q) \/ FinalizeReads(q) \/ CompleteReads(q)
             \/ AlreadyFinalized(q) \/ ClaimTooLarge(q) \/ PartsRefused(q)
             \/ RejectObject(q) \/ SessionIsGone(q) \/ Cleanup(q)
             \/ AbortReads(q) \/ AbortSession(q)
      PROVE  UNCHANGED <<rec, announced, purged>>
  BY <1>5 DEF StartReads, ListOpenSessions, SupersedeAndCreate, SupersedeOnly,
              FinalizeReads, CompleteReads, AlreadyFinalized, ClaimTooLarge,
              PartsRefused, RejectObject, SessionIsGone, Cleanup, AbortReads, AbortSession,
              Begins, history
<1>6. ASSUME NEW s \in SessionIds,
             UploadParts(s) \/ Expire(s) \/ Put \/ SweepReads \/ UNCHANGED vars
      PROVE  UNCHANGED <<rec, announced, purged>>
  BY <1>6 DEF UploadParts, Expire, Put, SweepReads, history, vars
<1>7. 1 \in SessionIds
  BY UploadAssumption DEF UploadAssumption, SessionIds
<1> QED
  BY <1>1, <1>2, <1>3, <1>4, <1>5, <1>6, <1>7 DEF Next

-----------------------------------------------------------------------------
(* While no two requests have overlapped *)

\* A request that begins alone has no other beside it.
LEMMA StepAlone ==
    ASSUME TypeOK, ~crossed => Alone, [Next]_vars, ~crossed'
    PROVE  ~crossed /\ Alone'
<1>1. ASSUME NEW q \in Requests, NEW op, NEW s, NEW saw, Begins(q, op, s, saw)
      PROVE  ~crossed /\ Alone'
  <2>1. ~crossed /\ \A r \in Requests : request[r] = Idle
    BY <1>1 DEF Begins, TypeOK
  <2>2. \A r \in Requests \ {q} : request'[r].op = "idle"
    BY <1>1, <2>1 DEF Begins, TypeOK, Idle
  <2> QED
    BY <2>1, <2>2 DEF Alone
<1>2. ASSUME ~crossed, Alone,
             \A r \in Requests : request'[r].op # "idle" => request[r].op # "idle"
      PROVE  Alone'
  BY <1>2 DEF Alone
<1>3. ASSUME NEW q \in Requests,
             \/ StartReads(q) \/ FinalizeReads(q) \/ CompleteReads(q)
             \/ AbortReads(q)
      PROVE  ~crossed /\ Alone'
  BY <1>3, <1>1 DEF StartReads, FinalizeReads, CompleteReads, AbortReads
<1>4. ASSUME NEW q \in Requests,
             \/ ListOpenSessions(q) \/ SupersedeAndCreate(q) \/ SupersedeOnly(q)
             \/ AlreadyFinalized(q) \/ ClaimTooLarge(q) \/ PartsRefused(q)
             \/ RejectObject(q) \/ SessionIsGone(q) \/ Accept(q) \/ Cleanup(q)
             \/ AbortSession(q)
      PROVE  /\ crossed' = crossed
             /\ \A r \in Requests :
                  request'[r].op # "idle" => request[r].op # "idle"
  BY <1>4 DEF ListOpenSessions, SupersedeAndCreate, SupersedeOnly, AlreadyFinalized,
              ClaimTooLarge, PartsRefused, RejectObject, SessionIsGone, Accept,
              Commits, Cleanup, AbortSession, Answers, Assembled, Finalizing,
              Idle, TypeOK, history
<1>5. ASSUME NEW s \in SessionIds,
             \/ UploadParts(s) \/ Expire(s) \/ Put \/ SweepReads
             \/ SweepUpdates \/ PurgeSource \/ UNCHANGED vars
      PROVE  crossed' = crossed /\ request' = request
  BY <1>5 DEF UploadParts, Expire, Put, SweepReads, SweepUpdates, PurgeSource,
              history, vars
<1>6. 1 \in SessionIds
  BY UploadAssumption DEF UploadAssumption, SessionIds
<1> QED
  BY <1>2, <1>3, <1>4, <1>5, <1>6 DEF Next

\* The other requests of one that is in progress alone are at rest.
LEMMA OthersRest ==
    ASSUME Alone, NEW q \in Requests, request[q].op # "idle",
           NEW r \in Requests, r # q
    PROVE  request[r].op = "idle"
BY DEF Alone

\* Nothing deletes the object of an accepted recording but a purge, which
\* takes the key as well.
LEMMA StepStored ==
    ASSUME TypeOK, Undisturbed, [Next]_vars
    PROVE  AcceptedIsStored'
<1> USE DEF AcceptedIsStored
<1>0. AcceptedIsStored
  BY DEF Undisturbed
<1>1. ASSUME NEW q \in Requests, Accept(q)
      PROVE  AcceptedIsStored'
  BY <1>1 DEF Accept, Assembled
<1>2. ASSUME NEW q \in Requests, RejectObject(q) \/ SessionIsGone(q)
      PROVE  AcceptedIsStored'
  BY <1>2 DEF RejectObject, SessionIsGone, Assembled, Already
<1>3. ASSUME NEW q \in Requests, Cleanup(q)
      PROVE  AcceptedIsStored'
  <2>1. ~rec.key
    BY <1>3 DEF Undisturbed, Current, Cleanup
  <2> QED
    BY <1>3, <2>1 DEF Cleanup
<1>4. ASSUME NEW q \in Requests,
             \/ StartReads(q) \/ ListOpenSessions(q) \/ SupersedeAndCreate(q)
             \/ SupersedeOnly(q) \/ FinalizeReads(q) \/ CompleteReads(q)
             \/ AlreadyFinalized(q) \/ ClaimTooLarge(q) \/ PartsRefused(q)
             \/ AbortReads(q) \/ AbortSession(q)
      PROVE  UNCHANGED <<rec, object>>
  BY <1>4 DEF StartReads, ListOpenSessions, SupersedeAndCreate, SupersedeOnly,
              FinalizeReads, CompleteReads, AlreadyFinalized, ClaimTooLarge,
              PartsRefused, AbortReads, AbortSession, Begins, storeVars
<1>5. CASE PurgeSource \/ Put \/ SweepUpdates
  BY <1>0, <1>5 DEF PurgeSource, Put, SweepUpdates, TypeOK, Recs, storeVars
<1>6. ASSUME NEW s \in SessionIds,
             UploadParts(s) \/ Expire(s) \/ SweepReads \/ UNCHANGED vars
      PROVE  UNCHANGED <<rec, object>>
  BY <1>6 DEF UploadParts, Expire, SweepReads, storeVars, vars
<1>7. 1 \in SessionIds
  BY UploadAssumption DEF UploadAssumption, SessionIds
<1> QED
  BY <1>0, <1>1, <1>2, <1>3, <1>4, <1>5, <1>6, <1>7 DEF Next

\* The new session is the only live one: the list it closed was complete.
LEMMA StepOneLive ==
    ASSUME TypeOK, Undisturbed, [Next]_vars
    PROVE  OneLive'
<1>0. OneLive
  BY DEF Undisturbed
<1>1. ASSUME NEW q \in Requests, SupersedeAndCreate(q)
      PROVE  OneLive'
  <2>1. request[q].doomed = Open
    BY <1>1 DEF Undisturbed, Current, SupersedeAndCreate
  <2>2. PICK s \in SessionIds : sessions' = [Superseded(q) EXCEPT ![s] = "open"]
    BY <1>1 DEF SupersedeAndCreate
  <2>3. Open' = {s}
    BY <2>1, <2>2 DEF Open, Superseded
  <2> QED
    BY <2>3 DEF OneLive
<1>2. ASSUME \A s \in SessionIds : sessions'[s] = "open" => sessions[s] = "open"
      PROVE  OneLive'
  BY <1>0, <1>2 DEF OneLive, Open
<1>3. ASSUME NEW q \in Requests,
             \/ StartReads(q) \/ ListOpenSessions(q) \/ SupersedeOnly(q)
             \/ FinalizeReads(q) \/ CompleteReads(q)
             \/ AlreadyFinalized(q) \/ ClaimTooLarge(q) \/ PartsRefused(q)
             \/ RejectObject(q) \/ SessionIsGone(q) \/ Accept(q) \/ Cleanup(q)
             \/ AbortReads(q) \/ AbortSession(q)
      PROVE  \A s \in SessionIds : sessions'[s] = "open" => sessions[s] = "open"
  BY <1>3 DEF StartReads, ListOpenSessions, SupersedeOnly, Superseded,
              FinalizeReads, CompleteReads, AlreadyFinalized, ClaimTooLarge, PartsRefused, RejectObject,
              SessionIsGone, Accept, Commits, Cleanup, AbortReads,
              AbortSession, Begins, sessionVars, TypeOK
<1>4. ASSUME NEW s \in SessionIds,
             \/ UploadParts(s) \/ Expire(s) \/ Put \/ SweepReads
             \/ SweepUpdates \/ PurgeSource \/ UNCHANGED vars
      PROVE  sessions' = sessions
  BY <1>4 DEF UploadParts, Expire, Put, SweepReads, SweepUpdates, PurgeSource,
              sessionVars, vars
<1>5. 1 \in SessionIds
  BY UploadAssumption DEF UploadAssumption, SessionIds
<1> QED
  BY <1>1, <1>2, <1>3, <1>4, <1>5 DEF Next

\* What a lone request has read stays true until it acts on it.
LEMMA StepCurrent ==
    ASSUME TypeOK, Undisturbed, [Next]_vars, ~crossed'
    PROVE  \A q \in Requests : Current(q)'
<1>1. ASSUME NEW r \in Requests, request'[r].op \in {"idle", "start"}
      PROVE  Current(r)'
  BY <1>1 DEF Current
<1>2. ASSUME NEW q \in Requests, request[q].op # "idle",
             request' = [request EXCEPT ![q] = request'[q]],
             Current(q)'
      PROVE  \A r \in Requests : Current(r)'
  <2>1. \A r \in Requests \ {q} : request'[r].op = "idle"
    BY <1>2, OthersRest DEF Undisturbed, TypeOK
  <2> QED
    BY <1>1, <1>2, <2>1
<1>3. ASSUME NEW q \in Requests, NEW op, NEW s, NEW saw, Begins(q, op, s, saw)
      PROVE  /\ \A r \in Requests \ {q} : Current(r)'
             /\ request'[q] = [op |-> op, session |-> s, saw |-> saw,
                               doomed |-> {}]
             /\ sessions' = sessions
  <2>0. \A r \in Requests : request[r] = Idle
    BY <1>3 DEF Begins, TypeOK
  <2>1. \A r \in Requests \ {q} : request'[r].op = "idle"
    BY <1>3, <2>0 DEF Begins, TypeOK, Idle
  <2> QED
    BY <1>1, <1>3, <2>1 DEF Begins, TypeOK, sessionVars
<1>4. ASSUME NEW q \in Requests,
             \/ AlreadyFinalized(q) \/ PartsRefused(q) \/ SessionIsGone(q)
             \/ Accept(q) \/ Cleanup(q) \/ AbortSession(q)
             \/ SupersedeAndCreate(q) \/ SupersedeOnly(q)
      PROVE  \A r \in Requests : Current(r)'
  <2>1. request[q].op # "idle" /\ Answers(q)
    BY <1>4 DEF AlreadyFinalized, PartsRefused, SessionIsGone, Accept, Commits,
                Cleanup, AbortSession, SupersedeAndCreate, SupersedeOnly,
                Assembled, Finalizing
  <2>2. /\ request'[q].op = "idle"
        /\ request' = [request EXCEPT ![q] = request'[q]]
    BY <2>1 DEF Answers, Idle, TypeOK
  <2> QED
    BY <1>1, <1>2, <2>1, <2>2
<1>5. ASSUME NEW q \in Requests, ListOpenSessions(q)
      PROVE  \A r \in Requests : Current(r)'
  <2>1. /\ request[q].op # "idle"
        /\ request' = [request EXCEPT ![q] = request'[q]]
    BY <1>5 DEF ListOpenSessions, TypeOK
  <2>2. /\ request'[q].op = "supersede" /\ request'[q].doomed = Open
        /\ sessions' = sessions
    BY <1>5 DEF ListOpenSessions, TypeOK, sessionVars
  <2>3. Current(q)'
    BY <2>2 DEF Current, Open
  <2> QED
    BY <1>2, <2>1, <2>3
<1>6. ASSUME NEW q \in Requests, ClaimTooLarge(q) \/ RejectObject(q)
      PROVE  \A r \in Requests : Current(r)'
  <2>1. /\ Finalizing(q) /\ ~rec.key /\ ~request[q].saw
        /\ request' = [request EXCEPT ![q].op = "cleanup"]
        /\ rec' = rec /\ sessions' = sessions
    BY <1>6 DEF ClaimTooLarge, RejectObject, Assembled, Already, Finalizing,
                sessionVars
  <2>2. sessions[request[q].session] # "finalized"
    BY <2>1 DEF Undisturbed, Current, Finalizing
  <2>3. /\ request[q].op # "idle"
        /\ request' = [request EXCEPT ![q] = request'[q]]
        /\ request'[q].op = "cleanup"
        /\ request'[q].session = request[q].session
    BY <2>1 DEF Finalizing, TypeOK
  <2>4. Current(q)'
    BY <2>1, <2>2, <2>3 DEF Current
  <2> QED
    BY <1>2, <2>3, <2>4
<1>7. ASSUME NEW q \in Requests, StartReads(q)
      PROVE  \A r \in Requests : Current(r)'
  <2>0. Begins(q, "start", None, FALSE)
    BY <1>7 DEF StartReads
  <2>1. request'[q].op = "start" /\ \A r \in Requests \ {q} : Current(r)'
    <3>1. request'[q] = [op |-> "start", session |-> None, saw |-> FALSE,
                         doomed |-> {}]
      BY <1>3, <2>0
    <3>2. \A r \in Requests \ {q} : Current(r)'
      BY <1>3, <2>0
    <3> QED
      BY <3>1, <3>2
  <2> QED
    BY <1>1, <2>1
<1>8. ASSUME NEW q \in Requests, FinalizeReads(q)
      PROVE  \A r \in Requests : Current(r)'
  <2>1. PICK s \in SessionIds :
           Begins(q, "finalize", s, sessions[s] = "finalized")
    BY <1>8 DEF FinalizeReads
  <2>2. /\ request'[q] = [op |-> "finalize", session |-> s,
                          saw |-> (sessions[s] = "finalized"), doomed |-> {}]
        /\ sessions' = sessions
        /\ \A r \in Requests \ {q} : Current(r)'
    BY <2>1, <1>3
  <2>3. /\ request'[q].op = "finalize" /\ request'[q].session = s
        /\ request'[q].saw = (sessions[s] = "finalized")
    BY <2>2
  <2>4. Current(q)'
    BY <2>2, <2>3 DEF Current
  <2> QED
    BY <2>2, <2>4
<1>9. ASSUME NEW q \in Requests, CompleteReads(q) \/ AbortReads(q)
      PROVE  \A r \in Requests : Current(r)'
  <2>1. PICK s \in SessionIds, op \in {"complete", "abort"} :
           Begins(q, op, s, FALSE) /\ sessions[s] # "finalized"
    BY <1>9 DEF CompleteReads, AbortReads, Rows, Open
  <2>2. /\ request'[q] = [op |-> op, session |-> s, saw |-> FALSE,
                          doomed |-> {}]
        /\ sessions' = sessions
        /\ \A r \in Requests \ {q} : Current(r)'
    BY <2>1, <1>3
  <2>3. Current(q)'
    BY <2>1, <2>2 DEF Current
  <2> QED
    BY <2>2, <2>3
<1>10. ASSUME NEW s \in SessionIds,
              \/ UploadParts(s) \/ Expire(s) \/ Put \/ SweepReads
              \/ SweepUpdates \/ PurgeSource \/ UNCHANGED vars
       PROVE  \A r \in Requests : Current(r)'
  <2>1. request' = request /\ sessions' = sessions
    BY <1>10 DEF UploadParts, Expire, Put, SweepReads, SweepUpdates,
                 PurgeSource, sessionVars, history, vars
  <2>2. rec'.key => rec.key
    BY <1>10 DEF UploadParts, Expire, Put, SweepReads, SweepUpdates,
                 PurgeSource, TypeOK, Recs, vars
  <2> QED
    BY <2>1, <2>2 DEF Undisturbed, Current, Open
<1>11. 1 \in SessionIds
  BY UploadAssumption DEF UploadAssumption, SessionIds
<1> QED
  BY <1>4, <1>5, <1>6, <1>7, <1>8, <1>9, <1>10, <1>11 DEF Next

-----------------------------------------------------------------------------
(* The theorems *)

\* The initial state satisfies the invariant.
LEMMA InitInvariant == Init => IInv
<1> SUFFICES ASSUME Init PROVE IInv
  OBVIOUS
<1>1. \A q \in Requests : request[q].op = "idle"
  BY DEF Init, Idle
<1>2. AnnouncedOncePerUpload /\ AcceptedIsStored /\ OneLive
  BY DEF Init, AnnouncedOncePerUpload, AcceptedIsStored, OneLive, Open
<1> QED
  BY <1>1, <1>2, InitTyped DEF Init, IInv, Undisturbed, Alone, Current

\* Every step keeps it.
LEMMA StepInvariant == IInv /\ [Next]_vars => IInv'
<1> SUFFICES ASSUME IInv, [Next]_vars PROVE IInv'
  OBVIOUS
<1>1. TypeOK' /\ AnnouncedOncePerUpload' /\ (announced > 0 => rec.status = "queued")'
  BY StepTyped, StepAnnounced DEF IInv
<1>2. (~crossed => Undisturbed)'
  <2> SUFFICES ASSUME ~crossed' PROVE Undisturbed'
    OBVIOUS
  <2>1. ~crossed /\ Alone'
    BY StepAlone DEF IInv, Undisturbed
  <2>2. TypeOK /\ Undisturbed
    BY <2>1 DEF IInv
  <2> QED
    BY <2>1, <2>2, StepCurrent, StepStored, StepOneLive DEF Undisturbed
<1> QED
  BY <1>1, <1>2 DEF IInv

\* The inductive invariant holds in every reachable state.
THEOREM Inductive == Spec => []IInv
BY InitInvariant, StepInvariant, PTL DEF Spec

\* Every variable keeps its type.
THEOREM UploadTyped == Spec => []TypeOK
<1>1. IInv => TypeOK
  BY DEF IInv
<1> QED
  BY <1>1, Inductive, PTL

\* recording.uploaded is emitted once for every upload the recording holds
\* or held, however finalizes are repeated, delayed and interleaved.
THEOREM OneAnnouncement == Spec => []AnnouncedOncePerUpload
<1>1. IInv => AnnouncedOncePerUpload
  BY DEF IInv
<1> QED
  BY <1>1, Inductive, PTL

\* The sweep of abandoned uploads never fails a recording that was announced.
THEOREM SweepIsSafe == Spec => []SweepSparesAccepted
<1>1. IInv => SweepSparesAccepted
  BY DEF IInv, SweepSparesAccepted
<1> QED
  BY <1>1, Inductive, PTL

\* Requests that do not overlap never lose an accepted upload.
THEOREM AloneKeepsObject == Spec => []AloneAcceptedIsStored
<1>1. IInv => AloneAcceptedIsStored
  BY DEF IInv, Undisturbed, AloneAcceptedIsStored
<1> QED
  BY <1>1, Inductive, PTL

\* Requests that do not overlap leave one live session at most.
THEOREM AloneOneSession == Spec => []AloneOneLiveSession
<1>1. IInv => AloneOneLiveSession
  <2> SUFFICES ASSUME IInv, ~crossed
               PROVE  Cardinality({s \in SessionIds : sessions[s] = "open"}) <= 1
    BY DEF AloneOneLiveSession
  <2>1. \A s, t \in Open : s = t
    BY DEF IInv, Undisturbed, OneLive
  <2>2. CASE Open = {}
    BY <2>2, FS_EmptySet DEF Open
  <2>3. CASE Open # {}
    <3>1. PICK s : Open = {s}
      BY <2>1, <2>3
    <3> QED
      BY <3>1, FS_Singleton DEF Open
  <2> QED
    BY <2>2, <2>3
<1> QED
  BY <1>1, Inductive, PTL

\* A session that was superseded, aborted or rejected is gone for good.
THEOREM GoneForGood == Spec => GoneStaysGone
<1>1. ASSUME TypeOK, [Next]_vars, NEW s \in SessionIds, sessions[s] = "gone"
      PROVE  sessions'[s] = "gone"
  <2>1. ASSUME NEW q \in Requests, SupersedeAndCreate(q) \/ SupersedeOnly(q)
        PROVE  sessions'[s] = "gone"
    BY <1>1, <2>1 DEF SupersedeAndCreate, SupersedeOnly, Superseded
  <2>2. ASSUME NEW q \in Requests, Accept(q) PROVE sessions'[s] = "gone"
    BY <1>1, <2>2 DEF Accept, Commits, Rows, TypeOK
  <2>3. ASSUME NEW q \in Requests, Cleanup(q) \/ AbortSession(q)
        PROVE  sessions'[s] = "gone"
    BY <1>1, <2>3 DEF Cleanup, AbortSession, TypeOK
  <2>4. ASSUME NEW q \in Requests,
               \/ StartReads(q) \/ ListOpenSessions(q)
               \/ FinalizeReads(q) \/ CompleteReads(q)
               \/ AlreadyFinalized(q) \/ ClaimTooLarge(q) \/ PartsRefused(q)
               \/ RejectObject(q) \/ SessionIsGone(q) \/ AbortReads(q)
        PROVE  sessions' = sessions
    BY <2>4 DEF StartReads, ListOpenSessions, FinalizeReads, CompleteReads,
                AlreadyFinalized, ClaimTooLarge, PartsRefused, RejectObject,
                SessionIsGone, AbortReads, Begins, sessionVars
  <2>5. ASSUME NEW t \in SessionIds,
               \/ UploadParts(t) \/ Expire(t) \/ Put \/ SweepReads
               \/ SweepUpdates \/ PurgeSource \/ UNCHANGED vars
        PROVE  sessions' = sessions
    BY <2>5 DEF UploadParts, Expire, Put, SweepReads, SweepUpdates,
                PurgeSource, sessionVars, vars
  <2> QED
    BY <1>1, <2>1, <2>2, <2>3, <2>4, <2>5 DEF Next
<1>2. TypeOK /\ [Next]_vars =>
        [\A s \in SessionIds : sessions[s] = "gone" => sessions'[s] = "gone"]_vars
  BY <1>1
<1> QED
  BY <1>2, UploadTyped, PTL DEF Spec, GoneStaysGone

\* Until requests overlap, a finalized session stays as the marker of what
\* was accepted, after the purge of the uploaded file too.
THEOREM AloneMarker == Spec => AloneMarkerOutlivesSource
<1>1. ASSUME IInv, [Next]_vars, ~crossed, NEW s \in SessionIds,
             sessions[s] = "finalized"
      PROVE  sessions'[s] = "finalized"
  <2>0. TypeOK /\ \A q \in Requests : Current(q)
    BY <1>1 DEF IInv, Undisturbed
  <2>1. ASSUME NEW q \in Requests, SupersedeAndCreate(q) \/ SupersedeOnly(q)
        PROVE  sessions'[s] = "finalized"
    <3>1. s \notin request[q].doomed
      BY <1>1, <2>0, <2>1 DEF SupersedeAndCreate, SupersedeOnly, Current, Open
    <3> QED
      BY <1>1, <2>1, <3>1 DEF SupersedeAndCreate, SupersedeOnly, Superseded
  <2>2. ASSUME NEW q \in Requests, Accept(q) PROVE sessions'[s] = "finalized"
    BY <1>1, <2>0, <2>2 DEF Accept, Commits, TypeOK
  <2>3. ASSUME NEW q \in Requests, Cleanup(q) \/ AbortSession(q)
        PROVE  sessions'[s] = "finalized"
    <3>1. request[q].session # s
      BY <1>1, <2>0, <2>3 DEF Cleanup, AbortSession, Current
    <3> QED
      BY <1>1, <2>0, <2>3, <3>1 DEF Cleanup, AbortSession, TypeOK
  <2>4. ASSUME NEW q \in Requests,
               \/ StartReads(q) \/ ListOpenSessions(q)
               \/ FinalizeReads(q) \/ CompleteReads(q)
               \/ AlreadyFinalized(q) \/ ClaimTooLarge(q) \/ PartsRefused(q)
               \/ RejectObject(q) \/ SessionIsGone(q) \/ AbortReads(q)
        PROVE  sessions' = sessions
    BY <2>4 DEF StartReads, ListOpenSessions, FinalizeReads, CompleteReads,
                AlreadyFinalized, ClaimTooLarge, PartsRefused, RejectObject,
                SessionIsGone, AbortReads, Begins, sessionVars
  <2>5. ASSUME NEW t \in SessionIds,
               \/ UploadParts(t) \/ Expire(t) \/ Put \/ SweepReads
               \/ SweepUpdates \/ PurgeSource \/ UNCHANGED vars
        PROVE  sessions' = sessions
    BY <2>5 DEF UploadParts, Expire, Put, SweepReads, SweepUpdates,
                PurgeSource, sessionVars, vars
  <2> QED
    BY <1>1, <2>1, <2>2, <2>3, <2>4, <2>5 DEF Next
<1>2. IInv /\ [Next]_vars =>
        [\A s \in SessionIds :
           ~crossed /\ sessions[s] = "finalized" => sessions'[s] = "finalized"]_vars
  BY <1>1
<1> QED
  BY <1>2, Inductive, PTL DEF Spec, AloneMarkerOutlivesSource
=============================================================================
