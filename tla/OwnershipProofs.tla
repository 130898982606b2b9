--------------------------- MODULE OwnershipProofs ---------------------------
(***************************************************************************)
(* Proofs for Ownership.  A recording that is given one file only, and     *)
(* that takes nothing from one that was given two, keeps what a verdict    *)
(* has found of it; such a recording's file has been paid for once it is   *)
(* completed, whatever has become of the recording that paid.              *)
(***************************************************************************)
EXTENDS Ownership, TLAPS

Waives(x) == x.verdict # None /\ x.verdict.waived

PaidFor(x, P) == \E p \in P : p.file = x.file /\ (x.full => p.full)

\* Of every row: nothing is found, or made, of a file that is not there.
RowShape(x) ==
    /\ x.status \in {"uploading", "deleted"} => x.file = None /\ x.done = {}
    /\ x.status = "completed" => x.file # None
    /\ x.done # {} => x.source # None \/ x.file # None
    /\ x.file = None => x.text = None /\ ~x.billed /\ ~Waives(x)

\* Of a row that is not mixed: its source, its audio, its verified uploads and
\* its transcript are of one file, which is paid for in time.
RowOwn(x, P) ==
    /\ x.source # None /\ x.file # None => x.source = x.file
    /\ \A s \in x.done : s.verified =>
         /\ x.source # None => x.source = s.fingerprint
         /\ x.file # None => x.file = s.fingerprint
    /\ x.text # None => x.text = x.file
    /\ x.status = "completed" \/ x.billed \/ Waives(x) => PaidFor(x, P)

\* What a waiver repeats exists, and is the same file until it is deleted or
\* given another one.
Repeats(x) ==
    Waives(x) /\ x.verdict.of # None =>
      /\ row[x.verdict.of] # None
      /\ Live(x.verdict.of) /\ x.verdict.of \notin mixed =>
           row[x.verdict.of].file = x.file

RowsHold ==
    \A r \in Recordings : row[r] # None =>
      /\ RowShape(row[r])
      /\ r \notin mixed => RowOwn(row[r], paid) /\ Repeats(row[r])

AskedStands == \A r \in asked : row[r] # None /\ WasRequested(r) /\ ~row[r].verdict.waived

GoneIsMerged == ~account.guest => account.event # "none"

IInv == TypeOK /\ GoneIsMerged /\ RowsHold /\ AskedStands

-----------------------------------------------------------------------------
(* One row changes *)

\* Which recordings may still be repeated by others while r's row changes.
Unrepeated(r, x) ==
    \/ row[r] = None
    \/ x.status = "deleted"
    \/ r \in mixed'
    \/ Live(r) /\ r \notin mixed /\ row[r].file \in {None, x.file}

\* Writing one row keeps the rows' invariant, when the new row keeps its own part
\* and no other recording can still point at a file it gives up.
LEMMA RowChange ==
  ASSUME IInv, NEW r \in Recordings, NEW x \in Row, row' = [row EXCEPT ![r] = x],
         paid \subseteq paid', \A s \in Recordings \ {r} : s \in mixed' <=> s \in mixed,
         RowShape(x), r \notin mixed' => RowOwn(x, paid') /\ Repeats(x),
         Unrepeated(r, x)
  PROVE  row' \in [Recordings -> Maybe(Row)] /\ RowsHold'
<1>1. row \in [Recordings -> Maybe(Row)]
    BY DEF IInv, TypeOK
<1>2. row' \in [Recordings -> Maybe(Row)] /\ row'[r] = x /\ x # None
      /\ \A s \in Recordings : s # r => row'[s] = row[s]
    BY <1>1, NoneIsNoRecord DEF Maybe
<1>3. \A y : RowOwn(y, paid) => RowOwn(y, paid')
    BY DEF RowOwn, PaidFor
<1>4. ASSUME NEW s \in Recordings, row'[s] # None
      PROVE  RowShape(row'[s])
    BY <1>2, <1>4 DEF IInv, RowsHold
<1>5. ASSUME NEW s \in Recordings, row'[s] # None, s \notin mixed'
      PROVE  (RowOwn(row[s], paid) /\ Repeats(row[s]))'
  <2> DEFINE y == row'[s]
             o == y.verdict.of
  <2>1. RowOwn(y, paid') /\ Repeats(y) /\ y \in Row /\ RowShape(y)
      BY <1>1, <1>2, <1>3, <1>5 DEF IInv, RowsHold, Maybe
  <2>2. ASSUME Waives(y), o # None
        PROVE  /\ row'[o] # None
               /\ row'[o].status # "deleted" /\ o \notin mixed' => row'[o].file = y.file
    <3>1. y.verdict \in Verdict /\ o \in Recordings
        BY <2>1, <2>2 DEF Waives, Row, Verdict, Maybe
    <3>2. /\ row[o] # None
          /\ row[o].status # "deleted" /\ o \notin mixed => row[o].file = y.file
        BY <2>1, <2>2 DEF Repeats, Live
    <3>3. CASE o # r
        BY <1>2, <3>1, <3>2, <3>3
    <3>4. CASE o = r /\ s = r
        BY <1>2, <3>4
    <3>5. CASE o = r /\ s # r
      <4>1. y.file # None
          BY <2>1, <2>2 DEF RowShape
      <4>2. CASE Live(r) /\ r \notin mixed /\ row[r].file \in {None, x.file}
          BY <1>2, <3>2, <3>5, <4>1, <4>2 DEF Live
      <4> QED
          BY <1>2, <3>2, <3>5, <4>2 DEF Unrepeated
    <3> QED
        BY <3>3, <3>4, <3>5
  <2> QED
      BY <2>1, <2>2 DEF Repeats, Waives, Live
<1> QED
    BY <1>2, <1>4, <1>5 DEF RowsHold

\* The whole invariant, after a step that writes one row and no account.
LEMMA RowStep ==
  ASSUME IInv, NEW r \in Recordings, NEW x \in Row, row' = [row EXCEPT ![r] = x],
         UNCHANGED account, paid \subseteq paid', paid' \subseteq Coverage, again' \in Nat,
         mixed' \subseteq Recordings, \A s \in Recordings \ {r} : s \in mixed' <=> s \in mixed,
         RowShape(x), r \notin mixed' => RowOwn(x, paid') /\ Repeats(x),
         Unrepeated(r, x),
         ~account.guest => x.owner # Guest,
         asked' \subseteq asked \cup {r},
         r \in asked' => x.verdict # None /\ x.verdict.requested /\ ~x.verdict.waived
  PROVE  IInv'
<1>1. row' \in [Recordings -> Maybe(Row)] /\ RowsHold'
    BY RowChange
<1>2. row'[r] = x /\ x # None /\ \A s \in Recordings : s # r => row'[s] = row[s]
    BY NoneIsNoRecord DEF IInv, TypeOK
<1>3. TypeOK'
    BY <1>1, <1>2 DEF IInv, TypeOK
<1>4. AskedStands'
    BY <1>2 DEF IInv, TypeOK, AskedStands, WasRequested
<1> QED
    BY <1>1, <1>3, <1>4 DEF IInv, GoneIsMerged

\* What the invariant says of one row, field by field.
LEMMA RowFacts ==
  ASSUME IInv, NEW r \in Recordings, row[r] # None
  PROVE  /\ row[r] \in Row /\ RowShape(row[r])
         /\ r \notin mixed => RowOwn(row[r], paid) /\ Repeats(row[r])
         /\ ~account.guest => row[r].owner # Guest
         /\ row[r].owner \in Maybe(Accounts)
         /\ row[r].open # None => row[r].open \in Session
         /\ row[r].verdict # None => row[r].verdict \in Verdict
         /\ r \in asked => row[r].verdict # None /\ row[r].verdict.requested
                           /\ ~row[r].verdict.waived
<1>1. row[r] \in Row
    BY DEF IInv, TypeOK, Maybe
<1>2. RowShape(row[r]) /\ (r \notin mixed => RowOwn(row[r], paid) /\ Repeats(row[r]))
    BY DEF IInv, RowsHold
<1>3. r \in asked => row[r].verdict # None /\ row[r].verdict.requested
                     /\ ~row[r].verdict.waived
    BY DEF IInv, AskedStands, WasRequested
<1> QED
    BY <1>1, <1>2, <1>3 DEF IInv, TypeOK, Row, Maybe

\* The types of what is not a row.
LEMMA RestTyped ==
  ASSUME IInv
  PROVE  paid \subseteq Coverage /\ mixed \subseteq Recordings /\ again \in Nat
         /\ row \in [Recordings -> Maybe(Row)]
BY DEF IInv, TypeOK

\* A row just created has no file, no session, no transcript and no verdict.
LEMMA NewRowTyped ==
  ASSUME NEW owner \in Maybe(Accounts), NEW x,
         x \in {NewRow(owner), [NewRow(owner) EXCEPT !.status = "deleted"]}
  PROVE  /\ x \in Row /\ RowShape(x) /\ x.owner = owner /\ x.verdict = None
         /\ \A P : RowOwn(x, P) /\ Repeats(x)
<1>1. /\ x \in Row /\ x.owner = owner /\ x.status \in {"uploading", "deleted"}
      /\ x.done = {} /\ x.source = None /\ x.file = None /\ x.text = None
      /\ ~x.billed /\ x.verdict = None
  <2>1. CASE x = NewRow(owner)
      BY <2>1 DEF NewRow, Row, Maybe
  <2>2. CASE x = [NewRow(owner) EXCEPT !.status = "deleted"]
      BY <2>2 DEF NewRow, Row, Maybe
  <2> QED
      BY <2>1, <2>2
<1> QED
    BY <1>1 DEF RowShape, RowOwn, Repeats, Waives

\* POST /recordings, refused as a duplicate or not.
LEMMA CreateStep ==
  ASSUME IInv, NEW r \in Recordings, NEW owner \in Accounts, NEW f \in Claims,
         NEW allow \in BOOLEAN, Create(r, owner, f, allow)
  PROVE  IInv'
<1>1. PICK x : x = NewRow(owner)
    OBVIOUS
<1>2. /\ x \in Row /\ RowShape(x) /\ x.owner = owner /\ x.verdict = None
      /\ \A P : RowOwn(x, P) /\ Repeats(x)
    BY <1>1, NewRowTyped DEF Maybe
<1>3. r \notin asked
    BY DEF IInv, AskedStands, Create
<1>4. ~account.guest => owner # Guest
    BY DEF Create, MayUpload, IInv, GoneIsMerged
<1>5. Unrepeated(r, x)
    BY DEF Create, Unrepeated
<1>6. row' = [row EXCEPT ![r] = x] /\ UNCHANGED <<account, asked, paid, mixed, again>>
    BY <1>1 DEF Create
<1> QED
    BY <1>2, <1>3, <1>4, <1>5, <1>6, RestTyped, RowStep

\* The soft delete.
LEMMA DeleteStep ==
  ASSUME IInv, NEW r \in Recordings, Delete(r)
  PROVE  IInv'
<1>1. row[r] # None
    BY DEF Delete, Live
<1>2. PICK x : x = [NewRow(row[r].owner) EXCEPT !.status = "deleted"]
    OBVIOUS
<1>3. /\ x \in Row /\ RowShape(x) /\ x.owner = row[r].owner /\ x.verdict = None
      /\ \A P : RowOwn(x, P) /\ Repeats(x)
    BY <1>1, <1>2, RowFacts, NewRowTyped
<1>4. Unrepeated(r, x)
    BY <1>2 DEF Unrepeated, NewRow
<1>5. /\ row' = [row EXCEPT ![r] = x] /\ UNCHANGED <<account, paid, again>>
      /\ asked' = asked \ {r} /\ mixed' = mixed \ {r}
    BY <1>2 DEF Delete
<1> QED
    BY <1>1, <1>3, <1>4, <1>5, RestTyped, RowFacts, RowStep

\* Both kinds of upload start, with the refusal they carry.
LEMMA StartsSessionStep ==
  ASSUME IInv, NEW r \in Recordings, NEW f \in Claims, NEW multi \in BOOLEAN,
         NEW allow \in BOOLEAN, StartsSession(r, f, multi, allow), again' \in Nat
  PROVE  IInv'
<1> DEFINE twins == UploadDuplicates(row[r].owner, f, {r})
           opened == [fingerprint |-> f, verified |-> multi /\ f # None]
           verdict == IF twins = {} THEN row[r].verdict ELSE Requested
<1>1. row[r] # None /\ Live(r) /\ row[r] \in Row /\ RowShape(row[r])
      /\ (r \notin mixed => RowOwn(row[r], paid) /\ Repeats(row[r]))
    BY RowFacts DEF StartsSession, Live
<1>2. opened \in Session /\ Requested \in Verdict
  <2>1. f \in Maybe(Files)
      BY OwnershipAssumption DEF Maybe
  <2>2. PICK both \in BOOLEAN : both = (multi /\ f # None)
      OBVIOUS
  <2>3. opened = [fingerprint |-> f, verified |-> both]
      BY <2>2
  <2>4. opened \in Session
      BY <2>1, <2>3 DEF Session
  <2> QED
      BY <2>4 DEF Requested, Verdict, Maybe
<1>3. /\ verdict \in Maybe(Verdict)
      /\ \/ verdict = row[r].verdict
         \/ verdict # None /\ verdict.requested /\ ~verdict.waived
      /\ twins # {} => verdict # None /\ verdict.requested /\ ~verdict.waived
    BY <1>1, <1>2, NoneIsNoRecord DEF Row, Requested, Maybe
<1>4. /\ row' = [row EXCEPT ![r] = [row[r] EXCEPT !.open = opened, !.verdict = verdict]]
      /\ asked' = (IF twins = {} THEN asked ELSE asked \cup {r})
      /\ UNCHANGED <<account, paid, mixed>>
    BY <1>1, RestTyped DEF StartsSession
<1> HIDE DEF opened, verdict, twins
<1>5. PICK x : x = [row[r] EXCEPT !.open = opened, !.verdict = verdict]
    OBVIOUS
<1>6. x \in Row
    BY <1>1, <1>2, <1>3, <1>5 DEF Row, Maybe
<1>7. /\ x.owner = row[r].owner /\ x.status = row[r].status /\ x.done = row[r].done
      /\ x.source = row[r].source /\ x.file = row[r].file /\ x.full = row[r].full
      /\ x.text = row[r].text /\ x.billed = row[r].billed /\ x.verdict = verdict
    BY <1>1, <1>5 DEF Row
<1>8. RowShape(x)
    BY <1>1, <1>3, <1>7 DEF RowShape, Waives
<1>9. r \notin mixed => RowOwn(x, paid) /\ Repeats(x)
    BY <1>1, <1>3, <1>7 DEF RowOwn, PaidFor, Repeats, Waives
<1>10. Unrepeated(r, x)
    BY <1>1, <1>4, <1>7 DEF Unrepeated
<1>11. ~account.guest => x.owner # Guest
    BY <1>1, <1>7, RowFacts
<1>12. r \in asked' => x.verdict # None /\ x.verdict.requested /\ ~x.verdict.waived
  <2>1. CASE r \in asked
    <3>1. row[r].verdict # None /\ row[r].verdict.requested /\ ~row[r].verdict.waived
        BY <1>1, <2>1, RowFacts
    <3> QED
        BY <1>3, <1>7, <3>1
  <2>2. CASE twins # {}
      BY <1>3, <1>7, <2>2
  <2> QED
      BY <1>4, <2>1, <2>2
<1> QED
    BY <1>4, <1>5, <1>6, <1>8, <1>9, <1>10, <1>11, <1>12, RestTyped, RowStep

\* Finalize hands the recording a file; another one than its first mixes it.
LEMMA FinalizeUploadStep ==
  ASSUME IInv, NEW r \in Recordings, NEW f \in Files, FinalizeUpload(r, f)
  PROVE  IInv'
<1>1. row[r] # None /\ Live(r) /\ row[r] \in Row /\ RowShape(row[r])
      /\ (r \notin mixed => RowOwn(row[r], paid) /\ Repeats(row[r]))
      /\ row[r].open \in Session /\ row[r].source = None /\ f # None
    BY RowFacts, OwnershipAssumption DEF FinalizeUpload, Live
<1>2. PICK x : x = [row[r] EXCEPT !.done = row[r].done \cup {row[r].open}, !.open = None,
                    !.source = f, !.status = "running", !.run = IF row[r].run = 0 THEN 1 ELSE row[r].run]
    OBVIOUS
<1>3. /\ row' = [row EXCEPT ![r] = x] /\ UNCHANGED <<account, asked, paid, again>>
      /\ mixed' = IF row[r].file \notin {None, f} THEN mixed \cup {r} ELSE mixed
      /\ row[r].open.verified => f = row[r].open.fingerprint
  <2>1. row' = [row EXCEPT ![r] = x]
      BY <1>2, RestTyped DEF FinalizeUpload
  <2> QED
      BY <2>1 DEF FinalizeUpload
<1>4. x \in Row
    BY <1>1, <1>2 DEF Row, Maybe
<1>5. /\ x.owner = row[r].owner /\ x.status = "running"
      /\ x.done = row[r].done \cup {row[r].open} /\ x.source = f /\ x.file = row[r].file
      /\ x.full = row[r].full /\ x.text = row[r].text /\ x.billed = row[r].billed
      /\ x.verdict = row[r].verdict
    BY <1>1, <1>2 DEF Row
<1>6. RowShape(x)
    BY <1>1, <1>5 DEF RowShape, Waives
<1>7. ASSUME r \notin mixed'
      PROVE  RowOwn(x, paid) /\ Repeats(x)
  <2>1. r \notin mixed /\ row[r].file \in {None, f}
      BY <1>3, <1>7
  <2>2. RowOwn(row[r], paid) /\ Repeats(row[r])
      BY <1>1, <2>1
  <2>3. \A s \in x.done : s.verified => f = s.fingerprint
    <3>1. ASSUME NEW s \in row[r].done, s.verified
          PROVE  f = s.fingerprint
        BY <1>1, <2>1, <2>2, <3>1 DEF RowShape, RowOwn
    <3> QED
        BY <1>3, <1>5, <3>1
  <2>4. RowOwn(x, paid)
      BY <1>5, <2>1, <2>2, <2>3 DEF RowOwn, PaidFor, Waives
  <2> QED
      BY <1>5, <2>2, <2>4 DEF Repeats, Waives
<1>8. Unrepeated(r, x)
    BY <1>1, <1>3, <1>5 DEF Unrepeated
<1>9. r \in asked => x.verdict # None /\ x.verdict.requested /\ ~x.verdict.waived
    BY <1>1, <1>5, RowFacts
<1>10. ~account.guest => x.owner # Guest
    BY <1>1, <1>5, RowFacts
<1>11. \A s \in Recordings \ {r} : s \in mixed' <=> s \in mixed
    BY <1>3
<1>12. mixed' \subseteq Recordings
    BY <1>3, RestTyped
<1> QED
    BY <1>3, <1>4, <1>6, <1>7, <1>8, <1>9, <1>10, <1>11, <1>12, RestTyped, RowStep

\* The audio is made from the source, or is there.
LEMMA ConvertSourceStep ==
  ASSUME IInv, NEW r \in Recordings, ConvertSource(r)
  PROVE  IInv'
<1>1. row[r] # None /\ row[r].status = "running" /\ Live(r) /\ row[r] \in Row
      /\ RowShape(row[r]) /\ (r \notin mixed => RowOwn(row[r], paid) /\ Repeats(row[r]))
      /\ row[r].source # None
    BY RowFacts DEF ConvertSource, Is, Live
<1>2. PICK file \in {row[r].file, row[r].source} \ {None}, full \in BOOLEAN :
        /\ row[r].file # None => full = row[r].full
        /\ row' = [row EXCEPT ![r] = [row[r] EXCEPT !.file = file, !.full = full,
                                                   !.source = None]]
    BY <1>1, RestTyped DEF ConvertSource
<1>3. PICK x : x = [row[r] EXCEPT !.file = file, !.full = full, !.source = None]
    OBVIOUS
<1>4. row' = [row EXCEPT ![r] = x] /\ UNCHANGED <<account, asked, paid, mixed, again>>
    BY <1>2, <1>3 DEF ConvertSource
<1>5. x \in Row
    BY <1>1, <1>2, <1>3 DEF Row, Maybe
<1>6. /\ x.owner = row[r].owner /\ x.status = "running" /\ x.done = row[r].done
      /\ x.source = None /\ x.file = file /\ x.full = full /\ x.text = row[r].text
      /\ x.billed = row[r].billed /\ x.verdict = row[r].verdict
    BY <1>1, <1>3 DEF Row
<1>7. RowShape(x)
    BY <1>1, <1>2, <1>6 DEF RowShape, Waives
<1>8. ASSUME r \notin mixed
      PROVE  RowOwn(x, paid) /\ Repeats(x) /\ row[r].file \in {None, x.file}
  <2>1. RowOwn(row[r], paid) /\ Repeats(row[r])
      BY <1>1, <1>8
  <2>2. file = row[r].source /\ row[r].file \in {None, file}
      BY <1>1, <1>2, <2>1 DEF RowOwn
  <2>3. CASE row[r].file = None
      BY <1>1, <1>2, <1>6, <2>1, <2>2, <2>3 DEF RowShape, RowOwn, Repeats, Waives
  <2>4. CASE row[r].file # None
      BY <1>1, <1>2, <1>6, <2>1, <2>2, <2>4 DEF RowOwn, PaidFor, Repeats, Waives
  <2> QED
      BY <1>6, <2>2, <2>3, <2>4
<1>9. Unrepeated(r, x)
    BY <1>1, <1>4, <1>8 DEF Unrepeated
<1>10. r \in asked => x.verdict # None /\ x.verdict.requested /\ ~x.verdict.waived
    BY <1>1, <1>6, RowFacts
<1>11. ~account.guest => x.owner # Guest
    BY <1>1, <1>6, RowFacts
<1> QED
    BY <1>4, <1>5, <1>7, <1>8, <1>9, <1>10, <1>11, RestTyped, RowStep

\* A run ends, and announces its charge.
LEMMA EndsStep ==
  ASSUME IInv, NEW r \in Recordings, Is(r, "running"), row[r].file # None,
         NEW text \in Files, Ends(r, text), UNCHANGED <<account, asked, again>>,
         mixed' \in {mixed, mixed \cup {r}}, r \notin mixed' => text = row[r].file
  PROVE  IInv'
<1>1. row[r] # None /\ row[r].status = "running" /\ Live(r) /\ row[r] \in Row
      /\ RowShape(row[r]) /\ (r \notin mixed => RowOwn(row[r], paid) /\ Repeats(row[r]))
    BY RowFacts DEF Is, Live
<1>2. PICK x : x = [row[r] EXCEPT !.text = text, !.status = "completed", !.billed = TRUE]
    OBVIOUS
<1>3. row' = [row EXCEPT ![r] = x]
    BY <1>1, <1>2, RestTyped DEF Ends
<1>4. x \in Row
    BY <1>1, <1>2 DEF Row, Maybe
<1>5. /\ x.owner = row[r].owner /\ x.status = "completed" /\ x.done = row[r].done
      /\ x.source = row[r].source /\ x.file = row[r].file /\ x.full = row[r].full
      /\ x.text = text /\ x.verdict = row[r].verdict
    BY <1>1, <1>2 DEF Row
<1>6. RowShape(x)
    BY <1>1, <1>5 DEF RowShape, Waives
<1>7. PICK p : p = [file |-> row[r].file, full |-> row[r].full]
    OBVIOUS
<1>8. p \in Coverage /\ p.file = x.file /\ p.full = x.full
    BY <1>1, <1>5, <1>7 DEF Coverage, Row, Maybe
<1>9. /\ paid' = IF ChargeWaived(r) \/ row[r].billed THEN paid ELSE paid \cup {p}
      /\ paid \subseteq paid'
    BY <1>7 DEF Ends
<1>10. ASSUME r \notin mixed'
       PROVE  RowOwn(x, paid') /\ Repeats(x)
  <2>1. RowOwn(row[r], paid) /\ Repeats(row[r])
      BY <1>1, <1>10
  <2>2. PaidFor(x, paid')
    <3>1. CASE ChargeWaived(r) \/ row[r].billed
      <4>1. PaidFor(row[r], paid)
          BY <1>1, <2>1, <3>1 DEF RowOwn, ChargeWaived, OfThisRun, Waives
      <4> QED
          BY <1>5, <1>9, <4>1 DEF PaidFor
    <3>2. CASE ~(ChargeWaived(r) \/ row[r].billed)
        BY <1>8, <1>9, <3>2 DEF PaidFor
    <3> QED
        BY <3>1, <3>2
  <2>3. RowOwn(x, paid')
      BY <1>5, <1>10, <2>1, <2>2 DEF RowOwn
  <2> QED
      BY <1>5, <2>1, <2>3 DEF Repeats, Waives
<1>11. Unrepeated(r, x)
    BY <1>1, <1>5 DEF Unrepeated
<1>12. paid' \subseteq Coverage /\ mixed' \subseteq Recordings
       /\ \A s \in Recordings \ {r} : s \in mixed' <=> s \in mixed
    BY <1>8, <1>9, RestTyped
<1>13. r \in asked => x.verdict # None /\ x.verdict.requested /\ ~x.verdict.waived
    BY <1>1, <1>5, RowFacts
<1>14. ~account.guest => x.owner # Guest
    BY <1>1, <1>5, RowFacts
<1> QED
    BY <1>3, <1>4, <1>6, <1>9, <1>10, <1>11, <1>12, <1>13, <1>14, RestTyped, RowStep

\* The run ends with a transcript that was bought, kept or taken.
LEMMA FinishStep ==
  ASSUME IInv, NEW r \in Recordings, Finish(r)
  PROVE  IInv'
<1>1. row[r] # None /\ Is(r, "running") /\ row[r] \in Row /\ row[r].file # None
      /\ (r \notin mixed => RowOwn(row[r], paid) /\ Repeats(row[r]))
      /\ UNCHANGED <<account, asked, again>>
    BY RowFacts DEF Finish, Is
<1>2. ASSUME NEW text \in {row[r].file, row[r].text} \ {None}, Ends(r, text), UNCHANGED mixed
      PROVE  IInv'
  <2>1. text \in Files
      BY <1>1, <1>2 DEF Row, Maybe
  <2>2. r \notin mixed => text = row[r].file
      BY <1>1, <1>2 DEF RowOwn
  <2> QED
      BY <1>1, <1>2, <2>1, <2>2, EndsStep
<1>3. ASSUME NEW o \in Reusable(r), Ends(r, row[o].text), mixed' = Mixing(r, o)
      PROVE  IInv'
  <2>1. Waives(row[r]) /\ row[r].verdict.of = o /\ o # None /\ o \in Recordings
        /\ Is(o, "completed") /\ row[o].text # None
      BY <1>1, <1>3 DEF Reusable, OfThisRun, Waives, Row, Verdict, Maybe
  <2>2. PICK text : text = row[o].text
      OBVIOUS
  <2>3. text \in Files
      BY <2>1, <2>2, RowFacts DEF Is, Row, Maybe
  <2>4. mixed' \in {mixed, mixed \cup {r}} /\ (r \notin mixed' => r \notin mixed /\ o \notin mixed)
      BY <1>3 DEF Mixing
  <2>5. ASSUME r \notin mixed'
        PROVE  text = row[r].file
    <3>1. r \notin mixed /\ o \notin mixed
        BY <2>4, <2>5
    <3>2. row[o].file = row[r].file
        BY <1>1, <2>1, <3>1 DEF Repeats, Live, Is
    <3>3. row[o].text = row[o].file
        BY <2>1, <3>1, RowFacts DEF Is, RowOwn
    <3> QED
        BY <2>2, <3>2, <3>3
  <2> QED
      BY <1>1, <1>3, <2>2, <2>3, <2>4, <2>5, EndsStep
<1> QED
    BY <1>2, <1>3 DEF Finish

\* The next run keeps what the row holds.
LEMMA ReprocessStep ==
  ASSUME IInv, NEW r \in Recordings, Reprocess(r)
  PROVE  IInv'
<1>1. row[r] # None /\ row[r].status = "completed" /\ Live(r) /\ row[r] \in Row
      /\ RowShape(row[r]) /\ (r \notin mixed => RowOwn(row[r], paid) /\ Repeats(row[r]))
    BY RowFacts DEF Reprocess, Is, Live
<1>2. PICK x : x = [row[r] EXCEPT !.status = "running", !.run = row[r].run + 1, !.billed = FALSE]
    OBVIOUS
<1>3. row' = [row EXCEPT ![r] = x] /\ UNCHANGED <<account, asked, paid, mixed>>
      /\ again' = again + 1
  <2>1. row' = [row EXCEPT ![r] = x]
      BY <1>2, RestTyped DEF Reprocess
  <2> QED
      BY <2>1 DEF Reprocess
<1>4. x \in Row
  <2>1. row[r].run + 1 \in Nat
      BY <1>1 DEF Row
  <2> QED
      BY <1>1, <1>2, <2>1 DEF Row
<1>5. /\ x.owner = row[r].owner /\ x.status = "running" /\ x.done = row[r].done
      /\ x.source = row[r].source /\ x.file = row[r].file /\ x.full = row[r].full
      /\ x.text = row[r].text /\ ~x.billed /\ x.verdict = row[r].verdict
    BY <1>1, <1>2 DEF Row
<1>6. RowShape(x)
    BY <1>1, <1>5 DEF RowShape, Waives
<1>7. r \notin mixed => RowOwn(x, paid) /\ Repeats(x)
    BY <1>1, <1>5 DEF RowOwn, PaidFor, Repeats, Waives
<1>8. Unrepeated(r, x)
    BY <1>1, <1>3, <1>5 DEF Unrepeated
<1>9. r \in asked => x.verdict # None /\ x.verdict.requested /\ ~x.verdict.waived
    BY <1>1, <1>5, RowFacts
<1>10. ~account.guest => x.owner # Guest
    BY <1>1, <1>5, RowFacts
<1>11. again' \in Nat
    BY <1>3, RestTyped
<1> QED
    BY <1>3, <1>4, <1>6, <1>7, <1>8, <1>9, <1>10, <1>11, RestTyped, RowStep

\* A verdict that waives has found a paid copy of the file.
LEMMA VerdictStep ==
  ASSUME IInv, NEW r \in Recordings, Is(r, "running"), row[r].file # None,
         NEW v \in Maybe(Verdict), row' = [row EXCEPT ![r].verdict = v],
         UNCHANGED <<account, asked, paid, again>>, mixed' \in {mixed, mixed \cup {r}},
         v # None /\ v.waived /\ r \notin mixed' =>
           /\ PaidFor(row[r], paid)
           /\ row[v.of] # None /\ row[v.of].file = row[r].file,
         r \in asked => v # None /\ v.requested /\ ~v.waived
  PROVE  IInv'
<1>1. row[r] # None /\ Live(r) /\ row[r] \in Row /\ RowShape(row[r])
      /\ (r \notin mixed => RowOwn(row[r], paid))
    BY RowFacts DEF Is, Live
<1>2. PICK x : x = [row[r] EXCEPT !.verdict = v]
    OBVIOUS
<1>3. row' = [row EXCEPT ![r] = x]
    BY <1>1, <1>2, RestTyped
<1>4. x \in Row
    BY <1>1, <1>2 DEF Row
<1>5. /\ x.owner = row[r].owner /\ x.status = row[r].status /\ x.done = row[r].done
      /\ x.source = row[r].source /\ x.file = row[r].file /\ x.full = row[r].full
      /\ x.text = row[r].text /\ x.billed = row[r].billed /\ x.verdict = v
    BY <1>1, <1>2 DEF Row
<1>6. RowShape(x)
    BY <1>1, <1>5 DEF RowShape
<1>7. ASSUME r \notin mixed'
      PROVE  RowOwn(x, paid) /\ Repeats(x)
  <2>1. PaidFor(row[r], paid) => PaidFor(x, paid)
      BY <1>5 DEF PaidFor
  <2>2. RowOwn(row[r], paid)
      BY <1>1, <1>7
  <2> QED
      BY <1>5, <1>7, <2>1, <2>2 DEF RowOwn, Repeats, Waives
<1>8. Unrepeated(r, x)
    BY <1>1, <1>5 DEF Unrepeated
<1>9. ~account.guest => x.owner # Guest
    BY <1>1, <1>5, RowFacts
<1>10. r \in asked => x.verdict # None /\ x.verdict.requested /\ ~x.verdict.waived
    BY <1>5
<1>11. mixed' \subseteq Recordings /\ \A s \in Recordings \ {r} : s \in mixed' <=> s \in mixed
    BY RestTyped
<1> QED
    BY <1>3, <1>4, <1>6, <1>7, <1>8, <1>9, <1>10, <1>11, RestTyped, RowStep

\* A verdict waives only what its owner did not request.
LEMMA JudgedTyped ==
  ASSUME NEW r \in Recordings, row[r] # None, row[r] \in Row,
         NEW o \in Recordings, NEW waiving \in BOOLEAN
  PROVE  /\ Judged(r, o, waiving) \in Verdict
         /\ Judged(r, o, waiving).of = o
         /\ Judged(r, o, waiving).requested <=> WasRequested(r)
         /\ Judged(r, o, waiving).waived => waiving /\ ~WasRequested(r)
<1>1. PICK asks \in BOOLEAN : asks = WasRequested(r)
    BY Zenon DEF WasRequested, Row, Verdict, Maybe
<1>2. PICK waived \in BOOLEAN : waived = (waiving /\ ~asks)
    OBVIOUS
<1>3. Judged(r, o, waiving) =
        [of |-> o, waived |-> waived, run |-> row[r].run, requested |-> asks]
    BY <1>1, <1>2 DEF Judged
<1>4. Judged(r, o, waiving) \in Verdict
    BY <1>3 DEF Verdict, Row, Maybe
<1>5. Judged(r, o, waiving).of = o /\ Judged(r, o, waiving).requested = asks
      /\ Judged(r, o, waiving).waived = waived
    BY <1>3
<1>6. (asks <=> WasRequested(r)) /\ (waived <=> waiving /\ ~asks)
    BY <1>1, <1>2, Zenon
<1>7. Judged(r, o, waiving).requested <=> WasRequested(r)
    BY <1>5, <1>6, Zenon
<1>8. Judged(r, o, waiving).waived => waiving /\ ~WasRequested(r)
    BY <1>5, <1>6, Zenon
<1> QED
    BY <1>4, <1>5, <1>7, <1>8

\* judge_run, on each of its three ways to a verdict.
LEMMA JudgeRunStep ==
  ASSUME IInv, NEW r \in Recordings, NEW host \in BOOLEAN, JudgeRun(r, host)
  PROVE  IInv'
<1>1. row[r] # None /\ row[r] \in Row /\ row[r].file # None /\ RowShape(row[r])
      /\ (r \notin mixed => RowOwn(row[r], paid))
      /\ UNCHANGED <<account, asked, paid, again>> /\ Is(r, "running")
    BY RowFacts DEF JudgeRun, Is
<1>2. r \in asked => WasRequested(r)
    BY <1>1, RowFacts DEF WasRequested
<1>3. ASSUME NEW o \in Candidates(r), Covers(o, r),
             r \notin mixed /\ o \notin mixed => row[o].file = row[r].file,
             row' = [row EXCEPT ![r].verdict = Judged(r, o, TRUE)], mixed' = Mixing(r, o)
      PROVE  IInv'
  <2>1. o \in Recordings /\ row[o] # None /\ row[o].status = "completed"
      BY DEF Candidates, Is
  <2>2. PICK v : v = Judged(r, o, TRUE)
      OBVIOUS
  <2>3. v \in Verdict /\ v.of = o /\ (v.requested <=> WasRequested(r))
        /\ (v.waived => ~WasRequested(r))
      BY <1>1, <2>1, <2>2, JudgedTyped
  <2>4. mixed' \in {mixed, mixed \cup {r}} /\ (r \notin mixed' => r \notin mixed /\ o \notin mixed)
      BY <1>3 DEF Mixing
  <2>5. ASSUME r \notin mixed'
        PROVE  PaidFor(row[r], paid) /\ row[o].file = row[r].file
    <3>1. PaidFor(row[o], paid)
        BY <2>1, <2>4, <2>5, RowFacts DEF RowOwn
    <3> QED
        BY <1>3, <2>4, <2>5, <3>1 DEF PaidFor, Covers
  <2> QED
      BY <1>1, <1>2, <1>3, <2>1, <2>2, <2>3, <2>4, <2>5, VerdictStep, NoneIsNoRecord DEF Maybe
<1>4. ASSUME NEW o \in Suspected(r), UNCHANGED mixed,
             row' = [row EXCEPT ![r].verdict = Judged(r, o, FALSE)]
      PROVE  IInv'
  <2>1. o \in Recordings
      BY DEF Suspected, Candidates
  <2>2. PICK v : v = Judged(r, o, FALSE)
      OBVIOUS
  <2>3. v \in Verdict /\ ~v.waived /\ (v.requested <=> WasRequested(r))
      BY <1>1, <2>1, <2>2, JudgedTyped
  <2> QED
      BY <1>1, <1>2, <1>4, <2>2, <2>3, VerdictStep, NoneIsNoRecord DEF Maybe
<1>5. ASSUME NEW o \in Verified(r), mixed' = Mixing(r, o),
             row' = [row EXCEPT ![r].verdict = Judged(r, o, TRUE)]
      PROVE  IInv'
  <2>1. o \in Candidates(r) /\ Covers(o, r)
      BY DEF Verified
  <2>2. o \in Recordings /\ row[o] # None /\ row[o].status = "completed"
        /\ RowShape(row[o]) /\ (o \notin mixed => RowOwn(row[o], paid))
      BY <2>1, RowFacts DEF Candidates, Is
  <2>3. PICK s \in row[o].done, t \in row[r].done :
          s.verified /\ t.verified /\ s.fingerprint = t.fingerprint
      BY DEF Verified, VerifiedFingerprints
  <2>4. r \notin mixed /\ o \notin mixed => row[o].file = row[r].file
      BY <1>1, <2>2, <2>3 DEF RowShape, RowOwn
  <2> QED
      BY <1>3, <1>5, <2>1, <2>4
<1>6. ASSUME NEW o \in HostVerified(r), mixed' = Mixing(r, o),
             row' = [row EXCEPT ![r].verdict = Judged(r, o, TRUE)]
      PROVE  IInv'
    BY <1>3, <1>6 DEF HostVerified
<1>7. ASSUME UNCHANGED mixed,
             row' = [row EXCEPT ![r].verdict =
               IF WasRequested(r)
               THEN [@ EXCEPT !.waived = FALSE, !.run = row[r].run] ELSE None]
      PROVE  IInv'
  <2>1. CASE WasRequested(r)
    <3>1. PICK u : u = row[r].verdict
        OBVIOUS
    <3>2. u \in Verdict /\ u.requested /\ row[r].run \in Nat
        BY <1>1, <2>1, <3>1 DEF WasRequested, Row, Maybe
    <3>3. PICK no \in BOOLEAN : no = FALSE
        OBVIOUS
    <3>4. PICK v : v = [u EXCEPT !.waived = no, !.run = row[r].run]
        OBVIOUS
    <3>5. v \in Verdict /\ ~v.waived /\ v.requested
        BY <3>2, <3>3, <3>4 DEF Verdict
    <3>6. row' = [row EXCEPT ![r].verdict = v]
        BY <1>1, <1>7, <2>1, <3>1, <3>3, <3>4
    <3> QED
        BY <1>1, <1>7, <3>5, <3>6, VerdictStep, NoneIsNoRecord DEF Maybe
  <2>2. CASE ~WasRequested(r)
      BY <1>1, <1>2, <1>7, <2>2, VerdictStep DEF Maybe
  <2> QED
      BY <2>1, <2>2
<1> QED
    BY <1>4, <1>5, <1>6, <1>7 DEF JudgeRun

-----------------------------------------------------------------------------
(* Every row may change its owner *)

\* The merge and the end of a guest change owners, and nothing a row says of
\* its file.
LEMMA OwnersStep ==
  ASSUME IInv, UNCHANGED <<asked, paid, mixed>>,
         NEW new \in Maybe(Accounts), new # Guest,
         row' = [r \in Recordings |->
                   IF r \in Owned(Guest) THEN [row[r] EXCEPT !.owner = new] ELSE row[r]]
  PROVE  /\ row' \in [Recordings -> Maybe(Row)]
         /\ RowsHold' /\ AskedStands'
         /\ \A r \in Recordings : row'[r] # None => row'[r].owner # Guest
<1>1. \A r \in Recordings : row[r] = None => row'[r] = None
    BY DEF Owned
<1>2. ASSUME NEW r \in Recordings, row[r] # None
      PROVE  /\ row'[r] \in Row /\ row'[r] # None /\ row'[r].owner # Guest
             /\ row'[r].status = row[r].status /\ row'[r].done = row[r].done
             /\ row'[r].source = row[r].source /\ row'[r].file = row[r].file
             /\ row'[r].full = row[r].full /\ row'[r].text = row[r].text
             /\ row'[r].billed = row[r].billed /\ row'[r].verdict = row[r].verdict
  <2>1. row[r] \in Row
      BY <1>2, RowFacts
  <2>2. CASE row[r].owner = Guest
    <3>1. row'[r] = [row[r] EXCEPT !.owner = new]
        BY <1>2, <2>2 DEF Owned
    <3>2. row'[r] \in Row
        BY <2>1, <3>1 DEF Row
    <3> QED
        BY <2>1, <3>1, <3>2, NoneIsNoRecord DEF Row
  <2>3. CASE row[r].owner # Guest
      BY <1>2, <2>1, <2>3 DEF Owned
  <2> QED
      BY <2>2, <2>3
<1>3. row' \in [Recordings -> Maybe(Row)]
  <2>1. \A r \in Recordings : row'[r] \in Maybe(Row)
      BY <1>1, <1>2 DEF Maybe
  <2> QED
      BY <2>1
<1>4. RowsHold'
  <2> SUFFICES ASSUME NEW r \in Recordings, row'[r] # None
               PROVE  /\ RowShape(row'[r])
                      /\ r \notin mixed' => (RowOwn(row[r], paid) /\ Repeats(row[r]))'
      BY DEF RowsHold
  <2>1. row[r] # None /\ row[r] \in Row /\ RowShape(row[r])
        /\ (r \notin mixed => RowOwn(row[r], paid) /\ Repeats(row[r]))
      BY <1>1, RowFacts
  <2>2. RowShape(row'[r]) /\ (r \notin mixed' => RowOwn(row[r], paid)')
      BY <1>2, <2>1 DEF RowShape, RowOwn, Waives, PaidFor
  <2>3. ASSUME r \notin mixed
        PROVE  Repeats(row[r])'
    <3> SUFFICES ASSUME Waives(row[r]), row[r].verdict.of # None
                 PROVE  LET o == row[r].verdict.of IN
                          /\ row'[o] # None
                          /\ row'[o].status # "deleted" /\ o \notin mixed =>
                               row'[o].file = row'[r].file
        BY <1>2, <2>1 DEF Repeats, Waives, Live
    <3>1. row[r].verdict.of \in Recordings
        BY <2>1 DEF Waives, Row, Verdict, Maybe
    <3> QED
        BY <1>2, <2>1, <2>3, <3>1 DEF Repeats, Live
  <2> QED
      BY <2>2, <2>3
<1>5. AskedStands'
    BY <1>2 DEF AskedStands, WasRequested, IInv, TypeOK
<1>6. \A r \in Recordings : row'[r] # None => row'[r].owner # Guest
    BY <1>1, <1>2
<1> QED
    BY <1>3, <1>4, <1>5, <1>6

\* The invariant holds before anything is created.
LEMMA InitIInv == Init => IInv
BY DEF Init, IInv, TypeOK, GoneIsMerged, RowsHold, AskedStands, Maybe

\* The account merge, step by step.
LEMMA AccountStep ==
  ASSUME IInv, UserMerged \/ SurvivorProjected \/ HandleUserMerged \/ GuestDeleted
  PROVE  /\ account' \in [event: {"none", "sent", "handled"},
                          survivor: BOOLEAN, guest: BOOLEAN]
         /\ GoneIsMerged'
<1>1. account \in [event: {"none", "sent", "handled"}, survivor: BOOLEAN, guest: BOOLEAN]
      /\ (~account.guest => account.event # "none")
    BY DEF IInv, TypeOK, GoneIsMerged
<1>2. PICK e, sv, g : e = account.event /\ sv = account.survivor /\ g = account.guest
    OBVIOUS
<1>3. account = [event |-> e, survivor |-> sv, guest |-> g]
    BY <1>1, <1>2
<1> QED
    BY <1>1, <1>2, <1>3
       DEF UserMerged, SurvivorProjected, HandleUserMerged, GuestDeleted, GoneIsMerged

\* Every step keeps the invariant.
LEMMA NextIInv == IInv /\ [Next]_vars => IInv'
<1> SUFFICES ASSUME IInv, [Next]_vars PROVE IInv'
    OBVIOUS
<1>1. ASSUME NEW r \in Recordings,
             \/ \E o \in Accounts, f \in Claims, allow \in BOOLEAN : Create(r, o, f, allow)
             \/ \E f \in Files : FinalizeUpload(r, f)
             \/ ConvertSource(r)
             \/ \E host \in BOOLEAN : JudgeRun(r, host)
             \/ Finish(r) \/ Reprocess(r) \/ Delete(r)
      PROVE  IInv'
    BY <1>1, CreateStep, FinalizeUploadStep, ConvertSourceStep, JudgeRunStep, FinishStep,
       ReprocessStep, DeleteStep
<1>2. ASSUME NEW r \in Recordings, NEW f \in Claims, NEW allow \in BOOLEAN,
             StartUpload(r, f) \/ StartMultipart(r, f, allow)
      PROVE  IInv'
  <2>1. again' \in Nat
    <3>1. again' \in {again, again + 1}
        BY <1>2 DEF StartUpload, StartMultipart
    <3> QED
        BY <3>1, RestTyped
  <2> QED
      BY <1>2, <2>1, StartsSessionStep DEF StartUpload, StartMultipart
<1>3. CASE UserMerged \/ SurvivorProjected \/ (HandleUserMerged /\ UNCHANGED row)
  <2>1. UNCHANGED <<row, asked, paid, mixed, again>>
      BY <1>3 DEF UserMerged, SurvivorProjected, HandleUserMerged
  <2>2. RowsHold' /\ AskedStands'
      BY <2>1 DEF IInv, RowsHold, RowOwn, PaidFor, Repeats, Live, AskedStands, WasRequested
  <2>3. account'.guest = account.guest
      BY <1>3 DEF UserMerged, SurvivorProjected, HandleUserMerged, IInv, TypeOK
  <2> QED
      BY <1>3, <2>1, <2>2, <2>3, AccountStep DEF IInv, TypeOK
<1>4. CASE (HandleUserMerged /\ ~UNCHANGED row) \/ GuestDeleted
  <2>1. UNCHANGED <<asked, paid, mixed, again>> /\ \E new \in Maybe(Accounts) :
          /\ new # Guest
          /\ row' = [r \in Recordings |->
                       IF r \in Owned(Guest) THEN [row[r] EXCEPT !.owner = new] ELSE row[r]]
    <3>1. User \in Maybe(Accounts) /\ User # Guest /\ None \in Maybe(Accounts) /\ None # Guest
        BY OwnershipAssumption DEF Maybe, Accounts
    <3> QED
        BY <1>4, <3>1 DEF HandleUserMerged, GuestDeleted, SetsNull
  <2>2. PICK new \in Maybe(Accounts) :
          /\ new # Guest
          /\ row' = [r \in Recordings |->
                       IF r \in Owned(Guest) THEN [row[r] EXCEPT !.owner = new] ELSE row[r]]
      BY <2>1
  <2>3. /\ row' \in [Recordings -> Maybe(Row)]
        /\ RowsHold' /\ AskedStands'
        /\ \A r \in Recordings : row'[r] # None => row'[r].owner # Guest
      BY <2>1, <2>2, OwnersStep
  <2>4. asked' \subseteq Recordings /\ paid' \subseteq Coverage
        /\ mixed' \subseteq Recordings /\ again' \in Nat
      BY <2>1 DEF IInv, TypeOK
  <2> QED
      BY <1>4, <2>3, <2>4, AccountStep DEF IInv, TypeOK
<1>5. CASE UNCHANGED vars
    BY <1>5 DEF vars, IInv, TypeOK, GoneIsMerged, RowsHold, RowOwn, PaidFor, Repeats, Live,
                AskedStands, WasRequested
<1> QED
    BY <1>1, <1>2, <1>3, <1>4, <1>5 DEF Next

-----------------------------------------------------------------------------

\* The inductive invariant holds of every behaviour.
THEOREM Invariant == Spec => []IInv
BY InitIInv, NextIInv, PTL DEF Spec

\* However uploads, runs, deletions and the merge of accounts interleave, a
\* charge is waived only for a file that has been paid for (judge_run,
\* charge_waived), unless the recording or what it repeats was given another
\* file; and no row names a user who is gone.
THEOREM ChargesHold == Spec => []ChargeInv
<1>1. IInv => ChargeInv
  <2> SUFFICES ASSUME IInv, NEW r \in Recordings \ mixed, Live(r), ChargeWaived(r)
               PROVE  PaidFor(row[r], paid)
      BY DEF IInv, ChargeInv, WaivedWasPaid, PaidFor
  <2> QED
      BY RowFacts DEF Live, ChargeWaived, OfThisRun, RowOwn, Waives
<1> QED
    BY <1>1, Invariant, PTL

\* reuse_waived_duplicate copies the transcript of the recording's own file,
\* unless one of the two recordings was given another file.
THEOREM TextsHold == Spec => []TextOfOwnFile
<1>1. IInv => TextOfOwnFile
    BY RowFacts DEF TextOfOwnFile, Live, RowOwn
<1> QED
    BY <1>1, Invariant, PTL

\* A repeat that was asked for stays asked for, run after run.
THEOREM RequestsHold == Spec => []AskedIsCharged
<1>1. IInv => AskedIsCharged
    BY DEF IInv, AskedStands, AskedIsCharged, ChargeWaived
<1> QED
    BY <1>1, Invariant, PTL

=============================================================================
