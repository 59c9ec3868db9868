---------------------------- MODULE ObserverProofs ----------------------------
(* The store as others see it, proved for every instance: what a captured      *)
(* signed read is worth (Replay), what a retried request is answered           *)
(* (Connections), the promise the whole store keeps (Custody), and the trustee *)
(* that a recovering and an enrolling client meet (Recover, EnrollClient).     *)
EXTENDS AdmissionProofs, Replay, Connections, StoreCustody, StoreTrustee

-----------------------------------------------------------------------------
(* Replay.  The guard is inductive once an answered read's target is known to  *)
(* stay: the scope its nonce is stored under is then always the same.          *)

\* What an answered read was about is on record.
ReadsGrounded ==
    \A q \in SignedRequests : reads[q] > 0 =>
        IF q.operation = "read-recovery" THEN q.target \in DOMAIN sessions
        ELSE Known(q.target)

ReplayInv ==
    /\ RecoveryInv
    /\ reads \in [SignedRequests -> Nat]
    /\ ReadsGrounded
    /\ AnsweredReadsGuarded
    /\ ReadsSingleUse

LEMMA InitReplayInv == ReplayInit => ReplayInv
BY InitRecoveryInv DEF ReplayInit, ReplayInv, ReadsGrounded, AnsweredReadsGuarded, ReadsSingleUse

\* A target on record stays on record, and with it the scope.
LEMMA ScopeKept ==
    ASSUME RecoveryInv, Next, NEW q,
           IF q.operation = "read-recovery" THEN q.target \in DOMAIN sessions
           ELSE Known(q.target)
    PROVE  /\ IF q.operation = "read-recovery" THEN q.target \in DOMAIN sessions'
              ELSE Known(q.target)'
           /\ ReadScope(q)' = ReadScope(q)
<1>1. CASE q.operation = "read-recovery"
  BY <1>1, SessionFrame DEF SessionMoves, ReadScope, SessionScope
<1>2. CASE q.operation # "read-recovery"
  BY <1>2, CurrentKeyKept DEF ReadScope, EnrollmentScope
<1> QED
  BY <1>1, <1>2

\* Every signed read passes the same checks, and spends its nonce in its scope.
LEMMA ReadFacts ==
    ASSUME NEW now, NEW signed, Read(signed, now)
    PROVE  /\ Transaction(now)
           /\ CheckFresh(signed, now)
           /\ SpendNonce(ReadScope(signed), signed, now)
           /\ IF signed.operation = "read-recovery" THEN signed.target \in DOMAIN sessions
              ELSE Known(signed.target)
BY DEF Read, EmitContribution, ResendContribution, ReportRecovery, ReadSession, ReadEnrollment,
       ReadScope

LEMMA ChangeReplayInv ==
    ASSUME ReplayInv, NEW now \in Times, Change(now), UNCHANGED reads
    PROVE  ReplayInv'
<1>1. Next
  BY DEF Next, Step
<1>2. RecoveryInv'
  BY <1>1, NextRecoveryInv DEF ReplayInv
<1>3. nonces' = nonces
  BY DEF Change, CreateInvitation, IssueChallenge, Enroll, EnrollKnownId, BeginRecovery,
         CancelRecovery, EndEnrollment
<1>4. highWater' \in Int /\ highWater \in Int /\ highWater' >= highWater
  BY <1>1, <1>2, SessionFrame DEF ReplayInv, RecoveryInv, TypeInv, TypeOK, Times
<1>5. ASSUME NEW q \in SignedRequests, reads[q] > 0
      PROVE  /\ IF q.operation = "read-recovery" THEN q.target \in DOMAIN sessions'
                ELSE Known(q.target)'
             /\ ReadScope(q)' = ReadScope(q)
  BY <1>1, <1>5, ScopeKept DEF ReplayInv, ReadsGrounded
<1>6. ReadsGrounded'
  BY <1>5 DEF ReadsGrounded
<1>7. AnsweredReadsGuarded'
  BY <1>3, <1>4, <1>5, LimitsAssumption, RequestsAssumption DEF ReplayInv, AnsweredReadsGuarded
<1> QED
  BY <1>2, <1>6, <1>7 DEF ReplayInv, ReadsSingleUse

LEMMA AnswerReadReplayInv ==
    ASSUME ReplayInv, NEW now \in Times, NEW signed \in SignedRequests, AnswerRead(signed, now)
    PROVE  ReplayInv'
<1> DEFINE key == <<ReadScope(signed), signed.requestId>>
<1>1. Next
  BY DEF AnswerRead, Next, Step
<1>2. RecoveryInv'
  BY <1>1, NextRecoveryInv DEF ReplayInv
<1>3. /\ Transaction(now) /\ CheckFresh(signed, now)
      /\ SpendNonce(ReadScope(signed), signed, now)
      /\ IF signed.operation = "read-recovery" THEN signed.target \in DOMAIN sessions
         ELSE Known(signed.target)
  BY ReadFacts DEF AnswerRead
<1>4. /\ highWater' = now /\ highWater <= now /\ now \in Int /\ highWater \in Int
      /\ signed.issuedAt \in Int
      /\ now <= signed.issuedAt + Skew /\ now >= signed.issuedAt - Skew
  BY <1>3, LimitsAssumption, RequestsAssumption
     DEF Transaction, CheckFresh, Distance, Times, ReplayInv, RecoveryInv, TypeInv, TypeOK
<1>5. /\ DOMAIN nonces' = Purge(now) \cup {key} /\ key \notin Purge(now)
      /\ nonces'[key] = now
      /\ \A n \in Purge(now) : nonces'[n] = nonces[n]
  BY <1>3 DEF SpendNonce, Insert
<1>6. /\ reads' = [reads EXCEPT ![signed] = @ + 1] /\ reads' \in [SignedRequests -> Nat]
      /\ reads'[signed] = reads[signed] + 1
      /\ \A q \in SignedRequests : q # signed => reads'[q] = reads[q]
  BY DEF AnswerRead, ReplayInv
<1>7. ASSUME NEW q \in SignedRequests, reads'[q] > 0
      PROVE  /\ IF q.operation = "read-recovery" THEN q.target \in DOMAIN sessions'
                ELSE Known(q.target)'
             /\ ReadScope(q)' = ReadScope(q)
  <2>1. IF q.operation = "read-recovery" THEN q.target \in DOMAIN sessions ELSE Known(q.target)
    BY <1>3, <1>6, <1>7 DEF ReplayInv, ReadsGrounded
  <2> QED
    BY <1>1, <2>1, ScopeKept DEF ReplayInv
<1>8. ReadsGrounded'
  BY <1>7 DEF ReadsGrounded
<1>9. reads[signed] = 0
  <2> SUFFICES ASSUME reads[signed] > 0 PROVE FALSE
    BY DEF ReplayInv
  <2>1. key \in DOMAIN nonces /\ nonces[key] >= signed.issuedAt - Skew /\ nonces[key] \in Int
    BY <1>4, LimitsAssumption
       DEF ReplayInv, AnsweredReadsGuarded, RecoveryInv, TypeInv, TypeOK, Times
  <2>2. nonces[key] >= now - 2 * Skew
    BY <1>4, <2>1, LimitsAssumption
  <2> QED
    BY <1>5, <2>1, <2>2 DEF Purge
<1>10. AnsweredReadsGuarded'
  <2> SUFFICES ASSUME NEW q \in SignedRequests, reads'[q] > 0
               PROVE  \/ now > q.issuedAt + Skew
                      \/ /\ <<ReadScope(q), q.requestId>> \in DOMAIN nonces'
                         /\ nonces'[<<ReadScope(q), q.requestId>>] >= q.issuedAt - Skew
    BY <1>4, <1>7 DEF AnsweredReadsGuarded
  <2>1. CASE q = signed
    BY <2>1, <1>4, <1>5
  <2>2. CASE q # signed
    <3> DEFINE there == <<ReadScope(q), q.requestId>>
    <3>1. reads[q] > 0 /\ q.issuedAt \in Int
      BY <1>6, <2>2, RequestsAssumption
    <3>2. CASE highWater > q.issuedAt + Skew
      BY <3>1, <3>2, <1>4, LimitsAssumption
    <3>3. CASE there \in DOMAIN nonces /\ nonces[there] >= q.issuedAt - Skew
      <4>1. nonces[there] \in Int
        BY <3>3 DEF ReplayInv, RecoveryInv, TypeInv, TypeOK, Times
      <4>2. CASE there \in Purge(now)
        BY <4>2, <3>3, <1>5
      <4>3. CASE there \notin Purge(now)
        <5>1. nonces[there] < now - 2 * Skew
          BY <3>3, <4>1, <4>3, <1>4, LimitsAssumption DEF Purge
        <5> QED
          BY <3>1, <3>3, <4>1, <5>1, <1>4, LimitsAssumption
      <4> QED
        BY <4>2, <4>3
    <3> QED
      BY <3>1, <3>2, <3>3 DEF ReplayInv, AnsweredReadsGuarded
  <2> QED
    BY <2>1, <2>2
<1>11. ReadsSingleUse'
  BY <1>6, <1>9 DEF ReplayInv, ReadsSingleUse
<1> QED
  BY <1>2, <1>6, <1>8, <1>10, <1>11 DEF ReplayInv

LEMMA NextReplayInv == ReplayInv /\ [ReplayNext]_replayVars => ReplayInv'
<1> SUFFICES ASSUME ReplayInv, [ReplayNext]_replayVars PROVE ReplayInv'
  OBVIOUS
<1>1. CASE ReplayNext
  BY <1>1, ChangeReplayInv, AnswerReadReplayInv DEF ReplayNext
<1>2. CASE UNCHANGED replayVars
  <2>1. RecoveryInv'
    BY <1>2, NextRecoveryInv DEF ReplayInv, replayVars
  <2> QED
    BY <1>2, <2>1 DEF ReplayInv, ReadsGrounded, AnsweredReadsGuarded, ReadsSingleUse, ReadScope,
                      EnrollmentScope, SessionScope, Known, CurrentKey, replayVars, vars
<1> QED
  BY <1>1, <1>2

LEMMA ReplayInvariant == ReplaySpec => []ReplayInv
BY InitReplayInv, NextReplayInv, PTL DEF ReplaySpec

\* Until the freshness window of an answered read has closed for good, its nonce
\* is still stored, for any skew and any clock readings (spend_nonce).
THEOREM ReadsAreGuarded == ReplaySpec => []AnsweredReadsGuarded
BY ReplayInvariant, PTL DEF ReplayInv

\* A signed read is answered at most once, however often it is delivered and
\* whatever the clock does in between (check_fresh, spend_nonce).
THEOREM ReadsAreSingleUse == ReplaySpec => []ReadsSingleUse
BY ReplayInvariant, PTL DEF ReplayInv

-----------------------------------------------------------------------------
(* Connections.  Every committed change has its receipt in the history, and    *)
(* what is owed is always the receipt of a committed change.                   *)

OutcomeReceiptOf(o) == <<"outcome", o>>

RecordedChanges ==
    {EnrollReceipt(k) : k \in DOMAIN enrollments}
    \cup {BeginReceipt(s) : s \in DOMAIN sessions}
    \cup {OutcomeReceiptOf(o) : o \in DOMAIN outcomes}

\* What reading a change's receipt back gives, at any later time.
AsCommitted(about) ==
    IF about[1] = "enroll" /\ Tombstone(enrollments[about[2]].status)
    THEN ReadBack(about) = {}
    ELSE ReadBack(about) = receipts[about]

ConnectionInv ==
    /\ RecoveryInv
    /\ DOMAIN owed = Connections
    /\ DOMAIN receipts = RecordedChanges
    /\ \A about \in RecordedChanges : AsCommitted(about)
    /\ \A c \in Connections : owed[c] # None => owed[c] \in RecordedChanges

LEMMA InitConnectionInv == ConnectionInit => ConnectionInv
<1> SUFFICES ASSUME ConnectionInit PROVE ConnectionInv
  OBVIOUS
<1>1. DOMAIN enrollments = {} /\ DOMAIN sessions = {} /\ DOMAIN outcomes = {}
  BY DEF ConnectionInit, Init
<1>2. RecordedChanges = {}
  BY <1>1 DEF RecordedChanges
<1> QED
  BY <1>2, InitRecoveryInv DEF ConnectionInit, ConnectionInv

\* What the store does leaves the receipt of every change already made as it was.
LEMMA AsCommittedKept ==
    ASSUME ConnectionInv, Next, NEW about \in RecordedChanges, receipts'[about] = receipts[about]
    PROVE  AsCommitted(about)'
<1>1. RecoveryInv /\ AsCommitted(about) /\ ReceiptStep
  BY ReceiptsKept DEF ConnectionInv
<1>2. CASE \E s \in DOMAIN sessions : about = BeginReceipt(s)
  BY <1>1, <1>2 DEF AsCommitted, ReadBack, ReceiptStep, BeginReceipt
<1>3. CASE \E o \in DOMAIN outcomes : about = OutcomeReceiptOf(o)
  BY <1>1, <1>3 DEF AsCommitted, ReadBack, ReceiptStep, OutcomeReceiptOf
<1>4. CASE \E k \in DOMAIN enrollments : about = EnrollReceipt(k)
  <2>1. PICK k \in DOMAIN enrollments : about = EnrollReceipt(k)
    BY <1>4
  <2>2. /\ k \in DOMAIN enrollments' /\ enrollments'[k].offer = enrollments[k].offer
        /\ Tombstone(enrollments[k].status) => Tombstone(enrollments'[k].status)
    BY <1>1, EnrollmentFrame
  <2>3. /\ enrollments[k].custody = IF Tombstone(enrollments[k].status) THEN None
                                    ELSE enrollments[k].offer
        /\ enrollments'[k].custody = IF Tombstone(enrollments'[k].status) THEN None
                                     ELSE enrollments'[k].offer
    BY <1>1, <2>2, NextRecoveryInv DEF RecoveryInv, CustodyUntilEnded
  <2>4. CASE Tombstone(enrollments'[k].status)
    <3>1. enrollments[k].offer # None
      BY NoneAssumption DEF ConnectionInv, RecoveryInv, TypeInv, TypeOK, EnrollmentsOK,
                            EnrollmentRows
    <3> QED
      BY <2>1, <2>2, <2>3, <2>4, <3>1 DEF AsCommitted, ReadBack, HeldExactly, EnrollReceipt
  <2>5. CASE ~Tombstone(enrollments'[k].status)
    <3>1. EnrollmentReceipt(k)' = EnrollmentReceipt(k)
      BY <1>1, <2>5 DEF ReceiptStep
    <3> QED
      BY <1>1, <2>1, <2>2, <2>3, <2>5, <3>1 DEF AsCommitted, ReadBack, HeldExactly, EnrollReceipt
  <2> QED
    BY <2>4, <2>5
<1> QED
  BY <1>2, <1>3, <1>4 DEF RecordedChanges

\* A change that commits, and its receipt with it.
LEMMA CommitKeepsReceipts ==
    ASSUME ConnectionInv, Next, NEW c \in Connections, NEW about, Owes(c, about),
           RecordedChanges' = RecordedChanges \cup {about}, about \notin RecordedChanges,
           about[1] = "enroll" => ~Tombstone(enrollments'[about[2]].status)
    PROVE  ConnectionInv'
<1>1. RecoveryInv'
  BY NextRecoveryInv DEF ConnectionInv
<1>2. /\ DOMAIN receipts' = RecordedChanges \cup {about}
      /\ receipts'[about] = ReadBack(about)'
      /\ \A old \in RecordedChanges : receipts'[old] = receipts[old]
  BY DEF Owes, Insert, ConnectionInv
<1>3. \A old \in RecordedChanges : AsCommitted(old)'
  BY <1>2, AsCommittedKept
<1>4. AsCommitted(about)'
  BY <1>2 DEF AsCommitted
<1>5. DOMAIN owed' = Connections
        /\ \A d \in Connections : owed'[d] # None => owed'[d] \in RecordedChanges \cup {about}
  BY DEF Owes, ConnectionInv
<1> QED
  BY <1>1, <1>2, <1>3, <1>4, <1>5 DEF ConnectionInv

LEMMA CommitEnrollInv ==
    ASSUME ConnectionInv, NEW now \in Times, NEW c \in Connections, NEW ch \in Challenges,
           NEW offer \in Offers, CommitEnroll(c, ch, offer, now)
    PROVE  ConnectionInv'
<1> DEFINE key == <<offer.id, offer.sequence>>
<1>1. Enroll(ch, offer, now) /\ Owes(c, EnrollReceipt(key))
  BY DEF CommitEnroll
<1>2. Next
  BY <1>1 DEF Next, Step, Change
<1>3. key \notin DOMAIN enrollments
  BY <1>1, EnrollAnswerFacts DEF Enroll, Known
<1>4. /\ DOMAIN enrollments' = DOMAIN enrollments \cup {key}
      /\ enrollments'[key].status = "accepted"
      /\ UNCHANGED <<sessions, outcomes>>
  BY <1>1 DEF Enroll, Insert
<1> HIDE DEF key
<1>5. RecordedChanges' = RecordedChanges \cup {EnrollReceipt(key)}
  BY <1>4 DEF RecordedChanges, EnrollReceipt, BeginReceipt, OutcomeReceiptOf
<1>6. EnrollReceipt(key) \notin RecordedChanges
  BY <1>3 DEF RecordedChanges, EnrollReceipt, BeginReceipt, OutcomeReceiptOf
<1>7. ~Tombstone(enrollments'[EnrollReceipt(key)[2]].status)
  BY <1>4 DEF EnrollReceipt, Tombstone
<1> QED
  BY <1>1, <1>2, <1>5, <1>6, <1>7, CommitKeepsReceipts

LEMMA CommitBeginInv ==
    ASSUME ConnectionInv, NEW now \in Times, NEW c \in Connections,
           NEW request \in SessionRequests, CommitBegin(c, request, now)
    PROVE  ConnectionInv'
<1> DEFINE id == request.id
<1>1. BeginRecovery(request, now) /\ Owes(c, BeginReceipt(id))
  BY DEF CommitBegin
<1>2. Next
  BY <1>1 DEF Next, Step, Change
<1>3. id \notin DOMAIN sessions
  BY <1>1, BeginAnswerFacts DEF BeginRecovery
<1>4. /\ DOMAIN sessions' = DOMAIN sessions \cup {id}
      /\ DOMAIN enrollments' = DOMAIN enrollments
      /\ outcomes' = outcomes
  BY <1>1 DEF BeginRecovery, SpendAttempt, Insert
<1> HIDE DEF id
<1>5. RecordedChanges' = RecordedChanges \cup {BeginReceipt(id)}
  BY <1>4 DEF RecordedChanges, EnrollReceipt, BeginReceipt, OutcomeReceiptOf
<1>6. BeginReceipt(id) \notin RecordedChanges /\ BeginReceipt(id)[1] # "enroll"
  BY <1>3 DEF RecordedChanges, EnrollReceipt, BeginReceipt, OutcomeReceiptOf
<1> QED
  BY <1>1, <1>2, <1>5, <1>6, CommitKeepsReceipts

LEMMA CommitSignedInv ==
    ASSUME ConnectionInv, NEW now \in Times, NEW c \in Connections,
           NEW signed \in SignedRequests, CommitSigned(c, signed, now)
    PROVE  ConnectionInv'
<1>1. /\ CancelRecovery(signed, now) \/ EndEnrollment(signed, now)
      /\ Owes(c, ChangeReceipt(SignedScope(signed), signed.requestId))
  BY DEF CommitSigned
<1>2. Next
  BY <1>1 DEF CommitSigned, Next, Step, Change
<1>3. PICK scope : scope = SignedScope(signed)
  OBVIOUS
<1> DEFINE key == <<scope, signed.requestId>>
<1> DEFINE about == OutcomeReceiptOf(key)
<1>4. SignedScope(signed)' = scope
  <2>1. CASE signed.operation = "cancel-recovery"
    BY <2>1, <1>3 DEF SignedScope, SessionScope
  <2>2. CASE signed.operation # "cancel-recovery"
    <3>1. Known(signed.target)
      BY <1>1, <2>2 DEF CancelRecovery, EndEnrollment, EndAnswer
    <3>2. CurrentKey(signed.target)' = CurrentKey(signed.target)
      BY <1>2, <3>1, CurrentKeyKept DEF ConnectionInv
    <3> QED
      BY <2>2, <3>2, <1>3 DEF SignedScope, EnrollmentScope
  <2> QED
    BY <2>1, <2>2
<1>5. Owes(c, about)
  BY <1>1, <1>3, <1>4 DEF Owes, ReadBack, ChangeReceipt, OutcomeReceiptOf, Insert
<1>6. /\ key \notin DOMAIN outcomes
      /\ \E old, new : RecordOutcome(scope, signed, old, new, now)
      /\ DOMAIN enrollments' = DOMAIN enrollments
      /\ DOMAIN sessions' = DOMAIN sessions
  <2>1. CASE CancelRecovery(signed, now)
    BY <2>1, <1>3, CancelFacts DEF CancelRecovery, SignedScope
  <2>2. CASE EndEnrollment(signed, now)
    <3>1. scope = EnrollmentScope(CurrentKey(signed.target))
      BY <2>2, <1>3 DEF EndEnrollment, SignedScope
    <3>2. key \notin DOMAIN outcomes
      BY <2>2, <3>1 DEF EndEnrollment, EndAnswer, OutcomeAnswer
    <3> QED
      BY <2>2, <3>1, <3>2 DEF EndEnrollment, Ended
  <2> QED
    BY <1>1, <2>1, <2>2
<1>7. DOMAIN outcomes' = DOMAIN outcomes \cup {key}
  BY <1>6 DEF RecordOutcome, Insert
<1> HIDE DEF key
<1>8. RecordedChanges' = RecordedChanges \cup {about}
  BY <1>6, <1>7 DEF RecordedChanges, EnrollReceipt, BeginReceipt, OutcomeReceiptOf
<1>9. about \notin RecordedChanges /\ about[1] # "enroll"
  BY <1>6 DEF RecordedChanges, EnrollReceipt, BeginReceipt, OutcomeReceiptOf
<1> HIDE DEF about
<1> QED
  BY <1>2, <1>5, <1>8, <1>9, CommitKeepsReceipts

\* A request that only reads, or that nothing is owed for.
LEMMA OtherInv ==
    ASSUME ConnectionInv, NEW now \in Times, Other(now)
    PROVE  ConnectionInv'
<1>1. Next
  BY DEF Other, Next, Step, Change
<1>2. RecoveryInv'
  BY <1>1, NextRecoveryInv DEF ConnectionInv
<1>3. /\ enrollments' = enrollments /\ outcomes' = outcomes
      /\ DOMAIN sessions' = DOMAIN sessions
  BY DEF Other, CreateInvitation, IssueChallenge, EnrollKnownId, Read, EmitContribution, Emitted,
         ResendContribution, ReportRecovery, ReadSession, ReadEnrollment
<1>4. RecordedChanges' = RecordedChanges
  BY <1>3 DEF RecordedChanges
<1>5. owed' = owed /\ receipts' = receipts
  BY DEF Other
<1>6. \A about \in RecordedChanges : AsCommitted(about)'
  BY <1>1, <1>5, AsCommittedKept
<1> QED
  BY <1>2, <1>4, <1>5, <1>6 DEF ConnectionInv

\* What some request repeats is recorded.
LEMMA RepeatedIsRecorded ==
    ASSUME RecoveryInv, NEW now, NEW about \in Repeated(now)
    PROVE  about \in RecordedChanges
<1>1. ASSUME NEW r, BeginAnswer(r, now) = "recorded" PROVE r.id \in DOMAIN sessions
  BY <1>1 DEF BeginAnswer, VerifySession, Admit, Usable
<1>2. ASSUME NEW scope, NEW q, OutcomeAnswer(scope, q, now) = "recorded"
      PROVE  <<scope, q.requestId>> \in DOMAIN outcomes
  BY <1>2 DEF OutcomeAnswer
<1>3. ASSUME NEW q, SignedAnswer(q, now) = "recorded"
      PROVE  <<SignedScope(q), q.requestId>> \in DOMAIN outcomes
  <2>1. OutcomeAnswer(SignedScope(q), q, now) = "recorded"
    BY <1>3 DEF SignedAnswer, SignedScope, CancelAnswer, EndAnswer
  <2> QED
    BY <2>1, <1>2
<1> QED
  BY <1>1, <1>3 DEF Repeated, RecordedChanges, ChangeReceipt, OutcomeReceiptOf

LEMMA NextConnectionInv == ConnectionInv /\ [ConnectionNext]_connectionVars => ConnectionInv'
<1> SUFFICES ASSUME ConnectionInv, [ConnectionNext]_connectionVars PROVE ConnectionInv'
  OBVIOUS
<1>1. ASSUME UNCHANGED <<vars, receipts>>, DOMAIN owed' = Connections,
             \A c \in Connections : owed'[c] # None => owed'[c] \in RecordedChanges
      PROVE  ConnectionInv'
  <2>1. RecoveryInv'
    BY <1>1, NextRecoveryInv DEF ConnectionInv
  <2>2. RecordedChanges' = RecordedChanges
    BY <1>1 DEF RecordedChanges, vars
  <2>3. \A about \in RecordedChanges : AsCommitted(about)'
    BY <1>1 DEF ConnectionInv, AsCommitted, ReadBack, HeldExactly, EnrollmentReceipt,
                SessionReceipt, OutcomeReceipt, vars
  <2> QED
    BY <1>1, <2>1, <2>2, <2>3 DEF ConnectionInv
<1>2. ASSUME NEW now \in Times, NEW c \in Connections, Retry(c, now) PROVE ConnectionInv'
  <2>1. PICK about \in Repeated(now) : owed' = [owed EXCEPT ![c] = about]
    BY <1>2 DEF Retry
  <2>2. about \in RecordedChanges
    BY <2>1, RepeatedIsRecorded DEF ConnectionInv
  <2> QED
    BY <1>1, <1>2, <2>1, <2>2 DEF Retry, ConnectionInv
<1>3. ASSUME NEW c \in Connections, Answer(c) PROVE ConnectionInv'
  BY <1>1, <1>3 DEF Answer, ConnectionInv
<1>4. CASE UNCHANGED connectionVars
  BY <1>1, <1>4 DEF connectionVars, ConnectionInv
<1> QED
  BY <1>2, <1>3, <1>4, OtherInv, CommitEnrollInv, CommitBeginInv, CommitSignedInv
     DEF ConnectionNext

\* Whenever a receipt is read back, by the first request or any retry and with
\* any number of requests in flight, it says what it said when its change
\* committed (enrollment_receipt, session_receipt, outcome_receipt).
THEOREM ReceiptsAreAsCommitted == ConnectionSpec => []ReceiptsAsCommitted
<1>1. ConnectionInv => ReceiptsAsCommitted
  BY DEF ConnectionInv, ReceiptsAsCommitted, AsCommitted
<1> QED
  BY <1>1, InitConnectionInv, NextConnectionInv, PTL DEF ConnectionSpec

-----------------------------------------------------------------------------
(* The promise.  Each operation of the store is a step of Custody under the    *)
(* mapping of StoreCustody, or changes nothing Custody speaks of.              *)

\* Operations that concern neither custody nor a recovery's fate.
LEMMA NothingStep ==
    ASSUME UNCHANGED <<enrollments, sessions, outcomes>>, sent' = None
    PROVE  C!Nothing
BY DEF C!Nothing, CustodyOf, RecoveryOf, Cancellations

LEMMA TakeStep ==
    ASSUME RecoveryInv, NEW now \in Times, NEW c \in Challenges, NEW offer \in Offers,
           Enroll(c, offer, now)
    PROVE  \E e \in EnrollmentKeys : C!Take(e)
<1> DEFINE key == <<offer.id, offer.sequence>>
<1>1. key \in EnrollmentKeys /\ key \notin DOMAIN enrollments
  BY EnrollAnswerFacts DEF Enroll, Known, EnrollmentKeys
<1>2. /\ DOMAIN enrollments' = DOMAIN enrollments \cup {key}
      /\ enrollments'[key].status = "accepted"
      /\ \A k \in DOMAIN enrollments : enrollments'[k] = enrollments[k]
      /\ sent' = None /\ UNCHANGED <<sessions, outcomes>>
  BY <1>1 DEF Enroll, Insert
<1> HIDE DEF key
<1>3. CustodyOf(key) = "none" /\ CustodyOf(key)' = "held"
  BY <1>1, <1>2 DEF CustodyOf, Tombstone
<1>4. \A k : k # key => CustodyOf(k)' = CustodyOf(k)
  BY <1>2 DEF CustodyOf
<1>5. \A s : RecoveryOf(s)' = RecoveryOf(s)
  BY <1>2 DEF RecoveryOf, Cancellations
<1>6. C!Take(key)
  BY <1>1, <1>2, <1>3, <1>4, <1>5 DEF C!Take
<1> QED
  BY <1>1, <1>6

LEMMA EndStep ==
    ASSUME RecoveryInv, NEW now \in Times, NEW signed \in SignedRequests,
           EndEnrollment(signed, now)
    PROVE  \E e \in EnrollmentKeys : C!End(e)
<1>1. PICK k : k = CurrentKey(signed.target)
  OBVIOUS
<1> DEFINE key == <<EnrollmentScope(k), signed.requestId>>
<1>2. /\ k \in DOMAIN enrollments /\ DOMAIN enrollments' = DOMAIN enrollments
      /\ Tombstone(enrollments'[k].status)
  BY <1>1, EndFacts DEF RecoveryInv
<1>3. \A j \in DOMAIN enrollments : j # k => enrollments'[j] = enrollments[j]
  BY <1>1 DEF EndEnrollment, Ended
<1>4. /\ sent' = None /\ sessions' = sessions
      /\ signed.operation # "cancel-recovery"
      /\ \E old, new : RecordOutcome(EnrollmentScope(k), signed, old, new, now)
      /\ key \notin DOMAIN outcomes
  BY <1>1 DEF EndEnrollment, EndAnswer, OutcomeAnswer
<1>5. /\ DOMAIN outcomes' = DOMAIN outcomes \cup {key} /\ outcomes'[key].request = signed
      /\ \A o \in DOMAIN outcomes : outcomes'[o] = outcomes[o]
  BY <1>4 DEF RecordOutcome, Insert
<1>6. k \in EnrollmentKeys
  BY <1>2 DEF RecoveryInv, TypeInv, TypeOK, EnrollmentsOK
<1> HIDE DEF key
<1>7. CustodyOf(k) \in {"held", "ended"} /\ CustodyOf(k)' = "ended"
  BY <1>2 DEF CustodyOf
<1>8. \A j : j # k => CustodyOf(j)' = CustodyOf(j)
  BY <1>2, <1>3 DEF CustodyOf
<1>9. \A s : Cancellations(s)' = Cancellations(s)
  BY <1>4, <1>5 DEF Cancellations
<1>10. \A s : RecoveryOf(s)' = RecoveryOf(s)
  BY <1>4, <1>9 DEF RecoveryOf
<1>11. C!End(k)
  BY <1>4, <1>6, <1>7, <1>8, <1>10 DEF C!End
<1> QED
  BY <1>6, <1>11

LEMMA OpenStep ==
    ASSUME RecoveryInv, NEW now \in Times, NEW request \in SessionRequests,
           BeginRecovery(request, now)
    PROVE  \E r \in SessionIds, e \in EnrollmentKeys : \E state \in {"open", "refused"} :
              C!Open(r, e, state)
<1>1. PICK k : k = CurrentKey(request.enrollment)
  OBVIOUS
<1> DEFINE id == request.id
<1>0. PICK state :
        state = IF CheckFactor(enrollments[k].offer, request) THEN "open" ELSE "refused"
  OBVIOUS
<1>2. /\ k \in DOMAIN enrollments /\ id \notin DOMAIN sessions /\ id \in SessionIds
      /\ ~Tombstone(enrollments[k].status)
  <2>1. BeginAnswer(request, now) = "ok"
    BY DEF BeginRecovery
  <2>2. /\ id \notin DOMAIN sessions /\ Known(request.enrollment)
        /\ Admit(EnrollmentState(k), enrollments[k].offer.policy, enrollments[k].attemptsUsed,
                 request, now, Skew) = "ok"
    BY <1>1, <2>1, BeginAnswerFacts DEF Current
  <2>3. ~Tombstone(EnrollmentState(k).status)
    BY <2>2 DEF Admit, Usable
  <2>4. k \in DOMAIN enrollments
    BY <1>1, <2>2, CurrentKeyFacts DEF RecoveryInv, TypeInv, TypeOK
  <2> QED
    BY <2>2, <2>3, <2>4 DEF EnrollmentState, SessionIds
<1>3. /\ enrollments' = [enrollments EXCEPT ![k].attemptsUsed = @ + 1]
      /\ sessions' = Insert(sessions, id, AdmittedSession(k, request, now))
      /\ sent' = None /\ outcomes' = outcomes
  BY <1>1 DEF BeginRecovery, SpendAttempt
<1>4. k \in EnrollmentKeys /\ enrollments[k] \in EnrollmentRows
  BY <1>2 DEF RecoveryInv, TypeInv, TypeOK, EnrollmentsOK
<1>5. /\ DOMAIN enrollments' = DOMAIN enrollments
      /\ \A j \in DOMAIN enrollments : enrollments'[j].status = enrollments[j].status
  BY <1>2, <1>3, <1>4 DEF EnrollmentRows
<1>6. /\ DOMAIN sessions' = DOMAIN sessions \cup {id}
      /\ sessions'[id].enrollment = k
      /\ sessions'[id].status = IF state = "refused" THEN "refused" ELSE "cooling_down"
      /\ \A s \in DOMAIN sessions : sessions'[s] = sessions[s]
  BY <1>0, <1>2, <1>3 DEF Insert, AdmittedSession
<1> HIDE DEF id
<1>7. Cancellations(id) = {} /\ \A s : Cancellations(s)' = Cancellations(s)
  BY <1>2, <1>3 DEF Cancellations, RecoveryInv, OutcomeSound
<1>8. \A j : CustodyOf(j)' = CustodyOf(j)
  BY <1>5 DEF CustodyOf
<1>9. CustodyOf(k) = "held" /\ RecoveryOf(id) = "none" /\ RecoveryOf(id)' = state
  BY <1>0, <1>2, <1>6, <1>7 DEF CustodyOf, RecoveryOf
<1>10. \A s : s # id => RecoveryOf(s)' = RecoveryOf(s)
  BY <1>6, <1>7 DEF RecoveryOf
<1>11. state \in {"open", "refused"}
  BY <1>0
<1>12. C!Open(id, k, state)
  BY <1>2, <1>3, <1>4, <1>6, <1>8, <1>9, <1>10 DEF C!Open
<1> QED
  BY <1>2, <1>4, <1>11, <1>12

LEMMA StopStep ==
    ASSUME RecoveryInv, NEW now \in Times, NEW signed \in SignedRequests,
           CancelRecovery(signed, now)
    PROVE  \E r \in SessionIds : C!Stop(r)
<1> DEFINE id == signed.target
<1> DEFINE key == <<SessionScope(id), signed.requestId>>
<1>1. /\ id \in DOMAIN sessions /\ key \notin DOMAIN outcomes
      /\ signed.operation = "cancel-recovery"
  BY CancelFacts
<1>2. PICK status, old, new :
        /\ sessions' = [sessions EXCEPT ![id].status = status]
        /\ RecordOutcome(SessionScope(id), signed, old, new, now)
        /\ sent' = None /\ enrollments' = enrollments
  BY DEF CancelRecovery
<1>3. /\ DOMAIN outcomes' = DOMAIN outcomes \cup {key} /\ outcomes'[key].request = signed
      /\ \A o \in DOMAIN outcomes : outcomes'[o] = outcomes[o]
  BY <1>1, <1>2 DEF RecordOutcome, Insert
<1>4. /\ DOMAIN sessions' = DOMAIN sessions
      /\ \A s \in DOMAIN sessions : /\ sessions'[s].enrollment = sessions[s].enrollment
                                    /\ s # id => sessions'[s] = sessions[s]
  BY <1>1, <1>2 DEF RecoveryInv, TypeInv, TypeOK, SessionsOK, SessionRows
<1>5. id \in SessionIds
  BY <1>1 DEF RecoveryInv, TypeInv, TypeOK, SessionsOK
<1> HIDE DEF key
<1>6. /\ Cancellations(id)' # {}
      /\ \A s : s # id => Cancellations(s)' = Cancellations(s)
  BY <1>1, <1>3 DEF Cancellations
<1> HIDE DEF id
<1>7. RecoveryOf(id) # "none" /\ RecoveryOf(id)' = "stopped"
  BY <1>1, <1>4, <1>6 DEF RecoveryOf
<1>8. \A s : s # id => RecoveryOf(s)' = RecoveryOf(s)
  BY <1>4, <1>6 DEF RecoveryOf
<1>9. \A k : CustodyOf(k)' = CustodyOf(k)
  BY <1>2 DEF CustodyOf
<1>10. C!Stop(id)
  BY <1>2, <1>4, <1>5, <1>7, <1>8, <1>9 DEF C!Stop
<1> QED
  BY <1>5, <1>10

\* A contribution that is sealed is one: NULL is not.
LEMMA EmittedIsThere ==
    ASSUME RecoveryInv, NEW now \in Times, now >= highWater, NEW id \in DOMAIN sessions,
           ReleaseVerdict(id, now) = "emit"
    PROVE  Contribution(enrollments[sessions[id].enrollment].custody,
                        sessions[id].request, now) # None
<1> DEFINE k == sessions[id].enrollment
<1>1. k \in DOMAIN enrollments /\ id \in SessionIds /\ sessions[id].request.id = id
      /\ sessions[id].request \in SessionRequests
  BY DEF RecoveryInv, TypeInv, TypeOK, SessionsOK, SessionRows
<1>2. enrollments[k].status = "accepted"
  BY ReleasableFacts
<1>3. enrollments[k].custody \in Offers
  BY <1>1, <1>2 DEF RecoveryInv, CustodyUntilEnded, Tombstone, TypeInv, TypeOK, EnrollmentsOK,
                    EnrollmentRows
<1>4. Contribution(enrollments[k].custody, sessions[id].request, now) \in Contributions
  BY <1>1, <1>3 DEF Contribution, Contributions, SessionIds, Times
<1> QED
  BY <1>4, NoneAssumption

LEMMA HandOverStep ==
    ASSUME RecoveryInv, NEW now \in Times, NEW signed \in SignedRequests,
           EmitContribution(signed, now) \/ ResendContribution(signed, now)
    PROVE  \E r \in SessionIds : C!HandOver(r)
<1> DEFINE id == signed.target
<1>1. /\ id \in DOMAIN sessions /\ now >= highWater
      /\ ReleaseVerdict(id, now) \in {"emit", "resend"}
      /\ enrollments' = enrollments /\ outcomes' = outcomes
  BY DEF EmitContribution, ResendContribution, ReadSession, Transaction
<1>2. /\ Cancellations(id) = {}
      /\ enrollments[sessions[id].enrollment].status = "accepted"
      /\ sessions[id].status \in {"cooling_down", "released"}
      /\ ReleaseVerdict(id, now) = "resend" => sessions[id].status = "released"
  BY <1>1, ReleasableFacts
<1>3. /\ id \in SessionIds /\ sessions[id].enrollment \in DOMAIN enrollments
      /\ sessions[id].enrollment \in EnrollmentKeys
      /\ sessions[id].request.id = id
      /\ sessions[id].contribution \in Contributions \cup {None}
  BY <1>1 DEF RecoveryInv, TypeInv, TypeOK, SessionsOK, SessionRows
<1>4. /\ DOMAIN sessions' = DOMAIN sessions
      /\ \A s \in DOMAIN sessions :
            /\ sessions'[s].enrollment = sessions[s].enrollment
            /\ s # id => sessions'[s] = sessions[s]
      /\ sessions'[id].status \in {"cooling_down", "released"}
      /\ sent' # None /\ sent'.session = id
  <2>1. CASE EmitContribution(signed, now)
    <3>1. PICK given :
            /\ sessions' = [sessions EXCEPT ![id].status = "released", ![id].contribution = given]
            /\ sent' = given
            /\ given = Contribution(enrollments[sessions[id].enrollment].custody,
                                    sessions[id].request, now)
      BY <2>1 DEF EmitContribution, Emitted
    <3>2. /\ DOMAIN sessions' = DOMAIN sessions
          /\ \A s \in DOMAIN sessions :
                /\ sessions'[s].enrollment = sessions[s].enrollment
                /\ s # id => sessions'[s] = sessions[s]
          /\ sessions'[id].status = "released"
      BY <1>1, <3>1 DEF RecoveryInv, TypeInv, TypeOK, SessionsOK, SessionRows
    <3>3. given # None
      BY <1>1, <2>1, <3>1, EmittedIsThere DEF EmitContribution, ReadSession
    <3>4. given.session = id
      BY <1>3, <3>1 DEF Contribution
    <3> QED
      BY <3>1, <3>2, <3>3, <3>4
  <2>2. CASE ResendContribution(signed, now)
    <3>1. sent' = sessions[id].contribution /\ sessions' = sessions
            /\ sessions[id].status = "released"
      BY <2>2, <1>2 DEF ResendContribution
    <3> QED
      BY <1>1, <1>2, <3>1 DEF RecoveryInv, SessionSound
  <2> QED
    BY <2>1, <2>2
<1> HIDE DEF id
<1>5. \A s : Cancellations(s)' = Cancellations(s)
  BY <1>1 DEF Cancellations
<1>6. RecoveryOf(id) = "open" /\ \A s : RecoveryOf(s)' = RecoveryOf(s)
  BY <1>1, <1>2, <1>4, <1>5 DEF RecoveryOf
<1>7. /\ CustodyOf(sessions[id].enrollment) = "held"
      /\ \A k : CustodyOf(k)' = CustodyOf(k)
  BY <1>1, <1>2, <1>3 DEF CustodyOf, Tombstone
<1>8. C!HandOver(id)
  BY <1>1, <1>3, <1>4, <1>6, <1>7 DEF C!HandOver
<1> QED
  BY <1>3, <1>8

LEMMA CustodyInitMaps == Init => C!CustodyInit
<1> SUFFICES ASSUME Init PROVE C!CustodyInit
  OBVIOUS
<1>1. /\ DOMAIN enrollments = {} /\ DOMAIN sessions = {} /\ sent = None
  BY DEF Init
<1> QED
  BY <1>1 DEF C!CustodyInit, CustodyOf, RecoveryOf

LEMMA CustodyStepMaps ==
    ASSUME RecoveryInv, [Next]_vars
    PROVE  [C!CustodyNext]_(C!custodyVars)
<1>1. CASE UNCHANGED vars
  BY <1>1 DEF C!custodyVars, CustodyOf, RecoveryOf, Cancellations, vars
<1>2. CASE Next
  <2>1. PICK now \in Times : Step(now)
    BY <1>2 DEF Next
  <2>2. ASSUME NEW code, NEW c, NEW offer, NEW signed,
               \/ CreateInvitation(code, now) \/ IssueChallenge(code, c, now)
               \/ EnrollKnownId(c, offer, now) \/ ReadEnrollment(signed, now)
               \/ ReportRecovery(signed, now)
        PROVE  C!Nothing
    <3>1. UNCHANGED <<enrollments, sessions, outcomes>> /\ sent' = None
      BY <2>2 DEF CreateInvitation, IssueChallenge, EnrollKnownId, ReadEnrollment, ReportRecovery,
                  ReadSession
    <3> QED
      BY <3>1, NothingStep
  <2>3. CASE Change(now)
    <3>1. \/ C!Nothing
          \/ \E e \in EnrollmentKeys : C!Take(e)
          \/ \E e \in EnrollmentKeys : C!End(e)
          \/ \E r \in SessionIds, e \in EnrollmentKeys : \E state \in {"open", "refused"} :
                C!Open(r, e, state)
          \/ \E r \in SessionIds : C!Stop(r)
      BY <2>2, <2>3, TakeStep, EndStep, OpenStep, StopStep DEF Change
    <3> QED
      BY <3>1 DEF C!CustodyNext
  <2>4. CASE \E signed \in SignedRequests : Read(signed, now)
    <3>1. C!Nothing \/ \E r \in SessionIds : C!HandOver(r)
      BY <2>2, <2>4, HandOverStep DEF Read
    <3> QED
      BY <3>1 DEF C!CustodyNext
  <2> QED
    BY <2>1, <2>3, <2>4 DEF Step
<1> QED
  BY <1>1, <1>2

\* Table details forgotten, the store keeps the promise Custody states: whatever
\* the order of enrollments, recoveries, vetoes and closures, and for any number
\* of each, the share is handed over only under custody still held and to a
\* recovery nobody has stopped (store.rs as a whole).
THEOREM StoreImplementsCustody == Spec => ImplementsCustody
<1>1. RecoveryInv /\ [Next]_vars => [C!CustodyNext]_(C!custodyVars)
  BY CustodyStepMaps
<1> QED
  BY <1>1, CustodyInitMaps, RecoveryInvariant, PTL DEF Spec, ImplementsCustody, C!CustodySpec

-----------------------------------------------------------------------------
(* The store and the client's model.  A trustee of Recover and the store ask    *)
(* the same predicates of different records; the step lemmas then go operation  *)
(* by operation.                                                                *)

\* Recover's copies of the predicates are the store's.
LEMMA SamePredicates ==
    ASSUME NEW k, NEW offer, NEW now, NEW requests, NEW refused,
           NEW e, NEW p, NEW a, NEW r, NEW s, NEW t, NEW f
    PROVE  /\ Seen(k, offer, now, requests, refused)!Admit(e, p, a, r, t, f) = Admit(e, p, a, r, t, f)
           /\ Seen(k, offer, now, requests, refused)!Release(e, s, t, f) = Release(e, s, t, f)
           /\ Seen(k, offer, now, requests, refused)!CooldownEndsAt(p, r, t) = CooldownEndsAt(p, r, t)
<1>1. Seen(k, offer, now, requests, refused)!Usable(e, t) = Usable(e, t)
  BY DEF Usable, Tombstone, Seen!Usable, Seen!Tombstone
<1>2. Seen(k, offer, now, requests, refused)!CooldownEndsAt(p, r, t) = CooldownEndsAt(p, r, t)
  BY DEF CooldownEndsAt, Seen!CooldownEndsAt
<1>3. Seen(k, offer, now, requests, refused)!Admit(e, p, a, r, t, f) = Admit(e, p, a, r, t, f)
  BY <1>1, <1>2 DEF Admit, RateLimited, Distance, WithinBounds,
                    Seen!Admit, Seen!RateLimited, Seen!Distance, Seen!WithinBounds
<1>4. Seen(k, offer, now, requests, refused)!Release(e, s, t, f) = Release(e, s, t, f)
  BY <1>1 DEF Release, StatusVerdict, Seen!Release, Seen!StatusVerdict
<1> QED
  BY <1>2, <1>3, <1>4

\* They do not tell one tombstone from another, nor one sequence from another that
\* is just as current.
LEMMA AdmitSeen ==
    ASSUME NEW e, NEW d, NEW p, NEW q, NEW a, NEW r, NEW now, NEW skew,
           Usable(e, now) = Usable(d, now), e.expiresAt = d.expiresAt,
           p.cooldown = q.cooldown, p.lifetime = q.lifetime, p.attempts = q.attempts
    PROVE  Admit(e, p, a, r, now, skew) = Admit(d, q, a, r, now, skew)
BY DEF Admit, RateLimited, WithinBounds, CooldownEndsAt

LEMMA ReleaseSeen ==
    ASSUME NEW e, NEW d, NEW s, NEW z, NEW now, NEW floor, NEW low,
           ~(now < floor), ~(now < low),
           Usable(e, now) = Usable(d, now), s.sequence = e.sequence, z.sequence = d.sequence,
           s.status = z.status, s.expiresAt = z.expiresAt, s.cooldownEndsAt = z.cooldownEndsAt
    PROVE  Release(e, s, now, floor) = Release(d, z, now, low)
BY DEF Release, StatusVerdict

LEMMA SeenEnrollment ==
    ASSUME RecoveryInv, NEW k \in DOMAIN enrollments, NEW offer, enrollments[k].offer = offer,
           NEW now, NEW requests, NEW refused
    PROVE  LET seen == Seen(k, offer, now, requests, refused)!EnrollmentAt(k) IN
           /\ Usable(EnrollmentState(k), now) = Usable(seen, now)
           /\ seen.expiresAt = EnrollmentState(k).expiresAt /\ seen.sequence = 1
<1>1. enrollments[k].status \in EnrollmentStatus /\ enrollments[k].status # "superseded"
  BY DEF RecoveryInv, EnrollmentSound, TypeInv, TypeOK, EnrollmentsOK, EnrollmentRows
<1>2. k \in EndedAmong({k}) <=> Tombstone(enrollments[k].status)
  BY DEF EndedAmong
<1> QED
  BY <1>1, <1>2 DEF Seen!EnrollmentAt, EnrollmentState, Usable, Tombstone, EnrollmentStatus

\* The verdict on a begin, as Recover's trustee reaches it.
LEMMA SeenVerdictIs ==
    ASSUME RecoveryInv, NEW k \in DOMAIN enrollments, NEW offer, enrollments[k].offer = offer,
           NEW now, NEW request
    PROVE  SeenVerdict(k, offer, now, request) =
               IF request.id \in SessionsUnder(k) THEN "recorded"
               ELSE Admit(EnrollmentState(k), offer.policy, enrollments[k].attemptsUsed,
                          request, now, Skew)
<1> DEFINE made == Only(request)
           refused == RefusedAt(k, offer, request)
           seen == Seen(k, offer, now, made, refused)!EnrollmentAt(k)
           policy == Seen(k, offer, now, made, refused)!Policy
<1>1. DOMAIN AdmittedUnder(k) = SessionsUnder(k) /\ made[request.id] = request
  BY DEF AdmittedUnder, Only
<1>2. SeenVerdict(k, offer, now, request) =
          IF request.id \in SessionsUnder(k) THEN "recorded"
          ELSE Seen(k, offer, now, made, refused)!Admit(seen, policy, enrollments[k].attemptsUsed,
                                                         request, now, Skew)
  BY <1>1 DEF SeenVerdict, Seen!BeginVerdict
<1>3. /\ policy.cooldown = offer.policy.cooldown /\ policy.lifetime = offer.policy.lifetime
      /\ policy.attempts = offer.policy.attempts
  BY DEF Seen!Policy
<1>4. /\ Usable(EnrollmentState(k), now) = Usable(seen, now)
      /\ seen.expiresAt = EnrollmentState(k).expiresAt
  BY SeenEnrollment
<1> HIDE DEF made, refused, seen, policy
<1>5. Admit(seen, policy, enrollments[k].attemptsUsed, request, now, Skew) =
          Admit(EnrollmentState(k), offer.policy, enrollments[k].attemptsUsed, request, now, Skew)
  BY ONLY <1>3, <1>4, AdmitSeen
<1> QED
  BY <1>2, <1>5, SamePredicates

\* The verdict on a read.
LEMMA SeenReadIs ==
    ASSUME RecoveryInv, NEW k \in DOMAIN enrollments, NEW offer, enrollments[k].offer = offer,
           NEW now \in Times, now >= highWater, NEW s \in SessionsUnder(k)
    PROVE  Seen(k, offer, now, <<>>, {})!ReadVerdict(k, s) = ReleaseVerdict(s, now)
<1> DEFINE seen == Seen(k, offer, now, <<>>, {})!EnrollmentAt(k)
           row == AdmittedUnder(k)[s]
<1>1. s \in DOMAIN sessions /\ sessions[s].enrollment = k
  BY DEF SessionsUnder
<1>2. k[2] = enrollments[k].offer.sequence
  BY DEF RecoveryInv, TypeInv, TypeOK, EnrollmentsOK
<1>3. ~(now < highWater) /\ ~(now < 0)
  BY DEF RecoveryInv, TypeInv, TypeOK, Times
<1>4. /\ row.sequence = 1 /\ row.status = SessionState(s).status
      /\ row.expiresAt = SessionState(s).expiresAt
      /\ row.cooldownEndsAt = SessionState(s).cooldownEndsAt
      /\ SessionState(s).sequence = EnrollmentState(k).sequence
  BY <1>1, <1>2 DEF AdmittedUnder, SessionState, EnrollmentState
<1>5. /\ Usable(EnrollmentState(k), now) = Usable(seen, now)
      /\ seen.sequence = 1
  BY SeenEnrollment
<1>6. Seen(k, offer, now, <<>>, {})!ReadVerdict(k, s) =
          Seen(k, offer, now, <<>>, {})!Release(seen, row, now, 0)
  BY DEF Seen!ReadVerdict
<1> HIDE DEF seen, row
<1>7. Release(EnrollmentState(k), SessionState(s), now, highWater) = Release(seen, row, now, 0)
  BY ONLY <1>3, <1>4, <1>5, ReleaseSeen
<1> QED
  BY <1>1, <1>6, <1>7, SamePredicates DEF ReleaseVerdict

\* An operation that concerns other enrollments only.
LEMMA SeenUnmoved ==
    ASSUME NEW k, NEW offer, NEW now,
           Tombstone(enrollments'[k].status) <=> Tombstone(enrollments[k].status),
           enrollments'[k].attemptsUsed = enrollments[k].attemptsUsed,
           SessionsUnder(k)' = SessionsUnder(k),
           \A s \in SessionsUnder(k) : sessions'[s] = sessions[s]
    PROVE  SeenStep(k, offer, now)
<1>1. EndedAmong({k})' = EndedAmong({k})
  BY DEF EndedAmong
<1>2. AdmittedUnder(k)' = AdmittedUnder(k) /\ GivenUnder(k)' = GivenUnder(k)
  BY DEF AdmittedUnder, GivenUnder
<1> QED
  BY <1>1, <1>2 DEF SeenStep, Seen!trusteeVars

LEMMA SeenBeginStep ==
    ASSUME RecoveryInv, NEW now \in Times, NEW request \in SessionRequests,
           BeginRecovery(request, now),
           NEW k \in DOMAIN enrollments, NEW offer, enrollments[k].offer = offer
    PROVE  SeenStep(k, offer, now)
<1> DEFINE id == request.id
           c == CurrentKey(request.enrollment)
           row == AdmittedSession(c, request, now)
<1>1. /\ id \notin DOMAIN sessions /\ c \in DOMAIN enrollments
      /\ Admit(EnrollmentState(c), enrollments[c].offer.policy, enrollments[c].attemptsUsed,
               request, now, Skew) = "ok"
  BY BeginAnswerFacts, CurrentKeyFacts DEF BeginRecovery, Current, RecoveryInv, TypeInv, TypeOK
<1>2. /\ enrollments' = [enrollments EXCEPT ![c].attemptsUsed = @ + 1]
      /\ sessions' = Insert(sessions, id, row)
  BY DEF BeginRecovery, SpendAttempt
<1>3. /\ DOMAIN sessions' = DOMAIN sessions \cup {id} /\ sessions'[id] = row
      /\ \A s \in DOMAIN sessions : sessions'[s] = sessions[s]
  BY <1>1, <1>2 DEF Insert
<1>4. row.enrollment = c
  BY DEF AdmittedSession
<1>5. \A j \in DOMAIN enrollments : enrollments[j] \in EnrollmentRows
  BY DEF RecoveryInv, TypeInv, TypeOK, EnrollmentsOK
<1>6. CASE k # c
  <2>1. enrollments'[k] = enrollments[k]
    BY <1>2, <1>6
  <2>2. SessionsUnder(k)' = SessionsUnder(k)
    BY <1>1, <1>3, <1>4, <1>6 DEF SessionsUnder
  <2>3. \A s \in SessionsUnder(k) : sessions'[s] = sessions[s]
    BY <1>3 DEF SessionsUnder
  <2> QED
    BY <2>1, <2>2, <2>3, SeenUnmoved
<1>7. CASE k = c
  <2>1. /\ enrollments'[k].attemptsUsed = enrollments[k].attemptsUsed + 1
        /\ enrollments'[k].status = enrollments[k].status
    BY <1>2, <1>5, <1>7 DEF EnrollmentRows
  <2>2. SessionsUnder(k)' = SessionsUnder(k) \cup {id} /\ id \notin SessionsUnder(k)
    BY <1>1, <1>3, <1>4, <1>7 DEF SessionsUnder
  <2>3. SeenVerdict(k, offer, now, request) = "ok"
    BY <1>1, <1>7, <2>2, SeenVerdictIs
  <2>4. GivenUnder(k)' = GivenUnder(k)
    <3>1. sessions'[id].contribution = None
      BY <1>3 DEF AdmittedSession
    <3>2. \A s \in SessionsUnder(k) : sessions'[s] = sessions[s]
      BY <1>3 DEF SessionsUnder
    <3> QED
      BY <2>2, <3>1, <3>2 DEF GivenUnder
  <2>5. EndedAmong({k})' = EndedAmong({k})
    BY <2>1 DEF EndedAmong
  <2> DEFINE made == Only(request)
             refused == RefusedAt(k, offer, request)
             new == [status         |-> IF k \in refused THEN "refused" ELSE "cooling_down",
                     sequence       |-> 1,
                     cooldownEndsAt |-> CooldownEndsAt(
                         Seen(k, offer, now, made, refused)!Policy, made[id], now),
                     expiresAt      |-> made[id].expiresAt]
  <2>6. /\ new.status = row.status /\ new.cooldownEndsAt = row.cooldownEndsAt
        /\ new.expiresAt = row.expiresAt /\ new.sequence = 1
    BY <1>7 DEF Only, RefusedAt, AdmittedSession, CooldownEndsAt, Seen!Policy
  <2>7. AdmittedUnder(k)' =
            [s \in SessionsUnder(k) \cup {id} |-> IF s # id THEN AdmittedUnder(k)[s] ELSE new]
    <3>1. AdmittedUnder(k)' =
              [s \in SessionsUnder(k) \cup {id} |->
                 [status         |-> sessions'[s].status,
                  sequence       |-> 1,
                  cooldownEndsAt |-> sessions'[s].cooldownEndsAt,
                  expiresAt      |-> sessions'[s].expiresAt]]
      BY <2>2 DEF AdmittedUnder
    <3>2. \A s \in SessionsUnder(k) :
             /\ sessions'[s] = sessions[s] /\ s # id
             /\ AdmittedUnder(k)[s] = [status         |-> sessions[s].status,
                                       sequence       |-> 1,
                                       cooldownEndsAt |-> sessions[s].cooldownEndsAt,
                                       expiresAt      |-> sessions[s].expiresAt]
      BY <1>3, <2>2 DEF SessionsUnder, AdmittedUnder
    <3>3. new = [status         |-> sessions'[id].status,
                 sequence       |-> 1,
                 cooldownEndsAt |-> sessions'[id].cooldownEndsAt,
                 expiresAt      |-> sessions'[id].expiresAt]
      BY <1>3, <2>6
    <3> HIDE DEF new, id, row
    <3> QED
      BY ONLY <3>1, <3>2, <3>3
  <2>8. Seen(k, offer, now, made, refused)!ServeBegin(k, id)
    <3>1. DOMAIN AdmittedUnder(k) = SessionsUnder(k)
      BY DEF AdmittedUnder
    <3>2. Seen(k, offer, now, made, refused)!CooldownEndsAt(
              Seen(k, offer, now, made, refused)!Policy, made[id], now) =
          CooldownEndsAt(Seen(k, offer, now, made, refused)!Policy, made[id], now)
      BY SamePredicates
    <3>3. Seen(k, offer, now, made, refused)!BeginVerdict(k, id) = "ok"
      BY <2>3 DEF SeenVerdict
    <3> QED
      BY <2>1, <2>4, <2>5, <2>7, <3>1, <3>2, <3>3 DEF Seen!ServeBegin
  <2>9. SeenBegin(k, offer, now, request)
    BY <2>3, <2>8 DEF SeenBegin
  <2> QED
    BY <2>9 DEF SeenStep
<1> QED
  BY <1>6, <1>7

\* A session whose status alone moves, as far as Recover sees.
LEMMA SeenStatusMoves ==
    ASSUME NEW k, NEW id \in SessionsUnder(k), NEW status,
           DOMAIN sessions' = DOMAIN sessions,
           \A s \in DOMAIN sessions : s # id => sessions'[s] = sessions[s],
           sessions'[id].status = status,
           sessions'[id].enrollment = sessions[id].enrollment,
           sessions'[id].cooldownEndsAt = sessions[id].cooldownEndsAt,
           sessions'[id].expiresAt = sessions[id].expiresAt
    PROVE  /\ SessionsUnder(k)' = SessionsUnder(k)
           /\ AdmittedUnder(k)' = [AdmittedUnder(k) EXCEPT ![id].status = status]
<1>1. SessionsUnder(k)' = SessionsUnder(k)
  BY DEF SessionsUnder
<1>2. AdmittedUnder(k)' = [AdmittedUnder(k) EXCEPT ![id].status = status]
  <2> DEFINE Row(s) == [status         |-> sessions[s].status,
                        sequence       |-> 1,
                        cooldownEndsAt |-> sessions[s].cooldownEndsAt,
                        expiresAt      |-> sessions[s].expiresAt]
             new == [status         |-> sessions'[id].status,
                     sequence       |-> 1,
                     cooldownEndsAt |-> sessions'[id].cooldownEndsAt,
                     expiresAt      |-> sessions'[id].expiresAt]
  <2>1. AdmittedUnder(k) = [s \in SessionsUnder(k) |-> Row(s)]
    BY DEF AdmittedUnder
  <2>2. AdmittedUnder(k)' = [s \in SessionsUnder(k) |-> IF s = id THEN new ELSE Row(s)]
    <3>1. \A s \in SessionsUnder(k) : s # id => sessions'[s] = sessions[s]
      BY DEF SessionsUnder
    <3> QED
      BY <1>1, <3>1 DEF AdmittedUnder
  <2>3. new = [Row(id) EXCEPT !.status = status]
    OBVIOUS
  <2> HIDE DEF Row, new
  <2>4. [AdmittedUnder(k) EXCEPT ![id].status = status] =
            [s \in SessionsUnder(k) |-> IF s = id THEN [Row(id) EXCEPT !.status = status] ELSE Row(s)]
    BY ONLY <2>1, id \in SessionsUnder(k)
  <2> QED
    BY ONLY <2>2, <2>3, <2>4
<1> QED
  BY <1>1, <1>2

LEMMA SeenEmitStep ==
    ASSUME RecoveryInv, NEW now \in Times, NEW signed \in SignedRequests,
           EmitContribution(signed, now),
           NEW k \in DOMAIN enrollments, NEW offer, enrollments[k].offer = offer
    PROVE  SeenStep(k, offer, now)
<1> DEFINE id == signed.target
<1>1. /\ id \in DOMAIN sessions /\ now >= highWater /\ enrollments' = enrollments
      /\ ReleaseVerdict(id, now) = "emit"
  BY DEF EmitContribution, ReadSession, Transaction
<1>2. PICK given :
        /\ sessions' = [sessions EXCEPT ![id].status = "released", ![id].contribution = given]
        /\ given = Contribution(enrollments[sessions[id].enrollment].custody,
                                sessions[id].request, now)
  BY DEF EmitContribution, Emitted
<1>3. given # None
  BY <1>1, <1>2, EmittedIsThere
<1>4. EndedAmong({k})' = EndedAmong({k})
  BY <1>1 DEF EndedAmong
<1>5. sessions[id] \in SessionRows
  BY <1>1 DEF RecoveryInv, TypeInv, TypeOK, SessionsOK
<1> HIDE DEF id
<1>6. /\ DOMAIN sessions' = DOMAIN sessions
      /\ \A s \in DOMAIN sessions : s # id => sessions'[s] = sessions[s]
      /\ sessions'[id].status = "released" /\ sessions'[id].contribution = given
      /\ sessions'[id].enrollment = sessions[id].enrollment
      /\ sessions'[id].cooldownEndsAt = sessions[id].cooldownEndsAt
      /\ sessions'[id].expiresAt = sessions[id].expiresAt
  <2> DEFINE row == [sessions[id] EXCEPT !.status = "released", !.contribution = given]
  <2>1. sessions' = [sessions EXCEPT ![id] = row]
    BY <1>1, <1>2
  <2>2. /\ row.status = "released" /\ row.contribution = given
        /\ row.enrollment = sessions[id].enrollment
        /\ row.cooldownEndsAt = sessions[id].cooldownEndsAt
        /\ row.expiresAt = sessions[id].expiresAt
    BY <1>5 DEF SessionRows
  <2> HIDE DEF row
  <2> QED
    BY ONLY <1>1, <2>1, <2>2
<1>7. CASE sessions[id].enrollment # k
  <2>1. SessionsUnder(k)' = SessionsUnder(k) /\ id \notin SessionsUnder(k)
    BY <1>1, <1>6, <1>7 DEF SessionsUnder
  <2> QED
    BY <1>1, <1>6, <2>1, SeenUnmoved DEF SessionsUnder
<1>8. CASE sessions[id].enrollment = k
  <2>1. id \in SessionsUnder(k)
    BY <1>1, <1>8 DEF SessionsUnder
  <2>2. /\ SessionsUnder(k)' = SessionsUnder(k)
        /\ AdmittedUnder(k)' = [AdmittedUnder(k) EXCEPT ![id].status = "released"]
    BY <1>6, <2>1, SeenStatusMoves
  <2>3. GivenUnder(k)' = GivenUnder(k) \cup {id}
    BY <1>3, <1>6, <2>1, <2>2 DEF GivenUnder, SessionsUnder
  <2>4. ({k} \X GivenUnder(k))' = ({k} \X GivenUnder(k)) \cup {<<k, id>>}
    BY <2>3
  <2>5. Seen(k, offer, now, <<>>, {})!ReadVerdict(k, id) = "emit"
    BY <1>1, <2>1, SeenReadIs
  <2>6. [j \in {k} |-> AdmittedUnder(j)]' =
            [[j \in {k} |-> AdmittedUnder(j)] EXCEPT ![k][id].status = "released"]
    BY <2>2
  <2>7. Seen(k, offer, now, <<>>, {})!ServeRead(k, id)
    BY <1>1, <1>4, <2>4, <2>5, <2>6 DEF Seen!ServeRead
  <2> QED
    BY <2>1, <2>7 DEF SeenStep
<1> QED
  BY <1>7, <1>8

LEMMA SeenCancelStep ==
    ASSUME RecoveryInv, NEW now \in Times, NEW signed \in SignedRequests,
           CancelRecovery(signed, now),
           NEW k \in DOMAIN enrollments, NEW offer, enrollments[k].offer = offer
    PROVE  SeenStep(k, offer, now)
<1> DEFINE id == signed.target
           status == CancelledStatus(id, signed.by, now)
<1>1. /\ id \in DOMAIN sessions /\ enrollments' = enrollments
      /\ sessions' = [sessions EXCEPT ![id].status = status]
      /\ signed.by \in {"holder", "candidate"}
  BY CancelFacts DEF CancelRecovery, CancelAnswer
<1>2. EndedAmong({k})' = EndedAmong({k})
  BY <1>1 DEF EndedAmong
<1>3. status = IF Live(id, now) THEN IF signed.by = "holder" THEN "vetoed" ELSE "cancelled"
               ELSE sessions[id].status
  BY DEF CancelledStatus
<1>4. sessions[id] \in SessionRows
  BY <1>1 DEF RecoveryInv, TypeInv, TypeOK, SessionsOK
<1> HIDE DEF id, status
<1>5. /\ DOMAIN sessions' = DOMAIN sessions
      /\ \A s \in DOMAIN sessions : s # id => sessions'[s] = sessions[s]
      /\ sessions'[id].status = status
      /\ sessions'[id].contribution = sessions[id].contribution
      /\ sessions'[id].enrollment = sessions[id].enrollment
      /\ sessions'[id].cooldownEndsAt = sessions[id].cooldownEndsAt
      /\ sessions'[id].expiresAt = sessions[id].expiresAt
  BY <1>1, <1>4 DEF SessionRows
<1>6. CASE sessions[id].enrollment # k
  <2>1. SessionsUnder(k)' = SessionsUnder(k) /\ id \notin SessionsUnder(k)
    BY <1>1, <1>5, <1>6 DEF SessionsUnder
  <2> QED
    BY <1>1, <1>5, <2>1, SeenUnmoved DEF SessionsUnder
<1>7. CASE sessions[id].enrollment = k /\ ~Live(id, now)
  <2>1. sessions'[id] = sessions[id]
    BY <1>1, <1>3, <1>4, <1>7 DEF SessionRows
  <2>2. DOMAIN sessions' = DOMAIN sessions /\ \A s \in DOMAIN sessions : sessions'[s] = sessions[s]
    BY <1>1, <2>1
  <2>3. SessionsUnder(k)' = SessionsUnder(k)
    BY <2>2 DEF SessionsUnder
  <2> QED
    BY <1>1, <2>2, <2>3, SeenUnmoved DEF SessionsUnder
<1>8. CASE sessions[id].enrollment = k /\ Live(id, now)
  <2>1. id \in SessionsUnder(k)
    BY <1>1, <1>8 DEF SessionsUnder
  <2>2. /\ SessionsUnder(k)' = SessionsUnder(k)
        /\ AdmittedUnder(k)' = [AdmittedUnder(k) EXCEPT ![id].status = status]
    BY <1>5, <2>1, SeenStatusMoves
  <2>3. GivenUnder(k)' = GivenUnder(k)
    BY <1>5, <2>1, <2>2 DEF GivenUnder, SessionsUnder
  <2>4. /\ AdmittedUnder(k)[id].status \in {"cooling_down", "released"}
        /\ now < AdmittedUnder(k)[id].expiresAt
        /\ id \in DOMAIN AdmittedUnder(k)
    BY <1>8, <2>1 DEF AdmittedUnder, Live
  <2>5. CASE signed.by = "holder"
    <3>1. status = "vetoed"
      BY <1>3, <1>8, <2>5
    <3>2. Seen(k, offer, now, <<>>, {})!Veto(k, id)
      BY <1>1, <1>2, <2>2, <2>3, <2>4, <3>1 DEF Seen!Veto
    <3> QED
      BY <2>1, <3>2 DEF SeenStep
  <2>6. CASE signed.by = "candidate"
    <3>1. status = "cancelled"
      BY <1>3, <1>8, <2>6
    <3>2. SeenCancel(k, now, id)
      BY <1>1, <1>2, <2>2, <2>3, <2>4, <3>1 DEF SeenCancel
    <3> QED
      BY <2>1, <3>2 DEF SeenStep
  <2> QED
    BY <1>1, <2>5, <2>6
<1> QED
  BY <1>6, <1>7, <1>8

LEMMA SeenEndStep ==
    ASSUME RecoveryInv, NEW now \in Times, NEW signed \in SignedRequests,
           EndEnrollment(signed, now),
           NEW k \in DOMAIN enrollments, NEW offer, enrollments[k].offer = offer
    PROVE  SeenStep(k, offer, now)
<1> DEFINE c == CurrentKey(signed.target)
<1>1. /\ c \in DOMAIN enrollments /\ Tombstone(enrollments'[c].status) /\ sessions' = sessions
      /\ \A j \in DOMAIN enrollments : j # c => enrollments'[j] = enrollments[j]
  BY EndFacts DEF RecoveryInv
<1>2. enrollments' = Ended(c, signed.operation)
  BY DEF EndEnrollment
<1>3. enrollments[c] \in EnrollmentRows
  BY <1>1 DEF RecoveryInv, TypeInv, TypeOK, EnrollmentsOK
<1> HIDE DEF c
<1>4. enrollments'[c].attemptsUsed = enrollments[c].attemptsUsed
  BY <1>1, <1>2, <1>3 DEF Ended, EnrollmentRows
<1>5. /\ SessionsUnder(k)' = SessionsUnder(k) /\ AdmittedUnder(k)' = AdmittedUnder(k)
      /\ GivenUnder(k)' = GivenUnder(k)
  BY <1>1 DEF SessionsUnder, AdmittedUnder, GivenUnder
<1>6. CASE k # c \/ Tombstone(enrollments[k].status)
  BY <1>1, <1>4, <1>5, <1>6, SeenUnmoved
<1>7. CASE k = c /\ ~Tombstone(enrollments[k].status)
  <2>1. EndedAmong({k}) = {} /\ EndedAmong({k})' = {k}
    BY <1>1, <1>7 DEF EndedAmong
  <2>2. Seen(k, offer, now, <<>>, {})!EndCustody(k)
    BY <1>4, <1>5, <1>7, <2>1 DEF Seen!EndCustody
  <2> QED
    BY <2>2 DEF SeenStep
<1> QED
  BY <1>6, <1>7

LEMMA SeenEnrollStep ==
    ASSUME RecoveryInv, NEW now \in Times, NEW challenge, NEW offered \in Offers,
           Enroll(challenge, offered, now), NEW k \in DOMAIN enrollments, NEW offer
    PROVE  SeenStep(k, offer, now)
<1> DEFINE key == <<offered.id, offered.sequence>>
<1>1. key \notin DOMAIN enrollments
  BY EnrollAnswerFacts DEF Enroll, Known
<1>2. sessions' = sessions /\ enrollments'[k] = enrollments[k]
  BY <1>1 DEF Enroll, Insert
<1>3. SessionsUnder(k)' = SessionsUnder(k)
  BY <1>2 DEF SessionsUnder
<1> QED
  BY <1>2, <1>3, SeenUnmoved

LEMMA SeenStepMaps == RecoveryInv /\ [Next]_vars => [StepAsSeen]_vars
<1> SUFFICES ASSUME RecoveryInv, Next PROVE StepAsSeen
  OBVIOUS
<1>1. PICK now \in Times : Step(now)
  BY DEF Next
<1>2. now >= highWater
  BY <1>1 DEF Step, Change, Read, Transaction, CreateInvitation, IssueChallenge, Enroll,
              EnrollKnownId, BeginRecovery, CancelRecovery, EndEnrollment, EmitContribution,
              ResendContribution, ReportRecovery, ReadSession, ReadEnrollment
<1>3. ASSUME NEW k \in DOMAIN enrollments, NEW offer \in Offers, enrollments[k].offer = offer
      PROVE  SeenStep(k, offer, now)
  <2>1. ASSUME UNCHANGED <<enrollments, sessions>>
        PROVE  SeenStep(k, offer, now)
    <3>1. SessionsUnder(k)' = SessionsUnder(k)
      BY <2>1 DEF SessionsUnder
    <3> QED
      BY <2>1, <3>1, SeenUnmoved
  <2>2. CASE Change(now)
    BY <1>3, <2>1, <2>2, QuietActions, SeenEnrollStep, SeenBeginStep, SeenCancelStep, SeenEndStep
       DEF Change
  <2>3. CASE \E signed \in SignedRequests : Read(signed, now)
    BY <1>3, <2>1, <2>3, QuietActions, SeenEmitStep DEF Read
  <2> QED
    BY <1>1, <2>2, <2>3 DEF Step
<1> QED
  BY <1>2, <1>3 DEF StepAsSeen

\* What any operation of the store does to the sessions, the attempts and the
\* custody of an enrollment is what the client's model lets a trustee do, for any
\* number of enrollments side by side: serve a begin or a read by its verdict, be
\* vetoed or ended; or nothing (store.rs as a whole, against recover in
\* tools/client.py).
THEOREM StoreServesAsSeen == Spec => ServesAsSeen
<1>1. RecoveryInv /\ [Next]_vars => [StepAsSeen]_vars
  BY SeenStepMaps
<1> QED
  BY <1>1, RecoveryInvariant, PTL DEF Spec, ServesAsSeen

\* A begin that verifies and binds, its retries included, and a read are answered
\* as the client's model has them answered, at every time the store still accepts
\* (begin_recovery, read_recovery).
THEOREM StoreAnswersAsSeen == Spec => []AnswersAsSeen
<1>1. RecoveryInv => AnswersAsSeen
  <2> SUFFICES ASSUME RecoveryInv, NEW now \in Times, NEW k \in DOMAIN enrollments,
                      NEW offer \in Offers, now >= highWater, enrollments[k].offer = offer
               PROVE  /\ \A request \in SessionRequests :
                            /\ VerifySession(request) = "ok"
                            /\ Binds(request, offer)
                            /\ request.id \in DOMAIN sessions =>
                                  sessions[request.id].request = request
                            => BeginAnswer(request, now) = SeenVerdict(k, offer, now, request)
                      /\ \A s \in SessionsUnder(k) :
                            ReleaseVerdict(s, now) = Seen(k, offer, now, <<>>, {})!ReadVerdict(k, s)
    BY DEF AnswersAsSeen
  <2>1. ASSUME NEW request \in SessionRequests, VerifySession(request) = "ok",
               Binds(request, offer),
               request.id \in DOMAIN sessions => sessions[request.id].request = request
        PROVE  BeginAnswer(request, now) = SeenVerdict(k, offer, now, request)
    <3>1. k[1] = request.enrollment
      BY <2>1 DEF Binds, RecoveryInv, TypeInv, TypeOK, EnrollmentsOK
    <3>2. Known(request.enrollment) /\ CurrentKey(request.enrollment) = k
      <4>1. Known(request.enrollment)
        BY <3>1 DEF Known
      <4> QED
        BY <3>1, <4>1, CurrentKeyFacts DEF RecoveryInv, TypeInv, TypeOK, OneSequencePerId
    <3>3. SeenVerdict(k, offer, now, request) =
              IF request.id \in SessionsUnder(k) THEN "recorded"
              ELSE Admit(EnrollmentState(k), offer.policy, enrollments[k].attemptsUsed,
                         request, now, Skew)
      BY SeenVerdictIs
    <3>4. CASE request.id \in DOMAIN sessions
      <4> DEFINE j == sessions[request.id].enrollment
      <4>1. j \in DOMAIN enrollments /\ Binds(request, enrollments[j].offer)
        BY <2>1, <3>4 DEF RecoveryInv, SessionSound, TypeInv, TypeOK, SessionsOK
      <4>2. j[1] = request.enrollment
        BY <4>1 DEF Binds, RecoveryInv, TypeInv, TypeOK, EnrollmentsOK
      <4>3. j = k
        BY <3>1, <4>1, <4>2 DEF RecoveryInv, TypeInv, OneSequencePerId
      <4>4. request.id \in SessionsUnder(k)
        BY <3>4, <4>3 DEF SessionsUnder
      <4> QED
        BY <2>1, <3>3, <3>4, <4>4 DEF BeginAnswer
    <3>5. CASE request.id \notin DOMAIN sessions
      <4>1. request.id \notin SessionsUnder(k)
        BY <3>5 DEF SessionsUnder
      <4> QED
        BY <2>1, <3>2, <3>3, <3>5, <4>1 DEF BeginAnswer, Current
    <3> QED
      BY <3>4, <3>5
  <2>2. ASSUME NEW s \in SessionsUnder(k)
        PROVE  ReleaseVerdict(s, now) = Seen(k, offer, now, <<>>, {})!ReadVerdict(k, s)
    BY SeenReadIs
  <2> QED
    BY <2>1, <2>2
<1> QED
  BY <1>1, RecoveryInvariant, PTL

-----------------------------------------------------------------------------
(* The store and the enrolling client's model.  What a recorded close is       *)
(* answered with is right because it is recorded only with custody ended.      *)

EndsRecorded ==
    \A o \in DOMAIN outcomes, q \in SignedRequests :
        outcomes[o].request = q /\ q.operation # "cancel-recovery" =>
            Tombstone(Current(q.target).status)

\* Custody under an id on record, after a step.
LEMMA CustodyAtNext ==
    ASSUME RecoveryInv, Next, NEW id, Known(id)
    PROVE  /\ CurrentKey(id) \in DOMAIN enrollments
           /\ Current(id)' = enrollments'[CurrentKey(id)]
           /\ Tombstone(Current(id).status) => Tombstone(Current(id).status)'
           /\ CustodyAt(id)' =
                 IF Tombstone(enrollments'[CurrentKey(id)].status) THEN "closed" ELSE "live"
<1>1. CurrentKey(id) \in DOMAIN enrollments /\ Known(id)' /\ CurrentKey(id)' = CurrentKey(id)
  BY CurrentKeyKept
<1>2. Current(id)' = enrollments'[CurrentKey(id)]
  BY <1>1 DEF Current
<1>3. Tombstone(Current(id).status) => Tombstone(enrollments'[CurrentKey(id)].status)
  BY <1>1, EnrollmentFrame DEF Current
<1>4. Tombstone(Current(id).status)' <=> Tombstone(enrollments'[CurrentKey(id)].status)
  BY <1>2 DEF Tombstone
<1> QED
  BY <1>1, <1>2, <1>3, <1>4 DEF CustodyAt

\* An outcome that a step adds is a cancellation, or the end of the custody it
\* is about.
LEMMA AddedOutcome ==
    ASSUME RecoveryInv, Next, NEW o \in DOMAIN outcomes', o \notin DOMAIN outcomes,
           NEW q, outcomes'[o].request = q, q.operation # "cancel-recovery"
    PROVE  Known(q.target) /\ Tombstone(enrollments'[CurrentKey(q.target)].status)
<1>1. PICK now \in Times : Step(now)
  BY DEF Next
<1>2. PICK signed \in SignedRequests : CancelRecovery(signed, now) \/ EndEnrollment(signed, now)
  BY <1>1 DEF Step, Change, Read, CreateInvitation, IssueChallenge, Enroll, EnrollKnownId,
              BeginRecovery, EmitContribution, ResendContribution, ReportRecovery, ReadSession,
              ReadEnrollment
<1>3. CASE CancelRecovery(signed, now)
  <2>1. outcomes'[o].request = signed
    BY <1>3 DEF CancelRecovery, RecordOutcome, Insert
  <2> QED
    BY <1>3, <2>1, CancelFacts
<1>4. CASE EndEnrollment(signed, now)
  <2> DEFINE k == CurrentKey(signed.target)
  <2> DEFINE key == <<EnrollmentScope(k), signed.requestId>>
  <2>1. /\ Tombstone(enrollments'[k].status)
        /\ DOMAIN outcomes' = DOMAIN outcomes \cup {key} /\ outcomes'[key].request = signed
    BY <1>4, EndFacts DEF RecoveryInv
  <2>2. Known(signed.target)
    BY <1>4 DEF EndEnrollment, EndAnswer
  <2>3. o = key
    BY <2>1
  <2> HIDE DEF key
  <2>4. q = signed
    BY <2>1, <2>3
  <2> QED
    BY <2>1, <2>2, <2>4
<1> QED
  BY <1>2, <1>3, <1>4

LEMMA EndsRecordedStep == AdmissionInv /\ EndsRecorded /\ [Next]_vars => EndsRecorded'
<1> SUFFICES ASSUME AdmissionInv, EndsRecorded, [Next]_vars, NEW o \in DOMAIN outcomes',
                    NEW q \in SignedRequests, outcomes'[o].request = q,
                    q.operation # "cancel-recovery"
             PROVE  Tombstone(Current(q.target).status)'
  BY DEF EndsRecorded
<1>1. CASE UNCHANGED vars
  <2>1. CurrentKey(q.target)' = CurrentKey(q.target)
    BY <1>1 DEF CurrentKey, vars
  <2> QED
    BY <1>1, <2>1 DEF EndsRecorded, Current, Tombstone, vars
<1>2. CASE Next
  <2>1. RecoveryInv
    BY DEF AdmissionInv
  <2>2. Known(q.target) /\ Tombstone(enrollments'[CurrentKey(q.target)].status)
    <3>1. CASE o \in DOMAIN outcomes
      <4>1. outcomes[o].request = q
        BY <1>2, <2>1, <3>1, OutcomeFrame
      <4>2. Known(q.target) /\ Tombstone(Current(q.target).status)
        BY <3>1, <4>1 DEF AdmissionInv, RetriesSound, OutcomeFound, EndsRecorded
      <4> QED
        BY <1>2, <2>1, <4>2, CurrentKeyKept, EnrollmentFrame DEF Current
    <3>2. CASE o \notin DOMAIN outcomes
      BY <1>2, <2>1, <3>2, AddedOutcome
    <3> QED
      BY <3>1, <3>2
  <2>3. Current(q.target)' = enrollments'[CurrentKey(q.target)]
    BY <1>2, <2>1, <2>2, CustodyAtNext
  <2> QED
    BY <2>2, <2>3 DEF Tombstone
<1> QED
  BY <1>1, <1>2

LEMMA EndsRecordedInvariant == Spec => []EndsRecorded
<1>1. Init => EndsRecorded
  BY DEF Init, EndsRecorded
<1> QED
  BY <1>1, AdmissionInvariant, EndsRecordedStep, PTL DEF Spec

\* Only an enroll or an end of custody moves the custody of any id.
LEMMA SlotUnmoved ==
    ASSUME RecoveryInv, Next, NEW id, DOMAIN enrollments' = DOMAIN enrollments,
           \A k \in DOMAIN enrollments : enrollments'[k].status = enrollments[k].status
    PROVE  CustodyAt(id)' = CustodyAt(id)
<1>1. CASE Known(id)
  BY <1>1, CustodyAtNext DEF CustodyAt, Current, Tombstone
<1>2. CASE ~Known(id)
  BY <1>2 DEF CustodyAt, Known
<1> QED
  BY <1>1, <1>2

LEMMA SlotEnrollStep ==
    ASSUME RecoveryInv, Next, NEW now \in Times, NEW challenge \in Challenges, NEW offer \in Offers,
           Enroll(challenge, offer, now), NEW id
    PROVE  SlotStep(id, now)
<1> DEFINE key == <<offer.id, offer.sequence>>
<1>1. ~Known(offer.id) /\ AcceptEnrollment(offer, now) = "ok"
  BY EnrollAnswerFacts DEF Enroll
<1>2. /\ DOMAIN enrollments' = DOMAIN enrollments \cup {key}
      /\ enrollments'[key].status = "accepted"
      /\ \A k \in DOMAIN enrollments : k # key /\ enrollments'[k] = enrollments[k]
  BY <1>1 DEF Enroll, Insert, Known
<1>3. RecoveryInv'
  BY NextRecoveryInv
<1>4. CASE id = offer.id
  <2>1. Known(id)' /\ CurrentKey(id)' = key
    BY <1>2, <1>3, <1>4, CurrentKeyIsNext DEF RecoveryInv
  <2>2. CustodyAt(id) = "none" /\ CustodyAt(id)' = "live"
    BY <1>1, <1>2, <1>4, <2>1 DEF CustodyAt, Current, Tombstone
  <2>3. Slot(id)!ServeEnroll(1)
    BY <2>2 DEF Slot!ServeEnroll
  <2> QED
    BY <1>4, <2>2, <2>3 DEF SlotStep
<1>5. CASE id # offer.id
  <2>1. CASE Known(id)
    <3>1. CurrentKey(id) \in DOMAIN enrollments
      BY <2>1, CurrentKeyFacts DEF RecoveryInv, TypeInv, TypeOK
    <3> QED
      BY <1>2, <2>1, <3>1, CustodyAtNext DEF CustodyAt, Current, SlotStep
  <2>2. CASE ~Known(id)
    <3>1. ~Known(id)'
      BY <1>2, <1>5, <2>2 DEF Known
    <3> QED
      BY <2>2, <3>1 DEF CustodyAt, SlotStep
  <2> QED
    BY <2>1, <2>2
<1> QED
  BY <1>4, <1>5

LEMMA SlotEndStep ==
    ASSUME RecoveryInv, Next, NEW now \in Times, NEW signed \in SignedRequests,
           EndEnrollment(signed, now), NEW id
    PROVE  SlotStep(id, now)
<1> DEFINE k == CurrentKey(signed.target)
<1>1. /\ k \in DOMAIN enrollments /\ Tombstone(enrollments'[k].status)
      /\ DOMAIN enrollments' = DOMAIN enrollments
      /\ \A j \in DOMAIN enrollments : j # k => enrollments'[j] = enrollments[j]
  BY EndFacts DEF RecoveryInv
<1>2. Known(signed.target) /\ k[1] = signed.target
  BY CurrentKeyFacts DEF RecoveryInv, TypeInv, TypeOK, EndEnrollment, EndAnswer
<1>3. CASE id = signed.target
  <2>1. CustodyAt(id) \in {"live", "closed"} /\ CustodyAt(id)' = "closed"
    BY <1>1, <1>2, <1>3, CustodyAtNext DEF CustodyAt
  <2>2. Slot(id)!ServeClose(1)
    BY <2>1 DEF Slot!ServeClose
  <2> QED
    BY <1>3, <2>1, <2>2 DEF SlotStep
<1>4. CASE id # signed.target /\ Known(id)
  <2>1. CurrentKey(id) \in DOMAIN enrollments /\ CurrentKey(id)[1] = id
    BY <1>4, CurrentKeyFacts DEF RecoveryInv, TypeInv, TypeOK
  <2>2. enrollments'[CurrentKey(id)] = enrollments[CurrentKey(id)]
    BY <1>1, <1>2, <1>4, <2>1
  <2> QED
    BY <1>4, <2>2, CustodyAtNext DEF CustodyAt, Current, SlotStep
<1>5. CASE ~Known(id)
  <2>1. ~Known(id)'
    BY <1>1, <1>5 DEF Known
  <2> QED
    BY <1>5, <2>1 DEF CustodyAt, SlotStep
<1> QED
  BY <1>3, <1>4, <1>5

LEMMA SlotStepMaps ==
    ASSUME RecoveryInv, Next, NEW id
    PROVE  \E now \in Times : SlotStep(id, now)
<1>1. PICK now \in Times : Step(now)
  BY DEF Next
<1>2. ASSUME DOMAIN enrollments' = DOMAIN enrollments,
             \A k \in DOMAIN enrollments : enrollments'[k].status = enrollments[k].status
      PROVE  SlotStep(id, now)
  BY <1>2, SlotUnmoved DEF SlotStep
<1>3. ASSUME NEW request \in SessionRequests, BeginRecovery(request, now) PROVE SlotStep(id, now)
  <2> DEFINE k == CurrentKey(request.enrollment)
  <2>1. k \in DOMAIN enrollments /\ enrollments' = [enrollments EXCEPT ![k].attemptsUsed = @ + 1]
    BY <1>3, BeginAnswerFacts, CurrentKeyFacts
       DEF BeginRecovery, SpendAttempt, RecoveryInv, TypeInv, TypeOK
  <2>2. enrollments[k] \in EnrollmentRows
    BY <2>1 DEF RecoveryInv, TypeInv, TypeOK, EnrollmentsOK
  <2> HIDE DEF k
  <2> QED
    BY <1>2, <2>1, <2>2 DEF EnrollmentRows
<1>4. CASE Change(now)
  BY <1>2, <1>3, <1>4, SlotEnrollStep, SlotEndStep, QuietActions DEF Change, CancelRecovery
<1>5. CASE \E signed \in SignedRequests : Read(signed, now)
  <2>1. UNCHANGED enrollments
    BY <1>5, QuietActions DEF Read, EmitContribution, ReadSession
  <2> QED
    BY <1>2, <2>1
<1> QED
  BY <1>1, <1>4, <1>5 DEF Step

\* Custody under an id is taken by an enroll of that id and ended by a signed
\* request about it, as the model of the enrolling client has it, and moved by
\* nothing else, for any number of enrollments side by side (enroll,
\* end_enrollment, against enroll_to in tools/client.py).
THEOREM StoreServesSlots == Spec => ServesSlots
<1>1. RecoveryInv /\ [Next]_vars => [StepAsSlots]_vars
  BY SlotStepMaps DEF StepAsSlots
<1> QED
  BY <1>1, RecoveryInvariant, PTL DEF Spec, ServesSlots

\* What a receipt tells the enrolling client is so: accepted means custody taken,
\* closed means custody ended, and the holder's fresh close is refused only where
\* there never was custody (enroll, end_enrollment).
THEOREM StoreAnswersSlots == Spec => []AnswersSlots
<1>1. AdmissionInv /\ EndsRecorded => AnswersSlots
  <2> SUFFICES ASSUME AdmissionInv, EndsRecorded, NEW now \in Times PROVE
        /\ \A challenge \in Challenges, offer \in Offers :
              /\ EnrollAnswer(challenge, offer, now) = "accept" => CustodyAt(offer.id) = "none"
              /\ EnrollAnswer(challenge, offer, now) = "recorded" => CustodyAt(offer.id) = "live"
        /\ \A signed \in SignedRequests :
              LET answer == EndAnswer(signed, now)
                  state == CustodyAt(signed.target) IN
              signed.operation = "close-enrollment" =>
                /\ answer \in {"ok", "recorded"} => Slot(signed.target)!ClosedReceipt(state)
                /\ answer = "recorded" => state = "closed"
                /\ Slot(signed.target)!ClosedReceipt(state)
                      /\ VerifySignature(signed, Current(signed.target).offer.key)
                      /\ CheckFresh(signed, now)
                    => answer # "invalid_request"
    BY DEF AnswersSlots
  <2>1. ASSUME NEW challenge \in Challenges, NEW offer \in Offers,
               EnrollAnswer(challenge, offer, now) = "accept"
        PROVE  CustodyAt(offer.id) = "none"
    BY <2>1, EnrollAnswerFacts DEF CustodyAt
  <2>2. ASSUME NEW challenge \in Challenges, NEW offer \in Offers,
               EnrollAnswer(challenge, offer, now) = "recorded"
        PROVE  CustodyAt(offer.id) = "live"
    <3> DEFINE k == CHOOSE j \in Recorded(challenge) : TRUE
    <3>1. /\ k \in DOMAIN enrollments /\ enrollments[k].offer = offer
          /\ ~Tombstone(enrollments[k].status)
      BY <2>2 DEF EnrollAnswer, Recorded, KnownAnswer, AcceptEnrollment, AdmitEnvelope, Policy,
                  CheckArtifact
    <3> HIDE DEF k
    <3>2. k[1] = offer.id
      BY <3>1 DEF AdmissionInv, RecoveryInv, TypeInv, TypeOK, EnrollmentsOK
    <3>3. Known(offer.id) /\ CurrentKey(offer.id) = k
      BY <3>1, <3>2, CurrentKeyIs DEF AdmissionInv, RecoveryInv
    <3> QED
      BY <3>1, <3>3 DEF CustodyAt, Current
  <2>3. ASSUME NEW signed \in SignedRequests, signed.operation = "close-enrollment"
        PROVE  LET answer == EndAnswer(signed, now)
                   state == CustodyAt(signed.target) IN
               /\ answer \in {"ok", "recorded"} => Slot(signed.target)!ClosedReceipt(state)
               /\ answer = "recorded" => state = "closed"
               /\ Slot(signed.target)!ClosedReceipt(state)
                     /\ VerifySignature(signed, Current(signed.target).offer.key)
                     /\ CheckFresh(signed, now)
                   => answer # "invalid_request"
    <3> DEFINE id == signed.target
    <3> DEFINE o == <<EnrollmentScope(CurrentKey(id)), signed.requestId>>
    <3>1. Slot(id)!ClosedReceipt(CustodyAt(id)) <=> Known(id)
      BY DEF CustodyAt, Slot!ClosedReceipt
    <3>2. EndAnswer(signed, now) \in {"ok", "recorded"} => Known(id)
      BY DEF EndAnswer
    <3>3. ASSUME EndAnswer(signed, now) = "recorded" PROVE CustodyAt(id) = "closed"
      <4>1. o \in DOMAIN outcomes /\ outcomes[o].request = signed /\ Known(id)
        BY <3>3 DEF EndAnswer, OutcomeAnswer
      <4>2. Tombstone(Current(id).status)
        BY <2>3, <4>1 DEF EndsRecorded
      <4> QED
        BY <4>1, <4>2 DEF CustodyAt
    <3>4. Known(id) /\ VerifySignature(signed, Current(id).offer.key) /\ CheckFresh(signed, now)
             => EndAnswer(signed, now) # "invalid_request"
      BY DEF EndAnswer, OutcomeAnswer
    <3> QED
      BY <3>1, <3>2, <3>3, <3>4
  <2> QED
    BY <2>1, <2>2, <2>3
<1> QED
  BY <1>1, AdmissionInvariant, EndsRecordedInvariant, PTL
=============================================================================
