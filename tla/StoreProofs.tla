----------------------------- MODULE StoreProofs -----------------------------
(* Theorems about the store, for every choice of codes, challenges, offers,    *)
(* requests, limits and clock range: its types, what may be released, to whom  *)
(* and until when, and what no committed operation may do.                     *)
EXTENDS StoreSafety, TLAPS

\* Inserting a row adds its key and leaves every other row alone.
LEMMA InsertFacts ==
    ASSUME NEW table, NEW key, NEW row
    PROVE  /\ DOMAIN Insert(table, key, row) = DOMAIN table \cup {key}
           /\ Insert(table, key, row)[key] = row
           /\ \A k \in DOMAIN table : k # key => Insert(table, key, row)[k] = table[k]
BY DEF Insert

\* With one sequence per enrollment id, load_current_enrollment finds it.
LEMMA CurrentKeyFacts ==
    ASSUME EnrollmentsOK, OneSequencePerId, NEW id, Known(id)
    PROVE  /\ CurrentKey(id) \in DOMAIN enrollments
           /\ CurrentKey(id)[1] = id
<1>1. PICK k \in DOMAIN enrollments : k[1] = id
  BY DEF Known
<1>2. k[2] \in Nat
  BY <1>1, RequestsAssumption DEF EnrollmentsOK, EnrollmentRows
<1>3. \A other \in DOMAIN enrollments : other[1] = id => other[2] <= k[2]
  BY <1>1, <1>2 DEF OneSequencePerId
<1> QED
  BY <1>1, <1>3 DEF CurrentKey

-----------------------------------------------------------------------------
(* Type correctness, together with OneSequencePerId, which it rests on: only   *)
(* then is CurrentKey a row.                                                   *)

TypeInv == TypeOK /\ OneSequencePerId

LEMMA InitTypeInv == Init => TypeInv
BY StoreAssumption DEF Init, TypeInv, TypeOK, InvitationsOK, ChallengesOK, EnrollmentsOK,
       SessionsOK, OutcomesOK, OneSequencePerId, Times

LEMMA CreateInvitationTypeInv ==
    ASSUME TypeInv, NEW now \in Times, NEW code \in Codes, CreateInvitation(code, now)
    PROVE  TypeInv'
<1> USE DEF TypeInv
<1>1. InvitationsOK'
  BY InsertFacts, StoreAssumption DEF TypeOK, InvitationsOK, CreateInvitation, Times, Insert
<1>2. ChallengesOK'
  BY InsertFacts DEF TypeOK, ChallengesOK, CreateInvitation, Insert
<1>3. EnrollmentsOK' /\ SessionsOK' /\ OutcomesOK' /\ OneSequencePerId'
  BY DEF TypeOK, EnrollmentsOK, SessionsOK, OutcomesOK, OneSequencePerId, CreateInvitation
<1> QED
  BY <1>1, <1>2, <1>3 DEF TypeOK, CreateInvitation, Transaction

LEMMA IssueChallengeTypeInv ==
    ASSUME TypeInv, NEW now \in Times, NEW code \in Codes, NEW c \in Challenges,
           IssueChallenge(code, c, now)
    PROVE  TypeInv'
<1> USE DEF TypeInv
<1>1. ChallengesOK'
  BY StoreAssumption
     DEF TypeOK, ChallengesOK, IssueChallenge, MayIssue, InvitationOpen, Times, Insert
<1>2. EnrollmentsOK'
  BY DEF TypeOK, EnrollmentsOK, IssueChallenge, Insert
<1>3. InvitationsOK' /\ SessionsOK' /\ OutcomesOK' /\ OneSequencePerId'
  BY DEF TypeOK, InvitationsOK, SessionsOK, OutcomesOK, OneSequencePerId, IssueChallenge
<1> QED
  BY <1>1, <1>2, <1>3 DEF TypeOK, IssueChallenge, Transaction

\* Spending marks rows of the challenge and invitation tables, no more.
LEMMA SpendChallengeFacts ==
    ASSUME InvitationsOK, ChallengesOK, NEW c, NEW now, ChallengeOpen(c, now),
           SpendChallenge(c)
    PROVE  /\ InvitationsOK' /\ ChallengesOK'
           /\ DOMAIN challenges' = DOMAIN challenges
           /\ c \in DOMAIN challenges
<1>1. DOMAIN challenges' = DOMAIN challenges /\ DOMAIN invitations' = DOMAIN invitations
  BY DEF SpendChallenge
<1>2. c \in DOMAIN challenges
  BY DEF ChallengeOpen
<1>3. InvitationsOK'
  BY <1>1 DEF InvitationsOK, SpendChallenge
<1>4. ChallengesOK'
  BY <1>1 DEF ChallengesOK, SpendChallenge
<1> QED
  BY <1>1, <1>2, <1>3, <1>4

\* What enroll has established when it takes custody, or spends an invitation.
LEMMA EnrollAnswerFacts ==
    ASSUME NEW c, NEW offer, NEW now
    PROVE  /\ EnrollAnswer(c, offer, now) = "accept" =>
                 /\ Recorded(c) = {} /\ ChallengeOpen(c, now)
                 /\ AcceptEnrollment(offer, now) = "ok" /\ ~Known(offer.id)
           /\ EnrollAnswer(c, offer, now) = "spend" => ChallengeOpen(c, now)
BY DEF EnrollAnswer, KnownAnswer, AcceptEnrollment, AdmitEnvelope, Policy, CheckArtifact

LEMMA EnrollTypeInv ==
    ASSUME TypeInv, NEW now \in Times, NEW c \in Challenges, NEW offer \in Offers,
           Enroll(c, offer, now)
    PROVE  TypeInv'
<1> USE DEF TypeInv
<1>1. ChallengeOpen(c, now) /\ ~Known(offer.id) /\ SpendChallenge(c)
  BY EnrollAnswerFacts DEF Enroll
<1>2. InvitationsOK' /\ ChallengesOK' /\ DOMAIN challenges' = DOMAIN challenges
        /\ c \in DOMAIN challenges
  BY <1>1, SpendChallengeFacts DEF TypeOK
<1>3. EnrollmentsOK'
  BY <1>2 DEF TypeOK, EnrollmentsOK, EnrollmentRows, EnrollmentKeys, EnrollmentStatus,
              Enroll, Insert, Times
<1>4. SessionsOK'
  BY DEF TypeOK, SessionsOK, Enroll, Insert
<1>5. OneSequencePerId'
  BY <1>1 DEF OneSequencePerId, Known, Enroll, Insert
<1> QED
  BY <1>2, <1>3, <1>4, <1>5 DEF TypeOK, OutcomesOK, Enroll, Transaction

LEMMA EnrollKnownIdTypeInv ==
    ASSUME TypeInv, NEW now \in Times, NEW c \in Challenges, NEW offer \in Offers,
           EnrollKnownId(c, offer, now)
    PROVE  TypeInv'
<1> USE DEF TypeInv
<1>1. ChallengeOpen(c, now) /\ SpendChallenge(c)
  BY EnrollAnswerFacts DEF EnrollKnownId
<1>2. InvitationsOK' /\ ChallengesOK' /\ DOMAIN challenges' = DOMAIN challenges
  BY <1>1, SpendChallengeFacts DEF TypeOK
<1>3. EnrollmentsOK' /\ SessionsOK' /\ OutcomesOK' /\ OneSequencePerId'
  BY <1>2 DEF TypeOK, EnrollmentsOK, SessionsOK, OutcomesOK, OneSequencePerId, EnrollKnownId
<1> QED
  BY <1>2, <1>3 DEF TypeOK, EnrollKnownId, Transaction

\* What begin_recovery has established when it admits a session.
LEMMA BeginAnswerFacts ==
    ASSUME NEW request, NEW now, BeginAnswer(request, now) = "ok"
    PROVE  /\ request.id \notin DOMAIN sessions
           /\ Known(request.enrollment)
           /\ Binds(request, Current(request.enrollment).offer)
           /\ Admit(EnrollmentState(CurrentKey(request.enrollment)),
                    Current(request.enrollment).offer.policy,
                    Current(request.enrollment).attemptsUsed, request, now, Skew) = "ok"
BY DEF BeginAnswer, VerifySession

LEMMA BeginRecoveryTypeInv ==
    ASSUME TypeInv, NEW now \in Times, NEW request \in SessionRequests,
           BeginRecovery(request, now)
    PROVE  TypeInv'
<1> USE DEF TypeInv
<1> DEFINE k == CurrentKey(request.enrollment)
<1>1. k \in DOMAIN enrollments
  BY BeginAnswerFacts, CurrentKeyFacts DEF BeginRecovery, TypeOK
<1>2. /\ enrollments' = [enrollments EXCEPT ![k].attemptsUsed = @ + 1]
      /\ sessions' = Insert(sessions, request.id, AdmittedSession(k, request, now))
  BY DEF BeginRecovery, SpendAttempt
<1> HIDE DEF k
<1>3. EnrollmentsOK' /\ OneSequencePerId' /\ DOMAIN enrollments' = DOMAIN enrollments
  BY <1>1, <1>2 DEF TypeOK, EnrollmentsOK, EnrollmentRows, OneSequencePerId, BeginRecovery
<1>4. AdmittedSession(k, request, now) \in SessionRows
  <2>1. k \in EnrollmentKeys /\ enrollments[k].offer \in Offers /\ enrollments[k].attemptsUsed \in Nat
    BY <1>1 DEF TypeOK, EnrollmentsOK, EnrollmentRows
  <2>2. CooldownEndsAt(enrollments[k].offer.policy, request, now) \in Int
    BY <2>1, RequestsAssumption DEF CooldownEndsAt, Times
  <2>3. enrollments[k].offer.policy.attempts - enrollments[k].attemptsUsed - 1 \in Int
    BY <2>1, RequestsAssumption
  <2>4. request.expiresAt \in Int
    BY RequestsAssumption
  <2> QED
    BY <2>1, <2>2, <2>3, <2>4 DEF AdmittedSession, SessionRows, SessionStatus, Times
<1>5. SessionsOK'
  BY <1>1, <1>2, <1>3, <1>4 DEF TypeOK, SessionsOK, SessionIds, AdmittedSession, Insert
<1> QED
  BY <1>3, <1>5 DEF TypeOK, InvitationsOK, ChallengesOK, OutcomesOK, BeginRecovery, Transaction

\* A spent nonce is a time, like those that survive the purge.
LEMMA SpendNonceFacts ==
    ASSUME NEW scope, NEW signed, NEW now \in Times, SpendNonce(scope, signed, now),
           \A n \in DOMAIN nonces : nonces[n] \in Times
    PROVE  \A n \in DOMAIN nonces' : nonces'[n] \in Times
BY DEF SpendNonce, Purge, Insert

\* What every candidate poll leaves alone.
LEMMA ReadSessionTypeInv ==
    ASSUME TypeInv, NEW now \in Times, NEW signed, ReadSession(signed, now)
    PROVE  /\ highWater' \in Times
           /\ InvitationsOK' /\ ChallengesOK' /\ EnrollmentsOK' /\ OutcomesOK'
           /\ OneSequencePerId'
           /\ \A n \in DOMAIN nonces' : nonces'[n] \in Times
           /\ signed.target \in DOMAIN sessions
<1>1. \A n \in DOMAIN nonces' : nonces'[n] \in Times
  BY SpendNonceFacts DEF ReadSession, TypeInv, TypeOK
<1> QED
  BY <1>1 DEF ReadSession, Transaction, TypeInv, TypeOK, InvitationsOK, ChallengesOK,
              EnrollmentsOK, OutcomesOK, OneSequencePerId

LEMMA EmitContributionTypeInv ==
    ASSUME TypeInv, NEW now \in Times, NEW signed \in SignedRequests,
           EmitContribution(signed, now)
    PROVE  TypeInv'
<1> DEFINE id == signed.target
<1> DEFINE session == sessions[id]
<1> DEFINE row == enrollments[session.enrollment]
<1> DEFINE given == Contribution(row.custody, session.request, now)
<1>1. ReadSession(signed, now)
  BY DEF EmitContribution
<1>2. /\ row.custody # None
      /\ sessions' = [sessions EXCEPT ![id].status = "released", ![id].contribution = given]
      /\ sent' = given
  BY DEF EmitContribution, Emitted
<1>3. id \in DOMAIN sessions /\ session \in SessionRows /\ session.request.id = id
        /\ session.enrollment \in DOMAIN enrollments
  BY <1>1 DEF ReadSession, TypeInv, TypeOK, SessionsOK
<1>4. row.custody \in Offers
  BY <1>2, <1>3 DEF TypeInv, TypeOK, EnrollmentsOK, EnrollmentRows
<1>5. given \in Contributions
  BY <1>3, <1>4 DEF Contribution, Contributions, SessionRows, SessionIds, Times
<1> HIDE DEF given
<1>6. SessionsOK'
  BY <1>1, <1>2, <1>3, <1>5 DEF SessionsOK, SessionRows, SessionStatus, TypeInv, TypeOK, ReadSession
<1> QED
  BY <1>1, <1>2, <1>5, <1>6, ReadSessionTypeInv DEF TypeInv, TypeOK

LEMMA ResendContributionTypeInv ==
    ASSUME TypeInv, NEW now \in Times, NEW signed \in SignedRequests,
           ResendContribution(signed, now)
    PROVE  TypeInv'
<1>1. ReadSession(signed, now)
  BY DEF ResendContribution
<1>2. SessionsOK'
  BY <1>1 DEF ResendContribution, ReadSession, SessionsOK, TypeInv, TypeOK
<1>3. sent' \in Contributions \cup {None}
  BY <1>1 DEF ResendContribution, ReadSession, SessionsOK, SessionRows, TypeInv, TypeOK
<1> QED
  BY <1>1, <1>2, <1>3, ReadSessionTypeInv DEF TypeInv, TypeOK

LEMMA ReportRecoveryTypeInv ==
    ASSUME TypeInv, NEW now \in Times, NEW signed \in SignedRequests,
           ReportRecovery(signed, now)
    PROVE  TypeInv'
<1>1. ReadSession(signed, now)
  BY DEF ReportRecovery
<1>2. SessionsOK' /\ sent' = None
  BY <1>1 DEF ReportRecovery, ReadSession, SessionsOK, TypeInv, TypeOK
<1> QED
  BY <1>1, <1>2, ReadSessionTypeInv DEF TypeInv, TypeOK

\* Every local state has a contract name, whatever the clock says.
LEMMA SessionStateNameType ==
    ASSUME NEW status \in SessionStatus, NEW a, NEW b, NEW now
    PROVE  SessionStateName(status, a, b, now) \in StateNames
BY DEF SessionStateName, SessionStatus, StateNames

LEMMA EnrollmentStateNameType ==
    ASSUME NEW status \in EnrollmentStatus, NEW b, NEW now
    PROVE  EnrollmentStateName(status, b, now) \in StateNames
BY DEF EnrollmentStateName, EnrollmentStatus, StateNames

\* Recording an outcome adds a well-formed row.
LEMMA RecordOutcomeFacts ==
    ASSUME OutcomesOK, NEW scope, NEW signed \in SignedRequests, NEW old \in StateNames,
           NEW new \in StateNames, NEW now \in Times, RecordOutcome(scope, signed, old, new, now)
    PROVE  OutcomesOK'
BY DEF RecordOutcome, OutcomesOK, OutcomeRows, Insert, Times

LEMMA CancelRecoveryTypeInv ==
    ASSUME TypeInv, NEW now \in Times, NEW signed \in SignedRequests,
           CancelRecovery(signed, now)
    PROVE  TypeInv'
<1> DEFINE id == signed.target
<1> DEFINE status == CancelledStatus(id, signed.by, now)
<1>1. id \in DOMAIN sessions
  BY DEF CancelRecovery, CancelAnswer
<1>2. sessions[id] \in SessionRows
  BY <1>1 DEF TypeInv, TypeOK, SessionsOK
<1>3. status \in SessionStatus
  BY <1>2 DEF CancelledStatus, SessionRows, SessionStatus
<1>4. /\ sessions' = [sessions EXCEPT ![id].status = status]
      /\ RecordOutcome(SessionScope(id), signed, StateOfSession(id, sessions[id].status, now),
                       StateOfSession(id, status, now), now)
  BY DEF CancelRecovery
<1> HIDE DEF status
<1>5. StateOfSession(id, sessions[id].status, now) \in StateNames
        /\ StateOfSession(id, status, now) \in StateNames
  BY <1>2, <1>3, SessionStateNameType DEF StateOfSession, SessionRows
<1>6. OutcomesOK'
  BY <1>4, <1>5, RecordOutcomeFacts DEF TypeInv, TypeOK
<1>7. SessionsOK'
  BY <1>1, <1>2, <1>3, <1>4 DEF TypeInv, TypeOK, SessionsOK, SessionRows, CancelRecovery
<1> QED
  BY <1>6, <1>7 DEF TypeInv, TypeOK, InvitationsOK, ChallengesOK, EnrollmentsOK,
                    OneSequencePerId, CancelRecovery, Transaction

LEMMA ReadEnrollmentTypeInv ==
    ASSUME TypeInv, NEW now \in Times, NEW signed \in SignedRequests,
           ReadEnrollment(signed, now)
    PROVE  TypeInv'
<1>1. \A n \in DOMAIN nonces' : nonces'[n] \in Times
  BY SpendNonceFacts DEF ReadEnrollment, TypeInv, TypeOK
<1> QED
  BY <1>1 DEF TypeInv, TypeOK, InvitationsOK, ChallengesOK, EnrollmentsOK, SessionsOK,
              OutcomesOK, OneSequencePerId, ReadEnrollment, Transaction

LEMMA EndEnrollmentTypeInv ==
    ASSUME TypeInv, NEW now \in Times, NEW signed \in SignedRequests,
           EndEnrollment(signed, now)
    PROVE  TypeInv'
<1> DEFINE k == CurrentKey(signed.target)
<1> DEFINE status == EndedStatus(signed.operation, enrollments[k].status)
<1> DEFINE StateOf(st) == EnrollmentStateName(st, enrollments[k].offer.expiresAt, now)
<1>1. k \in DOMAIN enrollments
  BY CurrentKeyFacts DEF EndEnrollment, EndAnswer, TypeInv, TypeOK
<1>2. enrollments[k] \in EnrollmentRows
  BY <1>1 DEF TypeInv, TypeOK, EnrollmentsOK
<1>3. status \in EnrollmentStatus
  BY DEF EndedStatus, EnrollmentStatus
<1>4. enrollments' = [enrollments EXCEPT ![k].status = EndedStatus(signed.operation, @),
                                        ![k].custody = None]
  BY DEF EndEnrollment, Ended
<1>5. RecordOutcome(EnrollmentScope(k), signed, StateOf(enrollments[k].status), StateOf(status), now)
  BY DEF EndEnrollment
<1>6. StateOf(enrollments[k].status) \in StateNames /\ StateOf(status) \in StateNames
  BY <1>2, <1>3, EnrollmentStateNameType DEF EnrollmentRows
<1> HIDE DEF k, status, StateOf
<1>7. OutcomesOK'
  BY <1>5, <1>6, RecordOutcomeFacts DEF TypeInv, TypeOK
<1>8. EnrollmentsOK' /\ OneSequencePerId' /\ DOMAIN enrollments' = DOMAIN enrollments
  BY <1>1, <1>2, <1>3, <1>4
     DEF TypeInv, TypeOK, EnrollmentsOK, EnrollmentRows, OneSequencePerId, EndEnrollment, status
<1> QED
  BY <1>7, <1>8 DEF TypeInv, TypeOK, InvitationsOK, ChallengesOK, SessionsOK,
                    EndEnrollment, Transaction

LEMMA NextTypeInv == TypeInv /\ [Next]_vars => TypeInv'
<1> SUFFICES ASSUME TypeInv, [Next]_vars PROVE TypeInv'
  OBVIOUS
<1>1. CASE UNCHANGED vars
  BY <1>1 DEF vars, TypeInv, TypeOK, InvitationsOK, ChallengesOK, EnrollmentsOK, SessionsOK,
              OutcomesOK, OneSequencePerId
<1>2. ASSUME NEW now \in Times, Change(now) PROVE TypeInv'
  BY <1>2, CreateInvitationTypeInv, IssueChallengeTypeInv, EnrollTypeInv, EnrollKnownIdTypeInv,
     BeginRecoveryTypeInv, CancelRecoveryTypeInv, EndEnrollmentTypeInv DEF Change
<1>3. ASSUME NEW now \in Times, NEW signed \in SignedRequests, Read(signed, now) PROVE TypeInv'
  BY <1>3, EmitContributionTypeInv, ResendContributionTypeInv, ReportRecoveryTypeInv,
     ReadEnrollmentTypeInv DEF Read
<1> QED
  BY <1>1, <1>2, <1>3 DEF Next, Step

\* The tables are well-formed in every reachable state: every row is of its
\* table's kind and refers only to rows that exist (the schema in MIGRATIONS).
THEOREM TypeCorrect == Spec => []TypeOK
<1>1. Spec => []TypeInv
  BY InitTypeInv, NextTypeInv, PTL DEF Spec
<1> QED
  BY <1>1, PTL DEF TypeInv

\* An enrollment id never gets a second sequence or a second holder (enroll).
THEOREM OneSequence == Spec => []OneSequencePerId
<1>1. Spec => []TypeInv
  BY InitTypeInv, NextTypeInv, PTL DEF Spec
<1> QED
  BY <1>1, PTL DEF TypeInv

-----------------------------------------------------------------------------
(* The inductive invariant.  The properties are not inductive as they stand:    *)
(* that a veto holds needs to know that a session cooling down has no           *)
(* contribution yet; that a release is earned, what admission fixed.            *)

\* Accepted terms stay within the operator's limits; nothing is superseded.
EnrollmentSound(k) ==
    /\ Policy(enrollments[k].offer) = "ok"
    /\ enrollments[k].status # "superseded"

\* What admission fixed about a session, and what its status says of its
\* contribution.
SessionSound(s) ==
    LET session == sessions[s]
        offer == enrollments[session.enrollment].offer IN
    /\ Binds(session.request, offer)
    /\ session.cooldownEndsAt = session.createdAt + offer.policy.cooldown
    /\ session.status # "finalized"
    /\ (session.status = "refused") <=> ~CheckFactor(offer, session.request)
    /\ session.status = "cooling_down" => session.contribution = None
    /\ session.status = "released" => session.contribution # None
    /\ session.contribution # None => session.contribution.session = s

\* A recorded cancellation is of a session on record.
OutcomeSound(o) ==
    outcomes[o].request.operation = "cancel-recovery" =>
        outcomes[o].request.target \in DOMAIN sessions

RecoveryInv ==
    /\ TypeInv
    /\ CustodyUntilEnded
    /\ \A k \in DOMAIN enrollments : EnrollmentSound(k)
    /\ \A s \in DOMAIN sessions : SessionSound(s)
    /\ \A o \in DOMAIN outcomes : OutcomeSound(o)
    /\ ReleaseEarned
    /\ CancelledForGood
    /\ VetoInTime

LEMMA InitRecoveryInv == Init => RecoveryInv
<1> SUFFICES ASSUME Init PROVE RecoveryInv
  OBVIOUS
<1>1. /\ DOMAIN enrollments = {} /\ DOMAIN sessions = {} /\ DOMAIN outcomes = {}
  BY DEF Init
<1> QED
  BY <1>1, InitTypeInv DEF RecoveryInv, CustodyUntilEnded, ReleaseEarned, CancelledForGood,
                           VetoInTime

\* Steps that only move the clock on, as far as recoveries are concerned.
LEMMA QuietStep ==
    ASSUME RecoveryInv, TypeInv', UNCHANGED <<enrollments, sessions, outcomes>>,
           highWater' >= highWater
    PROVE  RecoveryInv'
<1>1. highWater \in Int /\ highWater' \in Int
        /\ \A s \in DOMAIN sessions : sessions[s].expiresAt \in Int
  BY DEF RecoveryInv, TypeInv, TypeOK, Times, SessionsOK, SessionRows
<1>2. CancelledForGood'
  BY <1>1 DEF RecoveryInv, CancelledForGood, Cancellations
<1> QED
  BY <1>2 DEF RecoveryInv, CustodyUntilEnded, EnrollmentSound, SessionSound, OutcomeSound,
              ReleaseEarned, VetoInTime, Cancellations

LEMMA EnrollRecoveryInv ==
    ASSUME RecoveryInv, TypeInv', NEW now \in Times, NEW c \in Challenges,
           NEW offer \in Offers, Enroll(c, offer, now)
    PROVE  RecoveryInv'
<1> DEFINE key == <<offer.id, offer.sequence>>
<1>1. ~Known(offer.id) /\ AcceptEnrollment(offer, now) = "ok"
  BY EnrollAnswerFacts DEF Enroll
<1>2. Policy(offer) = "ok"
  BY <1>1 DEF AcceptEnrollment, AdmitEnvelope
<1>3. key \notin DOMAIN enrollments
  BY <1>1 DEF Known
<1>4. /\ DOMAIN enrollments' = DOMAIN enrollments \cup {key}
      /\ enrollments'[key] = [challenge |-> c, offer |-> offer, status |-> "accepted",
                              attemptsUsed |-> 0, storedAt |-> now, custody |-> offer]
      /\ \A k \in DOMAIN enrollments : enrollments'[k] = enrollments[k]
      /\ sessions' = sessions /\ outcomes' = outcomes
  BY <1>3 DEF Enroll, Insert
<1> HIDE DEF key
<1>5. \A s \in DOMAIN sessions : sessions[s].enrollment \in DOMAIN enrollments
  BY DEF RecoveryInv, TypeInv, TypeOK, SessionsOK
<1>6. CustodyUntilEnded' /\ \A k \in DOMAIN enrollments' : EnrollmentSound(k)'
  BY <1>2, <1>4 DEF RecoveryInv, CustodyUntilEnded, EnrollmentSound, Tombstone
<1>7. ReleaseEarned' /\ \A s \in DOMAIN sessions' : SessionSound(s)'
  BY <1>4, <1>5 DEF RecoveryInv, ReleaseEarned, SessionSound
<1>8. highWater' >= highWater /\ highWater \in Int /\ highWater' \in Int
        /\ \A s \in DOMAIN sessions : sessions[s].expiresAt \in Int
  BY DEF Enroll, Transaction, Times, RecoveryInv, TypeInv, TypeOK, SessionsOK, SessionRows
<1>9. CancelledForGood' /\ VetoInTime' /\ \A o \in DOMAIN outcomes' : OutcomeSound(o)'
  BY <1>4, <1>8 DEF RecoveryInv, CancelledForGood, VetoInTime, Cancellations, OutcomeSound
<1> QED
  BY <1>6, <1>7, <1>9 DEF RecoveryInv

LEMMA BeginRecoveryInv ==
    ASSUME RecoveryInv, TypeInv', NEW now \in Times, NEW request \in SessionRequests,
           BeginRecovery(request, now)
    PROVE  RecoveryInv'
<1> DEFINE k == CurrentKey(request.enrollment)
<1> DEFINE id == request.id
<1> DEFINE admitted == AdmittedSession(k, request, now)
<1>1. /\ k \in DOMAIN enrollments
      /\ id \notin DOMAIN sessions
      /\ Binds(request, enrollments[k].offer)
      /\ Usable(EnrollmentState(k), now) = "ok"
  BY BeginAnswerFacts, CurrentKeyFacts
     DEF BeginRecovery, Current, RecoveryInv, TypeInv, TypeOK, Admit
<1>2. /\ enrollments' = [enrollments EXCEPT ![k].attemptsUsed = @ + 1]
      /\ sessions' = Insert(sessions, id, admitted)
      /\ outcomes' = outcomes
  BY DEF BeginRecovery, SpendAttempt
<1>3. /\ DOMAIN sessions' = DOMAIN sessions \cup {id}
      /\ sessions'[id] = admitted
      /\ \A s \in DOMAIN sessions : sessions'[s] = sessions[s]
  BY <1>1, <1>2 DEF Insert
<1>4. /\ admitted.enrollment = k /\ admitted.request = request
      /\ admitted.contribution = None
      /\ admitted.cooldownEndsAt = now + enrollments[k].offer.policy.cooldown
      /\ admitted.createdAt = now
      /\ admitted.status = IF CheckFactor(enrollments[k].offer, request)
                           THEN "cooling_down" ELSE "refused"
  BY DEF AdmittedSession, CooldownEndsAt
<1> HIDE DEF k, id, admitted
<1>5. /\ DOMAIN enrollments' = DOMAIN enrollments
      /\ \A j \in DOMAIN enrollments :
            /\ enrollments'[j].offer = enrollments[j].offer
            /\ enrollments'[j].status = enrollments[j].status
            /\ enrollments'[j].custody = enrollments[j].custody
  BY <1>1, <1>2 DEF RecoveryInv, TypeInv, TypeOK, EnrollmentsOK, EnrollmentRows
<1>6. \A s \in DOMAIN sessions : sessions[s].enrollment \in DOMAIN enrollments
  BY DEF RecoveryInv, TypeInv, TypeOK, SessionsOK
<1>7. CustodyUntilEnded' /\ \A j \in DOMAIN enrollments' : EnrollmentSound(j)'
  BY <1>5 DEF RecoveryInv, CustodyUntilEnded, EnrollmentSound
<1>8. \A s \in DOMAIN sessions' : SessionSound(s)'
  <2> SUFFICES ASSUME NEW s \in DOMAIN sessions' PROVE SessionSound(s)'
    OBVIOUS
  <2>1. CASE s = id
    BY <2>1, <1>1, <1>3, <1>4, <1>5 DEF SessionSound
  <2>2. CASE s \in DOMAIN sessions
    BY <2>2, <1>3, <1>5, <1>6 DEF RecoveryInv, SessionSound
  <2> QED
    BY <1>3, <2>1, <2>2
<1>9. ReleaseEarned'
  BY <1>3, <1>4, <1>5, <1>6 DEF RecoveryInv, ReleaseEarned
<1>10. highWater' >= highWater /\ highWater \in Int /\ highWater' \in Int
        /\ \A s \in DOMAIN sessions : sessions[s].expiresAt \in Int
  BY DEF BeginRecovery, Transaction, Times, RecoveryInv, TypeInv, TypeOK, SessionsOK, SessionRows
<1>11. \A o \in DOMAIN outcomes' : OutcomeSound(o)'
  BY <1>2, <1>3 DEF RecoveryInv, OutcomeSound
<1>12. Cancellations(id)' = {}
  BY <1>1, <1>2 DEF RecoveryInv, OutcomeSound, Cancellations
<1>13. \A s : Cancellations(s)' = Cancellations(s)
  BY <1>2 DEF Cancellations
<1>14. CancelledForGood' /\ VetoInTime'
  BY <1>3, <1>10, <1>12, <1>13, <1>2 DEF RecoveryInv, CancelledForGood, VetoInTime
<1> QED
  BY <1>7, <1>8, <1>9, <1>11, <1>14 DEF RecoveryInv

\* The release predicate: what it has established when it lets a new
\* contribution out, or an old one out again.
LEMMA ReleaseFacts ==
    ASSUME NEW enrollment, NEW session, NEW now, NEW floor,
           Release(enrollment, session, now, floor) \in {"emit", "resend"}
    PROVE  /\ ~Tombstone(enrollment.status)
           /\ enrollment.status # "superseded"
           /\ ~(now >= enrollment.expiresAt)
           /\ session.status \notin {"vetoed", "cancelled", "refused", "finalized"}
           /\ ~(now >= session.expiresAt)
           /\ ~(now < session.cooldownEndsAt)
           /\ Release(enrollment, session, now, floor) = "emit" => session.status # "released"
           /\ Release(enrollment, session, now, floor) = "resend" => session.status = "released"
BY DEF Release, Usable, StatusVerdict

\* The same, of a session on record: it is released only while it is live and
\* nobody has cancelled it, under custody still held.
LEMMA ReleasableFacts ==
    ASSUME RecoveryInv, NEW now \in Times, now >= highWater, NEW s \in DOMAIN sessions,
           ReleaseVerdict(s, now) \in {"emit", "resend"}
    PROVE  /\ Cancellations(s) = {}
           /\ enrollments[sessions[s].enrollment].status = "accepted"
           /\ sessions[s].status = IF ReleaseVerdict(s, now) = "emit"
                                   THEN "cooling_down" ELSE "released"
           /\ now < sessions[s].expiresAt
           /\ now < enrollments[sessions[s].enrollment].offer.expiresAt
           /\ now >= sessions[s].cooldownEndsAt
<1> DEFINE k == sessions[s].enrollment
<1>1. /\ sessions[s] \in SessionRows /\ k \in DOMAIN enrollments
      /\ enrollments[k] \in EnrollmentRows /\ highWater \in Int /\ now \in Int
  BY DEF RecoveryInv, TypeInv, TypeOK, SessionsOK, EnrollmentsOK, Times
<1>2. enrollments[k].offer.expiresAt \in Int
  BY <1>1, RequestsAssumption DEF EnrollmentRows
<1>3. /\ ~Tombstone(enrollments[k].status)
      /\ enrollments[k].status # "superseded"
      /\ ~(now >= enrollments[k].offer.expiresAt)
      /\ sessions[s].status \notin {"vetoed", "cancelled", "refused", "finalized"}
      /\ ~(now >= sessions[s].expiresAt)
      /\ ~(now < sessions[s].cooldownEndsAt)
      /\ ReleaseVerdict(s, now) = "emit" => sessions[s].status # "released"
      /\ ReleaseVerdict(s, now) = "resend" => sessions[s].status = "released"
  BY ReleaseFacts DEF ReleaseVerdict, EnrollmentState, SessionState
<1>4. sessions[s].expiresAt \in Int /\ sessions[s].cooldownEndsAt \in Int
        /\ sessions[s].status \in SessionStatus /\ enrollments[k].status \in EnrollmentStatus
  BY <1>1 DEF SessionRows, EnrollmentRows
<1>5. Cancellations(s) = {}
  BY <1>1, <1>3, <1>4 DEF RecoveryInv, CancelledForGood
<1> QED
  BY <1>1, <1>2, <1>3, <1>4, <1>5 DEF SessionStatus, EnrollmentStatus, Tombstone

LEMMA EmitRecoveryInv ==
    ASSUME RecoveryInv, TypeInv', NEW now \in Times, NEW signed \in SignedRequests,
           EmitContribution(signed, now)
    PROVE  RecoveryInv'
<1> DEFINE id == signed.target
<1> DEFINE session == sessions[id]
<1> DEFINE row == enrollments[session.enrollment]
<1> DEFINE given == Contribution(row.custody, session.request, now)
<1>1. /\ id \in DOMAIN sessions /\ now >= highWater /\ highWater' = now
      /\ ReleaseVerdict(id, now) = "emit"
      /\ enrollments' = enrollments /\ outcomes' = outcomes
      /\ row.custody # None
      /\ sessions' = [sessions EXCEPT ![id].status = "released", ![id].contribution = given]
  BY DEF EmitContribution, ReadSession, Transaction, Emitted
<1>2. /\ session \in SessionRows /\ session.enrollment \in DOMAIN enrollments
      /\ row \in EnrollmentRows /\ session.request.id = id
  BY <1>1 DEF RecoveryInv, TypeInv, TypeOK, SessionsOK, EnrollmentsOK
<1>3. /\ Cancellations(id) = {} /\ row.status = "accepted"
      /\ session.status = "cooling_down"
      /\ now < session.expiresAt /\ now < row.offer.expiresAt
      /\ now >= session.cooldownEndsAt
  BY <1>1, ReleasableFacts
<1>4. row.custody = row.offer
  BY <1>2, <1>3 DEF RecoveryInv, CustodyUntilEnded, Tombstone
<1>5. /\ given # None /\ given.session = id /\ given.envelope = row.offer
      /\ given.destination = session.request.destination /\ given.decidedAt = now
  <2>1. given \in Contributions
    BY <1>2, <1>4 DEF Contribution, Contributions, SessionRows, EnrollmentRows, SessionIds, Times
  <2> QED
    BY <2>1, <1>2, <1>4, NoneAssumption DEF Contribution
<1> HIDE DEF given
<1>6. /\ DOMAIN sessions' = DOMAIN sessions
      /\ sessions'[id].status = "released" /\ sessions'[id].contribution = given
      /\ \A s \in DOMAIN sessions :
            /\ s # id => sessions'[s] = sessions[s]
            /\ sessions'[s].enrollment = sessions[s].enrollment
            /\ sessions'[s].request = sessions[s].request
            /\ sessions'[s].cooldownEndsAt = sessions[s].cooldownEndsAt
            /\ sessions'[s].expiresAt = sessions[s].expiresAt
            /\ sessions'[s].createdAt = sessions[s].createdAt
  BY <1>1, <1>2 DEF SessionRows, RecoveryInv, TypeInv, TypeOK, SessionsOK
<1>7. CustodyUntilEnded' /\ \A k \in DOMAIN enrollments' : EnrollmentSound(k)'
  BY <1>1 DEF RecoveryInv, CustodyUntilEnded, EnrollmentSound
<1>8. SessionSound(id)
  BY <1>1 DEF RecoveryInv
<1>9. \A s \in DOMAIN sessions' : SessionSound(s)'
  <2> SUFFICES ASSUME NEW s \in DOMAIN sessions PROVE SessionSound(s)'
    BY <1>6
  <2>1. CASE s = id
    BY <2>1, <1>1, <1>3, <1>5, <1>6, <1>8 DEF SessionSound
  <2>2. CASE s # id
    BY <2>2, <1>1, <1>6 DEF RecoveryInv, SessionSound
  <2> QED
    BY <2>1, <2>2
<1>10. ReleaseEarned'
  <2> SUFFICES ASSUME NEW s \in DOMAIN sessions, sessions'[s].contribution # None
      PROVE LET offer == enrollments[sessions[s].enrollment].offer
                gave == sessions'[s].contribution IN
            /\ CheckFactor(offer, sessions[s].request)
            /\ Binds(sessions[s].request, offer)
            /\ gave.envelope = offer
            /\ gave.destination = sessions[s].request.destination
            /\ gave.decidedAt >= sessions[s].createdAt + offer.policy.cooldown
            /\ gave.decidedAt >= sessions[s].createdAt + MinCooldown
            /\ gave.decidedAt < sessions[s].expiresAt
            /\ gave.decidedAt < offer.expiresAt
    BY <1>1, <1>6 DEF ReleaseEarned
  <2>1. CASE s # id
    BY <2>1, <1>6 DEF RecoveryInv, ReleaseEarned
  <2>2. CASE s = id
    <3>1. CheckFactor(row.offer, session.request) /\ Binds(session.request, row.offer)
            /\ session.cooldownEndsAt = session.createdAt + row.offer.policy.cooldown
      BY <1>3, <1>8 DEF SessionSound
    <3>2. row.offer.policy.cooldown \in MinCooldown..MaxCooldown
      BY <1>2 DEF RecoveryInv, EnrollmentSound, Policy
    <3>3. now >= session.createdAt + MinCooldown
      BY <3>1, <3>2, <1>2, <1>3, LimitsAssumption DEF SessionRows, Times
    <3> QED
      BY <2>2, <3>1, <3>3, <1>3, <1>5, <1>6
  <2> QED
    BY <2>1, <2>2
<1>11. \A s : Cancellations(s)' = Cancellations(s)
  BY <1>1 DEF Cancellations
<1>12. highWater \in Int /\ now \in Int /\ \A s \in DOMAIN sessions : sessions[s].expiresAt \in Int
  BY DEF Times, RecoveryInv, TypeInv, TypeOK, SessionsOK, SessionRows
<1>13. CancelledForGood' /\ VetoInTime' /\ \A o \in DOMAIN outcomes' : OutcomeSound(o)'
  BY <1>1, <1>3, <1>6, <1>11, <1>12 DEF RecoveryInv, CancelledForGood, VetoInTime, OutcomeSound
<1> QED
  BY <1>7, <1>9, <1>10, <1>13 DEF RecoveryInv

\* A cancellation that is not a retry records one new outcome.
LEMMA CancelFacts ==
    ASSUME NEW now, NEW signed, CancelRecovery(signed, now)
    PROVE  /\ signed.target \in DOMAIN sessions
           /\ <<SessionScope(signed.target), signed.requestId>> \notin DOMAIN outcomes
           /\ signed.operation = "cancel-recovery"
BY DEF CancelRecovery, CancelAnswer, OutcomeAnswer

LEMMA CancelRecoveryInv ==
    ASSUME RecoveryInv, TypeInv', NEW now \in Times, NEW signed \in SignedRequests,
           CancelRecovery(signed, now)
    PROVE  RecoveryInv'
<1> DEFINE id == signed.target
<1> DEFINE status == CancelledStatus(id, signed.by, now)
<1> DEFINE key == <<SessionScope(id), signed.requestId>>
<1>1. /\ id \in DOMAIN sessions /\ now >= highWater /\ highWater' = now
      /\ key \notin DOMAIN outcomes
      /\ enrollments' = enrollments
      /\ sessions' = [sessions EXCEPT ![id].status = status]
  BY CancelFacts DEF CancelRecovery, Transaction
<1>2. /\ DOMAIN outcomes' = DOMAIN outcomes \cup {key}
      /\ \A o \in DOMAIN outcomes : outcomes'[o] = outcomes[o]
      /\ outcomes'[key].request = signed
      /\ outcomes'[key].oldState = StateOfSession(id, sessions[id].status, now)
  BY <1>1 DEF CancelRecovery, RecordOutcome, Insert
<1>3. sessions[id] \in SessionRows /\ SessionSound(id) /\ highWater \in Int /\ now \in Int
        /\ \A s \in DOMAIN sessions : sessions[s].expiresAt \in Int
  BY <1>1 DEF RecoveryInv, TypeInv, TypeOK, SessionsOK, SessionRows, Times
<1>4. /\ status # "finalized"
      /\ status = "refused" <=> sessions[id].status = "refused"
      /\ status \in {"vetoed", "cancelled", "refused"} \/ now >= sessions[id].expiresAt
      /\ status \in {"cooling_down", "released"} => status = sessions[id].status
  BY <1>3 DEF CancelledStatus, Live, SessionRows, SessionStatus, SessionSound
<1>5. StateOfSession(id, sessions[id].status, now) = "cooling_down" =>
        sessions[id].status = "cooling_down"
  BY <1>3 DEF StateOfSession, SessionStateName, SessionRows, SessionStatus
<1> HIDE DEF status, key
<1>6. /\ DOMAIN sessions' = DOMAIN sessions /\ sessions'[id].status = status
      /\ \A s \in DOMAIN sessions :
            /\ s # id => sessions'[s] = sessions[s]
            /\ sessions'[s].enrollment = sessions[s].enrollment
            /\ sessions'[s].request = sessions[s].request
            /\ sessions'[s].cooldownEndsAt = sessions[s].cooldownEndsAt
            /\ sessions'[s].expiresAt = sessions[s].expiresAt
            /\ sessions'[s].createdAt = sessions[s].createdAt
            /\ sessions'[s].contribution = sessions[s].contribution
  BY <1>1, <1>3 DEF SessionRows, RecoveryInv, TypeInv, TypeOK, SessionsOK
<1>7. CustodyUntilEnded' /\ \A k \in DOMAIN enrollments' : EnrollmentSound(k)'
  BY <1>1 DEF RecoveryInv, CustodyUntilEnded, EnrollmentSound
<1>8. \A s \in DOMAIN sessions' : SessionSound(s)'
  <2> SUFFICES ASSUME NEW s \in DOMAIN sessions PROVE SessionSound(s)'
    BY <1>6
  <2>1. CASE s = id
    BY <2>1, <1>1, <1>3, <1>4, <1>6 DEF SessionSound
  <2>2. CASE s # id
    BY <2>2, <1>1, <1>6 DEF RecoveryInv, SessionSound
  <2> QED
    BY <2>1, <2>2
<1>9. ReleaseEarned'
  BY <1>1, <1>6 DEF RecoveryInv, ReleaseEarned
<1>10. \A o \in DOMAIN outcomes' : OutcomeSound(o)'
  BY <1>1, <1>2, <1>6 DEF RecoveryInv, OutcomeSound
<1>11. \A s : s # id => Cancellations(s)' = Cancellations(s)
  BY <1>2 DEF Cancellations
<1>12. CancelledForGood'
  BY <1>1, <1>3, <1>4, <1>6, <1>11 DEF RecoveryInv, CancelledForGood
<1>13. VetoInTime'
  <2> SUFFICES ASSUME NEW s \in DOMAIN sessions, NEW o \in Cancellations(s)',
                      outcomes'[o].oldState = "cooling_down"
               PROVE  sessions'[s].contribution = None
    BY <1>6 DEF VetoInTime
  <2>1. CASE o = key
    BY <2>1, <1>2, <1>3, <1>5, <1>6 DEF Cancellations, SessionSound
  <2>2. CASE o \in DOMAIN outcomes
    BY <2>2, <1>2, <1>6 DEF RecoveryInv, VetoInTime, Cancellations
  <2> QED
    BY <2>1, <2>2, <1>2 DEF Cancellations
<1> QED
  BY <1>7, <1>8, <1>9, <1>10, <1>12, <1>13 DEF RecoveryInv

\* Ending an enrollment: which row it ends, and what it leaves alone.
LEMMA EndFacts ==
    ASSUME TypeInv, NEW now, NEW signed \in SignedRequests, EndEnrollment(signed, now)
    PROVE  LET k == CurrentKey(signed.target)
               key == <<EnrollmentScope(k), signed.requestId>> IN
           /\ k \in DOMAIN enrollments
           /\ key \notin DOMAIN outcomes
           /\ DOMAIN enrollments' = DOMAIN enrollments
           /\ Tombstone(enrollments'[k].status) /\ enrollments'[k].custody = None
           /\ enrollments[k].status = "closed" => enrollments'[k].status = "closed"
           /\ \A j \in DOMAIN enrollments :
                 /\ j # k => enrollments'[j] = enrollments[j]
                 /\ enrollments'[j].offer = enrollments[j].offer
                 /\ enrollments'[j].challenge = enrollments[j].challenge
                 /\ enrollments'[j].storedAt = enrollments[j].storedAt
           /\ DOMAIN outcomes' = DOMAIN outcomes \cup {key}
           /\ \A o \in DOMAIN outcomes : outcomes'[o] = outcomes[o]
           /\ outcomes'[key].request = signed
           /\ signed.operation # "cancel-recovery"
           /\ sessions' = sessions
           /\ now >= highWater /\ highWater' = now
<1> DEFINE k == CurrentKey(signed.target)
<1> DEFINE key == <<EnrollmentScope(k), signed.requestId>>
<1>1. k \in DOMAIN enrollments /\ key \notin DOMAIN outcomes
  BY CurrentKeyFacts DEF EndEnrollment, EndAnswer, OutcomeAnswer, TypeInv, TypeOK
<1>2. enrollments[k] \in EnrollmentRows /\ \A j \in DOMAIN enrollments : enrollments[j] \in EnrollmentRows
  BY <1>1 DEF TypeInv, TypeOK, EnrollmentsOK
<1>3. enrollments' = [enrollments EXCEPT ![k].status = EndedStatus(signed.operation, @),
                                        ![k].custody = None]
  BY DEF EndEnrollment, Ended
<1>4. /\ DOMAIN outcomes' = DOMAIN outcomes \cup {key}
      /\ \A o \in DOMAIN outcomes : outcomes'[o] = outcomes[o]
      /\ outcomes'[key].request = signed
  BY <1>1 DEF EndEnrollment, RecordOutcome, Insert
<1>5. /\ signed.operation # "cancel-recovery" /\ sessions' = sessions
      /\ now >= highWater /\ highWater' = now
  BY DEF EndEnrollment, Transaction
<1> HIDE DEF k, key
<1>6. /\ DOMAIN enrollments' = DOMAIN enrollments
      /\ enrollments'[k].status = EndedStatus(signed.operation, enrollments[k].status)
      /\ enrollments'[k].custody = None
      /\ \A j \in DOMAIN enrollments :
            /\ j # k => enrollments'[j] = enrollments[j]
            /\ enrollments'[j].offer = enrollments[j].offer
            /\ enrollments'[j].challenge = enrollments[j].challenge
            /\ enrollments'[j].storedAt = enrollments[j].storedAt
  BY <1>1, <1>2, <1>3 DEF EnrollmentRows
<1>7. /\ Tombstone(enrollments'[k].status)
      /\ enrollments[k].status = "closed" => enrollments'[k].status = "closed"
  BY <1>6 DEF EndedStatus, Tombstone
<1> QED
  BY <1>1, <1>4, <1>5, <1>6, <1>7 DEF k, key

LEMMA EndRecoveryInv ==
    ASSUME RecoveryInv, TypeInv', NEW now \in Times, NEW signed \in SignedRequests,
           EndEnrollment(signed, now)
    PROVE  RecoveryInv'
<1> DEFINE k == CurrentKey(signed.target)
<1> DEFINE key == <<EnrollmentScope(k), signed.requestId>>
<1>1. /\ k \in DOMAIN enrollments /\ key \notin DOMAIN outcomes
      /\ DOMAIN enrollments' = DOMAIN enrollments
      /\ Tombstone(enrollments'[k].status) /\ enrollments'[k].custody = None
      /\ \A j \in DOMAIN enrollments :
            /\ j # k => enrollments'[j] = enrollments[j]
            /\ enrollments'[j].offer = enrollments[j].offer
      /\ sessions' = sessions
      /\ now >= highWater /\ highWater' = now
  BY EndFacts DEF RecoveryInv
<1>2. /\ DOMAIN outcomes' = DOMAIN outcomes \cup {key}
      /\ \A o \in DOMAIN outcomes : outcomes'[o] = outcomes[o]
      /\ outcomes'[key].request.operation # "cancel-recovery"
  BY EndFacts DEF RecoveryInv
<1> HIDE DEF k, key
<1>3. CustodyUntilEnded'
  BY <1>1 DEF RecoveryInv, CustodyUntilEnded
<1>4. \A j \in DOMAIN enrollments' : EnrollmentSound(j)'
  BY <1>1 DEF RecoveryInv, EnrollmentSound, Tombstone
<1>5. \A s \in DOMAIN sessions : sessions[s].enrollment \in DOMAIN enrollments
  BY DEF RecoveryInv, TypeInv, TypeOK, SessionsOK
<1>6. ReleaseEarned' /\ \A s \in DOMAIN sessions' : SessionSound(s)'
  BY <1>1, <1>5 DEF RecoveryInv, ReleaseEarned, SessionSound
<1>7. \A o \in DOMAIN outcomes' : OutcomeSound(o)'
  BY <1>1, <1>2 DEF RecoveryInv, OutcomeSound
<1>8. \A s : Cancellations(s)' = Cancellations(s)
  BY <1>1, <1>2 DEF Cancellations
<1>9. highWater \in Int /\ now \in Int /\ \A s \in DOMAIN sessions : sessions[s].expiresAt \in Int
  BY DEF Times, RecoveryInv, TypeInv, TypeOK, SessionsOK, SessionRows
<1>10. CancelledForGood'
  BY <1>1, <1>8, <1>9 DEF RecoveryInv, CancelledForGood
<1>11. VetoInTime'
  BY <1>1, <1>2, <1>8 DEF RecoveryInv, VetoInTime, Cancellations
<1> QED
  BY <1>3, <1>4, <1>6, <1>7, <1>10, <1>11 DEF RecoveryInv

\* The quiet steps move the clock on and leave recoveries alone.
LEMMA QuietActions ==
    ASSUME NEW now, NEW code, NEW c, NEW offer, NEW signed,
           \/ CreateInvitation(code, now) \/ IssueChallenge(code, c, now)
           \/ EnrollKnownId(c, offer, now) \/ ReadEnrollment(signed, now)
           \/ ResendContribution(signed, now) \/ ReportRecovery(signed, now)
    PROVE  UNCHANGED <<enrollments, sessions, outcomes>> /\ highWater' >= highWater
BY DEF CreateInvitation, IssueChallenge, EnrollKnownId, ReadEnrollment, ResendContribution,
       ReportRecovery, ReadSession, Transaction

LEMMA NextRecoveryInv == RecoveryInv /\ [Next]_vars => RecoveryInv'
<1> SUFFICES ASSUME RecoveryInv, [Next]_vars PROVE RecoveryInv'
  OBVIOUS
<1>1. TypeInv'
  BY NextTypeInv DEF RecoveryInv
<1>2. CASE UNCHANGED vars
  <2>1. highWater' >= highWater
    BY <1>2 DEF vars, RecoveryInv, TypeInv, TypeOK, Times
  <2> QED
    BY <1>1, <1>2, <2>1, QuietStep DEF vars
<1>3. ASSUME NEW now \in Times, Change(now) PROVE RecoveryInv'
  BY <1>1, <1>3, QuietStep, QuietActions, EnrollRecoveryInv, BeginRecoveryInv,
     CancelRecoveryInv, EndRecoveryInv DEF Change
<1>4. ASSUME NEW now \in Times, NEW signed \in SignedRequests, Read(signed, now)
      PROVE  RecoveryInv'
  BY <1>1, <1>4, QuietStep, QuietActions, EmitRecoveryInv DEF Read
<1> QED
  BY <1>2, <1>3, <1>4 DEF Next, Step

LEMMA RecoveryInvariant == Spec => []RecoveryInv
BY InitRecoveryInv, NextRecoveryInv, PTL DEF Spec

\* Custody is held exactly as received until the holder ends it, and is gone
\* from then on (enroll, end_enrollment).
THEOREM CustodyKept == Spec => []CustodyUntilEnded
BY RecoveryInvariant, PTL DEF RecoveryInv

\* Every contribution was earned: the factor held, the enrolled cooldown and the
\* operator's minimum passed on the trustee's clock since admission, neither
\* expiry had come, and it carries the right envelope (admit, release).
THEOREM ReleaseIsEarned == Spec => []ReleaseEarned
BY RecoveryInvariant, PTL DEF RecoveryInv

\* A veto or cancellation recorded while a session cools down is in time: the
\* session never gets a contribution (cancel_recovery, read_recovery).
THEOREM VetoIsInTime == Spec => []VetoInTime
BY RecoveryInvariant, PTL DEF RecoveryInv

\* A cancelled session stays beyond release at every clock reading the store
\* still accepts (cancel_recovery, transaction).
THEOREM CancellationIsFinal == Spec => []CancelledForGood
BY RecoveryInvariant, PTL DEF RecoveryInv

-----------------------------------------------------------------------------
(* What no committed operation may do: hand out a stopped recovery's           *)
(* contribution, change a contribution, change what a retry is answered, take  *)
(* back a notice, revive a tombstone.                                          *)

\* Enrollment rows are never removed or rewritten; only the tombstone comes.
LEMMA EnrollmentFrame ==
    ASSUME RecoveryInv, Next
    PROVE  \A k \in DOMAIN enrollments :
              /\ k \in DOMAIN enrollments'
              /\ enrollments'[k].offer = enrollments[k].offer
              /\ enrollments'[k].challenge = enrollments[k].challenge
              /\ enrollments'[k].storedAt = enrollments[k].storedAt
              /\ enrollments[k].status = "closed" => enrollments'[k].status = "closed"
              /\ Tombstone(enrollments[k].status) => Tombstone(enrollments'[k].status)
<1> DEFINE Frame == \A k \in DOMAIN enrollments :
              /\ k \in DOMAIN enrollments'
              /\ enrollments'[k].offer = enrollments[k].offer
              /\ enrollments'[k].challenge = enrollments[k].challenge
              /\ enrollments'[k].storedAt = enrollments[k].storedAt
              /\ enrollments[k].status = "closed" => enrollments'[k].status = "closed"
              /\ Tombstone(enrollments[k].status) => Tombstone(enrollments'[k].status)
<1>1. ASSUME UNCHANGED enrollments PROVE Frame
  BY <1>1
<1>2. ASSUME NEW now \in Times, NEW c \in Challenges, NEW offer \in Offers, Enroll(c, offer, now)
      PROVE  Frame
  <2>1. ~Known(offer.id)
    BY <1>2, EnrollAnswerFacts DEF Enroll
  <2>2. <<offer.id, offer.sequence>> \notin DOMAIN enrollments
    BY <2>1 DEF Known
  <2> QED
    BY <1>2, <2>2 DEF Enroll, Insert
<1>3. ASSUME NEW now \in Times, NEW request \in SessionRequests, BeginRecovery(request, now)
      PROVE  Frame
  <2>1. /\ DOMAIN enrollments' = DOMAIN enrollments
        /\ \A j \in DOMAIN enrollments : enrollments[j] \in EnrollmentRows
        /\ \E k : enrollments' = [enrollments EXCEPT ![k].attemptsUsed = @ + 1]
    BY <1>3 DEF BeginRecovery, SpendAttempt, RecoveryInv, TypeInv, TypeOK, EnrollmentsOK
  <2> QED
    BY <2>1 DEF EnrollmentRows
<1>4. ASSUME NEW now \in Times, NEW signed \in SignedRequests, EndEnrollment(signed, now)
      PROVE  Frame
  BY <1>4, EndFacts DEF RecoveryInv
<1>5. ASSUME NEW now \in Times, Change(now) PROVE Frame
  BY <1>5, <1>1, <1>2, <1>3, <1>4
     DEF Change, CreateInvitation, IssueChallenge, EnrollKnownId, CancelRecovery
<1>6. ASSUME NEW now \in Times, NEW signed \in SignedRequests, Read(signed, now) PROVE Frame
  BY <1>6, <1>1 DEF Read, EmitContribution, ResendContribution, ReportRecovery, ReadSession,
                    ReadEnrollment
<1> QED
  BY <1>5, <1>6 DEF Next, Step

\* Recorded outcomes are never removed or rewritten.
LEMMA OutcomeFrame ==
    ASSUME RecoveryInv, Next
    PROVE  \A o \in DOMAIN outcomes : o \in DOMAIN outcomes' /\ outcomes'[o] = outcomes[o]
<1> DEFINE Frame ==
        \A o \in DOMAIN outcomes : o \in DOMAIN outcomes' /\ outcomes'[o] = outcomes[o]
<1>1. ASSUME UNCHANGED outcomes PROVE Frame
  BY <1>1
<1>2. ASSUME NEW now \in Times, NEW signed \in SignedRequests, CancelRecovery(signed, now)
      PROVE  Frame
  BY <1>2, CancelFacts DEF CancelRecovery, RecordOutcome, Insert
<1>3. ASSUME NEW now \in Times, NEW signed \in SignedRequests, EndEnrollment(signed, now)
      PROVE  Frame
  BY <1>3, EndFacts DEF RecoveryInv
<1>4. ASSUME NEW now \in Times, Change(now) PROVE Frame
  BY <1>4, <1>1, <1>2, <1>3
     DEF Change, CreateInvitation, IssueChallenge, Enroll, EnrollKnownId, BeginRecovery
<1>5. ASSUME NEW now \in Times, NEW signed \in SignedRequests, Read(signed, now) PROVE Frame
  BY <1>5, <1>1 DEF Read, EmitContribution, ResendContribution, ReportRecovery, ReadSession,
                    ReadEnrollment
<1> QED
  BY <1>4, <1>5 DEF Next, Step

\* What a step may do to a session on record: nothing; the first release; or a
\* cancellation, while the session is live.
SessionMoves(s) ==
    /\ s \in DOMAIN sessions'
    /\ sessions'[s].enrollment = sessions[s].enrollment
    /\ sessions'[s].request = sessions[s].request
    /\ sessions'[s].cooldownEndsAt = sessions[s].cooldownEndsAt
    /\ sessions'[s].expiresAt = sessions[s].expiresAt
    /\ sessions'[s].remaining = sessions[s].remaining
    /\ sessions'[s].createdAt = sessions[s].createdAt
    /\ \/ sessions'[s].status = sessions[s].status
       \/ /\ sessions[s].status \in {"cooling_down", "released"}
          /\ sessions'[s].status \in {"released", "vetoed", "cancelled"}
          /\ highWater' < sessions[s].expiresAt
    /\ sessions[s].contribution # None => sessions'[s].contribution = sessions[s].contribution

LEMMA SessionFrame ==
    ASSUME RecoveryInv, Next
    PROVE  highWater' >= highWater /\ \A s \in DOMAIN sessions : SessionMoves(s)
<1> DEFINE Frame == \A s \in DOMAIN sessions : SessionMoves(s)
<1>0. \A s \in DOMAIN sessions : sessions[s] \in SessionRows
  BY DEF RecoveryInv, TypeInv, TypeOK, SessionsOK
<1>1. ASSUME UNCHANGED sessions PROVE Frame
  BY <1>1 DEF SessionMoves
<1>2. ASSUME NEW now \in Times, NEW request \in SessionRequests, BeginRecovery(request, now)
      PROVE  Frame
  <2>1. request.id \notin DOMAIN sessions
    BY <1>2, BeginAnswerFacts DEF BeginRecovery
  <2>2. \A s \in DOMAIN sessions : s \in DOMAIN sessions' /\ sessions'[s] = sessions[s]
    BY <1>2, <2>1 DEF BeginRecovery, Insert
  <2> QED
    BY <2>2 DEF SessionMoves
<1>3. ASSUME NEW now \in Times, NEW signed \in SignedRequests, EmitContribution(signed, now)
      PROVE  Frame
  <2> DEFINE id == signed.target
  <2>1. PICK given : sessions' = [sessions EXCEPT ![id].status = "released", ![id].contribution = given]
    BY <1>3 DEF EmitContribution, Emitted
  <2>2. id \in DOMAIN sessions /\ now >= highWater /\ highWater' = now
          /\ ReleaseVerdict(id, now) = "emit"
    BY <1>3 DEF EmitContribution, ReadSession, Transaction
  <2>3. sessions[id].status = "cooling_down" /\ now < sessions[id].expiresAt
    BY <2>2, ReleasableFacts
  <2>4. sessions[id].contribution = None
    BY <2>2, <2>3 DEF RecoveryInv, SessionSound
  <2> QED
    BY <1>0, <2>1, <2>2, <2>3, <2>4 DEF SessionMoves, SessionRows
<1>4. ASSUME NEW now \in Times, NEW signed \in SignedRequests, CancelRecovery(signed, now)
      PROVE  Frame
  <2> DEFINE id == signed.target
  <2> DEFINE status == CancelledStatus(id, signed.by, now)
  <2>1. sessions' = [sessions EXCEPT ![id].status = status] /\ highWater' = now
          /\ id \in DOMAIN sessions
    BY <1>4, CancelFacts DEF CancelRecovery, Transaction
  <2>2. \/ status = sessions[id].status
        \/ /\ sessions[id].status \in {"cooling_down", "released"}
           /\ status \in {"vetoed", "cancelled"}
           /\ now < sessions[id].expiresAt
    BY DEF CancelledStatus, Live
  <2> HIDE DEF status
  <2> QED
    BY <1>0, <2>1, <2>2 DEF SessionMoves, SessionRows
<1>5. ASSUME NEW now \in Times, Change(now) PROVE Frame /\ highWater' >= highWater
  <2>1. Frame
    BY <1>5, <1>1, <1>2, <1>4
       DEF Change, CreateInvitation, IssueChallenge, Enroll, EnrollKnownId, EndEnrollment
  <2>2. highWater' >= highWater
    BY <1>5 DEF Change, CreateInvitation, IssueChallenge, Enroll, EnrollKnownId, EndEnrollment,
                BeginRecovery, CancelRecovery, Transaction
  <2> QED
    BY <2>1, <2>2
<1>6. ASSUME NEW now \in Times, NEW signed \in SignedRequests, Read(signed, now)
      PROVE  Frame /\ highWater' >= highWater
  <2>1. Frame
    BY <1>6, <1>1, <1>3 DEF Read, ResendContribution, ReportRecovery, ReadEnrollment
  <2>2. highWater' >= highWater
    BY <1>6 DEF Read, EmitContribution, ResendContribution, ReportRecovery, ReadSession,
                ReadEnrollment, Transaction
  <2> QED
    BY <2>1, <2>2
<1> QED
  BY <1>5, <1>6 DEF Next, Step

\* A step that answers with a contribution: it is a poll of that session, the
\* release predicate allows it, and it is the contribution on record afterwards.
LEMMA SendFacts ==
    ASSUME RecoveryInv, Next, sent' # None
    PROVE  \E id \in DOMAIN sessions, now \in Times :
              /\ ReleaseVerdict(id, now) \in {"emit", "resend"}
              /\ now >= highWater /\ highWater' = now
              /\ sent'.session = id
              /\ sessions'[id].contribution = sent'
<1>1. PICK now \in Times : Step(now)
  BY DEF Next
<1>2. PICK signed \in SignedRequests :
        EmitContribution(signed, now) \/ ResendContribution(signed, now)
  BY <1>1 DEF Step, Change, Read, CreateInvitation, IssueChallenge, Enroll, EnrollKnownId,
              BeginRecovery, CancelRecovery, EndEnrollment, ReportRecovery, ReadEnrollment
<1> DEFINE id == signed.target
<1>3. /\ id \in DOMAIN sessions /\ now >= highWater /\ highWater' = now
      /\ ReleaseVerdict(id, now) \in {"emit", "resend"}
  BY <1>2 DEF EmitContribution, ResendContribution, ReadSession, Transaction
<1>4. CASE EmitContribution(signed, now)
  <2>1. sessions'[id].contribution = sent'
    BY <1>3, <1>4 DEF EmitContribution, Emitted, RecoveryInv, TypeInv, TypeOK, SessionsOK, SessionRows
  <2>2. sent'.session = sessions[id].request.id
    BY <1>4 DEF EmitContribution, Contribution
  <2>3. sessions[id].request.id = id
    BY <1>3 DEF RecoveryInv, TypeInv, TypeOK, SessionsOK
  <2> QED
    BY <1>3, <2>1, <2>2, <2>3
<1>5. CASE ResendContribution(signed, now)
  <2>1. sent' = sessions[id].contribution /\ sessions' = sessions
    BY <1>5 DEF ResendContribution
  <2>2. sent'.session = id
    BY <1>3, <2>1 DEF RecoveryInv, SessionSound
  <2> QED
    BY <1>3, <2>1, <2>2
<1> QED
  BY <1>2, <1>4, <1>5

\* Nothing is handed out, first time or again, once a veto or cancellation is
\* recorded, once the enrollment is a tombstone, or at or after either expiry
\* (release, read_recovery).
THEOREM NothingIsSentOnceStopped == Spec => NothingSentOnceStopped
<1>1. RecoveryInv /\ [Next]_vars => [SendStep]_vars
  <2> SUFFICES ASSUME RecoveryInv, Next, sent' # None PROVE SendStep
    BY DEF SendStep
  <2>1. PICK id \in DOMAIN sessions, now \in Times :
          /\ ReleaseVerdict(id, now) \in {"emit", "resend"}
          /\ now >= highWater /\ highWater' = now
          /\ sent'.session = id
    BY SendFacts
  <2>2. /\ Cancellations(id) = {}
        /\ enrollments[sessions[id].enrollment].status = "accepted"
        /\ now < sessions[id].expiresAt
        /\ now < enrollments[sessions[id].enrollment].offer.expiresAt
    BY <2>1, ReleasableFacts
  <2> QED
    BY <2>1, <2>2 DEF SendStep
<1> QED
  BY <1>1, RecoveryInvariant, PTL DEF Spec, NothingSentOnceStopped

\* A session's contribution never changes once persisted, and a reply carries
\* the persisted one (read_recovery).
THEOREM ContributionNeverChanges == Spec => SameContribution
<1>1. RecoveryInv /\ [Next]_vars => [ContributionStep]_vars
  <2> SUFFICES ASSUME RecoveryInv, Next PROVE ContributionStep
    OBVIOUS
  <2>1. \A s \in DOMAIN sessions : sessions[s].contribution # None =>
            sessions'[s].contribution = sessions[s].contribution
    BY SessionFrame DEF SessionMoves
  <2>2. sent' # None => sent' = sessions'[sent'.session].contribution
    BY SendFacts
  <2> QED
    BY <2>1, <2>2 DEF ContributionStep
<1> QED
  BY <1>1, RecoveryInvariant, PTL DEF Spec, SameContribution

\* A tombstone is for ever, a closed enrollment stays closed, and no row loses
\* its bindings (end_enrollment, enroll).
THEOREM TombstonesAreFinal == Spec => TombstonesFinal
<1>1. RecoveryInv /\ [Next]_vars => [TombstoneStep]_vars
  BY EnrollmentFrame DEF TombstoneStep
<1> QED
  BY <1>1, RecoveryInvariant, PTL DEF Spec, TombstonesFinal

\* A session with a recorded cancellation keeps its status: nothing is live any
\* more at a clock reading the store accepts.
LEMMA CancelledStatusKept ==
    ASSUME RecoveryInv, Next, NEW s \in DOMAIN sessions, Cancellations(s) # {}
    PROVE  sessions'[s].status = sessions[s].status
<1>1. SessionMoves(s) /\ highWater' >= highWater
  BY SessionFrame
<1>2. highWater \in Int /\ highWater' \in Int /\ sessions[s].expiresAt \in Int
  BY NextRecoveryInv DEF RecoveryInv, TypeInv, TypeOK, SessionsOK, SessionRows, Times
<1> QED
  BY <1>1, <1>2 DEF RecoveryInv, CancelledForGood, SessionMoves

\* Every receipt a retry may be answered with is the same after a step.
LEMMA ReceiptsKept ==
    ASSUME RecoveryInv, Next
    PROVE  ReceiptStep
<1>1. ASSUME NEW s \in DOMAIN sessions PROVE SessionReceipt(s)' = SessionReceipt(s)
  <2>1. SessionMoves(s)
    BY SessionFrame
  <2>2. sessions'[s].status = "refused" <=> sessions[s].status = "refused"
    BY <2>1 DEF SessionMoves
  <2> QED
    BY <2>1, <2>2 DEF SessionMoves, SessionReceipt
<1>2. ASSUME NEW o \in DOMAIN outcomes PROVE OutcomeReceipt(o)' = OutcomeReceipt(o)
  <2>1. outcomes'[o] = outcomes[o]
    BY OutcomeFrame
  <2>2. CASE outcomes[o].request.operation = "cancel-recovery"
    <3>1. outcomes[o].request.target \in DOMAIN sessions
            /\ o \in Cancellations(outcomes[o].request.target)
      BY <2>2 DEF RecoveryInv, OutcomeSound, Cancellations
    <3>2. sessions'[outcomes[o].request.target].status = sessions[outcomes[o].request.target].status
      BY <3>1, CancelledStatusKept
    <3> QED
      BY <2>1, <3>2 DEF OutcomeReceipt
  <2>3. CASE outcomes[o].request.operation # "cancel-recovery"
    BY <2>1, <2>3 DEF OutcomeReceipt
  <2> QED
    BY <2>2, <2>3
<1>3. ASSUME NEW k \in DOMAIN enrollments, ~Tombstone(enrollments'[k].status)
      PROVE  EnrollmentReceipt(k)' = EnrollmentReceipt(k)
  <2>1. /\ k \in DOMAIN enrollments'
        /\ enrollments'[k].offer = enrollments[k].offer
        /\ enrollments'[k].challenge = enrollments[k].challenge
        /\ enrollments'[k].storedAt = enrollments[k].storedAt
        /\ ~Tombstone(enrollments[k].status)
    BY <1>3, EnrollmentFrame
  <2>2. CustodyUntilEnded /\ CustodyUntilEnded'
    BY NextRecoveryInv DEF RecoveryInv
  <2>3. enrollments'[k].custody = enrollments[k].custody
    BY <1>3, <2>1, <2>2 DEF CustodyUntilEnded
  <2> QED
    BY <2>1, <2>3 DEF EnrollmentReceipt
<1> QED
  BY <1>1, <1>2, <1>3 DEF ReceiptStep

\* A retry is answered with the same receipt for ever, although the rows the
\* receipt is rebuilt from go on changing (session_receipt, outcome_receipt,
\* enrollment_receipt).
THEOREM ReceiptsAreStable == Spec => ReceiptsNeverChange
<1>1. RecoveryInv /\ [Next]_vars => [ReceiptStep]_vars
  BY ReceiptsKept
<1> QED
  BY <1>1, RecoveryInvariant, PTL DEF Spec, ReceiptsNeverChange

\* A session once reported as over is reported so, for the same reason, ever
\* after, and a reported release is never unreported (read_enrollment).
THEOREM NoticesAreStable == Spec => NoticesNeverRevert
<1>1. RecoveryInv /\ [Next]_vars => [NoticeStep]_vars
  <2> SUFFICES ASSUME RecoveryInv, Next, NEW s \in DOMAIN sessions
      PROVE /\ Notice(s, highWater).state \in {"expired", "cancelled", "refused"} =>
                 /\ Notice(s, highWater)'.state = Notice(s, highWater).state
                 /\ Notice(s, highWater)'.reason = Notice(s, highWater).reason
            /\ Notice(s, highWater).released => Notice(s, highWater)'.released
    BY DEF NoticeStep
  <2>1. SessionMoves(s) /\ highWater' >= highWater
    BY SessionFrame
  <2>2. /\ highWater \in Int /\ highWater' \in Int /\ sessions[s].expiresAt \in Int
        /\ sessions[s].status \in SessionStatus
    BY NextRecoveryInv DEF RecoveryInv, TypeInv, TypeOK, SessionsOK, SessionRows, Times
  <2>3. Notice(s, highWater).released => Notice(s, highWater)'.released
    BY <2>1 DEF Notice, SessionMoves
  <2>4. Notice(s, highWater).state \in {"expired", "cancelled", "refused"} =>
          sessions'[s].status = sessions[s].status
    BY <2>1, <2>2 DEF Notice, SessionMoves, StateOfSession, SessionStateName
  <2>5. Notice(s, highWater).state \in {"expired", "cancelled", "refused"} =>
          /\ Notice(s, highWater)'.state = Notice(s, highWater).state
          /\ Notice(s, highWater)'.reason = Notice(s, highWater).reason
    BY <2>1, <2>2, <2>4 DEF Notice, SessionMoves, StateOfSession, SessionStateName, SessionReason,
                            SessionStatus
  <2> QED
    BY <2>3, <2>5
<1> QED
  BY <1>1, RecoveryInvariant, PTL DEF Spec, NoticesNeverRevert
=============================================================================
