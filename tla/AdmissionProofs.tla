--------------------------- MODULE AdmissionProofs ---------------------------
(* What may happen only so often, proved for every instance of the store: an   *)
(* invitation makes one enrollment, challenges and attempts stay within their  *)
(* limits, and a change is made once, for its retry is recognised for ever.    *)
EXTENDS StoreProofs, FiniteSetTheorems

-----------------------------------------------------------------------------
(* Invitations and challenges.  InvitationSpentOnce is inductive once what an  *)
(* enrollment spent is known to be marked; the limit on open challenges, once  *)
(* the challenges are known to be finitely many.                               *)

\* What an enrollment was made from is marked as used (spend_challenge).
SpentMarked ==
    \A k \in DOMAIN enrollments :
        invitations[challenges[enrollments[k].challenge].invitation].used

\* Challenge and invitation rows stay, and used ones stay used.
LEMMA ChallengeFrame ==
    ASSUME RecoveryInv, Next
    PROVE  /\ \A c \in DOMAIN challenges :
                 /\ c \in DOMAIN challenges'
                 /\ challenges'[c].invitation = challenges[c].invitation
                 /\ challenges'[c].expiresAt = challenges[c].expiresAt
                 /\ challenges[c].used => challenges'[c].used
           /\ \A i \in DOMAIN invitations :
                 i \in DOMAIN invitations' /\ (invitations[i].used => invitations'[i].used)
<1> DEFINE Frame ==
        /\ \A c \in DOMAIN challenges :
              /\ c \in DOMAIN challenges'
              /\ challenges'[c].invitation = challenges[c].invitation
              /\ challenges'[c].expiresAt = challenges[c].expiresAt
              /\ challenges[c].used => challenges'[c].used
        /\ \A i \in DOMAIN invitations :
              i \in DOMAIN invitations' /\ (invitations[i].used => invitations'[i].used)
<1>1. ASSUME UNCHANGED <<challenges, invitations>> PROVE Frame
  BY <1>1
<1>2. ASSUME NEW now \in Times, NEW code \in Codes, CreateInvitation(code, now) PROVE Frame
  BY <1>2 DEF CreateInvitation, Insert
<1>3. ASSUME NEW now \in Times, NEW code \in Codes, NEW c \in Challenges,
             IssueChallenge(code, c, now)
      PROVE  Frame
  BY <1>3 DEF IssueChallenge, Insert
<1>4. ASSUME NEW c, SpendChallenge(c) PROVE Frame
  BY <1>4 DEF SpendChallenge, RecoveryInv, TypeInv, TypeOK, InvitationsOK, ChallengesOK
<1>5. ASSUME NEW now \in Times, Change(now) PROVE Frame
  BY <1>5, <1>1, <1>2, <1>3, <1>4
     DEF Change, Enroll, EnrollKnownId, BeginRecovery, CancelRecovery, EndEnrollment
<1>6. ASSUME NEW now \in Times, NEW signed \in SignedRequests, Read(signed, now) PROVE Frame
  BY <1>6, <1>1 DEF Read, EmitContribution, ResendContribution, ReportRecovery, ReadSession,
                    ReadEnrollment
<1> QED
  BY <1>5, <1>6 DEF Next, Step

\* A step adds an enrollment only by Enroll.
LEMMA NewEnrollment ==
    ASSUME RecoveryInv, Next, NEW k \in DOMAIN enrollments' \ DOMAIN enrollments
    PROVE  \E now \in Times, c \in Challenges, offer \in Offers :
              /\ Enroll(c, offer, now)
              /\ k = <<offer.id, offer.sequence>>
              /\ DOMAIN enrollments' = DOMAIN enrollments \cup {k}
              /\ enrollments'[k].challenge = c
<1>1. PICK now \in Times : Step(now)
  BY DEF Next
<1>2. ASSUME NEW signed \in SignedRequests, EndEnrollment(signed, now)
      PROVE  DOMAIN enrollments' = DOMAIN enrollments
  BY <1>2 DEF EndEnrollment, Ended
<1>3. ASSUME NEW request \in SessionRequests, BeginRecovery(request, now)
      PROVE  DOMAIN enrollments' = DOMAIN enrollments
  BY <1>3 DEF BeginRecovery, SpendAttempt
<1>4. PICK c \in Challenges, offer \in Offers : Enroll(c, offer, now)
  BY <1>1, <1>2, <1>3
     DEF Step, Change, Read, CreateInvitation, IssueChallenge, EnrollKnownId,
         CancelRecovery, EmitContribution, ResendContribution, ReportRecovery, ReadSession,
         ReadEnrollment
<1>5. DOMAIN enrollments' = DOMAIN enrollments \cup {<<offer.id, offer.sequence>>}
        /\ enrollments'[<<offer.id, offer.sequence>>].challenge = c
  BY <1>4 DEF Enroll, Insert
<1> QED
  BY <1>4, <1>5

LEMMA SpentStep ==
    ASSUME RecoveryInv, SpentMarked, InvitationSpentOnce, Next
    PROVE  SpentMarked' /\ InvitationSpentOnce'
<1> DEFINE From(k) == challenges[enrollments[k].challenge].invitation
<1>1. ASSUME NEW k \in DOMAIN enrollments
      PROVE  /\ enrollments[k].challenge \in DOMAIN challenges
             /\ From(k) \in DOMAIN invitations
             /\ k \in DOMAIN enrollments'
             /\ enrollments'[k].challenge = enrollments[k].challenge
             /\ From(k)' = From(k)
  <2>1. enrollments[k].challenge \in DOMAIN challenges
    BY DEF RecoveryInv, TypeInv, TypeOK, EnrollmentsOK
  <2>2. From(k) \in DOMAIN invitations
    BY <2>1 DEF RecoveryInv, TypeInv, TypeOK, ChallengesOK
  <2> QED
    BY <2>1, <2>2, EnrollmentFrame, ChallengeFrame
<1>2. \A k \in DOMAIN enrollments : invitations'[From(k)'].used
  BY <1>1, ChallengeFrame DEF SpentMarked
<1>3. CASE DOMAIN enrollments' = DOMAIN enrollments
  BY <1>1, <1>2, <1>3 DEF SpentMarked, InvitationSpentOnce
<1>4. CASE DOMAIN enrollments' # DOMAIN enrollments
  <2>1. PICK k \in DOMAIN enrollments' : k \notin DOMAIN enrollments
    BY <1>1, <1>4
  <2>2. PICK now \in Times, c \in Challenges, offer \in Offers :
          /\ Enroll(c, offer, now)
          /\ DOMAIN enrollments' = DOMAIN enrollments \cup {k}
          /\ enrollments'[k].challenge = c
    BY <2>1, NewEnrollment
  <2>3. ChallengeOpen(c, now) /\ SpendChallenge(c)
    BY <2>2, EnrollAnswerFacts DEF Enroll
  <2>4. /\ c \in DOMAIN challenges /\ challenges'[c].invitation = challenges[c].invitation
        /\ challenges[c].invitation \in DOMAIN invitations
        /\ ~invitations[challenges[c].invitation].used
        /\ invitations'[challenges[c].invitation].used
    BY <2>3, ChallengeFrame DEF ChallengeOpen, InvitationOpen, SpendChallenge, RecoveryInv, TypeInv,
                TypeOK, InvitationsOK, ChallengesOK
  <2>5. \A j \in DOMAIN enrollments : From(j)' # challenges[c].invitation
    BY <1>1, <2>4 DEF SpentMarked
  <2>6. SpentMarked'
    BY <1>2, <2>2, <2>4 DEF SpentMarked
  <2>7. InvitationSpentOnce'
    <3> SUFFICES ASSUME NEW i \in DOMAIN enrollments', NEW j \in DOMAIN enrollments',
                        From(i)' = From(j)'
                 PROVE  i = j
      BY DEF InvitationSpentOnce
    <3>1. From(k)' = challenges[c].invitation
      BY <2>2, <2>4
    <3>2. CASE i # k /\ j # k
      BY <3>2, <2>2, <1>1 DEF InvitationSpentOnce
    <3>3. CASE i = k \/ j = k
      BY <3>1, <3>3, <2>2, <2>5
    <3> QED
      BY <3>2, <3>3
  <2> QED
    BY <2>6, <2>7
<1> QED
  BY <1>3, <1>4

\* A step adds a challenge only by IssueChallenge.
LEMMA NewChallenge ==
    ASSUME RecoveryInv, Next, DOMAIN challenges' # DOMAIN challenges
    PROVE  \E now \in Times, code \in Codes, c \in Challenges : IssueChallenge(code, c, now)
<1>1. PICK now \in Times : Step(now)
  BY DEF Next
<1>2. ASSUME NEW c, SpendChallenge(c) PROVE FALSE
  BY <1>2 DEF SpendChallenge
<1> QED
  BY <1>1, <1>2
     DEF Step, Change, Read, CreateInvitation, Enroll, EnrollKnownId, BeginRecovery,
         CancelRecovery, EndEnrollment, EmitContribution, ResendContribution, ReportRecovery,
         ReadSession, ReadEnrollment

LEMMA ChallengeLimitStep ==
    ASSUME RecoveryInv, Next, IsFiniteSet(DOMAIN challenges), OpenChallengesBounded
    PROVE  IsFiniteSet(DOMAIN challenges)' /\ OpenChallengesBounded'
<1> DEFINE Open(i) == OpenChallenges(i, highWater)
<1>1. /\ highWater \in Int /\ highWater' \in Int /\ highWater' >= highWater
      /\ \A c \in DOMAIN challenges : challenges[c].expiresAt \in Int
      /\ \A c \in DOMAIN challenges : challenges[c].invitation \in DOMAIN invitations
  BY SessionFrame, NextRecoveryInv
     DEF RecoveryInv, TypeInv, TypeOK, ChallengesOK, Times
<1>2. \A i : \A c \in DOMAIN challenges : c \in Open(i)' => c \in Open(i)
  BY <1>1, ChallengeFrame DEF OpenChallenges
<1>3. \A i : IsFiniteSet(Open(i)) /\ Cardinality(Open(i)) \in Nat
  <2>1. \A i : Open(i) \in SUBSET DOMAIN challenges
    BY DEF OpenChallenges
  <2> QED
    BY <2>1, FS_Subset, FS_CardinalityType
<1>4. \A i : i \notin DOMAIN invitations => Open(i) = {}
  BY <1>1 DEF OpenChallenges
<1>5. \A i : Cardinality(Open(i)) <= MaxOpenChallenges
  BY <1>4, FS_EmptySet, StoreAssumption DEF OpenChallengesBounded
<1>6. CASE DOMAIN challenges' = DOMAIN challenges
  <2>1. \A i : Open(i)' \in SUBSET Open(i)
    BY <1>2, <1>6 DEF OpenChallenges
  <2>2. \A i : Cardinality(Open(i)') \in Nat /\ Cardinality(Open(i)') <= Cardinality(Open(i))
    BY <2>1, <1>3, FS_Subset, FS_CardinalityType
  <2>3. \A i : Cardinality(Open(i)') <= MaxOpenChallenges
    BY <2>2, <1>3, <1>5, StoreAssumption
  <2> QED
    BY <2>3, <1>6 DEF OpenChallengesBounded
<1>7. CASE DOMAIN challenges' # DOMAIN challenges
  <2>1. PICK now \in Times, code \in Codes, c \in Challenges : IssueChallenge(code, c, now)
    BY <1>7, NewChallenge
  <2>2. /\ highWater' = now /\ DOMAIN challenges' = DOMAIN challenges \cup {c}
        /\ c \notin DOMAIN challenges /\ challenges'[c].invitation = code
        /\ \A d \in DOMAIN challenges : challenges'[d] = challenges[d]
        /\ Cardinality(OpenChallenges(code, now)) < MaxOpenChallenges
    BY <2>1 DEF IssueChallenge, Insert, Transaction, MayIssue
  <2>3. ASSUME NEW i PROVE Open(i)' \in SUBSET (OpenChallenges(i, now) \cup {c})
    BY <2>2 DEF OpenChallenges
  <2>4. ASSUME NEW i, i # code PROVE Open(i)' \in SUBSET Open(i)
    BY <2>2, <2>4, <1>2 DEF OpenChallenges
  <2>5. \A i : i # code => Cardinality(Open(i)') <= MaxOpenChallenges
    <3> SUFFICES ASSUME NEW i, i # code PROVE Cardinality(Open(i)') <= MaxOpenChallenges
      OBVIOUS
    <3>1. Cardinality(Open(i)') \in Nat /\ Cardinality(Open(i)') <= Cardinality(Open(i))
      BY <2>4, <1>3, FS_Subset, FS_CardinalityType
    <3> QED
      BY <3>1, <1>3, <1>5, StoreAssumption
  <2>6. Cardinality(Open(code)') <= MaxOpenChallenges
    <3> DEFINE Before == OpenChallenges(code, now)
    <3>1. Before \in SUBSET DOMAIN challenges
      BY DEF OpenChallenges
    <3>2. IsFiniteSet(Before) /\ Cardinality(Before) \in Nat
      BY <3>1, FS_Subset, FS_CardinalityType
    <3>3. c \notin Before
      BY <3>1, <2>2
    <3>4. IsFiniteSet(Before \cup {c}) /\ Cardinality(Before \cup {c}) = Cardinality(Before) + 1
      BY <3>2, <3>3, FS_AddElement
    <3>5. Cardinality(Open(code)') \in Nat /\ Cardinality(Open(code)') <= Cardinality(Before \cup {c})
      BY <2>3, <3>4, FS_Subset, FS_CardinalityType
    <3>6. Cardinality(Before) < MaxOpenChallenges
      BY <2>2
    <3> HIDE DEF Before, Open
    <3> QED
      BY <3>2, <3>4, <3>5, <3>6, StoreAssumption
  <2>7. IsFiniteSet(DOMAIN challenges)'
    BY <2>2, FS_AddElement
  <2> QED
    BY <2>5, <2>6, <2>7 DEF OpenChallengesBounded
<1> QED
  BY <1>6, <1>7

-----------------------------------------------------------------------------
(* Attempts.  An attempt is counted in one table and its session inserted in   *)
(* another; that the two agree is inductive with the sessions finitely many.   *)

LEMMA AttemptStep ==
    ASSUME RecoveryInv, Next, IsFiniteSet(DOMAIN sessions), AttemptsSpent
    PROVE  IsFiniteSet(DOMAIN sessions)' /\ AttemptsSpent'
<1>0. /\ \A k \in DOMAIN enrollments :
            /\ enrollments[k].attemptsUsed = Cardinality(SessionsUnder(k))
            /\ enrollments[k].attemptsUsed <= enrollments[k].offer.policy.attempts
            /\ enrollments[k] \in EnrollmentRows
      /\ \A s \in DOMAIN sessions :
            sessions[s] \in SessionRows /\ sessions[s].enrollment \in DOMAIN enrollments
  BY DEF AttemptsSpent, SessionsUnder, RecoveryInv, TypeInv, TypeOK, EnrollmentsOK, SessionsOK
<1>1. PICK now \in Times : Step(now)
  BY DEF Next
<1> DEFINE Goal == IsFiniteSet(DOMAIN sessions)' /\ AttemptsSpent'
<1>2. ASSUME DOMAIN sessions' = DOMAIN sessions,
             \A s \in DOMAIN sessions : sessions'[s].enrollment = sessions[s].enrollment,
             DOMAIN enrollments' = DOMAIN enrollments,
             \A k \in DOMAIN enrollments :
                 /\ enrollments'[k].attemptsUsed = enrollments[k].attemptsUsed
                 /\ enrollments'[k].offer = enrollments[k].offer
      PROVE  Goal
  <2>1. \A k : SessionsUnder(k)' = SessionsUnder(k)
    BY <1>2 DEF SessionsUnder
  <2> QED
    BY <1>0, <1>2, <2>1 DEF AttemptsSpent, SessionsUnder
<1>3. ASSUME UNCHANGED <<enrollments, sessions>> PROVE Goal
  BY <1>2, <1>3
<1>4. ASSUME NEW c \in Challenges, NEW offer \in Offers, Enroll(c, offer, now) PROVE Goal
  <2> DEFINE key == <<offer.id, offer.sequence>>
  <2>1. key \notin DOMAIN enrollments
    BY <1>4, EnrollAnswerFacts DEF Enroll, Known
  <2>2. /\ DOMAIN enrollments' = DOMAIN enrollments \cup {key}
        /\ enrollments'[key].attemptsUsed = 0 /\ enrollments'[key].offer = offer
        /\ \A k \in DOMAIN enrollments : enrollments'[k] = enrollments[k]
        /\ sessions' = sessions
    BY <1>4, <2>1 DEF Enroll, Insert
  <2> HIDE DEF key
  <2>3. SessionsUnder(key)' = {}
    BY <1>0, <2>1, <2>2 DEF SessionsUnder
  <2>4. \A k : SessionsUnder(k)' = SessionsUnder(k)
    BY <2>2 DEF SessionsUnder
  <2>5. offer.policy.attempts \in Nat
    BY RequestsAssumption
  <2>6. AttemptsSpent'
    <3> SUFFICES ASSUME NEW j \in DOMAIN enrollments \cup {key}
                 PROVE  /\ enrollments'[j].attemptsUsed = Cardinality(SessionsUnder(j)')
                        /\ enrollments'[j].attemptsUsed <= enrollments'[j].offer.policy.attempts
      BY <2>2 DEF AttemptsSpent, SessionsUnder
    <3>1. CASE j = key
      <4>1. SessionsUnder(j)' = {}
        BY <2>3, <3>1
      <4> QED
        BY <3>1, <4>1, <2>2, <2>5, FS_EmptySet
    <3>2. CASE j \in DOMAIN enrollments
      BY <3>2, <1>0, <2>2, <2>4
    <3> QED
      BY <3>1, <3>2
  <2> QED
    BY <2>2, <2>6
<1>5. ASSUME NEW request \in SessionRequests, BeginRecovery(request, now) PROVE Goal
  <2> DEFINE id == request.id
  <2>0. PICK k : k = CurrentKey(request.enrollment)
    OBVIOUS
  <2>1. /\ k \in DOMAIN enrollments
        /\ id \notin DOMAIN sessions
        /\ ~RateLimited(enrollments[k].offer.policy, enrollments[k].attemptsUsed)
    BY <1>5, <2>0, BeginAnswerFacts, CurrentKeyFacts
       DEF BeginRecovery, Current, RecoveryInv, TypeInv, TypeOK, Admit
  <2>2. /\ enrollments' = [enrollments EXCEPT ![k].attemptsUsed = @ + 1]
        /\ sessions' = Insert(sessions, id, AdmittedSession(k, request, now))
    BY <1>5, <2>0 DEF BeginRecovery, SpendAttempt
  <2>3. /\ DOMAIN sessions' = DOMAIN sessions \cup {id}
        /\ sessions'[id].enrollment = k
        /\ \A s \in DOMAIN sessions : sessions'[s] = sessions[s]
    BY <2>1, <2>2 DEF Insert, AdmittedSession
  <2> HIDE DEF id
  <2>4. /\ DOMAIN enrollments' = DOMAIN enrollments
        /\ enrollments'[k].attemptsUsed = enrollments[k].attemptsUsed + 1
        /\ enrollments'[k].offer = enrollments[k].offer
        /\ \A j \in DOMAIN enrollments : j # k => enrollments'[j] = enrollments[j]
    BY <1>0, <2>1, <2>2 DEF EnrollmentRows
  <2>5. SessionsUnder(k)' = SessionsUnder(k) \cup {id} /\ id \notin SessionsUnder(k)
    BY <2>1, <2>3 DEF SessionsUnder
  <2>6. \A j : j # k => SessionsUnder(j)' = SessionsUnder(j)
    BY <2>3 DEF SessionsUnder
  <2>7. IsFiniteSet(SessionsUnder(k))
    <3>1. SessionsUnder(k) \in SUBSET DOMAIN sessions
      BY DEF SessionsUnder
    <3> QED
      BY <3>1, FS_Subset
  <2>8. Cardinality(SessionsUnder(k)') = enrollments[k].attemptsUsed + 1
    BY <1>0, <2>1, <2>5, <2>7, FS_AddElement
  <2>9. enrollments[k].attemptsUsed + 1 <= enrollments[k].offer.policy.attempts
    <3>1. enrollments[k].attemptsUsed \in Nat /\ enrollments[k].offer.policy.attempts \in Nat
      BY <1>0, <2>1, RequestsAssumption DEF EnrollmentRows
    <3> QED
      BY <2>1, <3>1 DEF RateLimited
  <2>10. AttemptsSpent'
    <3> SUFFICES ASSUME NEW j \in DOMAIN enrollments
                 PROVE  /\ enrollments'[j].attemptsUsed = Cardinality(SessionsUnder(j)')
                        /\ enrollments'[j].attemptsUsed <= enrollments'[j].offer.policy.attempts
      BY <2>4 DEF AttemptsSpent, SessionsUnder
    <3>1. CASE j = k
      BY <3>1, <2>4, <2>8, <2>9
    <3>2. CASE j # k
      BY <3>2, <1>0, <2>4, <2>6
    <3> QED
      BY <3>1, <3>2
  <2>11. IsFiniteSet(DOMAIN sessions)'
    BY <2>3, FS_AddElement
  <2> QED
    BY <2>10, <2>11
<1>6. ASSUME NEW signed \in SignedRequests, EndEnrollment(signed, now) PROVE Goal
  <2>1. PICK k, status :
          enrollments' = [enrollments EXCEPT ![k].status = status, ![k].custody = None]
    BY <1>6 DEF EndEnrollment, Ended
  <2>2. sessions' = sessions
    BY <1>6 DEF EndEnrollment
  <2> QED
    BY <1>0, <1>2, <2>1, <2>2 DEF EnrollmentRows
<1>7. ASSUME NEW signed \in SignedRequests,
             EmitContribution(signed, now) \/ CancelRecovery(signed, now)
      PROVE  Goal
  <2>1. PICK id, status : \/ sessions' = [sessions EXCEPT ![id].status = status]
                          \/ \E given : sessions' = [sessions EXCEPT ![id].status = status,
                                                                     ![id].contribution = given]
    BY <1>7 DEF EmitContribution, Emitted, CancelRecovery
  <2>2. enrollments' = enrollments
    BY <1>7 DEF EmitContribution, ReadSession, CancelRecovery
  <2> QED
    BY <1>0, <1>2, <2>1, <2>2 DEF SessionRows
<1> QED
  BY <1>1, <1>3, <1>4, <1>5, <1>6, <1>7
     DEF Step, Change, Read, CreateInvitation, IssueChallenge, EnrollKnownId,
         ResendContribution, ReportRecovery, ReadSession, ReadEnrollment

-----------------------------------------------------------------------------
(* Retries.  That a retry finds its row rests on what was checked when the row  *)
(* was made still holding of the rows as they are now.                          *)

\* A recorded outcome is stored under its request's own scope, and the request's
\* signature holds against the keys on record.
OutcomeFound(o) ==
    LET q == outcomes[o].request IN
    IF q.operation = "cancel-recovery"
    THEN /\ q.by \in {"holder", "candidate"}
         /\ q.target \in DOMAIN sessions
         /\ VerifySignature(q, CancelKey(q.target, q.by))
         /\ o = <<SessionScope(q.target), q.requestId>>
    ELSE /\ Known(q.target)
         /\ VerifySignature(q, Current(q.target).offer.key)
         /\ o = <<EnrollmentScope(CurrentKey(q.target)), q.requestId>>

RetriesSound ==
    /\ \A s \in DOMAIN sessions : VerifySession(sessions[s].request) = "ok"
    /\ \A o \in DOMAIN outcomes : OutcomeFound(o)

\* An enrollment id's current sequence is its only one, now and after a step.
LEMMA CurrentKeyIs ==
    TypeInv => \A k \in DOMAIN enrollments : Known(k[1]) /\ CurrentKey(k[1]) = k
<1> SUFFICES ASSUME TypeInv, NEW k \in DOMAIN enrollments
             PROVE  Known(k[1]) /\ CurrentKey(k[1]) = k
  OBVIOUS
<1>1. Known(k[1])
  BY DEF Known
<1>2. CurrentKey(k[1]) \in DOMAIN enrollments /\ CurrentKey(k[1])[1] = k[1]
  BY <1>1, CurrentKeyFacts DEF TypeInv, TypeOK
<1> QED
  BY <1>1, <1>2 DEF TypeInv, OneSequencePerId

LEMMA CurrentKeyIsNext ==
    TypeInv' => \A k \in DOMAIN enrollments' : Known(k[1])' /\ (CurrentKey(k[1]) = k)'
<1>1. (TypeInv => \A k \in DOMAIN enrollments : Known(k[1]) /\ CurrentKey(k[1]) = k)'
  BY CurrentKeyIs, PTL
<1> QED
  BY <1>1

LEMMA CurrentKeyKept ==
    ASSUME RecoveryInv, Next, NEW id, Known(id)
    PROVE  /\ CurrentKey(id) \in DOMAIN enrollments
           /\ Known(id)' /\ CurrentKey(id)' = CurrentKey(id)
<1>1. PICK k \in DOMAIN enrollments : k[1] = id
  BY DEF Known
<1>2. Known(k[1]) /\ CurrentKey(k[1]) = k
  BY <1>1, CurrentKeyIs DEF RecoveryInv
<1>3. TypeInv'
  BY NextRecoveryInv DEF RecoveryInv
<1>4. \A j \in DOMAIN enrollments' : Known(j[1])' /\ (CurrentKey(j[1]) = j)'
  BY <1>3, CurrentKeyIsNext
<1>5. k \in DOMAIN enrollments'
  BY <1>1, EnrollmentFrame
<1>6. (Known(k[1]) /\ CurrentKey(k[1]) = k)'
  BY <1>4, <1>5
<1> QED
  BY <1>1, <1>2, <1>6

\* What was recorded is still found after a step.
LEMMA OutcomeKept ==
    ASSUME RecoveryInv, Next, NEW o \in DOMAIN outcomes, OutcomeFound(o)
    PROVE  OutcomeFound(o)'
<1> DEFINE q == outcomes[o].request
<1>1. outcomes'[o] = outcomes[o]
  BY OutcomeFrame
<1>2. CASE q.operation = "cancel-recovery"
  <2>1. q.target \in DOMAIN sessions
    BY <1>2 DEF OutcomeFound
  <2>2. SessionMoves(q.target) /\ sessions[q.target].enrollment \in DOMAIN enrollments
    BY <2>1, SessionFrame DEF RecoveryInv, TypeInv, TypeOK, SessionsOK
  <2>3. CancelKey(q.target, q.by)' = CancelKey(q.target, q.by)
    BY <1>1, <2>1, <2>2, EnrollmentFrame DEF CancelKey, SessionMoves
  <2> QED
    BY <1>1, <1>2, <2>2, <2>3 DEF OutcomeFound, SessionMoves, VerifySignature
<1>3. CASE q.operation # "cancel-recovery"
  <2>1. Known(q.target)
    BY <1>3 DEF OutcomeFound
  <2>2. PICK k : k = CurrentKey(q.target) /\ k \in DOMAIN enrollments /\ Known(q.target)'
                   /\ CurrentKey(q.target)' = k
    BY <1>1, <2>1, CurrentKeyKept
  <2>3. enrollments'[k].offer = enrollments[k].offer
    BY <2>2, EnrollmentFrame
  <2> QED
    BY <1>1, <1>3, <2>2, <2>3 DEF OutcomeFound, Current, VerifySignature
<1> QED
  BY <1>2, <1>3

LEMMA RetriesSoundStep ==
    ASSUME RecoveryInv, Next, RetriesSound
    PROVE  RetriesSound'
<1>1. PICK now \in Times : Step(now)
  BY DEF Next
<1>2. ASSUME NEW s \in DOMAIN sessions' PROVE VerifySession(sessions'[s].request) = "ok"
  <2>1. CASE s \in DOMAIN sessions
    BY <2>1, SessionFrame DEF SessionMoves, RetriesSound
  <2>2. CASE s \notin DOMAIN sessions
    <3>1. ASSUME NEW signed, EmitContribution(signed, now) \/ CancelRecovery(signed, now)
          PROVE  DOMAIN sessions' = DOMAIN sessions
      BY <3>1 DEF EmitContribution, Emitted, CancelRecovery
    <3>2. PICK request \in SessionRequests : BeginRecovery(request, now)
      BY <1>1, <1>2, <2>2, <3>1
         DEF Step, Change, Read, CreateInvitation, IssueChallenge, Enroll, EnrollKnownId,
             EndEnrollment, ResendContribution, ReportRecovery, ReadEnrollment
    <3>3. s = request.id /\ sessions'[s].request = request
      BY <3>2, <2>2, <1>2 DEF BeginRecovery, Insert, AdmittedSession
    <3>4. VerifySession(request) = "ok"
      BY <3>2 DEF BeginRecovery, BeginAnswer, VerifySession
    <3> QED
      BY <3>3, <3>4
  <2> QED
    BY <2>1, <2>2
<1>3. ASSUME NEW o \in DOMAIN outcomes' PROVE OutcomeFound(o)'
  <2>1. CASE o \in DOMAIN outcomes
    BY <2>1, OutcomeKept DEF RetriesSound
  <2>2. CASE o \notin DOMAIN outcomes
    <3>1. PICK signed \in SignedRequests : CancelRecovery(signed, now) \/ EndEnrollment(signed, now)
      BY <1>1, <1>3, <2>2
         DEF Step, Change, Read, CreateInvitation, IssueChallenge, Enroll, EnrollKnownId,
             BeginRecovery, EmitContribution, ResendContribution, ReportRecovery, ReadSession,
             ReadEnrollment
    <3>2. CASE CancelRecovery(signed, now)
      <4>1. /\ o = <<SessionScope(signed.target), signed.requestId>>
            /\ outcomes'[o].request = signed
            /\ signed.operation = "cancel-recovery"
            /\ signed.target \in DOMAIN sessions
            /\ enrollments' = enrollments
        BY <3>2, <1>3, <2>2, CancelFacts DEF CancelRecovery, RecordOutcome, Insert
      <4>2. signed.by \in {"holder", "candidate"}
              /\ VerifySignature(signed, CancelKey(signed.target, signed.by))
        BY <3>2 DEF CancelRecovery, CancelAnswer
      <4>3. SessionMoves(signed.target)
        BY <4>1, SessionFrame
      <4> QED
        BY <4>1, <4>2, <4>3 DEF OutcomeFound, SessionMoves, CancelKey, VerifySignature
    <3>3. CASE EndEnrollment(signed, now)
      <4>1. Known(signed.target) /\ VerifySignature(signed, Current(signed.target).offer.key)
        BY <3>3 DEF EndEnrollment, EndAnswer
      <4>2. PICK k : k = CurrentKey(signed.target)
        OBVIOUS
      <4>3. /\ k \in DOMAIN enrollments /\ Known(signed.target)'
            /\ CurrentKey(signed.target)' = k
        BY <4>1, <4>2, CurrentKeyKept
      <4>4. enrollments'[k].offer = enrollments[k].offer
        BY <4>3, EnrollmentFrame
      <4> DEFINE key == <<EnrollmentScope(k), signed.requestId>>
      <4>5. RecordOutcome(EnrollmentScope(k), signed,
                          EnrollmentStateName(enrollments[k].status, enrollments[k].offer.expiresAt, now),
                          EnrollmentStateName(EndedStatus(signed.operation, enrollments[k].status),
                                              enrollments[k].offer.expiresAt, now), now)
              /\ signed.operation # "cancel-recovery"
        BY <3>3, <4>2 DEF EndEnrollment
      <4>6. DOMAIN outcomes' = DOMAIN outcomes \cup {key} /\ outcomes'[key].request = signed
        BY <4>5 DEF RecordOutcome, Insert
      <4>7. o = key
        BY <4>6, <1>3, <2>2
      <4> QED
        BY <4>1, <4>2, <4>3, <4>4, <4>5, <4>6, <4>7 DEF OutcomeFound, Current, VerifySignature
    <3> QED
      BY <3>1, <3>2, <3>3
  <2> QED
    BY <2>1, <2>2
<1> QED
  BY <1>2, <1>3 DEF RetriesSound

LEMMA RetriesFound ==
    RecoveryInv /\ InvitationSpentOnce /\ RetriesSound => RetriesRecognised
<1> SUFFICES ASSUME RecoveryInv, InvitationSpentOnce, RetriesSound, NEW now \in highWater..MaxTime
             PROVE  /\ \A k \in DOMAIN enrollments :
                          EnrollAnswer(enrollments[k].challenge, enrollments[k].offer, now) =
                              IF Tombstone(enrollments[k].status) THEN "enrollment_revoked"
                              ELSE "recorded"
                    /\ \A s \in DOMAIN sessions : BeginAnswer(sessions[s].request, now) = "recorded"
                    /\ \A o \in DOMAIN outcomes :
                          "recorded" = IF outcomes[o].request.operation = "cancel-recovery"
                                       THEN CancelAnswer(outcomes[o].request, now)
                                       ELSE EndAnswer(outcomes[o].request, now)
  BY DEF RetriesRecognised
<1>1. ASSUME NEW k \in DOMAIN enrollments
      PROVE  EnrollAnswer(enrollments[k].challenge, enrollments[k].offer, now) =
                 IF Tombstone(enrollments[k].status) THEN "enrollment_revoked" ELSE "recorded"
  <2> DEFINE here == Recorded(enrollments[k].challenge)
  <2>1. k \in here
    BY DEF Recorded
  <2>2. \A j \in here : j = k
    BY DEF Recorded, InvitationSpentOnce
  <2>3. (CHOOSE j \in here : TRUE) = k
    BY <2>1, <2>2
  <2> HIDE DEF here
  <2> QED
    BY <2>1, <2>3 DEF EnrollAnswer, here
<1>2. ASSUME NEW s \in DOMAIN sessions PROVE BeginAnswer(sessions[s].request, now) = "recorded"
  <2>1. sessions[s].request.id = s
    BY DEF RecoveryInv, TypeInv, TypeOK, SessionsOK
  <2>2. VerifySession(sessions[s].request) = "ok"
    BY DEF RetriesSound
  <2> QED
    BY <2>1, <2>2 DEF BeginAnswer
<1>3. ASSUME NEW o \in DOMAIN outcomes
      PROVE  "recorded" = IF outcomes[o].request.operation = "cancel-recovery"
                          THEN CancelAnswer(outcomes[o].request, now)
                          ELSE EndAnswer(outcomes[o].request, now)
  <2>1. OutcomeFound(o)
    BY DEF RetriesSound
  <2>2. CASE outcomes[o].request.operation = "cancel-recovery"
    BY <2>1, <2>2 DEF OutcomeFound, CancelAnswer, OutcomeAnswer
  <2>3. CASE outcomes[o].request.operation # "cancel-recovery"
    BY <2>1, <2>3 DEF OutcomeFound, EndAnswer, OutcomeAnswer
  <2> QED
    BY <2>2, <2>3
<1> QED
  BY <1>1, <1>2, <1>3

-----------------------------------------------------------------------------

\* The inductive invariant of this module.
AdmissionInv ==
    /\ RecoveryInv
    /\ SpentMarked
    /\ InvitationSpentOnce
    /\ IsFiniteSet(DOMAIN challenges)
    /\ OpenChallengesBounded
    /\ IsFiniteSet(DOMAIN sessions)
    /\ AttemptsSpent
    /\ RetriesSound

LEMMA InitAdmissionInv == Init => AdmissionInv
<1> SUFFICES ASSUME Init PROVE AdmissionInv
  OBVIOUS
<1>1. /\ DOMAIN invitations = {} /\ DOMAIN challenges = {} /\ DOMAIN enrollments = {}
      /\ DOMAIN sessions = {} /\ DOMAIN outcomes = {}
  BY DEF Init
<1> QED
  BY <1>1, InitRecoveryInv, FS_EmptySet
     DEF AdmissionInv, SpentMarked, InvitationSpentOnce, OpenChallengesBounded, AttemptsSpent,
         RetriesSound

LEMMA NextAdmissionInv == AdmissionInv /\ [Next]_vars => AdmissionInv'
<1> SUFFICES ASSUME AdmissionInv, [Next]_vars PROVE AdmissionInv'
  OBVIOUS
<1>1. RecoveryInv'
  BY NextRecoveryInv DEF AdmissionInv
<1>2. CASE Next
  BY <1>1, <1>2, SpentStep, ChallengeLimitStep, AttemptStep, RetriesSoundStep DEF AdmissionInv
<1>3. CASE UNCHANGED vars
  <2>1. SpentMarked' /\ InvitationSpentOnce' /\ AttemptsSpent'
    BY <1>3 DEF AdmissionInv, SpentMarked, InvitationSpentOnce, AttemptsSpent, SessionsUnder, vars
  <2>2. OpenChallengesBounded'
    BY <1>3 DEF AdmissionInv, OpenChallengesBounded, OpenChallenges, vars
  <2>3. RetriesSound'
    <3>1. ASSUME NEW o \in DOMAIN outcomes PROVE OutcomeFound(o)' = OutcomeFound(o)
      <4>1. CurrentKey(outcomes[o].request.target)' = CurrentKey(outcomes[o].request.target)
        BY <1>3 DEF CurrentKey, vars
      <4> QED
        BY <1>3, <4>1 DEF OutcomeFound, CancelKey, Known, Current, VerifySignature, vars
    <3> QED
      BY <1>3, <3>1 DEF AdmissionInv, RetriesSound, vars
  <2>4. UNCHANGED <<challenges, sessions>>
    BY <1>3 DEF vars
  <2> QED
    BY <1>1, <2>1, <2>2, <2>3, <2>4 DEF AdmissionInv
<1> QED
  BY <1>2, <1>3

LEMMA AdmissionInvariant == Spec => []AdmissionInv
BY InitAdmissionInv, NextAdmissionInv, PTL DEF Spec

\* However many challenges are drawn from an invitation and in whatever order
\* they come back, it makes one enrollment (issue_challenge, enroll).
THEOREM InvitationIsSpentOnce == Spec => []InvitationSpentOnce
BY AdmissionInvariant, PTL DEF AdmissionInv

\* An invitation never has more open challenges than the limit, for any codes,
\* clock readings and order of requests (issue_challenge).
THEOREM OpenChallengesAreBounded == Spec => []OpenChallengesBounded
BY AdmissionInvariant, PTL DEF AdmissionInv

\* Every admitted session is one attempt and the enrolled limit on attempts is
\* never passed (begin_recovery, admit).
THEOREM AttemptsAreSpent == Spec => []AttemptsSpent
BY AdmissionInvariant, PTL DEF AdmissionInv

\* An identical retry of anything committed is recognised at every clock reading
\* the store still accepts (enroll, begin_recovery, replayed_outcome).
THEOREM RetriesAreRecognised == Spec => []RetriesRecognised
<1>1. AdmissionInv => RetriesRecognised
  BY RetriesFound DEF AdmissionInv
<1> QED
  BY AdmissionInvariant, <1>1, PTL
=============================================================================
