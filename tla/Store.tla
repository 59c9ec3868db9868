------------------------------- MODULE Store -------------------------------
(* The trustee's store, src/src/store.rs: eight tables in one SQLite         *)
(* database, and the operations of Store::handle on them.                    *)
(*                                                                           *)
(* Every operation is one IMMEDIATE transaction under one mutex, so a        *)
(* handler is one action.  A handler that answers an error, or that answers  *)
(* a retry from what is recorded, drops its transaction: nothing changes,    *)
(* not even the clock row, and the model takes no step.  The *Answer         *)
(* operators say what such a request is answered, in the order of the code's *)
(* checks.                                                                   *)
(*                                                                           *)
(* `now` is the machine's clock, read under the lock: any time in Times,     *)
(* since the machine's clock may be set back or forward between requests.    *)
(* What a request is digested to (request_digest, the stored session bytes)  *)
(* is modelled by the request itself.                                        *)
EXTENDS Trustee, FiniteSets

CONSTANTS
    Codes,               \* invitation codes random_id may draw
    Challenges,          \* challenges random_id may draw
    Offers,              \* what enroll requests may offer (see Trustee)
    SessionRequests,     \* what begin-recovery may carry (see Trustee)
    SignedRequests,      \* operation, requestId, target, by, issuedAt, signer
    InvitationLifetime,
    ChallengeLifetime,
    MaxOpenChallenges,
    MaxTime,             \* bound: the clock is read in 0..MaxTime
    None                 \* SQL NULL

Times == 0..MaxTime

Operations == {"read-enrollment", "read-recovery", "cancel-recovery",
               "revoke-enrollment", "close-enrollment"}

ASSUME StoreAssumption ==
    /\ InvitationLifetime \in Nat
    /\ ChallengeLifetime \in Nat
    /\ MaxOpenChallenges \in Nat
    /\ MaxTime \in Nat

ASSUME RequestsAssumption ==
    /\ \A o \in Offers :
          /\ o.faults \subseteq OfferFaults
          /\ {o.sequence, o.policy.attempts} \subseteq Nat
          /\ {o.createdAt, o.expiresAt} \subseteq Int
          /\ {o.policy.cooldown, o.policy.lifetime} \subseteq Nat
    /\ \A r \in SessionRequests :
          r.faults \subseteq SessionFaults /\ {r.requestedAt, r.expiresAt} \subseteq Int
    /\ \A q \in SignedRequests : q.issuedAt \in Int /\ q.operation \in Operations

EnrollmentKeys == {<<o.id, o.sequence>> : o \in Offers}
SessionIds == {r.id : r \in SessionRequests}

\* What the sealed_contribution columns may hold.
Contributions ==
    [session     : SessionIds,
     destination : {r.destination : r \in SessionRequests},
     envelope    : Offers,
     decidedAt   : Int,
     expiresAt   : {r.expiresAt : r \in SessionRequests}]

ASSUME NoneAssumption == None \notin Offers /\ None \notin Contributions

VARIABLES
    highWater,    \* clock.high_water
    invitations,  \* code      -> [expiresAt, used]
    challenges,   \* challenge -> [invitation, expiresAt, used]
    enrollments,  \* <<id, sequence>> -> [challenge, offer, status,
                  \*                      attemptsUsed, storedAt, custody]
    sessions,     \* session id -> [enrollment, status, request, cooldownEndsAt,
                  \*                expiresAt, remaining, createdAt, contribution]
    nonces,       \* <<scope, request id>> -> seen_at
    outcomes,     \* <<scope, request id>> -> [request, oldState, newState, recordedAt]
    sent          \* the contribution in the last committed operation's reply

tables == <<highWater, invitations, challenges, enrollments, sessions, nonces, outcomes>>
vars == <<highWater, invitations, challenges, enrollments, sessions, nonces, outcomes, sent>>

\* INSERT: the table with one more row.
Insert(table, key, row) ==
    [k \in DOMAIN table \cup {key} |-> IF k = key THEN row ELSE table[k]]

Init ==
    /\ highWater = 0
    /\ invitations = [c \in {} |-> None]
    /\ challenges = [c \in {} |-> None]
    /\ enrollments = [k \in {} |-> None]
    /\ sessions = [s \in {} |-> None]
    /\ nonces = [k \in {} |-> None]
    /\ outcomes = [k \in {} |-> None]
    /\ sent = None

MutTransaction(now) == highWater' = now

\* `transaction`: refuse a clock behind the highest time recorded, and record
\* this one.  It is recorded only if the transaction commits.
Transaction(now) ==
    /\ now >= highWater
    /\ highWater' = now

(* ----------------------------- enrollment ------------------------------- *)

\* `create_invitation`: random_id never draws a code twice.
CreateInvitation(code, now) ==
    /\ Transaction(now)
    /\ code \notin DOMAIN invitations
    /\ invitations' = Insert(invitations, code,
                             [expiresAt |-> now + InvitationLifetime, used |-> FALSE])
    /\ sent' = None
    /\ UNCHANGED <<challenges, enrollments, sessions, nonces, outcomes>>

InvitationOpen(code, now) ==
    /\ code \in DOMAIN invitations
    /\ ~invitations[code].used
    /\ invitations[code].expiresAt > now

OpenChallenges(code, now) ==
    {c \in DOMAIN challenges : /\ challenges[c].invitation = code
                               /\ ~challenges[c].used
                               /\ challenges[c].expiresAt > now}

MutMayIssue(code, now) == InvitationOpen(code, now)

MayIssue(code, now) ==
    /\ InvitationOpen(code, now)
    /\ Cardinality(OpenChallenges(code, now)) < MaxOpenChallenges

\* `issue_challenge`
IssueChallenge(code, challenge, now) ==
    /\ Transaction(now)
    /\ MayIssue(code, now)
    /\ challenge \notin DOMAIN challenges
    /\ challenges' = Insert(challenges, challenge,
                            [invitation |-> code,
                             expiresAt  |-> now + ChallengeLifetime,
                             used       |-> FALSE])
    /\ sent' = None
    /\ UNCHANGED <<invitations, enrollments, sessions, nonces, outcomes>>

MutChallengeOpen(challenge, now) ==
    /\ challenge \in DOMAIN challenges
    /\ ~challenges[challenge].used
    /\ challenges[challenge].expiresAt > now

\* A challenge this trustee issued, unexpired and unused, for an invitation
\* still open.
ChallengeOpen(challenge, now) ==
    /\ challenge \in DOMAIN challenges
    /\ ~challenges[challenge].used
    /\ challenges[challenge].expiresAt > now
    /\ InvitationOpen(challenges[challenge].invitation, now)

\* `spend_challenge`: mark a challenge and its invitation used.
SpendChallenge(challenge) ==
    /\ challenges' = [challenges EXCEPT ![challenge].used = TRUE]
    /\ invitations' = [invitations EXCEPT ![challenges[challenge].invitation].used = TRUE]

Known(id) == \E k \in DOMAIN enrollments : k[1] = id

\* `load_current_enrollment`: the highest sequence stored, tombstones included.
CurrentKey(id) ==
    CHOOSE k \in DOMAIN enrollments :
        /\ k[1] = id
        /\ \A other \in DOMAIN enrollments : other[1] = id => other[2] <= k[2]

Current(id) == enrollments[CurrentKey(id)]

\* A retry names a challenge that an enrollment already holds.
Recorded(challenge) ==
    {k \in DOMAIN enrollments : enrollments[k].challenge = challenge}

MutKnownAnswer(offer) == "accept"

\* A known enrollment id: its state is told only to the key that holds it; any
\* other signer is refused like a bad envelope and spends the invitation.
KnownAnswer(offer) ==
    IF ~Known(offer.id) THEN "accept"
    ELSE IF Current(offer.id).offer.key # offer.key THEN "spend"
    ELSE IF Tombstone(Current(offer.id).status) THEN "enrollment_revoked"
    ELSE IF offer.sequence <= Current(offer.id).offer.sequence
         THEN "stale_enrollment_sequence"
    ELSE "invalid_enrollment"

\* What enroll does with a request: "accept", "spend" (answered
\* invalid_enrollment, but committed), "recorded" (the receipt again) or a code.
EnrollAnswer(challenge, offer, now) ==
    IF Recorded(challenge) # {}
    THEN LET row == enrollments[CHOOSE k \in Recorded(challenge) : TRUE] IN
         IF row.offer # offer THEN "request_conflict"
         ELSE IF Tombstone(row.status) THEN "enrollment_revoked"
         ELSE "recorded"
    ELSE IF ~ChallengeOpen(challenge, now) THEN "invalid_enrollment"
    ELSE IF "key_id" \in offer.faults THEN "invalid_enrollment"
    ELSE IF AcceptEnrollment(offer, now) # "ok" THEN AcceptEnrollment(offer, now)
    ELSE IF CheckArtifact(offer) # "ok" THEN CheckArtifact(offer)
    ELSE KnownAnswer(offer)

\* `enroll`, custody taken.
Enroll(challenge, offer, now) ==
    /\ Transaction(now)
    /\ EnrollAnswer(challenge, offer, now) = "accept"
    /\ enrollments' = Insert(enrollments, <<offer.id, offer.sequence>>,
                             [challenge    |-> challenge,
                              offer        |-> offer,
                              status       |-> "accepted",
                              attemptsUsed |-> 0,
                              storedAt     |-> now,
                              custody      |-> offer])
    /\ SpendChallenge(challenge)
    /\ sent' = None
    /\ UNCHANGED <<sessions, nonces, outcomes>>

\* `enroll`, a known enrollment id under another key: refused, and committed.
EnrollKnownId(challenge, offer, now) ==
    /\ Transaction(now)
    /\ EnrollAnswer(challenge, offer, now) = "spend"
    /\ SpendChallenge(challenge)
    /\ sent' = None
    /\ UNCHANGED <<enrollments, sessions, nonces, outcomes>>

\* `enrollment_receipt`, rebuilt from the row and signed only over the exact
\* bytes still held.
EnrollmentReceipt(k) ==
    [requestId  |-> enrollments[k].challenge,
     oldState   |-> "none",
     newState   |-> "active",
     recordedAt |-> enrollments[k].storedAt,
     expiresAt  |-> enrollments[k].offer.expiresAt,
     sealed     |-> enrollments[k].custody]

(* ------------- signed requests: freshness, replay, idempotency ---------- *)

\* `Signed::parse`: only a cancellation says who it is by.
Parse(signed) == signed.operation = "cancel-recovery" <=> signed.by # "none"

\* `verify_signature`
VerifySignature(signed, key) == signed.signer = key

EnrollmentScope(k) == <<"enrollment", k[1], k[2]>>
SessionScope(id) == <<"session", id>>

\* `check_fresh`: issuedAt within the clock skew, either way.
CheckFresh(signed, now) == Distance(signed.issuedAt, now) <= Skew

MutPurge(now) == {k \in DOMAIN nonces : nonces[k] >= now - Skew}

\* The nonces that survive the purge a signed read makes first.
Purge(now) == {k \in DOMAIN nonces : nonces[k] >= now - 2 * Skew}

MutSpendNonce(scope, signed, now) ==
    nonces' = [k \in Purge(now) \cup {<<scope, signed.requestId>>} |->
                   IF k = <<scope, signed.requestId>> THEN now ELSE nonces[k]]

\* `spend_nonce`: purge, then insert; a request id still present is a replay.
SpendNonce(scope, signed, now) ==
    /\ <<scope, signed.requestId>> \notin Purge(now)
    /\ nonces' = Insert([k \in Purge(now) |-> nonces[k]],
                        <<scope, signed.requestId>>, now)

MutOutcomeAnswer(scope, signed, now) ==
    IF ~CheckFresh(signed, now) THEN "invalid_request"
    ELSE IF <<scope, signed.requestId>> \in DOMAIN outcomes THEN "recorded"
    ELSE "ok"

\* `recorded_outcome`, `replayed_outcome`: an identical retry gets the recorded
\* receipt at any age, a changed body is a conflict; freshness is asked of a
\* first acceptance only.
OutcomeAnswer(scope, signed, now) ==
    IF <<scope, signed.requestId>> \in DOMAIN outcomes
    THEN IF outcomes[<<scope, signed.requestId>>].request # signed
         THEN "request_conflict"
         ELSE "recorded"
    ELSE IF ~CheckFresh(signed, now) THEN "invalid_request"
    ELSE "ok"

\* `record_outcome`
RecordOutcome(scope, signed, oldState, newState, now) ==
    outcomes' = Insert(outcomes, <<scope, signed.requestId>>,
                       [request    |-> signed,
                        oldState   |-> oldState,
                        newState   |-> newState,
                        recordedAt |-> now])

(* ------------------------------- recovery ------------------------------- *)

EnrollmentState(k) ==
    [status    |-> enrollments[k].status,
     sequence  |-> enrollments[k].offer.sequence,
     expiresAt |-> enrollments[k].offer.expiresAt]

SessionState(id) ==
    [status         |-> sessions[id].status,
     sequence       |-> sessions[id].enrollment[2],
     cooldownEndsAt |-> sessions[id].cooldownEndsAt,
     expiresAt      |-> sessions[id].expiresAt]

\* What begin_recovery does with a request: "ok", "recorded" or a code.
BeginAnswer(request, now) ==
    IF VerifySession(request) # "ok" THEN VerifySession(request)
    ELSE IF request.id \in DOMAIN sessions
    THEN IF sessions[request.id].request # request THEN "request_conflict"
         ELSE "recorded"
    ELSE IF ~Known(request.enrollment) THEN "invalid_request"
    ELSE IF ~Binds(request, Current(request.enrollment).offer) THEN "invalid_request"
    ELSE Admit(EnrollmentState(CurrentKey(request.enrollment)),
               Current(request.enrollment).offer.policy,
               Current(request.enrollment).attemptsUsed,
               request, now, Skew)

\* A session as admitted under enrollment k: refused ones spend an attempt too.
AdmittedSession(k, request, now) ==
    LET offer == enrollments[k].offer IN
    [enrollment     |-> k,
     status         |-> IF CheckFactor(offer, request) THEN "cooling_down" ELSE "refused",
     request        |-> request,
     cooldownEndsAt |-> CooldownEndsAt(offer.policy, request, now),
     expiresAt      |-> request.expiresAt,
     remaining      |-> offer.policy.attempts - enrollments[k].attemptsUsed - 1,
     createdAt      |-> now,
     contribution   |-> None]

MutSpendAttempt(k, request) ==
    IF CheckFactor(enrollments[k].offer, request)
    THEN [enrollments EXCEPT ![k].attemptsUsed = @ + 1]
    ELSE enrollments

\* Whether the factor holds or not, the request is an attempt.
SpendAttempt(k, request) == [enrollments EXCEPT ![k].attemptsUsed = @ + 1]

\* `begin_recovery`
BeginRecovery(request, now) ==
    /\ Transaction(now)
    /\ BeginAnswer(request, now) = "ok"
    /\ LET k == CurrentKey(request.enrollment) IN
       /\ enrollments' = SpendAttempt(k, request)
       /\ sessions' = Insert(sessions, request.id, AdmittedSession(k, request, now))
    /\ sent' = None
    /\ UNCHANGED <<invitations, challenges, nonces, outcomes>>

\* `session_receipt`: what begin decided, never what happened later.
SessionReceipt(id) ==
    LET refused == sessions[id].status = "refused" IN
    [requestId      |-> id,
     newState       |-> IF refused THEN "refused" ELSE "cooling_down",
     reason         |-> IF refused THEN SessionReason("refused") ELSE "none",
     recordedAt     |-> sessions[id].createdAt,
     remaining      |-> sessions[id].remaining,
     evidence       |-> sessions[id].request,
     cooldownEndsAt |-> sessions[id].cooldownEndsAt,
     expiresAt      |-> sessions[id].expiresAt]

\* The checks and the nonce every candidate poll goes through first.
ReadSession(signed, now) ==
    /\ Transaction(now)
    /\ signed.operation = "read-recovery"
    /\ signed.target \in DOMAIN sessions
    /\ VerifySignature(signed, sessions[signed.target].request.destination)
    /\ CheckFresh(signed, now)
    /\ SpendNonce(SessionScope(signed.target), signed, now)
    /\ UNCHANGED <<invitations, challenges, enrollments, outcomes>>

MutReleaseVerdict(id, now) ==
    LET verdict == Release(EnrollmentState(sessions[id].enrollment), SessionState(id),
                           now, highWater) IN
    IF verdict = "resend" THEN "emit" ELSE verdict

\* The release predicate, with the floor the transaction found.
ReleaseVerdict(id, now) ==
    Release(EnrollmentState(sessions[id].enrollment), SessionState(id), now, highWater)

Emitted(id, contribution) ==
    [sessions EXCEPT ![id].status = "released", ![id].contribution = contribution]

\* `read_recovery`, first read the release predicate allows: seal, persist and
\* return the contribution.
EmitContribution(signed, now) ==
    /\ ReadSession(signed, now)
    /\ ReleaseVerdict(signed.target, now) = "emit"
    /\ LET session == sessions[signed.target]
           row == enrollments[session.enrollment]
           contribution == Contribution(row.custody, session.request, now) IN
       /\ row.custody # None
       /\ Binds(session.request, row.offer)
       /\ sessions' = Emitted(signed.target, contribution)
       /\ sent' = contribution

\* `read_recovery`, a later read: the same bytes again.
ResendContribution(signed, now) ==
    /\ ReadSession(signed, now)
    /\ ReleaseVerdict(signed.target, now) = "resend"
    /\ sent' = sessions[signed.target].contribution
    /\ UNCHANGED sessions

\* `read_recovery`, not releasable: report the state, hand out nothing.
ReportRecovery(signed, now) ==
    /\ ReadSession(signed, now)
    /\ ReleaseVerdict(signed.target, now) \in
           {"recovery_cooling_down", "recovery_vetoed", "recovery_refused",
            "recovery_expired"}
    /\ sent' = None
    /\ UNCHANGED sessions

MutLive(id, now) == sessions[id].status \in {"cooling_down", "released"}

\* A session that a cancellation still changes.
Live(id, now) ==
    /\ sessions[id].status \in {"cooling_down", "released"}
    /\ now < sessions[id].expiresAt

MutCancelledStatus(id, by, now) ==
    IF by = "holder" THEN "vetoed"
    ELSE IF Live(id, now) THEN "cancelled"
    ELSE sessions[id].status

CancelledStatus(id, by, now) ==
    IF Live(id, now)
    THEN IF by = "holder" THEN "vetoed" ELSE "cancelled"
    ELSE sessions[id].status

\* The key a cancellation must be signed with.
CancelKey(id, by) ==
    IF by = "holder" THEN enrollments[sessions[id].enrollment].offer.key
    ELSE sessions[id].request.destination

\* What cancel_recovery does with a request: "ok", "recorded" or a code.
CancelAnswer(signed, now) ==
    IF signed.by \notin {"holder", "candidate"} THEN "invalid_request"
    ELSE IF signed.target \notin DOMAIN sessions THEN "invalid_request"
    ELSE IF ~VerifySignature(signed, CancelKey(signed.target, signed.by)) THEN "invalid_request"
    ELSE OutcomeAnswer(SessionScope(signed.target), signed, now)

StateOfSession(id, status, now) ==
    SessionStateName(status, sessions[id].cooldownEndsAt, sessions[id].expiresAt, now)

\* `cancel_recovery`: candidate cancellation or holder veto.
CancelRecovery(signed, now) ==
    /\ Transaction(now)
    /\ signed.operation = "cancel-recovery"
    /\ CancelAnswer(signed, now) = "ok"
    /\ LET id == signed.target
           status == CancelledStatus(id, signed.by, now) IN
       /\ sessions' = [sessions EXCEPT ![id].status = status]
       /\ RecordOutcome(SessionScope(id), signed,
                        StateOfSession(id, sessions[id].status, now),
                        StateOfSession(id, status, now), now)
    /\ sent' = None
    /\ UNCHANGED <<invitations, challenges, enrollments, nonces>>

(* --------------------------- holder requests ---------------------------- *)

\* `read_enrollment`: the holder's poll.  Its receipt lists the sessions' Notices.
ReadEnrollment(signed, now) ==
    /\ Transaction(now)
    /\ signed.operation = "read-enrollment"
    /\ Known(signed.target)
    /\ VerifySignature(signed, Current(signed.target).offer.key)
    /\ CheckFresh(signed, now)
    /\ SpendNonce(EnrollmentScope(CurrentKey(signed.target)), signed, now)
    /\ sent' = None
    /\ UNCHANGED <<invitations, challenges, enrollments, sessions, outcomes>>

\* One notice per session of the sequence.
Notice(id, now) ==
    [session  |-> id,
     state    |-> StateOfSession(id, sessions[id].status, now),
     reason   |-> SessionReason(sessions[id].status),
     released |-> sessions[id].contribution # None]

\* What end_enrollment does with a request: "ok", "recorded" or a code.
EndAnswer(signed, now) ==
    IF ~Known(signed.target) THEN "invalid_request"
    ELSE IF ~VerifySignature(signed, Current(signed.target).offer.key) THEN "invalid_request"
    ELSE OutcomeAnswer(EnrollmentScope(CurrentKey(signed.target)), signed, now)

MutEndedStatus(operation, status) ==
    IF operation = "close-enrollment" THEN "closed" ELSE "revoked"

MutEndedName(operation, status) == operation

EndedStatus(operation, status) ==
    IF operation = "close-enrollment" \/ status = "closed" THEN "closed" ELSE "revoked"

MutEnded(k, operation) ==
    [enrollments EXCEPT ![k].status = EndedStatus(operation, @)]

\* The tombstone: the bindings are kept, the custody is deleted.
Ended(k, operation) ==
    [enrollments EXCEPT ![k].status = EndedStatus(operation, @), ![k].custody = None]

\* `end_enrollment`: revoke-enrollment and close-enrollment.
EndEnrollment(signed, now) ==
    /\ Transaction(now)
    /\ signed.operation \in {"revoke-enrollment", "close-enrollment"}
    /\ EndAnswer(signed, now) = "ok"
    /\ LET k == CurrentKey(signed.target)
           StateOf(status) == EnrollmentStateName(status, enrollments[k].offer.expiresAt, now) IN
       /\ enrollments' = Ended(k, signed.operation)
       /\ RecordOutcome(EnrollmentScope(k), signed,
                        StateOf(enrollments[k].status),
                        StateOf(EndedStatus(signed.operation, enrollments[k].status)), now)
    /\ sent' = None
    /\ UNCHANGED <<invitations, challenges, sessions, nonces>>

\* `outcome_receipt`: rebuilt from the outcome row and, for a session, from the
\* session's present status.
OutcomeReceipt(key) ==
    LET outcome == outcomes[key] IN
    [requestId  |-> outcome.request.requestId,
     operation  |-> outcome.request.operation,
     oldState   |-> outcome.oldState,
     newState   |-> outcome.newState,
     recordedAt |-> outcome.recordedAt,
     reason     |-> IF outcome.request.operation = "cancel-recovery"
                    THEN SessionReason(sessions[outcome.request.target].status)
                    ELSE "none"]

-----------------------------------------------------------------------------

\* `handle`: a signed read.
Read(signed, now) ==
    /\ Parse(signed)
    /\ \/ EmitContribution(signed, now)
       \/ ResendContribution(signed, now)
       \/ ReportRecovery(signed, now)
       \/ ReadEnrollment(signed, now)

\* `handle`: any other operation, or the operator's `invite`.
Change(now) ==
    \/ \E code \in Codes : CreateInvitation(code, now)
    \/ \E code \in Codes, c \in Challenges : IssueChallenge(code, c, now)
    \/ \E c \in Challenges, offer \in Offers :
           Enroll(c, offer, now) \/ EnrollKnownId(c, offer, now)
    \/ \E request \in SessionRequests : BeginRecovery(request, now)
    \/ \E signed \in SignedRequests :
          /\ Parse(signed)
          /\ CancelRecovery(signed, now) \/ EndEnrollment(signed, now)

Step(now) == Change(now) \/ \E signed \in SignedRequests : Read(signed, now)

Next == \E now \in Times : Step(now)

Spec == Init /\ [][Next]_vars
=============================================================================
