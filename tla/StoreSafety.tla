----------------------------- MODULE StoreSafety -----------------------------
(* What the trustee's store promises: invariants of its tables, and what no    *)
(* committed operation may do.                                                 *)
EXTENDS Store

EnrollmentRows ==
    [challenge : Challenges, offer : Offers, status : EnrollmentStatus,
     attemptsUsed : Nat, storedAt : Int, custody : Offers \cup {None}]

SessionRows ==
    [enrollment : EnrollmentKeys, status : SessionStatus, request : SessionRequests,
     cooldownEndsAt : Int, expiresAt : Int, remaining : Int, createdAt : Int,
     contribution : Contributions \cup {None}]

\* The contract names a receipt may carry.
StateNames ==
    {"active", "expired", "superseded", "revoked", "closed",
     "cooling_down", "collecting", "finalized", "cancelled", "refused"}

OutcomeRows ==
    [request : SignedRequests, oldState : StateNames, newState : StateNames,
     recordedAt : Int]

InvitationsOK ==
    /\ DOMAIN invitations \subseteq Codes
    /\ \A c \in DOMAIN invitations : invitations[c] \in [expiresAt : Int, used : BOOLEAN]

ChallengesOK ==
    /\ DOMAIN challenges \subseteq Challenges
    /\ \A c \in DOMAIN challenges :
          challenges[c] \in [invitation : DOMAIN invitations, expiresAt : Int, used : BOOLEAN]

EnrollmentsOK ==
    /\ DOMAIN enrollments \subseteq EnrollmentKeys
    /\ \A k \in DOMAIN enrollments :
          /\ enrollments[k] \in EnrollmentRows
          /\ enrollments[k].challenge \in DOMAIN challenges
          /\ k = <<enrollments[k].offer.id, enrollments[k].offer.sequence>>

SessionsOK ==
    /\ DOMAIN sessions \subseteq SessionIds
    /\ \A s \in DOMAIN sessions :
          /\ sessions[s] \in SessionRows
          /\ sessions[s].enrollment \in DOMAIN enrollments
          /\ sessions[s].request.id = s

OutcomesOK == \A o \in DOMAIN outcomes : outcomes[o] \in OutcomeRows

\* Every table holds rows of its own kind, and a row refers only to rows that
\* exist: the schema's columns, CHECKs and foreign keys.
TypeOK ==
    /\ highWater \in Times
    /\ InvitationsOK
    /\ ChallengesOK
    /\ EnrollmentsOK
    /\ SessionsOK
    /\ \A n \in DOMAIN nonces : nonces[n] \in Times
    /\ OutcomesOK
    /\ sent \in Contributions \cup {None}

(* ------------------------------ enrollment ------------------------------ *)

\* One invitation authorizes one enrollment (schema comment on invitations):
\* however many challenges were drawn from it, and in whatever order they come
\* back, no two enrollments trace to the same invitation.
InvitationSpentOnce ==
    \A j, k \in DOMAIN enrollments :
        challenges[enrollments[j].challenge].invitation
            = challenges[enrollments[k].challenge].invitation => j = k

\* An invitation never has more than MaxOpenChallenges unused, unexpired
\* challenges at the recorded clock (issue_challenge).
OpenChallengesBounded ==
    \A code \in DOMAIN invitations :
        Cardinality(OpenChallenges(code, highWater)) <= MaxOpenChallenges

\* An enrollment id has one sequence and so one holder: no later enroll, by the
\* same key or another, adds a sequence a recovery could be steered to
\* (load_current_enrollment takes the highest).
OneSequencePerId ==
    \A j, k \in DOMAIN enrollments : j[1] = k[1] => j = k

\* Custody is held exactly as received until the holder ends it, and is gone
\* from then on (enroll, end_enrollment).
CustodyUntilEnded ==
    \A k \in DOMAIN enrollments :
        enrollments[k].custody =
            IF Tombstone(enrollments[k].status) THEN None ELSE enrollments[k].offer

TombstoneStep ==
    \A k \in DOMAIN enrollments :
       /\ k \in DOMAIN enrollments'
       /\ enrollments'[k].offer = enrollments[k].offer
       /\ enrollments[k].status = "closed" => enrollments'[k].status = "closed"
       /\ Tombstone(enrollments[k].status) => Tombstone(enrollments'[k].status)

\* A tombstone is for ever and a closed enrollment is never reopened as merely
\* revoked; no row loses its bindings or disappears (end_enrollment, enroll).
TombstonesFinal == [][TombstoneStep]_vars

(* ------------------------------- recovery ------------------------------- *)

SessionsUnder(k) == {s \in DOMAIN sessions : sessions[s].enrollment = k}

\* Every admitted session, refused ones included, is one attempt, and the
\* enrolled limit on attempts is never exceeded (begin_recovery, admit).
AttemptsSpent ==
    \A k \in DOMAIN enrollments :
        /\ enrollments[k].attemptsUsed = Cardinality(SessionsUnder(k))
        /\ enrollments[k].attemptsUsed <= enrollments[k].offer.policy.attempts

\* A contribution exists only for a session whose factor held.  It was decided
\* at least the enrolled cooldown, itself at least the operator's minimum, after
\* the trustee admitted the session (whatever the candidate claimed), before the
\* session and the enrollment expired; and it carries the envelope of the
\* enrollment the session binds to (admit, release, read_recovery).
ReleaseEarned ==
    \A s \in DOMAIN sessions :
        LET session == sessions[s]
            offer == enrollments[session.enrollment].offer
            given == session.contribution IN
        given # None =>
            /\ CheckFactor(offer, session.request)
            /\ Binds(session.request, offer)
            /\ given.envelope = offer
            /\ given.destination = session.request.destination
            /\ given.decidedAt >= session.createdAt + offer.policy.cooldown
            /\ given.decidedAt >= session.createdAt + MinCooldown
            /\ given.decidedAt < session.expiresAt
            /\ given.decidedAt < offer.expiresAt

Cancellations(s) ==
    {o \in DOMAIN outcomes : /\ outcomes[o].request.operation = "cancel-recovery"
                             /\ outcomes[o].request.target = s}

\* A veto or cancellation recorded while the session was cooling down, and
\* before anything was collected, is in time: that session has no contribution
\* and never gets one (cancel_recovery, read_recovery).
VetoInTime ==
    \A s \in DOMAIN sessions : \A o \in Cancellations(s) :
        outcomes[o].oldState = "cooling_down" => sessions[s].contribution = None

\* A session with a recorded cancellation is in a state no clock reading the
\* store still accepts can release from: terminal, or past its expiry
\* (cancel_recovery's "live", transaction's floor).
CancelledForGood ==
    \A s \in DOMAIN sessions : Cancellations(s) # {} =>
        \/ sessions[s].status \in {"vetoed", "cancelled", "refused"}
        \/ highWater >= sessions[s].expiresAt

SendStep ==
    sent' # None =>
       LET session == sessions[sent'.session]
           row == enrollments[session.enrollment] IN
       /\ Cancellations(sent'.session) = {}
       /\ row.status = "accepted"
       /\ highWater' < session.expiresAt
       /\ highWater' < row.offer.expiresAt

\* Nothing is handed out, first time or again, once a veto or cancellation is
\* recorded, once the enrollment is a tombstone, or at or after either expiry
\* ("Terminal states win over re-serving anything already persisted").
NothingSentOnceStopped == [][SendStep]_vars

ContributionStep ==
    /\ \A s \in DOMAIN sessions :
          sessions[s].contribution # None =>
             sessions'[s].contribution = sessions[s].contribution
    /\ sent' # None => sent' = sessions'[sent'.session].contribution

\* A session has one contribution: once persisted it never changes or goes, and
\* what a reply carries is what is persisted ("later reads resend the same
\* bytes").
SameContribution == [][ContributionStep]_vars

(* ------------------------------- receipts ------------------------------- *)

ReceiptStep ==
    /\ \A s \in DOMAIN sessions : SessionReceipt(s)' = SessionReceipt(s)
    /\ \A o \in DOMAIN outcomes : OutcomeReceipt(o)' = OutcomeReceipt(o)
    /\ \A k \in DOMAIN enrollments :
          ~Tombstone(enrollments'[k].status) =>
             EnrollmentReceipt(k)' = EnrollmentReceipt(k)

\* Receipts are rebuilt from rows on every retry, and the rows go on changing;
\* still a retry of begin-recovery, cancel-recovery, revoke- or close-enrollment
\* is answered with the same receipt for ever, and a retry of enroll with the
\* same receipt for as long as it is answered with one (session_receipt,
\* outcome_receipt: "Terminal once recorded, so a retry signs the same reason").
ReceiptsNeverChange == [][ReceiptStep]_vars

\* An identical retry of anything committed is recognised at every later clock
\* reading: it is never refused as stale, never a conflict and never done twice;
\* only an enroll whose custody has since ended is refused (enroll,
\* begin_recovery, replayed_outcome).
RetriesRecognised ==
    \A now \in highWater..MaxTime :
        /\ \A k \in DOMAIN enrollments :
              EnrollAnswer(enrollments[k].challenge, enrollments[k].offer, now) =
                  IF Tombstone(enrollments[k].status) THEN "enrollment_revoked"
                  ELSE "recorded"
        /\ \A s \in DOMAIN sessions : BeginAnswer(sessions[s].request, now) = "recorded"
        /\ \A o \in DOMAIN outcomes :
              LET signed == outcomes[o].request IN
              "recorded" = IF signed.operation = "cancel-recovery"
                           THEN CancelAnswer(signed, now)
                           ELSE EndAnswer(signed, now)

NoticeStep ==
    \A s \in DOMAIN sessions :
       LET before == Notice(s, highWater)
           after == Notice(s, highWater)' IN
       /\ before.state \in {"expired", "cancelled", "refused"} =>
             after.state = before.state /\ after.reason = before.reason
       /\ before.released => after.released

\* A session the holder's poll has once reported as over (expired, cancelled,
\* refused) is reported so ever after, with the same reason, and a reported
\* release is never unreported (read_enrollment's notices).
NoticesNeverRevert == [][NoticeStep]_vars
=============================================================================
