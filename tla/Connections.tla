---------------------------- MODULE Connections -----------------------------
(* The store with replies.  A handler that changes state commits first and     *)
(* then, outside the transaction, reads its rows back to build and sign the    *)
(* receipt (enrollment_receipt, session_receipt, outcome_receipt in            *)
(* src/src/store.rs).  The service's mutex does not reach other processes on   *)
(* the same database (a second server, the operator's invite), so between the  *)
(* two reads anything may commit; and the process may be killed, the reply     *)
(* lost and the request retried elsewhere.                                     *)
EXTENDS StoreSafety

CONSTANT Connections    \* requests in flight at once, at most one per process

VARIABLES
    owed,     \* connection -> the receipt it is about to read back, or None
    receipts  \* history: what the receipt said when its change committed

connectionVars == <<vars, owed, receipts>>

\* What a receipt is about: its kind, and the key of its row.
EnrollReceipt(k) == <<"enroll", k>>
BeginReceipt(id) == <<"begin", id>>
ChangeReceipt(scope, requestId) == <<"outcome", <<scope, requestId>>>>

SignedScope(signed) ==
    IF signed.operation = "cancel-recovery" THEN SessionScope(signed.target)
    ELSE EnrollmentScope(CurrentKey(signed.target))

MutHeldExactly(k) == TRUE

\* `enrollment_receipt` signs only over the exact bytes received, still held.
HeldExactly(k) == enrollments[k].custody = enrollments[k].offer

\* The read-back: the receipt signed, if any; without one the answer is
\* temporarily_unavailable.
ReadBack(about) ==
    IF about[1] = "begin" THEN {SessionReceipt(about[2])}
    ELSE IF about[1] = "outcome" THEN {OutcomeReceipt(about[2])}
    ELSE IF HeldExactly(about[2]) THEN {EnrollmentReceipt(about[2])}
    ELSE {}

ConnectionInit ==
    /\ Init
    /\ owed = [c \in Connections |-> None]
    /\ receipts = [r \in {} |-> None]

\* The change a connection's request makes has committed; its receipt is owed.
Owes(c, about) ==
    /\ owed' = [owed EXCEPT ![c] = about]
    /\ receipts' = Insert(receipts, about, ReadBack(about)')

CommitEnroll(c, challenge, offer, now) ==
    /\ owed[c] = None
    /\ Enroll(challenge, offer, now)
    /\ Owes(c, EnrollReceipt(<<offer.id, offer.sequence>>))

CommitBegin(c, request, now) ==
    /\ owed[c] = None
    /\ BeginRecovery(request, now)
    /\ Owes(c, BeginReceipt(request.id))

CommitSigned(c, signed, now) ==
    /\ owed[c] = None
    /\ Parse(signed)
    /\ CancelRecovery(signed, now) \/ EndEnrollment(signed, now)
    /\ Owes(c, ChangeReceipt(SignedScope(signed), signed.requestId))

SignedAnswer(signed, now) ==
    IF signed.operation = "cancel-recovery" THEN CancelAnswer(signed, now)
    ELSE IF signed.operation \in {"revoke-enrollment", "close-enrollment"}
    THEN EndAnswer(signed, now)
    ELSE "a read"

\* The receipts of the recorded changes that some request repeats exactly.
Repeated(now) ==
    {EnrollReceipt(k) : k \in {k \in DOMAIN enrollments :
         \E offer \in Offers :
             EnrollAnswer(enrollments[k].challenge, offer, now) = "recorded"}}
    \cup {BeginReceipt(r.id) :
             r \in {r \in SessionRequests : BeginAnswer(r, now) = "recorded"}}
    \cup {ChangeReceipt(SignedScope(q), q.requestId) :
             q \in {q \in SignedRequests : SignedAnswer(q, now) = "recorded"}}

\* A retry is recognised and its transaction dropped; the receipt is read back
\* in a second step here too.
Retry(c, now) ==
    /\ owed[c] = None
    /\ now >= highWater
    /\ \E about \in Repeated(now) : owed' = [owed EXCEPT ![c] = about]
    /\ UNCHANGED <<vars, receipts>>

\* The receipt is read back and answered, or the process is killed before.
Answer(c) ==
    /\ owed[c] # None
    /\ owed' = [owed EXCEPT ![c] = None]
    /\ UNCHANGED <<vars, receipts>>

\* Operations answered from their own transaction.
Other(now) ==
    /\ \/ \E code \in Codes : CreateInvitation(code, now)
       \/ \E code \in Codes, ch \in Challenges : IssueChallenge(code, ch, now)
       \/ \E ch \in Challenges, offer \in Offers : EnrollKnownId(ch, offer, now)
       \/ \E signed \in SignedRequests : Read(signed, now)
    /\ UNCHANGED <<owed, receipts>>

ConnectionNext ==
    \/ \E now \in Times :
          \/ Other(now)
          \/ \E c \in Connections :
                \/ \E ch \in Challenges, offer \in Offers : CommitEnroll(c, ch, offer, now)
                \/ \E request \in SessionRequests : CommitBegin(c, request, now)
                \/ \E signed \in SignedRequests : CommitSigned(c, signed, now)
                \/ Retry(c, now)
    \/ \E c \in Connections : Answer(c)

ConnectionSpec == ConnectionInit /\ [][ConnectionNext]_connectionVars

\* Whenever it is read, by the first request or any retry, and whatever other
\* processes committed since, a receipt says what it said at its commit.  Only an
\* enroll whose custody has ended meanwhile is answered without one, and never
\* with a receipt for custody no longer held ("confirm it holds exactly the bytes
\* received, and only then sign its receipt").
ReceiptsAsCommitted ==
    \A c \in Connections : owed[c] # None =>
        IF owed[c][1] = "enroll" /\ Tombstone(enrollments[owed[c][2]].status)
        THEN ReadBack(owed[c]) = {}
        ELSE ReadBack(owed[c]) = receipts[owed[c]]
=============================================================================
