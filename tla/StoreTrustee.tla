---------------------------- MODULE StoreTrustee ----------------------------
(* The store is the trustee that the models of the client assume: what Recover *)
(* and EnrollClient keep of a trustee, read off the tables for one enrollment. *)
EXTENDS StoreSafety

(* ------------------ as the recovering client assumes it ------------------ *)

\* A trustee of Recover holds one enrollment: its sequence is 1.
AdmittedUnder(k) ==
    [s \in SessionsUnder(k) |->
        [status         |-> sessions[s].status,
         sequence       |-> 1,
         cooldownEndsAt |-> sessions[s].cooldownEndsAt,
         expiresAt      |-> sessions[s].expiresAt]]

GivenUnder(k) == {s \in SessionsUnder(k) : sessions[s].contribution # None}

EndedAmong(keys) == {k \in keys : Tombstone(enrollments[k].status)}

\* A trustee of Recover, named by the key of its one enrollment, at the time
\* `now`: `offer` is what was accepted, `requests` are the sessions made, by id,
\* and it is in `refused` if their factor does not hold.  The client's own
\* variables do not concern a trustee.
Seen(k, offer, now, requests, refused) == INSTANCE Recover WITH
    Trustees      <- {k},
    Threshold     <- 1,
    WrongFactor   <- refused,
    Faulty        <- {},
    Steady        <- {k},
    Cooldown      <- offer.policy.cooldown,
    Lifetime      <- offer.policy.lifetime,
    Attempts      <- offer.policy.attempts,
    EnrollmentEnd <- offer.expiresAt,
    MarginCap     <- 0,
    Interval      <- 0,
    Timeout       <- 0,
    Prompt        <- TRUE,
    Perils        <- {"veto", "end"},
    MaxSessions   <- 0,
    clock         <- now,
    made          <- requests,
    file          <- None,
    out           <- FALSE,
    client        <- None,
    sent          <- {},
    ended         <- EndedAmong({k}),
    admitted      <- [j \in {k} |-> AdmittedUnder(j)],
    spent         <- [j \in {k} |-> enrollments[j].attemptsUsed],
    given         <- {k} \X GivenUnder(k)

Only(request) == [id \in {request.id} |-> request]
RefusedAt(k, offer, request) == IF CheckFactor(offer, request) THEN {} ELSE {k}

SeenVerdict(k, offer, now, request) ==
    Seen(k, offer, now, Only(request), RefusedAt(k, offer, request))!BeginVerdict(k, request.id)

SeenBegin(k, offer, now, request) ==
    /\ SeenVerdict(k, offer, now, request) = "ok"
    /\ Seen(k, offer, now, Only(request), RefusedAt(k, offer, request))!ServeBegin(k, request.id)

\* What Recover leaves out, since its client never asks for it: a candidate
\* cancels its own live session.
SeenCancel(k, now, s) ==
    /\ AdmittedUnder(k)[s].status \in {"cooling_down", "released"}
    /\ now < AdmittedUnder(k)[s].expiresAt
    /\ AdmittedUnder(k)' = [AdmittedUnder(k) EXCEPT ![s].status = "cancelled"]
    /\ UNCHANGED <<EndedAmong({k}), enrollments[k].attemptsUsed, GivenUnder(k)>>

SeenStep(k, offer, now) ==
    \/ \E request \in SessionRequests : SeenBegin(k, offer, now, request)
    \/ \E s \in SessionsUnder(k) :
          \/ Seen(k, offer, now, <<>>, {})!ServeRead(k, s)
          \/ Seen(k, offer, now, <<>>, {})!Veto(k, s)
          \/ SeenCancel(k, now, s)
    \/ Seen(k, offer, now, <<>>, {})!EndCustody(k)
    \/ UNCHANGED Seen(k, offer, now, <<>>, {})!trusteeVars

StepAsSeen ==
    \E now \in Times :
        /\ now >= highWater
        /\ \A k \in DOMAIN enrollments, offer \in Offers :
              enrollments[k].offer = offer => SeenStep(k, offer, now)

\* What any operation of the store does to the sessions, the attempts and the
\* custody of an enrollment is what Recover lets a trustee do: serve a begin or a
\* read by its verdict, be vetoed or ended; or nothing (store.rs as a whole,
\* against what recover in tools/client.py may meet).
ServesAsSeen == [][StepAsSeen]_vars

\* A request that verifies and binds, and a read that passes the checks of every
\* poll, are answered as Recover's trustee answers them, at every time the store
\* still accepts (begin_recovery, read_recovery).
AnswersAsSeen ==
    \A now \in Times, k \in DOMAIN enrollments, offer \in Offers :
        now >= highWater /\ enrollments[k].offer = offer =>
        /\ \A request \in SessionRequests :
              /\ VerifySession(request) = "ok"
              /\ Binds(request, offer)
              /\ request.id \in DOMAIN sessions => sessions[request.id].request = request
              => BeginAnswer(request, now) = SeenVerdict(k, offer, now, request)
        /\ \A s \in SessionsUnder(k) :
              ReleaseVerdict(s, now) = Seen(k, offer, now, <<>>, {})!ReadVerdict(k, s)

(* ------------------- as the enrolling client assumes it ------------------ *)

CustodyAt(id) ==
    IF ~Known(id) THEN "none"
    ELSE IF Tombstone(Current(id).status) THEN "closed" ELSE "live"

\* A trustee of EnrollClient is its one slot; the id is what is enrolled there.
Slot(id) == INSTANCE EnrollClient WITH
    N       <- 1,
    stage   <- "keys",
    slot    <- 1,
    disk    <- {},
    custody <- [s \in 1..1 |-> CustodyAt(id)],
    enrolls <- {},
    closes  <- {},
    report  <- [s \in 1..1 |-> "none"]

SlotStep(id, now) ==
    \/ /\ \E challenge \in Challenges, offer \in Offers :
             offer.id = id /\ Enroll(challenge, offer, now)
       /\ Slot(id)!ServeEnroll(1) /\ CustodyAt(id)' = "live"
    \/ /\ \E signed \in SignedRequests : signed.target = id /\ EndEnrollment(signed, now)
       /\ Slot(id)!ServeClose(1) /\ CustodyAt(id)' = "closed"
    \/ UNCHANGED CustodyAt(id)

StepAsSlots ==
    \A id \in {offer.id : offer \in Offers} : \E now \in Times : SlotStep(id, now)

\* Custody under an id is taken by an enroll of that id and ended by a signed
\* request about it, as EnrollClient has it, and moved by nothing else, whatever
\* is enrolled beside it (enroll, end_enrollment, against enroll_to).
ServesSlots == [][StepAsSlots]_vars

\* What a receipt tells the client is so.  An enroll is accepted where there is no
\* custody and answered again only while it is live; a close is answered with a
\* receipt, to the holder's key, wherever there is or was custody and nowhere
\* else, and by a recorded one only when custody has ended (end_enrollment).
AnswersSlots ==
    \A now \in Times :
        /\ \A challenge \in Challenges, offer \in Offers :
              /\ EnrollAnswer(challenge, offer, now) = "accept" => CustodyAt(offer.id) = "none"
              /\ EnrollAnswer(challenge, offer, now) = "recorded" => CustodyAt(offer.id) = "live"
        /\ \A signed \in SignedRequests :
              LET answer == EndAnswer(signed, now)
                  state == CustodyAt(signed.target) IN
              signed.operation = "close-enrollment" =>
                /\ answer \in {"ok", "recorded"} => Slot(signed.target)!ClosedReceipt(state)
                /\ answer = "recorded" => state = "closed"
                /\ Slot(signed.target)!ClosedReceipt(state)
                      /\ VerifySignature(signed, Current(signed.target).offer.key)
                      /\ CheckFresh(signed, now)
                    => answer # "invalid_request"
=============================================================================
