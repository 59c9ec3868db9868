------------------------------- MODULE Replay -------------------------------
(* The store with a memory of which signed reads it has answered.  The store   *)
(* itself forgets: a nonce is purged after twice the clock skew, and from then *)
(* on only the request's issuedAt stands between a captured read and a second  *)
(* answer (src/src/store.rs, check_fresh and spend_nonce).                     *)
EXTENDS StoreSafety

VARIABLE reads    \* how often each signed request was answered as a read

replayVars == <<vars, reads>>

ReplayInit == Init /\ reads = [q \in SignedRequests |-> 0]

AnswerRead(signed, now) ==
    /\ Read(signed, now)
    /\ reads' = [reads EXCEPT ![signed] = @ + 1]

ReplayNext ==
    \E now \in Times :
        \/ \E signed \in SignedRequests : AnswerRead(signed, now)
        \/ Change(now) /\ UNCHANGED reads

ReplaySpec == ReplayInit /\ [][ReplayNext]_replayVars

\* The scope a signed read was answered in: a session, or the one sequence an
\* enrollment id ever has.
ReadScope(signed) ==
    IF signed.operation = "read-recovery" THEN SessionScope(signed.target)
    ELSE EnrollmentScope(CurrentKey(signed.target))

\* A signed read is answered at most once, however often it is delivered and
\* whatever the clock does between deliveries: "Reads are single use within the
\* freshness window ... by then issuedAt alone refuses a replay" (spend_nonce).
ReadsSingleUse == \A q \in SignedRequests : reads[q] <= 1

\* Why: until the freshness window of an answered read has closed for good, its
\* nonce is still stored.
AnsweredReadsGuarded ==
    \A q \in SignedRequests : reads[q] > 0 =>
        \/ highWater > q.issuedAt + Skew
        \/ /\ <<ReadScope(q), q.requestId>> \in DOMAIN nonces
           /\ nonces[<<ReadScope(q), q.requestId>>] >= q.issuedAt - Skew
=============================================================================
