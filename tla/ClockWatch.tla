----------------------------- MODULE ClockWatch -----------------------------
(* The store with a memory of every clock reading one of its transactions has  *)
(* been given, the refused ones included.  A refused request and a recorded    *)
(* retry drop their transaction, and with it the new high_water.               *)
EXTENDS Store

VARIABLES
    latest,     \* the highest time any transaction has been given
    setBack     \* the last committed operation ran on a clock behind it

watchVars == <<vars, latest, setBack>>

WatchInit == Init /\ latest = 0 /\ setBack = FALSE

Latest(now) == IF now > latest THEN now ELSE latest

Committed(now) ==
    /\ Step(now)
    /\ latest' = Latest(now)
    /\ setBack' = (now < latest)

\* A signed read of a live session whose enrollment no longer serves: the code
\* `release` answers is an error, and read_recovery returns before it commits.
Refused(now) ==
    /\ now >= highWater
    /\ \E signed \in SignedRequests :
          /\ signed.operation = "read-recovery"
          /\ signed.target \in DOMAIN sessions
          /\ VerifySignature(signed, sessions[signed.target].request.destination)
          /\ CheckFresh(signed, now)
          /\ <<SessionScope(signed.target), signed.requestId>> \notin Purge(now)
          /\ ReleaseVerdict(signed.target, now) \in
                {"enrollment_revoked", "enrollment_expired", "stale_enrollment_sequence"}
    /\ latest' = Latest(now)
    /\ UNCHANGED <<vars, setBack>>

WatchNext == \E now \in Times : Committed(now) \/ Refused(now)

WatchSpec == WatchInit /\ [][WatchNext]_watchVars

\* A clock behind the highest time the store has seen releases nothing:
\* "`clock_floor` is the highest time the store has seen; a clock behind it means
\* the clock moved backwards, and nothing is released" (src/src/state.rs).
NothingReleasedOnClockSetBack == setBack => sent = None
=============================================================================
