---------------------------- MODULE StoreCustody ----------------------------
(* The store implements Custody: the refinement mapping.                       *)
EXTENDS StoreSafety

CustodyOf(k) ==
    IF k \notin DOMAIN enrollments THEN "none"
    ELSE IF Tombstone(enrollments[k].status) THEN "ended"
    ELSE "held"

\* A recovery is stopped from the moment a cancellation is recorded for it, also
\* one that came after expiry and left the session's status as it was.
RecoveryOf(s) ==
    IF s \notin DOMAIN sessions THEN "none"
    ELSE IF Cancellations(s) # {} THEN "stopped"
    ELSE IF sessions[s].status = "refused" THEN "refused"
    ELSE "open"

C == INSTANCE Custody WITH
        Enrollments <- EnrollmentKeys,
        Recoveries  <- SessionIds,
        Nobody      <- None,
        custody     <- [k \in EnrollmentKeys |-> CustodyOf(k)],
        recovery    <- [s \in SessionIds |-> RecoveryOf(s)],
        under       <- [s \in SessionIds |->
                           IF s \in DOMAIN sessions THEN sessions[s].enrollment ELSE None],
        handedTo    <- IF sent = None THEN None ELSE sent.session

\* Every behaviour of the store is, table details forgotten, a behaviour of
\* Custody: whatever the order of enrollments, recoveries, vetoes and closures,
\* the share is handed over only under custody still held and to a recovery
\* nobody has stopped (store.rs as a whole).
ImplementsCustody == C!CustodySpec
=============================================================================
