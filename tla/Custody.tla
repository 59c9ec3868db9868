------------------------------ MODULE Custody ------------------------------
(* What a trustee promises, with no tables, clocks or keys: custody is taken   *)
(* once and ended once; a recovery opens under custody that is held; what is   *)
(* held is handed over only to an open recovery, only while it is held, and    *)
(* never once the recovery was stopped.                                        *)
CONSTANTS Enrollments, Recoveries, Nobody

VARIABLES
    custody,    \* Enrollments -> "none", "held" or "ended"
    recovery,   \* Recoveries  -> "none", "open", "refused" or "stopped"
    under,      \* Recoveries  -> the enrollment it was opened under, or Nobody
    handedTo    \* the recovery the last operation handed the share to

custodyVars == <<custody, recovery, under, handedTo>>

CustodyInit ==
    /\ custody = [e \in Enrollments |-> "none"]
    /\ recovery = [r \in Recoveries |-> "none"]
    /\ under = [r \in Recoveries |-> Nobody]
    /\ handedTo = Nobody

Take(e) ==
    /\ custody[e] = "none"
    /\ custody' = [custody EXCEPT ![e] = "held"]
    /\ handedTo' = Nobody
    /\ UNCHANGED <<recovery, under>>

End(e) ==
    /\ custody[e] \in {"held", "ended"}
    /\ custody' = [custody EXCEPT ![e] = "ended"]
    /\ handedTo' = Nobody
    /\ UNCHANGED <<recovery, under>>

Open(r, e, state) ==
    /\ recovery[r] = "none"
    /\ custody[e] = "held"
    /\ recovery' = [recovery EXCEPT ![r] = state]
    /\ under' = [under EXCEPT ![r] = e]
    /\ handedTo' = Nobody
    /\ UNCHANGED custody

\* Also stops one that is refused, over or stopped already.
Stop(r) ==
    /\ recovery[r] # "none"
    /\ recovery' = [recovery EXCEPT ![r] = "stopped"]
    /\ handedTo' = Nobody
    /\ UNCHANGED <<custody, under>>

HandOver(r) ==
    /\ recovery[r] = "open"
    /\ custody[under[r]] = "held"
    /\ handedTo' = r
    /\ UNCHANGED <<custody, recovery, under>>

\* An operation that concerns neither custody nor a recovery's fate.
Nothing ==
    /\ handedTo' = Nobody
    /\ UNCHANGED <<custody, recovery, under>>

CustodyNext ==
    \/ \E e \in Enrollments : Take(e) \/ End(e)
    \/ \E r \in Recoveries, e \in Enrollments : \E state \in {"open", "refused"} :
          Open(r, e, state)
    \/ \E r \in Recoveries : Stop(r) \/ HandOver(r)
    \/ Nothing

CustodySpec == CustodyInit /\ [][CustodyNext]_custodyVars
=============================================================================
