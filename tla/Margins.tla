------------------------------ MODULE Margins -------------------------------
(* The times of a recovery session: what the candidate asks for (new_session   *)
(* in src/tools/client.py) against what every trustee requires (Admit in       *)
(* module State).  The two are computed on different machines, from clocks     *)
(* that differ, and the request arrives some time after it was made.           *)
EXTENDS State

CONSTANTS
    MarginCap,   \* a minute, in the clock's unit
    Skew

ASSUME MarginsAssumption == MarginCap \in Nat /\ Skew \in Nat

Least(a, b) == IF a <= b THEN a ELSE b

\* Half of what the lifetime leaves beside the cooldown, at most a minute.
Margin(cooldown, lifetime) == Least(MarginCap, (lifetime - cooldown) \div 2)

\* `new_session`: the times of a session made at `now`, under an enrollment that
\* ends at `end`.
NewSession(cooldown, lifetime, end, now) ==
    [requestedAt |-> now,
     expiresAt   |-> Least(now + lifetime - Margin(cooldown, lifetime), end)]

MutOutlastsCooldown(cooldown, lifetime, end, now) ==
    NewSession(cooldown, lifetime, end, now).expiresAt > now + cooldown

\* `new_session` makes one at all; otherwise it raises "the enrollment ends before
\* a session could outlast its cooldown".
OutlastsCooldown(cooldown, lifetime, end, now) ==
    NewSession(cooldown, lifetime, end, now).expiresAt >
        now + cooldown + Margin(cooldown, lifetime)
=============================================================================
