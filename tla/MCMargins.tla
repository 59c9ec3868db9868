----------------------------- MODULE MCMargins ------------------------------
(* Every policy, enrollment end and clock difference up to a bound: a session  *)
(* is made at time 0 of the candidate's clock and meets a trustee whose clock  *)
(* then, and later, reads `arrival`.                                           *)
EXTENDS Margins

CONSTANTS
    MaxLifetime,  \* bound
    MaxEnd        \* bound

VARIABLES
    policy,   \* cooldown, lifetime and attempts, as enrolled
    end,      \* when the enrollment ends
    arrival   \* the trustee's clock when the request arrives

marginsVars == <<policy, end, arrival>>

\* Policies a trustee takes into custody: the cooldown ends within the lifetime.
MarginsInit ==
    /\ policy \in {p \in [cooldown : 1..MaxLifetime, lifetime : 1..MaxLifetime, attempts : {1}] :
                      p.cooldown < p.lifetime}
    /\ end \in 1..MaxEnd
    /\ arrival = -Skew

Later ==
    /\ arrival < Skew
    /\ arrival' = arrival + 1
    /\ UNCHANGED <<policy, end>>

MarginsSpec == MarginsInit /\ [][Later]_marginsVars

Enrollment == [status |-> "accepted", sequence |-> 1, expiresAt |-> end]

Made == OutlastsCooldown(policy.cooldown, policy.lifetime, end, 0)

Asked == NewSession(policy.cooldown, policy.lifetime, end, 0)

Slack == Margin(policy.cooldown, policy.lifetime)

\* A session that the client makes is admitted by every trustee whose clock, when
\* the request arrives, differs from the candidate's by less than the margin:
\* admit's three bounds on expiresAt hold at once (new_session: "A session every
\* trustee can admit ... with a margin for clock skew").
EveryTrusteeAdmits ==
    (Made /\ arrival \in -Slack..Slack) =>
        Admit(Enrollment, policy, 0, Asked, arrival, Skew) = "ok"

\* The same docstring, read the other way: while the enrollment does not end
\* before the session would, every policy a trustee accepts can be recovered
\* under.  ("the enrollment ends before a session could outlast its cooldown" is
\* the only reason the client gives for making none.)
EveryPolicyRecoverable == end >= policy.lifetime => Made
=============================================================================
