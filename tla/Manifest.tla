------------------------------ MODULE Manifest ------------------------------
(* The age of a trustee's signed manifest: Trustee::manifest of                *)
(* src/src/lib.rs recomputes it on every read, from the machine's clock, with  *)
(* validUntil on a fixed grid; the client (Trustee in src/tools/client.py)     *)
(* checks validUntil against its own clock before it enrolls, begins a         *)
(* recovery, polls, vetoes or closes.                                          *)
EXTENDS Integers

CONSTANTS
    Period,    \* MANIFEST_PERIOD_SECS
    MaxDrift,  \* bound: how far a client's clock is from the trustee's
    MaxTime    \* bound: the trustee's clock runs from 0 to MaxTime

ASSUME ManifestAssumption == Period \in Nat \ {0} /\ MaxDrift \in Nat /\ MaxTime \in Nat

VARIABLES
    clock,     \* the trustee's machine
    drift,     \* the client's clock less the trustee's
    served,    \* validUntil of the last manifest served
    movedAt    \* history: when a served manifest last differed from the one before

manifestVars == <<clock, drift, served, movedAt>>

MutValidUntil(now) == now + 3 * Period

MutTwoPeriods(now) == (now \div Period + 2) * Period

\* `manifest`: the end of the second period after this one.
ValidUntil(now) == (now \div Period + 3) * Period

\* `Trustee.__init__` with current=True: the one check that reads a clock.
Current(validUntil, now) == validUntil > now

ManifestInit ==
    /\ clock = 0
    /\ drift \in -MaxDrift..MaxDrift
    /\ served = ValidUntil(0)
    /\ movedAt = 0

\* Time passes, with no manifest asked for.
Tick ==
    /\ clock < MaxTime
    /\ clock' = clock + 1
    /\ UNCHANGED <<drift, served, movedAt>>

\* `manifest_json`, from this process or a restarted one.
Serve ==
    /\ served' = ValidUntil(clock)
    /\ movedAt' = IF served' = served THEN movedAt ELSE clock
    /\ UNCHANGED <<clock, drift>>

ManifestNext == Tick \/ Serve

ManifestSpec == ManifestInit /\ [][ManifestNext]_manifestVars

-----------------------------------------------------------------------------

\* A manifest fetched now is taken by every client whose clock is at most two
\* periods ahead of the trustee's, even one fetched a moment before the grid moves
\* on ("60 to 90 days ahead ... a running service never serves an expired one").
FetchedIsCurrent ==
    served = ValidUntil(clock) /\ drift <= 2 * Period => Current(served, clock + drift)

GridStep ==
    served' # served =>
        /\ served' > served
        /\ clock' \div Period # movedAt \div Period

\* "manifest bytes change once a period, not on every restart", and never to an
\* earlier validUntil: each change falls in a later period than the last.
ChangesOncePerPeriod == [][GridStep]_manifestVars
=============================================================================
