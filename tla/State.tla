------------------------------- MODULE State -------------------------------
(* The pure decisions of src/src/state.rs, and the contract names that       *)
(* src/src/wire.rs gives to local states.  Time is an integer passed in by   *)
(* the caller; nothing here reads a clock or a table.  A decision is "ok"    *)
(* (for Release: what to do) or the error code the caller answers with; the  *)
(* checks are made in the order of the code's early returns.  Definitions    *)
(* named Mut... are deliberately wrong variants of the definition below      *)
(* them, used only to show that the properties can fail.                     *)
EXTENDS Integers

EnrollmentStatus == {"accepted", "superseded", "revoked", "closed"}

SessionStatus ==
    {"cooling_down", "released", "finalized", "cancelled", "vetoed", "refused"}

Tombstone(status) == status \in {"revoked", "closed"}

(* ---------------------------- usable, admit ----------------------------- *)

MutUsable(enrollment, now) ==
    IF now >= enrollment.expiresAt THEN "enrollment_expired" ELSE "ok"

Usable(enrollment, now) ==
    IF Tombstone(enrollment.status) THEN "enrollment_revoked"
    ELSE IF enrollment.status = "superseded" THEN "stale_enrollment_sequence"
    ELSE IF now >= enrollment.expiresAt THEN "enrollment_expired"
    ELSE "ok"

RateLimited(policy, attemptsUsed) == attemptsUsed >= policy.attempts

Distance(a, b) == IF a >= b THEN a - b ELSE b - a

MutCooldownEndsAt(policy, request, now) == request.requestedAt + policy.cooldown

\* The cooldown starts at the trustee's clock, never at the candidate's
\* requestedAt.
CooldownEndsAt(policy, request, now) == now + policy.cooldown

WithinBounds(enrollment, policy, request, now) ==
    /\ request.expiresAt > CooldownEndsAt(policy, request, now)
    /\ request.expiresAt <= now + policy.lifetime
    /\ request.expiresAt <= enrollment.expiresAt

\* `admit`: a verified session whose bindings match the enrollment.
Admit(enrollment, policy, attemptsUsed, request, now, skew) ==
    IF Usable(enrollment, now) # "ok" THEN Usable(enrollment, now)
    ELSE IF RateLimited(policy, attemptsUsed) THEN "recovery_rate_limited"
    ELSE IF Distance(request.requestedAt, now) > skew THEN "invalid_request"
    ELSE IF request.expiresAt <= now THEN "recovery_expired"
    ELSE IF ~WithinBounds(enrollment, policy, request, now) THEN "recovery_refused"
    ELSE "ok"

(* ------------------------------- release -------------------------------- *)

MutStatusVerdict(status) ==
    IF status \in {"cancelled", "refused", "finalized"} THEN "recovery_refused" ELSE "ok"

\* What the session's stored status alone says about a release.
StatusVerdict(status) ==
    IF status = "vetoed" THEN "recovery_vetoed"
    ELSE IF status \in {"cancelled", "refused", "finalized"} THEN "recovery_refused"
    ELSE "ok"

MutRelease(enrollment, session, now, clockFloor) ==
    IF Usable(enrollment, now) # "ok" THEN Usable(enrollment, now)
    ELSE IF session.status = "released" THEN "resend"
    ELSE IF StatusVerdict(session.status) # "ok" THEN StatusVerdict(session.status)
    ELSE IF now >= session.expiresAt THEN "recovery_expired"
    ELSE IF now < session.cooldownEndsAt THEN "recovery_cooling_down"
    ELSE "emit"

\* `release`: asked by every route that could hand out a contribution, inside
\* the transaction that persists the answer.
Release(enrollment, session, now, clockFloor) ==
    IF now < clockFloor THEN "temporarily_unavailable"
    ELSE IF Usable(enrollment, now) # "ok" THEN Usable(enrollment, now)
    ELSE IF session.sequence # enrollment.sequence THEN "stale_enrollment_sequence"
    ELSE IF StatusVerdict(session.status) # "ok" THEN StatusVerdict(session.status)
    ELSE IF now >= session.expiresAt THEN "recovery_expired"
    ELSE IF now < session.cooldownEndsAt THEN "recovery_cooling_down"
    ELSE IF session.status = "released" THEN "resend"
    ELSE "emit"

(* --------------------- contract names of local states ------------------- *)

EnrollmentStateName(status, expiresAt, now) ==
    IF status = "accepted"
    THEN IF now >= expiresAt THEN "expired" ELSE "active"
    ELSE status

SessionStateName(status, cooldownEndsAt, expiresAt, now) ==
    IF status \in {"cooling_down", "released"}
    THEN IF now >= expiresAt THEN "expired"
         ELSE IF status = "cooling_down" /\ now < cooldownEndsAt THEN "cooling_down"
         ELSE "collecting"
    ELSE IF status \in {"cancelled", "vetoed"} THEN "cancelled"
    ELSE status

SessionReason(status) ==
    IF status = "vetoed" THEN "recovery_vetoed"
    ELSE IF status = "refused" THEN "invalid_candidate_factor"
    ELSE "none"
=============================================================================
