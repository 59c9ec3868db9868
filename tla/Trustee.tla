------------------------------ MODULE Trustee ------------------------------
(* The stateless half of the trustee, src/src/lib.rs: whether an offered     *)
(* envelope is taken into custody, whether a recovery request binds to an    *)
(* enrollment and presents its factor, and what a contribution contains.     *)
(*                                                                           *)
(* Data is abstracted to what the decisions tell apart.  An offer (an enroll *)
(* request less its challenge) is a record                                   *)
(*   id, sequence    enrollment id and sequence                              *)
(*   terms           policy digest, artifact id and artifact digest          *)
(*   key             the holder's authorization key                          *)
(*   createdAt, expiresAt                                                    *)
(*   policy          [factor, cooldown, lifetime, attempts]                  *)
(*   faults          the checks on its bytes that it fails, of OfferFaults   *)
(* A recovery request is a record                                            *)
(*   id              session id                                              *)
(*   enrollment, sequence, terms                                             *)
(*   destination     the candidate's fresh encryption and proof keys         *)
(*   evidence        the factor keys presented, one per evidence item whose  *)
(*                   signature over this session and slot verifies           *)
(*   requestedAt, expiresAt                                                  *)
(*   faults          the checks on its bytes that it fails, of SessionFaults *)
EXTENDS State

CONSTANTS
    Skew,                \* tolerated clock difference, either direction
    MinCooldown,         \* the only configurable limit
    MaxCooldown,
    MaxSessionLifetime,
    MaxAttempts,
    MaxTerm              \* longest enrollment term

ASSUME LimitsAssumption ==
    /\ Skew \in Nat
    /\ MinCooldown \in Nat
    /\ MaxCooldown \in Nat
    /\ MaxSessionLifetime \in Nat
    /\ MaxAttempts \in Nat
    /\ MaxTerm \in Nat

(* -------------------------- accepting custody --------------------------- *)

OfferFaults ==
    {"key_id",         \* names another enrollment key than this trustee's
     "profile",        \* of another implementation profile
     "context",        \* context malformed, or for another component
     "seal",           \* does not open with this key and context
     "authorization",  \* holder's signature, or a binding not repeated
     "mode",           \* envelope version or recovery mode unknown
     "share",          \* the envelope's parameters out of range, or share malformed
     "share_kind",     \* a share kind this profile does not support
     "share_numbers",  \* the share's index or threshold is not the envelope's
     "policy",         \* factors, notices, veto or lapse rule not supported
     "artifact",       \* protected artifact malformed
     "artifact_bound"} \* protected artifact bound to something else

\* `policy`: rules this binding supports, timings inside the published limits.
Policy(offer) ==
    LET p == offer.policy IN
    IF /\ "policy" \notin offer.faults
       /\ p.cooldown \in MinCooldown..MaxCooldown
       /\ p.cooldown < p.lifetime
       /\ p.lifetime <= MaxSessionLifetime
       /\ p.attempts \in 1..MaxAttempts
    THEN "ok"
    ELSE "invalid_policy"

\* `admit_envelope`: profile parameters, share, times, then the policy.
AdmitEnvelope(offer, now) ==
    IF "mode" \in offer.faults THEN "unsupported_profile"
    ELSE IF "share" \in offer.faults THEN "invalid_enrollment"
    ELSE IF "share_kind" \in offer.faults THEN "unsupported_profile"
    ELSE IF "share_numbers" \in offer.faults THEN "invalid_enrollment"
    ELSE IF offer.createdAt > now + Skew THEN "invalid_enrollment"
    ELSE IF offer.expiresAt <= now THEN "enrollment_expired"
    ELSE IF offer.expiresAt > now + MaxTerm THEN "invalid_enrollment"
    ELSE Policy(offer)

\* `verified_envelope`: signed by the holder, repeating every binding.
VerifiedEnvelope(offer) == "authorization" \notin offer.faults

\* `accept_enrollment`
AcceptEnrollment(offer, now) ==
    IF "profile" \in offer.faults THEN "unsupported_profile"
    ELSE IF {"context", "seal"} \cap offer.faults # {} THEN "invalid_enrollment"
    ELSE IF ~VerifiedEnvelope(offer) THEN "invalid_enrollment"
    ELSE AdmitEnvelope(offer, now)

\* `check_artifact`
CheckArtifact(offer) ==
    IF "artifact" \in offer.faults THEN "invalid_enrollment"
    ELSE IF "artifact_bound" \in offer.faults THEN "artifact_mismatch"
    ELSE "ok"

(* ------------------------------ recovery -------------------------------- *)

SessionFaults ==
    {"form",         \* malformed, or the proof key's signature does not hold
     "destination"}  \* unknown suites, or a key HPKE cannot seal to

\* `verify_session`: the request on its own, before any lookup.
VerifySession(request) ==
    IF "form" \in request.faults THEN "invalid_request"
    ELSE IF "destination" \in request.faults THEN "invalid_destination"
    ELSE "ok"

\* `Session::binds`: the request names exactly this enrollment sequence.
Binds(request, offer) ==
    /\ request.enrollment = offer.id
    /\ request.sequence = offer.sequence
    /\ request.terms = offer.terms

\* `check_factor`: exactly one presentation, of the enrolled factor.
CheckFactor(offer, request) == request.evidence = <<offer.policy.factor>>

\* `Trustee::release`: the exact accepted envelope, sealed to the session's
\* destination and bound to the session and its expiry.
Contribution(envelope, request, now) ==
    [session     |-> request.id,
     destination |-> request.destination,
     envelope    |-> envelope,
     decidedAt   |-> now,
     expiresAt   |-> request.expiresAt]
=============================================================================
