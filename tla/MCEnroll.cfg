SPECIFICATION Spec
CONSTANTS
    None = None
    Codes = {i1, i2}
    Challenges = {c1, c2, c3}
    Offers <- MCOffers
    SessionRequests <- MCSessionRequests
    SignedRequests <- MCSignedRequests
    Skew = 1
    MinCooldown = 1
    MaxCooldown = 2
    MaxSessionLifetime = 2
    MaxAttempts = 2
    MaxTerm = 3
    InvitationLifetime = 2
    ChallengeLifetime = 1
    MaxOpenChallenges = 2
    MaxTime = 3
SYMMETRY Symmetry
CHECK_DEADLOCK FALSE
INVARIANTS
    InvitationSpentOnce
    OpenChallengesBounded
    OneSequencePerId
    CustodyUntilEnded
    RetriesRecognised
PROPERTIES
    TombstonesFinal
