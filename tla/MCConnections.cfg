SPECIFICATION ConnectionSpec
CONSTANTS
    None = None
    Connections = {a, b}
    Codes = {i1, i2}
    Challenges = {c1, c2}
    Offers <- MCOffers
    SessionRequests <- MCSessionRequests
    SignedRequests <- MCSignedRequests
    Skew = 1
    MinCooldown = 1
    MaxCooldown = 2
    MaxSessionLifetime = 3
    MaxAttempts = 2
    MaxTerm = 4
    InvitationLifetime = 3
    ChallengeLifetime = 2
    MaxOpenChallenges = 1
    MaxTime = 3
SYMMETRY Symmetry
CHECK_DEADLOCK FALSE
INVARIANTS
    ReceiptsAsCommitted
