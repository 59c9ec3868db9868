SPECIFICATION ReplaySpec
CONSTANTS
    None = None
    Codes = {i1}
    Challenges = {c1}
    Offers <- MCOffers
    SessionRequests <- MCSessionRequests
    SignedRequests <- MCSignedRequests
    Skew = 1
    MinCooldown = 2
    MaxCooldown = 3
    MaxSessionLifetime = 8
    MaxAttempts = 2
    MaxTerm = 9
    InvitationLifetime = 2
    ChallengeLifetime = 2
    MaxOpenChallenges = 1
    MaxTime = 8
CHECK_DEADLOCK FALSE
INVARIANTS
    ReadsSingleUse
    AnsweredReadsGuarded
