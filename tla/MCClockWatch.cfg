SPECIFICATION WatchSpec
CONSTANTS
    None = None
    Codes = {i1}
    Challenges = {c1}
    Offers <- MCOffers
    SessionRequests <- MCSessionRequests
    SignedRequests <- MCSignedRequests
    Skew = 1
    MinCooldown = 1
    MaxCooldown = 2
    MaxSessionLifetime = 3
    MaxAttempts = 2
    MaxTerm = 5
    InvitationLifetime = 1
    ChallengeLifetime = 1
    MaxOpenChallenges = 1
    MaxTime = 4
CHECK_DEADLOCK FALSE
INVARIANT NothingReleasedOnClockSetBack
