SPECIFICATION Spec
CONSTANTS
    None = None
    Codes = {i1}
    Challenges = {c1}
    Offers <- MCOffers
    SessionRequests <- MCSessionRequests
    SignedRequests <- MCSignedRequests
    Skew = 1
    MinCooldown = 2
    MaxCooldown = 3
    MaxSessionLifetime = 4
    MaxAttempts = 2
    MaxTerm = 6
    InvitationLifetime = 1
    ChallengeLifetime = 1
    MaxOpenChallenges = 1
    MaxTime = 5
CHECK_DEADLOCK FALSE
INVARIANTS
    TypeOK
    AttemptsSpent
    ReleaseEarned
    VetoInTime
    CancelledForGood
    RetriesRecognised
PROPERTIES
    NothingSentOnceStopped
    SameContribution
    ReceiptsNeverChange
    NoticesNeverRevert
    ImplementsCustody
