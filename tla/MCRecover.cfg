SPECIFICATION Spec
CONSTANTS
    Trustees = {t1, t2}
    Threshold = 2
    WrongFactor = {}
    Faulty = {}
    Steady = {}
    Skew = 1
    Cooldown = 1
    Lifetime = 4
    Attempts = 2
    EnrollmentEnd = 6
    MarginCap = 1
    Interval = 1
    Timeout = 0
    Prompt = FALSE
    Perils = {"die", "veto"}
    MaxSessions = 2
    MaxTime = 6
SYMMETRY Symmetry
CHECK_DEADLOCK FALSE
INVARIANTS
    SharesWereReleased
    DroppedForCause
PROPERTIES
    CheckpointKept
    RetriesSpendNothing
