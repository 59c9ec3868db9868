SPECIFICATION Spec
CONSTANTS
    Trustees = {t1, t2}
    Threshold = 2
    WrongFactor = {}
    Faulty = {}
    Steady = {t1, t2}
    Skew = 1
    Cooldown = 1
    Lifetime = 4
    Attempts = 2
    EnrollmentEnd = 6
    MarginCap = 1
    Interval = 1
    Timeout = 0
    Prompt = TRUE
    Perils = {"die"}
    MaxSessions = 1
    MaxTime = 6
CHECK_DEADLOCK FALSE
INVARIANTS
    GivesUpOnlyWithoutThreshold
