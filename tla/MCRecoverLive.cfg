SPECIFICATION Spec
CONSTANTS
    Trustees = {t1, t2, t3}
    Threshold = 2
    WrongFactor = {t3}
    Faulty = {t3}
    Steady = {t1, t2}
    Skew = 1
    Cooldown = 1
    Lifetime = 6
    Attempts = 2
    EnrollmentEnd = 7
    MarginCap = 1
    Interval = 1
    Timeout = 1
    Prompt = TRUE
    Perils = {"end"}
    MaxSessions = 1
    MaxTime = 7
CHECK_DEADLOCK FALSE
PROPERTIES
    RecoveryEnds
    ThresholdSuffices
