SPECIFICATION MarginsSpec
CONSTANTS
    MarginCap = 3
    Skew = 4
    MaxLifetime = 12
    MaxEnd = 14
CHECK_DEADLOCK FALSE
INVARIANTS
    EveryPolicyRecoverable
