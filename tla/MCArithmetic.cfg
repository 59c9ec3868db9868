SPECIFICATION MCSpec
CONSTANTS
    Period = 4
    MaxDrift = 12
    MaxTime = 20
    MarginCap = 3
    Skew = 4
    MaxLifetime = 12
    MaxEnd = 14
    Vectors <- MCVectors
    WrongWords = {16, 528}
    MaxErrors = 2
    MaxDigits = 2
    MaxLength = 8
CHECK_DEADLOCK FALSE
INVARIANTS
    FetchedIsCurrent
    EveryTrusteeAdmits
    SharesReadRight
    ReadAlike
PROPERTIES
    ChangesOncePerPeriod
