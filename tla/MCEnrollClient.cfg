SPECIFICATION Spec
CONSTANTS
    N = 3
CHECK_DEADLOCK FALSE
INVARIANTS
    KeysBeforeContact
    NoSilentCustody
    EnrolledEverywhere
PROPERTIES
    CustodyCanBeEnded
