SPECIFICATION Spec
CONSTANTS
    None = None
    Processes = {p1, p2}
    Paths = {f1}
    Keys = {k1, k2}
    Components = {c1, c2}
    Migrations = 2
INVARIANTS
    MigratedOnce
    ServesOwnCustody
PROPERTIES
    DatabaseLeftAlone
    KeysNeverOverwritten
    StartupSettles
