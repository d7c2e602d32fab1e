SPECIFICATION Spec
CONSTANTS
    Calls = {c1, c2}
    TTL = 5
    MaxLag = 1
    None = None
INVARIANTS
    TypeOK
    LeaseDiscipline
    KeysResolve
    HistoryKept
PROPERTIES
    NoForeignRelease
