SPECIFICATION FairSpec
CONSTANTS
    Emitters = {e1, e2}
    Callers = {c1}
    NTargets = 2
    MaxInFlight = 2
    MaxSeq = 2
    None = None
INVARIANTS
    TypeOK
    LifecycleSound
PROPERTIES
    ReportedIsJoined
    DrainEnds
CHECK_DEADLOCK FALSE
