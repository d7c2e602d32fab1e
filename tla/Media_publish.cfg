SPECIFICATION FairSpec
CONSTANTS
    Manifests = {m1, m2}
    Uploading = {m1}
    NPages = 1
    Workers = {w1, w2}
    MaxQueued = 2
    MaxEpoch = 3
    MaxFaults = 1
    None = None
INVARIANTS
    TypeOK
    SealedIsCanonical
    Fenced
    PublishedIsReadable
PROPERTIES
    Settles
CHECK_DEADLOCK FALSE
