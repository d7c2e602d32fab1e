SPECIFICATION FairSpec
CONSTANTS
    Manifests = {m1, m2}
    Uploading = {}
    NPages = 1
    Workers = {w1, w2}
    MaxQueued = 1
    MaxEpoch = 2
    MaxFaults = 1
    None = None
PROPERTIES
    Settles
CHECK_DEADLOCK FALSE
