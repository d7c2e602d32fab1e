SPECIFICATION Spec
CONSTANTS
  Digests = {d1, d2}
  None = None
  KeepVersions = 0
  KeepRuns = 1
  MaxActive = 1
  MaxProtected = 1
  Slots = 3
  TombsForCreate = 2
  Tombs = 3
  Peak = 5
  MaxOps = 4
  MaxHours = 1
  MaxCrashes = 2
SYMMETRY MCSymmetry
INVARIANTS
  TypeOK
  CurrentResolves
  CapacityExact
PROPERTIES
  ProtectedKept
  PromotedFromExpected
CHECK_DEADLOCK FALSE
