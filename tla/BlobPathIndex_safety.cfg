SPECIFICATION Spec
CONSTANTS
  Apps <- MCApps
  Prefixes = {"/", "/a"}
  Root = "/"
  Under <- MCUnder
  Trees <- MCTrees
  Workers = {w1, w2}
  Compensators = {k1}
  NoOne = NoOne
  Budget <- SafetyBudget
SYMMETRY MCSymmetry
INVARIANTS
  TypeOK
  WatermarkWitnessed
  SoloIsExact
PROPERTIES
  WatermarkOnlyGrows
CHECK_DEADLOCK FALSE
