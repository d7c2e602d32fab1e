SPECIFICATION FairSpec
CONSTANTS
  Apps <- MCApps
  Prefixes = {"/", "/a"}
  Root = "/"
  Under <- MCUnder
  Trees <- MCTrees
  Workers = {w1, w2}
  Compensators = {k1}
  NoOne = NoOne
  Budget <- LivenessBudget
PROPERTIES
  Converges
CHECK_DEADLOCK FALSE
