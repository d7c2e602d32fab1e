SPECIFICATION Spec
CONSTANTS
  o1 = o1
  o2 = o2
  o3 = o3
  o4 = o4
  p1 = p1
  p2 = p2
  Clients = {c1, c2}
  Ops = {o1, o2}
  Kind <- MergeAndPush
  Path <- MCPath
  NoOne = NoOne
  Reaper = Reaper
  MaxDepth = 2
  MaxRounds = 2
  Budget <- FaultBudget
SYMMETRY MCSymmetry
INVARIANTS
  TypeOK
  LandsOnceInOrder
  AtMostOneRunning
  SuccessorChain
  AnswersAreTrue
PROPERTIES
  TerminalIsFinal
  LandsOnBaseline
  ImplementsTrunkLog
CHECK_DEADLOCK FALSE
