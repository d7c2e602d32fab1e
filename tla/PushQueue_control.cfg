SPECIFICATION Spec
CONSTANTS
  o1 = o1
  o2 = o2
  o3 = o3
  o4 = o4
  p1 = p1
  p2 = p2
  Clients = {c1}
  Ops = {o1, o2, o3, o4}
  Kind <- AllKinds
  Path <- MCPath
  NoOne = NoOne
  Reaper = Reaper
  MaxDepth = 2
  MaxRounds = 1
  Budget <- ControlBudget
INVARIANTS
  AdmissionBounds
CHECK_DEADLOCK FALSE
