SPECIFICATION DisciplinedSpec
CONSTANTS
  a = a
  ab = ab
  abc = abc
  c = c
  Root = Root
  Paths = {Root, a, ab}
  ImportDir = a
  Under <- Tree
  Versions = {v1, v2}
  Absent = Absent
  Placeholder = v1
  Writers = {w1, w2}
  Readers = {r1}
  RetryLimit = 2
  AuditBatch = 1
  Budget <- QueueBudget
SYMMETRY MCSymmetry
INVARIANTS
  TypeOK
  ViewConsistent
PROPERTIES
  RowKeepsHistory
  NothingUndone
