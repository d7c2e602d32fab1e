SPECIFICATION AuditedSpec
CONSTANTS
  a = a
  ab = ab
  abc = abc
  c = c
  Root = Root
  Paths = {Root, a, ab, abc}
  ImportDir = ab
  Under <- Tree
  Versions = {v1}
  Absent = Absent
  Placeholder = v1
  Writers = {w1}
  Readers = {r1}
  RetryLimit = 0
  AuditBatch = 1
  Budget <- RepairBudget
PROPERTIES
  StaleRowsGo
  NothingUndone
