SPECIFICATION FairSpec
CONSTANTS
  a = a
  b = b
  c = c
  d = d
  f1 = f1
  Absent = Absent
  Node <- MCNode
  Graph <- OnlySingle
  Frame <- OneFrame
  MaxInputs = 2
  MaxFrames = 2
  MaxReloads = 0
  MaxInvocations = 4
  Capacity = 2
  MaxHistory = 3
CHECK_DEADLOCK FALSE
INVARIANTS
  ServedInOrder
PROPERTIES
  TurnsGoOn
