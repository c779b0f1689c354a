SPECIFICATION Spec
CONSTANTS
  a = a
  b = b
  c = c
  d = d
  f1 = f1
  Absent = Absent
  Node <- MCNode
  Graph <- Swapped
  Frame <- OneFrame
  MaxInputs = 3
  MaxFrames = 0
  MaxReloads = 1
  MaxInvocations = 3
  Capacity = 2
  MaxHistory = 3
CHECK_DEADLOCK FALSE
INVARIANTS
  QueueIsServed
