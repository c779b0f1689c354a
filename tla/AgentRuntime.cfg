SPECIFICATION Spec
CONSTANTS
  a = a
  b = b
  c = c
  d = d
  f1 = f1
  Absent = Absent
  Node <- MCNode
  Graph <- Mixed
  Frame <- OneFrame
  MaxInputs = 2
  MaxFrames = 1
  MaxReloads = 1
  MaxInvocations = 3
  Capacity = 1
  MaxHistory = 3
CHECK_DEADLOCK FALSE
INVARIANTS
  RequestsAreCurrent
  AtMostOneReport
  NoInputLost
  SessionInv
PROPERTIES
  ImplementsExecutor
