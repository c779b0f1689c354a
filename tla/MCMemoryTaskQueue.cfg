SPECIFICATION Spec
CONSTANTS
  k1 = k1
  k2 = k2
  NoKey = NoKey
  None = None
  Task <- Tasks
  Key <- TwoKeys
  KeyOf <- TaskKeys
  Value <- OneValue
  Capacity = 2
  MaxRequests = 4
  MaxStarts = 2
  MaxExits = 1
INVARIANTS
  TaskQueueInv
PROPERTIES
  ResultsGetNewer
  ShutdownReturns
  AcceptedIsProcessed
CHECK_DEADLOCK FALSE
