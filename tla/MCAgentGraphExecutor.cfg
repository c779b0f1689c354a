SPECIFICATION Spec
CONSTANTS
  a = a
  b = b
  c = c
  d = d
  user = user
  vision = vision
  NoTrigger = NoTrigger
  Node <- MCNode
  Trigger <- MCTrigger
  Graph <- MCGraph
  MaxInvocations = 3
INVARIANTS
  SchedulingIsSound
  BranchSeesItsAncestors
PROPERTIES
  CommitCarriesEveryNode
  EachNodeOnce
