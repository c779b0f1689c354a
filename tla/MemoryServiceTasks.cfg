SPECIFICATION Spec
CONSTANTS
  cat = cat
  dog = dog
  tea = tea
  rain = rain
  Global = Global
  None = None
  NoKey = NoKey
  Pet <- TwoPets
  Content <- TwoContents
  Task <- EveryTask
  Capacity = 1
  MaxRequests = 4
  MaxStarts = 1
  MaxExits = 0
  MaxCrashes = 0
  MaxFaults = 0
CHECK_DEADLOCK FALSE
INVARIANTS
  VectorsMatchGraph
  PetsArePrivate
PROPERTIES
  ImplementsThreads
