SPECIFICATION Spec
CONSTANTS
  cat = cat
  dog = dog
  tea = tea
  rain = rain
  Global = Global
  None = None
  NoKey = NoKey
  Pet <- TwoPets
  Content <- TwoContents
  Task <- StoreOnly
  Capacity = 1
  MaxRequests = 2
  MaxStarts = 2
  MaxExits = 1
  MaxCrashes = 0
  MaxFaults = 1
CHECK_DEADLOCK FALSE
PROPERTIES
  UnreadFileIsKept
