SPECIFICATION Spec
CONSTANTS
  Tab = {1, 2}
  OutsideEdits = {}
  MaxContents = 4
  MaxStarts = 1
CHECK_DEADLOCK FALSE
PROPERTY
  LaterSaveConflicts
