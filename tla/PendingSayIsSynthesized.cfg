SPECIFICATION Spec
CONSTANTS
  MaxSynthesis = 2
  MaxStreams = 1
  MaxSentences = 2
  MaxSays = 1
  Source <- TwoSources
CHECK_DEADLOCK FALSE
INVARIANT
  PendingSayIsSynthesized
