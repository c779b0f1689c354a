SPECIFICATION Spec
CONSTANTS
  MaxSynthesis = 2
  MaxStreams = 2
  MaxSentences = 4
  MaxSays = 1
  Source <- TwoSources
CHECK_DEADLOCK FALSE
INVARIANTS
  DialogueInv
PROPERTIES
  SentencesInOrder
