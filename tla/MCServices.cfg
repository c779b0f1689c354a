SPECIFICATION ServicesSpec
CONSTANTS
  user = user
  Vision = Vision
  q1 = q1
  q2 = q2
  q3 = q3
  NoFrame = NoFrame
  Trigger <- MCTrigger
  Payload <- MCPayload
  Capacity = 4
  web = web
  memory = memory
  NoTool = NoTool
  Tool <- MCTool
  KeepsAsking <- MCKeepsAsking
  Config <- MCConfig
  Asked <- MCAsked
  MaxLoops = 2
  Body <- MCBody
  MaxInt = 1000000
  MaxInteger = 2000000
  MaxRestartAttempts = 2
  MaxServerStarts = 4
  Foreign = Foreign
  MaxRecordings = 3
  MaxFrames = 4
  MaxSearchRounds = 2
  MaxQueriesPerRound = 2
  MaxTotalResults = 3
  MaxClaims = 2
  MaxResearch = 2
  Tab = {1, 2}
  OutsideEdits = {TRUE, FALSE}
  MaxContents = 3
  MaxEditorStarts = 2
  MinStrong = 2
  FirstSoft = 3
  LaterSoft = 4
  MaxBuffer = 3
  Delta <- MCDelta
  MaxText = 5
  Pet = {"cat", "dog"}
  KnownIds <- MCKnownIds
  MaxCandidates = 2
  MaxTurns = 2
CHECK_DEADLOCK FALSE
INVARIANTS
  Bounded
  LoopInv
  NothingOutlivesTheLoop
  ReadyIsOurs
  AnsweredOnce
  NoFrameStranded
  ResearchIsSound
  RevisionNamesContent
  SavedGraphLoads
  AcceptedConfigIsRead
  TextIsSpoken
  ConsolidationIsOfItsTurn
PROPERTIES
  ImplementsPolicy
  NodeIsReleased
  StartIsReported
  StoppedIsAnswered
  ResearchIsReported
