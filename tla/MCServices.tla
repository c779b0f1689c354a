----------------------------- MODULE MCServices -----------------------------
(***************************************************************************)
(* The parts of the program that talk to the runtime only by its entry     *)
(* points and share no state with each other: the invocation queue, the    *)
(* tool loop, the speech server, voice input, perception, web research,    *)
(* the DAG editor and its documents, streamed replies, and consolidation.  *)
(* In each behaviour `part' is the one that moves, so the behaviours of    *)
(* this module are those of the ten specifications.                        *)
(***************************************************************************)
EXTENDS InvocationQueuePolicy

CONSTANTS
  user, q1, q2, q3,                                          \* queue
  Tool, KeepsAsking, Config, Asked, NoTool, MaxLoops,        \* tool loop
  web, memory,
  MaxRestartAttempts, MaxServerStarts, Foreign,              \* speech server
  MaxRecordings,                                             \* voice input
  MaxFrames,                                                 \* perception
  MaxSearchRounds, MaxQueriesPerRound, MaxTotalResults,      \* web research
  MaxClaims, MaxResearch,
  Tab, OutsideEdits, MaxContents, MaxEditorStarts,           \* DAG editor
  Body, MaxInt, MaxInteger,                                  \* its documents
  MinStrong, FirstSoft, LaterSoft, MaxBuffer, Delta, MaxText, \* streamed reply
  Pet, KnownIds, MaxCandidates, MaxTurns                     \* consolidator

MCTrigger == {user, Vision}
MCPayload == {q1, q2, q3}

\* Two tools, one of which answers late; every budget of the loop at its smallest limits.
MCTool == {web, memory}
MCKeepsAsking == {memory}
Budget(rounds, max, timed, onBudget, fallback) ==
  [offers |-> TRUE, maxRounds |-> rounds, maxCalls |-> max, timed |-> timed,
   onBudget |-> onBudget, fallback |-> fallback]
MCConfig ==
  {Budget(2, 2, TRUE, "answer", "plain"), Budget(1, 2, FALSE, "answer", "fail"),
   Budget(1, 1, FALSE, "end", "plain"),
   [Budget(2, 2, FALSE, "answer", "plain") EXCEPT !.offers = FALSE]}
MCAsked == {<<memory, memory>>, <<"malformed", web>>, <<"denied", "foreign">>}

\* Every character, and events that end a sentence or bring two of them.
MCDelta ==
  {<<"word">>, <<"soft">>, <<"newline">>, <<"word", "strong">>, <<"strong", "newline">>,
   <<"word", "blank">>}

\* A turn that knows nothing, one memory and a blank id, or two memories.
MCKnownIds == {{}, {"m1", "blank"}, {"m1", "m2"}}

\* NormalizeRequest refuses budgets outside 1..10, 1..4 and 1..50.
ASSUME ResearchAssumption ==
  /\ MaxSearchRounds \in Nat \ {0}
  /\ MaxQueriesPerRound \in Nat /\ MaxTotalResults \in Nat /\ MaxClaims \in Nat
\* A file is a valid document or it is not.
ASSUME EditorAssumption == OutsideEdits \subseteq BOOLEAN

VARIABLES
  part,
  loop, messages, deadline, late, dispatching, active, calls, asks, chats, posted, waiting,
  nextLoop, nextChat, nextAsk, requests, ran, results,
  server, port, main,
  voice, device, answers,
  perception, worker, latest,
  research, step, begins, search, studies, wiped,
  file, written, store, watch, tab,
  body, document, issues, stage,
  sent, line, unread, client, splitter, phase,
  turns, pending, running, accepted

loopVars == <<loop, messages, deadline, late, dispatching, active, calls, asks, chats, posted,
              waiting, nextLoop, nextChat, nextAsk, requests, ran, results>>
serverVars == <<server, port, main>>
voiceVars == <<voice, device, answers>>
perceptionVars == <<perception, worker, latest>>
researchVars == <<research, step, begins, search, studies, wiped>>
editorVars == <<file, written, store, watch, tab>>
documentVars == <<body, document, issues, stage>>
replyVars == <<sent, line, unread, client, splitter, phase>>
turnVars == <<turns, pending, running, accepted>>
Part == {"queue", "loop", "server", "voice", "perception", "research", "editor", "document",
         "reply", "consolidator"}

Bodies == INSTANCE MCDagDocument WITH Body <- {}
Loop == INSTANCE ToolLoop WITH sent <- requests
Server == INSTANCE TtsServerManager WITH s <- server, MaxStarts <- MaxServerStarts
Voice == INSTANCE VoiceInputManager WITH v <- voice
Perception == INSTANCE PerceptionPipeline WITH p <- perception
Research == INSTANCE WebResearchEngine WITH
  e <- research, posted <- begins, client <- search, owed <- studies
Editor == INSTANCE DagEditor WITH MaxStarts <- MaxEditorStarts
Document == INSTANCE DagDocument
Reply == INSTANCE ReplyStream
Consolidator == INSTANCE MemoryConsolidator

MCBody == Bodies!MCBody

\* ToolLoopNode::ParseConfig refuses budgets below 1; the LLM asks for finitely many calls.
ASSUME ToolLoopAssumption ==
  /\ Config # {} /\ Config \subseteq Loop!ConfigType
  /\ Asked \subseteq Seq(Loop!Call)
  /\ MaxLoops \in Nat

\* A body is JSON: nodes and edges in order, texts, and a value for every key of a config.
TextType == [word : STRING, padded : BOOLEAN, upper : BOOLEAN]
ValueType ==
  [kind : {"null", "bool", "number", "string", "array"}, number : Int, text : TextType,
   items : SUBSET TextType]
IsBody(b) ==
  /\ Len(b.nodes) \in Nat /\ DOMAIN b.nodes = 1..Len(b.nodes)
  /\ Len(b.edges) \in Nat /\ DOMAIN b.edges = 1..Len(b.edges)
  /\ \A i \in 1..Len(b.nodes) :
       LET n == b.nodes[i] IN
       /\ {n.id, n.type} \subseteq TextType
       /\ n.config \in {"absent", "object", "other"}
       /\ \A k \in DOMAIN n.settings : n.settings[k] \in ValueType
  /\ \A i \in 1..Len(b.edges) : {b.edges[i].from, b.edges[i].to} \subseteq TextType
ASSUME DocumentAssumption ==
  /\ MaxInt \in Nat /\ MaxInteger \in Nat /\ 600000 <= MaxInt /\ MaxInt <= MaxInteger
  /\ \A b \in Body : IsBody(b)

\* An event brings a text.
ASSUME ReplyAssumption == Delta \subseteq Seq(Reply!Char)

\* Only the editor is met with every file it can find.
ServicesInit ==
  /\ part \in Part
  /\ Init /\ Loop!Init /\ Server!Init /\ Voice!Init /\ Perception!Init
  /\ Research!Init /\ Editor!Init /\ Document!Init /\ Reply!Init /\ Consolidator!Init
  /\ part # "editor" => file.doc = 0 /\ ~file.translates

ServicesNext ==
  \/ /\ part = "queue" /\ Next
     /\ UNCHANGED <<part, loopVars, serverVars, voiceVars, perceptionVars,
                    researchVars, editorVars, documentVars, replyVars, turnVars>>
  \/ /\ part = "loop" /\ Loop!Next
     /\ UNCHANGED <<part, entries, serverVars, voiceVars, perceptionVars,
                    researchVars, editorVars, documentVars, replyVars, turnVars>>
  \/ /\ part = "server" /\ Server!Next
     /\ UNCHANGED <<part, entries, loopVars, voiceVars, perceptionVars,
                    researchVars, editorVars, documentVars, replyVars, turnVars>>
  \/ /\ part = "voice" /\ Voice!Next
     /\ UNCHANGED <<part, entries, loopVars, serverVars, perceptionVars,
                    researchVars, editorVars, documentVars, replyVars, turnVars>>
  \/ /\ part = "perception" /\ Perception!Next
     /\ UNCHANGED <<part, entries, loopVars, serverVars, voiceVars,
                    researchVars, editorVars, documentVars, replyVars, turnVars>>
  \/ /\ part = "research" /\ Research!Next
     /\ UNCHANGED <<part, entries, loopVars, serverVars, voiceVars,
                    perceptionVars, editorVars, documentVars, replyVars, turnVars>>
  \/ /\ part = "editor" /\ Editor!Next
     /\ UNCHANGED <<part, entries, loopVars, serverVars, voiceVars,
                    perceptionVars, researchVars, documentVars, replyVars, turnVars>>
  \/ /\ part = "document" /\ Document!Next
     /\ UNCHANGED <<part, entries, loopVars, serverVars, voiceVars,
                    perceptionVars, researchVars, editorVars, replyVars, turnVars>>
  \/ /\ part = "reply" /\ Reply!Next
     /\ UNCHANGED <<part, entries, loopVars, serverVars, voiceVars,
                    perceptionVars, researchVars, editorVars, documentVars, turnVars>>
  \/ /\ part = "consolidator" /\ Consolidator!Next
     /\ UNCHANGED <<part, entries, loopVars, serverVars, voiceVars, perceptionVars,
                    researchVars, editorVars, documentVars, replyVars>>

servicesVars == <<part, entries, loopVars, serverVars, voiceVars, perceptionVars, researchVars,
                  editorVars, documentVars, replyVars, turnVars>>
ServicesSpec ==
  /\ ServicesInit /\ [][ServicesNext]_servicesVars
  /\ Loop!Fairness /\ Server!Fairness /\ Voice!Fairness /\ Research!Fairness

-----------------------------------------------------------------------------
\* A request of a tool loop carries one answer per call, in order, each from its own call,
\* within the budgets of requests and tools (ToolLoopExecutor, ToolScheduler).
LoopInv == Loop!LoopInv
\* A finished tool loop leaves nothing behind and reports once (ToolLoopExecutor).
NothingOutlivesTheLoop == Loop!NothingOutlivesTheLoop
\* The node that waits for a tool loop is released (ToolLoopExecutor).
NodeIsReleased == Loop!NodeIsReleased
\* A speech server counts as ready only by the answer of the process just started
\* (TtsServerManager).
ReadyIsOurs == Server!ReadyIsOurs
\* Every start of the speech server is reported ready or failed (TtsServerManager).
StartIsReported == Server!StartIsReported
\* A recording is kept for the process that reads it and answered, once but for recorder
\* errors (VoiceInputManager).
AnsweredOnce == Voice!AnsweredOnce
\* A recording that was stopped is answered and no longer in the way of the next one
\* (VoiceInputManager).
StoppedIsAnswered == Voice!StoppedIsAnswered
\* The frame that waits for the encoder is fetched by it (PerceptionPipeline).
NoFrameStranded == Perception!NoFrameStranded
\* A study waits for its own search, within its budgets (WebResearchEngine).
ResearchIsSound == Research!ResearchIsSound
\* Every study is reported (WebResearchEngine).
ResearchIsReported == Research!ResearchIsReported
\* A revision of the DAG document names one content (DagDocumentStore, DagEditorServer).
RevisionNamesContent == Editor!RevisionNamesContent
\* What the editor saves the runtime loads, as it is (DagDocument, AgentDagGraph).
SavedGraphLoads == Document!SavedGraphLoads
\* A config the catalog lets pass is read by the node's handler (AgentDagValidator).
AcceptedConfigIsRead == Document!AcceptedConfigIsRead
\* The sentences of a streamed reply are its text (LlmClient, StreamSentenceSplitter).
TextIsSpoken == Reply!TextIsSpoken
\* What the memory service is asked to remember is of one turn (MemoryConsolidator).
ConsolidationIsOfItsTurn == Consolidator!ConsolidationIsOfItsTurn
=============================================================================
