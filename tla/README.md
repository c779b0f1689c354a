# A TLA+ model of Pet Agent

This directory holds TLA+ modules that model the core of Pet Agent (a desktop pet
driven by an agent DAG, with perception, speech and long-term memory), the TLC
configurations that check them on small instances, and proofs that TLAPS checks for
every value of the constants. Paths below are relative to the repository; line numbers
are those of the modelled commit. `PROJECT.json` maps every definition to the lines it
models and lists runs, mutants, findings, hazards and theorems.

Contents: [1 The system](#1-the-system) · [2 Modules](#2-modules) ·
[3 Runs](#3-runs-and-what-they-show) · [4 Fairness](#4-fairness) ·
[5 Proofs](#5-proofs) · [6 Disagreements](#6-disagreements-between-code-and-documents) ·
[7 Not modelled](#7-what-is-not-modelled) · [8 Plan](#8-plan)

## 1 The system

Almost everything runs on the Qt event loop of the main thread: a handler (a slot, a
timer, a posted call) runs to its end before the next one starts, but it may emit
signals whose slots run inside it. The memory worker and the image encoder are threads of
their own; the speech server and the speech recognition are processes.

| Component | State | Operations | Hard behaviour |
|---|---|---|---|
| Graph executor (`agent_graph_executor`) | DAG snapshot; one invocation: active nodes, in-degree counters, ready list, branches, results | begin, pump, resume a pending node, fail, commit, replace the graph when idle | joins under any order of answers; a node failing while others wait |
| Invocation queue (`invocation_queue_policy`) | at most 32 entries | enqueue (a frame replaces the waiting frame), dequeue | replacement in a full queue, order of frames and inputs |
| Agent runtime (`agent_runtime*`, `agent_async_bridge`, `agent_context`) | session and working context, pending requests, streams, cancelled ids, queue, deferred DAG | user input, perception frame, answers, timeouts, cancel, hot reload | late answers, timers that are never stopped, synchronous aborts, posted starts |
| Memory service (`memory/memory_service`) | bounded task queue, mailbox, two threads | start, nine kinds of task, take a result, shutdown | lost wakeups, draining, order of results |
| Memory storage (`memory_graph`, `memory_repository`, `vector_store`, `memory_maintenance`) | entries and edges, `graph.json`, SQLite vectors | add, forget, update, consolidate, export, import, backfill, merge | failure or kill between two writes; pets' private memories |
| Tool loop (`agent/tools`) | rounds, budgets, active call, deadline | start, cancel, LLM and tool callbacks, timeouts | posted dispatch racing cancellation; late tool results |
| Streamed dialogue (`stream_dialogue_coordinator`, `tts_client`, `tts_audio_player`, `stream_sentence_splitter`) | sentences with their synthesis state, playing index | enqueue, finish, cancel, synthesis and playback callbacks | concurrent syntheses, callbacks inside cancel |
| Pet controller, state machine | pending says, animation state, saying timeout | say, interrupt, drag, update | timeout of a say against the stream |
| Speech server manager | process state, health checks, restarts | start, stop, health check, process events | stale timers, bound on restarts |
| Web research (`web/`) | plan of queries, round, deadline, throttle | start, cancel, tool callbacks, assess, finish | re-entrance, deadline against answers |
| LLM clients (`llm/`) | replies and stream buffers by id | send, cancel, read, finish | a handler changing the buffers that are being read |
| Perception (`perception/`, `sensor/`) | encode in flight, waiting image, last thumbnail | frame, encode finished, start, stop | sessions overlapping with the encoder thread |
| Voice input (`speech/`) | recorder, recognition process | start, stop, process and recorder events | processes that fail to start, timeouts |
| DAG editor (`dageditor/`) | document, revision, event streams | load, save, adopt an external edit, hot reload | lost edits, streams closing while written |
| Memory consolidator | requests by LLM id | submit a turn, LLM callbacks | answers after the service stopped |
| Window, animation, dialogs, settings | user interface | – | none over time beyond Qt's |

How they interact. `MainWindow` turns clicks, texts and frames into calls of the
runtime. The runtime pumps the executor; a node either finishes at once or sends a
request to a client and is registered in the bridge. The client's signal resumes the
node, fails the invocation, or finds nobody waiting. When an invocation ends, a posted
call starts the next entry of the queue. Memory nodes submit tasks to the memory
service and read what an earlier turn left in its mailbox. The editor and a file
watcher ask for hot reloads, which wait while an invocation runs.

What makes each component correct:

* executor: every active node runs once, after its active predecessors; a join sees
  exactly its ancestors; an invocation always waits for somebody or ends; nothing of
  an ended invocation stays.
* queue: inputs in order, the newest frame only, never over the limit.
* runtime: no input vanishes, inputs take turns in order, nobody but the invocation in
  progress is resumed, the user sees at most one result per invocation, the history
  stays a conversation, a deferred DAG is used in the end.
* memory: nothing accepted is dropped, shutdown drains and returns, results get newer,
  forgotten stays forgotten, pets stay private, file and vectors follow the graph.
* tool loop: one `Finished` per start, budgets hold, no late result answers another call.
* speech: sentences in order, each once, and the stream ends.
* the others: a start is answered once, and nothing of an old session reaches a new one.

## 2 Modules

| Module | Models | Composes |
|---|---|---|
| `AgentGraphExecutor` | `agent_graph_executor.cpp` with the parts of `agent_dag_graph.cpp` it uses | – |
| `InvocationQueuePolicy` | `invocation_queue_policy.cpp` | instance of `LatestWinsFifo` (abstract) |
| `LatestWinsFifo` | what README.md promises of the queue: a FIFO lane and one newest-wins slot | – |
| `AgentRuntime` | `agent_runtime*.cpp`, `agent_async_bridge.cpp`, `agent_context.cpp`, their callers in `main_window.cpp` | executor and queue as instances, whose actions and operators it uses |
| `MemoryTaskQueue` | the two threads of `memory_service.cpp`; a task ends with any result | – |
| `MemoryService` | what the worker does for each task, on the graph, `graph.json` and the vectors | `MemoryTaskQueue`, for the threads' actions and as the abstract specification |
| `ToolLoop` | `agent/tools`: executor of the loop, scheduler and native tools, which call each other synchronously | – |
| `Speech` | `stream_dialogue_coordinator.cpp`, `tts_client.cpp`, `tts_audio_player.cpp`, the speech of `pet_controller.cpp` and of the state machine | – |
| `ReplyStream` | a streamed reply through `llm_client.cpp` and `stream_sentence_splitter.cpp` | – |
| `TtsServerManager` | `tts_server_manager.cpp` and the wait of `main.cpp` | – |
| `VoiceInputManager` | `speech/voice_input_manager.cpp` | – |
| `PerceptionPipeline` | `perception_pipeline.cpp`, its sensor and its encoder thread | – |
| `WebResearchEngine` | `web/`: engine, tool and client | – |
| `DagEditor` | `dag_document_store.cpp`, `dag_editor_server.cpp`, the tabs of `resources/dag_editor/app.js` | – |
| `MemoryConsolidator` | `memory_consolidator.cpp`, with the checks of the service that takes its candidates | – |
| `DagDocument` | `dag_document.cpp`, `agent_dag_validator.cpp`, `agent_node_catalog.cpp`, and what the runtime's loader and handlers read | – |
| `*_proofs` | theorems | extend their component. `AgentRuntime_proofs` also instances the executor's and the queue's, `MemoryService_proofs` those of `MemoryTaskQueue`; `Services_proofs` extends `MCServices` and instances the consolidator's |
| `MC*` | small instances for TLC | extend their component; `MCServices` instances ten of them |

### AgentGraphExecutor

`PumpReadyQueue` is a loop inside one handler. Each iteration is a step
(`ExecuteReadyNode`, `ExecutePendingNode`, `FailPump`), and `pumping` says that the
handler is on the stack; it ends with `SuspendPump` (something is pending) or
`CompleteInvocation`. Between handlers `ResumePendingNode`, `AbandonInvocation`,
`BeginInvocation`, `RefuseInvocation` and `ReplaceGraphIfIdle` may happen. A node's
context is the set of nodes whose writes it contains (`branches`, `nodeResults`), which
is enough to tell whose data a join has; the value-by-value merge is not modelled. The
ready list, sorted by declaration order, is a set with `IsFirstReady`.

### AgentRuntime

`handler` is "none" between handlers; otherwise it names the handler on the stack and
only that handler can go on, except that an abort inside it runs the failure callback
(`CancelActiveStreaming`), as in the code. A context is its trigger, the user's input,
the frame's hash and the history. A client owes a callback for each element of
`inflight`; text and vision requests leave it when they are aborted, web and tool
requests stay and call back late. `timers` only grows until a timer fires, because the
code never stops one. `kicks` counts posted calls of `StartNextQueuedInvocation`.
`m_contextWasQueued` is not a variable: every entry point resets it before it is read.
The branch for requests of an old invocation cannot be reached, which is
`PendingIsAnswerable`.

### MemoryTaskQueue and MemoryService

A critical section is one step, except that `QWaitCondition::wait` gives up the lock, so
that `worker` passes through "waiting". `Shutdown` is `BeginShutdown` (under the lock)
and `EndShutdown` (after the join), with `joining` in between. In `MemoryService` a task
is a sequence of steps, one for each write that survives the process: change the graph,
save it, then write and remove vectors one by one. `ProcessEnds` may come between any
two. Work between two such writes that only touches memory is part of the step before,
which no other thread can see. Of an entry its content, its owner and `active` are kept.
A retrieval finds *any* set of visible entries and maintenance deactivates *any* set, so
that properties hold whatever the ranking and the scores say. Tag and feedback change
nothing that is kept, but they save: they are one action, `Touch`.

### ToolLoop

The callbacks of the LLM client, of the scheduler and of the tools are actions; the
`while` of `DispatchNextToolCall` is one step per call, with `dispatching` for the handler
that is on the stack. `posted` holds the calls that `QMetaObject::invokeMethod` has
queued: the next dispatch, or `Finished`. A tool owes an answer for each element of
`asks`; a cancelled web question is withdrawn, a cancelled memory question is answered
late (`KeepsAsking`). What is asked of a tool is a member of `Asked`, or a call that
never reaches one.

### Speech

The coordinator and the pet controller share the player and the TTS client, so they are
one module. The coordinator calls back into itself: `stack` holds what is left of the
handlers that are running, so that `Cancel`, which aborts replies whose slots run inside
its loop, and `TryPlayNextSentence`, whose player may fail at once, are interrupted where
the code is. `k` is the coordinator, `c` the controller. The state of the pet is
abstracted to those that let a say start, hold it, or drop it.

### ReplyStream, TtsServerManager, VoiceInputManager, PerceptionPipeline, WebResearchEngine

Each is one object with its timers, and the process, thread, recorder or client that may
answer late: `port` and `main` (speech server), `device` (recorder and recognition
process), `worker` (encoder), `client` and `posted` (search).

In `VoiceInputManager` a step that removes the directory of a recording may fail to
(`CleanupRecordDirectory` is a set of outcomes), and then the directory stays. `answers`
counts what the process, a failure to start it and the two timeouts say of a recording, and
keeps apart whether a recorder error was reported, which may come besides. In
`WebResearchEngine` the claims in `cut` are those that were cut to 200 characters after a
blank: the tool simplifies the query (`Simplified`), so that its answer names another one
than the engine waits for. `step = "reset"` stands for the handler of `Completed`, in which
the runtime may start or cancel a study; `wiped` are those that `ResetState` then erases.
In `ReplyStream` a text is a sequence of words, blanks, newlines and delimiters (a newline
is both a blank and a delimiter). An event line comes in three pieces, a head, the tail with
which it is an event, and the newline that ends it; the client reads them in any portions,
and an event without its newline only when the reply ends. A reply completes, fails or is
aborted, by `CancelRequest` or the transfer timeout; an aborted one can no longer be read.

### DagEditor and DagDocument

`DagEditor` numbers contents as they are written and follows them through the file, the
store and the tabs; where text mode translates line ends (`file.translates`) what the store
writes is another text of the same content. `DagDocument` is about one body: received,
parsed, validated, saved and loaded by the runtime. Numbers are doubled, to have halves, and
`ToInt` and `ToInteger` give the default for one that is not whole or has too many bits
(`MaxInt`, `MaxInteger`); an input without a maximum in the catalog has `hasMax` FALSE. The editor's rules and the runtime's are two sets of
definitions, translated from two sets of sources; the properties compare them.

### MemoryConsolidator

`turns` are the turns whose request has left, `pending` those that wait for the answer. An
answer is a list of candidates, each correct or wrong in one way; `ParseCandidate` judges it
as the parser does, before the entry has its tags, and `TryEnqueueConsolidation` as the
service does, with them.

## 3 Runs and what they show

| Run | Instance | Shows |
|---|---|---|
| `executor` | 5 graphs of 4 nodes, 3 invocations | scheduling errors cannot occur and no invocation is abandoned (`SchedulingIsSound`), joins see their ancestors (`BranchSeesItsAncestors`), a commit covers the subgraph (`CommitCarriesEveryNode`), nodes run once (`EachNodeOnce`) |
| `runtime` | 4 graphs, 2 inputs, 1 frame, 1 reload, queue of 1 | pending requests are answerable and streams owed (`RequestsAreCurrent`), at most one report, no input lost, types and a history that stays a conversation (`SessionInv`), and the runtime implements the executor's specification (`ImplementsExecutor`) |
| `runtime_turns` | one request per invocation, 2 inputs, 2 frames, queue of 2 | inputs are served in order (`ServedInOrder`); every invocation ends and every queued input gets its turn (`TurnsGoOn`) |
| `memory_queue` | 2 partitions, 3 tasks, queue of 2, 4 requests, 2 starts, 1 restart of the process | `TaskQueueInv` (no lost wakeup, nothing dropped, drained when stopped), `ResultsGetNewer`, and that shutdown returns and accepted tasks are processed |
| `memory_tasks` | 2 pets, 10 tasks, 4 requests, no failures | vectors are current and complete (`VectorsMatchGraph`), `PetsArePrivate`, and the refinement `ImplementsThreads` of `MemoryTaskQueue` |
| `memory_faults` | 1 pet, 9 tasks, 2 requests in each of 2 processes, 1 kill, 1 failure | the file follows the graph (`FileIsGraph`), forgotten memories do not come back (`ForgottenStaysForgotten`) and are not retrieved (`ForgottenIsNotRetrieved`) |
| `speech` | 2 streams, 4 sentences, 2 syntheses at once, 1 say | between two handlers no sentence is forgotten, except behind one whose player the saying timeout has stopped (`DialogueInv`), and sentences are spoken in order, each at most once (`SentencesInOrder`) |
| `services` | the ten parts below, each moving alone | see the next table |
| `refused_turn_stops_queue`, `unread_file_is_lost`, `pending_say`, `later_save` | smallest instance each | a disagreement each, see section 6 |

The parts of `services` share no state: `part` is chosen at the start and only its
specification takes steps, so that one run checks ten specifications, at the cost of
the sum of their states. The constants of the parts are constants of `MCServices` too, with
named assumptions; the configuration gives them the values below and the theorems about
`ServicesSpec` hold for all.

| Part | Bounds | Shows |
|---|---|---|
| queue | 3 payloads, room for 4 | `Bounded`, and the refinement `ImplementsPolicy` of `LatestWinsFifo` |
| tool loop | 2 loops, 4 configurations with 1 or 2 rounds and calls, 2 tools, one of which answers late | every call is answered once, in order and by its own run, within the budgets (`LoopInv`); a loop that ended, however it did, leaves nothing behind (`NothingOutlivesTheLoop`); the node is released (`NodeIsReleased`) |
| speech server | 4 starts, 2 restarts in a row | ready means our own server answers (`ReadyIsOurs`); a start is reported (`StartIsReported`) |
| voice input | 3 recordings | a recording's files stay while they are read, and its process and timeouts answer it at most once together, a recorder error besides (`AnsweredOnce`); a stopped recording is answered and no longer in the way of the next (`StoppedIsAnswered`) |
| perception | 4 frames | the waiting frame is fetched when the encoder is done (`NoFrameStranded`) |
| web research | 2 studies, 2 rounds, 2 queries a round, 3 results, 2 claims | a study waits for its own search, or for its deadline when its claim was cut, and within its limits (`ResearchIsSound`), and is reported unless it was started in a handler of `Completed` (`ResearchIsReported`) |
| DAG editor | 2 tabs, 3 contents, 2 starts, edits by other programs, line ends translated or not | a revision names one content (`RevisionNamesContent`) |
| DAG documents | every structure of up to 2 nodes and 2 edges, all triangles, every value at and around the limits of every input of the catalog | what is saved loads, and as shown (`SavedGraphLoads`); an accepted config is read as written, unless a number without a maximum has more bits than the handler reads (`AcceptedConfigIsRead`) |
| reply | texts of 5 characters from 6 events (`MCDelta`), read in every portion, limits of 2 to 4 | the text is what was sent, but for what an abort leaves unread, and the sentences are the text (`TextIsSpoken`) |
| consolidator | 2 turns, 2 pets, 3 sets of known memories, answers of up to 3 candidates, each rule broken once | what the service is asked to remember is of one turn (`ConsolidationIsOfItsTurn`) |

Every property has a mutant: a plausible change of one mapped definition (a dropped
guard, a swapped order, a missing reset) under which the same run finds the property
violated. The mutants stand before the definitions they replace
(`NoWake`, `KeepPosition`, `RegisterWithoutTimer`, ...).

Why the bounds are enough. The interesting cases need: two branches and a join, a source
with another trigger, two terminals (executor); an entry waiting behind another one and
a frame replaced in between, a full queue, an answer after its invocation ended while
the next one runs (runtime: two inputs and one or two frames; `MaxInvocations` is at
least the number of inputs and frames, so that it never blocks); a worker asleep while
both a task and a shutdown arrive, a second start, a process that numbers its requests
anew (memory queue); a store, a change, an export, another change and an import, or a
forget between two retrievals (memory tasks). `MaxHistory` is 3, an odd number, so that
trimming cuts between a question and its answer; the code has 60, an even one, but
frames add single lines. The queue limit of 32 is 1, 2 or 4. `MaxCrashes` counts kills
while the service runs, `MaxFaults` failures of files and of SQLite; a failing embedder
is free. `CHECK_DEADLOCK FALSE` is set where inputs are bounded: the system goes quiet
when they are used up. The `executor` run checks deadlock.

For the parts of `services` the bounds are the smallest at which a second actor of the
same kind exists: a second loop, recording, study or start of the server for late signals
of the first, two tools of which one answers late, two tabs, a third frame while one is
encoded and one waits. The real limits (rounds, calls, results, lengths of sentences) are
larger numbers at the same comparisons. `MaxInt` and `MaxInteger` are a million and two, above
every limit of the catalog, with values beyond both. The limits of the splitter (2, 3, 4 and 3)
keep apart the shortest sentence, the first and the later soft split and the longest buffer;
the events of `MCDelta` have every character, one that ends a sentence inside and one that ends
in a blank. Contents of the editor are 1 and two more, so that a save, an edit outside and an
adoption meet in every order (`later_save` has a fourth, for the two saves it needs).

`QueueIsServed` fails with reloads, which is the first disagreement below; the liveness in
`runtime_turns` is for a graph every trigger can start and without reloads.
`VectorsMatchGraph` is checked without failures; the hazards say what breaks it
otherwise. The promises about inputs are for a loaded DAG (`isLoaded`).

## 4 Fairness

* Runtime: weak fairness of a handler's next step (it returns to the event loop), of a
  posted call, and of an armed timer. Qt's event loop serves them all in the end. The
  clients owe nothing: an answer may never come, and only the timeout ends the wait.
  The user and perception owe nothing either.
* Memory: weak fairness of the worker thread and of the main thread's return from
  `QThread::wait`. Nobody has to submit, to take a result or to shut down.
* Tool loop: weak fairness of the dispatch that is running, of posted calls, of the LLM
  client's answer (it sets a transfer timeout on every request) and of a tool's end (the
  scheduler has a timer for every call). The deadline need not fire.
* Speech server: weak fairness of the startup timeout. The process, the port, the health
  checks and the restart timer owe nothing.
* Voice input: weak fairness of the two timeouts and of the end of a process that was
  killed. The recorder and the recognition may hang.
* Web research: weak fairness of the deadline, and of a handler that is running. Posted
  rounds, the throttle and the search service owe nothing.
* Speech, perception, DAG editor, documents, replies and consolidation are checked for
  safety only and state no fairness.

## 5 Proofs

TLAPS checks all of them from nothing (`tlapm <module>_proofs.tla`).

| Theorem | Says, for all constants |
|---|---|
| `ExecutorInvariant` | `Spec => []ExecutorInv` |
| `TypeCorrect` | `[]TypeOK` of the executor |
| `SchedulingChecksNeverFail` | the scheduling error branches are dead code |
| `NeverStopsBeforeTheEnd` | when nothing is ready and nothing waits, all active nodes have completed |
| `NeverWedgedAnywhere` | an invocation between two handlers waits for a request |
| `EachNodeRunsOnce` | within an invocation no node is queued again |
| `SchedulingSound` | `[]SchedulingIsSound`: all of the above but the last, in one property |
| `ContextsAreExact`, `BranchesSeeTheirAncestors` | a node runs with the writes of its ancestors in the active subgraph, all of them and no others (`[]BranchSeesItsAncestors`) |
| `CommitsCarryEveryNode` | `[]CommitCarriesEveryNode`: what is committed has the writes of every active node |
| `QueueBounded` | the queue stays within its capacity, with at most one frame |
| `PolicyIsImplemented` | the queue implements `LatestWinsFifo` (`ImplementsPolicy`) |
| `RuntimeImplementsExecutor` | `Spec => ImplementsExecutor`: the runtime's steps are the executor's |
| `WaitingNodesAreAnswerable` | a waiting node is of the invocation in progress, its callback owed, its timer armed |
| `StreamsAlwaysOwed` | a streaming id has a reply that is still out |
| `RequestsStayCurrent` | `[]RequestsAreCurrent`, which is the two above |
| `ReportedAtMostOnce` | an invocation is reported at most once |
| `ContextsInvariant`, `SessionStaysAConversation` | contexts, queued deltas and the session stay conversations (`[]SessionInv`) |
| `RuntimeQueueIsBounded`, `RuntimeImplementsQueuePolicy` | the same two of the queue inside the runtime: whichever handler enqueues or starts an entry, the queue is bounded and implements `LatestWinsFifo` |
| `InputsInvariant`, `NoInputIsLost`, `InputsServedInOrder` | every input has started, waits or was turned down, and inputs start in order (`[]NoInputLost`, `[]ServedInOrder`) |
| `TaskQueueInvariant` | `Spec => []TaskQueueInv` |
| `WorkerIsAwake`, `TasksInOrder`, `ShutdownDrains`, `MailboxGetsNewer` | no lost wakeup, no task dropped or overtaken, an empty queue when the worker has left, results only get newer |
| `ThreadsAreRefined` | every step of `MemoryService` is one of `MemoryTaskQueue` or a stutter, so the rows above hold of it |
| `MemoryInvariant`, `PrivacyKept`, `GraphIsSaved`, `ForgottenIsGone`, `ForgottenIsKeptForgotten` | of the memory service: `PetsArePrivate`, `FileIsGraph`, `ForgottenIsNotRetrieved` and `ForgottenStaysForgotten`, under failures and kills |
| `VectorsFollowGraph` | `[]VectorsMatchGraph` without failures and kills |
| `SpeechIsSound`, `NoSentenceIsForgotten`, `SentencesAreInOrder` | of the streamed dialogue: `DialogueInv` between handlers, with the stopped player as its one exception, `SentencesInOrder` |
| `ConsolidationSound`, `ServicesConsolidateATurn` | `[]ConsolidationIsOfItsTurn`, of the consolidator and of the composition |
| `LoopsLeaveNothing`, `TranscriptsAreAnswered` | of the tool loop: `NothingOutlivesTheLoop`, `LoopInv` |
| `ReadyServerIsOurs`, `RecordingsAnsweredOnce`, `FramesAreFetched`, `StudiesAreSound`, `RevisionsNameContents` | `ReadyIsOurs`, `AnsweredOnce`, `NoFrameStranded`, `ResearchIsSound`, `RevisionNamesContent` of their parts |
| `RepliesAreSpoken` | `[]TextIsSpoken`: a streamed reply becomes its sentences, for every length of text and limit and every set of events |
| `SavedGraphsLoad`, `AcceptedConfigsAreRead` | of the DAG documents: `SavedGraphLoads`, `AcceptedConfigIsRead`, for every body |

**Executor.** Assumptions: `ExecutorAssumption`, the facts `LoadFromJsonFile` and the
topological sort establish about a snapshot (finitely many nodes, edges between them,
distinct ranks, no cycle). The safety properties are not inductive: whether a counter
may be decremented depends on which nodes completed before. `ExecutorInv` adds
`CountersExact` (each counter is the number of active parents not completed, and the
nodes reached are exactly those whose counter is zero), `StagesDisjoint`, `IdleIsClear`
and `ActiveIdIsNewest`. `CompletionStep` is the heart: completing a node removes one
parent of each of its successors, so the counters stay exact and the newly ready nodes
are those that reach zero. Acyclicity is needed only by `NeverStopsBeforeTheEnd`: the
least node, in a topological order, that has not completed would have only completed
parents, so it would be ready or waiting.

What a node has in its context follows its parents: `AncestorsOfParents` says that the
ancestors of a node are its parents and theirs, so that merging the branches of the parents,
each of which is exact, gives an exact context. A commit is that of the one terminal node,
and in a finite acyclic graph every active node leads to a node without active children.

**Queue.** Assumption: `QueueAssumption`. That a frame is accepted in a full queue is
sound only because it then replaces one, and there is never more than one: both halves
of `Bounded` need each other. For the refinement the lane is the queue without its frame
and the slot is the frame, wherever it stands: the frame that is replaced goes and the new
one is appended, which the abstract queue cannot tell from filling its slot.
`AgentRuntime_proofs` carries both theorems over, with the deltas of contexts (`Local`) as
payloads: a step of the runtime leaves the queue alone, takes its head or enqueues what the
policy accepts (`QueueStep`). `ContextsInv` is what makes each of these a queue step: a
handler queues a context only when it has a trigger, and its delta is a well-formed entry.

**Runtime.** Assumption: `RuntimeAssumption`, which asks of every snapshot what
`ExecutorAssumption` asks and that each node has a kind. `SameInit` and `SameNext` carry
the executor's theorems over: the module instances `AgentGraphExecutor_proofs`, so that
`ExecutorInv` holds of the runtime once each of its steps is one of the executor's
(`ExecutorStep`). The runtime hands the executor whatever trigger a context holds;
`UnknownTrigger` shows that one nobody declares selects the same sources as none.
`PendingIsAnswerable` alone is not inductive: that a fresh request differs from those
waiting needs that ids are bounded by the client's counter (`RequestsInv`), and that its
node waits for nothing else needs the executor's `StagesDisjoint`. `ReportsInv`
strengthens `AtMostOneReport`: what was reported has ended, because whatever reports
ends the invocation in the same step (`ReportingEnds`) and ids only grow (`IdsGrow`).

A context is copied, changed, cut down to its difference from the session, queued and put
together again. `ContextsInv` says what each copy can be: the history is a conversation no
newer than the invocations so far, that of the turn ends before the invocation in progress,
and a queue entry is a well-formed delta. `InputsInv` says where inputs are: what has started
is in order, what waits has started before or is behind all that has, and the context at
hand holds an input that started or the newest one. The second case of each is the entry that an
unchanged frame queues again (section 6), which is why the order alone is not inductive.
The capacity is positive and the history has room for a question and its answer, as
`RuntimeAssumption` says; `Absent` is none of the values it stands for the absence of.

**Memory threads.** Assumptions: `TaskQueueAssumption` (the capacity is positive,
`Start` refuses others) and `NoneAssumption` (the absence of a task or a result is
neither). `TaskQueueInv` adds `ThreadsAgree` (who runs, joins and is busy) and
`ResultsAreOlder` (what is in the mailbox or was delivered is not newer than the last
task taken). `NoLostWakeup` needs `ThreadsAgree`, since a worker that waits must be one
that `Shutdown` wakes; `ResultsGetNewer` needs that the task at hand is newer than
everything delivered, which follows from `NothingDropped`.

**Memory service.** Assumption: `MemoryAssumption` (that of the threads, and tasks that the
service's entry points can build). `ThreadsAreRefined` comes first, because "the current task
is the newest taken" is needed everywhere. The properties are about what was delivered or
about the moments between two tasks, so none is inductive. `MemoryInv` says of the result at
hand what must hold once it is delivered (`Private`, `Forgetting`), and of `graph.json` that
it is the graph unless the task in progress still has to save (`SavedOrDue`) and is never
ahead of it (`FileIsOlder`: whatever the file has, the graph has, no more of it active). The
last gives `ForgottenStaysForgotten` across kills: what is loaded again is what was saved.
A consolidation changes the graph by a fold over its candidates, which is proved step by
step (`FoldInv`, `AfterCandidates`). `VectorsFollowGraph` assumes `MaxFaults = 0` and
`MaxCrashes = 0`, like the run, because the code gives no more (section 6). Its invariant,
`VectorInv`, says that the operations left to the task are how the vectors differ from the
graph.

**Speech.** Assumption: `SpeechAssumption` (a positive number of syntheses at once, sources
of a say that the code has). The coordinator calls itself through the player and the TTS
client, so `SpeechInv` holds at every step, inside handlers too: each pending sentence is
being synthesised, waits in line or is being added (`Care`), nothing later is settled before
its predecessor (`OrderOk`, `StreamsOk`), and the stack is one the code can have (`StackOk`). A
free slot, or a player at rest before a ready sentence, is allowed only while a call on
the stack will take it (`SlotsUsed`, `PlayerRests`). Between two handlers the stack is empty,
which is `DialogueInv`. That a sentence which counts as playing has the player is kept with it
(`PlayerOk`): the player is never silent then, but it may be `Stopped`, which is what
`OnSayingTimeout` leaves behind. That an announced sentence is later than all before it follows
from `StreamsOk`, as what has been announced is settled.

**Services.** The parts share no variable (`EachPartMovesAlone`), so each has its own
invariant. *Tool loop* (`ToolLoopAssumption`): `ToolLoopInv` has four phases, of which a loop
in progress is in exactly one (dispatching, waiting for the LLM, for a posted dispatch, for a
tool), and says that posted calls and late answers of earlier loops are older than it, which
makes the code's comparison of ids enough. `TranscriptInv` keeps that each call is answered in
order or still owed. *Speech server*: a server that is ready or waits to restart has no request
and no timer of an earlier start. *Voice input*: while something can still answer a recording, nothing but a recorder error has,
and the directory is that of the recording. *Research* (`ResearchAssumption`): results have
distinct places, so by counting a study cannot hold more than its limit; what is still to be
reported is the study in progress and those erased. *Editor* (`EditorAssumption`): no holder has
a revision that the server has not made. *Documents* (`DocumentAssumption`: both widths of
numbers hold what the catalog bounds): `DocumentInv` says how far the body has come. A body that passes the editor's rules has no self loop, and then the validator's cycle
test is the runtime's; `AcceptedConfigsAreRead` goes over the widgets of the catalog (`Fits`).

*Replies* (`ReplyAssumption`: an event brings a text). The property is about what loops compute along a text of any length,
so its proof brings its own induction: `AllNaturals` takes the least counterexample of a set of
numbers, and `RecursionExists` shows that a function whose recursion descends on a measure
exists, whatever it computes. With it `FlattenSeq` and the fold over the events are what they
say (`FlattenAppend`, `AppendedIsDelivery`), and `ProcessBuffer` is a loop that ends because each
round takes something off the buffer (`ProcessBufferLoops`). A round only drops blanks
(`EmissionKeeps`), so the words held by the splitter stay those of the text
(`ProcessBufferKeeps`). `SplitterOk` adds what `TextIsSpoken` does not say and needs: behind a
sentence marked as the last only blanks are left, so nothing follows it. `ReplyInv` says
that the text of the client and all that its buffer and the unread pieces hold, ended or not
(`AllOf`), is what was sent, and that the buffer alone with the tails that are unread (`LostBy`)
is so too: the first makes a finished reply complete, the second says what an aborted one has
lost. `OnePieceMore` and `KeptIsTheRest` are about one piece that arrives and one read.

**Consolidation.** No assumption: `RecordsInv` keeps that a request only waits if the limit
of candidates was in 1..8. `AcceptedIsOfTheTurn` is about one answer: a candidate that
passes the parser and the service is of the turn. It needs both checks, since the parser's
filter sees no tags. The rest is that a turn waits at most once (`CompletionKeeps`).

Only model-checked, and why.

* Liveness (`TurnsGoOn`, `AcceptedIsProcessed`, `ShutdownReturns`, `NodeIsReleased`,
  `StartIsReported`, `StoppedIsAnswered`, `ResearchIsReported`), and the fairness that
  `ImplementsThreads` asks for: TLAPS has no rule for `ENABLED`. Its other half is
  `ThreadsAreRefined`.
* The runs of section 6, which are counterexamples.

## 6 Disagreements between code and documents

Each of these has a run in which TLC finds the violation.

1. *A refused turn stops the queue* (`agent_runtime_scheduler.cpp:59`, run
   `refused_turn_stops_queue`). After a reload the head of the queue may have no source for
   its trigger; it is dropped and nothing posts the start of the entry behind it until
   another invocation ends.
2. *A graph file that cannot be opened is overwritten* (`memory_repository.cpp:617`, run
   `unread_file_is_lost`), without the copy that the plan promises and that broken JSON gets.
3. *A say that is requested while the pet walks stops all later ones*
   (`pet_controller.cpp:508`, run `pending_say`), when its synthesis fails after the text
   was cleared.
4. *The later of two saves wins* (`resources/dag_editor/app.js:369`, run `later_save`). The
   event of the first save raises the revision the other tab will send, so that the 409 of
   `docs/dag_web_editor_plan.md:493` does not come.

These are stated as properties in the modules; TLC finds them violated when they are added
to a configuration, and no run carries them.

* `AgentRuntime.DeferredReloadIsApplied` (`agent_runtime_async.cpp:288`): failure callbacks
  of the text client end the invocation without applying a deferred DAG; with an empty queue
  it stays deferred, and may later replace a DAG that was applied after it.
* `AgentRuntime.CancelIsNotAFailure` (`agent_runtime_async.cpp:25`): the abort calls back
  before the id is noted as cancelled, so a cancellation is reported as a failure.
* `MemoryService.StoreIsAdded` (`memory_service.cpp:1081`): after a restart ids start again
  from 1 and are taken, so a memory is lost.
* `Speech.InterruptSilences` (`include/vpet/pet_controller.h:169` promises to interrupt
  dialogue, synthesis and playback at once): aborted syntheses call back inside the
  coordinator's `Cancel` and may start the next sentence.
* `TtsServerManager.RestartsAreBounded` (`tts_server_manager.cpp:586`): becoming ready
  resets the counter of consecutive restarts.

Further ones were met while modelling; no run is about them. A property that one of
them would break names it as its exception (the stopped player in `DialogueInv`, recorder errors
in `AnsweredOnce`, erased studies and cut claims in `ResearchIsSound`, the file that cannot be
opened in `RevisionNamesContent`, `max_tokens` in `AcceptedConfigIsRead`, the aborted reply in
`TextIsSpoken`).

* Runtime: a frame skipped as unchanged still makes `Execute` queue the working context
  (`agent_runtime.cpp:182`; `AGENT_CONTEXT_KEY_PROTOCOL.md` says it must not).
* Memory: a kill between saving a changed entry and writing its vector leaves the old vector
  for good (`memory_service.cpp:1331`); so does a vector store that cannot be opened at a
  restart. `docs/memory_architecture.md` asks for a transaction.
* Speech: `Cancel` iterates over `m_tasks` while a slot it calls may clear them
  (`stream_dialogue_coordinator.cpp:114`); going from walking to idle clears the path of a
  reply that is ready, which is then never heard; the saying timeout stops the player without
  a `PlaybackFinished`, so the stream never ends (`pet_controller.cpp:1108`).
* Speech server: a process that fails inside `start()` is reported before `main.cpp` listens,
  which then waits for its own 60 seconds; it is given up (`tts_server_manager.cpp:321`) before
  the health checks and the watchdog are started (`:188`), which then run on without a process.
* Voice input: a recorder error after the stop timeout has answered
  (`voice_input_manager.cpp:219`, `:268`), or inside `record()` when the user stops afterwards, is
  a second answer. A directory that cannot be removed (`:476`) refuses every later recording
  (`:136`, `:285`).
* Research: two `web.research` nodes in series make the runtime call `Start` in its handler of
  `Completed` (`agent_runtime.cpp:84`, `agent_graph_executor.cpp:594`,
  `agent_runtime_nodes.cpp:532`). It is accepted and then erased by `ResetState`
  (`web_research_engine.cpp:1048`): the second node waits for its own timeout. A claim cut to 200
  characters after a blank (`:463`, `:478`) is simplified by the tool (`web_search_tool.cpp:143`),
  the answer is taken for another query's and ignored (`:498`, `:544`), and the study ends by its
  deadline.
* Reply: text without a delimiter is never cut at the limit (`stream_sentence_splitter.cpp:157`);
  a reference into `m_streamBuffers` is held while deltas are emitted
  (`llm_client.cpp:447`); a stream that failed or was cancelled is finalised, so its
  remainder is spoken. Cancel and the transfer timeout abort the reply (`:348`, `:275`), which
  then gives no more data (`:474`), so that events which had arrived unread are lost.
* DAG editor: the watcher watches the file and not its directory
  (`dag_editor_server.cpp:165`), so edits made after a save that replaced the file are not
  seen and are overwritten (`dag_document_store.cpp:92`). A changed file that cannot be opened at
  that moment is reported and not looked at again (`dag_document_store.cpp:160`,
  `dag_editor_server.cpp:694`). A save is written in text mode (`dag_document_store.cpp:125`) and
  its fingerprint is that of the text before (`:149`), while the watcher reads the bytes (`:167`):
  on Windows the store adopts its own save as a new revision.
* DAG documents: a trigger "User" passes the validator while the executor compares exactly;
  `null`, a string for a list or 2.5 for a whole number pass the validator and fail in the
  handler; so does a `max_tokens` of `vision.llm` beyond 32 bits, which has no maximum in the
  catalog (`agent_node_catalog.cpp:231`, `agent_runtime_nodes.cpp:209`). Three warnings say what the runtime does not do: `orphan_node` ("运行时不会被执行",
  but a node without incoming edges runs), `trigger_on_non_source` ("不会生效", but it is
  honoured there), and `join_without_merge` (an `llm.chat` with several parents and no merge
  is refused). A config that is no object is dropped by the editor, and nodes written as
  strings load in the runtime but not in the editor.

## 7 What is not modelled

* Values: prompts, replies, the merge of single keys at a join (`MergeJoinKey`), ranking,
  similarity, scores, times, tags and edges of memories, what a web page supports. The
  properties do not depend on them, or the model allows every outcome.
* Qt, SQLite, the LLM, vision, speech and search services, processes and the port of the
  speech server: they are what the source lets them be, an answer, a failure, or silence.
* Inside the runtime: `prepareInput` failing, which no caller can cause. The ids of
  consolidation and tool loop requests come from the client's counter too; the runtime's
  handlers ask those components first, and each has a module of its own.
* Modelled in part: the memory graph (no edges, indexes or BFS), maintenance (which entries it
  deactivates is a choice), the pet's states (walking, mood and drag are one), the HTTP of the
  DAG editor (`dag_http_server.cpp`, parsing of requests).
* Not modelled: the vision client (`vision_llm_client.cpp`: two profiles, one of which is
  active. An answer is parsed by the profile active when it arrives; loading a config lets the
  environment replace the stored profile behind the active one), the node registry and output
  policy (tables and choices of text), the texts the node handlers build, settings files.
* Window, animation, dialogs and settings have no behaviour over time beyond Qt's; the
  TypeScript editor (`tools/dag-editor`), the Python scripts and vendored code are outside.

## 8 Plan

Done: executor, queue, runtime, memory threads and service; tool loop, speech, reply stream,
speech server, voice input, perception, web research, DAG editor and documents, consolidator.

Next, in this order.

1. `MemoryMaintenance`: decay, feedback, merge and clusters on the graph with its edges. A
   merge keeps a copy of what it removes; an edge never dangles.
2. `VisionLlmClient`: profiles against requests in flight.
3. `DagHttpServer`: connections, partial requests, event streams closing while written.

Theorems to add: the invariants of the modules above as they are written.
