---------------------------- MODULE AgentRuntime ----------------------------
(***************************************************************************)
(* The agent runtime (agent_runtime*.cpp, agent_async_bridge.cpp) around   *)
(* the graph executor: user inputs, perception frames, answers of the      *)
(* clients, their timeouts, cancellation by the user and hot reloads of    *)
(* the DAG, all handled on one Qt event loop.                              *)
(*                                                                         *)
(* Between two handlers `handler' is "none" and the event loop picks what  *)
(* comes next.  A handler that runs an invocation keeps the loop while it  *)
(* pumps the executor, one node per step.                                  *)
(***************************************************************************)
EXTENDS Integers, Sequences, FiniteSets, SequencesExt

CONSTANTS Node, Graph,      \* see AgentGraphExecutor
          Frame,            \* contents of perception frames
          Absent,           \* no value under a context key
          MaxInputs,        \* bound on the inputs the user submits
          MaxFrames,        \* bound on the perception frames
          MaxReloads,       \* bound on the accepted reload requests
          MaxInvocations,   \* bound on the invocations
          Capacity,         \* MAX_PENDING_INVOCATIONS
          MaxHistory        \* MAX_CONVERSATION_HISTORY_ITEMS

Trigger == {"user", "vision"}
Kind == {"plain", "output", "text", "stream", "vision", "web", "tool"}

VARIABLES
  graph, isActive, invocationId, nextInvocationId, lastCompletedId,
  activeNodeIds, remainingInDegree, readyQueue, completedNodeIds, branches,
  nodeResults       \* these eleven: the executor's, see AgentGraphExecutor

VARIABLES
  isLoaded,         \* Load succeeded at start
  session,          \* m_sessionContext
  ctx,              \* m_context
  turn,             \* the context the invocation in progress began with
  replied,          \* output.format wrote a reply in this invocation
  queue,            \* m_invocationQueue
  lastFrame,        \* m_lastPerceptionFrameHash
  pendingGraph,     \* m_pendingGraphSnapshot
  pending,          \* m_asyncBridge: the nodes that wait for an answer
  direct,           \* m_asyncBridge: prompts sent without a DAG
  streaming,        \* m_streamingLlmRequests
  cancelled,        \* m_cancelledUserRequests
  nextRequestId,    \* the last id each client handed out
  inflight,         \* requests whose client still owes a callback
  timers,           \* armed timeouts; nothing ever stops one
  kicks,            \* posted calls of StartNextQueuedInvocation
  handler           \* the handler on the stack and how far it is

VARIABLES           \* observations, not state of the program
  inputs, frames, reloads,   \* how many there were so far
  started,          \* inputs in the order their invocations began
  refused,          \* inputs turned down
  reports,          \* answers and failures shown to the user, by invocation
  latestGraph       \* the graph of the last accepted reload request

executorVars == <<graph, isActive, invocationId, nextInvocationId, lastCompletedId,
                  activeNodeIds, remainingInDegree, readyQueue, completedNodeIds,
                  branches, nodeResults>>
contextVars == <<session, ctx, turn, replied>>
requestVars == <<pending, inflight, streaming, nextRequestId, timers>>
reloadVars == <<pendingGraph, latestGraph>>
observed == <<started, refused, reports>>
budget == <<inputs, frames, reloads>>
rest == <<isLoaded, lastFrame, direct, cancelled, queue>>
vars == <<executorVars, contextVars, requestVars, reloadVars, observed, budget,
          rest, kicks, handler>>

PumpHandlers == {"submit", "frame", "dequeue", "resume", "resumeQuietly"}
waiting == {p.node : p \in pending}
pumping == handler \in PumpHandlers

Exec == INSTANCE AgentGraphExecutor WITH NoTrigger <- Absent
Queue == INSTANCE InvocationQueuePolicy WITH
           Vision <- "vision", Payload <- {}, NoFrame <- Absent, entries <- queue

ASSUME RuntimeAssumption ==
  /\ IsFiniteSet(Node)
  /\ Absent \notin Graph /\ Absent \notin Trigger /\ Absent \notin Nat
  /\ {MaxInputs, MaxFrames, MaxReloads, MaxInvocations} \subseteq Nat
  /\ Capacity \in Nat \ {0}
  /\ MaxInvocations >= MaxInputs + MaxFrames
  /\ MaxHistory \in Nat /\ MaxHistory >= 2
  /\ \A g \in Graph :
       /\ Exec!IsSnapshot(g)
       /\ g.kind \in [g.nodes -> Kind]
       /\ g.badTimeout \subseteq g.nodes   \* async_timeout_ms out of range

-----------------------------------------------------------------------------
(* Contexts *)

(***************************************************************************)
(* A context is abstracted to the trigger, the user's input, the hash of   *)
(* the frame and the conversation history.                                 *)
(***************************************************************************)
EmptyContext == [trigger |-> Absent, input |-> Absent, frame |-> Absent,
                 history |-> <<>>]

\* ClearInvocationInputState
WithoutInput(c) == [c EXCEPT !.trigger = Absent, !.input = Absent]

\* What the session has not: an entry of the queue.
Delta(c) ==
  [trigger |-> c.trigger,
   local |-> [k \in {"input", "frame", "history"} |->
                IF c[k] = session[k] THEN Absent ELSE c[k]]]

Overlay(e) ==
  [k \in DOMAIN session |->
     IF k = "trigger" THEN e.trigger
     ELSE IF e.local[k] = Absent THEN session[k] ELSE e.local[k]]

Lines(c, id) ==
  (IF c.input = Absent THEN <<>> ELSE << <<"user", c.input>> >>)
    \o << <<"assistant", id>> >>

\* AppendConversationHistory
UntrimmedHistory(c, id) == [c EXCEPT !.history = @ \o Lines(c, id)]
AppendHistory(c, id) ==
  LET h == c.history \o Lines(c, id)
  IN [c EXCEPT !.history = SubSeq(h, 1 + IF Len(h) > MaxHistory THEN Len(h) - MaxHistory
                                                                ELSE 0, Len(h))]

OutputNodes == {n \in graph.nodes : graph.kind[n] = "output"}

\* The execution view of a node that ended with `writes'.
View(writes, reply) ==
  IF reply /\ writes \cap OutputNodes # {} THEN AppendHistory(turn, invocationId)
                                           ELSE turn

-----------------------------------------------------------------------------
(* Shared pieces *)

\* HasRequests, or an invocation is active or waits
Busy == isActive \/ pending # {} \/ direct # {} \/ queue # <<>>

NoKick(n) == kicks' = kicks
Kick(n) == kicks' = kicks + IF queue = <<>> THEN 0 ELSE n

Report(n) ==
  reports' = IF isActive THEN [reports EXCEPT ![invocationId] = @ + n] ELSE reports

(***************************************************************************)
(* ResetAsyncExecutionState, without the executor: forget every pending    *)
(* request, abort those of the text and vision clients (the others still   *)
(* call back later) and post a start of the next queued invocation.  The   *)
(* requests in flight and the streams are those given; n counts the calls. *)
(***************************************************************************)
Aborted == {p.key : p \in {p \in pending : p.key.client \in {"text", "vision"}}}

ResetAsyncExecutionState(sent, streamed, n) ==
  /\ pending' = {}
  /\ inflight' = sent \ Aborted
  /\ streaming' = {id \in streamed : [client |-> "text", id |-> id] \notin Aborted}
  /\ ctx' = session
  /\ turn' = EmptyContext
  /\ replied' = FALSE
  /\ Kick(n)
  /\ UNCHANGED session

\* BeginInvocation with context c, then the pump under handler h.
StartInvocation(c, h) ==
  /\ handler' = h
  /\ ctx' = c
  /\ turn' = c
  /\ replied' = FALSE
  /\ started' = IF c.input = Absent THEN started ELSE Append(started, c.input)
  /\ UNCHANGED <<session, requestVars, reloadVars, reports>>
  /\ Exec!BeginInvocation(c.trigger)

\* BeginInvocation finds no source for the trigger.
RefusedBegin(c) ==
  /\ UNCHANGED <<session, turn, replied, requestVars, reloadVars, started, reports>>
  /\ Exec!RefuseInvocation(c.trigger)

\* TryApplyPendingDagReload once the executor is idle.
ApplyPendingDagReload ==
  /\ pendingGraph # Absent
  /\ pendingGraph' = Absent
  /\ UNCHANGED <<latestGraph, requestVars>>
  /\ Exec!ReplaceGraphIfIdle(pendingGraph)

\* A handler that ends with TryApplyPendingDagReload.
Closing == IF pendingGraph = Absent THEN "none" ELSE "closing"

Init ==
  /\ session = EmptyContext
  /\ ctx = EmptyContext
  /\ turn = EmptyContext
  /\ replied = FALSE
  /\ queue = <<>>
  /\ lastFrame = Absent
  /\ pendingGraph = Absent
  /\ pending = {}
  /\ direct = {}
  /\ streaming = {}
  /\ cancelled = {}
  /\ nextRequestId = [c \in {"text", "vision", "web", "tool"} |-> 0]
  /\ inflight = {}
  /\ timers = {}
  /\ kicks = 0
  /\ handler = "none"
  /\ inputs = 0 /\ frames = 0 /\ reloads = 0
  /\ started = <<>>
  /\ refused = {}
  /\ reports = [i \in 1..MaxInvocations |-> 0]
  /\ Exec!Init
  /\ isLoaded = (graph # Exec!EmptyGraph)
  /\ latestGraph = graph

-----------------------------------------------------------------------------
(* The user *)

(***************************************************************************)
(* CancelActiveStreaming, called by a click on the pet and before every    *)
(* submission.  CancelRequest aborts the reply and so runs OnLlmChatFailed *)
(* before CancelUserRequest notes the id as cancelled.                     *)
(***************************************************************************)
StreamedRequests == {[client |-> "text", id |-> id] : id \in streaming}
StreamedPending == {p \in pending : p.key \in StreamedRequests}

CancelActiveStreaming(h) ==
  /\ handler = "none"
  /\ StreamedPending # {}
  /\ handler' = h
  /\ cancelled' = cancelled \cup streaming
  /\ ResetAsyncExecutionState(inflight \ StreamedRequests, {}, 1)
  /\ Report(1)
  /\ Exec!AbandonInvocation
  /\ UNCHANGED <<nextRequestId, timers, reloadVars, started, refused, budget, isLoaded,
                 lastFrame, direct, queue>>

\* No invocation waits for a stream; a reply nobody waits for is aborted.
CancelOrphanStreaming(h) ==
  /\ handler = "none"
  /\ StreamedPending = {}
  /\ handler' = h
  /\ cancelled' = cancelled \cup streaming
  /\ inflight' = inflight \ StreamedRequests
  /\ streaming' = {}
  /\ UNCHANGED <<executorVars, contextVars, pending, nextRequestId, timers, reloadVars,
                 observed, budget, isLoaded, lastFrame, direct, queue, kicks>>

MousePress == CancelActiveStreaming("none") \/ (streaming # {} /\ CancelOrphanStreaming("none"))

\* SubmitTextToAgent
SubmitTextToAgent ==
  /\ inputs < MaxInputs
  /\ CancelActiveStreaming("submitting") \/ CancelOrphanStreaming("submitting")

NewInput == inputs + 1
InputContext == [session EXCEPT !.trigger = "user", !.input = NewInput]

Submitting ==
  /\ handler = "submitting"
  /\ inputs' = NewInput
  /\ UNCHANGED <<frames, reloads, isLoaded, lastFrame, cancelled, kicks>>

\* ExecuteWithUserInput
SubmitQueued ==
  /\ Submitting
  /\ isLoaded /\ Busy
  /\ Queue!Accepts(queue, Delta(InputContext))
  /\ queue' = Queue!AfterEnqueue(queue, Delta(InputContext))
  /\ ctx' = session
  /\ handler' = "none"
  /\ UNCHANGED <<executorVars, session, turn, replied, requestVars, reloadVars,
                 observed, direct>>

SubmitRejected ==
  /\ Submitting
  /\ isLoaded /\ Busy
  /\ ~Queue!Accepts(queue, Delta(InputContext))
  /\ ctx' = InputContext
  /\ refused' = refused \cup {NewInput}
  /\ handler' = "none"
  /\ UNCHANGED <<executorVars, session, turn, replied, requestVars, reloadVars,
                 started, reports, direct, queue>>

SubmitStarts ==
  /\ Submitting
  /\ isLoaded /\ ~Busy
  /\ StartInvocation(InputContext, "submit")
  /\ UNCHANGED <<refused, direct, queue>>

SubmitRefused ==
  /\ Submitting
  /\ isLoaded /\ ~Busy
  /\ ctx' = WithoutInput(InputContext)
  /\ refused' = refused \cup {NewInput}
  /\ handler' = "none"
  /\ UNCHANGED <<direct, queue>>
  /\ RefusedBegin(InputContext)

\* Without a DAG the prompt goes straight to the text client.
SubmitDirect ==
  LET id == nextRequestId.text + 1
  IN /\ Submitting
     /\ ~isLoaded
     /\ nextRequestId' = [nextRequestId EXCEPT !.text = id]
     /\ direct' = direct \cup {id}
     /\ inflight' = inflight \cup {[client |-> "text", id |-> id]}
     /\ ctx' = InputContext
     /\ handler' = "none"
     /\ UNCHANGED <<executorVars, session, turn, replied, pending, streaming, timers,
                    reloadVars, observed, queue>>

SubmitDirectFails ==
  /\ Submitting
  /\ ~isLoaded
  /\ ctx' = WithoutInput(InputContext)
  /\ refused' = refused \cup {NewInput}
  /\ handler' = "none"
  /\ UNCHANGED <<executorVars, session, turn, replied, requestVars, reloadVars,
                 started, reports, direct, queue>>

-----------------------------------------------------------------------------
(* Perception: UpdatePerceptionFrame and then Execute *)

FrameContext(f) ==
  [session EXCEPT !.trigger = "vision", !.frame = f]

IsUnchanged(f) == lastFrame = f \/ ctx.frame = f

FrameArrives(f) ==
  /\ handler = "none"
  /\ frames < MaxFrames
  /\ frames' = frames + 1
  /\ UNCHANGED <<inputs, reloads, isLoaded, direct, cancelled, kicks, refused>>

FrameQueued(f) ==
  /\ FrameArrives(f)
  /\ ~IsUnchanged(f) /\ Busy
  /\ Queue!Accepts(queue, Delta(FrameContext(f)))
  /\ queue' = Queue!AfterEnqueue(queue, Delta(FrameContext(f)))
  /\ lastFrame' = f
  /\ UNCHANGED <<executorVars, contextVars, requestVars, reloadVars, started, reports,
                 handler>>

\* The frame is dropped: no room, no DAG, or an unchanged frame while m_context holds
\* no trigger.
FrameIgnored(f) ==
  /\ FrameArrives(f)
  /\ \/ ~IsUnchanged(f) /\ Busy /\ ~Queue!Accepts(queue, Delta(FrameContext(f)))
     \/ IsUnchanged(f) /\ ~isLoaded
     \/ IsUnchanged(f) /\ Busy /\ ctx.trigger = Absent
     \/ IsUnchanged(f) /\ Busy /\ ctx.trigger # Absent /\ ~Queue!Accepts(queue, Delta(ctx))
  /\ UNCHANGED <<executorVars, contextVars, requestVars, reloadVars, started, reports,
                 handler, queue, lastFrame>>

\* An unchanged frame is skipped, but Execute still runs: it queues whatever
\* m_context holds.
UnchangedFrameQueuesContext(f) ==
  /\ FrameArrives(f)
  /\ IsUnchanged(f) /\ isLoaded /\ Busy
  /\ ctx.trigger # Absent
  /\ Queue!Accepts(queue, Delta(ctx))
  /\ queue' = Queue!AfterEnqueue(queue, Delta(ctx))
  /\ ctx' = session
  /\ UNCHANGED <<executorVars, session, turn, replied, requestVars, reloadVars,
                 started, reports, handler, lastFrame>>

\* The context Execute begins with when nothing is busy.
IdleContext(f) ==
  IF ~IsUnchanged(f) THEN FrameContext(f)
  ELSE IF ctx.trigger = Absent THEN session ELSE ctx

FrameStarts(f) ==
  /\ FrameArrives(f)
  /\ isLoaded /\ ~Busy
  /\ lastFrame' = IF IsUnchanged(f) THEN lastFrame ELSE f
  /\ StartInvocation(IdleContext(f), "frame")
  /\ UNCHANGED queue

FrameRefused(f) ==
  /\ FrameArrives(f)
  /\ isLoaded /\ ~Busy
  /\ lastFrame' = IF IsUnchanged(f) THEN lastFrame ELSE f
  /\ ctx' = IdleContext(f)
  /\ UNCHANGED <<handler, queue>>
  /\ RefusedBegin(IdleContext(f))

FrameWithoutDag(f) ==
  /\ FrameArrives(f)
  /\ ~isLoaded /\ ~Busy /\ ~IsUnchanged(f)
  /\ lastFrame' = f
  /\ ctx' = FrameContext(f)
  /\ UNCHANGED <<executorVars, session, turn, replied, requestVars, reloadVars,
                 started, reports, handler, queue>>

-----------------------------------------------------------------------------
(* StartNextQueuedInvocation, posted with a zero timer *)

KickRunsAtOnce ==
  /\ kicks > 0
  /\ kicks' = kicks - 1
  /\ handler' = "starting"
  /\ UNCHANGED <<contextVars, requestVars, latestGraph, observed, budget, rest>>
KickPosted ==
  /\ handler = "none"
  /\ kicks > 0
  /\ kicks' = kicks - 1
  /\ handler' = "starting"
  /\ UNCHANGED <<contextVars, requestVars, latestGraph, observed, budget, rest>>

KickAppliesReload ==
  /\ KickPosted
  /\ ApplyPendingDagReload

KickKeepsGraph ==
  /\ KickPosted
  /\ pendingGraph = Absent \/ isActive \/ pending # {}
  /\ UNCHANGED <<executorVars, pendingGraph>>

StartsNothing ==
  /\ handler = "starting"
  /\ isActive \/ queue = <<>>
  /\ handler' = "none"
  /\ UNCHANGED <<executorVars, contextVars, requestVars, reloadVars, observed, budget,
                 rest, kicks>>

Dequeuing ==
  /\ handler = "starting"
  /\ ~isActive /\ queue # <<>>
  /\ queue' = Tail(queue)
  /\ UNCHANGED <<budget, isLoaded, lastFrame, direct, cancelled, kicks>>

StartsNext ==
  /\ Dequeuing
  /\ StartInvocation(Overlay(Head(queue)), "dequeue")
  /\ UNCHANGED refused

\* The entry is gone and only a log line says so; nothing starts the entry after it.
NextRefused ==
  /\ Dequeuing
  /\ LET next == Overlay(Head(queue))
     IN /\ refused' = refused \cup (IF next.input = Absent THEN {} ELSE {next.input})
        /\ ctx' = session
        /\ handler' = "none"
        /\ RefusedBegin(next)

-----------------------------------------------------------------------------
(* The pump: one node of the invocation per step *)

\* What a node step leaves alone.
NodeStep == UNCHANGED <<session, turn, reloadVars, observed, budget, rest, kicks>>

Writes(n) == Exec!SaveNodeResult(n)[n]

\* A node that finishes at once; the clients' nodes do when their input is missing.
RunNode(n) ==
  /\ pumping
  /\ n \in readyQueue
  /\ \/ graph.kind[n] = "plain"
     \/ graph.kind[n] \in {"text", "stream"} /\ turn.trigger # "user"
     \/ graph.kind[n] = "vision"
  /\ ctx' = View(Writes(n), replied)
  /\ NodeStep /\ UNCHANGED <<replied, requestVars, handler>>
  /\ Exec!ExecuteReadyNode(n)

\* output.format: with a response it is the reply, without one it stays silent.
RunOutput(n) ==
  /\ pumping
  /\ n \in readyQueue
  /\ graph.kind[n] = "output"
  /\ replied' \in BOOLEAN
  /\ ctx' = View(Writes(n), replied')
  /\ NodeStep /\ UNCHANGED <<requestVars, handler>>
  /\ Exec!ExecuteReadyNode(n)

ClientOf(n) == IF graph.kind[n] = "stream" THEN "text" ELSE graph.kind[n]
NewRequest(n) == [client |-> ClientOf(n), id |-> nextRequestId[ClientOf(n)] + 1]

\* The request leaves before it is registered.
SendRequest(n) ==
  /\ graph.kind[n] \notin {"plain", "output"}
  /\ nextRequestId' = [nextRequestId EXCEPT ![ClientOf(n)] = NewRequest(n).id]
  /\ ctx' = View(Writes(n), replied)

Sent(n) == inflight \cup {NewRequest(n)}
Streamed(n) ==
  IF graph.kind[n] = "stream" THEN streaming \cup {NewRequest(n).id} ELSE streaming

\* RegisterPendingNode
RegisterWithoutTimer(n) ==
  /\ pending' = pending \cup {[key |-> NewRequest(n), inv |-> invocationId, node |-> n]}
  /\ UNCHANGED timers
RegisterPendingNode(n) ==
  /\ pending' = pending \cup {[key |-> NewRequest(n), inv |-> invocationId, node |-> n]}
  /\ timers' = timers \cup {[key |-> NewRequest(n), inv |-> invocationId]}

RunPending(n) ==
  /\ pumping
  /\ n \in readyQueue
  /\ n \notin graph.badTimeout
  /\ SendRequest(n)
  /\ inflight' = Sent(n)
  /\ streaming' = Streamed(n)
  /\ RegisterPendingNode(n)
  /\ NodeStep /\ UNCHANGED <<replied, handler>>
  /\ Exec!ExecutePendingNode(n)

(***************************************************************************)
(* FailInvocation, then what the handler on the stack does about it: a     *)
(* submission shows the failure bubble; a callback resets once more,       *)
(* reports (web.research does not) and tries the pending reload.           *)
(***************************************************************************)
ResetsOnFailure == IF handler \in {"resume", "resumeQuietly"} THEN 2 ELSE 1

ReportEveryReset ==
  /\ Report(ResetsOnFailure)
  /\ handler' = IF handler \in {"resume", "resumeQuietly"} THEN Closing ELSE "none"
HandleFailedPump ==
  /\ Report(IF handler \in {"submit", "resume"} THEN 1 ELSE 0)
  /\ handler' = IF handler \in {"resume", "resumeQuietly"} THEN Closing ELSE "none"

FailPump ==
  /\ pumping
  /\ ResetAsyncExecutionState(inflight, streaming, ResetsOnFailure)
  /\ HandleFailedPump
  /\ UNCHANGED <<nextRequestId, timers, reloadVars, started, refused, budget, rest>>
  /\ Exec!FailPump

\* The timeout of a node is out of range: its request has left and no callback will
\* find it.
RegistrationFails(n) ==
  /\ pumping
  /\ Exec!IsFirstReady(n)
  /\ graph.kind[n] \notin {"plain", "output"}
  /\ n \in graph.badTimeout
  /\ nextRequestId' = [nextRequestId EXCEPT ![ClientOf(n)] = NewRequest(n).id]
  /\ ResetAsyncExecutionState(Sent(n), Streamed(n), ResetsOnFailure)
  /\ HandleFailedPump
  /\ UNCHANGED <<timers, reloadVars, started, refused, budget, rest>>
  /\ Exec!FailPump

SuspendPump ==
  /\ pumping
  /\ handler' = "none"
  /\ UNCHANGED <<contextVars, requestVars, reloadVars, observed, budget, rest, kicks>>
  /\ Exec!SuspendPump

(***************************************************************************)
(* CommitInvocationResult and invocationCompleted: the history and the     *)
(* frame of the terminal node become the session's, the reply is shown,    *)
(* and the next invocation is posted or the pending reload tried.          *)
(***************************************************************************)
CompleteInvocation ==
  /\ pumping
  /\ readyQueue = {} /\ waiting = {} /\ Exec!CanCommit
  /\ LET terminal == CHOOSE n \in Exec!TerminalNodes : TRUE
         result == View(nodeResults[terminal], replied)
     IN session' = WithoutInput(result)
  /\ ctx' = session'
  /\ turn' = EmptyContext
  /\ replied' = FALSE
  /\ Report(IF replied THEN 1 ELSE 0)
  /\ Kick(1)
  /\ handler' = IF handler \in {"resume", "resumeQuietly"} \/ queue = <<>>
                  THEN Closing ELSE "none"
  /\ UNCHANGED <<requestVars, reloadVars, started, refused, budget, rest>>
  /\ Exec!CompleteInvocation

\* TryApplyPendingDagReload at the end of a handler.
CloseInvocation ==
  /\ handler = "closing"
  /\ handler' = "none"
  /\ UNCHANGED <<contextVars, observed, budget, rest, kicks>>
  /\ ApplyPendingDagReload

-----------------------------------------------------------------------------
(* Callbacks of the clients *)

NotStreaming(k) == IF k.client = "text" THEN streaming \ {k.id} ELSE streaming

\* Nobody waits for the answer: the invocation ended before it came.
LateAnswer(k) ==
  /\ handler = "none"
  /\ k \in inflight
  /\ \A p \in pending : p.key # k
  /\ k.client = "text" => k.id \notin direct
  /\ inflight' = inflight \ {k}
  /\ streaming' = NotStreaming(k)
  /\ UNCHANGED <<executorVars, contextVars, pending, nextRequestId, timers, reloadVars,
                 observed, budget, rest, kicks, handler>>

\* The answer or the failure of a prompt sent without a DAG.
DirectAnswer(k) ==
  /\ handler = "none"
  /\ k \in inflight
  /\ k.client = "text" /\ k.id \in direct
  /\ direct' = direct \ {k.id}
  /\ inflight' = inflight \ {k}
  /\ ctx' \in {ctx, WithoutInput(ctx)}
  /\ UNCHANGED <<executorVars, session, turn, replied, pending, streaming,
                 nextRequestId, timers, reloadVars, observed, budget, isLoaded,
                 lastFrame, cancelled, queue, kicks, handler>>

Answered(p) ==
  /\ handler = "none"
  /\ p.key \in inflight
  /\ UNCHANGED <<started, refused, budget, rest, reloadVars>>

\* ResumePendingNode: a completed web.research does not report a later failure.
ResumeHandlers(p) == IF p.key.client = "web" THEN {"resume", "resumeQuietly"} ELSE {"resume"}

ResumePendingNode(p) ==
  /\ Answered(p)
  /\ pending' = pending \ {p}
  /\ inflight' = inflight \ {p.key}
  /\ streaming' = NotStreaming(p.key)
  /\ handler' \in ResumeHandlers(p)
  /\ ctx' = View(Writes(p.node), replied)
  /\ UNCHANGED <<session, turn, replied, nextRequestId, timers, reports, kicks>>
  /\ Exec!ResumePendingNode(p.node)

\* A failed or empty answer, one its node cannot use, or a join that fails.
AnswerFails(p) ==
  /\ Answered(p)
  /\ ResetAsyncExecutionState(inflight \ {p.key}, NotStreaming(p.key), 1)
  /\ \/ Report(1)
     \/ p.key.client = "web" /\ Report(0)
  /\ UNCHANGED <<nextRequestId, timers, handler>>
  /\ Exec!AbandonInvocation

\* HandlePendingRequestTimeout
IsCurrent(t) ==
  isActive /\ invocationId = t.inv /\ \E p \in pending : p.key = t.key

TimeoutIgnored(t) ==
  /\ handler = "none"
  /\ t \in timers
  /\ ~IsCurrent(t)
  /\ timers' = timers \ {t}
  /\ UNCHANGED <<executorVars, contextVars, pending, inflight, streaming, nextRequestId,
                 reloadVars, observed, budget, rest, kicks, handler>>

HandlePendingRequestTimeout(t) ==
  /\ handler = "none"
  /\ t \in timers
  /\ IsCurrent(t)
  /\ timers' = timers \ {t}
  /\ ResetAsyncExecutionState(inflight, streaming, 1)
  /\ Report(1)
  /\ handler' = Closing
  /\ UNCHANGED <<nextRequestId, reloadVars, started, refused, budget, rest>>
  /\ Exec!AbandonInvocation

-----------------------------------------------------------------------------
(* RequestDagReload: the editor saved a DAG, or its file changed *)

ReloadRequested(g) ==
  /\ handler = "none"
  /\ isLoaded
  /\ reloads < MaxReloads
  /\ reloads' = reloads + 1
  /\ latestGraph' = g
  /\ UNCHANGED <<contextVars, requestVars, observed, inputs, frames, rest, kicks,
                 handler>>

ReloadApplied(g) ==
  /\ ReloadRequested(g)
  /\ direct = {}
  /\ UNCHANGED pendingGraph
  /\ Exec!ReplaceGraphIfIdle(g)

ReloadDeferred(g) ==
  /\ ReloadRequested(g)
  /\ isActive \/ pending # {} \/ direct # {}
  /\ pendingGraph' = g
  /\ UNCHANGED executorVars

-----------------------------------------------------------------------------
(* The specification *)

User == MousePress \/ SubmitTextToAgent
Perception(f) ==
  \/ FrameQueued(f) \/ FrameIgnored(f) \/ UnchangedFrameQueuesContext(f)
  \/ FrameStarts(f) \/ FrameRefused(f) \/ FrameWithoutDag(f)
Reload(g) == ReloadApplied(g) \/ ReloadDeferred(g)
Callback ==
  \/ \E k \in inflight : LateAnswer(k) \/ DirectAnswer(k)
  \/ \E p \in pending : ResumePendingNode(p) \/ AnswerFails(p)
TimerFires == \E t \in timers : TimeoutIgnored(t) \/ HandlePendingRequestTimeout(t)
KickRuns == KickAppliesReload \/ KickKeepsGraph

Submission ==
  \/ SubmitQueued \/ SubmitRejected \/ SubmitStarts \/ SubmitRefused
  \/ SubmitDirect \/ SubmitDirectFails
Start == StartsNothing \/ StartsNext \/ NextRefused
Pump ==
  \/ \E n \in Node : RunNode(n) \/ RunOutput(n) \/ RunPending(n) \/ RegistrationFails(n)
  \/ FailPump \/ SuspendPump \/ CompleteInvocation
\* The handler on the stack goes on.
HandlerStep == Submission \/ Start \/ Pump \/ CloseInvocation

Next ==
  \/ User
  \/ \E f \in Frame : Perception(f)
  \/ \E g \in Graph : Reload(g)
  \/ Callback \/ TimerFires \/ KickRuns
  \/ HandlerStep

Spec == Init /\ [][Next]_vars

(***************************************************************************)
(* A handler returns to the event loop, and the loop serves a posted call  *)
(* and an expired timer in the end.  Clients owe nothing: an answer may    *)
(* never come.                                                             *)
(***************************************************************************)
FairSpec ==
  Spec /\ WF_vars(HandlerStep) /\ WF_vars(KickRuns) /\ WF_vars(TimerFires)

-----------------------------------------------------------------------------
(* Properties *)

Context == [trigger : Trigger \cup {Absent}, input : 1..MaxInputs \cup {Absent},
            frame : Frame \cup {Absent}, history : Seq({"user", "assistant"} \X Nat)]

Key == [client : {"text", "vision", "web", "tool"}, id : Nat]

\* Type invariant.
TypeOK ==
  /\ Exec!TypeOK
  /\ isLoaded \in BOOLEAN /\ replied \in BOOLEAN
  /\ {session, ctx, turn} \subseteq Context
  /\ lastFrame \in Frame \cup {Absent}
  /\ pendingGraph \in Graph \cup {Absent}
  /\ pending \subseteq [key : Key, inv : Nat, node : Node]
  /\ timers \subseteq [key : Key, inv : Nat]
  /\ inflight \subseteq Key
  /\ direct \cup streaming \cup cancelled \subseteq Nat
  /\ kicks \in Nat
  /\ handler \in PumpHandlers \cup {"none", "submitting", "starting", "closing"}

\* Every waiting node belongs to the invocation in progress and is the only one to
\* wait for its request; the client still owes the callback and a timer is armed, so
\* that ResumePendingNode never finds a request of an old invocation.
PendingIsAnswerable ==
  /\ \A p \in pending :
       /\ isActive /\ p.inv = invocationId
       /\ p.key \in inflight
       /\ [key |-> p.key, inv |-> p.inv] \in timers
  /\ \A p, q \in pending : (p.key = q.key \/ p.node = q.node) => p = q

\* An id leaves m_streamingLlmRequests no later than its reply leaves the client.
StreamsAreOwed == StreamedRequests \subseteq inflight

\* Together: what waits is answered once, within its invocation, and what does not wait is
\* not mistaken for it.
RequestsAreCurrent == PendingIsAnswerable /\ StreamsAreOwed

\* The runtime drives the executor as AgentGraphExecutor says: nodes resume and fail
\* only for requests of the invocation in progress, the graph changes only when idle,
\* and no handler leaves the executor half way.
ImplementsExecutor == Exec!Spec

\* The inputs that wait; an entry without one is a frame.
InputOf(e) == e.local["input"]
QueuedInputs == {InputOf(queue[i]) : i \in 1..Len(queue)} \ {Absent}

\* With a DAG loaded no input vanishes: it has started, waits, or was turned down.
NoInputLost ==
  isLoaded => 1..inputs \subseteq ToSet(started) \cup QueuedInputs \cup refused

\* Inputs start, and wait to start, in the order in which the user submitted them: a
\* later one comes first only if the earlier one has started before and waits once more.
ServedInOrder ==
  LET line == started \o [i \in 1..Len(queue) |-> InputOf(queue[i])]
  IN \A i, j \in 1..Len(line) :
       (i < j /\ Absent \notin {line[i], line[j]} /\ line[i] > line[j])
         => \E k \in 1..(i - 1) : line[k] = line[j]

\* Whatever goes wrong on the way, an invocation shows at most one answer or failure.
AtMostOneReport == \A i \in 1..MaxInvocations : reports[i] <= 1

\* The session's history is a conversation: every user line is followed by its answer,
\* and the answers are in the order of their invocations.
HistoryIsConversation ==
  LET h == session.history
  IN /\ Len(h) <= MaxHistory
     /\ \A i \in 1..Len(h) : h[i][1] = "user" => i < Len(h) /\ h[i + 1][1] = "assistant"
     /\ \A i, j \in 1..Len(h) :
          (i < j /\ h[i][1] = "assistant" /\ h[j][1] = "assistant") => h[i][2] < h[j][2]

\* The variables keep their types, and the session is such a conversation.
SessionInv == TypeOK /\ HistoryIsConversation

\* P5.2 of AGENT_CONTEXT_KEY_PROTOCOL.md: when an invocation has ended, however it did,
\* the next queued one starts.
QueueIsServed ==
  (isLoaded /\ queue # <<>> /\ handler = "none") => isActive \/ kicks > 0

\* agent_runtime.h, RequestDagReload: a DAG that was accepted while busy is in use once
\* the invocation has ended and nothing is about to start.
DeferredReloadIsApplied ==
  (handler = "none" /\ ~isActive /\ kicks = 0) => graph = latestGraph

\* agent_runtime.h, m_cancelledUserRequests: a cancellation by the user is not reported
\* as a failure.
CancelIsNotAFailure == [][cancelled' # cancelled => reports' = reports]_vars

\* An invocation ends even if no client ever answers.
InvocationEnds == isActive ~> ~isActive

\* A queued input gets its turn.
QueuedInputGetsItsTurn ==
  \A i \in 1..MaxInputs :
    (i \in QueuedInputs) ~> (i \in ToSet(started) \cup refused)

\* Together: whichever client never answers and whatever fails, one turn gives way to the
\* next.
TurnsGoOn == InvocationEnds /\ QueuedInputGetsItsTurn
=============================================================================
