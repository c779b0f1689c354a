------------------------ MODULE AgentRuntime_proofs ------------------------
(***************************************************************************)
(* Proofs about the runtime, for every set of snapshots and every bound:   *)
(* it drives the executor as AgentGraphExecutor says, so that the theorems *)
(* about the executor hold of the runtime, and its queue keeps the queue's *)
(* promise; a waiting node can always be answered; an invocation is        *)
(* reported at most once; the history stays a conversation; and inputs are *)
(* neither lost nor served out of order.                                   *)
(***************************************************************************)
EXTENDS AgentRuntime, FiniteSetTheorems, SequenceTheorems, TLAPS

\* The executor with the theorems about it.  Its definitions are those of Exec.
ExecProofs == INSTANCE AgentGraphExecutor_proofs WITH NoTrigger <- Absent

-----------------------------------------------------------------------------
(* The two instances of the executor are the same *)

\* The library operators that the instances bring along.
LEMMA SameLibrary ==
  /\ ExecProofs!IsFiniteSet(Node) <=> IsFiniteSet(Node)
  /\ \A S : ExecProofs!Cardinality(S) = Exec!Cardinality(S)
<1>1. ExecProofs!IsFiniteSet(Node) <=> IsFiniteSet(Node)
  BY DEF IsFiniteSet, ExecProofs!IsFiniteSet
<1>2. ASSUME NEW S PROVE ExecProofs!Cardinality(S) = Exec!Cardinality(S)
  BY DEF Exec!Cardinality, ExecProofs!Cardinality
<1> QED BY <1>1, <1>2

\* The runtime loads only snapshots the executor takes.
LEMMA ExecutorAssumptionHolds == ExecProofs!ExecutorAssumption
BY RuntimeAssumption, SameLibrary
   DEF Exec!IsSnapshot, Exec!Acyclic, ExecProofs!IsSnapshot, ExecProofs!Acyclic

LEMMA SameInit == Exec!Init => ExecProofs!Init
BY DEF Exec!Init, ExecProofs!Init, Exec!EmptyGraph, ExecProofs!EmptyGraph,
       Exec!NoWrites, ExecProofs!NoWrites

LEMMA SameVars == UNCHANGED Exec!vars => UNCHANGED ExecProofs!vars
BY DEF Exec!vars, ExecProofs!vars, Exec!invocationState, ExecProofs!invocationState

LEMMA SameNext == Exec!Next => ExecProofs!Next
<1> SUFFICES ASSUME Exec!Next PROVE ExecProofs!Next
  OBVIOUS
<1>1. ASSUME NEW t \in Trigger \cup {Absent}, Exec!BeginInvocation(t)
      PROVE  ExecProofs!BeginInvocation(t)
  <2>1. \A g, active : ExecProofs!ActiveInDegree(g, active) = Exec!ActiveInDegree(g, active)
    BY SameLibrary DEF Exec!ActiveInDegree, ExecProofs!ActiveInDegree,
                       Exec!Predecessors, ExecProofs!Predecessors
  <2>2. \A g : ExecProofs!SelectSourceNodes(g, t) = Exec!SelectSourceNodes(g, t)
    BY DEF Exec!SelectSourceNodes, ExecProofs!SelectSourceNodes, Exec!SourceNodes,
           ExecProofs!SourceNodes, Exec!Predecessors, ExecProofs!Predecessors
  <2>3. \A g, sources : ExecProofs!ActiveSubgraph(g, sources) = Exec!ActiveSubgraph(g, sources)
    BY DEF Exec!ActiveSubgraph, ExecProofs!ActiveSubgraph, Exec!Successors,
           ExecProofs!Successors
  <2>4. Exec!CanBegin <=> ExecProofs!CanBegin
    BY DEF Exec!CanBegin, ExecProofs!CanBegin, Exec!IsIdle, ExecProofs!IsIdle,
           Exec!SourceNodes, ExecProofs!SourceNodes, Exec!Predecessors,
           ExecProofs!Predecessors
  <2> QED
    BY <1>1, <2>1, <2>2, <2>3, <2>4
       DEF Exec!BeginInvocation, ExecProofs!BeginInvocation, Exec!NewInvocationId,
           ExecProofs!NewInvocationId, Exec!NoWrites, ExecProofs!NoWrites
<1>2. ASSUME NEW t \in Trigger \cup {Absent}, Exec!RefuseInvocation(t)
      PROVE  ExecProofs!RefuseInvocation(t)
  BY <1>2 DEF Exec!RefuseInvocation, ExecProofs!RefuseInvocation, Exec!CanBegin,
              ExecProofs!CanBegin, Exec!IsIdle, ExecProofs!IsIdle, Exec!SourceNodes,
              ExecProofs!SourceNodes, Exec!Predecessors, ExecProofs!Predecessors,
              Exec!SelectSourceNodes, ExecProofs!SelectSourceNodes,
              Exec!NewInvocationId, ExecProofs!NewInvocationId,
              Exec!ClearInvocationState, ExecProofs!ClearInvocationState,
              Exec!NoWrites, ExecProofs!NoWrites
<1>3. \A n : (Exec!IsFirstReady(n) <=> ExecProofs!IsFirstReady(n))
  BY DEF Exec!IsFirstReady, ExecProofs!IsFirstReady
<1>4. ASSUME NEW n, NEW ready, Exec!CompleteNode(n, ready)
      PROVE  ExecProofs!CompleteNode(n, ready)
  BY <1>4 DEF Exec!CompleteNode, ExecProofs!CompleteNode, Exec!SaveNodeResult,
              ExecProofs!SaveNodeResult, Exec!NewlyReady, ExecProofs!NewlyReady,
              Exec!Successors, ExecProofs!Successors, Exec!InheritedWrites,
              ExecProofs!InheritedWrites, Exec!ActivePredecessors,
              ExecProofs!ActivePredecessors, Exec!Predecessors, ExecProofs!Predecessors
<1>5. ASSUME NEW n \in Node, Exec!ExecuteReadyNode(n)
      PROVE  ExecProofs!ExecuteReadyNode(n)
  BY <1>3, <1>4, <1>5 DEF Exec!ExecuteReadyNode, ExecProofs!ExecuteReadyNode
<1>6. ASSUME NEW n \in Node, Exec!ExecutePendingNode(n)
      PROVE  ExecProofs!ExecutePendingNode(n)
  BY <1>3, <1>6 DEF Exec!ExecutePendingNode, ExecProofs!ExecutePendingNode,
                    Exec!SaveNodeResult, ExecProofs!SaveNodeResult
<1>7. ASSUME NEW n \in Node, Exec!ResumePendingNode(n)
      PROVE  ExecProofs!ResumePendingNode(n)
  BY <1>4, <1>7 DEF Exec!ResumePendingNode, ExecProofs!ResumePendingNode
<1>8. Exec!ClearInvocationState => ExecProofs!ClearInvocationState
  BY DEF Exec!ClearInvocationState, ExecProofs!ClearInvocationState, Exec!NoWrites,
         ExecProofs!NoWrites
<1>9. /\ Exec!FailPump => ExecProofs!FailPump
      /\ Exec!AbandonInvocation => ExecProofs!AbandonInvocation
  BY <1>8 DEF Exec!FailPump, ExecProofs!FailPump, Exec!AbandonInvocation,
              ExecProofs!AbandonInvocation
<1>10. Exec!SuspendPump => ExecProofs!SuspendPump
  BY DEF Exec!SuspendPump, ExecProofs!SuspendPump, Exec!invocationState,
         ExecProofs!invocationState
<1>11. Exec!CompleteInvocation => ExecProofs!CompleteInvocation
  <2>1. Exec!TerminalNodes = ExecProofs!TerminalNodes
    BY DEF Exec!TerminalNodes, ExecProofs!TerminalNodes, Exec!Successors,
           ExecProofs!Successors
  <2>2. Exec!CanCommit <=> ExecProofs!CanCommit
    BY <2>1, SameLibrary DEF Exec!CanCommit, ExecProofs!CanCommit,
                             Exec!AllNodesCompleted, ExecProofs!AllNodesCompleted
  <2> QED BY <1>8, <2>2 DEF Exec!CompleteInvocation, ExecProofs!CompleteInvocation
<1>12. ASSUME NEW g \in Graph, Exec!ReplaceGraphIfIdle(g)
       PROVE  ExecProofs!ReplaceGraphIfIdle(g)
  BY <1>12 DEF Exec!ReplaceGraphIfIdle, ExecProofs!ReplaceGraphIfIdle, Exec!IsIdle,
               ExecProofs!IsIdle, Exec!invocationState, ExecProofs!invocationState
<1> QED
  BY <1>1, <1>2, <1>5, <1>6, <1>7, <1>9, <1>10, <1>11, <1>12
     DEF Exec!Next, ExecProofs!Next

-----------------------------------------------------------------------------
(* The runtime takes the executor's steps and no others *)

\* A trigger outside Trigger selects the same sources as no trigger.
LEMMA UnknownTrigger ==
  ASSUME graph \in Graph \cup {Exec!EmptyGraph}, NEW t
  PROVE  \E u \in Trigger \cup {Absent} :
           Exec!SelectSourceNodes(graph, t) = Exec!SelectSourceNodes(graph, u)
<1>1. CASE t \in Trigger
  BY <1>1
<1>2. CASE t \notin Trigger
  <2>1. \A s \in Exec!SourceNodes(graph) : graph.trigger[s] \in Trigger \cup {Absent}
    <3>1. CASE graph = Exec!EmptyGraph
      BY <3>1 DEF Exec!EmptyGraph, Exec!SourceNodes
    <3>2. CASE graph \in Graph
      BY <3>2, RuntimeAssumption DEF Exec!IsSnapshot, Exec!SourceNodes
    <3> QED BY <3>1, <3>2
  <2>2. Exec!SelectSourceNodes(graph, t) = Exec!SelectSourceNodes(graph, Absent)
    BY <1>2, <2>1 DEF Exec!SelectSourceNodes
  <2> QED BY <2>2
<1> QED BY <1>1, <1>2

\* What the requests have in common: every key is one its client has handed out, and no
\* request serves both a node and a prompt sent without a DAG.
RequestsInv ==
  /\ graph \in Graph \cup {Exec!EmptyGraph}
  /\ pendingGraph \in Graph \cup {Absent}
  /\ nextRequestId \in [{"text", "vision", "web", "tool"} -> Nat]
  /\ \A k \in inflight : k \in Key /\ k.id <= nextRequestId[k.client]
  /\ \A id \in direct : id \in Nat /\ id <= nextRequestId["text"] /\ id \notin streaming
  /\ pending \subseteq [key : Key, inv : Nat, node : Node]
  /\ \A p \in pending : p.key.client = "text" => p.key.id \notin direct

LEMMA BeginIsExecutorStep ==
  ASSUME RequestsInv, NEW t, Exec!BeginInvocation(t) \/ Exec!RefuseInvocation(t)
  PROVE  Exec!Next
<1>1. PICK u \in Trigger \cup {Absent} :
        Exec!SelectSourceNodes(graph, t) = Exec!SelectSourceNodes(graph, u)
  BY UnknownTrigger DEF RequestsInv
<1>2. Exec!BeginInvocation(u) \/ Exec!RefuseInvocation(u)
  BY <1>1 DEF Exec!BeginInvocation, Exec!RefuseInvocation
<1> QED BY <1>2 DEF Exec!Next

LEMMA ReloadIsExecutorStep ==
  ASSUME RequestsInv, ApplyPendingDagReload PROVE Exec!Next
<1>1. pendingGraph \in Graph
  BY DEF RequestsInv, ApplyPendingDagReload
<1> QED BY <1>1 DEF Exec!Next, ApplyPendingDagReload

\* Every step of the runtime is a step of the executor, or leaves it alone.
LEMMA ExecutorStep ==
  ASSUME RequestsInv, [Next]_vars
  PROVE  [Exec!Next]_(Exec!vars)
<1> DEFINE Quiet == UNCHANGED <<executorVars, pending, pumping>>
<1>1. Quiet => UNCHANGED Exec!vars
  BY DEF Exec!vars, Exec!invocationState, executorVars, waiting
<1>2. CASE UNCHANGED vars
  BY <1>1, <1>2 DEF vars, requestVars, pumping
<1>3. CASE User
  <2>1. \A h : CancelActiveStreaming(h) => Exec!Next
    BY DEF CancelActiveStreaming, Exec!Next
  <2>2. ASSUME NEW h \in {"none", "submitting"}, CancelOrphanStreaming(h) PROVE Quiet
    BY <2>2 DEF CancelOrphanStreaming, pumping, PumpHandlers
  <2> QED BY <1>1, <1>3, <2>1, <2>2 DEF User, MousePress, SubmitTextToAgent
<1>4. ASSUME NEW f \in Frame, Perception(f) PROVE [Exec!Next]_(Exec!vars)
  <2>1. FrameStarts(f) \/ FrameRefused(f) => Exec!Next
    BY BeginIsExecutorStep DEF FrameStarts, StartInvocation, FrameRefused, RefusedBegin
  <2>2. FrameQueued(f) \/ FrameIgnored(f) \/ UnchangedFrameQueuesContext(f)
          \/ FrameWithoutDag(f) => Quiet
    BY DEF FrameQueued, FrameIgnored, UnchangedFrameQueuesContext, FrameWithoutDag,
           requestVars, pumping
  <2> QED BY <1>1, <1>4, <2>1, <2>2 DEF Perception
<1>5. ASSUME NEW g \in Graph, Reload(g) PROVE [Exec!Next]_(Exec!vars)
  <2>1. ReloadApplied(g) => Exec!Next
    BY DEF ReloadApplied, Exec!Next
  <2>2. ReloadDeferred(g) => Quiet
    BY DEF ReloadDeferred, ReloadRequested, requestVars, pumping
  <2> QED BY <1>1, <1>5, <2>1, <2>2 DEF Reload
<1>6. CASE Callback
  <2>1. \A k : LateAnswer(k) \/ DirectAnswer(k) => Quiet
    BY DEF LateAnswer, DirectAnswer, pumping
  <2>2. ASSUME NEW p \in pending, ResumePendingNode(p) PROVE Exec!Next
    <3>1. p.node \in Node
      BY DEF RequestsInv
    <3>2. Exec!ResumePendingNode(p.node)
      BY <2>2 DEF ResumePendingNode
    <3> QED BY <3>1, <3>2 DEF Exec!Next
  <2>3. \A p : AnswerFails(p) => Exec!Next
    BY DEF AnswerFails, Exec!Next
  <2> QED BY <1>1, <1>6, <2>1, <2>2, <2>3 DEF Callback
<1>7. CASE TimerFires
  <2>1. \A t : TimeoutIgnored(t) => Quiet
    BY DEF TimeoutIgnored, pumping
  <2>2. \A t : HandlePendingRequestTimeout(t) => Exec!Next
    BY DEF HandlePendingRequestTimeout, Exec!Next
  <2> QED BY <1>1, <1>7, <2>1, <2>2 DEF TimerFires
<1>8. CASE KickRuns
  <2>1. KickAppliesReload => Exec!Next
    BY ReloadIsExecutorStep DEF KickAppliesReload
  <2>2. KickKeepsGraph => Quiet
    BY DEF KickKeepsGraph, KickPosted, requestVars, pumping, PumpHandlers
  <2> QED BY <1>1, <1>8, <2>1, <2>2 DEF KickRuns
<1>9. CASE Submission
  <2>1. SubmitStarts \/ SubmitRefused => Exec!Next
    BY BeginIsExecutorStep DEF SubmitStarts, StartInvocation, SubmitRefused, RefusedBegin
  <2>2. SubmitQueued \/ SubmitRejected \/ SubmitDirect \/ SubmitDirectFails => Quiet
    BY DEF SubmitQueued, SubmitRejected, SubmitDirect, SubmitDirectFails, Submitting,
           requestVars, pumping, PumpHandlers
  <2> QED BY <1>1, <1>9, <2>1, <2>2 DEF Submission
<1>10. CASE Start
  <2>1. StartsNext \/ NextRefused => Exec!Next
    BY BeginIsExecutorStep DEF StartsNext, StartInvocation, NextRefused, RefusedBegin
  <2>2. StartsNothing => Quiet
    BY DEF StartsNothing, requestVars, pumping, PumpHandlers
  <2> QED BY <1>1, <1>10, <2>1, <2>2 DEF Start
<1>11. CASE Pump
  <2>1. \A n \in Node : RunNode(n) \/ RunOutput(n) \/ RunPending(n) => Exec!Next
    BY DEF RunNode, RunOutput, RunPending, Exec!Next
  <2>2. \A n \in Node : RegistrationFails(n) => Exec!Next
    BY DEF RegistrationFails, Exec!Next
  <2>3. FailPump \/ SuspendPump \/ CompleteInvocation => Exec!Next
    BY DEF FailPump, SuspendPump, CompleteInvocation, Exec!Next
  <2> QED BY <1>11, <2>1, <2>2, <2>3 DEF Pump
<1>12. CloseInvocation => Exec!Next
  BY ReloadIsExecutorStep DEF CloseInvocation
<1> QED
  BY <1>2, <1>3, <1>4, <1>5, <1>6, <1>7, <1>8, <1>9, <1>10, <1>11, <1>12
     DEF Next, HandlerStep

-----------------------------------------------------------------------------
(* Requests: what each way of touching them preserves *)

\* The inductive invariant about requests.
RequestInv == RequestsInv /\ PendingIsAnswerable /\ StreamsAreOwed

\* What the executor's invariant says of the node that runs.
ReadyNodes ==
  \A n \in readyQueue :
    /\ isActive /\ invocationId \in Nat
    /\ n \in graph.nodes /\ n \notin waiting

LEMMA ReadyNodesHold == ExecProofs!ExecutorInv => ReadyNodes
BY DEF ExecProofs!ExecutorInv, ExecProofs!TypeOK, ExecProofs!IdleIsClear,
       ExecProofs!StagesDisjoint, ReadyNodes

\* A step that leaves the requests alone, and the invocation too unless nothing waits.
LEMMA QuietKeeps ==
  ASSUME RequestInv, UNCHANGED <<requestVars, direct>>,
         UNCHANGED <<isActive, invocationId>> \/ waiting = {},
         graph' \in Graph \cup {Exec!EmptyGraph}, pendingGraph' \in Graph \cup {Absent}
  PROVE  RequestInv'
<1>1. RequestsInv'
  BY DEF RequestInv, RequestsInv, requestVars
<1>2. PendingIsAnswerable'
  BY DEF RequestInv, PendingIsAnswerable, requestVars, waiting
<1>3. StreamsAreOwed'
  BY DEF RequestInv, StreamsAreOwed, StreamedRequests, requestVars
<1> QED BY <1>1, <1>2, <1>3 DEF RequestInv

\* A reset forgets every waiting node; a stream leaves with the request that carries it.
LEMMA ResetKeeps ==
  ASSUME RequestInv, NEW sent, NEW streamed, NEW n,
         ResetAsyncExecutionState(sent, streamed, n),
         graph' = graph, pendingGraph' = pendingGraph, direct' = direct,
         nextRequestId' \in [{"text", "vision", "web", "tool"} -> Nat],
         \A k \in sent : k \in Key /\ k.id <= nextRequestId'[k.client],
         \A id \in direct : id <= nextRequestId'["text"] /\ id \notin streamed,
         \A id \in streamed : [client |-> "text", id |-> id] \in sent
  PROVE  RequestInv'
<1> USE DEF ResetAsyncExecutionState
<1>1. RequestsInv'
  BY DEF RequestInv, RequestsInv
<1>2. PendingIsAnswerable'
  BY DEF PendingIsAnswerable
<1>3. StreamsAreOwed'
  BY DEF StreamsAreOwed, StreamedRequests
<1> QED BY <1>1, <1>2, <1>3 DEF RequestInv

\* A node sends a request with a fresh id and waits for it.
LEMMA RunPendingKeeps ==
  ASSUME RequestInv, ReadyNodes, NEW n \in Node, RunPending(n)
  PROVE  RequestInv'
<1>1. /\ n \in readyQueue /\ n \in graph.nodes /\ n \notin waiting
      /\ isActive /\ invocationId \in Nat
  BY DEF RunPending, ReadyNodes
<1>2. graph.kind[n] \in {"text", "stream", "vision", "web", "tool"}
  <2>1. graph \in Graph
    BY <1>1 DEF RequestInv, RequestsInv, Exec!EmptyGraph
  <2>2. graph.kind[n] \in Kind
    BY <1>1, <2>1, RuntimeAssumption
  <2> QED BY <2>2 DEF RunPending, SendRequest, Kind
<1> DEFINE key == NewRequest(n)
<1>3. /\ key \in Key
      /\ nextRequestId' \in [{"text", "vision", "web", "tool"} -> Nat]
      /\ key.id = nextRequestId'[key.client]
      /\ key.id > nextRequestId[key.client]
      /\ \A c \in {"text", "vision", "web", "tool"} : nextRequestId[c] <= nextRequestId'[c]
      /\ graph.kind[n] = "stream" => key.client = "text"
  BY <1>2 DEF RunPending, SendRequest, NewRequest, ClientOf, Key, RequestInv, RequestsInv
<1>4. key \notin inflight
  BY <1>3 DEF RequestInv, RequestsInv, Key
<1>5. /\ inflight' = inflight \cup {key}
      /\ streaming' = IF graph.kind[n] = "stream" THEN streaming \cup {key.id} ELSE streaming
      /\ pending' = pending \cup {[key |-> key, inv |-> invocationId, node |-> n]}
      /\ timers' = timers \cup {[key |-> key, inv |-> invocationId]}
      /\ UNCHANGED <<graph, isActive, invocationId, direct, pendingGraph>>
  BY DEF RunPending, Sent, Streamed, RegisterPendingNode, NodeStep, reloadVars, rest,
         Exec!ExecutePendingNode
<1> HIDE DEF key
<1>6. RequestsInv'
  <2>1. \A k \in inflight' : k \in Key /\ k.id <= nextRequestId'[k.client]
    BY <1>3, <1>5 DEF RequestInv, RequestsInv, Key
  <2>2. \A id \in direct : id <= nextRequestId'["text"] /\ id \notin streaming'
    BY <1>3, <1>5 DEF RequestInv, RequestsInv, Key
  <2>3. pending' \subseteq [key : Key, inv : Nat, node : Node]
    BY <1>1, <1>3, <1>5 DEF RequestInv, RequestsInv
  <2>4. \A p \in pending' : p.key.client = "text" => p.key.id \notin direct
    BY <1>3, <1>5 DEF RequestInv, RequestsInv, Key
  <2> QED BY <1>3, <1>5, <2>1, <2>2, <2>3, <2>4 DEF RequestInv, RequestsInv
<1>7. PendingIsAnswerable'
  <2>1. \A p \in pending : p.key # key /\ p.node # n
    BY <1>1, <1>4 DEF RequestInv, PendingIsAnswerable, waiting
  <2> QED BY <1>1, <1>5, <2>1 DEF RequestInv, PendingIsAnswerable
<1>8. StreamsAreOwed'
  <2>1. graph.kind[n] = "stream" => key = [client |-> "text", id |-> key.id]
    BY <1>3 DEF Key
  <2> QED BY <1>5, <2>1 DEF RequestInv, StreamsAreOwed, StreamedRequests
<1> QED BY <1>6, <1>7, <1>8 DEF RequestInv

-----------------------------------------------------------------------------
(* The invariant about requests is inductive *)

LEMMA InitRequestInv == Init => RequestInv
BY DEF Init, Exec!Init, RequestInv, RequestsInv, PendingIsAnswerable, StreamsAreOwed,
       StreamedRequests

LEMMA NextRequestInv ==
  ASSUME RequestInv, ReadyNodes, [Next]_vars
  PROVE  RequestInv'
<1>0. /\ graph \in Graph \cup {Exec!EmptyGraph}
      /\ pendingGraph \in Graph \cup {Absent}
  BY DEF RequestInv, RequestsInv
<1>1. CASE UNCHANGED vars
  BY <1>0, <1>1, QuietKeeps DEF vars, executorVars, requestVars, reloadVars, rest
<1>2. ASSUME NEW t, Exec!BeginInvocation(t) \/ Exec!RefuseInvocation(t)
      PROVE  waiting = {} /\ graph' = graph
  BY <1>2 DEF Exec!BeginInvocation, Exec!RefuseInvocation, Exec!CanBegin, Exec!IsIdle
<1>3. ApplyPendingDagReload =>
        /\ UNCHANGED <<requestVars, isActive, invocationId>>
        /\ graph' \in Graph /\ pendingGraph' = Absent
  BY <1>0 DEF ApplyPendingDagReload, Exec!ReplaceGraphIfIdle, Exec!invocationState
<1>4. ASSUME NEW h, CancelActiveStreaming(h) PROVE RequestInv'
  BY <1>4, ResetKeeps
     DEF CancelActiveStreaming, StreamedRequests, reloadVars, Exec!AbandonInvocation,
         RequestInv, RequestsInv
<1>5. ASSUME NEW h, CancelOrphanStreaming(h) PROVE RequestInv'
  <2> USE <1>5 DEF CancelOrphanStreaming, executorVars, reloadVars
  <2>1. RequestsInv'
    BY DEF RequestInv, RequestsInv
  <2>2. PendingIsAnswerable'
    BY DEF RequestInv, PendingIsAnswerable, StreamedPending
  <2>3. StreamsAreOwed'
    BY DEF StreamsAreOwed, StreamedRequests
  <2> QED BY <2>1, <2>2, <2>3 DEF RequestInv
<1>6. CASE User
  BY <1>4, <1>5, <1>6 DEF User, MousePress, SubmitTextToAgent
<1>7. ASSUME NEW f \in Frame, Perception(f) PROVE RequestInv'
  <2>1. CASE FrameStarts(f) \/ FrameRefused(f)
    BY <1>0, <1>2, <2>1, QuietKeeps
       DEF FrameStarts, FrameRefused, FrameArrives, StartInvocation, RefusedBegin, reloadVars
  <2>2. CASE FrameQueued(f) \/ FrameIgnored(f) \/ UnchangedFrameQueuesContext(f)
               \/ FrameWithoutDag(f)
    BY <1>0, <2>2, QuietKeeps
       DEF FrameQueued, FrameIgnored, UnchangedFrameQueuesContext, FrameWithoutDag,
           FrameArrives, executorVars, reloadVars
  <2> QED BY <1>7, <2>1, <2>2 DEF Perception
<1>8. ASSUME NEW g \in Graph, Reload(g) PROVE RequestInv'
  <2>1. CASE ReloadApplied(g)
    BY <1>0, <2>1, QuietKeeps
       DEF ReloadApplied, ReloadRequested, rest, Exec!ReplaceGraphIfIdle,
           Exec!invocationState
  <2>2. CASE ReloadDeferred(g)
    BY <1>0, <2>2, QuietKeeps DEF ReloadDeferred, ReloadRequested, rest, executorVars
  <2> QED BY <1>8, <2>1, <2>2 DEF Reload
<1>9. CASE Callback
  <2>1. ASSUME NEW k \in inflight, LateAnswer(k) PROVE RequestInv'
    <3> USE <2>1 DEF LateAnswer, executorVars, reloadVars, rest, NotStreaming
    <3>1. RequestsInv'
      BY DEF RequestInv, RequestsInv
    <3>2. PendingIsAnswerable'
      BY DEF RequestInv, PendingIsAnswerable
    <3>3. StreamsAreOwed'
      BY DEF RequestInv, StreamsAreOwed, StreamedRequests
    <3> QED BY <3>1, <3>2, <3>3 DEF RequestInv
  <2>2. ASSUME NEW k \in inflight, DirectAnswer(k) PROVE RequestInv'
    <3> USE <2>2 DEF DirectAnswer, executorVars, reloadVars
    <3>1. RequestsInv'
      BY DEF RequestInv, RequestsInv
    <3>2. PendingIsAnswerable'
      BY DEF RequestInv, RequestsInv, PendingIsAnswerable
    <3>3. StreamsAreOwed'
      BY DEF RequestInv, RequestsInv, StreamsAreOwed, StreamedRequests
    <3> QED BY <3>1, <3>2, <3>3 DEF RequestInv
  <2>3. ASSUME NEW p \in pending, ResumePendingNode(p) PROVE RequestInv'
    <3> USE <2>3 DEF ResumePendingNode, Answered, rest, reloadVars, NotStreaming,
                     Exec!ResumePendingNode, Exec!CompleteNode
    <3>1. RequestsInv'
      BY DEF RequestInv, RequestsInv
    <3>2. PendingIsAnswerable'
      BY DEF RequestInv, PendingIsAnswerable
    <3>3. StreamsAreOwed'
      BY DEF RequestInv, StreamsAreOwed, StreamedRequests
    <3> QED BY <3>1, <3>2, <3>3 DEF RequestInv
  <2>4. ASSUME NEW p \in pending, AnswerFails(p) PROVE RequestInv'
    <3>1. \A id \in NotStreaming(p.key) :
            id \in streaming /\ [client |-> "text", id |-> id] \in inflight \ {p.key}
      BY DEF NotStreaming, RequestInv, StreamsAreOwed, StreamedRequests
    <3> QED
      BY <2>4, <3>1, ResetKeeps
         DEF AnswerFails, Answered, rest, reloadVars, Exec!AbandonInvocation,
             RequestInv, RequestsInv
  <2> QED BY <1>9, <2>1, <2>2, <2>3, <2>4 DEF Callback
<1>10. \A id \in streaming : [client |-> "text", id |-> id] \in inflight
  BY DEF RequestInv, StreamsAreOwed, StreamedRequests
<1>11. CASE TimerFires
  <2>1. ASSUME NEW t \in timers, TimeoutIgnored(t) PROVE RequestInv'
    <3> USE <2>1 DEF TimeoutIgnored, executorVars, reloadVars, rest
    <3>1. RequestsInv'
      BY DEF RequestInv, RequestsInv
    <3>2. PendingIsAnswerable'
      BY DEF RequestInv, PendingIsAnswerable, IsCurrent
    <3>3. StreamsAreOwed'
      BY DEF RequestInv, StreamsAreOwed, StreamedRequests
    <3> QED BY <3>1, <3>2, <3>3 DEF RequestInv
  <2>2. ASSUME NEW t \in timers, HandlePendingRequestTimeout(t) PROVE RequestInv'
    BY <1>10, <2>2, ResetKeeps
       DEF HandlePendingRequestTimeout, rest, reloadVars, Exec!AbandonInvocation,
           RequestInv, RequestsInv
  <2> QED BY <1>11, <2>1, <2>2 DEF TimerFires
<1>12. CASE KickRuns
  <2>1. CASE KickAppliesReload
    BY <1>3, <2>1, QuietKeeps DEF KickAppliesReload, KickPosted, rest
  <2>2. CASE KickKeepsGraph
    BY <1>0, <2>2, QuietKeeps DEF KickKeepsGraph, KickPosted, rest, executorVars
  <2> QED BY <1>12, <2>1, <2>2 DEF KickRuns
<1>13. CASE Submission
  <2>1. CASE SubmitStarts \/ SubmitRefused
    BY <1>0, <1>2, <2>1, QuietKeeps
       DEF SubmitStarts, SubmitRefused, StartInvocation, RefusedBegin, reloadVars
  <2>2. CASE SubmitQueued \/ SubmitRejected \/ SubmitDirectFails
    BY <1>0, <2>2, QuietKeeps
       DEF SubmitQueued, SubmitRejected, SubmitDirectFails, executorVars, reloadVars
  <2>3. CASE SubmitDirect
    <3> DEFINE id == nextRequestId["text"] + 1
    <3>0. /\ nextRequestId' = [nextRequestId EXCEPT !["text"] = id]
          /\ direct' = direct \cup {id}
          /\ inflight' = inflight \cup {[client |-> "text", id |-> id]}
          /\ UNCHANGED <<executorVars, pending, streaming, timers, pendingGraph>>
      BY <2>3 DEF SubmitDirect, reloadVars
    <3>1. id \notin streaming /\ \A p \in pending : p.key.client = "text" => p.key.id # id
      <4>1. \A k \in inflight : k.client = "text" => k.id # id
        BY DEF RequestInv, RequestsInv, Key
      <4>2. \A p \in pending : p.key \in inflight
        BY DEF RequestInv, PendingIsAnswerable
      <4>3. \A i : [client |-> "text", id |-> i] \in inflight => i # id
        BY <4>1
      <4> QED BY <1>10, <4>1, <4>2, <4>3
    <3>2. RequestsInv'
      <4>1. nextRequestId["text"] \in Nat
        BY DEF RequestInv, RequestsInv
      <4>2. \A k \in inflight' : k \in Key /\ k.id <= nextRequestId'[k.client]
        BY <3>0, <4>1 DEF RequestInv, RequestsInv, Key
      <4>3. \A i \in direct' : i \in Nat /\ i <= nextRequestId'["text"] /\ i \notin streaming'
        BY <3>0, <3>1, <4>1 DEF RequestInv, RequestsInv
      <4> QED
        BY <3>0, <3>1, <4>1, <4>2, <4>3 DEF RequestInv, RequestsInv, executorVars
    <3>3. PendingIsAnswerable'
      BY <3>0 DEF RequestInv, PendingIsAnswerable, executorVars
    <3>4. StreamsAreOwed'
      BY <3>0 DEF RequestInv, StreamsAreOwed, StreamedRequests
    <3> QED BY <3>2, <3>3, <3>4 DEF RequestInv
  <2> QED BY <1>13, <2>1, <2>2, <2>3 DEF Submission
<1>14. CASE Start
  <2>1. CASE StartsNext \/ NextRefused
    BY <1>0, <1>2, <2>1, QuietKeeps
       DEF StartsNext, NextRefused, Dequeuing, StartInvocation, RefusedBegin, reloadVars
  <2>2. CASE StartsNothing
    BY <1>0, <2>2, QuietKeeps DEF StartsNothing, executorVars, reloadVars, rest
  <2> QED BY <1>14, <2>1, <2>2 DEF Start
<1>15. CASE Pump
  <2>1. ASSUME NEW n \in Node, RunNode(n) \/ RunOutput(n) PROVE RequestInv'
    BY <1>0, <2>1, QuietKeeps
       DEF RunNode, RunOutput, NodeStep, rest, reloadVars, Exec!ExecuteReadyNode,
           Exec!CompleteNode
  <2>2. ASSUME NEW n \in Node, RunPending(n) PROVE RequestInv'
    BY <2>2, RunPendingKeeps
  <2>3. ASSUME NEW n \in Node, RegistrationFails(n) PROVE RequestInv'
    <3>1. /\ nextRequestId' = [nextRequestId EXCEPT ![ClientOf(n)] = NewRequest(n).id]
          /\ ClientOf(n) \in {"text", "vision", "web", "tool"}
          /\ graph.kind[n] = "stream" => ClientOf(n) = "text"
      <4>1. n \in graph.nodes /\ graph \in Graph
        BY <2>3 DEF RegistrationFails, Exec!IsFirstReady, ReadyNodes, RequestInv,
                    RequestsInv, Exec!EmptyGraph
      <4>2. graph.kind[n] \in Kind
        BY <4>1, RuntimeAssumption
      <4> QED BY <2>3, <4>2 DEF RegistrationFails, ClientOf, Kind
    <3>2. NewRequest(n) = [client |-> ClientOf(n), id |-> nextRequestId[ClientOf(n)] + 1]
      BY DEF NewRequest
    <3>3. /\ nextRequestId' \in [{"text", "vision", "web", "tool"} -> Nat]
          /\ \A k \in Sent(n) : k \in Key /\ k.id <= nextRequestId'[k.client]
      BY <3>1, <3>2 DEF Sent, RequestInv, RequestsInv, Key
    <3>4. \A id \in direct : id <= nextRequestId'["text"] /\ id \notin Streamed(n)
      BY <3>1, <3>2 DEF Streamed, RequestInv, RequestsInv
    <3>5. \A id \in Streamed(n) : [client |-> "text", id |-> id] \in Sent(n)
      <4>1. graph.kind[n] = "stream" => NewRequest(n) = [client |-> "text", id |-> NewRequest(n).id]
        BY <3>1, <3>2
      <4> QED BY <1>10, <4>1 DEF Streamed, Sent
    <3> QED
      BY <2>3, <3>3, <3>4, <3>5, ResetKeeps
         DEF RegistrationFails, rest, reloadVars, Exec!FailPump
  <2>4. CASE FailPump
    BY <1>10, <2>4, ResetKeeps
       DEF FailPump, rest, reloadVars, Exec!FailPump, RequestInv, RequestsInv
  <2>5. CASE SuspendPump
    BY <1>0, <2>5, QuietKeeps
       DEF SuspendPump, rest, reloadVars, Exec!SuspendPump, Exec!invocationState
  <2>6. CASE CompleteInvocation
    BY <1>0, <2>6, QuietKeeps
       DEF CompleteInvocation, rest, reloadVars, Exec!CompleteInvocation
  <2> QED BY <1>15, <2>1, <2>2, <2>3, <2>4, <2>5, <2>6 DEF Pump
<1>16. CASE CloseInvocation
  BY <1>3, <1>16, QuietKeeps DEF CloseInvocation, rest
<1> QED
  BY <1>1, <1>6, <1>7, <1>8, <1>9, <1>11, <1>12, <1>13, <1>14, <1>15, <1>16
     DEF Next, HandlerStep

-----------------------------------------------------------------------------
(* Theorems *)

\* The inductive invariant of the runtime: the requests', and the executor's.
RuntimeInv == RequestInv /\ ExecProofs!ExecutorInv

LEMMA InitRuntimeInv == Init => RuntimeInv
<1>1. Init => ExecProofs!Init
  BY SameInit DEF Init
<1>2. ExecProofs!Init => ExecProofs!ExecutorInv
  BY ExecProofs!InitExecutorInv, ExecutorAssumptionHolds
<1> QED BY <1>1, <1>2, InitRequestInv DEF RuntimeInv

LEMMA NextRuntimeInv ==
  ASSUME RuntimeInv, [Next]_vars
  PROVE  RuntimeInv' /\ [Exec!Next]_(Exec!vars)
<1>1. [Exec!Next]_(Exec!vars)
  BY ExecutorStep DEF RuntimeInv, RequestInv
<1>2. [ExecProofs!Next]_(ExecProofs!vars)
  BY <1>1, SameNext, SameVars
<1>3. ExecProofs!ExecutorInv'
  BY <1>2, ExecProofs!NextExecutorInv, ExecutorAssumptionHolds DEF RuntimeInv
<1>4. RequestInv'
  BY NextRequestInv, ReadyNodesHold DEF RuntimeInv
<1> QED BY <1>1, <1>3, <1>4 DEF RuntimeInv

\* RuntimeInv holds in every reachable state.
THEOREM RuntimeInvariant == Spec => []RuntimeInv
BY InitRuntimeInv, NextRuntimeInv, PTL DEF Spec

\* The runtime is an implementation of the executor's specification: whatever handlers
\* the event loop runs, the executor sees only the calls AgentGraphExecutor allows.
THEOREM RuntimeImplementsExecutor == Spec => ImplementsExecutor
<1>1. Init => Exec!Init
  BY DEF Init
<1>2. RuntimeInv /\ [Next]_vars => [Exec!Next]_(Exec!vars)
  BY NextRuntimeInv
<1> QED BY <1>1, <1>2, RuntimeInvariant, PTL DEF Spec, ImplementsExecutor, Exec!Spec

\* A node that waits belongs to the invocation in progress, the client still owes its
\* callback and a timer is armed for it; no two nodes share a request.
THEOREM WaitingNodesAreAnswerable == Spec => []PendingIsAnswerable
<1>1. RuntimeInv => PendingIsAnswerable
  BY DEF RuntimeInv, RequestInv
<1> QED BY <1>1, RuntimeInvariant, PTL

\* m_streamingLlmRequests holds only ids whose reply is still out.
THEOREM StreamsAlwaysOwed == Spec => []StreamsAreOwed
<1>1. RuntimeInv => StreamsAreOwed
  BY DEF RuntimeInv, RequestInv
<1> QED BY <1>1, RuntimeInvariant, PTL

\* What waits for an answer gets it once and within its invocation, and an id counts as
\* streaming only while its reply is out.
THEOREM RequestsStayCurrent == Spec => []RequestsAreCurrent
<1>1. RuntimeInv => RequestsAreCurrent
  BY DEF RuntimeInv, RequestInv, RequestsAreCurrent
<1> QED BY <1>1, RuntimeInvariant, PTL

-----------------------------------------------------------------------------
(* Reports *)

\* An invocation that was reported has ended.
ReportsInv ==
  /\ reports \in [1..MaxInvocations -> {0, 1}]
  /\ \A i \in 1..MaxInvocations :
       reports[i] = 1 => i <= nextInvocationId /\ (isActive => i < invocationId)

\* Whatever reports something ends the invocation.
LEMMA ReportingEnds ==
  ASSUME [Next]_vars
  PROVE  \/ reports' = reports
         \/ /\ \E n \in {0, 1} : Report(n)
            /\ ~isActive' /\ nextInvocationId' = nextInvocationId
<1> USE DEF observed
<1>1. CASE UNCHANGED vars
  BY <1>1 DEF vars
<1>2. CASE User
  BY <1>2 DEF User, MousePress, SubmitTextToAgent, CancelActiveStreaming,
              CancelOrphanStreaming, Exec!AbandonInvocation, Exec!ClearInvocationState
<1>3. ASSUME NEW f \in Frame, Perception(f) PROVE reports' = reports
  BY <1>3 DEF Perception, FrameQueued, FrameIgnored, UnchangedFrameQueuesContext,
              FrameStarts, FrameRefused, FrameWithoutDag, StartInvocation, RefusedBegin
<1>4. ASSUME NEW g \in Graph, Reload(g) PROVE reports' = reports
  BY <1>4 DEF Reload, ReloadApplied, ReloadDeferred, ReloadRequested
<1>5. CASE Callback
  BY <1>5 DEF Callback, LateAnswer, DirectAnswer, ResumePendingNode, AnswerFails,
              Exec!AbandonInvocation, Exec!ClearInvocationState
<1>6. CASE TimerFires
  BY <1>6 DEF TimerFires, TimeoutIgnored, HandlePendingRequestTimeout,
              Exec!AbandonInvocation, Exec!ClearInvocationState
<1>7. CASE KickRuns
  BY <1>7 DEF KickRuns, KickAppliesReload, KickKeepsGraph, KickPosted
<1>8. CASE Submission
  BY <1>8 DEF Submission, SubmitQueued, SubmitRejected, SubmitStarts, SubmitRefused,
              SubmitDirect, SubmitDirectFails, StartInvocation, RefusedBegin
<1>9. CASE Start
  BY <1>9 DEF Start, StartsNothing, StartsNext, NextRefused, StartInvocation, RefusedBegin
<1>10. CASE Pump
  <2>1. ASSUME NEW n \in Node, RunNode(n) \/ RunOutput(n) \/ RunPending(n)
        PROVE  reports' = reports
    BY <2>1 DEF RunNode, RunOutput, RunPending, NodeStep
  <2>2. CASE FailPump \/ \E n \in Node : RegistrationFails(n)
    BY <2>2 DEF FailPump, RegistrationFails, HandleFailedPump, Exec!FailPump,
                Exec!ClearInvocationState
  <2>3. CASE SuspendPump \/ CompleteInvocation
    BY <2>3 DEF SuspendPump, CompleteInvocation, Exec!CompleteInvocation,
                Exec!ClearInvocationState
  <2> QED BY <1>10, <2>1, <2>2, <2>3 DEF Pump
<1>11. CASE CloseInvocation
  BY <1>11 DEF CloseInvocation
<1> QED
  BY <1>1, <1>2, <1>3, <1>4, <1>5, <1>6, <1>7, <1>8, <1>9, <1>10, <1>11
     DEF Next, HandlerStep

\* Invocation ids only grow, and an invocation keeps its own until it ends.
LEMMA IdsGrow ==
  ASSUME nextInvocationId \in Nat, [Exec!Next]_(Exec!vars)
  PROVE  /\ nextInvocationId' >= nextInvocationId
         /\ \/ ~isActive'
            \/ isActive /\ invocationId' = invocationId
            \/ invocationId' > nextInvocationId
BY DEF Exec!Next, Exec!vars, Exec!invocationState, Exec!BeginInvocation,
       Exec!RefuseInvocation, Exec!NewInvocationId, Exec!ExecuteReadyNode,
       Exec!ExecutePendingNode, Exec!ResumePendingNode, Exec!CompleteNode, Exec!FailPump,
       Exec!SuspendPump, Exec!CompleteInvocation, Exec!AbandonInvocation,
       Exec!ReplaceGraphIfIdle, Exec!ClearInvocationState

LEMMA NextReportsInv ==
  ASSUME RuntimeInv, ReportsInv, [Next]_vars
  PROVE  ReportsInv'
<1>1. /\ nextInvocationId \in Nat /\ invocationId \in Nat
      /\ isActive => invocationId = nextInvocationId
  BY DEF RuntimeInv, ExecProofs!ExecutorInv, ExecProofs!TypeOK, ExecProofs!ActiveIdIsNewest
<1>2. CASE reports' = reports
  <2>1. /\ nextInvocationId' >= nextInvocationId
        /\ \/ ~isActive'
           \/ isActive /\ invocationId' = invocationId
           \/ invocationId' > nextInvocationId
    BY <1>1, NextRuntimeInv, IdsGrow
  <2>2. nextInvocationId' \in Nat /\ invocationId' \in Nat
    BY NextRuntimeInv DEF RuntimeInv, ExecProofs!ExecutorInv, ExecProofs!TypeOK
  <2> QED BY <1>1, <1>2, <2>1, <2>2, RuntimeAssumption DEF ReportsInv
<1>3. ASSUME NEW n \in {0, 1}, Report(n), ~isActive', nextInvocationId' = nextInvocationId
      PROVE  ReportsInv'
  <2>1. CASE ~isActive \/ invocationId \notin 1..MaxInvocations
    <3>1. reports' = reports
      BY <1>3, <2>1 DEF Report, ReportsInv
    <3> QED BY <1>3, <3>1 DEF ReportsInv
  <2>2. CASE isActive /\ invocationId \in 1..MaxInvocations
    <3>1. reports[invocationId] = 0
      BY <1>1, <2>2 DEF ReportsInv
    <3>2. reports' = [reports EXCEPT ![invocationId] = n]
      BY <1>3, <2>2, <3>1 DEF Report
    <3>3. \A i \in 1..MaxInvocations : reports'[i] = 1 => i <= nextInvocationId
      BY <1>1, <2>2, <3>2 DEF ReportsInv
    <3>4. reports' \in [1..MaxInvocations -> {0, 1}]
      BY <2>2, <3>2 DEF ReportsInv
    <3> QED BY <1>3, <3>3, <3>4 DEF ReportsInv
  <2> QED BY <2>1, <2>2
<1> QED BY <1>2, <1>3, ReportingEnds

\* However an invocation ends, and whoever notices first, the user sees at most one
\* answer or failure of it.
THEOREM ReportedAtMostOnce == Spec => []AtMostOneReport
<1>1. Init => ReportsInv
  BY DEF Init, ReportsInv
<1>2. RuntimeInv /\ ReportsInv /\ [Next]_vars => ReportsInv'
  BY NextReportsInv
<1>3. ReportsInv => AtMostOneReport
  BY DEF ReportsInv, AtMostOneReport
<1> QED BY <1>1, <1>2, <1>3, RuntimeInvariant, PTL DEF Spec

-----------------------------------------------------------------------------
(* Histories *)

HistoryLine == {"user", "assistant"} \X Nat

\* A history whose last answer is not newer than invocation `last'.
Conversation(h, last) ==
  /\ h \in Seq(HistoryLine)
  /\ Len(h) <= MaxHistory
  /\ \A i \in 1..Len(h) : h[i][1] = "user" => i < Len(h) /\ h[i + 1][1] = "assistant"
  /\ \A i, j \in 1..Len(h) :
       (i < j /\ h[i][1] = "assistant" /\ h[j][1] = "assistant") => h[i][2] < h[j][2]
  /\ \A i \in 1..Len(h) : h[i][1] = "assistant" => h[i][2] <= last

LEMMA OlderConversation ==
  ASSUME NEW h, NEW last \in Nat, NEW later \in Nat, last <= later, Conversation(h, last)
  PROVE  Conversation(h, later)
BY DEF Conversation, HistoryLine

\* The lines an answer adds end with the answer.
LEMMA LinesFacts ==
  ASSUME NEW c, NEW id \in Nat, c.input \in Nat \cup {Absent}
  PROVE  /\ Lines(c, id) \in Seq(HistoryLine)
         /\ Len(Lines(c, id)) \in {1, 2}
         /\ Lines(c, id)[Len(Lines(c, id))] = <<"assistant", id>>
         /\ Len(Lines(c, id)) = 2 => Lines(c, id)[1] = <<"user", c.input>>
<1> DEFINE asked == << <<"user", c.input>> >>
           answered == << <<"assistant", id>> >>
<1>1. answered \in Seq(HistoryLine) /\ Len(answered) = 1 /\ answered[1] = <<"assistant", id>>
  BY DEF HistoryLine
<1>2. CASE c.input = Absent
  <2>1. Lines(c, id) = <<>> \o answered
    BY <1>2 DEF Lines
  <2> HIDE DEF answered
  <2>2. <<>> \o answered = answered
    BY <1>1, ConcatEmptySeq
  <2>3. Lines(c, id) = answered
    BY <2>1, <2>2
  <2>4. /\ Len(Lines(c, id)) = 1 /\ Lines(c, id)[1] = <<"assistant", id>>
        /\ Lines(c, id) \in Seq(HistoryLine)
    BY <1>1, <2>3
  <2>5. Lines(c, id)[Len(Lines(c, id))] = <<"assistant", id>>
    BY <2>4
  <2> QED BY <2>4, <2>5
<1>3. CASE c.input # Absent
  <2>1. Lines(c, id) = asked \o answered
    BY <1>3 DEF Lines
  <2>2. asked \in Seq(HistoryLine) /\ Len(asked) = 1 /\ asked[1] = <<"user", c.input>>
    BY <1>3 DEF HistoryLine
  <2> HIDE DEF asked, answered
  <2>3. /\ asked \o answered \in Seq(HistoryLine)
        /\ Len(asked \o answered) = 2
        /\ (asked \o answered)[1] = asked[1]
        /\ (asked \o answered)[2] = answered[1]
    <3>1. /\ asked \o answered \in Seq(HistoryLine)
          /\ Len(asked \o answered) = Len(asked) + Len(answered)
          /\ \A i \in 1..(Len(asked) + Len(answered)) : (asked \o answered)[i] =
               IF i <= Len(asked) THEN asked[i] ELSE answered[i - Len(asked)]
      BY <1>1, <2>2, ConcatProperties
    <3>2. 2 \in 1..2 /\ ~(2 <= 1) /\ 2 - 1 = 1 /\ 1 \in 1..2
      OBVIOUS
    <3> QED BY <1>1, <2>2, <3>1, <3>2
  <2> QED BY <1>1, <2>1, <2>2, <2>3
<1> QED BY <1>2, <1>3

\* A line is a speaker and an input or an invocation.
LEMMA LineFacts == \A l \in HistoryLine : l[1] \in {"user", "assistant"} /\ l[2] \in Nat
BY DEF HistoryLine

\* AppendConversationHistory: a conversation stays one, also when its head is dropped.
LEMMA HistoryAppended ==
  ASSUME NEW c \in Context, NEW id \in Nat, Conversation(c.history, id - 1)
  PROVE  Conversation(AppendHistory(c, id).history, id)
<1> DEFINE old == c.history
           new == Lines(c, id)
           h == old \o new
           cut == IF Len(h) > MaxHistory THEN Len(h) - MaxHistory ELSE 0
           kept == SubSeq(h, 1 + cut, Len(h))
<1>1. AppendHistory(c, id).history = kept
  BY DEF AppendHistory, Context
<1>2. /\ old \in Seq(HistoryLine) /\ Len(old) <= MaxHistory
      /\ \A i \in 1..Len(old) : old[i][1] = "user" => i < Len(old) /\ old[i + 1][1] = "assistant"
      /\ \A i, j \in 1..Len(old) :
           (i < j /\ old[i][1] = "assistant" /\ old[j][1] = "assistant") => old[i][2] < old[j][2]
      /\ \A i \in 1..Len(old) : old[i][1] = "assistant" => old[i][2] <= id - 1
  BY DEF Conversation
<1>3. c.input \in Nat \cup {Absent}
  BY RuntimeAssumption DEF Context
<1>4. /\ new \in Seq(HistoryLine)
      /\ Len(new) \in {1, 2}
      /\ new[Len(new)] = <<"assistant", id>>
      /\ Len(new) = 2 => new[1] = <<"user", c.input>>
  BY <1>3, LinesFacts
<1>5. /\ h \in Seq(HistoryLine)
      /\ Len(h) = Len(old) + Len(new)
      /\ \A i \in 1..Len(h) : h[i] = IF i <= Len(old) THEN old[i] ELSE new[i - Len(old)]
  BY <1>2, <1>4, ConcatProperties
<1>6. MaxHistory \in Nat /\ Len(old) \in Nat
  BY <1>2, RuntimeAssumption
<1> HIDE DEF old, new, h
<1>7. /\ h[Len(h)] = <<"assistant", id>>
      /\ \A i \in 1..Len(h) : i > Len(old) => i = Len(h) \/ (i = Len(h) - 1 /\ h[i][1] = "user")
  <2>1. Len(h) - Len(old) = Len(new) /\ Len(h) \in 1..Len(h) /\ ~(Len(h) <= Len(old))
    BY <1>4, <1>5, <1>6
  <2>2. h[Len(h)] = <<"assistant", id>>
    BY <1>4, <1>5, <2>1
  <2>3. ASSUME NEW i \in 1..Len(h), i > Len(old), i # Len(h)
        PROVE  i = Len(h) - 1 /\ h[i][1] = "user"
    <3>1. i = Len(h) - 1 /\ i - Len(old) = 1 /\ Len(new) = 2 /\ ~(i <= Len(old))
      BY <1>4, <1>5, <1>6, <2>3
    <3>2. h[i] = new[1]
      BY <1>5, <2>3, <3>1
    <3> QED BY <1>4, <3>1, <3>2
  <2> QED BY <2>2, <2>3
<1>8. \A i \in 1..Len(old) : h[i] = old[i] /\ i \in 1..Len(h)
  BY <1>4, <1>5, <1>6
<1>9. \A i \in 1..Len(h) : h[i][1] = "user" => i < Len(h) /\ h[i + 1][1] = "assistant"
  <2> SUFFICES ASSUME NEW i \in 1..Len(h), h[i][1] = "user"
               PROVE  i < Len(h) /\ h[i + 1][1] = "assistant"
    OBVIOUS
  <2>1. CASE i <= Len(old)
    BY <1>2, <1>5, <1>6, <1>8, <2>1
  <2>2. CASE i > Len(old)
    <3>1. i # Len(h)
      BY <1>7
    <3>2. i = Len(h) - 1
      BY <1>7, <2>2, <3>1
    <3>3. i < Len(h) /\ i + 1 = Len(h)
      BY <1>5, <3>2
    <3> QED BY <1>7, <3>3
  <2> QED BY <1>6, <2>1, <2>2
<1>10. \A i, j \in 1..Len(h) :
         (i < j /\ h[i][1] = "assistant" /\ h[j][1] = "assistant") => h[i][2] < h[j][2]
  <2> SUFFICES ASSUME NEW i \in 1..Len(h), NEW j \in 1..Len(h), i < j,
                      h[i][1] = "assistant", h[j][1] = "assistant"
               PROVE  h[i][2] < h[j][2]
    OBVIOUS
  <2>1. CASE j <= Len(old)
    BY <1>2, <1>6, <1>8, <2>1
  <2>2. CASE j > Len(old)
    <3>0. j = Len(h)
      BY <1>7, <2>2
    <3>1. j = Len(h) /\ h[j][2] = id
      BY <1>7, <3>0
    <3>2. i <= Len(old)
      BY <1>6, <1>7, <3>1
    <3>3. h[i][2] <= id - 1 /\ h[i][2] \in Nat
      <4>1. h[i] \in HistoryLine /\ i \in 1..Len(old) /\ h[i] = old[i]
        BY <1>5, <1>6, <1>8, <3>2
      <4> QED BY <1>2, <4>1, LineFacts
    <3> QED BY <3>1, <3>3
  <2> QED BY <1>6, <2>1, <2>2
<1>11. \A i \in 1..Len(h) : h[i][1] = "assistant" => h[i][2] <= id
  <2> SUFFICES ASSUME NEW i \in 1..Len(h), h[i][1] = "assistant"
               PROVE  h[i][2] <= id
    OBVIOUS
  <2>1. CASE i <= Len(old)
    <3>1. h[i][2] <= id - 1 /\ h[i][2] \in Nat
      <4>1. h[i] \in HistoryLine /\ i \in 1..Len(old) /\ h[i] = old[i]
        BY <1>5, <1>6, <1>8, <2>1
      <4> QED BY <1>2, <4>1, LineFacts
    <3> QED BY <3>1
  <2>2. CASE i > Len(old)
    <3>1. i = Len(h)
      BY <1>7, <2>2
    <3> QED BY <1>7, <3>1
  <2> QED BY <1>6, <2>1, <2>2
<1>12. cut \in Nat /\ cut <= Len(h) /\ Len(h) - cut <= MaxHistory
  BY <1>5, <1>6
<1>13. /\ kept \in Seq(HistoryLine)
       /\ Len(kept) = Len(h) - cut
       /\ \A i \in 1..(Len(h) - cut) : kept[i] = h[i + cut]
  <2>1. 1 + cut \in 1..(Len(h) + 1) /\ Len(h) \in Nat
    BY <1>5, <1>12
  <2> HIDE DEF cut
  <2> QED BY <1>5, <1>12, <2>1, SubSeqProperties
<1> HIDE DEF cut, kept
<1>14. \A i \in 1..Len(kept) : i + cut \in 1..Len(h) /\ kept[i] = h[i + cut]
  BY <1>5, <1>12, <1>13
<1>15. Conversation(kept, id)
  <2>1. ASSUME NEW i \in 1..Len(kept), kept[i][1] = "user"
        PROVE  i < Len(kept) /\ kept[i + 1][1] = "assistant"
    <3>1. i + cut < Len(h) /\ h[(i + cut) + 1][1] = "assistant"
      BY <1>9, <1>14, <2>1
    <3>2. i + 1 \in 1..Len(kept) /\ (i + 1) + cut = (i + cut) + 1
      BY <1>5, <1>12, <1>13, <3>1
    <3> QED BY <1>14, <3>1, <3>2
  <2>2. \A i, j \in 1..Len(kept) :
          (i < j /\ kept[i][1] = "assistant" /\ kept[j][1] = "assistant")
            => kept[i][2] < kept[j][2]
    <3> SUFFICES ASSUME NEW i \in 1..Len(kept), NEW j \in 1..Len(kept), i < j,
                        kept[i][1] = "assistant", kept[j][1] = "assistant"
                 PROVE  kept[i][2] < kept[j][2]
      OBVIOUS
    <3>1. i + cut < j + cut
      BY <1>12, <1>13
    <3> QED BY <1>10, <1>14, <3>1
  <2>3. \A i \in 1..Len(kept) : kept[i][1] = "assistant" => kept[i][2] <= id
    BY <1>11, <1>14
  <2> QED BY <1>12, <1>13, <2>1, <2>2, <2>3 DEF Conversation
<1> QED BY <1>1, <1>15

\* AppendHistory changes the history only.
LEMMA OnlyHistory ==
  ASSUME NEW c \in Context, NEW id \in Nat, Conversation(c.history, id - 1)
  PROVE  /\ AppendHistory(c, id) \in Context
         /\ AppendHistory(c, id).trigger = c.trigger /\ AppendHistory(c, id).input = c.input
<1>1. AppendHistory(c, id).history \in Seq(HistoryLine)
  BY HistoryAppended DEF Conversation
<1> DEFINE h == AppendHistory(c, id).history
<1>2. AppendHistory(c, id) = [c EXCEPT !.history = h]
  BY DEF AppendHistory, Context
<1> HIDE DEF h
<1> QED BY <1>1, <1>2 DEF Context, HistoryLine, h

-----------------------------------------------------------------------------
(* Contexts: what a step does to them *)

\* The context of the execution view: the turn's, with the answer or without it.
Views == {turn, AppendHistory(turn, invocationId)}

\* Nothing is begun, queued or committed.
Settles ==
  /\ ctx' \in {ctx, WithoutInput(ctx), session}
  /\ turn' \in {turn, EmptyContext}
  /\ UNCHANGED <<session, queue, started, refused, inputs>>

Shows ==
  /\ isActive
  /\ ctx' \in Views
  /\ UNCHANGED <<session, turn, queue, started, refused, inputs>>

Commits ==
  /\ isActive
  /\ \E v \in Views : session' = WithoutInput(v)
  /\ ctx' = session' /\ turn' = EmptyContext
  /\ UNCHANGED <<queue, started, refused, inputs>>

Begins(c) ==
  /\ ctx' = c /\ turn' = c
  /\ started' = IF c.input = Absent THEN started ELSE Append(started, c.input)
  /\ invocationId' = nextInvocationId + 1
  /\ UNCHANGED <<session, refused>>

InputBegins ==
  /\ handler = "submitting" /\ inputs' = NewInput
  /\ queue = <<>> /\ queue' = queue
  /\ Begins(InputContext)
FrameBegins(f) ==
  /\ queue = <<>> /\ UNCHANGED <<queue, inputs>>
  /\ Begins(IdleContext(f))
QueuedBegins ==
  /\ queue # <<>> /\ queue' = Tail(queue) /\ inputs' = inputs
  /\ Begins(Overlay(Head(queue)))

Queues(c) ==
  /\ Queue!Accepts(queue, Delta(c))
  /\ queue' = Queue!AfterEnqueue(queue, Delta(c))
  /\ UNCHANGED <<session, turn, started, refused>>

InputWaits ==
  /\ handler = "submitting" /\ inputs' = NewInput
  /\ ctx' = session
  /\ Queues(InputContext)
FrameWaits(f) == Queues(FrameContext(f)) /\ UNCHANGED <<ctx, inputs>>
ContextWaits == Queues(ctx) /\ ctx' = session /\ inputs' = inputs /\ ctx.trigger # Absent

InputDropped ==
  /\ handler = "submitting" /\ inputs' = NewInput
  /\ ctx' \in {InputContext, WithoutInput(InputContext)}
  /\ refused' = refused \cup {NewInput} \/ (~isLoaded /\ refused' = refused)
  /\ UNCHANGED <<session, turn, queue, started>>
FrameDropped(f) ==
  /\ ctx' \in {IdleContext(f), FrameContext(f)}
  /\ UNCHANGED <<session, turn, queue, started, refused, inputs>>
QueuedDropped ==
  /\ queue # <<>> /\ queue' = Tail(queue) /\ ctx' = session
  /\ LET x == Overlay(Head(queue)).input
     IN refused' = refused \cup (IF x = Absent THEN {} ELSE {x})
  /\ UNCHANGED <<session, turn, started, inputs>>

ContextStep ==
  \/ Settles \/ Shows \/ Commits
  \/ InputBegins \/ InputWaits \/ InputDropped
  \/ \E f \in Frame : FrameBegins(f) \/ FrameWaits(f) \/ FrameDropped(f)
  \/ ContextWaits
  \/ QueuedBegins \/ QueuedDropped

\* A step of the runtime does one of these, and never unloads the DAG.
LEMMA EveryContextStep ==
  ASSUME RuntimeInv, [Next]_vars
  PROVE  ContextStep /\ isLoaded' = isLoaded
<1> USE DEF observed, budget, rest, contextVars
<1>1. CASE UNCHANGED vars
  BY <1>1 DEF vars, ContextStep, Settles
<1>2. CASE User
  <2>1. ASSUME NEW h, CancelActiveStreaming(h) \/ CancelOrphanStreaming(h)
        PROVE  Settles /\ isLoaded' = isLoaded
    BY <2>1 DEF CancelActiveStreaming, CancelOrphanStreaming, ResetAsyncExecutionState, Settles
  <2> QED BY <1>2, <2>1 DEF User, MousePress, SubmitTextToAgent, ContextStep
<1>3. ASSUME NEW f \in Frame, Perception(f) PROVE ContextStep /\ isLoaded' = isLoaded
  <2> USE DEF FrameArrives
  <2>1. CASE FrameQueued(f)
    BY <2>1 DEF FrameQueued, ContextStep, FrameWaits, Queues
  <2>2. CASE FrameIgnored(f)
    BY <2>2 DEF FrameIgnored, ContextStep, Settles
  <2>3. CASE UnchangedFrameQueuesContext(f)
    BY <2>3 DEF UnchangedFrameQueuesContext, ContextStep, ContextWaits, Queues
  <2>4. CASE FrameStarts(f)
    <3>1. FrameBegins(f)
      BY <2>4 DEF FrameStarts, FrameBegins, Begins, StartInvocation, Busy,
                  Exec!BeginInvocation, Exec!NewInvocationId
    <3> QED BY <2>4, <3>1 DEF FrameStarts, ContextStep
  <2>5. CASE FrameRefused(f) \/ FrameWithoutDag(f)
    BY <2>5 DEF FrameRefused, FrameWithoutDag, RefusedBegin, ContextStep, FrameDropped
  <2> QED BY <1>3, <2>1, <2>2, <2>3, <2>4, <2>5 DEF Perception
<1>4. ASSUME NEW g \in Graph, Reload(g) PROVE ContextStep /\ isLoaded' = isLoaded
  BY <1>4 DEF Reload, ReloadApplied, ReloadDeferred, ReloadRequested, ContextStep, Settles
<1>5. CASE Callback
  <2>1. ASSUME NEW k, LateAnswer(k) \/ DirectAnswer(k) PROVE Settles /\ isLoaded' = isLoaded
    BY <2>1 DEF LateAnswer, DirectAnswer, Settles
  <2>2. ASSUME NEW p, AnswerFails(p) PROVE Settles /\ isLoaded' = isLoaded
    BY <2>2 DEF AnswerFails, Answered, ResetAsyncExecutionState, Settles
  <2>3. ASSUME NEW p, ResumePendingNode(p) PROVE Shows /\ isLoaded' = isLoaded
    BY <2>3 DEF ResumePendingNode, Answered, View, Views, Shows, Exec!ResumePendingNode
  <2> QED BY <1>5, <2>1, <2>2, <2>3 DEF Callback, ContextStep
<1>6. CASE TimerFires
  <2>1. ASSUME NEW t, TimeoutIgnored(t) \/ HandlePendingRequestTimeout(t)
        PROVE  Settles /\ isLoaded' = isLoaded
    BY <2>1 DEF TimeoutIgnored, HandlePendingRequestTimeout, ResetAsyncExecutionState, Settles
  <2> QED BY <1>6, <2>1 DEF TimerFires, ContextStep
<1>7. CASE KickRuns
  BY <1>7 DEF KickRuns, KickAppliesReload, KickKeepsGraph, KickPosted, ContextStep, Settles
<1>8. CASE Submission
  <2> USE DEF Submitting
  <2>1. CASE SubmitQueued
    BY <2>1 DEF SubmitQueued, ContextStep, InputWaits, Queues
  <2>2. CASE SubmitRejected \/ SubmitRefused \/ SubmitDirect \/ SubmitDirectFails
    <3>1. InputDropped
      BY <2>2 DEF SubmitRejected, SubmitRefused, SubmitDirect, SubmitDirectFails,
                  RefusedBegin, InputDropped
    <3> QED
      BY <2>2, <3>1 DEF SubmitRejected, SubmitRefused, SubmitDirect, SubmitDirectFails,
                        ContextStep
  <2>3. CASE SubmitStarts
    <3>1. InputBegins
      BY <2>3 DEF SubmitStarts, InputBegins, Begins, StartInvocation, Busy,
                  Exec!BeginInvocation, Exec!NewInvocationId
    <3> QED BY <2>3, <3>1 DEF SubmitStarts, ContextStep
  <2> QED BY <1>8, <2>1, <2>2, <2>3 DEF Submission
<1>9. CASE Start
  <2>1. CASE StartsNothing
    BY <2>1 DEF StartsNothing, ContextStep, Settles
  <2>2. CASE StartsNext
    <3>1. QueuedBegins
      BY <2>2 DEF StartsNext, Dequeuing, QueuedBegins, Begins, StartInvocation,
                  Exec!BeginInvocation, Exec!NewInvocationId
    <3> QED BY <2>2, <3>1 DEF StartsNext, Dequeuing, ContextStep
  <2>3. CASE NextRefused
    <3>1. QueuedDropped
      BY <2>3 DEF NextRefused, Dequeuing, QueuedDropped, RefusedBegin
    <3> QED BY <2>3, <3>1 DEF NextRefused, Dequeuing, ContextStep
  <2> QED BY <1>9, <2>1, <2>2, <2>3 DEF Start
<1>10. CASE Pump
  <2>0. pumping => isActive
    BY DEF RuntimeInv, ExecProofs!ExecutorInv, ExecProofs!IdleIsClear
  <2>1. ASSUME NEW n \in Node, RunNode(n) \/ RunOutput(n) \/ RunPending(n)
        PROVE  Shows /\ isLoaded' = isLoaded
    BY <2>0, <2>1 DEF RunNode, RunOutput, RunPending, NodeStep, SendRequest, View, Views, Shows
  <2>2. CASE FailPump \/ SuspendPump \/ \E n \in Node : RegistrationFails(n)
    BY <2>2 DEF FailPump, SuspendPump, RegistrationFails, ResetAsyncExecutionState,
                ContextStep, Settles
  <2>3. CASE CompleteInvocation
    <3>1. Commits
      BY <2>0, <2>3 DEF CompleteInvocation, View, Views, Commits
    <3> QED BY <2>3, <3>1 DEF CompleteInvocation, ContextStep
  <2> QED BY <1>10, <2>1, <2>2, <2>3 DEF Pump, ContextStep
<1>11. CASE CloseInvocation
  BY <1>11 DEF CloseInvocation, ContextStep, Settles
<1> QED
  BY <1>1, <1>2, <1>3, <1>4, <1>5, <1>6, <1>7, <1>8, <1>9, <1>10, <1>11
     DEF Next, HandlerStep

-----------------------------------------------------------------------------
(* Contexts: what they are *)

Local == [{"input", "frame", "history"} ->
            1..MaxInputs \cup Frame \cup Seq(HistoryLine) \cup {Absent}]
QueueEntry == [trigger : Trigger \cup {Absent}, local : Local]

\* A frame has no input, in a context as well as in the queue.
ContextOk(c, last) ==
  /\ c \in Context
  /\ c.trigger = "vision" => c.input = Absent
  /\ Conversation(c.history, last)

EntryOk(e, last) ==
  /\ e \in QueueEntry
  /\ InputOf(e) \in 1..MaxInputs \cup {Absent}
  /\ e.local["frame"] \in Frame \cup {Absent}
  /\ e.local["history"] # Absent => Conversation(e.local["history"], last)
  /\ e.trigger = "vision" => InputOf(e) = Absent

SessionOk == ContextOk(session, nextInvocationId) /\ session.trigger = Absent /\ session.input = Absent

QueueOk ==
  queue \in Seq(QueueEntry) /\ \A i \in 1..Len(queue) : EntryOk(queue[i], nextInvocationId)

\* The turn's history ends before the invocation in progress, whose answer comes next.
ContextsInv ==
  /\ SessionOk
  /\ ContextOk(ctx, nextInvocationId)
  /\ ContextOk(turn, nextInvocationId)
  /\ isActive => Conversation(turn.history, invocationId - 1)
  /\ QueueOk

\* What the queue keeps of a context is what the session has not.
LEMMA DeltaFacts ==
  ASSUME SessionOk, NEW c, ContextOk(c, nextInvocationId)
  PROVE  EntryOk(Delta(c), nextInvocationId) /\ Delta(c).trigger = c.trigger /\ InputOf(Delta(c)) = c.input
<1> DEFINE local == [k \in {"input", "frame", "history"} |->
                       IF c[k] = session[k] THEN Absent ELSE c[k]]
<1>1. Delta(c) = [trigger |-> c.trigger, local |-> local]
  BY DEF Delta
<1>2. /\ c.trigger \in Trigger \cup {Absent}
      /\ c["input"] \in 1..MaxInputs \cup {Absent}
      /\ c["frame"] \in Frame \cup {Absent}
      /\ c["history"] \in Seq(HistoryLine)
      /\ Conversation(c["history"], nextInvocationId)
      /\ c.trigger = "vision" => c["input"] = Absent
      /\ session["input"] = Absent
  BY DEF ContextOk, Context, HistoryLine, SessionOk
<1>3. /\ local \in Local
      /\ local["input"] = c["input"]
      /\ local["frame"] \in Frame \cup {Absent}
      /\ local["history"] # Absent => local["history"] = c["history"]
  BY <1>2 DEF Local
<1> HIDE DEF local
<1> QED BY <1>1, <1>2, <1>3 DEF EntryOk, QueueEntry, InputOf

\* The overlay of an entry on the session is a context with the entry's trigger and input.
LEMMA OverlayFacts ==
  ASSUME SessionOk, NEW e, EntryOk(e, nextInvocationId)
  PROVE  ContextOk(Overlay(e), nextInvocationId) /\ Overlay(e).input = InputOf(e)
<1>1. session \in [trigger : Trigger \cup {Absent}, input : 1..MaxInputs \cup {Absent},
                   frame : Frame \cup {Absent}, history : Seq(HistoryLine)]
  BY DEF SessionOk, ContextOk, Context, HistoryLine
<1>2. DOMAIN session = {"trigger", "input", "frame", "history"}
  BY <1>1
<1> DEFINE c == [trigger |-> e.trigger,
                 input |-> InputOf(e),
                 frame |-> IF e.local["frame"] = Absent THEN session.frame
                                                        ELSE e.local["frame"],
                 history |-> IF e.local["history"] = Absent THEN session.history
                                                            ELSE e.local["history"]]
<1>3. Overlay(e) = c
  BY <1>2 DEF Overlay, InputOf, SessionOk
<1>4. c.history \in Seq(HistoryLine) /\ Conversation(c.history, nextInvocationId)
  BY <1>1 DEF EntryOk, SessionOk, ContextOk, Conversation
<1>5. c \in Context
  BY <1>1, <1>4 DEF EntryOk, QueueEntry, Context, HistoryLine
<1> QED BY <1>3, <1>4, <1>5 DEF EntryOk, ContextOk

\* The queue with the theorems about it.  Its definitions are those of Queue, and its
\* payloads are what the entries keep of their contexts.
NoLocal == CHOOSE x : x \notin Local
QueueProofs == INSTANCE InvocationQueuePolicy_proofs WITH
  Vision <- "vision", Payload <- Local, NoFrame <- NoLocal, entries <- queue

LEMMA QueueAssumptionHolds == QueueProofs!QueueAssumption
<1>1. NoLocal \notin Local
  BY NoSetContainsEverything DEF NoLocal
<1> QED BY <1>1, RuntimeAssumption DEF QueueProofs!QueueAssumption, Trigger

LEMMA RemoveAtFacts ==
  ASSUME NEW S, NEW q \in Seq(S), NEW i \in 1..Len(q)
  PROVE  /\ Queue!RemoveAt(q, i) \in Seq(S)
         /\ Len(Queue!RemoveAt(q, i)) = Len(q) - 1
         /\ \A j \in 1..(Len(q) - 1) :
              Queue!RemoveAt(q, i)[j] = IF j < i THEN q[j] ELSE q[j + 1]
BY QueueAssumptionHolds, QueueProofs!RemoveAtFacts DEF QueueProofs!RemoveAt, Queue!RemoveAt

\* The frame that waits is one of the entries.
LEMMA LatestFrameFacts ==
  ASSUME NEW q \in Seq(QueueEntry), Queue!VisionIndices(q) # {}
  PROVE  Queue!LatestFrame(q) \in 1..Len(q) /\ q[Queue!LatestFrame(q)].trigger = "vision"
<1> DEFINE visions == Queue!VisionIndices(q)
           behind == {Len(q) - i : i \in visions}
<1>1. Len(q) \in Nat /\ visions = {i \in 1..Len(q) : q[i].trigger = "vision"}
  BY DEF Queue!VisionIndices, Queue!IsVision
<1>2. behind \in SUBSET Nat /\ behind # {}
  BY <1>1
<1>3. PICK least \in behind : \A k \in behind : least <= k
  BY <1>2, ExecProofs!LeastNatural, ExecutorAssumptionHolds
<1>4. PICK i \in visions : least = Len(q) - i
  BY <1>3
<1>5. \A j \in visions : j <= i
  <2>1. \A j \in visions : Len(q) - i <= Len(q) - j
    BY <1>3, <1>4
  <2> QED BY <1>1, <2>1
<1>6. Queue!LatestFrame(q) \in visions
  BY <1>5 DEF Queue!LatestFrame
<1> QED BY <1>1, <1>6

(***************************************************************************)
(* Enqueue puts the entry behind the others and takes away at most a       *)
(* frame; at[i] is where the i-th entry was.                               *)
(***************************************************************************)
LEMMA EnqueueFacts ==
  ASSUME QueueOk, NEW e, EntryOk(e, nextInvocationId), NEW q, q = Queue!AfterEnqueue(queue, e)
  PROVE  /\ q \in Seq(QueueEntry) /\ Len(q) >= 1 /\ q[Len(q)] = e
         /\ \E at \in [1..(Len(q) - 1) -> 1..Len(queue)] :
              /\ \A i \in 1..(Len(q) - 1) : q[i] = queue[at[i]]
              /\ \A i, j \in 1..(Len(q) - 1) : i < j => at[i] < at[j]
              /\ \A k \in 1..Len(queue) :
                   InputOf(queue[k]) # Absent => \E i \in 1..(Len(q) - 1) : at[i] = k
<1>1. queue \in Seq(QueueEntry) /\ Len(queue) \in Nat /\ e \in QueueEntry
  BY DEF QueueOk, EntryOk
<1>2. CASE Queue!ReplacesFrame(queue, e)
  <2> DEFINE r == Queue!LatestFrame(queue)
             others == Queue!RemoveAt(queue, r)
             at == [i \in 1..(Len(queue) - 1) |-> IF i < r THEN i ELSE i + 1]
  <2>1. r \in 1..Len(queue) /\ queue[r].trigger = "vision"
    BY <1>1, <1>2, LatestFrameFacts DEF Queue!ReplacesFrame
  <2> HIDE DEF r
  <2>2. /\ others \in Seq(QueueEntry)
        /\ Len(others) = Len(queue) - 1
        /\ \A j \in 1..(Len(queue) - 1) :
             others[j] = IF j < r THEN queue[j] ELSE queue[j + 1]
    BY <1>1, <2>1, RemoveAtFacts
  <2>3. q = Append(others, e)
    BY <1>2 DEF Queue!AfterEnqueue, r
  <2> HIDE DEF others
  <2>4. /\ q \in Seq(QueueEntry) /\ Len(q) = Len(queue) /\ q[Len(q)] = e
        /\ \A j \in 1..(Len(q) - 1) : q[j] = others[j]
    BY <1>1, <2>2, <2>3
  <2>5. /\ at \in [1..(Len(q) - 1) -> 1..Len(queue)]
        /\ \A i \in 1..(Len(q) - 1) : q[i] = queue[at[i]]
        /\ \A i, j \in 1..(Len(q) - 1) : i < j => at[i] < at[j]
    BY <1>1, <2>1, <2>2, <2>4
  <2>6. ASSUME NEW k \in 1..Len(queue), InputOf(queue[k]) # Absent
        PROVE  \E i \in 1..(Len(q) - 1) : at[i] = k
    <3>1. k # r
      BY <2>1, <2>6 DEF QueueOk, EntryOk
    <3>2. CASE k < r
      <4>1. k \in 1..(Len(q) - 1) /\ at[k] = k
        BY <1>1, <2>1, <2>4, <3>2
      <4> QED BY <4>1
    <3>3. CASE k > r
      <4>1. k - 1 \in 1..(Len(q) - 1) /\ at[k - 1] = k
        BY <1>1, <2>1, <2>4, <3>3
      <4> QED BY <4>1
    <3>4. k < r \/ k > r
      BY <1>1, <2>1, <3>1
    <3> QED BY <3>2, <3>3, <3>4
  <2> HIDE DEF at
  <2>7. Len(q) >= 1
    BY <1>1, <2>1, <2>4
  <2> QED BY <2>4, <2>5, <2>6, <2>7
<1>3. CASE ~Queue!ReplacesFrame(queue, e)
  <2>1. q = Append(queue, e)
    BY <1>3 DEF Queue!AfterEnqueue
  <2>2. /\ q \in Seq(QueueEntry) /\ Len(q) = Len(queue) + 1 /\ q[Len(q)] = e
        /\ \A i \in 1..(Len(q) - 1) : q[i] = queue[i]
    BY <1>1, <2>1
  <2> DEFINE at == [i \in 1..(Len(q) - 1) |-> i]
  <2>3. /\ at \in [1..(Len(q) - 1) -> 1..Len(queue)]
        /\ \A i \in 1..(Len(q) - 1) : q[i] = queue[at[i]]
        /\ \A i, j \in 1..(Len(q) - 1) : i < j => at[i] < at[j]
        /\ \A k \in 1..Len(queue) : k \in 1..(Len(q) - 1) /\ at[k] = k
    BY <1>1, <2>2
  <2> HIDE DEF at
  <2>4. Len(q) >= 1
    BY <1>1, <2>2
  <2> QED BY <2>2, <2>3, <2>4
<1> QED BY <1>2, <1>3

-----------------------------------------------------------------------------
(* The invariant about contexts *)

\* The input that is submitted is the next one.
CountsInv ==
  /\ inputs \in Nat /\ inputs <= MaxInputs
  /\ handler = "submitting" => inputs < MaxInputs

LEMMA CountsKept ==
  ASSUME CountsInv, [Next]_vars
  PROVE  CountsInv'
<1> DEFINE Keeps == inputs' = inputs /\ (handler' = "submitting" => handler = "submitting")
           Counts == /\ handler = "submitting" /\ inputs' = inputs + 1
                     /\ handler' # "submitting"
<1>0. Keeps \/ Counts => CountsInv'
  BY RuntimeAssumption DEF CountsInv
<1> USE DEF budget
<1>1. CASE UNCHANGED vars
  BY <1>0, <1>1 DEF vars
<1>2. CASE User
  BY <1>2 DEF User, MousePress, SubmitTextToAgent, CancelActiveStreaming,
              CancelOrphanStreaming, CountsInv
<1>3. ASSUME NEW f \in Frame, Perception(f) PROVE Keeps
  BY <1>3 DEF Perception, FrameArrives, FrameQueued, FrameIgnored, FrameStarts, FrameRefused,
              UnchangedFrameQueuesContext, FrameWithoutDag, StartInvocation
<1>4. ASSUME NEW g \in Graph, Reload(g) PROVE Keeps
  BY <1>4 DEF Reload, ReloadApplied, ReloadDeferred, ReloadRequested
<1>5. CASE Callback
  <2>1. Keeps
    BY <1>5 DEF Callback, LateAnswer, DirectAnswer, ResumePendingNode, AnswerFails, Answered,
                ResumeHandlers
  <2> QED BY <1>0, <2>1
<1>6. CASE TimerFires
  <2>1. Keeps
    BY <1>6 DEF TimerFires, TimeoutIgnored, HandlePendingRequestTimeout, Closing
  <2> QED BY <1>0, <2>1
<1>7. CASE KickRuns
  <2>1. Keeps
    BY <1>7 DEF KickRuns, KickAppliesReload, KickKeepsGraph, KickPosted
  <2> QED BY <1>0, <2>1
<1>8. CASE Submission
  <2>1. Counts
    BY <1>8 DEF Submission, Submitting, NewInput, SubmitQueued, SubmitRejected, SubmitStarts,
                SubmitRefused, SubmitDirect, SubmitDirectFails, StartInvocation
  <2> QED BY <1>0, <2>1
<1>9. CASE Start
  <2>1. Keeps
    BY <1>9 DEF Start, StartsNothing, StartsNext, NextRefused, Dequeuing, StartInvocation
  <2> QED BY <1>0, <2>1
<1>10. CASE Pump
  <2>1. Keeps
    BY <1>10 DEF Pump, RunNode, RunOutput, RunPending, NodeStep, RegistrationFails, FailPump,
                 HandleFailedPump, Closing, SuspendPump, CompleteInvocation
  <2> QED BY <1>0, <2>1
<1>11. CASE CloseInvocation
  BY <1>0, <1>11 DEF CloseInvocation
<1> QED
  BY <1>0, <1>1, <1>2, <1>3, <1>4, <1>5, <1>6, <1>7, <1>8, <1>9, <1>10, <1>11
     DEF Next, HandlerStep

LEMMA ContextLater ==
  ASSUME NEW last \in Nat, NEW later \in Nat, last <= later,
         NEW c, ContextOk(c, last)
  PROVE  ContextOk(c, later)
BY OlderConversation DEF ContextOk

LEMMA EntryLater ==
  ASSUME NEW last \in Nat, NEW later \in Nat, last <= later,
         NEW e, EntryOk(e, last)
  PROVE  EntryOk(e, later)
BY OlderConversation DEF EntryOk

\* The contexts a step makes are contexts.
LEMMA EmptyIsContext == \A last : ContextOk(EmptyContext, last)
<1>1. Conversation(<<>>, 0) /\ \A last : Conversation(<<>>, last)
  BY RuntimeAssumption DEF Conversation
<1>2. EmptyContext \in Context
  BY DEF EmptyContext, Context
<1> QED BY <1>1, <1>2 DEF ContextOk, EmptyContext

LEMMA WithoutInputFacts ==
  ASSUME NEW last, NEW c, ContextOk(c, last)
  PROVE  /\ ContextOk(WithoutInput(c), last)
         /\ WithoutInput(c).trigger = Absent /\ WithoutInput(c).input = Absent
         /\ WithoutInput(c).history = c.history
BY DEF ContextOk, Context, WithoutInput

LEMMA InputContextFacts ==
  ASSUME SessionOk, CountsInv, handler = "submitting"
  PROVE  /\ ContextOk(InputContext, nextInvocationId)
         /\ InputContext.input = NewInput /\ NewInput \in 1..MaxInputs
<1>1. NewInput \in 1..MaxInputs
  BY RuntimeAssumption DEF CountsInv, NewInput
<1> QED BY <1>1 DEF SessionOk, ContextOk, Context, InputContext, Trigger

LEMMA FrameContextFacts ==
  ASSUME SessionOk, ContextOk(ctx, nextInvocationId), NEW f \in Frame
  PROVE  /\ ContextOk(FrameContext(f), nextInvocationId) /\ FrameContext(f).input = Absent
         /\ ContextOk(IdleContext(f), nextInvocationId)
         /\ IdleContext(f).input = Absent \/ IdleContext(f) = ctx
<1>1. ContextOk(FrameContext(f), nextInvocationId) /\ FrameContext(f).input = Absent
  BY DEF SessionOk, ContextOk, Context, FrameContext, Trigger
<1> QED BY <1>1 DEF IdleContext, SessionOk

LEMMA ViewFacts ==
  ASSUME ContextsInv, isActive, invocationId \in Nat, invocationId <= nextInvocationId,
         nextInvocationId \in Nat, NEW v \in Views
  PROVE  ContextOk(v, nextInvocationId) /\ v.input = turn.input
<1>1. CASE v = turn
  BY <1>1 DEF ContextsInv
<1>2. CASE v = AppendHistory(turn, invocationId)
  <2>1. turn \in Context /\ Conversation(turn.history, invocationId - 1)
    BY DEF ContextsInv, ContextOk
  <2>2. Conversation(v.history, nextInvocationId)
    BY <1>2, <2>1, HistoryAppended, OlderConversation
  <2>3. v \in Context /\ v.trigger = turn.trigger /\ v.input = turn.input
    BY <1>2, <2>1, OnlyHistory
  <2> QED BY <2>2, <2>3 DEF ContextsInv, ContextOk
<1> QED BY <1>1, <1>2 DEF Views

\* The head of the queue and what is left of it.
LEMMA TailFacts ==
  ASSUME QueueOk, queue # <<>>
  PROVE  /\ Tail(queue) \in Seq(QueueEntry) /\ Len(Tail(queue)) = Len(queue) - 1
         /\ \A i \in 1..(Len(queue) - 1) : Tail(queue)[i] = queue[i + 1]
         /\ Len(queue) \in Nat /\ Len(queue) >= 1 /\ Head(queue) = queue[1]
         /\ EntryOk(Head(queue), nextInvocationId)
<1>1. queue \in Seq(QueueEntry) /\ queue # <<>>
  BY DEF QueueOk
<1>2. /\ Tail(queue) \in Seq(QueueEntry) /\ Len(Tail(queue)) = Len(queue) - 1
      /\ \A i \in 1..(Len(queue) - 1) : Tail(queue)[i] = queue[i + 1]
      /\ Len(queue) \in Nat /\ Len(queue) >= 1 /\ Head(queue) = queue[1]
  BY <1>1
<1> QED BY <1>2 DEF QueueOk

LEMMA Predecessor ==
  \A m, n \in Nat : (n > m => m <= n - 1) /\ (m <= n - 1 => n - 1 \in Nat)
OBVIOUS

LEMMA ContextsKept ==
  ASSUME ContextsInv, CountsInv, RuntimeInv, [Next]_vars
  PROVE  ContextsInv'
<1> DEFINE now == nextInvocationId
           next == nextInvocationId'
<1>1. /\ now \in Nat /\ invocationId \in Nat
      /\ isActive => invocationId = now
      /\ next \in Nat /\ invocationId' \in Nat
      /\ now <= next
      /\ isActive' => (isActive /\ invocationId' = invocationId) \/ now <= invocationId' - 1
  <2>1. /\ now \in Nat /\ invocationId \in Nat
        /\ isActive => invocationId = now
    BY DEF RuntimeInv, ExecProofs!ExecutorInv, ExecProofs!TypeOK, ExecProofs!ActiveIdIsNewest
  <2>2. next \in Nat /\ invocationId' \in Nat
    BY NextRuntimeInv DEF RuntimeInv, ExecProofs!ExecutorInv, ExecProofs!TypeOK
  <2>3. [Exec!Next]_(Exec!vars)
    BY NextRuntimeInv
  <2>4. /\ next >= now
        /\ \/ ~isActive'
           \/ isActive /\ invocationId' = invocationId
           \/ invocationId' > now
    BY <2>1, <2>3, IdsGrow
  <2>5. ASSUME isActive', ~(isActive /\ invocationId' = invocationId)
        PROVE  now <= invocationId' - 1
    <3>1. invocationId' > now
      BY <2>4, <2>5
    <3> QED BY <2>1, <2>2, <3>1, Predecessor
  <2>6. now <= next
    BY <2>1, <2>2, <2>4
  <2> HIDE DEF now, next
  <2> QED BY <2>1, <2>2, <2>5, <2>6
<1>2. \A c : ContextOk(c, now) => ContextOk(c, next)
  BY <1>1, ContextLater
<1>3. \A e : EntryOk(e, now) => EntryOk(e, next)
  BY <1>1, EntryLater
<1>4. /\ SessionOk /\ ContextOk(session, now) /\ ContextOk(ctx, now) /\ ContextOk(turn, now)
      /\ isActive => Conversation(turn.history, invocationId - 1)
      /\ QueueOk
  BY DEF ContextsInv, SessionOk
<1>5. \A v \in Views : isActive => (ContextOk(v, now) /\ v.input = turn.input)
  BY <1>1, ViewFacts
<1>6. ASSUME session' = session PROVE SessionOk'
  BY <1>2, <1>4, <1>6 DEF SessionOk
<1>7. ASSUME turn' = turn
      PROVE  ContextOk(turn', next) /\ (isActive' => Conversation(turn'.history, invocationId' - 1))
  <2>1. ASSUME now <= invocationId' - 1
        PROVE  Conversation(turn.history, invocationId' - 1)
    <3>1. invocationId' - 1 \in Nat
      BY <1>1, <2>1, Predecessor
    <3>2. Conversation(turn.history, now)
      BY <1>4 DEF ContextOk
    <3> QED BY <1>1, <2>1, <3>1, <3>2, OlderConversation
  <2> QED BY <1>1, <1>2, <1>4, <1>7, <2>1
<1>8. ASSUME turn' = EmptyContext
      PROVE  ContextOk(turn', next) /\ (isActive' => Conversation(turn'.history, invocationId' - 1))
  BY <1>8, EmptyIsContext DEF ContextOk
<1>9. ASSUME queue' = queue PROVE QueueOk'
  BY <1>3, <1>4, <1>9 DEF QueueOk
<1>10. ASSUME queue # <<>>, queue' = Tail(queue) PROVE QueueOk'
  <2>1. /\ Tail(queue) \in Seq(QueueEntry) /\ Len(Tail(queue)) = Len(queue) - 1
        /\ \A i \in 1..(Len(queue) - 1) : Tail(queue)[i] = queue[i + 1]
        /\ Len(queue) \in Nat
    BY <1>4, <1>10, TailFacts
  <2>2. ASSUME NEW i \in 1..Len(queue') PROVE EntryOk(queue'[i], next)
    <3>1. queue'[i] = queue[i + 1] /\ i + 1 \in 1..Len(queue)
      BY <1>10, <2>1, <2>2
    <3> QED BY <1>3, <1>4, <3>1 DEF QueueOk
  <2> QED BY <1>10, <2>1, <2>2 DEF QueueOk
<1>11. ASSUME NEW c, ContextOk(c, now), queue' = Queue!AfterEnqueue(queue, Delta(c))
       PROVE  QueueOk'
  <2>1. EntryOk(Delta(c), now)
    BY <1>4, <1>11, DeltaFacts
  <2>2. /\ queue' \in Seq(QueueEntry) /\ Len(queue') >= 1 /\ queue'[Len(queue')] = Delta(c)
        /\ \E at \in [1..(Len(queue') - 1) -> 1..Len(queue)] :
              \A i \in 1..(Len(queue') - 1) : queue'[i] = queue[at[i]]
    <3> DEFINE q == queue'
               e == Delta(c)
    <3>1. EntryOk(e, nextInvocationId) /\ q = Queue!AfterEnqueue(queue, e)
      BY <1>11, <2>1
    <3> HIDE DEF q, e
    <3>2. /\ q \in Seq(QueueEntry) /\ Len(q) >= 1 /\ q[Len(q)] = e
          /\ \E at \in [1..(Len(q) - 1) -> 1..Len(queue)] :
                \A i \in 1..(Len(q) - 1) : q[i] = queue[at[i]]
      BY <1>4, <3>1, EnqueueFacts
    <3> QED BY <3>2 DEF q, e
  <2>3. ASSUME NEW i \in 1..Len(queue') PROVE EntryOk(queue'[i], now)
    <3>1. CASE i = Len(queue')
      BY <2>1, <2>2, <3>1
    <3>2. CASE i # Len(queue')
      <4>1. i \in 1..(Len(queue') - 1)
        BY <2>2, <3>2
      <4>2. \E k \in 1..Len(queue) : queue'[i] = queue[k]
        BY <2>2, <4>1
      <4> QED BY <1>4, <4>2 DEF QueueOk
    <3> QED BY <3>1, <3>2
  <2> QED BY <1>3, <2>2, <2>3 DEF QueueOk
<1>12. ASSUME NEW c, ContextOk(c, now), Begins(c)
       PROVE  /\ SessionOk' /\ ContextOk(ctx', next) /\ ContextOk(turn', next)
              /\ Conversation(turn'.history, invocationId' - 1)
  <2>1. Conversation(c.history, now) /\ invocationId' - 1 = now
    BY <1>1, <1>12 DEF ContextOk, Begins
  <2> QED BY <1>2, <1>6, <1>12, <2>1 DEF Begins
<1>13. \A f \in Frame : ContextOk(FrameContext(f), now) /\ ContextOk(IdleContext(f), now)
  BY <1>4, FrameContextFacts
<1>14. ContextStep
  BY EveryContextStep
<1>15. CASE Settles
  <2>1. ContextOk(ctx', next)
    BY <1>2, <1>4, <1>15, WithoutInputFacts DEF Settles
  <2> QED BY <1>6, <1>7, <1>8, <1>9, <1>15, <2>1 DEF Settles, ContextsInv
<1>16. CASE Shows
  <2>1. ContextOk(ctx', next)
    BY <1>2, <1>5, <1>16 DEF Shows
  <2> QED BY <1>6, <1>7, <1>9, <1>16, <2>1 DEF Shows, ContextsInv
<1>17. CASE Commits
  <2>1. PICK v \in Views : session' = WithoutInput(v)
    BY <1>17 DEF Commits
  <2>2. ContextOk(v, now)
    BY <1>5, <1>17 DEF Commits
  <2>3. SessionOk'
    BY <1>2, <2>1, <2>2, WithoutInputFacts DEF SessionOk
  <2>4. ContextOk(ctx', next)
    BY <1>17, <2>3 DEF Commits, SessionOk
  <2> QED BY <1>8, <1>9, <1>17, <2>3, <2>4 DEF Commits, ContextsInv
<1>18. CASE InputBegins
  <2>1. ContextOk(InputContext, now)
    BY <1>4, <1>18, InputContextFacts DEF InputBegins
  <2> QED BY <1>9, <1>12, <1>18, <2>1 DEF InputBegins, ContextsInv
<1>19. CASE InputWaits
  <2>1. ContextOk(InputContext, now)
    BY <1>4, <1>19, InputContextFacts DEF InputWaits
  <2>2. QueueOk'
    BY <1>11, <1>19, <2>1 DEF InputWaits, Queues
  <2> QED BY <1>2, <1>4, <1>6, <1>7, <1>19, <2>2 DEF InputWaits, Queues, ContextsInv
<1>20. CASE InputDropped
  <2>1. ContextOk(InputContext, now)
    BY <1>4, <1>20, InputContextFacts DEF InputDropped
  <2>2. ContextOk(ctx', next)
    BY <1>2, <1>20, <2>1, WithoutInputFacts DEF InputDropped
  <2> QED BY <1>6, <1>7, <1>9, <1>20, <2>2 DEF InputDropped, ContextsInv
<1>21. ASSUME NEW f \in Frame, FrameBegins(f) PROVE ContextsInv'
  BY <1>9, <1>12, <1>13, <1>21 DEF FrameBegins, ContextsInv
<1>22. ASSUME NEW f \in Frame, FrameWaits(f) PROVE ContextsInv'
  <2>1. QueueOk'
    BY <1>11, <1>13, <1>22 DEF FrameWaits, Queues
  <2> QED BY <1>2, <1>4, <1>6, <1>7, <1>22, <2>1 DEF FrameWaits, Queues, ContextsInv
<1>23. ASSUME NEW f \in Frame, FrameDropped(f) PROVE ContextsInv'
  <2>1. ContextOk(ctx', next)
    BY <1>2, <1>13, <1>23 DEF FrameDropped
  <2> QED BY <1>6, <1>7, <1>9, <1>23, <2>1 DEF FrameDropped, ContextsInv
<1>24. CASE ContextWaits
  <2>1. QueueOk'
    BY <1>4, <1>11, <1>24 DEF ContextWaits, Queues
  <2> QED BY <1>2, <1>4, <1>6, <1>7, <1>24, <2>1 DEF ContextWaits, Queues, ContextsInv
<1>25. CASE QueuedBegins
  <2>1. ContextOk(Overlay(Head(queue)), now)
    BY <1>4, <1>25, TailFacts, OverlayFacts DEF QueuedBegins
  <2> QED BY <1>10, <1>12, <1>25, <2>1 DEF QueuedBegins, ContextsInv
<1>26. CASE QueuedDropped
  BY <1>2, <1>4, <1>6, <1>7, <1>10, <1>26 DEF QueuedDropped, ContextsInv
<1> QED
  BY <1>14, <1>15, <1>16, <1>17, <1>18, <1>19, <1>20, <1>21, <1>22, <1>23, <1>24, <1>25, <1>26
     DEF ContextStep

LEMMA InitContextsInv == Init => ContextsInv /\ CountsInv
<1> SUFFICES ASSUME Init PROVE ContextsInv /\ CountsInv
  OBVIOUS
<1>1. /\ session = EmptyContext /\ ctx = EmptyContext /\ turn = EmptyContext
      /\ queue = <<>> /\ inputs = 0 /\ handler = "none" /\ ~isActive
  BY DEF Init, Exec!Init
<1>2. \A last : ContextOk(EmptyContext, last)
  BY EmptyIsContext
<1>3. EmptyContext.trigger = Absent /\ EmptyContext.input = Absent
  BY DEF EmptyContext
<1>4. QueueOk
  BY <1>1 DEF QueueOk
<1> QED BY <1>1, <1>2, <1>3, <1>4, RuntimeAssumption DEF ContextsInv, SessionOk, CountsInv

\* RuntimeInv and the invariant about contexts hold in every reachable state.
THEOREM ContextsInvariant == Spec => [](RuntimeInv /\ ContextsInv /\ CountsInv)
<1>1. Init => RuntimeInv /\ ContextsInv /\ CountsInv
  BY InitRuntimeInv, InitContextsInv
<1>2. RuntimeInv /\ ContextsInv /\ CountsInv /\ [Next]_vars
        => (RuntimeInv /\ ContextsInv /\ CountsInv)'
  BY NextRuntimeInv, ContextsKept, CountsKept
<1> QED BY <1>1, <1>2, PTL DEF Spec

-----------------------------------------------------------------------------
(* The runtime's queue is the policy's *)

\* The two instances of the queue are the same.
LEMMA SameQueue ==
  ASSUME NEW q, NEW e
  PROVE  /\ Queue!Accepts(q, e) <=> QueueProofs!Accepts(q, e)
         /\ Queue!AfterEnqueue(q, e) = QueueProofs!AfterEnqueue(q, e)
<1>1. Queue!VisionIndices(q) = QueueProofs!VisionIndices(q)
  BY DEF Queue!VisionIndices, QueueProofs!VisionIndices, Queue!IsVision, QueueProofs!IsVision
<1>2. Queue!LatestFrame(q) = QueueProofs!LatestFrame(q)
  BY <1>1 DEF Queue!LatestFrame, QueueProofs!LatestFrame
<1>3. Queue!ReplacesFrame(q, e) <=> QueueProofs!ReplacesFrame(q, e)
  BY <1>1 DEF Queue!ReplacesFrame, QueueProofs!ReplacesFrame, Queue!IsVision, QueueProofs!IsVision
<1>4. \A i : Queue!RemoveAt(q, i) = QueueProofs!RemoveAt(q, i)
  BY DEF Queue!RemoveAt, QueueProofs!RemoveAt
<1> QED
  BY <1>2, <1>3, <1>4 DEF Queue!Accepts, QueueProofs!Accepts, Queue!AfterEnqueue,
                          QueueProofs!AfterEnqueue

\* What the runtime queues has a trigger: the handlers queue nothing else.
LEMMA QueuesIsEnqueue ==
  ASSUME SessionOk, NEW c, ContextOk(c, nextInvocationId), c.trigger # Absent, Queues(c)
  PROVE  QueueProofs!Next
<1> DEFINE e == Delta(c)
<1>1. e \in QueueEntry /\ e.trigger = c.trigger
  BY DeltaFacts DEF EntryOk
<1>2. c.trigger \in Trigger
  BY DEF ContextOk, Context
<1>3. Queue!Accepts(queue, e) /\ queue' = Queue!AfterEnqueue(queue, e)
  BY DEF Queues
<1> HIDE DEF e
<1>4. e \in QueueProofs!Entry
  BY <1>1, <1>2 DEF QueueEntry, QueueProofs!Entry
<1>5. QueueProofs!Enqueue(e)
  BY <1>3, SameQueue DEF QueueProofs!Enqueue
<1> QED BY <1>4, <1>5 DEF QueueProofs!Next

LEMMA QueueStep ==
  ASSUME RuntimeInv, ContextsInv, CountsInv, [Next]_vars
  PROVE  [QueueProofs!Next]_queue
<1>1. ContextStep
  BY EveryContextStep
<1>2. SessionOk /\ ContextOk(ctx, nextInvocationId)
  BY DEF ContextsInv
<1>3. CASE QueuedBegins \/ QueuedDropped
  BY <1>3 DEF QueuedBegins, QueuedDropped, QueueProofs!Next, QueueProofs!Dequeue
<1>4. CASE InputWaits
  <2>1. ContextOk(InputContext, nextInvocationId)
    BY <1>2, <1>4, InputContextFacts DEF InputWaits
  <2>2. InputContext.trigger # Absent
    BY <1>2, RuntimeAssumption DEF SessionOk, ContextOk, Context, InputContext, Trigger
  <2> QED BY <1>2, <1>4, <2>1, <2>2, QueuesIsEnqueue DEF InputWaits
<1>5. ASSUME NEW f \in Frame, FrameWaits(f) PROVE QueueProofs!Next
  <2>1. ContextOk(FrameContext(f), nextInvocationId)
    BY <1>2, FrameContextFacts
  <2>2. FrameContext(f).trigger # Absent
    BY <1>2, RuntimeAssumption DEF SessionOk, ContextOk, Context, FrameContext, Trigger
  <2> QED BY <1>2, <1>5, <2>1, <2>2, QueuesIsEnqueue DEF FrameWaits
<1>6. CASE ContextWaits
  BY <1>2, <1>6, QueuesIsEnqueue DEF ContextWaits
<1>7. CASE Settles \/ Shows \/ Commits \/ InputBegins \/ InputDropped
  BY <1>7 DEF Settles, Shows, Commits, InputBegins, InputDropped
<1>8. ASSUME NEW f \in Frame, FrameBegins(f) \/ FrameDropped(f) PROVE queue' = queue
  BY <1>8 DEF FrameBegins, FrameDropped
<1> QED BY <1>1, <1>3, <1>4, <1>5, <1>6, <1>7, <1>8 DEF ContextStep

LEMMA QueueSpecHolds == Spec => QueueProofs!Spec
<1>1. Init => QueueProofs!Init
  BY DEF Init, QueueProofs!Init
<1>2. RuntimeInv /\ ContextsInv /\ CountsInv /\ [Next]_vars => [QueueProofs!Next]_queue
  BY QueueStep
<1> QED BY <1>1, <1>2, ContextsInvariant, PTL DEF Spec, QueueProofs!Spec

\* What waits for its turn is an entry with a trigger; never more than
\* MAX_PENDING_INVOCATIONS of them, nor two frames, wait, whichever handler enqueues: a new
\* input, a new frame, or an unchanged frame with the context an earlier one left behind.
THEOREM RuntimeQueueIsBounded == Spec => [](QueueProofs!TypeOK /\ QueueProofs!Bounded)
BY QueueSpecHolds, QueueAssumptionHolds, QueueProofs!QueueBounded, PTL

\* The runtime's queue keeps the policy's promise: inputs are served in the order they were
\* accepted, only the newest frame waits, and it overtakes no input accepted before it.
THEOREM RuntimeImplementsQueuePolicy == Spec => QueueProofs!ImplementsPolicy
BY QueueSpecHolds, QueueAssumptionHolds, QueueProofs!PolicyIsImplemented, PTL

-----------------------------------------------------------------------------
(* The invariant about inputs *)

\* A smaller input behind a larger one has been there before.
InOrder(s) ==
  \A i, j \in 1..Len(s) : (i < j /\ s[i] > s[j]) => \E k \in 1..(i - 1) : s[k] = s[j]

\* x was in s, or is not older than what is in s.
NotOvertaken(x, s) == x \in ToSet(s) \/ \A i \in 1..Len(s) : s[i] <= x

WaitsInOrder(q, s) ==
  \A j \in 1..Len(q) : InputOf(q[j]) # Absent =>
    \/ InputOf(q[j]) \in ToSet(s)
    \/ /\ \A i \in 1..Len(s) : s[i] <= InputOf(q[j])
       /\ \A i \in 1..(j - 1) : InputOf(q[i]) # Absent => InputOf(q[i]) <= InputOf(q[j])

\* The context at hand has no input, one that has started or the newest one.
InputsInv ==
  /\ started \in Seq(1..inputs)
  /\ InOrder(started)
  /\ WaitsInOrder(queue, started)
  /\ QueuedInputs \subseteq 1..inputs
  /\ turn.input # Absent => turn.input \in ToSet(started)
  /\ ctx.input # Absent => ctx.input \in ToSet(started) \/ ctx.input = inputs
  /\ NoInputLost

LEMMA SetFacts ==
  ASSUME NEW S, NEW s \in Seq(S)
  PROVE  /\ \A x : x \in ToSet(s) <=> \E i \in 1..Len(s) : s[i] = x
         /\ ToSet(s) \subseteq S
BY DEF ToSet

LEMMA QueuedFacts ==
  \A x : x \in QueuedInputs <=> x # Absent /\ \E i \in 1..Len(queue) : InputOf(queue[i]) = x
BY DEF QueuedInputs

\* The n inputs so far may start in the order s, and x after them.
Line(s, n) == n \in Nat /\ s \in Seq(1..n) /\ InOrder(s)
MayFollow(s, x, n) == Line(s, n) /\ x \in 1..n /\ NotOvertaken(x, s)

LEMMA StartFacts ==
  ASSUME NEW n, NEW s, NEW x, MayFollow(s, x, n)
  PROVE  Line(Append(s, x), n) /\ ToSet(Append(s, x)) = ToSet(s) \cup {x}
<1> DEFINE t == Append(s, x)
<1>0. n \in Nat /\ s \in Seq(1..n) /\ InOrder(s) /\ x \in 1..n /\ NotOvertaken(x, s)
  BY DEF MayFollow, Line
<1>1. /\ t \in Seq(1..n) /\ Len(t) = Len(s) + 1 /\ t[Len(t)] = x
      /\ \A i \in 1..Len(s) : t[i] = s[i] /\ s[i] \in 1..n
      /\ Len(s) \in Nat
  BY <1>0
<1> HIDE DEF t
<1>2. ASSUME NEW i \in 1..Len(t), NEW j \in 1..Len(t), i < j, t[i] > t[j]
      PROVE  \E k \in 1..(i - 1) : t[k] = t[j]
  <2>1. i \in 1..Len(s) /\ t[i] = s[i]
    BY <1>1, <1>2
  <2>2. CASE j \in 1..Len(s)
    <3>1. PICK k \in 1..(i - 1) : s[k] = s[j]
      BY <1>0, <1>1, <1>2, <2>1, <2>2 DEF InOrder
    <3> QED BY <1>1, <2>1, <2>2, <3>1
  <2>3. CASE j = Len(t)
    <3>1. x \in ToSet(s)
      BY <1>0, <1>1, <1>2, <2>1, <2>3 DEF NotOvertaken
    <3>2. PICK m \in 1..Len(s) : s[m] = x
      BY <1>0, <3>1, SetFacts
    <3>3. \E k \in 1..(i - 1) : s[k] = x
      <4>1. CASE m < i
        BY <1>1, <2>1, <3>2, <4>1
      <4>2. CASE m > i
        BY <1>0, <1>1, <1>2, <2>1, <2>3, <3>2, <4>2 DEF InOrder
      <4>3. m # i
        BY <1>1, <1>2, <2>1, <2>3, <3>2
      <4>4. m < i \/ m > i
        BY <1>1, <2>1, <4>3
      <4> QED BY <4>1, <4>2, <4>4
    <3>4. PICK k \in 1..(i - 1) : s[k] = x
      BY <3>3
    <3> QED BY <1>1, <2>1, <2>3, <3>4
  <2> QED BY <1>1, <2>2, <2>3
<1>3. ToSet(t) = ToSet(s) \cup {x}
  <2>1. \A y : y \in ToSet(t) <=> \E i \in 1..Len(t) : t[i] = y
    BY <1>1, SetFacts
  <2>2. \A y : y \in ToSet(s) <=> \E i \in 1..Len(s) : s[i] = y
    BY <1>0, SetFacts
  <2>3. ASSUME NEW y \in ToSet(t) PROVE y \in ToSet(s) \cup {x}
    <3>1. PICK i \in 1..Len(t) : t[i] = y
      BY <2>1
    <3>2. i \in 1..Len(s) \/ i = Len(t)
      BY <1>1
    <3> QED BY <1>1, <2>2, <3>1, <3>2
  <2>4. ASSUME NEW y \in ToSet(s) \cup {x} PROVE y \in ToSet(t)
    <3>1. CASE y = x
      BY <1>1, <2>1, <3>1
    <3>2. CASE y \in ToSet(s)
      <4>1. PICK i \in 1..Len(s) : s[i] = y
        BY <2>2, <3>2
      <4>2. i \in 1..Len(t) /\ t[i] = y
        BY <1>1, <4>1
      <4> QED BY <2>1, <4>2
    <3> QED BY <3>1, <3>2
  <2> QED BY <2>3, <2>4
<1>4. Line(t, n)
  BY <1>0, <1>1, <1>2 DEF Line, InOrder
<1> QED BY <1>3, <1>4 DEF t

InputsIn(q) == {InputOf(q[i]) : i \in 1..Len(q)} \ {Absent}

MayWait(x) ==
  \/ x \in {Absent} \cup ToSet(started)
  \/ /\ \A i \in 1..Len(started) : started[i] <= x
     /\ \A y \in QueuedInputs : y <= x

\* The entries that start or wait once one is queued: what waited keeps its place.
LEMMA QueuedInOrder ==
  ASSUME QueueOk, InputsInv, NEW e, EntryOk(e, nextInvocationId), MayWait(InputOf(e)),
         NEW q, q = Queue!AfterEnqueue(queue, e)
  PROVE  /\ WaitsInOrder(q, started)
         /\ InputsIn(q) = QueuedInputs \cup ({InputOf(e)} \ {Absent})
<1>1. /\ q \in Seq(QueueEntry) /\ Len(q) >= 1 /\ q[Len(q)] = e /\ Len(q) \in Nat
      /\ \E at \in [1..(Len(q) - 1) -> 1..Len(queue)] :
           /\ \A i \in 1..(Len(q) - 1) : q[i] = queue[at[i]]
           /\ \A i, j \in 1..(Len(q) - 1) : i < j => at[i] < at[j]
           /\ \A k \in 1..Len(queue) :
                InputOf(queue[k]) # Absent => \E i \in 1..(Len(q) - 1) : at[i] = k
  BY EnqueueFacts
<1>2. PICK at \in [1..(Len(q) - 1) -> 1..Len(queue)] :
        /\ \A i \in 1..(Len(q) - 1) : q[i] = queue[at[i]]
        /\ \A i, j \in 1..(Len(q) - 1) : i < j => at[i] < at[j]
        /\ \A k \in 1..Len(queue) :
             InputOf(queue[k]) # Absent => \E i \in 1..(Len(q) - 1) : at[i] = k
  BY <1>1
<1>3. Len(queue) \in Nat /\ Len(started) \in Nat
  BY DEF QueueOk, InputsInv
<1> HIDE DEF QueuedInputs
<1>4. ASSUME NEW i \in 1..(Len(q) - 1), InputOf(q[i]) # Absent
      PROVE  InputOf(q[i]) \in QueuedInputs
  BY <1>2, <1>4, QueuedFacts
<1>5. ASSUME NEW j \in 1..Len(q), InputOf(q[j]) # Absent, InputOf(q[j]) \notin ToSet(started)
      PROVE  /\ \A i \in 1..Len(started) : started[i] <= InputOf(q[j])
             /\ \A i \in 1..(j - 1) :
                  InputOf(q[i]) # Absent => InputOf(q[i]) <= InputOf(q[j])
  <2>1. CASE j = Len(q)
    BY <1>1, <1>4, <1>5, <2>1 DEF MayWait
  <2>2. CASE j # Len(q)
    <3>0. j \in 1..(Len(q) - 1)
      BY <1>1, <2>2
    <3>1. j \in 1..(Len(q) - 1) /\ at[j] \in 1..Len(queue) /\ q[j] = queue[at[j]]
      BY <1>2, <3>0
    <3>2. /\ \A i \in 1..Len(started) : started[i] <= InputOf(q[j])
          /\ \A i \in 1..(at[j] - 1) :
               InputOf(queue[i]) # Absent => InputOf(queue[i]) <= InputOf(q[j])
      BY <1>5, <3>1 DEF InputsInv, WaitsInOrder
    <3>3. ASSUME NEW i \in 1..(j - 1), InputOf(q[i]) # Absent
          PROVE  InputOf(q[i]) <= InputOf(q[j])
      <4>1. i \in 1..(Len(q) - 1) /\ i < j
        BY <1>1, <3>1
      <4>2. at[i] < at[j] /\ at[i] \in 1..Len(queue) /\ q[i] = queue[at[i]]
        BY <1>2, <3>1, <4>1
      <4>3. at[i] \in 1..(at[j] - 1)
        BY <1>3, <3>1, <4>2
      <4> QED BY <3>2, <3>3, <4>2, <4>3
    <3> QED BY <3>2, <3>3
  <2> QED BY <2>1, <2>2
<1>6. ASSUME NEW x \in {InputOf(q[i]) : i \in 1..Len(q)} \ {Absent}
      PROVE  x \in QueuedInputs \cup ({InputOf(e)} \ {Absent})
  <2>1. PICK i \in 1..Len(q) : x = InputOf(q[i]) /\ x # Absent
    BY <1>6
  <2>2. i = Len(q) \/ i \in 1..(Len(q) - 1)
    BY <1>1
  <2> QED BY <1>1, <1>4, <2>1, <2>2
<1>7. ASSUME NEW x \in QueuedInputs \cup ({InputOf(e)} \ {Absent})
      PROVE  x \in {InputOf(q[i]) : i \in 1..Len(q)} \ {Absent}
  <2>1. CASE x \in QueuedInputs
    <3>1. PICK k \in 1..Len(queue) : x = InputOf(queue[k]) /\ x # Absent
      BY <2>1, QueuedFacts
    <3>2. PICK i \in 1..(Len(q) - 1) : at[i] = k
      BY <1>2, <3>1
    <3>3. i \in 1..Len(q) /\ InputOf(q[i]) = x
      BY <1>1, <1>2, <3>1, <3>2
    <3> QED BY <3>1, <3>3
  <2>2. CASE x \in {InputOf(e)} \ {Absent}
    <3>1. Len(q) \in 1..Len(q)
      BY <1>1
    <3> QED BY <1>1, <2>2, <3>1
  <2> QED BY <1>7, <2>1, <2>2
<1>8. WaitsInOrder(q, started)
  BY <1>5 DEF WaitsInOrder
<1> QED BY <1>6, <1>7, <1>8 DEF InputsIn

\* What is left of the queue once its head is gone.
LEMMA LeftInOrder ==
  ASSUME QueueOk, queue # <<>>, InputsInv
  PROVE  /\ InputOf(queue[1]) # Absent => NotOvertaken(InputOf(queue[1]), started)
         /\ WaitsInOrder(Tail(queue), started)
         /\ InputOf(queue[1]) # Absent =>
              WaitsInOrder(Tail(queue), Append(started, InputOf(queue[1])))
         /\ InputsIn(Tail(queue)) \subseteq QueuedInputs
         /\ QueuedInputs \subseteq InputsIn(Tail(queue)) \cup ({InputOf(queue[1])} \ {Absent})
<1> DEFINE q == Tail(queue)
           x == InputOf(queue[1])
<1>1. /\ Len(q) = Len(queue) - 1 /\ Len(q) \in Nat
      /\ \A i \in 1..Len(q) : q[i] = queue[i + 1] /\ i + 1 \in 1..Len(queue)
      /\ 1 \in 1..Len(queue)
  BY TailFacts
<1> HIDE DEF q
<1>2. x # Absent => NotOvertaken(x, started)
  BY <1>1 DEF InputsInv, WaitsInOrder, NotOvertaken
<1>3. ASSUME NEW j \in 1..Len(q), InputOf(q[j]) # Absent, InputOf(q[j]) \notin ToSet(started)
      PROVE  /\ \A i \in 1..Len(started) : started[i] <= InputOf(q[j])
             /\ \A i \in 1..(j - 1) :
                  InputOf(q[i]) # Absent => InputOf(q[i]) <= InputOf(q[j])
             /\ x # Absent => x <= InputOf(q[j])
  <2>1. /\ \A i \in 1..Len(started) : started[i] <= InputOf(q[j])
        /\ \A i \in 1..j :
             InputOf(queue[i]) # Absent => InputOf(queue[i]) <= InputOf(q[j])
    <3>1. j + 1 \in 1..Len(queue) /\ q[j] = queue[j + 1] /\ (j + 1) - 1 = j
      BY <1>1
    <3> QED BY <1>3, <3>1 DEF InputsInv, WaitsInOrder
  <2>2. ASSUME NEW i \in 1..(j - 1), InputOf(q[i]) # Absent
        PROVE  InputOf(q[i]) <= InputOf(q[j])
    <3>1. i \in 1..Len(q) /\ i + 1 \in 1..j
      BY <1>1
    <3> QED BY <1>1, <2>1, <2>2, <3>1
  <2>3. 1 \in 1..j
    BY <1>1
  <2> QED BY <2>1, <2>2, <2>3
<1>4. WaitsInOrder(q, started)
  BY <1>3 DEF WaitsInOrder
<1>5. ASSUME x # Absent PROVE WaitsInOrder(q, Append(started, x))
  <2> DEFINE t == Append(started, x)
  <2>0. started \in Seq(1..inputs) /\ x \in 1..inputs
    <3>1. x \in QueuedInputs
      BY <1>1, <1>5, QueuedFacts
    <3> QED BY <3>1 DEF InputsInv
  <2>1. /\ t \in Seq(1..inputs) /\ Len(t) = Len(started) + 1 /\ t[Len(t)] = x
        /\ \A i \in 1..Len(started) : t[i] = started[i] /\ i \in 1..Len(t)
        /\ Len(started) \in Nat
    BY <2>0
  <2> HIDE DEF t, x
  <2>2. ToSet(started) \subseteq ToSet(t)
    <3> SUFFICES ASSUME NEW y \in ToSet(started) PROVE y \in ToSet(t)
      OBVIOUS
    <3>1. PICK i \in 1..Len(started) : started[i] = y
      BY <2>0, SetFacts
    <3>2. i \in 1..Len(t) /\ t[i] = y
      BY <2>1, <3>1
    <3> QED BY <2>1, <3>2, SetFacts
  <2>3. ASSUME NEW j \in 1..Len(q), InputOf(q[j]) # Absent, InputOf(q[j]) \notin ToSet(t),
               NEW i \in 1..Len(t)
        PROVE  t[i] <= InputOf(q[j])
    <3>1. i \in 1..Len(started) \/ i = Len(t)
      BY <2>1
    <3>2. InputOf(q[j]) \notin ToSet(started)
      BY <2>2, <2>3
    <3> QED BY <1>3, <1>5, <2>1, <2>3, <3>1, <3>2
  <2>4. ASSUME NEW j \in 1..Len(q), InputOf(q[j]) # Absent, InputOf(q[j]) \notin ToSet(t)
        PROVE  \A i \in 1..(j - 1) :
                 InputOf(q[i]) # Absent => InputOf(q[i]) <= InputOf(q[j])
    BY <1>3, <2>2, <2>4
  <2>5. WaitsInOrder(q, t)
    BY <2>3, <2>4 DEF WaitsInOrder
  <2> QED BY <2>5 DEF t, x
<1>6. InputsIn(q) \subseteq QueuedInputs
  BY <1>1, QueuedFacts DEF InputsIn
<1>7. ASSUME NEW y \in QueuedInputs
      PROVE  y \in InputsIn(q) \cup ({x} \ {Absent})
  <2>1. PICK k \in 1..Len(queue) : y = InputOf(queue[k]) /\ y # Absent
    BY QueuedFacts
  <2>2. CASE k = 1
    BY <2>1, <2>2
  <2>3. CASE k # 1
    <3>1. k - 1 \in 1..Len(q) /\ (k - 1) + 1 = k
      BY <1>1, <2>3
    <3>2. InputOf(q[k - 1]) = y
      BY <1>1, <2>1, <3>1
    <3> QED BY <2>1, <3>1, <3>2 DEF InputsIn
  <2> QED BY <2>2, <2>3
<1> QED BY <1>2, <1>4, <1>5, <1>6, <1>7 DEF q

LEMMA InitInputsInv == Init => InputsInv
<1> SUFFICES ASSUME Init PROVE InputsInv
  OBVIOUS
<1>1. /\ ctx = EmptyContext /\ turn = EmptyContext
      /\ queue = <<>> /\ inputs = 0 /\ started = <<>>
  BY DEF Init
<1>2. started \in Seq(1..inputs) /\ InOrder(started) /\ WaitsInOrder(queue, started)
  BY <1>1 DEF InOrder, WaitsInOrder
<1>3. QueuedInputs \subseteq 1..inputs
  BY <1>1 DEF QueuedInputs
<1>4. EmptyContext.input = Absent
  BY DEF EmptyContext
<1>5. NoInputLost
  BY <1>1 DEF NoInputLost
<1> QED BY <1>1, <1>2, <1>3, <1>4, <1>5 DEF InputsInv

LEMMA InputsKept ==
  ASSUME InputsInv, ContextsInv, CountsInv, RuntimeInv, [Next]_vars
  PROVE  InputsInv'
<1>0. InputsInv
  OBVIOUS
<1>1. /\ SessionOk /\ QueueOk /\ session.input = Absent
      /\ ContextOk(ctx, nextInvocationId) /\ ContextOk(turn, nextInvocationId)
      /\ inputs \in Nat
      /\ started \in Seq(1..inputs) /\ started \in Seq(1..(inputs + 1))
  <2>1. SessionOk /\ QueueOk /\ ContextOk(ctx, nextInvocationId)
        /\ ContextOk(turn, nextInvocationId) /\ inputs \in Nat /\ started \in Seq(1..inputs)
    BY DEF ContextsInv, CountsInv, InputsInv
  <2>2. started \in Seq(1..(inputs + 1))
    BY <2>1
  <2> QED BY <2>1, <2>2 DEF SessionOk
<1>2. /\ InOrder(started) /\ WaitsInOrder(queue, started)
      /\ QueuedInputs \subseteq 1..inputs
      /\ turn.input # Absent => turn.input \in ToSet(started)
      /\ ctx.input # Absent => ctx.input \in ToSet(started) \/ ctx.input = inputs
      /\ isLoaded => 1..inputs \subseteq ToSet(started) \cup QueuedInputs \cup refused
  BY DEF InputsInv, NoInputLost
<1>3. \A last, c : ContextOk(c, last) => WithoutInput(c).input = Absent
  BY WithoutInputFacts
<1>4. queue' = queue => QueuedInputs' = QueuedInputs
  BY DEF QueuedInputs
<1>5. QueuedInputs' = InputsIn(queue')
  BY DEF QueuedInputs, InputsIn
<1>6. NoInputLost' <=>
        (isLoaded' => 1..inputs' \subseteq ToSet(started') \cup QueuedInputs' \cup refused')
  BY DEF NoInputLost
<1>7. ContextStep /\ isLoaded' = isLoaded
  BY EveryContextStep
<1>8. EmptyContext.input = Absent
  BY DEF EmptyContext
<1> HIDE DEF QueuedInputs
\* Nothing starts, is queued or is dropped.
<1>9. ASSUME UNCHANGED <<queue, started, refused, inputs>>,
             turn' \in {turn, EmptyContext},
             ctx'.input \in {ctx.input, turn.input, Absent}
      PROVE  InputsInv'
  <2>1. started' \in Seq(1..inputs') /\ InOrder(started') /\ WaitsInOrder(queue', started')
    BY <1>1, <1>2, <1>9
  <2>2. QueuedInputs' \subseteq 1..inputs' /\ NoInputLost'
    BY <1>2, <1>4, <1>6, <1>7, <1>9
  <2>3. turn'.input # Absent => turn'.input \in ToSet(started')
    BY <1>2, <1>8, <1>9
  <2>4. ctx'.input # Absent => ctx'.input \in ToSet(started') \/ ctx'.input = inputs'
    BY <1>2, <1>9
  <2> QED BY <2>1, <2>2, <2>3, <2>4 DEF InputsInv
\* An invocation begins with context c.
<1>10. ASSUME NEW c, Begins(c), inputs' \in {inputs, inputs + 1},
              c.input # Absent => c.input \in 1..inputs' /\ NotOvertaken(c.input, started)
       PROVE  /\ started' \in Seq(1..inputs') /\ InOrder(started')
              /\ ToSet(started') = ToSet(started) \cup ({c.input} \ {Absent})
              /\ turn'.input # Absent => turn'.input \in ToSet(started')
              /\ ctx'.input # Absent => ctx'.input \in ToSet(started')
  <2>0. inputs' \in Nat /\ started \in Seq(1..inputs')
    BY <1>1, <1>10
  <2>1. turn'.input = c.input /\ ctx'.input = c.input
    BY <1>10 DEF Begins
  <2>2. CASE c.input = Absent
    BY <1>2, <1>10, <2>0, <2>1, <2>2 DEF Begins
  <2>3. CASE c.input # Absent
    <3>1. started' = Append(started, c.input)
      BY <1>10, <2>3 DEF Begins
    <3>2. MayFollow(started, c.input, inputs')
      BY <1>2, <1>10, <2>0, <2>3 DEF MayFollow, Line
    <3>3. Line(started', inputs') /\ ToSet(started') = ToSet(started) \cup {c.input}
      BY <3>1, <3>2, StartFacts
    <3> QED BY <2>1, <2>3, <3>3 DEF Line
  <2> QED BY <2>2, <2>3
\* Context c is queued.
<1>11. ASSUME NEW c, Queues(c), ContextOk(c, nextInvocationId),
              c.input # Absent => c.input \in ToSet(started) \/ c.input \in {inputs, inputs + 1}
       PROVE  /\ WaitsInOrder(queue', started)
              /\ QueuedInputs' = QueuedInputs \cup ({c.input} \ {Absent})
  <2> DEFINE e == Delta(c)
             q == queue'
  <2>1. EntryOk(e, nextInvocationId) /\ InputOf(e) = c.input
    BY <1>1, <1>11, DeltaFacts
  <2>2. q = Queue!AfterEnqueue(queue, e)
    BY <1>11 DEF Queues
  <2>3. MayWait(InputOf(e))
    <3>1. CASE c.input \in {Absent} \cup ToSet(started)
      BY <2>1, <3>1 DEF MayWait
    <3>2. CASE c.input \in {inputs, inputs + 1}
      <4>1. \A k \in 1..inputs : k <= c.input
        BY <1>1, <3>2
      <4>2. \A i \in 1..Len(started) : started[i] \in 1..inputs
        BY <1>1
      <4> QED BY <1>2, <2>1, <4>1, <4>2 DEF MayWait
    <3> QED BY <1>11, <3>1, <3>2
  <2> HIDE DEF e, q
  <2>4. WaitsInOrder(q, started)
    BY <1>0, <1>1, <2>1, <2>2, <2>3, QueuedInOrder
  <2>5. InputsIn(q) = QueuedInputs \cup ({InputOf(e)} \ {Absent})
    BY <1>0, <1>1, <2>1, <2>2, <2>3, QueuedInOrder
  <2> QED BY <1>5, <2>1, <2>4, <2>5 DEF q
<1>12. CASE Settles
  <2>1. ctx'.input \in {ctx.input, Absent}
    BY <1>1, <1>3, <1>12 DEF Settles
  <2> QED BY <1>9, <1>12, <2>1 DEF Settles
<1>13. CASE Shows
  <2>1. ctx'.input = turn.input
    <3>1. /\ invocationId \in Nat /\ nextInvocationId \in Nat
          /\ isActive => invocationId = nextInvocationId
      BY DEF RuntimeInv, ExecProofs!ExecutorInv, ExecProofs!TypeOK, ExecProofs!ActiveIdIsNewest
    <3>2. isActive /\ ctx' \in Views
      BY <1>13 DEF Shows
    <3>3. invocationId <= nextInvocationId
      BY <3>1, <3>2
    <3> QED BY <3>1, <3>2, <3>3, ViewFacts
  <2> QED BY <1>9, <1>13, <2>1 DEF Shows
<1>14. CASE Commits
  <2>1. ctx'.input = Absent
    <3>1. PICK v \in Views : session' = WithoutInput(v)
      BY <1>14 DEF Commits
    <3>2. /\ invocationId \in Nat /\ nextInvocationId \in Nat
          /\ isActive => invocationId = nextInvocationId
      BY DEF RuntimeInv, ExecProofs!ExecutorInv, ExecProofs!TypeOK, ExecProofs!ActiveIdIsNewest
    <3>3. isActive /\ ctx' = session'
      BY <1>14 DEF Commits
    <3>4. invocationId <= nextInvocationId
      BY <3>2, <3>3
    <3>5. ContextOk(v, nextInvocationId)
      BY <3>2, <3>3, <3>4, ViewFacts
    <3> QED BY <1>3, <3>1, <3>3, <3>5
  <2> QED BY <1>9, <1>14, <2>1 DEF Commits
<1>15. CASE InputBegins
  <2>1. Begins(InputContext) /\ inputs' = inputs + 1 /\ queue = <<>> /\ queue' = <<>>
    BY <1>15 DEF InputBegins, NewInput
  <2>2. InputContext.input = inputs + 1
    BY <1>1, <1>15, InputContextFacts DEF InputBegins, NewInput
  <2>3. InputContext.input \in 1..inputs' /\ NotOvertaken(InputContext.input, started)
    <3>1. \A i \in 1..Len(started) : started[i] \in 1..inputs
      BY <1>1
    <3>2. \A k \in 1..inputs : k <= inputs + 1
      BY <1>1
    <3>3. inputs + 1 \in 1..inputs'
      BY <1>1, <2>1
    <3> QED BY <2>2, <3>1, <3>2, <3>3 DEF NotOvertaken
  <2>4. InputContext.input # Absent
    BY <1>1, <2>2, RuntimeAssumption
  <2>5. /\ started' \in Seq(1..inputs') /\ InOrder(started')
        /\ ToSet(started') = ToSet(started) \cup {inputs + 1}
        /\ turn'.input # Absent => turn'.input \in ToSet(started')
        /\ ctx'.input # Absent => ctx'.input \in ToSet(started')
    BY <1>10, <2>1, <2>2, <2>3, <2>4
  <2>6. WaitsInOrder(queue', started') /\ QueuedInputs' = {} /\ QueuedInputs = {}
    BY <2>1 DEF WaitsInOrder, QueuedInputs
  <2>7. NoInputLost'
    <3>1. 1..inputs' = 1..inputs \cup {inputs + 1}
      BY <1>1, <2>1
    <3>2. refused' = refused
      BY <2>1 DEF Begins
    <3> QED BY <1>2, <1>6, <1>7, <2>5, <2>6, <3>1, <3>2
  <2> QED BY <2>5, <2>6, <2>7 DEF InputsInv
<1>16. CASE InputWaits
  <2>1. /\ Queues(InputContext) /\ inputs' = inputs + 1 /\ ctx' = session
        /\ turn' = turn /\ started' = started /\ refused' = refused
    BY <1>16 DEF InputWaits, NewInput, Queues
  <2>2. InputContext.input = inputs + 1 /\ ContextOk(InputContext, nextInvocationId)
    BY <1>1, <1>16, InputContextFacts DEF InputWaits, NewInput
  <2>3. InputContext.input # Absent
    BY <1>1, <2>2, RuntimeAssumption
  <2>4. /\ WaitsInOrder(queue', started)
        /\ QueuedInputs' = QueuedInputs \cup {inputs + 1}
    BY <1>11, <2>1, <2>2, <2>3
  <2>5. 1..inputs' = 1..inputs \cup {inputs + 1}
    BY <1>1, <2>1
  <2>6. QueuedInputs' \subseteq 1..inputs' /\ NoInputLost'
    BY <1>2, <1>6, <1>7, <2>1, <2>4, <2>5
  <2>7. started' \in Seq(1..inputs') /\ InOrder(started') /\ WaitsInOrder(queue', started')
    BY <1>1, <1>2, <2>1, <2>4
  <2> QED BY <1>1, <1>2, <2>1, <2>6, <2>7 DEF InputsInv
<1>17. CASE InputDropped
  <2>1. /\ inputs' = inputs + 1 /\ queue' = queue /\ started' = started /\ turn' = turn
        /\ refused' = refused \cup {inputs + 1} \/ (~isLoaded /\ refused' = refused)
        /\ ctx' \in {InputContext, WithoutInput(InputContext)}
    BY <1>17 DEF InputDropped, NewInput
  <2>2. InputContext.input = inputs + 1 /\ ContextOk(InputContext, nextInvocationId)
    BY <1>1, <1>17, InputContextFacts DEF InputDropped, NewInput
  <2>3. ctx'.input # Absent => ctx'.input = inputs'
    BY <1>3, <2>1, <2>2
  <2>4. 1..inputs' = 1..inputs \cup {inputs + 1}
    BY <1>1, <2>1
  <2>5. QueuedInputs' \subseteq 1..inputs' /\ NoInputLost'
    BY <1>2, <1>4, <1>6, <1>7, <2>1, <2>4
  <2>6. started' \in Seq(1..inputs') /\ InOrder(started') /\ WaitsInOrder(queue', started')
    BY <1>1, <1>2, <2>1
  <2> QED BY <1>2, <2>1, <2>3, <2>5, <2>6 DEF InputsInv
<1>18. ASSUME NEW f \in Frame, FrameBegins(f) PROVE InputsInv'
  <2> DEFINE c == IdleContext(f)
  <2>1. Begins(c) /\ inputs' = inputs /\ queue = <<>> /\ queue' = <<>> /\ refused' = refused
    BY <1>18 DEF FrameBegins, Begins
  <2>2. c.input = Absent \/ c.input = ctx.input
    BY <1>1, FrameContextFacts
  <2>3. ASSUME c.input # Absent
        PROVE  c.input \in 1..inputs' /\ NotOvertaken(c.input, started)
    <3>1. c.input \in ToSet(started) \/ c.input = inputs
      BY <1>2, <2>2, <2>3
    <3>2. c.input \in 1..MaxInputs
      BY <1>1, <2>2, <2>3 DEF ContextOk, Context
    <3>3. CASE c.input \in ToSet(started)
      BY <1>1, <2>1, <3>3, SetFacts DEF NotOvertaken
    <3>4. CASE c.input = inputs
      <4>1. \A i \in 1..Len(started) : started[i] \in 1..inputs
        BY <1>1
      <4>2. \A k \in 1..inputs : k <= inputs
        BY <1>1
      <4>3. inputs \in 1..inputs
        BY <1>1, <3>2, <3>4, RuntimeAssumption
      <4> QED BY <2>1, <3>4, <4>1, <4>2, <4>3 DEF NotOvertaken
    <3> QED BY <3>1, <3>3, <3>4
  <2> HIDE DEF c
  <2>4. /\ started' \in Seq(1..inputs') /\ InOrder(started')
        /\ ToSet(started') = ToSet(started) \cup ({c.input} \ {Absent})
        /\ turn'.input # Absent => turn'.input \in ToSet(started')
        /\ ctx'.input # Absent => ctx'.input \in ToSet(started')
    BY <1>10, <2>1, <2>3
  <2>5. WaitsInOrder(queue', started') /\ QueuedInputs' = {} /\ QueuedInputs = {}
    BY <2>1 DEF WaitsInOrder, QueuedInputs
  <2>6. NoInputLost'
    BY <1>2, <1>6, <1>7, <2>1, <2>4, <2>5
  <2> QED BY <2>4, <2>5, <2>6 DEF InputsInv
<1>19. ASSUME NEW c, ContextOk(c, nextInvocationId), Queues(c), inputs' = inputs,
              c.input # Absent => c.input \in ToSet(started) \/ c.input = inputs,
              ctx' \in {ctx, session}
       PROVE  InputsInv'
  <2>1. turn' = turn /\ started' = started /\ refused' = refused
    BY <1>19 DEF Queues
  <2>2. /\ WaitsInOrder(queue', started)
        /\ QueuedInputs' = QueuedInputs \cup ({c.input} \ {Absent})
    BY <1>11, <1>19
  <2>3. c.input # Absent => c.input \in 1..inputs
    <3>1. ToSet(started) \subseteq 1..inputs
      BY <1>1, SetFacts
    <3>2. c.input # Absent => c.input \in 1..MaxInputs
      BY <1>19 DEF ContextOk, Context
    <3>3. inputs \in 1..MaxInputs => inputs \in 1..inputs
      BY <1>1, RuntimeAssumption
    <3> QED BY <1>19, <3>1, <3>2, <3>3
  <2>4. QueuedInputs' \subseteq 1..inputs' /\ NoInputLost'
    BY <1>2, <1>6, <1>7, <1>19, <2>1, <2>2, <2>3
  <2>5. started' \in Seq(1..inputs') /\ InOrder(started') /\ WaitsInOrder(queue', started')
    BY <1>1, <1>2, <1>19, <2>1, <2>2
  <2>6. ctx'.input # Absent => ctx'.input \in ToSet(started') \/ ctx'.input = inputs'
    BY <1>1, <1>2, <1>19, <2>1
  <2> QED BY <1>2, <2>1, <2>4, <2>5, <2>6 DEF InputsInv
<1>20. ASSUME NEW f \in Frame, FrameWaits(f) PROVE InputsInv'
  BY <1>1, <1>19, <1>20, FrameContextFacts DEF FrameWaits
<1>21. CASE ContextWaits
  BY <1>1, <1>2, <1>19, <1>21 DEF ContextWaits
<1>22. ASSUME NEW f \in Frame, FrameDropped(f) PROVE InputsInv'
  <2>1. ctx'.input \in {ctx.input, Absent}
    BY <1>1, <1>22, FrameContextFacts DEF FrameDropped
  <2> QED BY <1>9, <1>22, <2>1 DEF FrameDropped
<1>23. ASSUME queue # <<>>, queue' = Tail(queue)
       PROVE  /\ Overlay(Head(queue)).input = InputOf(queue[1])
              /\ InputOf(queue[1]) # Absent =>
                   /\ InputOf(queue[1]) \in 1..inputs
                   /\ NotOvertaken(InputOf(queue[1]), started)
              /\ QueuedInputs' \subseteq QueuedInputs
              /\ QueuedInputs \subseteq QueuedInputs' \cup ({InputOf(queue[1])} \ {Absent})
  <2>1. /\ EntryOk(Head(queue), nextInvocationId) /\ Head(queue) = queue[1]
        /\ 1 \in 1..Len(queue)
    BY <1>1, <1>23, TailFacts
  <2>2. Overlay(Head(queue)).input = InputOf(queue[1])
    BY <1>1, <2>1, OverlayFacts
  <2>3. InputOf(queue[1]) # Absent => InputOf(queue[1]) \in 1..inputs
    BY <1>2, <2>1, QueuedFacts
  <2>4. QueuedInputs' = InputsIn(Tail(queue))
    BY <1>5, <1>23
  <2> QED BY <1>1, <1>23, <2>2, <2>3, <2>4, LeftInOrder
<1>24. CASE QueuedBegins
  <2> DEFINE c == Overlay(Head(queue))
  <2>1. Begins(c) /\ inputs' = inputs /\ queue # <<>> /\ queue' = Tail(queue)
        /\ refused' = refused
    BY <1>24 DEF QueuedBegins, Begins
  <2>2. /\ c.input = InputOf(queue[1])
        /\ c.input # Absent => c.input \in 1..inputs' /\ NotOvertaken(c.input, started)
    BY <1>23, <2>1
  <2> HIDE DEF c
  <2>3. /\ started' \in Seq(1..inputs') /\ InOrder(started')
        /\ ToSet(started') = ToSet(started) \cup ({c.input} \ {Absent})
        /\ turn'.input # Absent => turn'.input \in ToSet(started')
        /\ ctx'.input # Absent => ctx'.input \in ToSet(started')
    BY <1>10, <2>1, <2>2
  <2>4. WaitsInOrder(queue', started')
    <3>1. started' = IF c.input = Absent THEN started ELSE Append(started, c.input)
      BY <2>1 DEF Begins
    <3> QED BY <1>1, <2>1, <2>2, <3>1, LeftInOrder
  <2>5. QueuedInputs' \subseteq 1..inputs' /\ NoInputLost'
    BY <1>2, <1>6, <1>7, <1>23, <2>1, <2>2, <2>3
  <2> QED BY <2>3, <2>4, <2>5 DEF InputsInv
<1>25. CASE QueuedDropped
  <2>1. /\ inputs' = inputs /\ queue # <<>> /\ queue' = Tail(queue)
        /\ started' = started /\ turn' = turn /\ ctx' = session
        /\ LET x == Overlay(Head(queue)).input
           IN refused' = refused \cup (IF x = Absent THEN {} ELSE {x})
    BY <1>25 DEF QueuedDropped
  <2>2. started' \in Seq(1..inputs') /\ InOrder(started') /\ WaitsInOrder(queue', started')
    BY <1>1, <1>2, <2>1, LeftInOrder
  <2>3. QueuedInputs' \subseteq 1..inputs' /\ NoInputLost'
    BY <1>2, <1>6, <1>7, <1>23, <2>1
  <2> QED BY <1>1, <1>2, <2>1, <2>2, <2>3 DEF InputsInv
<1> QED
  BY <1>7, <1>12, <1>13, <1>14, <1>15, <1>16, <1>17, <1>18, <1>20, <1>21, <1>22, <1>24, <1>25
     DEF ContextStep

\* InputsInv holds in every reachable state.
THEOREM InputsInvariant == Spec => []InputsInv
<1>1. RuntimeInv /\ ContextsInv /\ CountsInv /\ InputsInv /\ [Next]_vars => InputsInv'
  BY InputsKept
<1> QED BY <1>1, InitInputsInv, ContextsInvariant, PTL DEF Spec

\* With a DAG loaded no input of the user vanishes, whatever is queued, overtaken by a
\* frame, refused or cancelled on the way.
THEOREM NoInputIsLost == Spec => []NoInputLost
<1>1. InputsInv => NoInputLost
  BY DEF InputsInv
<1> QED BY <1>1, InputsInvariant, PTL

\* Inputs are served in the order of their submission, also when Execute queues an old
\* context once more.
THEOREM InputsServedInOrder == Spec => []ServedInOrder
<1>1. ContextsInv /\ CountsInv /\ InputsInv => ServedInOrder
  <2> SUFFICES ASSUME ContextsInv, CountsInv, InputsInv PROVE ServedInOrder
    OBVIOUS
  <2> DEFINE waits == [i \in 1..Len(queue) |-> InputOf(queue[i])]
             line == started \o waits
             n == Len(started)
             S == 1..inputs \cup {InputOf(queue[i]) : i \in 1..Len(queue)}
  <2>1. /\ inputs \in Nat /\ started \in Seq(1..inputs)
        /\ queue \in Seq(QueueEntry)
        /\ InOrder(started) /\ WaitsInOrder(queue, started)
        /\ \A i \in 1..Len(queue) : InputOf(queue[i]) # Absent => InputOf(queue[i]) \in 1..inputs
    BY QueuedFacts DEF ContextsInv, CountsInv, InputsInv, QueueOk
  <2>2. started \in Seq(S) /\ waits \in Seq(S) /\ Len(waits) = Len(queue)
    <3>1. Len(queue) \in Nat /\ waits \in [1..Len(queue) -> S]
      BY <2>1
    <3>2. \A i \in 1..Len(started) : started[i] \in S
      BY <2>1
    <3> HIDE DEF waits, S
    <3>3. waits \in Seq(S) /\ Len(waits) = Len(queue)
      BY <3>1
    <3>4. started \in Seq(S)
      BY <2>1, <3>2
    <3> QED BY <3>3, <3>4
  <2> HIDE DEF waits, S
  <2>3. /\ Len(line) = n + Len(queue) /\ n \in Nat /\ Len(queue) \in Nat
        /\ \A i \in 1..(n + Len(queue)) :
             line[i] = IF i <= n THEN started[i] ELSE waits[i - n]
    <3> HIDE DEF line
    <3>1. line = started \o waits
      BY DEF line
    <3>2. Len(started) \in Nat /\ Len(queue) \in Nat
      BY <2>1
    <3> QED BY <2>2, <3>1, <3>2, ConcatProperties
  <2>4. \A i \in 1..Len(queue) : waits[i] = InputOf(queue[i])
    BY DEF waits
  <2> HIDE DEF line, n
  <2>5. \A i \in 1..n : line[i] = started[i] /\ started[i] \in 1..inputs
    BY <2>1, <2>3 DEF n
  <2>6. \A i \in 1..Len(line) :
          i > n => i - n \in 1..Len(queue) /\ line[i] = InputOf(queue[i - n])
    BY <2>3, <2>4
  <2>7. ASSUME NEW i \in 1..Len(line), NEW j \in 1..Len(line), i < j,
               line[i] # Absent, line[j] # Absent, line[i] > line[j]
        PROVE  \E k \in 1..(i - 1) : line[k] = line[j]
    <3>1. CASE j <= n
      <4>1. i \in 1..n /\ j \in 1..n
        BY <2>3, <2>7, <3>1
      <4>2. PICK k \in 1..(i - 1) : started[k] = started[j]
        BY <2>1, <2>5, <2>7, <4>1 DEF InOrder, n
      <4>3. k \in 1..n
        BY <2>3, <4>1
      <4> QED BY <2>5, <4>1, <4>2, <4>3
    <3>2. CASE j > n
      <4> DEFINE x == line[j]
      <4>1. j - n \in 1..Len(queue) /\ x = InputOf(queue[j - n]) /\ x \in 1..inputs
        BY <2>1, <2>6, <2>7, <3>2
      <4>2. x \in ToSet(started)
        <5>1. CASE i <= n
          <6>1. i \in 1..n /\ started[i] > x /\ x \in Nat /\ started[i] \in Nat
            BY <2>3, <2>5, <2>7, <4>1, <5>1
          <6>2. ~(started[i] <= x)
            BY <6>1
          <6> QED BY <2>1, <2>7, <4>1, <6>1, <6>2 DEF WaitsInOrder, n
        <5>2. CASE i > n
          <6>1. i - n \in 1..Len(queue) /\ line[i] = InputOf(queue[i - n])
            BY <2>6, <5>2
          <6>2. i - n \in 1..((j - n) - 1)
            BY <2>3, <2>7, <6>1
          <6>3. line[i] \in 1..inputs
            BY <2>1, <2>7, <6>1
          <6>4. ~(line[i] <= x)
            BY <2>7, <4>1, <6>3
          <6> QED BY <2>1, <2>7, <4>1, <6>1, <6>2, <6>4 DEF WaitsInOrder
        <5>3. i <= n \/ i > n
          BY <2>3
        <5> QED BY <5>1, <5>2, <5>3
      <4>3. PICK m \in 1..n : started[m] = x
        BY <2>1, <4>2, SetFacts DEF n
      <4>4. m \in Nat /\ i \in Nat /\ (m < i \/ m > i \/ m = i)
        BY <2>3
      <4>5. CASE m < i
        BY <2>5, <4>3, <4>4, <4>5
      <4>6. CASE m > i
        <5>1. i \in 1..n /\ line[i] = started[i]
          BY <2>3, <2>5, <4>3, <4>4, <4>6
        <5>2. PICK k \in 1..(i - 1) : started[k] = x
          BY <2>1, <2>7, <4>3, <4>4, <4>6, <5>1 DEF InOrder, n
        <5>3. k \in 1..n
          BY <2>3, <5>1
        <5> QED BY <2>5, <5>2, <5>3
      <4>7. m # i
        <5>1. line[m] = x /\ x \in 1..inputs
          BY <2>5, <4>1, <4>3
        <5>2. ~(x > x)
          BY <5>1
        <5> QED BY <2>7, <5>1, <5>2
      <4> QED BY <4>4, <4>5, <4>6, <4>7
    <3>3. j <= n \/ j > n
      BY <2>3
    <3> QED BY <3>1, <3>2, <3>3
  <2> QED BY <2>7 DEF ServedInOrder, line, waits
<1> QED BY <1>1, InputsInvariant, ContextsInvariant, PTL

-----------------------------------------------------------------------------
(* Types *)

Handler == PumpHandlers \cup {"none", "submitting", "starting", "closing"}

\* What RuntimeInv and ContextsInv leave of the type invariant.
TypesInv ==
  /\ isLoaded \in BOOLEAN /\ replied \in BOOLEAN
  /\ lastFrame \in Frame \cup {Absent}
  /\ timers \subseteq [key : Key, inv : Nat]
  /\ cancelled \subseteq Nat
  /\ kicks \in Nat
  /\ handler \in Handler

LEMMA InitTypesInv == Init => TypesInv
<1> SUFFICES ASSUME Init PROVE TypesInv
  OBVIOUS
<1>1. isLoaded \in BOOLEAN /\ replied \in BOOLEAN
  BY DEF Init
<1> QED BY <1>1 DEF Init, TypesInv, Handler

LEMMA StreamingIsTyped == RuntimeInv => streaming \subseteq Nat
<1> SUFFICES ASSUME RuntimeInv, NEW id \in streaming PROVE id \in Nat
  OBVIOUS
<1>1. [client |-> "text", id |-> id] \in inflight
  BY DEF RuntimeInv, RequestInv, StreamsAreOwed, StreamedRequests
<1>2. [client |-> "text", id |-> id] \in Key
  BY <1>1 DEF RuntimeInv, RequestInv, RequestsInv
<1> QED BY <1>2 DEF Key

LEMMA KicksAreCounted ==
  ASSUME kicks \in Nat, NEW n \in Nat, NoKick(n) \/ Kick(n) PROVE kicks' \in Nat
BY DEF NoKick, Kick

\* The timer that RegisterPendingNode arms.
LEMMA NewTimerIsTyped ==
  ASSUME RuntimeInv, RuntimeInv', NEW n \in readyQueue, RegisterPendingNode(n)
  PROVE  [key |-> NewRequest(n), inv |-> invocationId] \in [key : Key, inv : Nat]
<1>1. pending' \subseteq [key : Key, inv : Nat, node : Node]
  BY DEF RuntimeInv, RequestInv, RequestsInv
<1>2. [key |-> NewRequest(n), inv |-> invocationId, node |-> n] \in pending'
  BY DEF RegisterPendingNode
<1>3. [key |-> NewRequest(n), inv |-> invocationId, node |-> n]
        \in [key : Key, inv : Nat, node : Node]
  BY <1>1, <1>2
<1> QED BY <1>3

LEMMA TypesKept ==
  ASSUME TypesInv, RuntimeInv, [Next]_vars
  PROVE  TypesInv'
<1>0. RuntimeInv' /\ streaming \subseteq Nat /\ kicks \in Nat /\ handler \in Handler
  BY NextRuntimeInv, StreamingIsTyped DEF TypesInv
<1> USE DEF observed, budget, rest, contextVars, requestVars, Handler, PumpHandlers
<1>2. CASE UNCHANGED vars
  BY <1>2 DEF vars, TypesInv
<1>3. CASE User
  <2>1. ASSUME NEW h \in {"none", "submitting"}, CancelActiveStreaming(h) PROVE TypesInv'
    <3>1. kicks' \in Nat
      BY <1>0, <2>1, KicksAreCounted DEF CancelActiveStreaming, ResetAsyncExecutionState
    <3>2. cancelled' \subseteq Nat /\ handler' \in Handler /\ replied' = FALSE
          /\ UNCHANGED <<isLoaded, lastFrame, timers>>
      BY <1>0, <2>1 DEF CancelActiveStreaming, ResetAsyncExecutionState, TypesInv
    <3> QED BY <3>1, <3>2 DEF TypesInv
  <2>2. ASSUME NEW h \in {"none", "submitting"}, CancelOrphanStreaming(h) PROVE TypesInv'
    BY <1>0, <2>2 DEF CancelOrphanStreaming, TypesInv
  <2> QED BY <1>3, <2>1, <2>2 DEF User, MousePress, SubmitTextToAgent
<1>4. ASSUME NEW f \in Frame, Perception(f) PROVE TypesInv'
  BY <1>0, <1>4 DEF Perception, FrameArrives, FrameQueued, FrameIgnored, FrameStarts,
                    FrameRefused, UnchangedFrameQueuesContext, FrameWithoutDag,
                    StartInvocation, RefusedBegin, TypesInv
<1>5. ASSUME NEW g \in Graph, Reload(g) PROVE TypesInv'
  BY <1>5 DEF Reload, ReloadApplied, ReloadDeferred, ReloadRequested, TypesInv
<1>6. CASE Callback
  <2>1. ASSUME NEW k, LateAnswer(k) \/ DirectAnswer(k) PROVE TypesInv'
    BY <2>1 DEF LateAnswer, DirectAnswer, TypesInv
  <2>2. ASSUME NEW p, AnswerFails(p) PROVE TypesInv'
    <3>1. kicks' \in Nat
      BY <1>0, <2>2, KicksAreCounted DEF AnswerFails, ResetAsyncExecutionState
    <3>2. replied' = FALSE
      BY <2>2 DEF AnswerFails, ResetAsyncExecutionState
    <3> QED BY <2>2, <3>1, <3>2 DEF AnswerFails, Answered, TypesInv
  <2>3. ASSUME NEW p, ResumePendingNode(p) PROVE TypesInv'
    BY <2>3 DEF ResumePendingNode, Answered, ResumeHandlers, TypesInv
  <2> QED BY <1>6, <2>1, <2>2, <2>3 DEF Callback
<1>7. CASE TimerFires
  <2>1. ASSUME NEW t, TimeoutIgnored(t) PROVE TypesInv'
    BY <2>1 DEF TimeoutIgnored, TypesInv
  <2>2. ASSUME NEW t, HandlePendingRequestTimeout(t) PROVE TypesInv'
    <3>1. kicks' \in Nat
      BY <1>0, <2>2, KicksAreCounted DEF HandlePendingRequestTimeout, ResetAsyncExecutionState
    <3>2. replied' = FALSE
      BY <2>2 DEF HandlePendingRequestTimeout, ResetAsyncExecutionState
    <3> QED BY <2>2, <3>1, <3>2 DEF HandlePendingRequestTimeout, Closing, TypesInv
  <2> QED BY <1>7, <2>1, <2>2 DEF TimerFires
<1>8. CASE KickRuns
  <2>1. KickPosted
    BY <1>8 DEF KickRuns, KickAppliesReload, KickKeepsGraph
  <2>2. kicks' \in Nat
    BY <1>0, <2>1 DEF KickPosted
  <2>3. timers' = timers
    BY <2>1 DEF KickPosted
  <2> QED BY <2>1, <2>2, <2>3 DEF KickPosted, TypesInv
<1>9. CASE Submission
  BY <1>9 DEF Submission, Submitting, SubmitQueued, SubmitRejected, SubmitStarts,
              SubmitRefused, SubmitDirect, SubmitDirectFails, StartInvocation, RefusedBegin,
              TypesInv
<1>10. CASE Start
  BY <1>10 DEF Start, StartsNothing, StartsNext, NextRefused, Dequeuing, StartInvocation,
               RefusedBegin, TypesInv
<1>11. CASE Pump
  <2>1. ASSUME NEW n \in Node, RunNode(n) \/ RunOutput(n) PROVE TypesInv'
    BY <2>1 DEF RunNode, RunOutput, NodeStep, TypesInv
  <2>2. ASSUME NEW n \in Node, RunPending(n) PROVE TypesInv'
    <3>1. [key |-> NewRequest(n), inv |-> invocationId] \in [key : Key, inv : Nat]
      BY <1>0, <2>2, NewTimerIsTyped DEF RunPending
    <3>2. timers' \subseteq [key : Key, inv : Nat]
      BY <2>2, <3>1 DEF RunPending, RegisterPendingNode, TypesInv
    <3> QED BY <2>2, <3>2 DEF RunPending, NodeStep, TypesInv
  <2>3. CASE FailPump \/ \E n \in Node : RegistrationFails(n)
    <3>1. /\ HandleFailedPump /\ Kick(ResetsOnFailure) /\ replied' = FALSE
          /\ UNCHANGED <<isLoaded, lastFrame, timers, cancelled>>
      BY <2>3 DEF FailPump, RegistrationFails, ResetAsyncExecutionState
    <3>2. kicks' \in Nat
      <4>1. ResetsOnFailure \in Nat
        BY DEF ResetsOnFailure
      <4> HIDE DEF Handler, PumpHandlers
      <4> QED BY <1>0, <3>1, <4>1, KicksAreCounted
    <3>3. handler' \in Handler
      BY <3>1 DEF HandleFailedPump, Closing
    <3> QED BY <3>1, <3>2, <3>3 DEF TypesInv
  <2>4. CASE SuspendPump \/ CompleteInvocation
    <3>1. kicks' \in Nat
      BY <1>0, <2>4, KicksAreCounted DEF SuspendPump, CompleteInvocation
    <3>2. handler' \in Handler /\ replied' \in {replied, FALSE}
          /\ UNCHANGED <<isLoaded, lastFrame, timers, cancelled>>
      BY <2>4 DEF SuspendPump, CompleteInvocation, Closing
    <3> QED BY <3>1, <3>2 DEF TypesInv
  <2> QED BY <1>11, <2>1, <2>2, <2>3, <2>4 DEF Pump
<1>12. CASE CloseInvocation
  BY <1>12 DEF CloseInvocation, ApplyPendingDagReload, TypesInv
<1> QED
  BY <1>2, <1>3, <1>4, <1>5, <1>6, <1>7, <1>8, <1>9, <1>10, <1>11, <1>12
     DEF Next, HandlerStep

\* The variables keep their types, and the history the clients are asked with is always a
\* conversation: questions are answered and the answers are in the order of their
\* invocations, though invocations fail, are cancelled and carry old contexts.
THEOREM SessionStaysAConversation == Spec => []SessionInv
<1>1. TypesInv /\ RuntimeInv /\ ContextsInv => SessionInv
  <2> SUFFICES ASSUME TypesInv, RuntimeInv, ContextsInv PROVE TypeOK /\ HistoryIsConversation
    BY DEF SessionInv
  <2>1. HistoryIsConversation
    BY DEF ContextsInv, SessionOk, ContextOk, Conversation, HistoryIsConversation
  <2>2. Exec!TypeOK
    BY DEF RuntimeInv, ExecProofs!ExecutorInv, ExecProofs!TypeOK, Exec!TypeOK,
           Exec!EmptyGraph, ExecProofs!EmptyGraph
  <2>3. {session, ctx, turn} \subseteq Context
    BY DEF ContextsInv, SessionOk, ContextOk
  <2>4. /\ pendingGraph \in Graph \cup {Absent}
        /\ pending \subseteq [key : Key, inv : Nat, node : Node]
        /\ inflight \subseteq Key
        /\ direct \subseteq Nat
    BY DEF RuntimeInv, RequestInv, RequestsInv
  <2> QED BY <2>1, <2>2, <2>3, <2>4, StreamingIsTyped DEF TypesInv, TypeOK, Handler
<1>2. TypesInv /\ RuntimeInv /\ [Next]_vars => TypesInv'
  BY TypesKept
<1> QED BY <1>1, <1>2, InitTypesInv, RuntimeInvariant, ContextsInvariant, PTL DEF Spec
=============================================================================
