------------------------- MODULE AgentGraphExecutor -------------------------
(***************************************************************************)
(* The graph executor of the agent runtime (agent_graph_executor.cpp): it  *)
(* holds one DAG snapshot and runs one invocation of it at a time.  An     *)
(* invocation starts at the sources that match its trigger, runs the       *)
(* reachable subgraph in dependency order, lets nodes wait for the answer  *)
(* of an asynchronous client, and ends by committing the result of its     *)
(* only terminal node.                                                     *)
(*                                                                         *)
(* PumpReadyQueue is a loop inside one event handler.  Here each iteration *)
(* is a step of its own and `pumping' says that the handler is on the      *)
(* stack, so that no other handler runs in between.                        *)
(*                                                                         *)
(* A node's context is abstracted to the set of nodes whose writes it      *)
(* contains.  The ready list is kept sorted by declaration order in the    *)
(* code; here it is a set whose first element is the least declared.       *)
(***************************************************************************)
EXTENDS Integers, FiniteSets

CONSTANTS Node,            \* the node names
          Trigger,         \* what may start an invocation
          NoTrigger,       \* no trigger, or a source that declares none
          Graph,           \* the DAG snapshots that pass LoadFromJsonFile
          MaxInvocations   \* bound on m_nextInvocationId (a quint64)

(***************************************************************************)
(* A snapshot: its nodes, its edges, the declaration order of its nodes    *)
(* and the trigger in each node's config.                                  *)
(***************************************************************************)
Acyclic(g) ==
  \E order \in [g.nodes -> 1..Cardinality(g.nodes)] :
    \A e \in g.edges : order[e[1]] < order[e[2]]

IsSnapshot(g) ==
  /\ g.nodes \subseteq Node
  /\ g.nodes # {}
  /\ g.edges \subseteq g.nodes \X g.nodes
  /\ g.rank \in [g.nodes -> Nat]
  /\ \A m, n \in g.nodes : g.rank[m] = g.rank[n] => m = n
  /\ g.trigger \in [g.nodes -> Trigger \cup {NoTrigger}]
  /\ Acyclic(g)

ASSUME ExecutorAssumption ==
  /\ IsFiniteSet(Node)
  /\ NoTrigger \notin Trigger
  /\ MaxInvocations \in Nat
  /\ \A g \in Graph : IsSnapshot(g)

EmptyGraph == [nodes |-> {}, edges |-> {}, rank |-> <<>>, trigger |-> <<>>]

Successors(g, n) == {m \in g.nodes : <<n, m>> \in g.edges}
Predecessors(g, n) == {m \in g.nodes : <<m, n>> \in g.edges}
SourceNodes(g) == {n \in g.nodes : Predecessors(g, n) = {}}

VARIABLES
  graph,                 \* m_graphSnapshot
  isActive,              \* an invocation is in progress
  invocationId,          \* the invocation in progress, 0 when there is none
  nextInvocationId,      \* the last invocation id handed out
  lastCompletedId,       \* the last invocation that committed
  activeNodeIds,         \* the subgraph reachable from the selected sources
  remainingInDegree,     \* active predecessors a node still waits for
  readyQueue,            \* nodes whose predecessors have all completed
  completedNodeIds,
  branches,              \* writes a node starts from, by node
  nodeResults,           \* writes a node ended with, by node; {} when it has none
  waiting,               \* nodes registered as pending with the async bridge
  pumping                \* PumpReadyQueue is on the stack

invocationState == <<isActive, invocationId, activeNodeIds, remainingInDegree,
                     readyQueue, completedNodeIds, branches, nodeResults>>
vars == <<graph, nextInvocationId, lastCompletedId, waiting, pumping,
          invocationState>>

NoWrites == [n \in Node |-> {}]

(***************************************************************************)
(* ClearInvocationState: every field back to its default.                  *)
(***************************************************************************)
ClearInvocationState ==
  /\ isActive' = FALSE
  /\ invocationId' = 0
  /\ activeNodeIds' = {}
  /\ remainingInDegree' = [n \in {} |-> 0]
  /\ readyQueue' = {}
  /\ completedNodeIds' = {}
  /\ branches' = NoWrites
  /\ nodeResults' = NoWrites

Init ==
  /\ graph \in Graph \cup {EmptyGraph}
  /\ isActive = FALSE
  /\ invocationId = 0
  /\ nextInvocationId = 0
  /\ lastCompletedId = 0
  /\ activeNodeIds = {}
  /\ remainingInDegree = [n \in {} |-> 0]
  /\ readyQueue = {}
  /\ completedNodeIds = {}
  /\ branches = NoWrites
  /\ nodeResults = NoWrites
  /\ waiting = {}
  /\ pumping = FALSE

-----------------------------------------------------------------------------
(* Beginning an invocation *)

(***************************************************************************)
(* SelectSourceNodes: as soon as one source declares a trigger, only the   *)
(* sources declaring this invocation's trigger are used.                   *)
(***************************************************************************)
SelectSourceNodes(g, t) ==
  IF \E s \in SourceNodes(g) : g.trigger[s] # NoTrigger
    THEN {s \in SourceNodes(g) : t # NoTrigger /\ g.trigger[s] = t}
    ELSE SourceNodes(g)

(***************************************************************************)
(* BuildActiveSubgraph: the least set that holds the sources and is closed *)
(* under successors.                                                       *)
(***************************************************************************)
ActiveSubgraph(g, sources) ==
  {n \in g.nodes :
     \A S \in SUBSET g.nodes :
       (/\ sources \subseteq S
        /\ \A m \in S : Successors(g, m) \subseteq S) => n \in S}

\* The in-degree of the active nodes, predecessors outside the subgraph not counted.
UnprunedInDegree(g, active) == [n \in active |-> Cardinality(Predecessors(g, n))]
ActiveInDegree(g, active) ==
  [n \in active |-> Cardinality(Predecessors(g, n) \cap active)]

ActivePredecessors(n) == Predecessors(graph, n) \cap activeNodeIds

IsIdle == ~isActive /\ waiting = {}

\* The checks BeginInvocation makes before it hands out an id.
CanBegin == graph.nodes # {} /\ IsIdle /\ SourceNodes(graph) # {}

NewInvocationId == nextInvocationId + 1

BeginInvocation(t) ==
  LET sources == SelectSourceNodes(graph, t)
      active == ActiveSubgraph(graph, sources)
  IN /\ ~pumping
     /\ CanBegin
     /\ nextInvocationId < MaxInvocations
     /\ sources # {}
     /\ nextInvocationId' = NewInvocationId
     /\ invocationId' = NewInvocationId
     /\ isActive' = TRUE
     /\ activeNodeIds' = active
     /\ remainingInDegree' = ActiveInDegree(graph, active)
     /\ readyQueue' = sources
     /\ completedNodeIds' = {}
     /\ branches' = NoWrites
     /\ nodeResults' = NoWrites
     /\ pumping' = TRUE
     /\ UNCHANGED <<graph, lastCompletedId, waiting>>

\* No source accepts the trigger: the id is spent and the state cleared.
RefuseInvocation(t) ==
  /\ ~pumping
  /\ CanBegin
  /\ nextInvocationId < MaxInvocations
  /\ SelectSourceNodes(graph, t) = {}
  /\ nextInvocationId' = NewInvocationId
  /\ ClearInvocationState
  /\ UNCHANGED <<graph, lastCompletedId, waiting, pumping>>

-----------------------------------------------------------------------------
(* Completing a node *)

NewlyCounted(n) ==
  {s \in Successors(graph, n) \cap activeNodeIds : remainingInDegree[s] >= 1}
NewlyReady(n) ==
  {s \in Successors(graph, n) \cap activeNodeIds : remainingInDegree[s] = 1}

\* CreateChildBranch and CreateJoinBranch: a node starts from its parents' writes.
FirstParentWrites(results, s) ==
  results[CHOOSE p \in ActivePredecessors(s) : results[p] # {}]
InheritedWrites(results, s) == UNION {results[p] : p \in ActivePredecessors(s)}

(***************************************************************************)
(* SaveNodeResult then CompleteNode: count the node off its successors and *)
(* queue those that wait for nobody else.                                  *)
(***************************************************************************)
SaveNodeResult(n) == [nodeResults EXCEPT ![n] = branches[n] \cup {n}]

CompleteNode(n, ready) ==
  LET results == SaveNodeResult(n)
      fresh == NewlyReady(n)
  IN /\ nodeResults' = results
     /\ completedNodeIds' = completedNodeIds \cup {n}
     /\ remainingInDegree' =
          [s \in activeNodeIds |->
             IF s \in Successors(graph, n) THEN remainingInDegree[s] - 1
                                           ELSE remainingInDegree[s]]
     /\ branches' = [s \in Node |-> IF s \in fresh THEN InheritedWrites(results, s)
                                                   ELSE branches[s]]
     /\ readyQueue' = ready \cup fresh
     /\ UNCHANGED <<isActive, invocationId, activeNodeIds>>

-----------------------------------------------------------------------------
(* One iteration of PumpReadyQueue *)

IsFirstReady(n) ==
  /\ n \in readyQueue
  /\ \A m \in readyQueue : graph.rank[n] <= graph.rank[m]

\* ExecuteReadyNode when the handler finishes the node at once.
ExecuteReadyNode(n) ==
  /\ pumping
  /\ IsFirstReady(n)
  /\ CompleteNode(n, readyQueue \ {n})
  /\ UNCHANGED <<graph, nextInvocationId, lastCompletedId, waiting, pumping>>

\* ExecuteReadyNode when the handler sent a request: the result so far is saved.
ExecutePendingNode(n) ==
  /\ pumping
  /\ IsFirstReady(n)
  /\ nodeResults' = SaveNodeResult(n)
  /\ readyQueue' = readyQueue \ {n}
  /\ waiting' = waiting \cup {n}
  /\ UNCHANGED <<graph, nextInvocationId, lastCompletedId, pumping, isActive,
                 invocationId, activeNodeIds, remainingInDegree,
                 completedNodeIds, branches>>

(***************************************************************************)
(* FailInvocation: prepareInput, the node, the registration of its request *)
(* or a join failed.  resetAfterFailure forgets every pending request.     *)
(***************************************************************************)
FailPump ==
  /\ pumping
  /\ ClearInvocationState
  /\ waiting' = {}
  /\ pumping' = FALSE
  /\ UNCHANGED <<graph, nextInvocationId, lastCompletedId>>

\* The ready list is empty but a request is out: the pump returns true.
SuspendPump ==
  /\ pumping
  /\ readyQueue = {}
  /\ waiting # {}
  /\ pumping' = FALSE
  /\ UNCHANGED <<graph, nextInvocationId, lastCompletedId, waiting, invocationState>>

AllNodesCompleted == Cardinality(completedNodeIds) = Cardinality(activeNodeIds)

TerminalNodes ==
  {n \in activeNodeIds : Successors(graph, n) \cap activeNodeIds = {}}

\* The checks of PumpReadyQueue and CommitInvocationResult at the end of the loop.
CanCommitAnyTerminal ==
  /\ AllNodesCompleted
  /\ \E n \in TerminalNodes : nodeResults[n] # {}
CanCommit ==
  /\ AllNodesCompleted
  /\ Cardinality(TerminalNodes) = 1
  /\ \A n \in TerminalNodes : nodeResults[n] # {}

CompleteInvocation ==
  /\ pumping
  /\ readyQueue = {}
  /\ waiting = {}
  /\ CanCommit
  /\ lastCompletedId' = invocationId
  /\ ClearInvocationState
  /\ pumping' = FALSE
  /\ UNCHANGED <<graph, nextInvocationId, waiting>>

-----------------------------------------------------------------------------
(* What the runtime does to the executor between two pumps *)

ResumePendingNode(n) ==
  /\ ~pumping
  /\ isActive
  /\ n \in waiting
  /\ waiting' = waiting \ {n}
  /\ CompleteNode(n, readyQueue)
  /\ pumping' = TRUE
  /\ UNCHANGED <<graph, nextInvocationId, lastCompletedId>>

\* A failed, timed out or cancelled request, or a join that fails on resuming.
AbandonInvocation ==
  /\ ~pumping
  /\ isActive
  /\ waiting # {}
  /\ ClearInvocationState
  /\ waiting' = {}
  /\ UNCHANGED <<graph, nextInvocationId, lastCompletedId, pumping>>

ReplaceGraphIfIdle(g) ==
  /\ ~pumping
  /\ IsIdle
  /\ graph' = g
  /\ UNCHANGED <<nextInvocationId, lastCompletedId, waiting, pumping, invocationState>>

Next ==
  \/ \E t \in Trigger \cup {NoTrigger} : BeginInvocation(t) \/ RefuseInvocation(t)
  \/ \E n \in Node : ExecuteReadyNode(n) \/ ExecutePendingNode(n) \/ ResumePendingNode(n)
  \/ FailPump
  \/ SuspendPump
  \/ CompleteInvocation
  \/ AbandonInvocation
  \/ \E g \in Graph : ReplaceGraphIfIdle(g)

Spec == Init /\ [][Next]_vars

-----------------------------------------------------------------------------
(* Properties *)

\* Type invariant.
TypeOK ==
  /\ graph \in Graph \cup {EmptyGraph}
  /\ isActive \in BOOLEAN
  /\ invocationId \in Nat
  /\ nextInvocationId \in Nat
  /\ lastCompletedId \in Nat
  /\ activeNodeIds \subseteq graph.nodes
  /\ remainingInDegree \in [activeNodeIds -> Nat]
  /\ readyQueue \subseteq activeNodeIds
  /\ completedNodeIds \subseteq activeNodeIds
  /\ branches \in [Node -> SUBSET Node]
  /\ nodeResults \in [Node -> SUBSET Node]
  /\ waiting \subseteq activeNodeIds
  /\ pumping \in BOOLEAN

\* The nodes an invocation has reached: ready, waiting for an answer, or completed.
Reached == readyQueue \cup waiting \cup completedNodeIds

\* Nothing of an ended invocation stays behind, whichever way it ended.
IdleIsClear ==
  ~isActive => /\ ~pumping
               /\ invocationId = 0
               /\ activeNodeIds = {}
               /\ waiting = {}

\* An invocation in progress has the newest id, and it is not committed yet.
ActiveIdIsNewest ==
  /\ lastCompletedId <= nextInvocationId
  /\ isActive => /\ invocationId = nextInvocationId
                 /\ lastCompletedId < invocationId

\* A node is in one stage only: ready, waiting, or completed.
StagesDisjoint ==
  /\ readyQueue \cap waiting = {}
  /\ readyQueue \cap completedNodeIds = {}
  /\ waiting \cap completedNodeIds = {}

\* The remaining in-degree counts exactly the active parents not completed, and
\* the nodes reached are exactly those for which it is zero.
CountersExact ==
  /\ \A n \in activeNodeIds :
       remainingInDegree[n] = Cardinality(ActivePredecessors(n) \ completedNodeIds)
  /\ Reached = {n \in activeNodeIds : ActivePredecessors(n) \subseteq completedNodeIds}
  /\ \A n \in activeNodeIds : Successors(graph, n) \subseteq activeNodeIds

\* Together: what every step of the executor preserves.
ExecutorInv ==
  TypeOK /\ IdleIsClear /\ ActiveIdIsNewest /\ StagesDisjoint /\ CountersExact

\* The error branches of ExecuteReadyNode, CompleteNode and EnqueueReadyNode
\* ("dequeued node before its dependencies completed", "completed more than once",
\* "successor was completed more than once", "queued more than once") never run:
\* whichever node completes next, its bookkeeping is consistent.
SchedulingChecksHold ==
  \A n \in readyQueue \cup waiting :
    /\ remainingInDegree[n] = 0
    /\ n \notin completedNodeIds
    /\ \A s \in Successors(graph, n) :
         s \in activeNodeIds /\ remainingInDegree[s] > 0
    /\ NewlyReady(n) \cap Reached = {}

\* "Agent runtime invocation stopped before all nodes completed" is never reported:
\* when nothing is ready and nothing waits, the whole subgraph has completed.
NeverStopsEarly ==
  (isActive /\ readyQueue = {} /\ waiting = {}) => completedNodeIds = activeNodeIds

\* Between two handlers an invocation in progress waits for some request; there is
\* no state in which nobody would ever continue it.
NeverWedged == (isActive /\ ~pumping) => waiting # {}

\* Together: the bookkeeping of the scheduler is consistent whichever node completes, fails
\* or is answered next, and no invocation is left that nobody would continue.
SchedulingIsSound == ExecutorInv /\ SchedulingChecksHold /\ NeverStopsEarly /\ NeverWedged

\* The active nodes from which n can be reached by at least one edge.
ActiveAncestors(n) ==
  {m \in activeNodeIds :
     \E s \in Successors(graph, m) : n \in ActiveSubgraph(graph, {s})}

\* A node starts from the writes of all its active ancestors and of nobody else:
\* fan-out branches are isolated from each other and a join loses no parent.
BranchSeesItsAncestors ==
  \A n \in Reached : branches[n] = ActiveAncestors(n)

\* A committed invocation executed every node of its subgraph, and its terminal
\* node's result carries the writes of all of them.
CommitCarriesEveryNode ==
  [][lastCompletedId' # lastCompletedId =>
       /\ completedNodeIds = activeNodeIds
       /\ \E n \in TerminalNodes : nodeResults[n] = activeNodeIds]_vars

\* Within an invocation a node that was dequeued is never queued again, and a
\* completed one stays completed.
EachNodeOnce ==
  [][(isActive /\ isActive' /\ invocationId' = invocationId) =>
       /\ (waiting \cup completedNodeIds) \cap readyQueue' = {}
       /\ completedNodeIds \subseteq completedNodeIds']_vars
=============================================================================
