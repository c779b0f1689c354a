--------------------- MODULE AgentGraphExecutor_proofs ---------------------
(***************************************************************************)
(* Proofs about the graph executor, for every set of nodes, triggers and   *)
(* snapshots.  ExecutorInv is inductive; the scheduling properties follow  *)
(* from it.                                                                *)
(***************************************************************************)
EXTENDS AgentGraphExecutor, FiniteSetTheorems, TLAPS

-----------------------------------------------------------------------------
(* Graphs *)

\* The nodes of a snapshot are finitely many and its edges join its own nodes.
LEMMA GraphFacts ==
  ASSUME NEW g \in Graph \cup {EmptyGraph}
  PROVE  /\ g.nodes \subseteq Node
         /\ IsFiniteSet(g.nodes)
         /\ g.edges \subseteq g.nodes \X g.nodes
<1>1. CASE g = EmptyGraph
  BY <1>1, FS_EmptySet DEF EmptyGraph
<1>2. CASE g \in Graph
  BY <1>2, ExecutorAssumption, FS_Subset DEF IsSnapshot
<1> QED BY <1>1, <1>2

\* The sources an invocation starts from have no predecessor.
LEMMA SelectedAreSources ==
  ASSUME NEW g \in Graph \cup {EmptyGraph}, NEW t
  PROVE  /\ SelectSourceNodes(g, t) \subseteq g.nodes
         /\ \A n \in SelectSourceNodes(g, t) : Predecessors(g, n) = {}
BY DEF SelectSourceNodes, SourceNodes

\* The active subgraph holds the sources, is closed under successors, and a node of it
\* that has no predecessor in it is one of the sources.
LEMMA ActiveSubgraphFacts ==
  ASSUME NEW g \in Graph \cup {EmptyGraph}, NEW sources \in SUBSET g.nodes
  PROVE  /\ sources \subseteq ActiveSubgraph(g, sources)
         /\ ActiveSubgraph(g, sources) \subseteq g.nodes
         /\ \A m \in ActiveSubgraph(g, sources) :
              Successors(g, m) \subseteq ActiveSubgraph(g, sources)
         /\ \A n \in ActiveSubgraph(g, sources) :
              Predecessors(g, n) \cap ActiveSubgraph(g, sources) = {} => n \in sources
<1> DEFINE active == ActiveSubgraph(g, sources)
           Closed(S) == /\ sources \subseteq S
                        /\ \A m \in S : Successors(g, m) \subseteq S
<1>1. active = {n \in g.nodes : \A S \in SUBSET g.nodes : Closed(S) => n \in S}
  BY DEF ActiveSubgraph
<1>2. \A m : Successors(g, m) \subseteq g.nodes
  BY DEF Successors
<1>3. Closed(active)
  <2>1. sources \subseteq active
    BY <1>1
  <2>2. ASSUME NEW m \in active, NEW s \in Successors(g, m)
        PROVE  s \in active
    <3>1. s \in g.nodes
      BY <1>2, <2>2
    <3>2. \A S \in SUBSET g.nodes : Closed(S) => s \in S
      BY <1>1, <2>2
    <3> QED BY <1>1, <3>1, <3>2
  <2> QED BY <2>1, <2>2
<1>4. ASSUME NEW n \in active, Predecessors(g, n) \cap active = {}, n \notin sources
      PROVE  FALSE
  <2> DEFINE S == active \ {n}
  <2>1. sources \subseteq S
    BY <1>3, <1>4
  <2>2. ASSUME NEW m \in S, NEW s \in Successors(g, m)
        PROVE  s \in S
    <3>1. s \in active
      BY <1>3, <2>2
    <3>2. s # n
      BY <1>1, <1>4, <2>2 DEF Successors, Predecessors
    <3> QED BY <3>1, <3>2
  <2>3. S \in SUBSET g.nodes /\ Closed(S)
    BY <1>1, <2>1, <2>2
  <2> QED BY <1>1, <1>4, <2>3
<1> QED BY <1>1, <1>3, <1>4

-----------------------------------------------------------------------------
(* Counting *)

\* What is left to complete of A when n completes.
LEMMA CountOff ==
  ASSUME NEW A, IsFiniteSet(A), NEW C, NEW n \in A \ C
  PROVE  /\ Cardinality(A \ C) \in Nat
         /\ Cardinality(A \ C) >= 1
         /\ Cardinality(A \ (C \cup {n})) = Cardinality(A \ C) - 1
         /\ Cardinality(A \ C) = 1 <=> A \subseteq C \cup {n}
<1> DEFINE Rest == A \ C
<1>1. IsFiniteSet(Rest)
  BY FS_Subset
<1>2. A \ (C \cup {n}) = Rest \ {n}
  OBVIOUS
<1>3. /\ IsFiniteSet(Rest \ {n})
      /\ Cardinality(Rest \ {n}) = Cardinality(Rest) - 1
  BY <1>1, FS_RemoveElement
<1>4. Cardinality(Rest) \in Nat /\ Cardinality(Rest \ {n}) \in Nat
  BY <1>1, <1>3, FS_CardinalityType
<1>5. Cardinality(Rest \ {n}) = 0 <=> Rest \ {n} = {}
  BY <1>3, FS_EmptySet
<1> QED BY <1>2, <1>3, <1>4, <1>5

\* The predecessors counted for a node are finitely many.
LEMMA PredecessorsFinite ==
  ASSUME graph \in Graph \cup {EmptyGraph}, NEW n
  PROVE  IsFiniteSet(ActivePredecessors(n)) /\ ActivePredecessors(n) \subseteq activeNodeIds
<1>1. ActivePredecessors(n) \subseteq graph.nodes
  BY DEF ActivePredecessors, Predecessors
<1> QED BY <1>1, GraphFacts, FS_Subset DEF ActivePredecessors

-----------------------------------------------------------------------------
(* Completing a node *)

\* Of the nodes reached none is a successor of a node that has not completed, and
\* whoever completes next finds consistent counters.
LEMMA SuccessorsOpen ==
  ASSUME ExecutorInv, NEW n \in readyQueue \cup waiting
  PROVE  /\ n \in activeNodeIds /\ n \notin completedNodeIds
         /\ ActivePredecessors(n) \subseteq completedNodeIds
         /\ \A s \in Successors(graph, n) :
              /\ s \in activeNodeIds
              /\ n \in ActivePredecessors(s) \ completedNodeIds
              /\ s \notin Reached
<1> USE DEF ExecutorInv
<1>1. n \in activeNodeIds /\ n \in graph.nodes /\ n \notin completedNodeIds
  BY DEF TypeOK, StagesDisjoint
<1>2. ActivePredecessors(n) \subseteq completedNodeIds
  BY DEF CountersExact, Reached
<1>3. ASSUME NEW s \in Successors(graph, n)
      PROVE  /\ s \in activeNodeIds
             /\ n \in ActivePredecessors(s) \ completedNodeIds
             /\ s \notin Reached
  <2>1. s \in activeNodeIds
    BY <1>1, <1>3 DEF CountersExact
  <2>2. n \in ActivePredecessors(s)
    BY <1>1, <1>3 DEF ActivePredecessors, Predecessors, Successors
  <2> QED BY <1>1, <2>1, <2>2 DEF CountersExact
<1> QED BY <1>1, <1>2, <1>3

\* How the counter of an active node moves when n completes.
LEMMA CounterStep ==
  ASSUME ExecutorInv, NEW n \in readyQueue \cup waiting, NEW s \in activeNodeIds
  PROVE  LET left == ActivePredecessors(s) \ completedNodeIds
             leftNext == ActivePredecessors(s) \ (completedNodeIds \cup {n})
         IN  /\ remainingInDegree[s] \in Nat
             /\ s \in Successors(graph, n) =>
                  /\ remainingInDegree[s] >= 1
                  /\ Cardinality(leftNext) = remainingInDegree[s] - 1
                  /\ remainingInDegree[s] = 1 <=> leftNext = {}
             /\ s \notin Successors(graph, n) =>
                  leftNext = left /\ Cardinality(leftNext) = remainingInDegree[s]
<1>1. /\ graph \in Graph \cup {EmptyGraph}
      /\ remainingInDegree[s] \in Nat
      /\ remainingInDegree[s] = Cardinality(ActivePredecessors(s) \ completedNodeIds)
      /\ s \in graph.nodes
  BY DEF ExecutorInv, TypeOK, CountersExact
<1>2. IsFiniteSet(ActivePredecessors(s))
  BY <1>1, PredecessorsFinite
<1>3. CASE s \in Successors(graph, n)
  <2>1. n \in ActivePredecessors(s) \ completedNodeIds
    BY <1>3, SuccessorsOpen
  <2> QED BY <1>1, <1>2, <1>3, <2>1, CountOff
<1>4. CASE s \notin Successors(graph, n)
  <2>1. n \notin ActivePredecessors(s)
    BY <1>1, <1>4 DEF ActivePredecessors, Predecessors, Successors
  <2> QED BY <1>1, <1>4, <2>1
<1> QED BY <1>3, <1>4

\* A node that completes keeps ExecutorInv, whichever handler completes it.
LEMMA CompletionStep ==
  ASSUME ExecutorInv, isActive, NEW n \in readyQueue \cup waiting,
         NEW ready \in SUBSET readyQueue, CompleteNode(n, ready),
         waiting' \subseteq waiting,
         ready \cup waiting' = (readyQueue \cup waiting) \ {n},
         pumping' \in BOOLEAN,
         UNCHANGED <<graph, nextInvocationId, lastCompletedId>>
  PROVE  ExecutorInv'
<1> USE DEF ExecutorInv
<1> DEFINE fresh == NewlyReady(n)
           leftNext(s) == ActivePredecessors(s) \ (completedNodeIds \cup {n})
<1>1. /\ UNCHANGED <<graph, nextInvocationId, lastCompletedId>>
      /\ UNCHANGED <<isActive, invocationId, activeNodeIds>>
      /\ completedNodeIds' = completedNodeIds \cup {n}
      /\ readyQueue' = ready \cup fresh
      /\ remainingInDegree' =
           [s \in activeNodeIds |->
              IF s \in Successors(graph, n) THEN remainingInDegree[s] - 1
                                            ELSE remainingInDegree[s]]
  BY DEF CompleteNode
<1>2. \A s : ActivePredecessors(s)' = ActivePredecessors(s)
  BY <1>1 DEF ActivePredecessors
<1>3. fresh \subseteq activeNodeIds /\ fresh \cap Reached = {}
  BY SuccessorsOpen DEF NewlyReady
<1>4. n \in activeNodeIds /\ n \notin completedNodeIds /\ n \in graph.nodes
  BY SuccessorsOpen DEF TypeOK
<1>5. TypeOK'
  <2>1. nodeResults' \in [Node -> SUBSET Node]
    <3>1. n \in Node
      BY <1>4, GraphFacts DEF TypeOK
    <3>2. nodeResults' = [nodeResults EXCEPT ![n] = branches[n] \cup {n}]
      BY DEF CompleteNode, SaveNodeResult
    <3> QED BY <3>1, <3>2 DEF TypeOK
  <2>2. branches' \in [Node -> SUBSET Node]
    <3>1. branches' = [s \in Node |-> IF s \in fresh
                                        THEN InheritedWrites(nodeResults', s)
                                        ELSE branches[s]]
      BY DEF CompleteNode
    <3>2. ASSUME NEW s
          PROVE  InheritedWrites(nodeResults', s) \in SUBSET Node
      <4>1. ActivePredecessors(s) \subseteq Node
        BY GraphFacts, PredecessorsFinite DEF TypeOK
      <4> QED BY <2>1, <4>1 DEF InheritedWrites
    <3> QED BY <3>1, <3>2 DEF TypeOK
  <2>3. remainingInDegree' \in [activeNodeIds' -> Nat]
    <3>1. ASSUME NEW s \in activeNodeIds
          PROVE  /\ remainingInDegree[s] \in Nat
                 /\ s \in Successors(graph, n) => remainingInDegree[s] - 1 \in Nat
      <4>1. /\ remainingInDegree[s] \in Nat
            /\ s \in Successors(graph, n) => remainingInDegree[s] >= 1
        BY CounterStep, Zenon
      <4> QED BY <4>1
    <3> QED BY <1>1, <3>1
  <2>4. readyQueue' \subseteq activeNodeIds /\ completedNodeIds' \subseteq activeNodeIds
    BY <1>1, <1>3, <1>4 DEF TypeOK
  <2> QED BY <1>1, <2>1, <2>2, <2>3, <2>4 DEF TypeOK
<1>6. IdleIsClear'
  BY <1>1 DEF IdleIsClear
<1>7. ActiveIdIsNewest'
  BY <1>1 DEF ActiveIdIsNewest
<1>8. StagesDisjoint'
  BY <1>1, <1>3 DEF StagesDisjoint, Reached
<1>9. CountersExact'
  <2>1. ASSUME NEW s \in activeNodeIds
        PROVE  remainingInDegree'[s] = Cardinality(leftNext(s))
    BY <1>1, CounterStep
  <2>2. Reached' = Reached \cup fresh
    BY <1>1 DEF Reached
  <2>3. ASSUME NEW s \in activeNodeIds
        PROVE  s \in Reached \cup fresh <=> leftNext(s) = {}
    <3>1. CASE s \in Successors(graph, n)
      <4>1. s \notin Reached
        BY <3>1, SuccessorsOpen
      <4>2. s \in fresh <=> remainingInDegree[s] = 1
        BY <3>1 DEF NewlyReady
      <4> QED BY <3>1, <4>1, <4>2, CounterStep
    <3>2. CASE s \notin Successors(graph, n)
      <4>1. s \notin fresh
        BY <3>2 DEF NewlyReady
      <4>2. leftNext(s) = ActivePredecessors(s) \ completedNodeIds
        BY <3>2, CounterStep
      <4> QED BY <4>1, <4>2 DEF CountersExact
    <3> QED BY <3>1, <3>2
  <2>4. Reached \cup fresh \subseteq activeNodeIds
    BY <1>3 DEF Reached, TypeOK
  <2> QED BY <1>1, <1>2, <2>1, <2>2, <2>3, <2>4 DEF CountersExact
<1> QED BY <1>5, <1>6, <1>7, <1>8, <1>9

-----------------------------------------------------------------------------
(* The invariant *)

LEMMA InitExecutorInv == Init => ExecutorInv
<1> SUFFICES ASSUME Init PROVE ExecutorInv
  OBVIOUS
<1> USE DEF Init
<1>1. TypeOK
  BY GraphFacts DEF TypeOK, NoWrites
<1>2. IdleIsClear /\ ActiveIdIsNewest /\ StagesDisjoint /\ CountersExact
  BY DEF IdleIsClear, ActiveIdIsNewest, StagesDisjoint, CountersExact, Reached
<1> QED BY <1>1, <1>2 DEF ExecutorInv

\* An ended invocation leaves nothing that could break the invariant.
LEMMA ClearedInv ==
  ASSUME ExecutorInv, ClearInvocationState, waiting' = {}, pumping' = FALSE,
         graph' \in Graph \cup {EmptyGraph}, nextInvocationId' \in Nat,
         lastCompletedId' \in Nat, lastCompletedId' <= nextInvocationId'
  PROVE  ExecutorInv'
<1> USE DEF ClearInvocationState
<1>1. TypeOK'
  BY DEF TypeOK, NoWrites
<1>2. IdleIsClear' /\ ActiveIdIsNewest' /\ StagesDisjoint' /\ CountersExact'
  BY DEF IdleIsClear, ActiveIdIsNewest, StagesDisjoint, CountersExact, Reached
<1> QED BY <1>1, <1>2 DEF ExecutorInv

LEMMA BeginStep ==
  ASSUME ExecutorInv, NEW t \in Trigger \cup {NoTrigger}, BeginInvocation(t)
  PROVE  ExecutorInv'
<1> DEFINE sources == SelectSourceNodes(graph, t)
           active == ActiveSubgraph(graph, sources)
<1>1. /\ nextInvocationId' = nextInvocationId + 1
      /\ invocationId' = nextInvocationId'
      /\ isActive' = TRUE
      /\ activeNodeIds' = active
      /\ remainingInDegree' = ActiveInDegree(graph, active)
      /\ readyQueue' = sources
      /\ completedNodeIds' = {}
      /\ branches' = NoWrites
      /\ nodeResults' = NoWrites
      /\ pumping' = TRUE
      /\ UNCHANGED <<graph, lastCompletedId, waiting>>
  BY DEF BeginInvocation, NewInvocationId
<1>2. waiting = {}
  BY DEF BeginInvocation, CanBegin, IsIdle
<1>3. /\ graph \in Graph \cup {EmptyGraph}
      /\ nextInvocationId \in Nat
      /\ lastCompletedId \in Nat
      /\ lastCompletedId <= nextInvocationId
  BY DEF ExecutorInv, TypeOK, ActiveIdIsNewest
<1>4. sources \subseteq graph.nodes /\ \A n \in sources : Predecessors(graph, n) = {}
  BY <1>3, SelectedAreSources
<1>5. /\ sources \subseteq active /\ active \subseteq graph.nodes
      /\ \A m \in active : Successors(graph, m) \subseteq active
      /\ \A n \in active : Predecessors(graph, n) \cap active = {} => n \in sources
  BY <1>3, <1>4, ActiveSubgraphFacts
<1>6. \A n : ActivePredecessors(n)' = Predecessors(graph, n) \cap active
  BY <1>1 DEF ActivePredecessors
<1>7. \A n \in active : Cardinality(Predecessors(graph, n) \cap active) \in Nat
  <2>1. \A n : Predecessors(graph, n) \cap active \in SUBSET graph.nodes
    BY <1>5
  <2> QED BY <1>3, <2>1, GraphFacts, FS_Subset, FS_CardinalityType
<1>8. TypeOK'
  BY <1>1, <1>2, <1>3, <1>5, <1>7 DEF TypeOK, ActiveInDegree, NoWrites
<1>9. IdleIsClear' /\ ActiveIdIsNewest' /\ StagesDisjoint'
  BY <1>1, <1>2, <1>3 DEF IdleIsClear, ActiveIdIsNewest, StagesDisjoint
<1>10. CountersExact'
  <2>1. \A n \in active : remainingInDegree'[n] =
          Cardinality((Predecessors(graph, n) \cap active) \ {})
    <3>1. \A n : (Predecessors(graph, n) \cap active) \ {} = Predecessors(graph, n) \cap active
      OBVIOUS
    <3> QED BY <1>1, <3>1 DEF ActiveInDegree
  <2>2. Reached' = sources
    BY <1>1, <1>2 DEF Reached
  <2>3. sources = {n \in active : Predecessors(graph, n) \cap active \subseteq {}}
    BY <1>4, <1>5
  <2> QED BY <1>1, <1>5, <1>6, <2>1, <2>2, <2>3 DEF CountersExact
<1> QED BY <1>8, <1>9, <1>10 DEF ExecutorInv

LEMMA PendingStep ==
  ASSUME ExecutorInv, NEW n \in Node, ExecutePendingNode(n)
  PROVE  ExecutorInv'
<1> USE DEF ExecutorInv
<1>1. /\ n \in readyQueue
      /\ pumping
      /\ nodeResults' = [nodeResults EXCEPT ![n] = branches[n] \cup {n}]
      /\ readyQueue' = readyQueue \ {n}
      /\ waiting' = waiting \cup {n}
      /\ UNCHANGED <<graph, nextInvocationId, lastCompletedId, pumping, isActive,
                     invocationId, activeNodeIds, remainingInDegree,
                     completedNodeIds, branches>>
  BY DEF ExecutePendingNode, IsFirstReady, SaveNodeResult
<1>2. n \in activeNodeIds /\ isActive
  BY <1>1 DEF TypeOK, IdleIsClear
<1>3. TypeOK'
  BY <1>1, <1>2 DEF TypeOK
<1>4. IdleIsClear' /\ ActiveIdIsNewest' /\ StagesDisjoint'
  BY <1>1, <1>2 DEF IdleIsClear, ActiveIdIsNewest, StagesDisjoint
<1>5. CountersExact'
  <2>1. Reached' = Reached
    BY <1>1 DEF Reached
  <2>2. \A s : ActivePredecessors(s)' = ActivePredecessors(s)
    BY <1>1 DEF ActivePredecessors
  <2> QED BY <1>1, <2>1, <2>2 DEF CountersExact
<1> QED BY <1>3, <1>4, <1>5

LEMMA NextExecutorInv == ExecutorInv /\ [Next]_vars => ExecutorInv'
<1> SUFFICES ASSUME ExecutorInv, [Next]_vars PROVE ExecutorInv'
  OBVIOUS
<1>0. /\ TypeOK /\ IdleIsClear
      /\ nextInvocationId \in Nat /\ lastCompletedId \in Nat /\ invocationId \in Nat
      /\ lastCompletedId <= nextInvocationId
      /\ isActive => invocationId = nextInvocationId
      /\ graph \in Graph \cup {EmptyGraph}
      /\ readyQueue \cap waiting = {}
  BY DEF ExecutorInv, TypeOK, ActiveIdIsNewest, StagesDisjoint
<1>1. ASSUME NEW t \in Trigger \cup {NoTrigger}, BeginInvocation(t)
      PROVE  ExecutorInv'
  BY <1>1, BeginStep
<1>2. ASSUME NEW t \in Trigger \cup {NoTrigger}, RefuseInvocation(t)
      PROVE  ExecutorInv'
  <2>1. /\ ClearInvocationState
        /\ nextInvocationId' = nextInvocationId + 1
        /\ UNCHANGED <<graph, lastCompletedId, waiting, pumping>>
        /\ waiting = {} /\ ~pumping
    BY <1>2 DEF RefuseInvocation, NewInvocationId, CanBegin, IsIdle
  <2>2. /\ nextInvocationId' \in Nat /\ lastCompletedId' \in Nat
        /\ lastCompletedId' <= nextInvocationId'
        /\ waiting' = {} /\ graph' \in Graph \cup {EmptyGraph}
    BY <1>0, <2>1
  <2>3. pumping' = FALSE
    BY <1>0, <2>1 DEF TypeOK
  <2> QED BY <2>1, <2>2, <2>3, ClearedInv
<1>3. ASSUME NEW n \in Node, ExecuteReadyNode(n)
      PROVE  ExecutorInv'
  <2>1. /\ n \in readyQueue
        /\ CompleteNode(n, readyQueue \ {n})
        /\ UNCHANGED <<graph, nextInvocationId, lastCompletedId, waiting, pumping>>
    BY <1>3 DEF ExecuteReadyNode, IsFirstReady
  <2>2. isActive /\ pumping' \in BOOLEAN
    BY <1>0, <2>1 DEF TypeOK, IdleIsClear
  <2>3. /\ waiting' \subseteq waiting
        /\ (readyQueue \ {n}) \cup waiting' = (readyQueue \cup waiting) \ {n}
    BY <1>0, <2>1
  <2> QED BY <2>1, <2>2, <2>3, CompletionStep
<1>4. ASSUME NEW n \in Node, ExecutePendingNode(n)
      PROVE  ExecutorInv'
  BY <1>4, PendingStep
<1>5. ASSUME NEW n \in Node, ResumePendingNode(n)
      PROVE  ExecutorInv'
  <2>1. /\ n \in waiting /\ isActive
        /\ waiting' = waiting \ {n}
        /\ CompleteNode(n, readyQueue)
        /\ pumping' = TRUE
        /\ UNCHANGED <<graph, nextInvocationId, lastCompletedId>>
    BY <1>5 DEF ResumePendingNode
  <2> QED BY <1>0, <2>1, CompletionStep
<1>6. CASE FailPump
  BY <1>0, <1>6, ClearedInv DEF FailPump
<1>7. CASE SuspendPump
  <2>1. isActive
    BY <1>0, <1>7 DEF SuspendPump, IdleIsClear
  <2>2. /\ UNCHANGED <<graph, nextInvocationId, lastCompletedId, waiting, invocationState>>
        /\ pumping' = FALSE
    BY <1>7 DEF SuspendPump
  <2> QED BY <2>1, <2>2 DEF ExecutorInv, TypeOK, IdleIsClear, ActiveIdIsNewest,
             StagesDisjoint, CountersExact, Reached, ActivePredecessors, invocationState
<1>8. CASE CompleteInvocation
  <2>1. isActive
    BY <1>0, <1>8 DEF CompleteInvocation, IdleIsClear
  <2>2. /\ ClearInvocationState /\ waiting' = {} /\ pumping' = FALSE
        /\ lastCompletedId' = invocationId
        /\ UNCHANGED <<graph, nextInvocationId>>
    BY <1>8 DEF CompleteInvocation
  <2>3. /\ nextInvocationId' \in Nat /\ lastCompletedId' \in Nat
        /\ lastCompletedId' <= nextInvocationId'
        /\ graph' \in Graph \cup {EmptyGraph}
    BY <1>0, <2>1, <2>2
  <2> QED BY <2>2, <2>3, ClearedInv
<1>9. CASE AbandonInvocation
  <2>1. pumping' = FALSE
    BY <1>0, <1>9 DEF AbandonInvocation, TypeOK
  <2> QED BY <1>0, <1>9, <2>1, ClearedInv DEF AbandonInvocation
<1>10. ASSUME NEW g \in Graph, ReplaceGraphIfIdle(g)
       PROVE  ExecutorInv'
  <2>1. /\ graph' = g /\ ~isActive /\ activeNodeIds = {} /\ waiting = {} /\ ~pumping
        /\ UNCHANGED <<nextInvocationId, lastCompletedId, waiting, pumping, invocationState>>
    BY <1>0, <1>10 DEF ReplaceGraphIfIdle, IsIdle, IdleIsClear
  <2>2. TypeOK'
    BY <1>0, <2>1 DEF TypeOK, invocationState
  <2>3. IdleIsClear' /\ ActiveIdIsNewest' /\ StagesDisjoint' /\ CountersExact'
    BY <2>1 DEF ExecutorInv, TypeOK, IdleIsClear, ActiveIdIsNewest, StagesDisjoint,
       CountersExact, Reached, invocationState
  <2> QED BY <2>2, <2>3 DEF ExecutorInv
<1>11. CASE UNCHANGED vars
  BY <1>11 DEF ExecutorInv, TypeOK, IdleIsClear, ActiveIdIsNewest, StagesDisjoint,
     CountersExact, Reached, ActivePredecessors, vars, invocationState
<1> QED
  BY <1>1, <1>2, <1>3, <1>4, <1>5, <1>6, <1>7, <1>8, <1>9, <1>10, <1>11 DEF Next

-----------------------------------------------------------------------------
(* Theorems *)

\* ExecutorInv holds in every state: types, nothing left behind by an ended invocation,
\* the newest id in progress, one stage per node, exact counters (agent_graph_executor.cpp).
THEOREM ExecutorInvariant == Spec => []ExecutorInv
<1>1. Init => ExecutorInv
  BY InitExecutorInv
<1>2. ExecutorInv /\ [Next]_vars => ExecutorInv'
  BY NextExecutorInv
<1> QED BY <1>1, <1>2, PTL DEF Spec

\* Every variable of the executor keeps its type.
THEOREM TypeCorrect == Spec => []TypeOK
<1>1. ExecutorInv => TypeOK
  BY DEF ExecutorInv
<1> QED BY <1>1, ExecutorInvariant, PTL

\* Whichever node completes next, the scheduling checks of ExecuteReadyNode, CompleteNode
\* and EnqueueReadyNode pass: their error branches are dead code.
THEOREM SchedulingChecksNeverFail == Spec => []SchedulingChecksHold
<1>1. ExecutorInv => SchedulingChecksHold
  <2> SUFFICES ASSUME ExecutorInv, NEW n \in readyQueue \cup waiting
               PROVE  /\ remainingInDegree[n] = 0
                      /\ n \notin completedNodeIds
                      /\ \A s \in Successors(graph, n) :
                           s \in activeNodeIds /\ remainingInDegree[s] > 0
                      /\ NewlyReady(n) \cap Reached = {}
    BY DEF SchedulingChecksHold
  <2>1. remainingInDegree[n] = 0 /\ n \notin completedNodeIds
    <3>1. n \in activeNodeIds /\ ActivePredecessors(n) \ completedNodeIds = {}
      BY SuccessorsOpen
    <3>2. remainingInDegree[n] = Cardinality(ActivePredecessors(n) \ completedNodeIds)
      BY <3>1 DEF ExecutorInv, CountersExact
    <3> QED BY <3>1, <3>2, FS_EmptySet, SuccessorsOpen
  <2>2. ASSUME NEW s \in Successors(graph, n)
        PROVE  s \in activeNodeIds /\ remainingInDegree[s] > 0
    <3>1. s \in activeNodeIds
      BY SuccessorsOpen
    <3>2. remainingInDegree[s] \in Nat /\ remainingInDegree[s] >= 1
      BY <3>1, CounterStep, Zenon
    <3> QED BY <3>1, <3>2
  <2>3. NewlyReady(n) \cap Reached = {}
    BY SuccessorsOpen DEF NewlyReady
  <2> QED BY <2>1, <2>2, <2>3
<1> QED BY <1>1, ExecutorInvariant, PTL

\* Between two handlers an invocation in progress waits for a request (SuspendPump is the
\* only way to leave the pump with the invocation still active).
THEOREM NeverWedgedAnywhere == Spec => []NeverWedged
<1>1. Init => NeverWedged
  BY DEF Init, NeverWedged
<1>2. NeverWedged /\ [Next]_vars => NeverWedged'
  <2> SUFFICES ASSUME NeverWedged, [Next]_vars PROVE NeverWedged'
    OBVIOUS
  <2> USE DEF NeverWedged
  <2>1. ASSUME NEW t \in Trigger \cup {NoTrigger},
               BeginInvocation(t) \/ RefuseInvocation(t)
        PROVE  NeverWedged'
    BY <2>1 DEF BeginInvocation, RefuseInvocation, ClearInvocationState
  <2>2. ASSUME NEW n \in Node,
               ExecuteReadyNode(n) \/ ExecutePendingNode(n) \/ ResumePendingNode(n)
        PROVE  NeverWedged'
    BY <2>2 DEF ExecuteReadyNode, ExecutePendingNode, ResumePendingNode
  <2>3. CASE FailPump \/ CompleteInvocation \/ AbandonInvocation
    BY <2>3 DEF FailPump, CompleteInvocation, AbandonInvocation, ClearInvocationState
  <2>4. CASE SuspendPump
    BY <2>4 DEF SuspendPump
  <2>5. ASSUME NEW g \in Graph, ReplaceGraphIfIdle(g)
        PROVE  NeverWedged'
    BY <2>5 DEF ReplaceGraphIfIdle, IsIdle, invocationState
  <2>6. CASE UNCHANGED vars
    BY <2>6 DEF vars, invocationState
  <2> QED BY <2>1, <2>2, <2>3, <2>4, <2>5, <2>6 DEF Next
<1> QED BY <1>1, <1>2, PTL DEF Spec

\* Within an invocation a dequeued node is never queued again and a completed one stays
\* completed: EnqueueReadyNode is called once per node.
THEOREM EachNodeRunsOnce == Spec => EachNodeOnce
<1> DEFINE Once ==
      (isActive /\ isActive' /\ invocationId' = invocationId) =>
        /\ (waiting \cup completedNodeIds) \cap readyQueue' = {}
        /\ completedNodeIds \subseteq completedNodeIds'
<1>1. ExecutorInv /\ [Next]_vars => [Once]_vars
  <2> SUFFICES ASSUME ExecutorInv, Next, isActive, isActive'
               PROVE  /\ (waiting \cup completedNodeIds) \cap readyQueue' = {}
                      /\ completedNodeIds \subseteq completedNodeIds'
    OBVIOUS
  <2>1. StagesDisjoint
    BY DEF ExecutorInv
  <2>2. ASSUME NEW n \in readyQueue \cup waiting, NEW ready \in SUBSET readyQueue,
               CompleteNode(n, ready)
        PROVE  /\ (waiting \cup completedNodeIds) \cap readyQueue' = {}
               /\ completedNodeIds \subseteq completedNodeIds'
    <3>1. NewlyReady(n) \cap Reached = {}
      BY SuccessorsOpen DEF NewlyReady
    <3> QED BY <2>1, <2>2, <3>1 DEF CompleteNode, StagesDisjoint, Reached
  <2>3. ~BeginInvocation(NoTrigger) /\ \A t \in Trigger : ~BeginInvocation(t)
    BY DEF BeginInvocation, CanBegin, IsIdle
  <2>4. ASSUME NEW n \in Node, ExecuteReadyNode(n)
        PROVE  /\ (waiting \cup completedNodeIds) \cap readyQueue' = {}
               /\ completedNodeIds \subseteq completedNodeIds'
    BY <2>2, <2>4 DEF ExecuteReadyNode, IsFirstReady
  <2>5. ASSUME NEW n \in Node, ResumePendingNode(n)
        PROVE  /\ (waiting \cup completedNodeIds) \cap readyQueue' = {}
               /\ completedNodeIds \subseteq completedNodeIds'
    BY <2>2, <2>5 DEF ResumePendingNode
  <2>6. ASSUME NEW n \in Node, ExecutePendingNode(n)
        PROVE  /\ (waiting \cup completedNodeIds) \cap readyQueue' = {}
               /\ completedNodeIds \subseteq completedNodeIds'
    BY <2>1, <2>6 DEF ExecutePendingNode, StagesDisjoint
  <2>7. CASE SuspendPump
    BY <2>1, <2>7 DEF SuspendPump, invocationState, StagesDisjoint
  <2>8. ~FailPump /\ ~CompleteInvocation /\ ~AbandonInvocation
    BY DEF FailPump, CompleteInvocation, AbandonInvocation, ClearInvocationState
  <2>9. \A g \in Graph : ~ReplaceGraphIfIdle(g)
    BY DEF ReplaceGraphIfIdle, IsIdle
  <2>10. \A t \in Trigger \cup {NoTrigger} : ~RefuseInvocation(t)
    BY DEF RefuseInvocation, ClearInvocationState
  <2> QED
    BY <2>3, <2>4, <2>5, <2>6, <2>7, <2>8, <2>9, <2>10 DEF Next
<1> QED BY <1>1, ExecutorInvariant, PTL DEF Spec, EachNodeOnce

\* A set of naturals that is not empty has a least element.
LEMMA LeastNatural ==
  ASSUME NEW S \in SUBSET Nat, S # {}
  PROVE  \E m \in S : \A k \in S : m <= k
<1>1. PICK m \in S : \A k \in S : ~(<<k, m>> \in OpToRel(<, Nat))
  BY NatLessThanWellFounded, WFMin
<1>2. ASSUME NEW k \in S PROVE m <= k
  <2>1. ~(k < m)
    BY <1>1 DEF OpToRel
  <2> QED BY <2>1
<1> QED BY <1>1, <1>2

\* PumpReadyQueue never reports that it stopped before all nodes completed: the snapshot is
\* acyclic, so that among the nodes left the first of a topological order would be ready.
THEOREM NeverStopsBeforeTheEnd == Spec => []NeverStopsEarly
<1>1. ExecutorInv => NeverStopsEarly
  <2> SUFFICES ASSUME ExecutorInv, readyQueue = {}, waiting = {},
                      completedNodeIds # activeNodeIds
               PROVE  FALSE
    BY DEF NeverStopsEarly
  <2> DEFINE open == activeNodeIds \ completedNodeIds
  <2>1. /\ open # {}
        /\ activeNodeIds \subseteq graph.nodes
        /\ graph \in Graph
    <3>1. /\ activeNodeIds \subseteq graph.nodes
          /\ completedNodeIds \subseteq activeNodeIds
          /\ graph \in Graph \cup {EmptyGraph}
      BY DEF ExecutorInv, TypeOK
    <3>2. EmptyGraph.nodes = {}
      BY DEF EmptyGraph
    <3> QED BY <3>1, <3>2
  <2>2. PICK order \in [graph.nodes -> 1..Cardinality(graph.nodes)] :
          \A e \in graph.edges : order[e[1]] < order[e[2]]
    BY <2>1, ExecutorAssumption DEF IsSnapshot, Acyclic
  <2>3. \A n \in open : order[n] \in Nat
    <3>1. Cardinality(graph.nodes) \in Nat
      BY <2>1, GraphFacts, FS_CardinalityType
    <3> QED BY <2>1, <2>2, <3>1
  <2>4. PICK n \in open : \A m \in open : order[n] <= order[m]
    <3> DEFINE positions == {order[m] : m \in open}
    <3>1. positions \in SUBSET Nat /\ positions # {}
      BY <2>1, <2>3
    <3>2. PICK least \in positions : \A k \in positions : least <= k
      BY <3>1, LeastNatural
    <3> QED BY <3>2
  <2>5. PICK m : m \in ActivePredecessors(n) \ completedNodeIds
    BY DEF ExecutorInv, CountersExact, Reached
  <2>6. m \in open /\ <<m, n>> \in graph.edges
    BY <2>5 DEF ActivePredecessors, Predecessors
  <2>7. order[m] < order[n]
    BY <2>2, <2>6
  <2> QED BY <2>3, <2>4, <2>6, <2>7
<1> QED BY <1>1, ExecutorInvariant, PTL

\* The scheduler's bookkeeping is consistent in every reachable state: its error branches
\* are dead code, no invocation stops early and none is left that nobody continues.
THEOREM SchedulingSound == Spec => []SchedulingIsSound
<1>1. /\ ExecutorInv /\ SchedulingChecksHold /\ NeverStopsEarly /\ NeverWedged
        => SchedulingIsSound
  BY DEF SchedulingIsSound
<1> QED BY <1>1, ExecutorInvariant, SchedulingChecksNeverFail, NeverStopsBeforeTheEnd,
           NeverWedgedAnywhere, PTL

-----------------------------------------------------------------------------
(* The contexts *)

\* The ancestors of a node within a part of a snapshot.
AncestorsIn(g, active, n) ==
  {m \in active : \E c \in Successors(g, m) : n \in ActiveSubgraph(g, {c})}

\* An ancestor of an active node is one of its active parents or an ancestor of one.
LEMMA AncestorsOfParents ==
  ASSUME NEW g \in Graph \cup {EmptyGraph}, NEW active \in SUBSET g.nodes,
         \A m \in active : Successors(g, m) \subseteq active,
         NEW s \in active
  PROVE  AncestorsIn(g, active, s) =
           UNION {AncestorsIn(g, active, p) \cup {p} : p \in Predecessors(g, s) \cap active}
<1> DEFINE Ancestors(n) == AncestorsIn(g, active, n)
           Below(c) == ActiveSubgraph(g, {c})
           parents == Predecessors(g, s) \cap active
           inherited == UNION {Ancestors(p) \cup {p} : p \in parents}
<1>1. ASSUME NEW c \in g.nodes
      PROVE  /\ c \in Below(c)
             /\ Below(c) \subseteq g.nodes
             /\ \A m \in Below(c) : Successors(g, m) \subseteq Below(c)
             /\ \A n \in Below(c) : n = c \/ Predecessors(g, n) \cap Below(c) # {}
  <2>1. {c} \in SUBSET g.nodes
    OBVIOUS
  <2>2. /\ {c} \subseteq Below(c)
        /\ Below(c) \subseteq g.nodes
        /\ \A m \in Below(c) : Successors(g, m) \subseteq Below(c)
        /\ \A n \in Below(c) : Predecessors(g, n) \cap Below(c) = {} => n \in {c}
    BY <2>1, ActiveSubgraphFacts
  <2> HIDE DEF Below
  <2> QED BY <2>2
<1>2. ASSUME NEW c \in active
      PROVE  Below(c) \subseteq active
  BY DEF ActiveSubgraph
<1>3. \A m, n : m \in Ancestors(n) <=> m \in active /\ \E c \in Successors(g, m) : n \in Below(c)
  BY DEF AncestorsIn
<1>4. \A p : p \in parents <=> p \in active /\ s \in Successors(g, p)
  BY DEF Predecessors, Successors
<1> HIDE DEF Below, Ancestors
<1>5. ASSUME NEW m \in Ancestors(s) PROVE m \in inherited
  <2>1. PICK c \in Successors(g, m) : s \in Below(c)
    BY <1>3, <1>5
  <2>2. m \in active /\ c \in active /\ c \in g.nodes
    BY <1>3, <1>5, <2>1
  <2>3. CASE s = c
    BY <1>4, <2>1, <2>2, <2>3
  <2>4. CASE s # c
    <3>1. PICK p \in Below(c) : p \in Predecessors(g, s)
      BY <1>1, <2>1, <2>2, <2>4
    <3>2. p \in parents /\ m \in Ancestors(p)
      BY <1>2, <1>3, <2>1, <2>2, <3>1
    <3> QED BY <3>2
  <2> QED BY <2>3, <2>4
<1>6. ASSUME NEW p \in parents, NEW m \in Ancestors(p) \cup {p}
      PROVE  m \in Ancestors(s)
  <2>1. p \in active /\ s \in Successors(g, p) /\ s \in g.nodes
    BY <1>4, <1>6
  <2>2. CASE m = p
    BY <1>1, <1>3, <2>1, <2>2
  <2>3. CASE m \in Ancestors(p)
    <3>1. PICK c \in Successors(g, m) : p \in Below(c)
      BY <1>3, <2>3
    <3>2. m \in active /\ c \in g.nodes
      BY <1>3, <2>3, <3>1
    <3>3. s \in Below(c)
      BY <1>1, <2>1, <3>1, <3>2
    <3> QED BY <1>3, <3>1, <3>2, <3>3
  <2> QED BY <1>6, <2>2, <2>3
<1> QED BY <1>5, <1>6 DEF Ancestors

(***************************************************************************)
(* What a context holds: a node that was reached starts from the writes of *)
(* its ancestors, and one that ran has added its own.                      *)
(***************************************************************************)
ContextsExact ==
  /\ \A n \in Reached : branches[n] = ActiveAncestors(n)
  /\ \A n \in waiting \cup completedNodeIds : nodeResults[n] = ActiveAncestors(n) \cup {n}

\* A node that completes hands each successor it makes ready all the writes it needs.
LEMMA CompletionKeepsContexts ==
  ASSUME ExecutorInv, ContextsExact, isActive, NEW n \in readyQueue \cup waiting,
         NEW ready \in SUBSET readyQueue, CompleteNode(n, ready),
         waiting' \subseteq waiting,
         ready \cup waiting' = (readyQueue \cup waiting) \ {n},
         UNCHANGED graph
  PROVE  ContextsExact'
<1> DEFINE fresh == NewlyReady(n)
<1>1. /\ UNCHANGED <<graph, activeNodeIds>>
      /\ completedNodeIds' = completedNodeIds \cup {n}
      /\ readyQueue' = ready \cup fresh
      /\ nodeResults' = [nodeResults EXCEPT ![n] = branches[n] \cup {n}]
      /\ branches' = [s \in Node |-> IF s \in fresh THEN InheritedWrites(nodeResults', s)
                                                    ELSE branches[s]]
  BY DEF CompleteNode, SaveNodeResult
<1>2. \A s : ActiveAncestors(s)' = ActiveAncestors(s)
  BY <1>1 DEF ActiveAncestors
<1>3. /\ fresh \subseteq activeNodeIds /\ fresh \cap Reached = {}
      /\ n \in activeNodeIds /\ n \notin completedNodeIds
  BY SuccessorsOpen DEF NewlyReady
<1>4. /\ activeNodeIds \subseteq Node
      /\ nodeResults \in [Node -> SUBSET Node]
      /\ Reached \subseteq activeNodeIds
  BY GraphFacts DEF ExecutorInv, TypeOK, Reached
<1>5. Reached' = Reached \cup fresh
  BY <1>1 DEF Reached
<1>6. \A m \in waiting' \cup completedNodeIds' : nodeResults'[m] = ActiveAncestors(m) \cup {m}
  <2>1. nodeResults'[n] = ActiveAncestors(n) \cup {n}
    BY <1>1, <1>3, <1>4 DEF ContextsExact, Reached
  <2>2. ASSUME NEW m \in waiting' \cup completedNodeIds', m # n
        PROVE  nodeResults'[m] = ActiveAncestors(m) \cup {m}
    BY <1>1, <2>2 DEF ContextsExact
  <2> QED BY <2>1, <2>2
<1>7. ASSUME NEW s \in fresh PROVE branches'[s] = ActiveAncestors(s)
  <2>1. ActivePredecessors(s) \subseteq completedNodeIds'
    BY <1>1, <1>3, CounterStep DEF NewlyReady
  <2>2. InheritedWrites(nodeResults', s) =
          UNION {ActiveAncestors(p) \cup {p} : p \in ActivePredecessors(s)}
    BY <1>6, <2>1 DEF InheritedWrites
  <2>3. branches'[s] = InheritedWrites(nodeResults', s)
    BY <1>1, <1>3, <1>4, <1>7
  <2>4. ActiveAncestors(s) =
          UNION {ActiveAncestors(p) \cup {p} : p \in ActivePredecessors(s)}
    BY <1>3, AncestorsOfParents
       DEF ActiveAncestors, AncestorsIn, ActivePredecessors, ExecutorInv, TypeOK, CountersExact
  <2> QED BY <2>2, <2>3, <2>4
<1>8. ASSUME NEW s \in Reached PROVE branches'[s] = ActiveAncestors(s)
  BY <1>1, <1>3, <1>4, <1>8 DEF ContextsExact
<1> QED BY <1>2, <1>5, <1>6, <1>7, <1>8 DEF ContextsExact

LEMMA NextContexts == ExecutorInv /\ ContextsExact /\ [Next]_vars => ContextsExact'
<1> SUFFICES ASSUME ExecutorInv, ContextsExact, [Next]_vars PROVE ContextsExact'
  OBVIOUS
<1>0. /\ IdleIsClear /\ StagesDisjoint
      /\ graph \in Graph \cup {EmptyGraph}
      /\ readyQueue \subseteq activeNodeIds /\ completedNodeIds \subseteq activeNodeIds
      /\ waiting \subseteq activeNodeIds
      /\ activeNodeIds \subseteq Node
  BY GraphFacts DEF ExecutorInv, TypeOK
<1>1. ASSUME readyQueue' = {}, waiting' = {}, completedNodeIds' = {}
      PROVE  ContextsExact'
  BY <1>1 DEF ContextsExact, Reached
<1>2. ASSUME NEW t \in Trigger \cup {NoTrigger}, BeginInvocation(t)
      PROVE  ContextsExact'
  <2> DEFINE sources == SelectSourceNodes(graph, t)
             active == ActiveSubgraph(graph, sources)
  <2>1. /\ activeNodeIds' = active /\ readyQueue' = sources /\ completedNodeIds' = {}
        /\ branches' = NoWrites /\ UNCHANGED <<graph, waiting>>
    BY <1>2 DEF BeginInvocation
  <2>2. waiting = {}
    BY <1>2 DEF BeginInvocation, CanBegin, IsIdle
  <2>3. /\ sources \subseteq active /\ active \subseteq graph.nodes
        /\ \A n \in sources : Predecessors(graph, n) = {}
    BY <1>0, SelectedAreSources, ActiveSubgraphFacts
  <2>5. ASSUME NEW n \in sources
        PROVE  branches'[n] = ActiveAncestors(n)'
    <3>1. Predecessors(graph, n) \cap active = {}
      BY <2>3
    <3>2. \A m \in active : Successors(graph, m) \subseteq active
      BY <1>0, <2>3, SelectedAreSources, ActiveSubgraphFacts
    <3>3. AncestorsIn(graph, active, n) =
            UNION {AncestorsIn(graph, active, p) \cup {p} :
                     p \in Predecessors(graph, n) \cap active}
      BY <1>0, <2>3, <3>2, AncestorsOfParents
    <3>4. ActiveAncestors(n)' = {}
      BY <2>1, <3>1, <3>3 DEF ActiveAncestors, AncestorsIn
    <3>5. n \in Node
      BY <1>0, <2>3, GraphFacts
    <3> QED BY <2>1, <3>4, <3>5 DEF NoWrites
  <2> QED BY <2>1, <2>2, <2>5 DEF ContextsExact, Reached
<1>3. ASSUME NEW n \in Node, ExecuteReadyNode(n)
      PROVE  ContextsExact'
  <2>1. /\ n \in readyQueue /\ isActive
        /\ CompleteNode(n, readyQueue \ {n})
        /\ UNCHANGED <<graph, waiting>>
    BY <1>0, <1>3 DEF ExecuteReadyNode, IsFirstReady, IdleIsClear
  <2>2. /\ waiting' \subseteq waiting
        /\ (readyQueue \ {n}) \cup waiting' = (readyQueue \cup waiting) \ {n}
    BY <1>0, <2>1 DEF StagesDisjoint
  <2> QED BY <2>1, <2>2, CompletionKeepsContexts
<1>4. ASSUME NEW n \in Node, ExecutePendingNode(n)
      PROVE  ContextsExact'
  <2>1. /\ n \in readyQueue
        /\ nodeResults' = [nodeResults EXCEPT ![n] = branches[n] \cup {n}]
        /\ readyQueue' = readyQueue \ {n} /\ waiting' = waiting \cup {n}
        /\ UNCHANGED <<graph, activeNodeIds, completedNodeIds, branches>>
    BY <1>4 DEF ExecutePendingNode, IsFirstReady, SaveNodeResult
  <2>2. \A s : ActiveAncestors(s)' = ActiveAncestors(s)
    BY <2>1 DEF ActiveAncestors
  <2>3. Reached' = Reached
    BY <2>1 DEF Reached
  <2>4. nodeResults'[n] = ActiveAncestors(n) \cup {n}
    BY <1>4, <2>1 DEF ExecutorInv, TypeOK, ContextsExact, Reached
  <2>5. ASSUME NEW m \in waiting \cup completedNodeIds, m # n
        PROVE  nodeResults'[m] = ActiveAncestors(m) \cup {m}
    BY <2>1, <2>5 DEF ContextsExact
  <2> QED BY <2>1, <2>2, <2>3, <2>4, <2>5 DEF ContextsExact
<1>5. ASSUME NEW n \in Node, ResumePendingNode(n)
      PROVE  ContextsExact'
  <2>1. /\ n \in waiting /\ isActive /\ waiting' = waiting \ {n}
        /\ CompleteNode(n, readyQueue)
        /\ UNCHANGED graph
    BY <1>5 DEF ResumePendingNode
  <2>2. readyQueue \cup waiting' = (readyQueue \cup waiting) \ {n}
    BY <1>0, <2>1 DEF StagesDisjoint
  <2> QED BY <2>1, <2>2, CompletionKeepsContexts
<1>6. ASSUME NEW t \in Trigger \cup {NoTrigger}, RefuseInvocation(t)
      PROVE  ContextsExact'
  BY <1>1, <1>6 DEF RefuseInvocation, CanBegin, IsIdle, ClearInvocationState
<1>7. CASE FailPump \/ CompleteInvocation \/ AbandonInvocation
  BY <1>1, <1>7 DEF FailPump, CompleteInvocation, AbandonInvocation, ClearInvocationState
<1>8. ASSUME NEW g \in Graph, ReplaceGraphIfIdle(g)
      PROVE  ContextsExact'
  <2>1. activeNodeIds = {} /\ UNCHANGED <<readyQueue, waiting, completedNodeIds>>
    BY <1>0, <1>8 DEF ReplaceGraphIfIdle, IsIdle, IdleIsClear, invocationState
  <2> QED BY <1>0, <1>1, <2>1
<1>9. CASE SuspendPump \/ UNCHANGED vars
  BY <1>9 DEF SuspendPump, vars, invocationState, ContextsExact, Reached, ActiveAncestors
<1> QED BY <1>2, <1>3, <1>4, <1>5, <1>6, <1>7, <1>8, <1>9 DEF Next

\* ContextsExact holds in every state.
THEOREM ContextsAreExact == Spec => []ContextsExact
<1>1. Init => ContextsExact
  BY DEF Init, ContextsExact, Reached
<1> QED BY <1>1, NextContexts, ExecutorInvariant, PTL DEF Spec

\* CreateChildBranch and CreateJoinBranch: whatever the order in which nodes complete, a node
\* starts from the writes of all its active ancestors and of no other node.
THEOREM BranchesSeeTheirAncestors == Spec => []BranchSeesItsAncestors
<1>1. ContextsExact => BranchSeesItsAncestors
  BY DEF ContextsExact, BranchSeesItsAncestors
<1> QED BY <1>1, ContextsAreExact, PTL

\* From every active node a terminal one can be reached, since a snapshot has no cycle: when
\* there is only one, all other nodes are its ancestors.
LEMMA AllLeadToTheTerminal ==
  ASSUME ExecutorInv, NEW t, TerminalNodes = {t}, NEW m \in activeNodeIds, m # t
  PROVE  m \in ActiveAncestors(t)
<1> DEFINE Below(c) == ActiveSubgraph(graph, {c})
           bad == {n \in activeNodeIds \ {t} : n \notin ActiveAncestors(t)}
<1>1. /\ graph \in Graph
      /\ activeNodeIds \subseteq graph.nodes
      /\ \A n \in activeNodeIds : Successors(graph, n) \subseteq activeNodeIds
      /\ t \in activeNodeIds
  <2>1. EmptyGraph.nodes = {}
    BY DEF EmptyGraph
  <2> QED BY <2>1 DEF ExecutorInv, TypeOK, CountersExact, TerminalNodes
<1>2. ASSUME NEW c \in activeNodeIds
      PROVE  /\ c \in Below(c)
             /\ \A d \in Successors(graph, c) : t \in Below(d) => t \in Below(c)
  <2>1. {c} \in SUBSET graph.nodes
    BY <1>1
  <2>2. /\ {c} \subseteq Below(c)
        /\ Below(c) \subseteq graph.nodes
        /\ \A k \in Below(c) : Successors(graph, k) \subseteq Below(c)
    BY <1>1, <2>1, ActiveSubgraphFacts
  <2>3. ASSUME NEW d \in Successors(graph, c) PROVE Below(d) \subseteq Below(c)
    <3>1. d \in Below(c)
      BY <2>2
    <3>2. \A S \in SUBSET graph.nodes :
            ({d} \subseteq S /\ \A k \in S : Successors(graph, k) \subseteq S)
              => Below(d) \subseteq S
      BY DEF ActiveSubgraph
    <3> HIDE DEF Below
    <3> QED BY <2>2, <3>1, <3>2
  <2> HIDE DEF Below
  <2> QED BY <2>2, <2>3
<1>3. \A n : n \in ActiveAncestors(t) <=>
        n \in activeNodeIds /\ \E c \in Successors(graph, n) : t \in Below(c)
  BY DEF ActiveAncestors
<1> HIDE DEF Below
<1> SUFFICES ASSUME bad # {} PROVE FALSE
  OBVIOUS
<1>4. PICK order \in [graph.nodes -> 1..Cardinality(graph.nodes)] :
        \A e \in graph.edges : order[e[1]] < order[e[2]]
  BY <1>1, ExecutorAssumption DEF IsSnapshot, Acyclic
<1> DEFINE last == Cardinality(graph.nodes)
           height == {last - order[n] : n \in bad}
<1>5. last \in Nat /\ \A n \in activeNodeIds : order[n] \in Nat /\ order[n] <= last
  BY <1>1, <1>4, GraphFacts, FS_CardinalityType
<1>6. PICK n \in bad : \A k \in bad : order[k] <= order[n]
  <2>1. height \in SUBSET Nat /\ height # {}
    BY <1>5
  <2>2. PICK least \in height : \A k \in height : least <= k
    BY <2>1, LeastNatural
  <2>3. PICK n \in bad : least = last - order[n]
    BY <2>2
  <2>4. \A k \in bad : last - order[n] <= last - order[k]
    BY <2>2, <2>3
  <2> QED BY <1>5, <2>4
<1>7. PICK c \in Successors(graph, n) : c \in activeNodeIds
  BY <1>6 DEF TerminalNodes
<1>8. order[n] < order[c]
  <2>1. <<n, c>> \in graph.edges
    BY <1>7 DEF Successors
  <2> QED BY <1>4, <2>1
<1>9. c = t \/ c \in ActiveAncestors(t)
  BY <1>5, <1>6, <1>7, <1>8
<1>10. t \in Below(c)
  BY <1>2, <1>3, <1>7, <1>9
<1> QED BY <1>3, <1>6, <1>7, <1>10

\* CommitInvocationResult: an invocation that commits has executed every node of its
\* subgraph, and the result it commits carries the writes of all of them.
THEOREM CommitsCarryEveryNode == Spec => CommitCarriesEveryNode
<1> DEFINE Carried == lastCompletedId' # lastCompletedId =>
                        /\ completedNodeIds = activeNodeIds
                        /\ \E n \in TerminalNodes : nodeResults[n] = activeNodeIds
<1>1. ExecutorInv /\ ContextsExact /\ [Next]_vars => [Carried]_vars
  <2> SUFFICES ASSUME ExecutorInv, ContextsExact, [Next]_vars,
                      lastCompletedId' # lastCompletedId
               PROVE  /\ completedNodeIds = activeNodeIds
                      /\ \E n \in TerminalNodes : nodeResults[n] = activeNodeIds
    OBVIOUS
  <2>1. CompleteInvocation
    <3>1. \A n \in Node : ~ExecuteReadyNode(n) /\ ~ExecutePendingNode(n) /\ ~ResumePendingNode(n)
      BY DEF ExecuteReadyNode, ExecutePendingNode, ResumePendingNode
    <3>2. \A t \in Trigger \cup {NoTrigger} : ~BeginInvocation(t) /\ ~RefuseInvocation(t)
      BY DEF BeginInvocation, RefuseInvocation
    <3>3. ~FailPump /\ ~SuspendPump /\ ~AbandonInvocation
      BY DEF FailPump, SuspendPump, AbandonInvocation
    <3>4. \A g \in Graph : ~ReplaceGraphIfIdle(g)
      BY DEF ReplaceGraphIfIdle
    <3> QED BY <3>1, <3>2, <3>3, <3>4 DEF Next, vars
  <2>2. CanCommit
    BY <2>1 DEF CompleteInvocation
  <2>3. /\ completedNodeIds \subseteq activeNodeIds
        /\ activeNodeIds \subseteq graph.nodes
        /\ graph \in Graph \cup {EmptyGraph}
    BY DEF ExecutorInv, TypeOK
  <2>4. IsFiniteSet(activeNodeIds)
    BY <2>3, GraphFacts, FS_Subset
  <2>5. completedNodeIds = activeNodeIds
    BY <2>2, <2>3, <2>4, FS_Subset DEF CanCommit, AllNodesCompleted
  <2>6. PICK t : TerminalNodes = {t}
    <3>1. IsFiniteSet(TerminalNodes)
      BY <2>4, FS_Subset DEF TerminalNodes
    <3> QED BY <2>2, <3>1, FS_Singleton DEF CanCommit
  <2>7. t \in activeNodeIds
    BY <2>6 DEF TerminalNodes
  <2>8. nodeResults[t] = ActiveAncestors(t) \cup {t}
    BY <2>5, <2>7 DEF ContextsExact
  <2>9. ActiveAncestors(t) \cup {t} = activeNodeIds
    BY <2>6, <2>7, AllLeadToTheTerminal DEF ActiveAncestors
  <2> QED BY <2>5, <2>6, <2>8, <2>9
<1> QED BY <1>1, ExecutorInvariant, ContextsAreExact, PTL DEF Spec, CommitCarriesEveryNode
=============================================================================
