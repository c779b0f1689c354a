------------------------ MODULE MemoryService_proofs ------------------------
(***************************************************************************)
(* Proofs about the memory service, for any pets, contents, tasks and      *)
(* capacity, and any number of requests, restarts, crashes and faults.     *)
(***************************************************************************)
EXTENDS MemoryService, FiniteSetTheorems, WellFoundedInduction, TLAPS

USE MemoryAssumption

\* The two threads with the theorems about them; a mailbox holds that there is a result.
ThreadProofs == INSTANCE MemoryTaskQueue_proofs WITH
  Key <- Pet, Value <- {"entries"},
  m_mailbox <- [k \in Pet |->
                  IF m_mailbox[k] = None THEN None
                  ELSE [requestId |-> m_mailbox[k].requestId, value |-> "entries"]]

-----------------------------------------------------------------------------
(* The threads behave as MemoryTaskQueue says *)

LEMMA ThreadAssumptionsHold ==
  ThreadProofs!TaskQueueAssumption /\ ThreadProofs!NoneAssumption
<1>1. ThreadProofs!TaskQueueAssumption
  BY DEF Threads!TaskQueueAssumption, ThreadProofs!TaskQueueAssumption
<1>2. ThreadProofs!NoneAssumption
  BY DEF ThreadProofs!NoneAssumption, ThreadProofs!Request, ThreadProofs!Result
<1> QED BY <1>1, <1>2

\* What a mailbox holds.
Found == [requestId : Nat \ {0}, value : SUBSET Memory]
MailboxTyped == m_mailbox \in [Pet -> Found \cup {None}]

\* The task at hand, and the result the worker has for it.
Reads(t) == t.action \in {"retrieve", "list"}
Done == work.stage \in {"save", "vectors", "end"}
ResultTyped == current # None /\ Done /\ Reads(current.task) => work.result \in SUBSET Memory

ThreadSteps == ThreadProofs!TaskQueueInv /\ MailboxTyped /\ ResultTyped

LEMMA InitThreads == Init => ThreadProofs!Init
BY DEF Init, Threads!Init, ThreadProofs!Init

LEMMA EndTaskIsThreadStep ==
  ASSUME ThreadSteps, EndTask
  PROVE  ThreadProofs!EndTask("entries") /\ MailboxTyped'
<1>1. /\ Threads!EndTask(work.result) /\ work.stage = "end"
      /\ current \in [requestId : Nat \ {0}, task : Task]
      /\ worker = "busy" /\ current # None
  BY DEF EndTask, Threads!EndTask, ThreadSteps, ThreadProofs!TaskQueueInv,
         ThreadProofs!TypeOK, ThreadProofs!ThreadsAgree, ThreadProofs!Request
<1> DEFINE k == KeyOf[current.task]
           r == [requestId |-> current.requestId, value |-> work.result]
<1>2. m_mailbox' = Threads!Published(k, work.result)
  BY <1>1 DEF Threads!EndTask
<1>3. CASE k \notin Pet
  BY <1>1, <1>2, <1>3
     DEF Threads!EndTask, Threads!Published, ThreadProofs!EndTask, ThreadProofs!Published,
         ThreadSteps, MailboxTyped
<1>4. CASE k \in Pet
  <2>1. k = current.task.pet /\ Reads(current.task)
    BY <1>1, <1>4 DEF KeyOf, Reads, Threads!TaskQueueAssumption
  <2>2. r \in Found /\ r # None
    BY <1>1, <2>1 DEF ThreadSteps, ResultTyped, Done, Found
  <2>3. Threads!MayPublish(k, current.requestId)
          <=> ThreadProofs!MayPublish(k, current.requestId)
    BY <1>4 DEF Threads!MayPublish, ThreadProofs!MayPublish, ThreadSteps, MailboxTyped,
                Found
  <2>4. CASE Threads!MayPublish(k, current.requestId)
    <3>1. m_mailbox' = [m_mailbox EXCEPT ![k] = r]
      BY <1>2, <1>4, <2>4 DEF Threads!Published
    <3>2. MailboxTyped'
      BY <1>4, <2>2, <3>1 DEF ThreadSteps, MailboxTyped
    <3> DEFINE mark == [requestId |-> current.requestId, value |-> "entries"]
               marks == [j \in Pet |->
                          IF m_mailbox[j] = None THEN None
                          ELSE [requestId |-> m_mailbox[j].requestId, value |-> "entries"]]
    <3>3. ASSUME NEW j \in Pet PROVE marks'[j] = [marks EXCEPT ![k] = mark][j]
      <4>1. m_mailbox'[j] = IF j = k THEN r ELSE m_mailbox[j]
        BY <1>4, <3>1 DEF ThreadSteps, MailboxTyped
      <4> QED BY <1>4, <2>2, <4>1
    <3>4. marks' = [marks EXCEPT ![k] = mark]
      BY <3>3
    <3>5. marks' = ThreadProofs!Published(k, "entries")
      BY <1>4, <2>3, <2>4, <3>4 DEF ThreadProofs!Published
    <3> QED BY <1>1, <3>2, <3>5 DEF Threads!EndTask, ThreadProofs!EndTask
  <2>5. CASE ~Threads!MayPublish(k, current.requestId)
    BY <1>1, <1>2, <1>4, <2>3, <2>5
       DEF Threads!EndTask, Threads!Published, ThreadProofs!EndTask,
           ThreadProofs!Published, ThreadSteps, MailboxTyped
  <2> QED BY <2>4, <2>5
<1> QED BY <1>3, <1>4

\* Everything the service does is a step of the two threads, or none of their business.
LEMMA ThreadStep ==
  ASSUME ThreadSteps, [Next]_vars
  PROVE  [ThreadProofs!Next]_(ThreadProofs!vars)
<1> USE DEF ThreadProofs!mailboxVars, ThreadProofs!queueVars, ThreadProofs!threadVars,
            Threads!mailboxVars, Threads!queueVars, Threads!threadVars
<1>1. UNCHANGED threadVars => UNCHANGED ThreadProofs!vars
  BY DEF threadVars, ThreadProofs!vars
<1>2. CASE UNCHANGED vars
  BY <1>1, <1>2 DEF vars
<1>3. CASE BeginTask
  <2>1. ThreadProofs!BeginTask
    BY <1>3 DEF BeginTask, Threads!BeginTask, ThreadProofs!BeginTask
  <2> QED BY <2>1 DEF ThreadProofs!Next
<1>4. CASE TaskStep
  <2>1. CASE EndTask
    BY <2>1, EndTaskIsThreadStep DEF ThreadProofs!Next
  <2>2. CASE ~EndTask
    <3>1. UNCHANGED threadVars
      BY <1>4, <2>2
         DEF TaskStep, Retrieve, List, Store, Forget, Touch, Update, Consolidate, Export,
             Import, SaveSucceeds, SaveFails, WriteVector, DropVectors, OnlyGraph
    <3> QED BY <1>1, <3>1
  <2> QED BY <2>1, <2>2
<1>5. CASE Sleep \/ ExitLoop
  <2>1. ThreadProofs!WaitForTask \/ ThreadProofs!SpuriousWakeup \/ ThreadProofs!ExitLoop
    BY <1>5 DEF Sleep, ExitLoop, Threads!WaitForTask, Threads!SpuriousWakeup,
                Threads!ExitLoop, Threads!MayExit, ThreadProofs!WaitForTask,
                ThreadProofs!SpuriousWakeup, ThreadProofs!ExitLoop, ThreadProofs!MayExit
  <2> QED BY <2>1 DEF ThreadProofs!Next
<1>6. ASSUME NEW t \in Task, EnqueueTask(t) PROVE ThreadProofs!Next
  <2>1. ThreadProofs!EnqueueTask(t)
    BY <1>6 DEF EnqueueTask, Threads!EnqueueTask, Threads!Accepts, Threads!Wake,
                ThreadProofs!EnqueueTask, ThreadProofs!Accepts, ThreadProofs!Wake
  <2> QED BY <2>1 DEF ThreadProofs!Next
<1>7. ASSUME NEW pet \in Pet, TakeLatestReadyResult(pet) PROVE ThreadProofs!Next
  <2>1. /\ m_mailbox \in [Pet -> Found \cup {None}]
        /\ m_mailbox[pet] # None
        /\ m_mailbox' = [m_mailbox EXCEPT ![pet] = None]
        /\ [requestId |-> m_mailbox[pet].requestId, value |-> "entries"] # None
    BY <1>7 DEF TakeLatestReadyResult, Threads!TakeLatestReadyResult, ThreadSteps,
                MailboxTyped, Found
  <2>2. ThreadProofs!TakeLatestReadyResult(pet)
    BY <1>7, <2>1 DEF TakeLatestReadyResult, Threads!TakeLatestReadyResult,
                      ThreadProofs!TakeLatestReadyResult
  <2> QED BY <2>2 DEF ThreadProofs!Next
<1>8. CASE BeginShutdown \/ EndShutdown \/ Start
  <2>1. ThreadProofs!BeginShutdown \/ ThreadProofs!EndShutdown \/ ThreadProofs!Start
    BY <1>8 DEF BeginShutdown, EndShutdown, Start, Threads!BeginShutdown,
                Threads!EndShutdown, Threads!Start, Threads!Wake, ThreadProofs!Wake,
                ThreadProofs!BeginShutdown, ThreadProofs!EndShutdown, ThreadProofs!Start
  <2> QED BY <2>1 DEF ThreadProofs!Next
<1>9. CASE ProcessEnds
  <2>1. ThreadProofs!ProcessEnds
    BY <1>9 DEF ProcessEnds, Threads!ProcessEnds, ThreadProofs!ProcessEnds
  <2> QED BY <2>1 DEF ThreadProofs!Next
<1> QED
  BY <1>2, <1>3, <1>4, <1>5, <1>6, <1>7, <1>8, <1>9 DEF Next

-----------------------------------------------------------------------------
(* Graphs *)

IsGraph(g) ==
  /\ g \in [DOMAIN g -> Entry]
  /\ DOMAIN g \subseteq MemoryId
  /\ IsFiniteSet(DOMAIN g)

\* An entry that is inactive stays so; none is removed.
Ages(g, h) ==
  /\ DOMAIN g \subseteq DOMAIN h
  /\ \A id \in DOMAIN g : h[id].active => g[id].active

LEMMA EmptyGraphFacts == IsGraph(NoGraph) /\ DOMAIN NoGraph = {}
<1>1. DOMAIN NoGraph = {} /\ NoGraph \in [{} -> Entry]
  BY DEF NoGraph
<1> QED BY <1>1, FS_EmptySet DEF IsGraph

LEMMA SoftDeleteFacts ==
  ASSUME NEW g, IsGraph(g), NEW ids
  PROVE  LET h == SoftDelete(g, ids)
         IN /\ IsGraph(h) /\ Ages(g, h) /\ DOMAIN h = DOMAIN g
            /\ \A id \in DOMAIN g :
                 /\ h[id].content = g[id].content /\ h[id].owner = g[id].owner
                 /\ h[id].active <=> g[id].active /\ id \notin ids
            /\ ids = {} => h = g
<1> DEFINE h == SoftDelete(g, ids)
<1>1. /\ DOMAIN h = DOMAIN g
      /\ \A id \in DOMAIN g : h[id] = [g[id] EXCEPT !.active = @ /\ id \notin ids]
  BY DEF SoftDelete
<1>2. \A id \in DOMAIN g : g[id] \in Entry
  BY DEF IsGraph
<1>3. ASSUME NEW id \in DOMAIN g
      PROVE  /\ h[id] \in Entry
             /\ h[id].content = g[id].content /\ h[id].owner = g[id].owner
             /\ h[id].active <=> g[id].active /\ id \notin ids
             /\ id \notin ids => h[id] = g[id]
  <2>1. g[id] \in Entry /\ h[id] = [g[id] EXCEPT !.active = g[id].active /\ id \notin ids]
    BY <1>1, <1>2
  <2>2. (g[id].active /\ id \notin ids) \in BOOLEAN
    OBVIOUS
  <2> QED BY <2>1, <2>2 DEF Entry
<1>4. h \in [DOMAIN h -> Entry]
  BY <1>1, <1>3 DEF SoftDelete
<1>5. IsGraph(h) /\ Ages(g, h)
  BY <1>1, <1>3, <1>4 DEF IsGraph, Ages
<1>6. ids = {} => h = g
  BY <1>1, <1>3, <1>4 DEF IsGraph
<1> QED BY <1>1, <1>3, <1>5, <1>6

LEMMA AddEntryFacts ==
  ASSUME NEW g, IsGraph(g), NEW id \in MemoryId, CanAdd(g, id),
         NEW content \in Content, NEW owner \in Owner
  PROVE  LET h == AddEntry(g, id, content, owner)
         IN IsGraph(h) /\ Ages(g, h) /\ DOMAIN h = DOMAIN g \cup {id}
<1> DEFINE h == AddEntry(g, id, content, owner)
<1>1. /\ DOMAIN h = DOMAIN g \cup {id}
      /\ \A x \in DOMAIN g : h[x] = g[x]
      /\ h[id] = [content |-> content, owner |-> owner, active |-> TRUE]
  BY DEF AddEntry, CanAdd
<1>2. h[id] \in Entry
  BY <1>1 DEF Entry
<1>3. h \in [DOMAIN h -> Entry]
  BY <1>1, <1>2 DEF AddEntry, IsGraph
<1>4. IsFiniteSet(DOMAIN h)
  BY <1>1, FS_AddElement DEF IsGraph
<1> QED BY <1>1, <1>3, <1>4 DEF IsGraph, Ages

-----------------------------------------------------------------------------
(* ConsolidateCandidates goes through the candidates one by one *)

\* A set of naturals that is not empty has a least element.
LEMMA LeastNatural ==
  ASSUME NEW S \in SUBSET Nat, S # {}
  PROVE  \E m \in S : \A k \in S : m <= k
<1> DEFINE R == {pair \in Nat \X Nat : pair[1] < pair[2]}
<1>1. IsWellFoundedOn(R, Nat)
  BY NatLessThanWellFounded DEF OpToRel
<1>2. \A k, m \in Nat : k < m => <<k, m>> \in R
  OBVIOUS
<1> HIDE DEF R
<1>3. PICK m \in S : \A k \in S : ~(<<k, m>> \in R)
  BY <1>1, WFMin
<1>4. ASSUME NEW k \in S PROVE m <= k
  <2>1. ~(k < m)
    BY <1>2, <1>3
  <2>2. k \in Nat /\ m \in Nat
    OBVIOUS
  <2> QED BY <2>1, <2>2
<1> QED BY <1>4

Candidates == current.task.candidates
NoneYet == [graph |-> m_graph, changed |-> FALSE, new |-> {}, superseded |-> {}]
IsFold(after, n) ==
  after = [i \in 0..n |-> IF i = 0 THEN NoneYet ELSE Consolidated(after[i - 1], i)]

\* The recursive function exists: one more candidate extends what the others made.
LEMMA FoldExists ==
  ASSUME NEW n \in Nat
  PROVE  \E after : IsFold(after, n)
<1> DEFINE Without == {j \in Nat : ~ \E after : IsFold(after, j)}
<1>1. SUFFICES ASSUME Without # {} PROVE FALSE
  OBVIOUS
<1>2. PICK m \in Without : \A j \in Without : m <= j
  BY <1>1, LeastNatural
<1>3. CASE m = 0
  <2>1. IsFold([i \in 0..0 |-> NoneYet], 0)
    BY DEF IsFold
  <2> QED BY <1>2, <1>3, <2>1
<1>4. CASE m # 0
  <2>1. m - 1 \in Nat /\ m - 1 \notin Without
    BY <1>2, <1>4
  <2>2. PICK after : IsFold(after, m - 1)
    BY <2>1
  <2> DEFINE more == [i \in 0..m |-> IF i = m THEN Consolidated(after[m - 1], m)
                                             ELSE after[i]]
  <2>3. ASSUME NEW i \in 0..m
        PROVE  more[i] = IF i = 0 THEN NoneYet ELSE Consolidated(more[i - 1], i)
    <3>1. CASE i = m
      <4>1. more[i - 1] = after[m - 1]
        BY <1>4, <2>1, <3>1
      <4> QED BY <1>4, <3>1, <4>1
    <3>2. CASE i # m
      <4>1. i \in 0..(m - 1) /\ more[i] = after[i]
        BY <3>2
      <4>2. i # 0 => i - 1 \in 0..m /\ i - 1 # m /\ more[i - 1] = after[i - 1]
        BY <4>1
      <4>3. after[i] = IF i = 0 THEN NoneYet ELSE Consolidated(after[i - 1], i)
        BY <2>2, <4>1 DEF IsFold
      <4> QED BY <4>1, <4>2, <4>3
    <3> QED BY <3>1, <3>2
  <2>4. IsFold(more, m)
    <3>1. more = [i \in 0..m |-> more[i]]
      OBVIOUS
    <3> HIDE DEF more
    <3> QED BY <2>3, <3>1 DEF IsFold
  <2> QED BY <1>2, <2>4
<1> QED BY <1>3, <1>4

LEMMA AfterCandidatesFacts ==
  ASSUME Len(Candidates) \in Nat
  PROVE  /\ AfterCandidates[0] = NoneYet
         /\ \A i \in 1..Len(Candidates) :
              AfterCandidates[i] = Consolidated(AfterCandidates[i - 1], i)
<1>1. AfterCandidates = CHOOSE after : IsFold(after, Len(Candidates))
  BY DEF AfterCandidates, IsFold, Candidates, NoneYet
<1>2. IsFold(AfterCandidates, Len(Candidates))
  BY <1>1, FoldExists
<1> HIDE DEF AfterCandidates
<1> QED BY <1>2 DEF IsFold

(***************************************************************************)
(* What has become of the graph after some candidates: the new entries are *)
(* exactly those listed, the old ones keep content and owner, and what was *)
(* superseded is inactive.                                                 *)
(***************************************************************************)
FoldInv(acc) ==
  /\ acc = [graph |-> acc.graph, changed |-> acc.changed, new |-> acc.new,
            superseded |-> acc.superseded]
  /\ IsGraph(acc.graph) /\ Ages(m_graph, acc.graph)
  /\ \A id \in DOMAIN m_graph : acc.graph[id].content = m_graph[id].content
  /\ acc.new = DOMAIN acc.graph \ DOMAIN m_graph
  /\ acc.superseded \subseteq DOMAIN acc.graph
  /\ \A id \in acc.superseded : ~acc.graph[id].active
  /\ ~acc.changed => acc.graph = m_graph

\* The same for an operator of a graph and a candidate, away from the task at hand.
LEMMA SupersedeFacts ==
  ASSUME NEW g, IsGraph(g), NEW id \in MemoryId, CanAdd(g, id),
         NEW content \in Content, NEW owner \in Owner, NEW gone \in SUBSET DOMAIN g
  PROVE  LET h == SoftDelete(AddEntry(g, id, content, owner), gone)
         IN /\ IsGraph(h) /\ Ages(g, h) /\ DOMAIN h = DOMAIN g \cup {id}
            /\ \A x \in DOMAIN g : h[x].content = g[x].content
            /\ \A x \in gone : ~h[x].active
<1> DEFINE added == AddEntry(g, id, content, owner)
           h == SoftDelete(added, gone)
<1>1. /\ IsGraph(added) /\ Ages(g, added) /\ DOMAIN added = DOMAIN g \cup {id}
      /\ \A x \in DOMAIN g : added[x] = g[x]
  <2>1. IsGraph(added) /\ Ages(g, added) /\ DOMAIN added = DOMAIN g \cup {id}
    BY AddEntryFacts
  <2>2. \A x \in DOMAIN g : added[x] = g[x]
    BY DEF AddEntry, CanAdd
  <2> QED BY <2>1, <2>2
<1> HIDE DEF added
<1>2. /\ IsGraph(h) /\ Ages(added, h) /\ DOMAIN h = DOMAIN added
      /\ \A x \in DOMAIN added :
           /\ h[x].content = added[x].content
           /\ h[x].active <=> added[x].active /\ x \notin gone
  BY <1>1, SoftDeleteFacts
<1> HIDE DEF h
<1>3. Ages(g, h)
  BY <1>1, <1>2 DEF Ages
<1>4. /\ DOMAIN h = DOMAIN g \cup {id}
      /\ \A x \in DOMAIN g : h[x].content = g[x].content
      /\ \A x \in gone : ~h[x].active
  BY <1>1, <1>2
<1> QED BY <1>2, <1>3, <1>4 DEF h, added

LEMMA ConsolidatedKeeps ==
  ASSUME current.task \in Task, current.task.action = "consolidate",
         current.requestId \in Nat, IsGraph(m_graph),
         NEW i \in 1..Len(Candidates), NEW acc, FoldInv(acc)
  PROVE  FoldInv(Consolidated(acc, i))
<1> DEFINE g == acc.graph
           c == Candidates[i]
           owner == OwnerOf([scope |-> c.scope, pet |-> current.task.pet])
           id == ConsolidatedId(current, i)
           alike == c.relation = "none" /\ Similar(g, c, owner)
           gone == IF c.relation = "supersedes" THEN {c.related} ELSE {}
           h == SoftDelete(AddEntry(g, id, c.content, owner), gone)
           r == Consolidated(acc, i)
<1>1. c \in MemoryCandidate /\ i \in Nat
  BY DEF Candidates
<1>2. c.content \in Content /\ owner \in Owner
  BY <1>1 DEF MemoryCandidate, OwnerOf, Owner
<1>3. id \in MemoryId
  BY <1>1 DEF ConsolidatedId, MemoryId
<1>4. r = IF ~Related(g, c, owner) \/ (~alike /\ ~CanAdd(g, id)) THEN acc
          ELSE IF alike THEN [acc EXCEPT !.changed = TRUE]
          ELSE [graph |-> h, changed |-> TRUE, new |-> acc.new \cup {id},
                superseded |-> acc.superseded \cup gone]
  BY DEF Consolidated, Candidates
<1>5. /\ IsGraph(g) /\ Ages(m_graph, g)
      /\ \A x \in DOMAIN m_graph : g[x].content = m_graph[x].content
      /\ acc.new = DOMAIN g \ DOMAIN m_graph
      /\ acc.superseded \subseteq DOMAIN g
      /\ \A x \in acc.superseded : ~g[x].active
  BY DEF FoldInv
<1> HIDE DEF r
<1>6. CASE r = acc
  BY <1>6 DEF r
<1>7. CASE r = [acc EXCEPT !.changed = TRUE]
  BY <1>7 DEF FoldInv, r
<1>8. ASSUME CanAdd(g, id), Related(g, c, owner),
             r = [graph |-> h, changed |-> TRUE, new |-> acc.new \cup {id},
                  superseded |-> acc.superseded \cup gone]
      PROVE  FoldInv(r)
  <2>1. id \notin DOMAIN g /\ gone \in SUBSET DOMAIN g
    BY <1>8 DEF CanAdd, Related
  <2> HIDE DEF g, owner, id, gone, alike
  <2>2. /\ IsGraph(h) /\ Ages(g, h) /\ DOMAIN h = DOMAIN g \cup {id}
        /\ \A x \in DOMAIN g : h[x].content = g[x].content
        /\ \A x \in gone : ~h[x].active
    <3> HIDE DEF c
    <3> QED BY <1>2, <1>3, <1>5, <1>8, <2>1, SupersedeFacts
  <2> HIDE DEF h, c
  <2>3. Ages(m_graph, h)
    BY <1>5, <2>2 DEF Ages
  <2>4. /\ \A x \in DOMAIN m_graph : h[x].content = m_graph[x].content
        /\ \A x \in acc.superseded \cup gone : x \in DOMAIN h /\ ~h[x].active
        /\ acc.new \cup {id} = DOMAIN h \ DOMAIN m_graph
    BY <1>5, <2>1, <2>2 DEF Ages
  <2> QED BY <1>8, <2>2, <2>3, <2>4 DEF FoldInv
<1> HIDE DEF c, owner, id, g, gone, h, alike
<1> QED BY <1>4, <1>6, <1>7, <1>8 DEF r

LEMMA ConsolidationFacts ==
  ASSUME current.task \in Task, current.task.action = "consolidate",
         current.requestId \in Nat, IsGraph(m_graph)
  PROVE  FoldInv(AfterCandidates[Len(Candidates)])
<1>1. Candidates \in Seq(MemoryCandidate) /\ Len(Candidates) \in Nat
  BY DEF Candidates
<1>2. /\ AfterCandidates[0] = NoneYet
      /\ \A i \in 1..Len(Candidates) :
           AfterCandidates[i] = Consolidated(AfterCandidates[i - 1], i)
  BY <1>1, AfterCandidatesFacts
<1> HIDE DEF AfterCandidates
<1> DEFINE Broken == {i \in 0..Len(Candidates) : ~FoldInv(AfterCandidates[i])}
<1>3. SUFFICES ASSUME Broken # {} PROVE FALSE
  BY <1>1
<1>4. PICK m \in Broken : \A j \in Broken : m <= j
  <2>1. Broken \in SUBSET Nat
    BY <1>1
  <2> HIDE DEF Broken
  <2> QED BY <1>3, <2>1, LeastNatural
<1>5. FoldInv(NoneYet)
  BY DEF FoldInv, NoneYet, Ages
<1>6. m \in 1..Len(Candidates) /\ FoldInv(AfterCandidates[m - 1])
  BY <1>1, <1>2, <1>4, <1>5
<1>7. FoldInv(Consolidated(AfterCandidates[m - 1], m))
  BY <1>6, ConsolidatedKeeps
<1> QED BY <1>2, <1>4, <1>6, <1>7

-----------------------------------------------------------------------------
(* What an operation asks of the vectors *)

HIDE MemoryAssumption

Op == ({"write", "remove"} \X MemoryId) \cup {Clear}

\* Only entries that there are are written.
WritesOnly(ops, g) ==
  \A i \in 1..Len(ops) : ops[i][1] = "write" => ops[i][2] \in DOMAIN g

\* SetToSeq lists every element of a finite set.
LEMMA SetToSeqFacts ==
  ASSUME NEW S, IsFiniteSet(S)
  PROVE  /\ Cardinality(S) \in Nat
         /\ SetToSeq(S) \in [1..Cardinality(S) -> S]
         /\ \A x \in S : \E i \in 1..Cardinality(S) : SetToSeq(S)[i] = x
<1> DEFINE n == Cardinality(S)
<1>1. n \in Nat /\ ExistsBijection(1..n, S)
  BY FS_CardinalityType
<1>2. PICK f \in [1..n -> S] : IsInjective(f)
  BY <1>1 DEF ExistsBijection, Bijection, Injection, IsInjective
<1>3. SetToSeq(S) \in [1..n -> S] /\ IsInjective(SetToSeq(S))
  BY <1>2 DEF SetToSeq
<1>4. IsFiniteSet(1..n) /\ Cardinality(1..n) = n
  <2> HIDE DEF n
  <2>1. n \in Int /\ 1 \in Int /\ n >= 0
    BY <1>1
  <2>2. IsFiniteSet(1..n) /\ Cardinality(1..n) = IF 1 > n THEN 0 ELSE n - 1 + 1
    BY <2>1, FS_Interval
  <2> QED BY <2>1, <2>2
<1>5. SetToSeq(S) \in Injection(1..n, S)
  BY <1>3 DEF Injection, IsInjective
<1>6. SetToSeq(S) \in Surjection(1..n, S)
  BY <1>4, <1>5, FS_Injection
<1> QED BY <1>1, <1>3, <1>6 DEF Surjection

LEMMA BatchFacts ==
  ASSUME NEW ids \in SUBSET MemoryId, IsFiniteSet(ids)
  PROVE  /\ Writes(ids) \in Seq(Op) /\ Removes(ids) \in Seq(Op)
         /\ \A i \in 1..Len(Writes(ids)) : \E id \in ids : Writes(ids)[i] = WriteVec(id)
         /\ \A i \in 1..Len(Removes(ids)) : \E id \in ids : Removes(ids)[i] = RemoveVec(id)
         /\ \A id \in ids : \E i \in 1..Len(Writes(ids)) : Writes(ids)[i] = WriteVec(id)
         /\ \A id \in ids : \E i \in 1..Len(Removes(ids)) : Removes(ids)[i] = RemoveVec(id)
<1> DEFINE n == Cardinality(ids)
<1>1. /\ n \in Nat /\ SetToSeq(ids) \in [1..n -> ids]
      /\ \A x \in ids : \E i \in 1..n : SetToSeq(ids)[i] = x
  BY SetToSeqFacts
<1>2. \A id \in MemoryId : WriteVec(id) \in Op /\ RemoveVec(id) \in Op
  BY DEF WriteVec, RemoveVec, Op
<1> HIDE DEF n
<1>3. /\ Writes(ids) = [i \in 1..n |-> WriteVec(SetToSeq(ids)[i])]
      /\ Removes(ids) = [i \in 1..n |-> RemoveVec(SetToSeq(ids)[i])]
  BY DEF Writes, Removes, n
<1>4. \A i \in 1..n : SetToSeq(ids)[i] \in ids /\ SetToSeq(ids)[i] \in MemoryId
  BY <1>1
<1>5. Writes(ids) \in [1..n -> Op] /\ Removes(ids) \in [1..n -> Op]
  BY <1>2, <1>3, <1>4
<1>6. /\ Writes(ids) \in Seq(Op) /\ Removes(ids) \in Seq(Op)
      /\ Len(Writes(ids)) = n /\ Len(Removes(ids)) = n
  BY <1>1, <1>5
<1>7. \A i \in 1..n : \E id \in ids : Writes(ids)[i] = WriteVec(id)
  BY <1>3, <1>4
<1>8. \A i \in 1..n : \E id \in ids : Removes(ids)[i] = RemoveVec(id)
  BY <1>3, <1>4
<1>9. ASSUME NEW id \in ids
      PROVE  \E i \in 1..n : Writes(ids)[i] = WriteVec(id) /\ Removes(ids)[i] = RemoveVec(id)
  <2>1. PICK i \in 1..n : SetToSeq(ids)[i] = id
    BY <1>1
  <2>2. Writes(ids)[i] = WriteVec(id) /\ Removes(ids)[i] = RemoveVec(id)
    BY <1>3, <2>1
  <2> QED BY <2>2
<1> QED BY <1>6, <1>7, <1>8, <1>9

LEMMA WithVectorsFacts ==
  ASSUME IsGraph(m_graph), vectors \in [DOMAIN vectors -> Content],
         NEW ids \in SUBSET DOMAIN m_graph
  PROVE  WithVectors(ids) \in [DOMAIN WithVectors(ids) -> Content]
<1>1. \A id \in ids : m_graph[id].content \in Content
  BY DEF IsGraph, Entry
<1> QED BY <1>1 DEF WithVectors

-----------------------------------------------------------------------------
(* What every operation of the worker does *)

Work ==
  [stage : {"none", "start", "save", "vectors", "end"}, ops : Seq(Op),
   result : (SUBSET Memory) \cup {None}]

DataTyped ==
  /\ IsGraph(m_graph) /\ IsGraph(file)
  /\ exportFile = None \/ IsGraph(exportFile)
  /\ vectors \in [DOMAIN vectors -> Content]
  /\ forgotten \in [DOMAIN forgotten -> Nat]

WorkTyped ==
  /\ work \in Work
  /\ work.stage = "none" <=> current = None
  /\ work.stage = "none" => work.ops = <<>>
  /\ WritesOnly(work.ops, m_graph)
  /\ work.stage = "save" /\ Importing => exportFile # None

Operation ==
  \/ Retrieve \/ List \/ Store \/ Forget \/ Touch \/ Update \/ Consolidate
  \/ Export \/ Import

\* An operation that was begun: what it may leave behind, whichever it is.
Effect ==
  /\ work.stage = "start"
  /\ UNCHANGED <<threadVars, storeOpen, file, unsaved, loaded, crashes>>
  /\ IsGraph(m_graph') /\ Ages(m_graph, m_graph')
  /\ vectors' \in [DOMAIN vectors' -> Content]
  /\ work' \in Work /\ work'.stage \in {"save", "end"}
  /\ WritesOnly(work'.ops, m_graph')
  /\ work'.stage = "end" => m_graph' = m_graph
  /\ Importing => /\ UNCHANGED <<m_graph, exportFile>>
                  /\ work'.stage = "save" => exportFile # None
  /\ exportFile' \in {exportFile, m_graph}
  /\ Reads(current.task) =>
       /\ forgotten' = forgotten
       /\ \E found \in SUBSET VisibleTo(current.task.pet) : work'.result = Entries(found)
  /\ \/ forgotten' = forgotten
     \/ \E ids \in SUBSET DOMAIN m_graph :
          /\ \A id \in ids : ~m_graph'[id].active
          /\ forgotten' = [x \in DOMAIN forgotten \cup ids |->
                             IF x \in ids THEN current.requestId ELSE forgotten[x]]

AtWork ==
  /\ DataTyped /\ WorkTyped
  /\ current \in [requestId : Nat \ {0}, task : Task]

LEMMA WorkFacts ==
  /\ \A stage \in {"none", "start", "save", "vectors", "end"},
        ops \in Seq(Op), result \in (SUBSET Memory) \cup {None} :
       [stage |-> stage, ops |-> ops, result |-> result] \in Work
  /\ <<>> \in Seq(Op) /\ \A g : WritesOnly(<<>>, g)
<1>1. \A stage \in {"none", "start", "save", "vectors", "end"},
         ops \in Seq(Op), result \in (SUBSET Memory) \cup {None} :
        [stage |-> stage, ops |-> ops, result |-> result] \in Work
  BY DEF Work
<1>2. <<>> \in Seq(Op) /\ \A g : WritesOnly(<<>>, g)
  BY DEF WritesOnly
<1> QED BY <1>1, <1>2

\* What Changed and Unchanged leave of a task whose operation has been done.
LEMMA ChangedFacts ==
  ASSUME NEW ops \in Seq(Op), WritesOnly(ops, m_graph'),
         NEW result \in (SUBSET Memory) \cup {None}, Changed(ops, result)
  PROVE  /\ work' \in Work /\ work'.stage = "save" /\ work'.result = result
         /\ work'.ops = ops /\ WritesOnly(work'.ops, m_graph')
BY WorkFacts DEF Changed

LEMMA UnchangedFacts ==
  ASSUME NEW result \in (SUBSET Memory) \cup {None}, Unchanged(result)
  PROVE  /\ work' \in Work /\ work'.stage = "end" /\ work'.result = result
         /\ work'.ops = <<>> /\ WritesOnly(work'.ops, m_graph')
BY WorkFacts DEF Unchanged

LEMMA EntriesFacts ==
  ASSUME IsGraph(m_graph), NEW ids \in SUBSET DOMAIN m_graph
  PROVE  Entries(ids) \in SUBSET Memory
BY DEF IsGraph, Entries, Memory

LEMMA AgesFacts ==
  /\ \A g : Ages(g, g)
  /\ \A f, g, h : Ages(f, g) /\ Ages(g, h) => Ages(f, h)
BY DEF Ages

LEMMA RetrieveEffect == ASSUME AtWork, Retrieve PROVE Effect
<1>1. PICK found \in SUBSET VisibleTo(current.task.pet), removed \in SUBSET OfAnyPet(Pet) :
        /\ m_graph' = SoftDelete(m_graph, removed)
        /\ \/ Changed(Removes(removed), Entries(found))
           \/ removed = {} /\ Unchanged(Entries(found))
  BY DEF Retrieve
<1>2. /\ IsGraph(m_graph) /\ found \in SUBSET DOMAIN m_graph
      /\ removed \in SUBSET DOMAIN m_graph /\ removed \in SUBSET MemoryId
  BY DEF AtWork, DataTyped, VisibleTo, OfAnyPet, IsGraph
<1>3. /\ IsGraph(m_graph') /\ Ages(m_graph, m_graph') /\ DOMAIN m_graph' = DOMAIN m_graph
      /\ removed = {} => m_graph' = m_graph
  BY <1>1, <1>2, SoftDeleteFacts
<1>4. Entries(found) \in (SUBSET Memory) \cup {None}
  BY <1>2, EntriesFacts
<1>5. /\ Removes(removed) \in Seq(Op)
      /\ \A i \in 1..Len(Removes(removed)) :
           \E id \in removed : Removes(removed)[i] = RemoveVec(id)
  <2>1. IsFiniteSet(removed)
    BY <1>2, FS_Subset DEF IsGraph
  <2> QED BY <1>2, <2>1, BatchFacts
<1>6. WritesOnly(Removes(removed), m_graph') /\ WritesOnly(<<>>, m_graph') /\ <<>> \in Seq(Op)
  BY <1>5, WorkFacts DEF WritesOnly, RemoveVec
<1>7. /\ work' \in Work /\ work'.stage \in {"save", "end"}
      /\ work'.result = Entries(found) /\ WritesOnly(work'.ops, m_graph')
      /\ work'.stage = "end" => removed = {}
  <2>1. CASE Changed(Removes(removed), Entries(found))
    BY <1>4, <1>5, <1>6, <2>1, ChangedFacts
  <2>2. CASE removed = {} /\ Unchanged(Entries(found))
    BY <1>4, <2>2, UnchangedFacts
  <2> QED BY <1>1, <2>1, <2>2
<1>8. vectors' \in [DOMAIN vectors' -> Content]
  <2>1. CASE UNCHANGED vectors
    BY <2>1 DEF AtWork, DataTyped
  <2>2. ASSUME NEW written \in SUBSET Missing, vectors' = WithVectors(written)
        PROVE  vectors' \in [DOMAIN vectors' -> Content]
    BY <2>2, WithVectorsFacts DEF AtWork, DataTyped, Missing
  <2> QED BY <2>1, <2>2 DEF Retrieve, Backfill
<1>9. current.task.action = "retrieve" /\ work.stage = "start"
  BY DEF Retrieve, Doing
<1> QED
  BY <1>1, <1>3, <1>7, <1>8, <1>9 DEF Effect, Retrieve, observed, bounds, Importing

LEMMA ListEffect == ASSUME AtWork, List PROVE Effect
<1> DEFINE found == VisibleTo(current.task.pet)
<1>1. /\ IsGraph(m_graph) /\ found \in SUBSET DOMAIN m_graph /\ m_graph' = m_graph
      /\ vectors' = vectors /\ vectors \in [DOMAIN vectors -> Content]
  BY DEF AtWork, DataTyped, VisibleTo, List, OnlyGraph, diskVars
<1>2. Entries(found) \in (SUBSET Memory) \cup {None}
  BY <1>1, EntriesFacts
<1>3. /\ work' \in Work /\ work'.stage = "end" /\ work'.result = Entries(found)
      /\ WritesOnly(work'.ops, m_graph')
  BY <1>2, UnchangedFacts DEF List
<1>4. found \in SUBSET VisibleTo(current.task.pet)
  OBVIOUS
<1>5. current.task.action = "list" /\ work.stage = "start"
  BY DEF List, Doing
<1> QED
  BY <1>1, <1>3, <1>4, <1>5, AgesFacts
     DEF Effect, List, OnlyGraph, diskVars, bounds, Importing

LEMMA StoreEffect == ASSUME AtWork, Store PROVE Effect
<1> DEFINE t == current.task
           id == StoreId(current)
<1>1. /\ IsGraph(m_graph) /\ vectors' = vectors /\ vectors \in [DOMAIN vectors -> Content]
      /\ t.action = "store" /\ work.stage = "start" /\ id \in MemoryId
      /\ t.content \in Content /\ OwnerOf(t) \in Owner
  BY MemoryAssumption
     DEF AtWork, DataTyped, Store, OnlyGraph, diskVars, Doing, StoreId, MemoryId, OwnerOf,
         Owner
<1>2. CASE /\ CanAdd(m_graph, id)
           /\ m_graph' = AddEntry(m_graph, id, t.content, OwnerOf(t))
           /\ Changed(<<WriteVec(id)>>, None)
  <2>1. IsGraph(m_graph') /\ Ages(m_graph, m_graph') /\ DOMAIN m_graph' = DOMAIN m_graph \cup {id}
    <3> HIDE DEF t, id
    <3> QED BY <1>1, <1>2, AddEntryFacts
  <2>2. <<WriteVec(id)>> \in Seq(Op) /\ WritesOnly(<<WriteVec(id)>>, m_graph')
    BY <1>1, <2>1 DEF WritesOnly, WriteVec, Op
  <2>3. /\ work' \in Work /\ work'.stage = "save" /\ WritesOnly(work'.ops, m_graph')
    BY <1>2, <2>2, ChangedFacts
  <2> QED
    BY <1>1, <2>1, <2>3
       DEF Effect, Store, OnlyGraph, diskVars, bounds, Importing, Reads
<1>3. CASE ~CanAdd(m_graph, id) /\ Unchanged(None) /\ UNCHANGED m_graph
  <2>1. work' \in Work /\ work'.stage = "end" /\ WritesOnly(work'.ops, m_graph')
    BY <1>3, UnchangedFacts
  <2> QED
    BY <1>1, <1>3, <2>1, AgesFacts
       DEF Effect, Store, OnlyGraph, diskVars, bounds, Importing, Reads
<1> QED BY <1>2, <1>3 DEF Store

LEMMA ForgetEffect == ASSUME AtWork, Forget PROVE Effect
<1>1. PICK ids \in ForgetTargets(current.task) :
        /\ m_graph' = SoftDelete(m_graph, ids)
        /\ forgotten' = [x \in DOMAIN forgotten \cup ids |->
                           IF x \in ids THEN current.requestId ELSE forgotten[x]]
        /\ IF ids = {} THEN Unchanged(None) ELSE Changed(Removes(ids), None)
  BY DEF Forget
<1>2. /\ IsGraph(m_graph) /\ vectors' = vectors /\ vectors \in [DOMAIN vectors -> Content]
      /\ current.task.action = "forget" /\ work.stage = "start"
  BY DEF AtWork, DataTyped, Forget, OnlyGraph, diskVars, Doing
<1>3. ids \in SUBSET DOMAIN m_graph /\ ids \in SUBSET MemoryId /\ IsFiniteSet(ids)
  <2>1. ids \in SUBSET DOMAIN m_graph
    BY DEF ForgetTargets, VisibleTo
  <2> QED BY <1>2, <2>1, FS_Subset DEF IsGraph
<1>4. /\ IsGraph(m_graph') /\ Ages(m_graph, m_graph')
      /\ \A id \in ids : ~m_graph'[id].active
      /\ ids = {} => m_graph' = m_graph
  BY <1>1, <1>2, <1>3, SoftDeleteFacts
<1>5. Removes(ids) \in Seq(Op) /\ WritesOnly(Removes(ids), m_graph')
  BY <1>3, BatchFacts DEF WritesOnly, RemoveVec
<1>6. /\ work' \in Work /\ work'.stage \in {"save", "end"} /\ WritesOnly(work'.ops, m_graph')
      /\ work'.stage = "end" => ids = {}
  <2>1. CASE ids = {}
    <3>1. Unchanged(None)
      BY <1>1, <2>1
    <3> QED BY <2>1, <3>1, UnchangedFacts
  <2>2. CASE ids # {}
    BY <1>1, <1>5, <2>2, ChangedFacts
  <2> QED BY <2>1, <2>2
<1> QED
  BY <1>1, <1>2, <1>3, <1>4, <1>6
     DEF Effect, Forget, OnlyGraph, diskVars, bounds, Importing, Reads

LEMMA TouchEffect == ASSUME AtWork, Touch PROVE Effect
<1>1. /\ IsGraph(m_graph) /\ m_graph' = m_graph
      /\ vectors' = vectors /\ vectors \in [DOMAIN vectors -> Content]
      /\ current.task.action = "touch" /\ work.stage = "start"
  BY DEF AtWork, DataTyped, Touch, OnlyGraph, diskVars, Doing
<1>2. work' \in Work /\ work'.stage \in {"save", "end"} /\ WritesOnly(work'.ops, m_graph')
  BY WorkFacts, ChangedFacts, UnchangedFacts DEF Touch
<1> QED
  BY <1>1, <1>2, AgesFacts DEF Effect, Touch, OnlyGraph, diskVars, bounds, Importing, Reads

LEMMA UpdateEffect == ASSUME AtWork, Update PROVE Effect
<1> DEFINE t == current.task
           id == t.id
<1>1. /\ IsGraph(m_graph) /\ vectors' = vectors /\ vectors \in [DOMAIN vectors -> Content]
      /\ t.action = "update" /\ work.stage = "start"
      /\ t.content \in Content /\ OwnerOf(t) \in Owner
  BY MemoryAssumption
     DEF AtWork, DataTyped, Update, OnlyGraph, diskVars, Doing, OwnerOf, Owner
<1>2. CASE /\ id \in DOMAIN m_graph /\ m_graph' = [m_graph EXCEPT ![id] = Updated(t)]
           /\ Changed(RefreshVector(id), None)
  <2>1. Updated(t) \in Entry /\ Updated(t).active = m_graph[id].active
    BY <1>1, <1>2 DEF Updated, IsGraph, Entry
  <2>2. IsGraph(m_graph') /\ Ages(m_graph, m_graph') /\ id \in DOMAIN m_graph'
    <3> HIDE DEF t, id
    <3> QED BY <1>1, <1>2, <2>1 DEF IsGraph, Ages
  <2>3. RefreshVector(id) \in Seq(Op) /\ WritesOnly(RefreshVector(id), m_graph')
    <3>1. id \in MemoryId
      BY <1>1, <1>2 DEF IsGraph
    <3> QED BY <2>2, <3>1 DEF WritesOnly, RefreshVector, WriteVec, RemoveVec, Op
  <2>4. work' \in Work /\ work'.stage = "save" /\ WritesOnly(work'.ops, m_graph')
    BY <1>2, <2>3, ChangedFacts
  <2> QED
    BY <1>1, <2>2, <2>4 DEF Effect, Update, OnlyGraph, diskVars, bounds, Importing, Reads
<1>3. CASE Unchanged(None) /\ UNCHANGED m_graph
  <2>1. work' \in Work /\ work'.stage = "end" /\ WritesOnly(work'.ops, m_graph')
    BY <1>3, UnchangedFacts
  <2> QED
    BY <1>1, <1>3, <2>1, AgesFacts
       DEF Effect, Update, OnlyGraph, diskVars, bounds, Importing, Reads
<1> QED BY <1>2, <1>3 DEF Update

LEMMA ConsolidateEffect == ASSUME AtWork, Consolidate PROVE Effect
<1> DEFINE all == AfterCandidates[Len(current.task.candidates)]
           ops == Writes(all.new) \o Removes(all.superseded)
<1>1. /\ IsGraph(m_graph) /\ vectors' = vectors /\ vectors \in [DOMAIN vectors -> Content]
      /\ current.task.action = "consolidate" /\ work.stage = "start"
  BY DEF AtWork, DataTyped, Consolidate, OnlyGraph, diskVars, Doing
<1>2. FoldInv(all)
  BY <1>1, ConsolidationFacts DEF AtWork, Candidates
<1>3. /\ m_graph' = all.graph
      /\ IF all.changed THEN Changed(ops, None) ELSE Unchanged(None)
  BY DEF Consolidate
<1> HIDE DEF all
<1>4. /\ IsGraph(m_graph') /\ Ages(m_graph, m_graph')
      /\ all.new \subseteq DOMAIN m_graph' /\ all.superseded \subseteq DOMAIN m_graph'
      /\ ~all.changed => m_graph' = m_graph
  BY <1>2, <1>3 DEF FoldInv
<1>5. /\ all.new \in SUBSET MemoryId /\ IsFiniteSet(all.new)
      /\ all.superseded \in SUBSET MemoryId /\ IsFiniteSet(all.superseded)
  <2>1. DOMAIN m_graph' \subseteq MemoryId /\ IsFiniteSet(DOMAIN m_graph')
    BY <1>4 DEF IsGraph
  <2> QED BY <1>4, <2>1, FS_Subset
<1>6. /\ Writes(all.new) \in Seq(Op) /\ Removes(all.superseded) \in Seq(Op)
      /\ \A i \in 1..Len(Writes(all.new)) : Writes(all.new)[i][2] \in all.new
      /\ \A i \in 1..Len(Removes(all.superseded)) : Removes(all.superseded)[i][1] = "remove"
  BY <1>5, BatchFacts DEF WriteVec, RemoveVec
<1>7. ops \in Seq(Op) /\ WritesOnly(ops, m_graph')
  <2> DEFINE w == Writes(all.new)
             r == Removes(all.superseded)
  <2>1. /\ ops \in Seq(Op) /\ Len(ops) = Len(w) + Len(r)
        /\ \A i \in 1..Len(ops) : ops[i] = IF i <= Len(w) THEN w[i] ELSE r[i - Len(w)]
    <3> HIDE DEF w, r
    <3>1. w \in Seq(Op) /\ r \in Seq(Op)
      BY <1>6 DEF w, r
    <3>2. ops = w \o r
      BY DEF w, r
    <3> HIDE DEF ops
    <3> QED BY <3>1, <3>2
  <2>2. ASSUME NEW i \in 1..Len(ops), ops[i][1] = "write" PROVE ops[i][2] \in DOMAIN m_graph'
    <3>1. Len(w) \in Nat /\ Len(r) \in Nat
      BY <1>6
    <3> HIDE DEF ops, w, r
    <3>2. CASE i <= Len(w)
      BY <1>4, <1>6, <2>1, <2>2, <3>1, <3>2 DEF w
    <3>3. CASE ~(i <= Len(w))
      <4>1. i - Len(w) \in 1..Len(r) /\ ops[i] = r[i - Len(w)]
        BY <2>1, <3>1, <3>3
      <4> QED BY <1>6, <2>2, <4>1 DEF r
    <3> QED BY <3>2, <3>3
  <2> QED BY <2>1, <2>2 DEF WritesOnly
<1> HIDE DEF ops
<1>8. /\ work' \in Work /\ work'.stage \in {"save", "end"} /\ WritesOnly(work'.ops, m_graph')
      /\ work'.stage = "end" => m_graph' = m_graph
  <2>1. CASE all.changed
    BY <1>3, <1>7, <2>1, ChangedFacts
  <2>2. CASE ~all.changed
    BY <1>3, <1>4, <2>2, UnchangedFacts
  <2> QED BY <2>1, <2>2
<1> QED
  BY <1>1, <1>4, <1>8
     DEF Effect, Consolidate, OnlyGraph, diskVars, bounds, Importing, Reads

LEMMA ExportEffect == ASSUME AtWork, Export PROVE Effect
<1>1. /\ IsGraph(m_graph) /\ m_graph' = m_graph
      /\ vectors' = vectors /\ vectors \in [DOMAIN vectors -> Content]
      /\ current.task.action = "export" /\ work.stage = "start"
      /\ exportFile' \in {exportFile, m_graph}
  BY DEF AtWork, DataTyped, Export, Doing
<1>2. work' \in Work /\ work'.stage = "end" /\ WritesOnly(work'.ops, m_graph')
  BY UnchangedFacts DEF Export
<1> QED
  BY <1>1, <1>2, AgesFacts DEF Effect, Export, observed, bounds, Importing, Reads

LEMMA ImportEffect == ASSUME AtWork, Import PROVE Effect
<1>1. /\ IsGraph(m_graph) /\ m_graph' = m_graph /\ exportFile' = exportFile
      /\ vectors' = vectors /\ vectors \in [DOMAIN vectors -> Content]
      /\ current.task.action = "import" /\ work.stage = "start"
  BY DEF AtWork, DataTyped, Import, OnlyGraph, diskVars, Doing
<1>2. /\ work' \in Work /\ work'.stage \in {"save", "end"} /\ WritesOnly(work'.ops, m_graph')
      /\ work'.stage = "save" => exportFile # None
  BY WorkFacts, ChangedFacts, UnchangedFacts DEF Import
<1> QED
  BY <1>1, <1>2, AgesFacts DEF Effect, Import, OnlyGraph, diskVars, bounds, Reads

LEMMA OperationEffect == ASSUME AtWork, Operation PROVE Effect
BY RetrieveEffect, ListEffect, StoreEffect, ForgetEffect, TouchEffect, UpdateEffect,
   ConsolidateEffect, ExportEffect, ImportEffect DEF Operation

-----------------------------------------------------------------------------
(***************************************************************************)
(* The inductive invariant.  A property of what the main thread is given   *)
(* has to hold of the result the worker has at hand, and one of graph.json *)
(* between two tasks has to say what a task in progress still owes.        *)
(***************************************************************************)
OfTheResult == current # None /\ Done /\ Reads(current.task)

\* The graph waits to be saved only before a save that writes it.
SavedOrDue == worker # "none" /\ ~unsaved /\ (work.stage = "save" => Importing) => file = m_graph

Private ==
  /\ PetsArePrivate
  /\ OfTheResult => \A e \in work.result : e.entry.owner \in {Global, current.task.pet}

Forgetting ==
  /\ ForgottenIsNotRetrieved
  /\ \A id \in DOMAIN forgotten :
       id \in DOMAIN m_graph /\ ~m_graph[id].active /\ forgotten[id] <= lastTaken
  /\ OfTheResult => \A e \in work.result : e.id \notin DOMAIN forgotten

\* The graph in memory has all that graph.json has, and no more of it is active.
FileIsOlder == loaded = "read" /\ worker # "none" => Ages(file, m_graph)

MemoryInv ==
  /\ ThreadSteps /\ DataTyped /\ WorkTyped
  /\ SavedOrDue /\ Private /\ Forgetting /\ FileIsOlder

LEMMA ThreadFacts ==
  ASSUME ThreadProofs!TaskQueueInv
  PROVE  /\ current \in [requestId : Nat \ {0}, task : Task] \cup {None}
         /\ (worker = "busy") <=> (current # None)
         /\ lastTaken \in Nat
         /\ current # None => current.requestId = lastTaken
BY DEF ThreadProofs!TaskQueueInv, ThreadProofs!TypeOK, ThreadProofs!ThreadsAgree,
       ThreadProofs!ResultsAreOlder, ThreadProofs!Request

\* The newest result of a pet is older than the task at hand.
LEMMA MailboxIsOlder ==
  ASSUME ThreadProofs!TaskQueueInv, MailboxTyped, current # None,
         NEW pet \in Pet, m_mailbox[pet] # None
  PROVE  m_mailbox[pet] \in Found /\ m_mailbox[pet].requestId < current.requestId
<1>1. m_mailbox[pet] \in Found
  BY DEF MailboxTyped
<1>2. [requestId |-> m_mailbox[pet].requestId, value |-> "entries"] # None
  BY <1>1, MemoryAssumption DEF Found
<1> QED
  BY <1>1, <1>2 DEF ThreadProofs!TaskQueueInv, ThreadProofs!ResultsAreOlder

\* The two threads' own invariant is kept, by the theorems about MemoryTaskQueue.
LEMMA StepKeepsThreads ==
  ASSUME ThreadSteps, [Next]_vars
  PROVE  ThreadProofs!TaskQueueInv' /\ MailboxTyped'
<1>1. ThreadProofs!TaskQueueInv'
  BY ThreadStep, ThreadAssumptionsHold, ThreadProofs!StepKeepsInv DEF ThreadSteps
<1>2. MailboxTyped'
  <2>1. CASE EndTask
    BY <2>1, EndTaskIsThreadStep
  <2>2. CASE UNCHANGED m_mailbox
    BY <2>2 DEF ThreadSteps, MailboxTyped
  <2>3. ASSUME NEW pet \in Pet, TakeLatestReadyResult(pet) PROVE MailboxTyped'
    BY <2>3 DEF TakeLatestReadyResult, Threads!TakeLatestReadyResult, ThreadSteps,
                MailboxTyped
  <2>4. CASE ProcessEnds
    BY <2>4 DEF ProcessEnds, Threads!ProcessEnds, MailboxTyped
  <2>5. CASE TaskStep /\ ~EndTask
    BY <2>2, <2>5
       DEF TaskStep, Retrieve, List, Store, Forget, Touch, Update, Consolidate, Export,
           Import, SaveSucceeds, SaveFails, WriteVector, DropVectors, OnlyGraph,
           threadVars
  <2>6. CASE BeginTask \/ Sleep \/ ExitLoop \/ BeginShutdown \/ EndShutdown \/ Start
    BY <2>2, <2>6
       DEF BeginTask, Sleep, ExitLoop, BeginShutdown, EndShutdown, Start,
           Threads!BeginTask, Threads!WaitForTask, Threads!SpuriousWakeup,
           Threads!ExitLoop, Threads!BeginShutdown, Threads!EndShutdown, Threads!Start,
           Threads!mailboxVars
  <2>7. ASSUME NEW t \in Task, EnqueueTask(t) PROVE MailboxTyped'
    BY <2>2, <2>7 DEF EnqueueTask, Threads!EnqueueTask, Threads!mailboxVars
  <2>8. CASE UNCHANGED vars
    BY <2>2, <2>8 DEF vars, threadVars
  <2> QED
    BY <2>1, <2>3, <2>4, <2>5, <2>6, <2>7, <2>8 DEF Next
<1> QED BY <1>1, <1>2

\* An operation leaves everything but the graph, the work and what it forgets.
LEMMA OperationKeepsInv ==
  ASSUME MemoryInv, MailboxTyped', ThreadProofs!TaskQueueInv', Operation
  PROVE  MemoryInv'
<1>1. /\ current \in [requestId : Nat \ {0}, task : Task] /\ current # None
      /\ worker = "busy" /\ current.requestId = lastTaken /\ lastTaken \in Nat
  <2>1. work.stage = "start"
    BY DEF Operation, Retrieve, List, Store, Forget, Touch, Update, Consolidate, Export,
           Import, Doing
  <2> QED BY <2>1, ThreadFacts DEF MemoryInv, ThreadSteps, WorkTyped
<1>2. Effect
  BY <1>1, OperationEffect DEF AtWork, MemoryInv
<1>3. /\ UNCHANGED <<current, worker, lastTaken, m_mailbox>> /\ work.stage = "start"
      /\ UNCHANGED <<file, unsaved, loaded>>
  BY <1>2 DEF Effect, threadVars
<1>4. DataTyped'
  <2>1. exportFile' = None \/ IsGraph(exportFile')
    BY <1>2 DEF Effect, MemoryInv, DataTyped
  <2>2. forgotten' \in [DOMAIN forgotten' -> Nat]
    <3>1. CASE forgotten' = forgotten
      BY <3>1 DEF MemoryInv, DataTyped
    <3>2. ASSUME NEW ids \in SUBSET DOMAIN m_graph,
                 forgotten' = [x \in DOMAIN forgotten \cup ids |->
                                 IF x \in ids THEN current.requestId ELSE forgotten[x]]
          PROVE  forgotten' \in [DOMAIN forgotten' -> Nat]
      BY <1>1, <3>2 DEF MemoryInv, DataTyped
    <3> QED BY <1>2, <3>1, <3>2 DEF Effect
  <2> QED BY <1>2, <1>3, <2>1, <2>2 DEF Effect, MemoryInv, DataTyped
<1>5. WorkTyped'
  BY <1>1, <1>2, <1>3 DEF Effect, WorkTyped, Importing
<1>6. SavedOrDue'
  BY <1>1, <1>2, <1>3 DEF Effect, MemoryInv, SavedOrDue, Importing
<1>7. FileIsOlder'
  BY <1>2, <1>3, AgesFacts DEF Effect, MemoryInv, FileIsOlder
<1> DEFINE pet == current.task.pet
<1>8. ASSUME Reads(current.task)
      PROVE  \E found \in SUBSET VisibleTo(pet) :
               work'.result = {[id |-> id, entry |-> m_graph[id]] : id \in found}
  BY <1>2, <1>8 DEF Effect, Entries
<1>9. ResultTyped'
  <2>1. \A found \in SUBSET VisibleTo(pet) : Entries(found) \in SUBSET Memory
    BY EntriesFacts DEF VisibleTo, MemoryInv, DataTyped
  <2> QED BY <1>3, <1>8, <2>1 DEF ResultTyped, Entries
<1>10. Private'
  <2>1. PetsArePrivate'
    BY <1>3 DEF MemoryInv, Private, PetsArePrivate
  <2>2. ASSUME Reads(current.task), NEW e \in work'.result
        PROVE  e.entry.owner \in {Global, pet}
    BY <1>8, <2>2 DEF VisibleTo, SeesAlso
  <2> QED BY <1>3, <2>1, <2>2 DEF Private, OfTheResult
<1>11. \A id \in DOMAIN forgotten : id \in DOMAIN m_graph' /\ ~m_graph'[id].active
  BY <1>2 DEF Effect, Ages, MemoryInv, Forgetting
<1>12. Forgetting'
  <2>1. /\ ForgottenIsNotRetrieved'
        /\ \A id \in DOMAIN forgotten' :
             id \in DOMAIN m_graph' /\ ~m_graph'[id].active /\ forgotten'[id] <= lastTaken'
    <3>1. CASE forgotten' = forgotten
      BY <1>3, <1>11, <3>1 DEF MemoryInv, Forgetting, ForgottenIsNotRetrieved
    <3>2. ASSUME NEW ids \in SUBSET DOMAIN m_graph, \A id \in ids : ~m_graph'[id].active,
                 forgotten' = [x \in DOMAIN forgotten \cup ids |->
                                 IF x \in ids THEN current.requestId ELSE forgotten[x]]
          PROVE  /\ ForgottenIsNotRetrieved'
                 /\ \A id \in DOMAIN forgotten' :
                      /\ id \in DOMAIN m_graph' /\ ~m_graph'[id].active
                      /\ forgotten'[id] <= lastTaken'
      <4>1. ASSUME NEW id \in DOMAIN forgotten'
            PROVE  /\ id \in DOMAIN m_graph' /\ ~m_graph'[id].active
                   /\ forgotten'[id] <= lastTaken'
        <5>1. CASE id \in ids
          BY <1>1, <1>2, <1>3, <3>2, <5>1 DEF Effect, Ages
        <5>2. CASE id \notin ids
          BY <1>3, <1>11, <3>2, <4>1, <5>2 DEF MemoryInv, Forgetting
        <5> QED BY <5>1, <5>2
      <4>2. ForgottenIsNotRetrieved'
        <5>1. ASSUME NEW p \in Pet, m_mailbox[p] # None
              PROVE  m_mailbox[p].requestId < current.requestId
          BY <1>1, <5>1, MailboxIsOlder DEF MemoryInv, ThreadSteps
        <5>2. ASSUME NEW p \in Pet, m_mailbox[p] # None,
                     NEW e \in m_mailbox[p].value, e.id \in DOMAIN forgotten'
              PROVE  m_mailbox[p].requestId < forgotten'[e.id]
          <6>1. CASE e.id \in ids
            BY <3>2, <5>1, <5>2, <6>1
          <6>2. CASE e.id \notin ids
            BY <3>2, <5>2, <6>2 DEF MemoryInv, Forgetting, ForgottenIsNotRetrieved
          <6> QED BY <6>1, <6>2
        <5> QED BY <1>3, <5>2 DEF ForgottenIsNotRetrieved
      <4> QED BY <4>1, <4>2
    <3> QED BY <1>2, <3>1, <3>2 DEF Effect
  <2>2. ASSUME Reads(current.task), NEW e \in work'.result
        PROVE  e.id \notin DOMAIN forgotten'
    <3>1. e.id \in DOMAIN m_graph /\ m_graph[e.id].active
      BY <1>8, <2>2 DEF VisibleTo
    <3>2. forgotten' = forgotten
      BY <1>2, <2>2 DEF Effect
    <3> QED BY <3>1, <3>2 DEF MemoryInv, Forgetting
  <2> QED BY <1>3, <2>1, <2>2 DEF Forgetting, OfTheResult
<1> QED
  BY <1>4, <1>5, <1>6, <1>7, <1>9, <1>10, <1>12 DEF MemoryInv, ThreadSteps

LEMMA AfterOpsFacts ==
  ASSUME work \in Work, NEW ops \in Seq(Op), work' = AfterOps(ops)
  PROVE  /\ work' \in Work /\ work'.stage \in {"vectors", "end"}
         /\ work'.result = work.result /\ work'.ops = ops
         /\ work'.stage = "end" <=> ops = <<>>
BY DEF AfterOps, Work

LEMMA TailFacts ==
  ASSUME NEW ops \in Seq(Op), ops # <<>>
  PROVE  /\ Tail(ops) \in Seq(Op) /\ ops[1] \in Op /\ Len(Tail(ops)) = Len(ops) - 1
         /\ Len(ops) \in Nat \ {0}
         /\ \A i \in 1..Len(Tail(ops)) : Tail(ops)[i] = ops[i + 1] /\ i + 1 \in 1..Len(ops)
         /\ \A g : WritesOnly(ops, g) => WritesOnly(Tail(ops), g)
<1>1. /\ Tail(ops) \in Seq(Op) /\ Len(Tail(ops)) = Len(ops) - 1
      /\ \A i \in 1..Len(Tail(ops)) : Tail(ops)[i] = ops[i + 1] /\ i + 1 \in 1..Len(ops)
      /\ ops[1] \in Op /\ Len(ops) \in Nat \ {0}
  OBVIOUS
<1>2. ASSUME NEW g, WritesOnly(ops, g) PROVE WritesOnly(Tail(ops), g)
  BY <1>1, <1>2 DEF WritesOnly
<1> QED BY <1>1, <1>2

\* What the later steps of a task leave alone.
LEMMA LaterStep ==
  ASSUME MemoryInv, work.stage \in {"save", "vectors", "end"}, UNCHANGED threadVars
  PROVE  /\ current \in [requestId : Nat \ {0}, task : Task] /\ current # None
         /\ worker = "busy"
         /\ UNCHANGED <<current, worker, lastTaken, m_mailbox>>
         /\ Done
BY ThreadFacts DEF MemoryInv, ThreadSteps, WorkTyped, threadVars, Done

\* When the result stays, so does all that is said of it.
LEMMA ResultKept ==
  ASSUME MemoryInv, Done, current # None, UNCHANGED <<current, m_mailbox>>,
         work'.result = work.result
  PROVE  ResultTyped' /\ Private' /\ (forgotten' = forgotten => ForgottenIsNotRetrieved')
         /\ (forgotten' = forgotten /\ OfTheResult' =>
               \A e \in work'.result : e.id \notin DOMAIN forgotten')
BY DEF MemoryInv, ThreadSteps, ResultTyped, Private, PetsArePrivate, OfTheResult, Forgetting,
       ForgottenIsNotRetrieved

LEMMA SaveSucceedsKeepsInv ==
  ASSUME MemoryInv, MailboxTyped', ThreadProofs!TaskQueueInv', SaveSucceeds
  PROVE  MemoryInv'
<1>1. /\ current \in [requestId : Nat \ {0}, task : Task] /\ current # None
      /\ worker = "busy" /\ work.stage = "save"
      /\ UNCHANGED <<current, worker, lastTaken, m_mailbox>> /\ Done
  BY LaterStep DEF SaveSucceeds
<1>2. /\ IsGraph(m_graph) /\ IsGraph(file) /\ (exportFile = None \/ IsGraph(exportFile))
      /\ vectors \in [DOMAIN vectors -> Content] /\ forgotten \in [DOMAIN forgotten -> Nat]
      /\ work \in Work /\ WritesOnly(work.ops, m_graph)
      /\ UNCHANGED <<vectors, exportFile>>
  BY DEF MemoryInv, DataTyped, WorkTyped, SaveSucceeds
<1>3. CASE Importing
  <2>1. /\ file' = exportFile /\ m_graph' = exportFile /\ forgotten' = <<>>
        /\ work' = AfterOps(ImportOps) /\ loaded' = "read" /\ unsaved' = FALSE
        /\ IsGraph(exportFile) /\ exportFile # None
    BY <1>1, <1>2, <1>3 DEF SaveSucceeds, MemoryInv, WorkTyped
  <2>2. ImportOps \in Seq(Op) /\ WritesOnly(ImportOps, exportFile)
    <3> DEFINE ids == {id \in DOMAIN exportFile : exportFile[id].active}
    <3>1. ids \in SUBSET MemoryId /\ IsFiniteSet(ids) /\ ids \in SUBSET DOMAIN exportFile
      BY <2>1, FS_Subset DEF IsGraph
    <3>2. /\ Writes(ids) \in Seq(Op)
          /\ \A i \in 1..Len(Writes(ids)) : Writes(ids)[i][2] \in ids
      <4> HIDE DEF ids
      <4> QED BY <3>1, BatchFacts DEF WriteVec
    <3> DEFINE w == Writes(ids)
    <3>3. ImportOps = IF storeOpen THEN <<Clear>> \o w ELSE <<>>
      BY DEF ImportOps
    <3> HIDE DEF w
    <3>4. /\ w \in Seq(Op) /\ \A i \in 1..Len(w) : w[i][2] \in DOMAIN exportFile
      BY <3>1, <3>2 DEF w
    <3>5. Clear \in Op /\ Clear[1] # "write"
      BY DEF Clear, Op
    <3> HIDE DEF ids
    <3>6. /\ <<Clear>> \o w \in Seq(Op) /\ Len(<<Clear>> \o w) = Len(w) + 1
          /\ \A i \in 1..(Len(w) + 1) :
               (<<Clear>> \o w)[i] = IF i = 1 THEN Clear ELSE w[i - 1]
      BY <3>4, <3>5
    <3>7. ASSUME NEW i \in 1..(Len(w) + 1), (<<Clear>> \o w)[i][1] = "write"
          PROVE  (<<Clear>> \o w)[i][2] \in DOMAIN exportFile
      <4>1. i # 1 /\ i - 1 \in 1..Len(w)
        BY <3>4, <3>5, <3>6, <3>7
      <4> QED BY <3>4, <3>6, <4>1
    <3> QED BY <3>3, <3>6, <3>7, WorkFacts DEF WritesOnly
  <2>3. /\ work' \in Work /\ work'.stage \in {"vectors", "end"}
        /\ work'.result = work.result /\ work'.ops = ImportOps
    BY <1>2, <2>1, <2>2, AfterOpsFacts
  <2>4. DataTyped' /\ WorkTyped'
    <3>1. forgotten' \in [DOMAIN forgotten' -> Nat] /\ DOMAIN forgotten' = {}
      BY <2>1
    <3> QED BY <1>1, <1>2, <2>1, <2>2, <2>3, <3>1 DEF DataTyped, WorkTyped
  <2>5. ResultTyped' /\ Private'
    BY <1>1, <2>3, ResultKept
  <2>6. Forgetting'
    BY <2>1 DEF Forgetting, ForgottenIsNotRetrieved
  <2>7. SavedOrDue' /\ FileIsOlder'
    BY <2>1, AgesFacts DEF SavedOrDue, FileIsOlder
  <2> QED BY <2>4, <2>5, <2>6, <2>7 DEF MemoryInv, ThreadSteps
<1>4. CASE ~Importing
  <2>1. /\ file' = m_graph /\ m_graph' = m_graph /\ forgotten' = forgotten
        /\ work' = AfterOps(work.ops) /\ loaded' = "read" /\ unsaved' = FALSE
    BY <1>1, <1>4 DEF SaveSucceeds
  <2>2. /\ work' \in Work /\ work'.stage \in {"vectors", "end"}
        /\ work'.result = work.result /\ work'.ops = work.ops
    <3>1. work.ops \in Seq(Op)
      BY <1>2 DEF Work
    <3> QED BY <1>2, <2>1, <3>1, AfterOpsFacts
  <2>3. DataTyped' /\ WorkTyped'
    BY <1>1, <1>2, <2>1, <2>2 DEF DataTyped, WorkTyped
  <2>4. ResultTyped' /\ Private'
    BY <1>1, <2>2, ResultKept
  <2>5. Forgetting'
    BY <1>1, <2>1, <2>2, ResultKept DEF MemoryInv, Forgetting
  <2>6. SavedOrDue' /\ FileIsOlder'
    BY <2>1, AgesFacts DEF SavedOrDue, FileIsOlder
  <2> QED BY <2>3, <2>4, <2>5, <2>6 DEF MemoryInv, ThreadSteps
<1> QED BY <1>3, <1>4

\* A failed save, and the vectors one by one: the graph and graph.json stay.
LEMMA LaterStepKeepsInv ==
  ASSUME MemoryInv, MailboxTyped', ThreadProofs!TaskQueueInv',
         SaveFails \/ WriteVector \/ DropVectors
  PROVE  MemoryInv'
<1>1. /\ current \in [requestId : Nat \ {0}, task : Task] /\ current # None
      /\ worker = "busy" /\ work.stage \in {"save", "vectors"}
      /\ UNCHANGED <<current, worker, lastTaken, m_mailbox>> /\ Done
      /\ UNCHANGED <<m_graph, file, exportFile, loaded, forgotten>>
  BY LaterStep DEF SaveFails, WriteVector, DropVectors, diskVars, observed
<1>2. /\ IsGraph(m_graph) /\ vectors \in [DOMAIN vectors -> Content]
      /\ work \in Work /\ WritesOnly(work.ops, m_graph) /\ work.ops \in Seq(Op)
  BY DEF MemoryInv, DataTyped, WorkTyped, Work
<1>3. /\ work' \in Work /\ work'.stage \in {"vectors", "end"}
      /\ work'.result = work.result /\ WritesOnly(work'.ops, m_graph')
  <2>1. PICK ops \in Seq(Op) : WritesOnly(ops, m_graph) /\ work' = AfterOps(ops)
    <3>1. CASE SaveFails
      BY <1>2, <3>1, WorkFacts DEF SaveFails
    <3>2. CASE WriteVector \/ DropVectors
      <4>1. Tail(work.ops) \in Seq(Op) /\ WritesOnly(Tail(work.ops), m_graph)
        BY <1>2, <3>2, TailFacts DEF WriteVector, DropVectors
      <4> QED BY <3>2, <4>1 DEF WriteVector, DropVectors
    <3> QED BY <3>1, <3>2
  <2> QED BY <1>1, <1>2, <2>1, AfterOpsFacts
<1>4. vectors' \in [DOMAIN vectors' -> Content]
  <2>1. CASE UNCHANGED vectors
    BY <1>2, <2>1
  <2>2. CASE WriteVector /\ vectors' = WithVectors({work.ops[1][2]})
    <3>1. work.ops[1][2] \in DOMAIN m_graph
      BY <1>2, <2>2 DEF WriteVector, WritesOnly
    <3> QED BY <1>2, <2>2, <3>1, WithVectorsFacts
  <2>3. CASE vectors' = [x \in DOMAIN vectors \ Dropped |-> vectors[x]]
    BY <1>2, <2>3
  <2> QED BY <2>1, <2>2, <2>3 DEF SaveFails, WriteVector, DropVectors, diskVars
<1>5. DataTyped' /\ WorkTyped'
  BY <1>1, <1>3, <1>4 DEF DataTyped, WorkTyped, MemoryInv
<1>6. ResultTyped' /\ Private' /\ Forgetting'
  BY <1>1, <1>3, ResultKept DEF MemoryInv, Forgetting
<1>7. SavedOrDue'
  <2>1. CASE SaveFails
    BY <1>1, <2>1 DEF SaveFails, SavedOrDue, MemoryInv, Importing
  <2>2. CASE WriteVector \/ DropVectors
    BY <1>1, <2>2 DEF WriteVector, DropVectors, observed, SavedOrDue, MemoryInv
  <2> QED BY <2>1, <2>2
<1>8. FileIsOlder'
  BY <1>1 DEF FileIsOlder, MemoryInv
<1> QED BY <1>5, <1>6, <1>7, <1>8 DEF MemoryInv, ThreadSteps

LEMMA BeginTaskKeepsInv ==
  ASSUME MemoryInv, MailboxTyped', ThreadProofs!TaskQueueInv', BeginTask
  PROVE  MemoryInv'
<1>1. /\ worker = "looking" /\ worker' = "busy" /\ current = None /\ current' # None
      /\ work.stage = "none" /\ work' = [Idle EXCEPT !.stage = "start"]
      /\ lastTaken \in Nat /\ current'.requestId = lastTaken' /\ m_mailbox' = m_mailbox
      /\ UNCHANGED <<m_graph, diskVars, unsaved, loaded, forgotten>>
  <2>1. worker = "looking" /\ worker' = "busy" /\ m_mailbox' = m_mailbox
    BY DEF BeginTask, Threads!BeginTask, Threads!mailboxVars
  <2>2. current' # None /\ current'.requestId = lastTaken'
    BY <2>1 DEF ThreadProofs!TaskQueueInv, ThreadProofs!ThreadsAgree,
                ThreadProofs!ResultsAreOlder
  <2>3. current = None /\ lastTaken \in Nat /\ work.stage = "none"
    BY <2>1, ThreadFacts DEF MemoryInv, ThreadSteps, WorkTyped
  <2> QED BY <2>1, <2>2, <2>3 DEF BeginTask, observed
<1>2. /\ work' \in Work /\ work'.stage = "start" /\ work'.ops = <<>>
  BY <1>1, WorkFacts DEF Idle
<1>3. lastTaken < lastTaken' /\ lastTaken' \in Nat
  <2>1. /\ m_taskQueue # <<>> /\ m_taskQueue \in Seq([requestId : Nat \ {0}, task : Task])
        /\ m_taskQueue[1].requestId = lastTaken + 1 /\ lastTaken' = Head(m_taskQueue).requestId
    BY <1>1 DEF BeginTask, Threads!BeginTask, MemoryInv, ThreadSteps,
                ThreadProofs!TaskQueueInv, ThreadProofs!NothingDropped,
                ThreadProofs!TypeOK, ThreadProofs!Request
  <2>2. Head(m_taskQueue) = m_taskQueue[1]
    BY <2>1
  <2> QED BY <1>1, <2>1, <2>2
<1>4. DataTyped' /\ WorkTyped'
  BY <1>1, <1>2, WorkFacts DEF DataTyped, WorkTyped, MemoryInv, diskVars
<1>5. ResultTyped' /\ Private'
  BY <1>1, <1>2 DEF ResultTyped, Private, PetsArePrivate, OfTheResult, Done, MemoryInv
<1>6. Forgetting'
  <2>1. \A id \in DOMAIN forgotten : forgotten[id] \in Nat /\ forgotten[id] <= lastTaken
    BY DEF MemoryInv, Forgetting, DataTyped
  <2> QED
    BY <1>1, <1>2, <1>3, <2>1
       DEF Forgetting, ForgottenIsNotRetrieved, OfTheResult, Done, MemoryInv
<1>7. SavedOrDue' /\ FileIsOlder'
  BY <1>1, <1>2 DEF SavedOrDue, FileIsOlder, MemoryInv, diskVars
<1> QED BY <1>4, <1>5, <1>6, <1>7 DEF MemoryInv, ThreadSteps

LEMMA EndTaskKeepsInv ==
  ASSUME MemoryInv, MailboxTyped', ThreadProofs!TaskQueueInv', EndTask
  PROVE  MemoryInv'
<1>1. /\ worker = "busy" /\ current' = None /\ work.stage = "end" /\ worker' = "looking"
      /\ current \in [requestId : Nat \ {0}, task : Task] /\ current # None
      /\ work' = Idle /\ lastTaken' = lastTaken /\ m_mailbox \in [Pet -> Found \cup {None}]
      /\ m_mailbox' = Threads!Published(KeyOf[current.task], work.result)
      /\ UNCHANGED <<m_graph, diskVars, unsaved, loaded, forgotten>>
  BY ThreadFacts
     DEF EndTask, Threads!EndTask, MemoryInv, ThreadSteps, MailboxTyped, observed
<1>2. work' \in Work /\ work'.stage = "none" /\ work'.ops = <<>>
  BY <1>1, WorkFacts DEF Idle
<1>3. DataTyped' /\ WorkTyped'
  BY <1>1, <1>2, WorkFacts DEF DataTyped, WorkTyped, MemoryInv, diskVars
<1>4. ASSUME NEW pet \in Pet, m_mailbox'[pet] # m_mailbox[pet]
      PROVE  /\ OfTheResult /\ pet = current.task.pet
             /\ m_mailbox'[pet] = [requestId |-> current.requestId, value |-> work.result]
  <2>1. pet = KeyOf[current.task] /\ pet # NoKey
    BY <1>1, <1>4, MemoryAssumption DEF Threads!Published, Threads!TaskQueueAssumption
  <2>2. Reads(current.task) /\ pet = current.task.pet
    BY <1>1, <2>1 DEF KeyOf, Reads
  <2> QED
    BY <1>1, <1>4, <2>1, <2>2 DEF Threads!Published, OfTheResult, Done
<1>5. Private'
  <2>1. ASSUME NEW pet \in Pet, m_mailbox'[pet] # None, NEW e \in m_mailbox'[pet].value
        PROVE  e.entry.owner \in {Global, pet}
    <3>1. CASE m_mailbox'[pet] = m_mailbox[pet]
      BY <2>1, <3>1 DEF MemoryInv, Private, PetsArePrivate
    <3>2. CASE m_mailbox'[pet] # m_mailbox[pet]
      BY <1>4, <2>1, <3>2 DEF MemoryInv, Private
    <3> QED BY <3>1, <3>2
  <2> QED BY <1>1, <2>1 DEF Private, PetsArePrivate, OfTheResult
<1>6. Forgetting'
  <2>1. ASSUME NEW pet \in Pet, m_mailbox'[pet] # None, NEW e \in m_mailbox'[pet].value,
               e.id \in DOMAIN forgotten
        PROVE  m_mailbox'[pet].requestId < forgotten[e.id]
    <3>1. CASE m_mailbox'[pet] = m_mailbox[pet]
      BY <2>1, <3>1 DEF MemoryInv, Forgetting, ForgottenIsNotRetrieved
    <3>2. CASE m_mailbox'[pet] # m_mailbox[pet]
      BY <1>4, <2>1, <3>2 DEF MemoryInv, Forgetting
    <3> QED BY <3>1, <3>2
  <2> QED
    BY <1>1, <2>1 DEF MemoryInv, Forgetting, ForgottenIsNotRetrieved, OfTheResult
<1>7. SavedOrDue' /\ FileIsOlder' /\ ResultTyped'
  BY <1>1, <1>2 DEF SavedOrDue, FileIsOlder, ResultTyped, MemoryInv, diskVars
<1> QED BY <1>3, <1>5, <1>6, <1>7 DEF MemoryInv, ThreadSteps

\* What the main thread does, and the worker's sleep, change no memory.
LEMMA ThreadsOnlyKeepsInv ==
  ASSUME MemoryInv, MailboxTyped', ThreadProofs!TaskQueueInv',
         UNCHANGED <<current, lastTaken, Rest>>, worker' # "none" => worker # "none",
         \A pet \in Pet : m_mailbox'[pet] \in {m_mailbox[pet], None}
  PROVE  MemoryInv'
<1>1. UNCHANGED <<current, lastTaken, m_graph, work, file, vectors, exportFile, unsaved,
                  loaded, forgotten>>
  BY DEF Rest, diskVars, observed
<1>2. DataTyped' /\ WorkTyped' /\ ResultTyped'
  BY <1>1 DEF DataTyped, WorkTyped, ResultTyped, Importing, Done, MemoryInv, ThreadSteps
<1>3. SavedOrDue' /\ FileIsOlder'
  BY <1>1 DEF SavedOrDue, FileIsOlder, Importing, MemoryInv
<1>4. Private'
  BY <1>1 DEF Private, PetsArePrivate, OfTheResult, Done, MemoryInv
<1>5. Forgetting'
  BY <1>1 DEF Forgetting, ForgottenIsNotRetrieved, OfTheResult, Done, MemoryInv
<1> QED BY <1>2, <1>3, <1>4, <1>5 DEF MemoryInv, ThreadSteps

LEMMA StartKeepsInv ==
  ASSUME MemoryInv, MailboxTyped', ThreadProofs!TaskQueueInv', Start
  PROVE  MemoryInv'
<1>1. /\ worker = "none" /\ current = None /\ work.stage = "none"
      /\ UNCHANGED <<current, lastTaken, m_mailbox, work, file, vectors, exportFile>>
      /\ forgotten' = <<>>
  BY ThreadFacts DEF Start, Threads!Start, Threads!mailboxVars, MemoryInv, ThreadSteps,
                     WorkTyped
<1>2. \/ m_graph' = file
      \/ m_graph' = NoGraph /\ unsaved' = TRUE /\ loaded' # "read"
  <2>1. CASE LoadSucceeds
    BY <2>1 DEF LoadSucceeds
  <2>2. CASE LoadFails
    BY <2>2 DEF LoadFails
  <2> QED BY <2>1, <2>2 DEF Start
<1>3. IsGraph(m_graph')
  BY <1>2, EmptyGraphFacts DEF MemoryInv, DataTyped
<1>4. WritesOnly(work'.ops, m_graph')
  BY <1>1, WorkFacts DEF MemoryInv, WorkTyped
<1>5. DataTyped' /\ WorkTyped'
  BY <1>1, <1>3, <1>4 DEF DataTyped, WorkTyped, MemoryInv
<1>6. ResultTyped' /\ Private'
  BY <1>1 DEF ResultTyped, Private, PetsArePrivate, OfTheResult, MemoryInv
<1>7. Forgetting'
  BY <1>1 DEF Forgetting, ForgottenIsNotRetrieved, OfTheResult
<1>8. SavedOrDue' /\ FileIsOlder'
  BY <1>1, <1>2, AgesFacts DEF SavedOrDue, FileIsOlder
<1> QED BY <1>5, <1>6, <1>7, <1>8 DEF MemoryInv, ThreadSteps

LEMMA ProcessEndsKeepsInv ==
  ASSUME MemoryInv, MailboxTyped', ThreadProofs!TaskQueueInv', ProcessEnds
  PROVE  MemoryInv'
<1>1. /\ worker' = "none" /\ current' = None /\ work' = Idle /\ m_graph' = NoGraph
      /\ m_mailbox' = [k \in Pet |-> None] /\ forgotten' = <<>>
      /\ UNCHANGED <<file, vectors, exportFile>>
  BY DEF ProcessEnds, Threads!ProcessEnds, diskVars
<1>2. work' \in Work /\ work'.stage = "none" /\ work'.ops = <<>>
  BY <1>1, WorkFacts DEF Idle
<1>3. DataTyped' /\ WorkTyped'
  BY <1>1, <1>2, EmptyGraphFacts, WorkFacts DEF DataTyped, WorkTyped, MemoryInv
<1>4. ResultTyped' /\ Private' /\ SavedOrDue' /\ FileIsOlder'
  BY <1>1 DEF ResultTyped, Private, PetsArePrivate, OfTheResult, SavedOrDue, FileIsOlder
<1>5. Forgetting'
  BY <1>1 DEF Forgetting, ForgottenIsNotRetrieved, OfTheResult
<1> QED BY <1>3, <1>4, <1>5 DEF MemoryInv, ThreadSteps

LEMMA StutterKeepsInv ==
  ASSUME MemoryInv, MailboxTyped', ThreadProofs!TaskQueueInv', UNCHANGED vars
  PROVE  MemoryInv'
<1>1. /\ UNCHANGED <<current, lastTaken, Rest>> /\ worker' = worker
      /\ m_mailbox' = m_mailbox
  BY DEF vars, threadVars, Rest
<1> QED BY <1>1, ThreadsOnlyKeepsInv

LEMMA InitMemoryInv == Init => MemoryInv
<1> SUFFICES ASSUME Init PROVE MemoryInv
  OBVIOUS
<1>1. ThreadProofs!TaskQueueInv
  BY InitThreads, ThreadAssumptionsHold, ThreadProofs!InitInv
<1>2. /\ worker = "none" /\ current = None /\ work = Idle /\ m_graph = NoGraph
      /\ file = NoGraph /\ vectors = NoGraph /\ exportFile = None /\ forgotten = <<>>
      /\ m_mailbox = [k \in Pet |-> None]
  BY DEF Init, Threads!Init
<1>3. work \in Work /\ work.stage = "none" /\ work.ops = <<>>
  BY <1>2, WorkFacts DEF Idle
<1>4. DataTyped /\ WorkTyped
  <2>1. vectors \in [DOMAIN vectors -> Content] /\ forgotten \in [DOMAIN forgotten -> Nat]
    BY <1>2, EmptyGraphFacts DEF NoGraph
  <2> QED BY <1>2, <1>3, <2>1, EmptyGraphFacts, WorkFacts DEF DataTyped, WorkTyped
<1>5. MailboxTyped /\ ResultTyped
  BY <1>2 DEF MailboxTyped, ResultTyped
<1>6. SavedOrDue /\ Private /\ FileIsOlder
  BY <1>2 DEF SavedOrDue, Private, PetsArePrivate, OfTheResult, FileIsOlder
<1>7. Forgetting
  BY <1>2 DEF Forgetting, ForgottenIsNotRetrieved, OfTheResult
<1> QED BY <1>1, <1>4, <1>5, <1>6, <1>7 DEF MemoryInv, ThreadSteps

\* Every step keeps MemoryInv: one case for each kind of action of Next.
LEMMA StepKeepsMemoryInv == MemoryInv /\ [Next]_vars => MemoryInv'
<1> SUFFICES ASSUME MemoryInv, [Next]_vars PROVE MemoryInv'
  OBVIOUS
<1>1. MailboxTyped' /\ ThreadProofs!TaskQueueInv'
  BY StepKeepsThreads DEF MemoryInv
<1>2. CASE UNCHANGED vars
  BY <1>1, <1>2, StutterKeepsInv
<1>3. CASE BeginTask
  BY <1>1, <1>3, BeginTaskKeepsInv
<1>4. CASE TaskStep
  <2>1. CASE Operation
    BY <1>1, <2>1, OperationKeepsInv
  <2>2. CASE SaveSucceeds
    BY <1>1, <2>2, SaveSucceedsKeepsInv
  <2>3. CASE SaveFails \/ WriteVector \/ DropVectors
    BY <1>1, <2>3, LaterStepKeepsInv
  <2>4. CASE EndTask
    BY <1>1, <2>4, EndTaskKeepsInv
  <2> QED BY <1>4, <2>1, <2>2, <2>3, <2>4 DEF TaskStep, Operation
<1>5. CASE Sleep \/ ExitLoop
  <2>1. /\ UNCHANGED <<current, lastTaken, m_mailbox, Rest>> /\ worker # "none"
    BY <1>5 DEF Sleep, ExitLoop, Threads!WaitForTask, Threads!SpuriousWakeup,
                Threads!ExitLoop, Threads!queueVars, Threads!mailboxVars
  <2> QED BY <1>1, <2>1, ThreadsOnlyKeepsInv
<1>6. ASSUME NEW t \in Task, EnqueueTask(t) PROVE MemoryInv'
  <2>1. UNCHANGED <<current, lastTaken, m_mailbox, Rest>> /\ (worker' # "none" => worker # "none")
    BY <1>6 DEF EnqueueTask, Threads!EnqueueTask, Threads!Wake, Threads!mailboxVars
  <2> QED BY <1>1, <2>1, ThreadsOnlyKeepsInv
<1>7. ASSUME NEW pet \in Pet, TakeLatestReadyResult(pet) PROVE MemoryInv'
  <2>1. UNCHANGED <<current, lastTaken, Rest>> /\ worker' = worker
        /\ m_mailbox' = [m_mailbox EXCEPT ![pet] = None]
        /\ m_mailbox \in [Pet -> Found \cup {None}]
    BY <1>7 DEF TakeLatestReadyResult, Threads!TakeLatestReadyResult, Threads!queueVars,
                Threads!threadVars, MemoryInv, ThreadSteps, MailboxTyped
  <2>2. \A p \in Pet : m_mailbox'[p] \in {m_mailbox[p], None}
    BY <2>1
  <2> QED BY <1>1, <2>1, <2>2, ThreadsOnlyKeepsInv
<1>8. CASE BeginShutdown \/ EndShutdown
  <2>1. UNCHANGED <<current, lastTaken, m_mailbox, Rest>> /\ (worker' # "none" => worker # "none")
    BY <1>8 DEF BeginShutdown, EndShutdown, Threads!BeginShutdown, Threads!EndShutdown,
                Threads!Wake, Threads!queueVars, Threads!mailboxVars
  <2> QED BY <1>1, <2>1, ThreadsOnlyKeepsInv
<1>9. CASE Start
  BY <1>1, <1>9, StartKeepsInv
<1>10. CASE ProcessEnds
  BY <1>1, <1>10, ProcessEndsKeepsInv
<1> QED
  BY <1>2, <1>3, <1>4, <1>5, <1>6, <1>7, <1>8, <1>9, <1>10 DEF Next

-----------------------------------------------------------------------------
(* What holds of the memory service *)

\* The invariant of the whole service: its threads, its graph and its results.
THEOREM MemoryInvariant == Spec => []MemoryInv
BY InitMemoryInv, StepKeepsMemoryInv, PTL DEF Spec

\* No pet is handed the private memory of another, whatever is queued, forgotten or imported.
THEOREM PrivacyKept == Spec => []PetsArePrivate
<1>1. MemoryInv => PetsArePrivate
  BY DEF MemoryInv, Private
<1> QED BY <1>1, MemoryInvariant, PTL

\* Between two tasks graph.json is the graph in memory, unless a save or load failed.
THEOREM GraphIsSaved == Spec => []FileIsGraph
<1>1. MemoryInv => FileIsGraph
  BY ThreadFacts DEF MemoryInv, ThreadSteps, WorkTyped, SavedOrDue, FileIsGraph, BetweenTasks
<1> QED BY <1>1, MemoryInvariant, PTL

\* A retrieval that was asked for after a Forget does not return what was forgotten.
THEOREM ForgottenIsGone == Spec => []ForgottenIsNotRetrieved
<1>1. MemoryInv => ForgottenIsNotRetrieved
  BY DEF MemoryInv, Forgetting
<1> QED BY <1>1, MemoryInvariant, PTL

(***************************************************************************)
(* Only a save writes graph.json, and it writes the graph in memory, which *)
(* has every entry of the file and none of the forgotten ones active.      *)
(***************************************************************************)
THEOREM ForgottenIsKeptForgotten == Spec => ForgottenStaysForgotten
<1>1. ASSUME MemoryInv, [Next]_vars, loaded = "read", file' # exportFile,
             NEW id \in DOMAIN file, ~file[id].active
      PROVE  id \in DOMAIN file' /\ ~file'[id].active
  <2>1. CASE UNCHANGED file
    BY <1>1, <2>1
  <2>2. CASE SaveSucceeds
    <3>1. worker # "none"
      <4>1. work.stage = "save"
        BY <2>2 DEF SaveSucceeds
      <4> QED BY <1>1, <4>1, ThreadFacts DEF MemoryInv, ThreadSteps, WorkTyped
    <3>2. file' = m_graph
      BY <1>1, <2>2 DEF SaveSucceeds
    <3> QED BY <1>1, <3>1, <3>2 DEF MemoryInv, FileIsOlder, Ages
  <2>3. CASE TaskStep /\ ~SaveSucceeds
    BY <2>1, <2>3
       DEF TaskStep, Retrieve, List, Store, Forget, Touch, Update, Consolidate, Export,
           Import, SaveFails, WriteVector, DropVectors, EndTask, OnlyGraph, diskVars
  <2>4. CASE UNCHANGED vars
    BY <2>1, <2>4 DEF vars, diskVars
  <2>5. CASE BeginTask \/ Sleep \/ ExitLoop \/ BeginShutdown \/ EndShutdown \/ Start \/ ProcessEnds
    BY <2>1, <2>5 DEF BeginTask, Sleep, ExitLoop, BeginShutdown, EndShutdown, Start,
                      ProcessEnds, Rest, diskVars
  <2>6. ASSUME NEW t \in Task, EnqueueTask(t) PROVE UNCHANGED file
    BY <2>6 DEF EnqueueTask, Rest, diskVars
  <2>7. ASSUME NEW pet \in Pet, TakeLatestReadyResult(pet) PROVE UNCHANGED file
    BY <2>7 DEF TakeLatestReadyResult, Rest, diskVars
  <2> QED
    BY <1>1, <2>1, <2>2, <2>3, <2>4, <2>5, <2>6, <2>7 DEF Next
<1>2. MemoryInv /\ [Next]_vars =>
        [loaded = "read" /\ file' # exportFile =>
           \A id \in DOMAIN file : ~file[id].active =>
             id \in DOMAIN file' /\ ~file'[id].active]_vars
  BY <1>1
<1> QED BY <1>2, MemoryInvariant, PTL DEF Spec, ForgottenStaysForgotten

LEMMA SameSteps ==
  /\ ThreadProofs!Init => Protocol!Init
  /\ [ThreadProofs!Next]_(ThreadProofs!vars) => [Protocol!Next]_(Protocol!vars)
<1>1. ThreadProofs!Init => Protocol!Init
  BY DEF ThreadProofs!Init, Protocol!Init
<1>2. ThreadProofs!Next => Protocol!Next
  BY DEF ThreadProofs!Next, Protocol!Next, ThreadProofs!Start, Protocol!Start,
         ThreadProofs!EnqueueTask, Protocol!EnqueueTask, ThreadProofs!Accepts,
         Protocol!Accepts, ThreadProofs!Wake, Protocol!Wake,
         ThreadProofs!TakeLatestReadyResult, Protocol!TakeLatestReadyResult,
         ThreadProofs!BeginShutdown, Protocol!BeginShutdown, ThreadProofs!EndShutdown,
         Protocol!EndShutdown, ThreadProofs!BeginTask, Protocol!BeginTask,
         ThreadProofs!WaitForTask, Protocol!WaitForTask, ThreadProofs!SpuriousWakeup,
         Protocol!SpuriousWakeup, ThreadProofs!ExitLoop, Protocol!ExitLoop,
         ThreadProofs!MayExit, Protocol!MayExit, ThreadProofs!EndTask, Protocol!EndTask,
         ThreadProofs!Published, Protocol!Published, ThreadProofs!MayPublish,
         Protocol!MayPublish, ThreadProofs!ProcessEnds, Protocol!ProcessEnds,
         ThreadProofs!threadVars, Protocol!threadVars, ThreadProofs!queueVars,
         Protocol!queueVars, ThreadProofs!mailboxVars, Protocol!mailboxVars
<1>3. ThreadProofs!vars = Protocol!vars /\ (ThreadProofs!vars)' = (Protocol!vars)'
  BY DEF ThreadProofs!vars, Protocol!vars, ThreadProofs!threadVars, Protocol!threadVars,
         ThreadProofs!queueVars, Protocol!queueVars, ThreadProofs!mailboxVars,
         Protocol!mailboxVars
<1> QED BY <1>1, <1>2, <1>3

(***************************************************************************)
(* The safety half of ImplementsThreads: whatever the worker does for a    *)
(* task, the two threads take the steps MemoryTaskQueue allows, so that    *)
(* its theorems hold of the memory service.                                *)
(***************************************************************************)
THEOREM ThreadsAreRefined == Spec => Protocol!Init /\ [][Protocol!Next]_(Protocol!vars)
<1>1. MemoryInv /\ [Next]_vars => [Protocol!Next]_(Protocol!vars)
  BY ThreadStep, SameSteps DEF MemoryInv
<1>2. Init => Protocol!Init
  BY InitThreads, SameSteps
<1> QED BY <1>1, <1>2, MemoryInvariant, PTL DEF Spec

-----------------------------------------------------------------------------
(***************************************************************************)
(* The vectors, as long as neither the file system nor SQLite fails and    *)
(* the process is not killed: then the worker's list of vectors still to   *)
(* write and to remove says how the stored ones differ from the graph.     *)
(***************************************************************************)
DropsAt(ops, i, id) == ops[i] = RemoveVec(id) \/ ops[i] = Clear
WillDrop(ops, id) == \E i \in 1..Len(ops) : DropsAt(ops, i, id)

\* There will be a vector: it is there and stays, or it is written and not dropped later.
WillHold(ops, id) ==
  \/ id \in DOMAIN vectors /\ ~WillDrop(ops, id)
  \/ \E i \in 1..Len(ops) :
       ops[i] = WriteVec(id) /\ \A j \in (i + 1)..Len(ops) : ~DropsAt(ops, j, id)

VectorsOf(g, ops) ==
  \A id \in DOMAIN vectors :
    WillDrop(ops, id) \/ (id \in DOMAIN g /\ (g[id].active => vectors[id] = g[id].content))

AllHeld(g, ops) == \A id \in DOMAIN g : g[id].active => WillHold(ops, id)

\* A worker that runs has opened the database; one that does not has left it consistent.
VectorInv ==
  /\ faults = 0 /\ crashes = 0 /\ unsaved = FALSE
  /\ work.stage \in {"none", "start", "end"} => work.ops = <<>>
  /\ worker # "none" => storeOpen /\ VectorsOf(m_graph, work.ops)
  /\ worker # "none" /\ m_vectorBackfillComplete => AllHeld(m_graph, work.ops)
  /\ worker = "none" => VectorsOf(file, <<>>)

LEMMA OpsDiffer ==
  /\ \A i, j : WriteVec(i) # RemoveVec(j) /\ WriteVec(i) # Clear /\ RemoveVec(i) # Clear
  /\ \A i, j : RemoveVec(i) = RemoveVec(j) => i = j
  /\ \A i, j : WriteVec(i) = WriteVec(j) => i = j
BY DEF WriteVec, RemoveVec, Clear

\* With nothing left to do the stored vectors are those of the graph.
LEMMA NothingLeft ==
  /\ \A id : ~WillDrop(<<>>, id)
  /\ \A id : WillHold(<<>>, id) <=> id \in DOMAIN vectors
  /\ \A g : VectorsOf(g, <<>>) <=>
       \A id \in DOMAIN vectors :
         id \in DOMAIN g /\ (g[id].active => vectors[id] = g[id].content)
<1>1. Len(<<>>) = 0 /\ 1..0 = {}
  OBVIOUS
<1>2. \A id : ~WillDrop(<<>>, id)
  BY <1>1 DEF WillDrop
<1>3. \A id : WillHold(<<>>, id) <=> id \in DOMAIN vectors
  BY <1>1, <1>2 DEF WillHold
<1> QED BY <1>2, <1>3 DEF VectorsOf

\* What the vectors and the list are after the operation of a task.
VectorEffect ==
  /\ UNCHANGED <<faults, storeOpen>>
  /\ work'.stage = "end" => work'.ops = <<>>
  /\ VectorsOf(m_graph, work.ops)'
  /\ m_vectorBackfillComplete' => AllHeld(m_graph, work.ops)'

AtStart ==
  /\ AtWork /\ work.ops = <<>> /\ MaxFaults = 0 /\ faults = 0
  /\ VectorsOf(m_graph, <<>>)
  /\ m_vectorBackfillComplete => AllHeld(m_graph, <<>>)

LEMMA UntouchedVectors ==
  ASSUME AtStart, UNCHANGED <<m_graph, vectors, m_vectorBackfillComplete, faults, storeOpen>>,
         work'.ops = <<>>
  PROVE  VectorEffect
BY DEF AtStart, VectorEffect, VectorsOf, AllHeld, WillHold, WillDrop

\* Entries that are forgotten, and their vectors removed.
LEMMA ForgottenVectors ==
  ASSUME AtStart, NEW ids \in SUBSET DOMAIN m_graph, m_graph' = SoftDelete(m_graph, ids),
         work'.ops \in {<<>>, Removes(ids)}, work'.stage = "end" => work'.ops = <<>>,
         \A id \in DOMAIN vectors' :
           id \in DOMAIN m_graph /\ (m_graph[id].active => vectors'[id] = m_graph[id].content),
         m_vectorBackfillComplete' =>
           \A id \in DOMAIN m_graph : m_graph[id].active => id \in DOMAIN vectors',
         UNCHANGED <<faults, storeOpen>>
  PROVE  VectorEffect
<1>1. /\ DOMAIN m_graph' = DOMAIN m_graph
      /\ \A id \in DOMAIN m_graph :
           /\ m_graph'[id].content = m_graph[id].content
           /\ m_graph'[id].active <=> m_graph[id].active /\ id \notin ids
  BY SoftDeleteFacts DEF AtStart, AtWork, DataTyped
<1>2. \A id : WillDrop(work'.ops, id) => id \in ids
  <2>1. CASE work'.ops = <<>>
    BY <2>1, NothingLeft
  <2>2. CASE work'.ops = Removes(ids)
    <3>1. ids \in SUBSET MemoryId /\ IsFiniteSet(ids)
      BY FS_Subset DEF AtStart, AtWork, DataTyped, IsGraph
    <3>2. \A i \in 1..Len(Removes(ids)) : \E id \in ids : Removes(ids)[i] = RemoveVec(id)
      BY <3>1, BatchFacts
    <3> QED BY <2>2, <3>2, OpsDiffer DEF WillDrop, DropsAt
  <2> QED BY <2>1, <2>2
<1>3. VectorsOf(m_graph, work.ops)'
  BY <1>1 DEF VectorsOf
<1>4. ASSUME m_vectorBackfillComplete', NEW id \in DOMAIN m_graph', m_graph'[id].active
      PROVE  WillHold(work.ops, id)'
  <2>1. id \notin ids /\ id \in DOMAIN vectors'
    BY <1>1, <1>4
  <2>2. ~WillDrop(work'.ops, id)
    BY <1>2, <2>1
  <2> QED BY <2>1, <2>2 DEF WillHold
<1> QED BY <1>3, <1>4 DEF VectorEffect, AllHeld

LEMMA RetrieveVectors == ASSUME AtStart, Retrieve PROVE VectorEffect
<1>1. PICK removed \in SUBSET OfAnyPet(Pet) :
        /\ m_graph' = SoftDelete(m_graph, removed)
        /\ work'.ops \in {<<>>, Removes(removed)}
        /\ work'.stage = "end" => work'.ops = <<>>
  <2>1. PICK found \in SUBSET VisibleTo(current.task.pet), removed \in SUBSET OfAnyPet(Pet) :
          /\ m_graph' = SoftDelete(m_graph, removed)
          /\ \/ Changed(Removes(removed), Entries(found))
             \/ removed = {} /\ Unchanged(Entries(found))
    BY DEF Retrieve
  <2> QED BY <2>1 DEF Changed, Unchanged
<1>2. removed \in SUBSET DOMAIN m_graph
  BY DEF OfAnyPet
<1>3. /\ \A id \in DOMAIN vectors :
           id \in DOMAIN m_graph /\ (m_graph[id].active => vectors[id] = m_graph[id].content)
      /\ m_vectorBackfillComplete =>
           \A id \in DOMAIN m_graph : m_graph[id].active => id \in DOMAIN vectors
  BY NothingLeft DEF AtStart, AllHeld
<1>4. /\ \A id \in DOMAIN vectors' :
           id \in DOMAIN m_graph /\ (m_graph[id].active => vectors'[id] = m_graph[id].content)
      /\ m_vectorBackfillComplete' =>
           \A id \in DOMAIN m_graph : m_graph[id].active => id \in DOMAIN vectors'
  <2>1. CASE UNCHANGED <<vectors, m_vectorBackfillComplete>>
    BY <1>3, <2>1
  <2>2. ASSUME NEW written \in SUBSET Missing, vectors' = WithVectors(written),
               m_vectorBackfillComplete' = BackfillDone(written)
        PROVE  /\ \A id \in DOMAIN vectors' :
                    /\ id \in DOMAIN m_graph
                    /\ m_graph[id].active => vectors'[id] = m_graph[id].content
               /\ m_vectorBackfillComplete' =>
                    \A id \in DOMAIN m_graph : m_graph[id].active => id \in DOMAIN vectors'
    BY <1>3, <2>2 DEF WithVectors, Missing, BackfillDone
  <2> QED BY <2>1, <2>2 DEF Retrieve, Backfill
<1> QED BY <1>1, <1>2, <1>4, ForgottenVectors DEF Retrieve, bounds

LEMMA ForgetVectors == ASSUME AtStart, Forget PROVE VectorEffect
<1>1. PICK ids \in ForgetTargets(current.task) :
        /\ m_graph' = SoftDelete(m_graph, ids)
        /\ work'.ops \in {<<>>, Removes(ids)}
        /\ work'.stage = "end" => work'.ops = <<>>
  <2>1. PICK ids \in ForgetTargets(current.task) :
          /\ m_graph' = SoftDelete(m_graph, ids)
          /\ IF ids = {} THEN Unchanged(None) ELSE Changed(Removes(ids), None)
    BY DEF Forget
  <2> QED BY <2>1 DEF Changed, Unchanged
<1>2. ids \in SUBSET DOMAIN m_graph
  BY DEF ForgetTargets, VisibleTo
<1>3. UNCHANGED <<vectors, m_vectorBackfillComplete, faults, storeOpen>>
  BY DEF Forget, OnlyGraph, diskVars, bounds
<1>4. /\ \A id \in DOMAIN vectors :
           id \in DOMAIN m_graph /\ (m_graph[id].active => vectors[id] = m_graph[id].content)
      /\ m_vectorBackfillComplete =>
           \A id \in DOMAIN m_graph : m_graph[id].active => id \in DOMAIN vectors
  BY NothingLeft DEF AtStart, AllHeld
<1> QED BY <1>1, <1>2, <1>3, <1>4, ForgottenVectors

\* One entry is new or has changed: its old vector goes, if it may have one, and a new one comes.
LEMMA ChangedVector ==
  ASSUME AtStart, NEW id, NEW ops,
         ops = RefreshVector(id) \/ (ops = <<WriteVec(id)>> /\ id \notin DOMAIN m_graph),
         work'.ops = ops, work'.stage = "save", DOMAIN m_graph' = DOMAIN m_graph \cup {id},
         \A x \in DOMAIN m_graph : x # id => m_graph'[x] = m_graph[x],
         UNCHANGED <<vectors, m_vectorBackfillComplete, faults, storeOpen>>
  PROVE  VectorEffect
<1>1. \A x \in DOMAIN vectors :
        x \in DOMAIN m_graph /\ (m_graph[x].active => vectors[x] = m_graph[x].content)
  BY NothingLeft DEF AtStart
<1>2. /\ Len(ops) \in {1, 2} /\ ops[Len(ops)] = WriteVec(id)
      /\ Len(ops) = 2 => ops[1] = RemoveVec(id)
      /\ Len(ops) = 1 => id \notin DOMAIN m_graph
  <2>1. CASE ops = <<RemoveVec(id), WriteVec(id)>>
    BY <2>1
  <2>2. CASE ops = <<WriteVec(id)>> /\ id \notin DOMAIN m_graph
    BY <2>2
  <2> QED BY <2>1, <2>2 DEF RefreshVector
<1> HIDE DEF RefreshVector
<1>3. \A x : x # id => ~WillDrop(ops, x)
  BY <1>2, OpsDiffer DEF WillDrop, DropsAt
<1>4. id \in DOMAIN m_graph => WillDrop(ops, id)
  BY <1>2 DEF WillDrop, DropsAt
<1>5. VectorsOf(m_graph, work.ops)'
  BY <1>1, <1>3, <1>4 DEF VectorsOf
<1>6. WillHold(work.ops, id)'
  <2>1. \A j \in (Len(ops) + 1)..Len(ops) : ~DropsAt(ops, j, id)
    BY <1>2
  <2> QED BY <1>2, <2>1 DEF WillHold
<1>7. ASSUME m_vectorBackfillComplete', NEW x \in DOMAIN m_graph', m_graph'[x].active
      PROVE  WillHold(work.ops, x)'
  <2>1. CASE x = id
    BY <1>6, <2>1
  <2>2. CASE x # id
    <3>1. x \in DOMAIN vectors /\ ~WillDrop(ops, x)
      BY <1>3, <1>7, <2>2, NothingLeft DEF AtStart, AllHeld
    <3> QED BY <3>1 DEF WillHold
  <2> QED BY <2>1, <2>2
<1> QED BY <1>5, <1>7 DEF VectorEffect, AllHeld

LEMMA StoreVectors == ASSUME AtStart, Store PROVE VectorEffect
<1> DEFINE id == StoreId(current)
<1>1. UNCHANGED <<vectors, m_vectorBackfillComplete, faults, storeOpen>>
  BY DEF Store, OnlyGraph, diskVars, bounds
<1>2. CASE Unchanged(None) /\ UNCHANGED m_graph
  BY <1>1, <1>2, UntouchedVectors DEF Unchanged
<1>3. CASE /\ CanAdd(m_graph, id)
           /\ m_graph' = AddEntry(m_graph, id, current.task.content, OwnerOf(current.task))
           /\ Changed(<<WriteVec(id)>>, None)
  <2>1. /\ id \notin DOMAIN m_graph /\ DOMAIN m_graph' = DOMAIN m_graph \cup {id}
        /\ \A x \in DOMAIN m_graph : x # id => m_graph'[x] = m_graph[x]
    BY <1>3 DEF CanAdd, AddEntry
  <2>2. work'.ops = <<WriteVec(id)>> /\ work'.stage = "save"
    BY <1>3 DEF Changed
  <2> HIDE DEF id
  <2> QED BY <1>1, <2>1, <2>2, ChangedVector
<1> QED BY <1>2, <1>3 DEF Store

LEMMA UpdateVectors == ASSUME AtStart, Update PROVE VectorEffect
<1> DEFINE id == current.task.id
<1>1. UNCHANGED <<vectors, m_vectorBackfillComplete, faults, storeOpen>>
  BY DEF Update, OnlyGraph, diskVars, bounds
<1>2. CASE Unchanged(None) /\ UNCHANGED m_graph
  BY <1>1, <1>2, UntouchedVectors DEF Unchanged
<1>3. CASE /\ id \in DOMAIN m_graph
           /\ m_graph' = [m_graph EXCEPT ![id] = Updated(current.task)]
           /\ Changed(RefreshVector(id), None)
  <2>1. m_graph \in [DOMAIN m_graph -> Entry]
    BY DEF AtStart, AtWork, DataTyped, IsGraph
  <2>2. /\ DOMAIN m_graph' = DOMAIN m_graph \cup {id}
        /\ \A x \in DOMAIN m_graph : x # id => m_graph'[x] = m_graph[x]
    BY <1>3, <2>1
  <2>3. work'.ops = RefreshVector(id) /\ work'.stage = "save"
    BY <1>3 DEF Changed
  <2> HIDE DEF id
  <2> QED BY <1>1, <2>2, <2>3, ChangedVector
<1> QED BY <1>2, <1>3 DEF Update

\* The new entries are written, and what they supersede is removed afterwards.
LEMMA ConsolidateVectors == ASSUME AtStart, Consolidate PROVE VectorEffect
<1> DEFINE all == AfterCandidates[Len(current.task.candidates)]
           w == Writes(all.new)
           r == Removes(all.superseded)
<1>1. /\ UNCHANGED <<vectors, m_vectorBackfillComplete, faults, storeOpen>>
      /\ IsGraph(m_graph)
  BY DEF Consolidate, OnlyGraph, diskVars, bounds, AtStart, AtWork, DataTyped
<1>2. FoldInv(all)
  BY ConsolidationFacts DEF AtStart, AtWork, Candidates, Consolidate, Doing, DataTyped
<1>3. /\ m_graph' = all.graph
      /\ IF all.changed THEN Changed(w \o r, None) ELSE Unchanged(None)
  BY DEF Consolidate
<1> HIDE DEF all
<1>4. /\ IsGraph(m_graph') /\ DOMAIN m_graph \subseteq DOMAIN m_graph'
      /\ \A id \in DOMAIN m_graph :
           /\ m_graph'[id].active => m_graph[id].active
           /\ m_graph'[id].content = m_graph[id].content
      /\ all.new = DOMAIN m_graph' \ DOMAIN m_graph
      /\ all.superseded \subseteq DOMAIN m_graph'
      /\ \A id \in all.superseded : ~m_graph'[id].active
      /\ ~all.changed => m_graph' = m_graph
  BY <1>2, <1>3 DEF FoldInv, Ages
<1>5. CASE ~all.changed
  BY <1>1, <1>3, <1>4, <1>5, UntouchedVectors DEF Unchanged
<1>6. CASE all.changed
  <2>1. work'.ops = w \o r /\ work'.stage = "save"
    BY <1>3, <1>6 DEF Changed
  <2>2. /\ all.new \in SUBSET MemoryId /\ IsFiniteSet(all.new)
        /\ all.superseded \in SUBSET MemoryId /\ IsFiniteSet(all.superseded)
    <3>1. DOMAIN m_graph' \subseteq MemoryId /\ IsFiniteSet(DOMAIN m_graph')
      BY <1>4 DEF IsGraph
    <3> QED BY <1>4, <3>1, FS_Subset
  <2>3. /\ w \in Seq(Op) /\ r \in Seq(Op)
        /\ \A i \in 1..Len(w) : \E id \in all.new : w[i] = WriteVec(id)
        /\ \A i \in 1..Len(r) : \E id \in all.superseded : r[i] = RemoveVec(id)
        /\ \A id \in all.new : \E i \in 1..Len(w) : w[i] = WriteVec(id)
    BY <2>2, BatchFacts
  <2> DEFINE ops == w \o r
  <2> HIDE DEF w, r
  <2>4. /\ Len(w) \in Nat /\ Len(r) \in Nat /\ Len(ops) = Len(w) + Len(r)
        /\ \A i \in 1..Len(ops) : ops[i] = IF i <= Len(w) THEN w[i] ELSE r[i - Len(w)]
    BY <2>3
  <2> HIDE DEF ops
  <2>5. ASSUME NEW i \in 1..Len(ops), NEW id, DropsAt(ops, i, id)
        PROVE  id \in all.superseded
    <3>1. CASE i <= Len(w)
      <4>1. i \in 1..Len(w) /\ ops[i] = w[i]
        BY <2>4, <3>1
      <4> QED BY <2>3, <2>5, <4>1, OpsDiffer DEF DropsAt
    <3>2. CASE ~(i <= Len(w))
      <4>1. i - Len(w) \in 1..Len(r) /\ ops[i] = r[i - Len(w)]
        BY <2>4, <3>2
      <4>2. PICK x \in all.superseded : r[i - Len(w)] = RemoveVec(x)
        BY <2>3, <4>1
      <4> QED BY <2>5, <4>1, <4>2, OpsDiffer DEF DropsAt
    <3> QED BY <3>1, <3>2
  <2>6. \A x \in DOMAIN vectors :
          x \in DOMAIN m_graph /\ (m_graph[x].active => vectors[x] = m_graph[x].content)
    BY NothingLeft DEF AtStart
  <2>7. VectorsOf(m_graph, work.ops)'
    BY <1>1, <1>4, <2>6 DEF VectorsOf
  <2>8. ASSUME m_vectorBackfillComplete', NEW id \in DOMAIN m_graph', m_graph'[id].active
        PROVE  WillHold(work.ops, id)'
    <3>1. id \notin all.superseded
      BY <1>4, <2>8
    <3>2. CASE id \in DOMAIN m_graph
      <4>1. id \in DOMAIN vectors
        BY <1>1, <1>4, <2>8, <3>2, NothingLeft DEF AtStart, AllHeld
      <4>2. ~WillDrop(ops, id)
        BY <2>5, <3>1 DEF WillDrop
      <4> QED BY <1>1, <2>1, <4>1, <4>2 DEF WillHold, ops
    <3>3. CASE id \notin DOMAIN m_graph
      <4>1. PICK i \in 1..Len(w) : w[i] = WriteVec(id)
        BY <1>4, <2>3, <3>3
      <4>2. i \in 1..Len(ops) /\ ops[i] = WriteVec(id)
        BY <2>4, <4>1
      <4>3. \A j \in (i + 1)..Len(ops) : ~DropsAt(ops, j, id)
        <5>1. \A j \in (i + 1)..Len(ops) : j \in 1..Len(ops)
          BY <2>4, <4>1
        <5> QED BY <2>5, <3>1, <5>1
      <4> QED BY <2>1, <4>2, <4>3 DEF WillHold, ops
    <3> QED BY <3>2, <3>3
  <2> QED BY <1>1, <2>1, <2>7, <2>8 DEF VectorEffect, AllHeld
<1> QED BY <1>5, <1>6

LEMMA OperationVectors ==
  ASSUME AtStart, Operation
  PROVE  VectorEffect
<1>1. CASE List \/ Touch \/ Import
  <2>1. UNCHANGED <<m_graph, vectors, m_vectorBackfillComplete, faults, storeOpen>>
    BY <1>1 DEF List, Touch, Import, OnlyGraph, diskVars, bounds
  <2>2. work'.ops = <<>>
    BY <1>1 DEF List, Touch, Import, Changed, Unchanged
  <2> QED BY <2>1, <2>2, UntouchedVectors
<1>2. CASE Export
  <2>1. UNCHANGED <<m_graph, vectors, m_vectorBackfillComplete, faults, storeOpen>>
    BY <1>2 DEF Export, NoFault, MayFault, AtStart
  <2>2. work'.ops = <<>>
    BY <1>2 DEF Export, Unchanged
  <2> QED BY <2>1, <2>2, UntouchedVectors
<1> QED
  BY <1>1, <1>2, RetrieveVectors, ForgetVectors, StoreVectors, UpdateVectors,
     ConsolidateVectors DEF Operation

LEMMA OperationKeepsVectors ==
  ASSUME MaxFaults = 0, MaxCrashes = 0, MemoryInv, VectorInv, Operation
  PROVE  VectorInv'
<1>1. work.stage = "start"
  BY DEF Operation, Retrieve, List, Store, Forget, Touch, Update, Consolidate, Export,
         Import, Doing
<1>2. /\ current \in [requestId : Nat \ {0}, task : Task] /\ worker = "busy"
      /\ work.ops = <<>>
  BY <1>1, ThreadFacts DEF MemoryInv, ThreadSteps, WorkTyped, VectorInv
<1>3. AtStart
  BY <1>1, <1>2 DEF AtStart, AtWork, MemoryInv, VectorInv
<1>4. Effect /\ VectorEffect
  BY <1>3, OperationEffect, OperationVectors DEF AtStart
<1>5. worker' = "busy" /\ UNCHANGED <<crashes, unsaved, faults, storeOpen>>
  BY <1>2, <1>4 DEF Effect, VectorEffect, threadVars
<1> QED
  BY <1>2, <1>4, <1>5 DEF VectorInv, VectorEffect, Effect

LEMMA SaveKeepsVectors ==
  ASSUME MemoryInv, VectorInv, SaveSucceeds
  PROVE  VectorInv'
<1>1. /\ worker = "busy" /\ worker' = "busy" /\ work.stage = "save"
      /\ UNCHANGED <<vectors, faults, crashes, storeOpen>> /\ unsaved' = FALSE
  BY LaterStep DEF SaveSucceeds, bounds
<1>2. work \in Work /\ work.ops \in Seq(Op)
  BY DEF MemoryInv, WorkTyped, Work
<1>3. CASE ~Importing
  <2>1. work' = AfterOps(work.ops) /\ UNCHANGED <<m_graph, m_vectorBackfillComplete>>
    BY <1>3 DEF SaveSucceeds
  <2>2. work'.ops = work.ops /\ work'.stage \in {"vectors", "end"}
        /\ (work'.stage = "end" <=> work.ops = <<>>)
    BY <1>2, <2>1, AfterOpsFacts
  <2> QED
    BY <1>1, <2>1, <2>2 DEF VectorInv, VectorsOf, AllHeld, WillHold
<1>4. CASE Importing
  <2>1. /\ work' = AfterOps(ImportOps) /\ m_vectorBackfillComplete' = FALSE
        /\ exportFile # None
    BY <1>1, <1>4 DEF SaveSucceeds, MemoryInv, WorkTyped
  <2> DEFINE w == Writes({id \in DOMAIN exportFile : exportFile[id].active})
  <2>2. ImportOps = <<Clear>> \o w
    BY <1>1 DEF ImportOps, VectorInv
  <2>3. w \in Seq(Op)
    <3> DEFINE ids == {id \in DOMAIN exportFile : exportFile[id].active}
    <3>1. ids \in SUBSET MemoryId /\ IsFiniteSet(ids)
      BY <2>1, FS_Subset DEF IsGraph, MemoryInv, DataTyped
    <3> HIDE DEF ids
    <3>2. Writes(ids) \in Seq(Op)
      BY <3>1, BatchFacts
    <3> QED BY <3>2 DEF ids
  <2> HIDE DEF w
  <2>4. Clear \in Op
    BY DEF Op
  <2>5. /\ ImportOps \in Seq(Op) /\ ImportOps # <<>>
        /\ 1 \in 1..Len(ImportOps) /\ ImportOps[1] = Clear
    <3> DEFINE c == Clear
    <3>1. c \in Op /\ ImportOps = <<c>> \o w
      BY <2>2, <2>4
    <3> HIDE DEF c
    <3>2. /\ ImportOps \in Seq(Op) /\ ImportOps # <<>>
          /\ 1 \in 1..Len(ImportOps) /\ ImportOps[1] = c
      BY <2>3, <3>1
    <3> QED BY <3>2 DEF c
  <2>6. work'.ops = ImportOps /\ work'.stage = "vectors"
    BY <1>2, <2>1, <2>5, AfterOpsFacts
  <2>7. VectorsOf(m_graph, work.ops)'
    BY <2>5, <2>6 DEF VectorsOf, WillDrop, DropsAt
  <2> QED BY <1>1, <2>1, <2>6, <2>7 DEF VectorInv
<1> QED BY <1>3, <1>4

\* Of a list only the first is done: what the others will do stays.
LEMMA TailDrops ==
  ASSUME NEW ops \in Seq(Op), ops # <<>>, NEW id
  PROVE  /\ WillDrop(ops, id) <=> DropsAt(ops, 1, id) \/ WillDrop(Tail(ops), id)
         /\ (\E i \in 1..Len(ops) : i # 1 /\ ops[i] = WriteVec(id)
               /\ \A j \in (i + 1)..Len(ops) : ~DropsAt(ops, j, id)) =>
            (\E i \in 1..Len(Tail(ops)) : Tail(ops)[i] = WriteVec(id)
               /\ \A j \in (i + 1)..Len(Tail(ops)) : ~DropsAt(Tail(ops), j, id))
<1> DEFINE tail == Tail(ops)
<1>1. /\ Len(tail) = Len(ops) - 1 /\ Len(ops) \in Nat \ {0}
      /\ \A i \in 1..Len(tail) : tail[i] = ops[i + 1] /\ i + 1 \in 1..Len(ops)
  BY TailFacts
<1> HIDE DEF tail
<1>2. \A i \in 1..Len(ops) : i = 1 \/ (i - 1 \in 1..Len(tail) /\ tail[i - 1] = ops[i])
  <2> TAKE i \in 1..Len(ops)
  <2>1. CASE i # 1
    <3>1. i - 1 \in 1..Len(tail) /\ (i - 1) + 1 = i
      BY <1>1, <2>1
    <3> QED BY <1>1, <3>1
  <2> QED BY <2>1
<1>3. WillDrop(ops, id) <=> DropsAt(ops, 1, id) \/ WillDrop(tail, id)
  <2>1. ASSUME NEW i \in 1..Len(tail), DropsAt(tail, i, id) PROVE WillDrop(ops, id)
    BY <1>1, <2>1 DEF WillDrop, DropsAt
  <2>2. ASSUME NEW i \in 1..Len(ops), DropsAt(ops, i, id), i # 1 PROVE WillDrop(tail, id)
    BY <1>2, <2>2 DEF WillDrop, DropsAt
  <2>3. DropsAt(ops, 1, id) => WillDrop(ops, id)
    BY <1>1 DEF WillDrop
  <2> QED BY <2>1, <2>2, <2>3 DEF WillDrop
<1>4. ASSUME NEW i \in 1..Len(ops), i # 1, ops[i] = WriteVec(id),
             \A j \in (i + 1)..Len(ops) : ~DropsAt(ops, j, id)
      PROVE  \E k \in 1..Len(tail) : tail[k] = WriteVec(id)
               /\ \A j \in (k + 1)..Len(tail) : ~DropsAt(tail, j, id)
  <2>1. i - 1 \in 1..Len(tail) /\ tail[i - 1] = WriteVec(id)
    BY <1>2, <1>4
  <2>2. ASSUME NEW j \in (i - 1 + 1)..Len(tail) PROVE ~DropsAt(tail, j, id)
    <3>1. j \in 1..Len(tail) /\ j + 1 \in (i + 1)..Len(ops) /\ tail[j] = ops[j + 1]
      BY <1>1
    <3> QED BY <1>4, <3>1 DEF DropsAt
  <2> QED BY <2>1, <2>2
<1> QED BY <1>3, <1>4 DEF tail

LEMMA WriteKeepsVectors ==
  ASSUME MemoryInv, VectorInv, WriteVector
  PROVE  VectorInv'
<1> DEFINE ops == work.ops
           key == ops[1][2]
<1>1. /\ worker = "busy" /\ worker' = "busy" /\ work.stage = "vectors" /\ ops # <<>>
      /\ UNCHANGED <<m_graph, file, faults, crashes, storeOpen, unsaved>>
      /\ ops[1][1] = "write" /\ work' = AfterOps(Tail(ops))
  BY LaterStep DEF WriteVector, bounds, observed
<1>2. work \in Work /\ ops \in Seq(Op) /\ WritesOnly(ops, m_graph)
  BY DEF MemoryInv, WorkTyped, Work
<1>3. /\ Tail(ops) \in Seq(Op) /\ ops[1] \in Op /\ 1 \in 1..Len(ops)
  BY <1>1, <1>2, TailFacts
<1>4. /\ work'.ops = Tail(ops) /\ work'.stage \in {"vectors", "end"}
      /\ work'.stage = "end" <=> Tail(ops) = <<>>
  BY <1>1, <1>2, <1>3, AfterOpsFacts
<1>5. ops[1] = WriteVec(key) /\ key \in DOMAIN m_graph
  BY <1>1, <1>2, <1>3 DEF Op, WriteVec, WritesOnly, Clear
<1>6. \A id : WillDrop(ops, id) <=> WillDrop(Tail(ops), id)
  BY <1>1, <1>2, <1>5, TailDrops, OpsDiffer DEF DropsAt
<1>7. CASE UNCHANGED vectors /\ m_vectorBackfillComplete' = AfterFailedWrite
  BY <1>1, <1>4, <1>6, <1>7 DEF VectorInv, VectorsOf, AfterFailedWrite
<1>8. CASE vectors' = WithVectors({key}) /\ UNCHANGED m_vectorBackfillComplete
  <2>1. /\ DOMAIN vectors' = DOMAIN vectors \cup {key}
        /\ vectors'[key] = m_graph[key].content
        /\ \A x \in DOMAIN vectors : x # key => vectors'[x] = vectors[x]
    BY <1>8 DEF WithVectors
  <2>2. VectorsOf(m_graph, work.ops)'
    BY <1>1, <1>4, <1>5, <1>6, <2>1 DEF VectorInv, VectorsOf
  <2>3. ASSUME m_vectorBackfillComplete', NEW id \in DOMAIN m_graph', m_graph'[id].active
        PROVE  WillHold(work.ops, id)'
    <3>1. WillHold(ops, id)
      BY <1>1, <1>8, <2>3 DEF VectorInv, AllHeld
    <3>2. CASE id \in DOMAIN vectors /\ ~WillDrop(ops, id)
      BY <1>4, <1>6, <2>1, <3>2 DEF WillHold
    <3>3. ASSUME NEW i \in 1..Len(ops), ops[i] = WriteVec(id),
                 \A j \in (i + 1)..Len(ops) : ~DropsAt(ops, j, id)
          PROVE  WillHold(work.ops, id)'
      <4>1. CASE i = 1
        <5>1. id = key
          BY <1>5, <3>3, <4>1, OpsDiffer
        <5>2. ~WillDrop(ops, id)
          <6>1. ~DropsAt(ops, 1, id)
            BY <1>5, OpsDiffer DEF DropsAt
          <6>2. Len(ops) \in Nat
            BY <1>2
          <6>3. \A j \in 1..Len(ops) : j = 1 \/ j \in 2..Len(ops)
            BY <6>2
          <6> QED BY <3>3, <4>1, <6>1, <6>3 DEF WillDrop
        <5> QED BY <1>4, <1>6, <2>1, <5>1, <5>2 DEF WillHold
      <4>2. CASE i # 1
        <5>1. \E k \in 1..Len(Tail(ops)) : Tail(ops)[k] = WriteVec(id)
                /\ \A j \in (k + 1)..Len(Tail(ops)) : ~DropsAt(Tail(ops), j, id)
          BY <1>1, <1>2, <3>3, <4>2, TailDrops
        <5> QED BY <1>4, <5>1 DEF WillHold
      <4> QED BY <4>1, <4>2
    <3> QED BY <3>1, <3>2, <3>3 DEF WillHold
  <2> QED BY <1>1, <1>4, <2>2, <2>3 DEF VectorInv, AllHeld
<1> QED BY <1>7, <1>8 DEF WriteVector

LEMMA DropKeepsVectors ==
  ASSUME MaxFaults = 0, MemoryInv, VectorInv, DropVectors
  PROVE  VectorInv'
<1> DEFINE ops == work.ops
<1>1. /\ worker = "busy" /\ worker' = "busy" /\ work.stage = "vectors" /\ ops # <<>>
      /\ UNCHANGED <<m_graph, file, crashes, storeOpen, unsaved, m_vectorBackfillComplete>>
      /\ ops[1][1] # "write" /\ work' = AfterOps(Tail(ops)) /\ faults' = faults
      /\ vectors' = [x \in DOMAIN vectors \ Dropped |-> vectors[x]]
  BY LaterStep DEF DropVectors, observed, VectorInv, MayFault, NoFault
<1>2. work \in Work /\ ops \in Seq(Op)
  BY DEF MemoryInv, WorkTyped, Work
<1>3. Tail(ops) \in Seq(Op) /\ ops[1] \in Op
  BY <1>1, <1>2, TailFacts
<1>4. /\ work'.ops = Tail(ops) /\ work'.stage \in {"vectors", "end"}
      /\ work'.stage = "end" <=> Tail(ops) = <<>>
  BY <1>1, <1>2, <1>3, AfterOpsFacts
<1>5. \A id \in DOMAIN vectors : id \in Dropped <=> DropsAt(ops, 1, id)
  <2>1. ops[1] = Clear \/ ops[1] = RemoveVec(ops[1][2])
    BY <1>1, <1>3 DEF Op, RemoveVec
  <2> QED BY <2>1, OpsDiffer DEF DropsAt, Dropped
<1>6. VectorsOf(m_graph, work.ops)'
  BY <1>1, <1>2, <1>4, <1>5, TailDrops DEF VectorInv, VectorsOf
<1>7. ASSUME m_vectorBackfillComplete', NEW id \in DOMAIN m_graph', m_graph'[id].active
      PROVE  WillHold(work.ops, id)'
  <2>1. WillHold(ops, id)
    BY <1>1, <1>7 DEF VectorInv, AllHeld
  <2>2. CASE id \in DOMAIN vectors /\ ~WillDrop(ops, id)
    BY <1>1, <1>2, <1>4, <1>5, <2>2, TailDrops DEF WillHold
  <2>3. ASSUME NEW i \in 1..Len(ops), ops[i] = WriteVec(id),
               \A j \in (i + 1)..Len(ops) : ~DropsAt(ops, j, id)
        PROVE  WillHold(work.ops, id)'
    <3>1. i # 1
      BY <1>1, <2>3 DEF WriteVec
    <3>2. \E k \in 1..Len(Tail(ops)) : Tail(ops)[k] = WriteVec(id)
            /\ \A j \in (k + 1)..Len(Tail(ops)) : ~DropsAt(Tail(ops), j, id)
      BY <1>1, <1>2, <2>3, <3>1, TailDrops
    <3> QED BY <1>4, <3>2 DEF WillHold
  <2> QED BY <2>1, <2>2, <2>3 DEF WillHold
<1> QED BY <1>1, <1>4, <1>6, <1>7 DEF VectorInv, AllHeld

LEMMA InitVectorInv == Init => VectorInv
<1> SUFFICES ASSUME Init PROVE VectorInv
  OBVIOUS
<1>1. /\ worker = "none" /\ work = Idle /\ vectors = NoGraph
      /\ faults = 0 /\ crashes = 0 /\ unsaved = FALSE
  BY DEF Init, Threads!Init
<1>2. work.ops = <<>>
  BY <1>1 DEF Idle
<1>3. VectorsOf(file, <<>>)
  BY <1>1, EmptyGraphFacts DEF VectorsOf
<1> QED BY <1>1, <1>2, <1>3 DEF VectorInv

LEMMA StepKeepsVectorInv ==
  ASSUME MaxFaults = 0, MaxCrashes = 0, MemoryInv, VectorInv, [Next]_vars
  PROVE  VectorInv'
<1>1. ASSUME UNCHANGED Rest, worker' = "none" <=> worker = "none" PROVE VectorInv'
  BY <1>1 DEF Rest, diskVars, observed, bounds, VectorInv, VectorsOf, AllHeld, WillHold
<1>2. CASE UNCHANGED vars
  BY <1>1, <1>2 DEF vars, threadVars, Rest
<1>3. CASE BeginTask
  <2>1. /\ worker = "looking" /\ worker' = "busy" /\ current = None
        /\ work' = [Idle EXCEPT !.stage = "start"]
        /\ UNCHANGED <<m_graph, m_vectorBackfillComplete, storeOpen, vectors, file, unsaved,
                       faults, crashes>>
    BY <1>3, ThreadFacts DEF BeginTask, Threads!BeginTask, diskVars, observed, bounds,
                             MemoryInv, ThreadSteps
  <2>2. work.ops = <<>> /\ work'.ops = <<>>
    BY <2>1 DEF MemoryInv, WorkTyped, Idle
  <2> QED BY <2>1, <2>2 DEF VectorInv, VectorsOf, AllHeld, WillHold
<1>4. CASE TaskStep
  <2>1. CASE Operation
    BY <2>1, OperationKeepsVectors
  <2>2. CASE SaveSucceeds
    BY <2>2, SaveKeepsVectors
  <2>3. CASE SaveFails
    BY <2>3 DEF SaveFails, MayFault, VectorInv
  <2>4. CASE WriteVector
    BY <2>4, WriteKeepsVectors
  <2>5. CASE DropVectors
    BY <2>5, DropKeepsVectors
  <2>6. CASE EndTask
    <3>1. /\ worker = "busy" /\ worker' = "looking" /\ work.stage = "end" /\ work' = Idle
          /\ UNCHANGED <<m_graph, m_vectorBackfillComplete, storeOpen, vectors, file,
                         unsaved, faults, crashes>>
      BY <2>6 DEF EndTask, Threads!EndTask, diskVars, observed, bounds
    <3>2. work.ops = <<>> /\ work'.ops = <<>>
      BY <3>1 DEF VectorInv, Idle
    <3> QED BY <3>1, <3>2 DEF VectorInv, VectorsOf, AllHeld, WillHold
  <2> QED BY <1>4, <2>1, <2>2, <2>3, <2>4, <2>5, <2>6 DEF TaskStep, Operation
<1>5. CASE Sleep \/ ExitLoop
  BY <1>1, <1>5 DEF Sleep, ExitLoop, Threads!WaitForTask, Threads!SpuriousWakeup,
                    Threads!ExitLoop
<1>6. ASSUME NEW t \in Task, EnqueueTask(t) PROVE VectorInv'
  BY <1>1, <1>6 DEF EnqueueTask, Threads!EnqueueTask, Threads!Wake
<1>7. ASSUME NEW pet \in Pet, TakeLatestReadyResult(pet) PROVE VectorInv'
  BY <1>1, <1>7 DEF TakeLatestReadyResult, Threads!TakeLatestReadyResult,
                    Threads!threadVars
<1>8. CASE BeginShutdown
  BY <1>1, <1>8 DEF BeginShutdown, Threads!BeginShutdown, Threads!Wake
<1>9. CASE EndShutdown
  <2>1. /\ worker = "exited" /\ worker' = "none" /\ UNCHANGED Rest
    BY <1>9 DEF EndShutdown, Threads!EndShutdown
  <2>2. work.stage = "none" /\ work.ops = <<>>
    BY <2>1, ThreadFacts DEF MemoryInv, ThreadSteps, WorkTyped
  <2>3. file = m_graph
    BY <2>1, <2>2 DEF MemoryInv, SavedOrDue, VectorInv
  <2> QED
    BY <2>1, <2>2, <2>3 DEF Rest, diskVars, observed, bounds, VectorInv, VectorsOf
<1>10. CASE Start
  <2>1. /\ worker = "none" /\ worker' = "looking" /\ m_vectorBackfillComplete' = FALSE
        /\ UNCHANGED <<work, file, vectors, crashes>> /\ storeOpen' = TRUE
        /\ m_graph' = file /\ unsaved' = FALSE /\ faults' = faults
    BY <1>10 DEF Start, Threads!Start, LoadSucceeds, LoadFails, MayFault, NoFault, VectorInv
  <2>2. work.ops = <<>>
    BY <2>1, ThreadFacts DEF MemoryInv, ThreadSteps, WorkTyped
  <2> QED BY <2>1, <2>2 DEF VectorInv, VectorsOf
<1>11. CASE ProcessEnds
  <2>1. /\ worker = "none" /\ worker' = "none" /\ crashes' = crashes /\ work' = Idle
        /\ unsaved' = FALSE /\ UNCHANGED <<file, vectors, faults>>
    BY <1>11 DEF ProcessEnds, Threads!ProcessEnds, diskVars, VectorInv
  <2>2. work'.ops = <<>>
    BY <2>1 DEF Idle
  <2> QED BY <2>1, <2>2 DEF VectorInv, VectorsOf
<1> QED
  BY <1>2, <1>3, <1>4, <1>5, <1>6, <1>7, <1>8, <1>9, <1>10, <1>11 DEF Next

(***************************************************************************)
(* While no write fails and the process is not killed, every vector is the *)
(* one of its entry's present content, and none is missing that the        *)
(* service believes to be there.  (A failed removal leaves an old vector,  *)
(* as the code accepts: it only logs it.)                                  *)
(***************************************************************************)
THEOREM VectorsFollowGraph ==
  ASSUME MaxFaults = 0, MaxCrashes = 0
  PROVE  Spec => []VectorsMatchGraph
<1>1. Init => MemoryInv /\ VectorInv
  BY InitMemoryInv, InitVectorInv
<1>2. (MemoryInv /\ VectorInv) /\ [Next]_vars => (MemoryInv /\ VectorInv)'
  BY StepKeepsMemoryInv, StepKeepsVectorInv
<1>3. MemoryInv /\ VectorInv => VectorsMatchGraph
  <2> SUFFICES ASSUME MemoryInv, VectorInv PROVE VectorsMatchGraph
    OBVIOUS
  <2>1. TypeOK
    <3>1. Graphs(m_graph) /\ Graphs(file) /\ (exportFile = None \/ Graphs(exportFile))
      BY DEF MemoryInv, DataTyped, IsGraph, Graphs
    <3>2. \A id \in DOMAIN vectors : vectors[id] \in Content
      BY DEF MemoryInv, DataTyped
    <3>3. /\ work.stage \in {"none", "start", "save", "vectors", "end"}
          /\ (work.stage = "none") <=> (current = None)
      BY DEF MemoryInv, WorkTyped, Work
    <3>4. \A pet \in Pet : m_mailbox[pet] # None =>
            \A e \in m_mailbox[pet].value : e.entry \in Entry
      BY DEF MemoryInv, ThreadSteps, MailboxTyped, Found, Memory
    <3> QED BY <3>1, <3>2, <3>3, <3>4 DEF TypeOK
  <2>2. BetweenTasks => worker # "none" /\ work.ops = <<>>
    BY ThreadFacts DEF BetweenTasks, MemoryInv, ThreadSteps, WorkTyped
  <2>3. VectorsAreCurrent /\ BackfillIsHonest
    BY <2>2, NothingLeft DEF VectorsAreCurrent, BackfillIsHonest, VectorInv, AllHeld, Missing
  <2> QED BY <2>1, <2>3 DEF VectorsMatchGraph
<1> QED BY <1>1, <1>2, <1>3, PTL DEF Spec
=============================================================================
