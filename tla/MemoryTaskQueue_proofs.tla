----------------------- MODULE MemoryTaskQueue_proofs -----------------------
(***************************************************************************)
(* Proofs about the two threads of the memory service, for any capacity,   *)
(* any tasks and any partitions of the mailbox.                            *)
(***************************************************************************)
EXTENDS MemoryTaskQueue, TLAPS

USE TaskQueueAssumption, NoneAssumption

\* The queue of a service that was just started holds no request.
LEMMA EmptyQueue == <<>> \in Seq(Request) /\ Len(<<>>) = 0
  OBVIOUS

\* TaskQueueInv is inductive: at the start nothing runs and nothing is queued.
LEMMA InitInv == Init => TaskQueueInv
  <1> SUFFICES ASSUME Init PROVE TaskQueueInv  OBVIOUS
  <1>1. TypeOK  BY EmptyQueue DEF Init, TypeOK
  <1>2. ThreadsAgree /\ NoLostWakeup /\ DrainedWhenStopped
    BY DEF Init, ThreadsAgree, NoLostWakeup, DrainedWhenStopped
  <1>3. NothingDropped /\ QueueBounded
    BY DEF Init, NothingDropped, QueueBounded
  <1>4. ResultsAreOlder  BY DEF Init, ResultsAreOlder
  <1> QED  BY <1>1, <1>2, <1>3, <1>4 DEF TaskQueueInv

\* Start clears a queue that is empty already, and the request ids go on.
LEMMA StartKeepsInv == TaskQueueInv /\ Start => TaskQueueInv'
  <1> SUFFICES ASSUME TaskQueueInv, Start PROVE TaskQueueInv'  OBVIOUS
  <1> USE DEF TaskQueueInv, Start, mailboxVars
  <1>1. m_taskQueue = <<>> /\ current = None /\ ~joining
    BY DEF DrainedWhenStopped, ThreadsAgree
  <1>2. TypeOK'
    <2>1. m_taskQueue' \in Seq(Request)  BY EmptyQueue
    <2>2. starts' \in Nat  BY DEF TypeOK
    <2> QED  BY <2>1, <2>2 DEF TypeOK
  <1>3. ThreadsAgree' /\ NoLostWakeup' /\ DrainedWhenStopped'
    BY <1>1 DEF ThreadsAgree, NoLostWakeup, DrainedWhenStopped
  <1>4. NothingDropped' /\ QueueBounded'
    BY <1>1 DEF NothingDropped, QueueBounded
  <1>5. ResultsAreOlder'  BY DEF ResultsAreOlder
  <1> QED  BY <1>2, <1>3, <1>4, <1>5

\* EnqueueTask appends the next id and wakes a worker that waits.
LEMMA EnqueueKeepsInv ==
  ASSUME TaskQueueInv, NEW t \in Task, EnqueueTask(t)
  PROVE  TaskQueueInv'
  <1> USE DEF TaskQueueInv, EnqueueTask, Accepts, Wake, mailboxVars
  <1> DEFINE r == [requestId |-> m_nextRequestId, task |-> t]
  <1>1. /\ m_nextRequestId \in Nat \ {0} /\ m_taskQueue \in Seq(Request)
        /\ lastTaken \in Nat
    BY DEF TypeOK, NothingDropped
  <1>2. r \in Request  BY <1>1 DEF Request
  <1>3. /\ m_taskQueue' = Append(m_taskQueue, r)
        /\ m_taskQueue' \in Seq(Request)
        /\ Len(m_taskQueue') = Len(m_taskQueue) + 1
        /\ \A i \in 1..Len(m_taskQueue) : m_taskQueue'[i] = m_taskQueue[i]
        /\ m_taskQueue'[Len(m_taskQueue) + 1] = r
    BY <1>1, <1>2
  <1>4. TypeOK'  BY <1>1, <1>3 DEF TypeOK
  <1>5. ThreadsAgree' /\ NoLostWakeup' /\ DrainedWhenStopped'
    BY DEF TypeOK, ThreadsAgree, NoLostWakeup, DrainedWhenStopped
  <1>6. NothingDropped'
    <2>1. Len(m_taskQueue) \in Nat  BY <1>1
    <2>2. m_nextRequestId = lastTaken + Len(m_taskQueue) + 1  BY DEF NothingDropped
    <2>3. ASSUME NEW i \in 1..Len(m_taskQueue')
          PROVE  m_taskQueue'[i].requestId = lastTaken' + i
      <3>1. CASE i \in 1..Len(m_taskQueue)
        BY <3>1, <1>3 DEF NothingDropped
      <3>2. CASE i = Len(m_taskQueue) + 1
        BY <3>2, <2>1, <2>2, <1>1, <1>3
      <3> QED  BY <3>1, <3>2, <2>1, <1>3
    <2> QED  BY <2>1, <2>2, <2>3, <1>1, <1>3 DEF NothingDropped
  <1>7. QueueBounded'  BY <1>1, <1>3 DEF QueueBounded
  <1>8. ResultsAreOlder'  BY DEF ResultsAreOlder
  <1> QED  BY <1>4, <1>5, <1>6, <1>7, <1>8

\* TakeLatestReadyResult empties a place of the mailbox: only the reader gets newer.
LEMMA TakeKeepsInv ==
  ASSUME TaskQueueInv, NEW k \in Key, TakeLatestReadyResult(k)
  PROVE  TaskQueueInv'
  <1> USE DEF TaskQueueInv, TakeLatestReadyResult, threadVars, queueVars
  <1>1. m_mailbox[k] \in Result  BY DEF TypeOK
  <1>2. m_mailbox[k].requestId \in Nat  BY <1>1 DEF Result
  <1>3. TypeOK'  BY <1>2 DEF TypeOK
  <1>4. ThreadsAgree' /\ NoLostWakeup' /\ DrainedWhenStopped' /\ NothingDropped'
        /\ QueueBounded'
    BY DEF ThreadsAgree, NoLostWakeup, DrainedWhenStopped, NothingDropped, QueueBounded
  <1>5. ResultsAreOlder'
    BY <1>2 DEF ResultsAreOlder, TypeOK
  <1> QED  BY <1>3, <1>4, <1>5

\* Shutdown wakes the worker, and ends only after it.
LEMMA ShutdownKeepsInv ==
  TaskQueueInv /\ (BeginShutdown \/ EndShutdown) => TaskQueueInv'
  <1> SUFFICES ASSUME TaskQueueInv, BeginShutdown \/ EndShutdown
               PROVE  TaskQueueInv'
    OBVIOUS
  <1> USE DEF TaskQueueInv, BeginShutdown, EndShutdown, Wake, queueVars, mailboxVars
  <1>1. TypeOK'  BY DEF TypeOK
  <1>2. ThreadsAgree' /\ NoLostWakeup' /\ DrainedWhenStopped'
    BY DEF ThreadsAgree, NoLostWakeup, DrainedWhenStopped, TypeOK
  <1>3. NothingDropped' /\ QueueBounded' /\ ResultsAreOlder'
    BY DEF NothingDropped, QueueBounded, ResultsAreOlder
  <1> QED  BY <1>1, <1>2, <1>3

\* The worker takes the head of the queue: its id follows the last one taken.
LEMMA BeginTaskKeepsInv == TaskQueueInv /\ BeginTask => TaskQueueInv'
  <1> SUFFICES ASSUME TaskQueueInv, BeginTask PROVE TaskQueueInv'  OBVIOUS
  <1> USE DEF TaskQueueInv, BeginTask, mailboxVars
  <1>1. m_taskQueue \in Seq(Request) /\ lastTaken \in Nat /\ m_taskQueue # <<>>
    BY DEF TypeOK
  <1>2. Len(m_taskQueue) \in Nat /\ Len(m_taskQueue) >= 1  BY <1>1
  <1>3. Head(m_taskQueue) = m_taskQueue[1] /\ m_taskQueue[1] \in Request
    BY <1>1, <1>2
  <1>4. /\ m_taskQueue' \in Seq(Request)
        /\ Len(m_taskQueue') = Len(m_taskQueue) - 1
        /\ \A i \in 1..Len(m_taskQueue') : m_taskQueue'[i] = m_taskQueue[i + 1]
    BY <1>1, <1>2
  <1>5. lastTaken' = lastTaken + 1 /\ current'.requestId = lastTaken'
    BY <1>1, <1>2, <1>3 DEF NothingDropped
  <1>6. current' \in Request /\ current' # None  BY <1>3
  <1>7. TypeOK'  BY <1>1, <1>4, <1>5, <1>6 DEF TypeOK
  <1>8. ThreadsAgree' /\ NoLostWakeup' /\ DrainedWhenStopped'
    BY <1>6 DEF ThreadsAgree, NoLostWakeup, DrainedWhenStopped
  <1>9. NothingDropped'
    <2>1. ASSUME NEW i \in 1..Len(m_taskQueue')
          PROVE  m_taskQueue'[i].requestId = lastTaken' + i
      <3>1. i + 1 \in 1..Len(m_taskQueue)  BY <1>2, <1>4
      <3>2. m_taskQueue[i + 1].requestId = lastTaken + (i + 1)
        BY <3>1 DEF NothingDropped
      <3> QED  BY <3>2, <1>1, <1>4, <1>5
    <2>2. m_nextRequestId' = lastTaken' + Len(m_taskQueue') + 1
      BY <1>1, <1>2, <1>4, <1>5 DEF NothingDropped
    <2> QED  BY <2>1, <2>2 DEF NothingDropped
  <1>10. QueueBounded'  BY <1>2, <1>4 DEF QueueBounded
  <1>11. ResultsAreOlder'
    <2>1. current = None  BY DEF ThreadsAgree
    <2>2. ASSUME NEW k \in Key
          PROVE  /\ delivered[k] <= lastTaken' /\ delivered[k] < lastTaken'
                 /\ m_mailbox[k] # None =>
                      /\ delivered[k] < m_mailbox[k].requestId
                      /\ m_mailbox[k].requestId <= lastTaken'
                      /\ m_mailbox[k].requestId < lastTaken'
      <3>1. delivered[k] \in Nat  BY DEF TypeOK
      <3>2. m_mailbox[k] # None => m_mailbox[k].requestId \in Nat
        BY DEF TypeOK, Result
      <3> QED  BY <3>1, <3>2, <1>1, <1>5 DEF ResultsAreOlder
    <2> QED  BY <2>2, <1>5 DEF ResultsAreOlder
  <1> QED  BY <1>7, <1>8, <1>9, <1>10, <1>11

\* The worker waits or leaves only when it finds the queue empty.
LEMMA IdleStepsKeepInv ==
  TaskQueueInv /\ (WaitForTask \/ SpuriousWakeup \/ ExitLoop) => TaskQueueInv'
  <1> SUFFICES ASSUME TaskQueueInv, WaitForTask \/ SpuriousWakeup \/ ExitLoop
               PROVE  TaskQueueInv'
    OBVIOUS
  <1> USE DEF TaskQueueInv, WaitForTask, SpuriousWakeup, ExitLoop, MayExit, queueVars,
              mailboxVars
  <1>1. TypeOK'  BY DEF TypeOK
  <1>2. ThreadsAgree' /\ NoLostWakeup' /\ DrainedWhenStopped'
    BY DEF ThreadsAgree, NoLostWakeup, DrainedWhenStopped
  <1>3. NothingDropped' /\ QueueBounded' /\ ResultsAreOlder'
    BY DEF NothingDropped, QueueBounded, ResultsAreOlder
  <1> QED  BY <1>1, <1>2, <1>3

\* Publishing the result of the task at hand makes the partition newer.
LEMMA EndTaskKeepsInv ==
  ASSUME TaskQueueInv, NEW v \in Value, EndTask(v)
  PROVE  TaskQueueInv'
  <1> USE DEF TaskQueueInv, EndTask
  <1>1. current \in Request /\ current # None  BY DEF TypeOK, ThreadsAgree
  <1>2. current.requestId = lastTaken /\ lastTaken \in Nat \ {0} /\ current.task \in Task
    BY <1>1 DEF Request, ResultsAreOlder
  <1> DEFINE res == [requestId |-> current.requestId, value |-> v]
             key == KeyOf[current.task]
  <1>3. res \in Result /\ res # None  BY <1>2 DEF Result
  <1>4. m_mailbox' = m_mailbox \/ (key \in Key /\ m_mailbox' = [m_mailbox EXCEPT ![key] = res])
    BY DEF Published
  <1>5. m_mailbox' \in [Key -> Result \cup {None}]
    BY <1>3, <1>4 DEF TypeOK
  <1>6. TypeOK'  BY <1>5 DEF TypeOK
  <1>7. ThreadsAgree' /\ NoLostWakeup' /\ DrainedWhenStopped' /\ NothingDropped'
        /\ QueueBounded'
    BY DEF ThreadsAgree, NoLostWakeup, DrainedWhenStopped, NothingDropped, QueueBounded
  <1>8. ResultsAreOlder'
    <2>1. ASSUME NEW k \in Key
          PROVE  /\ delivered[k] <= lastTaken
                 /\ m_mailbox'[k] # None =>
                      /\ delivered[k] < m_mailbox'[k].requestId
                      /\ m_mailbox'[k].requestId <= lastTaken
      <3>1. delivered[k] <= lastTaken /\ delivered[k] < lastTaken
        BY <1>1 DEF ResultsAreOlder
      <3>2. CASE m_mailbox'[k] = m_mailbox[k]
        BY <3>1, <3>2, <1>1 DEF ResultsAreOlder
      <3>3. CASE m_mailbox'[k] = res
        BY <3>1, <3>3, <1>2
      <3>4. m_mailbox'[k] = m_mailbox[k] \/ m_mailbox'[k] = res
        BY <1>4 DEF TypeOK
      <3> QED  BY <3>1, <3>2, <3>3, <3>4
    <2> QED  BY <2>1 DEF ResultsAreOlder
  <1> QED  BY <1>6, <1>7, <1>8

\* A new process has no task, no result and counts its requests from the start.
LEMMA ProcessEndsKeepsInv == TaskQueueInv /\ ProcessEnds => TaskQueueInv'
  <1> SUFFICES ASSUME TaskQueueInv, ProcessEnds PROVE TaskQueueInv'  OBVIOUS
  <1> USE DEF TaskQueueInv, ProcessEnds
  <1>1. TypeOK'
    <2>1. m_taskQueue' \in Seq(Request)  BY EmptyQueue
    <2>2. exits' \in Nat /\ starts' \in Nat  BY DEF TypeOK
    <2>3. m_mailbox' \in [Key -> Result \cup {None}] /\ delivered' \in [Key -> Nat]
      OBVIOUS
    <2> QED  BY <2>1, <2>2, <2>3 DEF TypeOK
  <1>2. ThreadsAgree' /\ NoLostWakeup' /\ DrainedWhenStopped'
    BY DEF ThreadsAgree, NoLostWakeup, DrainedWhenStopped
  <1>3. NothingDropped' /\ QueueBounded'  BY DEF NothingDropped, QueueBounded
  <1>4. ResultsAreOlder'  BY DEF ResultsAreOlder
  <1> QED  BY <1>1, <1>2, <1>3, <1>4

\* Every step keeps TaskQueueInv: one case for each action of Next.
LEMMA StepKeepsInv == TaskQueueInv /\ [Next]_vars => TaskQueueInv'
  <1> SUFFICES ASSUME TaskQueueInv, [Next]_vars PROVE TaskQueueInv'  OBVIOUS
  <1>1. CASE Start  BY <1>1, StartKeepsInv
  <1>2. CASE \E t \in Task : EnqueueTask(t)  BY <1>2, EnqueueKeepsInv
  <1>3. CASE \E k \in Key : TakeLatestReadyResult(k)  BY <1>3, TakeKeepsInv
  <1>4. CASE BeginShutdown \/ EndShutdown  BY <1>4, ShutdownKeepsInv
  <1>5. CASE BeginTask  BY <1>5, BeginTaskKeepsInv
  <1>6. CASE WaitForTask \/ SpuriousWakeup \/ ExitLoop  BY <1>6, IdleStepsKeepInv
  <1>7. CASE \E v \in Value : EndTask(v)  BY <1>7, EndTaskKeepsInv
  <1>8. CASE ProcessEnds  BY <1>8, ProcessEndsKeepsInv
  <1>9. CASE UNCHANGED vars
    BY <1>9 DEF vars, threadVars, queueVars, mailboxVars, TaskQueueInv, TypeOK,
       ThreadsAgree, NoLostWakeup, NothingDropped, DrainedWhenStopped, QueueBounded,
       ResultsAreOlder
  <1> QED  BY <1>1, <1>2, <1>3, <1>4, <1>5, <1>6, <1>7, <1>8, <1>9 DEF Next

(***************************************************************************)
(* The inductive invariant holds in every reachable state, for every       *)
(* capacity, every number of requests, starts and ends of the process.     *)
(***************************************************************************)
THEOREM TaskQueueInvariant == Spec => []TaskQueueInv
  BY InitInv, StepKeepsInv, PTL DEF Spec

\* The worker never sleeps on work that was accepted, nor through a shutdown.
THEOREM WorkerIsAwake == Spec => []NoLostWakeup
  <1>1. TaskQueueInv => NoLostWakeup  BY DEF TaskQueueInv
  <1> QED  BY <1>1, TaskQueueInvariant, PTL

\* No accepted task is dropped, repeated or overtaken.
THEOREM TasksInOrder == Spec => []NothingDropped
  <1>1. TaskQueueInv => NothingDropped  BY DEF TaskQueueInv
  <1> QED  BY <1>1, TaskQueueInvariant, PTL

\* A shutdown leaves nothing in the queue, so that the next start clears nothing.
THEOREM ShutdownDrains == Spec => []DrainedWhenStopped
  <1>1. TaskQueueInv => DrainedWhenStopped  BY DEF TaskQueueInv
  <1> QED  BY <1>1, TaskQueueInvariant, PTL

\* Within one process neither the mailbox nor its reader goes back to an older result.
THEOREM MailboxGetsNewer == Spec => ResultsGetNewer
  <1> DEFINE Newer ==
        exits' = exits =>
          \A k \in Key :
            m_mailbox'[k] # None /\ m_mailbox'[k] # m_mailbox[k] =>
              /\ m_mailbox'[k].requestId > delivered[k]
              /\ m_mailbox[k] # None =>
                   m_mailbox'[k].requestId > m_mailbox[k].requestId
  <1>1. ASSUME TaskQueueInv, [Next]_vars PROVE [Newer]_vars
    <2> SUFFICES ASSUME exits' = exits, NEW k \in Key,
                        m_mailbox'[k] # None, m_mailbox'[k] # m_mailbox[k]
                 PROVE  /\ m_mailbox'[k].requestId > delivered[k]
                        /\ m_mailbox[k] # None =>
                             m_mailbox'[k].requestId > m_mailbox[k].requestId
      OBVIOUS
    <2>1. PICK v \in Value : EndTask(v)
      <3>1. exits \in Nat /\ m_mailbox \in [Key -> Result \cup {None}]
        BY <1>1 DEF TaskQueueInv, TypeOK
      <3>2. ~ProcessEnds  BY <3>1 DEF ProcessEnds
      <3>3. ASSUME NEW j \in Key, TakeLatestReadyResult(j) PROVE FALSE
        BY <3>1, <3>3 DEF TakeLatestReadyResult
      <3>4. m_mailbox' # m_mailbox  OBVIOUS
      <3> QED
        BY <1>1, <3>2, <3>3, <3>4 DEF Next, vars, Start, EnqueueTask, BeginShutdown,
           EndShutdown, BeginTask, WaitForTask, SpuriousWakeup, ExitLoop, mailboxVars
    <2>2. current # None /\ current.requestId = lastTaken
      BY <1>1, <2>1 DEF EndTask, TaskQueueInv, ThreadsAgree, ResultsAreOlder
    <2>3. m_mailbox'[k] = [requestId |-> current.requestId, value |-> v]
      BY <1>1, <2>1 DEF EndTask, Published, TaskQueueInv, TypeOK
    <2>4. m_mailbox'[k].requestId = lastTaken  BY <2>2, <2>3
    <2>5. /\ delivered[k] < lastTaken
          /\ m_mailbox[k] # None => m_mailbox[k].requestId < lastTaken
      BY <1>1, <2>2 DEF TaskQueueInv, ResultsAreOlder
    <2>6. /\ lastTaken \in Nat /\ delivered[k] \in Nat
          /\ m_mailbox[k] # None => m_mailbox[k].requestId \in Nat
      BY <1>1 DEF TaskQueueInv, TypeOK, Result
    <2> QED  BY <2>4, <2>5, <2>6
  <1>2. TaskQueueInv /\ [Next]_vars => [Newer]_vars  BY <1>1
  <1> QED  BY <1>2, TaskQueueInvariant, PTL DEF Spec, ResultsGetNewer

=============================================================================
