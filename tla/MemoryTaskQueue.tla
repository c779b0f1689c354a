-------------------------- MODULE MemoryTaskQueue --------------------------
(***************************************************************************)
(* The two threads of MemoryService (memory_service.cpp): the main thread  *)
(* submits tasks, takes results and shuts the service down; the worker     *)
(* thread empties the bounded queue in order and leaves the results of     *)
(* retrievals in a mailbox with one place per pet and trigger.             *)
(*                                                                         *)
(* What is done for a task is left open here: a task ends with any result. *)
(* MemoryService.tla says what the worker does.  A critical section of the *)
(* code is one step, except that QWaitCondition::wait releases the mutex,  *)
(* so that the worker gives up its place between finding the queue empty   *)
(* and looking again.                                                      *)
(***************************************************************************)
EXTENDS Integers, Sequences

CONSTANTS Task,         \* what a task asks for
          Key,          \* partitions of the mailbox: petId|triggerType
          KeyOf,        \* the partition of a task's result, or NoKey
          NoKey,
          Value,        \* what a result holds
          None,         \* no task, no result
          Capacity,     \* m_queueCapacity
          MaxRequests,  \* bound on the tasks accepted by one process
          MaxStarts,    \* bound on the starts of the service
          MaxExits      \* bound on the ends of the process

ASSUME TaskQueueAssumption ==
  /\ Capacity \in Nat \ {0}          \* Start refuses others
  /\ {MaxRequests, MaxStarts, MaxExits} \subseteq Nat
  /\ NoKey \notin Key
  /\ KeyOf \in [Task -> Key \cup {NoKey}]

VARIABLES
  m_isRunning, m_shuttingDown,
  m_taskQueue,
  m_nextRequestId,
  m_mailbox,
  worker,           \* the worker thread: about to look at the queue, waiting, ...
  current,          \* the task the worker is processing
  joining,          \* the main thread is inside Shutdown, waiting for the worker
  starts, exits     \* how often the service was started, the process ended

VARIABLES           \* observations, not state of the program
  lastTaken,        \* the last request id the worker took from the queue
  delivered         \* the last request id the main thread was given, per partition

threadVars == <<m_isRunning, m_shuttingDown, worker, joining>>
queueVars == <<m_taskQueue, m_nextRequestId, current, lastTaken>>
mailboxVars == <<m_mailbox, delivered>>
vars == <<threadVars, queueVars, mailboxVars, starts, exits>>

Request == [requestId : Nat \ {0}, task : Task]
Result == [requestId : Nat \ {0}, value : Value]

ASSUME NoneAssumption == None \notin Request /\ None \notin Result

-----------------------------------------------------------------------------
Init ==
  /\ m_isRunning = FALSE /\ m_shuttingDown = FALSE
  /\ m_taskQueue = <<>> /\ m_nextRequestId = 1
  /\ m_mailbox = [k \in Key |-> None]
  /\ worker = "none" /\ current = None /\ joining = FALSE
  /\ starts = 0 /\ exits = 0
  /\ lastTaken = 0 /\ delivered = [k \in Key |-> 0]

(***************************************************************************)
(* The main thread                                                         *)
(***************************************************************************)
Start ==
  /\ ~m_isRunning /\ worker = "none" /\ starts < MaxStarts
  /\ m_taskQueue' = <<>>
  /\ m_shuttingDown' = FALSE /\ m_isRunning' = TRUE
  /\ worker' = "looking"
  /\ starts' = starts + 1
  /\ UNCHANGED <<m_nextRequestId, current, lastTaken, joining, mailboxVars, exits>>

\* wakeOne and wakeAll: there is one thread to wake.
NoWake == worker' = worker
Wake == worker' = IF worker = "waiting" THEN "looking" ELSE worker

AcceptsWhenNotOver == m_isRunning /\ ~m_shuttingDown /\ Len(m_taskQueue) <= Capacity
Accepts == m_isRunning /\ ~m_shuttingDown /\ Len(m_taskQueue) < Capacity

EnqueueTask(t) ==
  /\ ~joining /\ Accepts /\ m_nextRequestId <= MaxRequests
  /\ m_taskQueue' = Append(m_taskQueue, [requestId |-> m_nextRequestId, task |-> t])
  /\ m_nextRequestId' = m_nextRequestId + 1
  /\ Wake
  /\ UNCHANGED <<m_isRunning, m_shuttingDown, joining, current, lastTaken,
                 mailboxVars, starts, exits>>

TakeLatestReadyResult(k) ==
  /\ ~joining /\ m_mailbox[k] # None
  /\ m_mailbox' = [m_mailbox EXCEPT ![k] = None]
  /\ delivered' = [delivered EXCEPT ![k] = m_mailbox[k].requestId]
  /\ UNCHANGED <<threadVars, queueVars, starts, exits>>

\* Shutdown up to the wait for the worker thread.
BeginShutdown ==
  /\ m_isRunning
  /\ m_shuttingDown' = TRUE /\ m_isRunning' = FALSE /\ joining' = TRUE
  /\ Wake
  /\ UNCHANGED <<queueVars, mailboxVars, starts, exits>>

EndShutdown ==
  /\ joining /\ worker = "exited"
  /\ joining' = FALSE /\ worker' = "none"
  /\ UNCHANGED <<m_isRunning, m_shuttingDown, queueVars, mailboxVars, starts, exits>>

(***************************************************************************)
(* The worker thread                                                       *)
(***************************************************************************)
BeginNewestTask ==
  /\ worker = "looking" /\ m_taskQueue # <<>>
  /\ current' = m_taskQueue[Len(m_taskQueue)]
  /\ m_taskQueue' = SubSeq(m_taskQueue, 1, Len(m_taskQueue) - 1)
  /\ lastTaken' = m_taskQueue[Len(m_taskQueue)].requestId
  /\ worker' = "busy"
  /\ UNCHANGED <<m_isRunning, m_shuttingDown, joining, m_nextRequestId,
                 mailboxVars, starts, exits>>
BeginTask ==
  /\ worker = "looking" /\ m_taskQueue # <<>>
  /\ current' = Head(m_taskQueue) /\ m_taskQueue' = Tail(m_taskQueue)
  /\ lastTaken' = Head(m_taskQueue).requestId
  /\ worker' = "busy"
  /\ UNCHANGED <<m_isRunning, m_shuttingDown, joining, m_nextRequestId,
                 mailboxVars, starts, exits>>

WaitForTask ==
  /\ worker = "looking" /\ m_taskQueue = <<>> /\ ~m_shuttingDown
  /\ worker' = "waiting"
  /\ UNCHANGED <<m_isRunning, m_shuttingDown, joining, queueVars, mailboxVars,
                 starts, exits>>

SpuriousWakeup ==
  /\ worker = "waiting" /\ worker' = "looking"
  /\ UNCHANGED <<m_isRunning, m_shuttingDown, joining, queueVars, mailboxVars,
                 starts, exits>>

ExitsAtOnce == m_shuttingDown
MayExit == m_shuttingDown /\ m_taskQueue = <<>>
ExitLoop ==
  /\ worker = "looking" /\ MayExit
  /\ worker' = "exited"
  /\ UNCHANGED <<m_isRunning, m_shuttingDown, joining, queueVars, mailboxVars,
                 starts, exits>>

\* A result replaces one of an older request only.
MayPublish(k, id) == m_mailbox[k] = None \/ id >= m_mailbox[k].requestId

Published(k, v) ==
  IF k \in Key /\ MayPublish(k, current.requestId)
  THEN [m_mailbox EXCEPT ![k] = [requestId |-> current.requestId, value |-> v]]
  ELSE m_mailbox

EndTask(v) ==
  /\ worker = "busy"
  /\ m_mailbox' = Published(KeyOf[current.task], v)
  /\ current' = None /\ worker' = "looking"
  /\ UNCHANGED <<m_isRunning, m_shuttingDown, joining, m_taskQueue, m_nextRequestId,
                 lastTaken, delivered, starts, exits>>

(***************************************************************************)
(* The process ends, at its own will once the service has stopped or by a  *)
(* crash at any time, and is started again.                                *)
(***************************************************************************)
ProcessEnds ==
  /\ exits < MaxExits /\ exits' = exits + 1
  /\ m_isRunning' = FALSE /\ m_shuttingDown' = FALSE
  /\ m_taskQueue' = <<>> /\ m_nextRequestId' = 1
  /\ m_mailbox' = [k \in Key |-> None]
  /\ worker' = "none" /\ current' = None /\ joining' = FALSE
  /\ lastTaken' = 0 /\ delivered' = [k \in Key |-> 0]
  /\ UNCHANGED starts

Worker == BeginTask \/ WaitForTask \/ ExitLoop \/ \E v \in Value : EndTask(v)

Next ==
  \/ Start
  \/ \E t \in Task : EnqueueTask(t)
  \/ \E k \in Key : TakeLatestReadyResult(k)
  \/ BeginShutdown \/ EndShutdown
  \/ BeginTask \/ WaitForTask \/ SpuriousWakeup \/ ExitLoop
  \/ \E v \in Value : EndTask(v)
  \/ ProcessEnds

(***************************************************************************)
(* The worker thread is scheduled, and so is the main thread when          *)
(* QThread::wait returns.  Nobody has to submit, take or shut down.        *)
(***************************************************************************)
Fairness == WF_vars(Worker) /\ WF_vars(EndShutdown)

Spec == Init /\ [][Next]_vars /\ Fairness

-----------------------------------------------------------------------------
TypeOK ==
  /\ m_isRunning \in BOOLEAN /\ m_shuttingDown \in BOOLEAN /\ joining \in BOOLEAN
  /\ m_taskQueue \in Seq(Request)
  /\ m_nextRequestId \in Nat /\ lastTaken \in Nat
  /\ m_mailbox \in [Key -> Result \cup {None}]
  /\ delivered \in [Key -> Nat]
  /\ worker \in {"none", "looking", "waiting", "busy", "exited"}
  /\ current \in Request \cup {None}
  /\ starts \in Nat /\ exits \in Nat

(***************************************************************************)
(* The worker never sleeps on a queue that is not empty, nor through a     *)
(* shutdown: EnqueueTask and Shutdown wake it under the lock under which   *)
(* it tested the queue.                                                    *)
(***************************************************************************)
NoLostWakeup == worker = "waiting" => m_taskQueue = <<>> /\ ~m_shuttingDown

(***************************************************************************)
(* The ids in the queue continue, without a gap, those the worker has      *)
(* taken, and end with the last one handed out: no accepted task is        *)
(* dropped, repeated or overtaken.                                         *)
(***************************************************************************)
NothingDropped ==
  /\ \A i \in 1..Len(m_taskQueue) : m_taskQueue[i].requestId = lastTaken + i
  /\ m_nextRequestId = lastTaken + Len(m_taskQueue) + 1

\* Shutdown returns, and a later Start clears the queue, only when the queue is empty.
DrainedWhenStopped == worker \in {"exited", "none"} => m_taskQueue = <<>>

\* The queue never holds more than m_queueCapacity tasks.
QueueBounded == Len(m_taskQueue) <= Capacity

(***************************************************************************)
(* In one process the results of a partition only get newer: neither the   *)
(* mailbox nor the reader goes back to the result of an older request,     *)
(* also across a shutdown and a new start.                                 *)
(***************************************************************************)
ResultsGetNewer ==
  [][exits' = exits =>
       \A k \in Key :
         m_mailbox'[k] # None /\ m_mailbox'[k] # m_mailbox[k] =>
           /\ m_mailbox'[k].requestId > delivered[k]
           /\ m_mailbox[k] # None => m_mailbox'[k].requestId > m_mailbox[k].requestId]_vars

(***************************************************************************)
(* What the worker does and where the two threads may be, relative to each *)
(* other.                                                                  *)
(***************************************************************************)
ThreadsAgree ==
  /\ m_isRunning => ~m_shuttingDown /\ ~joining /\ worker \notin {"none", "exited"}
  /\ joining => m_shuttingDown /\ worker # "none"
  /\ worker # "none" => m_isRunning \/ joining
  /\ worker = "exited" => m_shuttingDown
  /\ (worker = "busy") <=> (current # None)

ResultsAreOlder ==
  /\ current # None => current.requestId = lastTaken
  /\ \A k \in Key :
       /\ delivered[k] <= lastTaken
       /\ current # None => delivered[k] < lastTaken
       /\ m_mailbox[k] # None =>
            /\ delivered[k] < m_mailbox[k].requestId
            /\ m_mailbox[k].requestId <= lastTaken
            /\ current # None => m_mailbox[k].requestId < lastTaken

TaskQueueInv ==
  /\ TypeOK /\ ThreadsAgree /\ NoLostWakeup /\ NothingDropped /\ DrainedWhenStopped
  /\ QueueBounded /\ ResultsAreOlder

(***************************************************************************)
(* Shutdown returns, unless the process ends before: README.md promises    *)
(* that the queue is emptied and the current task finished first.          *)
(***************************************************************************)
ShutdownReturns == joining ~> ~joining

(***************************************************************************)
(* Every accepted task is processed, unless the process ends before.       *)
(***************************************************************************)
AcceptedIsProcessed ==
  \A id \in 1..MaxRequests, e \in 0..MaxExits :
    (exits = e /\ id < m_nextRequestId) ~>
      (exits # e \/ lastTaken > id \/ (lastTaken = id /\ current = None))

=============================================================================
