------------------------ MODULE InvocationQueuePolicy ------------------------
(***************************************************************************)
(* The queue of invocations that arrive while one is in progress           *)
(* (invocation_queue_policy.cpp).  An entry holds its trigger and the      *)
(* input delta to overlay on the session when its turn comes.              *)
(***************************************************************************)
EXTENDS Integers, Sequences, SequencesExt

CONSTANTS Trigger,
          Vision,     \* the trigger of perception frames
          Payload,    \* the input deltas
          NoFrame,    \* not a payload: the abstract queue's empty slot
          Capacity    \* MAX_PENDING_INVOCATIONS

ASSUME QueueAssumption ==
  /\ Vision \in Trigger
  /\ NoFrame \notin Payload
  /\ Capacity \in Nat \ {0}

VARIABLE entries   \* m_entries, the next to run first

Entry == [trigger : Trigger, local : Payload]

AnyTrigger(e) == TRUE
IsVision(e) == e.trigger = Vision
VisionIndices(q) == {i \in 1..Len(q) : IsVision(q[i])}

(***************************************************************************)
(* Enqueue: a frame takes the place of the frame that waits, if one does,  *)
(* and goes to the tail; anything else needs room.                         *)
(***************************************************************************)
ReplacesFrame(q, e) == IsVision(e) /\ VisionIndices(q) # {}
LatestFrame(q) == CHOOSE i \in VisionIndices(q) : \A j \in VisionIndices(q) : j <= i

AcceptsWhenNotOver(q, e) == ReplacesFrame(q, e) \/ Len(q) <= Capacity
Accepts(q, e) == ReplacesFrame(q, e) \/ Len(q) < Capacity

KeepPosition(q, e) ==
  IF ReplacesFrame(q, e) THEN [q EXCEPT ![LatestFrame(q)] = e] ELSE Append(q, e)
PushFront(q, e) == <<e>> \o q
AfterEnqueue(q, e) ==
  IF ReplacesFrame(q, e) THEN Append(RemoveAt(q, LatestFrame(q)), e)
                         ELSE Append(q, e)

Init == entries = <<>>

Enqueue(e) ==
  /\ Accepts(entries, e)
  /\ entries' = AfterEnqueue(entries, e)

Dequeue ==
  /\ entries # <<>>
  /\ entries' = Tail(entries)

Next == (\E e \in Entry : Enqueue(e)) \/ Dequeue

Spec == Init /\ [][Next]_entries

-----------------------------------------------------------------------------
(* Properties *)

\* Type invariant.
TypeOK == entries \in Seq(Entry)

\* The queue never holds more than MAX_PENDING_INVOCATIONS entries, although a frame
\* is accepted when it is full, and never two frames.
Bounded ==
  /\ Len(entries) <= Capacity
  /\ \A i, j \in VisionIndices(entries) : i = j

(***************************************************************************)
(* The queue implements LatestWinsFifo: the lane is what is left of the    *)
(* entries without the frame, and `ahead' its position.                    *)
(***************************************************************************)
HasFrame(q) == VisionIndices(q) # {}
Inputs(q) == IF HasFrame(q) THEN RemoveAt(q, LatestFrame(q)) ELSE q
Lane(q) == [i \in 1..Len(Inputs(q)) |-> Inputs(q)[i].local]
Slot(q) == IF HasFrame(q) THEN q[LatestFrame(q)].local ELSE NoFrame
Ahead(q) == IF HasFrame(q) THEN LatestFrame(q) - 1 ELSE 0
Policy == INSTANCE LatestWinsFifo WITH
  lane <- Lane(entries), slot <- Slot(entries), ahead <- Ahead(entries)

\* Inputs run in the order they came, only the newest frame waits, and it overtakes
\* no input that was accepted before it.
ImplementsPolicy == Policy!Spec
=============================================================================
