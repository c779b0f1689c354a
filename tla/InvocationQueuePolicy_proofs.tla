-------------------- MODULE InvocationQueuePolicy_proofs --------------------
(***************************************************************************)
(* Proofs about the invocation queue, for every capacity and every set of  *)
(* payloads.                                                               *)
(***************************************************************************)
EXTENDS InvocationQueuePolicy, SequenceTheorems, TLAPS

\* What takeAt leaves of a list.
LEMMA RemoveAtFacts ==
  ASSUME NEW S, NEW q \in Seq(S), NEW i \in 1..Len(q)
  PROVE  /\ RemoveAt(q, i) \in Seq(S)
         /\ Len(RemoveAt(q, i)) = Len(q) - 1
         /\ \A j \in 1..(Len(q) - 1) :
              RemoveAt(q, i)[j] = IF j < i THEN q[j] ELSE q[j + 1]
<1> DEFINE front == SubSeq(q, 1, i - 1)
           back == SubSeq(q, i + 1, Len(q))
<1>1. /\ front \in Seq(S) /\ Len(front) = i - 1
      /\ \A j \in 1..(i - 1) : front[j] = q[j]
  BY SubSeqProperties
<1>2. /\ back \in Seq(S) /\ Len(back) = Len(q) - i
      /\ \A j \in 1..(Len(q) - i) : back[j] = q[j + i]
  BY SubSeqProperties
<1>3. RemoveAt(q, i) = front \o back
  BY DEF RemoveAt
<1>4. /\ front \o back \in Seq(S)
      /\ Len(front \o back) = Len(front) + Len(back)
      /\ \A j \in 1..(Len(front) + Len(back)) : (front \o back)[j] =
           IF j <= Len(front) THEN front[j] ELSE back[j - Len(front)]
  BY <1>1, <1>2, ConcatProperties
<1> HIDE DEF front, back
<1>5. ASSUME NEW j \in 1..(Len(q) - 1)
      PROVE  (front \o back)[j] = IF j < i THEN q[j] ELSE q[j + 1]
  <2>1. CASE j < i
    BY <1>1, <1>2, <1>4, <2>1
  <2>2. CASE ~(j < i)
    <3>1. j - (i - 1) \in 1..(Len(q) - i) /\ ~(j <= i - 1)
      BY <2>2
    <3>2. (front \o back)[j] = back[j - (i - 1)]
      BY <1>1, <1>2, <1>4, <3>1
    <3> QED BY <1>2, <2>2, <3>1, <3>2
  <2> QED BY <2>1, <2>2
<1>6. Len(front \o back) = Len(q) - 1
  BY <1>1, <1>2, <1>4
<1> QED BY <1>3, <1>4, <1>5, <1>6

\* The invariant: entries are entries, never more than the capacity, never two frames.
QueueInv == TypeOK /\ Bounded

LEMMA LatestFrameFacts ==
  ASSUME NEW q \in Seq(Entry), VisionIndices(q) # {},
         \A i, j \in VisionIndices(q) : i = j
  PROVE  LatestFrame(q) \in VisionIndices(q) /\ LatestFrame(q) \in 1..Len(q)
<1>1. PICK i \in VisionIndices(q) : \A j \in VisionIndices(q) : j = i
  OBVIOUS
<1>2. VisionIndices(q) \subseteq 1..Len(q)
  BY DEF VisionIndices
<1>3. \E k \in VisionIndices(q) : \A j \in VisionIndices(q) : j <= k
  BY <1>1, <1>2
<1> QED BY <1>2, <1>3 DEF LatestFrame

LEMMA EnqueueStep ==
  ASSUME QueueInv, NEW e \in Entry, Enqueue(e)
  PROVE  QueueInv'
<1>1. /\ entries \in Seq(Entry) /\ Len(entries) <= Capacity
      /\ \A i, j \in VisionIndices(entries) : i = j
      /\ Capacity \in Nat
  BY QueueAssumption DEF QueueInv, TypeOK, Bounded
<1>2. Accepts(entries, e) /\ entries' = AfterEnqueue(entries, e)
  BY DEF Enqueue
<1>3. CASE ReplacesFrame(entries, e)
  <2> DEFINE i == LatestFrame(entries)
             others == RemoveAt(entries, i)
  <2>1. i \in VisionIndices(entries) /\ i \in 1..Len(entries)
    BY <1>1, <1>3, LatestFrameFacts DEF ReplacesFrame
  <2>2. /\ others \in Seq(Entry)
        /\ Len(others) = Len(entries) - 1
        /\ \A j \in 1..(Len(entries) - 1) :
             others[j] = IF j < i THEN entries[j] ELSE entries[j + 1]
    BY <1>1, <2>1, RemoveAtFacts
  <2>3. entries' = Append(others, e)
    BY <1>2, <1>3 DEF AfterEnqueue
  <2>4. /\ entries' \in Seq(Entry) /\ Len(entries') = Len(entries)
        /\ \A j \in 1..(Len(entries) - 1) : entries'[j] = others[j]
    BY <1>1, <2>2, <2>3
  <2>5. ASSUME NEW j \in 1..(Len(entries) - 1)
        PROVE  ~IsVision(entries'[j])
    <3>1. CASE j < i
      BY <1>1, <2>1, <2>2, <2>4, <3>1 DEF VisionIndices
    <3>2. CASE ~(j < i)
      <4>1. j + 1 \in 1..Len(entries) /\ j + 1 # i
        BY <1>1, <2>1, <3>2
      <4> QED BY <1>1, <2>1, <2>2, <2>4, <3>2, <4>1 DEF VisionIndices
    <3> QED BY <3>1, <3>2
  <2>6. \A k \in VisionIndices(entries)' : k = Len(entries)
    BY <1>1, <2>4, <2>5 DEF VisionIndices
  <2> QED BY <1>1, <2>4, <2>6 DEF QueueInv, TypeOK, Bounded
<1>4. CASE ~ReplacesFrame(entries, e)
  <2>1. Len(entries) < Capacity /\ entries' = Append(entries, e)
    BY <1>2, <1>4 DEF Accepts, AfterEnqueue
  <2>2. /\ entries' \in Seq(Entry) /\ Len(entries') = Len(entries) + 1
        /\ Len(entries') <= Capacity
        /\ \A j \in 1..Len(entries) : entries'[j] = entries[j]
        /\ entries'[Len(entries) + 1] = e
    BY <1>1, <2>1
  <2>3. ASSUME NEW j \in VisionIndices(entries)', NEW k \in VisionIndices(entries)'
        PROVE  j = k
    <3>1. CASE IsVision(e)
      <4>1. VisionIndices(entries) = {}
        BY <1>4, <3>1 DEF ReplacesFrame
      <4>2. \A m \in VisionIndices(entries)' : m = Len(entries) + 1
        BY <1>1, <2>2, <4>1 DEF VisionIndices
      <4> QED BY <4>2
    <3>2. CASE ~IsVision(e)
      <4>1. VisionIndices(entries)' \subseteq VisionIndices(entries)
        BY <1>1, <2>2, <3>2 DEF VisionIndices
      <4> QED BY <1>1, <4>1
    <3> QED BY <3>1, <3>2
  <2> QED BY <2>2, <2>3 DEF QueueInv, TypeOK, Bounded
<1> QED BY <1>3, <1>4

LEMMA DequeueStep ==
  ASSUME QueueInv, Dequeue
  PROVE  QueueInv'
<1>1. /\ entries \in Seq(Entry) /\ entries # <<>> /\ entries' = Tail(entries)
      /\ Len(entries) <= Capacity /\ Capacity \in Nat
      /\ \A i, j \in VisionIndices(entries) : i = j
  BY QueueAssumption DEF QueueInv, TypeOK, Bounded, Dequeue
<1>2. /\ entries' \in Seq(Entry) /\ Len(entries') = Len(entries) - 1
      /\ \A i \in 1..Len(entries') : entries'[i] = entries[i + 1]
  BY <1>1
<1>3. \A i \in VisionIndices(entries)' : i + 1 \in VisionIndices(entries) /\ i \in Nat
  BY <1>1, <1>2 DEF VisionIndices
<1>4. \A i, j \in VisionIndices(entries)' : i = j
  BY <1>1, <1>3
<1> QED BY <1>1, <1>2, <1>4 DEF QueueInv, TypeOK, Bounded

\* The queue never holds more than MAX_PENDING_INVOCATIONS entries nor two frames, although
\* Enqueue accepts a frame when the queue is full (invocation_queue_policy.cpp).
THEOREM QueueBounded == Spec => [](TypeOK /\ Bounded)
<1>1. Init => QueueInv
  BY QueueAssumption DEF Init, QueueInv, TypeOK, Bounded, VisionIndices
<1>2. QueueInv /\ [Next]_entries => QueueInv'
  <2>1. ASSUME QueueInv, Next PROVE QueueInv'
    BY <2>1, EnqueueStep, DequeueStep DEF Next
  <2>2. ASSUME QueueInv, UNCHANGED entries PROVE QueueInv'
    BY <2>2 DEF QueueInv, TypeOK, Bounded, VisionIndices
  <2> QED BY <2>1, <2>2
<1>3. QueueInv => TypeOK /\ Bounded
  BY DEF QueueInv
<1> QED BY <1>1, <1>2, <1>3, PTL DEF Spec

-----------------------------------------------------------------------------
(* ImplementsPolicy: the mapped lane, slot and `ahead' of a queue *)

OneFrame(q) == q \in Seq(Entry) /\ \A i, j \in VisionIndices(q) : i = j
NoFrames(q) == q \in Seq(Entry) /\ VisionIndices(q) = {}
FrameAt(q, i) == q \in Seq(Entry) /\ i \in 1..Len(q) /\ VisionIndices(q) = {i}

LEMMA LocalOf ==
  ASSUME NEW q \in Seq(Entry), NEW i \in 1..Len(q)
  PROVE  q[i].local \in Payload
<1>1. q[i] \in Entry
  OBVIOUS
<1> QED BY <1>1 DEF Entry

LEMMA FramedOrNot ==
  ASSUME NEW q, OneFrame(q)
  PROVE  NoFrames(q) \/ FrameAt(q, LatestFrame(q))
<1>1. CASE VisionIndices(q) = {}
  BY <1>1 DEF NoFrames, OneFrame
<1>2. CASE VisionIndices(q) # {}
  <2>1. LatestFrame(q) \in VisionIndices(q) /\ LatestFrame(q) \in 1..Len(q)
    BY <1>2, LatestFrameFacts DEF OneFrame
  <2> QED BY <2>1 DEF FrameAt, OneFrame
<1> QED BY <1>1, <1>2

\* Without a frame the lane is the queue.
LEMMA MapWithout ==
  ASSUME NEW q, NoFrames(q)
  PROVE  /\ Lane(q) \in Seq(Payload) /\ Len(Lane(q)) = Len(q)
         /\ \A j \in 1..Len(q) : Lane(q)[j] = q[j].local
         /\ Slot(q) = NoFrame /\ Ahead(q) = 0
<1>1. q \in Seq(Entry) /\ Inputs(q) = q /\ Slot(q) = NoFrame /\ Ahead(q) = 0
  BY DEF NoFrames, Slot, Ahead, Inputs, HasFrame
<1>2. Lane(q) = [j \in 1..Len(q) |-> q[j].local]
  BY <1>1 DEF Lane
<1>3. \A j \in 1..Len(q) : q[j].local \in Payload
  BY <1>1, LocalOf
<1> QED BY <1>1, <1>2, <1>3

\* With one, the lane is the queue without it.
LEMMA MapWith ==
  ASSUME NEW q, NEW i, FrameAt(q, i)
  PROVE  /\ Lane(q) \in Seq(Payload) /\ Len(Lane(q)) = Len(q) - 1
         /\ \A j \in 1..(Len(q) - 1) :
              Lane(q)[j] = IF j < i THEN q[j].local ELSE q[j + 1].local
         /\ Slot(q) = q[i].local /\ Slot(q) # NoFrame /\ Ahead(q) = i - 1
<1>1. q \in Seq(Entry) /\ i \in 1..Len(q) /\ VisionIndices(q) = {i}
  BY DEF FrameAt
<1>2. LatestFrame(q) = i /\ HasFrame(q)
  BY <1>1, LatestFrameFacts DEF HasFrame
<1>3. Slot(q) = q[i].local /\ Ahead(q) = i - 1 /\ Inputs(q) = RemoveAt(q, i)
  BY <1>2 DEF Slot, Ahead, Inputs
<1>4. q[i].local \in Payload
  BY <1>1, LocalOf
<1> DEFINE others == RemoveAt(q, i)
<1>5. /\ others \in Seq(Entry) /\ Len(others) = Len(q) - 1
      /\ \A j \in 1..(Len(q) - 1) : others[j] = IF j < i THEN q[j] ELSE q[j + 1]
  BY <1>1, RemoveAtFacts
<1>6. Lane(q) = [j \in 1..Len(others) |-> others[j].local]
  BY <1>3 DEF Lane
<1> HIDE DEF others
<1>7. \A j \in 1..Len(others) : others[j].local \in Payload
  BY <1>5, LocalOf
<1>8. /\ Lane(q) \in Seq(Payload) /\ Len(Lane(q)) = Len(q) - 1
      /\ \A j \in 1..(Len(q) - 1) : Lane(q)[j] = others[j].local
  BY <1>1, <1>5, <1>6, <1>7
<1> QED BY <1>3, <1>4, <1>5, <1>8, QueueAssumption

\* When one sequence is another with an element more at the end, or one less in front.
LEMMA IsPushed ==
  ASSUME NEW S, NEW f \in Seq(S), NEW g \in Seq(S), NEW x \in S, Len(g) = Len(f) + 1,
         \A j \in 1..Len(f) : g[j] = f[j], g[Len(f) + 1] = x
  PROVE  g = Append(f, x)
<1>1. /\ Append(f, x) \in Seq(S) /\ Len(Append(f, x)) = Len(g)
      /\ \A j \in 1..Len(g) : Append(f, x)[j] = g[j]
  OBVIOUS
<1> QED BY <1>1, SeqEqual

LEMMA IsPopped ==
  ASSUME NEW S, NEW f \in Seq(S), NEW g \in Seq(S), f # <<>>, Len(g) = Len(f) - 1,
         \A j \in 1..Len(g) : g[j] = f[j + 1]
  PROVE  g = Tail(f)
<1>1. /\ Tail(f) \in Seq(S) /\ Len(Tail(f)) = Len(g)
      /\ \A j \in 1..Len(g) : Tail(f)[j] = g[j]
  OBVIOUS
<1> QED BY <1>1, SeqEqual

\* The entry is appended to what is left when the frame that waited is taken out.
LEMMA EnqueueIsAllowed ==
  ASSUME QueueInv, QueueInv', NEW e \in Entry, Enqueue(e)
  PROVE  Policy!Next
<1> DEFINE q == entries
           r == entries'
<1>1. /\ OneFrame(q) /\ OneFrame(r) /\ Accepts(q, e) /\ r = AfterEnqueue(q, e)
      /\ q \in Seq(Entry) /\ r \in Seq(Entry) /\ Len(q) \in Nat
      /\ NoFrame \notin Payload /\ e.local \in Payload
  BY QueueAssumption DEF QueueInv, TypeOK, Bounded, OneFrame, Enqueue, Entry, VisionIndices
<1> DEFINE frame == LatestFrame(q)
<1> HIDE DEF q, r
<1>2. CASE NoFrames(q)
  <2>1. r = Append(q, e) /\ Len(q) < Capacity
    BY <1>1, <1>2 DEF AfterEnqueue, Accepts, ReplacesFrame, NoFrames
  <2>2. /\ Len(r) = Len(q) + 1 /\ \A j \in 1..Len(q) : r[j] = q[j]
        /\ r[Len(q) + 1] = e
    BY <1>1, <2>1
  <2>3. VisionIndices(r) = IF IsVision(e) THEN {Len(r)} ELSE {}
    BY <1>1, <1>2, <2>2 DEF NoFrames, VisionIndices
  <2>4. /\ Lane(q) \in Seq(Payload) /\ Len(Lane(q)) = Len(q)
        /\ \A j \in 1..Len(q) : Lane(q)[j] = q[j].local
        /\ Slot(q) = NoFrame /\ Ahead(q) = 0
    BY <1>2, MapWithout
  <2>5. CASE IsVision(e)
    <3>1. FrameAt(r, Len(r))
      BY <1>1, <2>2, <2>3, <2>5 DEF FrameAt
    <3>2. /\ Lane(r) \in Seq(Payload) /\ Len(Lane(r)) = Len(r) - 1
          /\ \A j \in 1..(Len(r) - 1) :
               Lane(r)[j] = IF j < Len(r) THEN r[j].local ELSE r[j + 1].local
          /\ Slot(r) = r[Len(r)].local /\ Ahead(r) = Len(r) - 1
      BY <3>1, MapWith
    <3>3. Lane(r) = Lane(q)
      <4>1. Len(Lane(r)) = Len(Lane(q)) /\ \A j \in 1..Len(Lane(q)) : Lane(r)[j] = Lane(q)[j]
        BY <1>1, <2>2, <2>4, <3>2
      <4> QED BY <2>4, <3>2, <4>1, SeqEqual
    <3>4. Slot(r) = e.local /\ Ahead(r) = Len(Lane(q))
      BY <1>1, <2>2, <2>4, <3>2
    <3>5. Policy!AcceptFrame(e.local)
      BY <1>1, <2>1, <2>4, <3>3, <3>4 DEF Policy!AcceptFrame, Policy!Waiting, q, r
    <3> QED BY <1>1, <3>5 DEF Policy!Next
  <2>6. CASE ~IsVision(e)
    <3>1. NoFrames(r)
      BY <1>1, <2>3, <2>6 DEF NoFrames
    <3>2. /\ Lane(r) \in Seq(Payload) /\ Len(Lane(r)) = Len(r)
          /\ \A j \in 1..Len(r) : Lane(r)[j] = r[j].local
          /\ Slot(r) = NoFrame /\ Ahead(r) = 0
      BY <3>1, MapWithout
    <3>3. Lane(r) = Append(Lane(q), e.local)
      <4>1. /\ Len(Lane(r)) = Len(Lane(q)) + 1 /\ Lane(r)[Len(Lane(q)) + 1] = e.local
            /\ \A j \in 1..Len(Lane(q)) : Lane(r)[j] = Lane(q)[j]
        BY <1>1, <2>2, <2>4, <3>2
      <4> QED BY <1>1, <2>4, <3>2, <4>1, IsPushed
    <3>4. Policy!AcceptInput(e.local)
      BY <1>1, <2>1, <2>4, <3>2, <3>3 DEF Policy!AcceptInput, Policy!Waiting, q, r
    <3> QED BY <1>1, <3>4 DEF Policy!Next
  <2> QED BY <2>5, <2>6
<1>3. CASE FrameAt(q, frame)
  <2>0. /\ frame \in 1..Len(q) /\ VisionIndices(q) = {frame}
    BY <1>3 DEF FrameAt
  <2>1. /\ Lane(q) \in Seq(Payload) /\ Len(Lane(q)) = Len(q) - 1
        /\ \A j \in 1..(Len(q) - 1) :
             Lane(q)[j] = IF j < frame THEN q[j].local ELSE q[j + 1].local
        /\ Slot(q) = q[frame].local /\ Slot(q) # NoFrame /\ Ahead(q) = frame - 1
    BY <1>3, MapWith
  <2>2. CASE IsVision(e)
    <3> DEFINE others == RemoveAt(q, frame)
    <3>1. r = Append(others, e)
      BY <1>1, <2>0, <2>2 DEF AfterEnqueue, ReplacesFrame
    <3>2. /\ others \in Seq(Entry) /\ Len(others) = Len(q) - 1
          /\ \A j \in 1..(Len(q) - 1) :
               others[j] = IF j < frame THEN q[j] ELSE q[j + 1]
      BY <1>1, <2>0, RemoveAtFacts
    <3> HIDE DEF others, frame
    <3>3. /\ Len(r) = Len(q) /\ r[Len(r)] = e /\ Len(r) \in 1..Len(r)
          /\ \A j \in 1..(Len(q) - 1) : r[j] = IF j < frame THEN q[j] ELSE q[j + 1]
      BY <1>1, <2>0, <3>1, <3>2
    <3>4. FrameAt(r, Len(r))
      BY <1>1, <2>2, <3>3 DEF FrameAt, OneFrame, VisionIndices
    <3>5. /\ Lane(r) \in Seq(Payload) /\ Len(Lane(r)) = Len(r) - 1
          /\ \A j \in 1..(Len(r) - 1) :
               Lane(r)[j] = IF j < Len(r) THEN r[j].local ELSE r[j + 1].local
          /\ Slot(r) = r[Len(r)].local /\ Ahead(r) = Len(r) - 1
      BY <3>4, MapWith
    <3>6. Lane(r) = Lane(q)
      <4>1. \A j \in 1..(Len(r) - 1) : Lane(r)[j] = r[j].local
        BY <1>1, <3>3, <3>5
      <4>2. Len(Lane(r)) = Len(Lane(q)) /\ \A j \in 1..Len(Lane(q)) : Lane(r)[j] = Lane(q)[j]
        BY <1>1, <2>1, <3>3, <3>5, <4>1
      <4> QED BY <2>1, <3>5, <4>2, SeqEqual
    <3>7. Slot(r) = e.local /\ Ahead(r) = Len(Lane(q))
      BY <2>1, <3>3, <3>5
    <3>8. Policy!AcceptFrame(e.local)
      BY <2>1, <3>6, <3>7 DEF Policy!AcceptFrame, q, r
    <3> QED BY <1>1, <3>8 DEF Policy!Next
  <2>3. CASE ~IsVision(e)
    <3> HIDE DEF frame
    <3>1. r = Append(q, e) /\ Len(q) < Capacity
      BY <1>1, <2>3 DEF AfterEnqueue, Accepts, ReplacesFrame
    <3>2. /\ Len(r) = Len(q) + 1 /\ \A j \in 1..Len(q) : r[j] = q[j]
          /\ r[Len(q) + 1] = e
      BY <1>1, <3>1
    <3>3. FrameAt(r, frame)
      BY <1>1, <2>0, <2>3, <3>2 DEF FrameAt, VisionIndices
    <3>4. /\ Lane(r) \in Seq(Payload) /\ Len(Lane(r)) = Len(r) - 1
          /\ \A j \in 1..(Len(r) - 1) :
               Lane(r)[j] = IF j < frame THEN r[j].local ELSE r[j + 1].local
          /\ Slot(r) = r[frame].local /\ Ahead(r) = frame - 1
      BY <3>3, MapWith
    <3>5. Lane(r) = Append(Lane(q), e.local)
      <4>1. Lane(r)[Len(q)] = e.local
        <5>1. Len(q) \in 1..(Len(r) - 1) /\ ~(Len(q) < frame)
          BY <1>1, <2>0, <3>2
        <5>2. Lane(r)[Len(q)] = r[Len(q) + 1].local
          BY <3>4, <5>1
        <5> QED BY <3>2, <5>2
      <4>2. ASSUME NEW j \in 1..(Len(q) - 1) PROVE Lane(r)[j] = Lane(q)[j]
        <5>1. /\ j \in 1..Len(q) /\ j + 1 \in 1..Len(q)
              /\ r[j] = q[j] /\ r[j + 1] = q[j + 1]
          BY <1>1, <3>2
        <5>2. j \in 1..(Len(r) - 1)
          BY <1>1, <3>2
        <5>3. Lane(q)[j] = IF j < frame THEN q[j].local ELSE q[j + 1].local
          BY <2>1
        <5>4. Lane(r)[j] = IF j < frame THEN r[j].local ELSE r[j + 1].local
          BY <3>4, <5>2
        <5> QED BY <5>1, <5>3, <5>4
      <4>3. Len(Lane(r)) = Len(Lane(q)) + 1 /\ Len(q) = Len(Lane(q)) + 1
        <5>1. Len(Lane(q)) = Len(q) - 1 /\ Len(Lane(r)) = Len(r) - 1
          BY <2>1, <3>4
        <5> QED BY <1>1, <3>2, <5>1
      <4>4. \A j \in 1..Len(Lane(q)) : Lane(r)[j] = Lane(q)[j]
        BY <2>1, <4>2
      <4>5. Lane(r)[Len(Lane(q)) + 1] = e.local
        BY <4>1, <4>3
      <4>6. Lane(q) \in Seq(Payload) /\ Lane(r) \in Seq(Payload) /\ e.local \in Payload
        BY <1>1, <2>1, <3>4
      <4> QED BY <4>3, <4>4, <4>5, <4>6, IsPushed
    <3>6. Slot(r) = Slot(q) /\ Ahead(r) = Ahead(q)
      BY <2>0, <2>1, <3>2, <3>4
    <3>7. Policy!AcceptInput(e.local)
      BY <1>1, <2>1, <3>1, <3>5, <3>6 DEF Policy!AcceptInput, Policy!Waiting, q, r
    <3> QED BY <1>1, <3>7 DEF Policy!Next
  <2> QED BY <2>2, <2>3
<1> QED BY <1>1, <1>2, <1>3, FramedOrNot

\* The first entry is the frame when no input is ahead of it.
LEMMA DequeueIsAllowed ==
  ASSUME QueueInv, QueueInv', Dequeue
  PROVE  Policy!Next
<1> DEFINE q == entries
           r == entries'
<1>1. /\ OneFrame(q) /\ q # <<>> /\ r = Tail(q)
      /\ q \in Seq(Entry) /\ r \in Seq(Entry) /\ Len(q) \in Nat \ {0}
  BY DEF QueueInv, TypeOK, Bounded, OneFrame, Dequeue, VisionIndices
<1>2. Len(r) = Len(q) - 1 /\ \A j \in 1..Len(r) : r[j] = q[j + 1]
  BY <1>1
<1> DEFINE frame == LatestFrame(q)
<1> HIDE DEF q, r
<1>3. CASE NoFrames(q)
  <2>1. NoFrames(r)
    BY <1>1, <1>2, <1>3 DEF NoFrames, VisionIndices
  <2>2. /\ Lane(q) \in Seq(Payload) /\ Len(Lane(q)) = Len(q)
        /\ \A j \in 1..Len(q) : Lane(q)[j] = q[j].local
        /\ Slot(q) = NoFrame /\ Ahead(q) = 0
    BY <1>3, MapWithout
  <2>3. /\ Lane(r) \in Seq(Payload) /\ Len(Lane(r)) = Len(r)
        /\ \A j \in 1..Len(r) : Lane(r)[j] = r[j].local
        /\ Slot(r) = NoFrame /\ Ahead(r) = 0
    BY <2>1, MapWithout
  <2>4. Lane(q) # <<>> /\ Lane(r) = Tail(Lane(q))
    <3>1. Len(Lane(r)) = Len(Lane(q)) - 1 /\ Lane(q) # <<>>
      BY <1>1, <1>2, <2>2, <2>3
    <3>2. \A j \in 1..Len(Lane(r)) : Lane(r)[j] = Lane(q)[j + 1]
      BY <1>1, <1>2, <2>2, <2>3
    <3> QED BY <2>2, <2>3, <3>1, <3>2, IsPopped
  <2>5. Policy!ServeInput
    BY <2>2, <2>3, <2>4 DEF Policy!ServeInput, q, r
  <2> QED BY <2>5 DEF Policy!Next
<1>4. CASE FrameAt(q, frame)
  <2>0. frame \in 1..Len(q) /\ VisionIndices(q) = {frame}
    BY <1>4 DEF FrameAt
  <2>1. /\ Lane(q) \in Seq(Payload) /\ Len(Lane(q)) = Len(q) - 1
        /\ \A j \in 1..(Len(q) - 1) :
             Lane(q)[j] = IF j < frame THEN q[j].local ELSE q[j + 1].local
        /\ Slot(q) = q[frame].local /\ Slot(q) # NoFrame /\ Ahead(q) = frame - 1
    BY <1>4, MapWith
  <2> HIDE DEF frame
  <2>2. CASE frame = 1
    <3>1. NoFrames(r)
      BY <1>1, <1>2, <2>0, <2>2 DEF NoFrames, VisionIndices
    <3>2. /\ Lane(r) \in Seq(Payload) /\ Len(Lane(r)) = Len(r)
          /\ \A j \in 1..Len(r) : Lane(r)[j] = r[j].local
          /\ Slot(r) = NoFrame /\ Ahead(r) = 0
      BY <3>1, MapWithout
    <3>3. Lane(r) = Lane(q)
      <4>1. Len(Lane(q)) = Len(r) /\ Len(Lane(r)) = Len(r)
        BY <1>1, <1>2, <2>1, <3>2
      <4>2. ASSUME NEW j \in 1..Len(r) PROVE Lane(r)[j] = Lane(q)[j]
        <5>1. j \in 1..(Len(q) - 1) /\ ~(j < frame) /\ r[j] = q[j + 1]
          BY <1>1, <1>2, <2>2
        <5>2. Lane(q)[j] = q[j + 1].local
          BY <2>1, <5>1
        <5> QED BY <3>2, <5>1, <5>2
      <4> QED BY <2>1, <3>2, <4>1, <4>2, SeqEqual
    <3>4. Policy!ServeFrame
      BY <2>1, <2>2, <3>2, <3>3 DEF Policy!ServeFrame, q, r
    <3> QED BY <3>4 DEF Policy!Next
  <2>3. CASE frame # 1
    <3>1. FrameAt(r, frame - 1)
      BY <1>1, <1>2, <2>0, <2>3 DEF FrameAt, VisionIndices
    <3>2. /\ Lane(r) \in Seq(Payload) /\ Len(Lane(r)) = Len(r) - 1
          /\ \A j \in 1..(Len(r) - 1) :
               Lane(r)[j] = IF j < frame - 1 THEN r[j].local ELSE r[j + 1].local
          /\ Slot(r) = r[frame - 1].local /\ Ahead(r) = (frame - 1) - 1
      BY <3>1, MapWith
    <3>3. Lane(q) # <<>> /\ Lane(r) = Tail(Lane(q))
      <4>1. Len(Lane(r)) = Len(Lane(q)) - 1 /\ Lane(q) # <<>>
        <5>1. Len(Lane(q)) = Len(q) - 1 /\ Len(Lane(r)) = Len(r) - 1
          BY <2>1, <3>2
        <5>2. Len(q) > 1
          BY <1>1, <2>0, <2>3
        <5>3. Lane(q) # <<>>
          BY <2>1, <5>1, <5>2
        <5> QED BY <1>1, <1>2, <5>1, <5>3
      <4>2. \A j \in 1..Len(Lane(r)) : Lane(r)[j] = Lane(q)[j + 1]
        BY <1>1, <1>2, <2>0, <2>1, <2>3, <3>2
      <4> QED BY <2>1, <3>2, <4>1, <4>2, IsPopped
    <3>4. Slot(r) = Slot(q) /\ Ahead(q) > 0 /\ Ahead(r) = Ahead(q) - 1
      BY <1>1, <1>2, <2>0, <2>1, <2>3, <3>2
    <3>5. Policy!ServeInput
      BY <2>1, <3>3, <3>4 DEF Policy!ServeInput, q, r
    <3> QED BY <3>5 DEF Policy!Next
  <2> QED BY <2>2, <2>3
<1> QED BY <1>1, <1>3, <1>4, FramedOrNot

(***************************************************************************)
(* The queue implements LatestWinsFifo: inputs run in the order they came, *)
(* of the frames only the newest waits, and it overtakes no input accepted *)
(* before it (InvocationQueuePolicy::Enqueue, Dequeue).                    *)
(***************************************************************************)
THEOREM PolicyIsImplemented == Spec => ImplementsPolicy
<1>1. Init => QueueInv /\ Policy!Init
  <2> SUFFICES ASSUME Init PROVE QueueInv /\ Policy!Init
    OBVIOUS
  <2>1. NoFrames(entries) /\ entries = <<>>
    BY DEF Init, NoFrames, VisionIndices
  <2>2. /\ Lane(entries) \in Seq(Payload) /\ Len(Lane(entries)) = 0
        /\ Slot(entries) = NoFrame /\ Ahead(entries) = 0
    BY <2>1, MapWithout
  <2>3. QueueInv
    BY <2>1, QueueAssumption DEF QueueInv, TypeOK, Bounded, VisionIndices
  <2> QED BY <2>2, <2>3 DEF Policy!Init
<1>2. QueueInv /\ [Next]_entries => QueueInv' /\ [Policy!Next]_(Policy!vars)
  <2>1. ASSUME QueueInv, Next PROVE QueueInv' /\ Policy!Next
    BY <2>1, EnqueueStep, DequeueStep, EnqueueIsAllowed, DequeueIsAllowed DEF Next
  <2>2. ASSUME QueueInv, UNCHANGED entries PROVE QueueInv' /\ UNCHANGED Policy!vars
    <3>1. QueueInv'
      BY <2>2 DEF QueueInv, TypeOK, Bounded, VisionIndices
    <3>2. UNCHANGED Policy!vars
      BY <2>2 DEF Policy!vars
    <3> QED BY <3>1, <3>2
  <2> QED BY <2>1, <2>2
<1> QED BY <1>1, <1>2, PTL DEF Spec, ImplementsPolicy, Policy!Spec
====
