--------------------------- MODULE LatestWinsFifo ---------------------------
(***************************************************************************)
(* What the invocation queue promises (README.md, "3. Agent DAG"): user    *)
(* inputs wait in a FIFO lane; of the vision frames only the newest waits, *)
(* in a slot of its own.  A frame never overtakes the inputs that were     *)
(* there when it was accepted: `ahead' counts those not yet served.        *)
(***************************************************************************)
EXTENDS Integers, Sequences

CONSTANTS Payload,   \* the input deltas that wait
          NoFrame,   \* the empty slot
          Capacity   \* how many invocations may wait

VARIABLES lane, slot, ahead
vars == <<lane, slot, ahead>>

Waiting == Len(lane) + (IF slot = NoFrame THEN 0 ELSE 1)

Init == lane = <<>> /\ slot = NoFrame /\ ahead = 0

AcceptInput(x) ==
  /\ Waiting < Capacity
  /\ lane' = Append(lane, x)
  /\ UNCHANGED <<slot, ahead>>

AcceptFrame(f) ==
  /\ slot # NoFrame \/ Waiting < Capacity
  /\ slot' = f
  /\ ahead' = Len(lane)
  /\ UNCHANGED lane

ServeInput ==
  /\ lane # <<>>
  /\ slot # NoFrame => ahead > 0
  /\ lane' = Tail(lane)
  /\ ahead' = IF slot = NoFrame THEN 0 ELSE ahead - 1
  /\ UNCHANGED slot

ServeFrame ==
  /\ slot # NoFrame
  /\ ahead = 0
  /\ slot' = NoFrame
  /\ UNCHANGED <<lane, ahead>>

Next ==
  \/ \E x \in Payload : AcceptInput(x) \/ AcceptFrame(x)
  \/ ServeInput
  \/ ServeFrame

Spec == Init /\ [][Next]_vars
=============================================================================
