------------------------- MODULE PerceptionPipeline -------------------------
(***************************************************************************)
(* PerceptionPipeline (src/src/perception/perception_pipeline.cpp) takes   *)
(* the frames of ScreenshotSensor, lets through those that differ from the *)
(* one before and come late enough after the last dispatch, and encodes    *)
(* one at a time on a worker thread; the newest other one waits.           *)
(*                                                                         *)
(* The worker ends at any time; the finished signal of the QFutureWatcher  *)
(* is delivered by the event loop some time later.                         *)
(***************************************************************************)
EXTENDS Integers

CONSTANT MaxFrames   \* bound on the frames captured

VARIABLES
  p,         \* the members of PerceptionPipeline and of its sensor
  worker,    \* the encoding and the state of its future
  latest     \* m_latestFrameId: the frame last published by DataReady

vars == <<p, worker, latest>>

NoPicture == 0
Idle == [frame |-> NoPicture, state |-> "idle"]

Init ==
  /\ p = [running |-> FALSE,        \* m_isRunning; the sensor's timer runs with it
          count |-> 0,              \* m_frameCount
          pending |-> NoPicture]      \* m_pendingFrameId and its image
  /\ worker = Idle
  /\ latest = NoPicture

-----------------------------------------------------------------------------
\* StartEncoding gives the watcher a new future: a finished signal of the old one that
\* was not delivered yet is dropped.
Encode(frame) == [frame |-> frame, state |-> "encoding"]

\* ProcessSensorFrame: the gates admit the frame or not, by its content and the time.
\* isRunning() looks at the worker itself, not at whether its end was handled.
IsEncoding == worker.state = "encoding"
ProcessSensorFrame(x, admitted) ==
  LET frame == x.count + 1
      y == [x EXCEPT !.count = frame]
  IN IF ~admitted THEN p' = y /\ UNCHANGED worker
     ELSE IF IsEncoding THEN p' = [y EXCEPT !.pending = frame] /\ UNCHANGED worker
     ELSE p' = y /\ worker' = Encode(frame)

\* The sensor captures its first frame inside Start; without one nothing is started.
Start(captures, admitted) ==
  /\ ~p.running /\ p.count < MaxFrames
  /\ IF captures THEN ProcessSensorFrame([p EXCEPT !.running = TRUE], admitted)
                 ELSE UNCHANGED <<p, worker>>
  /\ UNCHANGED latest

OnFrameCaptured(admitted) ==
  /\ p.running /\ p.count < MaxFrames
  /\ ProcessSensorFrame(p, admitted)
  /\ UNCHANGED latest

StoppedWithPending(x) == [x EXCEPT !.running = FALSE]
Stopped(x) == [x EXCEPT !.running = FALSE, !.pending = NoPicture]
Stop ==
  /\ p.running
  /\ p' = Stopped(p)
  /\ UNCHANGED <<worker, latest>>

WorkerEnds ==
  /\ worker.state = "encoding"
  /\ worker' = [worker EXCEPT !.state = "ended"]
  /\ UNCHANGED <<p, latest>>

OnEncodingFinished(succeeds) ==
  /\ worker.state = "ended"
  /\ latest' = IF p.running /\ succeeds THEN worker.frame ELSE latest
  /\ IF p.running /\ p.pending # NoPicture
     THEN p' = [p EXCEPT !.pending = NoPicture] /\ worker' = Encode(p.pending)
     ELSE worker' = Idle /\ UNCHANGED p

Next ==
  \/ \E captures, admitted \in BOOLEAN : Start(captures, admitted)
  \/ \E admitted \in BOOLEAN : OnFrameCaptured(admitted)
  \/ Stop
  \/ WorkerEnds \/ \E succeeds \in BOOLEAN : OnEncodingFinished(succeeds)

Spec == Init /\ [][Next]_vars

-----------------------------------------------------------------------------
(***************************************************************************)
(* The frame that waits is never stranded: however stops and starts fall   *)
(* between the end of the worker and its signal, an encoding whose end     *)
(* will fetch the frame is under way, and only while perception is on.     *)
(***************************************************************************)
NoFrameStranded == p.pending # NoPicture => p.running /\ worker.state # "idle"

=============================================================================
