-------------------------- MODULE VoiceInputManager --------------------------
(***************************************************************************)
(* VoiceInputManager (src/src/speech/voice_input_manager.cpp) records the  *)
(* microphone into a session directory, waits until the recorder has       *)
(* written its file, runs a recognition process over the directory, and    *)
(* answers each recording with a text or a failure.                        *)
(***************************************************************************)
EXTENDS Integers

CONSTANT MaxRecordings   \* bound on the session directories

VARIABLES
  v,        \* the members of VoiceInputManager, its timers and its directory
  device,   \* the recorder and the process, which work by themselves
  answers   \* how the last recording announced by RecordingStarted was answered

vars == <<v, device, answers>>

Init ==
  /\ v = [recording |-> FALSE,      \* m_isRecording
          awaiting |-> FALSE,       \* m_awaitingRecorderStop
          timedOut |-> FALSE,       \* m_asrTimedOut
          stopTimer |-> FALSE, asrTimer |-> FALSE,
          session |-> 0,            \* the recording m_recordSessionDirectory is of
          sessions |-> 0]
  /\ device = [recorder |-> "stopped",   \* or recording, or stopping
               file |-> 0,               \* the recording it writes or wrote last
               process |-> 0,            \* the recording being recognised
               killed |-> FALSE]
  /\ answers = [of |-> 0,                \* the recording
                ends |-> 0,              \* answers by its process and its timeouts
                failed |-> FALSE]        \* whether a recorder error has answered

\* A directory that cannot be removed stays the manager's.
CleanupRecordDirectory(x) == {x, [x EXCEPT !.session = 0]}
Answers == answers' = [answers EXCEPT !.ends = @ + 1]

-----------------------------------------------------------------------------
(* The user's hotkey *)

CanStart == ~v.recording /\ ~v.awaiting /\ device.process = 0

\* PrepareRecordDirectory refuses the recording: a left-over directory that cannot be
\* removed changes nothing, a directory that cannot be made leaves none or a new one.
PreparationFails ==
  /\ CanStart /\ v.sessions < MaxRecordings
  /\ v' \in {[v EXCEPT !.session = 0], [v EXCEPT !.sessions = @ + 1, !.session = v.sessions + 1]}
  /\ UNCHANGED <<device, answers>>

\* record() does nothing on a recorder that has not stopped yet, and may fail:
\* OnRecorderError then runs inside it, and the rest of StartRecording after that.
StartRecording(works) ==
  /\ CanStart /\ v.sessions < MaxRecordings
  /\ works \/ device.recorder = "stopped"
  /\ LET x == [v EXCEPT !.sessions = @ + 1, !.session = v.sessions + 1, !.recording = TRUE]
     IN IF works THEN v' = x
                 ELSE v' \in CleanupRecordDirectory([x EXCEPT !.stopTimer = FALSE])
  /\ LET started == [device EXCEPT !.recorder = "recording", !.file = v.sessions + 1]
     IN \/ device.recorder = "stopped" /\ device' = started
        \/ (device.recorder # "stopped" \/ ~works) /\ device' = device
  /\ answers' = [of |-> v.sessions + 1, ends |-> 0, failed |-> ~works]

StopWithoutTimer ==
  /\ v.recording
  /\ v' = [v EXCEPT !.awaiting = TRUE, !.recording = FALSE]
  /\ device' = [device EXCEPT !.recorder = IF @ = "recording" THEN "stopping" ELSE @]
  /\ UNCHANGED answers
StopRecording ==
  /\ v.recording
  /\ v' = [v EXCEPT !.awaiting = TRUE, !.recording = FALSE, !.stopTimer = TRUE]
  /\ device' = [device EXCEPT !.recorder = IF @ = "recording" THEN "stopping" ELSE @]
  /\ UNCHANGED answers

-----------------------------------------------------------------------------
(* The recorder *)

\* An error ends the recording, whether or not it stops the recorder.  It is reported in
\* any case, also when a timeout has answered the recording before.
OnRecorderError ==
  /\ device.recorder # "stopped"
  /\ v' \in CleanupRecordDirectory(
              [v EXCEPT !.recording = FALSE, !.awaiting = FALSE, !.stopTimer = FALSE])
  /\ device' \in {device, [device EXCEPT !.recorder = "stopped"]}
  /\ answers' = [answers EXCEPT !.failed = TRUE]

\* StartAsrProcess: the file and the tools must be there.  A process that cannot be
\* started may report that from inside start(), before its timer is set.
FileExists == v.session # 0 /\ device.file = v.session
StartAsrProcess(x, outcome) ==
  LET y == [x EXCEPT !.timedOut = FALSE, !.asrTimer = TRUE]
      stopped == [device EXCEPT !.recorder = "stopped"]
  IN /\ outcome # "refused" => FileExists
     /\ IF outcome = "started"
        THEN /\ v' = y
             /\ device' = [stopped EXCEPT !.process = v.session, !.killed = FALSE]
             /\ UNCHANGED answers
        ELSE /\ v' \in CleanupRecordDirectory(IF outcome = "failed" THEN y ELSE x)
             /\ device' = stopped
             /\ Answers
Outcome == {"started", "failed", "refused"}

\* The recorder stops when it was asked to, or by itself.
OnRecorderStateChanged(outcome) ==
  /\ device.recorder # "stopped"
  /\ IF v.awaiting
     THEN StartAsrProcess([v EXCEPT !.awaiting = FALSE, !.stopTimer = FALSE], outcome)
     ELSE /\ device' = [device EXCEPT !.recorder = "stopped"]
          /\ UNCHANGED <<v, answers>>

OnRecorderStopTimeout ==
  /\ v.stopTimer
  /\ IF v.awaiting
     THEN /\ v' \in CleanupRecordDirectory(
                      [v EXCEPT !.awaiting = FALSE, !.recording = FALSE, !.stopTimer = FALSE])
          /\ device' = [device EXCEPT !.recorder = IF @ = "recording" THEN "stopping" ELSE @]
          /\ Answers
     ELSE v' = [v EXCEPT !.stopTimer = FALSE] /\ UNCHANGED <<device, answers>>

-----------------------------------------------------------------------------
(* The recognition process *)

\* The slot of errorOccurred
OnAsrFailedToStart ==
  /\ device.process # 0 /\ ~device.killed
  /\ device' = [device EXCEPT !.process = 0]
  /\ IF v.timedOut THEN UNCHANGED <<v, answers>>
     ELSE v' \in CleanupRecordDirectory([v EXCEPT !.asrTimer = FALSE]) /\ Answers

NothingReported(x) == FALSE
Reported(x) == x.timedOut
OnAsrProcessFinished ==
  /\ device.process # 0
  /\ device' = [device EXCEPT !.process = 0, !.killed = FALSE]
  /\ v' \in CleanupRecordDirectory([v EXCEPT !.asrTimer = FALSE, !.timedOut = FALSE])
  /\ IF Reported(v) THEN UNCHANGED answers ELSE Answers

OnAsrProcessTimeout ==
  /\ v.asrTimer
  /\ IF device.process = 0
     THEN v' = [v EXCEPT !.asrTimer = FALSE] /\ UNCHANGED <<device, answers>>
     ELSE /\ v' = [v EXCEPT !.asrTimer = FALSE, !.timedOut = TRUE]
          /\ device' = [device EXCEPT !.killed = TRUE]
          /\ Answers

Next ==
  \/ PreparationFails \/ \E works \in BOOLEAN : StartRecording(works)
  \/ StopRecording
  \/ OnRecorderError \/ \E outcome \in Outcome : OnRecorderStateChanged(outcome)
  \/ OnRecorderStopTimeout
  \/ OnAsrFailedToStart \/ OnAsrProcessFinished \/ OnAsrProcessTimeout

\* The timers fire, and a killed process ends.
Fairness ==
  /\ WF_vars(OnRecorderStopTimeout) /\ WF_vars(OnAsrProcessTimeout)
  /\ WF_vars(OnAsrProcessFinished /\ device.killed)

Spec == Init /\ [][Next]_vars /\ Fairness

-----------------------------------------------------------------------------
Answered == answers.ends = 1 \/ answers.failed

(***************************************************************************)
(* Whatever the recorder does late or by itself, the process reads the     *)
(* directory of the recording it was started for, which nobody removes     *)
(* under it, nothing records meanwhile, and only its timeout has answered. *)
(***************************************************************************)
RecordingIsKept ==
  /\ device.process # 0 => /\ v.session = device.process /\ answers.of = device.process
                           /\ ~v.recording /\ ~v.awaiting /\ device.recorder = "stopped"
                           /\ answers.ends = IF v.timedOut THEN 1 ELSE 0
  /\ v.recording \/ v.awaiting => answers.ends = 0

(***************************************************************************)
(* No recording is over without an answer, and its process, the failure to *)
(* start it and the two timeouts answer it at most once together.  A       *)
(* recorder error is reported besides, whatever was answered before or is  *)
(* answered later (OnRecorderError, voice_input_manager.cpp:219-229): when *)
(* the recorder fails inside record() or after the stop timeout, the user  *)
(* hears of the recording more than once.                                  *)
(***************************************************************************)
AnsweredOnce ==
  /\ answers.ends <= 1 /\ RecordingIsKept
  /\ CanStart /\ answers.of # 0 => Answered

(***************************************************************************)
(* A recording the user has stopped is answered, a text or a failure, and  *)
(* the next one is no longer refused as busy: the recorder may hang and so *)
(* may the process.  It can still be refused for the directory that is     *)
(* left when that cannot be removed (PrepareRecordDirectory).              *)
(***************************************************************************)
StoppedIsAnswered == v.awaiting \/ device.process # 0 ~> CanStart /\ Answered

=============================================================================
