--------------------------- MODULE Services_proofs ---------------------------
(***************************************************************************)
(* The services of MCServices interleave and share no variable: whichever  *)
(* moves, the others stutter (EachPartMovesAlone). So each part has an     *)
(* inductive invariant of its own, kept by its own Next, and its theorem   *)
(* is about ServicesSpec:                                                  *)
(*   PerceptionInv    the frame that waits is one that was captured        *)
(*   VoiceInv         the directory is that of the recording still owed    *)
(*   ServerInv        a ready or scheduled server has no request or timer  *)
(*   ResearchInv      a study keeps to its plan, no place is given twice   *)
(*   EditorInv        a tab holds no revision its server has not made      *)
(*   ToolLoopInv      a loop in progress waits for exactly one thing       *)
(*   TranscriptInv    every call is answered, or still owed in order       *)
(*   DocumentInv      how far the body has come                            *)
(*   ReplyInv         what is held of a reply and what is still unread     *)
(* The consolidator's theorem is that of MemoryConsolidator_proofs.        *)
(***************************************************************************)
EXTENDS MCServices, FiniteSetTheorems, SequenceTheorems, WellFoundedInduction, TLAPS

\* Whichever part moves, each part makes a step of its own or none.
LEMMA EachPartMovesAlone ==
  [ServicesNext]_servicesVars =>
    /\ [Loop!Next]_loopVars /\ [Server!Next]_serverVars /\ [Voice!Next]_voiceVars
    /\ [Perception!Next]_perceptionVars /\ [Research!Next]_researchVars
    /\ [Editor!Next]_editorVars /\ [Document!Next]_documentVars
    /\ [Consolidator!Next]_turnVars /\ [Reply!Next]_replyVars
BY DEF ServicesNext, servicesVars

-----------------------------------------------------------------------------
(* PerceptionPipeline *)

\* The frame that waits is one that was captured.
PerceptionInv ==
  /\ perception \in [running : BOOLEAN, count : Nat, pending : Nat]
  /\ worker \in [frame : Nat, state : {"idle", "encoding", "ended"}]
  /\ NoFrameStranded

LEMMA PerceptionKeeps == PerceptionInv /\ [Perception!Next]_perceptionVars => PerceptionInv'
<1> SUFFICES ASSUME PerceptionInv, [Perception!Next]_perceptionVars PROVE PerceptionInv'
  OBVIOUS
<1> USE DEF PerceptionInv, NoFrameStranded, Perception!NoFrameStranded, Perception!NoPicture
<1>1. ASSUME NEW x \in [running : BOOLEAN, count : Nat, pending : Nat],
             NEW admitted \in BOOLEAN,
             x.pending # 0 => x.running /\ worker.state # "idle", x.running,
             Perception!ProcessSensorFrame(x, admitted)
      PROVE  PerceptionInv'
  <2> DEFINE y == [x EXCEPT !.count = x.count + 1]
  <2>1. /\ y \in [running : BOOLEAN, count : Nat, pending : Nat]
        /\ y.running /\ y.pending = x.pending /\ y.count = x.count + 1
    BY <1>1
  <2>2. \/ perception' = y /\ worker' = worker
        \/ worker.state = "encoding" /\ perception' = [y EXCEPT !.pending = x.count + 1]
           /\ worker' = worker
        \/ perception' = y /\ worker' = [frame |-> x.count + 1, state |-> "encoding"]
    BY <1>1 DEF Perception!ProcessSensorFrame, Perception!IsEncoding, Perception!Encode
  <2> HIDE DEF y
  <2> QED BY <1>1, <2>1, <2>2
<1>2. ASSUME NEW captures \in BOOLEAN, NEW admitted \in BOOLEAN,
             Perception!Start(captures, admitted)
      PROVE  PerceptionInv'
  <2>1. CASE captures
    BY <1>1, <1>2, <2>1 DEF Perception!Start
  <2>2. CASE ~captures
    BY <1>2, <2>2 DEF Perception!Start
  <2> QED BY <2>1, <2>2
<1>3. ASSUME NEW admitted \in BOOLEAN, Perception!OnFrameCaptured(admitted)
      PROVE  PerceptionInv'
  BY <1>1, <1>3 DEF Perception!OnFrameCaptured
<1>4. ASSUME Perception!Stop PROVE PerceptionInv'
  BY <1>4 DEF Perception!Stop, Perception!Stopped
<1>5. ASSUME Perception!WorkerEnds PROVE PerceptionInv'
  BY <1>5 DEF Perception!WorkerEnds
<1>6. ASSUME NEW succeeds \in BOOLEAN, Perception!OnEncodingFinished(succeeds)
      PROVE  PerceptionInv'
  BY <1>6 DEF Perception!OnEncodingFinished, Perception!Encode, Perception!Idle
<1>7. ASSUME UNCHANGED perceptionVars PROVE PerceptionInv'
  BY <1>7 DEF perceptionVars
<1> QED
  BY <1>2, <1>3, <1>4, <1>5, <1>6, <1>7 DEF Perception!Next

\* However stops, starts and the encoder's end interleave, a waiting frame will be fetched
\* (PerceptionPipeline::OnEncodingFinished).
THEOREM FramesAreFetched == ServicesSpec => []NoFrameStranded
<1>1. ServicesInit => PerceptionInv
  BY DEF ServicesInit, Perception!Init, Perception!Idle, Perception!NoPicture, PerceptionInv,
         NoFrameStranded, Perception!NoFrameStranded
<1>2. PerceptionInv /\ [ServicesNext]_servicesVars => PerceptionInv'
  BY EachPartMovesAlone, PerceptionKeeps
<1>3. PerceptionInv => NoFrameStranded
  BY DEF PerceptionInv
<1> QED BY <1>1, <1>2, <1>3, PTL DEF ServicesSpec

-----------------------------------------------------------------------------
(* VoiceInputManager *)

VoiceMembers ==
  [recording : BOOLEAN, awaiting : BOOLEAN, timedOut : BOOLEAN, stopTimer : BOOLEAN,
   asrTimer : BOOLEAN, session : Nat, sessions : Nat]
Device ==
  [recorder : {"stopped", "recording", "stopping"}, file : Nat, process : Nat, killed : BOOLEAN]
VoiceTypes ==
  /\ voice \in VoiceMembers /\ device \in Device
  /\ answers \in [of : Nat, ends : Nat, failed : BOOLEAN]

\* The directory is of the recording that is being answered, and the timeout of a
\* recognition is armed only until it has fired.
VoiceInv ==
  /\ VoiceTypes
  /\ AnsweredOnce
  /\ ~(voice.recording /\ voice.awaiting)
  /\ (voice.recording \/ voice.awaiting) /\ voice.session # 0 => answers.of = voice.session
  /\ voice.asrTimer => ~voice.timedOut

LEMMA CleanedUp ==
  ASSUME NEW x \in VoiceMembers, NEW y \in Voice!CleanupRecordDirectory(x)
  PROVE  /\ y \in VoiceMembers
         /\ y.session \in {0, x.session} /\ y.recording = x.recording /\ y.awaiting = x.awaiting
         /\ y.asrTimer = x.asrTimer /\ y.timedOut = x.timedOut /\ y.sessions = x.sessions
BY DEF Voice!CleanupRecordDirectory, VoiceMembers

LEMMA VoiceKeeps == VoiceInv /\ [Voice!Next]_voiceVars => VoiceInv'
<1> SUFFICES ASSUME VoiceInv, [Voice!Next]_voiceVars PROVE VoiceInv'
  OBVIOUS
<1> USE DEF VoiceInv, VoiceTypes, AnsweredOnce, Voice!AnsweredOnce, Voice!RecordingIsKept,
            Voice!Answers, Voice!Answered, Voice!CanStart, VoiceMembers, Device
<1>1. ASSUME NEW works \in BOOLEAN, Voice!StartRecording(works) PROVE VoiceInv'
  <2> DEFINE n == voice.sessions + 1
  <2>0. n \in Nat /\ n # 0
    OBVIOUS
  <2> HIDE DEF n
  <2> DEFINE x == [voice EXCEPT !.sessions = n, !.session = n, !.recording = TRUE]
  <2> DEFINE z == [x EXCEPT !.stopTimer = FALSE]
  <2>1. /\ x \in VoiceMembers
        /\ x.awaiting = voice.awaiting /\ x.asrTimer = voice.asrTimer
        /\ x.timedOut = voice.timedOut /\ x.session = n /\ x.recording
    BY <2>0
  <2>2. voice' = x \/ voice' \in Voice!CleanupRecordDirectory(z)
    BY <1>1 DEF Voice!StartRecording, n
  <2> HIDE DEF x
  <2>3. /\ z \in VoiceMembers /\ z.recording /\ z.session = n
        /\ z.awaiting = x.awaiting /\ z.asrTimer = x.asrTimer /\ z.timedOut = x.timedOut
    BY <2>1
  <2> HIDE DEF z
  <2>4. /\ voice' \in VoiceMembers
        /\ ~voice'.awaiting /\ voice'.recording /\ voice'.asrTimer = voice.asrTimer
        /\ voice'.timedOut = voice.timedOut /\ voice'.session \in {0, n}
    BY <1>1, <2>1, <2>2, <2>3, CleanedUp DEF Voice!StartRecording
  <2>5. /\ device.process = 0 /\ answers' = [of |-> n, ends |-> 0, failed |-> ~works]
        /\ device' \in {device, [device EXCEPT !.recorder = "recording", !.file = n]}
    BY <1>1 DEF Voice!StartRecording, n
  <2>6. device' \in Device /\ device'.process = 0
    BY <2>0, <2>5
  <2> QED BY <2>0, <2>4, <2>5, <2>6
<1>2. ASSUME Voice!StopRecording PROVE VoiceInv'
  BY <1>2 DEF Voice!StopRecording
<1>10. ASSUME Voice!PreparationFails PROVE VoiceInv'
  <2> DEFINE n == voice.sessions + 1
             x == [voice EXCEPT !.session = 0]
             y == [voice EXCEPT !.sessions = n, !.session = n]
  <2>1. n \in Nat
    OBVIOUS
  <2>2. voice' \in {x, y} /\ ~voice.recording /\ ~voice.awaiting
        /\ UNCHANGED <<device, answers>>
    BY <1>10 DEF Voice!PreparationFails
  <2> HIDE DEF n
  <2>3. /\ x \in VoiceMembers /\ ~x.recording /\ ~x.awaiting
        /\ x.asrTimer = voice.asrTimer /\ x.timedOut = voice.timedOut
    BY <2>2
  <2>4. /\ y \in VoiceMembers /\ ~y.recording /\ ~y.awaiting
        /\ y.asrTimer = voice.asrTimer /\ y.timedOut = voice.timedOut
    BY <2>1, <2>2
  <2> HIDE DEF x, y
  <2>5. device.process = 0
    BY <1>10 DEF Voice!PreparationFails
  <2> QED BY <2>2, <2>3, <2>4, <2>5
<1>3. ASSUME Voice!OnRecorderError PROVE VoiceInv'
  <2> DEFINE z == [voice EXCEPT !.recording = FALSE, !.awaiting = FALSE, !.stopTimer = FALSE]
  <2>1. /\ z \in VoiceMembers /\ ~z.recording /\ ~z.awaiting
        /\ z.asrTimer = voice.asrTimer /\ z.timedOut = voice.timedOut
    OBVIOUS
  <2>2. /\ voice' \in Voice!CleanupRecordDirectory(z) /\ device.recorder # "stopped"
        /\ device' \in {device, [device EXCEPT !.recorder = "stopped"]}
        /\ answers' = [answers EXCEPT !.failed = TRUE]
    BY <1>3 DEF Voice!OnRecorderError
  <2> HIDE DEF z
  <2> QED BY <2>1, <2>2, CleanedUp
<1>4. ASSUME NEW outcome \in Voice!Outcome, Voice!OnRecorderStateChanged(outcome) PROVE VoiceInv'
  <2> DEFINE z == [voice EXCEPT !.awaiting = FALSE, !.stopTimer = FALSE]
             y == [z EXCEPT !.timedOut = FALSE, !.asrTimer = TRUE]
  <2>1. /\ z \in VoiceMembers /\ z.recording = voice.recording /\ ~z.awaiting
        /\ z.session = voice.session
        /\ z.asrTimer = voice.asrTimer /\ z.timedOut = voice.timedOut
    OBVIOUS
  <2>2. /\ voice.awaiting /\ outcome = "started" =>
             /\ voice' = y /\ UNCHANGED answers /\ voice.session # 0
             /\ device' = [device EXCEPT !.recorder = "stopped", !.process = voice.session,
                                         !.killed = FALSE]
        /\ voice.awaiting /\ outcome # "started" =>
             /\ voice' \in Voice!CleanupRecordDirectory(IF outcome = "failed" THEN y ELSE z)
             /\ device' = [device EXCEPT !.recorder = "stopped"]
             /\ Voice!Answers /\ device.recorder # "stopped"
    BY <1>4 DEF Voice!OnRecorderStateChanged, Voice!StartAsrProcess, Voice!FileExists
  <2> HIDE DEF z
  <2>3. /\ y \in VoiceMembers /\ y.recording = z.recording /\ y.awaiting = z.awaiting
        /\ y.session = z.session /\ y.asrTimer /\ ~y.timedOut
    BY <2>1
  <2> HIDE DEF y
  <2>4. CASE voice.awaiting /\ outcome = "started"
    BY <2>1, <2>2, <2>3, <2>4
  <2>5. CASE voice.awaiting /\ outcome # "started"
    <3>1. /\ voice' \in VoiceMembers /\ ~voice'.recording /\ ~voice'.awaiting
          /\ voice'.asrTimer => ~voice'.timedOut
      BY <2>1, <2>2, <2>3, <2>5, CleanedUp
    <3> QED BY <2>2, <2>5, <3>1
  <2>6. CASE ~voice.awaiting
    BY <1>4, <2>6 DEF Voice!OnRecorderStateChanged
  <2> QED BY <2>4, <2>5, <2>6
<1>5. ASSUME Voice!OnRecorderStopTimeout PROVE VoiceInv'
  <2>1. CASE voice.awaiting
    <3> DEFINE z == [voice EXCEPT !.awaiting = FALSE, !.recording = FALSE, !.stopTimer = FALSE]
    <3>1. /\ z \in VoiceMembers /\ ~z.recording /\ ~z.awaiting
          /\ z.asrTimer = voice.asrTimer /\ z.timedOut = voice.timedOut
      OBVIOUS
    <3>2. /\ voice' \in Voice!CleanupRecordDirectory(z) /\ Voice!Answers
          /\ device' = [device EXCEPT !.recorder = IF @ = "recording" THEN "stopping" ELSE @]
      BY <1>5, <2>1 DEF Voice!OnRecorderStopTimeout
    <3> HIDE DEF z
    <3> QED BY <2>1, <3>1, <3>2, CleanedUp
  <2>2. CASE ~voice.awaiting
    BY <1>5, <2>2 DEF Voice!OnRecorderStopTimeout
  <2> QED BY <2>1, <2>2
<1>6. ASSUME Voice!OnAsrFailedToStart PROVE VoiceInv'
  <2>1. CASE voice.timedOut
    BY <1>6, <2>1 DEF Voice!OnAsrFailedToStart
  <2>2. CASE ~voice.timedOut
    <3> DEFINE z == [voice EXCEPT !.asrTimer = FALSE]
    <3>1. /\ z \in VoiceMembers /\ z.recording = voice.recording
          /\ z.awaiting = voice.awaiting /\ ~z.asrTimer
      OBVIOUS
    <3>2. /\ voice' \in Voice!CleanupRecordDirectory(z) /\ Voice!Answers
          /\ device.process # 0 /\ device' = [device EXCEPT !.process = 0]
      BY <1>6, <2>2 DEF Voice!OnAsrFailedToStart
    <3> HIDE DEF z
    <3> QED BY <2>2, <3>1, <3>2, CleanedUp
  <2> QED BY <2>1, <2>2
<1>7. ASSUME Voice!OnAsrProcessFinished PROVE VoiceInv'
  <2> DEFINE z == [voice EXCEPT !.asrTimer = FALSE, !.timedOut = FALSE]
  <2>1. /\ z \in VoiceMembers /\ z.recording = voice.recording
        /\ z.awaiting = voice.awaiting /\ ~z.asrTimer
    OBVIOUS
  <2>2. /\ voice' \in Voice!CleanupRecordDirectory(z)
        /\ device.process # 0 /\ device' = [device EXCEPT !.process = 0, !.killed = FALSE]
    BY <1>7 DEF Voice!OnAsrProcessFinished
  <2> HIDE DEF z
  <2>3. /\ voice' \in VoiceMembers /\ ~voice'.recording /\ ~voice'.awaiting
        /\ ~voice'.asrTimer
    BY <2>1, <2>2, CleanedUp
  <2>4. answers' \in [of : Nat, ends : Nat, failed : BOOLEAN] /\ answers'.ends = 1
    BY <1>7 DEF Voice!OnAsrProcessFinished, Voice!Reported
  <2>5. device' \in Device /\ device'.process = 0
    BY <2>2
  <2> QED BY <2>3, <2>4, <2>5
<1>8. ASSUME Voice!OnAsrProcessTimeout PROVE VoiceInv'
  <2>1. CASE device.process = 0
    BY <1>8, <2>1 DEF Voice!OnAsrProcessTimeout
  <2>2. CASE device.process # 0
    <3>1. /\ voice' = [voice EXCEPT !.asrTimer = FALSE, !.timedOut = TRUE]
          /\ device' = [device EXCEPT !.killed = TRUE]
          /\ voice.asrTimer /\ Voice!Answers
      BY <1>8, <2>2 DEF Voice!OnAsrProcessTimeout
    <3>2. answers' \in [of : Nat, ends : Nat, failed : BOOLEAN] /\ answers'.ends = 1
          /\ answers'.of = answers.of
      BY <2>2, <3>1
    <3>3. /\ voice' \in VoiceMembers /\ voice'.timedOut /\ ~voice'.asrTimer
          /\ voice'.recording = voice.recording /\ voice'.awaiting = voice.awaiting
          /\ voice'.session = voice.session
      BY <3>1
    <3>4. /\ device' \in Device
          /\ device'.process = device.process /\ device'.recorder = device.recorder
      BY <3>1
    <3> QED BY <2>2, <3>2, <3>3, <3>4
  <2> QED BY <2>1, <2>2
<1>9. ASSUME UNCHANGED voiceVars PROVE VoiceInv'
  BY <1>9 DEF voiceVars
<1> QED
  BY <1>1, <1>2, <1>3, <1>4, <1>5, <1>6, <1>7, <1>8, <1>9, <1>10 DEF Voice!Next

\* Every recording that is over was answered, by its process and timeouts at most once, and
\* nothing takes its directory away from the recognition that reads it (VoiceInputManager).
THEOREM RecordingsAnsweredOnce == ServicesSpec => []AnsweredOnce
<1>1. ServicesInit => VoiceInv
  BY DEF ServicesInit, Voice!Init, VoiceInv, VoiceTypes, VoiceMembers, Device, AnsweredOnce,
         Voice!AnsweredOnce, Voice!RecordingIsKept
<1>2. VoiceInv /\ [ServicesNext]_servicesVars => VoiceInv'
  BY EachPartMovesAlone, VoiceKeeps
<1>3. VoiceInv => AnsweredOnce
  BY DEF VoiceInv
<1> QED BY <1>1, <1>2, <1>3, PTL DEF ServicesSpec

-----------------------------------------------------------------------------
(* TtsServerManager *)

\* main waits before it stops; nothing was started before it does; a server that is ready,
\* or a restart that is due, has no request and no timer left; a delayed start has none yet.
ServerMembers ==
  [process : Nat, instance : Nat, polling : BOOLEAN, delay : BOOLEAN, watchdog : BOOLEAN,
   ready : BOOLEAN, scheduled : BOOLEAN, attempts : Nat, restarts : Nat]
Quiet(s) == s.process = 0 /\ ~s.polling /\ ~s.delay /\ ~s.watchdog
ServerInv ==
  /\ server \in ServerMembers
  /\ port \in [asked : BOOLEAN, by : Nat \cup {Foreign}]
  /\ main \in [phase : {"starting", "waiting", "running", "stopped"}, reported : BOOLEAN,
               heard : Nat \cup {Foreign}]
  /\ ReadyIsOurs
  /\ server.ready => ~server.delay /\ ~port.asked
  /\ server.delay => ~server.polling /\ ~port.asked
  /\ server.scheduled => Quiet(server) /\ ~port.asked /\ ~server.ready
  /\ main.phase = "starting" =>
       /\ Quiet(server) /\ ~port.asked /\ ~server.ready
       /\ ~server.scheduled /\ server.restarts = 0

LEMMA WithoutProcessFields ==
  ASSUME NEW x \in ServerMembers
  PROVE  LET y == Server!WithoutProcess(x) IN
         /\ y \in ServerMembers /\ Quiet(y) /\ ~y.ready
         /\ y.scheduled = x.scheduled /\ y.restarts = x.restarts
         /\ y.attempts = x.attempts /\ y.instance = x.instance
BY DEF Server!WithoutProcess, ServerMembers, Quiet

LEMMA StoppedFields ==
  ASSUME NEW x \in ServerMembers
  PROVE  LET y == Server!Stopped(x) IN
         y \in ServerMembers /\ Quiet(y) /\ ~y.ready /\ ~y.scheduled
<1> DEFINE w == Server!WithoutProcess(x)
<1>1. w \in ServerMembers /\ Quiet(w) /\ ~w.ready
  BY WithoutProcessFields
<1>2. Server!Stopped(x) = [w EXCEPT !.scheduled = FALSE]
  BY DEF Server!Stopped
<1> HIDE DEF w
<1> QED BY <1>1, <1>2 DEF ServerMembers, Quiet

\* A start leaves an instance of its own running, or none.
StartedFrom(x, y) ==
  /\ y \in ServerMembers
  /\ y.process \in {0, y.instance}
  /\ y.delay /\ ~y.ready /\ y.polling = x.polling /\ y.scheduled = x.scheduled

LEMMA StartFields ==
  ASSUME NEW x \in ServerMembers, x.process = 0, ~x.ready,
         Server!StartsProcess(x) \/ Server!FailsAtOnce(x)
  PROVE  StartedFrom(x, server')
<1> DEFINE n == x.instance + 1
<1>0. n \in Nat /\ n # 0
  BY DEF ServerMembers
<1> HIDE DEF n
<1> DEFINE w == [x EXCEPT !.instance = n, !.delay = TRUE, !.watchdog = TRUE]
<1>1. /\ w \in ServerMembers /\ w.process = 0 /\ w.instance = n
      /\ w.delay /\ ~w.ready /\ w.polling = x.polling /\ w.scheduled = x.scheduled
  BY <1>0 DEF ServerMembers
<1>2. server' = [w EXCEPT !.process = n] \/ server' = [w EXCEPT !.ready = FALSE]
  BY DEF Server!StartsProcess, Server!FailsAtOnce, Server!Launched, n
<1> HIDE DEF w
<1> QED BY <1>0, <1>1, <1>2 DEF StartedFrom, ServerMembers

\* What ScheduleRestart makes of a server without a process.
LEMMA RestartFields ==
  ASSUME NEW x \in ServerMembers, Quiet(x), ~x.ready
  PROVE  LET y == Server!ScheduleRestart(x) IN
         y \in ServerMembers /\ Quiet(y) /\ ~y.ready
<1>1. CASE x.scheduled \/ x.attempts >= MaxRestartAttempts
  BY <1>1 DEF Server!ScheduleRestart
<1>2. CASE ~(x.scheduled \/ x.attempts >= MaxRestartAttempts)
  <2> DEFINE n == x.attempts + 1
             m == x.restarts + 1
  <2>1. n \in Nat /\ m \in Nat
    BY DEF ServerMembers
  <2>2. Server!ScheduleRestart(x)
        = [x EXCEPT !.attempts = n, !.scheduled = TRUE, !.restarts = m]
    BY <1>2 DEF Server!ScheduleRestart
  <2> HIDE DEF n, m
  <2> QED BY <2>1, <2>2 DEF ServerMembers, Quiet
<1> QED BY <1>1, <1>2

LEMMA ServerKeeps == ServerInv /\ [Server!Next]_serverVars => ServerInv'
<1> SUFFICES ASSUME ServerInv, [Server!Next]_serverVars PROVE ServerInv'
  OBVIOUS
<1> USE DEF ServerInv, ReadyIsOurs, Server!ReadyIsOurs, Quiet
<1>a. ASSUME server' \in ServerMembers, Quiet(server'), ~server'.ready, ~server'.scheduled,
             port' \in [asked : BOOLEAN, by : Nat \cup {Foreign}],
             main' \in [phase : {"waiting", "running", "stopped"}, reported : BOOLEAN,
                       heard : Nat \cup {Foreign}]
      PROVE  ServerInv'
  BY <1>a
<1>b. ASSUME Server!Reports, main.phase # "starting"
      PROVE  /\ main' \in [phase : {"running", "stopped"}, reported : BOOLEAN,
                           heard : Nat \cup {Foreign}]
             /\ main'.phase = "stopped" <=> main.phase = "stopped"
             /\ main'.heard = port.by
  BY <1>b DEF Server!Reports
<1>1. ASSUME Server!MainStarts PROVE ServerInv'
  <2>0. main.phase = "starting" /\ port' = port
    BY <1>1 DEF Server!MainStarts
  <2>1. CASE Server!StartRefused /\ main' = [main EXCEPT !.phase = "running", !.reported = TRUE]
    BY <2>0, <2>1 DEF Server!StartRefused
  <2>2. ASSUME Server!StartsProcess(server) \/ Server!FailsAtOnce(server),
               main' = [main EXCEPT !.phase = "waiting", !.reported = FALSE]
               \/ main' = [main EXCEPT !.phase = "waiting", !.reported = TRUE]
        PROVE  ServerInv'
    <3>1. StartedFrom(server, server')
      BY <2>0, <2>2, StartFields
    <3> QED BY <2>0, <2>2, <3>1 DEF StartedFrom
  <2> QED BY <1>1, <2>1, <2>2 DEF Server!MainStarts
<1>2. ASSUME Server!SafetyTimeout PROVE ServerInv'
  BY <1>2 DEF Server!SafetyTimeout
<1>3. ASSUME Server!MainStops PROVE ServerInv'
  BY <1>3, <1>a, StoppedFields DEF Server!MainStops, Server!NoRequest
<1>4. ASSUME Server!StartPolling PROVE ServerInv'
  BY <1>4 DEF Server!StartPolling, ServerMembers
<1>5. ASSUME Server!OnHealthCheckTimer PROVE ServerInv'
  BY <1>5 DEF Server!OnHealthCheckTimer
<1>6. ASSUME NEW id, Server!ServerAnswers(id) PROVE ServerInv'
  <2>1. port.asked /\ id \in Nat \cup {Foreign} /\ port' = [port EXCEPT !.by = id]
    BY <1>6 DEF Server!ServerAnswers, ServerMembers
  <2>2. server' = server /\ main' = main
    BY <1>6 DEF Server!ServerAnswers
  <2> QED BY <2>1, <2>2
<1>7. ASSUME Server!HealthCheckFinished PROVE ServerInv'
  <2>0. port.asked /\ port' = [asked |-> FALSE, by |-> 0]
    BY <1>7 DEF Server!HealthCheckFinished, Server!NoRequest
  <2>1. CASE port.by # 0 /\ Server!IsOurs(port.by)
    <3>1. /\ server.process # 0 /\ port.by = server.process
          /\ server' = [server EXCEPT !.polling = FALSE, !.watchdog = FALSE, !.ready = TRUE,
                                      !.attempts = 0]
          /\ Server!Reports
      BY <1>7, <2>1 DEF Server!HealthCheckFinished, Server!IsOurs
    <3>2. /\ server' \in ServerMembers /\ server'.ready
          /\ ~server'.polling /\ ~server'.watchdog
          /\ server'.delay = server.delay /\ server'.scheduled = server.scheduled
          /\ server'.process = server.process /\ server'.instance = server.instance
      BY <3>1 DEF ServerMembers
    <3> QED BY <1>b, <2>0, <3>1, <3>2
  <2>2. CASE ~(port.by # 0 /\ Server!IsOurs(port.by))
    BY <1>7, <2>0, <2>2 DEF Server!HealthCheckFinished
  <2> QED BY <2>1, <2>2
<1>8. ASSUME Server!OnFailedToStart PROVE ServerInv'
  BY <1>8, <1>a, <1>b, WithoutProcessFields DEF Server!OnFailedToStart
<1>9. ASSUME Server!OnProcessFinished PROVE ServerInv'
  BY <1>9, <1>b, WithoutProcessFields, RestartFields DEF Server!OnProcessFinished
<1>10. ASSUME Server!Restart PROVE ServerInv'
  <2> DEFINE x == [server EXCEPT !.restarts = server.restarts - 1]
  <2>0. /\ server.restarts > 0 /\ port' = port /\ main.phase # "starting"
        /\ server.restarts - 1 \in Nat
    BY <1>10 DEF Server!Restart, ServerMembers
  <2>1. /\ x \in ServerMembers
        /\ \A f \in {"process", "instance"} : x[f] = server[f]
        /\ x.polling = server.polling /\ x.delay = server.delay
        /\ x.watchdog = server.watchdog /\ x.ready = server.ready
        /\ x.scheduled = server.scheduled
    BY <2>0 DEF ServerMembers
  <2> HIDE DEF x
  <2> DEFINE y == [x EXCEPT !.scheduled = FALSE]
  <2>2. y \in ServerMembers /\ ~y.scheduled
    BY <2>1 DEF ServerMembers
  <2>3. CASE ~server.scheduled \/ server.process # 0
    <3>1. server' = x /\ main' = main
      BY <1>10, <2>3 DEF Server!Restart, x
    <3> QED BY <2>0, <2>1, <3>1
  <2>4. CASE ~(~server.scheduled \/ server.process # 0)
    <3>1. Quiet(y) /\ ~y.ready
      BY <2>1, <2>4 DEF ServerMembers
    <3>2. \/ server' = y /\ Server!Reports
          \/ Server!StartsProcess(y) /\ main' = [main EXCEPT !.reported = FALSE]
          \/ Server!FailsAtOnce(y) /\ Server!Reports
      BY <1>10, <2>4 DEF Server!Restart, x
    <3> HIDE DEF y
    <3>3. ~port.asked /\ main.phase # "stopped"
      BY <2>4
    <3>4. CASE server' = y /\ Server!Reports
      BY <1>a, <1>b, <2>0, <2>2, <3>1, <3>4
    <3>5. ASSUME Server!StartsProcess(y) \/ Server!FailsAtOnce(y),
                 main' = [main EXCEPT !.reported = FALSE] \/ Server!Reports
          PROVE  ServerInv'
      <4>1. StartedFrom(y, server')
        BY <2>2, <3>1, <3>5, StartFields
      <4>2. /\ main' \in [phase : {"waiting", "running"}, reported : BOOLEAN,
                          heard : Nat \cup {Foreign}]
        BY <1>b, <2>0, <3>3, <3>5
      <4> QED BY <2>0, <2>2, <3>1, <3>3, <4>1, <4>2 DEF StartedFrom
    <3> QED BY <3>2, <3>4, <3>5
  <2> QED BY <2>3, <2>4
<1>11. ASSUME Server!OnStartupTimeout PROVE ServerInv'
  <2>1. CASE server.ready \/ server.process = 0
    BY <1>11, <2>1 DEF Server!OnStartupTimeout, ServerMembers
  <2>2. CASE ~(server.ready \/ server.process = 0)
    <3>1. /\ server' = Server!Stopped(server) /\ Server!Reports
          /\ port' = [asked |-> FALSE, by |-> 0] /\ main.phase # "starting"
      BY <1>11, <2>2 DEF Server!OnStartupTimeout, Server!NoRequest
    <3> QED BY <1>a, <1>b, <3>1, StoppedFields
  <2> QED BY <2>1, <2>2
<1>12. ASSUME UNCHANGED serverVars PROVE ServerInv'
  BY <1>12 DEF serverVars
<1> QED
  BY <1>1, <1>2, <1>3, <1>4, <1>5, <1>6, <1>7, <1>8, <1>9, <1>10, <1>11, <1>12
     DEF Server!Next

\* A server counts as ready only by its own answer, and none is started once the manager was
\* stopped (TtsServerManager::OnHealthCheckFinished, ScheduleRestart).
THEOREM ReadyServerIsOurs == ServicesSpec => []ReadyIsOurs
<1>1. ServicesInit => ServerInv
  BY DEF ServicesInit, Server!Init, Server!NoRequest, ServerInv, ServerMembers, Quiet,
         ReadyIsOurs, Server!ReadyIsOurs
<1>2. ServerInv /\ [ServicesNext]_servicesVars => ServerInv'
  BY EachPartMovesAlone, ServerKeeps
<1>3. ServerInv => ReadyIsOurs
  BY DEF ServerInv
<1> QED BY <1>1, <1>2, <1>3, PTL DEF ServicesSpec

-----------------------------------------------------------------------------
(* MemoryConsolidator: its own theorem, of a part that also rests. *)

Consolidation == INSTANCE MemoryConsolidator_proofs

\* The consolidator's theorem, for the part of that name (MemoryConsolidator).
THEOREM ServicesConsolidateATurn == ServicesSpec => []ConsolidationIsOfItsTurn
<1>1. ServicesInit => Consolidation!Init
  BY DEF ServicesInit, Consolidator!Init, Consolidation!Init
<1>2. [ServicesNext]_servicesVars => [Consolidation!Next]_(Consolidation!vars)
  <2>1. Consolidator!Response(Consolidator!Ids) = Consolidation!Response(Consolidation!Ids)
    BY DEF
      Consolidator!Blank, Consolidation!Blank, Consolidator!Text, Consolidation!Text,
      Consolidator!Proper, Consolidation!Proper, Consolidator!Variants,
      Consolidation!Variants, Consolidator!Response, Consolidation!Response,
      Consolidator!Ids, Consolidation!Ids
  <2>2. ASSUME NEW n, NEW response, Consolidator!HandleLlmCompleted(n, response)
        PROVE  Consolidation!HandleLlmCompleted(n, response)
    BY <2>2 DEF
      Consolidator!Blank, Consolidation!Blank, Consolidator!Lower, Consolidation!Lower,
      Consolidator!ValidateContent, Consolidation!ValidateContent,
      Consolidator!ValidateEntry, Consolidation!ValidateEntry, Consolidator!ParseType,
      Consolidation!ParseType, Consolidator!ParseTags, Consolidation!ParseTags,
      Consolidator!ParseRelation, Consolidation!ParseRelation, Consolidator!TargetFits,
      Consolidation!TargetFits, Consolidator!ParseCandidate, Consolidation!ParseCandidate,
      Consolidator!Candidate, Consolidation!Candidate, Consolidator!ParseCandidates,
      Consolidation!ParseCandidates, Consolidator!TryEnqueueConsolidation,
      Consolidation!TryEnqueueConsolidation, Consolidator!HandleLlmCompleted,
      Consolidation!HandleLlmCompleted
  <2>3. ASSUME NEW n, Consolidator!HandleLlmFailed(n) PROVE Consolidation!HandleLlmFailed(n)
    BY <2>3 DEF Consolidator!HandleLlmFailed, Consolidation!HandleLlmFailed
  <2>4. Consolidator!ExecuteMemoryStoreNode => Consolidation!ExecuteMemoryStoreNode
    BY DEF
      Consolidator!Blank, Consolidation!Blank, Consolidator!Text, Consolidation!Text,
      Consolidator!ValidateContent, Consolidation!ValidateContent, Consolidator!SubmitTurn,
      Consolidation!SubmitTurn, Consolidator!ExecuteMemoryStoreNode,
      Consolidation!ExecuteMemoryStoreNode
  <2>5. /\ Consolidator!StopService => Consolidation!StopService
        /\ Consolidator!StartService => Consolidation!StartService
    BY DEF
      Consolidator!StopService, Consolidation!StopService, Consolidator!StartService,
      Consolidation!StartService
  <2>6. Consolidator!Next => Consolidation!Next
    BY <2>1, <2>2, <2>3, <2>4, <2>5 DEF Consolidator!Next, Consolidation!Next
  <2> QED BY <2>6, EachPartMovesAlone DEF turnVars, Consolidation!vars
<1>3. Consolidation!ConsolidationIsOfItsTurn => ConsolidationIsOfItsTurn
  BY DEF ConsolidationIsOfItsTurn,
        Consolidator!ConsolidationIsOfItsTurn, Consolidation!ConsolidationIsOfItsTurn,
        Consolidator!IsOf, Consolidation!IsOf, Consolidator!Secret, Consolidation!Secret,
        Consolidator!Lower, Consolidation!Lower
<1>4. Consolidation!Spec => []Consolidation!ConsolidationIsOfItsTurn
  BY Consolidation!ConsolidationSound
<1> QED BY <1>1, <1>2, <1>3, <1>4, PTL DEF ServicesSpec, Consolidation!Spec

-----------------------------------------------------------------------------
(* WebResearchEngine *)

StudyMembers ==
  [searching : BOOLEAN, id : Int, next : Nat, deadline : BOOLEAN, policy : {"continue", "fail"},
   claims : Nat, cut : SUBSET Nat, queries : Seq(Nat), index : Nat, rounds : Nat, searches : Nat,
   request : Int, claim : Nat, evidence : Seq(Nat), conflicts : SUBSET Nat]
ResearchTypes ==
  /\ research \in StudyMembers
  /\ step \in {"none", "issue", "assess", "reset"}
  /\ begins \subseteq Nat /\ studies \subseteq Nat /\ wiped \subseteq Nat
  /\ search \in [id : Int, claim : Int, phase : {"idle", "throttled", "sent"}, ids : Nat]

\* A study that has not begun has made no search; one that has, is within its round; a handler
\* that is running has no search under way; nothing is left of a study that is over.  A study
\* that a handler of Completed has started has not begun, and is erased after it.
Unbegun == ~research.searching \/ research.id \in begins
Fresh(x) == x.rounds = 0 /\ x.searches = 0 /\ x.index = 0 /\ x.evidence = <<>>
InRound(x) ==
  /\ x.rounds < MaxSearchRounds
  /\ x.index <= Len(x.queries) /\ Len(x.queries) <= MaxQueriesPerRound
  /\ x.searches <= x.rounds * MaxQueriesPerRound + x.index
Waits(x) == x.request = search.id /\ search.claim = Research!Simplified(x, x.claim)
ResearchInv ==
  /\ ResearchTypes
  /\ Research!WithinBudget
  /\ research.id < research.next /\ \A b \in begins \union wiped : b < research.next
  /\ Research!OwesTheStudyInProgress
  /\ research.searching => research.deadline /\ research.id \in Nat
  /\ step \in {"issue", "assess"} => research.searching
  /\ step # "none" => search.phase = "idle"
  /\ step = "reset" => Unbegun
  /\ step = "none" =>
       /\ research.searching => Unbegun \/ research.request = search.id
                                       \/ research.claim \in research.cut
       /\ search.phase # "idle" => ~Unbegun /\ Waits(research)
       /\ Unbegun => Fresh(research)
  /\ step \in {"issue", "assess"} => ~Unbegun
  /\ ~Unbegun => InRound(research)

\* What the code admits as a configuration (WebResearchEngine::NormalizeRequest).
LEMMA ProductGrows ==
  ASSUME NEW r \in Nat, NEW m \in Nat, NEW n \in Nat, r < m
  PROVE  /\ r * n \in Nat /\ m * n \in Nat
         /\ r * n + n <= m * n /\ (r + 1) * n = r * n + n
<1> DEFINE d == m - (r + 1)
<1>1. d \in Nat /\ m = r + 1 + d
  OBVIOUS
<1>2. m * n = r * n + n + d * n
  BY <1>1
<1>3. d * n \in Nat /\ r * n \in Nat
  BY <1>1
<1>4. (r + 1) * n = r * n + n
  OBVIOUS
<1> QED BY <1>2, <1>3, <1>4

\* The engine counts as everybody does.
LEMMA ResearchCounts == \A S : Research!Cardinality(S) = Cardinality(S)
BY DEF Research!Cardinality, Cardinality

\* Every place of a set of claims is some claim's.
LEMMA PlacesAreTaken ==
  ASSUME NEW claims, claims \subseteq Nat, IsFiniteSet(claims)
  PROVE  \A i \in 1..Cardinality(claims) : \E k \in claims : Research!Place(k, claims) = i
<1> DEFINE n == Cardinality(claims)
           Upto(k) == {j \in claims : j <= k}
           f == [k \in claims |-> Cardinality(Upto(k))]
<1>1. n \in Nat
  BY FS_CardinalityType
<1>2. \A k \in claims : IsFiniteSet(Upto(k)) /\ Cardinality(Upto(k)) \in 1..n
  <2> SUFFICES ASSUME NEW k \in claims
               PROVE  IsFiniteSet(Upto(k)) /\ Cardinality(Upto(k)) \in 1..n
    OBVIOUS
  <2>1. Upto(k) \in SUBSET claims /\ k \in Upto(k)
    OBVIOUS
  <2> HIDE DEF Upto
  <2>2. IsFiniteSet(Upto(k)) /\ Cardinality(Upto(k)) <= n
    BY <2>1, FS_Subset
  <2>3. Cardinality(Upto(k)) \in Nat /\ Cardinality(Upto(k)) # 0
    BY <2>1, <2>2, FS_CardinalityType, FS_EmptySet
  <2> QED BY <1>1, <2>2, <2>3
<1>3. ASSUME NEW k \in claims, NEW m \in claims, k < m
      PROVE  Cardinality(Upto(k)) # Cardinality(Upto(m))
  <2>0. k \in Nat /\ m \in Nat
    OBVIOUS
  <2>1. Upto(k) \in SUBSET Upto(m) /\ m \in Upto(m) /\ m \notin Upto(k)
    <3>1. \A j \in claims : j \in Nat /\ (j <= k => j <= m)
      BY <1>3, <2>0
    <3>2. m <= m /\ ~(m <= k)
      BY <1>3, <2>0
    <3> QED BY <3>1, <3>2
  <2>2. IsFiniteSet(Upto(m))
    BY <1>2
  <2> HIDE DEF Upto
  <2> QED BY <2>1, <2>2, FS_Subset
<1>4. f \in [claims -> 1..n]
  BY <1>2
<1>5. ASSUME NEW k \in claims, NEW m \in claims, f[k] = f[m] PROVE k = m
  <2>1. k \in Nat /\ m \in Nat
    OBVIOUS
  <2>2. ~(k < m) /\ ~(m < k)
    BY <1>3, <1>5
  <2> QED BY <2>1, <2>2
<1>6. f \in Injection(claims, 1..n)
  BY <1>4, <1>5 DEF Injection, IsInjective
<1>7. IsFiniteSet(1..n) /\ Cardinality(1..n) = n
  BY <1>1, FS_Interval
<1>8. f \in Surjection(claims, 1..n)
  BY <1>6, <1>7, FS_Injection
<1>9. ASSUME NEW i \in 1..n PROVE \E k \in claims : Research!Place(k, claims) = i
  <2>1. PICK k \in claims : f[k] = i
    BY <1>8 DEF Surjection
  <2>2. Cardinality(Upto(k)) = i
    BY <2>1
  <2>3. Research!Place(k, claims) = i
    BY <2>2, ResearchCounts DEF Research!Place
  <2> QED BY <2>3
<1> QED BY <1>9

LEMMA FirstQueriesFit ==
  ASSUME NEW claims, claims \subseteq Nat, IsFiniteSet(claims), MaxQueriesPerRound \in Nat
  PROVE  /\ Research!FirstQueries(claims) \in Seq(Nat)
         /\ Len(Research!FirstQueries(claims)) <= MaxQueriesPerRound
<1> DEFINE all == Research!Cardinality(claims)
           most == IF all <= MaxQueriesPerRound THEN all ELSE MaxQueriesPerRound
           Query(i) == CHOOSE k \in claims : Research!Place(k, claims) = i
<1>1. all \in Nat /\ most \in Nat /\ most <= all /\ most <= MaxQueriesPerRound
  BY FS_CardinalityType, ResearchCounts
<1>2. \A i \in 1..most : Query(i) \in Nat
  <2> TAKE i \in 1..most
  <2>1. i \in 1..Cardinality(claims)
    BY <1>1, ResearchCounts
  <2>2. \E k \in claims : Research!Place(k, claims) = i
    BY <2>1, PlacesAreTaken
  <2> QED BY <2>2
<1>3. Research!FirstQueries(claims) = [i \in 1..most |-> Query(i)]
  BY Zenon DEF Research!FirstQueries
<1> HIDE DEF most, Query
<1> QED BY <1>1, <1>2, <1>3

Within(x) ==
  /\ x.rounds <= MaxSearchRounds /\ Len(x.evidence) <= MaxTotalResults
  /\ x.searches <= MaxSearchRounds * MaxQueriesPerRound
SameStudy(x, y) ==
  /\ x.next = y.next /\ x.id = y.id /\ x.policy = y.policy
  /\ x.searching = y.searching /\ x.deadline = y.deadline

LEMMA ResetFields ==
  ASSUME NEW n \in Nat
  PROVE  LET x == Research!Reset(n) IN
         /\ x \in StudyMembers /\ Within(x) /\ Fresh(x)
         /\ x.next = n /\ x.id = -1 /\ ~x.searching
<1> DEFINE x == Research!Reset(n)
<1>1. /\ x \in StudyMembers /\ Fresh(x)
      /\ x.next = n /\ x.id = -1 /\ ~x.searching
  BY DEF Research!Reset, StudyMembers, Fresh
<1>2. 0 <= MaxSearchRounds /\ 0 <= MaxTotalResults /\ 0 <= MaxSearchRounds * MaxQueriesPerRound
  <2>1. /\ MaxSearchRounds \in Nat /\ 0 < MaxSearchRounds /\ MaxQueriesPerRound \in Nat
        /\ MaxTotalResults \in Nat
    BY ResearchAssumption
  <2>2. MaxSearchRounds * MaxQueriesPerRound \in Nat
    BY <2>1, ProductGrows
  <2> QED BY <2>1, <2>2
<1> HIDE DEF x
<1>3. Within(x)
  BY <1>1, <1>2 DEF Within, Fresh
<1> QED BY <1>1, <1>3 DEF x

\* However a study ends, nothing of it is owed and nothing of it stays.
LEMMA ResetKeeps ==
  ASSUME ResearchInv, research' = Research!Reset(research.next), begins' = begins,
         step' \in {"none", "reset"}, studies' \subseteq studies,
         research.searching => research.id \notin studies' \ wiped',
         wiped \subseteq wiped', wiped' \subseteq wiped \union (studies \intersect {research.id}),
         search' \in [id : Int, claim : Int, phase : {"idle"}, ids : Nat]
  PROVE  ResearchInv'
<1>2. research.next \in Nat
  BY DEF ResearchInv, ResearchTypes, StudyMembers
<1>3. /\ research' \in StudyMembers /\ Within(research') /\ Fresh(research')
      /\ research'.next = research.next /\ research'.id = -1 /\ ~research'.searching
  BY <1>2, ResetFields
<1>4. studies' \ wiped' = {}
  BY DEF ResearchInv, Research!OwesTheStudyInProgress
<1>5. ResearchTypes'
  BY <1>3 DEF ResearchInv, ResearchTypes
<1>6. Research!WithinBudget'
  BY <1>3 DEF Within, Research!WithinBudget
<1>7. research'.id < research'.next
  BY <1>2, <1>3
<1>8. \A b \in begins' \union wiped' : b < research'.next
  BY <1>3 DEF ResearchInv
<1>9. Research!OwesTheStudyInProgress'
  BY <1>3, <1>4 DEF Research!OwesTheStudyInProgress
<1> QED
  BY <1>3, <1>5, <1>6, <1>7, <1>8, <1>9 DEF ResearchInv, ResearchTypes, Unbegun

LEMMA FailureKeeps ==
  ASSUME ResearchInv, NEW x \in StudyMembers, SameStudy(x, research),
         Research!FailResearch(x), begins' = begins, wiped' = wiped,
         search' \in [id : Int, claim : Int, phase : {"idle"}, ids : Nat]
  PROVE  ResearchInv'
<1>1. /\ research' = Research!Reset(research.next)
      /\ studies' = studies \ {research.id} /\ step' = "none"
  BY DEF Research!FailResearch, SameStudy
<1> QED BY <1>1, ResetKeeps

LEMMA CompletionKeepsResearch ==
  ASSUME ResearchInv, NEW x \in StudyMembers, SameStudy(x, research), Within(x),
         Research!FinishResearch(x), begins' \subseteq begins, wiped' = wiped,
         search' \in [id : Int, claim : Int, phase : {"idle"}, ids : Nat]
  PROVE  ResearchInv'
<1>1. /\ research' = [x EXCEPT !.deadline = FALSE, !.searching = FALSE]
      /\ studies' = studies \ {research.id} /\ step' = "reset"
  BY DEF Research!FinishResearch, SameStudy
<1>2. /\ research' \in StudyMembers /\ ~research'.searching
      /\ research'.id = research.id /\ research'.next = research.next
      /\ research'.rounds = x.rounds /\ research'.evidence = x.evidence
      /\ research'.searches = x.searches
  BY <1>1 DEF StudyMembers, SameStudy
<1>3. Research!OwesTheStudyInProgress'
  BY <1>1, <1>2 DEF ResearchInv, Research!OwesTheStudyInProgress
<1>4. ResearchTypes'
  BY <1>1, <1>2 DEF ResearchInv, ResearchTypes
<1>5. Research!WithinBudget'
  BY <1>2 DEF Within, Research!WithinBudget
<1>6. research'.id < research'.next /\ \A b \in begins' \union wiped' : b < research'.next
  BY <1>2 DEF ResearchInv
<1> QED
  BY <1>1, <1>2, <1>3, <1>4, <1>5, <1>6 DEF ResearchInv, ResearchTypes, Unbegun

\* A step of a study that goes on.
LEMMA ProgressKeeps ==
  ASSUME ResearchInv, research' \in StudyMembers, SameStudy(research', research),
         research.searching, Within(research'), InRound(research'),
         begins' \subseteq begins, research.id \notin begins', studies' = studies, wiped' = wiped,
         search' \in [id : Int, claim : Int, phase : {"idle", "throttled", "sent"}, ids : Nat],
         \/ step' \in {"issue", "assess"} /\ search'.phase = "idle"
         \/ step' = "none" /\ Waits(research)'
         \/ step' = "none" /\ search'.phase = "idle" /\ research'.claim \in research'.cut
  PROVE  ResearchInv'
<1>1. ResearchTypes'
  BY DEF ResearchInv, ResearchTypes
<1>2. Research!WithinBudget'
  BY DEF Within, Research!WithinBudget
<1>3. ~Unbegun'
  BY DEF Unbegun, SameStudy
<1>4. /\ InRound(research)'
      /\ step' = "none" => \/ research'.request = search'.id /\ Waits(research)'
                           \/ search'.phase = "idle" /\ research'.claim \in research'.cut
  BY DEF InRound, Waits
<1>5. /\ research'.id < research'.next
      /\ \A b \in begins' \union wiped' : b < research'.next
      /\ research'.searching /\ research'.deadline /\ research'.id \in Nat
  BY DEF ResearchInv, SameStudy
<1>6. Research!OwesTheStudyInProgress'
  BY <1>5 DEF ResearchInv, SameStudy, Research!OwesTheStudyInProgress
<1> QED BY <1>1, <1>2, <1>3, <1>4, <1>5, <1>6 DEF ResearchInv

LEMMA OneMoreFits ==
  ASSUME NEW a \in Nat, NEW b \in Nat, NEW i \in Nat, NEW n \in Nat, NEW q \in Nat,
         n <= a + i, i + 1 <= q, a + q <= b
  PROVE  n + 1 <= a + (i + 1) /\ n + 1 <= b
OBVIOUS

\* The search that is issued next.
LEMMA IssuedFields ==
  ASSUME ResearchInv, step = "issue", Research!HasQuery(research)
  PROVE  LET x == Research!Issued(research) IN
         /\ x \in StudyMembers /\ SameStudy(x, research) /\ Within(x) /\ InRound(x)
         /\ x.claim = research.queries[research.index + 1] /\ x.cut = research.cut
<1> DEFINE q == research.queries[research.index + 1]
           i == research.index + 1
           n == research.searches + 1
           none == -1
           x == [research EXCEPT !.index = i, !.claim = q, !.searches = n, !.request = none]
<1>1. /\ research \in StudyMembers /\ Within(research) /\ InRound(research)
      /\ research.index < Len(research.queries)
  BY DEF ResearchInv, ResearchTypes, Research!HasQuery, Research!WithinBudget, Within
<1>2. /\ i \in Nat /\ n \in Nat /\ q \in Nat /\ i <= Len(research.queries)
  BY <1>1 DEF StudyMembers
<1>3. /\ research.rounds \in Nat /\ research.searches \in Nat /\ research.index \in Nat
      /\ MaxSearchRounds \in Nat /\ MaxQueriesPerRound \in Nat
      /\ Len(research.queries) \in Nat
  BY <1>1, ResearchAssumption DEF StudyMembers
<1>4. /\ n <= research.rounds * MaxQueriesPerRound + i
      /\ n <= MaxSearchRounds * MaxQueriesPerRound
  <2> DEFINE a == research.rounds * MaxQueriesPerRound
             b == MaxSearchRounds * MaxQueriesPerRound
  <2>1. a \in Nat /\ b \in Nat /\ a + MaxQueriesPerRound <= b
    BY <1>1, <1>3, ProductGrows DEF InRound
  <2>2. research.searches <= a + research.index /\ i <= MaxQueriesPerRound
    BY <1>1, <1>2, <1>3 DEF InRound
  <2> HIDE DEF a, b
  <2>3. n <= a + i /\ n <= b
    BY <1>3, <2>1, <2>2, OneMoreFits
  <2> QED BY <2>3 DEF a, b
<1>5. Research!Issued(research) = x
  BY DEF Research!Issued
<1>none. none \in Int
  OBVIOUS
<1> HIDE DEF q, i, n, none
<1>6. /\ x \in StudyMembers /\ SameStudy(x, research)
      /\ x.rounds = research.rounds /\ x.queries = research.queries
      /\ x.evidence = research.evidence /\ x.index = i /\ x.searches = n /\ x.claim = q
      /\ x.cut = research.cut
  BY <1>1, <1>2, <1>none DEF StudyMembers, SameStudy
<1> HIDE DEF x
<1>7. Within(x) /\ InRound(x)
  BY <1>1, <1>2, <1>4, <1>6 DEF Within, InRound
<1> QED BY <1>5, <1>6, <1>7 DEF q

\* What follows a search that failed.
LEMMA SearchFailureKeeps ==
  ASSUME ResearchInv, ~Unbegun, research.searching,
         NEW x \in StudyMembers, SameStudy(x, research), Within(x), InRound(x),
         Research!AfterFailure(x), begins' = begins, wiped' = wiped,
         search' \in [id : Int, claim : Int, phase : {"idle"}, ids : Nat]
  PROVE  ResearchInv'
<1>1. CASE x.policy = "fail"
  BY <1>1, FailureKeeps DEF Research!AfterFailure
<1>2. CASE x.policy # "fail"
  <2>1. /\ research' = [x EXCEPT !.request = -1] /\ step' \in {"issue", "assess"}
        /\ studies' = studies
    BY <1>2 DEF Research!AfterFailure, Research!Goes
  <2> DEFINE none == -1
  <2>a. none \in Int /\ research' = [x EXCEPT !.request = none]
    BY <2>1
  <2> HIDE DEF none
  <2>b. /\ research' \in StudyMembers /\ SameStudy(research', x)
        /\ research'.rounds = x.rounds /\ research'.index = x.index
        /\ research'.queries = x.queries /\ research'.searches = x.searches
        /\ research'.evidence = x.evidence
    BY <2>a DEF StudyMembers, SameStudy
  <2>2. /\ research' \in StudyMembers /\ SameStudy(research', research)
        /\ Within(research') /\ InRound(research')
    BY <2>b DEF SameStudy, Within, InRound
  <2>3. research.id \notin begins'
    BY DEF Unbegun
  <2> QED BY <2>1, <2>2, <2>3, ProgressKeeps
<1> QED BY <1>1, <1>2

LEMMA StartKeeps ==
  ASSUME ResearchInv, NEW policy \in Research!Policy, Research!Start(policy)
  PROVE  ResearchInv'
<1>1. /\ step \in {"none", "reset"} /\ ~research.searching /\ wiped' = wiped
      /\ research' = [research EXCEPT !.searching = TRUE, !.id = research.next,
                        !.next = research.next + 1, !.deadline = TRUE, !.policy = policy]
      /\ begins' = begins \union {research.next} /\ studies' = studies \union {research.next}
      /\ step' = step /\ search' = search
  BY DEF Research!Start, Research!Started
<1> DEFINE n == research.next + 1
<1>2. n \in Nat /\ research.next \in Nat /\ research.next < n /\ research \in StudyMembers
  BY DEF ResearchInv, ResearchTypes, StudyMembers
<1>3. \A b \in begins' \union wiped' : b \in Nat /\ b < n
  BY <1>1, <1>2 DEF ResearchInv, ResearchTypes
<1>4. research' = [research EXCEPT !.searching = TRUE, !.id = research.next,
                     !.next = n, !.deadline = TRUE, !.policy = policy]
  BY <1>1
<1> HIDE DEF n
<1>a. research.next \in Int /\ policy \in {"continue", "fail"}
  BY <1>2 DEF Research!Policy
<1>b. research' \in StudyMembers
  BY <1>a, <1>2, <1>4 DEF StudyMembers
<1>5. /\ research' \in StudyMembers /\ research'.searching /\ research'.deadline
      /\ research'.id = research.next /\ research'.next = n
      /\ research'.rounds = research.rounds /\ research'.searches = research.searches
      /\ research'.index = research.index /\ research'.evidence = research.evidence
  BY <1>b, <1>2, <1>4 DEF StudyMembers
<1>6. Unbegun /\ search.phase = "idle" /\ (step = "none" => Fresh(research))
  BY <1>1 DEF Unbegun, ResearchInv, ResearchTypes
<1>7. Unbegun' /\ (step = "none" => Fresh(research'))
  BY <1>1, <1>5, <1>6 DEF Unbegun, Fresh
<1>8. Research!WithinBudget'
  BY <1>5 DEF ResearchInv, Research!WithinBudget
<1>9. ResearchTypes'
  BY <1>1, <1>2, <1>3, <1>5 DEF ResearchInv, ResearchTypes
<1>10. Research!OwesTheStudyInProgress'
  <2>1. studies \ wiped = {} /\ research.next \notin wiped
    BY <1>1, <1>2 DEF ResearchInv, Research!OwesTheStudyInProgress
  <2> QED BY <1>1, <1>5, <2>1 DEF Research!OwesTheStudyInProgress
<1> QED BY <1>1, <1>2, <1>3, <1>5, <1>6, <1>7, <1>8, <1>9, <1>10 DEF ResearchInv

LEMMA BeginKeeps ==
  ASSUME ResearchInv, NEW id \in begins, NEW claims \in 0..MaxClaims,
         NEW cut \in SUBSET (1..claims), Research!BeginResearch(id, claims, cut)
  PROVE  ResearchInv'
<1>1. /\ step = "none" /\ begins' = begins \ {id} /\ search' = search /\ wiped' = wiped
      /\ research \in StudyMembers /\ Within(research)
  BY DEF Research!BeginResearch, ResearchInv, ResearchTypes, Research!WithinBudget, Within
<1>2. CASE ~research.searching \/ research.id # id
  <2>1. research' = research /\ step' = step /\ studies' = studies
    BY <1>2 DEF Research!BeginResearch
  <2>2. Unbegun' <=> Unbegun
    BY <1>1, <1>2, <2>1 DEF Unbegun
  <2>3. /\ Research!WithinBudget' = Research!WithinBudget
        /\ InRound(research)' = InRound(research) /\ Fresh(research)' = Fresh(research)
        /\ Waits(research)' = Waits(research)
        /\ Research!OwesTheStudyInProgress' = Research!OwesTheStudyInProgress
    BY <1>1, <2>1 DEF Research!WithinBudget, InRound, Fresh, Waits, Research!Simplified,
                      Research!OwesTheStudyInProgress
  <2> QED BY <1>1, <2>1, <2>2, <2>3 DEF ResearchInv, ResearchTypes
<1>3. CASE ~(~research.searching \/ research.id # id)
  <2>1. research.searching /\ research.id = id /\ Unbegun /\ Fresh(research)
        /\ search.phase = "idle"
    BY <1>1, <1>3 DEF Unbegun, ResearchInv, ResearchTypes
  <2>2. search' \in [id : Int, claim : Int, phase : {"idle"}, ids : Nat]
    BY <1>1, <2>1 DEF ResearchInv, ResearchTypes
  <2>3. CASE claims = 0
    <3>1. Research!FinishResearch(research)
      BY <1>3, <2>3 DEF Research!BeginResearch
    <3> QED BY <1>1, <2>2, <3>1, CompletionKeepsResearch DEF SameStudy
  <2>4. CASE claims # 0
    <3> DEFINE q == Research!FirstQueries(1..claims)
    <3>1. /\ research' = [research EXCEPT !.claims = claims, !.cut = cut, !.rounds = 0,
                                          !.index = 0, !.queries = q]
          /\ step' = "issue" /\ studies' = studies
      BY <1>3, <2>4 DEF Research!BeginResearch
    <3>2. claims \in Nat /\ IsFiniteSet(1..claims) /\ (1..claims) \subseteq Nat
          /\ cut \in SUBSET Nat
      BY ResearchAssumption, FS_Interval
    <3>3. q \in Seq(Nat) /\ Len(q) <= MaxQueriesPerRound
      BY <3>2, FirstQueriesFit, ResearchAssumption
    <3> HIDE DEF q
    <3>4. /\ research' \in StudyMembers /\ SameStudy(research', research)
          /\ research'.rounds = 0 /\ research'.index = 0 /\ research'.queries = q
          /\ research'.searches = research.searches /\ research'.evidence = research.evidence
      BY <1>1, <3>1, <3>2, <3>3 DEF StudyMembers, SameStudy
    <3>5. research.searches = 0 /\ research.rounds = 0
      BY <2>1 DEF Fresh
    <3>6. /\ 0 < MaxSearchRounds /\ 0 * MaxQueriesPerRound + 0 = 0
          /\ Len(q) \in Nat /\ 0 <= Len(q)
      BY <3>3, ResearchAssumption
    <3>7. Within(research') /\ InRound(research')
      BY <1>1, <3>3, <3>4, <3>5, <3>6 DEF Within, InRound
    <3> QED BY <1>1, <2>1, <2>2, <3>1, <3>4, <3>7, ProgressKeeps
  <2> QED BY <2>3, <2>4
<1> QED BY <1>2, <1>3

LEMMA ResultsAreObserved ==
  ASSUME NEW x \in StudyMembers, Within(x), NEW n \in Nat
  PROVE  LET y == Research!Observed(x, n) IN
         /\ y \in StudyMembers /\ SameStudy(y, x) /\ Within(y)
         /\ InRound(x) => InRound(y)
<1> DEFINE room == MaxTotalResults - Len(x.evidence)
           most == IF n <= room THEN n ELSE room
           more == [i \in 1..most |-> x.claim]
           all == x.evidence \o more
           none == -1
           y == [x EXCEPT !.request = none, !.evidence = all]
<1>1. x.evidence \in Seq(Nat) /\ Len(x.evidence) \in Nat /\ MaxTotalResults \in Nat
      /\ Len(x.evidence) <= MaxTotalResults /\ x.claim \in Nat /\ none \in Int
  BY ResearchAssumption DEF StudyMembers, Within
<1>2. most \in Nat /\ Len(x.evidence) + most <= MaxTotalResults
  <2>1. room \in Nat /\ Len(x.evidence) + room = MaxTotalResults
    BY <1>1
  <2> HIDE DEF room
  <2>2. CASE n <= room
    BY <2>1, <2>2, <1>1
  <2>3. CASE ~(n <= room)
    BY <2>1, <2>3, <1>1
  <2> QED BY <2>2, <2>3
<1>3. more \in Seq(Nat) /\ Len(more) = most
  <2> HIDE DEF most
  <2> QED BY <1>1, <1>2
<1>4. Research!Observed(x, n) = y
  BY DEF Research!Observed
<1> HIDE DEF more, most, none
<1>5. all \in Seq(Nat) /\ Len(all) = Len(x.evidence) + most
  <2> DEFINE old == x.evidence
  <2>1. old \in Seq(Nat)
    BY <1>1
  <2> HIDE DEF old
  <2>2. old \o more \in Seq(Nat) /\ Len(old \o more) = Len(old) + Len(more)
    BY <1>3, <2>1, ConcatProperties
  <2> QED BY <1>3, <2>2 DEF old
<1> HIDE DEF all
<1>6. /\ y \in StudyMembers /\ SameStudy(y, x) /\ y.evidence = all
      /\ y.rounds = x.rounds /\ y.index = x.index /\ y.queries = x.queries
      /\ y.searches = x.searches
  BY <1>1, <1>5 DEF StudyMembers, SameStudy
<1> HIDE DEF y
<1>7. Within(y) /\ (InRound(x) => InRound(y))
  BY <1>2, <1>5, <1>6 DEF Within, InRound
<1> QED BY <1>4, <1>6, <1>7

LEMMA AssessmentKeeps ==
  ASSUME ResearchInv, NEW sufficient, NEW conflicts \in SUBSET Research!MayConflict(research),
         Research!AssessRound(sufficient, conflicts)
  PROVE  ResearchInv'
<1> DEFINE r == research.rounds + 1
           x == [research EXCEPT !.rounds = r, !.conflicts = conflicts]
           again == IF Research!Insufficient(x, sufficient) # {}
                    THEN Research!Insufficient(x, sufficient) ELSE conflicts
<1>1. /\ step = "assess" /\ begins' = begins /\ search' = search /\ wiped' = wiped
      /\ research \in StudyMembers /\ Within(research) /\ InRound(research)
      /\ research.searching /\ search.phase = "idle" /\ ~Unbegun
  BY DEF Research!AssessRound, ResearchInv, ResearchTypes, Research!WithinBudget, Within
<1>2. search' \in [id : Int, claim : Int, phase : {"idle"}, ids : Nat]
  BY <1>1 DEF ResearchInv, ResearchTypes
<1>3. conflicts \subseteq 1..MaxClaims /\ conflicts \in SUBSET Nat
  <2>1. Research!MayConflict(research) \subseteq 1..MaxClaims
    BY DEF Research!MayConflict, Research!Claim
  <2>2. (1..MaxClaims) \subseteq Nat
    BY ResearchAssumption
  <2> QED BY <2>1, <2>2
<1>4. /\ research.rounds \in Nat /\ r \in Nat /\ r <= MaxSearchRounds
  BY <1>1, ResearchAssumption DEF StudyMembers, InRound
<1>5. IF Research!OutOfBudget(x) \/ again = {} THEN Research!FinishResearch(x)
      ELSE /\ research' = [x EXCEPT !.queries = Research!FirstQueries(again), !.index = 0]
           /\ step' = "issue" /\ studies' = studies
  BY DEF Research!AssessRound
<1>6. x.claims \in Nat
  BY <1>1 DEF StudyMembers
<1>7. again \subseteq Nat /\ IsFiniteSet(again)
  <2>1. Research!Insufficient(x, sufficient) \in SUBSET (1..x.claims)
    BY DEF Research!Insufficient
  <2>2. /\ IsFiniteSet(1..x.claims) /\ (1..x.claims) \subseteq Nat
        /\ IsFiniteSet(1..MaxClaims)
    <3> DEFINE n == x.claims
    <3>1. n \in Nat /\ MaxClaims \in Nat
      BY <1>6, ResearchAssumption
    <3> HIDE DEF n
    <3>2. IsFiniteSet(1..n) /\ (1..n) \subseteq Nat /\ IsFiniteSet(1..MaxClaims)
      BY <3>1, FS_Interval
    <3> QED BY <3>2 DEF n
  <2> HIDE DEF x
  <2>3. IsFiniteSet(Research!Insufficient(x, sufficient)) /\ IsFiniteSet(conflicts)
    BY <1>3, <2>1, <2>2, FS_Subset
  <2> QED BY <1>3, <2>1, <2>2, <2>3
<1> HIDE DEF r
<1>8. /\ x \in StudyMembers /\ SameStudy(x, research) /\ x.rounds = r
      /\ x.searches = research.searches /\ x.index = research.index
      /\ x.queries = research.queries /\ x.evidence = research.evidence
  BY <1>1, <1>3, <1>4 DEF StudyMembers, SameStudy
<1> HIDE DEF x, again
<1>9. Within(x)
  BY <1>1, <1>4, <1>8 DEF Within
<1>10. CASE Research!OutOfBudget(x) \/ again = {}
  BY <1>1, <1>2, <1>5, <1>8, <1>9, <1>10, CompletionKeepsResearch
<1>11. CASE ~(Research!OutOfBudget(x) \/ again = {})
  <2> DEFINE q == Research!FirstQueries(again)
  <2>1. research' = [x EXCEPT !.queries = q, !.index = 0] /\ step' = "issue"
        /\ studies' = studies
    BY <1>5, <1>11
  <2>2. q \in Seq(Nat) /\ Len(q) <= MaxQueriesPerRound
    BY <1>7, FirstQueriesFit, ResearchAssumption
  <2> HIDE DEF q
  <2>3. /\ research' \in StudyMembers /\ SameStudy(research', research)
        /\ research'.rounds = r /\ research'.index = 0 /\ research'.queries = q
        /\ research'.searches = research.searches /\ research'.evidence = research.evidence
    BY <1>8, <2>1, <2>2 DEF StudyMembers, SameStudy
  <2>4. r < MaxSearchRounds /\ 0 <= Len(q)
    BY <1>4, <1>8, <1>11, <2>2, ResearchAssumption DEF Research!OutOfBudget
  <2>5. research.searches <= r * MaxQueriesPerRound + 0
    <3>1. /\ research.searches \in Nat /\ research.index \in Nat /\ MaxQueriesPerRound \in Nat
          /\ Len(research.queries) \in Nat
      BY <1>1, ResearchAssumption DEF StudyMembers
    <3> DEFINE a == research.rounds * MaxQueriesPerRound
    <3>2. /\ a \in Nat /\ r * MaxQueriesPerRound = a + MaxQueriesPerRound
      BY <1>4, <3>1, ProductGrows, ResearchAssumption DEF r, InRound
    <3>3. /\ research.searches <= a + research.index
          /\ research.index <= MaxQueriesPerRound
      BY <1>1, <3>1 DEF InRound
    <3> HIDE DEF a
    <3> QED BY <3>1, <3>2, <3>3
  <2>6. Within(research') /\ InRound(research')
    BY <1>4, <1>8, <1>9, <2>2, <2>3, <2>4, <2>5 DEF Within, InRound
  <2> QED BY <1>1, <1>2, <2>1, <2>3, <2>6, ProgressKeeps DEF Unbegun
<1> QED BY <1>10, <1>11

\* Only the answer to a claim that was cut is not the one that is awaited.
LEMMA IgnoredIsCut ==
  ASSUME Waits(research), ~Research!IsActiveSearch(research), research.searching
  PROVE  research.claim \in research.cut
BY DEF Waits, Research!IsActiveSearch, Research!Simplified

LEMMA ResearchKeeps == ResearchInv /\ [Research!Next]_researchVars => ResearchInv'
<1> SUFFICES ASSUME ResearchInv, [Research!Next]_researchVars PROVE ResearchInv'
  OBVIOUS
<1>0. /\ research \in StudyMembers /\ Within(research) /\ SameStudy(research, research)
      /\ ~Unbegun => InRound(research)
      /\ search \in [id : Int, claim : Int, phase : {"idle", "throttled", "sent"}, ids : Nat]
  BY DEF ResearchInv, ResearchTypes, Research!WithinBudget, Within, SameStudy
<1>a. ASSUME search' = Research!Idle(search)
      PROVE  search' \in [id : Int, claim : Int, phase : {"idle"}, ids : Nat]
  <2> DEFINE none == -1
  <2>1. none \in Int /\ search.ids \in Nat
    BY <1>0
  <2>2. search' = [[id |-> none, claim |-> 0, phase |-> "idle", ids |-> 0]
                   EXCEPT !.ids = search.ids]
    BY <1>a DEF Research!Idle, Research!NoSearch
  <2> HIDE DEF none
  <2>3. search' = [id |-> none, claim |-> 0, phase |-> "idle", ids |-> search.ids]
    BY <2>2
  <2> QED BY <2>1, <2>3
<1>b. ASSUME step = "none", search.phase # "idle"
      PROVE  ~Unbegun /\ Waits(research) /\ research.searching
  BY <1>b DEF ResearchInv, Unbegun
<1>c. ASSUME step = "issue" PROVE ~Unbegun /\ research.searching /\ search.phase = "idle"
  BY <1>c DEF ResearchInv
<1>1. ASSUME NEW ph \in {"throttled", "sent"}, Research!IssueNextQuery(ph)
      PROVE  ResearchInv'
  <2> DEFINE x == Research!Issued(research)
             n == search.ids + 1
  <2>1. /\ step = "issue" /\ Research!HasQuery(research)
        /\ search' = [id |-> n, claim |-> Research!Simplified(research, x.claim),
                      phase |-> ph, ids |-> n]
        /\ research' = [x EXCEPT !.request = n]
        /\ step' = "none" /\ begins' = begins /\ studies' = studies /\ wiped' = wiped
    BY <1>1 DEF Research!IssueNextQuery
  <2>2. /\ x \in StudyMembers /\ SameStudy(x, research) /\ Within(x) /\ InRound(x)
        /\ x.cut = research.cut
    BY <2>1, IssuedFields
  <2>3. n \in Nat /\ n \in Int
    BY <1>0
  <2> HIDE DEF x, n
  <2>4. /\ research' \in StudyMembers /\ SameStudy(research', research)
        /\ research'.request = n /\ research'.claim = x.claim /\ research'.cut = x.cut
        /\ research'.rounds = x.rounds /\ research'.index = x.index
        /\ research'.queries = x.queries /\ research'.searches = x.searches
        /\ research'.evidence = x.evidence
    BY <2>1, <2>2, <2>3 DEF StudyMembers, SameStudy
  <2>5. Within(research') /\ InRound(research')
    BY <2>2, <2>4 DEF Within, InRound
  <2>6. Research!Simplified(research, x.claim) \in Int
        /\ Research!Simplified(research', x.claim) = Research!Simplified(research, x.claim)
    BY <2>2, <2>4 DEF StudyMembers, Research!Simplified
  <2>7. /\ search' \in [id : Int, claim : Int, phase : {"idle", "throttled", "sent"}, ids : Nat]
        /\ search'.id = n /\ search'.claim = Research!Simplified(research', research'.claim)
    BY <2>1, <2>3, <2>4, <2>6
  <2>8. Waits(research)'
    BY <2>4, <2>7 DEF Waits, Research!Simplified
  <2> QED BY <1>c, <2>1, <2>4, <2>5, <2>7, <2>8, ProgressKeeps DEF Unbegun
<1>2. ASSUME Research!IssueIsLate PROVE ResearchInv'
  <2> DEFINE i == research.index + 1
             x == [research EXCEPT !.index = i]
  <2>1. /\ step = "issue" /\ Research!FinishResearch(x)
        /\ begins' = begins /\ search' = search /\ wiped' = wiped
    BY <1>2 DEF Research!IssueIsLate
  <2>2. i \in Nat
    BY <1>0 DEF StudyMembers
  <2> HIDE DEF i
  <2>3. /\ x \in StudyMembers /\ SameStudy(x, research)
        /\ x.rounds = research.rounds /\ x.searches = research.searches
        /\ x.evidence = research.evidence
    BY <1>0, <2>2 DEF StudyMembers, SameStudy
  <2> HIDE DEF x
  <2>4. Within(x)
    BY <1>0, <2>3 DEF Within
  <2> QED BY <1>0, <1>c, <2>1, <2>3, <2>4, CompletionKeepsResearch
<1>3. ASSUME Research!IssueThrottled PROVE ResearchInv'
  <2> DEFINE x == Research!Issued(research)
             n == search.ids + 1
  <2>1. /\ step = "issue" /\ Research!HasQuery(research)
        /\ search' = [Research!NoSearch EXCEPT !.ids = n] /\ begins' = begins /\ wiped' = wiped
        /\ \/ Research!AfterFailure(x)
           \/ /\ x.claim # Research!Simplified(research, x.claim)
              /\ research' = [x EXCEPT !.request = n] /\ step' = "none" /\ studies' = studies
    BY <1>3 DEF Research!IssueThrottled
  <2>2. /\ x \in StudyMembers /\ SameStudy(x, research) /\ Within(x) /\ InRound(x)
        /\ x.cut = research.cut
    BY <2>1, IssuedFields
  <2>3. n \in Nat /\ n \in Int
    BY <1>0
  <2> HIDE DEF x, n
  <2> DEFINE none == -1
  <2>4. /\ none \in Int
        /\ search' = [[id |-> none, claim |-> 0, phase |-> "idle", ids |-> 0] EXCEPT !.ids = n]
    BY <2>1 DEF Research!NoSearch
  <2> HIDE DEF none
  <2>5. search' = [id |-> none, claim |-> 0, phase |-> "idle", ids |-> n]
    BY <2>4
  <2>6. search' \in [id : Int, claim : Int, phase : {"idle"}, ids : Nat]
    BY <2>3, <2>4, <2>5
  <2>7. CASE Research!AfterFailure(x)
    BY <1>c, <2>1, <2>2, <2>6, <2>7, SearchFailureKeeps
  <2>8. CASE ~Research!AfterFailure(x)
    <3>0. research' = [x EXCEPT !.request = n]
      BY <2>1, <2>8
    <3>1. /\ research' \in StudyMembers /\ SameStudy(research', research)
          /\ research'.claim = x.claim /\ research'.cut = x.cut
          /\ research'.rounds = x.rounds /\ research'.index = x.index
          /\ research'.queries = x.queries /\ research'.searches = x.searches
          /\ research'.evidence = x.evidence
      BY <2>2, <2>3, <3>0 DEF StudyMembers, SameStudy
    <3>2. Within(research') /\ InRound(research')
      BY <2>2, <3>1 DEF Within, InRound
    <3>3. research'.claim \in research'.cut
      BY <2>1, <2>2, <2>8, <3>1 DEF Research!Simplified
    <3>4. step' = "none" /\ studies' = studies /\ search'.phase = "idle"
          /\ search' \in [id : Int, claim : Int, phase : {"idle", "throttled", "sent"}, ids : Nat]
      BY <2>1, <2>6, <2>8
    <3> QED BY <1>c, <2>1, <3>1, <3>2, <3>3, <3>4, ProgressKeeps DEF Unbegun
  <2> QED BY <2>7, <2>8
<1>4. ASSUME Research!OnThrottleTimeout PROVE ResearchInv'
  <2>1. /\ step = "none" /\ search.phase = "throttled"
        /\ search' = [search EXCEPT !.phase = "sent"]
        /\ research' = research /\ step' = step /\ begins' = begins /\ studies' = studies
        /\ wiped' = wiped
    BY <1>4 DEF Research!OnThrottleTimeout
  <2>2. /\ search' \in [id : Int, claim : Int, phase : {"idle", "throttled", "sent"}, ids : Nat]
        /\ search'.id = search.id /\ search'.claim = search.claim
    BY <1>0, <2>1
  <2>3. ~Unbegun /\ Waits(research) /\ research.searching
    BY <1>b, <2>1
  <2>4. Waits(research)'
    BY <2>1, <2>2, <2>3 DEF Waits, Research!Simplified
  <2> QED BY <1>0, <2>1, <2>2, <2>3, <2>4, ProgressKeeps DEF Unbegun
<1>5. ASSUME NEW n \in 0..MaxTotalResults, Research!OnToolCompleted(n) PROVE ResearchInv'
  <2>1. /\ step = "none" /\ search.phase = "sent" /\ search' = Research!Idle(search)
        /\ begins' = begins /\ studies' = studies /\ wiped' = wiped
    BY <1>5 DEF Research!OnToolCompleted
  <2>2. ~Unbegun /\ Waits(research) /\ research.searching
    BY <1>b, <2>1
  <2>8. search' \in [id : Int, claim : Int, phase : {"idle"}, ids : Nat]
    BY <1>a, <2>1
  <2>3. CASE ~Research!IsActiveSearch(research)
    <3>1. research' = research /\ step' = "none" /\ research.claim \in research.cut
      BY <1>5, <2>1, <2>2, <2>3, IgnoredIsCut DEF Research!OnToolCompleted
    <3> QED BY <1>0, <2>1, <2>2, <2>8, <3>1, ProgressKeeps DEF Unbegun
  <2> SUFFICES ASSUME Research!IsActiveSearch(research) PROVE ResearchInv'
    BY <2>3
  <2>4. research' = Research!Observed(research, n) /\ step' \in {"issue", "assess"}
    BY <1>5 DEF Research!OnToolCompleted, Research!Goes
  <2>5. n \in Nat
    BY ResearchAssumption
  <2>6. /\ research' \in StudyMembers /\ SameStudy(research', research)
        /\ Within(research') /\ InRound(research')
    BY <1>0, <2>2, <2>4, <2>5, ResultsAreObserved
  <2> QED BY <2>1, <2>2, <2>4, <2>6, <2>8, ProgressKeeps DEF Unbegun
<1>6. ASSUME Research!OnToolFailed PROVE ResearchInv'
  <2>1. /\ step = "none" /\ search.phase = "sent" /\ search' = Research!Idle(search)
        /\ begins' = begins /\ wiped' = wiped
    BY <1>6 DEF Research!OnToolFailed
  <2>2. ~Unbegun /\ Waits(research) /\ research.searching
    BY <1>b, <2>1
  <2>3. CASE ~Research!IsActiveSearch(research)
    <3>1. /\ research' = research /\ step' = "none" /\ studies' = studies
          /\ research.claim \in research.cut
      BY <1>6, <2>1, <2>2, <2>3, IgnoredIsCut DEF Research!OnToolFailed
    <3>2. search' \in [id : Int, claim : Int, phase : {"idle"}, ids : Nat]
      BY <1>a, <2>1
    <3> QED BY <1>0, <2>1, <2>2, <3>1, <3>2, ProgressKeeps DEF Unbegun
  <2>4. CASE Research!IsActiveSearch(research)
    <3>1. Research!AfterFailure(research)
      BY <1>6, <2>4 DEF Research!OnToolFailed
    <3> QED BY <1>0, <1>a, <2>1, <2>2, <3>1, SearchFailureKeeps
  <2> QED BY <2>3, <2>4
<1>7. ASSUME Research!OnDeadlineTimeout PROVE ResearchInv'
  <2>1. /\ search' = Research!Idle(search) /\ begins' = begins /\ wiped' = wiped
        /\ Research!FailResearch(research) \/ Research!FinishResearch(research)
    BY <1>7 DEF Research!OnDeadlineTimeout, Research!CancelSearch
  <2> QED BY <1>0, <1>a, <2>1, FailureKeeps, CompletionKeepsResearch
<1>8. ASSUME Research!Cancel PROVE ResearchInv'
  <2>1. /\ search' = Research!Idle(search) /\ begins' = begins /\ wiped' = wiped
        /\ research' = Research!Reset(research.next) /\ step' = step
        /\ step \in {"none", "reset"} /\ studies' = studies \ {research.id}
    BY <1>8 DEF Research!Cancel, Research!CancelSearch
  <2> QED BY <1>a, <2>1, ResetKeeps
<1>9. ASSUME Research!ResetsItself PROVE ResearchInv'
  <2>1. /\ step = "reset" /\ research' = Research!Reset(research.next) /\ step' = "none"
        /\ begins' = begins /\ search' = search /\ studies' = studies
        /\ wiped' = IF research.searching THEN wiped \union {research.id} ELSE wiped
    BY <1>9 DEF Research!ResetsItself
  <2>2. search' \in [id : Int, claim : Int, phase : {"idle"}, ids : Nat]
    BY <1>0, <2>1 DEF ResearchInv
  <2>3. wiped' \subseteq wiped \union (studies \intersect {research.id})
    BY <2>1 DEF ResearchInv, Research!OwesTheStudyInProgress
  <2> QED BY <2>1, <2>2, <2>3, ResetKeeps
<1>10. ASSUME UNCHANGED researchVars PROVE ResearchInv'
  BY <1>10 DEF researchVars, ResearchInv, ResearchTypes, Research!WithinBudget, Unbegun, Waits,
               Research!Simplified, Research!OwesTheStudyInProgress
<1> QED
  BY <1>1, <1>2, <1>3, <1>4, <1>5, <1>6, <1>7, <1>8, <1>9, <1>10,
     StartKeeps, BeginKeeps, AssessmentKeeps
  DEF Research!Next

\* A study waits for its own search, unless its claim was cut after a blank; nothing searches
\* for one that is over; what is in progress is what is owed, but for the studies erased in a
\* handler of Completed; and the budgets hold, however searches, throttling, deadline, restarts
\* and cancellation interleave (WebResearchEngine).
THEOREM StudiesAreSound == ServicesSpec => []ResearchIsSound
<1>1. ServicesInit => ResearchInv
  <2> SUFFICES ASSUME ServicesInit PROVE ResearchInv
    OBVIOUS
  <2>1. /\ research = Research!Reset(1) /\ step = "none" /\ begins = {} /\ studies = {}
        /\ wiped = {} /\ search = Research!NoSearch
    BY DEF ServicesInit, Research!Init
  <2>2. /\ research \in StudyMembers /\ Within(research) /\ Fresh(research)
        /\ research.next = 1 /\ research.id = -1 /\ ~research.searching
    BY <2>1, ResetFields
  <2>3. search.phase = "idle"
        /\ search \in [id : Int, claim : Int, phase : {"idle", "throttled", "sent"}, ids : Nat]
    BY <2>1 DEF Research!NoSearch
  <2> QED
    BY <2>1, <2>2, <2>3
       DEF ResearchInv, ResearchTypes, Research!WithinBudget, Within, Unbegun,
           Research!OwesTheStudyInProgress
<1>2. ResearchInv /\ [ServicesNext]_servicesVars => ResearchInv'
  BY EachPartMovesAlone, ResearchKeeps
<1>3. ResearchInv => ResearchIsSound
  BY DEF ResearchInv, ResearchIsSound, Research!ResearchIsSound, Research!WaitsForItsSearch,
         Unbegun, Waits
<1> QED BY <1>1, <1>2, <1>3, PTL DEF ServicesSpec

-----------------------------------------------------------------------------
(* DagEditor *)

TabMembers ==
  [server : Nat, base : Nat, rev : Nat, doc : Nat, forced : BOOLEAN, events : Seq(Nat)]
StoreMembers == [server : Nat, starts : Nat, doc : Nat, rev : Nat, print : Int]
FileMembers == [doc : Nat, ok : BOOLEAN, rev : Nat, text : Int, translates : BOOLEAN]
WatchMembers == [alive : BOOLEAN, debounce : BOOLEAN, failed : BOOLEAN]
EditorTypes ==
  /\ file \in FileMembers /\ written \in Nat
  /\ store \in StoreMembers
  /\ watch \in WatchMembers
  /\ tab \in [Tab -> TabMembers]

\* n is a text of document d, its line ends translated or not.
IsTextOf(n, d) == n \in {d, -d}
\* A tab is of a server that was started, and of the running one it has no later revision.
Loaded(x) ==
  /\ x.server <= store.starts
  /\ store.server # 0 /\ x.server = store.server =>
       /\ x.rev <= store.rev
       /\ x.rev = store.rev => x.doc = store.doc
Watched ==
  store.server # 0 /\ watch.alive /\ ~watch.debounce /\ file.ok /\ ~watch.failed =>
    store.print = file.text
EditorInv ==
  /\ EditorTypes
  /\ store.server <= store.starts
  /\ IsTextOf(file.text, file.doc)
  /\ store.server # 0 => IsTextOf(store.print, store.doc)
  /\ \A t \in Tab : Loaded(tab[t])
  /\ Watched

LEMMA BroadcastFields ==
  ASSUME NEW tabs \in [Tab -> TabMembers], NEW rev \in Nat
  PROVE  LET y == Editor!Broadcast(tabs, rev) IN
         /\ y \in [Tab -> TabMembers]
         /\ \A t \in Tab : /\ y[t].server = tabs[t].server /\ y[t].rev = tabs[t].rev
                           /\ y[t].doc = tabs[t].doc
<1> DEFINE y == Editor!Broadcast(tabs, rev)
<1>1. ASSUME NEW x \in TabMembers
      PROVE  LET z == [x EXCEPT !.events = Append(x.events, rev)] IN
             /\ z \in TabMembers
             /\ z.server = x.server /\ z.rev = x.rev /\ z.doc = x.doc
  <2> DEFINE e == Append(x.events, rev)
  <2>1. e \in Seq(Nat)
    BY DEF TabMembers
  <2> HIDE DEF e
  <2> DEFINE z == [x EXCEPT !.events = e]
  <2>2. /\ z \in TabMembers
        /\ z.server = x.server /\ z.rev = x.rev /\ z.doc = x.doc
    BY <2>1 DEF TabMembers
  <2> QED BY <2>2 DEF e
<1>2. y = [t \in Tab |-> IF tabs[t].server = store.server
                         THEN [tabs[t] EXCEPT !.events = Append(tabs[t].events, rev)]
                         ELSE tabs[t]]
  BY DEF Editor!Broadcast
<1>3. ASSUME NEW t \in Tab
      PROVE  /\ y[t] \in TabMembers
             /\ y[t].server = tabs[t].server /\ y[t].rev = tabs[t].rev
             /\ y[t].doc = tabs[t].doc
  <2>1. tabs[t] \in TabMembers
    OBVIOUS
  <2>2. CASE tabs[t].server = store.server
    <3>1. y[t] = [tabs[t] EXCEPT !.events = Append(tabs[t].events, rev)]
      BY <1>2, <2>2
    <3> QED BY <1>1, <2>1, <3>1
  <2>3. CASE tabs[t].server # store.server
    <3>1. y[t] = tabs[t]
      BY <1>2, <2>3
    <3> QED BY <2>1, <3>1
  <2> QED BY <2>2, <2>3
<1>4. y \in [Tab -> TabMembers]
  <2>1. DOMAIN y = Tab /\ y = [t \in Tab |-> y[t]]
    BY <1>2
  <2> HIDE DEF y
  <2> QED BY <1>3, <2>1
<1> QED BY <1>3, <1>4

\* The tab as it is after one tab was changed.
LEMMA OneTabChanges ==
  ASSUME NEW tabs \in [Tab -> TabMembers], NEW t \in Tab, NEW x \in TabMembers,
         NEW y, y = [tabs EXCEPT ![t] = x]
  PROVE  /\ y \in [Tab -> TabMembers] /\ y[t] = x
         /\ \A u \in Tab : u # t => y[u] = tabs[u]
OBVIOUS

LEMMA NoTabIsOne == Editor!NoTab \in TabMembers /\ Editor!NoTab.server = 0
BY DEF Editor!NoTab, TabMembers

LEMMA EditorKeeps == EditorInv /\ [Editor!Next]_editorVars => EditorInv'
<1> SUFFICES ASSUME EditorInv, [Editor!Next]_editorVars PROVE EditorInv'
  OBVIOUS
<1> USE DEF EditorInv, EditorTypes
<1>n. Editor!NotWatched = [alive |-> FALSE, debounce |-> FALSE, failed |-> FALSE]
      /\ Editor!NotWatched \in WatchMembers
  BY DEF Editor!NotWatched, WatchMembers
<1>1. ASSUME Editor!Start PROVE EditorInv'
  <2> DEFINE n == store.starts + 1
             r == file.rev + 1
             a == file.doc # 0
  <2>1. n \in Nat /\ r \in Nat /\ store.starts < n /\ a \in BOOLEAN
    BY DEF StoreMembers, FileMembers
  <2>2. /\ store.server = 0
        /\ file' = file /\ written' = written /\ tab' = tab
        /\ \/ store' = [store EXCEPT !.starts = n] /\ watch' = watch
           \/ /\ store' = [server |-> n, starts |-> n, doc |-> file.doc, rev |-> r,
                           print |-> file.text]
              /\ watch' = [Editor!NotWatched EXCEPT !.alive = a]
    BY <1>1 DEF Editor!Start
  <2> HIDE DEF n, r, a
  <2>3. CASE store' = [store EXCEPT !.starts = n] /\ watch' = watch
    <3>1. store' \in StoreMembers
          /\ store'.server = 0 /\ store'.starts = n
      BY <2>1, <2>2, <2>3 DEF StoreMembers
    <3>2. \A t \in Tab : tab[t].server \in Nat /\ tab[t].server <= n
      BY <2>1 DEF Loaded, TabMembers, StoreMembers
    <3> QED BY <2>1, <2>2, <2>3, <3>1, <3>2 DEF Loaded, Watched
  <2>4. CASE /\ store' = [server |-> n, starts |-> n, doc |-> file.doc, rev |-> r,
                          print |-> file.text]
             /\ watch' = [Editor!NotWatched EXCEPT !.alive = a]
    <3>1. /\ store' \in StoreMembers /\ watch' \in WatchMembers
          /\ store'.server = n /\ store'.starts = n
          /\ store'.doc = file.doc /\ store'.print = file.text
      BY <1>n, <2>1, <2>4 DEF StoreMembers, FileMembers, WatchMembers
    <3>2. \A t \in Tab : tab[t].server \in Nat /\ tab[t].server < n
      BY <2>1 DEF Loaded, TabMembers, StoreMembers
    <3>3. n \in Nat
      BY <2>1
    <3> QED BY <2>2, <3>1, <3>2, <3>3 DEF Loaded, Watched
  <2> QED BY <2>2, <2>3, <2>4
<1>2. ASSUME Editor!Stop PROVE EditorInv'
  <2>1. /\ store' = [store EXCEPT !.server = 0] /\ watch' = Editor!NotWatched
        /\ file' = file /\ written' = written /\ tab' = tab
    BY <1>2 DEF Editor!Stop
  <2>2. store' \in StoreMembers /\ store'.server = 0 /\ store'.starts = store.starts
    BY <2>1 DEF StoreMembers
  <2>3. \A t \in Tab : tab[t].server <= store.starts
    BY DEF Loaded
  <2>4. 0 <= store.starts
    BY DEF StoreMembers
  <2> QED BY <1>n, <2>1, <2>2, <2>3, <2>4 DEF Loaded, Watched
<1>w. ASSUME NEW replaced \in BOOLEAN, Editor!Noticed(replaced)
      PROVE  watch' \in WatchMembers /\ (watch'.alive => watch'.debounce)
  <2>1. PICK alive \in {watch.alive, FALSE} :
          watch' = [watch EXCEPT !.alive = alive, !.debounce = watch.debounce \/ watch.alive]
    BY <1>w DEF Editor!Noticed
  <2>2. alive \in BOOLEAN /\ (alive => watch.alive)
    BY DEF WatchMembers
  <2> DEFINE d == watch.debounce \/ watch.alive
  <2>3. d \in BOOLEAN /\ (alive => d) /\ watch' = [watch EXCEPT !.alive = alive, !.debounce = d]
    BY <2>1, <2>2
  <2> HIDE DEF d
  <2> QED BY <2>2, <2>3 DEF WatchMembers
<1>3. ASSUME NEW ok \in OutsideEdits, NEW replaced \in BOOLEAN, ok \in BOOLEAN,
             Editor!ExternalEdit(ok, replaced)
      PROVE  EditorInv'
  <2> DEFINE n == written + 1
  <2>1. /\ file' = [file EXCEPT !.doc = n, !.ok = ok, !.text = n]
        /\ written' = n /\ store' = store /\ tab' = tab
    BY <1>3 DEF Editor!ExternalEdit
  <2>2. watch' \in WatchMembers /\ (watch'.alive => watch'.debounce)
    BY <1>3, <1>w DEF Editor!ExternalEdit
  <2>3. n \in Nat /\ n \in Int
    OBVIOUS
  <2> HIDE DEF n
  <2>4. file' \in FileMembers /\ file'.doc = n /\ file'.text = n
    BY <1>3, <2>1, <2>3 DEF FileMembers
  <2> QED BY <2>1, <2>2, <2>3, <2>4 DEF Loaded, Watched, IsTextOf
<1>4. ASSUME NEW opened \in BOOLEAN, Editor!OnConfigFileChanged(opened) PROVE EditorInv'
  <2> DEFINE f == ~opened
  <2>1. /\ store.server # 0 /\ file' = file /\ written' = written
        /\ watch' = [watch EXCEPT !.debounce = FALSE, !.failed = f]
    BY <1>4 DEF Editor!OnConfigFileChanged
  <2>a. f \in BOOLEAN /\ (f <=> ~opened)
    OBVIOUS
  <2> HIDE DEF f
  <2>b. watch' \in WatchMembers /\ watch'.failed = f
    BY <2>1, <2>a DEF WatchMembers
  <2>2. CASE opened /\ file.ok /\ file.text # store.print
    <3> DEFINE r == store.rev + 1
    <3>1. store' = [store EXCEPT !.doc = file.doc, !.rev = r, !.print = file.text]
          /\ tab' = Editor!Broadcast(tab, store'.rev)
      BY <1>4, <2>2 DEF Editor!OnConfigFileChanged, Editor!Adopted
    <3>2. r \in Nat /\ store.rev < r /\ store.rev \in Nat
      BY DEF StoreMembers
    <3> HIDE DEF r
    <3>3. /\ store' \in StoreMembers
          /\ store'.server = store.server /\ store'.starts = store.starts
          /\ store'.rev = r /\ store'.doc = file.doc /\ store'.print = file.text
      BY <3>1, <3>2 DEF StoreMembers, FileMembers
    <3>4. /\ tab' \in [Tab -> TabMembers]
          /\ \A t \in Tab : /\ tab'[t].server = tab[t].server /\ tab'[t].rev = tab[t].rev
                            /\ tab'[t].doc = tab[t].doc
      BY <3>1, <3>2, <3>3, BroadcastFields
    <3>5. \A t \in Tab : Loaded(tab[t])'
      <4> SUFFICES ASSUME NEW t \in Tab PROVE Loaded(tab[t])'
        OBVIOUS
      <4>1. Loaded(tab[t]) /\ tab[t].rev \in Nat
        BY DEF TabMembers
      <4> QED BY <3>2, <3>3, <3>4, <4>1 DEF Loaded
    <3> QED BY <2>1, <2>b, <3>3, <3>4, <3>5 DEF Watched
  <2>3. CASE ~(opened /\ file.ok /\ file.text # store.print)
    <3>1. store' = store /\ tab' = tab
      BY <1>4, <2>3 DEF Editor!OnConfigFileChanged
    <3> QED BY <2>1, <2>a, <2>b, <2>3, <3>1 DEF Loaded, Watched
  <2> QED BY <2>2, <2>3
<1>5. ASSUME NEW t \in Tab, Editor!OpenTab(t) PROVE EditorInv'
  <2> DEFINE z == Editor!Opened(t)
             x == [z EXCEPT !.base = store.rev, !.rev = store.rev, !.doc = store.doc]
  <2>1. z \in TabMembers /\ z.server = store.server
    BY NoTabIsOne DEF Editor!Opened, TabMembers, StoreMembers
  <2>2. /\ tab' = [tab EXCEPT ![t] = x]
        /\ file' = file /\ written' = written /\ store' = store /\ watch' = watch
    BY <1>5 DEF Editor!OpenTab
  <2> HIDE DEF z
  <2>3. /\ x \in TabMembers /\ x.server = store.server
        /\ x.rev = store.rev /\ x.doc = store.doc /\ store.rev <= store.rev
    <3>1. store.rev \in Nat /\ store.doc \in Nat /\ store.rev <= store.rev
      BY DEF StoreMembers
    <3> QED BY <2>1, <3>1 DEF TabMembers
  <2> HIDE DEF x
  <2>4. Loaded(x)
    BY <2>3 DEF Loaded
  <2>5. tab' \in [Tab -> TabMembers] /\ tab'[t] = x /\ \A u \in Tab : u # t => tab'[u] = tab[u]
    BY <2>2, <2>3, OneTabChanges
  <2> QED BY <2>2, <2>4, <2>5 DEF Loaded, Watched
<1>6. ASSUME NEW t \in Tab, Editor!Save(t) PROVE EditorInv'
  <2> DEFINE r == store.rev + 1
             n == written + 1
             y == Editor!Broadcast(tab, r)
             x == [y[t] EXCEPT !.base = r, !.rev = r, !.doc = n, !.forced = FALSE]
             m == IF file.translates THEN -n ELSE n
  <2>1. /\ r \in Nat /\ n \in Nat /\ store.rev < r /\ store.rev \in Nat
        /\ n \in Int /\ m \in Int /\ IsTextOf(m, n)
    BY DEF StoreMembers, IsTextOf
  <2>2. /\ store.server # 0 /\ written' = n
        /\ file' = [file EXCEPT !.doc = n, !.ok = TRUE, !.rev = r, !.text = m]
        /\ store' = [store EXCEPT !.doc = n, !.rev = r, !.print = n]
        /\ tab[t].server = store.server
    BY <1>6 DEF Editor!Save, Editor!Admits
  <2>3. tab' = [y EXCEPT ![t] = x]
    BY <1>6 DEF Editor!Save
  <2>5. watch' \in WatchMembers /\ (watch'.alive => watch'.debounce)
    BY <1>6, <1>w DEF Editor!Save
  <2>6. /\ y \in [Tab -> TabMembers]
        /\ \A u \in Tab : /\ y[u].server = tab[u].server /\ y[u].rev = tab[u].rev
                          /\ y[u].doc = tab[u].doc
    BY <2>1, BroadcastFields
  <2> HIDE DEF r, n, m, y
  <2>7. x \in TabMembers /\ x.rev = r /\ x.doc = n /\ x.server = y[t].server
    BY <2>1, <2>6 DEF TabMembers
  <2> HIDE DEF x
  <2>8. tab' \in [Tab -> TabMembers] /\ tab'[t] = x /\ \A u \in Tab : u # t => tab'[u] = y[u]
    BY <2>3, <2>6, <2>7, OneTabChanges
  <2>9. /\ store' \in StoreMembers
        /\ store'.server = store.server /\ store'.starts = store.starts
        /\ store'.rev = r /\ store'.doc = n /\ store'.print = n
    BY <2>1, <2>2 DEF StoreMembers
  <2>10. ASSUME NEW u \in Tab PROVE Loaded(tab[u])'
    <3>1. CASE u = t
      BY <2>1, <2>2, <2>6, <2>7, <2>8, <2>9, <3>1 DEF Loaded
    <3>2. CASE u # t
      <4>1. Loaded(tab[u]) /\ tab[u].rev \in Nat
        BY DEF TabMembers
      <4>2. /\ tab'[u].server = tab[u].server /\ tab'[u].rev = tab[u].rev
            /\ tab'[u].doc = tab[u].doc
        BY <2>6, <2>8, <3>2
      <4> QED BY <2>1, <2>9, <4>1, <4>2 DEF Loaded
    <3> QED BY <3>1, <3>2
  <2>11. file' \in FileMembers /\ file'.doc = n /\ file'.text = m
    BY <2>1, <2>2 DEF FileMembers
  <2> QED BY <2>1, <2>2, <2>5, <2>8, <2>9, <2>10, <2>11 DEF Watched, IsTextOf
<1>x. ASSUME NEW t \in Tab, NEW x \in TabMembers, x.server = tab[t].server,
             \/ x.rev = tab[t].rev /\ x.doc = tab[t].doc
             \/ x.rev = store.rev /\ x.doc = store.doc,
             tab' = [tab EXCEPT ![t] = x],
             file' = file, written' = written, store' = store, watch' = watch
      PROVE  EditorInv'
  <2>1. tab' \in [Tab -> TabMembers] /\ tab'[t] = x /\ \A u \in Tab : u # t => tab'[u] = tab[u]
    BY <1>x, OneTabChanges
  <2>2. Loaded(x)
    <3>1. store.rev <= store.rev /\ Loaded(tab[t])
      BY DEF StoreMembers
    <3> QED BY <1>x, <3>1 DEF Loaded
  <2> QED BY <1>x, <2>1, <2>2 DEF Loaded, Watched
<1>7. ASSUME NEW t \in Tab, Editor!OnEvent(t) PROVE EditorInv'
  <2> DEFINE b == Head(tab[t].events)
             e == Tail(tab[t].events)
             x == [tab[t] EXCEPT !.base = b, !.events = e]
  <2>1. tab[t] \in TabMembers /\ tab[t].events \in Seq(Nat) /\ tab[t].events # <<>>
    BY <1>7 DEF Editor!OnEvent, TabMembers
  <2>2. b \in Nat /\ e \in Seq(Nat)
    <3> DEFINE s == tab[t].events
    <3> HIDE DEF s
    <3>1. s \in Seq(Nat) /\ s # <<>>
      BY <2>1 DEF s
    <3>2. Head(s) \in Nat /\ Tail(s) \in Seq(Nat)
      BY <3>1
    <3> QED BY <3>2 DEF s
  <2>3. /\ tab' = [tab EXCEPT ![t] = x]
        /\ file' = file /\ written' = written /\ store' = store /\ watch' = watch
    BY <1>7 DEF Editor!OnEvent
  <2> HIDE DEF b, e
  <2>4. x \in TabMembers /\ x.server = tab[t].server /\ x.rev = tab[t].rev
        /\ x.doc = tab[t].doc
    BY <2>1, <2>2 DEF TabMembers
  <2> HIDE DEF x
  <2> QED BY <1>x, <2>3, <2>4
<1>8. ASSUME NEW t \in Tab, NEW overwrite \in BOOLEAN, Editor!Conflict(t, overwrite)
      PROVE  EditorInv'
  <2> DEFINE x == IF overwrite THEN [tab[t] EXCEPT !.base = store.rev, !.forced = TRUE]
                  ELSE [tab[t] EXCEPT !.base = store.rev, !.rev = store.rev,
                                      !.doc = store.doc, !.forced = FALSE]
  <2>1. /\ tab' = [tab EXCEPT ![t] = x]
        /\ file' = file /\ written' = written /\ store' = store /\ watch' = watch
    BY <1>8 DEF Editor!Conflict
  <2>2. /\ x \in TabMembers /\ x.server = tab[t].server
        /\ \/ x.rev = tab[t].rev /\ x.doc = tab[t].doc
           \/ x.rev = store.rev /\ x.doc = store.doc
    <3>1. tab[t] \in TabMembers /\ store.rev \in Nat /\ store.doc \in Nat
      BY DEF StoreMembers
    <3>2. CASE overwrite
      BY <3>1, <3>2 DEF TabMembers
    <3>3. CASE ~overwrite
      BY <3>1, <3>3 DEF TabMembers
    <3> QED BY <3>2, <3>3
  <2> HIDE DEF x
  <2> QED BY <1>x, <2>1, <2>2
<1>9. ASSUME UNCHANGED editorVars PROVE EditorInv'
  BY <1>9 DEF editorVars, Loaded, Watched
<1> QED
  BY <1>1, <1>2, <1>3, <1>4, <1>5, <1>6, <1>7, <1>8, <1>9, EditorAssumption DEF Editor!Next

\* A revision names one content, and an untouched watched file is the document unless it could
\* not be opened after its last change, whatever is saved, edited outside and adopted
\* (DagDocumentStore, DagEditorServer::OnConfigFileChanged).
THEOREM RevisionsNameContents == ServicesSpec => []RevisionNamesContent
<1>1. ServicesInit => EditorInv
  <2> SUFFICES ASSUME ServicesInit PROVE EditorInv
    OBVIOUS
  <2>1. /\ written = 1 /\ watch = [alive |-> FALSE, debounce |-> FALSE, failed |-> FALSE]
        /\ store = [server |-> 0, starts |-> 0, doc |-> 0, rev |-> 0, print |-> 0]
        /\ tab = [t \in Tab |-> Editor!NoTab]
    BY DEF ServicesInit, Editor!Init, Editor!NotWatched
  <2>2. file \in FileMembers /\ file.text = file.doc
    <3>1. \E ok, translates \in BOOLEAN :
            file \in {[doc |-> 0, ok |-> FALSE, rev |-> 0, text |-> 0, translates |-> translates],
                     [doc |-> 1, ok |-> ok, rev |-> 1, text |-> 1, translates |-> translates]}
      BY Zenon DEF ServicesInit, Editor!Init
    <3>2. PICK ok \in BOOLEAN, translates \in BOOLEAN :
            file \in {[doc |-> 0, ok |-> FALSE, rev |-> 0, text |-> 0, translates |-> translates],
                     [doc |-> 1, ok |-> ok, rev |-> 1, text |-> 1, translates |-> translates]}
      BY ONLY <3>1
    <3>3. ok \in BOOLEAN /\ translates \in BOOLEAN
      BY <3>2
    <3>4. CASE file = [doc |-> 0, ok |-> FALSE, rev |-> 0, text |-> 0, translates |-> translates]
      BY ONLY <3>3, <3>4 DEF FileMembers
    <3>5. CASE file = [doc |-> 1, ok |-> ok, rev |-> 1, text |-> 1, translates |-> translates]
      BY ONLY <3>3, <3>5 DEF FileMembers
    <3> QED BY <3>2, <3>4, <3>5
  <2>3. tab \in [Tab -> TabMembers] /\ \A t \in Tab : tab[t].server = 0
    BY <2>1, NoTabIsOne
  <2> QED BY <2>1, <2>2, <2>3 DEF EditorInv, EditorTypes, Loaded, Watched, IsTextOf, StoreMembers,
                                WatchMembers
<1>2. EditorInv /\ [ServicesNext]_servicesVars => EditorInv'
  BY EachPartMovesAlone, EditorKeeps
<1>3. EditorInv => RevisionNamesContent
  <2> SUFFICES ASSUME EditorInv PROVE RevisionNamesContent
    OBVIOUS
  <2>1. store.doc \in Nat /\ file.doc \in Nat
    BY DEF EditorInv, EditorTypes, StoreMembers, FileMembers
  <2>2. store.server # 0 /\ store.print = file.text => store.doc = file.doc
    BY <2>1 DEF EditorInv, IsTextOf
  <2> QED BY <2>2 DEF EditorInv, RevisionNamesContent, Editor!RevisionNamesContent,
                      Editor!Admits, Loaded, Watched
<1> QED BY <1>1, <1>2, <1>3, PTL DEF ServicesSpec

-----------------------------------------------------------------------------
(* ToolLoop *)

CallId == Nat \X Nat \X Nat
Todo == [name : Loop!Call, id : CallId]
LoopRecord ==
  [busy : BOOLEAN, id : Nat, config : Loop!ConfigType, llm : Nat, fallback : BOOLEAN,
   terminal : BOOLEAN, allTerminate : BOOLEAN, round : Nat, todo : Seq(Todo)]
Posted == [kind : {"dispatch", "finished"}, loop : Nat]
Question == [tool : Tool, call : CallId, ask : Nat \ {0}]

\* The last loop that has reported.
Reported(l, n) == IF l.busy THEN n - 1 ELSE n
DispatchOf(id) == [kind |-> "dispatch", loop |-> id]
NotPosted(q, x) == \A i \in 1..Len(q) : q[i] # x
PostedOnce(q, x) == \E i \in 1..Len(q) : q[i] = x /\ \A j \in 1..Len(q) : q[j] = x => j = i
\* What is posted is of loops that were started, and Finished of those that have reported.
PostedIsOld(q, n, r) ==
  /\ q \in Seq(Posted)
  /\ \A i \in 1..Len(q) : q[i].loop <= n /\ (q[i].kind = "finished" => q[i].loop <= r)

\* A loop in progress runs its dispatch, waits for the LLM, for a posted dispatch or a tool.
Runs ==
  /\ dispatching /\ chats = {} /\ active = Loop!Idle /\ NotPosted(posted, DispatchOf(loop.id))
  /\ loop.llm = 0 /\ ~loop.terminal
AwaitsLlm ==
  /\ ~dispatching /\ active = Loop!Idle /\ NotPosted(posted, DispatchOf(loop.id))
  /\ loop.llm # 0 /\ loop.todo = <<>>
  /\ \E r \in chats : /\ chats = {r} /\ r \in [id : Nat \ {0}, tools : BOOLEAN]
                      /\ r.id = loop.llm /\ (loop.terminal => ~r.tools)
AwaitsDispatch ==
  /\ ~dispatching /\ chats = {} /\ active = Loop!Idle /\ PostedOnce(posted, DispatchOf(loop.id))
  /\ loop.llm = 0 /\ ~loop.terminal
AwaitsTool ==
  /\ ~dispatching /\ chats = {} /\ active \in Question
  /\ NotPosted(posted, DispatchOf(loop.id))
  /\ loop.llm = 0 /\ ~loop.terminal

LoopTypes ==
  /\ loop \in LoopRecord /\ deadline \in BOOLEAN
CounterTypes ==
  /\ late \in BOOLEAN /\ dispatching \in BOOLEAN
  /\ calls \in Nat /\ waiting \in Nat /\ nextLoop \in 0..MaxLoops /\ nextChat \in Nat
  /\ nextAsk \in Nat /\ requests \in Nat /\ ran \in Nat
LoopWaits ==
  /\ loop.busy => /\ waiting = loop.id /\ nextLoop = loop.id /\ loop.id # 0
                  /\ Runs \/ AwaitsLlm \/ AwaitsDispatch \/ AwaitsTool
  /\ ~loop.busy => /\ chats = {} /\ active = Loop!Idle /\ ~deadline /\ ~dispatching
                   /\ loop.llm = 0
  /\ PostedIsOld(posted, nextLoop, Reported(loop, nextLoop))
  /\ results = [i \in 1..Reported(loop, nextLoop) |-> i]
AsksAreOld ==
  /\ asks \subseteq Question
  /\ active = Loop!Idle \/ active \in Question
  /\ active.ask <= nextAsk
  /\ \A a \in asks : a.ask <= nextAsk /\ (a.ask = active.ask => a = active)
BudgetsInv ==
  loop.busy => /\ requests <= loop.round + 1
               /\ ~loop.terminal => requests <= loop.round
               /\ loop.round <= loop.config.maxRounds
               /\ ran <= calls /\ calls <= loop.config.maxCalls
ToolLoopInv == LoopTypes /\ CounterTypes /\ LoopWaits /\ AsksAreOld /\ BudgetsInv

\* The messages: a prompt, requests for tools, answers.
UserMessage == [role : {"user"}]
AssistantMessage == [role : {"assistant"}, calls : Seq(CallId)]
ToolMessage == [role : {"tool"}, call : CallId, from : CallId]
Message == UserMessage \cup AssistantMessage \cup ToolMessage
\* The k-th call without an answer: first the tool that runs, then the calls to dispatch.
Owed(q, todo, k, call) ==
  IF q # Loop!Idle
  THEN \/ k = 1 /\ q.call = call
       \/ k - 1 \in 1..Len(todo) /\ todo[k - 1].id = call
  ELSE k \in 1..Len(todo) /\ todo[k].id = call
AnsweredOrOwed(m, q, todo) ==
  \A i \in 1..Len(m) : m[i].role = "assistant" =>
    \A k \in 1..Len(m[i].calls) :
      \/ i + k <= Len(m) /\ m[i + k].role = "tool" /\ m[i + k].call = m[i].calls[k]
      \/ i + k > Len(m) /\ Owed(q, todo, i + k - Len(m), m[i].calls[k])
FromItsCall(m) ==
  \A i \in 1..Len(m) : m[i].role = "tool" => m[i].from \in {Loop!NoCall, m[i].call}
TranscriptInv ==
  /\ messages \in Seq(Message)
  /\ FromItsCall(messages)
  /\ loop.busy => AnsweredOrOwed(messages, active, loop.todo)

LEMMA IdleAsksNothing ==
  /\ Loop!Idle.ask = 0 /\ Loop!Idle.tool = NoTool /\ Loop!Idle.call = Loop!NoCall
  /\ Loop!NoCall \in CallId /\ Loop!Idle \notin Question
<1>1. Loop!Idle.ask = 0 /\ Loop!Idle.tool = NoTool /\ Loop!Idle.call = Loop!NoCall
  BY DEF Loop!Idle
<1>2. Loop!NoCall \in CallId
  BY DEF Loop!NoCall, CallId
<1>3. ASSUME Loop!Idle \in Question PROVE FALSE
  BY <1>1, <1>3 DEF Question
<1> QED BY <1>1, <1>2, <1>3

LEMMA FinishedLoop ==
  ASSUME NEW l \in LoopRecord, Loop!Finish(l), l.id # 0,
         PostedIsOld(posted, l.id, l.id - 1), results = [i \in 1..(l.id - 1) |-> i]
  PROVE  /\ loop' \in LoopRecord /\ ~loop'.busy /\ loop'.llm = 0 /\ deadline' = FALSE
         /\ PostedIsOld(posted', l.id, l.id) /\ results' = [i \in 1..l.id |-> i]
<1>1. loop' \in LoopRecord /\ ~loop'.busy /\ loop'.llm = 0
  <2>1. loop' = [l EXCEPT !.busy = FALSE, !.id = 0, !.llm = 0, !.todo = <<>>]
    BY DEF Loop!Finish
  <2>2. <<>> \in Seq(Todo)
    OBVIOUS
  <2>3. loop' \in LoopRecord
    BY <2>1, <2>2 DEF LoopRecord
  <2>4. ~loop'.busy
    BY <2>1 DEF LoopRecord
  <2>5. loop'.llm = 0
    BY <2>1 DEF LoopRecord
  <2> QED BY <2>3, <2>4, <2>5
<1>2. deadline' = FALSE
  BY DEF Loop!Finish
<1>3. l.id \in Nat
  BY DEF LoopRecord
<1>4. PostedIsOld(posted', l.id, l.id)
  <2> DEFINE x == [kind |-> "finished", loop |-> l.id]
  <2>1. x \in Posted /\ x.loop = l.id
    BY <1>3 DEF Posted
  <2>2. posted' = Append(posted, x)
    BY DEF Loop!Finish
  <2> HIDE DEF x
  <2>3. /\ posted' \in Seq(Posted) /\ Len(posted') = Len(posted) + 1 /\ Len(posted) \in Nat
        /\ posted'[Len(posted) + 1] = x
        /\ \A i \in 1..Len(posted) : posted'[i] = posted[i] /\ posted[i] \in Posted
    BY <2>1, <2>2 DEF PostedIsOld
  <2>4. ASSUME NEW i \in 1..Len(posted')
        PROVE posted'[i].loop <= l.id
    <3>1. CASE i = Len(posted) + 1
      BY <1>3, <2>1, <2>3, <3>1
    <3>2. CASE i \in 1..Len(posted)
      BY <2>3, <3>2 DEF PostedIsOld
    <3> QED BY <2>3, <3>1, <3>2
  <2> QED BY <2>3, <2>4 DEF PostedIsOld
<1>5. results' = [i \in 1..l.id |-> i]
  <2>1. results' = Append([i \in 1..(l.id - 1) |-> i], l.id)
    BY DEF Loop!Finish
  <2>2. l.id - 1 \in Nat /\ l.id = (l.id - 1) + 1
    BY <1>3
  <2> QED BY <1>3, <2>1, <2>2
<1> QED BY <1>1, <1>2, <1>4, <1>5

\* A loop that finishes keeps the invariant if nothing of it is left.
LEMMA FinishKeeps ==
  ASSUME NEW l \in LoopRecord, Loop!Finish(l), l.id = nextLoop', l.id # 0,
         PostedIsOld(posted, l.id, l.id - 1), results = [i \in 1..(l.id - 1) |-> i],
         chats' = {}, active' = Loop!Idle, dispatching' = FALSE
  PROVE  LoopTypes' /\ LoopWaits' /\ BudgetsInv' /\ ~loop'.busy
<1>1. /\ loop' \in LoopRecord /\ ~loop'.busy /\ loop'.llm = 0 /\ deadline' = FALSE
      /\ PostedIsOld(posted', l.id, l.id) /\ results' = [i \in 1..l.id |-> i]
  BY FinishedLoop
<1>2. Reported(loop, nextLoop)' = l.id
  BY <1>1 DEF Reported
<1>3. PostedIsOld(posted', nextLoop', Reported(loop, nextLoop)')
  BY <1>1, <1>2
<1>4. results' = [i \in 1..Reported(loop, nextLoop)' |-> i]
  BY <1>1, <1>2
<1>5. LoopTypes' /\ BudgetsInv'
  BY <1>1 DEF LoopTypes, BudgetsInv
<1> QED BY <1>1, <1>3, <1>4, <1>5 DEF LoopWaits

LEMMA AcceptedKeeps ==
  ASSUME ToolLoopInv, loop.busy, active = Loop!Idle, NotPosted(posted, DispatchOf(loop.id)),
         NEW l \in LoopRecord, l.busy, l.id = loop.id, l.todo = <<>>,
         NEW withTools \in BOOLEAN, Loop!Accepted(l, withTools, {}),
         requests <= l.round, withTools => requests < l.round,
         l.round <= l.config.maxRounds, ran <= calls, calls <= l.config.maxCalls,
         active' = active, dispatching' = FALSE, nextLoop' = nextLoop, waiting' = waiting,
         ran' = ran, calls' = calls
  PROVE  /\ LoopTypes' /\ LoopWaits' /\ BudgetsInv'
         /\ requests' \in Nat /\ nextChat' \in Nat /\ loop'.todo = <<>>
<1> DEFINE n == nextChat + 1
<1> DEFINE tools == withTools /\ ~l.fallback /\ l.config.offers
<1> DEFINE r == [id |-> n, tools |-> tools]
<1> USE DEF ToolLoopInv, LoopTypes, CounterTypes
<1>0. n \in Nat \ {0}
  OBVIOUS
<1>1. /\ nextChat' = n /\ chats' = {} \cup {r} /\ requests' = requests + 1
      /\ deadline' = deadline /\ posted' = posted /\ results' = results
  BY DEF Loop!Accepted
<1>2. loop' = [l EXCEPT !.llm = n, !.terminal = ~withTools]
  BY DEF Loop!Accepted
<1>3. r \in [id : Nat \ {0}, tools : BOOLEAN] /\ r.id = n /\ (r.tools => withTools)
  <2>1. tools \in BOOLEAN /\ (tools => withTools)
    BY DEF LoopRecord, Loop!ConfigType
  <2> HIDE DEF tools, n
  <2> QED BY <1>0, <2>1
<1> HIDE DEF n, tools, r
<1>4. loop' \in LoopRecord
  BY <1>0, <1>2 DEF LoopRecord
<1>5. /\ loop'.busy = l.busy /\ loop'.terminal = ~withTools
      /\ loop'.id = l.id /\ loop'.llm = n /\ loop'.todo = l.todo
      /\ loop'.round = l.round /\ loop'.config = l.config
  BY <1>2 DEF LoopRecord
<1>6. chats' = {r}
  BY <1>1
<1>7. AwaitsLlm'
  <2>1. loop'.terminal => ~r.tools
    BY <1>3, <1>5
  <2>2. NotPosted(posted', DispatchOf(loop'.id))
    BY <1>1, <1>5
  <2>3. loop'.llm # 0 /\ loop'.todo = <<>> /\ r.id = loop'.llm
    BY <1>0, <1>3, <1>5
  <2> QED BY <1>3, <1>6, <2>1, <2>2, <2>3 DEF AwaitsLlm
<1>8. Reported(loop, nextLoop)' = Reported(loop, nextLoop) /\ loop'.busy
  BY <1>5 DEF Reported
<1>9. LoopWaits'
  <2>1. /\ PostedIsOld(posted', nextLoop', Reported(loop, nextLoop)')
        /\ results' = [i \in 1..Reported(loop, nextLoop)' |-> i]
    BY <1>1, <1>8 DEF LoopWaits
  <2>2. waiting' = loop'.id /\ nextLoop' = loop'.id /\ loop'.id # 0
    BY <1>5 DEF LoopWaits
  <2> QED BY <1>7, <1>8, <2>1, <2>2 DEF LoopWaits
<1>10. BudgetsInv'
  <2>1. requests' <= loop'.round + 1 /\ loop'.round <= loop'.config.maxRounds
    BY <1>1, <1>4, <1>5 DEF LoopRecord
  <2>2. ~loop'.terminal => requests' <= loop'.round
    <3>1. ~loop'.terminal => requests < l.round
      BY <1>5
    <3>2. requests < l.round => requests' <= loop'.round
      BY <1>1, <1>5 DEF LoopRecord
    <3> QED BY <3>1, <3>2
  <2>3. ran' <= calls' /\ calls' <= loop'.config.maxCalls
    BY <1>5
  <2> QED BY <2>1, <2>2, <2>3 DEF BudgetsInv
<1>11. LoopTypes' /\ requests' \in Nat /\ nextChat' \in Nat
  BY <1>0, <1>1, <1>4
<1> QED BY <1>5, <1>9, <1>10, <1>11

\* A request is sent or the loop ends: either keeps the invariant.
LEMMA SendRoundKeeps ==
  ASSUME ToolLoopInv, loop.busy, active = Loop!Idle, NotPosted(posted, DispatchOf(loop.id)),
         NEW l \in LoopRecord, l.busy, l.id = loop.id, l.todo = <<>>,
         NEW withTools \in BOOLEAN, Loop!SendRound(l, withTools, {}),
         requests <= l.round, withTools => requests < l.round,
         l.round <= l.config.maxRounds, ran <= calls, calls <= l.config.maxCalls,
         active' = active, dispatching' = FALSE, nextLoop' = nextLoop, waiting' = waiting,
         ran' = ran, calls' = calls
  PROVE  /\ LoopTypes' /\ LoopWaits' /\ BudgetsInv'
         /\ requests' \in Nat /\ nextChat' \in Nat /\ (loop'.busy => loop'.todo = <<>>)
<1>1. CASE Loop!Accepted(l, withTools, {})
  BY <1>1, AcceptedKeeps
<1>2. CASE Loop!FinishWith(l, {})
  <2>1. /\ Loop!Finish(l) /\ chats' = {} /\ nextChat' = nextChat /\ requests' = requests
    BY <1>2 DEF Loop!FinishWith
  <2>2. /\ l.id = nextLoop' /\ l.id # 0 /\ PostedIsOld(posted, l.id, l.id - 1)
        /\ results = [i \in 1..(l.id - 1) |-> i]
    BY DEF ToolLoopInv, LoopWaits, Reported
  <2>3. LoopTypes' /\ LoopWaits' /\ BudgetsInv' /\ ~loop'.busy
    BY <2>1, <2>2, FinishKeeps
  <2> QED BY <2>1, <2>3 DEF ToolLoopInv, CounterTypes
<1> QED BY <1>1, <1>2 DEF Loop!SendRound

LEMMA BeginRoundKeeps ==
  ASSUME ToolLoopInv, loop.busy, active = Loop!Idle, NotPosted(posted, DispatchOf(loop.id)),
         NEW l \in LoopRecord, l.busy, l.id = loop.id, l.todo = <<>>,
         NEW withTools \in BOOLEAN, Loop!BeginRound(l, withTools, {}),
         requests <= l.round, l.round <= l.config.maxRounds,
         ran <= calls, calls <= l.config.maxCalls,
         active' = active, dispatching' = FALSE, nextLoop' = nextLoop, waiting' = waiting,
         ran' = ran, calls' = calls
  PROVE  /\ LoopTypes' /\ LoopWaits' /\ BudgetsInv'
         /\ requests' \in Nat /\ nextChat' \in Nat /\ (loop'.busy => loop'.todo = <<>>)
<1>1. CASE ~Loop!IsBudgetExhausted(l)
  <2> DEFINE x == [l EXCEPT !.round = l.round + 1]
  <2>1. x \in LoopRecord /\ x.id = l.id /\ x.todo = l.todo /\ x.config = l.config
        /\ x.round = l.round + 1
    BY DEF LoopRecord
  <2>2. x.busy = l.busy
    BY DEF LoopRecord
  <2>3. Loop!SendRound(x, withTools, {})
    BY <1>1 DEF Loop!BeginRound
  <2> HIDE DEF x
  <2>4. l.round < l.config.maxRounds
    <3>1. ~(l.round >= l.config.maxRounds)
      BY <1>1 DEF Loop!IsBudgetExhausted
    <3> QED BY <3>1 DEF LoopRecord, Loop!ConfigType
  <2>5. /\ requests <= x.round /\ (withTools => requests < x.round)
        /\ x.round <= x.config.maxRounds
    BY <2>1, <2>4 DEF LoopRecord, Loop!ConfigType, ToolLoopInv, CounterTypes
  <2> QED BY <2>1, <2>2, <2>3, <2>5, SendRoundKeeps
<1>2. CASE Loop!IsBudgetExhausted(l) /\ l.config.onBudget = "end"
  <2>1. Loop!SendRound(l, FALSE, {})
    BY <1>2 DEF Loop!BeginRound, Loop!SendRound
  <2> QED BY <2>1, SendRoundKeeps
<1>3. CASE Loop!IsBudgetExhausted(l) /\ l.config.onBudget # "end"
  <2>1. Loop!SendRound(l, FALSE, {})
    BY <1>3 DEF Loop!BeginRound
  <2> QED BY <2>1, SendRoundKeeps
<1> QED BY <1>1, <1>2, <1>3

\* What is appended to the posted calls, and what is left when the first has run.
LEMMA DispatchPosted ==
  ASSUME NEW n \in Nat, NEW r \in Int, NEW id \in 0..n, PostedIsOld(posted, n, r),
         NotPosted(posted, DispatchOf(id)),
         posted' = Append(posted, [kind |-> "dispatch", loop |-> id])
  PROVE  PostedIsOld(posted', n, r) /\ PostedOnce(posted', DispatchOf(id))
<1> DEFINE x == [kind |-> "dispatch", loop |-> id]
<1>1. x \in Posted /\ x.loop = id /\ x.kind # "finished" /\ x = DispatchOf(id)
  BY DEF Posted, DispatchOf
<1>2. posted' = Append(posted, x)
  OBVIOUS
<1> HIDE DEF x
<1>3. /\ posted' \in Seq(Posted) /\ Len(posted') = Len(posted) + 1 /\ Len(posted) \in Nat
      /\ posted'[Len(posted) + 1] = x
      /\ \A i \in 1..Len(posted) : posted'[i] = posted[i] /\ posted[i] \in Posted
  BY <1>1, <1>2 DEF PostedIsOld
<1>4. ASSUME NEW i \in 1..Len(posted')
      PROVE  posted'[i].loop <= n /\ (posted'[i].kind = "finished" => posted'[i].loop <= r)
  <2>1. CASE i = Len(posted) + 1
    BY <1>1, <1>3, <2>1
  <2>2. CASE i \in 1..Len(posted)
    BY <1>3, <2>2 DEF PostedIsOld
  <2> QED BY <1>3, <2>1, <2>2
<1>5. PostedOnce(posted', x)
  <2>1. \A j \in 1..Len(posted') : posted'[j] = x => j = Len(posted) + 1
    BY <1>1, <1>3 DEF NotPosted
  <2>2. Len(posted) + 1 \in 1..Len(posted')
    BY <1>3
  <2> QED BY <1>3, <2>1, <2>2 DEF PostedOnce
<1> QED BY <1>1, <1>3, <1>4, <1>5 DEF PostedIsOld

LEMMA FirstHasRun ==
  ASSUME NEW n \in Nat, NEW r \in Int, PostedIsOld(posted, n, r), posted # <<>>,
         posted' = Tail(posted), NEW x
  PROVE  /\ PostedIsOld(posted', n, r) /\ Head(posted) = posted[1] /\ 1 \in 1..Len(posted)
         /\ NotPosted(posted, x) => NotPosted(posted', x)
         /\ PostedOnce(posted, x) /\ Head(posted) = x => NotPosted(posted', x)
         /\ PostedOnce(posted, x) /\ Head(posted) # x => PostedOnce(posted', x)
<1>1. /\ posted' \in Seq(Posted) /\ Len(posted') = Len(posted) - 1 /\ Len(posted) \in Nat \ {0}
      /\ \A i \in 1..Len(posted') : posted'[i] = posted[i + 1]
      /\ Head(posted) = posted[1]
  BY DEF PostedIsOld
<1>2. \A i \in 1..Len(posted') : i + 1 \in 1..Len(posted)
  BY <1>1
<1>3. PostedIsOld(posted', n, r)
  BY <1>1, <1>2 DEF PostedIsOld
<1>4. NotPosted(posted, x) => NotPosted(posted', x)
  BY <1>1, <1>2 DEF NotPosted
<1>5. ASSUME PostedOnce(posted, x), Head(posted) = x PROVE NotPosted(posted', x)
  BY <1>1, <1>2, <1>5 DEF PostedOnce, NotPosted
<1>6. ASSUME PostedOnce(posted, x), Head(posted) # x PROVE PostedOnce(posted', x)
  <2>1. PICK i \in 1..Len(posted) : posted[i] = x /\ \A j \in 1..Len(posted) : posted[j] = x => j = i
    BY <1>6 DEF PostedOnce
  <2>2. i - 1 \in 1..Len(posted') /\ (i - 1) + 1 = i
    BY <1>1, <1>6, <2>1
  <2>3. posted'[i - 1] = x
    BY <1>1, <2>1, <2>2
  <2>4. ASSUME NEW j \in 1..Len(posted'), posted'[j] = x PROVE j = i - 1
    <3>1. j + 1 \in 1..Len(posted) /\ posted[j + 1] = x
      BY <1>1, <1>2, <2>4
    <3> QED BY <2>1, <3>1
  <2> QED BY <2>2, <2>3, <2>4 DEF PostedOnce
<1> QED BY <1>1, <1>3, <1>4, <1>5, <1>6

LEMMA AsksShrink ==
  ASSUME AsksAreOld, asks' \subseteq asks, active' = active \/ active' = Loop!Idle,
         nextAsk' = nextAsk, nextAsk \in Nat
  PROVE  AsksAreOld'
<1>1. active'.ask <= nextAsk' /\ (active' = Loop!Idle \/ active' \in Question)
  BY IdleAsksNothing DEF AsksAreOld
<1>2. ASSUME NEW a \in asks' PROVE a.ask <= nextAsk' /\ (a.ask = active'.ask => a = active')
  <2>1. a \in asks /\ a.ask # 0
    BY DEF AsksAreOld, Question
  <2> QED BY <2>1, IdleAsksNothing DEF AsksAreOld
<1> QED BY <1>1, <1>2 DEF AsksAreOld

LEMMA NextCall ==
  ASSUME loop \in LoopRecord, loop.todo # <<>>
  PROVE  /\ Loop!AfterNext \in LoopRecord
         /\ Loop!AfterNext.busy = loop.busy /\ Loop!AfterNext.id = loop.id
         /\ Loop!AfterNext.llm = loop.llm /\ Loop!AfterNext.terminal = loop.terminal
         /\ Loop!AfterNext.round = loop.round /\ Loop!AfterNext.config = loop.config
         /\ Loop!AfterNext.todo = Tail(loop.todo)
         /\ Loop!Next1 = loop.todo[1] /\ Loop!Next1.id \in CallId
<1>1. loop.todo \in Seq(Todo)
  BY DEF LoopRecord
<1>2. Tail(loop.todo) \in Seq(Todo) /\ Head(loop.todo) = loop.todo[1] /\ loop.todo[1] \in Todo
  BY <1>1
<1>3. Loop!AfterNext = [loop EXCEPT !.todo = Tail(loop.todo)]
  BY DEF Loop!AfterNext
<1>4. Loop!AfterNext \in LoopRecord
  BY <1>2, <1>3 DEF LoopRecord
<1>5. Loop!AfterNext.busy = loop.busy
  BY <1>3 DEF LoopRecord
<1>6. Loop!AfterNext.terminal = loop.terminal
  BY <1>3 DEF LoopRecord
<1>7. /\ Loop!AfterNext.id = loop.id /\ Loop!AfterNext.llm = loop.llm
      /\ Loop!AfterNext.round = loop.round /\ Loop!AfterNext.config = loop.config
      /\ Loop!AfterNext.todo = Tail(loop.todo)
  BY <1>3 DEF LoopRecord
<1>8. Loop!Next1 = loop.todo[1] /\ Loop!Next1.id \in CallId
  BY <1>2 DEF Loop!Next1, Todo
<1> QED BY <1>4, <1>5, <1>6, <1>7, <1>8

LEMMA HeardLoop ==
  ASSUME loop \in LoopRecord
  PROVE  /\ Loop!Heard \in LoopRecord
         /\ Loop!Heard.busy = loop.busy /\ Loop!Heard.id = loop.id /\ Loop!Heard.llm = 0
         /\ Loop!Heard.terminal = loop.terminal /\ Loop!Heard.round = loop.round
         /\ Loop!Heard.config = loop.config /\ Loop!Heard.todo = loop.todo
<1>1. Loop!Heard = [loop EXCEPT !.llm = 0]
  BY DEF Loop!Heard
<1>2. Loop!Heard \in LoopRecord
  BY <1>1 DEF LoopRecord
<1>3. Loop!Heard.busy = loop.busy /\ Loop!Heard.terminal = loop.terminal
  BY <1>1, Zenon DEF LoopRecord
<1>4. /\ Loop!Heard.id = loop.id /\ Loop!Heard.llm = 0
      /\ Loop!Heard.round = loop.round
      /\ Loop!Heard.config = loop.config /\ Loop!Heard.todo = loop.todo
  BY <1>1 DEF LoopRecord
<1> QED BY <1>2, <1>3, <1>4

\* The answer of a call joins the transcript: the next dispatch is posted.
LEMMA CallAnswered ==
  ASSUME ToolLoopInv, loop.busy, NotPosted(posted, DispatchOf(loop.id)),
         NEW l \in LoopRecord, l.busy, l.id = loop.id, l.llm = 0, ~l.terminal,
         l.round = loop.round, l.config = loop.config, ~loop.terminal,
         NEW call, NEW from, NEW hint \in BOOLEAN, Loop!OnToolCallFinished(l, call, from, hint),
         chats' = {}, active' = Loop!Idle, dispatching' = FALSE, deadline' = deadline,
         nextLoop' = nextLoop, waiting' = waiting, requests' = requests, results' = results,
         ran' <= calls', calls' <= loop.config.maxCalls
  PROVE  /\ LoopTypes' /\ LoopWaits' /\ BudgetsInv'
         /\ loop'.busy /\ loop'.todo = l.todo
<1>1. /\ loop' = [l EXCEPT !.allTerminate = l.allTerminate /\ hint]
      /\ posted' = Append(posted, [kind |-> "dispatch", loop |-> loop.id])
  BY DEF Loop!OnToolCallFinished
<1>2. loop' \in LoopRecord
  BY <1>1 DEF LoopRecord
<1>3. loop'.busy = l.busy /\ loop'.terminal = l.terminal
  BY <1>1, Zenon DEF LoopRecord
<1>4. /\ loop'.id = l.id /\ loop'.llm = 0 /\ loop'.round = l.round
      /\ loop'.config = l.config /\ loop'.todo = l.todo
  BY <1>1 DEF LoopRecord
<1>5. /\ loop.id \in 0..nextLoop /\ nextLoop \in Nat /\ Reported(loop, nextLoop) \in Int
      /\ PostedIsOld(posted, nextLoop, Reported(loop, nextLoop))
  BY DEF ToolLoopInv, LoopTypes, CounterTypes, LoopWaits, LoopRecord, Reported
<1>6. /\ PostedIsOld(posted', nextLoop, Reported(loop, nextLoop))
      /\ PostedOnce(posted', DispatchOf(loop.id))
  BY <1>1, <1>5, DispatchPosted
<1>7. Reported(loop, nextLoop)' = Reported(loop, nextLoop)
  BY <1>3 DEF Reported
<1>8. AwaitsDispatch'
  BY <1>3, <1>4, <1>6 DEF AwaitsDispatch
<1>9. LoopWaits'
  BY <1>3, <1>4, <1>6, <1>7, <1>8 DEF LoopWaits, ToolLoopInv
<1>10. BudgetsInv'
  BY <1>3, <1>4 DEF BudgetsInv, ToolLoopInv
<1>11. LoopTypes'
  BY <1>2 DEF LoopTypes, ToolLoopInv
<1> QED BY <1>3, <1>4, <1>9, <1>10, <1>11

\* Who waits for what, read off the phase the loop is in.
LEMMA DispatchRuns ==
  ASSUME ToolLoopInv, dispatching
  PROVE  /\ loop.busy /\ chats = {} /\ active = Loop!Idle /\ loop.llm = 0 /\ ~loop.terminal
         /\ NotPosted(posted, DispatchOf(loop.id))
BY DEF ToolLoopInv, LoopWaits, Runs, AwaitsLlm, AwaitsDispatch, AwaitsTool

LEMMA AnswerArrives ==
  ASSUME ToolLoopInv, NEW r \in chats, Loop!Current(r)
  PROVE  /\ loop.busy /\ chats \ {r} = {} /\ active = Loop!Idle /\ ~dispatching
         /\ loop.todo = <<>> /\ (loop.terminal => ~r.tools)
         /\ NotPosted(posted, DispatchOf(loop.id))
<1>1. loop.busy /\ ~dispatching
  BY DEF Loop!Current
<1>2. AwaitsLlm
  BY <1>1 DEF ToolLoopInv, LoopWaits, Runs, AwaitsDispatch, AwaitsTool
<1> QED BY <1>1, <1>2 DEF AwaitsLlm

LEMMA ToolIsAsked ==
  ASSUME ToolLoopInv, active # Loop!Idle
  PROVE  loop.busy /\ AwaitsTool
BY DEF ToolLoopInv, LoopWaits, Runs, AwaitsLlm, AwaitsDispatch

LEMMA LoopInProgress ==
  ASSUME ToolLoopInv, loop.busy
  PROVE  /\ loop.id = nextLoop /\ loop.id # 0 /\ PostedIsOld(posted, loop.id, loop.id - 1)
         /\ results = [i \in 1..(loop.id - 1) |-> i] /\ waiting = loop.id
         /\ loop \in LoopRecord
         /\ {r \in chats : r.id # loop.llm} = {}
<1>1. {r \in chats : r.id # loop.llm} = {}
  BY DEF ToolLoopInv, LoopWaits, Runs, AwaitsLlm, AwaitsDispatch, AwaitsTool
<1> QED BY <1>1 DEF ToolLoopInv, LoopWaits, LoopTypes, Reported

\* A loop that ends before its time.
LEMMA CutShort ==
  ASSUME ToolLoopInv, loop.busy, NEW l \in LoopRecord, l.id = loop.id, Loop!Finish(l),
         chats' = {}, active' = Loop!Idle, asks' \subseteq asks, dispatching' = FALSE,
         late' = late, calls' = calls, waiting' \in Nat, nextLoop' = nextLoop,
         nextChat' = nextChat, nextAsk' = nextAsk, requests' = requests, ran' = ran
  PROVE  ToolLoopInv' /\ ~loop'.busy
<1>1. LoopTypes' /\ LoopWaits' /\ BudgetsInv' /\ ~loop'.busy
  BY LoopInProgress, FinishKeeps
<1>2. CounterTypes'
  BY DEF ToolLoopInv, CounterTypes
<1>3. AsksAreOld'
  BY AsksShrink DEF ToolLoopInv, CounterTypes
<1> QED BY <1>1, <1>2, <1>3 DEF ToolLoopInv

LEMMA NewLoopIsOne ==
  ASSUME NEW c \in Config, NEW id \in Nat
  PROVE  /\ Loop!NewLoop(id, c) \in LoopRecord /\ Loop!NewLoop(id, c).busy = TRUE
         /\ Loop!NewLoop(id, c).id = id /\ Loop!NewLoop(id, c).terminal = FALSE
         /\ Loop!NewLoop(id, c).config = c /\ Loop!NewLoop(id, c).todo = <<>>
         /\ Loop!NewLoop(id, c).llm = 0 /\ Loop!NewLoop(id, c).round = 0
<1>1. c \in Loop!ConfigType
  BY ToolLoopAssumption
<1>2. <<>> \in Seq(Todo)
  OBVIOUS
<1> QED BY <1>1, <1>2 DEF Loop!NewLoop, LoopRecord

LEMMA LoopStartKeeps ==
  ASSUME ToolLoopInv, NEW c \in Config, Loop!Start(c) \/ Loop!StartFails(c)
  PROVE  ToolLoopInv'
<1> USE DEF ToolLoopInv
<1> DEFINE n == nextLoop + 1
<1>1. /\ ~loop.busy /\ dispatching = FALSE /\ nextLoop < MaxLoops /\ nextLoop' = n
      /\ late' = FALSE /\ calls' = 0 /\ ran' = 0 /\ dispatching' = dispatching
      /\ active' = active /\ asks' = asks /\ nextAsk' = nextAsk /\ waiting = 0
  BY DEF Loop!Start, Loop!StartFails, Loop!Starting, CounterTypes
<1>2. /\ n \in 1..MaxLoops /\ n \in Nat /\ nextLoop \in Nat /\ n - 1 = nextLoop
      /\ n \in 0..MaxLoops
  BY <1>1, ToolLoopAssumption DEF CounterTypes
<1>3. /\ chats = {} /\ active = Loop!Idle /\ PostedIsOld(posted, nextLoop, nextLoop)
      /\ results = [i \in 1..nextLoop |-> i]
  BY <1>1 DEF LoopWaits, Reported
<1>4. AsksAreOld'
  BY <1>1, AsksShrink DEF CounterTypes
<1>5. PostedIsOld(posted, n, n - 1) /\ NotPosted(posted, DispatchOf(n))
  <2>1. \A i \in 1..Len(posted) : posted[i].loop <= nextLoop /\ posted[i].loop \in Nat
    <3>1. \A i \in 1..Len(posted) : posted[i] \in Posted /\ posted[i].loop <= nextLoop
      BY <1>3 DEF PostedIsOld
    <3> QED BY <3>1 DEF Posted
  <2>2. PostedIsOld(posted, n, n - 1)
    BY <1>2, <1>3, <2>1 DEF PostedIsOld
  <2>3. ASSUME NEW i \in 1..Len(posted), posted[i] = DispatchOf(n) PROVE FALSE
    BY <1>2, <2>1, <2>3 DEF DispatchOf
  <2> QED BY <2>2, <2>3 DEF NotPosted
<1> DEFINE z == Loop!NewLoop(n, c)
<1>6. /\ z \in LoopRecord /\ z.busy = TRUE /\ z.id = n /\ z.terminal = FALSE /\ z.config = c
      /\ z.todo = <<>> /\ z.llm = 0 /\ z.round = 0
  BY <1>2, NewLoopIsOne
<1>7. CASE Loop!Start(c)
  <2> DEFINE m == nextChat + 1
  <2> DEFINE r == [id |-> m, tools |-> c.offers]
  <2>1. /\ nextChat' = m /\ chats' = chats \cup {r}
        /\ loop' = [z EXCEPT !.llm = m, !.round = 1]
        /\ deadline' = c.timed /\ waiting' = n /\ requests' = 1
        /\ posted' = posted /\ results' = results
    BY <1>7 DEF Loop!Start
  <2>2. m \in Nat \ {0} /\ c \in Loop!ConfigType
    BY ToolLoopAssumption DEF CounterTypes
  <2>3. r \in [id : Nat \ {0}, tools : BOOLEAN] /\ r.id = m
    BY <2>2 DEF Loop!ConfigType
  <2>4. deadline' \in BOOLEAN /\ c.maxRounds \in Nat \ {0} /\ c.maxCalls \in Nat \ {0}
    BY <2>1, <2>2 DEF Loop!ConfigType
  <2> HIDE DEF n, z, m, r
  <2>5. loop' \in LoopRecord
    BY <1>6, <2>1, <2>2 DEF LoopRecord
  <2>6. loop'.busy = TRUE /\ loop'.terminal = FALSE
    BY <1>6, <2>1, Zenon DEF LoopRecord
  <2>7. /\ loop'.id = n /\ loop'.llm = m /\ loop'.round = 1 /\ loop'.config = c
        /\ loop'.todo = <<>>
    BY <1>6, <2>1 DEF LoopRecord
  <2>8. AwaitsLlm'
    <3>1. chats' = {r}
      BY <1>3, <2>1
    <3>2. NotPosted(posted', DispatchOf(loop'.id))
      BY <1>5, <2>1, <2>7
    <3>3. loop'.llm # 0 /\ r.id = loop'.llm
      BY <2>2, <2>3, <2>7
    <3> QED BY <1>1, <1>3, <2>3, <2>6, <2>7, <3>1, <3>2, <3>3 DEF AwaitsLlm
  <2>9. Reported(loop, nextLoop)' = n - 1
    BY <1>1, <2>6 DEF Reported
  <2>10. LoopWaits'
    <3>1. PostedIsOld(posted', nextLoop', n - 1)
      BY <1>1, <1>5, <2>1
    <3>2. results' = [i \in 1..(n - 1) |-> i]
      BY <1>2, <1>3, <2>1
    <3>3. waiting' = loop'.id /\ nextLoop' = loop'.id /\ loop'.id # 0
      BY <1>1, <1>2, <2>1, <2>7
    <3> QED BY <2>6, <2>8, <2>9, <3>1, <3>2, <3>3 DEF LoopWaits
  <2>11. BudgetsInv'
    <3>1. /\ requests' = 1 /\ loop'.round = 1 /\ ran' = 0 /\ calls' = 0
          /\ loop'.config.maxRounds \in Nat \ {0} /\ loop'.config.maxCalls \in Nat \ {0}
      BY <1>1, <2>1, <2>4, <2>7
    <3>2. /\ requests' <= loop'.round + 1 /\ requests' <= loop'.round
          /\ loop'.round <= loop'.config.maxRounds
          /\ ran' <= calls' /\ calls' <= loop'.config.maxCalls
      BY <3>1
    <3> QED BY <3>2 DEF BudgetsInv
  <2>12. LoopTypes' /\ CounterTypes'
    BY <1>1, <1>2, <2>1, <2>2, <2>4, <2>5 DEF LoopTypes, CounterTypes
  <2> QED BY <1>4, <2>10, <2>11, <2>12
<1>8. CASE Loop!StartFails(c)
  <2>1. Loop!Finish(z) /\ chats' = chats /\ nextChat' = nextChat /\ waiting' = waiting /\ requests' = 0
    BY <1>8 DEF Loop!StartFails, Loop!chatVars
  <2> HIDE DEF n, z
  <2>2. LoopTypes' /\ LoopWaits' /\ BudgetsInv'
    <3>1. z.id = nextLoop' /\ z.id # 0 /\ PostedIsOld(posted, z.id, z.id - 1)
      BY <1>1, <1>2, <1>5, <1>6
    <3>2. results = [i \in 1..(z.id - 1) |-> i]
      BY <1>2, <1>3, <1>6
    <3>3. chats' = {} /\ active' = Loop!Idle /\ dispatching' = FALSE
      BY <1>1, <1>3, <2>1
    <3> QED BY <1>6, <2>1, <3>1, <3>2, <3>3, FinishKeeps
  <2>3. CounterTypes'
    BY <1>1, <1>2, <2>1 DEF CounterTypes
  <2> QED BY <1>4, <2>2, <2>3
<1> QED BY <1>7, <1>8

LEMMA LoopCancelKeeps ==
  ASSUME ToolLoopInv, Loop!CancelRunning \/ Loop!CancelFinished \/ Loop!Deadline
                      \/ Loop!ClockRunsOut
  PROVE  ToolLoopInv'
<1> USE DEF ToolLoopInv
<1>1. CASE Loop!CancelRunning
  <2>1. /\ loop.busy /\ Loop!Finish(loop) /\ dispatching = FALSE /\ dispatching' = dispatching
        /\ late' = late /\ calls' = calls /\ nextAsk' = nextAsk /\ nextChat' = nextChat
        /\ nextLoop' = nextLoop /\ requests' = requests /\ ran' = ran /\ waiting' = 0
        /\ active' = Loop!Idle /\ asks' = Loop!Unasked
        /\ chats' = {r \in chats : r.id # loop.llm}
    BY <1>1, Zenon DEF Loop!CancelRunning, Loop!Abort, CounterTypes
  <2>2. asks' \subseteq asks
    BY <2>1 DEF Loop!Unasked
  <2> QED BY <2>1, <2>2, LoopInProgress, CutShort
<1>2. CASE Loop!Deadline
  <2>1. /\ loop.busy /\ Loop!Finish(loop) /\ dispatching = FALSE /\ dispatching' = dispatching
        /\ late' = late /\ calls' = calls /\ nextAsk' = nextAsk /\ nextChat' = nextChat
        /\ nextLoop' = nextLoop /\ requests' = requests /\ ran' = ran /\ waiting' = waiting
        /\ active' = Loop!Idle /\ asks' = Loop!Unasked
        /\ chats' = {r \in chats : r.id # loop.llm}
    BY <1>2, Zenon DEF Loop!Deadline, Loop!Abort, Loop!runtimeVars, CounterTypes
  <2>2. asks' \subseteq asks /\ waiting' \in Nat
    BY <2>1 DEF Loop!Unasked, CounterTypes
  <2> QED BY <2>1, <2>2, LoopInProgress, CutShort
<1>3. CASE Loop!CancelFinished
  <2>1. /\ ~loop.busy /\ waiting' = 0 /\ loop' = loop /\ deadline' = deadline /\ late' = late
        /\ dispatching' = dispatching /\ active' = active /\ calls' = calls /\ asks' = asks
        /\ nextAsk' = nextAsk /\ chats' = chats /\ nextChat' = nextChat /\ posted' = posted
        /\ nextLoop' = nextLoop /\ requests' = requests /\ ran' = ran /\ results' = results
    BY <1>3 DEF Loop!CancelFinished, Loop!loopVars, Loop!schedulerVars, Loop!chatVars
  <2>2. LoopWaits'
    BY <2>1 DEF LoopWaits, Reported
  <2> QED BY <2>1, <2>2 DEF LoopTypes, CounterTypes, AsksAreOld, BudgetsInv
<1>4. CASE Loop!ClockRunsOut
  <2>1. /\ late' = TRUE /\ loop' = loop /\ deadline' = deadline
        /\ dispatching' = dispatching /\ active' = active /\ calls' = calls /\ asks' = asks
        /\ nextAsk' = nextAsk /\ chats' = chats /\ nextChat' = nextChat /\ posted' = posted
        /\ nextLoop' = nextLoop /\ requests' = requests /\ ran' = ran /\ results' = results
        /\ waiting' = waiting
    BY <1>4 DEF Loop!ClockRunsOut, Loop!runtimeVars, Loop!schedulerVars, Loop!chatVars
  <2>2. LoopWaits'
    BY <2>1 DEF LoopWaits, Reported, Runs, AwaitsLlm, AwaitsDispatch, AwaitsTool
  <2> QED BY <2>1, <2>2 DEF LoopTypes, CounterTypes, AsksAreOld, BudgetsInv
<1> QED BY <1>1, <1>2, <1>3, <1>4

LEMMA LlmAnswerKeeps ==
  ASSUME ToolLoopInv, NEW r \in chats, Loop!Answered(r)
  PROVE  ToolLoopInv'
<1> USE DEF ToolLoopInv
<1>1. Loop!Current(r)
  BY DEF Loop!Answered, Loop!ChatEnds, Loop!ToolCalls, Loop!ToolCallsRefused,
         Loop!ToolsUnsupported
<1>2. /\ loop.busy /\ chats \ {r} = {} /\ active = Loop!Idle /\ dispatching = FALSE
      /\ loop.todo = <<>> /\ (loop.terminal => ~r.tools)
      /\ NotPosted(posted, DispatchOf(loop.id))
  BY <1>1, AnswerArrives, Zenon DEF CounterTypes
<1>3. /\ Loop!Heard \in LoopRecord
      /\ Loop!Heard.busy = loop.busy /\ Loop!Heard.id = loop.id /\ Loop!Heard.llm = 0
      /\ Loop!Heard.terminal = loop.terminal /\ Loop!Heard.round = loop.round
      /\ Loop!Heard.config = loop.config /\ Loop!Heard.todo = loop.todo
  BY HeardLoop DEF LoopTypes
<1>4. ASSUME Loop!FinishWith(Loop!Heard, chats \ {r}), late' = late, dispatching' = dispatching,
             active' = active, calls' = calls, asks' = asks, nextAsk' = nextAsk,
             waiting' = waiting, nextLoop' = nextLoop, ran' = ran
      PROVE  ToolLoopInv'
  <2>1. /\ Loop!Finish(Loop!Heard) /\ chats' = {} /\ nextChat' = nextChat
        /\ requests' = requests
    BY <1>2, <1>4 DEF Loop!FinishWith
  <2>2. waiting' \in Nat
    BY <1>4 DEF CounterTypes
  <2> QED BY <1>2, <1>3, <1>4, <2>1, <2>2, CutShort
<1>5. CASE Loop!ChatEnds(r)
  <2>1. /\ Loop!FinishWith(Loop!Heard, chats \ {r}) /\ late' = late /\ dispatching' = dispatching
        /\ active' = active /\ calls' = calls /\ asks' = asks /\ nextAsk' = nextAsk
        /\ waiting' = waiting /\ nextLoop' = nextLoop /\ ran' = ran
    BY <1>5 DEF Loop!ChatEnds, Loop!schedulerVars, Loop!runtimeVars
  <2> QED BY <1>4, <2>1
<1>6. CASE Loop!ToolCallsRefused(r)
  <2>1. /\ Loop!FinishWith(Loop!Heard, chats \ {r}) /\ late' = late /\ dispatching' = dispatching
        /\ active' = active /\ calls' = calls /\ asks' = asks /\ nextAsk' = nextAsk
        /\ waiting' = waiting /\ nextLoop' = nextLoop /\ ran' = ran
    BY <1>6 DEF Loop!ToolCallsRefused, Loop!schedulerVars, Loop!runtimeVars
  <2> QED BY <1>4, <2>1
<1>7. CASE Loop!ToolsUnsupported(r)
  <2>1. /\ late' = late /\ dispatching' = dispatching
        /\ active' = active /\ calls' = calls /\ asks' = asks /\ nextAsk' = nextAsk
        /\ waiting' = waiting /\ nextLoop' = nextLoop /\ ran' = ran /\ r.tools
        /\ \/ Loop!BeginRound([Loop!Heard EXCEPT !.fallback = TRUE], FALSE, chats \ {r})
           \/ Loop!FinishWith(Loop!Heard, chats \ {r})
    BY <1>7 DEF Loop!ToolsUnsupported, Loop!schedulerVars, Loop!runtimeVars
  <2>2. CASE Loop!FinishWith(Loop!Heard, chats \ {r})
    BY <1>4, <2>1, <2>2
  <2>3. CASE Loop!BeginRound([Loop!Heard EXCEPT !.fallback = TRUE], FALSE, chats \ {r})
    <3> DEFINE l == [Loop!Heard EXCEPT !.fallback = TRUE]
    <3>1. Loop!BeginRound(l, FALSE, {})
      BY <1>2, <2>3
    <3>2. l \in LoopRecord
      BY <1>3 DEF LoopRecord
    <3>3. l.busy = loop.busy
      BY <1>3, Zenon DEF LoopRecord
    <3>4. /\ l.id = loop.id /\ l.round = loop.round /\ l.config = loop.config
          /\ l.todo = <<>>
      BY <1>2, <1>3 DEF LoopRecord
    <3> HIDE DEF l
    <3>5. /\ requests <= l.round /\ l.round <= l.config.maxRounds
          /\ ran <= calls /\ calls <= l.config.maxCalls
      <4>1. ~loop.terminal
        BY <1>2, <2>1
      <4> QED BY <1>2, <3>4, <4>1 DEF BudgetsInv
    <3>6. active' = active /\ dispatching' = FALSE /\ nextLoop' = nextLoop /\ waiting' = waiting
          /\ ran' = ran /\ calls' = calls
      BY <1>2, <2>1
    <3>7. /\ LoopTypes' /\ LoopWaits' /\ BudgetsInv' /\ requests' \in Nat /\ nextChat' \in Nat
      BY <1>2, <3>1, <3>2, <3>3, <3>4, <3>5, <3>6, BeginRoundKeeps
    <3>8. AsksAreOld'
      BY <2>1, AsksShrink DEF CounterTypes
    <3> QED BY <2>1, <3>7, <3>8 DEF CounterTypes
  <2> QED BY <2>1, <2>2, <2>3
<1>8. ASSUME NEW q \in Asked, Loop!ToolCalls(r, q) PROVE ToolLoopInv'
  <2> DEFINE ids == [i \in DOMAIN q |-> <<loop.id, loop.round, i>>]
  <2> DEFINE todo == [i \in DOMAIN q |-> [name |-> q[i], id |-> ids[i]]]
  <2>1. /\ loop' = [Loop!Heard EXCEPT !.allTerminate = TRUE, !.todo = todo]
        /\ dispatching' = TRUE /\ chats' = {} /\ deadline' = deadline /\ late' = late
        /\ active' = active /\ calls' = calls /\ asks' = asks /\ nextAsk' = nextAsk
        /\ nextChat' = nextChat /\ posted' = posted /\ waiting' = waiting
        /\ nextLoop' = nextLoop /\ requests' = requests /\ ran' = ran /\ results' = results
        /\ ~loop.terminal
    BY <1>2, <1>8 DEF Loop!ToolCalls, Loop!schedulerVars, Loop!runtimeVars
  <2>2. todo \in Seq(Todo)
    <3>1. q \in Seq(Loop!Call)
      BY ToolLoopAssumption
    <3>2. Len(q) \in Nat /\ DOMAIN q = 1..Len(q)
      BY <3>1
    <3>3. ASSUME NEW i \in 1..Len(q) PROVE [name |-> q[i], id |-> ids[i]] \in Todo
      <4>1. q[i] \in Loop!Call
        BY <3>1, <3>3
      <4>2. ids[i] \in CallId
        BY <3>2 DEF CallId, LoopTypes, LoopRecord
      <4> HIDE DEF ids
      <4> QED BY <4>1, <4>2 DEF Todo
    <3>4. todo \in [1..Len(q) -> Todo]
      BY <3>2, <3>3
    <3> QED BY <3>2, <3>4
  <2> HIDE DEF todo
  <2>3. loop' \in LoopRecord
    BY <1>3, <2>1, <2>2 DEF LoopRecord
  <2>4. loop'.busy = loop.busy /\ loop'.terminal = loop.terminal
    BY <1>3, <2>1, Zenon DEF LoopRecord
  <2>5. loop'.id = loop.id /\ loop'.llm = 0 /\ loop'.round = loop.round /\ loop'.config = loop.config
    BY <1>3, <2>1 DEF LoopRecord
  <2>6. Runs'
    BY <1>2, <2>1, <2>4, <2>5 DEF Runs
  <2>7. Reported(loop, nextLoop)' = Reported(loop, nextLoop)
    BY <2>1, <2>4 DEF Reported
  <2>8. LoopWaits'
    BY <1>2, <2>1, <2>4, <2>5, <2>6, <2>7 DEF LoopWaits
  <2>9. AsksAreOld'
    BY <2>1, AsksShrink DEF CounterTypes
  <2>10. BudgetsInv'
    BY <2>1, <2>4, <2>5 DEF BudgetsInv
  <2>11. LoopTypes' /\ CounterTypes'
    BY <2>1, <2>3 DEF LoopTypes, CounterTypes
  <2> QED BY <2>8, <2>9, <2>10, <2>11
<1> QED BY <1>5, <1>6, <1>7, <1>8 DEF Loop!Answered

LEMMA DispatchKeeps ==
  ASSUME ToolLoopInv, Loop!Dispatch
  PROVE  ToolLoopInv'
<1> USE DEF ToolLoopInv
<1>0. dispatching
  BY Zenon DEF Loop!Dispatch, Loop!SkipCall, Loop!RefuseCall, Loop!RunAtOnce, Loop!RunCall, Loop!Runs,
               Loop!RoundDone
<1>1. /\ loop.busy /\ chats = {} /\ active = Loop!Idle /\ loop.llm = 0 /\ ~loop.terminal
      /\ NotPosted(posted, DispatchOf(loop.id)) /\ dispatching = TRUE
  BY <1>0, DispatchRuns DEF CounterTypes
<1>2. /\ requests <= loop.round /\ loop.round <= loop.config.maxRounds
      /\ ran <= calls /\ calls <= loop.config.maxCalls
  BY <1>1 DEF BudgetsInv
<1>3. loop \in LoopRecord /\ loop.config.maxCalls \in Nat /\ calls \in Nat /\ ran \in Nat
  BY DEF LoopTypes, LoopRecord, Loop!ConfigType, CounterTypes
<1> DEFINE l == Loop!AfterNext
<1>4. ASSUME loop.todo # <<>>
      PROVE  /\ l \in LoopRecord /\ l.busy = loop.busy /\ l.id = loop.id /\ l.llm = loop.llm
             /\ l.terminal = loop.terminal /\ l.round = loop.round /\ l.config = loop.config
             /\ Loop!Next1.id \in CallId
  BY <1>3, <1>4, NextCall
<1> HIDE DEF l
<1>5. CASE Loop!SkipCall
  <2>1. /\ loop' = l /\ deadline' = deadline /\ late' = late /\ dispatching' = dispatching
        /\ active' = active /\ calls' = calls /\ asks' = asks /\ nextAsk' = nextAsk
        /\ chats' = chats /\ nextChat' = nextChat /\ posted' = posted /\ waiting' = waiting
        /\ nextLoop' = nextLoop /\ requests' = requests /\ ran' = ran /\ results' = results
        /\ loop.todo # <<>>
    BY <1>5 DEF Loop!SkipCall, Loop!schedulerVars, Loop!chatVars, Loop!runtimeVars, l
  <2>2. Reported(loop, nextLoop)' = Reported(loop, nextLoop) /\ Runs'
    BY <1>1, <1>4, <2>1 DEF Reported, Runs
  <2>3. LoopWaits'
    BY <1>1, <1>4, <2>1, <2>2 DEF LoopWaits
  <2>4. LoopTypes' /\ CounterTypes' /\ BudgetsInv' /\ AsksAreOld'
    BY <1>4, <2>1 DEF LoopTypes, CounterTypes, BudgetsInv, AsksAreOld
  <2> QED BY <2>3, <2>4
<1>6. ASSUME NEW call, NEW from, NEW hint \in BOOLEAN, Loop!OnToolCallFinished(l, call, from, hint),
             loop.todo # <<>>, dispatching' = FALSE, deadline' = deadline, late' = late,
             active' = active, asks' = asks, nextAsk' = nextAsk, chats' = chats,
             nextChat' = nextChat, waiting' = waiting, nextLoop' = nextLoop,
             requests' = requests, results' = results, ran' \in Nat, calls' \in Nat,
             ran' <= calls', calls' <= loop.config.maxCalls
      PROVE  ToolLoopInv'
  <2>1. l.busy /\ l.llm = 0 /\ ~l.terminal /\ l.round = loop.round /\ l.config = loop.config
        /\ l.id = loop.id /\ l \in LoopRecord
    BY <1>1, <1>4, <1>6
  <2>2. LoopTypes' /\ LoopWaits' /\ BudgetsInv'
    BY <1>1, <1>6, <2>1, CallAnswered
  <2>3. AsksAreOld'
    BY <1>6, AsksShrink DEF CounterTypes
  <2>4. CounterTypes'
    BY <1>6 DEF CounterTypes
  <2> QED BY <2>2, <2>3, <2>4
<1>7. CASE Loop!RefuseCall
  <2>1. /\ Loop!OnToolCallFinished(l, Loop!Next1.id, Loop!NoCall, FALSE)
        /\ loop.todo # <<>> /\ dispatching' = FALSE /\ deadline' = deadline /\ late' = late
        /\ active' = active /\ asks' = asks /\ nextAsk' = nextAsk /\ chats' = chats
        /\ nextChat' = nextChat /\ waiting' = waiting /\ nextLoop' = nextLoop
        /\ requests' = requests /\ results' = results /\ ran' = ran
        /\ calls' = IF Loop!NoBudgetLeft THEN calls ELSE calls + 1
    BY <1>7 DEF Loop!RefuseCall, Loop!chatVars, Loop!runtimeVars, l
  <2>2. calls' \in Nat /\ calls <= calls' /\ calls' <= loop.config.maxCalls
    <3>1. CASE Loop!NoBudgetLeft
      BY <1>2, <1>3, <2>1, <3>1
    <3>2. CASE ~Loop!NoBudgetLeft
      <4>1. ~(calls >= loop.config.maxCalls)
        BY <3>2 DEF Loop!NoBudgetLeft
      <4> QED BY <1>3, <2>1, <3>2, <4>1
    <3> QED BY <3>1, <3>2
  <2>3. ran' <= calls' /\ ran' \in Nat /\ FALSE \in BOOLEAN
    BY <1>2, <1>3, <2>1, <2>2
  <2> QED BY <1>6, <2>1, <2>2, <2>3
<1>8. ASSUME Loop!Runs
      PROVE  /\ loop.todo # <<>> /\ ran' = ran + 1 /\ calls' = calls + 1 /\ dispatching' = FALSE
             /\ ran' <= calls' /\ calls' <= loop.config.maxCalls /\ ran' \in Nat /\ calls' \in Nat
             /\ deadline' = deadline /\ late' = late /\ chats' = chats /\ nextChat' = nextChat
             /\ waiting' = waiting /\ nextLoop' = nextLoop /\ requests' = requests
             /\ results' = results /\ Loop!Next1.name \in Tool
  <2>1. /\ loop.todo # <<>> /\ ran' = ran + 1 /\ calls' = calls + 1 /\ dispatching' = FALSE
        /\ deadline' = deadline /\ late' = late /\ chats' = chats /\ nextChat' = nextChat
        /\ waiting' = waiting /\ nextLoop' = nextLoop /\ requests' = requests
        /\ results' = results /\ ~Loop!NoBudgetLeft /\ Loop!Next1.name \in Tool
    BY <1>8 DEF Loop!Runs, Loop!chatVars, Loop!runtimeVars
  <2>2. ~(calls >= loop.config.maxCalls)
    BY <2>1 DEF Loop!NoBudgetLeft
  <2> QED BY <1>2, <1>3, <2>1, <2>2
<1>9. ASSUME NEW hint \in BOOLEAN, Loop!RunAtOnce(hint) PROVE ToolLoopInv'
  <2>1. /\ Loop!Runs /\ Loop!OnToolCallFinished(l, Loop!Next1.id, Loop!Next1.id, hint)
        /\ active' = active /\ asks' = asks /\ nextAsk' = nextAsk
    BY <1>9 DEF Loop!RunAtOnce, l
  <2> QED BY <1>6, <1>8, <2>1
<1>10. CASE Loop!RunCall
  <2> DEFINE q == [tool |-> Loop!Next1.name, call |-> Loop!Next1.id, ask |-> nextAsk + 1]
  <2>1. /\ Loop!Runs /\ nextAsk' = nextAsk + 1 /\ active' = q /\ asks' = asks \cup {q}
        /\ loop' = l /\ posted' = posted
    BY <1>10 DEF Loop!RunCall, l
  <2>2. q \in Question /\ q.ask = nextAsk + 1
    BY <1>4, <1>8, <2>1 DEF Question, CounterTypes
  <2> HIDE DEF q
  <2>3. AsksAreOld'
    <3>1. ASSUME NEW a \in asks \cup {q}
          PROVE  a.ask <= nextAsk + 1 /\ (a.ask = q.ask => a = q) /\ a \in Question
      <4>1. CASE a = q
        BY <2>2, <4>1 DEF CounterTypes
      <4>2. CASE a \in asks
        BY <2>2, <4>2 DEF AsksAreOld, CounterTypes, Question
      <4> QED BY <4>1, <4>2
    <3> QED BY <2>1, <2>2, <3>1 DEF AsksAreOld, CounterTypes
  <2>4. loop.todo # <<>>
    BY <1>8, <2>1
  <2>5. /\ l \in LoopRecord /\ l.busy = loop.busy /\ l.id = loop.id /\ l.llm = loop.llm
        /\ l.terminal = loop.terminal /\ l.round = loop.round /\ l.config = loop.config
    BY <1>4, <2>4
  <2>6. AwaitsTool'
    BY <1>1, <1>8, <2>1, <2>2, <2>5 DEF AwaitsTool
  <2>7. Reported(loop, nextLoop)' = Reported(loop, nextLoop)
    BY <1>8, <2>1, <2>5 DEF Reported
  <2>8. LoopWaits'
    BY <1>1, <1>8, <2>1, <2>5, <2>6, <2>7 DEF LoopWaits
  <2>9. BudgetsInv'
    BY <1>1, <1>8, <2>1, <2>5 DEF BudgetsInv
  <2>10. LoopTypes' /\ CounterTypes'
    BY <1>8, <2>1, <2>5 DEF LoopTypes, CounterTypes
  <2> QED BY <2>3, <2>8, <2>9, <2>10
<1>11. CASE Loop!RoundDone
  <2>1. /\ loop.todo = <<>> /\ dispatching' = FALSE /\ late' = late
        /\ active' = active /\ calls' = calls /\ asks' = asks /\ nextAsk' = nextAsk
        /\ waiting' = waiting /\ nextLoop' = nextLoop /\ ran' = ran
        /\ Loop!SendRound(loop, FALSE, {}) \/ Loop!BeginRound(loop, TRUE, {})
    BY <1>1, <1>11 DEF Loop!RoundDone, Loop!schedulerVars, Loop!runtimeVars
  <2>2. /\ LoopTypes' /\ LoopWaits' /\ BudgetsInv' /\ requests' \in Nat /\ nextChat' \in Nat
    <3>1. CASE Loop!SendRound(loop, FALSE, {})
      BY <1>1, <1>2, <1>3, <2>1, <3>1, SendRoundKeeps
    <3>2. CASE Loop!BeginRound(loop, TRUE, {})
      BY <1>1, <1>2, <1>3, <2>1, <3>2, BeginRoundKeeps
    <3> QED BY <2>1, <3>1, <3>2
  <2>3. AsksAreOld'
    BY <2>1, AsksShrink DEF CounterTypes
  <2> QED BY <2>1, <2>2, <2>3 DEF CounterTypes
<1> QED BY <1>5, <1>7, <1>9, <1>10, <1>11 DEF Loop!Dispatch

LEMMA PostedCallKeeps ==
  ASSUME ToolLoopInv, Loop!RunPosted
  PROVE  ToolLoopInv'
<1> USE DEF ToolLoopInv
<1> DEFINE first == Head(posted)
<1>1. /\ posted # <<>> /\ posted' = Tail(posted) /\ loop' = loop /\ deadline' = deadline
      /\ late' = late /\ active' = active /\ calls' = calls /\ asks' = asks
      /\ nextAsk' = nextAsk /\ chats' = chats /\ nextChat' = nextChat /\ nextLoop' = nextLoop
      /\ requests' = requests /\ ran' = ran /\ results' = results /\ dispatching = FALSE
  BY Zenon DEF Loop!RunPosted, Loop!RunDispatch, Loop!DeliverFinished, Loop!loopVars, Loop!schedulerVars,
         Loop!chatVars, Loop!runtimeVars, CounterTypes
<1> DEFINE d == DispatchOf(loop.id)
<1>2. /\ PostedIsOld(posted', nextLoop, Reported(loop, nextLoop))
      /\ first = posted[1] /\ 1 \in 1..Len(posted)
      /\ NotPosted(posted, d) => NotPosted(posted', d)
      /\ PostedOnce(posted, d) /\ first = d => NotPosted(posted', d)
      /\ PostedOnce(posted, d) /\ first # d => PostedOnce(posted', d)
  <2>1. nextLoop \in Nat /\ Reported(loop, nextLoop) \in Int
    BY DEF CounterTypes, Reported
  <2>2. PostedIsOld(posted, nextLoop, Reported(loop, nextLoop))
    BY DEF LoopWaits
  <2> HIDE DEF d
  <2> QED BY <1>1, <2>1, <2>2, FirstHasRun
<1>3. first \in Posted
  <2>1. posted \in Seq(Posted)
    BY DEF LoopWaits, PostedIsOld
  <2> QED BY <1>2, <2>1
<1>4. /\ Reported(loop, nextLoop)' = Reported(loop, nextLoop)
      /\ LoopTypes' /\ AsksAreOld' /\ BudgetsInv'
  BY <1>1 DEF Reported, LoopTypes, AsksAreOld, BudgetsInv
<1>5. CASE Loop!DeliverFinished
  <2>1. /\ dispatching' = dispatching /\ first.kind = "finished"
        /\ waiting' = IF waiting = first.loop THEN 0 ELSE waiting
    BY <1>5 DEF Loop!DeliverFinished, Loop!loopVars
  <2>2. first # d
    BY <2>1 DEF DispatchOf
  <2>3. CounterTypes'
    BY <1>1, <2>1 DEF CounterTypes
  <2>4. first.loop <= Reported(loop, nextLoop)
    BY <1>2, <2>1 DEF LoopWaits, PostedIsOld
  <2>5. ASSUME loop.busy PROVE waiting' = waiting
    <3>1. waiting = nextLoop /\ Reported(loop, nextLoop) = nextLoop - 1
      BY <2>5 DEF LoopWaits, Reported
    <3>2. first.loop \in Nat /\ nextLoop \in Nat
      BY <1>3 DEF Posted, CounterTypes
    <3> HIDE DEF first
    <3> QED BY <2>1, <2>4, <3>1, <3>2
  <2> HIDE DEF d, first
  <2>6. ASSUME loop.busy PROVE (Runs \/ AwaitsLlm \/ AwaitsDispatch \/ AwaitsTool)'
    <3>1. CASE Runs
      BY <1>1, <3>1 DEF Runs
    <3>2. CASE AwaitsLlm
      BY <1>1, <1>2, <2>1, <3>2 DEF AwaitsLlm, d
    <3>3. CASE AwaitsDispatch
      BY <1>1, <1>2, <2>1, <2>2, <3>3 DEF AwaitsDispatch, d
    <3>4. CASE AwaitsTool
      BY <1>1, <1>2, <2>1, <3>4 DEF AwaitsTool, d
    <3> QED BY <2>6, <3>1, <3>2, <3>3, <3>4 DEF LoopWaits
  <2>7. LoopWaits'
    BY <1>1, <1>2, <1>4, <2>1, <2>5, <2>6 DEF LoopWaits
  <2> QED BY <1>4, <2>3, <2>7
<1>6. CASE Loop!RunDispatch
  <2>1. /\ dispatching' = (loop.busy /\ loop.id = first.loop) /\ first.kind = "dispatch"
        /\ waiting' = waiting
    BY <1>6 DEF Loop!RunDispatch, Loop!IsCurrentLoop, Loop!runtimeVars
  <2>2. dispatching' \in BOOLEAN
    BY <2>1
  <2>3. CounterTypes'
    BY <1>1, <2>1, <2>2 DEF CounterTypes
  <2>4. loop.id = first.loop <=> first = d
    <3>1. first.kind = "dispatch" /\ first \in Posted
      BY <1>3, <2>1
    <3> HIDE DEF first, d
    <3> QED BY <3>1 DEF Posted, DispatchOf, d
  <2> HIDE DEF d, first
  <2>5. ASSUME loop.busy, first = d PROVE Runs'
    <3>1. AwaitsDispatch
      <4>1. ~NotPosted(posted, DispatchOf(loop.id))
        BY <1>2, <2>5 DEF NotPosted, d
      <4>2. Runs \/ AwaitsLlm \/ AwaitsDispatch \/ AwaitsTool
        BY <2>5 DEF LoopWaits
      <4> QED BY <4>1, <4>2 DEF Runs, AwaitsLlm, AwaitsTool
    <3>2. dispatching' /\ NotPosted(posted', DispatchOf(loop.id))
      BY <1>2, <2>1, <2>4, <2>5, <3>1 DEF AwaitsDispatch, d
    <3> QED BY <1>1, <3>1, <3>2 DEF AwaitsDispatch, Runs
  <2>6. ASSUME loop.busy, first # d PROVE (AwaitsLlm \/ AwaitsDispatch \/ AwaitsTool)'
    <3>1. ~dispatching'
      BY <2>1, <2>4, <2>6
    <3>2. CASE AwaitsLlm
      BY <1>1, <1>2, <3>1, <3>2 DEF AwaitsLlm, d
    <3>3. CASE AwaitsDispatch
      BY <1>1, <1>2, <2>6, <3>1, <3>3 DEF AwaitsDispatch, d
    <3>4. CASE AwaitsTool
      BY <1>1, <1>2, <3>1, <3>4 DEF AwaitsTool, d
    <3>5. ~Runs
      BY <1>1 DEF Runs
    <3> QED BY <2>6, <3>2, <3>3, <3>4, <3>5 DEF LoopWaits
  <2>7. ~loop.busy => ~dispatching'
    BY <2>1
  <2>8. LoopWaits'
    <3>1. loop.busy => waiting' = loop'.id /\ nextLoop' = loop'.id /\ loop'.id # 0
      BY <1>1, <2>1 DEF LoopWaits
    <3>2. loop.busy => (Runs \/ AwaitsLlm \/ AwaitsDispatch \/ AwaitsTool)'
      BY <2>5, <2>6
    <3>3. ~loop.busy => chats' = {} /\ active' = Loop!Idle /\ ~deadline' /\ loop'.llm = 0
      BY <1>1 DEF LoopWaits
    <3>4. /\ PostedIsOld(posted', nextLoop', Reported(loop, nextLoop)')
          /\ results' = [i \in 1..Reported(loop, nextLoop)' |-> i]
      BY <1>1, <1>2, <1>4 DEF LoopWaits
    <3>5. loop'.busy = loop.busy
      BY <1>1
    <3> QED BY <2>7, <3>1, <3>2, <3>3, <3>4, <3>5 DEF LoopWaits
  <2> QED BY <1>4, <2>3, <2>8
<1> QED BY <1>5, <1>6 DEF Loop!RunPosted

LEMMA ToolAnswerKeeps ==
  ASSUME ToolLoopInv,
         Loop!ToolEnds \/ \E a \in asks : Loop!LateAnswer(a)
  PROVE  ToolLoopInv'
<1> USE DEF ToolLoopInv
<1>1. ASSUME active # Loop!Idle, dispatching' = dispatching, NEW from, NEW hint \in BOOLEAN,
             Loop!OnToolCallFinished(loop, active.call, from, hint), asks' \subseteq asks,
             active' = Loop!Idle, deadline' = deadline, late' = late, calls' = calls,
             nextAsk' = nextAsk, chats' = chats, nextChat' = nextChat, waiting' = waiting,
             nextLoop' = nextLoop, requests' = requests, ran' = ran, results' = results
      PROVE  ToolLoopInv'
  <2>1. loop.busy /\ AwaitsTool /\ loop \in LoopRecord
    BY <1>1, ToolIsAsked DEF LoopTypes
  <2>2. /\ chats = {} /\ dispatching = FALSE /\ NotPosted(posted, DispatchOf(loop.id))
        /\ loop.llm = 0 /\ ~loop.terminal
    BY <2>1 DEF AwaitsTool, CounterTypes
  <2>3. ran' <= calls' /\ calls' <= loop.config.maxCalls
    BY <1>1, <2>1 DEF BudgetsInv
  <2>4. LoopTypes' /\ LoopWaits' /\ BudgetsInv'
    BY <1>1, <2>1, <2>2, <2>3, CallAnswered
  <2>5. AsksAreOld'
    BY <1>1, AsksShrink DEF CounterTypes
  <2> QED BY <1>1, <2>4, <2>5 DEF CounterTypes
<1>2. CASE Loop!OnToolTimeout
  <2>1. /\ active # Loop!Idle /\ dispatching' = dispatching /\ asks' = Loop!Unasked
        /\ Loop!OnToolCallFinished(loop, active.call, Loop!NoCall, FALSE)
        /\ active' = Loop!Idle /\ deadline' = deadline /\ late' = late /\ calls' = calls
        /\ nextAsk' = nextAsk /\ chats' = chats /\ nextChat' = nextChat /\ waiting' = waiting
        /\ nextLoop' = nextLoop /\ requests' = requests /\ ran' = ran /\ results' = results
    BY <1>2 DEF Loop!OnToolTimeout, Loop!chatVars, Loop!runtimeVars
  <2>2. asks' \subseteq asks
    BY <2>1 DEF Loop!Unasked
  <2> QED BY <1>1, <2>1, <2>2
<1>3. ASSUME NEW a \in asks, NEW hint \in BOOLEAN, Loop!ToolAnswers(a, hint)
      PROVE  ToolLoopInv'
  <2>1. /\ a.ask = active.ask /\ dispatching' = dispatching /\ asks' = asks \ {a}
        /\ Loop!OnToolCallFinished(loop, active.call, a.call, hint)
        /\ active' = Loop!Idle /\ deadline' = deadline /\ late' = late /\ calls' = calls
        /\ nextAsk' = nextAsk /\ chats' = chats /\ nextChat' = nextChat /\ waiting' = waiting
        /\ nextLoop' = nextLoop /\ requests' = requests /\ ran' = ran /\ results' = results
    BY <1>3 DEF Loop!ToolAnswers, Loop!AnswersActive, Loop!chatVars, Loop!runtimeVars
  <2>2. active # Loop!Idle
    BY <2>1, IdleAsksNothing DEF AsksAreOld, Question
  <2>3. asks' \subseteq asks
    BY <2>1
  <2> QED BY <1>1, <2>1, <2>2, <2>3
<1>4. ASSUME NEW a \in asks, Loop!LateAnswer(a) PROVE ToolLoopInv'
  <2>1. /\ loop' = loop /\ deadline' = deadline /\ late' = late /\ dispatching' = dispatching
        /\ active' = active /\ calls' = calls /\ asks' = asks \ {a} /\ nextAsk' = nextAsk
        /\ chats' = chats /\ nextChat' = nextChat /\ posted' = posted /\ waiting' = waiting
        /\ nextLoop' = nextLoop /\ requests' = requests /\ ran' = ran /\ results' = results
    BY <1>4 DEF Loop!LateAnswer, Loop!loopVars, Loop!chatVars, Loop!runtimeVars
  <2>2. LoopWaits'
    BY <2>1 DEF LoopWaits, Reported, Runs, AwaitsLlm, AwaitsDispatch, AwaitsTool
  <2>3. AsksAreOld'
    BY <2>1, AsksShrink DEF CounterTypes
  <2> QED BY <2>1, <2>2, <2>3 DEF LoopTypes, CounterTypes, BudgetsInv
<1> QED BY <1>2, <1>3, <1>4 DEF Loop!ToolEnds

LEMMA ToolLoopKeeps == ToolLoopInv /\ [Loop!Next]_loopVars => ToolLoopInv'
<1> SUFFICES ASSUME ToolLoopInv, [Loop!Next]_loopVars PROVE ToolLoopInv'
  OBVIOUS
<1>1. CASE UNCHANGED loopVars
  BY <1>1 DEF loopVars, ToolLoopInv, LoopTypes, CounterTypes, LoopWaits, Reported, Runs, AwaitsLlm,
              AwaitsDispatch, AwaitsTool, AsksAreOld, BudgetsInv
<1>2. CASE Loop!Next
  BY <1>2, LoopStartKeeps, LoopCancelKeeps, LlmAnswerKeeps, DispatchKeeps, PostedCallKeeps,
     ToolAnswerKeeps, Zenon DEF Loop!Next
<1> QED BY <1>1, <1>2

LEMMA ToolLoopStarts == ServicesInit => ToolLoopInv
<1> SUFFICES ASSUME ServicesInit PROVE ToolLoopInv
  OBVIOUS
<1>0. PICK c \in Config : c = CHOOSE x \in Config : TRUE
  BY ToolLoopAssumption
<1> DEFINE z == Loop!NewLoop(0, c)
<1>1. /\ loop = [z EXCEPT !.busy = FALSE]
      /\ messages = <<>> /\ deadline = FALSE /\ late = FALSE /\ dispatching = FALSE
      /\ active = Loop!Idle /\ calls = 0 /\ asks = {} /\ chats = {}
      /\ posted = <<>> /\ waiting = 0
      /\ nextLoop = 0 /\ nextChat = 0 /\ nextAsk = 0
      /\ requests = 0 /\ ran = 0 /\ results = <<>>
  BY <1>0 DEF ServicesInit, Loop!Init
<1>2. z \in LoopRecord /\ z.llm = 0
  BY NewLoopIsOne
<1> HIDE DEF z
<1>3. loop \in LoopRecord
  BY <1>1, <1>2 DEF LoopRecord
<1>4. ~loop.busy
  BY <1>1, <1>2 DEF LoopRecord
<1>5. loop.llm = 0
  BY <1>1, <1>2 DEF LoopRecord
<1>6. LoopTypes /\ CounterTypes /\ BudgetsInv
  <2>1. LoopTypes /\ BudgetsInv
    BY <1>1, <1>3, <1>4 DEF LoopTypes, BudgetsInv
  <2>2. late \in BOOLEAN /\ dispatching \in BOOLEAN
    BY <1>1
  <2>3. nextLoop \in 0..MaxLoops
    <3>1. nextLoop = 0 /\ MaxLoops \in Nat
      BY <1>1, ToolLoopAssumption
    <3> QED BY ONLY <3>1
  <2> QED BY <1>1, <2>1, <2>2, <2>3 DEF CounterTypes
<1>7. AsksAreOld
  BY <1>1, IdleAsksNothing DEF AsksAreOld
<1>8. PostedIsOld(posted, 0, 0)
  BY <1>1 DEF PostedIsOld
<1>9. Reported(loop, nextLoop) = 0 /\ results = [i \in 1..0 |-> i]
  BY <1>1, <1>4 DEF Reported
<1>10. LoopWaits
  BY <1>1, <1>4, <1>5, <1>8, <1>9 DEF LoopWaits
<1> QED BY <1>6, <1>7, <1>10 DEF ToolLoopInv

LEMMA LoopCardinality == \A S : Loop!Cardinality(S) = Cardinality(S)
BY DEF Loop!Cardinality, Cardinality

\* A loop in progress waits for exactly one thing.
LEMMA OneThing == ToolLoopInv /\ loop.busy => Loop!AwaitsOne
<1> SUFFICES ASSUME ToolLoopInv, loop.busy PROVE Loop!AwaitsOne
  OBVIOUS
<1> DEFINE d == DispatchOf(loop.id)
<1> DEFINE next == {i \in DOMAIN posted : posted[i] = d}
<1> DEFINE tool == IF active # Loop!Idle THEN 1 ELSE 0
<1> DEFINE run == IF dispatching THEN 1 ELSE 0
<1>0. DOMAIN posted = 1..Len(posted)
  BY DEF ToolLoopInv, LoopWaits, PostedIsOld
<1>1. NotPosted(posted, d) => next = {}
  BY <1>0 DEF NotPosted
<1>2. PostedOnce(posted, d) => \E i : next = {i}
  BY <1>0 DEF PostedOnce
<1>3. Loop!AwaitsOne <=> Loop!Cardinality(chats) + Loop!Cardinality(next) + tool + run = 1
  BY DEF Loop!AwaitsOne, DispatchOf
<1> HIDE DEF next, d
<1>4. /\ Loop!Cardinality({}) = 0 /\ \A x : Loop!Cardinality({x}) = 1
  BY LoopCardinality, FS_EmptySet, FS_Singleton
<1>5. CASE Runs
  BY <1>1, <1>3, <1>4, <1>5 DEF Runs, d
<1>6. CASE AwaitsLlm
  <2>1. PICK r : chats = {r}
    BY <1>6 DEF AwaitsLlm
  <2>2. ~dispatching /\ active = Loop!Idle /\ next = {}
    BY <1>1, <1>6 DEF AwaitsLlm, d
  <2>3. tool = 0 /\ run = 0
    BY <2>2
  <2> HIDE DEF tool, run
  <2>4. Loop!Cardinality(chats) = 1 /\ Loop!Cardinality(next) = 0
    BY <1>4, <2>1, <2>2
  <2> QED BY <1>3, <2>3, <2>4
<1>7. CASE AwaitsDispatch
  BY <1>2, <1>3, <1>4, <1>7 DEF AwaitsDispatch, d
<1>8. CASE AwaitsTool
  BY <1>1, <1>3, <1>4, <1>8, IdleAsksNothing DEF AwaitsTool, d
<1> QED BY <1>5, <1>6, <1>7, <1>8 DEF ToolLoopInv, LoopWaits

LEMMA ToolLoopTypes == ToolLoopInv => Loop!TypeOK
<1> SUFFICES ASSUME ToolLoopInv PROVE Loop!TypeOK
  OBVIOUS
<1> USE DEF ToolLoopInv
<1>1. loop \in [busy : BOOLEAN, id : Nat, config : Loop!ConfigType, llm : Nat, fallback : BOOLEAN,
               terminal : BOOLEAN, allTerminate : BOOLEAN, round : Nat,
               todo : Seq([name : Loop!Call, id : Nat \X Nat \X Nat])]
  BY DEF LoopTypes, LoopRecord, Todo, CallId
<1>2. {deadline, late, dispatching} \subseteq BOOLEAN
  BY DEF LoopTypes, CounterTypes
<1>3. active \in [tool : Tool \union {NoTool}, call : Nat \X Nat \X Nat, ask : Nat]
  <2>1. CASE active = Loop!Idle
    BY <2>1 DEF Loop!Idle, Loop!NoCall
  <2>2. CASE active \in Question
    BY <2>2 DEF Question, CallId
  <2> QED BY <2>1, <2>2 DEF AsksAreOld
<1>4. asks \subseteq [tool : Tool, call : Nat \X Nat \X Nat, ask : Nat \ {0}]
  BY DEF AsksAreOld, Question, CallId
<1>5. chats \subseteq [id : Nat \ {0}, tools : BOOLEAN]
  BY DEF LoopWaits, Runs, AwaitsLlm, AwaitsDispatch, AwaitsTool
<1>6. posted \in Seq([kind : {"dispatch", "finished"}, loop : Nat])
  BY DEF LoopWaits, PostedIsOld, Posted
<1>7. results \in Seq(1..MaxLoops)
  <2> DEFINE n == Reported(loop, nextLoop)
  <2>1. n \in Nat /\ n <= MaxLoops
    <3>1. CASE loop.busy
      BY <3>1, ToolLoopAssumption DEF Reported, LoopWaits, CounterTypes
    <3>2. CASE ~loop.busy
      BY <3>2, ToolLoopAssumption DEF Reported, CounterTypes
    <3> QED BY <3>1, <3>2
  <2>2. results = [i \in 1..n |-> i]
    BY DEF LoopWaits
  <2> HIDE DEF n
  <2> DEFINE S == 1..MaxLoops
  <2>3. results \in [1..n -> S]
    BY <2>1, <2>2, ToolLoopAssumption
  <2> HIDE DEF S
  <2>4. results \in Seq(S)
    BY <2>1, <2>3
  <2> QED BY <2>4 DEF S
<1>8. {calls, waiting, nextLoop, nextChat, nextAsk, requests, ran} \subseteq Nat
  BY DEF CounterTypes
<1> QED BY <1>1, <1>2, <1>3, <1>4, <1>5, <1>6, <1>7, <1>8 DEF Loop!TypeOK

LEMMA BudgetsFollow == ToolLoopInv => Loop!BudgetsHold
<1> SUFFICES ASSUME ToolLoopInv, loop.busy
             PROVE  /\ requests <= loop.config.maxRounds + 1
                    /\ loop.round <= loop.config.maxRounds
                    /\ ran <= loop.config.maxCalls
  BY DEF Loop!BudgetsHold
<1>1. /\ requests <= loop.round + 1 /\ loop.round <= loop.config.maxRounds
      /\ ran <= calls /\ calls <= loop.config.maxCalls
  BY DEF ToolLoopInv, BudgetsInv
<1>2. /\ requests \in Nat /\ loop.round \in Nat /\ loop.config.maxRounds \in Nat
      /\ ran \in Nat /\ calls \in Nat /\ loop.config.maxCalls \in Nat
  BY DEF ToolLoopInv, LoopTypes, CounterTypes, LoopRecord, Loop!ConfigType
<1> QED BY <1>1, <1>2

\* NothingOutlivesTheLoop: a finished tool loop leaves no request, call or deadline behind,
\* however it ended, and reports once (ToolLoopExecutor::Finish, Cancel, OnDeadline).
THEOREM LoopsLeaveNothing == ServicesSpec => []NothingOutlivesTheLoop
<1>1. ToolLoopInv /\ [ServicesNext]_servicesVars => ToolLoopInv'
  BY EachPartMovesAlone, ToolLoopKeeps
<1>2. ToolLoopInv => NothingOutlivesTheLoop
  <2> SUFFICES ASSUME ToolLoopInv PROVE NothingOutlivesTheLoop
    OBVIOUS
  <2>1. loop.busy => Loop!AwaitsOne /\ waiting = loop.id /\ nextLoop = loop.id
    BY OneThing DEF ToolLoopInv, LoopWaits
  <2>2. ~loop.busy => chats = {} /\ active = Loop!Idle /\ ~deadline /\ ~dispatching
    BY DEF ToolLoopInv, LoopWaits
  <2>3. results = [i \in 1..(IF loop.busy THEN nextLoop - 1 ELSE nextLoop) |-> i]
    BY DEF ToolLoopInv, LoopWaits, Reported
  <2> QED BY <2>1, <2>2, <2>3 DEF NothingOutlivesTheLoop, Loop!NothingOutlivesTheLoop
<1> QED BY ToolLoopStarts, <1>1, <1>2, PTL DEF ServicesSpec

-----------------------------------------------------------------------------
(* The transcript of the tool loop *)

\* An answer to the call owed first is appended: the others move up.
MovesUp(q, todo, call, r, rest) ==
  /\ \A c : Owed(q, todo, 1, c) => c = call
  /\ \A k \in Nat \ {0} : \A c : Owed(q, todo, k + 1, c) => Owed(r, rest, k, c)

LEMMA AnswerJoins ==
  ASSUME NEW m \in Seq(Message), NEW call \in CallId, NEW from \in {Loop!NoCall, call},
         NEW n, n = Append(m, Loop!Answer(call, from)), FromItsCall(m),
         NEW q, NEW todo, NEW r, NEW rest, AnsweredOrOwed(m, q, todo),
         MovesUp(q, todo, call, r, rest)
  PROVE  n \in Seq(Message) /\ FromItsCall(n) /\ AnsweredOrOwed(n, r, rest)
<1> DEFINE x == Loop!Answer(call, from)
<1>1. /\ x \in Message /\ x.role = "tool" /\ x.call = call /\ x.from = from
  <2>1. from \in CallId
    BY IdleAsksNothing
  <2> QED BY <2>1 DEF Loop!Answer, Message, ToolMessage
<1> HIDE DEF x
<1>2. /\ n \in Seq(Message) /\ Len(n) = Len(m) + 1 /\ Len(m) \in Nat /\ n[Len(m) + 1] = x
      /\ \A i \in 1..Len(m) : n[i] = m[i]
  <2>1. n = Append(m, x)
    BY DEF x
  <2> QED BY <1>1, <2>1
<1>3. FromItsCall(n)
  <2> SUFFICES ASSUME NEW i \in 1..Len(n), n[i].role = "tool"
               PROVE  n[i].from \in {Loop!NoCall, n[i].call}
    BY DEF FromItsCall
  <2>1. CASE i \in 1..Len(m)
    BY <1>2, <2>1 DEF FromItsCall
  <2>2. CASE i = Len(m) + 1
    BY <1>1, <1>2, <2>2
  <2> QED BY <1>2, <2>1, <2>2
<1>4. AnsweredOrOwed(n, r, rest)
  <2> SUFFICES ASSUME NEW i \in 1..Len(n), n[i].role = "assistant",
                      NEW k \in 1..Len(n[i].calls)
               PROVE  \/ /\ i + k <= Len(n) /\ n[i + k].role = "tool"
                         /\ n[i + k].call = n[i].calls[k]
                      \/ i + k > Len(n) /\ Owed(r, rest, i + k - Len(n), n[i].calls[k])
    BY DEF AnsweredOrOwed
  <2>1. i \in 1..Len(m) /\ n[i] = m[i]
    <3>1. i # Len(m) + 1
      BY <1>1, <1>2
    <3> QED BY <1>2, <3>1
  <2> DEFINE c == m[i].calls[k]
  <2>2. \/ i + k <= Len(m) /\ m[i + k].role = "tool" /\ m[i + k].call = c
        \/ i + k > Len(m) /\ Owed(q, todo, i + k - Len(m), c)
    BY <2>1 DEF AnsweredOrOwed
  <2>3. n[i].calls[k] = c
    BY <2>1
  <2> HIDE DEF c
  <2>4. i \in Nat /\ k \in Nat \ {0} /\ Len(m) \in Nat
    BY <1>2, <2>1
  <2>5. CASE i + k <= Len(m)
    <3>1. i + k \in 1..Len(m) /\ i + k <= Len(n)
      BY <1>2, <2>4, <2>5
    <3> QED BY <1>2, <2>2, <2>3, <2>4, <2>5, <3>1
  <2>6. CASE i + k = Len(m) + 1
    <3>1. Owed(q, todo, 1, c)
      <4>1. i + k - Len(m) = 1 /\ ~(i + k <= Len(m))
        BY <2>4, <2>6
      <4> QED BY <2>2, <4>1
    <3>2. c = call
      BY <3>1 DEF MovesUp
    <3> QED BY <1>1, <1>2, <2>3, <2>6, <3>2
  <2>7. CASE i + k > Len(m) + 1
    <3> DEFINE j == i + k - Len(n)
    <3>1. j \in Nat \ {0} /\ i + k - Len(m) = j + 1 /\ ~(i + k <= Len(m)) /\ i + k > Len(n)
      BY <1>2, <2>4, <2>7
    <3>2. Owed(q, todo, j + 1, c)
      BY <2>2, <3>1
    <3> HIDE DEF j
    <3>3. Owed(r, rest, j, c)
      BY <3>1, <3>2 DEF MovesUp
    <3> QED BY <2>3, <3>1, <3>3 DEF j
  <2> QED BY <2>4, <2>5, <2>6, <2>7
<1> QED BY <1>2, <1>3, <1>4

Joins(m, call, from, q, todo, r, rest) ==
  /\ m \in Seq(Message) /\ FromItsCall(m) /\ AnsweredOrOwed(m, q, todo)
  /\ call \in CallId /\ from \in {Loop!NoCall, call}
  /\ MovesUp(q, todo, call, r, rest)

Answered(n, q, todo) == n \in Seq(Message) /\ FromItsCall(n) /\ AnsweredOrOwed(n, q, todo)

LEMMA JoinedIsAnswered ==
  ASSUME NEW m, NEW call, NEW from, NEW q, NEW todo, NEW r, NEW rest,
         Joins(m, call, from, q, todo, r, rest)
  PROVE  Answered(Append(m, Loop!Answer(call, from)), r, rest)
<1> DEFINE n == Append(m, Loop!Answer(call, from))
<1>1. n = Append(m, Loop!Answer(call, from))
  OBVIOUS
<1> HIDE DEF n
<1>2. /\ m \in Seq(Message) /\ FromItsCall(m) /\ AnsweredOrOwed(m, q, todo)
      /\ call \in CallId /\ from \in {Loop!NoCall, call}
      /\ MovesUp(q, todo, call, r, rest)
  BY DEF Joins
<1>3. n \in Seq(Message) /\ FromItsCall(n) /\ AnsweredOrOwed(n, r, rest)
  BY <1>1, <1>2, AnswerJoins
<1> QED BY <1>3 DEF n, Answered

\* The LLM asks for tools when nothing is owed: then all its calls are.
LEMMA CallsJoin ==
  ASSUME NEW m \in Seq(Message), NEW ids \in Seq(CallId), NEW n, n = Append(m, Loop!AskFor(ids)),
         FromItsCall(m), AnsweredOrOwed(m, Loop!Idle, <<>>),
         NEW todo, Len(todo) = Len(ids), \A k \in 1..Len(ids) : todo[k].id = ids[k]
  PROVE  n \in Seq(Message) /\ FromItsCall(n) /\ AnsweredOrOwed(n, Loop!Idle, todo)
<1> DEFINE x == Loop!AskFor(ids)
<1>1. x \in Message /\ x.role = "assistant" /\ x.calls = ids
  BY DEF Loop!AskFor, Message, AssistantMessage
<1> HIDE DEF x
<1>2. /\ n \in Seq(Message) /\ Len(n) = Len(m) + 1 /\ Len(m) \in Nat /\ n[Len(m) + 1] = x
      /\ \A i \in 1..Len(m) : n[i] = m[i]
  <2>1. n = Append(m, x)
    BY DEF x
  <2> QED BY <1>1, <2>1
<1>3. FromItsCall(n)
  <2> SUFFICES ASSUME NEW i \in 1..Len(n), n[i].role = "tool"
               PROVE  n[i].from \in {Loop!NoCall, n[i].call}
    BY DEF FromItsCall
  <2>1. i \in 1..Len(m)
    BY <1>1, <1>2
  <2> QED BY <1>2, <2>1 DEF FromItsCall
<1>4. AnsweredOrOwed(n, Loop!Idle, todo)
  <2> SUFFICES ASSUME NEW i \in 1..Len(n), n[i].role = "assistant",
                      NEW k \in 1..Len(n[i].calls)
               PROVE  \/ /\ i + k <= Len(n) /\ n[i + k].role = "tool"
                         /\ n[i + k].call = n[i].calls[k]
                      \/ i + k > Len(n) /\ Owed(Loop!Idle, todo, i + k - Len(n), n[i].calls[k])
    BY DEF AnsweredOrOwed
  <2>1. CASE i \in 1..Len(m)
    <3>1. n[i] = m[i]
      BY <1>2, <2>1
    <3> DEFINE c == m[i].calls[k]
    <3>2. ~Owed(Loop!Idle, <<>>, i + k - Len(m), c)
      BY DEF Owed
    <3>3. i + k <= Len(m) /\ m[i + k].role = "tool" /\ m[i + k].call = c
      BY <2>1, <3>1, <3>2 DEF AnsweredOrOwed
    <3> HIDE DEF c
    <3>4. i + k \in 1..Len(m) /\ i + k <= Len(n)
      BY <1>2, <2>1, <3>3
    <3> QED BY <1>2, <3>1, <3>3, <3>4 DEF c
  <2>2. CASE i = Len(m) + 1
    <3>1. n[i].calls = ids /\ k \in 1..Len(ids)
      BY <1>1, <1>2, <2>2
    <3>2. i + k - Len(n) = k /\ i + k > Len(n) /\ k \in 1..Len(todo)
      BY <1>2, <2>2, <3>1
    <3>3. Owed(Loop!Idle, todo, k, ids[k])
      BY <3>1, <3>2 DEF Owed
    <3> QED BY <3>1, <3>2, <3>3
  <2> QED BY <1>2, <2>1, <2>2
<1> QED BY <1>2, <1>3, <1>4

LEMMA RoundSent ==
  ASSUME NEW l \in LoopRecord, NEW withTools, NEW others
  PROVE  /\ Loop!Finish(l) => ~loop'.busy
         /\ Loop!SendRound(l, withTools, others) \/ Loop!BeginRound(l, withTools, others) =>
              (loop'.busy => loop'.todo = l.todo)
<1>1. ASSUME NEW x \in LoopRecord, Loop!Finish(x) PROVE ~loop'.busy
  <2>1. loop' = [x EXCEPT !.busy = FALSE, !.id = 0, !.llm = 0, !.todo = <<>>]
    BY <1>1 DEF Loop!Finish
  <2> QED BY <2>1 DEF LoopRecord
<1>2. ASSUME NEW x \in LoopRecord, NEW tools, Loop!SendRound(x, tools, others), loop'.busy
      PROVE  loop'.todo = x.todo
  <2>1. Loop!Accepted(x, tools, others)
    BY <1>1, <1>2 DEF Loop!SendRound, Loop!FinishWith
  <2>2. loop' = [x EXCEPT !.llm = nextChat + 1, !.terminal = ~tools]
    BY <2>1 DEF Loop!Accepted
  <2> QED BY <2>2 DEF LoopRecord
<1>3. ASSUME Loop!BeginRound(l, withTools, others), loop'.busy
      PROVE  loop'.todo = l.todo
  <2> DEFINE x == [l EXCEPT !.round = l.round + 1]
  <2>1. x \in LoopRecord /\ x.todo = l.todo
    BY DEF LoopRecord, Loop!ConfigType
  <2>2. \/ Loop!SendRound(x, withTools, others) \/ Loop!SendRound(l, FALSE, others)
        \/ Loop!FinishWith(l, others)
    BY <1>3 DEF Loop!BeginRound
  <2>3. ~Loop!FinishWith(l, others)
    BY <1>1, <1>3 DEF Loop!FinishWith
  <2> HIDE DEF x
  <2> QED BY <1>2, <1>3, <2>1, <2>2, <2>3
<1> QED BY <1>1, <1>2, <1>3

LEMMA TranscriptStays ==
  ASSUME TranscriptInv, messages' = messages,
         loop'.busy => loop.busy /\ loop'.todo = loop.todo /\ active' = active
  PROVE  TranscriptInv'
BY DEF TranscriptInv

\* The answer of the first call of the list, or of the tool that ran.
LEMMA FirstIsAnswered ==
  ASSUME ToolLoopInv, TranscriptInv, loop.busy, dispatching, loop.todo # <<>>,
         NEW from \in {Loop!NoCall, Loop!Next1.id},
         messages' = Append(messages, Loop!Answer(Loop!Next1.id, from)),
         active' = active, loop'.todo = Loop!AfterNext.todo
  PROVE  TranscriptInv'
<1>1. active = Loop!Idle
  BY DispatchRuns
<1> DEFINE todo == loop.todo
<1>2. /\ Loop!AfterNext.todo = Tail(todo) /\ Loop!Next1.id = todo[1].id
      /\ Loop!Next1.id \in CallId
  BY NextCall DEF ToolLoopInv, LoopTypes
<1>3. todo \in Seq(Todo) /\ todo # <<>>
  BY DEF ToolLoopInv, LoopTypes, LoopRecord
<1> HIDE DEF todo
<1>4. \A c : Owed(active, todo, 1, c) => c = Loop!Next1.id
  BY <1>1, <1>2 DEF Owed
<1>5. \A k \in Nat \ {0} : \A c : Owed(active, todo, k + 1, c) => Owed(active, Tail(todo), k, c)
  BY <1>1, <1>3 DEF Owed
<1>6. /\ messages' \in Seq(Message) /\ FromItsCall(messages')
      /\ AnsweredOrOwed(messages', active, Tail(todo))
  <2>1. MovesUp(active, todo, Loop!Next1.id, active, Tail(todo))
    BY <1>4, <1>5 DEF MovesUp
  <2>2. /\ messages \in Seq(Message) /\ FromItsCall(messages)
        /\ AnsweredOrOwed(messages, active, todo)
    BY DEF TranscriptInv, todo
  <2>3. Joins(messages, Loop!Next1.id, from, active, todo, active, Tail(todo))
    BY <1>2, <2>1, <2>2 DEF Joins
  <2>4. Answered(Append(messages, Loop!Answer(Loop!Next1.id, from)), active, Tail(todo))
    BY <2>3, JoinedIsAnswered
  <2> QED BY <2>4 DEF Answered
<1> QED BY <1>2, <1>6 DEF TranscriptInv

LEMMA ToolIsAnswered ==
  ASSUME ToolLoopInv, TranscriptInv, active # Loop!Idle,
         NEW from \in {Loop!NoCall, active.call},
         messages' = Append(messages, Loop!Answer(active.call, from)),
         active' = Loop!Idle, loop'.todo = loop.todo
  PROVE  TranscriptInv'
<1>1. active \in Question /\ loop.busy
  BY ToolIsAsked DEF AwaitsTool
<1>2. active.call \in CallId
  BY <1>1 DEF Question
<1> DEFINE todo == loop.todo
<1>3. \A c : Owed(active, todo, 1, c) => c = active.call
  BY DEF Owed
<1>4. \A k \in Nat \ {0} : \A c : Owed(active, todo, k + 1, c) => Owed(Loop!Idle, todo, k, c)
  BY DEF Owed
<1>5. /\ messages' \in Seq(Message) /\ FromItsCall(messages')
      /\ AnsweredOrOwed(messages', Loop!Idle, todo)
  <2>1. MovesUp(active, todo, active.call, Loop!Idle, todo)
    BY <1>3, <1>4 DEF MovesUp
  <2>2. /\ messages \in Seq(Message) /\ FromItsCall(messages)
        /\ AnsweredOrOwed(messages, active, todo)
    BY <1>1 DEF TranscriptInv
  <2> HIDE DEF todo
  <2>3. Joins(messages, active.call, from, active, todo, Loop!Idle, todo)
    BY <1>2, <2>1, <2>2 DEF Joins
  <2>4. Answered(Append(messages, Loop!Answer(active.call, from)), Loop!Idle, todo)
    BY <2>3, JoinedIsAnswered
  <2> QED BY <2>4 DEF Answered
<1> QED BY <1>5 DEF TranscriptInv

LEMMA AnswerCarriesOn ==
  ASSUME NEW l \in LoopRecord, NEW call, NEW from, NEW hint,
         Loop!OnToolCallFinished(l, call, from, hint)
  PROVE  /\ messages' = Append(messages, Loop!Answer(call, from))
         /\ loop'.todo = l.todo
<1>1. loop' = [l EXCEPT !.allTerminate = l.allTerminate /\ hint]
  BY DEF Loop!OnToolCallFinished
<1>2. loop'.todo = l.todo
  BY <1>1 DEF LoopRecord
<1> QED BY <1>2 DEF Loop!OnToolCallFinished

LEMMA TranscriptKeeps == ToolLoopInv /\ TranscriptInv /\ [Loop!Next]_loopVars => TranscriptInv'
<1> SUFFICES ASSUME ToolLoopInv, TranscriptInv, [Loop!Next]_loopVars PROVE TranscriptInv'
  OBVIOUS
<1>0. loop \in LoopRecord
  BY DEF ToolLoopInv, LoopTypes
<1>1. ASSUME NEW c \in Config, Loop!Start(c) \/ Loop!StartFails(c) PROVE TranscriptInv'
  <2>1. messages' = <<Loop!Prompt>>
    BY <1>1 DEF Loop!Start, Loop!StartFails, Loop!Starting
  <2>2. Loop!Prompt \in Message /\ Loop!Prompt.role = "user"
    BY DEF Loop!Prompt, Message, UserMessage
  <2>3. /\ messages' \in Seq(Message) /\ Len(messages') = 1 /\ messages'[1] = Loop!Prompt
    BY <2>1, <2>2
  <2>4. \A i \in 1..Len(messages') : messages'[i].role = "user"
    BY <2>2, <2>3
  <2> QED BY <2>3, <2>4 DEF TranscriptInv, FromItsCall, AnsweredOrOwed
<1>2. CASE Loop!CancelRunning \/ Loop!Deadline
  <2>1. Loop!Finish(loop) /\ messages' = messages
    BY <1>2 DEF Loop!CancelRunning, Loop!Deadline
  <2> QED BY <1>0, <2>1, RoundSent, TranscriptStays
<1>3. CASE Loop!CancelFinished \/ Loop!ClockRunsOut \/ Loop!RunPosted
           \/ \E a \in asks : Loop!LateAnswer(a)
  <2>1. messages' = messages /\ loop' = loop /\ active' = active
    BY <1>3 DEF Loop!CancelFinished, Loop!ClockRunsOut, Loop!RunPosted, Loop!RunDispatch,
                Loop!DeliverFinished, Loop!LateAnswer, Loop!loopVars, Loop!schedulerVars
  <2> QED BY <2>1, TranscriptStays
<1>4. ASSUME NEW r \in chats, Loop!Answered(r) PROVE TranscriptInv'
  <2>1. loop.busy /\ active = Loop!Idle /\ loop.todo = <<>>
    <3>1. Loop!Current(r)
      BY <1>4 DEF Loop!Answered, Loop!ChatEnds, Loop!ToolCalls, Loop!ToolCallsRefused,
                  Loop!ToolsUnsupported
    <3> QED BY <3>1, AnswerArrives
  <2>2. Loop!Heard \in LoopRecord /\ Loop!Heard.todo = loop.todo
    BY <1>0, HeardLoop
  <2>3. CASE Loop!ChatEnds(r) \/ Loop!ToolCallsRefused(r)
    <3>1. Loop!Finish(Loop!Heard) /\ messages' = messages
      BY <2>3 DEF Loop!ChatEnds, Loop!ToolCallsRefused, Loop!FinishWith
    <3> QED BY <2>2, <3>1, RoundSent, TranscriptStays
  <2>4. CASE Loop!ToolsUnsupported(r)
    <3> DEFINE l == [Loop!Heard EXCEPT !.fallback = TRUE]
    <3>1. /\ messages' = messages /\ active' = active
          /\ \/ Loop!BeginRound(l, FALSE, chats \ {r})
             \/ Loop!Finish(Loop!Heard)
      BY <2>4 DEF Loop!ToolsUnsupported, Loop!schedulerVars, Loop!FinishWith
    <3>2. l \in LoopRecord /\ l.todo = loop.todo
      BY <2>2 DEF LoopRecord
    <3> HIDE DEF l
    <3>3. loop'.busy => loop'.todo = loop.todo
      BY <2>2, <3>1, <3>2, RoundSent
    <3> QED BY <2>1, <3>1, <3>3, TranscriptStays
  <2>5. ASSUME NEW q \in Asked, Loop!ToolCalls(r, q) PROVE TranscriptInv'
    <3> DEFINE ids == [i \in DOMAIN q |-> <<loop.id, loop.round, i>>]
    <3> DEFINE todo == [i \in DOMAIN q |-> [name |-> q[i], id |-> ids[i]]]
    <3>1. /\ loop' = [Loop!Heard EXCEPT !.allTerminate = TRUE, !.todo = todo]
          /\ messages' = Append(messages, Loop!AskFor(ids)) /\ active' = active
      BY <2>5 DEF Loop!ToolCalls, Loop!schedulerVars
    <3>2. q \in Seq(Loop!Call) /\ Len(q) \in Nat /\ DOMAIN q = 1..Len(q)
      BY ToolLoopAssumption
    <3>3. ids \in Seq(CallId) /\ Len(ids) = Len(q)
      <4>1. ids \in [1..Len(q) -> CallId]
        BY <1>0, <3>2 DEF LoopRecord, CallId
      <4> HIDE DEF ids
      <4> QED BY <3>2, <4>1
    <3>4. Len(todo) = Len(ids) /\ \A k \in 1..Len(ids) : todo[k].id = ids[k]
      BY <3>2, <3>3
    <3>5. loop'.todo = todo
      BY <2>2, <3>1 DEF LoopRecord
    <3> HIDE DEF ids, todo
    <3>6. AnsweredOrOwed(messages, Loop!Idle, <<>>)
      BY <2>1 DEF TranscriptInv
    <3>7. /\ messages' \in Seq(Message) /\ FromItsCall(messages')
          /\ AnsweredOrOwed(messages', Loop!Idle, todo)
      BY <3>1, <3>3, <3>4, <3>6, CallsJoin DEF TranscriptInv
    <3> QED BY <2>1, <3>1, <3>5, <3>7 DEF TranscriptInv
  <2> QED BY <1>4, <2>3, <2>4, <2>5 DEF Loop!Answered
<1>5. CASE Loop!SkipCall \/ Loop!RefuseCall \/ \E hint \in BOOLEAN : Loop!RunAtOnce(hint)
  <2>1. dispatching /\ loop.todo # <<>>
    BY <1>5, Zenon DEF Loop!SkipCall, Loop!RefuseCall, Loop!RunAtOnce, Loop!Runs
  <2>2. loop.busy /\ Loop!AfterNext \in LoopRecord
    BY <1>0, <2>1, DispatchRuns, NextCall
  <2>3. PICK from \in {Loop!NoCall, Loop!Next1.id} :
          /\ messages' = Append(messages, Loop!Answer(Loop!Next1.id, from))
          /\ active' = active /\ loop'.todo = Loop!AfterNext.todo
    <3>1. CASE Loop!SkipCall
      BY <3>1 DEF Loop!SkipCall, Loop!schedulerVars
    <3>2. CASE Loop!RefuseCall
      <4>1. /\ Loop!OnToolCallFinished(Loop!AfterNext, Loop!Next1.id, Loop!NoCall, FALSE)
            /\ active' = active
        BY <3>2 DEF Loop!RefuseCall
      <4> QED BY <2>2, <4>1, AnswerCarriesOn
    <3>3. ASSUME NEW hint \in BOOLEAN, Loop!RunAtOnce(hint)
          PROVE  /\ messages' = Append(messages, Loop!Answer(Loop!Next1.id, Loop!Next1.id))
                 /\ active' = active /\ loop'.todo = Loop!AfterNext.todo
      <4>1. /\ Loop!OnToolCallFinished(Loop!AfterNext, Loop!Next1.id, Loop!Next1.id, hint)
            /\ active' = active
        BY <3>3 DEF Loop!RunAtOnce
      <4> QED BY <2>2, <4>1, AnswerCarriesOn
    <3> QED BY <1>5, <3>1, <3>2, <3>3
  <2> QED BY <2>1, <2>2, <2>3, FirstIsAnswered
<1>6. CASE Loop!RunCall
  <2>1. dispatching /\ loop.todo # <<>>
    BY <1>6, Zenon DEF Loop!RunCall, Loop!Runs
  <2>2. loop.busy /\ active = Loop!Idle
    BY <2>1, DispatchRuns
  <2>3. /\ messages' = messages /\ loop' = Loop!AfterNext
        /\ active'.call = Loop!Next1.id /\ active'.ask = nextAsk + 1
    BY <1>6 DEF Loop!RunCall
  <2>4. active' # Loop!Idle
    BY <2>3, IdleAsksNothing DEF ToolLoopInv, CounterTypes
  <2> DEFINE todo == loop.todo
  <2>5. /\ loop'.todo = Tail(todo) /\ active'.call = todo[1].id
    BY <1>0, <2>1, <2>3, NextCall
  <2>6. todo \in Seq(Todo) /\ todo # <<>>
    BY <1>0, <2>1 DEF LoopRecord
  <2> DEFINE q == active'
  <2>7. q # Loop!Idle /\ q.call = todo[1].id
    BY <2>4, <2>5
  <2> HIDE DEF todo, q
  <2>8. \A k \in Int : \A c : Owed(Loop!Idle, todo, k, c) => Owed(q, Tail(todo), k, c)
    BY <2>6, <2>7 DEF Owed
  <2>9. AnsweredOrOwed(messages, Loop!Idle, todo)
    BY <2>2 DEF TranscriptInv, todo
  <2>10. AnsweredOrOwed(messages, q, Tail(todo))
    <3>1. Len(messages) \in Nat
      BY DEF TranscriptInv
    <3> QED BY <2>8, <2>9, <3>1 DEF AnsweredOrOwed
  <2> QED BY <2>3, <2>5, <2>10 DEF TranscriptInv, q
<1>7. CASE Loop!RoundDone
  <2>1. loop.busy
    BY <1>7, DispatchRuns DEF Loop!RoundDone
  <2>2. /\ messages' = messages /\ active' = active
        /\ Loop!SendRound(loop, FALSE, chats) \/ Loop!BeginRound(loop, TRUE, chats)
    BY <1>7 DEF Loop!RoundDone, Loop!schedulerVars
  <2>3. loop'.busy => loop'.todo = loop.todo
    BY <1>0, <2>2, RoundSent
  <2> QED BY <2>1, <2>2, <2>3, TranscriptStays
<1>8. CASE Loop!OnToolTimeout
  <2>1. /\ active # Loop!Idle /\ active' = Loop!Idle
        /\ Loop!OnToolCallFinished(loop, active.call, Loop!NoCall, FALSE)
    BY <1>8 DEF Loop!OnToolTimeout
  <2> QED BY <1>0, <2>1, AnswerCarriesOn, ToolIsAnswered
<1>9. ASSUME NEW a \in asks, NEW hint \in BOOLEAN, Loop!ToolAnswers(a, hint) PROVE TranscriptInv'
  <2>1. /\ a.ask = active.ask /\ active' = Loop!Idle
        /\ Loop!OnToolCallFinished(loop, active.call, a.call, hint)
    BY <1>9 DEF Loop!ToolAnswers, Loop!AnswersActive
  <2>2. a = active /\ a.ask # 0
    BY <2>1 DEF ToolLoopInv, AsksAreOld, Question
  <2>3. active # Loop!Idle /\ a.call = active.call
    BY <2>2, IdleAsksNothing
  <2> QED BY <1>0, <2>1, <2>3, AnswerCarriesOn, ToolIsAnswered
<1>10. CASE UNCHANGED loopVars
  BY <1>10, TranscriptStays DEF loopVars
<1> QED
  BY <1>1, <1>2, <1>3, <1>4, <1>5, <1>6, <1>7, <1>8, <1>9, <1>10, Zenon
     DEF Loop!Next, Loop!Dispatch, Loop!ToolEnds

\* A request of a tool loop carries one answer per call, in order, each from the run of its
\* own call, within the budgets (ToolLoopExecutor, ToolScheduler).
THEOREM TranscriptsAreAnswered == ServicesSpec => []LoopInv
<1>1. ServicesInit => ToolLoopInv /\ TranscriptInv
  <2>1. ServicesInit => TranscriptInv
    BY ToolLoopStarts DEF ServicesInit, Loop!Init, TranscriptInv, FromItsCall, AnsweredOrOwed
  <2> QED BY <2>1, ToolLoopStarts
<1>2. ToolLoopInv /\ TranscriptInv /\ [ServicesNext]_servicesVars => (ToolLoopInv /\ TranscriptInv)'
  BY EachPartMovesAlone, ToolLoopKeeps, TranscriptKeeps
<1>3. ToolLoopInv /\ TranscriptInv => LoopInv
  <2> SUFFICES ASSUME ToolLoopInv, TranscriptInv PROVE LoopInv
    OBVIOUS
  <2>1. DOMAIN messages = 1..Len(messages) /\ Len(messages) \in Nat
    BY DEF TranscriptInv
  <2>2. ASSUME loop.llm # 0, NEW i \in Loop!Asking PROVE Loop!AnsweredFrom(i)
    <3>1. loop.busy /\ AwaitsLlm
      BY <2>2 DEF ToolLoopInv, LoopWaits, Runs, AwaitsDispatch, AwaitsTool
    <3>2. active = Loop!Idle /\ loop.todo = <<>>
      BY <3>1 DEF AwaitsLlm
    <3>3. AnsweredOrOwed(messages, Loop!Idle, <<>>)
      BY <3>1, <3>2 DEF TranscriptInv
    <3>4. i \in 1..Len(messages) /\ messages[i].role = "assistant"
      BY <2>1, <2>2 DEF Loop!Asking
    <3>5. messages[i].calls \in Seq(CallId)
      <4>1. messages[i] \in Message
        BY <3>4 DEF TranscriptInv
      <4> QED BY <3>4, <4>1 DEF Message, UserMessage, AssistantMessage, ToolMessage
    <3>6. ASSUME NEW k \in 1..Len(messages[i].calls)
          PROVE  /\ i + k \in 1..Len(messages) /\ messages[i + k].role = "tool"
                 /\ messages[i + k].call = messages[i].calls[k]
      <4>1. ~Owed(Loop!Idle, <<>>, i + k - Len(messages), messages[i].calls[k])
        BY DEF Owed
      <4>2. /\ i + k <= Len(messages) /\ messages[i + k].role = "tool"
            /\ messages[i + k].call = messages[i].calls[k]
        BY <3>3, <3>4, <4>1 DEF AnsweredOrOwed
      <4> QED BY <2>1, <3>4, <4>2
    <3>7. DOMAIN messages[i].calls = 1..Len(messages[i].calls)
      BY <3>5
    <3> QED BY <2>1, <3>6, <3>7 DEF Loop!AnsweredFrom
  <2>3. Loop!TranscriptIsAnswered
    BY <2>1, <2>2 DEF Loop!TranscriptIsAnswered, TranscriptInv, FromItsCall
  <2> QED BY <2>3, ToolLoopTypes, BudgetsFollow DEF LoopInv, Loop!LoopInv
<1> QED BY <1>1, <1>2, <1>3, PTL DEF ServicesSpec

-----------------------------------------------------------------------------
(* DagDocument *)

\* A document as it is parsed or read back: trimmed, its node ids differ.
IsTrimmed(t) == Document!Trimmed(t) = t
IsDocument(d) ==
  /\ d = [nodes |-> d.nodes, edges |-> d.edges]
  /\ Len(d.nodes) \in Nat /\ d.nodes = [i \in 1..Len(d.nodes) |-> d.nodes[i]]
  /\ Len(d.edges) \in Nat /\ d.edges = [i \in 1..Len(d.edges) |-> d.edges[i]]
  /\ \A i \in 1..Len(d.nodes) :
       /\ d.nodes[i] = [id |-> d.nodes[i].id, type |-> d.nodes[i].type,
                        config |-> d.nodes[i].config]
       /\ IsTrimmed(d.nodes[i].id) /\ IsTrimmed(d.nodes[i].type)
       /\ d.nodes[i].id # Document!Blank /\ d.nodes[i].type # Document!Blank
       /\ \A j \in 1..(i - 1) : d.nodes[j].id # d.nodes[i].id
       /\ d.nodes[i].type \in TextType
       /\ \A k \in DOMAIN d.nodes[i].config : d.nodes[i].config[k] \in ValueType
  /\ \A i \in 1..Len(d.edges) :
       /\ d.edges[i] = [from |-> d.edges[i].from, to |-> d.edges[i].to]
       /\ IsTrimmed(d.edges[i].from) /\ IsTrimmed(d.edges[i].to)

LEMMA TrimmedOnce ==
  ASSUME NEW t \in TextType
  PROVE  Document!Trimmed(t) \in TextType /\ IsTrimmed(Document!Trimmed(t))
BY DEF Document!Trimmed, TextType, IsTrimmed

LEMMA ConfigIsTyped ==
  ASSUME NEW n, \A k \in DOMAIN n.settings : n.settings[k] \in ValueType
  PROVE  \A k \in DOMAIN Document!ConfigOf(n) : Document!ConfigOf(n)[k] \in ValueType
BY DEF Document!ConfigOf, Document!NoInputs

\* FromJsonObject makes a document of what it parses.
LEMMA ParsedIsDocument ==
  ASSUME NEW b, IsBody(b), Document!ParsesAsDocument(b)
  PROVE  IsDocument(Document!FromJsonObject(b))
<1> DEFINE d == Document!FromJsonObject(b)
<1>1. /\ d = [nodes |-> d.nodes, edges |-> d.edges]
      /\ d.nodes = [i \in DOMAIN b.nodes |-> Document!ParseNode(b.nodes[i])]
      /\ d.edges = [i \in DOMAIN b.edges |-> Document!ParseEdge(b.edges[i])]
  BY DEF Document!FromJsonObject
<1> HIDE DEF d
<1>2. /\ DOMAIN b.nodes = 1..Len(b.nodes) /\ Len(b.nodes) \in Nat
      /\ DOMAIN b.edges = 1..Len(b.edges) /\ Len(b.edges) \in Nat
  BY DEF IsBody
<1>3. /\ Len(d.nodes) = Len(b.nodes) /\ d.nodes = [i \in 1..Len(d.nodes) |-> d.nodes[i]]
      /\ Len(d.edges) = Len(b.edges) /\ d.edges = [i \in 1..Len(d.edges) |-> d.edges[i]]
  BY <1>1, <1>2
<1>4. ASSUME NEW i \in 1..Len(b.nodes)
      PROVE  /\ d.nodes[i] = Document!ParseNode(b.nodes[i])
             /\ d.nodes[i] = [id |-> d.nodes[i].id, type |-> d.nodes[i].type,
                              config |-> d.nodes[i].config]
             /\ d.nodes[i].id = Document!Trimmed(b.nodes[i].id)
             /\ d.nodes[i].type = Document!Trimmed(b.nodes[i].type)
             /\ d.nodes[i].config = Document!ConfigOf(b.nodes[i])
  <2>1. d.nodes[i] = Document!ParseNode(b.nodes[i])
    BY <1>1, <1>2
  <2> QED BY <2>1 DEF Document!ParseNode
<1>5. ASSUME NEW i \in 1..Len(b.nodes)
      PROVE  /\ b.nodes[i].id \in TextType /\ b.nodes[i].type \in TextType
             /\ d.nodes[i].id # Document!Blank /\ d.nodes[i].type # Document!Blank
             /\ \A j \in 1..(i - 1) : d.nodes[j].id # d.nodes[i].id
             /\ \A k \in DOMAIN d.nodes[i].config : d.nodes[i].config[k] \in ValueType
  <2>1. /\ b.nodes[i].id \in TextType /\ b.nodes[i].type \in TextType
        /\ \A k \in DOMAIN b.nodes[i].settings : b.nodes[i].settings[k] \in ValueType
    BY DEF IsBody
  <2>2. /\ ~Document!IsEmpty(b.nodes[i].id) /\ ~Document!IsEmpty(b.nodes[i].type)
        /\ \A j \in 1..(i - 1) :
             Document!Trimmed(b.nodes[j].id) # Document!Trimmed(b.nodes[i].id)
    BY <1>2 DEF Document!ParsesAsDocument
  <2>3. d.nodes[i].id # Document!Blank /\ d.nodes[i].type # Document!Blank
    BY <1>4, <2>2 DEF Document!IsEmpty
  <2>4. \A j \in 1..(i - 1) : j \in 1..Len(b.nodes)
    BY <1>2
  <2>5. \A j \in 1..(i - 1) : d.nodes[j].id # d.nodes[i].id
    BY <1>4, <2>2, <2>4
  <2>6. \A k \in DOMAIN d.nodes[i].config : d.nodes[i].config[k] \in ValueType
    BY <1>4, <2>1, ConfigIsTyped
  <2> QED BY <2>1, <2>3, <2>5, <2>6
<1>6. ASSUME NEW i \in 1..Len(b.edges)
      PROVE  /\ d.edges[i] = [from |-> d.edges[i].from, to |-> d.edges[i].to]
             /\ IsTrimmed(d.edges[i].from) /\ IsTrimmed(d.edges[i].to)
  <2>1. d.edges[i] = Document!ParseEdge(b.edges[i])
    BY <1>1, <1>2
  <2>2. b.edges[i].from \in TextType /\ b.edges[i].to \in TextType
    BY DEF IsBody
  <2> QED BY <2>1, <2>2, TrimmedOnce DEF Document!ParseEdge
<1>7. ASSUME NEW i \in 1..Len(b.nodes)
      PROVE  /\ IsTrimmed(d.nodes[i].id) /\ IsTrimmed(d.nodes[i].type)
             /\ d.nodes[i].type \in TextType
  BY <1>4, <1>5, TrimmedOnce
<1>8. \A i \in 1..Len(d.nodes) :
        /\ d.nodes[i] = [id |-> d.nodes[i].id, type |-> d.nodes[i].type,
                         config |-> d.nodes[i].config]
        /\ IsTrimmed(d.nodes[i].id) /\ IsTrimmed(d.nodes[i].type)
        /\ d.nodes[i].id # Document!Blank /\ d.nodes[i].type # Document!Blank
        /\ \A j \in 1..(i - 1) : d.nodes[j].id # d.nodes[i].id
        /\ d.nodes[i].type \in TextType
        /\ \A k \in DOMAIN d.nodes[i].config : d.nodes[i].config[k] \in ValueType
  <2> SUFFICES ASSUME NEW i \in 1..Len(b.nodes)
               PROVE  /\ d.nodes[i] = [id |-> d.nodes[i].id, type |-> d.nodes[i].type,
                                       config |-> d.nodes[i].config]
                      /\ IsTrimmed(d.nodes[i].id) /\ IsTrimmed(d.nodes[i].type)
                      /\ d.nodes[i].id # Document!Blank /\ d.nodes[i].type # Document!Blank
                      /\ \A j \in 1..(i - 1) : d.nodes[j].id # d.nodes[i].id
                      /\ d.nodes[i].type \in TextType
                      /\ \A k \in DOMAIN d.nodes[i].config :
                           d.nodes[i].config[k] \in ValueType
    BY <1>3
  <2>1. d.nodes[i] = [id |-> d.nodes[i].id, type |-> d.nodes[i].type,
                      config |-> d.nodes[i].config]
    BY <1>4
  <2> QED BY <1>5, <1>7, <2>1
<1>9. \A i \in 1..Len(d.edges) :
        /\ d.edges[i] = [from |-> d.edges[i].from, to |-> d.edges[i].to]
        /\ IsTrimmed(d.edges[i].from) /\ IsTrimmed(d.edges[i].to)
  BY <1>3, <1>6
<1>10. Len(d.nodes) \in Nat /\ Len(d.edges) \in Nat
  BY <1>2, <1>3
<1>11. IsDocument(d)
  BY <1>1, <1>3, <1>8, <1>9, <1>10 DEF IsDocument
<1> QED BY <1>11 DEF d

\* What the runtime reads of a saved document is what the editor shows.
LEMMA ReadBack ==
  ASSUME NEW d, IsDocument(d)
  PROVE  LET b == Document!ToJsonObject(d) IN
         /\ b.arrays
         /\ DOMAIN b.nodes = 1..Len(d.nodes) /\ DOMAIN b.edges = 1..Len(d.edges)
         /\ b.nodes = <<>> => d.nodes = <<>>
         /\ \A i \in 1..Len(d.nodes) :
              /\ b.nodes[i].form = "object" /\ b.nodes[i].config = "object"
              /\ Document!LoadedNode(b.nodes[i]) = d.nodes[i]
         /\ \A i \in 1..Len(d.edges) :
              b.edges[i].form = "object" /\ Document!ParseEdge(b.edges[i]) = d.edges[i]
<1> DEFINE b == Document!ToJsonObject(d)
<1>1. /\ DOMAIN d.nodes = 1..Len(d.nodes) /\ DOMAIN d.edges = 1..Len(d.edges)
      /\ Len(d.nodes) \in Nat
  BY DEF IsDocument
<1>2. /\ b.arrays = TRUE
      /\ b.nodes = [i \in 1..Len(d.nodes) |->
           [form |-> "object", id |-> d.nodes[i].id, type |-> d.nodes[i].type,
            config |-> "object", settings |-> d.nodes[i].config]]
      /\ b.edges = [i \in 1..Len(d.edges) |->
           [form |-> "object", from |-> d.edges[i].from, to |-> d.edges[i].to]]
  BY <1>1 DEF Document!ToJsonObject
<1> HIDE DEF b
<1>3. ASSUME NEW i \in 1..Len(d.nodes)
      PROVE  /\ b.nodes[i].form = "object" /\ b.nodes[i].config = "object"
             /\ Document!LoadedNode(b.nodes[i]) = d.nodes[i]
  <2>1. /\ d.nodes[i] = [id |-> d.nodes[i].id, type |-> d.nodes[i].type,
                         config |-> d.nodes[i].config]
        /\ Document!Trimmed(d.nodes[i].id) = d.nodes[i].id
        /\ Document!Trimmed(d.nodes[i].type) = d.nodes[i].type
    BY DEF IsDocument, IsTrimmed
  <2>2. /\ b.nodes[i].form = "object" /\ b.nodes[i].config = "object"
        /\ b.nodes[i].id = d.nodes[i].id /\ b.nodes[i].type = d.nodes[i].type
        /\ b.nodes[i].settings = d.nodes[i].config
    BY <1>2
  <2> QED BY <2>1, <2>2 DEF Document!LoadedNode, Document!ConfigOf
<1>4. ASSUME NEW i \in 1..Len(d.edges)
      PROVE  b.edges[i].form = "object" /\ Document!ParseEdge(b.edges[i]) = d.edges[i]
  <2>1. /\ d.edges[i] = [from |-> d.edges[i].from, to |-> d.edges[i].to]
        /\ Document!Trimmed(d.edges[i].from) = d.edges[i].from
        /\ Document!Trimmed(d.edges[i].to) = d.edges[i].to
    BY DEF IsDocument, IsTrimmed
  <2>2. /\ b.edges[i].form = "object"
        /\ b.edges[i].from = d.edges[i].from /\ b.edges[i].to = d.edges[i].to
    BY <1>2
  <2> QED BY <2>1, <2>2 DEF Document!ParseEdge
<1>5. ASSUME b.nodes = <<>> PROVE d.nodes = <<>>
  <2>1. Len(d.nodes) = 0
    BY <1>1, <1>2, <1>5
  <2>2. d.nodes = [i \in 1..Len(d.nodes) |-> d.nodes[i]]
    BY DEF IsDocument
  <2> QED BY <2>1, <2>2
<1>6. DOMAIN b.nodes = 1..Len(d.nodes) /\ DOMAIN b.edges = 1..Len(d.edges)
  BY <1>2
<1> QED BY <1>2, <1>3, <1>4, <1>5, <1>6 DEF b

LEMMA SavedIsShown ==
  ASSUME NEW d, IsDocument(d)
  PROVE  Document!Graph(Document!ToJsonObject(d)) = [nodes |-> d.nodes, edges |-> Document!Edges(d)]
<1> DEFINE b == Document!ToJsonObject(d)
<1>1. /\ DOMAIN b.nodes = 1..Len(d.nodes) /\ DOMAIN b.edges = 1..Len(d.edges)
      /\ \A i \in 1..Len(d.nodes) : Document!LoadedNode(b.nodes[i]) = d.nodes[i]
      /\ \A i \in 1..Len(d.edges) : Document!ParseEdge(b.edges[i]) = d.edges[i]
  BY ReadBack
<1> HIDE DEF b
<1>2. /\ d.nodes = [i \in 1..Len(d.nodes) |-> d.nodes[i]]
      /\ DOMAIN d.edges = 1..Len(d.edges)
  BY DEF IsDocument
<1>3. [i \in DOMAIN b.nodes |-> Document!LoadedNode(b.nodes[i])] = d.nodes
  BY <1>1, <1>2
<1>4. {Document!ParseEdge(b.edges[i]) : i \in DOMAIN b.edges} = {d.edges[i] : i \in DOMAIN d.edges}
  BY <1>1, <1>2
<1> QED BY <1>3, <1>4 DEF Document!Graph, Document!Edges, b

\* A body that both read is the same graph to both.
LEMMA BothReadTheSame ==
  ASSUME NEW b, IsBody(b), Document!ParsesAsDocument(b)
  PROVE  LET d == Document!FromJsonObject(b) IN
         [nodes |-> d.nodes, edges |-> Document!Edges(d)] = Document!Graph(b)
<1> DEFINE d == Document!FromJsonObject(b)
<1>1. /\ d.nodes = [i \in DOMAIN b.nodes |-> Document!ParseNode(b.nodes[i])]
      /\ d.edges = [i \in DOMAIN b.edges |-> Document!ParseEdge(b.edges[i])]
  BY DEF Document!FromJsonObject
<1> HIDE DEF d
<1>2. \A i \in DOMAIN b.nodes : Document!ParseNode(b.nodes[i]) = Document!LoadedNode(b.nodes[i])
  <2> SUFFICES ASSUME NEW i \in DOMAIN b.nodes
               PROVE  Document!ParseNode(b.nodes[i]) = Document!LoadedNode(b.nodes[i])
    OBVIOUS
  <2>1. b.nodes[i].form = "object"
    BY DEF Document!ParsesAsDocument
  <2> QED BY <2>1 DEF Document!ParseNode, Document!LoadedNode
<1>3. d.nodes = [i \in DOMAIN b.nodes |-> Document!LoadedNode(b.nodes[i])]
  BY <1>1, <1>2
<1>4. {d.edges[i] : i \in DOMAIN d.edges} = {Document!ParseEdge(b.edges[i]) : i \in DOMAIN b.edges}
  BY <1>1
<1> QED BY <1>3, <1>4 DEF Document!Graph, Document!Edges, d

\* What the validator has checked when it reports no error.
LEMMA ErrorIsFound ==
  ASSUME NEW d, NEW S, S \subseteq Document!Validate(d), NEW id, NEW code, NEW cond, cond,
         Document!ErrorIf(cond, id, code) \subseteq S
  PROVE  Document!HasErrors(Document!Validate(d))
<1> DEFINE x == Document!Issue("error", id, code)
<1>1. x.severity = "error"
  BY DEF Document!Issue
<1>2. x \in Document!ErrorIf(cond, id, code)
  BY DEF Document!ErrorIf
<1> QED BY <1>1, <1>2 DEF Document!HasErrors

LEMMA NothingFound ==
  ASSUME NEW d, ~Document!HasErrors(Document!Validate(d))
  PROVE  /\ d.nodes # <<>> /\ ~Document!CycleDetected(d)
         /\ \A i \in DOMAIN d.nodes : Document!NodeIssues(d.nodes[i]) \subseteq Document!Validate(d)
         /\ \A i \in DOMAIN d.edges : Document!EdgeIssues(d, i) \subseteq Document!Validate(d)
<1>1. d.nodes # <<>>
  <2> SUFFICES ASSUME d.nodes = <<>> PROVE FALSE
    OBVIOUS
  <2> DEFINE x == Document!Issue("error", Document!Blank, "empty_graph")
  <2>1. x \in Document!Validate(d)
    BY DEF Document!Validate
  <2>2. x.severity = "error"
    BY DEF Document!Issue
  <2> QED BY <2>1, <2>2 DEF Document!HasErrors
<1>2. Document!Validate(d) =
        Document!NodesIssues(d) \cup Document!EdgesIssues(d)
        \cup Document!ErrorIf(Document!CycleDetected(d), Document!Blank, "cycle_detected")
  BY <1>1 DEF Document!Validate
<1>3. ASSUME NEW i \in DOMAIN d.nodes
      PROVE  Document!NodeIssues(d.nodes[i]) \subseteq Document!Validate(d)
  <2>1. Document!NodeIssues(d.nodes[i]) \subseteq Document!NodesIssues(d)
    BY DEF Document!NodesIssues
  <2> QED BY <1>2, <2>1
<1>4. ASSUME NEW i \in DOMAIN d.edges
      PROVE  Document!EdgeIssues(d, i) \subseteq Document!Validate(d)
  <2>1. Document!EdgeIssues(d, i) \subseteq Document!EdgesIssues(d)
    BY DEF Document!EdgesIssues
  <2> QED BY <1>2, <2>1
<1>5. Document!ErrorIf(Document!CycleDetected(d), Document!Blank, "cycle_detected")
        \subseteq Document!Validate(d)
  BY <1>2
<1>6. ~Document!CycleDetected(d)
  BY <1>5, ErrorIsFound
<1> QED BY <1>1, <1>3, <1>4, <1>6

LEMMA EdgesAreFound ==
  ASSUME NEW d, ~Document!HasErrors(Document!Validate(d)), NEW i \in DOMAIN d.edges
  PROVE  /\ {d.edges[i].from, d.edges[i].to} \subseteq Document!IdsOf(d)
         /\ d.edges[i].from # d.edges[i].to
         /\ \A j \in 1..(i - 1) : d.edges[j] # d.edges[i]
<1> DEFINE e == d.edges[i]
<1>1. Document!EdgeIssues(d, i) \subseteq Document!Validate(d)
  BY NothingFound
<1>2. /\ Document!ErrorIf({e.from, e.to} \ Document!IdsOf(d) # {}, e.from,
                          "edge_references_missing_node") \subseteq Document!Validate(d)
      /\ Document!ErrorIf(e.from = e.to, e.from, "self_loop") \subseteq Document!Validate(d)
      /\ Document!ErrorIf(\E j \in 1..(i - 1) : d.edges[j] = d.edges[i], d.edges[i].from,
                          "duplicate_edge") \subseteq Document!Validate(d)
  BY <1>1 DEF Document!EdgeIssues, Document!EdgesAlone
<1>3. ~({e.from, e.to} \ Document!IdsOf(d) # {})
  BY <1>2, ErrorIsFound
<1>4. e.from # e.to
  BY <1>2, ErrorIsFound
<1>5. ~(\E j \in 1..(i - 1) : d.edges[j] = d.edges[i])
  BY <1>2, ErrorIsFound
<1> QED BY <1>3, <1>4, <1>5

\* A saved document without errors is loaded: the runtime refuses nothing more.
LEMMA SavedLoads ==
  ASSUME NEW d, IsDocument(d), ~Document!HasErrors(Document!Validate(d))
  PROVE  Document!LoadsInRuntime(Document!ToJsonObject(d))
<1> DEFINE b == Document!ToJsonObject(d)
<1>1. /\ b.arrays
      /\ DOMAIN b.nodes = 1..Len(d.nodes) /\ DOMAIN b.edges = 1..Len(d.edges)
      /\ b.nodes = <<>> => d.nodes = <<>>
      /\ \A i \in 1..Len(d.nodes) :
           /\ b.nodes[i].form = "object" /\ b.nodes[i].config = "object"
           /\ Document!LoadedNode(b.nodes[i]) = d.nodes[i]
      /\ \A i \in 1..Len(d.edges) :
           b.edges[i].form = "object" /\ Document!ParseEdge(b.edges[i]) = d.edges[i]
  BY ReadBack
<1>2. Document!Graph(b) = [nodes |-> d.nodes, edges |-> Document!Edges(d)]
  BY SavedIsShown
<1> HIDE DEF b
<1>3. /\ DOMAIN d.nodes = 1..Len(d.nodes) /\ DOMAIN d.edges = 1..Len(d.edges)
      /\ Len(d.nodes) \in Nat /\ Len(d.edges) \in Nat
  BY DEF IsDocument
<1>4. d.nodes # <<>> /\ ~Document!CycleDetected(d)
  BY NothingFound
<1>5. Document!LoadsNodes(b)
  <2>1. ASSUME NEW i \in DOMAIN b.nodes
        PROVE  /\ b.nodes[i].form = "object" /\ b.nodes[i].config \in {"absent", "object"}
               /\ Document!LoadedNode(b.nodes[i]).id # Document!Blank
               /\ Document!LoadedNode(b.nodes[i]).type # Document!Blank
               /\ \A j \in 1..(i - 1) :
                    Document!LoadedNode(b.nodes[j]).id # Document!LoadedNode(b.nodes[i]).id
    <3>1. /\ i \in 1..Len(d.nodes)
          /\ \A j \in 1..(i - 1) : Document!LoadedNode(b.nodes[j]) = d.nodes[j]
      BY <1>1, <1>3
    <3>2. /\ d.nodes[i].id # Document!Blank /\ d.nodes[i].type # Document!Blank
          /\ \A j \in 1..(i - 1) : d.nodes[j].id # d.nodes[i].id
      BY <3>1 DEF IsDocument
    <3> QED BY <1>1, <3>1, <3>2
  <2> QED BY <1>1, <1>4, <2>1 DEF Document!LoadsNodes
<1>6. Document!LoadsEdges(b)
  <2> DEFINE ids == {Document!LoadedNode(b.nodes[k]).id : k \in DOMAIN b.nodes}
  <2>1. ids = Document!IdsOf(d)
    BY <1>1, <1>3 DEF Document!IdsOf
  <2>2. ASSUME NEW i \in DOMAIN b.edges
        PROVE  LET e == Document!ParseEdge(b.edges[i])
               IN /\ b.edges[i].form = "object"
                  /\ {e.from, e.to} \subseteq ids /\ e.from # e.to
                  /\ \A j \in 1..(i - 1) : Document!ParseEdge(b.edges[j]) # e
    <3>1. /\ i \in 1..Len(d.edges) /\ i \in DOMAIN d.edges
          /\ \A j \in 1..(i - 1) : Document!ParseEdge(b.edges[j]) = d.edges[j]
      BY <1>1, <1>3
    <3>2. /\ {d.edges[i].from, d.edges[i].to} \subseteq Document!IdsOf(d)
          /\ d.edges[i].from # d.edges[i].to
          /\ \A j \in 1..(i - 1) : d.edges[j] # d.edges[i]
      BY <3>1, EdgesAreFound
    <3> HIDE DEF ids
    <3> QED BY <1>1, <2>1, <3>1, <3>2
  <2> QED BY <2>2 DEF Document!LoadsEdges
<1>7. ~Document!HasCycle(Document!Graph(b))
  <2> SUFFICES ASSUME Document!HasCycle(Document!Graph(b)) PROVE FALSE
    OBVIOUS
  <2>1. {Document!Graph(b).nodes[i].id : i \in DOMAIN Document!Graph(b).nodes} = Document!IdsOf(d)
    BY <1>2 DEF Document!IdsOf
  <2>2. PICK S \in SUBSET Document!IdsOf(d) \ {{}} :
          \A n \in S : \E e \in Document!Edges(d) : e.to = n /\ e.from \in S
    BY <1>2, <2>1 DEF Document!HasCycle
  <2>3. \A e \in Document!Edges(d) : e.from # e.to
    BY EdgesAreFound DEF Document!Edges
  <2>4. \A n \in S : \E e \in Document!Edges(d) : e.to = n /\ e.from \in S \ {n}
    BY <2>2, <2>3
  <2> QED BY <1>4, <2>4 DEF Document!CycleDetected
<1>8. Document!LoadsInRuntime(b)
  BY <1>1, <1>5, <1>6, <1>7 DEF Document!LoadsInRuntime
<1> QED BY <1>8 DEF b

\* How far the one body has come that this instance is given.
DocumentInv ==
  /\ stage \in {"idle", "parsed", "saved", "refused", "runs"}
  /\ stage \in {"parsed", "saved", "runs"} =>
       /\ body \in Body /\ Document!ParsesAsDocument(body)
       /\ document = Document!FromJsonObject(body)
  /\ stage \in {"saved", "runs"} => ~Document!HasErrors(Document!Validate(document))

LEMMA InProgressIsDocument ==
  ASSUME DocumentInv, stage \in {"parsed", "saved", "runs"}
  PROVE  IsBody(body) /\ IsDocument(document)
BY ParsedIsDocument, DocumentAssumption DEF DocumentInv

LEMMA DocumentKeeps == DocumentInv /\ [Document!Next]_documentVars => DocumentInv'
<1> SUFFICES ASSUME DocumentInv, [Document!Next]_documentVars PROVE DocumentInv'
  OBVIOUS
<1>1. ASSUME NEW b \in Body, Document!Receive(b) PROVE DocumentInv'
  <2>1. CASE Document!ParsesAsDocument(b)
    BY <1>1, <2>1 DEF DocumentInv, Document!Receive
  <2>2. CASE ~Document!ParsesAsDocument(b)
    BY <1>1, <2>2 DEF DocumentInv, Document!Receive
  <2> QED BY <2>1, <2>2
<1>2. ASSUME Document!Save PROVE DocumentInv'
  <2>1. /\ stage = "parsed" /\ body' = body /\ document' = document
        /\ issues' = Document!Validate(document)
        /\ stage' = IF Document!HasErrors(issues') THEN "refused" ELSE "saved"
    BY <1>2 DEF Document!Save
  <2> QED BY <2>1 DEF DocumentInv
<1>3. ASSUME Document!Reload PROVE DocumentInv'
  <2>1. /\ stage = "saved" /\ body' = body /\ document' = document
        /\ stage' = IF Document!LoadsInRuntime(Document!ToJsonObject(document))
                    THEN "runs" ELSE "failed"
    BY <1>3 DEF Document!Reload
  <2>2. Document!LoadsInRuntime(Document!ToJsonObject(document))
    BY <2>1, InProgressIsDocument, SavedLoads DEF DocumentInv
  <2> QED BY <2>1, <2>2 DEF DocumentInv
<1>4. CASE UNCHANGED documentVars
  BY <1>4 DEF DocumentInv, documentVars
<1> QED BY <1>1, <1>2, <1>3, <1>4 DEF Document!Next

\* What the editor saves the runtime loads, as it is shown, and saving a file that the runtime
\* loads changes nothing for it (DagDocument, AgentDagValidator, AgentDagGraph).
THEOREM SavedGraphsLoad == ServicesSpec => []SavedGraphLoads
<1>1. ServicesInit => DocumentInv
  BY DEF ServicesInit, Document!Init, DocumentInv
<1>2. DocumentInv /\ [ServicesNext]_servicesVars => DocumentInv'
  BY EachPartMovesAlone, DocumentKeeps
<1>3. DocumentInv => SavedGraphLoads
  <2> SUFFICES ASSUME DocumentInv PROVE Document!SavedGraphLoads
    BY DEF SavedGraphLoads
  <2>1. stage # "failed"
    BY DEF DocumentInv
  <2>2. ASSUME stage = "runs"
        PROVE  Document!Graph(Document!ToJsonObject(document)) =
                 [nodes |-> document.nodes, edges |-> Document!Edges(document)]
    BY <2>2, InProgressIsDocument, SavedIsShown
  <2>3. ASSUME stage = "parsed"
        PROVE  Document!Graph(Document!ToJsonObject(document)) = Document!Graph(body)
    <3>1. /\ IsBody(body) /\ IsDocument(document) /\ Document!ParsesAsDocument(body)
          /\ document = Document!FromJsonObject(body)
      BY <2>3, InProgressIsDocument DEF DocumentInv
    <3> QED BY <3>1, SavedIsShown, BothReadTheSame
  <2> QED BY <2>1, <2>2, <2>3 DEF Document!SavedGraphLoads
<1> QED BY <1>1, <1>2, <1>3, PTL DEF ServicesSpec

-----------------------------------------------------------------------------
(* What the handlers read of a config that was accepted *)

\* A value of an input that the panel wrote and the validator let pass.
Fits(in, v) ==
  /\ v \in ValueType /\ Document!PanelWrites(in, v)
  /\ ~Document!OutOfRange(in, v) /\ ~Document!NoSuchChoice(in, v)
AllFit(n, inputs) ==
  \A k \in DOMAIN inputs \cap DOMAIN n.config :
    Fits(inputs[k], n.config[k]) /\ Document!HasRoom(n.type.word, inputs[k], n.config[k])

Widgets == {"int", "float", "bool", "enum", "string_list", "text"}

LEMMA NullIsNotWritten ==
  ASSUME NEW in, in.widget \in Widgets, Document!PanelWrites(in, Document!Null)
  PROVE  FALSE
<1>1. Document!Null.kind = "null"
  BY DEF Document!Null
<1> QED BY <1>1 DEF Document!PanelWrites, Widgets

LEMMA WholeFits ==
  ASSUME NEW min \in Nat, NEW max \in Nat, max <= 600000,
         NEW v, Fits(Document!Whole(min, max), v), NEW default
  PROVE  /\ v.kind = "number" /\ v.number \in Int /\ v.number % 2 = 0
         /\ 2 * min <= v.number /\ v.number <= 2 * max
         /\ Document!ToInt(v, default) = v.number
<1> DEFINE in == Document!Whole(min, max)
<1>1. in.widget = "int" /\ in.min = 2 * min /\ in.max = 2 * max /\ in.hasMax
  BY DEF Document!Whole, Document!Input
<1> HIDE DEF in
<1>2. v.kind = "number" /\ v.number % 2 = 0
  BY <1>1 DEF Fits, Document!PanelWrites, in
<1>3. v.number \in Int /\ ~(v.number < in.min) /\ ~(v.number > in.max)
  BY <1>1, <1>2 DEF Fits, Document!OutOfRange, ValueType, in
<1>4. Document!IsWhole(v, MaxInt)
  BY <1>1, <1>2, <1>3, DocumentAssumption DEF Document!IsWhole
<1> QED BY <1>1, <1>2, <1>3, <1>4 DEF Document!ToInt

\* A number without a maximum, which the handler has room for.
LEMMA AtLeastFits ==
  ASSUME NEW min \in Nat, NEW type, NEW v, Fits(Document!AtLeast(min), v),
         Document!HasRoom(type, Document!AtLeast(min), v)
  PROVE  /\ v.kind = "number" /\ v.number \in Int /\ v.number % 2 = 0 /\ 2 * min <= v.number
         /\ IF type = "vision.llm" THEN Document!IsWhole(v, MaxInt)
                                   ELSE Document!IsWhole(v, MaxInteger)
<1> DEFINE in == Document!AtLeast(min)
<1>1. in.widget = "int" /\ in.min = 2 * min /\ in.hasMax = FALSE
  BY DEF Document!AtLeast, Document!Whole, Document!Input
<1> HIDE DEF in
<1>2. v.kind = "number" /\ v.number % 2 = 0
  BY <1>1 DEF Fits, Document!PanelWrites, in
<1>3. v.number \in Int /\ ~(v.number < in.min)
  BY <1>1, <1>2 DEF Fits, Document!OutOfRange, ValueType, in
<1>4. v.number <= 2 * (IF type = "vision.llm" THEN MaxInt ELSE MaxInteger)
  BY <1>1 DEF Document!HasRoom, in
<1> QED BY <1>1, <1>2, <1>3, <1>4, DocumentAssumption DEF Document!IsWhole

LEMMA FractionFits ==
  ASSUME NEW min \in Int, NEW max \in Int, NEW v, Fits(Document!Fraction(min, max), v)
  PROVE  v.kind = "number" /\ v.number \in Int /\ v.number >= 2 * min /\ v.number <= 2 * max
<1> DEFINE in == Document!Fraction(min, max)
<1>1. in.widget = "float" /\ in.min = 2 * min /\ in.max = 2 * max /\ in.hasMax
  BY DEF Document!Fraction, Document!Input
<1> HIDE DEF in
<1>2. v.kind = "number"
  BY <1>1 DEF Fits, Document!PanelWrites, in
<1>3. v.number \in Int /\ ~(v.number < in.min) /\ ~(v.number > in.max)
  BY <1>1, <1>2 DEF Fits, Document!OutOfRange, ValueType, in
<1> QED BY <1>1, <1>2, <1>3

LEMMA EnumFits ==
  ASSUME NEW values, NEW v, Fits(Document!Enum(values), v)
  PROVE  /\ v.kind = "string" /\ v.text.word \in values
         /\ v.text = Document!Text(v.text.word) /\ Document!StringOf(v) = v.text
<1> DEFINE in == Document!Enum(values)
<1>1. in.widget = "enum" /\ in.values = values
  BY DEF Document!Enum, Document!Input
<1> HIDE DEF in
<1>2. v.kind = "string" /\ v.text = Document!Text(v.text.word)
  BY <1>1 DEF Fits, Document!PanelWrites, in
<1>3. Document!StringOf(v) = v.text
  BY <1>2 DEF Document!StringOf
<1> QED BY <1>1, <1>2, <1>3 DEF Fits, Document!NoSuchChoice, in

LEMMA OthersFit ==
  ASSUME NEW v
  PROVE  /\ Fits(Document!Flag, v) => v.kind = "bool"
         /\ Fits(Document!Names, v) => v.kind = "array"
<1>1. Document!Flag.widget = "bool" /\ Document!Names.widget = "string_list"
  BY DEF Document!Flag, Document!Names, Document!Input
<1> QED BY <1>1 DEF Fits, Document!PanelWrites

LEMMA InputWidgets ==
  /\ \A min : Document!AtLeast(min).widget \in Widgets
  /\ \A min, max : /\ Document!Whole(min, max).widget \in Widgets
                   /\ Document!Fraction(min, max).widget \in Widgets
  /\ \A values : Document!Enum(values).widget \in Widgets
  /\ Document!AsyncTimeout.widget \in Widgets
  /\ {Document!Flag.widget, Document!Names.widget, Document!Words.widget} \subseteq Widgets
BY DEF Document!Whole, Document!Fraction, Document!Enum, Document!Flag, Document!Names,
       Document!Words, Document!AsyncTimeout, Document!AtLeast, Document!Input, Widgets

AllKnown(inputs) == \A k \in DOMAIN inputs : inputs[k].widget \in Widgets

LEMMA WidgetsAreKnown == \A type : AllKnown(Document!InputsOf(type))
<1>1. AllKnown(Document!SourceInputs)
  BY InputWidgets DEF AllKnown, Document!SourceInputs
<1>2. AllKnown(Document!VisionLlmInputs)
  BY InputWidgets DEF AllKnown, Document!VisionLlmInputs
<1>3. AllKnown(Document!ProactiveTopicInputs)
  BY InputWidgets DEF AllKnown, Document!ProactiveTopicInputs
<1>4. AllKnown(Document!WebResearchInputs)
  BY InputWidgets DEF AllKnown, Document!WebResearchInputs
<1>5. AllKnown(Document!ToolLoopInputs)
  BY InputWidgets DEF AllKnown, Document!ToolLoopInputs
<1>6. AllKnown(Document!LlmChatInputs)
  BY InputWidgets DEF AllKnown, Document!LlmChatInputs
<1>7. AllKnown(Document!NoInputs)
  BY DEF AllKnown, Document!NoInputs
<1> QED BY <1>1, <1>2, <1>3, <1>4, <1>5, <1>6, <1>7 DEF Document!InputsOf

\* The property of a node of an accepted document, as the handlers use it.
Written(n) ==
  \A k \in DOMAIN Document!Catalog[n.type.word] \cap DOMAIN n.config :
    /\ Document!PanelWrites(Document!Catalog[n.type.word][k], n.config[k])
    /\ Document!HasRoom(n.type.word, Document!Catalog[n.type.word][k], n.config[k])

LEMMA AcceptedNodes ==
  ASSUME NEW d, ~Document!HasErrors(Document!Validate(d)), IsDocument(d),
         NEW i \in 1..Len(d.nodes), Written(d.nodes[i])
  PROVE  LET n == d.nodes[i] IN
         /\ n.type.word \in Document!NodeTypes /\ ~Document!UnknownTool(n)
         /\ AllFit(n, Document!InputsOf(n.type.word))
<1> DEFINE n == d.nodes[i]
<1>1. Document!NodeIssues(n) \subseteq Document!Validate(d)
  BY NothingFound DEF IsDocument
<1>2. \A k \in DOMAIN n.config : n.config[k] \in ValueType
  BY DEF IsDocument
<1> HIDE DEF n
<1>3. Document!IsKnown(n.type)
  <2> SUFFICES ASSUME ~Document!IsKnown(n.type) PROVE FALSE
    OBVIOUS
  <2> DEFINE x == Document!Issue("error", n.id, "unknown_type")
  <2>1. x \in Document!Validate(d)
    BY <1>1 DEF Document!NodeIssues
  <2>2. x.severity = "error"
    BY DEF Document!Issue
  <2> QED BY <2>1, <2>2 DEF Document!HasErrors
<1>4. n.type.word \in Document!NodeTypes
  BY <1>3 DEF Document!IsKnown, Document!Catalog
<1>5. /\ Document!ErrorIf(Document!UnknownTool(n), n.id, "unknown_tool")
           \subseteq Document!Validate(d)
      /\ Document!ValidateNodeConfig(n) \subseteq Document!Validate(d)
  BY <1>1, <1>3 DEF Document!NodeIssues
<1>6. ~Document!UnknownTool(n)
  BY <1>5, ErrorIsFound
<1> DEFINE inputs == Document!InputsOf(n.type.word)
<1>7. Document!Catalog[n.type.word] = inputs
  BY <1>4 DEF Document!Catalog
<1>8. AllKnown(inputs)
  BY WidgetsAreKnown
<1> HIDE DEF inputs
<1>9. ASSUME NEW k \in DOMAIN inputs \cap DOMAIN n.config
      PROVE  Fits(inputs[k], n.config[k]) /\ Document!HasRoom(n.type.word, inputs[k], n.config[k])
  <2>1. /\ Document!PanelWrites(inputs[k], n.config[k])
        /\ Document!HasRoom(n.type.word, inputs[k], n.config[k])
    BY <1>7 DEF Written, n
  <2>2. n.config[k] # Document!Null
    BY <1>8, <2>1, NullIsNotWritten DEF AllKnown
  <2>3. Document!ValueIssues(n, k) \subseteq Document!Validate(d)
    <3>1. Document!ValueIssues(n, k) \subseteq Document!ValidateNodeConfig(n)
      BY <1>7, <2>2 DEF Document!ValidateNodeConfig
    <3> QED BY <1>5, <3>1
  <2>4. /\ Document!ErrorIf(Document!OutOfRange(inputs[k], n.config[k]), n.id,
                            "value_out_of_range") \subseteq Document!Validate(d)
        /\ Document!ErrorIf(Document!NoSuchChoice(inputs[k], n.config[k]), n.id,
                            "invalid_enum_value") \subseteq Document!Validate(d)
    BY <1>7, <2>3 DEF Document!ValueIssues
  <2>5. ~Document!OutOfRange(inputs[k], n.config[k])
    BY <2>4, ErrorIsFound
  <2>6. ~Document!NoSuchChoice(inputs[k], n.config[k])
    BY <2>4, ErrorIsFound
  <2> QED BY <1>2, <2>1, <2>5, <2>6 DEF Fits
<1>10. AllFit(n, inputs)
  BY <1>9 DEF AllFit
<1> QED BY <1>4, <1>6, <1>10 DEF n, inputs

LEMMA WholeIsWithin ==
  ASSUME NEW min \in Nat, NEW max \in Nat, NEW low \in Int, NEW high \in Int,
         low <= min, max <= high, max <= 600000, NEW v, Fits(Document!Whole(min, max), v), NEW default
  PROVE  Document!Within(v, default, low, high)
BY WholeFits DEF Document!Within

LEMMA EnumIsChosen ==
  ASSUME NEW values, NEW v, Fits(Document!Enum(values), v)
  PROVE  Document!Chosen(v, values)
BY EnumFits DEF Document!Chosen

LEMMA AsyncTimeoutIsRead ==
  ASSUME NEW n, "async_timeout_ms" \in DOMAIN n.config =>
                  Fits(Document!AsyncTimeout, n.config["async_timeout_ms"])
  PROVE  Document!ReadsAsyncTimeout(n)
<1> DEFINE v == n.config["async_timeout_ms"]
<1>1. ASSUME "async_timeout_ms" \in DOMAIN n.config
      PROVE  2 <= Document!ToInt(v, 240000) /\ Document!ToInt(v, 240000) <= 1200000
  <2>1. Fits(Document!Whole(1, 600000), v)
    BY <1>1 DEF Document!AsyncTimeout
  <2> HIDE DEF v
  <2>2. /\ v.number \in Int /\ 2 * 1 <= v.number /\ v.number <= 2 * 600000
        /\ Document!ToInt(v, 240000) = v.number
    BY <2>1, WholeFits
  <2> QED BY <2>2
<1> QED BY <1>1 DEF Document!ReadsAsyncTimeout, Document!AsyncTimeoutUpTo, Document!Given

LEMMA TextIsTrimmed ==
  ASSUME NEW w
  PROVE  Document!Trimmed(Document!Text(w)) = Document!Text(w)
<1> DEFINE t == Document!Text(w)
<1>1. t \in [word : {w}, padded : {FALSE}, upper : {FALSE}]
  BY DEF Document!Text
<1> HIDE DEF t
<1>2. Document!Trimmed(t) = t
  BY <1>1 DEF Document!Trimmed
<1> QED BY <1>2 DEF t

LEMMA ToolLoopIsRead ==
  ASSUME NEW n, n.type.word = "tool.loop", AllFit(n, Document!InputsOf(n.type.word)),
         ~Document!UnknownTool(n)
  PROVE  Document!ReadsToolLoop(n) /\ Document!ReadsAsyncTimeout(n)
<1> DEFINE c == n.config
<1>1. Document!InputsOf("tool.loop") = Document!ToolLoopInputs
  BY DEF Document!InputsOf, Document!Sources
<1>2. /\ "max_rounds" \in DOMAIN c => Fits(Document!Whole(1, 16), c["max_rounds"])
      /\ "time_budget_ms" \in DOMAIN c => Fits(Document!Whole(0, 600000), c["time_budget_ms"])
      /\ "max_tool_calls" \in DOMAIN c => Fits(Document!Whole(1, 64), c["max_tool_calls"])
      /\ "tool_timeout_ms" \in DOMAIN c =>
           Fits(Document!Whole(100, 120000), c["tool_timeout_ms"])
  BY <1>1 DEF AllFit, Document!ToolLoopInputs
<1>3. /\ "tools" \in DOMAIN c => Fits(Document!Names, c["tools"])
      /\ "async_timeout_ms" \in DOMAIN c =>
           Fits(Document!AsyncTimeout, c["async_timeout_ms"])
  BY <1>1 DEF AllFit, Document!ToolLoopInputs
<1>4. /\ "permission" \in DOMAIN c =>
           Fits(Document!Enum({"auto_readonly", "allow_all", "ask"}), c["permission"])
      /\ "on_budget_exhausted" \in DOMAIN c =>
           Fits(Document!Enum({"answer_with_context", "end"}), c["on_budget_exhausted"])
      /\ "fallback" \in DOMAIN c =>
           Fits(Document!Enum({"plain_chat", "fail"}), c["fallback"])
  BY <1>1 DEF AllFit, Document!ToolLoopInputs
<1>5. "tools" \in DOMAIN c =>
        \A t \in c["tools"].items :
          Document!Trimmed(t) \in {Document!Text(w) : w \in Document!BuiltinTools}
  <2> SUFFICES ASSUME "tools" \in DOMAIN c, NEW t \in c["tools"].items
               PROVE  Document!Trimmed(t) \in {Document!Text(w) : w \in Document!BuiltinTools}
    OBVIOUS
  <2>1. t \in {Document!Text(w) : w \in Document!BuiltinTools}
    BY DEF Document!UnknownTool, Document!Setting
  <2>2. \A w : Document!Trimmed(Document!Text(w)) = Document!Text(w)
    BY TextIsTrimmed
  <2> QED BY <2>1, <2>2
<1> HIDE DEF c
<1>6. ASSUME NEW k \in {"max_rounds", "time_budget_ms", "max_tool_calls", "tool_timeout_ms"},
             k \in DOMAIN c
      PROVE  /\ Document!Within(c[k], -2, 0, 600000)
             /\ k = "max_rounds" => Document!Within(c[k], 0, 1, 16)
             /\ k = "max_tool_calls" => Document!Within(c[k], 0, 1, 64)
             /\ k = "tool_timeout_ms" => Document!Within(c[k], 0, 100, 120000)
  <2>1. CASE k = "max_rounds"
    <3>1. Fits(Document!Whole(1, 16), c[k])
      BY <1>2, <1>6, <2>1
    <3>2. Document!Within(c[k], -2, 0, 600000) /\ Document!Within(c[k], 0, 1, 16)
      BY <3>1, WholeIsWithin
    <3> QED BY <2>1, <3>2
  <2>2. CASE k = "time_budget_ms"
    BY <1>2, <1>6, <2>2, WholeIsWithin
  <2>3. CASE k = "max_tool_calls"
    <3>1. Fits(Document!Whole(1, 64), c[k])
      BY <1>2, <1>6, <2>3
    <3>2. Document!Within(c[k], -2, 0, 600000) /\ Document!Within(c[k], 0, 1, 64)
      BY <3>1, WholeIsWithin
    <3> QED BY <2>3, <3>2
  <2>4. CASE k = "tool_timeout_ms"
    <3>1. Fits(Document!Whole(100, 120000), c[k])
      BY <1>2, <1>6, <2>4
    <3>2. Document!Within(c[k], -2, 0, 600000) /\ Document!Within(c[k], 0, 100, 120000)
      BY <3>1, WholeIsWithin
    <3> QED BY <2>4, <3>2
  <2> QED BY <1>6, <2>1, <2>2, <2>3, <2>4
<1>7. "tools" \in DOMAIN c => c["tools"].kind = "array"
  BY <1>3, OthersFit
<1>8. /\ "permission" \in DOMAIN c =>
           Document!Chosen(c["permission"], {"auto_readonly", "allow_all", "ask"})
      /\ "on_budget_exhausted" \in DOMAIN c =>
           Document!Chosen(c["on_budget_exhausted"], {"answer_with_context", "end"})
      /\ "fallback" \in DOMAIN c => Document!Chosen(c["fallback"], {"plain_chat", "fail"})
  BY <1>4, EnumIsChosen
<1>9. Document!ReadsToolLoop(n)
  BY <1>5, <1>6, <1>7, <1>8 DEF Document!ReadsToolLoop, Document!Given, c
<1>10. Document!ReadsAsyncTimeout(n)
  BY <1>3, AsyncTimeoutIsRead DEF c
<1> QED BY <1>9, <1>10

Between(n, key, min, max) ==
  Document!Given(n, {key}) # {} =>
    /\ n.config[key].kind = "number"
    /\ n.config[key].number >= 2 * min /\ n.config[key].number <= 2 * max

LEMMA LlmChatIsRead ==
  ASSUME NEW n, n.type.word = "llm.chat", AllFit(n, Document!InputsOf(n.type.word))
  PROVE  Document!ReadsLlmChat(n) /\ Document!ReadsAsyncTimeout(n)
<1> DEFINE c == n.config
<1>1. Document!InputsOf("llm.chat") = Document!LlmChatInputs
  BY DEF Document!InputsOf, Document!Sources
<1>2. /\ "temperature" \in DOMAIN c => Fits(Document!Fraction(0, 2), c["temperature"])
      /\ "top_p" \in DOMAIN c => Fits(Document!Fraction(0, 1), c["top_p"])
      /\ "frequency_penalty" \in DOMAIN c =>
           Fits(Document!Fraction(-2, 2), c["frequency_penalty"])
      /\ "presence_penalty" \in DOMAIN c =>
           Fits(Document!Fraction(-2, 2), c["presence_penalty"])
  BY <1>1 DEF AllFit, Document!LlmChatInputs
<1>3. /\ "max_tokens" \in DOMAIN c => Fits(Document!Whole(1, 32768), c["max_tokens"])
      /\ "stream" \in DOMAIN c => Fits(Document!Flag, c["stream"])
      /\ "async_timeout_ms" \in DOMAIN c =>
           Fits(Document!AsyncTimeout, c["async_timeout_ms"])
  BY <1>1 DEF AllFit, Document!LlmChatInputs
<1> HIDE DEF c
<1>4. ASSUME NEW key, NEW min \in Int, NEW max \in Int,
             key \in DOMAIN c => Fits(Document!Fraction(min, max), c[key])
      PROVE  Between(n, key, min, max)
  <2>1. Document!Given(n, {key}) # {} => key \in DOMAIN c
    BY DEF Document!Given, c
  <2> QED BY <1>4, <2>1, FractionFits DEF Between, c
<1>5. Between(n, "temperature", 0, 2) /\ Between(n, "top_p", 0, 1)
  BY <1>2, <1>4
<1>6. Between(n, "frequency_penalty", -2, 2) /\ Between(n, "presence_penalty", -2, 2)
  BY <1>2, <1>4
<1>7. Document!Given(n, {"stream"}) # {} => c["stream"].kind = "bool"
  <2>1. Document!Given(n, {"stream"}) # {} => "stream" \in DOMAIN c
    BY DEF Document!Given, c
  <2> QED BY <1>3, <2>1, OthersFit
<1>8. Document!Given(n, {"max_tokens"}) # {} => Document!Within(c["max_tokens"], 0, 1, 32768)
  <2>1. Document!Given(n, {"max_tokens"}) # {} => "max_tokens" \in DOMAIN c
    BY DEF Document!Given, c
  <2> QED BY <1>3, <2>1, WholeIsWithin
<1>9. Document!ReadsLlmChat(n)
  BY <1>5, <1>6, <1>7, <1>8 DEF Document!ReadsLlmChat, Between, c
<1>10. Document!ReadsAsyncTimeout(n)
  BY <1>3, AsyncTimeoutIsRead DEF c
<1> QED BY <1>9, <1>10

LEMMA VisionLlmIsRead ==
  ASSUME NEW n, n.type.word = "vision.llm", AllFit(n, Document!InputsOf(n.type.word))
  PROVE  Document!ReadsVisionLlm(n) /\ Document!ReadsAsyncTimeout(n)
<1> DEFINE c == n.config
<1>1. Document!InputsOf("vision.llm") = Document!VisionLlmInputs
  BY DEF Document!InputsOf, Document!Sources
<1>2. /\ "detail" \in DOMAIN c => Fits(Document!Enum({"auto", "low", "high"}), c["detail"])
      /\ "max_tokens" \in DOMAIN c =>
           /\ Fits(Document!AtLeast(1), c["max_tokens"])
           /\ Document!HasRoom("vision.llm", Document!AtLeast(1), c["max_tokens"])
      /\ "async_timeout_ms" \in DOMAIN c =>
           Fits(Document!AsyncTimeout, c["async_timeout_ms"])
  BY <1>1 DEF AllFit, Document!VisionLlmInputs
<1> HIDE DEF c
<1>3. "detail" \in DOMAIN c =>
        Document!StringOf(c["detail"]).word \in {"auto", "low", "high"}
  BY <1>2, EnumFits
<1>4. ASSUME "max_tokens" \in DOMAIN c
      PROVE  Document!Within(c["max_tokens"], 0, 1, MaxInt)
  <2> DEFINE v == c["max_tokens"]
  <2>1. Fits(Document!AtLeast(1), v) /\ Document!HasRoom("vision.llm", Document!AtLeast(1), v)
    BY <1>2, <1>4
  <2> HIDE DEF v
  <2>2. v.kind = "number" /\ v.number \in Int /\ 2 * 1 <= v.number /\ Document!IsWhole(v, MaxInt)
    BY <2>1, AtLeastFits
  <2>3. Document!ToInt(v, 0) = v.number /\ v.number <= 2 * MaxInt
    BY <2>2 DEF Document!ToInt, Document!IsWhole
  <2>4. Document!Within(v, 0, 1, MaxInt)
    BY <2>2, <2>3, DocumentAssumption DEF Document!Within
  <2> QED BY <2>4 DEF v
<1>5. Document!ReadsVisionLlm(n)
  BY <1>3, <1>4 DEF Document!ReadsVisionLlm, Document!Given, c
<1>6. Document!ReadsAsyncTimeout(n)
  BY <1>2, AsyncTimeoutIsRead DEF c
<1> QED BY <1>5, <1>6

LEMMA BoundedIsKept ==
  ASSUME NEW max \in Nat, 1 <= max, max <= 15000, NEW v, Fits(Document!Whole(1, max), v)
  PROVE  Document!ReadBoundedInteger(v, max) = v.number
<1>1. /\ v.number \in Int /\ 2 * 1 <= v.number /\ v.number <= 2 * max
      /\ Document!ToInt(v, 2 * max) = v.number
  BY WholeFits
<1> QED BY <1>1 DEF Document!ReadBoundedInteger

LEMMA WebResearchIsRead ==
  ASSUME NEW n, n.type.word = "web.research", AllFit(n, Document!InputsOf(n.type.word))
  PROVE  Document!ReadsWebResearch(n) /\ Document!ReadsAsyncTimeout(n)
<1> DEFINE c == n.config
           limit == Document!ResearchLimit
<1>1. Document!InputsOf("web.research") = Document!WebResearchInputs
  BY DEF Document!InputsOf, Document!Sources
<1>2. ASSUME NEW k \in DOMAIN limit, k \in DOMAIN c
      PROVE  /\ limit[k] \in Nat /\ 1 <= limit[k] /\ limit[k] <= 15000
             /\ Fits(Document!Whole(1, limit[k]), c[k])
  BY <1>1, <1>2 DEF AllFit, Document!WebResearchInputs, Document!ResearchLimit
<1>3. "async_timeout_ms" \in DOMAIN c => Fits(Document!AsyncTimeout, c["async_timeout_ms"])
  BY <1>1 DEF AllFit, Document!WebResearchInputs
<1> HIDE DEF c, limit
<1>4. ASSUME NEW k \in DOMAIN limit, k \in DOMAIN c
      PROVE  Document!ReadBoundedInteger(c[k], limit[k]) = c[k].number
  <2> DEFINE max == limit[k]
             v == c[k]
  <2>1. max \in Nat /\ 1 <= max /\ max <= 15000 /\ Fits(Document!Whole(1, max), v)
    BY <1>2, <1>4
  <2> HIDE DEF max, v
  <2>2. Document!ReadBoundedInteger(v, max) = v.number
    BY <2>1, BoundedIsKept
  <2> QED BY <2>2 DEF max, v
<1>5. Document!ReadsWebResearch(n)
  BY <1>4 DEF Document!ReadsWebResearch, Document!Given, c, limit
<1>6. Document!ReadsAsyncTimeout(n)
  BY <1>3, AsyncTimeoutIsRead DEF c
<1> QED BY <1>5, <1>6

LEMMA ProactiveTopicIsRead ==
  ASSUME NEW n, n.type.word = "proactive.topic", AllFit(n, Document!InputsOf(n.type.word))
  PROVE  Document!ReadsProactiveTopic(n)
<1> DEFINE c == n.config
<1>1. Document!InputsOf("proactive.topic") = Document!ProactiveTopicInputs
  BY DEF Document!InputsOf, Document!Sources
<1>2. ASSUME NEW k \in {"min_interval_ms", "dedup_window_ms"}, k \in DOMAIN c
      PROVE  /\ Fits(Document!AtLeast(0), c[k])
             /\ Document!HasRoom("proactive.topic", Document!AtLeast(0), c[k])
  BY <1>1, <1>2 DEF AllFit, Document!ProactiveTopicInputs
<1> HIDE DEF c
<1>3. ASSUME NEW k \in {"min_interval_ms", "dedup_window_ms"}, k \in DOMAIN c, NEW default
      PROVE  Document!ReadInterval(c[k], default) = c[k].number
  <2>1. /\ c[k].number \in Int /\ 2 * 0 <= c[k].number
        /\ Document!IsWhole(c[k], MaxInteger)
    BY <1>2, <1>3, AtLeastFits
  <2> QED BY <2>1 DEF Document!ReadInterval, Document!ToInteger
<1> QED BY <1>3 DEF Document!ReadsProactiveTopic, Document!IntervalDefault, Document!Given, c

LEMMA TriggerIsRead ==
  ASSUME NEW n, n.type.word \in Document!Sources, AllFit(n, Document!InputsOf(n.type.word))
  PROVE  Document!ReadsTrigger(n)
<1> DEFINE v == n.config["trigger"]
<1>1. Document!InputsOf(n.type.word) = Document!SourceInputs
  BY DEF Document!InputsOf, Document!Sources
<1>2. "trigger" \in DOMAIN n.config => Fits(Document!Enum({"user", "vision"}), v)
  BY <1>1 DEF AllFit, Document!SourceInputs
<1> HIDE DEF v
<1>3. ASSUME "trigger" \in DOMAIN n.config
      PROVE  Document!Trimmed(Document!StringOf(v)) \in
               {Document!Text("user"), Document!Text("vision")}
  <2>1. /\ v.text.word \in {"user", "vision"} /\ Document!StringOf(v) = v.text
        /\ v.text = Document!Text(v.text.word)
    BY <1>2, <1>3, EnumFits
  <2>2. Document!Trimmed(Document!Text(v.text.word)) = Document!Text(v.text.word)
    BY TextIsTrimmed
  <2> QED BY <2>1, <2>2
<1> QED BY <1>3 DEF Document!ReadsTrigger, Document!Given, v

\* No handler refuses or changes a value that the property panel wrote and the validator let
\* pass, but a number without a maximum that is beyond the integer it is read into
\* (AgentNodeCatalog, AgentDagValidator, ToolLoopNode::ParseConfig and its like).
THEOREM AcceptedConfigsAreRead == ServicesSpec => []AcceptedConfigIsRead
<1>1. ServicesInit => DocumentInv
  BY DEF ServicesInit, Document!Init, DocumentInv
<1>2. DocumentInv /\ [ServicesNext]_servicesVars => DocumentInv'
  BY EachPartMovesAlone, DocumentKeeps
<1>3. DocumentInv => AcceptedConfigIsRead
  <2> SUFFICES ASSUME DocumentInv, stage = "runs", NEW i \in DOMAIN document.nodes,
                      Written(document.nodes[i])
               PROVE  Document!Reads(document.nodes[i])
    BY DEF AcceptedConfigIsRead, Document!AcceptedConfigIsRead, Written
  <2> DEFINE n == document.nodes[i]
  <2>1. IsDocument(document) /\ ~Document!HasErrors(Document!Validate(document))
    BY InProgressIsDocument DEF DocumentInv
  <2>2. i \in 1..Len(document.nodes)
    BY <2>1 DEF IsDocument
  <2>3. ~Document!UnknownTool(n) /\ AllFit(n, Document!InputsOf(n.type.word))
    BY <2>1, <2>2, AcceptedNodes
  <2> HIDE DEF n
  <2>4. Document!Reads(n)
    BY <2>3, ToolLoopIsRead, LlmChatIsRead, VisionLlmIsRead, WebResearchIsRead,
       ProactiveTopicIsRead, TriggerIsRead DEF Document!Reads
  <2> QED BY <2>4 DEF n
<1> QED BY <1>1, <1>2, <1>3, PTL DEF ServicesSpec

-----------------------------------------------------------------------------
(* Numbers and recursion, for the reply's text *)

\* A set of naturals that is not empty has a least element.
LEMMA LeastNatural ==
  ASSUME NEW S \in SUBSET Nat, S # {}
  PROVE  \E m \in S : \A k \in S : m <= k
<1> DEFINE R == {pair \in Nat \X Nat : pair[1] < pair[2]}
<1>1. IsWellFoundedOn(R, Nat)
  BY NatLessThanWellFounded DEF OpToRel
<1>2. \A k, m \in Nat : k < m => <<k, m>> \in R
  OBVIOUS
<1> HIDE DEF R
<1>3. PICK m \in S : \A k \in S : ~(<<k, m>> \in R)
  BY <1>1, WFMin
<1>4. ASSUME NEW k \in S PROVE m <= k
  <2>1. ~(k < m)
    BY <1>2, <1>3
  <2>2. k \in Nat /\ m \in Nat
    OBVIOUS
  <2> QED BY <2>1, <2>2
<1> QED BY <1>4

\* A set of naturals that has a number whenever it has all smaller ones has them all.
LEMMA AllNaturals ==
  ASSUME NEW S, \A n \in Nat : (\A k \in Nat : k < n => k \in S) => n \in S
  PROVE  Nat \subseteq S
<1>1. SUFFICES ASSUME Nat \ S # {} PROVE FALSE
  OBVIOUS
<1>2. PICK m \in Nat \ S : \A k \in Nat \ S : m <= k
  BY <1>1, LeastNatural
<1>3. \A k \in Nat : k < m => k \in S
  BY <1>2
<1> QED BY <1>2, <1>3

(***************************************************************************)
(* A recursion on a measure has a solution: f[x] is end[x] where the       *)
(* recursion stops, and elsewhere it is made of f at a point with a        *)
(* smaller measure.                                                        *)
(***************************************************************************)
Below(D, m, n) == {x \in D : m[x] < n}
Solves(f, D, R, stop, end, next, make) ==
  /\ f \in [D -> R]
  /\ \A x \in D : f[x] = IF x \in stop THEN end[x] ELSE make[x][f[next[x]]]

\* Such a recursion is solved: partial solutions agree, and the whole is made of them.
LEMMA RecursionExists ==
  ASSUME NEW D, NEW R, NEW m \in [D -> Nat], NEW stop, NEW end, NEW next, NEW make,
         \A x \in D : x \in stop => end[x] \in R,
         \A x \in D : x \notin stop =>
           next[x] \in D /\ m[next[x]] < m[x] /\ \A r \in R : make[x][r] \in R
  PROVE  \E f : Solves(f, D, R, stop, end, next, make)
<1> DEFINE K(n) == Below(D, m, n)
           Sol(f, n) == Solves(f, K(n), R, stop, end, next, make)
<1>1. ASSUME NEW n \in Nat, NEW x \in K(n), x \notin stop
      PROVE  next[x] \in K(n) /\ m[next[x]] < m[x]
  BY <1>1 DEF Below
<1>2. ASSUME NEW i \in Nat, NEW j \in Nat, NEW f, NEW g, Sol(f, i), Sol(g, j)
      PROVE  \A x \in K(i) \cap K(j) : f[x] = g[x]
  <2> DEFINE Same == {n \in Nat : \A x \in K(i) \cap K(j) : m[x] = n => f[x] = g[x]}
  <2>1. ASSUME NEW n \in Nat, \A k \in Nat : k < n => k \in Same PROVE n \in Same
    <3>1. SUFFICES ASSUME NEW x \in K(i) \cap K(j), m[x] = n PROVE f[x] = g[x]
      OBVIOUS
    <3>2. CASE x \in stop
      BY <1>2, <3>2 DEF Solves
    <3>3. CASE x \notin stop
      <4>1. next[x] \in K(i) \cap K(j) /\ m[next[x]] < n /\ m[next[x]] \in Nat
        BY <1>1, <3>1, <3>3 DEF Below
      <4>2. f[next[x]] = g[next[x]]
        BY <2>1, <4>1
      <4> QED BY <1>2, <3>3, <4>2 DEF Solves
    <3> QED BY <3>2, <3>3
  <2> HIDE DEF Same
  <2>2. Nat \subseteq Same
    BY <2>1, AllNaturals
  <2> QED BY <2>2 DEF Same, Below
<1>3. ASSUME NEW n \in Nat PROVE \E f : Sol(f, n)
  <2> DEFINE Has == {i \in Nat : \E f : Sol(f, i)}
  <2>1. ASSUME NEW i \in Nat, \A k \in Nat : k < i => k \in Has PROVE i \in Has
    <3>1. CASE i = 0
      <4>1. K(0) = {}
        BY DEF Below
      <4>2. Solves([x \in {} |-> end[x]], {}, R, stop, end, next, make)
        BY DEF Solves
      <4> QED BY <3>1, <4>1, <4>2
    <3>2. CASE i # 0
      <4>1. PICK f : Sol(f, i - 1)
        BY <2>1, <3>2
      <4> DEFINE g == [x \in K(i) |-> IF x \in stop THEN end[x] ELSE make[x][f[next[x]]]]
      <4>2. \A x \in K(i - 1) : x \in K(i) /\ g[x] = f[x]
        BY <4>1 DEF Solves, Below
      <4>3. ASSUME NEW x \in K(i), x \notin stop
            PROVE  next[x] \in K(i - 1) /\ f[next[x]] \in R
        BY <4>1, <4>3 DEF Solves, Below
      <4>4. \A x \in K(i) : g[x] = IF x \in stop THEN end[x] ELSE make[x][g[next[x]]]
        <5>1. \A x \in K(i) : x \notin stop => g[next[x]] = f[next[x]]
          BY <4>2, <4>3
        <5>2. \A x \in K(i) : g[x] = IF x \in stop THEN end[x] ELSE make[x][f[next[x]]]
          OBVIOUS
        <5> HIDE DEF g
        <5> QED BY <5>1, <5>2
      <4>5. \A x \in K(i) : g[x] \in R
        BY <4>3 DEF Below
      <4> HIDE DEF g
      <4>6. g \in [K(i) -> R]
        BY <4>5 DEF g
      <4>7. Sol(g, i)
        BY <4>4, <4>6 DEF Solves
      <4> QED BY <4>7
    <3> QED BY <3>1, <3>2
  <2> HIDE DEF Has
  <2>2. Nat \subseteq Has
    BY <2>1, AllNaturals
  <2> QED BY <2>2 DEF Has
<1> DEFINE upto(n) == CHOOSE f : Sol(f, n)
           whole == [x \in D |-> upto(m[x] + 1)[x]]
<1>4. \A n \in Nat : Sol(upto(n), n)
  BY <1>3
<1>5. \A x \in D : m[x] \in Nat /\ m[x] + 1 \in Nat /\ x \in K(m[x] + 1)
  BY DEF Below
<1> HIDE DEF upto
<1>6. ASSUME NEW x \in D
      PROVE  whole[x] \in R /\ whole[x] = IF x \in stop THEN end[x] ELSE make[x][whole[next[x]]]
  <2> DEFINE n == m[x] + 1
  <2>1. Sol(upto(n), n) /\ x \in K(n) /\ n \in Nat
    BY <1>4, <1>5
  <2>2. upto(n)[x] \in R /\ upto(n)[x] = IF x \in stop THEN end[x] ELSE make[x][upto(n)[next[x]]]
    BY <2>1 DEF Solves
  <2>3. CASE x \in stop
    BY <2>2, <2>3
  <2>4. CASE x \notin stop
    <3> DEFINE y == next[x]
    <3>1. y \in D /\ y \in K(n)
      BY <1>1, <2>1, <2>4
    <3>2. upto(n)[y] = upto(m[y] + 1)[y]
      BY <1>2, <1>4, <1>5, <2>1, <3>1
    <3> QED BY <2>2, <2>4, <3>1, <3>2
  <2> QED BY <2>3, <2>4
<1> HIDE DEF whole
<1>7. whole \in [D -> R]
  BY <1>6 DEF whole
<1> QED BY <1>6, <1>7 DEF Solves

-----------------------------------------------------------------------------
(* The concatenation of a sequence of sequences *)

IsFlat(f, ss) ==
  f = [i \in 1..Len(ss) |-> IF i = 1 THEN ss[i] ELSE f[i - 1] \o ss[i]]

\* FlattenSeq is what its recursion says.
LEMMA FlattenIsFlat ==
  ASSUME NEW S, NEW ss \in Seq(Seq(S)), ss # <<>>
  PROVE  \E f : IsFlat(f, ss) /\ f \in [1..Len(ss) -> Seq(S)] /\ Reply!FlattenSeq(ss) = f[Len(ss)]
<1> DEFINE D == 1..Len(ss)
           m == [i \in D |-> i]
           next == [i \in D |-> i - 1]
           make == [i \in D |-> [r \in Seq(S) |-> r \o ss[i]]]
<1>1. m \in [D -> Nat]
  OBVIOUS
<1>2. \A i \in D : i \in {1} => ss[i] \in Seq(S)
  OBVIOUS
<1>3. \A i \in D : i \notin {1} =>
        next[i] \in D /\ m[next[i]] < m[i] /\ \A r \in Seq(S) : make[i][r] \in Seq(S)
  OBVIOUS
<1>4. PICK f : Solves(f, D, Seq(S), {1}, ss, next, make)
  <2> HIDE DEF D, m, next, make
  <2> QED BY <1>1, <1>2, <1>3, RecursionExists
<1>5. f \in [D -> Seq(S)] /\ \A i \in D : f[i] = IF i = 1 THEN ss[i] ELSE f[i - 1] \o ss[i]
  <2>1. \A i \in D : i # 1 => f[next[i]] \in Seq(S) /\ next[i] = i - 1
    BY <1>3, <1>4 DEF Solves
  <2>2. \A i \in D : i # 1 => make[i][f[next[i]]] = f[i - 1] \o ss[i]
    BY <2>1
  <2> HIDE DEF next, make
  <2> QED BY <1>4, <2>2 DEF Solves
<1>6. IsFlat(f, ss)
  BY <1>5 DEF IsFlat
<1> DEFINE flat == CHOOSE g : IsFlat(g, ss)
<1>7. IsFlat(flat, ss)
  BY <1>6
<1>8. Reply!FlattenSeq(ss) = flat[Len(ss)]
  BY DEF Reply!FlattenSeq, IsFlat
<1> HIDE DEF flat
<1>9. \A i \in D : flat[i] = IF i = 1 THEN ss[i] ELSE flat[i - 1] \o ss[i]
  BY <1>7 DEF IsFlat
<1>10. DOMAIN flat = D /\ flat = [i \in D |-> flat[i]]
  BY <1>7 DEF IsFlat
<1>11. \A i \in D : flat[i] \in Seq(S)
  <2> DEFINE Good == {i \in Nat : i \in D => flat[i] \in Seq(S)}
  <2>1. ASSUME NEW i \in Nat, \A k \in Nat : k < i => k \in Good PROVE i \in Good
    <3>1. SUFFICES ASSUME i \in D PROVE flat[i] \in Seq(S)
      OBVIOUS
    <3>2. CASE i = 1
      BY <1>2, <1>9, <3>1, <3>2
    <3>3. CASE i # 1
      <4>1. i - 1 \in D /\ i - 1 \in Nat /\ i - 1 < i
        BY <3>1, <3>3
      <4>2. flat[i - 1] \in Seq(S)
        BY <2>1, <4>1
      <4>3. flat[i - 1] \o ss[i] \in Seq(S)
        BY <3>1, <4>2
      <4> QED BY <1>9, <3>1, <3>3, <4>3
    <3> QED BY <3>2, <3>3
  <2> HIDE DEF Good
  <2>2. Nat \subseteq Good
    BY <2>1, AllNaturals
  <2> QED BY <2>2 DEF Good
<1> QED BY <1>7, <1>8, <1>10, <1>11

\* The concatenation of nothing, and of one sequence more.
LEMMA FlattenNothing == Reply!FlattenSeq(<<>>) = <<>>
BY DEF Reply!FlattenSeq

\* The concatenation of a sequence with one element more ends with that element.
LEMMA FlattenAppend ==
  ASSUME NEW S, NEW ss \in Seq(Seq(S)), NEW t \in Seq(S)
  PROVE  Reply!FlattenSeq(ss) \in Seq(S)
           /\ Reply!FlattenSeq(Append(ss, t)) = Reply!FlattenSeq(ss) \o t
<1> DEFINE n == Len(ss)
           tt == Append(ss, t)
<1>1. tt \in Seq(Seq(S)) /\ Len(tt) = n + 1 /\ tt # <<>> /\ n \in Nat /\ tt[n + 1] = t
  BY AppendProperties, LenProperties
<1>2. ASSUME NEW i \in 1..n PROVE tt[i] = ss[i] /\ ss[i] \in Seq(S)
  <2>1. tt[i] = ss[i]
    BY AppendProperties
  <2>2. ss[i] \in Seq(S)
    BY ElementOfSeq
  <2> QED BY <2>1, <2>2
<1> HIDE DEF tt
<1>3. PICK g : IsFlat(g, tt) /\ g \in [1..Len(tt) -> Seq(S)] /\ Reply!FlattenSeq(tt) = g[Len(tt)]
  BY <1>1, FlattenIsFlat
<1>4. \A i \in 1..(n + 1) : g[i] = IF i = 1 THEN tt[i] ELSE g[i - 1] \o tt[i]
  BY <1>1, <1>3 DEF IsFlat
<1>5. CASE ss = <<>>
  <2>1. Reply!FlattenSeq(ss) = <<>> /\ n = 0
    BY <1>5, FlattenNothing
  <2>2. Reply!FlattenSeq(tt) = t
    BY <1>1, <1>3, <1>4, <2>1
  <2>3. <<>> \o t = t /\ <<>> \in Seq(S)
    OBVIOUS
  <2> QED BY <2>1, <2>2, <2>3 DEF tt
<1>6. CASE ss # <<>>
  <2>1. PICK f : IsFlat(f, ss) /\ f \in [1..n -> Seq(S)] /\ Reply!FlattenSeq(ss) = f[n]
    BY <1>6, FlattenIsFlat
  <2>2. \A i \in 1..n : f[i] = IF i = 1 THEN ss[i] ELSE f[i - 1] \o ss[i]
    BY <2>1 DEF IsFlat
  <2> DEFINE Same == {i \in Nat : i \in 1..n => f[i] = g[i]}
  <2>3. ASSUME NEW i \in Nat, \A k \in Nat : k < i => k \in Same PROVE i \in Same
    <3>1. SUFFICES ASSUME i \in 1..n PROVE f[i] = g[i]
      OBVIOUS
    <3>2. CASE i = 1
      BY <1>1, <1>2, <1>4, <2>2, <3>1, <3>2
    <3>3. CASE i # 1
      <4>1. i - 1 \in 1..n /\ i - 1 \in Nat /\ i - 1 < i /\ i \in 1..(n + 1)
        BY <1>1, <3>1, <3>3
      <4>2. f[i - 1] = g[i - 1]
        BY <2>3, <4>1
      <4> QED BY <1>2, <1>4, <2>2, <3>1, <3>3, <4>1, <4>2
    <3> QED BY <3>2, <3>3
  <2> HIDE DEF Same
  <2>4. Nat \subseteq Same
    BY <2>3, AllNaturals
  <2>5. n \in 1..n /\ n + 1 # 1 /\ n + 1 \in 1..(n + 1)
    BY <1>1, <1>6
  <2>6. f[n] = g[n]
    BY <2>4, <2>5 DEF Same
  <2>7. g[n + 1] = g[n] \o t
    <3>1. (n + 1) - 1 = n
      BY <1>1
    <3> QED BY <1>1, <1>4, <2>5, <3>1
  <2>8. f[n] \in Seq(S)
    BY <2>1, <2>5
  <2> QED BY <1>1, <1>3, <2>1, <2>6, <2>7, <2>8 DEF tt
<1> QED BY <1>5, <1>6

\* Appending and concatenating may be exchanged.
LEMMA ConcatAppend ==
  ASSUME NEW T, NEW a \in Seq(T), NEW b \in Seq(T), NEW x \in T
  PROVE  a \o b \in Seq(T) /\ a \o Append(b, x) = Append(a \o b, x)
OBVIOUS

\* The concatenation of two sequences of sequences is that of their concatenations.
LEMMA FlattenConcat ==
  ASSUME NEW S, NEW ss \in Seq(Seq(S)), NEW tt \in Seq(Seq(S))
  PROVE  /\ Reply!FlattenSeq(ss) \in Seq(S)
         /\ Reply!FlattenSeq(ss \o tt) = Reply!FlattenSeq(ss) \o Reply!FlattenSeq(tt)
<1> DEFINE Concats == {n \in Nat : \A uu \in Seq(Seq(S)) : Len(uu) = n =>
                       Reply!FlattenSeq(ss \o uu) = Reply!FlattenSeq(ss) \o Reply!FlattenSeq(uu)}
<1>1. Reply!FlattenSeq(ss) \in Seq(S)
  BY FlattenAppend
<1>2. ASSUME NEW n \in Nat, \A k \in Nat : k < n => k \in Concats PROVE n \in Concats
  <2>1. SUFFICES ASSUME NEW uu \in Seq(Seq(S)), Len(uu) = n
                 PROVE  Reply!FlattenSeq(ss \o uu) = Reply!FlattenSeq(ss) \o Reply!FlattenSeq(uu)
    OBVIOUS
  <2>2. CASE n = 0
    <3>1. uu = <<>> /\ ss \o uu = ss
      BY <2>1, <2>2
    <3>2. Reply!FlattenSeq(ss) \o <<>> = Reply!FlattenSeq(ss)
      BY <1>1
    <3> QED BY <3>1, <3>2, FlattenNothing
  <2>3. CASE n # 0
    <3> DEFINE vv == Reply!Front(uu)
               u == Reply!Last(uu)
    <3>1. uu # <<>> /\ vv \in Seq(Seq(S)) /\ Len(vv) = n - 1 /\ u \in Seq(S) /\ uu = Append(vv, u)
      BY <2>1, <2>3 DEF Reply!Front, Reply!Last
    <3> HIDE DEF vv, u
    <3>2. n - 1 \in Nat /\ n - 1 < n
      BY <2>3
    <3>3. Reply!FlattenSeq(ss \o vv) = Reply!FlattenSeq(ss) \o Reply!FlattenSeq(vv)
      BY <1>2, <3>1, <3>2
    <3>4. ss \o uu = Append(ss \o vv, u) /\ ss \o vv \in Seq(Seq(S))
      BY <3>1, ConcatAppend
    <3>5. Reply!FlattenSeq(ss \o uu) = Reply!FlattenSeq(ss \o vv) \o u
      BY <3>1, <3>4, FlattenAppend
    <3>6. Reply!FlattenSeq(uu) = Reply!FlattenSeq(vv) \o u /\ Reply!FlattenSeq(vv) \in Seq(S)
      BY <3>1, FlattenAppend
    <3>7. (Reply!FlattenSeq(ss) \o Reply!FlattenSeq(vv)) \o u
            = Reply!FlattenSeq(ss) \o (Reply!FlattenSeq(vv) \o u)
      <4> DEFINE a == Reply!FlattenSeq(ss)
                 b == Reply!FlattenSeq(vv)
      <4>1. a \in Seq(S) /\ b \in Seq(S) /\ u \in Seq(S)
        BY <1>1, <3>1, <3>6
      <4> HIDE DEF a, b
      <4>2. (a \o b) \o u = a \o (b \o u)
        BY <4>1, ConcatAssociative
      <4> QED BY <4>2 DEF a, b
    <3> QED BY <3>3, <3>5, <3>6, <3>7
  <2> QED BY <2>2, <2>3
<1> HIDE DEF Concats
<1>3. Nat \subseteq Concats
  BY <1>2, AllNaturals
<1>4. Len(tt) \in Nat
  OBVIOUS
<1> QED BY <1>1, <1>3, <1>4 DEF Concats

-----------------------------------------------------------------------------
(* Words and blanks *)

WordOf(c) == IF c \in Reply!Space THEN <<>> ELSE <<c>>
WordsOf(text) == [i \in DOMAIN text |-> WordOf(text[i])]

\* The words of a text are a text.
LEMMA WordsAreFlat ==
  ASSUME NEW text \in Seq(Reply!Char)
  PROVE  WordsOf(text) \in Seq(Seq(Reply!Char))
           /\ Reply!Words(text) = Reply!FlattenSeq(WordsOf(text))
         /\ Reply!Words(text) \in Seq(Reply!Char) /\ Len(WordsOf(text)) = Len(text)
<1>1. \A i \in DOMAIN text : WordOf(text[i]) \in Seq(Reply!Char)
  BY DEF WordOf
<1>2. DOMAIN text = 1..Len(text) /\ Len(text) \in Nat
  OBVIOUS
<1>3. WordsOf(text) \in [1..Len(text) -> Seq(Reply!Char)]
  BY <1>1, <1>2 DEF WordsOf
<1>4. WordsOf(text) \in Seq(Seq(Reply!Char)) /\ Len(WordsOf(text)) = Len(text)
  BY <1>2, <1>3
<1>5. Reply!Words(text) = Reply!FlattenSeq(WordsOf(text))
  BY DEF Reply!Words, WordsOf, WordOf
<1> QED BY <1>4, <1>5, FlattenAppend

\* The words of two texts in a row are theirs in a row.
LEMMA WordsConcat ==
  ASSUME NEW a \in Seq(Reply!Char), NEW b \in Seq(Reply!Char)
  PROVE  Reply!Words(a \o b) = Reply!Words(a) \o Reply!Words(b)
<1>1. a \o b \in Seq(Reply!Char) /\ Len(a \o b) = Len(a) + Len(b) /\ Len(a) \in Nat
        /\ Len(b) \in Nat
      /\ \A i \in 1..(Len(a) + Len(b)) : (a \o b)[i] = IF i <= Len(a) THEN a[i] ELSE b[i - Len(a)]
  BY ConcatProperties, LenProperties
<1>2. /\ WordsOf(a) \in Seq(Seq(Reply!Char)) /\ WordsOf(b) \in Seq(Seq(Reply!Char))
      /\ WordsOf(a \o b) \in Seq(Seq(Reply!Char))
      /\ Len(WordsOf(a)) = Len(a) /\ Len(WordsOf(b)) = Len(b)
      /\ Len(WordsOf(a \o b)) = Len(a) + Len(b)
  BY <1>1, WordsAreFlat
<1>3. WordsOf(a) \o WordsOf(b) \in Seq(Seq(Reply!Char))
      /\ Len(WordsOf(a) \o WordsOf(b)) = Len(a) + Len(b)
      /\ \A i \in 1..(Len(a) + Len(b)) : (WordsOf(a) \o WordsOf(b))[i] =
           IF i <= Len(a) THEN WordsOf(a)[i] ELSE WordsOf(b)[i - Len(a)]
  BY <1>1, <1>2, ConcatProperties
<1>4. ASSUME NEW i \in 1..(Len(a) + Len(b))
      PROVE  WordsOf(a \o b)[i] = (WordsOf(a) \o WordsOf(b))[i]
  <2>1. WordsOf(a \o b)[i] = WordOf((a \o b)[i])
    BY <1>1 DEF WordsOf
  <2>2. CASE i <= Len(a)
    <3>1. i \in DOMAIN a
      BY <1>1, <2>2
    <3>2. WordsOf(a)[i] = WordOf(a[i])
      BY <3>1 DEF WordsOf
    <3> QED BY <1>1, <1>3, <2>1, <2>2, <3>2
  <2>3. CASE ~(i <= Len(a))
    <3>1. i - Len(a) \in DOMAIN b
      BY <1>1, <2>3
    <3>2. WordsOf(b)[i - Len(a)] = WordOf(b[i - Len(a)])
      BY <3>1 DEF WordsOf
    <3> QED BY <1>1, <1>3, <2>1, <2>3, <3>2
  <2> QED BY <2>2, <2>3
<1>5. WordsOf(a \o b) = WordsOf(a) \o WordsOf(b)
  BY <1>2, <1>3, <1>4, SeqEqual
<1>6. Reply!FlattenSeq(WordsOf(a) \o WordsOf(b))
        = Reply!FlattenSeq(WordsOf(a)) \o Reply!FlattenSeq(WordsOf(b))
  BY <1>2, FlattenConcat
<1>7. /\ Reply!Words(a \o b) = Reply!FlattenSeq(WordsOf(a \o b))
      /\ Reply!Words(a) = Reply!FlattenSeq(WordsOf(a))
         /\ Reply!Words(b) = Reply!FlattenSeq(WordsOf(b))
  BY <1>1, WordsAreFlat
<1> QED BY <1>5, <1>6, <1>7

\* Blanks have no words.
LEMMA BlankHasNoWords ==
  ASSUME NEW text \in Seq(Reply!Char), Reply!IsBlank(text)
  PROVE  Reply!Words(text) = <<>>
<1> DEFINE Empty == {n \in Nat : \A b \in Seq(Reply!Char) :
                       Len(b) = n /\ Reply!IsBlank(b) => Reply!Words(b) = <<>>}
<1>1. ASSUME NEW n \in Nat, \A k \in Nat : k < n => k \in Empty PROVE n \in Empty
  <2>1. SUFFICES ASSUME NEW b \in Seq(Reply!Char), Len(b)
                          = n, Reply!IsBlank(b) PROVE Reply!Words(b) = <<>>
    OBVIOUS
  <2>2. CASE n = 0
    <3>1. WordsOf(b) = <<>>
      <4>1. WordsOf(b) \in Seq(Seq(Reply!Char)) /\ Len(WordsOf(b)) = 0
        BY <2>1, <2>2, WordsAreFlat
      <4> QED BY <4>1, EmptySeq
    <3> QED BY <3>1, WordsAreFlat, FlattenNothing
  <2>3. CASE n # 0
    <3> DEFINE a == SubSeq(b, 1, n - 1)
               x == b[n]
    <3>1. a \in Seq(Reply!Char) /\ Len(a) = n - 1 /\ b = Append(a, x)
            /\ \A i \in 1..(n - 1) : a[i] = b[i]
      BY <2>1, <2>3
    <3>0. x \in Reply!Space
      BY <2>1, <2>3 DEF Reply!IsBlank
    <3> HIDE DEF a, x
    <3>2. Reply!IsBlank(a) /\ n - 1 \in Nat /\ n - 1 < n
      BY <2>1, <2>3, <3>1 DEF Reply!IsBlank
    <3>3. Reply!Words(a) = <<>>
      BY <1>1, <3>1, <3>2
    <3>4. <<x>> \in Seq(Reply!Char) /\ b = a \o <<x>>
      BY <3>0, <3>1 DEF Reply!Char
    <3>5. Reply!Words(<<x>>) = <<>>
      <4>1. WordsOf(<<x>>) = <<<<>>>>
        BY <3>0 DEF WordsOf, WordOf
      <4>2. <<<<>>>> = Append(<<>>, <<>>) /\ <<>> \in Seq(Seq(Reply!Char))
              /\ <<>> \in Seq(Reply!Char) /\ <<>> \o <<>> = <<>>
        OBVIOUS
      <4>3. Reply!FlattenSeq(Append(<<>>, <<>>)) = <<>>
        BY <4>2, FlattenAppend, FlattenNothing
      <4> QED BY <3>4, <4>1, <4>2, <4>3, WordsAreFlat
    <3>6. Reply!Words(b) = <<>> \o <<>>
      BY <3>1, <3>3, <3>4, <3>5, WordsConcat
    <3> QED BY <3>6
  <2> QED BY <2>2, <2>3
<1> HIDE DEF Empty
<1>2. Nat \subseteq Empty
  BY <1>1, AllNaturals
<1>3. Len(text) \in Nat
  OBVIOUS
<1> QED BY <1>2, <1>3 DEF Empty

\* A text is what stands before a place and what stands behind it.
LEMMA CutInTwo ==
  ASSUME NEW text \in Seq(Reply!Char), NEW n \in 0..Len(text)
  PROVE  /\ SubSeq(text, 1, n) \in Seq(Reply!Char) /\ Reply!From(text, n) \in Seq(Reply!Char)
         /\ Len(SubSeq(text, 1, n)) = n /\ Len(Reply!From(text, n)) = Len(text) - n
         /\ \A i \in 1..n : SubSeq(text, 1, n)[i] = text[i]
         /\ \A i \in 1..(Len(text) - n) : Reply!From(text, n)[i] = text[n + i]
         /\ Reply!Words(text) = Reply!Words(SubSeq(text, 1, n)) \o Reply!Words(Reply!From(text, n))
<1>1. Len(text) \in Nat
  OBVIOUS
<1>2. /\ SubSeq(text, 1, n) \in Seq(Reply!Char) /\ Len(SubSeq(text, 1, n)) = n
      /\ \A i \in 1..n : SubSeq(text, 1, n)[i] = text[i]
  BY <1>1
<1>3. /\ Reply!From(text, n) \in Seq(Reply!Char) /\ Len(Reply!From(text, n)) = Len(text) - n
      /\ \A i \in 1..(Len(text) - n) : Reply!From(text, n)[i] = text[n + i]
  BY <1>1 DEF Reply!From
<1>4. text = SubSeq(text, 1, n) \o Reply!From(text, n)
  <2> DEFINE whole == SubSeq(text, 1, n) \o Reply!From(text, n)
  <2>1. /\ whole \in Seq(Reply!Char) /\ Len(whole) = Len(text)
        /\ \A i \in 1..Len(text) :
             whole[i] = IF i <= n THEN SubSeq(text, 1, n)[i] ELSE Reply!From(text, n)[i - n]
    BY <1>1, <1>2, <1>3, ConcatProperties
  <2> HIDE DEF whole
  <2>2. \A i \in 1..Len(text) : whole[i] = text[i]
    <3>1. ASSUME NEW i \in 1..Len(text) PROVE whole[i] = text[i]
      <4>1. CASE i <= n
        BY <1>1, <1>2, <2>1, <4>1
      <4>2. CASE ~(i <= n)
        <5>1. i - n \in 1..(Len(text) - n) /\ n + (i - n) = i
          BY <1>1, <4>2
        <5> QED BY <1>3, <2>1, <4>2, <5>1
      <4> QED BY <4>1, <4>2
    <3> QED BY <3>1
  <2> QED BY <2>1, <2>2, SeqEqual DEF whole
<1> QED BY <1>2, <1>3, <1>4, WordsConcat

\* Blanks on either side of a text have no words.
LEMMA TrimmedKeepsWords ==
  ASSUME NEW text \in Seq(Reply!Char)
  PROVE  /\ Reply!Trimmed(text) \in Seq(Reply!Char)
            /\ Reply!Words(Reply!Trimmed(text)) = Reply!Words(text)
         /\ Reply!IsBlank(text) => Reply!Trimmed(text) = <<>>
         /\ Reply!Trimmed(text) # <<>> => ~Reply!IsBlank(Reply!Trimmed(text))
<1> DEFINE words == {i \in DOMAIN text : text[i] \notin Reply!Space}
<1>1. Len(text) \in Nat /\ DOMAIN text = 1..Len(text)
  OBVIOUS
<1>2. Reply!IsBlank(text) <=> words = {}
  BY DEF Reply!IsBlank
<1>3. CASE words = {}
  <2>1. Reply!Trimmed(text) = <<>>
    BY <1>3 DEF Reply!Trimmed
  <2>2. Reply!Words(<<>>) = <<>> /\ <<>> \in Seq(Reply!Char)
    <3>1. Reply!IsBlank(<<>>) /\ <<>> \in Seq(Reply!Char)
      BY DEF Reply!IsBlank
    <3> QED BY <3>1, BlankHasNoWords
  <2> QED BY <1>2, <1>3, <2>1, <2>2, BlankHasNoWords
<1>4. CASE words # {}
  <2> DEFINE first == CHOOSE i \in words : \A j \in words : i <= j
             last == CHOOSE i \in words : \A j \in words : i >= j
  <2>2. first \in words /\ \A j \in words : first <= j
    <3>1. words \in SUBSET Nat
      BY <1>1
    <3>2. \E i \in words : \A j \in words : i <= j
      BY <1>4, <3>1, LeastNatural
    <3> HIDE DEF words
    <3> QED BY <3>2
  <2>3. last \in words /\ \A j \in words : last >= j
    <3> DEFINE gaps == {Len(text) - i : i \in words}
    <3>1. gaps \in SUBSET Nat /\ gaps # {}
      BY <1>1, <1>4
    <3>2. PICK g \in gaps : \A h \in gaps : g <= h
      BY <3>1, LeastNatural
    <3>3. PICK i \in words : g = Len(text) - i
      BY <3>2
    <3>4. ASSUME NEW j \in words PROVE i >= j
      <4>1. Len(text) - j \in gaps /\ i \in Int /\ j \in Int
        BY <1>1
      <4>2. g <= Len(text) - j
        BY <3>2, <4>1
      <4> QED BY <1>1, <3>3, <4>1, <4>2
    <3> HIDE DEF words
    <3> QED BY <3>3, <3>4
  <2>4. Reply!Trimmed(text) = SubSeq(text, first, last)
    BY <1>4 DEF Reply!Trimmed
  <2> HIDE DEF first, last
  <2>5. /\ first \in 1..Len(text) /\ last \in 1..Len(text) /\ first <= last
        /\ text[first] \notin Reply!Space
    BY <1>1, <2>2, <2>3
  <2> DEFINE head == SubSeq(text, 1, last)
             front == SubSeq(head, 1, first - 1)
  <2>6. /\ head \in Seq(Reply!Char) /\ Len(head) = last /\ \A i \in 1..last : head[i] = text[i]
        /\ Reply!From(text, last) \in Seq(Reply!Char)
        /\ Len(Reply!From(text, last)) = Len(text) - last
        /\ \A i \in 1..(Len(text) - last) : Reply!From(text, last)[i] = text[last + i]
        /\ Reply!Words(text) = Reply!Words(head) \o Reply!Words(Reply!From(text, last))
    <3>1. last \in 0..Len(text)
      BY <1>1, <2>5
    <3>2. /\ SubSeq(text, 1, last) \in Seq(Reply!Char)
             /\ Reply!From(text, last) \in Seq(Reply!Char)
          /\ Len(SubSeq(text, 1, last)) = last /\ Len(Reply!From(text, last)) = Len(text) - last
          /\ \A i \in 1..last : SubSeq(text, 1, last)[i] = text[i]
          /\ \A i \in 1..(Len(text) - last) : Reply!From(text, last)[i] = text[last + i]
          /\ Reply!Words(text) = Reply!Words(SubSeq(text, 1, last))
             \o Reply!Words(Reply!From(text, last))
      BY <3>1, CutInTwo
    <3> QED BY <3>2
  <2>7. Reply!IsBlank(Reply!From(text, last))
    <3>1. \A i \in 1..(Len(text) - last) : text[last + i] \in Reply!Space
      BY <1>1, <2>3, <2>5
    <3> DEFINE rest == Reply!From(text, last)
               n == Len(text) - last
    <3>2. /\ rest \in Seq(Reply!Char) /\ Len(rest) = n /\ n \in Nat
          /\ \A i \in 1..n : rest[i] \in Reply!Space
      <4>1. rest \in Seq(Reply!Char) /\ Len(rest) = n /\ \A i \in 1..n : rest[i] = text[last + i]
        BY <2>6
      <4>2. n \in Nat
        BY <1>1, <2>5
      <4> HIDE DEF rest
      <4> QED BY <3>1, <4>1, <4>2
    <3> HIDE DEF rest, n
    <3>3. DOMAIN rest = 1..n
      BY <3>2
    <3>4. Reply!IsBlank(rest)
      BY <3>2, <3>3 DEF Reply!IsBlank
    <3> QED BY <3>4 DEF rest
  <2> HIDE DEF head
  <2>8. /\ front \in Seq(Reply!Char) /\ Len(front) = first - 1
           /\ \A i \in 1..(first - 1) : front[i] = head[i]
        /\ Reply!Words(head) = Reply!Words(front) \o Reply!Words(Reply!From(head, first - 1))
        /\ Reply!From(head, first - 1) \in Seq(Reply!Char)
    <3>1. first - 1 \in 0..Len(head)
      BY <1>1, <2>5, <2>6
    <3>2. /\ SubSeq(head, 1, first - 1) \in Seq(Reply!Char)
             /\ Len(SubSeq(head, 1, first - 1)) = first - 1
          /\ \A i \in 1..(first - 1) : SubSeq(head, 1, first - 1)[i] = head[i]
          /\ Reply!Words(head) = Reply!Words(SubSeq(head, 1, first - 1))
             \o Reply!Words(Reply!From(head, first - 1))
          /\ Reply!From(head, first - 1) \in Seq(Reply!Char)
      BY <2>6, <3>1, CutInTwo
    <3> QED BY <3>2
  <2> HIDE DEF front
  <2>9. Reply!IsBlank(front)
    <3>1. \A i \in 1..(first - 1) : text[i] \in Reply!Space
      BY <1>1, <2>2, <2>5
    <3> QED BY <2>5, <2>6, <2>8, <3>1 DEF Reply!IsBlank
  <2>10. Reply!From(head, first - 1) = SubSeq(text, first, last)
    <3> DEFINE middle == SubSeq(text, first, last)
    <3>1. /\ middle \in Seq(Reply!Char) /\ Len(middle) = last - first + 1
          /\ \A i \in 1..(last - first + 1) : middle[i] = text[first + i - 1]
      BY <1>1, <2>5
    <3>2. first - 1 \in 0..Len(head)
      BY <1>1, <2>5, <2>6
    <3>3. /\ Reply!From(head, first - 1) \in Seq(Reply!Char)
             /\ Len(Reply!From(head, first - 1)) = last - (first - 1)
          /\ \A i \in 1..(last - (first - 1)) : Reply!From(head, first - 1)[i]
             = head[first - 1 + i]
      BY <2>6, <3>2, CutInTwo
    <3> HIDE DEF middle
    <3>4. \A i \in 1..(last - first + 1) : Reply!From(head, first - 1)[i] = middle[i]
      BY <1>1, <2>5, <2>6, <3>1, <3>3
    <3>5. last - (first - 1) = last - first + 1
      BY <1>1, <2>5
    <3> QED BY <3>1, <3>3, <3>4, <3>5, SeqEqual DEF middle
  <2>11. Reply!Words(text) = (<<>> \o Reply!Words(Reply!From(head, first - 1))) \o <<>>
    BY <2>6, <2>7, <2>8, <2>9, BlankHasNoWords
  <2>12. Reply!Words(Reply!From(head, first - 1)) \in Seq(Reply!Char)
    BY <2>8, WordsAreFlat
  <2>13. Reply!Words(text) = Reply!Words(Reply!Trimmed(text))
           /\ Reply!Trimmed(text) \in Seq(Reply!Char)
    <3>1. \A w \in Seq(Reply!Char) : (<<>> \o w) \o <<>> = w
      OBVIOUS
    <3> QED BY <2>4, <2>8, <2>10, <2>11, <2>12, <3>1
  <2>14. ~Reply!IsBlank(SubSeq(text, first, last))
    <3>1. 1 \in DOMAIN SubSeq(text, first, last) /\ SubSeq(text, first, last)[1] = text[first]
      BY <1>1, <2>5
    <3> QED BY <2>5, <3>1 DEF Reply!IsBlank
  <2> QED BY <1>2, <1>4, <2>4, <2>13, <2>14
<1> QED BY <1>3, <1>4

-----------------------------------------------------------------------------
(* StreamSentenceSplitter *)

\* What the sentences of a splitter say.
SpokenBy(s) == Reply!FlattenSeq([i \in DOMAIN s.out |-> s.out[i].text])
\* All the splitter was given and has not dropped.
Held(s) == Reply!Words(SpokenBy(s) \o s.buffer)

\* Sentences are numbered and not blank, and behind the last one only blanks may be left.
SplitterOk(s) ==
  /\ s \in Reply!Splitter /\ s.count = Len(s.out)
  /\ \A i \in DOMAIN s.out :
       /\ s.out[i].index = i - 1 /\ ~Reply!IsBlank(s.out[i].text)
       /\ s.out[i].isLast => i = Len(s.out) /\ Reply!IsBlank(s.buffer)
NoneIsLast(s) == \A i \in DOMAIN s.out : ~s.out[i].isLast

\* What the sentences say is a text.
LEMMA SpokenIsText ==
  ASSUME NEW s \in Reply!Splitter
  PROVE  SpokenBy(s) \in Seq(Reply!Char)
<1>1. s.out \in Seq(Reply!Sentence)
  BY DEF Reply!Splitter
<1>2. [i \in DOMAIN s.out |-> s.out[i].text] \in Seq(Seq(Reply!Char))
  <2>1. Len(s.out) \in Nat /\ DOMAIN s.out = 1..Len(s.out)
          /\ \A i \in DOMAIN s.out : s.out[i] \in Reply!Sentence
    BY <1>1
  <2>2. \A i \in DOMAIN s.out : s.out[i].text \in Seq(Reply!Char)
    BY <2>1 DEF Reply!Sentence
  <2> QED BY <2>1, <2>2
<1> QED BY <1>2, FlattenAppend DEF SpokenBy

\* A buffer is cut within it.
LEMMA SplitsWithin ==
  ASSUME NEW b \in Seq(Reply!Char), NEW isFirst \in BOOLEAN, NEW flush \in BOOLEAN
  PROVE  Reply!SplitLength(b, isFirst, flush) \in 0..Len(b)
<1> DEFINE points == Reply!SplitPoints(b, isFirst, flush)
           forced == Reply!ForcePoints(b)
           n == Reply!SplitLength(b, isFirst, flush)
<1>1. Len(b) \in Nat /\ DOMAIN b = 1..Len(b)
  OBVIOUS
<1>2. points \subseteq 1..Len(b) /\ forced \subseteq 1..Len(b)
  BY <1>1 DEF Reply!SplitPoints, Reply!ForcePoints
<1>3. points # {} => \E i \in points : \A j \in points : i <= j
  <2>1. points \in SUBSET Nat
    BY <1>1, <1>2
  <2> HIDE DEF points
  <2> QED BY <2>1, LeastNatural
<1>4. forced # {} => \E i \in forced : \A j \in forced : i >= j
  <2> DEFINE gaps == {Len(b) - i : i \in forced}
  <2>1. SUFFICES ASSUME forced # {} PROVE \E i \in forced : \A j \in forced : i >= j
    OBVIOUS
  <2>2. gaps \in SUBSET Nat /\ gaps # {}
    BY <1>1, <1>2, <2>1
  <2>3. PICK g \in gaps : \A h \in gaps : g <= h
    BY <2>2, LeastNatural
  <2>4. PICK i \in forced : g = Len(b) - i
    BY <2>3
  <2>5. ASSUME NEW j \in forced PROVE i >= j
    <3>1. Len(b) - j \in gaps /\ i \in Int /\ j \in Int
      BY <1>1, <1>2
    <3>2. g <= Len(b) - j
      BY <2>3, <3>1
    <3> QED BY <1>1, <2>4, <3>1, <3>2
  <2> QED BY <2>5
<1>5. n = IF points # {} THEN CHOOSE i \in points : \A j \in points : i <= j
          ELSE IF forced # {} THEN CHOOSE i \in forced : \A j \in forced : i >= j
          ELSE 0
  BY DEF Reply!SplitLength
<1> HIDE DEF points, forced, n
<1>6. n \in points \/ n \in forced \/ n = 0
  BY <1>3, <1>4, <1>5
<1>7. n \in 0..Len(b)
  <2>1. n \in 1..Len(b) \/ n = 0
    BY <1>2, <1>6
  <2> QED BY <1>1, <2>1
<1> QED BY <1>7 DEF n

\* A sentence takes its text from the front of the buffer and loses only blanks.
LEMMA EmissionKeeps ==
  ASSUME NEW s \in Reply!Splitter, NEW n \in 0..Len(s.buffer), NEW isLast \in BOOLEAN
  PROVE  LET r == Reply!EmitSentence(s, n, isLast) IN
         /\ r \in Reply!Splitter /\ r.buffer = Reply!From(s.buffer, n) /\ Held(r) = Held(s)
         /\ SplitterOk(s) => SplitterOk(r)
         /\ ~isLast /\ NoneIsLast(s) => NoneIsLast(r)
<1> DEFINE r == Reply!EmitSentence(s, n, isLast)
           front == SubSeq(s.buffer, 1, n)
           text == Reply!Trimmed(front)
           rest == Reply!From(s.buffer, n)
           chunk == [index |-> s.count, text |-> text, isLast |-> isLast /\ Reply!IsBlank(rest)]
<1>1. s.buffer \in Seq(Reply!Char) /\ s.count \in Nat /\ s.out \in Seq(Reply!Sentence)
      /\ s = [buffer |-> s.buffer, count |-> s.count, out |-> s.out]
  BY DEF Reply!Splitter
<1>2. /\ front \in Seq(Reply!Char) /\ rest \in Seq(Reply!Char)
      /\ Len(rest) = Len(s.buffer) - n
      /\ \A i \in 1..(Len(s.buffer) - n) : rest[i] = s.buffer[n + i]
      /\ \A i \in 1..n : front[i] = s.buffer[i]
      /\ Len(front) = n
      /\ Reply!Words(s.buffer) = Reply!Words(front) \o Reply!Words(rest)
  BY <1>1, CutInTwo
<1>3. /\ text \in Seq(Reply!Char) /\ Reply!Words(text) = Reply!Words(front)
      /\ Reply!IsBlank(front) => text = <<>>
      /\ text # <<>> => ~Reply!IsBlank(text)
  BY <1>2, TrimmedKeepsWords
<1>4. Reply!IsBlank(s.buffer) => Reply!IsBlank(front) /\ Reply!IsBlank(rest)
  <2>1. SUFFICES ASSUME Reply!IsBlank(s.buffer) PROVE Reply!IsBlank(front) /\ Reply!IsBlank(rest)
    OBVIOUS
  <2>2. \A i \in 1..Len(s.buffer) : s.buffer[i] \in Reply!Space
    BY <1>1, <2>1 DEF Reply!IsBlank
  <2>3. Len(s.buffer) \in Nat
    BY <1>1
  <2>4. Reply!IsBlank(front)
    BY <1>2, <2>2, <2>3 DEF Reply!IsBlank
  <2>5. \A i \in 1..(Len(s.buffer) - n) : n + i \in 1..Len(s.buffer)
    BY <2>3
  <2>6. Reply!IsBlank(rest)
    <3>1. \A i \in 1..(Len(s.buffer) - n) : rest[i] \in Reply!Space
      BY <1>2, <2>2, <2>5
    <3>2. DOMAIN rest = 1..(Len(s.buffer) - n)
      BY <1>2, LenProperties
    <3> QED BY <3>1, <3>2 DEF Reply!IsBlank
  <2> QED BY <2>4, <2>6
<1>5. SpokenBy(s) \in Seq(Reply!Char)
  BY SpokenIsText
<1>6. r = IF text = <<>> THEN [s EXCEPT !.buffer = rest]
          ELSE [buffer |-> rest, count |-> s.count + 1, out |-> Append(s.out, chunk)]
  BY DEF Reply!EmitSentence
<1> HIDE DEF r, front, text, rest
<1>7. CASE text = <<>>
  <2>1. r.buffer = rest /\ r.count = s.count /\ r.out = s.out /\ r \in Reply!Splitter
    BY <1>1, <1>2, <1>6, <1>7 DEF Reply!Splitter
  <2>2. SpokenBy(r) = SpokenBy(s)
    BY <2>1 DEF SpokenBy
  <2>3. Reply!Words(front) = <<>>
    <3>1. Reply!IsBlank(<<>>) /\ <<>> \in Seq(Reply!Char)
      BY DEF Reply!IsBlank
    <3> QED BY <1>3, <1>7, <3>1, BlankHasNoWords
  <2>4. Reply!Words(rest) \in Seq(Reply!Char) /\ Reply!Words(SpokenBy(s)) \in Seq(Reply!Char)
    BY <1>2, <1>5, WordsAreFlat
  <2>5. Reply!Words(s.buffer) = Reply!Words(rest)
    BY <1>2, <2>3, <2>4
  <2>6. Held(r) = Held(s)
    <3>1. Held(r) = Reply!Words(SpokenBy(s)) \o Reply!Words(rest)
      BY <1>2, <1>5, <2>1, <2>2, WordsConcat DEF Held
    <3>2. Held(s) = Reply!Words(SpokenBy(s)) \o Reply!Words(s.buffer)
      BY <1>1, <1>5, WordsConcat DEF Held
    <3> QED BY <2>5, <3>1, <3>2
  <2>7. SplitterOk(s) => SplitterOk(r)
    BY <1>4, <2>1 DEF SplitterOk
  <2> QED BY <2>1, <2>6, <2>7 DEF NoneIsLast, r, rest
<1>8. CASE text # <<>>
  <2>1. chunk \in Reply!Sentence
    BY <1>1, <1>3 DEF Reply!Sentence
  <2> DEFINE o == Append(s.out, chunk)
  <2>2. /\ o \in Seq(Reply!Sentence) /\ Len(o) = Len(s.out) + 1 /\ Len(s.out) \in Nat
        /\ \A i \in 1..Len(s.out) : o[i] = s.out[i]
        /\ o[Len(s.out) + 1] = chunk
        /\ DOMAIN o = 1..(Len(s.out) + 1) /\ DOMAIN s.out = 1..Len(s.out)
    BY <1>1, <2>1, AppendProperties, LenProperties
  <2>3. r.buffer = rest /\ r.count = s.count + 1 /\ r.out = o
    BY <1>6, <1>8
  <2> HIDE DEF o, chunk
  <2>4. r \in Reply!Splitter
    BY <1>1, <1>2, <1>6, <1>8, <2>2, <2>3 DEF Reply!Splitter, o
  <2>5. SpokenBy(r) = SpokenBy(s) \o text
    <3> DEFINE ts == [i \in DOMAIN s.out |-> s.out[i].text]
               us == [i \in DOMAIN o |-> o[i].text]
    <3>1. ts \in Seq(Seq(Reply!Char)) /\ us \in Seq(Seq(Reply!Char)) /\ Len(ts) = Len(s.out)
            /\ Len(us) = Len(s.out) + 1
      <4>1. \A x \in Reply!Sentence : x.text \in Seq(Reply!Char)
        BY DEF Reply!Sentence
      <4>2. \A i \in DOMAIN s.out : s.out[i].text \in Seq(Reply!Char)
        BY <1>1, <2>2, <4>1, ElementOfSeq
      <4>3. \A i \in DOMAIN o : o[i].text \in Seq(Reply!Char)
        BY <2>2, <4>1, ElementOfSeq
      <4> QED BY <2>2, <4>2, <4>3
    <3>2. Append(ts, text) \in Seq(Seq(Reply!Char)) /\ Len(Append(ts, text)) = Len(s.out) + 1
          /\ (\A i \in 1..Len(s.out) : Append(ts, text)[i] = ts[i])
          /\ Append(ts, text)[Len(s.out) + 1] = text
      BY <1>3, <3>1, AppendProperties
    <3>3. ASSUME NEW i \in 1..(Len(s.out) + 1) PROVE us[i] = Append(ts, text)[i]
      <4>1. CASE i \in 1..Len(s.out)
        BY <2>2, <3>2, <4>1
      <4>2. CASE i = Len(s.out) + 1
        BY <2>2, <3>2, <4>2 DEF chunk
      <4> QED BY <2>2, <4>1, <4>2
    <3> HIDE DEF ts, us
    <3>4. us = Append(ts, text)
      BY <3>1, <3>2, <3>3, SeqEqual
    <3>5. Reply!FlattenSeq(us) = Reply!FlattenSeq(ts) \o text
      BY <1>3, <3>1, <3>4, FlattenAppend
    <3> QED BY <2>3, <3>5 DEF SpokenBy, ts, us
  <2>6. /\ Held(r) = (Reply!Words(SpokenBy(s)) \o Reply!Words(text)) \o Reply!Words(rest)
        /\ Held(s) = Reply!Words(SpokenBy(s)) \o (Reply!Words(front) \o Reply!Words(rest))
    <3>1. SpokenBy(s) \o text \in Seq(Reply!Char)
      BY <1>3, <1>5
    <3>2. Reply!Words((SpokenBy(s) \o text) \o rest)
            = Reply!Words(SpokenBy(s) \o text) \o Reply!Words(rest)
      BY <1>2, <3>1, WordsConcat
    <3>3. Reply!Words(SpokenBy(s) \o text) = Reply!Words(SpokenBy(s)) \o Reply!Words(text)
      BY <1>3, <1>5, WordsConcat
    <3>4. Reply!Words(SpokenBy(s) \o s.buffer) = Reply!Words(SpokenBy(s)) \o Reply!Words(s.buffer)
      BY <1>1, <1>5, WordsConcat
    <3> QED BY <1>2, <2>3, <2>5, <3>2, <3>3, <3>4 DEF Held
  <2>7. Held(r) = Held(s)
    <3>1. Reply!Words(SpokenBy(s)) \in Seq(Reply!Char) /\ Reply!Words(front) \in Seq(Reply!Char)
            /\ Reply!Words(rest) \in Seq(Reply!Char)
      BY <1>2, <1>5, WordsAreFlat
    <3> QED BY <1>3, <2>6, <3>1, ConcatAssociative
  <2>8. ASSUME SplitterOk(s) PROVE SplitterOk(r)
    <3>1. ~Reply!IsBlank(s.buffer)
      BY <1>3, <1>4, <1>8
    <3>2. \A i \in 1..Len(s.out) : s.out[i].index = i - 1 /\ ~Reply!IsBlank(s.out[i].text)
            /\ ~s.out[i].isLast
      BY <2>2, <2>8, <3>1 DEF SplitterOk
    <3>3. chunk.index = Len(s.out) /\ ~Reply!IsBlank(chunk.text)
            /\ (chunk.isLast => Reply!IsBlank(rest))
      BY <1>3, <1>8, <2>8 DEF SplitterOk, chunk
    <3>4. ASSUME NEW i \in DOMAIN r.out
          PROVE  /\ r.out[i].index = i - 1 /\ ~Reply!IsBlank(r.out[i].text)
                 /\ r.out[i].isLast => i = Len(r.out) /\ Reply!IsBlank(r.buffer)
      <4>1. CASE i \in 1..Len(s.out)
        BY <2>2, <2>3, <3>2, <4>1
      <4>2. CASE i = Len(s.out) + 1
        BY <2>2, <2>3, <3>3, <4>2
      <4> QED BY <2>2, <2>3, <4>1, <4>2
    <3>5. r.count = Len(r.out)
      BY <2>2, <2>3, <2>8 DEF SplitterOk
    <3> QED BY <2>4, <3>4, <3>5 DEF SplitterOk
  <2>9. ASSUME ~isLast, NoneIsLast(s) PROVE NoneIsLast(r)
    <3>1. ~chunk.isLast
      BY <2>9 DEF chunk
    <3>2. \A i \in 1..Len(s.out) : ~s.out[i].isLast
      BY <2>2, <2>9 DEF NoneIsLast
    <3>3. \A i \in DOMAIN o : i \in 1..Len(s.out) \/ i = Len(s.out) + 1
      BY <2>2
    <3> QED BY <2>2, <2>3, <3>1, <3>2, <3>3 DEF NoneIsLast
  <2> QED BY <2>3, <2>4, <2>7, <2>8, <2>9 DEF r, rest
<1> QED BY <1>7, <1>8 DEF r

\* ProcessBuffer is a loop: it ends because every round takes something off the buffer.
CutOf(s, flush) == Reply!SplitLength(s.buffer, s.count = 0, flush)
Cut(s, flush) ==
  Reply!EmitSentence(s, CutOf(s, flush),
                     flush /\ Reply!IsBlank(Reply!From(s.buffer, CutOf(s, flush))))
Rest(s, flush) == IF s.buffer # <<>>
    /\ flush THEN Reply!EmitSentence(s, Len(s.buffer), TRUE) ELSE s
Processes(f, flush) ==
  f = [s \in Reply!Splitter |->
         LET n == Reply!SplitLength(s.buffer, s.count = 0, flush) IN
         IF s.buffer = <<>> THEN s
         ELSE IF n > 0 THEN f[Reply!EmitSentence(s, n, flush /\ Reply!IsBlank(Reply!From(s.buffer, n)))]
         ELSE IF flush THEN Reply!EmitSentence(s, Len(s.buffer), TRUE) ELSE s]

\* A cut takes from the front of the buffer as many characters as were found.
LEMMA CutShortens ==
  ASSUME NEW s \in Reply!Splitter, NEW flush \in BOOLEAN
  PROVE  /\ CutOf(s, flush) \in 0..Len(s.buffer) /\ s.buffer \in Seq(Reply!Char)
            /\ Len(s.buffer) \in Nat
         /\ Cut(s, flush) \in Reply!Splitter
         /\ Len(Cut(s, flush).buffer) = Len(s.buffer) - CutOf(s, flush)
         /\ Rest(s, flush) \in Reply!Splitter
<1>1. s.buffer \in Seq(Reply!Char) /\ Len(s.buffer) \in Nat
  BY DEF Reply!Splitter
<1>2. CutOf(s, flush) \in 0..Len(s.buffer)
  BY <1>1, SplitsWithin DEF CutOf
<1>3. Cut(s, flush) \in Reply!Splitter
        /\ Cut(s, flush).buffer = Reply!From(s.buffer, CutOf(s, flush))
  <2>1. (flush /\ Reply!IsBlank(Reply!From(s.buffer, CutOf(s, flush)))) \in BOOLEAN
    BY DEF Reply!IsBlank
  <2> QED BY <1>2, <2>1, EmissionKeeps DEF Cut
<1>4. Rest(s, flush) \in Reply!Splitter
  <2>1. Len(s.buffer) \in 0..Len(s.buffer)
    BY <1>1
  <2> QED BY <2>1, EmissionKeeps DEF Rest
<1> QED BY <1>1, <1>2, <1>3, <1>4, CutInTwo

\* One round of ProcessBuffer: cut once and go on, or be done.
LEMMA ProcessBufferLoops ==
  ASSUME NEW s \in Reply!Splitter, NEW flush \in BOOLEAN
  PROVE  Reply!ProcessBuffer(s, flush) =
           IF s.buffer # <<>> /\ CutOf(s, flush) > 0 THEN Reply!ProcessBuffer(Cut(s, flush), flush)
           ELSE Rest(s, flush)
<1> DEFINE m == [x \in Reply!Splitter |-> Len(x.buffer)]
           stop == {x \in Reply!Splitter : ~(x.buffer # <<>> /\ CutOf(x, flush) > 0)}
           end == [x \in Reply!Splitter |-> Rest(x, flush)]
           next == [x \in Reply!Splitter |-> Cut(x, flush)]
           make == [x \in Reply!Splitter |-> [r \in Reply!Splitter |-> r]]
<1>1. m \in [Reply!Splitter -> Nat]
  BY CutShortens
<1>2. \A x \in Reply!Splitter : x \in stop => end[x] \in Reply!Splitter
  BY CutShortens
<1>3. ASSUME NEW x \in Reply!Splitter, x \notin stop
      PROVE  /\ next[x] \in Reply!Splitter /\ m[next[x]] < m[x]
             /\ \A r \in Reply!Splitter : make[x][r] \in Reply!Splitter
  <2>1. /\ CutOf(x, flush) \in 0..Len(x.buffer) /\ Len(x.buffer) \in Nat
        /\ Cut(x, flush) \in Reply!Splitter
        /\ Len(Cut(x, flush).buffer) = Len(x.buffer) - CutOf(x, flush)
    BY CutShortens
  <2>2. next[x] \in Reply!Splitter /\ m[next[x]] = Len(Cut(x, flush).buffer)
    BY <2>1
  <2>3. CutOf(x, flush) > 0
    BY <1>3
  <2> QED BY <2>1, <2>2, <2>3
<1>4. PICK f : Solves(f, Reply!Splitter, Reply!Splitter, stop, end, next, make)
  <2> HIDE DEF m, stop, end, next, make
  <2> QED BY <1>1, <1>2, <1>3, RecursionExists
<1>5. ASSUME NEW x \in Reply!Splitter
      PROVE  f[x] = IF x.buffer # <<>>
               /\ CutOf(x, flush) > 0 THEN f[Cut(x, flush)] ELSE Rest(x, flush)
  <2>1. f[x] = IF x \in stop THEN end[x] ELSE make[x][f[next[x]]]
    BY <1>4 DEF Solves
  <2>2. x \notin stop => make[x][f[next[x]]] = f[Cut(x, flush)]
    BY <1>3, <1>4 DEF Solves
  <2> QED BY <2>1, <2>2
<1>6. Processes(f, flush)
  <2> DEFINE g == [x \in Reply!Splitter |->
         LET n == Reply!SplitLength(x.buffer, x.count = 0, flush) IN
         IF x.buffer = <<>> THEN x
         ELSE IF n > 0 THEN f[Reply!EmitSentence(x, n, flush /\ Reply!IsBlank(Reply!From(x.buffer, n)))]
         ELSE IF flush THEN Reply!EmitSentence(x, Len(x.buffer), TRUE) ELSE x]
  <2>1. ASSUME NEW x \in Reply!Splitter PROVE g[x] = f[x]
    BY <1>5 DEF CutOf, Cut, Rest
  <2> HIDE DEF g
  <2>2. f = [x \in Reply!Splitter |-> f[x]]
    BY <1>4 DEF Solves
  <2>3. g = [x \in Reply!Splitter |-> g[x]]
    BY DEF g
  <2>4. f = g
    BY <2>1, <2>2, <2>3
  <2> QED BY <2>4 DEF Processes, g
<1> DEFINE h == CHOOSE g : Processes(g, flush)
<1>7. Processes(h, flush)
  BY <1>6
<1>8. \A x : Reply!ProcessBuffer(x, flush) = h[x]
  BY DEF Reply!ProcessBuffer, Processes
<1> HIDE DEF h
<1>9. h[s] = IF s.buffer # <<>> /\ CutOf(s, flush) > 0 THEN h[Cut(s, flush)] ELSE Rest(s, flush)
  <2>1. h[s] = LET n == Reply!SplitLength(s.buffer, s.count = 0, flush) IN
         IF s.buffer = <<>> THEN s
         ELSE IF n > 0 THEN h[Reply!EmitSentence(s, n, flush /\ Reply!IsBlank(Reply!From(s.buffer, n)))]
         ELSE IF flush THEN Reply!EmitSentence(s, Len(s.buffer), TRUE) ELSE s
    BY <1>7 DEF Processes
  <2> QED BY <2>1 DEF CutOf, Cut, Rest
<1> QED BY <1>8, <1>9

\* Whatever it cuts, nothing is dropped; flushed, the buffer is empty.
LEMMA ProcessBufferKeeps ==
  ASSUME NEW s \in Reply!Splitter, NEW flush \in BOOLEAN, SplitterOk(s), ~flush => NoneIsLast(s)
  PROVE  LET r == Reply!ProcessBuffer(s, flush) IN
         /\ r \in Reply!Splitter /\ SplitterOk(r) /\ Held(r) = Held(s)
         /\ ~flush => NoneIsLast(r)
         /\ flush => r.buffer = <<>>
<1> DEFINE Kept_(x, r) ==
             /\ r \in Reply!Splitter /\ SplitterOk(r) /\ Held(r) = Held(x)
             /\ ~flush => NoneIsLast(r)
             /\ flush => r.buffer = <<>>
           Fine(x) == SplitterOk(x) /\ (~flush => NoneIsLast(x))
           Good == {n \in Nat : \A x \in Reply!Splitter :
                      Len(x.buffer) = n /\ Fine(x) => Kept_(x, Reply!ProcessBuffer(x, flush))}
<1>1. ASSUME NEW n \in Nat, \A k \in Nat : k < n => k \in Good PROVE n \in Good
  <2>1. SUFFICES ASSUME NEW x \in Reply!Splitter, Len(x.buffer) = n, Fine(x)
                 PROVE  Kept_(x, Reply!ProcessBuffer(x, flush))
    OBVIOUS
  <2> DEFINE cut == CutOf(x, flush)
             last == flush /\ Reply!IsBlank(Reply!From(x.buffer, cut))
             y == Cut(x, flush)
  <2>2. /\ cut \in 0..Len(x.buffer) /\ x.buffer \in Seq(Reply!Char) /\ Len(x.buffer) \in Nat
        /\ y \in Reply!Splitter /\ Len(y.buffer) = Len(x.buffer) - cut
        /\ Rest(x, flush) \in Reply!Splitter
    BY CutShortens
  <2>3. last \in BOOLEAN /\ y = Reply!EmitSentence(x, cut, last)
    BY DEF Reply!IsBlank, Cut
  <2>0. flush = FALSE => last = FALSE
    OBVIOUS
  <2> HIDE DEF last, cut, y
  <2>4. Fine(y) /\ Held(y) = Held(x)
    <3>1. Held(y) = Held(x) /\ SplitterOk(y)
      BY <2>1, <2>2, <2>3, EmissionKeeps
    <3>2. ASSUME ~flush PROVE NoneIsLast(y)
      <4>1. ~last /\ NoneIsLast(x)
        BY <2>1, <2>0, <3>2
      <4> QED BY <2>2, <2>3, <4>1, EmissionKeeps
    <3> QED BY <3>1, <3>2
  <2>5. CASE x.buffer # <<>> /\ cut > 0
    <3>1. Reply!ProcessBuffer(x, flush) = Reply!ProcessBuffer(y, flush)
      BY <2>5, ProcessBufferLoops DEF y, cut
    <3>2. Len(y.buffer) \in Nat /\ Len(y.buffer) < n
      BY <2>1, <2>2, <2>5
    <3>3. Kept_(y, Reply!ProcessBuffer(y, flush))
      BY <1>1, <2>2, <2>4, <3>2
    <3> QED BY <2>4, <3>1, <3>3
  <2>6. CASE ~(x.buffer # <<>> /\ cut > 0)
    <3> DEFINE r == Rest(x, flush)
    <3>1. Reply!ProcessBuffer(x, flush) = r
      BY <2>6, ProcessBufferLoops DEF cut
    <3>2. CASE x.buffer # <<>> /\ flush
      <4>1. Len(x.buffer) \in 0..Len(x.buffer) /\ r = Reply!EmitSentence(x, Len(x.buffer), TRUE)
        BY <2>1, <3>2 DEF Rest
      <4>2. r \in Reply!Splitter /\ r.buffer = Reply!From(x.buffer, Len(x.buffer))
              /\ Held(r) = Held(x) /\ SplitterOk(r)
        BY <2>1, <4>1, EmissionKeeps
      <4>3. Reply!From(x.buffer, Len(x.buffer)) = <<>>
        BY <2>1 DEF Reply!From
      <4> QED BY <3>1, <3>2, <4>2, <4>3
    <3>3. CASE ~(x.buffer # <<>> /\ flush)
      <4>1. r = x
        BY <3>3 DEF Rest
      <4> QED BY <2>1, <3>1, <3>3, <4>1
    <3> QED BY <3>2, <3>3
  <2> QED BY <2>5, <2>6
<1> HIDE DEF Good
<1>2. Nat \subseteq Good
  BY <1>1, AllNaturals
<1>3. Len(s.buffer) \in Nat
  BY CutShortens
<1> QED BY <1>2, <1>3 DEF Good

\* The end of the stream leaves nothing in the buffer and drops nothing.
LEMMA FinalizeKeeps ==
  ASSUME NEW s \in Reply!Splitter, SplitterOk(s)
  PROVE  LET r == Reply!FinalizeStream(s) IN
         r \in Reply!Splitter /\ SplitterOk(r) /\ Held(r) = Held(s) /\ r.buffer = <<>>
<1> DEFINE r == Reply!ProcessBuffer(s, TRUE)
<1>1. r \in Reply!Splitter /\ SplitterOk(r) /\ Held(r) = Held(s) /\ r.buffer = <<>>
  BY ProcessBufferKeeps
<1> HIDE DEF r
<1>2. [r EXCEPT !.buffer = <<>>] = r
  BY <1>1 DEF Reply!Splitter
<1> QED BY <1>1, <1>2 DEF Reply!FinalizeStream, r

\* The text of one event is held behind what was held before, and no sentence is marked last.
LEMMA DeliveryKeeps ==
  ASSUME NEW s \in Reply!Splitter, NEW text \in Seq(Reply!Char), SplitterOk(s), NoneIsLast(s)
  PROVE  LET r == Reply!OnLlmChatDelta(s, text) IN
         /\ r \in Reply!Splitter /\ SplitterOk(r) /\ NoneIsLast(r)
         /\ Held(r) = Held(s) \o Reply!Words(text)
<1> DEFINE b == s.buffer \o text
           x == [s EXCEPT !.buffer = b]
<1>1. s.buffer \in Seq(Reply!Char) /\ SpokenBy(s) \in Seq(Reply!Char) /\ b \in Seq(Reply!Char)
  <2>1. s.buffer \in Seq(Reply!Char)
    BY DEF Reply!Splitter
  <2> QED BY <2>1, SpokenIsText, ConcatProperties
<1>2. x \in Reply!Splitter /\ x.buffer = b /\ x.out = s.out /\ x.count = s.count
  <2> HIDE DEF b
  <2> QED BY <1>1 DEF Reply!Splitter
<1>3. SplitterOk(x) /\ NoneIsLast(x)
  BY <1>2 DEF SplitterOk, NoneIsLast
<1>4. Held(x) = Held(s) \o Reply!Words(text)
  <2>1. SpokenBy(x) = SpokenBy(s)
    BY <1>2 DEF SpokenBy
  <2>2. SpokenBy(s) \o (s.buffer \o text) = (SpokenBy(s) \o s.buffer) \o text
    <3>1. \A a, c, d \in Seq(Reply!Char) : (a \o c) \o d = a \o (c \o d)
      BY ConcatAssociative
    <3> HIDE DEF x, b
    <3> QED BY <1>1, <3>1
  <2>3. SpokenBy(s) \o s.buffer \in Seq(Reply!Char)
    BY <1>1
  <2> QED BY <1>2, <2>1, <2>2, <2>3, WordsConcat DEF Held
<1> HIDE DEF x
<1> QED BY <1>2, <1>3, <1>4, ProcessBufferKeeps DEF Reply!OnLlmChatDelta, x

\* A fold over the texts: one delivery after the other.
IsDelivery(after, s, texts) ==
  /\ after[0] = s
  /\ \A i \in 1..Len(texts) : after[i] = Reply!OnLlmChatDelta(after[i - 1], texts[i])

Streaming == {x \in Reply!Splitter : SplitterOk(x) /\ NoneIsLast(x)}

\* Appended hands over the texts in order, however its fold picks them.
LEMMA AppendedIsDelivery ==
  ASSUME NEW s \in Streaming, NEW texts \in Seq(Seq(Reply!Char))
  PROVE  \E after : IsDelivery(after, s, texts) /\ Reply!Appended(s, texts) = after[Len(texts)]
<1> DEFINE n == Len(texts)
           D == DOMAIN texts
           Top(S) == CHOOSE x \in S : \A y \in S : x >= y
           IsIter(f) == f = [S \in SUBSET D |->
                               IF S = {} THEN s ELSE Reply!OnLlmChatDelta(f[S \ {Top(S)}], texts[Top(S)])]
           iter == CHOOSE f : IsIter(f)
           m == [S \in SUBSET D |-> Cardinality(S)]
           end == [S \in SUBSET D |-> s]
           next == [S \in SUBSET D |-> S \ {Top(S)}]
           make == [S \in SUBSET D |-> [r \in Streaming |-> Reply!OnLlmChatDelta(r, texts[Top(S)])]]
<1>1. Reply!Appended(s, texts) = iter[D]
  BY Zenon DEF Reply!Appended, Reply!FoldLeft, Reply!MapThenFoldSet, Reply!Max
<1>0. \A x \in Streaming, t \in Seq(Reply!Char) : Reply!OnLlmChatDelta(x, t) \in Streaming
  BY DeliveryKeeps DEF Streaming
<1>2. n \in Nat /\ D = 1..n /\ \A i \in D : texts[i] \in Seq(Reply!Char)
  BY ElementOfSeq
<1>3. ASSUME NEW S \in SUBSET D PROVE IsFiniteSet(S) /\ Cardinality(S) \in Nat
  <2>1. IsFiniteSet(D)
    BY <1>2, FS_Interval
  <2>2. IsFiniteSet(S)
    BY <2>1, FS_Subset
  <2> QED BY <2>2, FS_CardinalityType
<1>4. ASSUME NEW S \in SUBSET D, S # {} PROVE Top(S) \in S /\ \A y \in S : Top(S) >= y
  <2> DEFINE gaps == {n - i : i \in S}
  <2>1. gaps \in SUBSET Nat /\ gaps # {}
    BY <1>2, <1>4
  <2>2. PICK g \in gaps : \A h \in gaps : g <= h
    BY <2>1, LeastNatural
  <2>3. PICK i \in S : g = n - i
    BY <2>2
  <2>4. ASSUME NEW j \in S PROVE i >= j
    <3>1. n - j \in gaps /\ i \in Int /\ j \in Int
      BY <1>2
    <3>2. g <= n - j
      BY <2>2, <3>1
    <3> QED BY <1>2, <2>3, <3>1, <3>2
  <2> QED BY <2>4
<1> HIDE DEF Top
<1>5. m \in [SUBSET D -> Nat]
  BY <1>3
<1>6. \A S \in SUBSET D : S \in {{}} => end[S] \in Streaming
  OBVIOUS
<1>7. ASSUME NEW S \in SUBSET D, S \notin {{}}
      PROVE  /\ next[S] \in SUBSET D /\ m[next[S]] < m[S]
             /\ \A r \in Streaming : make[S][r] \in Streaming
  <2>1. Top(S) \in S /\ texts[Top(S)] \in Seq(Reply!Char)
    BY <1>2, <1>4, <1>7
  <2>2. Cardinality(S \ {Top(S)}) = Cardinality(S) - 1
    BY <1>3, <2>1, FS_RemoveElement
  <2>3. Cardinality(S \ {Top(S)}) < Cardinality(S)
    BY <1>3, <2>2
  <2> QED BY <1>0, <2>1, <2>3
<1>8. PICK f : Solves(f, SUBSET D, Streaming, {{}}, end, next, make)
  <2> HIDE DEF D, m, end, next, make
  <2> QED BY <1>5, <1>6, <1>7, RecursionExists
<1>9. ASSUME NEW S \in SUBSET D
      PROVE  f[S] = IF S = {} THEN s ELSE Reply!OnLlmChatDelta(f[S \ {Top(S)}], texts[Top(S)])
  <2>1. f[S] = IF S \in {{}} THEN end[S] ELSE make[S][f[next[S]]]
    BY <1>8 DEF Solves
  <2>2. S # {} => f[next[S]] \in Streaming /\ next[S] = S \ {Top(S)}
    BY <1>7, <1>8 DEF Solves
  <2> QED BY <2>1, <2>2
<1>10. IsIter(f)
  <2> DEFINE g == [S \in SUBSET D |->
                     IF S = {} THEN s ELSE Reply!OnLlmChatDelta(f[S \ {Top(S)}], texts[Top(S)])]
  <2>1. \A S \in SUBSET D : g[S] = f[S]
    BY <1>9
  <2> HIDE DEF g
  <2>2. f = [S \in SUBSET D |-> f[S]]
    BY <1>8 DEF Solves
  <2>3. g = [S \in SUBSET D |-> g[S]]
    BY DEF g
  <2>4. f = g
    BY <2>1, <2>2, <2>3
  <2> QED BY <2>4 DEF g
<1>11. IsIter(iter)
  <2> HIDE DEF IsIter
  <2> QED BY <1>10
<1> HIDE DEF iter
<1>12. \A S \in SUBSET D :
         iter[S] = IF S = {} THEN s ELSE Reply!OnLlmChatDelta(iter[S \ {Top(S)}], texts[Top(S)])
  BY <1>11
<1> DEFINE after == [i \in 0..n |-> iter[1..i]]
<1>13. after[0] = s
  <2>1. 1..0 = {} /\ {} \in SUBSET D /\ 0 \in 0..n
    BY <1>2
  <2> QED BY <1>12, <2>1
<1>14. ASSUME NEW i \in 1..n PROVE after[i] = Reply!OnLlmChatDelta(after[i - 1], texts[i])
  <2>1. 1..i \in SUBSET D /\ 1..i # {}
    <3>1. 1..i \subseteq 1..n /\ i \in 1..i
      BY <1>2
    <3> QED BY <1>2, <3>1
  <2>2. Top(1..i) = i
    <3>1. Top(1..i) \in 1..i /\ \A y \in 1..i : Top(1..i) >= y
      BY <1>4, <2>1
    <3>2. i \in 1..i /\ i \in Int
      BY <1>2
    <3> QED BY <3>1, <3>2
  <2>3. (1..i) \ {i} = 1..(i - 1)
    BY <1>2
  <2>4. i \in 0..n /\ i - 1 \in 0..n
    BY <1>2
  <2> QED BY <1>12, <2>1, <2>2, <2>3, <2>4
<1>15. Reply!Appended(s, texts) = after[n]
  <2>1. n \in 0..n
    BY <1>2
  <2> QED BY <1>1, <1>2, <2>1
<1> HIDE DEF after
<1> QED BY <1>13, <1>14, <1>15 DEF IsDelivery

\* What the events bring is held behind what was held before.
LEMMA AppendedKeeps ==
  ASSUME NEW s \in Streaming, NEW texts \in Seq(Seq(Reply!Char))
  PROVE  /\ Reply!Appended(s, texts) \in Streaming
         /\ Held(Reply!Appended(s, texts)) = Held(s) \o Reply!Words(Reply!FlattenSeq(texts))
<1> DEFINE n == Len(texts)
           Front_(i) == SubSeq(texts, 1, i)
           Kept_(r, i) == r \in Streaming
               /\ Held(r) = Held(s) \o Reply!Words(Reply!FlattenSeq(Front_(i)))
<1>1. PICK after : IsDelivery(after, s, texts) /\ Reply!Appended(s, texts) = after[n]
  BY AppendedIsDelivery
<1>2. n \in Nat /\ \A i \in 1..n : texts[i] \in Seq(Reply!Char)
  BY ElementOfSeq
<1>3. Held(s) \in Seq(Reply!Char)
  <2>1. s \in Reply!Splitter /\ s.buffer \in Seq(Reply!Char)
    BY DEF Streaming, Reply!Splitter
  <2>2. SpokenBy(s) \o s.buffer \in Seq(Reply!Char)
    BY <2>1, SpokenIsText, ConcatProperties
  <2> QED BY <2>2, WordsAreFlat DEF Held
<1>4. \A i \in 0..n : Front_(i) \in Seq(Seq(Reply!Char))
        /\ Reply!FlattenSeq(Front_(i)) \in Seq(Reply!Char)
  <2>1. \A i \in 0..n : Front_(i) \in Seq(Seq(Reply!Char))
    BY <1>2
  <2>2. <<>> \in Seq(Reply!Char)
    OBVIOUS
  <2> QED BY <2>1, <2>2, FlattenAppend
<1> DEFINE Good == {i \in Nat : i \in 0..n => Kept_(after[i], i)}
<1>5. ASSUME NEW i \in Nat, \A k \in Nat : k < i => k \in Good PROVE i \in Good
  <2>1. SUFFICES ASSUME i \in 0..n PROVE Kept_(after[i], i)
    OBVIOUS
  <2>2. CASE i = 0
    <3>1. after[i] = s
      BY <1>1, <2>2 DEF IsDelivery
    <3>2. Reply!FlattenSeq(Front_(i)) = <<>>
      <4>1. Front_(i) = <<>>
        BY <2>2
      <4> QED BY <4>1, FlattenNothing
    <3>3. Reply!Words(<<>>) = <<>>
      <4>1. <<>> \in Seq(Reply!Char) /\ Reply!IsBlank(<<>>)
        BY DEF Reply!IsBlank
      <4> QED BY <4>1, BlankHasNoWords
    <3>4. Held(s) \o <<>> = Held(s)
      BY <1>3
    <3> QED BY <3>1, <3>2, <3>3, <3>4
  <2>3. CASE i # 0
    <3> DEFINE old == after[i - 1]
               text == texts[i]
    <3>1. i \in 1..n /\ i - 1 \in 0..n /\ i - 1 \in Nat /\ i - 1 < i
      BY <1>2, <2>1, <2>3
    <3>2. Kept_(old, i - 1)
      BY <1>5, <3>1
    <3>3. after[i] = Reply!OnLlmChatDelta(old, text) /\ text \in Seq(Reply!Char)
      BY <1>1, <1>2, <3>1 DEF IsDelivery
    <3>4. Front_(i) = Append(Front_(i - 1), text)
      BY <1>2, <3>1
    <3> HIDE DEF old, text
    <3>5. after[i] \in Streaming /\ Held(after[i]) = Held(old) \o Reply!Words(text)
      BY <3>2, <3>3, DeliveryKeeps DEF Streaming
    <3>6. Reply!FlattenSeq(Front_(i)) = Reply!FlattenSeq(Front_(i - 1)) \o text
            /\ Reply!FlattenSeq(Front_(i - 1)) \in Seq(Reply!Char)
      <4> HIDE DEF Front_
      <4> QED BY <1>4, <3>1, <3>3, <3>4, FlattenAppend
    <3> HIDE DEF Front_
    <3>7. Reply!Words(Reply!FlattenSeq(Front_(i)))
            = Reply!Words(Reply!FlattenSeq(Front_(i - 1))) \o Reply!Words(text)
      BY <3>3, <3>6, WordsConcat
    <3>8. Reply!Words(Reply!FlattenSeq(Front_(i - 1))) \in Seq(Reply!Char)
            /\ Reply!Words(text) \in Seq(Reply!Char)
      BY <3>3, <3>6, WordsAreFlat
    <3>9. (Held(s) \o Reply!Words(Reply!FlattenSeq(Front_(i - 1)))) \o Reply!Words(text)
            = Held(s) \o (Reply!Words(Reply!FlattenSeq(Front_(i - 1))) \o Reply!Words(text))
      BY <1>3, <3>8, ConcatAssociative
    <3> QED BY <3>2, <3>5, <3>7, <3>9
  <2> QED BY <2>2, <2>3
<1> HIDE DEF Good
<1>6. Nat \subseteq Good
  BY <1>5, AllNaturals
<1>7. Kept_(after[n], n)
  BY <1>2, <1>6 DEF Good
<1>8. Front_(n) = texts
  OBVIOUS
<1> QED BY <1>1, <1>7, <1>8

-----------------------------------------------------------------------------
(* LlmClient: the texts of the events *)

Piece == {"head", "tail", "newline"} \X Seq(Reply!Char)
TextAt(buffer, flush, i) ==
  IF i > 1 /\ buffer[i][1] = "tail" /\ (flush \/ i < Len(buffer)) THEN <<buffer[i][2]>> ELSE <<>>
TextsAt(buffer, flush) == [i \in DOMAIN buffer |-> TextAt(buffer, flush, i)]
\* All the text a buffer holds, and the text it gives before its last line has ended.
AllOf(buffer) == Reply!FlattenSeq(Reply!Texts(buffer, TRUE))
EndedOf(buffer) == Reply!FlattenSeq(Reply!Texts(buffer, FALSE))

\* The texts of the events are texts.
LEMMA TextsAreFlat ==
  ASSUME NEW buffer \in Seq(Piece), NEW flush \in BOOLEAN
  PROVE  /\ TextsAt(buffer, flush) \in Seq(Seq(Seq(Reply!Char)))
         /\ Len(TextsAt(buffer, flush)) = Len(buffer)
         /\ Reply!Texts(buffer, flush) = Reply!FlattenSeq(TextsAt(buffer, flush))
         /\ Reply!Texts(buffer, flush) \in Seq(Seq(Reply!Char))
         /\ Reply!FlattenSeq(Reply!Texts(buffer, flush)) \in Seq(Reply!Char)
<1>1. Len(buffer) \in Nat /\ DOMAIN buffer = 1..Len(buffer)
      /\ \A i \in DOMAIN buffer : buffer[i] \in Piece
  BY ElementOfSeq, LenProperties
<1>2. \A i \in DOMAIN buffer : TextAt(buffer, flush, i) \in Seq(Seq(Reply!Char))
  BY <1>1 DEF TextAt, Piece
<1>3. /\ TextsAt(buffer, flush) \in Seq(Seq(Seq(Reply!Char)))
      /\ Len(TextsAt(buffer, flush)) = Len(buffer)
  BY <1>1, <1>2 DEF TextsAt
<1>4. Reply!Texts(buffer, flush) = Reply!FlattenSeq(TextsAt(buffer, flush))
  BY DEF Reply!Texts, TextsAt, TextAt
<1>5. <<>> \in Seq(Seq(Reply!Char)) /\ <<>> \in Seq(Reply!Char)
  OBVIOUS
<1>6. Reply!Texts(buffer, flush) \in Seq(Seq(Reply!Char))
  BY <1>3, <1>4, <1>5, FlattenAppend
<1> QED BY <1>3, <1>4, <1>5, <1>6, FlattenAppend

\* Nothing, one thing, and the piece that ends a line.
LEMMA NothingBehind ==
  ASSUME NEW S, NEW t \in Seq(S) PROVE t \o <<>> = t
OBVIOUS
LEMMA OneBehind ==
  ASSUME NEW S, NEW t \in Seq(S), NEW e \in S PROVE t \o <<e>> = Append(t, e)
OBVIOUS
LEMMA NewlineIsPiece == <<"newline", <<>>>> \in Piece
<1>1. <<>> \in Seq(Reply!Char)
  OBVIOUS
<1> QED BY <1>1 DEF Piece

\* A piece more: what was there is ended or not as before the piece, which brings a text if it
\* is the tail of a line that was begun.
LEMMA OnePieceMore ==
  ASSUME NEW buffer \in Seq(Piece), NEW p \in Piece
  PROVE  /\ Append(buffer, p) \in Seq(Piece)
         /\ EndedOf(Append(buffer, p)) = AllOf(buffer)
         /\ p[1] # "tail" \/ buffer = <<>> => AllOf(Append(buffer, p)) = AllOf(buffer)
         /\ p[1] = "tail" /\ buffer # <<>> =>
              AllOf(Append(buffer, p)) = AllOf(buffer) \o p[2]
<1> DEFINE more == Append(buffer, p)
           new == TextAt(more, TRUE, Len(buffer) + 1)
<1>1. /\ more \in Seq(Piece) /\ Len(more) = Len(buffer) + 1 /\ Len(buffer) \in Nat
      /\ \A i \in 1..Len(buffer) : more[i] = buffer[i]
      /\ more[Len(buffer) + 1] = p
      /\ DOMAIN more = 1..(Len(buffer) + 1) /\ DOMAIN buffer = 1..Len(buffer)
  BY AppendProperties, LenProperties
<1> HIDE DEF more
<1>2. new \in Seq(Seq(Reply!Char)) /\ p[2] \in Seq(Reply!Char)
  BY <1>1 DEF TextAt, Piece
<1>3. /\ TextsAt(buffer, TRUE) \in Seq(Seq(Seq(Reply!Char)))
      /\ Len(TextsAt(buffer, TRUE)) = Len(buffer)
      /\ Reply!Texts(buffer, TRUE) = Reply!FlattenSeq(TextsAt(buffer, TRUE))
      /\ Reply!Texts(buffer, TRUE) \in Seq(Seq(Reply!Char))
  BY TextsAreFlat
<1>4. ASSUME NEW flush \in BOOLEAN
      PROVE  /\ TextsAt(more, flush) \in Seq(Seq(Seq(Reply!Char)))
             /\ Len(TextsAt(more, flush)) = Len(buffer) + 1
             /\ Reply!Texts(more, flush) = Reply!FlattenSeq(TextsAt(more, flush))
  BY <1>1, TextsAreFlat
<1>5. ASSUME NEW flush \in BOOLEAN, NEW last \in Seq(Seq(Reply!Char)),
             last = TextAt(more, flush, Len(buffer) + 1)
      PROVE  Reply!Texts(more, flush) = Reply!Texts(buffer, TRUE) \o last
  <2> DEFINE early == TextsAt(buffer, TRUE)
             joined == Append(early, last)
  <2>0. early \in Seq(Seq(Seq(Reply!Char))) /\ Len(early) = Len(buffer)
    BY <1>3
  <2>1. /\ joined \in Seq(Seq(Seq(Reply!Char))) /\ Len(joined) = Len(buffer) + 1
        /\ \A i \in 1..Len(buffer) : joined[i] = TextsAt(buffer, TRUE)[i]
        /\ joined[Len(buffer) + 1] = last
    <3> HIDE DEF early
    <3>1. /\ joined \in Seq(Seq(Seq(Reply!Char))) /\ Len(joined) = Len(early) + 1
          /\ \A i \in 1..Len(early) : joined[i] = early[i]
          /\ joined[Len(early) + 1] = last
      BY <2>0, AppendProperties
    <3> QED BY <2>0, <3>1 DEF early
  <2> HIDE DEF joined
  <2>2. ASSUME NEW i \in 1..(Len(buffer) + 1) PROVE TextsAt(more, flush)[i] = joined[i]
    <3>1. CASE i = Len(buffer) + 1
      BY <1>1, <1>5, <2>1, <3>1 DEF TextsAt
    <3>2. CASE i \in 1..Len(buffer)
      <4>1. more[i] = buffer[i] /\ i < Len(more)
        BY <1>1, <3>2
      <4>2. TextAt(more, flush, i) = TextAt(buffer, TRUE, i)
        BY <4>1 DEF TextAt
      <4> QED BY <1>1, <2>1, <3>2, <4>2 DEF TextsAt
    <3> QED BY <1>1, <3>1, <3>2
  <2>3. TextsAt(more, flush) = joined
    BY <1>4, <2>1, <2>2, SeqEqual
  <2> QED BY <1>3, <1>4, <1>5, <2>3, FlattenAppend DEF joined
<1>6. Reply!Texts(more, FALSE) = Reply!Texts(buffer, TRUE)
  <2>1. TextAt(more, FALSE, Len(buffer) + 1) = <<>> /\ <<>> \in Seq(Seq(Reply!Char))
    BY <1>1 DEF TextAt
  <2>2. Reply!Texts(more, FALSE) = Reply!Texts(buffer, TRUE) \o <<>>
    BY <1>5, <2>1
  <2> QED BY <1>3, <2>2, NothingBehind
<1>7. Reply!Texts(more, TRUE) = Reply!Texts(buffer, TRUE) \o new
  <2> HIDE DEF new
  <2> QED BY <1>2, <1>5 DEF new
<1>8. ASSUME p[1] # "tail" \/ buffer = <<>>
      PROVE  Reply!Texts(more, TRUE) = Reply!Texts(buffer, TRUE)
  <2>1. new = <<>>
    BY <1>1, <1>8 DEF TextAt
  <2> HIDE DEF new
  <2> QED BY <1>3, <1>7, <2>1, NothingBehind
<1>9. ASSUME p[1] = "tail", buffer # <<>>
      PROVE  AllOf(more) = AllOf(buffer) \o p[2]
  <2>1. new = <<p[2]>>
    <3>1. Len(buffer) + 1 > 1
      BY <1>1, <1>9
    <3> QED BY <1>1, <1>9, <3>1 DEF TextAt
  <2> HIDE DEF new
  <2>2. Reply!Texts(more, TRUE) = Append(Reply!Texts(buffer, TRUE), p[2])
    BY <1>2, <1>3, <1>7, <2>1, OneBehind
  <2> QED BY <1>2, <1>3, <2>2, FlattenAppend DEF AllOf
<1> QED BY <1>1, <1>6, <1>8, <1>9 DEF more, AllOf, EndedOf

LEMMA NoPieceNoText == <<>> \in Seq(Piece) /\ AllOf(<<>>) = <<>>
<1>1. <<>> \in Seq(Piece) /\ Len(<<>>) = 0
  OBVIOUS
<1>2. Len(TextsAt(<<>>, TRUE)) = 0 /\ TextsAt(<<>>, TRUE) \in Seq(Seq(Seq(Reply!Char)))
  BY <1>1, TextsAreFlat
<1>3. TextsAt(<<>>, TRUE) = <<>>
  BY <1>2, EmptySeq
<1>4. Reply!Texts(<<>>, TRUE) = <<>>
  BY <1>1, <1>3, TextsAreFlat, FlattenNothing
<1> QED BY <1>1, <1>4, FlattenNothing DEF AllOf

\* A sequence that is not empty has a last element.
LEMMA LastPiece ==
  ASSUME NEW S, NEW buffer \in Seq(S), buffer # <<>>
  PROVE  /\ Reply!Front(buffer) \in Seq(S) /\ Reply!Last(buffer) \in S
         /\ buffer = Append(Reply!Front(buffer), Reply!Last(buffer))
         /\ Len(Reply!Front(buffer)) = Len(buffer) - 1 /\ Len(buffer) \in Nat
<1> DEFINE n == Len(buffer)
<1>1. n \in Nat /\ n > 0
  BY EmptySeq
<1>2. SubSeq(buffer, 1, n - 1) \in Seq(S) /\ Len(SubSeq(buffer, 1, n - 1)) = n - 1
  <2>1. 1 \in Int /\ n - 1 \in Int /\ \A i \in 1..(n - 1) : buffer[i] \in S
    BY <1>1
  <2>2. /\ SubSeq(buffer, 1, n - 1) \in Seq(S)
        /\ Len(SubSeq(buffer, 1, n - 1)) = IF 1 <= n - 1 THEN n - 1 - 1 + 1 ELSE 0
    <3> HIDE DEF n
    <3> QED BY <2>1, SubSeqProperties
  <2> HIDE DEF n
  <2> QED BY <1>1, <2>2
<1>3. buffer[n] \in S
  BY <1>1
<1>4. buffer = Append(SubSeq(buffer, 1, n - 1), buffer[n])
  BY <1>1
<1> QED BY <1>1, <1>2, <1>3, <1>4 DEF Reply!Front, Reply!Last

\* A tail is never the first piece of a buffer.
Begun(buffer) == buffer # <<>> /\ Reply!Last(buffer)[1] = "tail" => Len(buffer) >= 2

\* What is kept of a buffer is the text of the line that has not ended.
LEMMA KeptIsTheRest ==
  ASSUME NEW buffer \in Seq(Piece), Begun(buffer)
  PROVE  /\ Reply!Kept(buffer) \in Seq(Piece) /\ Begun(Reply!Kept(buffer))
         /\ AllOf(buffer) = EndedOf(buffer) \o AllOf(Reply!Kept(buffer))
         /\ buffer # <<>> /\ Reply!Last(buffer)[1] # "newline" =>
              Reply!Kept(buffer) # <<>> /\ Reply!Last(Reply!Kept(buffer)) = Reply!Last(buffer)
<1> DEFINE c == Reply!Front(buffer)
           p == Reply!Last(buffer)
<1>0. /\ AllOf(buffer) \in Seq(Reply!Char) /\ EndedOf(buffer) \in Seq(Reply!Char)
      /\ \A t \in Seq(Reply!Char) : t \o <<>> = t
  BY TextsAreFlat, NothingBehind DEF AllOf, EndedOf
<1>1. CASE buffer = <<>>
  <2>1. Reply!Kept(buffer) = <<>>
    BY <1>1 DEF Reply!Kept
  <2>2. Reply!Texts(buffer, TRUE) = Reply!Texts(buffer, FALSE)
    <3>1. /\ Len(TextsAt(buffer, TRUE)) = 0 /\ TextsAt(buffer, TRUE) \in Seq(Seq(Seq(Reply!Char)))
          /\ Len(TextsAt(buffer, FALSE)) = 0
          /\ TextsAt(buffer, FALSE) \in Seq(Seq(Seq(Reply!Char)))
      BY <1>1, TextsAreFlat
    <3>2. TextsAt(buffer, TRUE) = <<>> /\ TextsAt(buffer, FALSE) = <<>>
      BY <3>1, EmptySeq
    <3> QED BY <3>2, TextsAreFlat
  <2> QED BY <1>0, <1>1, <2>1, <2>2, NoPieceNoText DEF AllOf, EndedOf, Begun
<1>2. CASE buffer # <<>>
  <2>1. /\ c \in Seq(Piece) /\ p \in Piece /\ buffer = Append(c, p) /\ Len(c) = Len(buffer) - 1
        /\ Len(buffer) \in Nat
    BY <1>2, LastPiece
  <2>2. /\ EndedOf(buffer) = AllOf(c)
        /\ p[1] # "tail" => AllOf(buffer) = AllOf(c)
        /\ p[1] = "tail" /\ c # <<>> => AllOf(buffer) = AllOf(c) \o p[2]
    <3> HIDE DEF c, p
    <3> QED BY <2>1, OnePieceMore
  <2>3. CASE p[1] = "newline"
    <3>1. Reply!Kept(buffer) = <<>>
      BY <2>3 DEF Reply!Kept
    <3> QED BY <1>0, <2>2, <2>3, <3>1, NoPieceNoText DEF Begun
  <2>4. CASE p[1] = "head"
    <3> DEFINE k == <<p>>
    <3>1. Reply!Kept(buffer) = k
      BY <1>2, <2>4 DEF Reply!Kept
    <3>2. k = Append(<<>>, p) /\ k # <<>> /\ Reply!Last(k) = p
      BY DEF Reply!Last
    <3>3. k \in Seq(Piece) /\ AllOf(k) = <<>>
      <4> HIDE DEF p
      <4> QED BY <2>1, <3>2, OnePieceMore, NoPieceNoText
    <3> HIDE DEF k
    <3>4. Begun(k)
      BY <2>4, <3>2 DEF Begun
    <3> QED BY <1>0, <2>2, <2>4, <3>1, <3>2, <3>3, <3>4
  <2>5. CASE p[1] = "tail"
    <3> DEFINE q == Reply!Last(c)
               k == <<q, p>>
    <3>1. c # <<>>
      BY <1>2, <2>1, <2>5 DEF Begun
    <3>2. q \in Piece
      BY <2>1, <3>1, LastPiece
    <3>3. Reply!Kept(buffer) = k
      BY <1>2, <2>5 DEF Reply!Kept
    <3>4. k = Append(Append(<<>>, q), p) /\ k # <<>> /\ Reply!Last(k) = p /\ Len(k) = 2
          /\ Append(<<>>, q) # <<>>
      BY DEF Reply!Last
    <3>5. k \in Seq(Piece) /\ AllOf(k) = <<>> \o p[2]
      <4> HIDE DEF p, q, k
      <4>1. Append(<<>>, q) \in Seq(Piece) /\ AllOf(Append(<<>>, q)) = <<>>
        BY <3>2, OnePieceMore, NoPieceNoText
      <4> QED BY <2>1, <2>5, <3>4, <4>1, OnePieceMore
    <3>6. p[2] \in Seq(Reply!Char)
      BY <2>1 DEF Piece
    <3> HIDE DEF q, k
    <3>7. <<>> \o p[2] = p[2]
      <4> DEFINE t == p[2]
      <4>1. t \in Seq(Reply!Char)
        BY <3>6
      <4> HIDE DEF t
      <4>2. <<>> \o t = t
        BY <4>1
      <4> QED BY <4>2 DEF t
    <3>8. AllOf(buffer) = EndedOf(buffer) \o AllOf(k)
      BY <2>2, <2>5, <3>1, <3>5, <3>7
    <3>9. Begun(k)
      BY <3>4 DEF Begun
    <3> QED BY <3>3, <3>4, <3>5, <3>8, <3>9
  <2> QED BY <2>1, <2>3, <2>4, <2>5 DEF Piece
<1> QED BY <1>1, <1>2

\* The text that would be lost with the unread pieces.
LostAt(p) == IF p[1] = "tail" THEN p[2] ELSE <<>>
LostBy(pieces) == Reply!FlattenSeq([i \in DOMAIN pieces |-> LostAt(pieces[i])])

LEMMA LostMore ==
  ASSUME NEW pieces \in Seq(Piece), NEW p \in Piece
  PROVE  /\ LostBy(pieces) \in Seq(Reply!Char) /\ LostBy(<<>>) = <<>>
         /\ LostBy(Append(pieces, p)) = LostBy(pieces) \o LostAt(p)
<1> DEFINE more == Append(pieces, p)
           At(x) == [i \in DOMAIN x |-> LostAt(x[i])]
           joined == Append(At(pieces), LostAt(p))
<1>1. /\ more \in Seq(Piece) /\ Len(more) = Len(pieces) + 1 /\ Len(pieces) \in Nat
      /\ \A i \in 1..Len(pieces) : more[i] = pieces[i] /\ pieces[i] \in Piece
      /\ more[Len(pieces) + 1] = p
      /\ DOMAIN more = 1..(Len(pieces) + 1) /\ DOMAIN pieces = 1..Len(pieces)
  BY AppendProperties, LenProperties, ElementOfSeq
<1>2. \A x \in Piece : LostAt(x) \in Seq(Reply!Char)
  BY DEF LostAt, Piece
<1> HIDE DEF more
<1>3. /\ At(pieces) \in Seq(Seq(Reply!Char)) /\ Len(At(pieces)) = Len(pieces)
      /\ At(more) \in Seq(Seq(Reply!Char)) /\ Len(At(more)) = Len(pieces) + 1
  <2>1. \A i \in 1..(Len(pieces) + 1) : more[i] \in Piece
    BY <1>1
  <2> QED BY <1>1, <1>2, <2>1
<1>4. /\ joined \in Seq(Seq(Reply!Char)) /\ Len(joined) = Len(pieces) + 1
      /\ \A i \in 1..Len(pieces) : joined[i] = At(pieces)[i]
      /\ joined[Len(pieces) + 1] = LostAt(p)
  BY <1>2, <1>3, AppendProperties
<1> HIDE DEF joined
<1>5. ASSUME NEW i \in 1..(Len(pieces) + 1) PROVE At(more)[i] = joined[i]
  <2>1. CASE i = Len(pieces) + 1
    BY <1>1, <1>4, <2>1
  <2>2. CASE i \in 1..Len(pieces)
    BY <1>1, <1>4, <2>2
  <2> QED BY <1>1, <2>1, <2>2
<1>6. At(more) = joined
  <2> HIDE DEF At
  <2> QED BY <1>3, <1>4, <1>5, SeqEqual
<1>7. LostBy(<<>>) = <<>>
  <2>1. [i \in DOMAIN <<>> |-> LostAt(<<>>[i])] = <<>>
    OBVIOUS
  <2> QED BY <2>1, FlattenNothing DEF LostBy
<1>8. /\ Reply!FlattenSeq(At(pieces)) \in Seq(Reply!Char)
      /\ Reply!FlattenSeq(joined) = Reply!FlattenSeq(At(pieces)) \o LostAt(p)
  <2> HIDE DEF At
  <2> QED BY <1>2, <1>3, FlattenAppend DEF joined
<1> QED BY <1>6, <1>7, <1>8 DEF LostBy, more

-----------------------------------------------------------------------------
(* The whole way *)

\* What has arrived and was not yet passed on, and the way of a reply: what is held are the words
\* of the text, and what is unheard brings that text to what was sent; so do the events that are
\* read but not ended with those that are unread.
Unheard == client.buffer \o unread

ReplyInv ==
  /\ sent \in Seq(Reply!Char) /\ unread \in Seq(Piece)
  /\ client \in [buffer : Seq(Piece), text : Seq(Reply!Char)]
  /\ splitter \in Reply!Splitter /\ SplitterOk(splitter)
  /\ Held(splitter) = Reply!Words(client.text)
  /\ phase \in Reply!Ends \cup {"streaming"}
  /\ phase = "streaming" =>
       /\ NoneIsLast(splitter)
       /\ sent = client.text \o AllOf(Unheard)
       /\ sent = (client.text \o AllOf(client.buffer)) \o LostBy(unread)
       /\ Begun(Unheard)
       /\ line # <<>> => line \in Piece /\ Unheard # <<>> /\ Reply!Last(Unheard)[1] # "newline"
  /\ phase \in {"completed", "failed"} => client.text = sent
  /\ phase = "aborted" => sent = client.text \o LostBy(unread)
  /\ phase # "streaming" => splitter.buffer = <<>>

\* Nothing is sent, held or unread at the start.
LEMMA ReplyStarts == Reply!Init => ReplyInv
<1> SUFFICES ASSUME Reply!Init PROVE ReplyInv
  OBVIOUS
<1>1. <<>> \in Seq(Piece) /\ AllOf(<<>>) = <<>> /\ LostBy(<<>>) = <<>>
  <2>1. [i \in DOMAIN <<>> |-> LostAt(<<>>[i])] = <<>>
    OBVIOUS
  <2> QED BY <2>1, NoPieceNoText, FlattenNothing DEF LostBy
<1>2. Reply!Words(<<>>) = <<>>
  <2>1. <<>> \in Seq(Reply!Char) /\ Reply!IsBlank(<<>>)
    BY DEF Reply!IsBlank
  <2> QED BY <2>1, BlankHasNoWords
<1>3. /\ splitter \in Reply!Splitter /\ splitter.out = <<>> /\ splitter.buffer = <<>>
         /\ splitter.count = 0
  BY DEF Reply!Init, Reply!Splitter
<1>4. SpokenBy(splitter) = <<>>
  <2>1. [i \in DOMAIN splitter.out |-> splitter.out[i].text] = <<>>
    BY <1>3
  <2> QED BY <2>1, FlattenNothing DEF SpokenBy
<1>5. Held(splitter) = <<>>
  BY <1>2, <1>3, <1>4 DEF Held
<1>6. SplitterOk(splitter) /\ NoneIsLast(splitter)
  BY <1>3 DEF SplitterOk, NoneIsLast
<1>7. Unheard = <<>> /\ Begun(<<>>)
  BY DEF Reply!Init, Unheard, Begun
<1> QED BY <1>1, <1>2, <1>3, <1>5, <1>6, <1>7 DEF ReplyInv, Reply!Init, Reply!Ends

\* Whatever part of what has arrived is passed on, the splitter holds its words.
LEMMA HeardIsHeld ==
  ASSUME ReplyInv, phase = "streaming", NEW buffer \in Seq(Piece), NEW flush \in BOOLEAN
  PROVE  LET texts == Reply!Texts(buffer, flush)
             heard == client.text \o Reply!FlattenSeq(texts)
             s == Reply!Appended(splitter, texts)
         IN /\ heard \in Seq(Reply!Char) /\ s \in Streaming /\ Held(s) = Reply!Words(heard)
<1> DEFINE texts == Reply!Texts(buffer, flush)
           heard == client.text \o Reply!FlattenSeq(texts)
           s == Reply!Appended(splitter, texts)
<1>1. texts \in Seq(Seq(Reply!Char)) /\ Reply!FlattenSeq(texts) \in Seq(Reply!Char)
  BY TextsAreFlat
<1>2. client.text \in Seq(Reply!Char) /\ splitter \in Streaming
      /\ Held(splitter) = Reply!Words(client.text)
  BY DEF ReplyInv, Streaming
<1> HIDE DEF texts
<1>3. s \in Streaming /\ Held(s) = Held(splitter) \o Reply!Words(Reply!FlattenSeq(texts))
  BY <1>1, <1>2, AppendedKeeps
<1>4. Reply!Words(heard) = Reply!Words(client.text) \o Reply!Words(Reply!FlattenSeq(texts))
  BY <1>1, <1>2, WordsConcat
<1>5. heard \in Seq(Reply!Char)
  BY <1>1, <1>2
<1> QED BY <1>2, <1>3, <1>4, <1>5 DEF texts

\* Every move of the server and of the client keeps it.
LEMMA ReplyKeeps == ReplyInv /\ [Reply!Next]_replyVars => ReplyInv'
<1> SUFFICES ASSUME ReplyInv, [Reply!Next]_replyVars PROVE ReplyInv'
  OBVIOUS
<1>1. CASE UNCHANGED replyVars
  BY <1>1 DEF replyVars, ReplyInv, Unheard
<1>2. /\ client.buffer \in Seq(Piece) /\ client.text \in Seq(Reply!Char)
      /\ unread \in Seq(Piece) /\ Unheard \in Seq(Piece) /\ sent \in Seq(Reply!Char)
      /\ client = [buffer |-> client.buffer, text |-> client.text]
  BY DEF ReplyInv, Unheard
<1>3. /\ AllOf(Unheard) \in Seq(Reply!Char) /\ EndedOf(Unheard) \in Seq(Reply!Char)
      /\ AllOf(client.buffer) \in Seq(Reply!Char) /\ LostBy(unread) \in Seq(Reply!Char)
  <2> QED BY <1>2, NewlineIsPiece, TextsAreFlat, LostMore DEF AllOf, EndedOf
<1>4. \A t \in Seq(Reply!Char) : t \o <<>> = t
  OBVIOUS
<1>5. CASE Reply!OnReplyReadyRead
  <2> DEFINE k == Reply!Kept(Unheard)
             heard == client.text \o EndedOf(Unheard)
             s == Reply!Appended(splitter, Reply!Texts(Unheard, FALSE))
  <2>1. /\ phase = "streaming" /\ unread' = <<>> /\ sent' = sent /\ line' = line /\ phase' = phase
        /\ client' = [buffer |-> k, text |-> heard] /\ splitter' = s
    BY <1>5 DEF Reply!OnReplyReadyRead, Unheard, EndedOf
  <2>2. heard \in Seq(Reply!Char) /\ s \in Streaming /\ Held(s) = Reply!Words(heard)
    BY <1>2, <2>1, HeardIsHeld DEF EndedOf
  <2>3. /\ Begun(Unheard) /\ sent = client.text \o AllOf(Unheard)
        /\ line # <<>> => line \in Piece /\ Unheard # <<>> /\ Reply!Last(Unheard)[1] # "newline"
    BY <2>1 DEF ReplyInv
  <2>4. /\ k \in Seq(Piece) /\ Begun(k) /\ AllOf(Unheard) = EndedOf(Unheard) \o AllOf(k)
        /\ line # <<>> => k # <<>> /\ Reply!Last(k)[1] # "newline"
    BY <1>2, <2>3, KeptIsTheRest
  <2>5. AllOf(k) \in Seq(Reply!Char)
    BY <2>4, TextsAreFlat DEF AllOf
  <2>6. sent = heard \o AllOf(k)
    <3> DEFINE read == client.text
               ended == EndedOf(Unheard)
               begun == AllOf(k)
    <3>1. read \in Seq(Reply!Char) /\ ended \in Seq(Reply!Char) /\ begun \in Seq(Reply!Char)
      BY <1>2, <1>3, <2>5
    <3>2. sent = read \o (ended \o begun) /\ heard = read \o ended
      BY <2>3, <2>4
    <3> HIDE DEF read, ended, begun, heard
    <3>3. (read \o ended) \o begun = read \o (ended \o begun)
      BY <3>1, ConcatAssociative
    <3> QED BY <3>2, <3>3 DEF begun
  <2> HIDE DEF k, heard, s
  <2>7. /\ client'.buffer = k /\ client'.text = heard
        /\ client' \in [buffer : Seq(Piece), text : Seq(Reply!Char)]
    BY <2>1, <2>2, <2>4
  <2>8. Unheard' = k
    BY <2>1, <2>4, <2>7 DEF Unheard
  <2>9. (heard \o AllOf(k)) \o LostBy(<<>>) = sent
    <3>1. LostBy(<<>>) = <<>>
      BY <1>2, NewlineIsPiece, LostMore
    <3> QED BY <1>2, <1>4, <2>6, <3>1
  <2>10. /\ splitter' \in Reply!Splitter /\ SplitterOk(splitter') /\ NoneIsLast(splitter')
         /\ Held(splitter') = Reply!Words(client'.text)
    BY <2>1, <2>2, <2>7 DEF Streaming
  <2>11. sent' \in Seq(Reply!Char) /\ unread' \in Seq(Piece)
    BY <1>2, <2>1
  <2> HIDE DEF Unheard
  <2> QED BY <2>1, <2>3, <2>4, <2>6, <2>7, <2>8, <2>9, <2>10, <2>11 DEF ReplyInv
<1>6. ASSUME NEW end \in Reply!Ends, Reply!OnReplyFinished(end) PROVE ReplyInv'
  <2> DEFINE buffer == IF end = "aborted" THEN client.buffer ELSE Unheard
             heard == client.text \o AllOf(buffer)
             s == Reply!Appended(splitter, Reply!Texts(buffer, TRUE))
  <2>1. /\ phase = "streaming" /\ sent' = sent /\ line' = line
        /\ unread' = IF end = "aborted" THEN unread ELSE <<>>
        /\ client' = [buffer |-> <<>>, text |-> heard]
        /\ splitter' = Reply!FinalizeStream(s)
        /\ phase' = IF end = "completed" /\ client'.text = <<>> THEN "failed" ELSE end
    BY <1>6 DEF Reply!OnReplyFinished, Unheard, AllOf
  <2>2. buffer \in Seq(Piece)
    BY <1>2
  <2> HIDE DEF buffer
  <2>3. heard \in Seq(Reply!Char) /\ s \in Streaming /\ Held(s) = Reply!Words(heard)
    BY <2>1, <2>2, HeardIsHeld DEF AllOf
  <2>4. s \in Reply!Splitter /\ SplitterOk(s)
    BY <2>3 DEF Streaming
  <2> HIDE DEF s
  <2>5. splitter' \in Reply!Splitter /\ SplitterOk(splitter') /\ Held(splitter') = Held(s)
          /\ splitter'.buffer = <<>>
    BY <2>1, <2>4, FinalizeKeeps
  <2>6. CASE end = "aborted"
    <3>1. heard \o LostBy(unread) = sent
      BY <2>1, <2>6 DEF ReplyInv, buffer
    <3> HIDE DEF heard
    <3>2. client'.text = heard /\ client' \in [buffer : Seq(Piece), text : Seq(Reply!Char)]
      BY <2>1, <2>3
    <3>3. unread' = unread /\ phase' = "aborted"
      BY <2>1, <2>6
    <3>4. LostBy(unread') = LostBy(unread)
      BY <3>3
    <3> QED BY <1>2, <2>1, <2>3, <2>5, <3>1, <3>2, <3>3, <3>4 DEF ReplyInv, Reply!Ends
  <2>7. CASE end # "aborted"
    <3>1. heard = sent
      BY <2>1, <2>7 DEF ReplyInv, buffer
    <3> HIDE DEF heard
    <3>2. client'.text = heard /\ client' \in [buffer : Seq(Piece), text : Seq(Reply!Char)]
      BY <2>1, <2>3
    <3>3. unread' \in Seq(Piece) /\ phase' \in {"completed", "failed"}
      BY <2>1, <2>7 DEF Reply!Ends
    <3> QED BY <1>2, <2>1, <2>3, <2>5, <3>1, <3>2, <3>3 DEF ReplyInv, Reply!Ends
  <2> QED BY <2>6, <2>7
\* What a piece does that arrives, whatever it is.
<1>7. ASSUME NEW p \in Piece, phase = "streaming", unread' = Append(unread, p), client' = client,
             p[1] = "tail" => Unheard # <<>>
      PROVE  /\ unread' \in Seq(Piece) /\ Unheard' # <<>> /\ Reply!Last(Unheard') = p
             /\ Begun(Unheard')
             /\ AllOf(Unheard') = AllOf(Unheard) \o LostAt(p)
             /\ LostBy(unread') = LostBy(unread) \o LostAt(p)
  <2>1. Unheard' = Append(Unheard, p)
    <3> DEFINE read == client.buffer
    <3>1. read \in Seq(Piece)
      BY <1>2
    <3> HIDE DEF read
    <3>2. read \o Append(unread, p) = Append(read \o unread, p)
      BY <1>2, <3>1
    <3> QED BY <1>7, <3>2 DEF Unheard, read
  <2> HIDE DEF Unheard
  <2>2. /\ Len(Append(Unheard, p)) = Len(Unheard) + 1 /\ Append(Unheard, p)[Len(Unheard) + 1] = p
        /\ Append(Unheard, p) # <<>> /\ Len(Unheard) \in Nat
        /\ Unheard # <<>> => Len(Unheard) >= 1
    BY <1>2, AppendProperties, EmptySeq, LenProperties
  <2>3. Reply!Last(Unheard') = p /\ Unheard' # <<>>
    BY <2>1, <2>2 DEF Reply!Last
  <2>4. Begun(Unheard')
    BY <1>7, <2>1, <2>2, <2>3 DEF Begun
  <2>5. AllOf(Unheard') = AllOf(Unheard) \o LostAt(p)
    <3>1. CASE p[1] = "tail"
      BY <1>2, <1>7, <2>1, <3>1, OnePieceMore DEF LostAt
    <3>2. CASE p[1] # "tail"
      BY <1>2, <1>3, <1>4, <2>1, <3>2, OnePieceMore DEF LostAt
    <3> QED BY <3>1, <3>2
  <2>6. unread' \in Seq(Piece) /\ LostBy(unread') = LostBy(unread) \o LostAt(p)
    <3>1. Append(unread, p) \in Seq(Piece)
      BY <1>2, AppendProperties
    <3>2. LostBy(Append(unread, p)) = LostBy(unread) \o LostAt(p)
      BY <1>2, LostMore
    <3> QED BY <1>7, <3>1, <3>2
  <2> QED BY <2>3, <2>4, <2>5, <2>6
<1>8. ASSUME NEW text \in Delta, Reply!ServerBegins(text) PROVE ReplyInv'
  <2> DEFINE p == <<"head", text>>
  <2>1. /\ phase = "streaming" /\ unread' = Append(unread, p) /\ line' = p
        /\ UNCHANGED <<sent, client, splitter, phase>>
    BY <1>8 DEF Reply!ServerBegins, Reply!ServerSends
  <2>2. p \in Piece /\ p[1] = "head" /\ LostAt(p) = <<>>
    BY ReplyAssumption DEF Piece, LostAt
  <2> HIDE DEF p
  <2>3. /\ unread' \in Seq(Piece) /\ Unheard' # <<>> /\ Reply!Last(Unheard') = p
        /\ Begun(Unheard') /\ AllOf(Unheard') = AllOf(Unheard) /\ LostBy(unread') = LostBy(unread)
    BY <1>3, <1>4, <1>7, <2>1, <2>2
  <2> HIDE DEF Unheard
  <2> QED BY <2>1, <2>2, <2>3 DEF ReplyInv, SplitterOk, NoneIsLast, Held, SpokenBy
<1>9. CASE Reply!ServerEnds
  <2> DEFINE p == <<"tail", line[2]>>
             text == line[2]
  <2>1. /\ phase = "streaming" /\ unread' = Append(unread, p) /\ line' = p /\ line # <<>>
        /\ sent' = sent \o text
        /\ UNCHANGED <<client, splitter, phase>>
    BY <1>9 DEF Reply!ServerEnds, Reply!ServerSends
  <2>2. /\ line \in Piece /\ Unheard # <<>> /\ sent = client.text \o AllOf(Unheard)
        /\ sent = (client.text \o AllOf(client.buffer)) \o LostBy(unread)
    BY <2>1 DEF ReplyInv
  <2>3. p \in Piece /\ p[1] = "tail" /\ LostAt(p) = text /\ text \in Seq(Reply!Char)
    BY <2>2 DEF Piece, LostAt
  <2> HIDE DEF p, text
  <2>4. /\ unread' \in Seq(Piece) /\ Unheard' # <<>> /\ Reply!Last(Unheard') = p
        /\ Begun(Unheard') /\ AllOf(Unheard') = AllOf(Unheard) \o text
        /\ LostBy(unread') = LostBy(unread) \o text
    BY <1>7, <2>1, <2>2, <2>3
  <2>5. /\ sent' = client.text \o AllOf(Unheard') /\ sent' \in Seq(Reply!Char)
        /\ sent' = (client.text \o AllOf(client.buffer)) \o LostBy(unread')
    <3> DEFINE read == client.text
               x == read \o AllOf(client.buffer)
               lost == LostBy(unread)
               all == AllOf(Unheard)
    <3>1. /\ read \in Seq(Reply!Char) /\ lost \in Seq(Reply!Char) /\ all \in Seq(Reply!Char)
          /\ x \in Seq(Reply!Char)
      BY <1>2, <1>3
    <3>2. sent = x \o lost /\ sent = read \o all
      BY <2>2
    <3>3. LostBy(unread') = lost \o text /\ AllOf(Unheard') = all \o text
      BY <2>4
    <3> HIDE DEF read, x, lost, all
    <3>4. (x \o lost) \o text = x \o (lost \o text)
      BY <2>3, <3>1, ConcatAssociative
    <3>5. (read \o all) \o text = read \o (all \o text)
      BY <2>3, <3>1, ConcatAssociative
    <3>6. sent \o text \in Seq(Reply!Char)
      BY <1>2, <2>3
    <3>7. sent' = read \o AllOf(Unheard') /\ sent' = x \o LostBy(unread')
      BY <2>1, <3>2, <3>3, <3>4, <3>5
    <3> QED BY <2>1, <3>6, <3>7 DEF read, x
  <2> HIDE DEF Unheard
  <2> QED BY <2>1, <2>3, <2>4, <2>5 DEF ReplyInv, SplitterOk, NoneIsLast, Held, SpokenBy
<1>10. CASE Reply!ServerBreaks
  <2> DEFINE p == <<"newline", <<>>>>
  <2>1. /\ phase = "streaming" /\ unread' = Append(unread, p) /\ line' = <<>>
        /\ UNCHANGED <<sent, client, splitter, phase>>
    BY <1>10 DEF Reply!ServerBreaks
  <2>2. p \in Piece /\ p[1] = "newline" /\ LostAt(p) = <<>>
    BY NewlineIsPiece DEF LostAt
  <2> HIDE DEF p
  <2>3. /\ unread' \in Seq(Piece) /\ Begun(Unheard') /\ AllOf(Unheard') = AllOf(Unheard)
        /\ LostBy(unread') = LostBy(unread)
    BY <1>3, <1>4, <1>7, <2>1, <2>2
  <2> HIDE DEF Unheard
  <2> QED BY <2>1, <2>3 DEF ReplyInv, SplitterOk, NoneIsLast, Held, SpokenBy
<1> QED BY <1>1, <1>5, <1>6, <1>8, <1>9, <1>10 DEF Reply!Next

\* At the end nothing is held back; the text is what was sent, but for what was lost unread.
LEMMA ReplyIsSpoken == ReplyInv => TextIsSpoken
<1> SUFFICES ASSUME ReplyInv PROVE TextIsSpoken
  OBVIOUS
<1>1. Reply!Lost = LostBy(unread) /\ LostBy(unread) \in Seq(Reply!Char)
  <2>1. <<"newline", <<>>>> \in Piece /\ unread \in Seq(Piece)
    BY NewlineIsPiece DEF ReplyInv
  <2>2. LostBy(unread) \in Seq(Reply!Char)
    BY <2>1, LostMore
  <2> QED BY <2>2 DEF Reply!Lost, LostBy, LostAt
<1>2. Reply!IsPrefix(client.text, sent)
  <2>1. client.text \in Seq(Reply!Char) /\ sent \in Seq(Reply!Char)
    BY DEF ReplyInv
  <2>2. ASSUME NEW rest \in Seq(Reply!Char), sent = client.text \o rest
        PROVE  Reply!IsPrefix(client.text, sent)
    BY <2>1, <2>2 DEF Reply!IsPrefix
  <2>3. CASE phase = "streaming"
    <3>1. Unheard \in Seq(Piece)
      BY DEF ReplyInv, Unheard
    <3>2. sent = client.text \o AllOf(Unheard) /\ AllOf(Unheard) \in Seq(Reply!Char)
      BY <2>3, <3>1, TextsAreFlat DEF ReplyInv, AllOf
    <3> QED BY <2>2, <3>2
  <2>4. CASE phase \in {"completed", "failed"}
    BY <2>1, <2>4 DEF Reply!IsPrefix, ReplyInv
  <2>5. CASE phase = "aborted"
    BY <1>1, <2>2, <2>5 DEF ReplyInv
  <2> QED BY <2>3, <2>4, <2>5 DEF ReplyInv, Reply!Ends
<1>3. Reply!Spoken = SpokenBy(splitter)
  BY DEF Reply!Spoken, SpokenBy
<1>4. Reply!Words(Reply!Spoken \o splitter.buffer) = Reply!Words(client.text)
  BY <1>3 DEF ReplyInv, Held
<1>5. \A i \in DOMAIN splitter.out :
        /\ splitter.out[i].index = i - 1 /\ ~Reply!IsBlank(splitter.out[i].text)
        /\ splitter.out[i].isLast => i = Len(splitter.out)
  BY DEF ReplyInv, SplitterOk
<1> QED BY <1>1, <1>2, <1>4, <1>5 DEF TextIsSpoken, Reply!TextIsSpoken, ReplyInv

\* In whatever pieces a reply arrives its text is what was sent, but for the events that an abort
\* leaves unread, and the sentences are that text, complete, numbered in order, at most the last
\* one marked so (LlmClient::ProcessStreamBuffer, StreamSentenceSplitter::ProcessBuffer).
THEOREM RepliesAreSpoken == ServicesSpec => []TextIsSpoken
<1>1. ServicesInit => ReplyInv
  BY ReplyStarts DEF ServicesInit
<1>2. ReplyInv /\ [ServicesNext]_servicesVars => ReplyInv'
  BY EachPartMovesAlone, ReplyKeeps
<1> QED BY <1>1, <1>2, ReplyIsSpoken, PTL DEF ServicesSpec
=============================================================================
