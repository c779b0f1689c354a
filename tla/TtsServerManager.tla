-------------------------- MODULE TtsServerManager --------------------------
(***************************************************************************)
(* TtsServerManager (src/src/tts_server_manager.cpp) starts the speech     *)
(* server as a process, asks it for its health until it answers, and       *)
(* starts it again when it exits after having been ready.  main.cpp waits  *)
(* for its report before it shows the pet, and stops it at the end.        *)
(*                                                                         *)
(* Each handler of the event loop is one action.  A process that exits, a  *)
(* health request that is answered by whoever listens on the port, and the *)
(* timers happen at any time.                                              *)
(***************************************************************************)
EXTENDS Integers

CONSTANTS MaxRestartAttempts,   \* MAX_RESTART_ATTEMPTS
          MaxStarts,            \* bound on the processes started
          Foreign               \* the id of a server somebody else started

VARIABLES
  s,      \* the members of TtsServerManager
  port,   \* the health request in flight, and who has answered it
  main    \* main.cpp, what it has been told and by which server

vars == <<s, port, main>>

Instance == 1..MaxStarts
NoRequest == [asked |-> FALSE, by |-> 0]

Init ==
  /\ s = [process |-> 0,          \* the instance m_serverProcess runs, or 0
          instance |-> 0,         \* m_instanceId: the last one started
          polling |-> FALSE,      \* m_healthCheckTimer is running
          delay |-> FALSE,        \* its start is still delayed
          watchdog |-> FALSE,     \* m_startupTimeoutTimer is running
          ready |-> FALSE, scheduled |-> FALSE, attempts |-> 0,
          restarts |-> 0]         \* delayed calls of ScheduleRestart under way
  /\ port = NoRequest
  /\ main = [phase |-> "starting", reported |-> TRUE, heard |-> 0]

\* Both signals quit main's wait loop.
Reports == main' = [phase |-> IF main.phase = "waiting" THEN "running" ELSE main.phase,
                    reported |-> TRUE, heard |-> port.by]

-----------------------------------------------------------------------------
LaunchedUnwatched(x) == [x EXCEPT !.instance = @ + 1, !.delay = TRUE]
Launched(x) == [x EXCEPT !.instance = @ + 1, !.delay = TRUE, !.watchdog = TRUE]

\* Start refuses without its configuration or files.  A process that cannot be started
\* reports that from inside start(), or later: the timers are set up in any case.
StartRefused == s.process = 0 /\ UNCHANGED <<s, port>>
StartsProcess(x) ==
  /\ x.instance < MaxStarts
  /\ s' = [Launched(x) EXCEPT !.process = x.instance + 1]
FailsAtOnce(x) ==
  /\ x.instance < MaxStarts
  /\ s' = [Launched(x) EXCEPT !.ready = FALSE]

MainStarts ==
  /\ main.phase = "starting"
  /\ \/ StartRefused /\ main' = [main EXCEPT !.phase = "running", !.reported = TRUE]
     \/ StartsProcess(s) /\ main' = [main EXCEPT !.phase = "waiting", !.reported = FALSE]
     \/ FailsAtOnce(s) /\ main' = [main EXCEPT !.phase = "waiting", !.reported = TRUE]
  /\ UNCHANGED port

\* main's own 60 s timer
SafetyTimeout ==
  /\ main.phase = "waiting"
  /\ main' = [main EXCEPT !.phase = "running"]
  /\ UNCHANGED <<s, port>>

-----------------------------------------------------------------------------
StartPolling ==
  /\ s.delay
  /\ s' = [s EXCEPT !.delay = FALSE, !.polling = TRUE]
  /\ UNCHANGED <<port, main>>

OnHealthCheckTimer ==
  /\ s.polling /\ ~s.ready /\ ~port.asked
  /\ port' = [asked |-> TRUE, by |-> 0]
  /\ UNCHANGED <<s, main>>

\* The server that listens when the request arrives answers with its instance id.
ServerAnswers(id) ==
  /\ port.asked /\ port.by = 0
  /\ id \in {s.process, Foreign} \ {0}
  /\ port' = [port EXCEPT !.by = id]
  /\ UNCHANGED <<s, main>>

IsAnybody(id) == s.process # 0
IsOurs(id) == s.process # 0 /\ id = s.instance
HealthCheckFinished ==
  /\ port.asked
  /\ port' = NoRequest
  /\ IF port.by # 0 /\ IsOurs(port.by)
     THEN /\ s' = [s EXCEPT !.polling = FALSE, !.watchdog = FALSE, !.ready = TRUE,
                            !.attempts = 0]
          /\ Reports
     ELSE UNCHANGED <<s, main>>

WithoutProcess(x) ==
  [x EXCEPT !.process = 0, !.ready = FALSE, !.polling = FALSE, !.delay = FALSE,
            !.watchdog = FALSE]

\* OnProcessError: only a process that could not be started is handled here.
OnFailedToStart ==
  /\ s.process # 0 /\ ~s.ready
  /\ s' = WithoutProcess(s)
  /\ Reports
  /\ UNCHANGED port

ScheduleRestart(x) ==
  IF x.scheduled \/ x.attempts >= MaxRestartAttempts THEN x
  ELSE [x EXCEPT !.attempts = @ + 1, !.scheduled = TRUE, !.restarts = @ + 1]

OnProcessFinished ==
  /\ s.process # 0
  /\ s' = IF s.ready THEN ScheduleRestart(WithoutProcess(s)) ELSE WithoutProcess(s)
  /\ Reports
  /\ UNCHANGED port

Restart ==
  /\ s.restarts > 0
  /\ LET x == [s EXCEPT !.restarts = @ - 1] IN
     IF ~s.scheduled \/ s.process # 0
     THEN s' = x /\ UNCHANGED main
     ELSE LET y == [x EXCEPT !.scheduled = FALSE] IN
          \/ s' = y /\ Reports
          \/ StartsProcess(y) /\ main' = [main EXCEPT !.reported = FALSE]
          \/ FailsAtOnce(y) /\ Reports
  /\ UNCHANGED port

\* Stop ends the process, whose signals are disconnected; an aborted request reports
\* its end at once.  The delayed start of the polling finds no timer any more.
Stopped(x) == [WithoutProcess(x) EXCEPT !.scheduled = FALSE]

OnStartupTimeout ==
  /\ s.watchdog
  /\ IF s.ready \/ s.process = 0
     THEN s' = [s EXCEPT !.watchdog = FALSE] /\ UNCHANGED <<port, main>>
     ELSE s' = Stopped(s) /\ port' = NoRequest /\ Reports

MainStops ==
  /\ main.phase = "running"
  /\ s' = Stopped(s)
  /\ port' = NoRequest
  /\ main' = [main EXCEPT !.phase = "stopped"]

Next ==
  \/ MainStarts \/ SafetyTimeout \/ MainStops
  \/ StartPolling \/ OnHealthCheckTimer \/ HealthCheckFinished
  \/ \E id \in Instance \union {Foreign} : ServerAnswers(id)
  \/ OnFailedToStart \/ OnProcessFinished
  \/ Restart \/ OnStartupTimeout

\* The timers of the event loop fire; nothing is assumed about servers and processes.
Fairness == WF_vars(OnStartupTimeout)

Spec == Init /\ [][Next]_vars /\ Fairness

-----------------------------------------------------------------------------
(***************************************************************************)
(* The server counts as ready only while the process of this manager runs  *)
(* and that very instance, no older one and no stranger on the same port,  *)
(* has answered since it was started; once it is ready neither the checks  *)
(* nor the watchdog run; and once the manager was stopped nothing starts a *)
(* process again.  (A process that fails inside start() is given up before *)
(* the timers are set: its checks go on, see FailsAtOnce.)                 *)
(***************************************************************************)
ReadyIsOurs ==
  /\ s.ready => main.heard = s.process /\ ~s.polling /\ ~s.watchdog
  /\ s.process \in {0, s.instance}
  /\ main.phase = "stopped" => s.process = 0 /\ ~s.ready /\ ~s.scheduled

(***************************************************************************)
(* Whatever the server and its port do, every started process is reported  *)
(* ready or failed: the watchdog ends a start that neither finishes.       *)
(***************************************************************************)
StartIsReported == ~main.reported ~> main.reported \/ main.phase = "stopped"

(***************************************************************************)
(* include/vpet/tts_server_manager.h:134: ScheduleRestart restarts "a      *)
(* limited number of times", MAX_RESTART_ATTEMPTS in a row.                *)
(***************************************************************************)
RestartsAreBounded == s.instance <= 1 + MaxRestartAttempts

=============================================================================
