------------------------------- MODULE Speech -------------------------------
(***************************************************************************)
(* How the pet speaks: whole replies go through PetController, sentences   *)
(* of a streamed reply through StreamDialogueCoordinator; both share one   *)
(* TtsClient, one TtsAudioPlayer and the animation of PetStateMachine.     *)
(*                                                                         *)
(* One event-loop handler runs at a time.  Handlers that call back into    *)
(* the coordinator synchronously (an aborted reply reports a failure, a    *)
(* player that refuses a file reports its end) run in several steps:       *)
(* `stack' holds the calls that have not returned.                         *)
(***************************************************************************)
EXTENDS Integers, Sequences, FiniteSets, Functions

CONSTANTS MaxSynthesis,   \* MAX_CONCURRENT_SYNTHESIS
          MaxStreams,     \* bound on the streamed replies
          MaxSentences,   \* bound on the sentences of all of them
          MaxSays,        \* bound on the whole replies
          Source          \* the priorities of those, of 1..3 (GetSaySourcePriority)

ASSUME SpeechAssumption ==
  /\ MaxSynthesis \in Nat \ {0}
  /\ {MaxStreams, MaxSentences, MaxSays} \subseteq Nat
  /\ Source \subseteq 1..3

VARIABLES
  c,        \* the controller, the animation, the player and the TTS client
  k,        \* the coordinator
  stack     \* calls on the stack of the handler, the innermost first

VARIABLES   \* the environment and observations
  emitted,  \* sentences the splitter has produced for each stream
  over,     \* streams that produce no more
  says,     \* whole replies requested so far
  spoken    \* of each stream the last sentence announced as playing

vars == <<c, k, stack, emitted, over, says, spoken>>
env == <<emitted, over, says>>

Stream == 1..MaxStreams
Silent == <<0, 0>>
Reply == <<0, 1>>       \* what the player plays: a whole reply or <<stream, sentence>>
Stopped == <<0, 2>>     \* stopped in the middle of a sentence the coordinator waits for
IdleGroup == {"idle", "walking"}

NoDialogue == [active |-> 0, finished |-> FALSE, next |-> 1, playing |-> 0,
               inFlight |-> 0, tasks |-> <<>>, wait |-> <<>>]

Init ==
  /\ c = [pet |-> "idle", seen |-> "idle",        \* GetCurrentState, m_lastState
          pending |-> FALSE, source |-> 1,        \* m_pendingSayAction, its source
          want |-> 0, discard |-> FALSE,          \* m_pendingTtsRequestId
          audio |-> FALSE, text |-> FALSE,            \* m_pendingAudioPath, m_currentSayText
          queued |-> 0, timer |-> FALSE,          \* m_queuedSay*, m_sayingTimeoutTimer
          player |-> Silent,
          replies |-> {}]                         \* TTS requests under way
  /\ k = NoDialogue
  /\ stack = <<>>
  /\ emitted = [s \in Stream |-> 0] /\ over = {} /\ says = 0
  /\ spoken = [s \in Stream |-> 0]

\* Request ids count up; the model takes one that nothing refers to any more.
Used(x, d) == x.replies \union {x.want} \union {d.tasks[i].tts : i \in DOMAIN d.tasks}
FreshId(x, d) == CHOOSE n \in 1..(Cardinality(Used(x, d)) + 1) : n \notin Used(x, d)

-----------------------------------------------------------------------------
(* The animation *)

\* A saying pet that was asked to leave the loop is "leaving"; it still is SAYING.
State(pet) == IF pet = "leaving" THEN "saying" ELSE pet
RequestExitLoop(x) == [x EXCEPT !.pet = IF @ = "saying" THEN "leaving" ELSE @]
EnterSayState(x) == [x EXCEPT !.pet = IF @ \in IdleGroup THEN "saying" ELSE @]

\* Update: the loop of a saying pet ends only on request, other clips by themselves.
AfterUpdate(pet) == IF pet \in {"walking", "leaving", "other"} THEN {pet, "idle"} ELSE {pet}

-----------------------------------------------------------------------------
(* PetController: whole replies *)

IsActive == k.active # 0
NotSynthesizing(x) == ~x.pending /\ ~x.discard

\* QueueSayText: one place, by priority; the reply being synthesised may lose its own.
QueueSay(x, source) ==
  IF x.queued > source THEN x
  ELSE LET q == [x EXCEPT !.queued = source] IN
       IF x.pending /\ source > x.source
       THEN [q EXCEPT !.discard = TRUE, !.pending = FALSE, !.audio = FALSE, !.text = FALSE]
       ELSE q

\* StartSayText with say animations present and TTS configured
StartSay(x, source, d) ==
  IF d.active # 0 \/ x.pet \notin IdleGroup \/ ~NotSynthesizing(x) THEN QueueSay(x, source)
  ELSE LET id == FreshId(x, d) IN
       [x EXCEPT !.source = source, !.pending = TRUE, !.text = TRUE, !.audio = TRUE,
                 !.player = Silent, !.want = id, !.replies = @ \union {id}]

TryStartQueuedSay(x, d) ==
  IF x.queued = 0 \/ ~NotSynthesizing(x) \/ x.pet \notin IdleGroup THEN x
  ELSE StartSay([x EXCEPT !.queued = 0], x.queued, d)

\* OnTtsSynthesisFinished
SaySynthesized(x, id, ok, d) ==
  LET y == [x EXCEPT !.want = 0] IN
  IF id # x.want THEN x
  ELSE IF x.discard \/ d.active # 0
  THEN TryStartQueuedSay([y EXCEPT !.discard = FALSE, !.pending = FALSE, !.audio = FALSE,
                                   !.text = FALSE], d)
  ELSE IF ~ok
  THEN IF x.pending /\ x.text
       THEN EnterSayState([y EXCEPT !.audio = FALSE, !.pending = FALSE])
       ELSE [y EXCEPT !.audio = FALSE]
  ELSE IF ~x.pending THEN [y EXCEPT !.player = Reply]
  ELSE IF x.pet \in IdleGroup THEN EnterSayState([y EXCEPT !.pending = FALSE])
  ELSE [y EXCEPT !.pending = FALSE, !.audio = FALSE]

\* OnAudioPlaybackFinished, connected before the coordinator's slot
SayPlayed(x, d) ==
  IF d.active # 0 THEN x
  ELSE TryStartQueuedSay(RequestExitLoop([x EXCEPT !.timer = FALSE, !.audio = FALSE,
                                                   !.text = FALSE]), d)

\* OnStreamSentencePlaybackStarted, OnStreamDialogueFinished
SentenceStarted(x) ==
  [(IF State(x.pet) = "saying" THEN x ELSE EnterSayState(x))
     EXCEPT !.text = TRUE, !.timer = TRUE]
DialogueFinished(x) ==
  TryStartQueuedSay(RequestExitLoop([x EXCEPT !.timer = FALSE, !.text = FALSE]), NoDialogue)

-----------------------------------------------------------------------------
(* StreamDialogueCoordinator *)

Push(calls) == stack' = calls \o Tail(stack)
Return == stack' = Tail(stack)

\* SubmitSynthesis of task i of dialogue d
Submit(d, i) ==
  LET id == FreshId(c, d)
  IN /\ k' = [d EXCEPT !.inFlight = @ + 1, !.tasks[i].tts = id]
     /\ c' = [c EXCEPT !.replies = @ \union {id}]

NewTask(s, n) == [stream |-> s, index |-> n, state |-> "pending", tts |-> 0]

\* EnqueueSentence, after the Cancel another stream's dialogue calls for.
AddSentence(s, n) ==
  LET i == Len(k.tasks) + 1
      t == NewTask(s, n)
      d == [k EXCEPT !.active = s, !.finished = @ /\ k.active # 0, !.tasks = Append(@, t)]
  IN IF d.inFlight < MaxSynthesis
     THEN Submit(d, i)
     ELSE /\ k' = [d EXCEPT !.wait = Append(@, i)]
          /\ c' = c

EnqueueSentence(s) ==
  /\ stack = <<>> /\ s \notin over /\ FoldFunction(+, 0, emitted) < MaxSentences
  /\ emitted' = [emitted EXCEPT ![s] = @ + 1]
  /\ stack' = IF k.active \in {0, s} THEN << <<"enqueue", s>> >>
                                     ELSE << <<"stop", 0>>, <<"enqueue", s>> >>
  /\ UNCHANGED <<c, k, over, says, spoken>>

ReturnFromEnqueue ==
  /\ stack # <<>> /\ Head(stack)[1] = "enqueue"
  /\ LET s == Head(stack)[2] IN AddSentence(s, emitted[s])
  /\ Return
  /\ UNCHANGED <<env, spoken>>

\* FinishIfComplete
IsComplete(d) == d.finished /\ d.playing = 0 /\ d.next > Len(d.tasks)
FinishIfComplete(d) ==
  IF IsComplete(d) THEN k' = NoDialogue /\ c' = DialogueFinished(c)
                   ELSE k' = d /\ c' = c

FinishStream(s) ==
  /\ stack = <<>> /\ emitted[s] > 0 /\ s \notin over
  /\ over' = over \union {s}
  /\ IF s = k.active THEN FinishIfComplete([k EXCEPT !.finished = TRUE])
                     ELSE UNCHANGED <<c, k>>
  /\ UNCHANGED <<stack, emitted, says, spoken>>

\* TryPlayNextSentence: skip what failed, stop at what is not ready.
TasksOf(id) == {i \in DOMAIN k.tasks : k.tasks[i].tts = id /\ k.tasks[i].state = "pending"}
Unsettled(from) ==
  {i \in DOMAIN k.tasks : i >= from /\ k.tasks[i].state \in {"pending", "ready"}}
AnyReady(from) ==
  {i \in DOMAIN k.tasks : i >= from /\ k.tasks[i].state = "ready"}
NextSynthesized(from) ==
  IF AnyReady(from) = {} THEN Len(k.tasks) + 1
  ELSE CHOOSE i \in AnyReady(from) : \A j \in AnyReady(from) : i <= j
NextSentence(from) ==
  IF Unsettled(from) = {} THEN Len(k.tasks) + 1
  ELSE CHOOSE i \in Unsettled(from) : \A j \in Unsettled(from) : i <= j

Played(d) ==
  [d EXCEPT !.tasks[d.playing].state = "played", !.playing = 0, !.next = @ + 1]

InPlay == stack # <<>> /\ Head(stack) = <<"play", 0>>
NextIs(state) ==
  /\ k.playing = 0 /\ NextSentence(k.next) \in DOMAIN k.tasks
  /\ k.tasks[NextSentence(k.next)].state = state
PlayNothing ==
  /\ InPlay /\ (k.playing # 0 \/ NextIs("pending"))
  /\ k' = [k EXCEPT !.next = IF k.playing # 0 THEN @ ELSE NextSentence(@)]
  /\ Return
  /\ UNCHANGED <<c, env, spoken>>
PlayedAll ==
  /\ InPlay /\ k.playing = 0 /\ NextSentence(k.next) > Len(k.tasks)
  /\ FinishIfComplete([k EXCEPT !.next = NextSentence(@)])
  /\ Return
  /\ UNCHANGED <<env, spoken>>

StartSentence(plays) ==
  LET i == NextSentence(k.next)
      t == k.tasks[i]
      d == [k EXCEPT !.next = i, !.playing = i, !.tasks[i].state = "playing"]
  IN /\ InPlay /\ NextIs("ready")
     /\ spoken' = [spoken EXCEPT ![t.stream] = t.index]
     /\ IF plays THEN /\ k' = d
                      /\ c' = [SentenceStarted(c) EXCEPT !.player = <<t.stream, t.index>>]
                      /\ Return
                 ELSE /\ k' = Played(d)        \* Play refuses: OnPlaybackFinished
                      /\ c' = SentenceStarted(c)
                      /\ stack' = stack
     /\ UNCHANGED env

SubmitNextQueued ==
  /\ stack # <<>> /\ Head(stack) = <<"submit", 0>>
  /\ IF k.wait # <<>> /\ k.inFlight < MaxSynthesis
     THEN LET i == Head(k.wait) IN
          /\ Submit([k EXCEPT !.wait = Tail(@)], i)
          /\ stack' = stack
     ELSE Return /\ UNCHANGED <<c, k>>
  /\ UNCHANGED <<env, spoken>>

\* OnSynthesisFinished for task i: submit and play follow.
Synthesized(i, ok) ==
  k' = [k EXCEPT !.inFlight = @ - 1, !.tasks[i].tts = 0,
                 !.tasks[i].state = IF ok THEN "ready" ELSE "failed"]
SubmitAndPlay == << <<"submit", 0>>, <<"play", 0>> >>

-----------------------------------------------------------------------------
(* Cancel and InterruptStreamDialogue *)

\* The player first, then every task: an aborted reply reports its failure at once, and
\* the coordinator submits and plays as after any failure.  When that finishes the
\* dialogue, m_tasks is cleared under the loop, which then reads destroyed tasks: the
\* rest of the loop has no effect on this state, whatever it does to files.
CancelStops ==
  /\ stack # <<>> /\ Head(stack)[1] = "stop"
  /\ c' = [c EXCEPT !.player = Silent]
  /\ Push(<< <<"cancel", 1>> >>)
  /\ UNCHANGED <<k, env, spoken>>

InCancel == stack # <<>> /\ Head(stack)[1] = "cancel"
TaskAt == Head(stack)[2]
IsRequested(i) == i \in DOMAIN k.tasks /\ k.tasks[i].tts \in c.replies
CancelAborts ==
  /\ InCancel /\ IsRequested(TaskAt)
  /\ c' = [c EXCEPT !.replies = @ \ {k.tasks[TaskAt].tts}]
  /\ Synthesized(TaskAt, FALSE)
  /\ Push(SubmitAndPlay \o << <<"cancel", TaskAt + 1>> >>)
  /\ UNCHANGED <<env, spoken>>
CancelSkips ==
  /\ InCancel /\ TaskAt \in DOMAIN k.tasks /\ ~IsRequested(TaskAt)
  /\ Push(<< <<"cancel", TaskAt + 1>> >>)
  /\ UNCHANGED <<c, k, env, spoken>>
KeepFinished(d) == [NoDialogue EXCEPT !.next = d.next]
ResetDialogue(d) == NoDialogue
CancelEnds ==
  /\ InCancel /\ TaskAt \notin DOMAIN k.tasks
  /\ k' = ResetDialogue(k)
  /\ Return
  /\ UNCHANGED <<c, env, spoken>>

\* A mouse press or a new input; the runtime has cancelled the streams before.
Interrupt ==
  /\ stack = <<>> /\ IsActive
  /\ stack' = << <<"stop", 0>>, <<"interrupted", 0>> >>
  /\ over' = over \union {s \in Stream : emitted[s] > 0}
  /\ UNCHANGED <<c, k, emitted, says, spoken>>
Interrupted ==
  /\ stack # <<>> /\ Head(stack)[1] = "interrupted"
  /\ c' = RequestExitLoop([c EXCEPT !.timer = FALSE])
  /\ Return
  /\ UNCHANGED <<k, env, spoken>>

-----------------------------------------------------------------------------
(* The other handlers *)

RequestSay(source) ==
  /\ stack = <<>> /\ says < MaxSays
  /\ says' = says + 1
  /\ c' = StartSay(c, source, k)
  /\ UNCHANGED <<k, stack, emitted, over, spoken>>

\* SynthesisFinished reaches the controller, then the coordinator.
SayReply(id, ok) ==
  /\ stack = <<>> /\ id \in c.replies /\ TasksOf(id) = {}
  /\ c' = SaySynthesized([c EXCEPT !.replies = @ \ {id}], id, ok, k)
  /\ UNCHANGED <<k, stack, env, spoken>>
SentenceReply(id, ok) ==
  /\ stack = <<>> /\ id \in c.replies
  /\ \E i \in TasksOf(id) : Synthesized(i, ok)
  /\ c' = [c EXCEPT !.replies = @ \ {id}]
  /\ stack' = SubmitAndPlay
  /\ UNCHANGED <<env, spoken>>

PlaybackFinished ==
  /\ stack = <<>> /\ c.player \notin {Silent, Stopped}
  /\ c' = SayPlayed([c EXCEPT !.player = Silent], k)
  /\ IF k.playing # 0 THEN k' = Played(k) /\ stack' = << <<"play", 0>> >>
                      ELSE UNCHANGED <<k, stack>>
  /\ UNCHANGED <<env, spoken>>

\* The player is stopped and reports no end; the coordinator is not told.
OnSayingTimeout ==
  /\ stack = <<>> /\ c.timer
  /\ c' = TryStartQueuedSay(RequestExitLoop(
            [c EXCEPT !.timer = FALSE, !.audio = FALSE, !.pending = FALSE,
                      !.discard = FALSE, !.text = FALSE,
                      !.player = IF k.playing = 0 THEN Silent ELSE Stopped]), k)
  /\ UNCHANGED <<k, stack, env, spoken>>

\* The user drags or clicks the pet, which preempts what it does.
Touch ==
  /\ stack = <<>> /\ c.pet # "other"
  /\ c' = [c EXCEPT !.pet = "other"]
  /\ UNCHANGED <<k, stack, env, spoken>>

\* OnUpdate: the animation, the change of state it sees, the queued reply; an idle pet
\* may walk or stop (IdleTrigger).
Noticed(x, plays) ==
  LET y == [x EXCEPT !.seen = State(x.pet)] IN
  IF State(x.pet) = x.seen THEN x
  ELSE IF State(x.pet) # "saying" THEN [y EXCEPT !.timer = FALSE, !.text = FALSE, !.audio = FALSE]
  ELSE IF ~x.audio THEN RequestExitLoop(y)
  ELSE IF plays THEN [y EXCEPT !.player = Reply, !.timer = TRUE]
  ELSE RequestExitLoop([y EXCEPT !.audio = FALSE])

OnUpdate(pet, plays, wander) ==
  LET x == Noticed([c EXCEPT !.pet = pet], plays)
      triggers == pet \in IdleGroup /\ c.queued = 0 /\ ~c.pending
      y == IF triggers THEN [x EXCEPT !.pet = wander] ELSE x
  IN /\ stack = <<>>
     /\ c' = TryStartQueuedSay(y, k)
     /\ UNCHANGED <<k, stack, env, spoken>>

Next ==
  \/ \E s \in Stream : EnqueueSentence(s) \/ FinishStream(s)
  \/ ReturnFromEnqueue
  \/ PlayNothing \/ PlayedAll \/ \E plays \in BOOLEAN : StartSentence(plays)
  \/ SubmitNextQueued
  \/ CancelStops \/ CancelAborts \/ CancelSkips \/ CancelEnds
  \/ Interrupt \/ Interrupted
  \/ \E source \in Source : RequestSay(source)
  \/ \E id \in c.replies, ok \in BOOLEAN : SayReply(id, ok) \/ SentenceReply(id, ok)
  \/ PlaybackFinished \/ OnSayingTimeout \/ Touch
  \/ \E pet \in AfterUpdate(c.pet), plays \in BOOLEAN, wander \in IdleGroup :
       OnUpdate(pet, plays, wander)

Spec == Init /\ [][Next]_vars

-----------------------------------------------------------------------------
TypeOK ==
  /\ c.pet \in {"idle", "walking", "saying", "leaving", "other"}
  /\ c.seen \in {"idle", "walking", "saying", "other"}
  /\ c.queued \in 0..3 /\ c.source \in 1..3
  /\ {c.pending, c.discard, c.audio, c.text, c.timer, k.finished} \subseteq BOOLEAN
  /\ c.replies \subseteq Nat /\ c.want \in Nat
  /\ k.active \in 0..MaxStreams
  /\ k.next \in 1..(Len(k.tasks) + 1) /\ k.playing \in 0..Len(k.tasks)
  /\ \A i \in DOMAIN k.tasks :
       k.tasks[i].state \in {"pending", "ready", "playing", "played", "failed"}

(***************************************************************************)
(* Up to MaxSynthesis sentences are synthesised at once and come back in   *)
(* any order, some not at all: they are spoken in theirs, each announced   *)
(* at most once (a sentence is later in its stream than all announced      *)
(* before), and one starts only when all before it are played or failed.   *)
(***************************************************************************)
Announced == k.tasks[NextSentence(k.next)].stream
SentencesInOrder ==
  [][ /\ \A s \in Stream : spoken[s] <= spoken'[s]
      /\ \A plays \in BOOLEAN :
           StartSentence(plays) => spoken[Announced] < spoken'[Announced]
      /\ \A i \in DOMAIN k'.tasks :
           i < k'.playing => k'.tasks[i].state \in {"played", "failed"} ]_vars

(***************************************************************************)
(* Whatever failed, was cancelled or came late, between two handlers no    *)
(* sentence of the dialogue is forgotten: each is being synthesised within *)
(* the limit or waits for a free slot, one is playing when the next one is *)
(* ready, and a dialogue with nothing left has finished.  A sentence that  *)
(* counts as playing has the player, or a whole reply has taken it over    *)
(* and will end, with one exception: after OnSayingTimeout the player is   *)
(* stopped, nothing reports the end of the sentence, and what is ready     *)
(* waits until the dialogue is cancelled (pet_controller.cpp:1108-1130).   *)
(***************************************************************************)
IsPending(i) == k.tasks[i].state = "pending"
HasPlayer(t) == c.player \in {<<t.stream, t.index>>, Reply, Stopped}
NoSentenceForgotten ==
  stack = <<>> =>
    /\ k.inFlight = Cardinality({i \in DOMAIN k.tasks : IsRequested(i)})
    /\ k.inFlight <= MaxSynthesis
    /\ \A i \in DOMAIN k.tasks :
         IsPending(i) <=> (IsRequested(i) \/ \E j \in DOMAIN k.wait : k.wait[j] = i)
    /\ k.wait # <<>> => k.inFlight = MaxSynthesis
    /\ k.playing = 0 => ~NextIs("ready") /\ ~IsComplete(k)
    /\ k.playing # 0 => HasPlayer(k.tasks[k.playing])
    /\ k.active = 0 => k = NoDialogue
DialogueInv == TypeOK /\ NoSentenceForgotten

(***************************************************************************)
(* include/vpet/pet_controller.h:169: InterruptStreamDialogue interrupts   *)
(* "the current streamed dialogue, its synthesis and its playback" at once *)
(***************************************************************************)
InterruptSilences ==
  [][Interrupted => c'.player = Silent /\ k'.active = 0]_vars

(***************************************************************************)
(* include/vpet/pet_controller.h: m_pendingSayAction and                   *)
(* m_discardPendingSynthesis are about the reply being synthesised: while  *)
(* one is set, a synthesis is under way.  All other replies wait for it.   *)
(***************************************************************************)
PendingSayIsSynthesized == c.pending \/ c.discard => c.want \in c.replies

=============================================================================
