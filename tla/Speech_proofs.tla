---------------------------- MODULE Speech_proofs ----------------------------
(***************************************************************************)
(* No sentence of a streamed dialogue is forgotten, and sentences are      *)
(* spoken in their order, for every number of streams, sentences and       *)
(* synthesis slots.                                                        *)
(*                                                                         *)
(* SpeechInv holds between any two steps, also inside a handler.  Its      *)
(* parts: what the controller may do (Controls); where each pending        *)
(* sentence is (Care); what is settled before the next one (OrderOk); how  *)
(* the sentences of a stream follow those announced (StreamsOk); which     *)
(* calls may be on the stack (StackOk).  A slot left free and a ready      *)
(* sentence left unplayed are allowed only while the stack holds the call  *)
(* that will take them (SlotsUsed, PlayerRests); between two handlers the  *)
(* stack is empty, and they are not allowed at all.                        *)
(***************************************************************************)
EXTENDS Speech, FiniteSetTheorems, SequenceTheorems, WellFoundedInduction, TLAPS

-----------------------------------------------------------------------------
(* What the controller does *)

Call == {"enqueue", "play", "submit", "stop", "cancel", "interrupted"}
Priority == 1..3
Pose == {"idle", "walking", "saying", "leaving", "other"}
Controller ==
  [pet : Pose, seen : {"idle", "walking", "saying", "other"},
   pending : BOOLEAN, source : Priority, want : Nat, discard : BOOLEAN,
   audio : BOOLEAN, text : BOOLEAN, queued : Priority \cup {0}, timer : BOOLEAN,
   player : Nat \X Nat, replies : SUBSET (Nat \ {0})]
Task ==
  [stream : Nat, index : Nat, state : {"pending", "ready", "playing", "played", "failed"},
   tts : Nat]
Dialogue ==
  [active : 0..MaxStreams, finished : BOOLEAN, next : Nat \ {0}, playing : Nat, inFlight : Nat,
   tasks : Seq(Task), wait : Seq(Nat)]

Controls(x) == x \in Controller /\ IsFiniteSet(x.replies)
\* The requests of a dialogue are under way in both or in neither.
SameRequests(x, y, d) ==
  \A i \in DOMAIN d.tasks : d.tasks[i].tts \in y.replies <=> d.tasks[i].tts \in x.replies
\* What the controller may do at any time, as the dialogue sees it.
Moves(x, y, d) == Controls(y) /\ SameRequests(x, y, d)

LEMMA UsedIsFinite ==
  ASSUME NEW x, Controls(x), NEW d \in Dialogue
  PROVE  IsFiniteSet(Used(x, d))
<1> DEFINE T == {d.tasks[i].tts : i \in DOMAIN d.tasks}
           f == [i \in DOMAIN d.tasks |-> d.tasks[i].tts]
<1>1. IsFiniteSet(DOMAIN d.tasks)
  <2>1. d.tasks \in Seq(Task)
    BY DEF Dialogue
  <2>2. DOMAIN d.tasks = 1..Len(d.tasks) /\ Len(d.tasks) \in Nat
    BY <2>1
  <2> QED BY <2>2, FS_Interval
<1>2. f \in Surjection(DOMAIN d.tasks, T)
  BY DEF Surjection
<1>3. IsFiniteSet(T)
  BY <1>1, <1>2, FS_Surjection DEF ExistsSurjection
<1> HIDE DEF T, f
<1>4. IsFiniteSet({x.want}) /\ IsFiniteSet(x.replies)
  BY FS_Singleton DEF Controls
<1>5. IsFiniteSet((x.replies \cup {x.want}) \cup T)
  BY <1>3, <1>4, FS_Union
<1> QED BY <1>5 DEF Used, T

LEMMA FreshIsFresh ==
  ASSUME NEW x, Controls(x), NEW d \in Dialogue
  PROVE  FreshId(x, d) \in Nat \ {0} /\ FreshId(x, d) \notin Used(x, d)
<1> DEFINE used == Used(x, d)
           n == Cardinality(used)
<1>1. IsFiniteSet(used) /\ n \in Nat
  BY UsedIsFinite, FS_CardinalityType
<1>2. FreshId(x, d) = CHOOSE m \in 1..(n + 1) : m \notin used
  BY DEF FreshId
<1> HIDE DEF used
<1>3. \E m \in 1..(n + 1) : m \notin used
  <2> SUFFICES ASSUME 1..(n + 1) \subseteq used PROVE FALSE
    OBVIOUS
  <2>1. Cardinality(1..(n + 1)) <= n
    BY <1>1, FS_Subset
  <2>2. Cardinality(1..(n + 1)) = n + 1
    BY <1>1, FS_Interval
  <2> QED BY <1>1, <2>1, <2>2
<1>4. FreshId(x, d) \in 1..(n + 1) /\ FreshId(x, d) \notin used
  BY <1>2, <1>3
<1> HIDE DEF n
<1> QED BY <1>1, <1>4 DEF used

LEMMA MovesFurther ==
  ASSUME NEW x, NEW y, NEW z, NEW d, Moves(x, y, d), Moves(y, z, d)
  PROVE  Moves(x, z, d)
BY DEF Moves, SameRequests

LEMMA QueueSayMoves ==
  ASSUME NEW x, Controls(x), NEW source \in Priority, NEW d
  PROVE  Moves(x, QueueSay(x, source), d)
<1> DEFINE q == [x EXCEPT !.queued = source]
           p == [q EXCEPT !.discard = TRUE, !.pending = FALSE, !.audio = FALSE, !.text = FALSE]
<1>1. q \in Controller /\ q.replies = x.replies
  BY DEF Controls, Controller
<1> HIDE DEF q
<1>2. p \in Controller /\ p.replies = x.replies
  BY <1>1 DEF Controller
<1> HIDE DEF p
<1>3. QueueSay(x, source) \in {x, q, p}
  BY DEF QueueSay, q, p
<1> QED BY <1>1, <1>2, <1>3 DEF Moves, Controls, SameRequests

LEMMA StartSayMoves ==
  ASSUME NEW x, Controls(x), NEW source \in Priority, NEW d \in Dialogue
  PROVE  Moves(x, StartSay(x, source, d), d)
<1> DEFINE id == FreshId(x, d)
           y == [x EXCEPT !.source = source, !.pending = TRUE, !.text = TRUE, !.audio = TRUE,
                          !.player = Silent, !.want = id, !.replies = x.replies \cup {id}]
<1>1. StartSay(x, source, d) = y \/ StartSay(x, source, d) = QueueSay(x, source)
  BY DEF StartSay
<1>2. id \in Nat \ {0} /\ id \notin Used(x, d)
  BY FreshIsFresh
<1>3. Silent \in Nat \X Nat
  BY DEF Silent
<1> HIDE DEF id
<1>4. y \in Controller /\ y.replies = x.replies \cup {id}
  BY <1>2, <1>3 DEF Controls, Controller
<1> HIDE DEF y
<1>5. Controls(y)
  BY <1>4, FS_AddElement DEF Controls
<1>6. SameRequests(x, y, d)
  BY <1>2, <1>4 DEF SameRequests, Used
<1> QED BY <1>1, <1>5, <1>6, QueueSayMoves DEF Moves

LEMMA Unmoved == ASSUME NEW x, Controls(x), NEW d PROVE Moves(x, x, d)
BY DEF Moves, SameRequests

LEMMA QueuedSayMoves ==
  ASSUME NEW x, Controls(x), NEW d \in Dialogue
  PROVE  Moves(x, TryStartQueuedSay(x, d), d)
<1> DEFINE y == [x EXCEPT !.queued = 0]
<1>1. CASE x.queued = 0 \/ ~NotSynthesizing(x) \/ x.pet \notin IdleGroup
  BY <1>1, Unmoved DEF TryStartQueuedSay
<1>2. CASE ~(x.queued = 0 \/ ~NotSynthesizing(x) \/ x.pet \notin IdleGroup)
  <2>1. y \in Controller /\ y.replies = x.replies /\ x.queued \in Priority
    BY <1>2 DEF Controls, Controller
  <2>2. TryStartQueuedSay(x, d) = StartSay(y, x.queued, d)
    BY <1>2 DEF TryStartQueuedSay
  <2> HIDE DEF y
  <2>3. Controls(y) /\ Moves(x, y, d)
    BY <2>1 DEF Controls, Moves, SameRequests
  <2> QED BY <2>1, <2>2, <2>3, StartSayMoves, MovesFurther
<1> QED BY <1>1, <1>2

\* A handler's assignments to the flags, the pet and the player.
LEMMA RequestExitLoopMoves ==
  ASSUME NEW x, Controls(x), NEW d
  PROVE  Moves(x, RequestExitLoop(x), d)
<1> DEFINE y == RequestExitLoop(x)
<1>1. y \in Controller /\ y.replies = x.replies
  BY DEF Controls, Controller, RequestExitLoop, Pose
<1> HIDE DEF y
<1>2. Moves(x, y, d)
  BY <1>1 DEF Moves, Controls, SameRequests
<1> QED BY <1>2 DEF y

LEMMA EnterSayStateMoves ==
  ASSUME NEW x, Controls(x), NEW d
  PROVE  Moves(x, EnterSayState(x), d)
<1> DEFINE y == EnterSayState(x)
<1>1. y \in Controller /\ y.replies = x.replies
  BY DEF Controls, Controller, EnterSayState, Pose
<1> HIDE DEF y
<1>2. Moves(x, y, d)
  BY <1>1 DEF Moves, Controls, SameRequests
<1> QED BY <1>2 DEF y

LEMMA SaySynthesizedMoves ==
  ASSUME NEW x, Controls(x), NEW id, NEW ok, NEW d \in Dialogue
  PROVE  Moves(x, SaySynthesized(x, id, ok, d), d)
<1> DEFINE y == [x EXCEPT !.want = 0]
           y1 == [y EXCEPT !.discard = FALSE, !.pending = FALSE, !.audio = FALSE, !.text = FALSE]
           y2 == [y EXCEPT !.audio = FALSE, !.pending = FALSE]
           y3 == [y EXCEPT !.audio = FALSE]
           y4 == [y EXCEPT !.player = Reply]
           y5 == [y EXCEPT !.pending = FALSE]
           y6 == [y EXCEPT !.pending = FALSE, !.audio = FALSE]
           z == SaySynthesized(x, id, ok, d)
<1>1. y \in Controller /\ y.replies = x.replies
  BY DEF Controls, Controller
<1>2. Reply \in Nat \X Nat
  BY DEF Reply
<1>3. z \in {x, TryStartQueuedSay(y1, d), EnterSayState(y2), y3, y4, EnterSayState(y5), y6}
  BY DEF SaySynthesized
<1> HIDE DEF y
<1>4. \A u \in {y1, y2, y3, y4, y5, y6} : u \in Controller /\ u.replies = x.replies
  BY <1>1, <1>2 DEF Controller
<1> HIDE DEF y1, y2, y3, y4, y5, y6, z
<1>5. \A u \in {y1, y2, y3, y4, y5, y6} : Controls(u) /\ Moves(x, u, d)
  BY <1>4 DEF Controls, Moves, SameRequests
<1>6. Moves(y1, TryStartQueuedSay(y1, d), d)
  BY <1>5, QueuedSayMoves
<1>7. Moves(y2, EnterSayState(y2), d) /\ Moves(y5, EnterSayState(y5), d)
  BY <1>5, EnterSayStateMoves
<1>8. Moves(x, TryStartQueuedSay(y1, d), d)
  BY <1>5, <1>6, MovesFurther
<1>9. Moves(x, EnterSayState(y2), d) /\ Moves(x, EnterSayState(y5), d)
  BY <1>5, <1>7, MovesFurther
<1>10. Moves(x, z, d)
  BY <1>3, <1>5, <1>8, <1>9, Unmoved
<1> QED BY <1>10 DEF z

LEMMA SayPlayedMoves ==
  ASSUME NEW x, Controls(x), NEW d \in Dialogue
  PROVE  Moves(x, SayPlayed(x, d), d)
<1> DEFINE y == [x EXCEPT !.timer = FALSE, !.audio = FALSE, !.text = FALSE]
           e == RequestExitLoop(y)
<1>1. y \in Controller /\ y.replies = x.replies
  BY DEF Controls, Controller
<1>2. SayPlayed(x, d) \in {x, TryStartQueuedSay(e, d)}
  BY DEF SayPlayed
<1> HIDE DEF y
<1>3. Controls(y) /\ Moves(x, y, d)
  BY <1>1 DEF Controls, Moves, SameRequests
<1>4. Moves(y, e, d) /\ Controls(e)
  BY <1>3, RequestExitLoopMoves DEF Moves
<1> HIDE DEF e
<1>5. Moves(e, TryStartQueuedSay(e, d), d)
  BY <1>4, QueuedSayMoves
<1> QED BY <1>2, <1>3, <1>4, <1>5, MovesFurther, Unmoved

LEMMA SentenceStartedMoves ==
  ASSUME NEW x, Controls(x), NEW d
  PROVE  Moves(x, SentenceStarted(x), d)
<1> DEFINE e == IF State(x.pet) = "saying" THEN x ELSE EnterSayState(x)
           y == [e EXCEPT !.text = TRUE, !.timer = TRUE]
<1>1. Moves(x, e, d)
  BY EnterSayStateMoves, Unmoved
<1>2. SentenceStarted(x) = y
  BY DEF SentenceStarted
<1> HIDE DEF e
<1>3. y \in Controller /\ y.replies = e.replies
  BY <1>1 DEF Moves, Controls, Controller
<1> QED BY <1>1, <1>2, <1>3 DEF Moves, Controls, SameRequests

LEMMA DialogueFinishedMoves ==
  ASSUME NEW x, Controls(x)
  PROVE  Controls(DialogueFinished(x))
<1> DEFINE y == [x EXCEPT !.timer = FALSE, !.text = FALSE]
           e == RequestExitLoop(y)
<1>1. y \in Controller /\ y.replies = x.replies
  BY DEF Controls, Controller
<1>2. DialogueFinished(x) = TryStartQueuedSay(e, NoDialogue)
  BY DEF DialogueFinished
<1>3. NoDialogue \in Dialogue
  BY SpeechAssumption DEF NoDialogue, Dialogue
<1> HIDE DEF y
<1>4. Controls(y)
  BY <1>1 DEF Controls
<1>5. Controls(e)
  BY <1>4, RequestExitLoopMoves DEF Moves
<1> HIDE DEF e
<1> QED BY <1>2, <1>3, <1>5, QueuedSayMoves DEF Moves

LEMMA NoticedMoves ==
  ASSUME NEW x, Controls(x), NEW plays, NEW d
  PROVE  Moves(x, Noticed(x, plays), d)
<1> DEFINE y == [x EXCEPT !.seen = State(x.pet)]
           y1 == [y EXCEPT !.timer = FALSE, !.text = FALSE, !.audio = FALSE]
           y2 == [y EXCEPT !.player = Reply, !.timer = TRUE]
           y3 == [y EXCEPT !.audio = FALSE]
<1>1. Noticed(x, plays) \in {x, y1, RequestExitLoop(y), y2, RequestExitLoop(y3)}
  BY DEF Noticed
<1>2. y \in Controller /\ y.replies = x.replies
  BY DEF Controls, Controller, State, Pose
<1>3. Reply \in Nat \X Nat
  BY DEF Reply
<1> HIDE DEF y
<1>4. \A u \in {y1, y2, y3} : u \in Controller /\ u.replies = x.replies
  BY <1>2, <1>3 DEF Controller
<1> HIDE DEF y1, y2, y3
<1>5. \A u \in {y, y1, y2, y3} : Controls(u) /\ Moves(x, u, d)
  BY <1>2, <1>4 DEF Controls, Moves, SameRequests
<1>6. Moves(y, RequestExitLoop(y), d) /\ Moves(y3, RequestExitLoop(y3), d)
  BY <1>5, RequestExitLoopMoves
<1> QED BY <1>1, <1>5, <1>6, MovesFurther, Unmoved

-----------------------------------------------------------------------------
(* The calls that have not returned *)

Calls == Call \X Nat
StackOk(s) ==
  /\ s \in Seq(Calls)
  /\ \A i \in 1..Len(s) :
       /\ s[i][1] = "submit" =>
            i = 1 /\ Len(s) >= 2 /\ s[1] = <<"submit", 0>> /\ s[2] = <<"play", 0>>
       /\ s[i][1] = "play" => s[i] = <<"play", 0>> /\ (i > 1 => i = 2 /\ s[1][1] = "submit")
       /\ s[i][1] \in {"enqueue", "interrupted"} => i = Len(s)
       /\ s[i][1] = "enqueue" => s[i][2] \in Stream
       /\ s[i][1] = "stop" => i = 1
PlayOwed(s) == \E i \in 1..Len(s) : s[i][1] = "play"
SubmitOwed(s) == Len(s) > 0 /\ s[1][1] = "submit"
Adding(s, n) == Len(s) > 0 /\ s[Len(s)] = <<"enqueue", n>>

LEMMA TailIsOk ==
  ASSUME NEW s, StackOk(s), s # <<>>
  PROVE  /\ StackOk(Tail(s)) /\ ~SubmitOwed(Tail(s))
         /\ PlayOwed(Tail(s)) <=> s[1][1] = "submit"
         /\ PlayOwed(s) <=> s[1][1] \in {"submit", "play"}
         /\ Head(s) = s[1] /\ s[1] \in Calls
<1> DEFINE t == Tail(s)
<1>1. /\ t \in Seq(Calls) /\ Len(t) = Len(s) - 1 /\ Len(t) \in Nat /\ Len(s) \in Nat \ {0}
      /\ \A i \in 1..Len(t) : t[i] = s[i + 1]
      /\ Head(s) = s[1] /\ s[1] \in Calls
  BY DEF StackOk
<1> HIDE DEF t
<1>2. \A i \in 1..Len(t) : i + 1 \in 1..Len(s) /\ i + 1 # 1
  BY <1>1
<1>3. \A i \in 1..Len(t) :
        /\ t[i][1] # "submit" /\ t[i][1] # "stop"
        /\ t[i][1] = "play" => i = 1 /\ s[1][1] = "submit" /\ t[i] = <<"play", 0>>
        /\ t[i][1] \in {"enqueue", "interrupted"} => i = Len(t)
        /\ t[i][1] = "enqueue" => t[i][2] \in Stream
  BY <1>1, <1>2 DEF StackOk
<1>4. StackOk(t)
  <2>1. ASSUME NEW i \in 1..Len(t)
        PROVE  /\ t[i][1] # "submit"
               /\ t[i][1] = "play" => t[i] = <<"play", 0>> /\ i = 1
    BY <1>3
  <2>2. ASSUME NEW i \in 1..Len(t)
        PROVE  /\ t[i][1] \in {"enqueue", "interrupted"} => i = Len(t)
               /\ t[i][1] = "enqueue" => t[i][2] \in Stream
               /\ t[i][1] = "stop" => i = 1
    BY <1>3
  <2>3. ASSUME NEW i \in 1..Len(t)
        PROVE  /\ t[i][1] = "submit" =>
                    i = 1 /\ Len(t) >= 2 /\ t[1] = <<"submit", 0>> /\ t[2] = <<"play", 0>>
               /\ t[i][1] = "play" =>
                    t[i] = <<"play", 0>> /\ (i > 1 => i = 2 /\ t[1][1] = "submit")
    <3>1. t[i][1] # "submit"
      BY <2>1
    <3>2. t[i][1] = "play" => t[i] = <<"play", 0>> /\ i = 1
      BY <2>1
    <3>3. t[i][1] = "submit" =>
            i = 1 /\ Len(t) >= 2 /\ t[1] = <<"submit", 0>> /\ t[2] = <<"play", 0>>
      BY <3>1
    <3>4. t[i][1] = "play" => t[i] = <<"play", 0>> /\ (i > 1 => i = 2 /\ t[1][1] = "submit")
      BY <3>2
    <3> QED BY <3>3, <3>4
  <2> QED BY <1>1, <2>2, <2>3 DEF StackOk
<1>5. ~SubmitOwed(t)
  BY <1>1, <1>3 DEF SubmitOwed
<1>6. s[1][1] = "submit" => PlayOwed(t)
  <2> SUFFICES ASSUME s[1][1] = "submit" PROVE PlayOwed(t)
    OBVIOUS
  <2>1. Len(s) >= 2 /\ s[2] = <<"play", 0>>
    BY <1>1 DEF StackOk
  <2>2. 1 \in 1..Len(t) /\ t[1] = <<"play", 0>>
    BY <1>1, <2>1
  <2> QED BY <2>2 DEF PlayOwed
<1>7. PlayOwed(t) => s[1][1] = "submit"
  BY <1>3 DEF PlayOwed
<1>8. PlayOwed(s) => s[1][1] \in {"submit", "play"}
  BY <1>1 DEF PlayOwed, StackOk
<1>9. s[1][1] \in {"submit", "play"} => PlayOwed(s)
  BY <1>1 DEF PlayOwed, StackOk
<1> QED BY <1>1, <1>4, <1>5, <1>6, <1>7, <1>8, <1>9 DEF t

\* Who is adding a sentence is at the bottom, whatever is above.
LEMMA TailAdds ==
  ASSUME NEW s, StackOk(s), s # <<>>, NEW n, s[1][1] # "enqueue"
  PROVE  Adding(Tail(s), n) <=> Adding(s, n)
<1> DEFINE t == Tail(s)
<1>1. /\ Len(t) = Len(s) - 1 /\ Len(s) \in Nat \ {0}
      /\ \A i \in 1..Len(t) : t[i] = s[i + 1]
  BY DEF StackOk
<1> HIDE DEF t
<1>2. CASE Len(s) = 1
  <2>1. ~(Len(t) > 0)
    BY <1>1, <1>2
  <2>2. s[Len(s)][1] # "enqueue"
    BY <1>2
  <2>3. <<"enqueue", n>>[1] = "enqueue"
    OBVIOUS
  <2>4. s[Len(s)] # <<"enqueue", n>>
    BY <2>2, <2>3
  <2> QED BY <2>1, <2>4 DEF Adding
<1>3. CASE Len(s) > 1
  <2>1. Len(s) - 1 \in 1..Len(t) /\ (Len(s) - 1) + 1 = Len(s)
    BY <1>1, <1>3
  <2>2. t[Len(s) - 1] = s[Len(s)]
    BY <1>1, <2>1
  <2> QED BY <1>1, <1>3, <2>2 DEF Adding
<1> QED BY <1>1, <1>2, <1>3 DEF t

LEMMA Pushed ==
  ASSUME NEW s, StackOk(s), s # <<>>, s[1][1] \in {"stop", "cancel"}, NEW n \in Nat
  PROVE  LET t == << <<"cancel", n>> >> \o Tail(s) IN
         /\ StackOk(t) /\ ~SubmitOwed(t) /\ ~PlayOwed(t)
         /\ \A m : Adding(t, m) <=> Adding(s, m)
<1> DEFINE a == << <<"cancel", n>> >>
           r == Tail(s)
           t == a \o r
<1>1. /\ r \in Seq(Calls) /\ Len(r) = Len(s) - 1 /\ Len(r) \in Nat /\ Len(s) \in Nat \ {0}
      /\ \A i \in 1..Len(r) : r[i] = s[i + 1]
  BY DEF StackOk
<1>2. a \in Seq(Calls) /\ Len(a) = 1 /\ a[1] = <<"cancel", n>>
  BY DEF Calls, Call
<1> HIDE DEF a, r
<1>3. /\ t \in Seq(Calls) /\ Len(t) = 1 + Len(r)
      /\ \A i \in 1..(1 + Len(r)) : t[i] = IF i <= 1 THEN a[i] ELSE r[i - 1]
  BY <1>1, <1>2, ConcatProperties
<1> HIDE DEF t
<1>4. Len(t) = Len(s) /\ t[1] = <<"cancel", n>>
  BY <1>1, <1>2, <1>3
<1>5. \A i \in 2..Len(s) : t[i] = s[i]
  <2> TAKE i \in 2..Len(s)
  <2>1. i \in 1..(1 + Len(r)) /\ ~(i <= 1) /\ i - 1 \in 1..Len(r) /\ (i - 1) + 1 = i
    BY <1>1
  <2>2. t[i] = r[i - 1] /\ r[i - 1] = s[i]
    BY <1>1, <1>3, <2>1
  <2> QED BY <2>2
<1>6. \A i \in 2..Len(s) : s[i][1] \notin {"submit", "play", "stop"}
  <2> TAKE i \in 2..Len(s)
  <2>1. i \in 1..Len(s) /\ i # 1
    BY <1>1
  <2> QED BY <2>1 DEF StackOk
<1>7. \A i \in 1..Len(t) :
        /\ t[i][1] \notin {"submit", "play", "stop"}
        /\ t[i][1] \in {"enqueue", "interrupted"} => i = Len(t)
        /\ t[i][1] = "enqueue" => t[i][2] \in Stream
  <2> TAKE i \in 1..Len(t)
  <2>1. CASE i = 1
    BY <1>4, <2>1
  <2>2. CASE i # 1
    <3>1. i \in 2..Len(s) /\ i \in 1..Len(s)
      BY <1>1, <1>4, <2>2
    <3> QED BY <1>4, <1>5, <1>6, <3>1 DEF StackOk
  <2> QED BY <2>1, <2>2
<1>8. StackOk(t) /\ ~SubmitOwed(t) /\ ~PlayOwed(t)
  BY <1>3, <1>4, <1>7 DEF StackOk, SubmitOwed, PlayOwed
<1>9. ASSUME NEW m PROVE Adding(t, m) <=> Adding(s, m)
  <2>1. CASE Len(s) = 1
    BY <1>4, <2>1 DEF Adding
  <2>2. CASE Len(s) # 1
    <3>1. Len(s) \in 2..Len(s)
      BY <1>1, <2>2
    <3> QED BY <1>4, <1>5, <3>1 DEF Adding
  <2> QED BY <2>1, <2>2
<1> QED BY <1>8, <1>9 DEF t, a, r

LEMMA PushedAll ==
  ASSUME NEW s, StackOk(s), s # <<>>, s[1][1] = "cancel", NEW n \in Nat
  PROVE  LET t == (SubmitAndPlay \o << <<"cancel", n>> >>) \o Tail(s) IN
         /\ StackOk(t) /\ SubmitOwed(t) /\ PlayOwed(t)
         /\ \A m : Adding(t, m) <=> Adding(s, m)
<1> DEFINE a == SubmitAndPlay \o << <<"cancel", n>> >>
           r == Tail(s)
           t == a \o r
<1>1. /\ r \in Seq(Calls) /\ Len(r) = Len(s) - 1 /\ Len(r) \in Nat /\ Len(s) \in Nat \ {0}
      /\ \A i \in 1..Len(r) : r[i] = s[i + 1]
  BY DEF StackOk
<1>2. /\ a \in Seq(Calls) /\ Len(a) = 3 /\ a[1] = <<"submit", 0>> /\ a[2] = <<"play", 0>>
      /\ a[3] = <<"cancel", n>>
  <2> DEFINE u == SubmitAndPlay
             v == << <<"cancel", n>> >>
  <2>1. {<<"submit", 0>>, <<"play", 0>>, <<"cancel", n>>} \subseteq Calls
    BY DEF Calls, Call
  <2>2. /\ u \in Seq(Calls) /\ Len(u) = 2 /\ u[1] = <<"submit", 0>> /\ u[2] = <<"play", 0>>
        /\ v \in Seq(Calls) /\ Len(v) = 1 /\ v[1] = <<"cancel", n>>
    BY <2>1 DEF SubmitAndPlay
  <2>3. a = u \o v
    OBVIOUS
  <2> HIDE DEF a, u, v
  <2>4. /\ a \in Seq(Calls) /\ Len(a) = Len(u) + Len(v)
        /\ \A i \in 1..(Len(u) + Len(v)) : a[i] = IF i <= Len(u) THEN u[i] ELSE v[i - Len(u)]
    BY <2>2, <2>3, ConcatProperties
  <2> QED BY <2>2, <2>4
<1> HIDE DEF a, r
<1>3. /\ t \in Seq(Calls) /\ Len(t) = 3 + Len(r)
      /\ \A i \in 1..(3 + Len(r)) : t[i] = IF i <= 3 THEN a[i] ELSE r[i - 3]
  <2>1. /\ t \in Seq(Calls) /\ Len(t) = Len(a) + Len(r)
        /\ \A i \in 1..(Len(a) + Len(r)) : t[i] = IF i <= Len(a) THEN a[i] ELSE r[i - Len(a)]
    BY <1>1, <1>2, ConcatProperties
  <2> HIDE DEF t
  <2> QED BY <1>2, <2>1
<1> HIDE DEF t
<1>4. /\ Len(t) = Len(s) + 2 /\ t[1] = <<"submit", 0>> /\ t[2] = <<"play", 0>>
      /\ t[3] = <<"cancel", n>>
  BY <1>1, <1>2, <1>3
<1>5. \A i \in 2..Len(s) : t[i + 2] = s[i]
  <2> TAKE i \in 2..Len(s)
  <2>1. /\ i + 2 \in 1..(3 + Len(r)) /\ ~(i + 2 <= 3) /\ (i + 2) - 3 \in 1..Len(r)
        /\ ((i + 2) - 3) + 1 = i
    BY <1>1
  <2>2. t[i + 2] = r[(i + 2) - 3] /\ r[(i + 2) - 3] = s[i]
    BY <1>1, <1>3, <2>1
  <2> QED BY <2>2
<1>6. \A i \in 2..Len(s) : s[i][1] \notin {"submit", "play", "stop"}
  <2> TAKE i \in 2..Len(s)
  <2>1. i \in 1..Len(s) /\ i # 1
    BY <1>1
  <2> QED BY <2>1 DEF StackOk
<1>7. \A i \in 3..Len(t) :
        /\ t[i][1] \notin {"submit", "play", "stop"}
        /\ t[i][1] \in {"enqueue", "interrupted"} => i = Len(t)
        /\ t[i][1] = "enqueue" => t[i][2] \in Stream
  <2> TAKE i \in 3..Len(t)
  <2>1. CASE i = 3
    BY <1>4, <2>1
  <2>2. CASE i # 3
    <3>1. i - 2 \in 2..Len(s) /\ i - 2 \in 1..Len(s) /\ (i - 2) + 2 = i
      BY <1>1, <1>4, <2>2
    <3>2. t[i] = s[i - 2]
      BY <1>5, <3>1
    <3>3. s[i - 2][1] \in {"enqueue", "interrupted"} => i - 2 = Len(s)
      BY <3>1 DEF StackOk
    <3>4. s[i - 2][1] = "enqueue" => s[i - 2][2] \in Stream
      BY <3>1 DEF StackOk
    <3>5. s[i - 2][1] \notin {"submit", "play", "stop"}
      BY <1>6, <3>1
    <3>6. i - 2 = Len(s) => i = Len(t)
      BY <1>1, <1>4
    <3> QED BY <3>2, <3>3, <3>4, <3>5, <3>6
  <2> QED BY <2>1, <2>2
<1>8. StackOk(t)
  <2>1. ASSUME NEW i \in 1..Len(t)
        PROVE  /\ t[i][1] = "submit" =>
                    i = 1 /\ Len(t) >= 2 /\ t[1] = <<"submit", 0>> /\ t[2] = <<"play", 0>>
               /\ t[i][1] = "play" =>
                    t[i] = <<"play", 0>> /\ (i > 1 => i = 2 /\ t[1][1] = "submit")
               /\ t[i][1] \in {"enqueue", "interrupted"} => i = Len(t)
               /\ t[i][1] = "enqueue" => t[i][2] \in Stream
               /\ t[i][1] = "stop" => i = 1
    <3>1. CASE i = 1
      BY <1>1, <1>4, <3>1
    <3>2. CASE i = 2
      BY <1>1, <1>4, <3>2
    <3>3. CASE i \in 3..Len(t)
      BY <1>7, <3>3
    <3> QED BY <1>1, <1>4, <3>1, <3>2, <3>3
  <2> QED BY <1>3, <2>1 DEF StackOk
<1>9. SubmitOwed(t) /\ PlayOwed(t)
  <2>1. 2 \in 1..Len(t) /\ Len(t) > 0
    BY <1>1, <1>4
  <2> QED BY <1>4, <2>1 DEF SubmitOwed, PlayOwed
<1>10. ASSUME NEW m PROVE Adding(t, m) <=> Adding(s, m)
  <2>1. CASE Len(s) = 1
    <3>1. t[Len(t)][1] = "cancel" /\ s[Len(s)][1] = "cancel"
      BY <1>4, <2>1
    <3>2. <<"enqueue", m>>[1] = "enqueue"
      OBVIOUS
    <3> QED BY <3>1, <3>2 DEF Adding
  <2>2. CASE Len(s) # 1
    <3>1. Len(s) \in 2..Len(s) /\ Len(s) + 2 = Len(t) /\ Len(t) > 0 /\ Len(s) > 0
      BY <1>1, <1>4, <2>2
    <3>2. t[Len(t)] = s[Len(s)]
      BY <1>5, <3>1
    <3> QED BY <3>1, <3>2 DEF Adding
  <2> QED BY <2>1, <2>2
<1> QED BY <1>8, <1>9, <1>10 DEF t, a, r

\* The stacks handlers start with.
LEMMA SubmitAndPlayIsOk ==
  /\ StackOk(SubmitAndPlay) /\ SubmitOwed(SubmitAndPlay) /\ PlayOwed(SubmitAndPlay)
  /\ \A n : ~Adding(SubmitAndPlay, n)
<1> DEFINE t == SubmitAndPlay
<1>1. {<<"submit", 0>>, <<"play", 0>>} \subseteq Calls
  BY DEF Calls, Call
<1>2. t \in Seq(Calls) /\ Len(t) = 2 /\ t[1] = <<"submit", 0>> /\ t[2] = <<"play", 0>>
  BY <1>1 DEF SubmitAndPlay
<1> HIDE DEF t
<1>3. t[1][1] = "submit" /\ t[2][1] = "play" /\ \A i \in 1..Len(t) : i \in {1, 2}
  BY <1>2
<1>4. StackOk(t)
  BY <1>2, <1>3 DEF StackOk
<1>5. SubmitOwed(t) /\ PlayOwed(t)
  BY <1>2, <1>3 DEF SubmitOwed, PlayOwed
<1>6. ASSUME NEW n PROVE t[2] # <<"enqueue", n>>
  BY <1>3
<1> QED BY <1>2, <1>4, <1>5, <1>6 DEF t, Adding

LEMMA OneCallIsOk ==
  ASSUME NEW call \in Calls, call = <<"play", 0>> \/ (call[1] = "enqueue" /\ call[2] \in Stream)
  PROVE  /\ StackOk(<<call>>) /\ ~SubmitOwed(<<call>>)
         /\ PlayOwed(<<call>>) <=> call[1] = "play"
         /\ \A n : Adding(<<call>>, n) <=> call = <<"enqueue", n>>
<1> DEFINE t == <<call>>
<1>1. t \in Seq(Calls) /\ Len(t) = 1 /\ t[1] = call
  OBVIOUS
<1> HIDE DEF t
<1>2. \A i \in 1..Len(t) : i = 1
  BY <1>1
<1>3. StackOk(t)
  BY <1>1, <1>2 DEF StackOk
<1>4. call[1] \in {"play", "enqueue"}
  OBVIOUS
<1> QED BY <1>1, <1>2, <1>3, <1>4 DEF t, SubmitOwed, PlayOwed, Adding

LEMMA StopsFirstIsOk ==
  ASSUME NEW call \in Calls, call[1] = "interrupted" \/ (call[1] = "enqueue" /\ call[2] \in Stream)
  PROVE  LET t == << <<"stop", 0>>, call >> IN
         /\ StackOk(t) /\ ~SubmitOwed(t) /\ ~PlayOwed(t)
         /\ \A n : Adding(t, n) <=> call = <<"enqueue", n>>
<1> DEFINE t == << <<"stop", 0>>, call >>
<1>1. <<"stop", 0>> \in Calls
  BY DEF Calls, Call
<1>2. t \in Seq(Calls) /\ Len(t) = 2 /\ t[1] = <<"stop", 0>> /\ t[2] = call
  BY <1>1
<1> HIDE DEF t
<1>3. t[1][1] = "stop" /\ \A i \in 1..Len(t) : i \in {1, 2}
  BY <1>2
<1>4. StackOk(t)
  BY <1>2, <1>3 DEF StackOk
<1>5. ~SubmitOwed(t) /\ ~PlayOwed(t)
  BY <1>2, <1>3 DEF SubmitOwed, PlayOwed
<1> QED BY <1>2, <1>4, <1>5 DEF t, Adding

-----------------------------------------------------------------------------
(* A dialogue and its fields *)

LEMMA TypesOf ==
  ASSUME NEW d \in Dialogue
  PROVE  /\ d.active \in 0..MaxStreams /\ d.finished \in BOOLEAN /\ d.next \in Nat \ {0}
         /\ d.playing \in Nat /\ d.inFlight \in Nat /\ d.tasks \in Seq(Task)
         /\ d.wait \in Seq(Nat)
         /\ Len(d.tasks) \in Nat /\ DOMAIN d.tasks = 1..Len(d.tasks)
         /\ Len(d.wait) \in Nat /\ DOMAIN d.wait = 1..Len(d.wait)
         /\ \A i \in DOMAIN d.tasks : d.tasks[i] \in Task
BY DEF Dialogue

\* One field of a dialogue at a time.
LEMMA WithActive ==
  ASSUME NEW d \in Dialogue, NEW v \in 0..MaxStreams
  PROVE  LET e == [d EXCEPT !.active = v] IN
         /\ e \in Dialogue /\ e.active = v
         /\ e.finished = d.finished /\ e.next = d.next /\ e.playing = d.playing
         /\ e.inFlight = d.inFlight /\ e.tasks = d.tasks /\ e.wait = d.wait
<1> DEFINE e == [d EXCEPT !.active = v]
<1>1. e \in Dialogue
  BY DEF Dialogue
<1>2. e.active = v
  BY DEF Dialogue
<1>3. /\ e.finished = d.finished /\ e.next = d.next /\ e.playing = d.playing
      /\ e.inFlight = d.inFlight /\ e.tasks = d.tasks /\ e.wait = d.wait
  BY DEF Dialogue
<1> QED BY <1>1, <1>2, <1>3

LEMMA WithFinished ==
  ASSUME NEW d \in Dialogue, NEW v \in BOOLEAN
  PROVE  LET e == [d EXCEPT !.finished = v] IN
         /\ e \in Dialogue /\ e.finished = v
         /\ e.active = d.active /\ e.next = d.next /\ e.playing = d.playing
         /\ e.inFlight = d.inFlight /\ e.tasks = d.tasks /\ e.wait = d.wait
<1> DEFINE e == [d EXCEPT !.finished = v]
<1>1. e \in Dialogue
  BY DEF Dialogue
<1>2. e.finished = v
  BY DEF Dialogue
<1>3. /\ e.active = d.active /\ e.next = d.next /\ e.playing = d.playing
      /\ e.inFlight = d.inFlight /\ e.tasks = d.tasks /\ e.wait = d.wait
  BY DEF Dialogue
<1> QED BY <1>1, <1>2, <1>3

LEMMA WithNext ==
  ASSUME NEW d \in Dialogue, NEW v \in Nat \ {0}
  PROVE  LET e == [d EXCEPT !.next = v] IN
         /\ e \in Dialogue /\ e.next = v
         /\ e.active = d.active /\ e.finished = d.finished /\ e.playing = d.playing
         /\ e.inFlight = d.inFlight /\ e.tasks = d.tasks /\ e.wait = d.wait
<1> DEFINE e == [d EXCEPT !.next = v]
<1>1. e \in Dialogue
  BY DEF Dialogue
<1>2. e.next = v
  BY DEF Dialogue
<1>3. /\ e.active = d.active /\ e.finished = d.finished /\ e.playing = d.playing
      /\ e.inFlight = d.inFlight /\ e.tasks = d.tasks /\ e.wait = d.wait
  BY DEF Dialogue
<1> QED BY <1>1, <1>2, <1>3

LEMMA WithPlaying ==
  ASSUME NEW d \in Dialogue, NEW v \in Nat
  PROVE  LET e == [d EXCEPT !.playing = v] IN
         /\ e \in Dialogue /\ e.playing = v
         /\ e.active = d.active /\ e.finished = d.finished /\ e.next = d.next
         /\ e.inFlight = d.inFlight /\ e.tasks = d.tasks /\ e.wait = d.wait
<1> DEFINE e == [d EXCEPT !.playing = v]
<1>1. e \in Dialogue
  BY DEF Dialogue
<1>2. e.playing = v
  BY DEF Dialogue
<1>3. /\ e.active = d.active /\ e.finished = d.finished /\ e.next = d.next
      /\ e.inFlight = d.inFlight /\ e.tasks = d.tasks /\ e.wait = d.wait
  BY DEF Dialogue
<1> QED BY <1>1, <1>2, <1>3

LEMMA WithInFlight ==
  ASSUME NEW d \in Dialogue, NEW v \in Nat
  PROVE  LET e == [d EXCEPT !.inFlight = v] IN
         /\ e \in Dialogue /\ e.inFlight = v
         /\ e.active = d.active /\ e.finished = d.finished /\ e.next = d.next
         /\ e.playing = d.playing /\ e.tasks = d.tasks /\ e.wait = d.wait
<1> DEFINE e == [d EXCEPT !.inFlight = v]
<1>1. e \in Dialogue
  BY DEF Dialogue
<1>2. e.inFlight = v
  BY DEF Dialogue
<1>3. /\ e.active = d.active /\ e.finished = d.finished /\ e.next = d.next
      /\ e.playing = d.playing /\ e.tasks = d.tasks /\ e.wait = d.wait
  BY DEF Dialogue
<1> QED BY <1>1, <1>2, <1>3

LEMMA WithTasks ==
  ASSUME NEW d \in Dialogue, NEW v \in Seq(Task)
  PROVE  LET e == [d EXCEPT !.tasks = v] IN
         /\ e \in Dialogue /\ e.tasks = v
         /\ e.active = d.active /\ e.finished = d.finished /\ e.next = d.next
         /\ e.playing = d.playing /\ e.inFlight = d.inFlight /\ e.wait = d.wait
<1> DEFINE e == [d EXCEPT !.tasks = v]
<1>1. e \in Dialogue
  BY DEF Dialogue
<1>2. e.tasks = v
  BY DEF Dialogue
<1>3. /\ e.active = d.active /\ e.finished = d.finished /\ e.next = d.next
      /\ e.playing = d.playing /\ e.inFlight = d.inFlight /\ e.wait = d.wait
  BY DEF Dialogue
<1> QED BY <1>1, <1>2, <1>3

LEMMA WithWait ==
  ASSUME NEW d \in Dialogue, NEW v \in Seq(Nat)
  PROVE  LET e == [d EXCEPT !.wait = v] IN
         /\ e \in Dialogue /\ e.wait = v
         /\ e.active = d.active /\ e.finished = d.finished /\ e.next = d.next
         /\ e.playing = d.playing /\ e.inFlight = d.inFlight /\ e.tasks = d.tasks
<1> DEFINE e == [d EXCEPT !.wait = v]
<1>1. e \in Dialogue
  BY DEF Dialogue
<1>2. e.wait = v
  BY DEF Dialogue
<1>3. /\ e.active = d.active /\ e.finished = d.finished /\ e.next = d.next
      /\ e.playing = d.playing /\ e.inFlight = d.inFlight /\ e.tasks = d.tasks
  BY DEF Dialogue
<1> QED BY <1>1, <1>2, <1>3

\* The tasks of a dialogue with another one at i.
Swapped(d, e, i) ==
  /\ e \in Dialogue /\ DOMAIN e.tasks = DOMAIN d.tasks /\ Len(e.tasks) = Len(d.tasks)
  /\ \A j \in DOMAIN d.tasks \ {i} : e.tasks[j] = d.tasks[j]

LEMMA TasksSwapped ==
  ASSUME NEW d \in Dialogue, NEW i \in DOMAIN d.tasks, NEW t \in Task,
         NEW e \in Dialogue, e.tasks = [d.tasks EXCEPT ![i] = t]
  PROVE  Swapped(d, e, i) /\ e.tasks[i] = t
<1>1. d.tasks \in Seq(Task) /\ e.tasks \in Seq(Task)
  BY DEF Dialogue
<1>2. Len(e.tasks) = Len(d.tasks)
  BY <1>1
<1> QED BY <1>1, <1>2 DEF Swapped

Submitted(d, i, id) == [d EXCEPT !.inFlight = @ + 1, !.tasks[i].tts = id]
Asking(x, id) == [x EXCEPT !.replies = @ \union {id}]
LEMMA SubmittedFields ==
  ASSUME NEW d \in Dialogue, NEW i \in DOMAIN d.tasks, NEW id \in Nat
  PROVE  LET e == [d EXCEPT !.inFlight = @ + 1, !.tasks[i].tts = id] IN
         /\ Swapped(d, e, i)
         /\ e.tasks[i].tts = id /\ e.tasks[i].state = d.tasks[i].state
         /\ e.tasks[i].stream = d.tasks[i].stream /\ e.tasks[i].index = d.tasks[i].index
         /\ e.inFlight = d.inFlight + 1 /\ e.wait = d.wait /\ e.active = d.active
         /\ e.finished = d.finished /\ e.next = d.next /\ e.playing = d.playing
<1> DEFINE t == [d.tasks[i] EXCEPT !.tts = id]
           ts == [d.tasks EXCEPT ![i] = t]
           m == d.inFlight + 1
           g == [d EXCEPT !.inFlight = m]
           e == [g EXCEPT !.tasks = ts]
<1>1. t \in Task /\ t.tts = id /\ t.state = d.tasks[i].state /\ t.stream = d.tasks[i].stream
      /\ t.index = d.tasks[i].index
  BY TypesOf DEF Task
<1>2. [d EXCEPT !.inFlight = @ + 1, !.tasks[i].tts = id]
      = [d EXCEPT !.inFlight = m, !.tasks = ts]
  OBVIOUS
<1> HIDE DEF t
<1>3. ts \in Seq(Task) /\ m \in Nat
  BY <1>1, TypesOf
<1> HIDE DEF ts, m
<1>4. [d EXCEPT !.inFlight = m, !.tasks = ts] = e
  BY DEF Dialogue
<1>5. /\ g \in Dialogue /\ g.inFlight = m /\ g.wait = d.wait /\ g.active = d.active
      /\ g.finished = d.finished /\ g.next = d.next /\ g.playing = d.playing
  BY <1>3, WithInFlight
<1> HIDE DEF g
<1>6. /\ e \in Dialogue /\ e.tasks = ts /\ e.inFlight = g.inFlight /\ e.wait = g.wait
      /\ e.active = g.active /\ e.finished = g.finished /\ e.next = g.next
      /\ e.playing = g.playing
  BY <1>3, <1>5, WithTasks
<1> HIDE DEF e
<1>7. Swapped(d, e, i) /\ e.tasks[i] = t
  BY <1>1, <1>6, TasksSwapped DEF ts
<1> QED BY <1>1, <1>2, <1>4, <1>5, <1>6, <1>7 DEF m

-----------------------------------------------------------------------------
(* Every pending sentence is being synthesised or waits for a slot *)

Pending(d, i) == d.tasks[i].state = "pending"
Requested(d) == {i \in DOMAIN d.tasks : d.tasks[i].tts # 0}
InLine(d, i) == \E j \in DOMAIN d.wait : d.wait[j] = i
\* A request belongs to one pending sentence and is under way.
RequestsOk(x, d) ==
  /\ \A i \in Requested(d) : d.tasks[i].tts \in x.replies /\ Pending(d, i)
  /\ \A i, j \in Requested(d) : d.tasks[i].tts = d.tasks[j].tts => i = j
SlotsOk(d) == d.inFlight = Cardinality(Requested(d)) /\ d.inFlight <= MaxSynthesis
LineOk(d) ==
  /\ \A i, j \in DOMAIN d.wait : d.wait[i] = d.wait[j] => i = j
  /\ \A j \in DOMAIN d.wait : d.wait[j] \in DOMAIN d.tasks \ Requested(d)
\* All pending sentences but those in S, which the handler has in its hands.
CaredBut(d, S) ==
  /\ \A i \in DOMAIN d.tasks : Pending(d, i) <=> i \in Requested(d) \/ InLine(d, i) \/ i \in S
  /\ \A i \in S : i \in DOMAIN d.tasks /\ i \notin Requested(d) /\ ~InLine(d, i)
Care(x, d, S) == RequestsOk(x, d) /\ SlotsOk(d) /\ LineOk(d) /\ CaredBut(d, S)

LEMMA RequestedIsFinite ==
  ASSUME NEW d \in Dialogue
  PROVE  IsFiniteSet(Requested(d)) /\ Cardinality(Requested(d)) \in Nat
<1>1. IsFiniteSet(DOMAIN d.tasks)
  BY TypesOf, FS_Interval
<1>2. Requested(d) \subseteq DOMAIN d.tasks
  BY DEF Requested
<1> QED BY <1>1, <1>2, FS_Subset, FS_CardinalityType

\* The controller may do what it likes with requests of its own.
LEMMA ControllerKeepsCare ==
  ASSUME NEW x, NEW y, NEW d, NEW S, Moves(x, y, d), Care(x, d, S)
  PROVE  Care(y, d, S)
BY DEF Moves, SameRequests, Care, RequestsOk, Requested

\* As far as requests go.
SamePlaces(d, e) ==
  /\ e \in Dialogue /\ DOMAIN e.tasks = DOMAIN d.tasks /\ e.wait = d.wait
  /\ e.inFlight = d.inFlight
  /\ \A i \in DOMAIN d.tasks :
       e.tasks[i].tts = d.tasks[i].tts /\ (Pending(e, i) <=> Pending(d, i))
LEMMA SamePlacesKeepCare ==
  ASSUME NEW x, NEW d, NEW e, NEW S, SamePlaces(d, e), Care(x, d, S)
  PROVE  Care(x, e, S)
<1>1. Requested(e) = Requested(d)
  BY DEF SamePlaces, Requested
<1>2. RequestsOk(x, e)
  BY <1>1 DEF Care, RequestsOk, SamePlaces, Requested
<1>3. SlotsOk(e)
  BY <1>1 DEF Care, SlotsOk, SamePlaces
<1>4. LineOk(e)
  BY <1>1 DEF Care, LineOk, SamePlaces
<1>5. CaredBut(e, S)
  BY <1>1 DEF Care, CaredBut, InLine, SamePlaces
<1> QED BY <1>2, <1>3, <1>4, <1>5 DEF Care

\* SubmitSynthesis of a pending sentence that was in hand.
LEMMA SubmitKeepsCare ==
  ASSUME NEW x, Controls(x), NEW d \in Dialogue, NEW i, Care(x, d, {i}), d.inFlight < MaxSynthesis,
         NEW id, id = FreshId(x, d)
  PROVE  LET e == Submitted(d, i, id)
             y == Asking(x, id)
         IN
         /\ Controls(y) /\ e \in Dialogue /\ Care(y, e, {})
         /\ Swapped(d, e, i) /\ i \in DOMAIN d.tasks /\ Pending(d, i)
         /\ e.tasks[i].state = d.tasks[i].state
         /\ e.tasks[i].stream = d.tasks[i].stream /\ e.tasks[i].index = d.tasks[i].index
         /\ e.inFlight = d.inFlight + 1 /\ e.wait = d.wait /\ e.active = d.active
         /\ e.finished = d.finished /\ e.next = d.next /\ e.playing = d.playing
<1> DEFINE e == Submitted(d, i, id)
           y == Asking(x, id)
<1>1. id \in Nat /\ id # 0 /\ id \notin Used(x, d)
  BY FreshIsFresh
<1>2. i \in DOMAIN d.tasks /\ i \notin Requested(d) /\ ~InLine(d, i) /\ Pending(d, i)
  BY DEF Care, CaredBut
<1>3. /\ Swapped(d, e, i)
      /\ e.tasks[i].tts = id /\ e.tasks[i].state = d.tasks[i].state
      /\ e.tasks[i].stream = d.tasks[i].stream /\ e.tasks[i].index = d.tasks[i].index
      /\ e.inFlight = d.inFlight + 1 /\ e.wait = d.wait /\ e.active = d.active
      /\ e.finished = d.finished /\ e.next = d.next /\ e.playing = d.playing
  BY <1>1, <1>2, SubmittedFields DEF Submitted
<1> HIDE DEF e
<1>4. y \in Controller /\ y.replies = x.replies \cup {id}
  BY <1>1 DEF Controls, Controller, Asking
<1> HIDE DEF y
<1>5. Controls(y)
  BY <1>4, FS_AddElement DEF Controls
<1>6. Requested(e) = Requested(d) \cup {i}
  BY <1>1, <1>2, <1>3 DEF Requested, Swapped
<1>7. \A j \in Requested(d) : e.tasks[j] = d.tasks[j] /\ d.tasks[j].tts # id /\ j # i
  BY <1>1, <1>2, <1>3 DEF Requested, Swapped, Used
<1>8. RequestsOk(y, e)
  BY <1>2, <1>3, <1>4, <1>6, <1>7 DEF Care, RequestsOk, Pending
<1>9. SlotsOk(e)
  <2>1. Cardinality(Requested(e)) = Cardinality(Requested(d)) + 1
    BY <1>2, <1>6, RequestedIsFinite, FS_AddElement
  <2> QED BY <1>3, <2>1, TypesOf, SpeechAssumption DEF Care, SlotsOk
<1>10. LineOk(e)
  BY <1>2, <1>3, <1>6 DEF Care, LineOk, InLine, Swapped
<1>11. CaredBut(e, {})
  BY <1>2, <1>3, <1>6 DEF Care, CaredBut, InLine, Swapped, Pending
<1>12. e \in Dialogue
  BY <1>3 DEF Swapped
<1> QED BY <1>2, <1>3, <1>5, <1>8, <1>9, <1>10, <1>11, <1>12 DEF Care, e, y

\* A pending sentence that was in hand waits at the end of the line.
LEMMA LiningUpKeepsCare ==
  ASSUME NEW x, NEW d \in Dialogue, NEW i \in Nat, Care(x, d, {i}),
         NEW e, e = [d EXCEPT !.wait = Append(@, i)]
  PROVE  /\ e \in Dialogue /\ Care(x, e, {}) /\ e.tasks = d.tasks
         /\ e.inFlight = d.inFlight /\ e.active = d.active /\ e.finished = d.finished
         /\ e.next = d.next /\ e.playing = d.playing
<1> DEFINE w == Append(d.wait, i)
           n == Len(d.wait)
<1>1. d.wait \in Seq(Nat) /\ n \in Nat /\ DOMAIN d.wait = 1..n
  BY TypesOf
<1>2. /\ w \in Seq(Nat) /\ DOMAIN w = 1..(n + 1) /\ w[n + 1] = i
      /\ \A j \in 1..n : w[j] = d.wait[j]
  BY <1>1
<1> DEFINE g == [d EXCEPT !.wait = w]
<1>3. e = g
  OBVIOUS
<1> HIDE DEF w, n
<1>4. /\ e \in Dialogue /\ e.wait = w /\ e.tasks = d.tasks
      /\ e.inFlight = d.inFlight /\ e.active = d.active /\ e.finished = d.finished
      /\ e.next = d.next /\ e.playing = d.playing
  <2>1. /\ g \in Dialogue /\ g.wait = w /\ g.tasks = d.tasks
        /\ g.inFlight = d.inFlight /\ g.active = d.active /\ g.finished = d.finished
        /\ g.next = d.next /\ g.playing = d.playing
    BY <1>2, WithWait
  <2> HIDE DEF g
  <2> QED BY <1>3, <2>1
<1>5. i \in DOMAIN d.tasks /\ i \notin Requested(d) /\ ~InLine(d, i)
  BY DEF Care, CaredBut
<1>6. Requested(e) = Requested(d)
  BY <1>4 DEF Requested
<1>7. \A j \in 1..(n + 1) : j \in 1..n \/ j = n + 1
  BY <1>1
<1>8. \A m : InLine(e, m) <=> InLine(d, m) \/ m = i
  <2>1. n + 1 \in 1..(n + 1) /\ \A j \in 1..n : j \in 1..(n + 1)
    BY <1>1
  <2> QED BY <1>1, <1>2, <1>4, <1>7, <2>1 DEF InLine
<1>9. \A j \in 1..n : d.wait[j] # i
  BY <1>1, <1>5 DEF InLine
<1>10. LineOk(e)
  <2>1. ASSUME NEW a \in 1..(n + 1), NEW b \in 1..(n + 1), w[a] = w[b] PROVE a = b
    BY <1>1, <1>2, <1>7, <1>9, <2>1 DEF Care, LineOk
  <2>2. ASSUME NEW j \in 1..(n + 1) PROVE w[j] \in DOMAIN e.tasks \ Requested(e)
    BY <1>1, <1>2, <1>4, <1>5, <1>6, <1>7 DEF Care, LineOk
  <2> QED BY <1>2, <1>4, <2>1, <2>2 DEF LineOk
<1>11. CaredBut(e, {})
  BY <1>4, <1>6, <1>8 DEF Care, CaredBut, Pending
<1>12. RequestsOk(x, e) /\ SlotsOk(e)
  BY <1>4, <1>6 DEF Care, RequestsOk, SlotsOk, Pending
<1> QED BY <1>4, <1>10, <1>11, <1>12 DEF Care

\* Taking the first sentence of the line in hand.
Taken(d) == [d EXCEPT !.wait = Tail(@)]
LEMMA TakingKeepsCare ==
  ASSUME NEW x, NEW d \in Dialogue, d.wait # <<>>, Care(x, d, {}),
         NEW i, i = Head(d.wait), NEW e, e = Taken(d)
  PROVE  /\ e \in Dialogue /\ Care(x, e, {i}) /\ e.tasks = d.tasks
         /\ e.inFlight = d.inFlight /\ e.active = d.active /\ e.finished = d.finished
         /\ e.next = d.next /\ e.playing = d.playing
<1> DEFINE w == Tail(d.wait)
           n == Len(d.wait)
           g == [d EXCEPT !.wait = w]
<1>1. d.wait \in Seq(Nat) /\ n \in Nat \ {0} /\ DOMAIN d.wait = 1..n /\ i = d.wait[1]
  BY TypesOf
<1>2. /\ w \in Seq(Nat) /\ DOMAIN w = 1..(n - 1)
      /\ \A j \in 1..(n - 1) : w[j] = d.wait[j + 1]
  BY <1>1
<1>3. e = g
  BY DEF Taken
<1> HIDE DEF w, n
<1>4. /\ e \in Dialogue /\ e.wait = w /\ e.tasks = d.tasks
      /\ e.inFlight = d.inFlight /\ e.active = d.active /\ e.finished = d.finished
      /\ e.next = d.next /\ e.playing = d.playing
  <2>1. /\ g \in Dialogue /\ g.wait = w /\ g.tasks = d.tasks
        /\ g.inFlight = d.inFlight /\ g.active = d.active /\ g.finished = d.finished
        /\ g.next = d.next /\ g.playing = d.playing
    BY <1>2, WithWait
  <2> HIDE DEF g
  <2> QED BY <1>3, <2>1
<1>5. Requested(e) = Requested(d)
  BY <1>4 DEF Requested
<1>6. /\ 1 \in 1..n /\ \A j \in 1..(n - 1) : j + 1 \in 1..n /\ j + 1 # 1
      /\ \A j \in 1..n : j = 1 \/ (j - 1 \in 1..(n - 1) /\ (j - 1) + 1 = j)
  BY <1>1
<1>7. /\ \A a, b \in 1..n : d.wait[a] = d.wait[b] => a = b
      /\ \A j \in 1..n : d.wait[j] \in DOMAIN d.tasks /\ d.wait[j] \notin Requested(d)
  BY <1>1 DEF Care, LineOk
<1>8. \A j \in 1..(n - 1) : w[j] # i
  <2> SUFFICES ASSUME NEW j \in 1..(n - 1), w[j] = i PROVE FALSE
    OBVIOUS
  <2>1. j + 1 \in 1..n /\ 1 \in 1..n /\ j + 1 # 1 /\ d.wait[j + 1] = d.wait[1]
    BY <1>1, <1>2, <1>6
  <2> QED BY <1>7, <2>1
<1>9. \A m : InLine(d, m) <=> InLine(e, m) \/ m = i
  <2> TAKE m
  <2>1. InLine(d, m) => InLine(e, m) \/ m = i
    <3> SUFFICES ASSUME NEW j \in 1..n, d.wait[j] = m PROVE InLine(e, m) \/ m = i
      BY <1>1 DEF InLine
    <3>1. CASE j = 1
      BY <1>1, <3>1
    <3>2. CASE j # 1
      <4>1. j - 1 \in 1..(n - 1) /\ w[j - 1] = m
        BY <1>2, <1>6, <3>2
      <4> QED BY <1>2, <1>4, <4>1 DEF InLine
    <3> QED BY <3>1, <3>2
  <2>2. InLine(e, m) => InLine(d, m)
    <3> SUFFICES ASSUME NEW j \in 1..(n - 1), w[j] = m PROVE InLine(d, m)
      BY <1>2, <1>4 DEF InLine
    <3>1. j + 1 \in 1..n /\ d.wait[j + 1] = m
      BY <1>2, <1>6
    <3> QED BY <1>1, <3>1 DEF InLine
  <2>3. InLine(d, i)
    BY <1>1, <1>6 DEF InLine
  <2> QED BY <2>1, <2>2, <2>3
<1>10. ~InLine(e, i)
  BY <1>2, <1>4, <1>8 DEF InLine
<1>11. i \in DOMAIN d.tasks \ Requested(d)
  BY <1>1, <1>6, <1>7
<1>12. LineOk(e)
  <2>1. ASSUME NEW a \in 1..(n - 1), NEW b \in 1..(n - 1), w[a] = w[b] PROVE a = b
    <3>1. a + 1 = b + 1
      BY <1>2, <1>6, <1>7, <2>1
    <3> QED BY <3>1
  <2>2. ASSUME NEW j \in 1..(n - 1) PROVE w[j] \in DOMAIN e.tasks \ Requested(e)
    <3>1. j + 1 \in 1..n /\ w[j] = d.wait[j + 1]
      BY <1>2, <1>6
    <3> QED BY <1>4, <1>5, <1>7, <3>1
  <2>3. DOMAIN w = 1..(n - 1) /\ e.wait = w
    BY <1>2, <1>4
  <2>4. \A a, b \in DOMAIN w : w[a] = w[b] => a = b
    BY <2>1, <2>3
  <2>5. \A j \in DOMAIN w : w[j] \in DOMAIN e.tasks \ Requested(e)
    BY <2>2, <2>3
  <2> QED BY <2>3, <2>4, <2>5 DEF LineOk
<1>13. CaredBut(e, {i})
  BY <1>4, <1>5, <1>9, <1>10, <1>11 DEF Care, CaredBut, Pending
<1>14. RequestsOk(x, e) /\ SlotsOk(e)
  BY <1>4, <1>5 DEF Care, RequestsOk, SlotsOk, Pending
<1> QED BY <1>4, <1>12, <1>13, <1>14 DEF Care

\* A new sentence is in hand.
LEMMA AddingKeepsCare ==
  ASSUME NEW x, NEW d \in Dialogue, Care(x, d, {}), NEW t \in Task, t.state = "pending", t.tts = 0,
         NEW e \in Dialogue, e.tasks = Append(d.tasks, t), e.wait = d.wait, e.inFlight = d.inFlight
  PROVE  Care(x, e, {Len(d.tasks) + 1})
<1> DEFINE n == Len(d.tasks)
<1>1. n \in Nat /\ DOMAIN d.tasks = 1..n /\ d.tasks \in Seq(Task)
  BY TypesOf
<1>2. /\ DOMAIN e.tasks = 1..(n + 1) /\ e.tasks[n + 1] = t
      /\ \A i \in 1..n : e.tasks[i] = d.tasks[i]
  BY <1>1
<1> HIDE DEF n
<1>3. /\ \A i \in 1..(n + 1) : i \in 1..n \/ i = n + 1
      /\ \A i \in 1..n : i \in 1..(n + 1) /\ i # n + 1
      /\ n + 1 \in 1..(n + 1) /\ n + 1 \notin 1..n
  BY <1>1
<1>4. Requested(e) = Requested(d)
  BY <1>1, <1>2, <1>3 DEF Requested
<1>5. RequestsOk(x, e) /\ SlotsOk(e)
  BY <1>1, <1>2, <1>4 DEF Care, RequestsOk, SlotsOk, Pending, Requested
<1>6. LineOk(e)
  BY <1>1, <1>2, <1>3, <1>4 DEF Care, LineOk
<1>7. \A i : InLine(e, i) <=> InLine(d, i)
  BY DEF InLine
<1>8. ~InLine(e, n + 1) /\ n + 1 \notin Requested(e)
  BY <1>1, <1>3, <1>4, <1>7 DEF Care, LineOk, InLine, Requested
<1>9. CaredBut(e, {n + 1})
  BY <1>1, <1>2, <1>3, <1>4, <1>7, <1>8 DEF Care, CaredBut, Pending
<1> QED BY <1>5, <1>6, <1>9 DEF Care, n

\* OnSynthesisFinished of a sentence that is being synthesised.
Answered(d, i, state) ==
  [d EXCEPT !.inFlight = @ - 1, !.tasks[i].tts = 0, !.tasks[i].state = state]
Answering(x, id) == [x EXCEPT !.replies = @ \ {id}]
LEMMA SynthesizedKeepsCare ==
  ASSUME NEW x, Controls(x), NEW d \in Dialogue, NEW i \in Requested(d), Care(x, d, {}),
         NEW s \in {"ready", "failed"}, NEW e, e = Answered(d, i, s),
         NEW y, y = Answering(x, d.tasks[i].tts)
  PROVE  /\ Controls(y) /\ e \in Dialogue /\ Care(y, e, {})
         /\ Swapped(d, e, i) /\ Pending(d, i) /\ e.tasks[i].state \in {"ready", "failed"}
         /\ e.tasks[i].stream = d.tasks[i].stream /\ e.tasks[i].index = d.tasks[i].index
         /\ e.inFlight = d.inFlight - 1 /\ e.wait = d.wait /\ e.active = d.active
         /\ e.finished = d.finished /\ e.next = d.next /\ e.playing = d.playing
<1> DEFINE id == d.tasks[i].tts
           u == [d.tasks[i] EXCEPT !.tts = 0]
           t == [u EXCEPT !.state = s]
           us == [d.tasks EXCEPT ![i] = u]
           ts == [us EXCEPT ![i] = t]
           m == d.inFlight - 1
           g == [d EXCEPT !.inFlight = m]
           h == [g EXCEPT !.tasks = ts]
<1>1. /\ i \in DOMAIN d.tasks /\ d.tasks[i] \in Task /\ Pending(d, i) /\ id \in x.replies
      /\ d.inFlight = Cardinality(Requested(d)) /\ d.inFlight \in Nat
      /\ d.tasks \in Seq(Task)
  BY TypesOf DEF Requested, Care, RequestsOk, SlotsOk
<1>2. s \in {"ready", "failed"}
  OBVIOUS
<1>3. e = [d EXCEPT !.inFlight = m, !.tasks = [us EXCEPT ![i].state = s]]
  BY DEF Answered
<1>4. us[i] = u /\ u \in Task /\ us \in Seq(Task) /\ DOMAIN us = DOMAIN d.tasks
  <2>1. u \in Task
    BY <1>1 DEF Task
  <2> HIDE DEF u
  <2> QED BY <1>1, <2>1
<1>5. u.tts = 0 /\ u.stream = d.tasks[i].stream /\ u.index = d.tasks[i].index
  BY <1>1 DEF Task
<1> HIDE DEF u
<1>6. /\ t \in Task /\ t.tts = 0 /\ t.state = s /\ t.stream = d.tasks[i].stream
      /\ t.index = d.tasks[i].index
  BY <1>2, <1>4, <1>5 DEF Task
<1>7. [us EXCEPT ![i].state = s] = ts
  BY <1>4
<1> HIDE DEF t
<1>8. /\ ts \in Seq(Task) /\ DOMAIN ts = DOMAIN d.tasks /\ ts[i] = t
      /\ \A j \in DOMAIN d.tasks \ {i} : ts[j] = d.tasks[j]
  <2>1. \A j \in DOMAIN d.tasks \ {i} : us[j] = d.tasks[j]
    BY <1>1
  <2> HIDE DEF us
  <2> QED BY <1>1, <1>4, <1>6, <2>1
<1> HIDE DEF us
<1>9. Cardinality(Requested(d) \ {i}) = Cardinality(Requested(d)) - 1
      /\ Cardinality(Requested(d) \ {i}) \in Nat
  BY RequestedIsFinite, FS_RemoveElement, FS_CardinalityType
<1>10. m \in Nat
  BY <1>1, <1>9
<1> HIDE DEF ts, m
<1>11. e = h
  BY <1>3, <1>7 DEF Dialogue
<1>12. /\ g \in Dialogue /\ g.inFlight = m /\ g.wait = d.wait /\ g.active = d.active
       /\ g.finished = d.finished /\ g.next = d.next /\ g.playing = d.playing
  BY <1>10, WithInFlight
<1> HIDE DEF g
<1>13. /\ h \in Dialogue /\ h.tasks = ts /\ h.inFlight = g.inFlight /\ h.wait = g.wait
       /\ h.active = g.active /\ h.finished = g.finished /\ h.next = g.next
       /\ h.playing = g.playing
  BY <1>8, <1>12, WithTasks
<1> HIDE DEF h
<1>14. Swapped(d, e, i) /\ e.tasks[i] = t /\ e.inFlight = m /\ e.wait = d.wait
  <2>1. Len(ts) = Len(d.tasks)
    BY <1>1, <1>8
  <2> QED BY <1>8, <1>11, <1>12, <1>13, <2>1 DEF Swapped
<1>15. Requested(e) = Requested(d) \ {i}
  BY <1>6, <1>14 DEF Requested, Swapped
<1>16. y \in Controller /\ y.replies = x.replies \ {id} /\ Controls(y)
  <2>1. y \in Controller /\ y.replies = x.replies \ {id}
    BY DEF Controls, Controller, Answering
  <2> QED BY <2>1, FS_Subset DEF Controls
<1>17. RequestsOk(y, e)
  <2>1. ASSUME NEW j \in Requested(d) \ {i}
        PROVE  e.tasks[j] = d.tasks[j] /\ d.tasks[j].tts # id /\ d.tasks[j].tts \in x.replies
               /\ Pending(d, j)
    BY <1>14 DEF Care, RequestsOk, Swapped, Requested
  <2> QED BY <1>15, <1>16, <2>1 DEF Care, RequestsOk, Pending
<1>18. SlotsOk(e)
  <2>1. e.inFlight = d.inFlight - 1 /\ d.inFlight <= MaxSynthesis /\ MaxSynthesis \in Nat
    BY <1>14, SpeechAssumption DEF m, Care, SlotsOk
  <2>2. e.inFlight = Cardinality(Requested(e))
    BY <1>1, <1>9, <1>15, <2>1
  <2>3. e.inFlight <= MaxSynthesis
    BY <1>1, <2>1
  <2> QED BY <2>2, <2>3 DEF SlotsOk
<1>19. LineOk(e)
  BY <1>14, <1>15 DEF Care, LineOk, Swapped
<1>20. CaredBut(e, {})
  <2>1. ~InLine(d, i)
    BY DEF Care, LineOk, InLine
  <2>2. ~Pending(e, i)
    BY <1>2, <1>6, <1>14 DEF Pending
  <2> QED BY <1>1, <1>14, <1>15, <2>1, <2>2 DEF Care, CaredBut, InLine, Swapped, Pending
<1>21. e.tasks[i].state \in {"ready", "failed"} /\ e \in Dialogue
  BY <1>2, <1>6, <1>14 DEF Swapped
<1> QED BY <1>1, <1>6, <1>11, <1>12, <1>13, <1>14, <1>16, <1>17, <1>18, <1>19, <1>20, <1>21 DEF Care, m

-----------------------------------------------------------------------------
(* Sentences are played in order *)

\* The same task in another state.
Restated(d, e, i, state) ==
  /\ Swapped(d, e, i) /\ e.tasks[i].state = state /\ e.tasks[i].tts = d.tasks[i].tts
  /\ e.tasks[i].stream = d.tasks[i].stream /\ e.tasks[i].index = d.tasks[i].index
  /\ e.inFlight = d.inFlight /\ e.wait = d.wait
  /\ e.active = d.active /\ e.finished = d.finished
Position(e, next, playing) == e.next = next /\ e.playing = playing

LEMMA PlayedFields ==
  ASSUME NEW d \in Dialogue, d.playing \in DOMAIN d.tasks
  PROVE  Restated(d, Played(d), d.playing, "played") /\ Position(Played(d), d.next + 1, 0)
<1> DEFINE i == d.playing
           t == [d.tasks[i] EXCEPT !.state = "played"]
           ts == [d.tasks EXCEPT ![i] = t]
           n == d.next + 1
           g == [d EXCEPT !.tasks = ts]
           h == [g EXCEPT !.playing = 0]
           e == [h EXCEPT !.next = n]
<1>1. /\ d.tasks \in Seq(Task) /\ d.tasks[i] \in Task /\ n \in Nat \ {0} /\ 0 \in Nat
      /\ d.next \in Nat /\ i \in DOMAIN d.tasks
  BY TypesOf
<1>2. Played(d) = [d EXCEPT !.tasks = ts, !.playing = 0, !.next = d.next + 1]
  BY DEF Played
<1> HIDE DEF i
<1>3. /\ t \in Task /\ t.state = "played" /\ t.tts = d.tasks[i].tts
      /\ t.stream = d.tasks[i].stream /\ t.index = d.tasks[i].index
  BY <1>1 DEF Task
<1> HIDE DEF t
<1>4. ts \in Seq(Task)
  BY <1>1, <1>3
<1> HIDE DEF ts
<1>5. Played(d) = e
  BY <1>2 DEF Dialogue
<1> HIDE DEF n
<1>6. /\ g \in Dialogue /\ g.tasks = ts /\ g.inFlight = d.inFlight /\ g.wait = d.wait
      /\ g.active = d.active /\ g.finished = d.finished
  BY <1>4, WithTasks
<1> HIDE DEF g
<1>7. /\ h \in Dialogue /\ h.tasks = ts /\ h.inFlight = d.inFlight /\ h.wait = d.wait
      /\ h.active = d.active /\ h.finished = d.finished /\ h.playing = 0
  BY <1>1, <1>6, WithPlaying
<1> HIDE DEF h
<1>8. /\ e \in Dialogue /\ e.tasks = ts /\ e.inFlight = d.inFlight /\ e.wait = d.wait
      /\ e.active = d.active /\ e.finished = d.finished /\ e.playing = 0 /\ e.next = n
  BY <1>1, <1>7, WithNext
<1> HIDE DEF e
<1>9. Swapped(d, e, i) /\ e.tasks[i] = t
  BY <1>1, <1>3, <1>8, TasksSwapped DEF ts
<1> QED BY <1>3, <1>5, <1>8, <1>9 DEF Restated, Position, i, n

StartedAt(d, i) == [d EXCEPT !.next = i, !.playing = i, !.tasks[i].state = "playing"]
LEMMA StartedFields ==
  ASSUME NEW d \in Dialogue, NEW i \in DOMAIN d.tasks
  PROVE  Restated(d, StartedAt(d, i), i, "playing") /\ Position(StartedAt(d, i), i, i)
<1> DEFINE t == [d.tasks[i] EXCEPT !.state = "playing"]
           ts == [d.tasks EXCEPT ![i] = t]
           g == [d EXCEPT !.next = i]
           h == [g EXCEPT !.playing = i]
           e == [h EXCEPT !.tasks = ts]
<1>1. d.tasks \in Seq(Task) /\ d.tasks[i] \in Task /\ i \in Nat \ {0} /\ i \in Nat
  BY TypesOf
<1>2. StartedAt(d, i) = [d EXCEPT !.next = i, !.playing = i, !.tasks = ts]
  BY DEF StartedAt
<1>3. /\ t \in Task /\ t.state = "playing" /\ t.tts = d.tasks[i].tts
      /\ t.stream = d.tasks[i].stream /\ t.index = d.tasks[i].index
  BY <1>1 DEF Task
<1> HIDE DEF t
<1>4. ts \in Seq(Task)
  BY <1>1, <1>3
<1> HIDE DEF ts
<1>5. StartedAt(d, i) = e
  BY <1>2 DEF Dialogue
<1>6. /\ g \in Dialogue /\ g.tasks = d.tasks /\ g.inFlight = d.inFlight /\ g.wait = d.wait
      /\ g.active = d.active /\ g.finished = d.finished /\ g.next = i
  BY <1>1, WithNext
<1> HIDE DEF g
<1>7. /\ h \in Dialogue /\ h.tasks = d.tasks /\ h.inFlight = d.inFlight /\ h.wait = d.wait
      /\ h.active = d.active /\ h.finished = d.finished /\ h.next = i /\ h.playing = i
  BY <1>1, <1>6, WithPlaying
<1> HIDE DEF h
<1>8. /\ e \in Dialogue /\ e.tasks = ts /\ e.inFlight = d.inFlight /\ e.wait = d.wait
      /\ e.active = d.active /\ e.finished = d.finished /\ e.next = i /\ e.playing = i
  BY <1>4, <1>7, WithTasks
<1> HIDE DEF e
<1>9. Swapped(d, e, i) /\ e.tasks[i] = t
  BY <1>1, <1>3, <1>8, TasksSwapped DEF ts
<1> QED BY <1>3, <1>5, <1>8, <1>9 DEF Restated, Position

\* What requests go by does not change when a sentence that is not pending changes.
LEMMA RestatedKeepsCare ==
  ASSUME NEW x, NEW d \in Dialogue, NEW e, NEW i \in DOMAIN d.tasks, NEW state, Restated(d, e, i, state),
         ~Pending(d, i), state # "pending", NEW S, Care(x, d, S)
  PROVE  Care(x, e, S)
<1>1. SamePlaces(d, e)
  BY DEF SamePlaces, Restated, Swapped, Pending
<1> QED BY <1>1, SamePlacesKeepCare

Settled == {"played", "failed"}
OrderOk(d) ==
  /\ d.next <= Len(d.tasks) + 1
  /\ d.playing # 0 => d.playing = d.next /\ d.playing <= Len(d.tasks)
  /\ \A i \in DOMAIN d.tasks : i < d.next => d.tasks[i].state \in Settled
  /\ \A i \in DOMAIN d.tasks : d.tasks[i].state = "playing" <=> i = d.playing
ActiveOk(d) == d.active = 0 => d = NoDialogue
\* The player rests only when the next sentence is not ready, and not at the end.
RestsOk(d) ==
  d.playing = 0 =>
    /\ ~IsComplete(d)
    /\ \A i \in DOMAIN d.tasks :
         i >= d.next /\ d.tasks[i].state = "ready" =>
           \E j \in DOMAIN d.tasks : j >= d.next /\ j < i /\ Pending(d, j)
Unspoken(d, i) == d.tasks[i].state \in {"pending", "ready"}
\* Sentences of a stream queue up in their order, after those announced.
StreamsOk(d, heard, sp) ==
  /\ heard \in [Stream -> Nat] /\ sp \in [Stream -> Nat]
  /\ \A s \in Stream : sp[s] <= heard[s]
  /\ \A i \in DOMAIN d.tasks :
       d.tasks[i].stream \in Stream /\ d.tasks[i].index <= heard[d.tasks[i].stream]
  /\ \A i, j \in DOMAIN d.tasks :
       i < j /\ d.tasks[i].stream = d.tasks[j].stream => d.tasks[i].index < d.tasks[j].index
  /\ \A i \in DOMAIN d.tasks : Unspoken(d, i) => sp[d.tasks[i].stream] < d.tasks[i].index

LEMMA PlayedKeepsOrder ==
  ASSUME NEW d \in Dialogue, OrderOk(d), d.playing # 0
  PROVE  OrderOk(Played(d)) /\ d.playing \in DOMAIN d.tasks /\ ~Pending(d, d.playing)
         /\ ~Unspoken(d, d.playing)
<1> DEFINE e == Played(d)
           p == d.playing
<1>1. /\ p = d.next /\ p <= Len(d.tasks) /\ p \in Nat \ {0} /\ p \in DOMAIN d.tasks
      /\ Len(d.tasks) \in Nat /\ DOMAIN d.tasks = 1..Len(d.tasks)
  BY TypesOf DEF OrderOk
<1>2. Restated(d, e, p, "played") /\ Position(e, d.next + 1, 0)
  BY <1>1, PlayedFields
<1>3. d.tasks[p].state = "playing"
  BY <1>1 DEF OrderOk
<1> HIDE DEF e, p
<1>4. e.next <= Len(e.tasks) + 1 /\ e.playing = 0
  BY <1>1, <1>2 DEF Restated, Position, Swapped
<1>5. ASSUME NEW i \in DOMAIN e.tasks, i < e.next PROVE e.tasks[i].state \in Settled
  <2>1. CASE i = p
    BY <1>2, <2>1 DEF Restated, Settled
  <2>2. CASE i # p
    <3>1. i < d.next /\ i \in DOMAIN d.tasks
      BY <1>1, <1>2, <1>5, <2>2 DEF Restated, Position, Swapped
    <3> QED BY <1>2, <2>2, <3>1 DEF OrderOk, Restated, Swapped
  <2> QED BY <2>1, <2>2
<1>6. ASSUME NEW i \in DOMAIN e.tasks PROVE e.tasks[i].state # "playing" /\ i # 0
  BY <1>1, <1>2 DEF OrderOk, Restated, Swapped, p
<1>7. OrderOk(e)
  BY <1>4, <1>5, <1>6 DEF OrderOk
<1> QED BY <1>1, <1>3, <1>7 DEF Pending, Unspoken, e, p

\* As far as the order goes.
SameOrder(d, e) ==
  /\ e \in Dialogue /\ DOMAIN e.tasks = DOMAIN d.tasks /\ Len(e.tasks) = Len(d.tasks)
  /\ e.next = d.next /\ e.playing = d.playing /\ e.finished = d.finished
  /\ \A i \in DOMAIN d.tasks : /\ e.tasks[i].state = d.tasks[i].state
                               /\ e.tasks[i].stream = d.tasks[i].stream
                               /\ e.tasks[i].index = d.tasks[i].index
LEMMA SameOrderKeepsOrder ==
  ASSUME NEW d, NEW e, SameOrder(d, e)
  PROVE  /\ OrderOk(d) => OrderOk(e)
         /\ RestsOk(d) => RestsOk(e)
         /\ \A heard, sp : StreamsOk(d, heard, sp) => StreamsOk(e, heard, sp)
<1>1. OrderOk(d) => OrderOk(e)
  BY DEF OrderOk, SameOrder
<1>2. RestsOk(d) => RestsOk(e)
  BY DEF RestsOk, SameOrder, IsComplete, Pending
<1>3. ASSUME NEW heard, NEW sp, StreamsOk(d, heard, sp) PROVE StreamsOk(e, heard, sp)
  BY <1>3 DEF StreamsOk, SameOrder, Unspoken
<1> QED BY <1>1, <1>2, <1>3

\* A sentence that leaves the pending or the ready ones.
LEMMA LeavingKeepsStreams ==
  ASSUME NEW d, NEW e, NEW i, Swapped(d, e, i), i \in DOMAIN d.tasks,
         e.tasks[i].stream = d.tasks[i].stream, e.tasks[i].index = d.tasks[i].index,
         Unspoken(d, i) \/ ~Unspoken(e, i),
         NEW heard, NEW sp, StreamsOk(d, heard, sp)
  PROVE  StreamsOk(e, heard, sp)
<1>1. \A j \in DOMAIN d.tasks :
        /\ e.tasks[j].stream = d.tasks[j].stream /\ e.tasks[j].index = d.tasks[j].index
        /\ Unspoken(e, j) => Unspoken(d, j)
  BY DEF Swapped, Unspoken
<1>2. DOMAIN e.tasks = DOMAIN d.tasks
  BY DEF Swapped
<1> QED BY <1>1, <1>2 DEF StreamsOk

LEMMA SynthesizedKeepsOrder ==
  ASSUME NEW d, NEW e, NEW i, Swapped(d, e, i), i \in DOMAIN d.tasks, Pending(d, i),
         e.tasks[i].state \in {"ready", "failed"}, e.next = d.next, e.playing = d.playing,
         OrderOk(d)
  PROVE  OrderOk(e)
<1>1. ~(i < d.next) /\ i # d.playing
  BY DEF OrderOk, Pending, Settled
<1> QED BY <1>1 DEF OrderOk, Swapped

\* A dialogue that is over.
LEMMA OverIsOk ==
  /\ NoDialogue \in Dialogue /\ OrderOk(NoDialogue) /\ RestsOk(NoDialogue) /\ ActiveOk(NoDialogue)
  /\ \A x : Care(x, NoDialogue, {})
  /\ \A d, heard, sp : StreamsOk(d, heard, sp) => StreamsOk(NoDialogue, heard, sp)
<1> DEFINE e == NoDialogue
<1>1. /\ e.active = 0 /\ ~e.finished /\ e.next = 1 /\ e.playing = 0 /\ e.inFlight = 0
      /\ e.tasks = <<>> /\ e.wait = <<>>
  BY DEF NoDialogue
<1>2. NoDialogue \in Dialogue
  BY SpeechAssumption DEF NoDialogue, Dialogue
<1> HIDE DEF e
<1>3. DOMAIN e.tasks = {} /\ DOMAIN e.wait = {} /\ Len(e.tasks) = 0
  BY <1>1
<1>4. OrderOk(e) /\ RestsOk(e)
  BY <1>1, <1>3 DEF OrderOk, RestsOk, IsComplete
<1>5. ASSUME NEW d, NEW heard, NEW sp, StreamsOk(d, heard, sp) PROVE StreamsOk(e, heard, sp)
  BY <1>3, <1>5 DEF StreamsOk
<1>6. Requested(e) = {}
  BY <1>3 DEF Requested
<1>7. SlotsOk(e)
  BY <1>1, <1>6, FS_EmptySet, SpeechAssumption DEF SlotsOk
<1>8. ASSUME NEW x PROVE Care(x, e, {})
  BY <1>3, <1>6, <1>7 DEF Care, RequestsOk, LineOk, CaredBut
<1> QED BY <1>2, <1>4, <1>5, <1>8 DEF ActiveOk, e

\* A set of naturals that is not empty has a least element.
LEMMA LeastNatural ==
  ASSUME NEW S \in SUBSET Nat, S # {}
  PROVE  \E m \in S : \A n \in S : m <= n
<1> DEFINE R == {pair \in Nat \X Nat : pair[1] < pair[2]}
<1>1. IsWellFoundedOn(R, Nat)
  BY NatLessThanWellFounded DEF OpToRel
<1>2. \A n, m \in Nat : n < m => <<n, m>> \in R
  OBVIOUS
<1> HIDE DEF R
<1>3. PICK m \in S : \A n \in S : ~(<<n, m>> \in R)
  BY <1>1, WFMin
<1>4. ASSUME NEW n \in S PROVE m <= n
  <2>1. ~(n < m)
    BY <1>2, <1>3
  <2>2. n \in Nat /\ m \in Nat
    OBVIOUS
  <2> QED BY <2>1, <2>2
<1> QED BY <1>3, <1>4

LEMMA NextIsFirst ==
  ASSUME k \in Dialogue, NEW from \in Nat \ {0}, from <= Len(k.tasks) + 1,
         NEW n, n = NextSentence(from)
  PROVE  /\ n \in Nat \ {0} /\ from <= n /\ n <= Len(k.tasks) + 1
         /\ \A j \in DOMAIN k.tasks : j >= from /\ j < n => ~Unspoken(k, j)
         /\ n \in DOMAIN k.tasks => Unspoken(k, n)
         /\ n \notin DOMAIN k.tasks => n = Len(k.tasks) + 1
<1> DEFINE U == Unsettled(from)
<1>1. /\ Len(k.tasks) \in Nat /\ DOMAIN k.tasks = 1..Len(k.tasks)
      /\ U = {i \in DOMAIN k.tasks : i >= from /\ Unspoken(k, i)}
  BY TypesOf DEF Unsettled, Unspoken
<1>2. n = IF U = {} THEN Len(k.tasks) + 1 ELSE CHOOSE i \in U : \A j \in U : i <= j
  BY DEF NextSentence
<1> HIDE DEF U
<1>3. CASE U = {}
  BY <1>1, <1>2, <1>3
<1>4. CASE U # {}
  <2>1. \E i \in U : \A j \in U : i <= j
    BY <1>1, <1>4, LeastNatural
  <2>2. n \in U /\ \A j \in U : n <= j
    BY <1>2, <1>4, <2>1
  <2>3. n \in 1..Len(k.tasks) /\ n >= from /\ Unspoken(k, n)
    BY <1>1, <2>2
  <2>4. ASSUME NEW j \in DOMAIN k.tasks, j >= from, j < n PROVE ~Unspoken(k, j)
    <3>1. j \in Nat /\ n \in Nat
      BY <1>1, <2>3
    <3> QED BY <1>1, <2>2, <2>4, <3>1
  <2> QED BY <1>1, <2>3, <2>4
<1> QED BY <1>3, <1>4

\* Skipping what failed.
SkippedTo(d, n) == [d EXCEPT !.next = n]
LEMMA SkippingKeepsOrder ==
  ASSUME k \in Dialogue, OrderOk(k), k.playing = 0, NEW n, n = NextSentence(k.next),
         NEW e, e = SkippedTo(k, n)
  PROVE  /\ SamePlaces(k, e) /\ OrderOk(e) /\ e.next = n /\ e.playing = 0 /\ e.tasks = k.tasks
         /\ e.active = k.active /\ e.finished = k.finished
         /\ \A heard, sp : StreamsOk(k, heard, sp) => StreamsOk(e, heard, sp)
<1>1. /\ k.next \in Nat \ {0} /\ k.next <= Len(k.tasks) + 1
      /\ DOMAIN k.tasks = 1..Len(k.tasks) /\ Len(k.tasks) \in Nat /\ 0 \notin DOMAIN k.tasks
  BY TypesOf DEF OrderOk
<1>2. /\ n \in Nat \ {0} /\ k.next <= n /\ n <= Len(k.tasks) + 1
      /\ \A j \in DOMAIN k.tasks : j >= k.next /\ j < n => ~Unspoken(k, j)
  BY <1>1, NextIsFirst
<1> DEFINE g == [k EXCEPT !.next = n]
<1>3. /\ e \in Dialogue /\ e.next = n /\ e.playing = 0 /\ e.tasks = k.tasks
      /\ e.active = k.active /\ e.finished = k.finished /\ e.wait = k.wait
      /\ e.inFlight = k.inFlight
  <2>1. /\ g \in Dialogue /\ g.next = n /\ g.playing = k.playing /\ g.tasks = k.tasks
        /\ g.active = k.active /\ g.finished = k.finished /\ g.wait = k.wait
        /\ g.inFlight = k.inFlight
    BY <1>2, WithNext
  <2> QED BY <2>1 DEF SkippedTo
<1>4. \A j \in DOMAIN k.tasks :
        k.tasks[j].state \in {"pending", "ready", "playing", "played", "failed"}
  <2>1. \A j \in DOMAIN k.tasks : k.tasks[j] \in Task
    BY TypesOf
  <2> QED BY <2>1 DEF Task
<1>5. ASSUME NEW j \in DOMAIN k.tasks, j < n PROVE k.tasks[j].state \in Settled
  <2>1. CASE j < k.next
    BY <2>1 DEF OrderOk
  <2>2. CASE j >= k.next
    <3>1. ~Unspoken(k, j) /\ k.tasks[j].state # "playing"
      BY <1>1, <1>2, <1>5, <2>2 DEF OrderOk
    <3> QED BY <1>4, <3>1 DEF Unspoken, Settled
  <2> QED BY <1>1, <2>1, <2>2
<1>6. OrderOk(e)
  BY <1>2, <1>3, <1>5 DEF OrderOk
<1>7. SamePlaces(k, e)
  BY <1>3 DEF SamePlaces, Pending
<1>8. ASSUME NEW heard, NEW sp, StreamsOk(k, heard, sp) PROVE StreamsOk(e, heard, sp)
  BY <1>3, <1>8 DEF StreamsOk, Unspoken
<1> QED BY <1>3, <1>6, <1>7, <1>8

\* The first ready sentence starts when all before it are settled.
LEMMA StartingKeepsOrder ==
  ASSUME k \in Dialogue, OrderOk(k), NextIs("ready"), NEW i, i = NextSentence(k.next),
         NEW heard, NEW sp, StreamsOk(k, heard, sp),
         NEW sq, sq = [sp EXCEPT ![k.tasks[i].stream] = k.tasks[i].index]
  PROVE  /\ i \in DOMAIN k.tasks /\ ~Pending(k, i) /\ OrderOk(StartedAt(k, i))
         /\ Restated(k, StartedAt(k, i), i, "playing") /\ Position(StartedAt(k, i), i, i)
         /\ StreamsOk(StartedAt(k, i), heard, sq)
         /\ \A s \in Stream : sp[s] <= sq[s]
<1> DEFINE e == StartedAt(k, i)
           t == k.tasks[i]
<1>1. /\ k.next \in Nat \ {0} /\ k.next <= Len(k.tasks) + 1
      /\ DOMAIN k.tasks = 1..Len(k.tasks) /\ Len(k.tasks) \in Nat
      /\ i \in DOMAIN k.tasks /\ k.tasks[i].state = "ready" /\ k.playing = 0
  BY TypesOf DEF OrderOk, NextIs
<1>2. /\ k.next <= i
      /\ \A j \in DOMAIN k.tasks : j >= k.next /\ j < i => ~Unspoken(k, j)
  BY <1>1, NextIsFirst
<1>3. Restated(k, e, i, "playing") /\ Position(e, i, i)
  BY <1>1, StartedFields
<1> HIDE DEF e
<1>4. \A j \in DOMAIN k.tasks :
        k.tasks[j].state \in {"pending", "ready", "playing", "played", "failed"}
  <2>1. \A j \in DOMAIN k.tasks : k.tasks[j] \in Task
    BY TypesOf
  <2> QED BY <2>1 DEF Task
<1>5. ASSUME NEW j \in DOMAIN k.tasks, j < i PROVE k.tasks[j].state \in Settled
  <2>1. CASE j < k.next
    BY <2>1 DEF OrderOk
  <2>2. CASE j >= k.next
    <3>1. ~Unspoken(k, j) /\ k.tasks[j].state # "playing"
      BY <1>1, <1>2, <1>5, <2>2 DEF OrderOk
    <3> QED BY <1>4, <3>1 DEF Unspoken, Settled
  <2> QED BY <1>1, <2>1, <2>2
<1>6. OrderOk(e)
  <2>1. DOMAIN e.tasks = DOMAIN k.tasks /\ Len(e.tasks) = Len(k.tasks) /\ e.next = i /\ e.playing = i
    BY <1>3 DEF Restated, Swapped, Position
  <2>2. ASSUME NEW j \in DOMAIN k.tasks, j < i PROVE e.tasks[j].state \in Settled
    BY <1>1, <1>3, <1>5, <2>2 DEF Restated, Swapped
  <2>3. ASSUME NEW j \in DOMAIN k.tasks PROVE e.tasks[j].state = "playing" <=> j = i
    <3>1. k.tasks[j].state # "playing"
      BY <1>1 DEF OrderOk
    <3> QED BY <1>3, <3>1 DEF Restated, Swapped
  <2> QED BY <1>1, <2>1, <2>2, <2>3 DEF OrderOk
<1>7. /\ t.stream \in Stream /\ t.index \in Nat /\ sp[t.stream] < t.index
      /\ t.index <= heard[t.stream] /\ sp \in [Stream -> Nat] /\ heard \in [Stream -> Nat]
  <2>1. Unspoken(k, i)
    BY <1>1 DEF Unspoken
  <2>2. t \in Task
    BY <1>1, TypesOf
  <2> QED BY <1>1, <2>1, <2>2 DEF StreamsOk, Task
<1> HIDE DEF t
<1>8. /\ sq \in [Stream -> Nat] /\ sq[t.stream] = t.index
      /\ \A s \in Stream : s # t.stream => sq[s] = sp[s]
  <2>1. sq = [sp EXCEPT ![t.stream] = t.index]
    BY DEF t
  <2> QED BY <1>7, <2>1
<1>9. \A s \in Stream : sp[s] <= sq[s] /\ sq[s] <= heard[s]
  BY <1>7, <1>8 DEF StreamsOk
<1>10. ASSUME NEW j \in DOMAIN k.tasks, Unspoken(e, j)
       PROVE  sq[k.tasks[j].stream] < k.tasks[j].index
  <2>1. j # i /\ Unspoken(k, j)
    BY <1>3, <1>10 DEF Restated, Swapped, Unspoken
  <2>2. ~(j < i)
    BY <1>5, <2>1 DEF Unspoken, Settled
  <2>3. i < j
    BY <1>1, <2>1, <2>2
  <2>4. k.tasks[j].stream \in Stream /\ sp[k.tasks[j].stream] < k.tasks[j].index
    BY <2>1 DEF StreamsOk
  <2>5. k.tasks[j].stream = t.stream => t.index < k.tasks[j].index
    BY <1>1, <2>3 DEF StreamsOk, t
  <2> QED BY <1>8, <2>4, <2>5
<1>11. \A j \in DOMAIN k.tasks :
         e.tasks[j].stream = k.tasks[j].stream /\ e.tasks[j].index = k.tasks[j].index
  BY <1>3 DEF Restated, Swapped
<1>12. StreamsOk(e, heard, sq)
  <2>1. DOMAIN e.tasks = DOMAIN k.tasks
    BY <1>3 DEF Restated, Swapped
  <2> QED BY <1>7, <1>8, <1>9, <1>10, <1>11, <2>1 DEF StreamsOk
<1> QED BY <1>1, <1>3, <1>6, <1>9, <1>12 DEF e, Pending

\* AddSentence up to the choice between a request and the line.
Added(d, s, n) ==
  [d EXCEPT !.active = s, !.finished = @ /\ d.active # 0, !.tasks = Append(@, NewTask(s, n))]
LEMMA AddedFields ==
  ASSUME NEW d \in Dialogue, NEW s \in Stream, NEW n \in Nat
  PROVE  LET e == Added(d, s, n) IN
         /\ e \in Dialogue /\ e.active = s /\ e.tasks = Append(d.tasks, NewTask(s, n))
         /\ e.next = d.next /\ e.playing = d.playing /\ e.wait = d.wait /\ e.inFlight = d.inFlight
<1> DEFINE f == d.finished /\ d.active # 0
           ts == Append(d.tasks, NewTask(s, n))
           g == [d EXCEPT !.active = s]
           h == [g EXCEPT !.finished = f]
           e == [h EXCEPT !.tasks = ts]
<1>1. d.tasks \in Seq(Task) /\ f \in BOOLEAN /\ s \in 0..MaxStreams
  <2>1. d.tasks \in Seq(Task)
    BY TypesOf
  <2>2. f \in BOOLEAN
    OBVIOUS
  <2>3. s \in 0..MaxStreams
    BY SpeechAssumption DEF Stream
  <2> QED BY <2>1, <2>2, <2>3
<1>2. NewTask(s, n) \in Task
  BY DEF NewTask, Task, Stream
<1>3. ts \in Seq(Task)
  BY <1>1, <1>2
<1>4. Added(d, s, n) = [d EXCEPT !.active = s, !.finished = f, !.tasks = ts]
  BY DEF Added
<1> HIDE DEF f, ts
<1>5. Added(d, s, n) = e
  BY <1>4 DEF Dialogue
<1>6. /\ g \in Dialogue /\ g.active = s /\ g.tasks = d.tasks
      /\ g.next = d.next /\ g.playing = d.playing /\ g.wait = d.wait /\ g.inFlight = d.inFlight
  BY <1>1, WithActive
<1> HIDE DEF g
<1>7. /\ h \in Dialogue /\ h.active = s /\ h.tasks = d.tasks
      /\ h.next = d.next /\ h.playing = d.playing /\ h.wait = d.wait /\ h.inFlight = d.inFlight
  BY <1>1, <1>6, WithFinished
<1> HIDE DEF h
<1>8. /\ e \in Dialogue /\ e.active = s /\ e.tasks = ts
      /\ e.next = d.next /\ e.playing = d.playing /\ e.wait = d.wait /\ e.inFlight = d.inFlight
  BY <1>3, <1>7, WithTasks
<1> HIDE DEF e
<1> QED BY <1>5, <1>8 DEF ts

LEMMA AddingKeepsOrder ==
  ASSUME NEW d \in Dialogue, OrderOk(d), RestsOk(d), NEW s \in Stream, NEW n \in Nat,
         NEW heard, NEW sp, StreamsOk(d, heard, sp), n = heard[s] + 1,
         NEW more, more \in [Stream -> Nat], more[s] = n, \A r \in Stream \ {s} : more[r] = heard[r],
         NEW e, e = Added(d, s, n)
  PROVE  /\ OrderOk(e) /\ RestsOk(e) /\ StreamsOk(e, more, sp)
         /\ \A x : Care(x, d, {}) => Care(x, e, {Len(d.tasks) + 1})
<1> DEFINE t == NewTask(s, n)
           l == Len(d.tasks)
<1>1. /\ e \in Dialogue /\ e.active = s /\ e.tasks = Append(d.tasks, t)
      /\ e.next = d.next /\ e.playing = d.playing /\ e.wait = d.wait /\ e.inFlight = d.inFlight
  BY AddedFields
<1>2. t \in Task /\ t.state = "pending" /\ t.tts = 0 /\ t.stream = s /\ t.index = n
  BY DEF NewTask, Task, Stream
<1>3. /\ l \in Nat /\ DOMAIN d.tasks = 1..l /\ d.tasks \in Seq(Task) /\ d.playing \in Nat
      /\ d.next \in Nat /\ \A i \in 1..l : d.tasks[i] \in Task
  BY TypesOf
<1> HIDE DEF t
<1>4. /\ DOMAIN e.tasks = 1..(l + 1) /\ Len(e.tasks) = l + 1 /\ e.tasks[l + 1] = t
      /\ \A i \in 1..l : e.tasks[i] = d.tasks[i]
  BY <1>1, <1>2, <1>3
<1>5. ASSUME NEW x, Care(x, d, {}) PROVE Care(x, e, {l + 1})
  BY <1>1, <1>2, <1>5, AddingKeepsCare
<1> HIDE DEF l
<1>6. /\ \A i \in 1..(l + 1) : i \in 1..l \/ i = l + 1
      /\ \A i \in 1..l : i \in 1..(l + 1) /\ i # l + 1
      /\ l + 1 \in 1..(l + 1) /\ l + 1 \notin 1..l
      /\ d.next <= l + 1
  BY <1>3 DEF OrderOk, l
<1>7. OrderOk(e)
  <2>1. ASSUME NEW i \in 1..(l + 1), i < e.next PROVE e.tasks[i].state \in Settled
    <3>1. i \in 1..l
      BY <1>1, <1>3, <1>6, <2>1
    <3> QED BY <1>1, <1>3, <1>4, <2>1, <3>1 DEF OrderOk
  <2>2. ASSUME NEW i \in 1..(l + 1) PROVE e.tasks[i].state = "playing" <=> i = e.playing
    <3>1. CASE i = l + 1
      <4>1. d.playing # l + 1
        BY <1>3, <1>6 DEF OrderOk, l
      <4> QED BY <1>1, <1>2, <1>4, <3>1, <4>1
    <3>2. CASE i \in 1..l
      BY <1>1, <1>3, <1>4, <3>2 DEF OrderOk
    <3> QED BY <1>6, <3>1, <3>2
  <2>3. e.next <= Len(e.tasks) + 1
    BY <1>1, <1>3, <1>4, <1>6
  <2>4. e.playing # 0 => e.playing = e.next /\ e.playing <= Len(e.tasks)
    BY <1>1, <1>3, <1>4 DEF OrderOk, l
  <2> QED BY <1>4, <2>1, <2>2, <2>3, <2>4 DEF OrderOk
<1>8. RestsOk(e)
  <2> SUFFICES ASSUME e.playing = 0
               PROVE  /\ ~IsComplete(e)
                      /\ \A i \in 1..(l + 1) :
                           i >= e.next /\ e.tasks[i].state = "ready" =>
                             \E j \in 1..(l + 1) : j >= e.next /\ j < i /\ Pending(e, j)
    BY <1>4 DEF RestsOk
  <2>1. ~IsComplete(e)
    <3>1. ~(e.next > Len(e.tasks))
      BY <1>1, <1>3, <1>4, <1>6
    <3> QED BY <3>1 DEF IsComplete
  <2>2. ASSUME NEW i \in 1..(l + 1), i >= e.next, e.tasks[i].state = "ready"
        PROVE  \E j \in 1..(l + 1) : j >= e.next /\ j < i /\ Pending(e, j)
    <3>1. i \in 1..l /\ d.tasks[i].state = "ready"
      BY <1>2, <1>4, <1>6, <2>2
    <3>2. PICK j \in 1..l : j >= d.next /\ j < i /\ Pending(d, j)
      BY <1>1, <1>3, <2>2, <3>1 DEF RestsOk
    <3> QED BY <1>1, <1>4, <1>6, <3>2 DEF Pending
  <2> QED BY <2>1, <2>2
<1>9. StreamsOk(e, more, sp)
  <2>1. /\ heard \in [Stream -> Nat] /\ sp \in [Stream -> Nat]
        /\ \A r \in Stream : sp[r] <= heard[r] /\ heard[r] <= more[r]
    BY DEF StreamsOk
  <2>2. ASSUME NEW i \in 1..(l + 1)
        PROVE  e.tasks[i].stream \in Stream /\ e.tasks[i].index <= more[e.tasks[i].stream]
    <3>1. CASE i = l + 1
      BY <1>2, <1>4, <3>1
    <3>2. CASE i \in 1..l
      <4>1. d.tasks[i].stream \in Stream /\ d.tasks[i].index <= heard[d.tasks[i].stream]
            /\ d.tasks[i].index \in Nat
        BY <1>3, <3>2 DEF StreamsOk, Task
      <4> QED BY <1>4, <2>1, <3>2, <4>1
    <3> QED BY <1>6, <3>1, <3>2
  <2>3. ASSUME NEW i \in 1..(l + 1), NEW j \in 1..(l + 1), i < j,
               e.tasks[i].stream = e.tasks[j].stream
        PROVE  e.tasks[i].index < e.tasks[j].index
    <3>1. i \in 1..l
      BY <1>3, <1>6, <2>3
    <3>2. CASE j \in 1..l
      BY <1>3, <1>4, <2>3, <3>1, <3>2 DEF StreamsOk
    <3>3. CASE j = l + 1
      <4>1. e.tasks[j].index = n /\ d.tasks[i].stream = s
        BY <1>2, <1>4, <2>3, <3>1, <3>3
      <4>2. d.tasks[i].index <= heard[s] /\ d.tasks[i].index \in Nat /\ heard[s] \in Nat
        BY <1>3, <2>1, <3>1, <4>1 DEF StreamsOk, Task
      <4> QED BY <1>4, <3>1, <4>1, <4>2
    <3> QED BY <1>6, <3>2, <3>3
  <2>4. ASSUME NEW i \in 1..(l + 1), Unspoken(e, i)
        PROVE  sp[e.tasks[i].stream] < e.tasks[i].index
    <3>1. CASE i = l + 1
      BY <1>2, <1>4, <2>1, <3>1
    <3>2. CASE i \in 1..l
      BY <1>3, <1>4, <2>4, <3>2 DEF StreamsOk, Unspoken
    <3> QED BY <1>6, <3>1, <3>2
  <2>5. \A r \in Stream : sp[r] <= more[r]
    BY <2>1
  <2> QED BY <1>4, <2>1, <2>2, <2>3, <2>4, <2>5 DEF StreamsOk
<1> QED BY <1>5, <1>7, <1>8, <1>9 DEF l

-----------------------------------------------------------------------------
(* The inductive invariant *)

\* The sentences that have reached the dialogue: one that is being added has not.
Heard(em, st) == [s \in Stream |-> IF Adding(st, s) THEN em[s] - 1 ELSE em[s]]
SlotsUsed(d, st) == d.wait # <<>> /\ d.inFlight < MaxSynthesis => SubmitOwed(st)
PlayerRests(d, st) == RestsOk(d) \/ PlayOwed(st)
Talks(x, d, st, em, sp) ==
  /\ Controls(x) /\ d \in Dialogue /\ em \in [Stream -> Nat] /\ StackOk(st)
  /\ Care(x, d, {}) /\ SlotsUsed(d, st)
  /\ OrderOk(d) /\ ActiveOk(d) /\ PlayerRests(d, st)
  /\ StreamsOk(d, Heard(em, st), sp)
SpeechInv == Talks(c, k, stack, emitted, spoken)

LEMMA ControllerMoves ==
  ASSUME NEW x, NEW d, NEW st, NEW em, NEW sp, Talks(x, d, st, em, sp), NEW y, Moves(x, y, d)
  PROVE  Talks(y, d, st, em, sp)
<1>1. Care(y, d, {})
  BY ControllerKeepsCare DEF Talks
<1> QED BY <1>1 DEF Talks, Moves

\* Calls return and are made; what they still owe stays owed or is done.
LEMMA StackMoves ==
  ASSUME NEW x, NEW d, NEW st, NEW em, NEW sp, Talks(x, d, st, em, sp), NEW su, StackOk(su),
         \A s \in Stream : Adding(su, s) <=> Adding(st, s),
         SlotsUsed(d, su), PlayerRests(d, su)
  PROVE  Talks(x, d, su, em, sp)
<1>1. Heard(em, su) = Heard(em, st)
  BY DEF Heard
<1> QED BY <1>1 DEF Talks

\* A dialogue ends: nothing is owed to it.
LEMMA OverTalks ==
  ASSUME NEW d, NEW st, StackOk(st), NEW em \in [Stream -> Nat], NEW sp,
         StreamsOk(d, Heard(em, st), sp), NEW y, Controls(y)
  PROVE  Talks(y, NoDialogue, st, em, sp)
<1>1. SlotsUsed(NoDialogue, st) /\ PlayerRests(NoDialogue, st)
  BY OverIsOk DEF SlotsUsed, PlayerRests, NoDialogue
<1> QED BY <1>1, OverIsOk DEF Talks

LEMMA DialogueEnds ==
  ASSUME NEW x, NEW d, NEW st, NEW em, NEW sp, Talks(x, d, st, em, sp), NEW y, Controls(y)
  PROVE  Talks(y, NoDialogue, st, em, sp)
BY OverTalks DEF Talks

\* Between two handlers nothing is owed.
LEMMA EmptyOwesNothing ==
  StackOk(<<>>) /\ ~SubmitOwed(<<>>) /\ ~PlayOwed(<<>>) /\ \A s : ~Adding(<<>>, s)
<1>1. StackOk(<<>>)
  BY DEF StackOk
<1> QED BY <1>1 DEF SubmitOwed, PlayOwed, Adding

LEMMA InitTalks == Init => SpeechInv
<1> SUFFICES ASSUME Init PROVE SpeechInv
  OBVIOUS
<1>1. c \in Controller /\ c.replies = {}
  BY DEF Init, Controller, Silent, Pose, Priority
<1>2. Controls(c)
  BY <1>1, FS_EmptySet DEF Controls
<1>3. /\ k = NoDialogue /\ stack = <<>> /\ emitted \in [Stream -> Nat]
      /\ emitted = [s \in Stream |-> 0] /\ spoken = [s \in Stream |-> 0]
  BY DEF Init
<1>4. Heard(emitted, stack) = [s \in Stream |-> 0]
  BY <1>3, EmptyOwesNothing DEF Heard
<1>5. StreamsOk(NoDialogue, [s \in Stream |-> 0], spoken)
  <2>1. NoDialogue.tasks = <<>>
    BY DEF NoDialogue
  <2> QED BY <1>3, <2>1 DEF StreamsOk
<1>6. SlotsUsed(k, stack) /\ PlayerRests(k, stack)
  BY <1>3, OverIsOk DEF SlotsUsed, PlayerRests, NoDialogue
<1> QED BY <1>2, <1>3, <1>4, <1>5, <1>6, OverIsOk, EmptyOwesNothing DEF SpeechInv, Talks

-----------------------------------------------------------------------------
(* Handlers that leave the dialogue alone *)

LEMMA RequestSayKeeps ==
  ASSUME SpeechInv, NEW source \in Source, RequestSay(source)
  PROVE  SpeechInv'
<1>1. source \in Priority
  BY SpeechAssumption DEF Priority
<1>2. Moves(c, c', k) /\ UNCHANGED <<k, stack, emitted, spoken>>
  BY <1>1, StartSayMoves DEF RequestSay, SpeechInv, Talks
<1>3. Talks(c', k, stack, emitted, spoken)
  BY <1>2, ControllerMoves DEF SpeechInv
<1> QED BY <1>2, <1>3 DEF SpeechInv

LEMMA SayReplyKeeps ==
  ASSUME SpeechInv, NEW id \in c.replies, NEW ok, SayReply(id, ok)
  PROVE  SpeechInv'
<1> DEFINE x == [c EXCEPT !.replies = @ \ {id}]
<1>1. Controls(c) /\ k \in Dialogue /\ RequestsOk(c, k)
  BY DEF SpeechInv, Talks, Care
<1>2. x \in Controller /\ x.replies = c.replies \ {id}
  BY <1>1 DEF Controls, Controller
<1>3. c' = SaySynthesized(x, id, ok, k) /\ TasksOf(id) = {}
      /\ UNCHANGED <<k, stack, emitted, spoken>>
  BY DEF SayReply, env
<1> HIDE DEF x
<1>4. Controls(x)
  BY <1>1, <1>2, FS_Subset DEF Controls
<1>5. ASSUME NEW i \in DOMAIN k.tasks PROVE k.tasks[i].tts # id
  <2> SUFFICES ASSUME k.tasks[i].tts = id PROVE FALSE
    OBVIOUS
  <2>1. id # 0
    BY <1>1 DEF Controls, Controller
  <2>2. i \in Requested(k)
    BY <2>1 DEF Requested
  <2>3. Pending(k, i)
    BY <1>1, <2>2 DEF RequestsOk
  <2> QED BY <1>3, <2>3 DEF TasksOf, Pending
<1>6. Moves(c, x, k)
  BY <1>2, <1>4, <1>5 DEF Moves, SameRequests
<1>7. Moves(x, c', k)
  BY <1>1, <1>3, <1>4, SaySynthesizedMoves
<1>8. Moves(c, c', k)
  BY <1>6, <1>7, MovesFurther
<1>9. Talks(c', k, stack, emitted, spoken)
  BY <1>8, ControllerMoves DEF SpeechInv
<1> QED BY <1>3, <1>9 DEF SpeechInv

LEMMA TimeoutKeeps ==
  ASSUME SpeechInv, OnSayingTimeout
  PROVE  SpeechInv'
<1> DEFINE rest == IF k.playing = 0 THEN Silent ELSE Stopped
           x == [c EXCEPT !.timer = FALSE, !.audio = FALSE, !.pending = FALSE,
                          !.discard = FALSE, !.text = FALSE, !.player = rest]
           y == RequestExitLoop(x)
<1>1. Controls(c) /\ k \in Dialogue
  BY DEF SpeechInv, Talks
<1>2. x \in Controller /\ x.replies = c.replies
  BY <1>1 DEF Controls, Controller, Silent, Stopped
<1>3. c' = TryStartQueuedSay(y, k) /\ UNCHANGED <<k, stack, emitted, spoken>>
  BY DEF OnSayingTimeout, env
<1> HIDE DEF x
<1>4. Controls(x) /\ Moves(c, x, k)
  BY <1>1, <1>2 DEF Controls, Moves, SameRequests
<1>5. Controls(y) /\ Moves(x, y, k)
  BY <1>4, RequestExitLoopMoves DEF Moves
<1> HIDE DEF y
<1>6. Moves(y, c', k)
  BY <1>1, <1>3, <1>5, QueuedSayMoves
<1>7. Moves(c, c', k)
  BY <1>4, <1>5, <1>6, MovesFurther
<1>8. Talks(c', k, stack, emitted, spoken)
  BY <1>7, ControllerMoves DEF SpeechInv
<1> QED BY <1>3, <1>8 DEF SpeechInv

LEMMA TouchKeeps ==
  ASSUME SpeechInv, Touch
  PROVE  SpeechInv'
<1>1. Controls(c) /\ c' = [c EXCEPT !.pet = "other"] /\ UNCHANGED <<k, stack, emitted, spoken>>
  BY DEF SpeechInv, Talks, Touch, env
<1>2. c' \in Controller /\ c'.replies = c.replies
  BY <1>1 DEF Controls, Controller, Pose
<1>3. Moves(c, c', k)
  BY <1>1, <1>2 DEF Controls, Moves, SameRequests
<1>4. Talks(c', k, stack, emitted, spoken)
  BY <1>3, ControllerMoves DEF SpeechInv
<1> QED BY <1>1, <1>4 DEF SpeechInv

LEMMA UpdateKeeps ==
  ASSUME SpeechInv, NEW pet \in AfterUpdate(c.pet), NEW plays \in BOOLEAN, NEW wander \in IdleGroup,
         OnUpdate(pet, plays, wander)
  PROVE  SpeechInv'
<1> DEFINE x0 == [c EXCEPT !.pet = pet]
           x == Noticed(x0, plays)
           y0 == [x EXCEPT !.pet = wander]
           triggers == pet \in IdleGroup /\ c.queued = 0 /\ ~c.pending
           y == IF triggers THEN y0 ELSE x
<1>1. Controls(c) /\ k \in Dialogue /\ c.pet \in Pose
  BY DEF SpeechInv, Talks, Controls, Controller
<1>2. pet \in Pose /\ wander \in Pose
  BY <1>1 DEF AfterUpdate, Pose, IdleGroup
<1>3. c' = TryStartQueuedSay(y, k) /\ UNCHANGED <<k, stack, emitted, spoken>>
  BY DEF OnUpdate, env
<1>4. x0 \in Controller /\ x0.replies = c.replies
  BY <1>1, <1>2 DEF Controls, Controller
<1> HIDE DEF x0
<1>5. Controls(x0) /\ Moves(c, x0, k)
  BY <1>1, <1>4 DEF Controls, Moves, SameRequests
<1>6. Controls(x) /\ Moves(x0, x, k)
  BY <1>5, NoticedMoves DEF Moves
<1> HIDE DEF x
<1>7. y0 \in Controller /\ y0.replies = x.replies
  BY <1>2, <1>6 DEF Controls, Controller
<1> HIDE DEF y0
<1>8. Controls(y0) /\ Moves(x, y0, k)
  BY <1>6, <1>7 DEF Controls, Moves, SameRequests
<1>9. Controls(y) /\ Moves(x, y, k)
  BY <1>6, <1>8, Unmoved
<1> HIDE DEF y
<1>10. Moves(y, c', k)
  BY <1>1, <1>3, <1>9, QueuedSayMoves
<1>11. Moves(c, c', k)
  BY <1>5, <1>6, <1>9, <1>10, MovesFurther
<1>12. Talks(c', k, stack, emitted, spoken)
  BY <1>11, ControllerMoves DEF SpeechInv
<1> QED BY <1>3, <1>12 DEF SpeechInv

\* A dialogue with sentences is not over.
LEMMA NotOver ==
  ASSUME NEW d \in Dialogue, ActiveOk(d), NEW i \in DOMAIN d.tasks, NEW e, e.active = d.active
  PROVE  ActiveOk(e)
<1>1. d # NoDialogue
  BY DEF NoDialogue
<1> QED BY <1>1 DEF ActiveOk

-----------------------------------------------------------------------------
(* Sentences come in *)

LEMMA EnqueueKeeps ==
  ASSUME SpeechInv, NEW s \in Stream, EnqueueSentence(s)
  PROVE  SpeechInv'
<1> DEFINE call == <<"enqueue", s>>
           one == <<call>>
           two == << <<"stop", 0>>, call >>
<1>1. Talks(c, k, stack, emitted, spoken) /\ stack = <<>> /\ emitted \in [Stream -> Nat]
  BY DEF SpeechInv, Talks, EnqueueSentence
<1>2. /\ emitted' = [emitted EXCEPT ![s] = @ + 1] /\ stack' \in {one, two}
      /\ UNCHANGED <<c, k, spoken>>
  BY DEF EnqueueSentence
<1>3. call \in Calls /\ call[1] = "enqueue" /\ call[2] \in Stream /\ \A n : call = <<"enqueue", n>> <=> n = s
  BY DEF Calls, Call, Stream
<1> HIDE DEF call
<1>4. StackOk(one) /\ ~SubmitOwed(one) /\ ~PlayOwed(one) /\ \A n : Adding(one, n) <=> n = s
  <2>1. call[1] # "play"
    BY <1>3
  <2> QED BY <1>3, <2>1, OneCallIsOk
<1>5. StackOk(two) /\ ~SubmitOwed(two) /\ ~PlayOwed(two) /\ \A n : Adding(two, n) <=> n = s
  BY <1>3, StopsFirstIsOk
<1> HIDE DEF one, two
<1>6. /\ StackOk(stack') /\ ~SubmitOwed(stack') /\ ~PlayOwed(stack')
      /\ \A n : Adding(stack', n) <=> n = s
  BY <1>2, <1>4, <1>5
<1>7. Heard(emitted', stack') = Heard(emitted, stack)
  <2>1. ASSUME NEW r \in Stream
        PROVE  (IF Adding(stack', r) THEN emitted'[r] - 1 ELSE emitted'[r])
               = (IF Adding(stack, r) THEN emitted[r] - 1 ELSE emitted[r])
    <3>1. ~Adding(stack, r)
      BY <1>1, EmptyOwesNothing
    <3>2. CASE r = s
      BY <1>1, <1>2, <1>6, <3>1, <3>2
    <3>3. CASE r # s
      BY <1>1, <1>2, <1>6, <3>1, <3>3
    <3> QED BY <3>2, <3>3
  <2> QED BY <2>1 DEF Heard
<1>8. SlotsUsed(k, stack') /\ PlayerRests(k, stack')
  BY <1>1, EmptyOwesNothing DEF Talks, SlotsUsed, PlayerRests
<1>9. emitted' \in [Stream -> Nat]
  BY <1>1, <1>2
<1>10. Talks(c, k, stack', emitted', spoken)
  BY <1>1, <1>6, <1>7, <1>8, <1>9 DEF Talks
<1> QED BY <1>2, <1>10 DEF SpeechInv

LEMMA FinishStreamKeeps ==
  ASSUME SpeechInv, NEW s \in Stream, FinishStream(s)
  PROVE  SpeechInv'
<1>1. /\ Talks(c, k, stack, emitted, spoken) /\ stack = <<>> /\ k \in Dialogue
      /\ UNCHANGED <<stack, emitted, spoken>>
  BY DEF SpeechInv, Talks, FinishStream
<1>2. CASE s # k.active
  <2>1. UNCHANGED <<c, k>>
    BY <1>2 DEF FinishStream
  <2> QED BY <1>1, <2>1 DEF SpeechInv
<1>3. CASE s = k.active
  <2> DEFINE e == [k EXCEPT !.finished = TRUE]
  <2>1. FinishIfComplete(e)
    BY <1>3 DEF FinishStream
  <2>2. /\ e \in Dialogue /\ e.active = k.active /\ e.next = k.next /\ e.playing = k.playing
        /\ e.inFlight = k.inFlight /\ e.tasks = k.tasks /\ e.wait = k.wait
    BY <1>1, WithFinished
  <2> HIDE DEF e
  <2>3. e.active # 0
    BY <1>3, <2>2 DEF Stream
  <2>4. SamePlaces(k, e)
    BY <2>2 DEF SamePlaces, Pending
  <2>5. Care(c, e, {})
    BY <1>1, <2>4, SamePlacesKeepCare DEF Talks
  <2>6. OrderOk(e) /\ ActiveOk(e)
    BY <1>1, <2>2, <2>3 DEF Talks, OrderOk, ActiveOk
  <2>7. StreamsOk(e, Heard(emitted, stack), spoken)
    BY <1>1, <2>2 DEF Talks, StreamsOk, Unspoken
  <2>8. SlotsUsed(e, stack)
    BY <1>1, <2>2 DEF Talks, SlotsUsed
  <2>9. CASE IsComplete(e)
    <3>1. k' = NoDialogue /\ c' = DialogueFinished(c)
      BY <2>1, <2>9 DEF FinishIfComplete
    <3>2. Controls(c')
      BY <1>1, <3>1, DialogueFinishedMoves DEF Talks
    <3>3. Talks(c', NoDialogue, stack, emitted, spoken)
      BY <1>1, <3>2, DialogueEnds
    <3> QED BY <1>1, <3>1, <3>3 DEF SpeechInv
  <2>10. CASE ~IsComplete(e)
    <3>1. k' = e /\ c' = c
      BY <2>1, <2>10 DEF FinishIfComplete
    <3>2. RestsOk(k)
      BY <1>1, EmptyOwesNothing DEF Talks, PlayerRests
    <3>3. RestsOk(e)
      BY <2>2, <2>10, <3>2 DEF RestsOk, Pending
    <3>4. Talks(c, e, stack, emitted, spoken)
      BY <1>1, <2>2, <2>5, <2>6, <2>7, <2>8, <3>3 DEF Talks, PlayerRests
    <3> QED BY <1>1, <3>1, <3>4 DEF SpeechInv
  <2> QED BY <2>9, <2>10
<1> QED BY <1>2, <1>3

LEMMA ReturnFromEnqueueKeeps ==
  ASSUME SpeechInv, ReturnFromEnqueue
  PROVE  SpeechInv'
<1> DEFINE s == Head(stack)[2]
           n == emitted[s]
           i == Len(k.tasks) + 1
           d == Added(k, s, n)
           heard == Heard(emitted, stack)
<1>1. /\ Talks(c, k, stack, emitted, spoken) /\ k \in Dialogue /\ Controls(c)
      /\ emitted \in [Stream -> Nat]
      /\ StackOk(stack) /\ stack # <<>> /\ Head(stack)[1] = "enqueue"
      /\ stack' = Tail(stack) /\ UNCHANGED <<emitted, spoken>>
  BY DEF SpeechInv, Talks, ReturnFromEnqueue, Return, env
<1>2. Head(stack) = stack[1] /\ stack[1] \in Calls
  BY <1>1, TailIsOk
<1>3. /\ Len(stack) = 1 /\ s \in Stream /\ stack[1] = <<"enqueue", s>>
      /\ ~SubmitOwed(stack) /\ ~PlayOwed(stack)
  <2>1. Len(stack) \in Nat \ {0} /\ 1 \in 1..Len(stack)
    BY <1>1 DEF StackOk
  <2>2. Len(stack) = 1 /\ stack[1][2] \in Stream
    BY <1>1, <1>2, <2>1 DEF StackOk
  <2>3. stack[1] = <<"enqueue", s>>
    BY <1>1, <1>2 DEF Calls
  <2>4. stack[1][1] \notin {"submit", "play"}
    BY <1>1, <1>2
  <2>5. ~SubmitOwed(stack) /\ ~PlayOwed(stack)
    BY <1>1, <2>4, TailIsOk DEF SubmitOwed
  <2> QED BY <1>2, <2>2, <2>3, <2>5
<1>4. stack' = <<>>
  BY <1>1, <1>3 DEF StackOk
<1>5. \A r : Adding(stack, r) <=> r = s
  BY <1>3 DEF Adding
<1>6. AddSentence(s, n)
  BY DEF ReturnFromEnqueue
<1>7. IF d.inFlight < MaxSynthesis THEN Submit(d, i)
      ELSE k' = [d EXCEPT !.wait = Append(@, i)] /\ c' = c
  BY <1>6 DEF AddSentence, Added
<1> HIDE DEF s
<1>8. OrderOk(k) /\ RestsOk(k) /\ StreamsOk(k, heard, spoken) /\ Care(c, k, {})
  BY <1>1, <1>3 DEF Talks, PlayerRests
<1>9. n \in Nat /\ n = heard[s] + 1 /\ \A r \in Stream \ {s} : emitted[r] = heard[r]
  <2>1. \A r \in Stream : heard[r] = IF Adding(stack, r) THEN emitted[r] - 1 ELSE emitted[r]
    BY DEF Heard
  <2> QED BY <1>1, <1>3, <1>5, <2>1
<1> HIDE DEF heard, n
<1>10. emitted[s] = n
  BY DEF n
<1>11. OrderOk(d) /\ RestsOk(d) /\ StreamsOk(d, emitted, spoken) /\ Care(c, d, {i})
  BY <1>1, <1>3, <1>8, <1>9, <1>10, AddingKeepsOrder
<1>12. d \in Dialogue /\ d.active = s /\ d.wait = k.wait /\ d.inFlight = k.inFlight
  BY <1>1, <1>3, <1>9, AddedFields
<1> HIDE DEF d
<1>13. /\ Controls(c') /\ SameOrder(d, k') /\ Care(c', k', {}) /\ k'.active = s
       /\ SlotsUsed(k', <<>>)
  <2>1. CASE d.inFlight < MaxSynthesis
    <3> DEFINE id == FreshId(c, d)
    <3> DEFINE e == Submitted(d, i, id)
               y == Asking(c, id)
    <3>1. k' = e /\ c' = y
      BY <1>7, <2>1 DEF Submit, Submitted, Asking
    <3> HIDE DEF id, i
    <3>2. /\ Controls(y) /\ e \in Dialogue /\ Care(y, e, {})
          /\ Swapped(d, e, i) /\ i \in DOMAIN d.tasks
          /\ e.tasks[i].state = d.tasks[i].state
          /\ e.tasks[i].stream = d.tasks[i].stream /\ e.tasks[i].index = d.tasks[i].index
          /\ e.wait = d.wait /\ e.active = d.active
          /\ e.finished = d.finished /\ e.next = d.next /\ e.playing = d.playing
      <4>1. id = FreshId(c, d)
        BY DEF id
      <4>2. Controls(c) /\ Care(c, d, {i}) /\ d \in Dialogue /\ d.inFlight < MaxSynthesis
        BY <1>1, <1>11, <1>12, <2>1
      <4> HIDE DEF e, y
      <4>3. e = Submitted(d, i, id) /\ y = Asking(c, id)
        BY DEF e, y
      <4> QED BY ONLY <4>1, <4>2, <4>3, SubmitKeepsCare
    <3> HIDE DEF e, y
    <3>3. SameOrder(d, k')
      BY <3>1, <3>2 DEF SameOrder, Swapped
    <3>4. SlotsUsed(k', <<>>)
      BY <1>1, <1>3, <1>12, <2>1, <3>1, <3>2 DEF Talks, SlotsUsed
    <3> QED BY <1>12, <3>1, <3>2, <3>3, <3>4
  <2>2. CASE ~(d.inFlight < MaxSynthesis)
    <3> DEFINE e == [d EXCEPT !.wait = Append(@, i)]
    <3>1. k' = e /\ c' = c
      BY <1>7, <2>2
    <3>2. i \in Nat
      BY <1>1, TypesOf
    <3> HIDE DEF i
    <3>3. /\ e \in Dialogue /\ Care(c, e, {}) /\ e.tasks = d.tasks
          /\ e.inFlight = d.inFlight /\ e.active = d.active /\ e.finished = d.finished
          /\ e.next = d.next /\ e.playing = d.playing
      BY <1>11, <1>12, <3>2, LiningUpKeepsCare
    <3> HIDE DEF e
    <3>4. SameOrder(d, e) /\ SlotsUsed(e, <<>>)
      BY <2>2, <3>3 DEF SameOrder, SlotsUsed
    <3> QED BY <1>1, <1>12, <3>1, <3>3, <3>4
  <2> QED BY <2>1, <2>2
<1>14. OrderOk(k') /\ RestsOk(k') /\ StreamsOk(k', emitted, spoken) /\ k' \in Dialogue
  BY <1>11, <1>13, SameOrderKeepsOrder DEF SameOrder
<1>15. Heard(emitted, <<>>) = emitted
  BY <1>1, EmptyOwesNothing DEF Heard
<1>16. ActiveOk(k')
  BY <1>3, <1>13 DEF ActiveOk, Stream
<1>17. Talks(c', k', <<>>, emitted, spoken)
  BY <1>1, <1>13, <1>14, <1>15, <1>16, EmptyOwesNothing DEF Talks, PlayerRests
<1> QED BY <1>1, <1>4, <1>17 DEF SpeechInv

-----------------------------------------------------------------------------
(* The player goes on *)

LEMMA InPlayOwes ==
  ASSUME SpeechInv, InPlay
  PROVE  /\ StackOk(Tail(stack)) /\ ~SubmitOwed(stack) /\ ~SubmitOwed(Tail(stack))
         /\ PlayOwed(stack) /\ ~PlayOwed(Tail(stack))
         /\ \A s : Adding(Tail(stack), s) <=> Adding(stack, s)
         /\ Heard(emitted, Tail(stack)) = Heard(emitted, stack)
<1>1. StackOk(stack) /\ stack # <<>> /\ Head(stack) = <<"play", 0>>
  BY DEF SpeechInv, Talks, InPlay
<1>2. stack[1][1] = "play"
  BY <1>1, TailIsOk
<1>3. \A s : Adding(Tail(stack), s) <=> Adding(stack, s)
  BY <1>1, <1>2, TailAdds
<1>4. ~SubmitOwed(stack)
  BY <1>2 DEF SubmitOwed
<1> QED BY <1>1, <1>2, <1>3, <1>4, TailIsOk DEF Heard

LEMMA PlayNothingKeeps ==
  ASSUME SpeechInv, PlayNothing
  PROVE  SpeechInv'
<1>1. /\ Talks(c, k, stack, emitted, spoken) /\ k \in Dialogue /\ InPlay
      /\ stack' = Tail(stack) /\ UNCHANGED <<c, emitted, spoken>>
      /\ k' = [k EXCEPT !.next = IF k.playing # 0 THEN @ ELSE NextSentence(@)]
      /\ k.playing # 0 \/ NextIs("pending")
  BY DEF SpeechInv, Talks, PlayNothing, Return, env
<1>2. SlotsUsed(k, stack') /\ StackOk(stack')
  BY <1>1, InPlayOwes DEF Talks, SlotsUsed
<1>3. CASE k.playing # 0
  <2>1. k' = k
    BY <1>1, <1>3 DEF Dialogue
  <2>2. PlayerRests(k, stack')
    BY <1>3 DEF PlayerRests, RestsOk
  <2>3. Talks(c, k, stack', emitted, spoken)
    BY <1>1, <1>2, <2>2, InPlayOwes, StackMoves
  <2> QED BY <1>1, <2>1, <2>3 DEF SpeechInv
<1>4. CASE k.playing = 0
  <2> DEFINE n == NextSentence(k.next)
             e == SkippedTo(k, n)
  <2>1. k' = e
    BY <1>1, <1>4 DEF SkippedTo
  <2>2. n \in DOMAIN k.tasks /\ Pending(k, n)
    BY <1>1, <1>4 DEF NextIs, Pending
  <2> HIDE DEF n
  <2>3. /\ SamePlaces(k, e) /\ OrderOk(e) /\ e.next = n /\ e.playing = 0 /\ e.tasks = k.tasks
        /\ e.active = k.active /\ e.finished = k.finished
        /\ \A heard, sp : StreamsOk(k, heard, sp) => StreamsOk(e, heard, sp)
    <3>1. n = NextSentence(k.next)
      BY DEF n
    <3> QED BY <1>1, <1>4, <3>1, SkippingKeepsOrder DEF Talks
  <2> HIDE DEF e
  <2>4. Care(c, e, {})
    BY <1>1, <2>3, SamePlacesKeepCare DEF Talks
  <2>5. ActiveOk(e)
    BY <1>1, <2>2, <2>3, NotOver DEF Talks
  <2>6. RestsOk(e)
    <3>1. DOMAIN k.tasks = 1..Len(k.tasks) /\ Len(k.tasks) \in Nat
      BY <1>1, TypesOf
    <3>2. ~IsComplete(e)
      BY <2>2, <2>3, <3>1 DEF IsComplete
    <3>3. ASSUME NEW i \in DOMAIN k.tasks, i >= n, k.tasks[i].state = "ready" PROVE n < i
      <4>1. i # n
        BY <2>2, <3>3 DEF Pending
      <4> QED BY <2>2, <3>1, <3>3, <4>1
    <3>4. n >= n /\ Pending(e, n)
      BY <2>2, <2>3, <3>1 DEF Pending
    <3> QED BY <2>2, <2>3, <3>2, <3>3, <3>4 DEF RestsOk
  <2>7. SlotsUsed(e, stack')
    BY <1>2, <2>3 DEF SlotsUsed, SamePlaces
  <2>8. StreamsOk(e, Heard(emitted, stack'), spoken)
    BY <1>1, <2>3, InPlayOwes DEF Talks
  <2>9. Talks(c, e, stack', emitted, spoken)
    BY <1>1, <1>2, <2>3, <2>4, <2>5, <2>6, <2>7, <2>8 DEF Talks, PlayerRests, SamePlaces
  <2> QED BY <1>1, <2>1, <2>9 DEF SpeechInv
<1> QED BY <1>3, <1>4

LEMMA PlayedAllKeeps ==
  ASSUME SpeechInv, PlayedAll
  PROVE  SpeechInv'
<1> DEFINE n == NextSentence(k.next)
           e == SkippedTo(k, n)
<1>1. /\ Talks(c, k, stack, emitted, spoken) /\ k \in Dialogue /\ InPlay /\ Controls(c)
      /\ emitted \in [Stream -> Nat]
      /\ stack' = Tail(stack) /\ UNCHANGED <<emitted, spoken>>
      /\ FinishIfComplete(e) /\ k.playing = 0 /\ n > Len(k.tasks)
  BY DEF SpeechInv, Talks, PlayedAll, Return, env, SkippedTo
<1>2. /\ SamePlaces(k, e) /\ OrderOk(e) /\ e.next = n /\ e.playing = 0 /\ e.tasks = k.tasks
      /\ e.active = k.active /\ e.finished = k.finished
      /\ \A heard, sp : StreamsOk(k, heard, sp) => StreamsOk(e, heard, sp)
  <2> HIDE DEF n
  <2>1. n = NextSentence(k.next)
    BY DEF n
  <2> QED BY <1>1, <2>1, SkippingKeepsOrder DEF Talks
<1>3. SlotsUsed(k, stack') /\ StackOk(stack')
  BY <1>1, InPlayOwes DEF Talks, SlotsUsed
<1>4. StreamsOk(e, Heard(emitted, stack'), spoken)
  BY <1>1, <1>2, InPlayOwes DEF Talks
<1>5. k.next \in Nat \ {0} /\ n \in Nat \ {0}
  BY <1>1, NextIsFirst, TypesOf DEF Talks, OrderOk
<1> HIDE DEF n, e
<1>6. CASE IsComplete(e)
  <2>1. k' = NoDialogue /\ c' = DialogueFinished(c)
    BY <1>1, <1>6 DEF FinishIfComplete
  <2>2. Controls(c')
    BY <1>1, <2>1, DialogueFinishedMoves
  <2>3. Talks(c', NoDialogue, stack', emitted, spoken)
    BY <1>1, <1>3, <1>4, <2>2, OverTalks
  <2> QED BY <1>1, <2>1, <2>3 DEF SpeechInv
<1>7. CASE ~IsComplete(e)
  <2>1. k' = e /\ c' = c
    BY <1>1, <1>7 DEF FinishIfComplete
  <2>2. RestsOk(e)
    <3>1. DOMAIN k.tasks = 1..Len(k.tasks) /\ Len(k.tasks) \in Nat
      BY <1>1, TypesOf
    <3>2. \A i \in DOMAIN e.tasks : ~(i >= e.next)
      BY <1>1, <1>2, <1>5, <3>1
    <3> QED BY <1>7, <3>2 DEF RestsOk
  <2>3. Care(c, e, {})
    BY <1>1, <1>2, SamePlacesKeepCare DEF Talks
  <2>4. k = NoDialogue => IsComplete(e) \/ e = NoDialogue
    <3> SUFFICES ASSUME k = NoDialogue PROVE e = NoDialogue
      OBVIOUS
    <3>1. k.next = 1 /\ k.tasks = <<>>
      BY DEF NoDialogue
    <3>2. n = 1
      <4>1. n <= Len(k.tasks) + 1
        BY <1>1, <1>5, NextIsFirst DEF Talks, OrderOk, n
      <4> QED BY <1>5, <3>1, <4>1
    <3> QED BY <1>1, <3>1, <3>2 DEF e, SkippedTo, Dialogue
  <2>5. ActiveOk(e)
    BY <1>1, <1>2, <1>7, <2>4 DEF Talks, ActiveOk
  <2>6. SlotsUsed(e, stack')
    BY <1>2, <1>3 DEF SlotsUsed, SamePlaces
  <2>7. Talks(c, e, stack', emitted, spoken)
    BY <1>1, <1>2, <1>3, <1>4, <2>2, <2>3, <2>5, <2>6 DEF Talks, PlayerRests, SamePlaces
  <2> QED BY <1>1, <2>1, <2>7 DEF SpeechInv
<1> QED BY <1>6, <1>7

LEMMA StartSentenceKeeps ==
  ASSUME SpeechInv, NEW plays \in BOOLEAN, StartSentence(plays)
  PROVE  SpeechInv' /\ \A s \in Stream : spoken[s] <= spoken'[s]
<1> DEFINE i == NextSentence(k.next)
           d == StartedAt(k, i)
           heard == Heard(emitted, stack)
           x == SentenceStarted(c)
           y == [x EXCEPT !.player = <<k.tasks[i].stream, k.tasks[i].index>>]
<1>1. /\ Talks(c, k, stack, emitted, spoken) /\ k \in Dialogue /\ InPlay /\ Controls(c)
      /\ NextIs("ready") /\ UNCHANGED emitted
      /\ OrderOk(k) /\ ActiveOk(k) /\ Care(c, k, {}) /\ StreamsOk(k, heard, spoken)
      /\ SlotsUsed(k, stack) /\ emitted \in [Stream -> Nat] /\ StackOk(stack)
  BY DEF SpeechInv, Talks, StartSentence, env
<1>2. /\ spoken' = [spoken EXCEPT ![k.tasks[i].stream] = k.tasks[i].index]
      /\ IF plays THEN k' = d /\ c' = y /\ stack' = Tail(stack)
                  ELSE k' = Played(d) /\ c' = x /\ stack' = stack
  BY DEF StartSentence, StartedAt, Return
<1>3. /\ i \in DOMAIN k.tasks /\ ~Pending(k, i) /\ OrderOk(d)
      /\ Restated(k, d, i, "playing") /\ Position(d, i, i)
      /\ StreamsOk(d, heard, spoken')
      /\ \A s \in Stream : spoken[s] <= spoken'[s]
  <2> HIDE DEF i, heard
  <2>1. i = NextSentence(k.next)
    BY DEF i
  <2> QED BY <1>1, <1>2, <2>1, StartingKeepsOrder
<1>4. k.tasks[i] \in Task /\ i # 0
  BY <1>1, <1>3, TypesOf
<1>5. Moves(c, x, k) /\ x \in Controller
  BY <1>1, SentenceStartedMoves DEF Moves, Controls
<1> HIDE DEF i, x
<1>6. y \in Controller /\ y.replies = x.replies
  BY <1>4, <1>5 DEF Controller, Task
<1> HIDE DEF y
<1>7. Moves(c, y, k)
  BY <1>5, <1>6 DEF Moves, Controls, SameRequests
<1>8. Care(x, k, {}) /\ Care(y, k, {})
  BY <1>1, <1>5, <1>7, ControllerKeepsCare
<1>9. Care(x, d, {}) /\ Care(y, d, {})
  BY <1>1, <1>3, <1>8, RestatedKeepsCare
<1>10. d \in Dialogue /\ d.active = k.active /\ d.playing = i /\ d.wait = k.wait
       /\ d.inFlight = k.inFlight /\ DOMAIN d.tasks = DOMAIN k.tasks
  BY <1>3 DEF Restated, Swapped, Position
<1> HIDE DEF d
<1>11. ActiveOk(d)
  BY <1>1, <1>3, <1>10, NotOver
<1>12. CASE plays
  <2>1. k' = d /\ c' = y /\ stack' = Tail(stack)
    BY <1>2, <1>12
  <2>2. PlayerRests(d, stack')
    BY <1>4, <1>10 DEF PlayerRests, RestsOk
  <2>3. SlotsUsed(d, stack')
    BY <1>1, <1>10, <2>1, InPlayOwes DEF SlotsUsed
  <2>4. StreamsOk(d, Heard(emitted, stack'), spoken')
    BY <1>1, <1>3, <2>1, InPlayOwes
  <2>5. Talks(y, d, stack', emitted, spoken')
    BY <1>1, <1>3, <1>7, <1>9, <1>10, <1>11, <2>1, <2>2, <2>3, <2>4, InPlayOwes DEF Talks, Moves
  <2> QED BY <1>1, <1>3, <2>1, <2>5 DEF SpeechInv
<1>13. CASE ~plays
  <2> DEFINE e == Played(d)
  <2>1. k' = e /\ c' = x /\ stack' = stack
    BY <1>2, <1>13
  <2>2. OrderOk(e) /\ d.playing \in DOMAIN d.tasks /\ ~Pending(d, d.playing) /\ ~Unspoken(d, d.playing)
    BY <1>3, <1>4, <1>10, PlayedKeepsOrder
  <2>3. Restated(d, e, i, "played") /\ Position(e, d.next + 1, 0)
    BY <1>10, <2>2, PlayedFields
  <2> HIDE DEF e
  <2>4. Care(x, e, {})
    BY <1>9, <1>10, <2>2, <2>3, RestatedKeepsCare
  <2>5. StreamsOk(e, heard, spoken')
    <3>1. ~Unspoken(e, i)
      BY <2>3 DEF Restated, Unspoken
    <3>2. Swapped(d, e, i) /\ i \in DOMAIN d.tasks
          /\ e.tasks[i].stream = d.tasks[i].stream /\ e.tasks[i].index = d.tasks[i].index
      BY <1>3, <1>10, <2>3 DEF Restated
    <3> QED BY <1>3, <3>1, <3>2, LeavingKeepsStreams
  <2>6. e.active = k.active /\ e \in Dialogue /\ SlotsUsed(e, stack)
    BY <1>1, <1>10, <2>3 DEF Restated, Swapped, SlotsUsed
  <2>7. ActiveOk(e)
    BY <1>1, <1>3, <2>6, NotOver
  <2>8. PlayerRests(e, stack)
    BY <1>1, InPlayOwes DEF PlayerRests
  <2>9. Talks(x, e, stack, emitted, spoken')
    BY <1>1, <1>5, <2>2, <2>4, <2>5, <2>6, <2>7, <2>8 DEF Talks, Moves
  <2> QED BY <1>1, <1>3, <2>1, <2>9 DEF SpeechInv
<1> QED BY <1>12, <1>13

LEMMA PlaybackFinishedKeeps ==
  ASSUME SpeechInv, PlaybackFinished
  PROVE  SpeechInv'
<1> DEFINE x == [c EXCEPT !.player = Silent]
<1>1. /\ Talks(c, k, stack, emitted, spoken) /\ k \in Dialogue /\ Controls(c) /\ stack = <<>>
      /\ c' = SayPlayed(x, k) /\ UNCHANGED <<emitted, spoken>>
      /\ IF k.playing # 0 THEN k' = Played(k) /\ stack' = << <<"play", 0>> >>
                          ELSE UNCHANGED <<k, stack>>
  BY DEF SpeechInv, Talks, PlaybackFinished, env
<1>2. x \in Controller /\ x.replies = c.replies
  BY <1>1 DEF Controls, Controller, Silent
<1> HIDE DEF x
<1>3. Controls(x) /\ Moves(c, x, k)
  BY <1>1, <1>2 DEF Controls, Moves, SameRequests
<1>4. Moves(c, c', k)
  BY <1>1, <1>3, SayPlayedMoves, MovesFurther
<1>5. Talks(c', k, stack, emitted, spoken)
  BY <1>1, <1>4, ControllerMoves
<1>6. CASE k.playing = 0
  BY <1>1, <1>5, <1>6 DEF SpeechInv
<1>7. CASE k.playing # 0
  <2> DEFINE e == Played(k)
             i == k.playing
             call == <<"play", 0>>
             su == <<call>>
  <2>1. k' = e /\ stack' = su
    BY <1>1, <1>7
  <2>2. OrderOk(e) /\ i \in DOMAIN k.tasks /\ ~Pending(k, i)
    BY <1>1, <1>7, PlayedKeepsOrder DEF Talks
  <2>3. Restated(k, e, i, "played") /\ Position(e, k.next + 1, 0)
    BY <1>1, <2>2, PlayedFields
  <2>4. call \in Calls
    BY DEF Calls, Call
  <2>5. StackOk(su) /\ ~SubmitOwed(su) /\ PlayOwed(su) /\ \A n : ~Adding(su, n)
    <3>1. call[1] = "play" /\ \A n : call # <<"enqueue", n>>
      OBVIOUS
    <3> QED BY <2>4, <3>1, OneCallIsOk
  <2> HIDE DEF e, i, su
  <2>6. Care(c', e, {})
    BY <1>1, <1>5, <2>2, <2>3, RestatedKeepsCare DEF Talks
  <2>7. Heard(emitted, su) = Heard(emitted, stack)
    BY <1>1, <2>5, EmptyOwesNothing DEF Heard
  <2>8. StreamsOk(e, Heard(emitted, su), spoken)
    <3>1. ~Unspoken(e, i)
      BY <2>3 DEF Restated, Unspoken
    <3>2. Swapped(k, e, i)
          /\ e.tasks[i].stream = k.tasks[i].stream /\ e.tasks[i].index = k.tasks[i].index
      BY <2>3 DEF Restated
    <3>3. StreamsOk(k, Heard(emitted, su), spoken)
      BY <1>1, <2>7 DEF Talks
    <3> QED BY <2>2, <3>1, <3>2, <3>3, LeavingKeepsStreams
  <2>9. e.active = k.active /\ e \in Dialogue /\ e.wait = k.wait /\ e.inFlight = k.inFlight
    BY <2>3 DEF Restated, Swapped
  <2>10. SlotsUsed(e, su)
    BY <1>1, <2>9, EmptyOwesNothing DEF Talks, SlotsUsed
  <2>11. ActiveOk(e)
    BY <1>1, <2>2, <2>9, NotOver DEF Talks
  <2>12. Talks(c', e, su, emitted, spoken)
    BY <1>5, <2>2, <2>5, <2>6, <2>8, <2>9, <2>10, <2>11 DEF Talks, PlayerRests
  <2> QED BY <1>1, <2>1, <2>12 DEF SpeechInv
<1> QED BY <1>6, <1>7

-----------------------------------------------------------------------------
(* Requests are answered, the line moves up *)

\* A synthesis ends, and its handler goes on to submit and to play.
LEMMA AnswerTalks ==
  ASSUME SpeechInv, NEW i \in Requested(k), NEW state \in {"ready", "failed"}, NEW st, StackOk(st),
         SubmitOwed(st), PlayOwed(st), \A s \in Stream : Adding(st, s) <=> Adding(stack, s)
  PROVE  Talks(Answering(c, k.tasks[i].tts), Answered(k, i, state), st, emitted, spoken)
<1> DEFINE e == Answered(k, i, state)
           y == Answering(c, k.tasks[i].tts)
<1>1. /\ k \in Dialogue /\ Controls(c) /\ OrderOk(k) /\ ActiveOk(k) /\ Care(c, k, {})
      /\ emitted \in [Stream -> Nat] /\ StreamsOk(k, Heard(emitted, stack), spoken)
      /\ i \in DOMAIN k.tasks
  BY DEF SpeechInv, Talks, Requested
<1>2. e = Answered(k, i, state) /\ y = Answering(c, k.tasks[i].tts)
  OBVIOUS
<1> HIDE DEF e, y
<1>3. /\ Controls(y) /\ e \in Dialogue /\ Care(y, e, {})
      /\ Swapped(k, e, i) /\ Pending(k, i) /\ e.tasks[i].state \in {"ready", "failed"}
      /\ e.tasks[i].stream = k.tasks[i].stream /\ e.tasks[i].index = k.tasks[i].index
      /\ e.active = k.active /\ e.next = k.next /\ e.playing = k.playing
  BY <1>1, <1>2, SynthesizedKeepsCare
<1>4. OrderOk(e)
  BY <1>1, <1>3, SynthesizedKeepsOrder
<1>5. ActiveOk(e)
  BY <1>1, <1>3, NotOver
<1>6. Heard(emitted, st) = Heard(emitted, stack)
  BY DEF Heard
<1>7. Unspoken(k, i)
  BY <1>3 DEF Unspoken, Pending
<1>8. StreamsOk(e, Heard(emitted, st), spoken)
  BY <1>1, <1>3, <1>6, <1>7, LeavingKeepsStreams
<1>9. Talks(y, e, st, emitted, spoken)
  BY <1>1, <1>3, <1>4, <1>5, <1>8 DEF Talks, SlotsUsed, PlayerRests
<1> QED BY <1>2, <1>9

LEMMA SentenceReplyKeeps ==
  ASSUME SpeechInv, NEW id \in c.replies, NEW ok \in BOOLEAN, SentenceReply(id, ok)
  PROVE  SpeechInv'
<1> DEFINE state == IF ok THEN "ready" ELSE "failed"
<1>1. /\ stack = <<>> /\ UNCHANGED <<emitted, spoken>> /\ stack' = SubmitAndPlay
      /\ c' = [c EXCEPT !.replies = @ \ {id}]
  BY DEF SentenceReply, env
<1>2. PICK i \in TasksOf(id) : Synthesized(i, ok)
  BY DEF SentenceReply
<1>3. i \in DOMAIN k.tasks /\ k.tasks[i].tts = id /\ id # 0
  BY <1>2 DEF TasksOf, SpeechInv, Talks, Controls, Controller
<1>4. i \in Requested(k)
  BY <1>3 DEF Requested
<1>5. state \in {"ready", "failed"}
  OBVIOUS
<1>6. k' = Answered(k, i, state)
  BY <1>2 DEF Synthesized, Answered
<1>7. c' = Answering(c, k.tasks[i].tts)
  BY <1>1, <1>3 DEF Answering
<1> HIDE DEF state
<1>8. Talks(c', k', stack', emitted, spoken)
  BY <1>1, <1>4, <1>5, <1>6, <1>7, AnswerTalks, SubmitAndPlayIsOk, EmptyOwesNothing
<1> QED BY <1>1, <1>8 DEF SpeechInv

LEMMA SubmitNextQueuedKeeps ==
  ASSUME SpeechInv, SubmitNextQueued
  PROVE  SpeechInv'
<1>1. /\ k \in Dialogue /\ Controls(c) /\ OrderOk(k) /\ ActiveOk(k) /\ Care(c, k, {})
      /\ emitted \in [Stream -> Nat] /\ StreamsOk(k, Heard(emitted, stack), spoken)
      /\ StackOk(stack) /\ stack # <<>> /\ Head(stack) = <<"submit", 0>>
      /\ Talks(c, k, stack, emitted, spoken) /\ UNCHANGED <<emitted, spoken>>
  BY DEF SpeechInv, Talks, SubmitNextQueued, env
<1>2. stack[1][1] = "submit" /\ SubmitOwed(stack) /\ PlayOwed(stack) /\ PlayOwed(Tail(stack))
  <2>1. stack[1][1] = "submit"
    BY <1>1, TailIsOk
  <2>2. Len(stack) > 0
    BY <1>1 DEF StackOk
  <2> QED BY <1>1, <2>1, <2>2, TailIsOk DEF SubmitOwed
<1>3. CASE k.wait # <<>> /\ k.inFlight < MaxSynthesis
  <2> DEFINE i == Head(k.wait)
             d == Taken(k)
             id == FreshId(c, d)
             e == Submitted(d, i, id)
             y == Asking(c, id)
  <2>1. k' = e /\ c' = y /\ stack' = stack
    BY <1>3 DEF SubmitNextQueued, Submit, Taken, Submitted, Asking
  <2>2. i = Head(k.wait) /\ d = Taken(k) /\ id = FreshId(c, d)
    OBVIOUS
  <2> HIDE DEF i, d, id
  <2>3. e = Submitted(d, i, id) /\ y = Asking(c, id)
    OBVIOUS
  <2> HIDE DEF e, y
  <2>4. /\ d \in Dialogue /\ Care(c, d, {i}) /\ d.tasks = k.tasks
        /\ d.inFlight = k.inFlight /\ d.active = k.active /\ d.finished = k.finished
        /\ d.next = k.next /\ d.playing = k.playing
    BY <1>1, <1>3, <2>2, TakingKeepsCare
  <2>5. Controls(c) /\ d.inFlight < MaxSynthesis
    BY <1>1, <1>3, <2>4
  <2>6. /\ Controls(y) /\ e \in Dialogue /\ Care(y, e, {})
        /\ Swapped(d, e, i) /\ i \in DOMAIN d.tasks
        /\ e.tasks[i].state = d.tasks[i].state
        /\ e.tasks[i].stream = d.tasks[i].stream /\ e.tasks[i].index = d.tasks[i].index
        /\ e.active = d.active
        /\ e.finished = d.finished /\ e.next = d.next /\ e.playing = d.playing
    <3>1. id = FreshId(c, d)
      BY <2>2
    <3> QED BY ONLY <2>3, <2>4, <2>5, <3>1, SubmitKeepsCare
  <2>7. SameOrder(k, e)
    BY <2>4, <2>6 DEF SameOrder, Swapped
  <2>8. OrderOk(e) /\ StreamsOk(e, Heard(emitted, stack), spoken)
    BY <1>1, <2>7, SameOrderKeepsOrder
  <2>9. ActiveOk(e)
    BY <1>1, <2>4, <2>6, NotOver
  <2>10. Talks(y, e, stack, emitted, spoken)
    BY <1>1, <1>2, <2>6, <2>8, <2>9 DEF Talks, SlotsUsed, PlayerRests
  <2> QED BY <1>1, <2>1, <2>10 DEF SpeechInv
<1>4. CASE ~(k.wait # <<>> /\ k.inFlight < MaxSynthesis)
  <2>1. stack' = Tail(stack) /\ UNCHANGED <<c, k>>
    BY <1>4 DEF SubmitNextQueued, Return
  <2>2. SlotsUsed(k, stack') /\ PlayerRests(k, stack')
    BY <1>2, <1>4, <2>1 DEF SlotsUsed, PlayerRests
  <2>3. StackOk(stack') /\ \A s \in Stream : Adding(stack', s) <=> Adding(stack, s)
    BY <1>1, <1>2, <2>1, TailIsOk, TailAdds
  <2>4. Talks(c, k, stack', emitted, spoken)
    BY <1>1, <2>2, <2>3, StackMoves
  <2> QED BY <1>1, <2>1, <2>4 DEF SpeechInv
<1> QED BY <1>3, <1>4

-----------------------------------------------------------------------------
(* Cancelling and interrupting *)

\* While a dialogue is being cancelled nothing is owed to it.
LEMMA CancelOwes ==
  ASSUME SpeechInv, stack # <<>>, Head(stack)[1] \in {"stop", "cancel", "interrupted"}
  PROVE  /\ StackOk(stack) /\ stack[1][1] = Head(stack)[1] /\ stack[1] \in Calls
         /\ ~SubmitOwed(stack) /\ ~PlayOwed(stack)
         /\ SlotsUsed(k, stack) /\ RestsOk(k)
<1>1. StackOk(stack) /\ Head(stack) = stack[1] /\ stack[1] \in Calls
  BY TailIsOk DEF SpeechInv, Talks
<1>2. ~SubmitOwed(stack) /\ ~PlayOwed(stack)
  BY <1>1, TailIsOk DEF SubmitOwed
<1> QED BY <1>1, <1>2 DEF SpeechInv, Talks, PlayerRests

LEMMA CancelStopsKeeps ==
  ASSUME SpeechInv, CancelStops
  PROVE  SpeechInv'
<1> DEFINE st == << <<"cancel", 1>> >> \o Tail(stack)
<1>1. /\ stack # <<>> /\ Head(stack)[1] = "stop" /\ stack' = st
      /\ c' = [c EXCEPT !.player = Silent] /\ UNCHANGED <<k, emitted, spoken>>
      /\ Talks(c, k, stack, emitted, spoken) /\ Controls(c)
  BY DEF CancelStops, Push, env, SpeechInv, Talks
<1>2. /\ StackOk(st) /\ ~SubmitOwed(st) /\ ~PlayOwed(st)
      /\ \A s : Adding(st, s) <=> Adding(stack, s)
  <2>1. StackOk(stack) /\ stack[1][1] \in {"stop", "cancel"}
    BY <1>1, CancelOwes
  <2>2. 1 \in Nat
    OBVIOUS
  <2> QED BY <1>1, <2>1, <2>2, Pushed
<1> HIDE DEF st
<1>3. SlotsUsed(k, st) /\ PlayerRests(k, st)
  BY <1>1, CancelOwes DEF SlotsUsed, PlayerRests
<1>4. c' \in Controller /\ c'.replies = c.replies
  BY <1>1 DEF Controls, Controller, Silent
<1>5. Moves(c, c', k)
  BY <1>1, <1>4 DEF Controls, Moves, SameRequests
<1>6. Talks(c', k, stack, emitted, spoken)
  BY <1>1, <1>5, ControllerMoves
<1>7. Talks(c', k, st, emitted, spoken)
  BY <1>2, <1>3, <1>6, StackMoves
<1> QED BY <1>1, <1>7 DEF SpeechInv

LEMMA CancelAbortsKeeps ==
  ASSUME SpeechInv, CancelAborts
  PROVE  SpeechInv'
<1> DEFINE i == TaskAt
           st == (SubmitAndPlay \o << <<"cancel", i + 1>> >>) \o Tail(stack)
<1>1. /\ stack # <<>> /\ Head(stack)[1] = "cancel" /\ stack' = st
      /\ i \in DOMAIN k.tasks /\ k.tasks[i].tts \in c.replies
      /\ c' = [c EXCEPT !.replies = @ \ {k.tasks[i].tts}]
      /\ Synthesized(i, FALSE) /\ UNCHANGED <<emitted, spoken>>
      /\ k \in Dialogue /\ Controls(c)
  BY DEF CancelAborts, InCancel, IsRequested, Push, env, SpeechInv, Talks
<1> HIDE DEF i
<1>2. i \in Requested(k) /\ i \in Nat
  <2>1. i \in Nat
    BY <1>1, TypesOf
  <2> QED BY <1>1, <2>1 DEF Requested, Controls, Controller
<1>3. c' = Answering(c, k.tasks[i].tts) /\ k' = Answered(k, i, "failed")
  BY <1>1 DEF Answering, Answered, Synthesized
<1>4. /\ StackOk(st) /\ SubmitOwed(st) /\ PlayOwed(st)
      /\ \A s : Adding(st, s) <=> Adding(stack, s)
  <2>1. StackOk(stack) /\ stack[1][1] = "cancel"
    BY <1>1, CancelOwes
  <2>2. i + 1 \in Nat
    BY <1>2
  <2> QED BY <1>1, <2>1, <2>2, PushedAll
<1> HIDE DEF st
<1>5. Talks(c', k', st, emitted, spoken)
  BY <1>2, <1>3, <1>4, AnswerTalks
<1> QED BY <1>1, <1>5 DEF SpeechInv

LEMMA CancelSkipsKeeps ==
  ASSUME SpeechInv, CancelSkips
  PROVE  SpeechInv'
<1> DEFINE i == TaskAt
           st == << <<"cancel", i + 1>> >> \o Tail(stack)
<1>1. /\ stack # <<>> /\ Head(stack)[1] = "cancel" /\ stack' = st
      /\ i \in DOMAIN k.tasks /\ UNCHANGED <<c, k, emitted, spoken>>
      /\ Talks(c, k, stack, emitted, spoken) /\ k \in Dialogue
  BY DEF CancelSkips, InCancel, Push, env, SpeechInv, Talks
<1> HIDE DEF i
<1>2. /\ StackOk(st) /\ ~SubmitOwed(st) /\ ~PlayOwed(st)
      /\ \A s : Adding(st, s) <=> Adding(stack, s)
  <2>1. StackOk(stack) /\ stack[1][1] \in {"stop", "cancel"}
    BY <1>1, CancelOwes
  <2>2. i \in Nat
    BY <1>1, TypesOf
  <2>3. i + 1 \in Nat
    BY <2>2
  <2> QED BY <1>1, <2>1, <2>3, Pushed
<1> HIDE DEF st
<1>3. SlotsUsed(k, st) /\ PlayerRests(k, st)
  BY <1>1, CancelOwes DEF SlotsUsed, PlayerRests
<1>4. Talks(c, k, st, emitted, spoken)
  BY <1>1, <1>2, <1>3, StackMoves
<1> QED BY <1>1, <1>4 DEF SpeechInv

\* A call returns that was neither adding, nor submitting, nor playing.
LEMMA ReturnTalks ==
  ASSUME SpeechInv, stack # <<>>, Head(stack)[1] \in {"stop", "cancel", "interrupted"}
  PROVE  Talks(c, k, Tail(stack), emitted, spoken)
<1>1. Talks(c, k, stack, emitted, spoken)
  BY DEF SpeechInv
<1>2. /\ StackOk(stack) /\ stack[1][1] \in {"stop", "cancel", "interrupted"}
      /\ SlotsUsed(k, stack) /\ ~SubmitOwed(stack) /\ RestsOk(k)
  BY CancelOwes
<1>3. StackOk(Tail(stack)) /\ \A s \in Stream : Adding(Tail(stack), s) <=> Adding(stack, s)
  BY <1>2, TailIsOk, TailAdds
<1>4. SlotsUsed(k, Tail(stack)) /\ PlayerRests(k, Tail(stack))
  BY <1>2 DEF SlotsUsed, PlayerRests
<1> QED BY <1>1, <1>3, <1>4, StackMoves

LEMMA CancelEndsKeeps ==
  ASSUME SpeechInv, CancelEnds
  PROVE  SpeechInv'
<1>1. /\ stack # <<>> /\ Head(stack)[1] = "cancel" /\ stack' = Tail(stack)
      /\ k' = NoDialogue /\ UNCHANGED <<c, emitted, spoken>>
  BY DEF CancelEnds, InCancel, ResetDialogue, Return, env
<1>2. Talks(c, k, stack', emitted, spoken) /\ Controls(c)
  BY <1>1, ReturnTalks DEF Talks
<1>3. Talks(c, NoDialogue, stack', emitted, spoken)
  BY <1>2, DialogueEnds
<1> QED BY <1>1, <1>3 DEF SpeechInv

LEMMA InterruptKeeps ==
  ASSUME SpeechInv, Interrupt
  PROVE  SpeechInv'
<1> DEFINE call == <<"interrupted", 0>>
           st == << <<"stop", 0>>, call >>
<1>1. /\ stack = <<>> /\ stack' = st /\ UNCHANGED <<c, k, emitted, spoken>>
      /\ Talks(c, k, stack, emitted, spoken)
  BY DEF Interrupt, SpeechInv
<1>2. call \in Calls /\ call[1] = "interrupted" /\ \A n : call # <<"enqueue", n>>
  BY DEF Calls, Call
<1> HIDE DEF call
<1>3. StackOk(st) /\ ~SubmitOwed(st) /\ ~PlayOwed(st) /\ \A n : ~Adding(st, n)
  BY <1>2, StopsFirstIsOk
<1> HIDE DEF st
<1>4. SlotsUsed(k, st) /\ PlayerRests(k, st)
  BY <1>1, EmptyOwesNothing DEF Talks, SlotsUsed, PlayerRests
<1>5. Talks(c, k, st, emitted, spoken)
  BY <1>1, <1>3, <1>4, EmptyOwesNothing, StackMoves
<1> QED BY <1>1, <1>5 DEF SpeechInv

LEMMA InterruptedKeeps ==
  ASSUME SpeechInv, Interrupted
  PROVE  SpeechInv'
<1> DEFINE x == [c EXCEPT !.timer = FALSE]
<1>1. /\ stack # <<>> /\ Head(stack)[1] = "interrupted" /\ stack' = Tail(stack)
      /\ c' = RequestExitLoop(x) /\ UNCHANGED <<k, emitted, spoken>> /\ Controls(c)
  BY DEF Interrupted, Return, env, SpeechInv, Talks
<1>2. x \in Controller /\ x.replies = c.replies
  BY <1>1 DEF Controls, Controller
<1> HIDE DEF x
<1>3. Controls(x) /\ Moves(c, x, k)
  BY <1>1, <1>2 DEF Controls, Moves, SameRequests
<1>4. Moves(c, c', k)
  BY <1>1, <1>3, RequestExitLoopMoves, MovesFurther
<1>5. Talks(c', k, stack', emitted, spoken)
  BY <1>1, <1>4, ReturnTalks, ControllerMoves
<1> QED BY <1>1, <1>5 DEF SpeechInv

-----------------------------------------------------------------------------
(* The dialogue, between any two steps *)

LEMMA StepKeeps == SpeechInv /\ [Next]_vars => SpeechInv'
<1> SUFFICES ASSUME SpeechInv, [Next]_vars PROVE SpeechInv'
  OBVIOUS
<1>1. CASE \E s \in Stream : EnqueueSentence(s) \/ FinishStream(s)
  BY <1>1, EnqueueKeeps, FinishStreamKeeps
<1>2. CASE ReturnFromEnqueue
  BY <1>2, ReturnFromEnqueueKeeps
<1>3. CASE PlayNothing \/ PlayedAll \/ \E plays \in BOOLEAN : StartSentence(plays)
  BY <1>3, PlayNothingKeeps, PlayedAllKeeps, StartSentenceKeeps
<1>4. CASE SubmitNextQueued
  BY <1>4, SubmitNextQueuedKeeps
<1>5. CASE CancelStops \/ CancelAborts \/ CancelSkips \/ CancelEnds
  BY <1>5, CancelStopsKeeps, CancelAbortsKeeps, CancelSkipsKeeps, CancelEndsKeeps
<1>6. CASE Interrupt \/ Interrupted
  BY <1>6, InterruptKeeps, InterruptedKeeps
<1>7. CASE \E source \in Source : RequestSay(source)
  BY <1>7, RequestSayKeeps
<1>8. CASE \E id \in c.replies, ok \in BOOLEAN : SayReply(id, ok) \/ SentenceReply(id, ok)
  BY <1>8, SayReplyKeeps, SentenceReplyKeeps
<1>9. CASE PlaybackFinished \/ OnSayingTimeout \/ Touch
  BY <1>9, PlaybackFinishedKeeps, TimeoutKeeps, TouchKeeps
<1>10. CASE \E pet \in AfterUpdate(c.pet), plays \in BOOLEAN, wander \in IdleGroup :
              OnUpdate(pet, plays, wander)
  BY <1>10, UpdateKeeps
<1>11. CASE UNCHANGED vars
  BY <1>11 DEF vars, SpeechInv
<1> QED BY <1>1, <1>2, <1>3, <1>4, <1>5, <1>6, <1>7, <1>8, <1>9, <1>10, <1>11 DEF Next

(***************************************************************************)
(* The inductive invariant, about every step of a handler: every pending   *)
(* sentence is being synthesised, waits in line or is in the hands of the  *)
(* handler that adds it; all before the next sentence are settled; a free  *)
(* slot or a ready sentence is left alone only while a call that will use  *)
(* it has yet to run.                                                      *)
(***************************************************************************)
THEOREM SpeechIsSound == Spec => []SpeechInv
<1> QED BY InitTalks, StepKeeps, PTL DEF Spec

LEMMA SpeechTypes == SpeechInv => TypeOK
<1> SUFFICES ASSUME SpeechInv PROVE TypeOK
  OBVIOUS
<1>1. c \in Controller /\ k \in Dialogue /\ OrderOk(k)
  BY DEF SpeechInv, Talks, Controls
<1>2. /\ c.pet \in {"idle", "walking", "saying", "leaving", "other"}
      /\ c.seen \in {"idle", "walking", "saying", "other"}
      /\ c.queued \in 0..3 /\ c.source \in 1..3
      /\ c.replies \subseteq Nat /\ c.want \in Nat
  BY <1>1 DEF Controller, Pose, Priority
<1>3. {c.pending, c.discard, c.audio, c.text, c.timer, k.finished} \subseteq BOOLEAN
  BY <1>1 DEF Controller, Dialogue
<1>4. /\ k.active \in 0..MaxStreams
      /\ k.next \in 1..(Len(k.tasks) + 1) /\ k.playing \in 0..Len(k.tasks)
  BY <1>1, TypesOf DEF OrderOk
<1>5. \A i \in DOMAIN k.tasks :
        k.tasks[i].state \in {"pending", "ready", "playing", "played", "failed"}
  <2>1. \A i \in DOMAIN k.tasks : k.tasks[i] \in Task
    BY <1>1, TypesOf
  <2> QED BY <2>1 DEF Task
<1> QED BY <1>2, <1>3, <1>4, <1>5 DEF TypeOK

-----------------------------------------------------------------------------
(* Who has the player *)

Cancelling(s) == \E i \in 1..Len(s) : s[i][1] = "cancel"
PlayerOk == k.playing # 0 => Cancelling(stack) \/ HasPlayer(k.tasks[k.playing])

LEMMA InitPlays == Init => PlayerOk
BY DEF Init, NoDialogue, PlayerOk

LEMMA QueuedSayYields ==
  ASSUME NEW x, Controls(x), NEW d, d.active # 0
  PROVE  TryStartQueuedSay(x, d).player = x.player
<1> DEFINE y == [x EXCEPT !.queued = 0]
           q == [y EXCEPT !.queued = x.queued]
           p == [q EXCEPT !.discard = TRUE, !.pending = FALSE, !.audio = FALSE, !.text = FALSE]
<1>1. TryStartQueuedSay(x, d) \in {x, y, q, p}
  BY DEF TryStartQueuedSay, StartSay, QueueSay
<1>2. y \in Controller /\ y.player = x.player /\ x.queued \in Priority \cup {0}
  BY DEF Controls, Controller
<1> HIDE DEF y
<1>3. q \in Controller /\ q.player = x.player
  BY <1>2 DEF Controller
<1> HIDE DEF q
<1>4. p.player = x.player
  BY <1>3 DEF Controller
<1> QED BY <1>1, <1>2, <1>3, <1>4

LEMMA StartSayYields ==
  ASSUME NEW x, Controls(x), NEW source \in Priority, NEW d, d.active # 0
  PROVE  StartSay(x, source, d).player = x.player
<1> DEFINE q == [x EXCEPT !.queued = source]
           p == [q EXCEPT !.discard = TRUE, !.pending = FALSE, !.audio = FALSE, !.text = FALSE]
<1>1. StartSay(x, source, d) \in {x, q, p}
  BY DEF StartSay, QueueSay
<1>2. q \in Controller /\ q.player = x.player
  BY DEF Controls, Controller
<1> HIDE DEF q
<1>3. p.player = x.player
  BY <1>2 DEF Controller
<1> QED BY <1>1, <1>2, <1>3

LEMMA PoseYields ==
  ASSUME NEW x, Controls(x)
  PROVE  RequestExitLoop(x).player = x.player /\ EnterSayState(x).player = x.player
BY DEF Controls, Controller, RequestExitLoop, EnterSayState

LEMMA SaySynthesizedYields ==
  ASSUME NEW x, Controls(x), NEW id, NEW ok, NEW d \in Dialogue, d.active # 0
  PROVE  SaySynthesized(x, id, ok, d).player = x.player
<1> DEFINE y == [x EXCEPT !.want = 0]
           z == [y EXCEPT !.discard = FALSE, !.pending = FALSE, !.audio = FALSE, !.text = FALSE]
<1>1. y \in Controller /\ y.player = x.player /\ y.replies = x.replies
  BY DEF Controls, Controller
<1>2. SaySynthesized(x, id, ok, d) \in {x, TryStartQueuedSay(z, d)}
  BY DEF SaySynthesized
<1> HIDE DEF y
<1>3. z \in Controller /\ z.player = x.player /\ z.replies = x.replies
  BY <1>1 DEF Controller
<1> HIDE DEF z
<1>4. Controls(z)
  BY <1>3 DEF Controls
<1> QED BY <1>2, <1>3, <1>4, QueuedSayYields

LEMMA NoticedYields ==
  ASSUME NEW x, Controls(x), NEW plays
  PROVE  Noticed(x, plays).player \in {x.player, Reply}
<1> DEFINE y == [x EXCEPT !.seen = State(x.pet)]
           y1 == [y EXCEPT !.timer = FALSE, !.text = FALSE, !.audio = FALSE]
           y2 == [y EXCEPT !.player = Reply, !.timer = TRUE]
           y3 == [y EXCEPT !.audio = FALSE]
<1>1. Noticed(x, plays) \in {x, y1, RequestExitLoop(y), y2, RequestExitLoop(y3)}
  BY DEF Noticed
<1>2. y \in Controller /\ y.player = x.player /\ y.replies = x.replies
  BY DEF Controls, Controller, State, Pose
<1> HIDE DEF y
<1>3. y1.player = x.player /\ y2.player = Reply
  BY <1>2 DEF Controller
<1>4. y3 \in Controller /\ y3.player = x.player /\ y3.replies = x.replies
  BY <1>2 DEF Controller
<1> HIDE DEF y1, y2, y3
<1>5. Controls(y) /\ Controls(y3)
  BY <1>2, <1>4 DEF Controls
<1> QED BY <1>1, <1>2, <1>3, <1>4, <1>5, PoseYields

LEMMA SentenceStartedYields ==
  ASSUME NEW x, Controls(x)
  PROVE  SentenceStarted(x) \in Controller
BY SentenceStartedMoves DEF Moves, Controls

\* A step of the controller, with the dialogue as it is
LEMMA YieldKeepsPlayer ==
  ASSUME SpeechInv, PlayerOk, k' = k, stack' = <<>>, stack = <<>>,
         k.active # 0 => c'.player \in {c.player, Reply, Stopped}
  PROVE  PlayerOk'
<1>1. k.playing # 0 => k.active # 0
  BY DEF SpeechInv, Talks, ActiveOk, NoDialogue
<1>2. ~Cancelling(<<>>)
  BY DEF Cancelling
<1> QED BY <1>1, <1>2 DEF PlayerOk, HasPlayer

\* A step of the coordinator that leaves the player as it is
LEMMA SameTasksKeepPlayer ==
  ASSUME SpeechInv, PlayerOk, c'.player = c.player, Cancelling(stack) => Cancelling(stack'),
         k'.playing = k.playing, k.playing \in DOMAIN k.tasks =>
           /\ k'.tasks[k.playing].stream = k.tasks[k.playing].stream
           /\ k'.tasks[k.playing].index = k.tasks[k.playing].index
  PROVE  PlayerOk'
<1>1. k.playing # 0 => k.playing \in DOMAIN k.tasks
  BY TypesOf DEF SpeechInv, Talks, OrderOk
<1> QED BY <1>1 DEF PlayerOk, HasPlayer

LEMMA TailCancels ==
  ASSUME NEW s, StackOk(s), s # <<>>, Head(s)[1] # "cancel", Cancelling(s)
  PROVE  Cancelling(Tail(s))
<1>1. s \in Seq(Calls) /\ Len(s) \in Nat
  BY DEF StackOk
<1>2. PICK i \in 1..Len(s) : s[i][1] = "cancel"
  BY DEF Cancelling
<1>3. i # 1 /\ i - 1 \in 1..Len(Tail(s)) /\ Tail(s)[i - 1] = s[i]
  BY <1>1, <1>2
<1> QED BY <1>2, <1>3 DEF Cancelling

LEMMA EnqueueKeepsPlayer ==
  ASSUME SpeechInv, PlayerOk, ReturnFromEnqueue
  PROVE  PlayerOk'
<1> DEFINE s == Head(stack)[2]
           i == Len(k.tasks) + 1
           t == NewTask(s, emitted[s])
           d == [k EXCEPT !.active = s, !.finished = @ /\ k.active # 0, !.tasks = Append(@, t)]
<1>1. Controls(c) /\ k \in Dialogue /\ StackOk(stack) /\ k.tasks \in Seq(Task)
  BY TypesOf DEF SpeechInv, Talks
<1>2. /\ stack # <<>> /\ Head(stack)[1] = "enqueue" /\ stack' = Tail(stack)
      /\ IF d.inFlight < MaxSynthesis
         THEN Submit(d, i) ELSE k' = [d EXCEPT !.wait = Append(@, i)] /\ c' = c
  BY DEF ReturnFromEnqueue, AddSentence, Return
<1> HIDE DEF s, t
<1>3. /\ d.playing = k.playing /\ d.tasks = Append(k.tasks, t) /\ DOMAIN d = DOMAIN k
      /\ DOMAIN k = {"active", "finished", "next", "playing", "inFlight", "tasks", "wait"}
  BY <1>1 DEF Dialogue
<1> HIDE DEF d
<1>4. \A p \in DOMAIN k.tasks : p # i /\ d.tasks[p] = k.tasks[p]
  BY <1>1, <1>3
<1> HIDE DEF i
<1>5. c'.player = c.player
  BY <1>1, <1>2 DEF Submit, Controls, Controller
<1>6. /\ k'.playing = k.playing
      /\ \A p \in DOMAIN k.tasks : k'.tasks[p] = k.tasks[p]
  <2>1. CASE Submit(d, i)
    <3> DEFINE id == FreshId(c, d)
               ts == [d.tasks EXCEPT ![i].tts = id]
    <3>1. k' = [d EXCEPT !.inFlight = @ + 1, !.tasks[i].tts = id]
      BY <2>1 DEF Submit
    <3> HIDE DEF id
    <3>2. k'.tasks = ts /\ k'.playing = d.playing
      BY <1>3, <3>1
    <3>3. \A p \in DOMAIN k.tasks : p \in DOMAIN d.tasks
      BY <1>1, <1>3
    <3> QED BY <1>3, <1>4, <3>2, <3>3
  <2>2. CASE k' = [d EXCEPT !.wait = Append(@, i)]
    BY <1>3, <1>4, <2>2
  <2> QED BY <1>2, <2>1, <2>2
<1> QED BY <1>1, <1>2, <1>5, <1>6, TailCancels, SameTasksKeepPlayer

LEMMA StartKeepsPlayer ==
  ASSUME SpeechInv, PlayerOk, NEW plays \in BOOLEAN, StartSentence(plays)
  PROVE  PlayerOk'
<1> DEFINE i == NextSentence(k.next)
           t == k.tasks[i]
           d == [k EXCEPT !.next = i, !.playing = i, !.tasks[i].state = "playing"]
<1>1. Controls(c) /\ k \in Dialogue /\ k.tasks \in Seq(Task)
  BY TypesOf DEF SpeechInv, Talks
<1>2. /\ i \in DOMAIN k.tasks
      /\ IF plays THEN k' = d /\ c' = [SentenceStarted(c) EXCEPT !.player = <<t.stream, t.index>>]
                  ELSE k' = Played(d)
  BY DEF StartSentence, NextIs
<1> HIDE DEF i
<1>3. CASE plays
  <2>1. t \in Task /\ t = k.tasks[i]
    BY <1>1, <1>2
  <2>2. d.playing = i /\ d.tasks[i] = [t EXCEPT !.state = "playing"]
    BY <1>1, <1>2 DEF Dialogue
  <2>3. d.tasks[i].stream = t.stream /\ d.tasks[i].index = t.index
    BY <2>1, <2>2 DEF Task
  <2> HIDE DEF d, t
  <2>4. c'.player = <<t.stream, t.index>>
    BY <1>1, <1>2, <1>3, SentenceStartedYields DEF Controller
  <2> QED BY <1>2, <1>3, <2>2, <2>3, <2>4 DEF PlayerOk, HasPlayer
<1>4. CASE ~plays
  <2>1. d \in [{"active", "finished", "next", "playing", "inFlight", "tasks", "wait"} -> {d[f] : f \in DOMAIN d}]
    BY <1>1 DEF Dialogue
  <2> HIDE DEF d
  <2>2. k'.playing = 0
    BY <1>2, <1>4, <2>1 DEF Played
  <2> QED BY <2>2 DEF PlayerOk
<1> QED BY <1>3, <1>4

LEMMA CoordinatorKeepsPlayer ==
  ASSUME SpeechInv, PlayerOk,
         \/ \E s \in Stream : EnqueueSentence(s) \/ FinishStream(s)
         \/ PlayNothing \/ PlayedAll \/ SubmitNextQueued \/ Interrupt \/ Interrupted
         \/ CancelEnds
  PROVE  PlayerOk'
<1>1. Controls(c) /\ k \in Dialogue /\ StackOk(stack)
  BY DEF SpeechInv, Talks
<1>2. ASSUME NEW s \in Stream, EnqueueSentence(s) PROVE PlayerOk'
  <2>1. stack = <<>> /\ UNCHANGED <<c, k>>
    BY <1>2, Zenon DEF EnqueueSentence
  <2>2. ~Cancelling(stack)
    BY <2>1 DEF Cancelling
  <2> QED BY <2>1, <2>2, SameTasksKeepPlayer
<1>3. k'.playing = 0 => PlayerOk'
  BY DEF PlayerOk
<1>4. ASSUME NEW s \in Stream, FinishStream(s) PROVE PlayerOk'
  <2> DEFINE e == [k EXCEPT !.finished = TRUE]
  <2>1. e.playing = k.playing /\ e.tasks = k.tasks
    BY <1>1 DEF Dialogue
  <2>2. \/ k' = NoDialogue
        \/ k' \in {k, e} /\ c' = c /\ stack' = stack
    BY <1>4 DEF FinishStream, FinishIfComplete
  <2> HIDE DEF e
  <2>3. CASE k' = NoDialogue
    BY <1>3, <2>3 DEF NoDialogue
  <2>4. CASE k' \in {k, e} /\ c' = c /\ stack' = stack
    BY <2>1, <2>4, SameTasksKeepPlayer
  <2> QED BY <2>2, <2>3, <2>4
<1>5. CASE PlayNothing
  <2>1. /\ k'.playing = k.playing /\ k'.tasks = k.tasks /\ c' = c
        /\ stack # <<>> /\ Head(stack)[1] # "cancel" /\ stack' = Tail(stack)
    BY <1>1, <1>5 DEF PlayNothing, InPlay, Return, Dialogue
  <2> QED BY <1>1, <2>1, TailCancels, SameTasksKeepPlayer
<1>6. CASE PlayedAll
  <2> DEFINE e == [k EXCEPT !.next = NextSentence(@)]
  <2>1. e.playing = 0 /\ k' \in {e, NoDialogue}
    BY <1>1, <1>6 DEF PlayedAll, FinishIfComplete, Dialogue
  <2> HIDE DEF e
  <2> QED BY <1>3, <2>1 DEF NoDialogue
<1>7. CASE SubmitNextQueued
  <2> DEFINE i == Head(k.wait)
             g == [k EXCEPT !.wait = Tail(@)]
  <2>1. /\ stack # <<>> /\ Head(stack)[1] # "cancel"
        /\ \/ Submit(g, i) /\ stack' = stack
           \/ stack' = Tail(stack) /\ c' = c /\ k' = k
    BY <1>7 DEF SubmitNextQueued, Return
  <2>2. /\ g.playing = k.playing /\ g.tasks = k.tasks /\ g.tasks \in Seq(Task)
        /\ DOMAIN g = {"active", "finished", "next", "playing", "inFlight", "tasks", "wait"}
    BY <1>1, TypesOf DEF Dialogue
  <2> HIDE DEF g, i
  <2>3. CASE Submit(g, i) /\ stack' = stack
    <3>1. c'.player = c.player
      BY <1>1, <2>3 DEF Submit, Controls, Controller
    <3>2. ASSUME NEW p \in DOMAIN k.tasks
          PROVE  /\ k'.tasks[p].stream = k.tasks[p].stream
                 /\ k'.tasks[p].index = k.tasks[p].index
      <4>1. k.tasks[p] \in Task
        BY <2>2, <3>2
      <4> QED BY <2>2, <2>3, <4>1 DEF Submit, Task
    <3>3. k'.playing = k.playing
      BY <2>2, <2>3 DEF Submit
    <3> QED BY <2>3, <3>1, <3>2, <3>3, SameTasksKeepPlayer
  <2>4. CASE stack' = Tail(stack) /\ c' = c /\ k' = k
    BY <1>1, <2>1, <2>4, TailCancels, SameTasksKeepPlayer
  <2> QED BY <2>1, <2>3, <2>4
<1>8. CASE Interrupt
  BY <1>8, SameTasksKeepPlayer DEF Interrupt, Cancelling
<1>9. CASE Interrupted
  <2> DEFINE x == [c EXCEPT !.timer = FALSE]
  <2>1. x \in Controller /\ x.player = c.player /\ x.replies = c.replies
    BY <1>1 DEF Controls, Controller
  <2>2. c' = RequestExitLoop(x) /\ k' = k /\ stack # <<>> /\ Head(stack)[1] # "cancel"
        /\ stack' = Tail(stack)
    BY <1>9 DEF Interrupted, Return
  <2> HIDE DEF x
  <2>3. c'.player = c.player
    BY <1>1, <2>1, <2>2, PoseYields DEF Controls
  <2> QED BY <1>1, <2>2, <2>3, TailCancels, SameTasksKeepPlayer
<1>10. CASE CancelEnds
  BY <1>3, <1>10 DEF CancelEnds, ResetDialogue, NoDialogue
<1> QED BY <1>2, <1>4, <1>5, <1>6, <1>7, <1>8, <1>9, <1>10

LEMMA CancelKeepsPlayer ==
  ASSUME SpeechInv, CancelStops \/ CancelAborts \/ CancelSkips
  PROVE  PlayerOk'
<1> DEFINE r == Tail(stack)
           n == TaskAt + 1
           one == << <<"cancel", 1>> >> \o r
           two == << <<"cancel", n>> >> \o r
           three == (SubmitAndPlay \o << <<"cancel", n>> >>) \o r
<1>1. stack' \in {one, two, three} /\ stack # <<>> /\ StackOk(stack)
  BY DEF CancelStops, CancelAborts, CancelSkips, InCancel, Push, SpeechInv, Talks
<1>2. r \in Seq(Calls) /\ Len(r) \in Nat
  BY <1>1 DEF StackOk
<1> HIDE DEF r, n
<1>3. Len(one) >= 1 /\ one[1] = <<"cancel", 1>> /\ Len(two) >= 1 /\ two[1] = <<"cancel", n>>
  BY <1>2
<1>4. Len(three) >= 3 /\ three[3] = <<"cancel", n>>
  BY <1>2 DEF SubmitAndPlay
<1> HIDE DEF one, two, three
<1>5. Cancelling(stack')
  BY <1>1, <1>3, <1>4 DEF Cancelling
<1> QED BY <1>5 DEF PlayerOk

LEMMA ReplyKeepsPlayer ==
  ASSUME SpeechInv, PlayerOk, NEW id \in c.replies, NEW ok \in BOOLEAN,
         SayReply(id, ok) \/ SentenceReply(id, ok)
  PROVE  PlayerOk'
<1> DEFINE x == [c EXCEPT !.replies = @ \ {id}]
<1>1. Controls(c) /\ k \in Dialogue /\ k.tasks \in Seq(Task)
  BY TypesOf DEF SpeechInv, Talks
<1>2. x \in Controller /\ x.player = c.player /\ IsFiniteSet(x.replies)
  <2>1. x \in Controller /\ x.player = c.player /\ x.replies = c.replies \ {id}
    BY <1>1 DEF Controls, Controller
  <2> QED BY <1>1, <2>1, FS_RemoveElement DEF Controls
<1>3. CASE SayReply(id, ok)
  <2>1. c' = SaySynthesized(x, id, ok, k) /\ k' = k /\ stack' = <<>> /\ stack = <<>>
    BY <1>3 DEF SayReply
  <2> HIDE DEF x
  <2>2. k.active # 0 => c'.player = c.player
    BY <1>1, <1>2, <2>1, SaySynthesizedYields DEF Controls
  <2> QED BY <2>1, <2>2, YieldKeepsPlayer
<1>4. CASE SentenceReply(id, ok)
  <2>1. c' = x /\ stack = <<>>
    BY <1>4 DEF SentenceReply
  <2>2. PICK i \in TasksOf(id) : Synthesized(i, ok)
    BY <1>4 DEF SentenceReply
  <2>3. k'.playing = k.playing
    BY <1>1, <2>2 DEF Synthesized, Dialogue
  <2>4. ASSUME NEW p \in DOMAIN k.tasks
        PROVE  /\ k'.tasks[p].stream = k.tasks[p].stream
               /\ k'.tasks[p].index = k.tasks[p].index
    <3> DEFINE now == IF ok THEN "ready" ELSE "failed"
               ts == [k.tasks EXCEPT ![i].tts = 0, ![i].state = now]
    <3>1. k' = [k EXCEPT !.inFlight = @ - 1, !.tasks[i].tts = 0, !.tasks[i].state = now]
      BY <2>2 DEF Synthesized
    <3> HIDE DEF now
    <3>2. k'.tasks = ts
      BY <1>1, <3>1 DEF Dialogue
    <3>3. k.tasks[p] \in Task
      BY <1>1, <2>4
    <3> QED BY <1>1, <3>2, <3>3 DEF Task
  <2> HIDE DEF x
  <2>5. ~Cancelling(stack)
    BY <2>1 DEF Cancelling
  <2> QED BY <1>2, <2>1, <2>3, <2>4, <2>5, SameTasksKeepPlayer
<1> QED BY <1>3, <1>4

LEMMA ControllerKeepsPlayer ==
  ASSUME SpeechInv, PlayerOk,
         \/ \E source \in Source : RequestSay(source)
         \/ PlaybackFinished \/ OnSayingTimeout \/ Touch
  PROVE  PlayerOk'
<1>1. Controls(c) /\ k \in Dialogue
  BY DEF SpeechInv, Talks
<1>2. ASSUME NEW source \in Source, RequestSay(source) PROVE PlayerOk'
  <2>1. c' = StartSay(c, source, k) /\ k' = k /\ stack' = <<>> /\ stack = <<>>
    BY <1>2 DEF RequestSay
  <2>2. source \in Priority
    BY SpeechAssumption DEF Priority
  <2>3. k.active # 0 => c'.player = c.player
    BY <1>1, <2>1, <2>2, StartSayYields
  <2> QED BY <2>1, <2>3, YieldKeepsPlayer
<1>3. CASE PlaybackFinished
  <2>1. k' \in {k, Played(k)} /\ (k.playing # 0 => k' = Played(k))
    BY <1>3 DEF PlaybackFinished
  <2>2. Played(k).playing = 0
    BY <1>1 DEF Played, Dialogue
  <2> QED BY <2>1, <2>2 DEF PlayerOk
<1>4. CASE OnSayingTimeout
  <2> DEFINE rest == IF k.playing = 0 THEN Silent ELSE Stopped
             x == [c EXCEPT !.timer = FALSE, !.audio = FALSE, !.pending = FALSE,
                            !.discard = FALSE, !.text = FALSE, !.player = rest]
             y == RequestExitLoop(x)
  <2>1. c' = TryStartQueuedSay(y, k) /\ k' = k /\ stack' = <<>> /\ stack = <<>>
    BY <1>4 DEF OnSayingTimeout
  <2>2. x \in Controller /\ x.replies = c.replies /\ x.player = rest
    BY <1>1 DEF Controls, Controller, Silent, Stopped
  <2> HIDE DEF x
  <2>3. Controls(x)
    BY <1>1, <2>2 DEF Controls
  <2>4. Controls(y) /\ y.player = rest
    BY <2>2, <2>3, PoseYields, RequestExitLoopMoves DEF Moves
  <2> HIDE DEF y
  <2>5. k.active # 0 => c'.player = rest
    BY <2>1, <2>4, QueuedSayYields
  <2>6. CASE k.playing = 0
    BY <2>1, <2>6 DEF PlayerOk
  <2>7. CASE k.playing # 0
    <3>1. rest = Stopped
      BY <2>7
    <3> HIDE DEF rest
    <3> QED BY <2>1, <2>5, <3>1, YieldKeepsPlayer
  <2> QED BY <2>6, <2>7
<1>5. CASE Touch
  <2>1. c'.player = c.player /\ k' = k /\ stack' = <<>> /\ stack = <<>>
    BY <1>1, <1>5 DEF Touch, Controls, Controller
  <2> QED BY <2>1, YieldKeepsPlayer
<1> QED BY <1>2, <1>3, <1>4, <1>5

LEMMA UpdateKeepsPlayer ==
  ASSUME SpeechInv, PlayerOk, NEW pet \in AfterUpdate(c.pet), NEW plays \in BOOLEAN,
         NEW wander \in IdleGroup, OnUpdate(pet, plays, wander)
  PROVE  PlayerOk'
<1> DEFINE x0 == [c EXCEPT !.pet = pet]
           x == Noticed(x0, plays)
           triggers == pet \in IdleGroup /\ c.queued = 0 /\ ~c.pending
           y0 == [x EXCEPT !.pet = wander]
           y == IF triggers THEN y0 ELSE x
<1>1. Controls(c) /\ k \in Dialogue /\ c.pet \in Pose
  BY DEF SpeechInv, Talks, Controls, Controller
<1>2. pet \in Pose /\ wander \in Pose
  BY <1>1 DEF AfterUpdate, Pose, IdleGroup
<1>3. c' = TryStartQueuedSay(y, k) /\ k' = k /\ stack' = <<>> /\ stack = <<>>
  BY DEF OnUpdate
<1>4. x0 \in Controller /\ x0.replies = c.replies /\ x0.player = c.player
  BY <1>1, <1>2 DEF Controls, Controller
<1> HIDE DEF x0
<1>5. Controls(x0)
  BY <1>1, <1>4 DEF Controls
<1>6. Controls(x) /\ x.player \in {c.player, Reply}
  BY <1>4, <1>5, NoticedMoves, NoticedYields DEF Moves
<1> HIDE DEF x
<1>7. y0 \in Controller /\ y0.replies = x.replies /\ y0.player = x.player
  BY <1>2, <1>6 DEF Controls, Controller
<1> HIDE DEF y0
<1>8. Controls(y) /\ y.player \in {c.player, Reply}
  BY <1>6, <1>7 DEF Controls
<1> HIDE DEF y
<1>9. k.active # 0 => c'.player \in {c.player, Reply}
  BY <1>3, <1>8, QueuedSayYields
<1> QED BY <1>3, <1>9, YieldKeepsPlayer

LEMMA StepKeepsPlayer == SpeechInv /\ PlayerOk /\ [Next]_vars => PlayerOk'
<1> SUFFICES ASSUME SpeechInv, PlayerOk, [Next]_vars PROVE PlayerOk'
  OBVIOUS
<1>1. UNCHANGED vars => PlayerOk'
  BY DEF vars, PlayerOk, HasPlayer
<1> QED BY <1>1, CoordinatorKeepsPlayer, EnqueueKeepsPlayer, StartKeepsPlayer, CancelKeepsPlayer,
           ReplyKeepsPlayer, ControllerKeepsPlayer, UpdateKeepsPlayer DEF Next

LEMMA SpeechForgetsNothing == SpeechInv /\ PlayerOk => NoSentenceForgotten
<1> SUFFICES ASSUME SpeechInv, PlayerOk, stack = <<>>
             PROVE  /\ k.inFlight = Cardinality({i \in DOMAIN k.tasks : IsRequested(i)})
                    /\ k.inFlight <= MaxSynthesis
                    /\ \A i \in DOMAIN k.tasks :
                         IsPending(i) <=> (IsRequested(i) \/ \E j \in DOMAIN k.wait : k.wait[j] = i)
                    /\ k.wait # <<>> => k.inFlight = MaxSynthesis
                    /\ k.playing = 0 => ~NextIs("ready") /\ ~IsComplete(k)
                    /\ k.playing # 0 => HasPlayer(k.tasks[k.playing])
                    /\ k.active = 0 => k = NoDialogue
  BY DEF NoSentenceForgotten
<1>1. /\ k \in Dialogue /\ Care(c, k, {}) /\ SlotsUsed(k, stack) /\ OrderOk(k) /\ ActiveOk(k)
      /\ RestsOk(k) /\ ~SubmitOwed(stack) /\ c \in Controller
  BY EmptyOwesNothing DEF SpeechInv, Talks, PlayerRests, Controls
<1>2. \A i \in DOMAIN k.tasks : IsRequested(i) <=> i \in Requested(k)
  BY <1>1 DEF IsRequested, Requested, Care, RequestsOk, Controller
<1>3. {i \in DOMAIN k.tasks : IsRequested(i)} = Requested(k)
  BY <1>2 DEF Requested
<1>4. k.inFlight = Cardinality(Requested(k)) /\ k.inFlight <= MaxSynthesis
  BY <1>1 DEF Care, SlotsOk
<1>5. \A i \in DOMAIN k.tasks :
        IsPending(i) <=> (IsRequested(i) \/ \E j \in DOMAIN k.wait : k.wait[j] = i)
  BY <1>1, <1>2 DEF Care, CaredBut, Pending, IsPending, InLine
<1>6. k.wait # <<>> => k.inFlight = MaxSynthesis
  BY <1>1, <1>4, TypesOf, SpeechAssumption DEF SlotsUsed
<1>7. ASSUME k.playing = 0 PROVE ~NextIs("ready") /\ ~IsComplete(k)
  <2> DEFINE n == NextSentence(k.next)
  <2>1. /\ k.next \in Nat \ {0} /\ n \in Nat \ {0} /\ k.next <= n
        /\ \A j \in DOMAIN k.tasks : j >= k.next /\ j < n => ~Unspoken(k, j)
    BY <1>1, NextIsFirst, TypesOf DEF OrderOk
  <2>2. ~NextIs("ready")
    <3> SUFFICES ASSUME NextIs("ready") PROVE FALSE
      OBVIOUS
    <3>1. n \in DOMAIN k.tasks /\ k.tasks[n].state = "ready"
      BY DEF NextIs
    <3> HIDE DEF n
    <3>2. PICK j \in DOMAIN k.tasks : j >= k.next /\ j < n /\ Pending(k, j)
      BY <1>1, <1>7, <2>1, <3>1 DEF RestsOk
    <3> QED BY <2>1, <3>2 DEF Unspoken, Pending
  <2> QED BY <1>1, <1>7, <2>2 DEF RestsOk
<1>8. k.playing # 0 => HasPlayer(k.tasks[k.playing])
  BY EmptyOwesNothing DEF PlayerOk, Cancelling
<1> QED BY <1>1, <1>3, <1>4, <1>5, <1>6, <1>7, <1>8 DEF ActiveOk

\* Whatever failed, was cancelled or came late, no sentence of the dialogue is forgotten
\* between two handlers, and the one that counts as playing has the player unless a whole
\* reply or the saying timeout took it away (StreamDialogueCoordinator, PetController).
THEOREM NoSentenceIsForgotten == Spec => []DialogueInv
<1>1. Init => SpeechInv /\ PlayerOk
  BY InitTalks, InitPlays
<1>2. SpeechInv /\ PlayerOk /\ [Next]_vars => (SpeechInv /\ PlayerOk)'
  BY StepKeeps, StepKeepsPlayer
<1>3. SpeechInv /\ PlayerOk => DialogueInv
  BY SpeechTypes, SpeechForgetsNothing DEF DialogueInv
<1> QED BY <1>1, <1>2, <1>3, PTL DEF Spec

LEMMA AnnouncedOnce ==
  ASSUME SpeechInv, NEW plays \in BOOLEAN, StartSentence(plays)
  PROVE  spoken[Announced] < spoken'[Announced]
<1> DEFINE i == NextSentence(k.next)
           t == k.tasks[i]
<1>1. /\ i \in DOMAIN k.tasks /\ t.state = "ready" /\ Announced = t.stream
      /\ spoken' = [spoken EXCEPT ![t.stream] = t.index]
  BY DEF StartSentence, NextIs, Announced
<1>2. StreamsOk(k, Heard(emitted, stack), spoken)
  BY DEF SpeechInv, Talks
<1> HIDE DEF i
<1>3. spoken[t.stream] < t.index /\ t.stream \in Stream
  BY <1>1, <1>2 DEF StreamsOk, Unspoken
<1> QED BY <1>1, <1>2, <1>3 DEF StreamsOk

LEMMA StepKeepsOrder ==
  SpeechInv /\ [Next]_vars =>
    [ /\ \A s \in Stream : spoken[s] <= spoken'[s]
      /\ \A plays \in BOOLEAN :
           StartSentence(plays) => spoken[Announced] < spoken'[Announced]
      /\ \A i \in DOMAIN k'.tasks :
           i < k'.playing => k'.tasks[i].state \in {"played", "failed"} ]_vars
<1> SUFFICES ASSUME SpeechInv, [Next]_vars
             PROVE  /\ \A s \in Stream : spoken[s] <= spoken'[s]
                    /\ \A plays \in BOOLEAN :
                         StartSentence(plays) => spoken[Announced] < spoken'[Announced]
                    /\ \A i \in DOMAIN k'.tasks :
                         i < k'.playing => k'.tasks[i].state \in {"played", "failed"}
  OBVIOUS
<1>1. \A s \in Stream : spoken[s] \in Nat
  BY DEF SpeechInv, Talks, StreamsOk
<1>2. ASSUME spoken' = spoken PROVE \A s \in Stream : spoken[s] <= spoken'[s]
  BY <1>1, <1>2
<1>3. spoken' = spoken \/ \E plays \in BOOLEAN : StartSentence(plays)
  BY ZenonT(60) DEF Next, vars, env, EnqueueSentence, FinishStream, ReturnFromEnqueue, PlayNothing, PlayedAll,
         SubmitNextQueued, CancelStops, CancelAborts, CancelSkips, CancelEnds, Interrupt,
         Interrupted, RequestSay, SayReply, SentenceReply, PlaybackFinished, OnSayingTimeout,
         Touch, OnUpdate
<1>4. \A s \in Stream : spoken[s] <= spoken'[s]
  BY <1>2, <1>3, StartSentenceKeeps
<1>5. k' \in Dialogue /\ OrderOk(k')
  BY StepKeeps DEF SpeechInv, Talks
<1>6. ASSUME NEW i \in DOMAIN k'.tasks, i < k'.playing
      PROVE  k'.tasks[i].state \in {"played", "failed"}
  <2>1. i \in Nat \ {0} /\ k'.playing \in Nat
    BY <1>5, TypesOf
  <2>2. k'.playing = k'.next
    BY <1>5, <1>6, <2>1 DEF OrderOk
  <2> QED BY <1>5, <1>6, <2>2 DEF OrderOk, Settled
<1> QED BY <1>4, <1>6, AnnouncedOnce

\* Sentences are spoken in their order, each announced at most once, and one starts only when all
\* before it are played or have failed (TryPlayNextSentence).
THEOREM SentencesAreInOrder == Spec => SentencesInOrder
<1> QED BY SpeechIsSound, StepKeepsOrder, PTL DEF Spec, SentencesInOrder

=============================================================================
