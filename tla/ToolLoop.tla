------------------------------ MODULE ToolLoop ------------------------------
(***************************************************************************)
(* The tool.loop node: ToolLoopExecutor asks the LLM, has ToolScheduler    *)
(* run the tools it asks for one at a time, and asks again with their      *)
(* answers (agent/tools), for the node of the runtime that waits.          *)
(*                                                                         *)
(* Every action is a handler of the Qt event loop, except that the `while' *)
(* of DispatchNextToolCall takes one step per call: `dispatching' keeps    *)
(* the event loop from running anything else in between.                   *)
(***************************************************************************)
EXTENDS Integers, Sequences, FiniteSets

CONSTANTS Tool,          \* registered tools
          KeepsAsking,   \* tools whose service answers a cancelled question (memory.search)
          Config,        \* configurations of the node
          Asked,         \* the sequences of calls the LLM may ask for
          MaxLoops,      \* bound on the loops started
          NoTool         \* no tool runs

\* A call names a tool to run, or never reaches one: its arguments are no JSON, its
\* tool is not the node's, or the scheduler denies it or rejects its arguments.
Call == Tool \union {"malformed", "foreign", "denied"}
ConfigType == [offers : BOOLEAN,      \* the node names tools
               maxRounds : Nat \ {0}, maxCalls : Nat \ {0},
               timed : BOOLEAN,       \* time_budget_ms > 0
               onBudget : {"answer", "end"}, fallback : {"plain", "fail"}]

VARIABLES
  loop,        \* the members of ToolLoopExecutor
  messages,    \* m_messages from the prompt on: what the next request carries
  deadline,    \* m_deadline is armed
  late,        \* the invocation's clock has passed the time budget
  dispatching, \* DispatchNextToolCall is on the stack
  active,      \* the call the scheduler waits for, and the question its tool asked
  calls,       \* m_toolCallCount
  asks,        \* questions the services of the tools will answer
  chats,       \* requests LlmClient will answer
  posted,      \* posted calls: the next dispatch, or Finished
  waiting,     \* the loop the node of the runtime waits for, or 0
  nextLoop, nextChat, nextAsk   \* the last ids handed out

VARIABLES      \* observations, not state of the program
  sent,        \* requests sent by the current loop
  ran,         \* tools run by the current loop
  results      \* the loops that finished, in order

loopVars == <<loop, messages, deadline, late, dispatching>>
schedulerVars == <<active, calls, asks, nextAsk>>
chatVars == <<chats, nextChat>>
runtimeVars == <<waiting, nextLoop>>
vars == <<loopVars, schedulerVars, chatVars, posted, runtimeVars, sent, ran, results>>

NoCall == <<0, 0, 0>>
Idle == [tool |-> NoTool, call |-> NoCall, ask |-> 0]
NewLoop(id, c) ==
  [busy |-> TRUE, id |-> id, config |-> c, llm |-> 0, fallback |-> FALSE,
   terminal |-> FALSE, allTerminate |-> FALSE, todo |-> <<>>, round |-> 0]

Prompt == [role |-> "user"]
AskFor(ids) == [role |-> "assistant", calls |-> ids]
\* The answer to a call, and the call whose execution gave it (NoCall: nothing ran).
Answer(call, from) == [role |-> "tool", call |-> call, from |-> from]

Init ==
  /\ loop = [NewLoop(0, CHOOSE c \in Config : TRUE) EXCEPT !.busy = FALSE]
  /\ messages = <<>>
  /\ deadline = FALSE /\ late = FALSE /\ dispatching = FALSE
  /\ active = Idle /\ calls = 0 /\ asks = {} /\ chats = {}
  /\ posted = <<>> /\ waiting = 0
  /\ nextLoop = 0 /\ nextChat = 0 /\ nextAsk = 0
  /\ sent = 0 /\ ran = 0 /\ results = <<>>

-----------------------------------------------------------------------------
(* Finishing, and the rounds *)

\* Finish; Finished itself is posted.
Finish(l) ==
  /\ loop' = [l EXCEPT !.busy = FALSE, !.id = 0, !.llm = 0, !.todo = <<>>]
  /\ deadline' = FALSE
  /\ posted' = Append(posted, [kind |-> "finished", loop |-> l.id])
  /\ results' = Append(results, l.id)

\* SendRound: `others' are the other requests under way; SendChat may refuse.
Accepted(l, withTools, others) ==
  /\ nextChat' = nextChat + 1
  /\ chats' = others \union
       {[id |-> nextChat + 1, tools |-> withTools /\ ~l.fallback /\ l.config.offers]}
  /\ loop' = [l EXCEPT !.llm = nextChat + 1, !.terminal = ~withTools]
  /\ sent' = sent + 1
  /\ UNCHANGED <<deadline, posted, results>>
FinishWith(l, others) ==
  /\ Finish(l)
  /\ chats' = others
  /\ UNCHANGED <<nextChat, sent>>
SendRound(l, withTools, others) ==
  \/ Accepted(l, withTools, others)
  \/ FinishWith(l, others)

IsBudgetExhausted(l) ==
  l.round >= l.config.maxRounds \/ calls >= l.config.maxCalls \/ late

\* BeginRound, with HandleBudgetExhausted
BeginRound(l, withTools, others) ==
  IF ~IsBudgetExhausted(l)
  THEN SendRound([l EXCEPT !.round = @ + 1], withTools, others)
  ELSE IF l.config.onBudget = "end" THEN FinishWith(l, others)
                                    ELSE SendRound(l, FALSE, others)

-----------------------------------------------------------------------------
(* The runtime's node *)

\* ExecuteToolLoopNode and Start.  A new clock has not run out and no call was made,
\* so the first round is within the budget.
Starting(c) ==
  /\ ~dispatching /\ waiting = 0 /\ ~loop.busy
  /\ nextLoop < MaxLoops
  /\ nextLoop' = nextLoop + 1
  /\ messages' = <<Prompt>>
  /\ late' = FALSE /\ calls' = 0 /\ ran' = 0
  /\ UNCHANGED <<dispatching, active, asks, nextAsk>>

Start(c) ==
  /\ Starting(c)
  /\ nextChat' = nextChat + 1
  /\ chats' = chats \union {[id |-> nextChat + 1, tools |-> c.offers]}
  /\ loop' = [NewLoop(nextLoop + 1, c) EXCEPT !.llm = nextChat + 1, !.round = 1]
  /\ deadline' = c.timed
  /\ waiting' = nextLoop + 1
  /\ sent' = 1
  /\ UNCHANGED <<posted, results>>

\* The request is refused: the node fails, and Finished comes all the same.
StartFails(c) ==
  /\ Starting(c)
  /\ Finish(NewLoop(nextLoop + 1, c))
  /\ sent' = 0
  /\ UNCHANGED <<chatVars, waiting>>

\* What the service of a cancelled tool does with the question.
Unasked == {a \in asks : a.ask # active.ask \/ a.tool \in KeepsAsking}
Abort ==
  /\ chats' = {r \in chats : r.id # loop.llm}
  /\ asks' = Unasked
  /\ active' = Idle

\* ResetAsyncExecutionState gives the node up: Cancel ends the loop at once, through
\* the callback of the cancelled tool if one runs.
CancelRunning ==
  /\ ~dispatching /\ waiting # 0 /\ loop.busy
  /\ waiting' = 0
  /\ Abort
  /\ Finish(loop)
  /\ UNCHANGED <<messages, late, dispatching, calls, nextAsk, nextChat, nextLoop, sent, ran>>

CancelFinished ==
  /\ ~dispatching /\ waiting # 0 /\ ~loop.busy
  /\ waiting' = 0
  /\ UNCHANGED <<loopVars, schedulerVars, chatVars, posted, nextLoop, sent, ran, results>>

\* OnToolLoopFinished: a loop the runtime no longer waits for is ignored.
DeliverFinished ==
  /\ ~dispatching /\ posted # <<>> /\ Head(posted).kind = "finished"
  /\ posted' = Tail(posted)
  /\ waiting' = IF waiting = Head(posted).loop THEN 0 ELSE waiting
  /\ UNCHANGED <<loopVars, schedulerVars, chatVars, nextLoop, sent, ran, results>>

-----------------------------------------------------------------------------
(* Time *)

ClockRunsOut ==
  /\ ~dispatching /\ loop.busy /\ loop.config.timed /\ ~late
  /\ late' = TRUE
  /\ UNCHANGED <<loop, messages, deadline, dispatching, schedulerVars, chatVars, posted,
                 runtimeVars, sent, ran, results>>

DeadlineKeepsTool ==
  /\ ~dispatching /\ deadline /\ loop.busy
  /\ Finish(loop)
  /\ chats' = {r \in chats : r.id # loop.llm}
  /\ UNCHANGED <<messages, late, dispatching, schedulerVars, nextChat, runtimeVars, sent, ran>>
\* The callbacks of the aborted request and tool find the loop finished.
Deadline ==
  /\ ~dispatching /\ deadline /\ loop.busy
  /\ Finish(loop)
  /\ Abort
  /\ UNCHANGED <<messages, late, dispatching, calls, nextAsk, nextChat, runtimeVars, sent, ran>>

-----------------------------------------------------------------------------
(* Answers of the LLM *)

Current(r) == ~dispatching /\ loop.busy /\ r.id = loop.llm
Heard == [loop EXCEPT !.llm = 0]

\* OnLlmChatCompleted (a blank text fails the loop all the same), OnLlmChatFailed
ChatEnds(r) ==
  /\ Current(r)
  /\ FinishWith(Heard, chats \ {r})
  /\ UNCHANGED <<messages, late, dispatching, schedulerVars, runtimeVars, ran>>

\* OnLlmToolCallsCompleted
ToolCalls(r, q) ==
  /\ Current(r) /\ ~loop.fallback /\ ~loop.terminal
  /\ LET ids == [i \in DOMAIN q |-> <<loop.id, loop.round, i>>] IN
     /\ messages' = Append(messages, AskFor(ids))
     /\ loop' = [Heard EXCEPT !.allTerminate = TRUE,
                              !.todo = [i \in DOMAIN q |-> [name |-> q[i], id |-> ids[i]]]]
  /\ dispatching' = TRUE
  /\ chats' = chats \ {r}
  /\ UNCHANGED <<deadline, late, schedulerVars, nextChat, posted, runtimeVars, sent, ran,
                 results>>

ToolCallsRefused(r) ==
  /\ Current(r) /\ (loop.fallback \/ loop.terminal)
  /\ FinishWith(Heard, chats \ {r})
  /\ UNCHANGED <<messages, late, dispatching, schedulerVars, runtimeVars, ran>>

\* OnLlmToolsUnsupported: only of a request that carried tools
ToolsUnsupported(r) ==
  /\ Current(r) /\ r.tools
  /\ IF loop.config.fallback = "plain"
     THEN BeginRound([Heard EXCEPT !.fallback = TRUE], FALSE, chats \ {r})
     ELSE FinishWith(Heard, chats \ {r})
  /\ UNCHANGED <<messages, late, dispatching, schedulerVars, runtimeVars, ran>>

-----------------------------------------------------------------------------
(* DispatchNextToolCall *)

Next1 == Head(loop.todo)
AfterNext == [loop EXCEPT !.todo = Tail(@)]

Skips(c) ==
  \/ c = "malformed"
  \/ c = "foreign" \/ ~loop.config.offers
  \/ active # Idle                          \* "the scheduler is busy"

\* ExecuteCall answers by itself: no budget left, or denied.
NoBudgetLeft ==
  calls >= loop.config.maxCalls \/ loop.round > loop.config.maxRounds \/ late

\* OnToolCallFinished: the answer joins the transcript, the next call is posted.
OnToolCallFinished(l, call, from, hint) ==
  /\ messages' = Append(messages, Answer(call, from))
  /\ loop' = [l EXCEPT !.allTerminate = @ /\ hint]
  /\ posted' = Append(posted, [kind |-> "dispatch", loop |-> l.id])

SkipCall ==
  /\ dispatching /\ loop.todo # <<>> /\ Skips(Next1.name)
  /\ messages' = Append(messages, Answer(Next1.id, NoCall))
  /\ loop' = AfterNext
  /\ UNCHANGED <<deadline, late, dispatching, schedulerVars, chatVars, posted, runtimeVars,
                 sent, ran, results>>

RefuseCall ==
  /\ dispatching /\ loop.todo # <<>> /\ ~Skips(Next1.name)
  /\ NoBudgetLeft \/ Next1.name = "denied"
  /\ calls' = IF NoBudgetLeft THEN calls ELSE calls + 1
  /\ OnToolCallFinished(AfterNext, Next1.id, NoCall, FALSE)
  /\ dispatching' = FALSE
  /\ UNCHANGED <<deadline, late, active, asks, nextAsk, chatVars, runtimeVars, sent, ran,
                 results>>

Runs ==
  /\ dispatching /\ loop.todo # <<>> /\ ~Skips(Next1.name)
  /\ ~NoBudgetLeft /\ Next1.name \in Tool
  /\ calls' = calls + 1
  /\ ran' = ran + 1
  /\ dispatching' = FALSE
  /\ UNCHANGED <<deadline, late, chatVars, runtimeVars, sent, results>>

\* The tool completes inside Execute, with or without its terminate hint.
RunAtOnce(hint) ==
  /\ Runs
  /\ OnToolCallFinished(AfterNext, Next1.id, Next1.id, hint)
  /\ UNCHANGED <<active, asks, nextAsk>>

RunCall ==
  /\ Runs
  /\ nextAsk' = nextAsk + 1
  /\ active' = [tool |-> Next1.name, call |-> Next1.id, ask |-> nextAsk + 1]
  /\ asks' = asks \union {active'}
  /\ loop' = AfterNext
  /\ UNCHANGED <<messages, posted>>

RoundDone ==
  /\ dispatching /\ loop.todo = <<>>
  /\ dispatching' = FALSE
  /\ IF loop.allTerminate THEN SendRound(loop, FALSE, chats) ELSE BeginRound(loop, TRUE, chats)
  /\ UNCHANGED <<messages, late, schedulerVars, runtimeVars, ran>>

\* The posted call: only if its loop is still the one in progress.
IsCurrentLoop(id) == loop.busy /\ loop.id = id
RunDispatch ==
  /\ ~dispatching /\ posted # <<>> /\ Head(posted).kind = "dispatch"
  /\ posted' = Tail(posted)
  /\ dispatching' = IsCurrentLoop(Head(posted).loop)
  /\ UNCHANGED <<loop, messages, deadline, late, schedulerVars, chatVars, runtimeVars, sent,
                 ran, results>>

-----------------------------------------------------------------------------
(* Answers of the tools *)

AnswersTool(a) == a.tool = active.tool
\* NativeTool compares the id of its question, OnToolCompleted the execution id.
AnswersActive(a) == a.tool = active.tool /\ a.ask = active.ask

ToolAnswers(a, hint) ==
  /\ ~dispatching /\ AnswersActive(a)
  /\ asks' = asks \ {a}
  /\ active' = Idle
  /\ OnToolCallFinished(loop, active.call, a.call, hint)
  /\ UNCHANGED <<deadline, late, dispatching, calls, nextAsk, chatVars, runtimeVars, sent,
                 ran, results>>

LateAnswer(a) ==
  /\ ~dispatching /\ ~AnswersActive(a)
  /\ asks' = asks \ {a}
  /\ UNCHANGED <<loopVars, active, calls, nextAsk, chatVars, posted, runtimeVars, sent, ran,
                 results>>

TimeoutWithoutResult ==
  /\ ~dispatching /\ active # Idle
  /\ asks' = Unasked
  /\ active' = Idle
  /\ UNCHANGED <<loopVars, calls, nextAsk, chatVars, posted, runtimeVars, sent, ran, results>>
OnToolTimeout ==
  /\ ~dispatching /\ active # Idle
  /\ asks' = Unasked
  /\ active' = Idle
  /\ OnToolCallFinished(loop, active.call, NoCall, FALSE)
  /\ UNCHANGED <<deadline, late, dispatching, calls, nextAsk, chatVars, runtimeVars, sent,
                 ran, results>>

-----------------------------------------------------------------------------
Answered(r) ==
  \/ ChatEnds(r)
  \/ \E q \in Asked : ToolCalls(r, q)
  \/ ToolCallsRefused(r)
  \/ ToolsUnsupported(r)
Dispatch == SkipCall \/ RefuseCall \/ (\E hint \in BOOLEAN : RunAtOnce(hint)) \/ RunCall
            \/ RoundDone
RunPosted == RunDispatch \/ DeliverFinished
ToolEnds == OnToolTimeout \/ \E a \in asks, hint \in BOOLEAN : ToolAnswers(a, hint)

Next ==
  \/ \E c \in Config : Start(c) \/ StartFails(c)
  \/ CancelRunning \/ CancelFinished
  \/ ClockRunsOut \/ Deadline
  \/ \E r \in chats : Answered(r)
  \/ Dispatch \/ RunPosted \/ ToolEnds
  \/ \E a \in asks : LateAnswer(a)

Spec == Init /\ [][Next]_vars

(***************************************************************************)
(* The event loop runs what is posted; LlmClient sets a transfer timeout   *)
(* on each request and the scheduler a timer on each call, so both end.    *)
(* Nothing is assumed of the deadline.                                     *)
(***************************************************************************)
Fairness ==
  /\ WF_vars(Dispatch) /\ WF_vars(RunPosted) /\ WF_vars(ToolEnds)
  /\ WF_vars(\E r \in chats : Answered(r))

-----------------------------------------------------------------------------
TypeOK ==
  /\ loop \in [busy : BOOLEAN, id : Nat, config : ConfigType, llm : Nat, fallback : BOOLEAN,
               terminal : BOOLEAN, allTerminate : BOOLEAN, round : Nat,
               todo : Seq([name : Call, id : Nat \X Nat \X Nat])]
  /\ {deadline, late, dispatching} \subseteq BOOLEAN
  /\ active \in [tool : Tool \union {NoTool}, call : Nat \X Nat \X Nat, ask : Nat]
  /\ asks \subseteq [tool : Tool, call : Nat \X Nat \X Nat, ask : Nat \ {0}]
  /\ chats \subseteq [id : Nat \ {0}, tools : BOOLEAN]
  /\ posted \in Seq([kind : {"dispatch", "finished"}, loop : Nat])
  /\ results \in Seq(1..MaxLoops)
  /\ {calls, waiting, nextLoop, nextChat, nextAsk, sent, ran} \subseteq Nat

(***************************************************************************)
(* Whatever the order of answers, timeouts and late answers, a request     *)
(* carries after each message that asked for tools one answer per call, in *)
(* the order of the calls, and an answer comes from the run of its own     *)
(* call.  The endpoint rejects anything else.                              *)
(***************************************************************************)
AnsweredFrom(i) ==
  \A k \in DOMAIN messages[i].calls :
    /\ i + k \in DOMAIN messages
    /\ messages[i + k].role = "tool"
    /\ messages[i + k].call = messages[i].calls[k]
Asking == {i \in DOMAIN messages : messages[i].role = "assistant"}
TranscriptIsAnswered ==
  /\ loop.llm # 0 => \A i \in Asking : AnsweredFrom(i)
  /\ \A i \in DOMAIN messages :
       messages[i].role = "tool" => messages[i].from \in {NoCall, messages[i].call}

(***************************************************************************)
(* However a loop ends - answer, failure, budget, deadline or cancellation *)
(* - nothing of it goes on: no request, no tool, no deadline; a loop in    *)
(* progress waits for exactly one thing and the node of the runtime waits  *)
(* for it; and it reports exactly once.                                    *)
(***************************************************************************)
AwaitsOne ==
  LET next == {i \in DOMAIN posted : posted[i] = [kind |-> "dispatch", loop |-> loop.id]} IN
  Cardinality(chats) + Cardinality(next)
    + (IF active # Idle THEN 1 ELSE 0) + (IF dispatching THEN 1 ELSE 0) = 1
NothingOutlivesTheLoop ==
  /\ loop.busy => AwaitsOne /\ waiting = loop.id /\ nextLoop = loop.id
  /\ ~loop.busy => chats = {} /\ active = Idle /\ ~deadline /\ ~dispatching
  /\ results = [i \in 1..(IF loop.busy THEN nextLoop - 1 ELSE nextLoop) |-> i]

(***************************************************************************)
(* A loop sends at most max_rounds requests and one that must be answered  *)
(* without tools, and runs at most max_tool_calls tools, across skipped    *)
(* calls, a fallback to plain chat and time that runs out.                 *)
(***************************************************************************)
BudgetsHold ==
  loop.busy => /\ sent <= loop.config.maxRounds + 1
               /\ loop.round <= loop.config.maxRounds
               /\ ran <= loop.config.maxCalls

\* Budgets and transcript agree whatever ends a round: a budget that runs out still leaves
\* every call of the message answered (ToolLoopExecutor::DispatchNextToolCall,
\* ToolScheduler::ExecuteCall).
LoopInv == TypeOK /\ BudgetsHold /\ TranscriptIsAnswered

\* The node of the runtime does not wait for ever, even without a time budget.
NodeIsReleased ==
  \A i \in 1..MaxLoops : waiting = i ~> waiting # i

=============================================================================
