-------------------------- MODULE WebResearchEngine --------------------------
(***************************************************************************)
(* WebResearchEngine (src/src/web/web_research_engine.cpp) answers a       *)
(* question by rounds of searches, one claim after the other, through      *)
(* WebSearchTool and WebSearchClient, within budgets and a deadline.       *)
(*                                                                         *)
(* A search that fails at once (the client throttles it) fails inside      *)
(* Execute, and Completed runs the handler of the runtime inside           *)
(* FinishResearch: `step' says what the handler under way does next.       *)
(*                                                                         *)
(* A claim is the first 200 characters of a part of the question, and the  *)
(* search of a claim cut after a blank is for the claim without it: its    *)
(* answer is not known again.  -k stands for claim k without its blank.    *)
(***************************************************************************)
EXTENDS Integers, FiniteSets, Sequences

CONSTANTS MaxSearchRounds, MaxQueriesPerRound, MaxTotalResults,
          MaxClaims,      \* DecomposeClaims finds up to so many claims
          MaxResearch     \* bound on the studies started

VARIABLES
  e,        \* the members of WebResearchEngine
  step,     \* "none" between two handlers, or "issue", "assess", "reset"
  posted,   \* studies whose posted BeginResearch has not run
  client,   \* WebSearchClient: the search under way
  owed,     \* studies started whose end was not reported
  wiped     \* observed: studies started in a handler of Completed that ResetState then erased

vars == <<e, step, posted, client, owed, wiped>>

Claim == 1..MaxClaims
Policy == {"continue", "fail"}
Reset(next) ==       \* ResetState
  [searching |-> FALSE, id |-> -1, next |-> next, deadline |-> FALSE, policy |-> "continue",
   claims |-> 0, cut |-> {}, queries |-> <<>>, index |-> 0, rounds |-> 0, searches |-> 0,
   request |-> -1, claim |-> 0, evidence |-> <<>>, conflicts |-> {}]
NoSearch == [id |-> -1, claim |-> 0, phase |-> "idle", ids |-> 0]

Init ==
  /\ e = Reset(1) /\ step = "none"
  /\ posted = {} /\ client = NoSearch /\ owed = {} /\ wiped = {}

-----------------------------------------------------------------------------
(* The end of a study *)

\* EmitFailureAndReset
FailResearch(x) ==
  /\ e' = Reset(x.next)
  /\ owed' = owed \ {x.id}
  /\ step' = "none"

\* FinishResearch up to the return of the handlers of Completed
FinishResearch(x) ==
  /\ e' = [x EXCEPT !.deadline = FALSE, !.searching = FALSE]
  /\ owed' = owed \ {x.id}
  /\ step' = "reset"

\* ResetState after the handlers of Completed: it erases a study one of them has started.
ResetsItself ==
  /\ step = "reset"
  /\ e' = Reset(e.next)
  /\ wiped' = IF e.searching THEN wiped \union {e.id} ELSE wiped
  /\ step' = "none"
  /\ UNCHANGED <<posted, client, owed>>

-----------------------------------------------------------------------------
(* Start and BeginResearch *)

\* Refused with -1 while busy.  The runtime registers the study that Start returns.  It may
\* start one in its handler of Completed, which resumes the graph.
StartedUntimed(x, policy) ==
  [x EXCEPT !.searching = TRUE, !.id = x.next, !.next = @ + 1, !.policy = policy]
Started(x, policy) ==
  [x EXCEPT !.searching = TRUE, !.id = x.next, !.next = @ + 1, !.deadline = TRUE,
            !.policy = policy]
Start(policy) ==
  /\ step \in {"none", "reset"}
  /\ ~e.searching /\ e.next <= MaxResearch
  /\ e' = Started(e, policy)
  /\ posted' = posted \union {e.next}
  /\ owed' = owed \union {e.next}
  /\ UNCHANGED <<step, client, wiped>>

\* The first claims of a set, in the order of the question.
Place(k, claims) == Cardinality({j \in claims : j <= k})
FirstQueries(claims) ==
  LET all == Cardinality(claims)
      most == IF all <= MaxQueriesPerRound THEN all ELSE MaxQueriesPerRound
  IN [i \in 1..most |-> CHOOSE k \in claims : Place(k, claims) = i]
\* cut: the claims that end in a blank after they were cut to their first 200 characters.
BeginResearch(id, claims, cut) ==
  /\ step = "none" /\ id \in posted
  /\ posted' = posted \ {id}
  /\ IF ~e.searching \/ e.id # id THEN UNCHANGED <<e, step, owed>>
     ELSE IF claims = 0 THEN FinishResearch(e)          \* no search is needed
     ELSE /\ e' = [e EXCEPT !.claims = claims, !.cut = cut, !.rounds = 0, !.index = 0,
                            !.queries = FirstQueries(1..claims)]
          /\ step' = "issue"
          /\ UNCHANGED owed
  /\ UNCHANGED <<client, wiped>>

-----------------------------------------------------------------------------
(* Searches *)

\* IssueNextQuery: the next claim of the round, unless the deadline is over.
HasQuery(x) == x.index < Len(x.queries)
IssueIsLate ==
  /\ step = "issue" /\ HasQuery(e)
  /\ FinishResearch([e EXCEPT !.index = @ + 1])
  /\ UNCHANGED <<posted, client, wiped>>

\* The query of claim k, as the tool hands it to the client and back (simplified).
Simplified(x, k) == IF k \in x.cut THEN -k ELSE k

\* WebSearchTool::Execute and WebSearchClient::Search; the request starts at once or
\* when the throttle timer fires.
Issued(x) ==
  [x EXCEPT !.index = @ + 1, !.claim = x.queries[x.index + 1], !.searches = @ + 1,
            !.request = -1]
IssueNextQuery(phase) ==
  /\ step = "issue" /\ HasQuery(e)
  /\ client' = [id |-> client.ids + 1, claim |-> Simplified(e, Issued(e).claim),
                phase |-> phase, ids |-> client.ids + 1]
  /\ e' = [Issued(e) EXCEPT !.request = client.ids + 1]
  /\ step' = "none"
  /\ UNCHANGED <<posted, owed, wiped>>

\* What follows a search, in OnToolCompleted and OnToolFailed.
Goes(x) == IF HasQuery(x) THEN "issue" ELSE "assess"
AfterFailure(x) ==
  IF x.policy = "fail" THEN FailResearch(x)
  ELSE e' = [x EXCEPT !.request = -1] /\ step' = Goes(x) /\ UNCHANGED owed

\* The wait would be too long: SearchFailed is emitted inside Search.  The failure of a cut
\* claim is of another query, and the study waits for the request that has failed.
IssueThrottled ==
  /\ step = "issue" /\ HasQuery(e)
  /\ client' = [NoSearch EXCEPT !.ids = client.ids + 1]
  /\ IF Issued(e).claim = Simplified(e, Issued(e).claim) THEN AfterFailure(Issued(e))
     ELSE e' = [Issued(e) EXCEPT !.request = client.ids + 1] /\ step' = "none" /\ UNCHANGED owed
  /\ UNCHANGED <<posted, wiped>>

OnThrottleTimeout ==
  /\ step = "none" /\ client.phase = "throttled"
  /\ client' = [client EXCEPT !.phase = "sent"]
  /\ UNCHANGED <<e, step, posted, owed, wiped>>

Idle(x) == [NoSearch EXCEPT !.ids = x.ids]
IsActiveSearch(x) == x.searching /\ client.claim = x.claim /\ x.request \in {client.id, -1}

\* ObserveResults: new sources up to the limit.  Of each piece of evidence the model
\* keeps its claim.
Observed(x, n) ==
  LET room == MaxTotalResults - Len(x.evidence)
  IN [x EXCEPT !.request = -1,
               !.evidence = @ \o [i \in 1..(IF n <= room THEN n ELSE room) |-> x.claim]]
OnToolCompleted(n) ==
  /\ step = "none" /\ client.phase = "sent"
  /\ client' = Idle(client)
  /\ IF IsActiveSearch(e) THEN e' = Observed(e, n) /\ step' = Goes(e)
                          ELSE UNCHANGED <<e, step>>
  /\ UNCHANGED <<posted, owed, wiped>>

\* A network error, a refused or oversized answer, the timeout of the request
OnToolFailed ==
  /\ step = "none" /\ client.phase = "sent"
  /\ client' = Idle(client)
  /\ IF IsActiveSearch(e) THEN AfterFailure(e) ELSE UNCHANGED <<e, step, owed>>
  /\ UNCHANGED <<posted, wiped>>

-----------------------------------------------------------------------------
(* Assessment, deadline and cancellation *)

\* AssessRound: whether the evidence of a claim suffices, and whether sources of two
\* hosts conflict, depends on texts; a conflict takes two pieces of evidence.
Supported(x) == {x.evidence[i] : i \in DOMAIN x.evidence}
MayConflict(x) ==
  {k \in Claim : Cardinality({i \in DOMAIN x.evidence : x.evidence[i] = k}) >= 2}
Insufficient(x, sufficient) == (1..x.claims) \ sufficient
OutOfBudget(x) == x.rounds >= MaxSearchRounds \/ Len(x.evidence) >= MaxTotalResults
AssessRound(sufficient, conflicts) ==
  /\ step = "assess"
  /\ LET x == [e EXCEPT !.rounds = @ + 1, !.conflicts = conflicts]
         again == IF Insufficient(x, sufficient) # {} THEN Insufficient(x, sufficient)
                  ELSE conflicts
     IN IF OutOfBudget(x) \/ again = {} THEN FinishResearch(x)
        ELSE /\ e' = [x EXCEPT !.queries = FirstQueries(again), !.index = 0]
             /\ step' = "issue"
             /\ UNCHANGED owed
  /\ UNCHANGED <<posted, client, wiped>>

\* Both cancel the search before, whose failure is ignored.
KeepSearch(x) == x
CancelSearch(x) == Idle(x)
OnDeadlineTimeout ==
  /\ step = "none" /\ e.deadline
  /\ client' = CancelSearch(client)
  /\ IF e.policy = "fail" THEN FailResearch(e) ELSE FinishResearch(e)
  /\ UNCHANGED <<posted, wiped>>

\* By the runtime, which may do so in its handler of Completed too
Cancel ==
  /\ step \in {"none", "reset"} /\ e.searching
  /\ client' = CancelSearch(client)
  /\ e' = Reset(e.next)
  /\ owed' = owed \ {e.id}
  /\ UNCHANGED <<step, posted, wiped>>

Next ==
  \/ \E policy \in Policy : Start(policy)
  \/ \E id \in posted, claims \in 0..MaxClaims : \E cut \in SUBSET (1..claims) :
       BeginResearch(id, claims, cut)
  \/ \E phase \in {"throttled", "sent"} : IssueNextQuery(phase)
  \/ IssueIsLate \/ IssueThrottled \/ OnThrottleTimeout
  \/ \E n \in 0..MaxTotalResults : OnToolCompleted(n)
  \/ OnToolFailed
  \/ \E sufficient \in SUBSET Supported(e), conflicts \in SUBSET MayConflict(e) :
       AssessRound(sufficient, conflicts)
  \/ OnDeadlineTimeout \/ Cancel \/ ResetsItself

\* A handler goes on by itself, and the deadline fires.
Fairness == WF_vars(step # "none" /\ Next) /\ WF_vars(OnDeadlineTimeout)

Spec == Init /\ [][Next]_vars /\ Fairness

-----------------------------------------------------------------------------
(***************************************************************************)
(* Between two handlers a study in progress has its deadline armed and,    *)
(* once begun, waits for the very search that is under way, unless its     *)
(* claim was cut after a blank: the answer to that is ignored              *)
(* (web_research_engine.cpp:498, :544) and the deadline ends the study.    *)
(* Nothing searches for a study that is over, whatever ended it; the study *)
(* in progress is the one that is still to be reported, but for those      *)
(* that ResetState erases (:1048) when a handler of Completed has started  *)
(* them; and no study exceeds its rounds, searches and sources.            *)
(***************************************************************************)
WaitsForItsSearch ==
  step = "none" =>
    /\ e.searching => /\ e.deadline
                      /\ e.id \in posted \/ e.request = client.id \/ e.claim \in e.cut
    /\ client.phase # "idle" => /\ e.searching /\ e.request = client.id
                                /\ client.claim = Simplified(e, e.claim)
OwesTheStudyInProgress == owed \ wiped = IF e.searching THEN {e.id} ELSE {}
WithinBudget ==
  /\ e.rounds <= MaxSearchRounds /\ Len(e.evidence) <= MaxTotalResults
  /\ e.searches <= MaxSearchRounds * MaxQueriesPerRound
ResearchIsSound == WaitsForItsSearch /\ OwesTheStudyInProgress /\ WithinBudget

(***************************************************************************)
(* Every study that was started is reported completed or failed, whatever  *)
(* the search service does: the deadline ends what nothing else ends.  The *)
(* exception is a study started in a handler of Completed, which           *)
(* FinishResearch erases as the handler returns: with two web.research     *)
(* nodes in series the second waits for its own timeout.                   *)
(***************************************************************************)
ResearchIsReported ==
  \A id \in 1..MaxResearch : id \in owed ~> (id \notin owed \/ id \in wiped)

=============================================================================
