------------------------- MODULE MemoryConsolidator -------------------------
(***************************************************************************)
(* MemoryConsolidator: after a turn of the dialogue the LLM is asked what  *)
(* of it is worth remembering.  Its answer is parsed strictly and handed   *)
(* to the memory service.  Answers come in any order, late, or not at all; *)
(* the pet and the memories the turn knew are those of its own time.  Only *)
(* the main thread runs here.                                              *)
(***************************************************************************)
EXTENDS Naturals, Sequences

CONSTANTS
  Pet,            \* the pets
  KnownIds,       \* what a turn may know: sets of ids, the blank one included
  MaxCandidates,  \* consolidation_max_candidates
  MaxTurns        \* bound: turns sent to the LLM

VARIABLES
  turns,    \* the turns whose request the client accepted: request n is turns[n]
  pending,  \* m_pendingRequests: of these turns, what is kept until the answer
  running,  \* IsRunning of the memory service
  accepted  \* consolidations the service has queued, with the turn they answer

vars == <<turns, pending, running, accepted>>

Init == turns = <<>> /\ pending = {} /\ running = TRUE /\ accepted = <<>>

\* Texts, as far as the rules tell them apart: two that differ in case only, one that the
\* privacy filter finds, and one that is blank.
Blank == "blank"
Text == {"tea", "TEA", "rain", "password", Blank}
Lower(text) == IF text = "TEA" THEN "tea" ELSE text
ValidateContent(text) == text \notin {Blank, "password"}
ValidateEntry(entry) ==
  /\ ValidateContent(entry.content)
  /\ \A i \in DOMAIN entry.tags : entry.tags[i] # Blank => ValidateContent(entry.tags[i])

-----------------------------------------------------------------------------
(***************************************************************************)
(* A turn is sent.                                                         *)
(***************************************************************************)
SubmitTurn(input, output, pet, known) ==
  /\ Len(turns) < MaxTurns
  /\ running
  /\ MaxCandidates \in 1..8
  /\ ValidateContent(input) /\ ValidateContent(output)
  /\ turns' = Append(turns, [pet |-> pet, known |-> known \ {Blank}])
  /\ pending' = pending \union {Len(turns')}
  /\ UNCHANGED <<running, accepted>>

\* Only a turn of the user that has a final reply is sent.
ExecuteMemoryStoreNode ==
  \E input, output \in Text, pet \in Pet, known \in KnownIds :
    SubmitTurn(input, output, pet, known)

-----------------------------------------------------------------------------
(***************************************************************************)
(* The answer: a list of candidates, any of which may break a rule.        *)
(***************************************************************************)
Proper == [shape |-> "object", content |-> "tea", type |-> "fact", scope |-> "pet",
           tags |-> <<>>, confidence |-> 1, relation |-> "none", related |-> Blank]
Variants(ids) ==
  {[Proper EXCEPT !.content = text] : text \in Text}
  \union {[Proper EXCEPT !.tags = tags] :
            tags \in {<<"x">>, <<"x", "x">>, <<"password">>, <<Blank>>}}
  \union {[Proper EXCEPT !.scope = scope] : scope \in {"global", "nowhere"}}
  \union {[Proper EXCEPT !.relation = relation, !.related = id] :
            relation \in {"none", "supersedes", "conflicts", "follows"}, id \in ids}
  \union {[Proper EXCEPT !.confidence = 2], [Proper EXCEPT !.type = "procedure"],
          [Proper EXCEPT !.shape = "missing key"]}
Response(ids) ==
  {<<>>} \union {<<c>> : c \in Variants(ids)}
  \union {<<[Proper EXCEPT !.content = "rain"], c>> : c \in Variants(ids)}
  \union {[i \in 1..MaxCandidates + 1 |-> [Proper EXCEPT !.content = "rain"]]}

ParseType(type) == type \in {"fact", "preference", "correction", "negative"}
ParseTags(tags) ==
  /\ \A i \in DOMAIN tags : tags[i] # Blank
  /\ \A i, j \in DOMAIN tags : i # j => tags[i] # tags[j]
ParseRelation(relation) == relation \in {"none", "supersedes", "conflicts"}
TargetFits(c, known) ==
  IF c.relation = "none" THEN c.related = Blank ELSE c.related # Blank /\ c.related \in known

\* The filter sees the entry before it has its tags.
ParseCandidate(c, known) ==
  /\ c.shape = "object"
  /\ ValidateContent(c.content)
  /\ ParseType(c.type)
  /\ c.scope \in {"global", "pet"}
  /\ ParseTags(c.tags)
  /\ c.confidence \in 0..1
  /\ ParseRelation(c.relation)
  /\ TargetFits(c, known)

Candidate(c, pet) ==
  [content |-> c.content, tags |-> c.tags, relation |-> c.relation, related |-> c.related,
   owner |-> IF c.scope = "global" THEN "everybody" ELSE pet]

\* One bad candidate and the whole answer is discarded.
ParseCandidates(response, known) ==
  /\ Len(response) <= MaxCandidates
  /\ \A i \in DOMAIN response : ParseCandidate(response[i], known)
  /\ \A i, j \in DOMAIN response :
       i < j => Lower(response[i].content) # Lower(response[j].content)

SkipsTheFilter(candidates) == Len(candidates) \in 1..8
\* The service looks at the entries again, now with their tags.
TryEnqueueConsolidation(candidates) ==
  /\ Len(candidates) \in 1..8
  /\ \A i \in DOMAIN candidates : ValidateEntry(candidates[i])

\* The service may refuse a task, for its queue is full.
HandleLlmCompleted(n, response) ==
  LET turn == turns[n]
      candidates == [i \in DOMAIN response |-> Candidate(response[i], turn.pet)]
  IN /\ n \in pending
     /\ pending' = pending \ {n}
     /\ \/ /\ running
           /\ ParseCandidates(response, turn.known)
           /\ TryEnqueueConsolidation(candidates)
           /\ accepted' = Append(accepted, [turn |-> n, candidates |-> candidates])
        \/ UNCHANGED accepted
     /\ UNCHANGED <<turns, running>>

HandleLlmFailed(n) ==
  /\ n \in pending
  /\ pending' = pending \ {n}
  /\ UNCHANGED <<turns, running, accepted>>

-----------------------------------------------------------------------------
\* The service stops when the program quits and starts when a config is loaded.
StopService == running /\ running' = FALSE /\ UNCHANGED <<turns, pending, accepted>>
StartService == ~running /\ running' = TRUE /\ UNCHANGED <<turns, pending, accepted>>

Ids == {Blank} \union UNION KnownIds
Next ==
  \/ ExecuteMemoryStoreNode
  \/ \E n \in pending, response \in Response(Ids) : HandleLlmCompleted(n, response)
  \/ \E n \in pending : HandleLlmFailed(n)
  \/ StopService \/ StartService

Spec == Init /\ [][Next]_vars

-----------------------------------------------------------------------------
Secret(candidate) ==
  \E text \in {candidate.content} \union {candidate.tags[i] : i \in DOMAIN candidate.tags} :
    text = "password"

\* A memory is its pet's or everybody's, changes only memories the turn was shown, is said
\* once, within the limit, and nothing in it is what the privacy filter keeps out.
IsOf(candidates, turn) ==
  /\ Len(candidates) \in 1..MaxCandidates
  /\ \A i \in DOMAIN candidates :
       LET c == candidates[i] IN
       /\ c.owner \in {"everybody", turn.pet}
       /\ c.relation # "none" <=> c.related \in turn.known
       /\ ~Secret(c)
       /\ \A j \in DOMAIN candidates :
            Lower(c.content) = Lower(candidates[j].content) => i = j

\* What the service is asked to remember is of one turn, which is answered once and waits
\* no longer, whatever turns were sent and answered in between
\* (MemoryConsolidator::HandleLlmCompleted, MemoryService::TryEnqueueConsolidation).
ConsolidationIsOfItsTurn ==
  \A k \in DOMAIN accepted :
    LET n == accepted[k].turn IN
    /\ n \in DOMAIN turns \ pending
    /\ \A j \in DOMAIN accepted : accepted[j].turn = n => j = k
    /\ IsOf(accepted[k].candidates, turns[n])
=============================================================================
