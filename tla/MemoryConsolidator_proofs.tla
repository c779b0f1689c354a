---------------------- MODULE MemoryConsolidator_proofs ----------------------
(***************************************************************************)
(* What the service is asked to remember stems from one turn, for any      *)
(* number of turns and pets, whatever they know and whatever is answered.  *)
(***************************************************************************)
EXTENDS MemoryConsolidator, TLAPS

\* The candidates the LLM may send, and what they become for a pet.
Rain == [Proper EXCEPT !.content = "rain"]
Raw == Variants(Ids) \union {Rain}
Memory == {Candidate(c, pet) : c \in Raw, pet \in Pet}

\* A request that waits was sent, within a limit the config allows; no turn knows a blank id.
RecordsInv ==
  /\ turns \in Seq([pet : Pet, known : SUBSET Ids])
  /\ pending \subseteq DOMAIN turns
  /\ pending # {} => MaxCandidates \in 1..8
  /\ \A n \in DOMAIN turns : Blank \notin turns[n].known
  /\ accepted \in Seq([turn : Nat, candidates : Seq(Memory)])

ConsolidationInv == RecordsInv /\ ConsolidationIsOfItsTurn

-----------------------------------------------------------------------------
\* An answer is a list of candidates.
LEMMA ResponsesAreLists ==
  ASSUME NEW response \in Response(Ids), MaxCandidates \in 1..8
  PROVE  response \in Seq(Raw)
<1>1. <<>> \in Seq(Raw)
  OBVIOUS
<1>2. ASSUME NEW c \in Variants(Ids) PROVE <<c>> \in Seq(Raw) /\ <<Rain, c>> \in Seq(Raw)
  BY DEF Raw
<1>3. [i \in 1..MaxCandidates + 1 |-> Rain] \in Seq(Raw)
  BY DEF Raw
<1> QED BY <1>1, <1>2, <1>3 DEF Response, Rain

\* What passes the parser and the service's own check is of the turn.
LEMMA AcceptedIsOfTheTurn ==
  ASSUME NEW response \in Seq(Raw), NEW turn, turn.pet \in Pet, Blank \notin turn.known,
         MaxCandidates \in 1..8,
         ParseCandidates(response, turn.known),
         NEW candidates, candidates = [i \in DOMAIN response |-> Candidate(response[i], turn.pet)],
         TryEnqueueConsolidation(candidates)
  PROVE  candidates \in Seq(Memory) /\ IsOf(candidates, turn)
<1>1. /\ DOMAIN response = 1..Len(response)
      /\ Len(response) \in Nat
      /\ \A i \in DOMAIN response : response[i] \in Raw
  OBVIOUS
<1>2. \A i \in DOMAIN response : Candidate(response[i], turn.pet) \in Memory
  BY <1>1 DEF Memory
<1>3. /\ candidates \in Seq(Memory)
      /\ DOMAIN candidates = DOMAIN response
      /\ Len(candidates) = Len(response)
  BY <1>1, <1>2
<1>4. Len(candidates) \in 1..MaxCandidates
  BY <1>1, <1>3 DEF ParseCandidates, TryEnqueueConsolidation
<1>5. ASSUME NEW i \in DOMAIN candidates
      PROVE  LET c == candidates[i] IN
             /\ c.owner \in {"everybody", turn.pet}
             /\ c.relation # "none" <=> c.related \in turn.known
             /\ ~Secret(c)
             /\ \A j \in DOMAIN candidates :
                  Lower(c.content) = Lower(candidates[j].content) => i = j
  <2>1. candidates[i] = Candidate(response[i], turn.pet) /\ response[i] \in Raw
    BY <1>1, <1>3
  <2>2. candidates[i].owner \in {"everybody", turn.pet}
    BY <2>1 DEF Candidate
  <2>3. candidates[i].relation # "none" <=> candidates[i].related \in turn.known
    <3>1. TargetFits(response[i], turn.known)
      BY <1>3 DEF ParseCandidates, ParseCandidate
    <3> QED BY <2>1, <3>1 DEF Candidate, TargetFits
  <2>4. ~Secret(candidates[i])
    <3>1. ValidateEntry(candidates[i])
      BY DEF TryEnqueueConsolidation
    <3> QED BY <3>1 DEF ValidateEntry, ValidateContent, Secret, Blank
  <2>5. ASSUME NEW j \in DOMAIN candidates,
               Lower(candidates[i].content) = Lower(candidates[j].content)
        PROVE  i = j
    <3>1. /\ candidates[i].content = response[i].content
          /\ candidates[j].content = response[j].content
      BY <1>3 DEF Candidate
    <3>2. /\ i < j => Lower(response[i].content) # Lower(response[j].content)
          /\ j < i => Lower(response[j].content) # Lower(response[i].content)
      BY <1>3 DEF ParseCandidates
    <3> QED BY <1>1, <1>3, <2>5, <3>1, <3>2
  <2> QED BY <2>2, <2>3, <2>4, <2>5
<1> QED BY <1>3, <1>4, <1>5 DEF IsOf

-----------------------------------------------------------------------------
\* Every turn is a pet's.
LEMMA TurnsHavePets ==
  ASSUME NEW Turn, NEW s \in Seq(Turn), NEW n \in DOMAIN s, \A t \in Turn : t.pet \in Pet
  PROVE  s[n].pet \in Pet
<1>1. s[n] \in Turn
  OBVIOUS
<1> QED BY <1>1

LEMMA InitHolds == Init => ConsolidationInv
  BY DEF Init, ConsolidationInv, RecordsInv, ConsolidationIsOfItsTurn

\* A turn that is sent gets a number of its own.
LEMMA SubmitKeeps ==
  ASSUME ConsolidationInv, NEW input, NEW output, NEW pet \in Pet, NEW known \in KnownIds,
         SubmitTurn(input, output, pet, known)
  PROVE  ConsolidationInv'
<1> DEFINE turn == [pet |-> pet, known |-> known \ {Blank}]
<1>1. turn \in [pet : Pet, known : SUBSET Ids] /\ Blank \notin turn.known
  BY DEF Ids
<1>2. /\ turns' = Append(turns, turn) /\ turns' \in Seq([pet : Pet, known : SUBSET Ids])
      /\ DOMAIN turns' = DOMAIN turns \union {Len(turns')}
      /\ Len(turns') \notin DOMAIN turns
      /\ turns'[Len(turns')] = turn
      /\ \A n \in DOMAIN turns : turns'[n] = turns[n]
  BY <1>1 DEF SubmitTurn, ConsolidationInv, RecordsInv
<1>3. pending' = pending \union {Len(turns')} /\ accepted' = accepted /\ MaxCandidates \in 1..8
  BY DEF SubmitTurn
<1>4. RecordsInv'
  BY <1>1, <1>2, <1>3 DEF ConsolidationInv, RecordsInv
<1>5. ConsolidationIsOfItsTurn'
  BY <1>2, <1>3 DEF ConsolidationInv, ConsolidationIsOfItsTurn
<1> QED BY <1>4, <1>5 DEF ConsolidationInv

\* A turn that is answered or failed waits no longer, and nothing else is accepted.
LEMMA RemovalKeeps ==
  ASSUME ConsolidationInv, NEW n \in pending, pending' = pending \ {n},
         UNCHANGED <<turns, accepted>>
  PROVE  ConsolidationInv'
  BY DEF ConsolidationInv, RecordsInv, ConsolidationIsOfItsTurn

LEMMA CompletionKeeps ==
  ASSUME ConsolidationInv, NEW n \in pending, NEW response \in Response(Ids),
         HandleLlmCompleted(n, response)
  PROVE  ConsolidationInv'
<1> DEFINE turn == turns[n]
           candidates == [i \in DOMAIN response |-> Candidate(response[i], turn.pet)]
           entry == [turn |-> n, candidates |-> candidates]
<1>1. pending' = pending \ {n} /\ UNCHANGED <<turns, running>>
  BY DEF HandleLlmCompleted
<1>2. CASE UNCHANGED accepted
  BY <1>1, <1>2, RemovalKeeps
<1>3. CASE /\ ParseCandidates(response, turn.known)
           /\ TryEnqueueConsolidation(candidates)
           /\ accepted' = Append(accepted, entry)
  <2>1. /\ n \in DOMAIN turns
        /\ turns \in Seq([pet : Pet, known : SUBSET Ids])
        /\ Blank \notin turn.known
        /\ MaxCandidates \in 1..8
    BY DEF ConsolidationInv, RecordsInv
  <2>2. n \in Nat
    BY <2>1
  <2>3. turn.pet \in Pet
    <3>1. \A t \in [pet : Pet, known : SUBSET Ids] : t.pet \in Pet
      OBVIOUS
    <3> HIDE DEF turn
    <3>2. turns[n].pet \in Pet
      BY <2>1, <3>1, TurnsHavePets
    <3> QED BY <3>2 DEF turn
  <2>4. response \in Seq(Raw)
    BY <2>1, ResponsesAreLists
  <2>5. candidates \in Seq(Memory) /\ IsOf(candidates, turn)
    BY <1>3, <2>1, <2>3, <2>4, AcceptedIsOfTheTurn
  <2> HIDE DEF candidates
  <2>6. entry \in [turn : Nat, candidates : Seq(Memory)]
    BY <2>2, <2>5
  <2>7. /\ accepted' \in Seq([turn : Nat, candidates : Seq(Memory)])
        /\ DOMAIN accepted' = DOMAIN accepted \union {Len(accepted')}
        /\ accepted'[Len(accepted')] = entry
        /\ Len(accepted') \notin DOMAIN accepted
        /\ \A k \in DOMAIN accepted : accepted'[k] = accepted[k]
    BY <1>3, <2>6 DEF ConsolidationInv, RecordsInv
  <2>8. RecordsInv'
    BY <1>1, <2>7 DEF ConsolidationInv, RecordsInv
  <2>9. \A k \in DOMAIN accepted : accepted[k].turn # n
    BY DEF ConsolidationInv, ConsolidationIsOfItsTurn
  <2>10. \A k \in DOMAIN accepted :
           /\ accepted[k].turn \in DOMAIN turns \ pending
           /\ \A j \in DOMAIN accepted : accepted[j].turn = accepted[k].turn => j = k
           /\ IsOf(accepted[k].candidates, turns[accepted[k].turn])
    BY DEF ConsolidationInv, ConsolidationIsOfItsTurn
  <2>11. ConsolidationIsOfItsTurn'
    <3>1. /\ accepted'[Len(accepted')].turn = n
          /\ accepted'[Len(accepted')].candidates = candidates
      BY <2>7
    <3>2. ASSUME NEW k \in DOMAIN accepted'
          PROVE  /\ accepted'[k].turn \in DOMAIN turns' \ pending'
                 /\ \A j \in DOMAIN accepted' : accepted'[j].turn = accepted'[k].turn => j = k
                 /\ IsOf(accepted'[k].candidates, turns'[accepted'[k].turn])
      <4>1. CASE k \in DOMAIN accepted
        <5>1. accepted'[k] = accepted[k]
          BY <2>7, <4>1
        <5>2. \A j \in DOMAIN accepted' :
                 accepted'[j].turn = accepted'[k].turn => j \in DOMAIN accepted
          BY <2>7, <2>9, <3>1, <4>1, <5>1
        <5>3. \A j \in DOMAIN accepted' : accepted'[j].turn = accepted'[k].turn => j = k
          BY <2>7, <2>10, <4>1, <5>1, <5>2
        <5>4. /\ accepted'[k].turn \in DOMAIN turns' \ pending'
              /\ IsOf(accepted'[k].candidates, turns'[accepted'[k].turn])
          BY <1>1, <2>10, <4>1, <5>1
        <5> QED BY <5>3, <5>4
      <4>2. CASE k = Len(accepted')
        <5>1. \A j \in DOMAIN accepted' : accepted'[j].turn = n => j = k
          BY <2>7, <2>9, <4>2
        <5> QED BY <1>1, <2>1, <2>5, <3>1, <4>2, <5>1
      <4> QED BY <2>7, <4>1, <4>2
    <3> QED BY <3>2 DEF ConsolidationIsOfItsTurn, IsOf
  <2> QED BY <2>8, <2>11 DEF ConsolidationInv
<1> QED BY <1>2, <1>3 DEF HandleLlmCompleted

LEMMA NextKeeps == ConsolidationInv /\ [Next]_vars => ConsolidationInv'
<1> SUFFICES ASSUME ConsolidationInv, [Next]_vars PROVE ConsolidationInv'
  OBVIOUS
<1>1. CASE ExecuteMemoryStoreNode
  BY <1>1, SubmitKeeps DEF ExecuteMemoryStoreNode
<1>2. ASSUME NEW n \in pending, NEW response \in Response(Ids), HandleLlmCompleted(n, response)
      PROVE  ConsolidationInv'
  BY <1>2, CompletionKeeps
<1>3. ASSUME NEW n \in pending, HandleLlmFailed(n)
      PROVE  ConsolidationInv'
  BY <1>3, RemovalKeeps DEF HandleLlmFailed
<1>4. CASE UNCHANGED <<turns, pending, accepted>>
  BY <1>4 DEF ConsolidationInv, RecordsInv, ConsolidationIsOfItsTurn
<1> QED BY <1>1, <1>2, <1>3, <1>4 DEF Next, StopService, StartService, vars

\* What the service is asked to remember is of one turn: its pet's or everybody's, about
\* memories that turn was shown, within the limit, said once, past the privacy filter
\* (MemoryConsolidator::HandleLlmCompleted, MemoryService::TryEnqueueConsolidation).
THEOREM ConsolidationSound == Spec => []ConsolidationIsOfItsTurn
<1>1. ConsolidationInv => ConsolidationIsOfItsTurn
  BY DEF ConsolidationInv
<1> QED BY InitHolds, NextKeeps, <1>1, PTL DEF Spec
=============================================================================
