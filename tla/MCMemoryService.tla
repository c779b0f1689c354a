--------------------------- MODULE MCMemoryService ---------------------------
(***************************************************************************)
(* Small instances of the memory service: two pets, two contents, and the  *)
(* tasks each question is about.                                           *)
(***************************************************************************)
EXTENDS MemoryService

CONSTANTS cat, dog, tea, rain

TwoPets == {cat, dog}
TwoContents == {tea, rain}

Plain(action, pet) == [action |-> action, pet |-> pet]
StoreTask(pet, scope, content) ==
  [action |-> "store", pet |-> pet, scope |-> scope, content |-> content]
ForgetTask(pet, id) == [action |-> "forget", pet |-> pet, id |-> id]
UpdateTask(pet, id, content) ==
  [action |-> "update", pet |-> pet, scope |-> "pet", id |-> id, content |-> content]
Candidate(content, relation, id) ==
  [content |-> content, scope |-> "pet", relation |-> relation, related |-> id]
ConsolidateTask(pet, candidates) ==
  [action |-> "consolidate", pet |-> pet, candidates |-> candidates]

Mem(n) == <<"mem", n>>

\* Two pets that remember, forget, change and retrieve, and one that consolidates,
\* exports and imports in between.
EveryTask ==
  {StoreTask(cat, "pet", tea), StoreTask(dog, Global, tea),
   ForgetTask(cat, Mem(1)), ForgetTask(dog, None),
   UpdateTask(cat, Mem(1), rain),
   ConsolidateTask(cat, <<Candidate(rain, "supersedes", Mem(1)),
                          Candidate(rain, "none", None)>>),
   Plain("export", cat), Plain("import", cat),
   Plain("retrieve", cat), Plain("list", dog)}

\* What a restart and failures are about.
BulkTasks ==
  {StoreTask(cat, "pet", tea), UpdateTask(cat, Mem(1), rain), ForgetTask(cat, Mem(1)),
   ConsolidateTask(cat, <<Candidate(rain, "supersedes", Mem(1)),
                          Candidate(rain, "none", None)>>),
   ConsolidateTask(cat, <<Candidate(tea, "none", None),
                          Candidate(rain, "conflicts", Mem(1))>>),
   Plain("export", cat), Plain("import", cat), Plain("retrieve", cat), Plain("touch", cat)}

StoreOnly == {StoreTask(cat, "pet", tea)}
StoreAndUpdate == {StoreTask(cat, "pet", tea), UpdateTask(cat, Mem(1), rain)}

=============================================================================
