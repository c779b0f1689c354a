--------------------------- MODULE MemoryService ---------------------------
(***************************************************************************)
(* The long-term memory (memory_service.cpp, with memory_graph.cpp,        *)
(* memory_repository.cpp and the vector store as it uses them): the two    *)
(* threads of MemoryTaskQueue, and what the worker does for a task to the  *)
(* graph in memory, to graph.json and to the vector database.              *)
(*                                                                         *)
(* A task is a few steps of the worker, one for each write that survives   *)
(* the process: it changes the graph, saves it, then writes and removes    *)
(* vectors one by one.  The process may be killed between any two.  Of an  *)
(* entry its content, its owner and `active' are kept; tags, edges, scores *)
(* and times are not.                                                      *)
(***************************************************************************)
EXTENDS Integers, Sequences, FiniteSets, SequencesExt

CONSTANTS Pet, Content,
          Global,           \* owner of the entries every pet sees
          Task,             \* the tasks that may be submitted
          None, NoKey,
          Capacity, MaxRequests, MaxStarts, MaxExits,   \* see MemoryTaskQueue
          MaxCrashes,       \* bound on the ends of the process while the service runs
          MaxFaults         \* bound on failures of the file system and of SQLite

VARIABLES
  m_isRunning, m_shuttingDown, m_taskQueue, m_nextRequestId, m_mailbox,
  worker, current, joining, starts, exits, lastTaken, delivered

VARIABLES
  m_graph,                  \* the entries in memory, by id
  m_vectorBackfillComplete,
  storeOpen,                \* the worker could open the vector database
  work                      \* how far the worker is with the current task

VARIABLES                   \* what survives the process
  file,                     \* graph.json
  vectors,                  \* the content each stored vector was computed from
  exportFile                \* the file of exports and imports

VARIABLES                   \* observations and bounds
  unsaved,                  \* the last save or load failed
  loaded,                   \* graph.json at the start: read, copied because it could not be
                            \* parsed, or left unread because it could not be opened
  forgotten,                \* the request that forgot an entry in this process
  crashes, faults

threadVars == <<m_isRunning, m_shuttingDown, m_taskQueue, m_nextRequestId, m_mailbox,
                worker, current, joining, starts, exits, lastTaken, delivered>>
diskVars == <<file, vectors, exportFile>>
observed == <<unsaved, loaded, forgotten>>
bounds == <<crashes, faults>>
vars == <<threadVars, m_graph, m_vectorBackfillComplete, storeOpen, work, diskVars,
          observed, bounds>>

Owner == Pet \cup {Global}
Entry == [content : Content, owner : Owner, active : BOOLEAN]
NoGraph == <<>>
KeyOf == [t \in Task |-> IF t.action \in {"retrieve", "list"} THEN t.pet ELSE NoKey]

Threads == INSTANCE MemoryTaskQueue WITH Key <- Pet, Value <- {}

MemoryId == ({"mem"} \X Nat) \cup ({"mem_consolidated"} \X Nat \X Nat)

\* A candidate as MemoryConsolidator has parsed it.
MemoryCandidate ==
  [content : Content, scope : {"pet", Global},
   relation : {"none", "supersedes", "conflicts"}, related : MemoryId \cup {None}]

\* What a retrieval hands out of an entry.
Memory == [id : MemoryId, entry : Entry]

\* A task carries what its operation reads; None is neither a request nor a result.
ASSUME MemoryAssumption ==
  /\ Threads!TaskQueueAssumption
  /\ None \notin [requestId : Nat \ {0}, task : Task]
  /\ None \notin [requestId : Nat \ {0}, value : {"entries"} \cup SUBSET Memory]
  /\ \A t \in Task :
       /\ t.pet \in Pet
       /\ t.action \in {"store", "update"} => t.content \in Content
       /\ t.action = "consolidate" => t.candidates \in Seq(MemoryCandidate)

-----------------------------------------------------------------------------
(* The graph *)

\* A task runs for one pet; a Global entry has no pet of its own.
OwnerOf(t) == IF t.scope = Global THEN Global ELSE t.pet
SeesAlso(id, pet) == m_graph[id].owner \in {Global, pet}

AlsoInactive(pet) == {id \in DOMAIN m_graph : SeesAlso(id, pet)}
OfAnyPet(pets) == {id \in DOMAIN m_graph : m_graph[id].active}
VisibleTo(pet) == {id \in DOMAIN m_graph : m_graph[id].active /\ SeesAlso(id, pet)}

\* MemoryGraph::AddEntry refuses an id that is taken, also by an inactive entry.
CanAdd(g, id) == id \notin DOMAIN g
AddEntry(g, id, content, owner) ==
  [x \in DOMAIN g \cup {id} |->
     IF x = id THEN [content |-> content, owner |-> owner, active |-> TRUE] ELSE g[x]]

SoftDelete(g, ids) == [x \in DOMAIN g |-> [g[x] EXCEPT !.active = @ /\ x \notin ids]]

StoreId(request) == <<"mem", request.requestId>>
ConsolidatedId(request, i) == <<"mem_consolidated", request.requestId, i>>

Entries(ids) == {[id |-> id, entry |-> m_graph[id]] : id \in ids}

-----------------------------------------------------------------------------
(* Shared pieces of the worker's steps *)

Idle == [stage |-> "none", ops |-> <<>>, result |-> None]
WriteVec(id) == <<"write", id>>
RemoveVec(id) == <<"remove", id>>
Clear == <<"clear", None>>
Writes(ids) == [i \in 1..Cardinality(ids) |-> WriteVec(SetToSeq(ids)[i])]
Removes(ids) == [i \in 1..Cardinality(ids) |-> RemoveVec(SetToSeq(ids)[i])]

Doing(action) == work.stage = "start" /\ current.task.action = action

\* The graph changed: save it, then do `ops' to the vectors.
ChangedUnsaved(ops, result) == work' = [stage |-> "end", ops |-> <<>>, result |-> result]
Changed(ops, result) == work' = [stage |-> "save", ops |-> ops, result |-> result]
Unchanged(result) == work' = [stage |-> "end", ops |-> <<>>, result |-> result]

OnlyGraph == UNCHANGED <<threadVars, storeOpen, diskVars, unsaved, loaded, bounds>>

MayFault == faults < MaxFaults /\ faults' = faults + 1
NoFault == UNCHANGED faults

-----------------------------------------------------------------------------
(* The worker thread: one task *)

BeginTask ==
  /\ Threads!BeginTask
  /\ work' = [Idle EXCEPT !.stage = "start"]
  /\ UNCHANGED <<m_graph, m_vectorBackfillComplete, storeOpen, diskVars, observed, bounds>>

(***************************************************************************)
(* BackfillMissingVectors writes the vectors of active entries that have   *)
(* none, as far as the embedder succeeds.                                  *)
(***************************************************************************)
Missing == {id \in DOMAIN m_graph : m_graph[id].active /\ id \notin DOMAIN vectors}

WithVectors(ids) ==
  [x \in DOMAIN vectors \cup ids |-> IF x \in ids THEN m_graph[x].content ELSE vectors[x]]

BackfillDone(written) == written = Missing

Backfill ==
  \/ UNCHANGED <<vectors, m_vectorBackfillComplete>>     \* done, or no embedder
  \/ /\ ~m_vectorBackfillComplete /\ storeOpen
     /\ \E written \in SUBSET Missing :
          /\ vectors' = WithVectors(written)
          /\ m_vectorBackfillComplete' = BackfillDone(written)

(***************************************************************************)
(* CascadeRetrieve finds some of the visible entries: by trigger, vector,  *)
(* keyword or edge, at most WORKER_SEARCH_LIMIT of them.  Maintenance then *)
(* may deactivate duplicates and weak entries of any pet; only deletions   *)
(* are kept of it, but the graph is saved for its other changes too.       *)
(***************************************************************************)
Retrieve ==
  /\ Doing("retrieve")
  /\ Backfill
  /\ \E found \in SUBSET VisibleTo(current.task.pet), removed \in SUBSET OfAnyPet(Pet) :
       /\ m_graph' = SoftDelete(m_graph, removed)
       /\ \/ Changed(Removes(removed), Entries(found))
          \/ removed = {} /\ Unchanged(Entries(found))
  /\ UNCHANGED <<threadVars, storeOpen, file, exportFile, observed, bounds>>

List ==
  /\ Doing("list")
  /\ Unchanged(Entries(VisibleTo(current.task.pet)))
  /\ UNCHANGED <<m_graph, m_vectorBackfillComplete, forgotten>> /\ OnlyGraph

Store ==
  LET t == current.task
      id == StoreId(current)
  IN /\ Doing("store")
     /\ \/ /\ CanAdd(m_graph, id)
           /\ m_graph' = AddEntry(m_graph, id, t.content, OwnerOf(t))
           /\ Changed(<<WriteVec(id)>>, None)
        \/ ~CanAdd(m_graph, id) /\ Unchanged(None) /\ UNCHANGED m_graph
     /\ UNCHANGED <<m_vectorBackfillComplete, forgotten>> /\ OnlyGraph

(***************************************************************************)
(* Forget names an entry, or matches keywords: then any visible entries.   *)
(* An entry that is inactive already is saved again.                       *)
(***************************************************************************)
ForgetTargets(t) ==
  IF t.id # None
  THEN {IF t.id \in DOMAIN m_graph /\ SeesAlso(t.id, t.pet) THEN {t.id} ELSE {}}
  ELSE SUBSET VisibleTo(t.pet)

Forget ==
  /\ Doing("forget")
  /\ \E ids \in ForgetTargets(current.task) :
       /\ m_graph' = SoftDelete(m_graph, ids)
       /\ forgotten' = [x \in DOMAIN forgotten \cup ids |->
                          IF x \in ids THEN current.requestId ELSE forgotten[x]]
       /\ IF ids = {} THEN Unchanged(None) ELSE Changed(Removes(ids), None)
  /\ UNCHANGED m_vectorBackfillComplete /\ OnlyGraph

\* Tag and Feedback change only what is abstracted here; they save if they change anything.
Touch ==
  /\ Doing("touch")
  /\ Changed(<<>>, None) \/ Unchanged(None)
  /\ UNCHANGED <<m_graph, m_vectorBackfillComplete, forgotten>> /\ OnlyGraph

UpdatedActive(t) == [content |-> t.content, owner |-> OwnerOf(t), active |-> TRUE]
Updated(t) == [content |-> t.content, owner |-> OwnerOf(t), active |-> m_graph[t.id].active]

\* The old vector is removed before the new one is written.
RefreshVector(id) == <<RemoveVec(id), WriteVec(id)>>

Update ==
  LET t == current.task
      found == t.id \in DOMAIN m_graph /\ SeesAlso(t.id, t.pet)
  IN /\ Doing("update")
     /\ \/ found /\ m_graph' = [m_graph EXCEPT ![t.id] = Updated(t)]
                 /\ Changed(RefreshVector(t.id), None)
        \/ ~found /\ Unchanged(None) /\ UNCHANGED m_graph
     /\ UNCHANGED <<m_vectorBackfillComplete, forgotten>> /\ OnlyGraph

(***************************************************************************)
(* ConsolidateCandidates goes through the candidates of the LLM in order.  *)
(* One that relates to an entry needs that entry active, with the same     *)
(* owner; one like an active entry of the same owner only strengthens it.  *)
(***************************************************************************)
Related(g, c, owner) ==
  c.relation # "none" => c.related \in DOMAIN g /\ g[c.related].active
                                                /\ g[c.related].owner = owner

Similar(g, c, owner) ==
  \E id \in DOMAIN g : g[id] = [content |-> c.content, owner |-> owner, active |-> TRUE]

Consolidated(acc, i) ==
  LET c == current.task.candidates[i]
      owner == OwnerOf([scope |-> c.scope, pet |-> current.task.pet])
      id == ConsolidatedId(current, i)
      alike == c.relation = "none" /\ Similar(acc.graph, c, owner)
      gone == IF c.relation = "supersedes" THEN {c.related} ELSE {}
  IN IF ~Related(acc.graph, c, owner) \/ (~alike /\ ~CanAdd(acc.graph, id)) THEN acc
     ELSE IF alike THEN [acc EXCEPT !.changed = TRUE]
     ELSE [graph |-> SoftDelete(AddEntry(acc.graph, id, c.content, owner), gone),
           changed |-> TRUE, new |-> acc.new \cup {id},
           superseded |-> acc.superseded \cup gone]

\* What the first i candidates have made of the graph.
AfterCandidates ==
  LET after[i \in 0..Len(current.task.candidates)] ==
        IF i = 0
        THEN [graph |-> m_graph, changed |-> FALSE, new |-> {}, superseded |-> {}]
        ELSE Consolidated(after[i - 1], i)
  IN after

Consolidate ==
  /\ Doing("consolidate")
  /\ LET all == AfterCandidates[Len(current.task.candidates)]
     IN /\ m_graph' = all.graph
        /\ IF all.changed
           THEN Changed(Writes(all.new) \o Removes(all.superseded), None)
           ELSE Unchanged(None)
  /\ UNCHANGED <<m_vectorBackfillComplete, forgotten>> /\ OnlyGraph

Export ==
  /\ Doing("export")
  /\ Unchanged(None)
  /\ \/ exportFile' = m_graph /\ NoFault
     \/ UNCHANGED exportFile /\ MayFault
  /\ UNCHANGED <<threadVars, m_graph, m_vectorBackfillComplete, storeOpen, file, vectors,
                 observed, crashes>>

\* The imported graph is saved before it replaces the graph in memory.
Import ==
  /\ Doing("import")
  /\ \/ exportFile # None /\ Changed(<<>>, None)
     \/ exportFile = None /\ Unchanged(None)
  /\ UNCHANGED <<m_graph, m_vectorBackfillComplete, forgotten>> /\ OnlyGraph

Importing == current.task.action = "import"

ImportOverVectors ==
  IF storeOpen THEN Writes({id \in DOMAIN exportFile : exportFile[id].active}) ELSE <<>>
ImportOps ==
  IF storeOpen
  THEN <<Clear>> \o Writes({id \in DOMAIN exportFile : exportFile[id].active})
  ELSE <<>>

AlwaysMoreOps(ops) == [work EXCEPT !.ops = ops, !.stage = "vectors"]
AfterOps(ops) == [work EXCEPT !.ops = ops, !.stage = IF ops = <<>> THEN "end" ELSE "vectors"]

SaveSucceeds ==
  /\ work.stage = "save"
  /\ unsaved' = FALSE /\ loaded' = "read"
  /\ IF Importing
     THEN /\ file' = exportFile /\ m_graph' = exportFile
          /\ m_vectorBackfillComplete' = FALSE
          /\ forgotten' = <<>>
          /\ work' = AfterOps(ImportOps)
     ELSE /\ file' = m_graph
          /\ work' = AfterOps(work.ops)
          /\ UNCHANGED <<m_graph, m_vectorBackfillComplete, forgotten>>
  /\ UNCHANGED <<threadVars, storeOpen, vectors, exportFile, bounds>>

\* Update, Consolidate and Import stop here; the others go on to the vectors.
GivesUp == current.task.action \in {"update", "consolidate", "import"}

SaveFails ==
  /\ work.stage = "save" /\ MayFault
  /\ unsaved' = (unsaved \/ ~Importing)
  /\ work' = AfterOps(IF GivesUp THEN <<>> ELSE work.ops)
  /\ UNCHANGED <<threadVars, m_graph, m_vectorBackfillComplete, storeOpen, diskVars,
                 loaded, forgotten, crashes>>

(***************************************************************************)
(* TryWriteVector fails when the database is not open or the embedder is   *)
(* not ready; then the entry is left to the next backfill.                 *)
(***************************************************************************)
AfterFailedWrite == FALSE

WriteVector ==
  /\ work.stage = "vectors" /\ work.ops # <<>> /\ work.ops[1][1] = "write"
  /\ \/ /\ storeOpen /\ vectors' = WithVectors({work.ops[1][2]})
        /\ UNCHANGED m_vectorBackfillComplete
     \/ UNCHANGED vectors /\ m_vectorBackfillComplete' = AfterFailedWrite
  /\ work' = AfterOps(Tail(work.ops))
  /\ UNCHANGED <<threadVars, m_graph, storeOpen, file, exportFile, observed,
                 bounds>>

Dropped == IF work.ops[1] = Clear THEN DOMAIN vectors ELSE {work.ops[1][2]}

DropVectors ==
  /\ work.stage = "vectors" /\ work.ops # <<>> /\ work.ops[1][1] # "write"
  /\ \/ /\ storeOpen /\ NoFault
        /\ vectors' = [x \in DOMAIN vectors \ Dropped |-> vectors[x]]
     \/ ~storeOpen /\ NoFault /\ UNCHANGED vectors
     \/ storeOpen /\ MayFault /\ UNCHANGED vectors
  /\ work' = AfterOps(Tail(work.ops))
  /\ UNCHANGED <<threadVars, m_graph, m_vectorBackfillComplete, storeOpen, file,
                 exportFile, observed, crashes>>

EndTask ==
  /\ work.stage = "end"
  /\ Threads!EndTask(work.result)
  /\ work' = Idle
  /\ UNCHANGED <<m_graph, m_vectorBackfillComplete, storeOpen, diskVars, observed, bounds>>

-----------------------------------------------------------------------------
(* The main thread and the process *)

Rest == <<m_graph, m_vectorBackfillComplete, storeOpen, work, diskVars, observed, bounds>>

EnqueueTask(t) == Threads!EnqueueTask(t) /\ UNCHANGED Rest
TakeLatestReadyResult(pet) == Threads!TakeLatestReadyResult(pet) /\ UNCHANGED Rest
BeginShutdown == Threads!BeginShutdown /\ UNCHANGED Rest
EndShutdown == Threads!EndShutdown /\ UNCHANGED Rest
Sleep == (Threads!WaitForTask \/ Threads!SpuriousWakeup) /\ UNCHANGED Rest
ExitLoop == Threads!ExitLoop /\ UNCHANGED Rest

(***************************************************************************)
(* Load: a file that cannot be opened gives an empty graph, one that       *)
(* cannot be parsed gives an empty graph and a copy of the file.           *)
(***************************************************************************)
LoadSucceeds ==
  m_graph' = file /\ unsaved' = FALSE /\ loaded' = "read" /\ NoFault

LoadFails ==
  /\ file # NoGraph /\ MayFault
  /\ m_graph' = NoGraph /\ unsaved' = TRUE /\ loaded' \in {"copied", "unread"}

Start ==
  /\ Threads!Start
  /\ LoadSucceeds \/ LoadFails
  /\ m_vectorBackfillComplete' = FALSE
  /\ storeOpen' \in IF faults < MaxFaults THEN BOOLEAN ELSE {TRUE}
  /\ forgotten' = <<>>
  /\ UNCHANGED <<work, file, vectors, exportFile, crashes>>

\* The process ends after a shutdown, or is killed at any time; either way its memory is gone.
ProcessEnds ==
  /\ Threads!ProcessEnds
  /\ \/ worker = "none" /\ UNCHANGED crashes
     \/ worker # "none" /\ crashes < MaxCrashes /\ crashes' = crashes + 1
  /\ m_graph' = NoGraph /\ m_vectorBackfillComplete' = FALSE /\ storeOpen' = FALSE
  /\ work' = Idle
  /\ unsaved' = FALSE /\ loaded' = "read" /\ forgotten' = <<>>
  /\ UNCHANGED <<diskVars, faults>>

Init ==
  /\ Threads!Init
  /\ m_graph = NoGraph /\ m_vectorBackfillComplete = FALSE /\ storeOpen = FALSE
  /\ work = Idle
  /\ file = NoGraph /\ vectors = NoGraph /\ exportFile = None
  /\ unsaved = FALSE /\ loaded = "read" /\ forgotten = <<>>
  /\ crashes = 0 /\ faults = 0

TaskStep ==
  \/ Retrieve \/ List \/ Store \/ Forget \/ Touch \/ Update \/ Consolidate
  \/ Export \/ Import
  \/ SaveSucceeds \/ SaveFails \/ WriteVector \/ DropVectors \/ EndTask

Next ==
  \/ BeginTask \/ TaskStep \/ Sleep \/ ExitLoop
  \/ \E t \in Task : EnqueueTask(t)
  \/ \E pet \in Pet : TakeLatestReadyResult(pet)
  \/ BeginShutdown \/ EndShutdown \/ Start \/ ProcessEnds

(***************************************************************************)
(* Both threads are scheduled: a task that was begun goes on, the worker   *)
(* looks at its queue, and Shutdown returns when the worker has.           *)
(***************************************************************************)
Fairness ==
  /\ WF_vars(BeginTask \/ TaskStep \/ ExitLoop \/ (Threads!WaitForTask /\ UNCHANGED Rest))
  /\ WF_vars(EndShutdown)

Spec == Init /\ [][Next]_vars /\ Fairness

-----------------------------------------------------------------------------
(* Properties *)

Graphs(g) == \A id \in DOMAIN g : g[id] \in Entry

TypeOK ==
  /\ Graphs(m_graph) /\ Graphs(file) /\ (exportFile = None \/ Graphs(exportFile))
  /\ \A id \in DOMAIN vectors : vectors[id] \in Content
  /\ work.stage \in {"none", "start", "save", "vectors", "end"}
  /\ (work.stage = "none") <=> (current = None)
  /\ \A pet \in Pet : m_mailbox[pet] # None =>
       \A e \in m_mailbox[pet].value : e.entry \in Entry

BetweenTasks == worker \in {"looking", "waiting", "exited"}

(***************************************************************************)
(* Between two tasks graph.json holds what is in memory, unless the last   *)
(* save or load failed: no operation forgets to save, and a failed import  *)
(* changes neither.                                                        *)
(***************************************************************************)
FileIsGraph == BetweenTasks /\ ~unsaved => file = m_graph

(***************************************************************************)
(* Between two tasks the vector of an active entry is that of its present  *)
(* content, and when the service believes its vectors complete no active   *)
(* entry lacks one: a retrieval by meaning finds what the memory says now. *)
(***************************************************************************)
VectorsAreCurrent ==
  BetweenTasks =>
    \A id \in DOMAIN vectors \cap DOMAIN m_graph :
      m_graph[id].active => vectors[id] = m_graph[id].content
BackfillIsHonest == BetweenTasks /\ m_vectorBackfillComplete => Missing = {}
VectorsMatchGraph == TypeOK /\ VectorsAreCurrent /\ BackfillIsHonest

\* A pet is never handed the private memory of another pet.
PetsArePrivate ==
  \A pet \in Pet : m_mailbox[pet] # None =>
    \A e \in m_mailbox[pet].value : e.entry.owner \in {Global, pet}

\* What was forgotten is in no result of a later request.
ForgottenIsNotRetrieved ==
  \A pet \in Pet : m_mailbox[pet] # None =>
    \A e \in m_mailbox[pet].value :
      e.id \in DOMAIN forgotten => m_mailbox[pet].requestId < forgotten[e.id]

(***************************************************************************)
(* An entry that graph.json holds as forgotten comes back by an import     *)
(* only, or when the file could not be loaded.                             *)
(***************************************************************************)
ForgottenStaysForgotten ==
  [][loaded = "read" /\ file' # exportFile =>
       \A id \in DOMAIN file : ~file[id].active =>
         id \in DOMAIN file' /\ ~file'[id].active]_vars

(***************************************************************************)
(* With what the worker does for a task the two threads still behave as    *)
(* MemoryTaskQueue says, so that its theorems hold here: nothing is        *)
(* dropped, shutdown drains the queue, results only get newer.             *)
(***************************************************************************)
Protocol == INSTANCE MemoryTaskQueue WITH
  Key <- Pet, Value <- {"entries"},
  m_mailbox <- [k \in Pet |->
                  IF m_mailbox[k] = None THEN None
                  ELSE [requestId |-> m_mailbox[k].requestId, value |-> "entries"]]
ImplementsThreads == Protocol!Spec

(***************************************************************************)
(* An accepted memory is given an id that no entry has: AddEntry does not  *)
(* turn it down after the user was told that it is remembered.             *)
(***************************************************************************)
StoreIsAdded == Doing("store") => CanAdd(m_graph, StoreId(current))

\* A graph.json that could not be read is not overwritten unless a copy was kept.
UnreadFileIsKept == [][loaded = "unread" => file' = file]_vars

=============================================================================
