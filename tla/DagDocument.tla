----------------------------- MODULE DagDocument -----------------------------
(***************************************************************************)
(* Two readers of one file: the DAG editor (DagDocument, AgentDagValidator *)
(* with the AgentNodeCatalog) decides what is saved, the runtime           *)
(* (AgentDagGraph, the handlers of the nodes) what it runs.  They share no *)
(* code, so each of their rules is written down here on its own.           *)
(*                                                                         *)
(* Numbers are counted in halves, so that some of them are not integers.   *)
(***************************************************************************)
EXTENDS Integers, Sequences

CONSTANTS Body,      \* the request bodies, or files, that come in
          MaxInt,    \* stands for the largest int, 2^31 - 1
          MaxInteger \* stands for the largest qint64, 2^63 - 1

VARIABLES
  body,       \* what came in, or <<>>
  document,   \* m_document: its nodes and edges
  issues,     \* of the validator
  stage       \* how far the body got

vars == <<body, document, issues, stage>>

-----------------------------------------------------------------------------
(* JSON values, and what Qt makes of them *)

Text(w) == [word |-> w, padded |-> FALSE, upper |-> FALSE]
Blank == Text("")
Trimmed(t) == [t EXCEPT !.padded = FALSE]
IsEmpty(t) == Trimmed(t) = Blank

Null == [kind |-> "null", number |-> 0, text |-> Blank, items |-> {}]
Number(n) == [Null EXCEPT !.kind = "number", !.number = n]
String(t) == [Null EXCEPT !.kind = "string", !.text = t]
Array(s) == [Null EXCEPT !.kind = "array", !.items = s]

\* QJsonValue::toString, toInt and toInteger: a default for anything else, which a number
\* that is not whole or has more than 32 or 64 bits is too.
StringOf(v) == IF v.kind = "string" THEN v.text ELSE Blank
IsWhole(v, most) ==
  v.kind = "number" /\ v.number % 2 = 0 /\ -2 * (most + 1) <= v.number /\ v.number <= 2 * most
ToInt(v, default) == IF IsWhole(v, MaxInt) THEN v.number ELSE default
ToInteger(v, default) == IF IsWhole(v, MaxInteger) THEN v.number ELSE default

-----------------------------------------------------------------------------
(* AgentNodeCatalog: what may be written in the config of a node *)

Input(widget, min, max, values) ==
  [widget |-> widget, min |-> 2 * min, max |-> 2 * max, hasMax |-> TRUE, values |-> values]
Whole(min, max) == Input("int", min, max, {})
AtLeast(min) == [Whole(min, min) EXCEPT !.hasMax = FALSE]     \* no maxValue
Fraction(min, max) == Input("float", min, max, {})
Flag == Input("bool", 0, 0, {})
Names == Input("string_list", 0, 0, {})
Words == Input("text", 0, 0, {})
Enum(values) == Input("enum", 0, 0, values)

AsyncTimeout == Whole(1, 600000)
SourceInputs == [trigger |-> Enum({"user", "vision"})]
VisionLlmInputs ==
  [prompt |-> Words, detail |-> Enum({"auto", "low", "high"}),
   max_tokens |-> AtLeast(1), async_timeout_ms |-> AsyncTimeout]
ProactiveTopicInputs ==
  [enabled |-> Flag, instruction |-> Words,
   min_interval_ms |-> AtLeast(0), dedup_window_ms |-> AtLeast(0)]
WebResearchInputs ==
  [mode |-> Enum({"auto", "explicit"}), failure_policy |-> Enum({"continue", "fail"}),
   max_search_rounds |-> Whole(1, 3), max_queries_per_round |-> Whole(1, 2),
   max_total_results |-> Whole(1, 8), max_context_chars |-> Whole(1, 6000),
   total_deadline_ms |-> Whole(1, 15000), async_timeout_ms |-> AsyncTimeout,
   require_citations_for_realtime_claims |-> Flag,
   require_independent_sources_for_high_impact_claims |-> Flag, engines |-> Names]
ToolLoopInputs ==
  [tools |-> Names, max_rounds |-> Whole(1, 16), time_budget_ms |-> Whole(0, 600000),
   max_tool_calls |-> Whole(1, 64), tool_timeout_ms |-> Whole(100, 120000),
   permission |-> Enum({"auto_readonly", "allow_all", "ask"}),
   on_budget_exhausted |-> Enum({"answer_with_context", "end"}),
   fallback |-> Enum({"plain_chat", "fail"}), async_timeout_ms |-> AsyncTimeout]
LlmChatInputs ==
  [temperature |-> Fraction(0, 2), top_p |-> Fraction(0, 1), frequency_penalty |-> Fraction(-2, 2),
   presence_penalty |-> Fraction(-2, 2), max_tokens |-> Whole(1, 32768), stream |-> Flag,
   async_timeout_ms |-> AsyncTimeout]
NoInputs == [k \in {} |-> Flag]

\* RegisterDefaultNodeSpecs.  No input of the default catalog is required.
Sources == {"user.input", "vision.input"}
NodeTypes ==
  Sources \cup {"vision.llm", "proactive.topic", "web.research", "tool.loop", "llm.chat",
                "memory.retrieve", "memory.store", "emotion.rewrite", "output.format"}
InputsOf(type) ==
  CASE type \in Sources -> SourceInputs
    [] type = "vision.llm" -> VisionLlmInputs
    [] type = "proactive.topic" -> ProactiveTopicInputs
    [] type = "web.research" -> WebResearchInputs
    [] type = "tool.loop" -> ToolLoopInputs
    [] type = "llm.chat" -> LlmChatInputs
    [] OTHER -> NoInputs
Catalog == [type \in NodeTypes |-> InputsOf(type)]
\* Find
IsKnown(type) == type = Text(type.word) /\ type.word \in DOMAIN Catalog
BuiltinTools == {"web.search", "memory.search", "screen.describe"}

-----------------------------------------------------------------------------
(* DagDocument: from JSON and back *)

\* FromJsonObject with ParseNode: the nodes and edges are arrays of objects, ids and
\* types are given and no id twice; a config that is no object is left out.
ConfigOf(n) == IF n.config = "object" THEN n.settings ELSE NoInputs
ParsesAsDocument(b) ==
  /\ b.arrays
  /\ \A i \in DOMAIN b.nodes :
       /\ b.nodes[i].form = "object" /\ ~IsEmpty(b.nodes[i].id) /\ ~IsEmpty(b.nodes[i].type)
       /\ \A j \in 1..(i - 1) : Trimmed(b.nodes[j].id) # Trimmed(b.nodes[i].id)
  /\ \A i \in DOMAIN b.edges :
       b.edges[i].form = "object" /\ ~IsEmpty(b.edges[i].from) /\ ~IsEmpty(b.edges[i].to)
ParseNode(n) == [id |-> Trimmed(n.id), type |-> Trimmed(n.type), config |-> ConfigOf(n)]
ParseEdge(e) == [from |-> Trimmed(e.from), to |-> Trimmed(e.to)]
FromJsonObject(b) ==
  [nodes |-> [i \in DOMAIN b.nodes |-> ParseNode(b.nodes[i])],
   edges |-> [i \in DOMAIN b.edges |-> ParseEdge(b.edges[i])]]

\* The layout and the fields it does not know are of no interest to the runtime.
ToJsonObject(d) ==
  [arrays |-> TRUE,
   nodes |-> [i \in DOMAIN d.nodes |->
     [form |-> "object", id |-> d.nodes[i].id, type |-> d.nodes[i].type,
      config |-> "object", settings |-> d.nodes[i].config]],
   edges |-> [i \in DOMAIN d.edges |->
     [form |-> "object", from |-> d.edges[i].from, to |-> d.edges[i].to]]]

-----------------------------------------------------------------------------
(* AgentDagValidator *)

Issue(severity, id, code) == [severity |-> severity, id |-> id, code |-> code]
ErrorIf(cond, id, code) == IF cond THEN {Issue("error", id, code)} ELSE {}
WarningIf(cond, id, code) == IF cond THEN {Issue("warning", id, code)} ELSE {}

\* ValidateNodeConfig: a missing value and null are fine.
WrongType(in, v) ==
  CASE in.widget \in {"int", "float"} -> v.kind # "number"
    [] in.widget = "bool" -> v.kind # "bool"
    [] in.widget = "enum" -> FALSE
    [] in.widget = "string_list" -> v.kind \notin {"array", "string"}
    [] in.widget = "text" -> v.kind # "string"
OutOfRange(in, v) ==
  /\ in.widget \in {"int", "float"} /\ v.kind = "number"
  /\ v.number < in.min \/ (in.hasMax /\ v.number > in.max)
NoSuchChoice(in, v) == in.widget = "enum" /\ StringOf(v).word \notin in.values
ValueIssues(n, key) ==
  LET in == Catalog[n.type.word][key]
      v == n.config[key]
  IN ErrorIf(WrongType(in, v), n.id, "invalid_value_type")
     \cup ErrorIf(OutOfRange(in, v), n.id, "value_out_of_range")
     \cup ErrorIf(NoSuchChoice(in, v), n.id, "invalid_enum_value")
ValidateNodeConfig(n) ==
  UNION {ValueIssues(n, key) :
         key \in {k \in DOMAIN Catalog[n.type.word] \cap DOMAIN n.config : n.config[k] # Null}}

Setting(n, key) == IF key \in DOMAIN n.config THEN n.config[key] ELSE Null
UnknownTool(n) ==
  n.type.word = "tool.loop"
  /\ \E t \in Setting(n, "tools").items : t \notin {Text(w) : w \in BuiltinTools}
NodeIssues(n) ==
  IF ~IsKnown(n.type) THEN {Issue("error", n.id, "unknown_type")}
  ELSE ValidateNodeConfig(n)
       \cup ErrorIf(UnknownTool(n), n.id, "unknown_tool")
       \cup WarningIf(~IsEmpty(StringOf(Setting(n, "trigger"))) /\ n.type.word \notin Sources,
                      n.id, "trigger_on_non_source")

IdsOf(d) == {d.nodes[i].id : i \in DOMAIN d.nodes}
EdgesAlone(d, i) ==
  LET e == d.edges[i] IN
  ErrorIf({e.from, e.to} \ IdsOf(d) # {}, e.from, "edge_references_missing_node")
  \cup ErrorIf(e.from = e.to, e.from, "self_loop")
EdgeIssues(d, i) ==
  EdgesAlone(d, i)
  \cup ErrorIf(\E j \in 1..(i - 1) : d.edges[j] = d.edges[i], d.edges[i].from, "duplicate_edge")

\* What Kahn's algorithm leaves: nodes that each have a predecessor among them.
Edges(d) == {d.edges[i] : i \in DOMAIN d.edges}
CycleDetected(d) ==
  \E S \in SUBSET IdsOf(d) \ {{}} :
    \A n \in S : \E e \in Edges(d) : e.to = n /\ e.from \in S \ {n}

Incoming(d, n) == {i \in DOMAIN d.edges : d.edges[i].to = n.id}
Outgoing(d, n) == {i \in DOMAIN d.edges : d.edges[i].from = n.id}
Hints(d, n) ==
  WarningIf(Incoming(d, n) \cup Outgoing(d, n) = {}, n.id, "orphan_node")
  \cup WarningIf((\E i, j \in Incoming(d, n) : i # j) /\ "merge" \notin DOMAIN n.config,
                 n.id, "join_without_merge_policy")

NodesIssues(d) == UNION {NodeIssues(d.nodes[i]) \cup Hints(d, d.nodes[i]) : i \in DOMAIN d.nodes}
EdgesIssues(d) == UNION {EdgeIssues(d, i) : i \in DOMAIN d.edges}
Validate(d) ==
  IF d.nodes = <<>> THEN {Issue("error", Blank, "empty_graph")}
  ELSE NodesIssues(d) \cup EdgesIssues(d)
       \cup ErrorIf(CycleDetected(d), Blank, "cycle_detected")
HasErrors(found) == \E i \in found : i.severity = "error"

-----------------------------------------------------------------------------
(* AgentDagGraph: what the runtime loads *)

\* ParseNode: a string is the id and the type of a node.
LoadedNode(n) ==
  IF n.form = "string" THEN [id |-> Trimmed(n.id), type |-> Trimmed(n.id), config |-> NoInputs]
  ELSE [id |-> Trimmed(n.id), type |-> Trimmed(n.type), config |-> ConfigOf(n)]
\* LoadFromJsonData with AddNode, AddEdge and TopologicalSort
LoadsNodes(b) ==
  /\ b.nodes # <<>>
  /\ \A i \in DOMAIN b.nodes :
       /\ \/ b.nodes[i].form = "string"
          \/ b.nodes[i].form = "object" /\ b.nodes[i].config \in {"absent", "object"}
       /\ LoadedNode(b.nodes[i]).id # Blank /\ LoadedNode(b.nodes[i]).type # Blank
       /\ \A j \in 1..(i - 1) : LoadedNode(b.nodes[j]).id # LoadedNode(b.nodes[i]).id
LoadsEdges(b) ==
  \A i \in DOMAIN b.edges :
    LET e == ParseEdge(b.edges[i])
        ids == {LoadedNode(b.nodes[k]).id : k \in DOMAIN b.nodes}
    IN /\ b.edges[i].form = "object"
       /\ {e.from, e.to} \subseteq ids /\ e.from # e.to
       /\ \A j \in 1..(i - 1) : ParseEdge(b.edges[j]) # e
Graph(b) ==
  [nodes |-> [i \in DOMAIN b.nodes |-> LoadedNode(b.nodes[i])],
   edges |-> {ParseEdge(b.edges[i]) : i \in DOMAIN b.edges}]
HasCycle(g) ==
  \E S \in SUBSET {g.nodes[i].id : i \in DOMAIN g.nodes} \ {{}} :
    \A n \in S : \E e \in g.edges : e.to = n /\ e.from \in S
LoadsInRuntime(b) == b.arrays /\ LoadsNodes(b) /\ LoadsEdges(b) /\ ~HasCycle(Graph(b))

-----------------------------------------------------------------------------
(* The handlers of the nodes: a value they refuse fails the invocation *)

Given(n, keys) == keys \cap DOMAIN n.config
Within(v, default, min, max) == v.kind = "number" /\ ToInt(v, default) \in (2 * min)..(2 * max)
Chosen(v, values) == v.kind = "string" /\ v.text.word \in values

\* ToolLoopNode::ParseConfig with the tools AgentRuntime registers
ReadsToolLoop(n) ==
  LET c == n.config IN
  /\ \A k \in Given(n, {"max_rounds", "time_budget_ms", "max_tool_calls", "tool_timeout_ms"}) :
       /\ Within(c[k], -2, 0, 600000)
       /\ k = "max_rounds" => Within(c[k], 0, 1, 16)
       /\ k = "max_tool_calls" => Within(c[k], 0, 1, 64)
       /\ k = "tool_timeout_ms" => Within(c[k], 0, 100, 120000)
  /\ Given(n, {"tools"}) # {} =>
       /\ c["tools"].kind = "array"
       /\ \A t \in c["tools"].items : Trimmed(t) \in {Text(w) : w \in BuiltinTools}
  /\ Given(n, {"permission"}) # {} =>
       Chosen(c["permission"], {"auto_readonly", "allow_all", "ask"})
  /\ Given(n, {"on_budget_exhausted"}) # {} =>
       Chosen(c["on_budget_exhausted"], {"answer_with_context", "end"})
  /\ Given(n, {"fallback"}) # {} => Chosen(c["fallback"], {"plain_chat", "fail"})

\* ParseLlmRequestOptions
ReadsLlmChat(n) ==
  LET c == n.config
      Between(k, min, max) ==
        Given(n, {k}) # {} =>
          c[k].kind = "number" /\ c[k].number >= 2 * min /\ c[k].number <= 2 * max
  IN /\ Between("temperature", 0, 2) /\ Between("top_p", 0, 1)
     /\ Between("frequency_penalty", -2, 2) /\ Between("presence_penalty", -2, 2)
     /\ Given(n, {"stream"}) # {} => c["stream"].kind = "bool"
     /\ Given(n, {"max_tokens"}) # {} => Within(c["max_tokens"], 0, 1, 32768)

\* ExecuteVisionLlmNode
ReadsVisionLlm(n) ==
  /\ Given(n, {"detail"}) # {} => StringOf(n.config["detail"]).word \in {"auto", "low", "high"}
  /\ Given(n, {"max_tokens"}) # {} => Within(n.config["max_tokens"], 0, 1, MaxInt)

\* WebResearchNode::BuildRequest refuses nothing and brings a number within its limits.
ResearchLimit ==
  [max_search_rounds |-> 3, max_queries_per_round |-> 2, max_total_results |-> 8,
   max_context_chars |-> 6000, total_deadline_ms |-> 15000]
ReadBoundedInteger(v, max) ==
  LET n == ToInt(v, 2 * max) IN IF n < 2 THEN 2 ELSE IF n > 2 * max THEN 2 * max ELSE n
ReadsWebResearch(n) ==
  \A k \in Given(n, DOMAIN ResearchLimit) :
    ReadBoundedInteger(n.config[k], ResearchLimit[k]) = n.config[k].number

\* ProactiveTopicNode::IsSpeechAllowed refuses nothing either.
IntervalDefault == [min_interval_ms |-> 30000, dedup_window_ms |-> 300000]
ReadInterval(v, default) == LET t == ToInteger(v, 2 * default) IN IF t < 0 THEN 0 ELSE t
ReadsProactiveTopic(n) ==
  \A k \in Given(n, DOMAIN IntervalDefault) :
    ReadInterval(n.config[k], IntervalDefault[k]) = n.config[k].number

\* StorePendingRequest, for the nodes that wait for an answer
AsyncTimeoutUpTo(n, max) ==
  Given(n, {"async_timeout_ms"}) # {} =>
    LET t == ToInt(n.config["async_timeout_ms"], 240000) IN 2 <= t /\ t <= max
ReadsShortTimeout(n) == AsyncTimeoutUpTo(n, 240000)
ReadsAsyncTimeout(n) == AsyncTimeoutUpTo(n, 1200000)

\* SelectSourceNodes: what a source declares is compared with the trigger as it is.
ReadsTrigger(n) ==
  Given(n, {"trigger"}) # {} =>
    Trimmed(StringOf(n.config["trigger"])) \in {Blank, Text("user"), Text("vision")}

Reads(n) ==
  /\ n.type.word = "tool.loop" => ReadsToolLoop(n)
  /\ n.type.word = "llm.chat" => ReadsLlmChat(n)
  /\ n.type.word = "vision.llm" => ReadsVisionLlm(n)
  /\ n.type.word = "web.research" => ReadsWebResearch(n)
  /\ n.type.word = "proactive.topic" => ReadsProactiveTopic(n)
  /\ n.type.word \in {"tool.loop", "llm.chat", "vision.llm", "web.research"} =>
       ReadsAsyncTimeout(n)
  /\ n.type.word \in Sources => ReadsTrigger(n)

-----------------------------------------------------------------------------
(* HandlePutGraph: a body is parsed, validated and saved, then the runtime reloads. *)

NoDocument == [nodes |-> <<>>, edges |-> <<>>]
Init == body = <<>> /\ document = NoDocument /\ issues = {} /\ stage = "idle"

Receive(b) ==
  /\ stage = "idle"
  /\ body' = b
  /\ IF ParsesAsDocument(b)
     THEN document' = FromJsonObject(b) /\ stage' = "parsed"
     ELSE UNCHANGED document /\ stage' = "refused"
  /\ UNCHANGED issues

Save ==
  /\ stage = "parsed"
  /\ issues' = Validate(document)
  /\ stage' = IF HasErrors(issues') THEN "refused" ELSE "saved"
  /\ UNCHANGED <<body, document>>

Reload ==
  /\ stage = "saved"
  /\ stage' = IF LoadsInRuntime(ToJsonObject(document)) THEN "runs" ELSE "failed"
  /\ UNCHANGED <<body, document, issues>>

Next == (\E b \in Body : Receive(b)) \/ Save \/ Reload
Spec == Init /\ [][Next]_vars

-----------------------------------------------------------------------------
(***************************************************************************)
(* What the editor accepts the runtime loads, and as the nodes and edges   *)
(* the editor shows; and a file the runtime loads and the editor opens is  *)
(* the same graph to the runtime after the editor has saved it.            *)
(***************************************************************************)
SavedGraphLoads ==
  /\ stage # "failed"
  /\ stage = "runs" =>
       Graph(ToJsonObject(document)) = [nodes |-> document.nodes, edges |-> Edges(document)]
  /\ stage = "parsed" /\ LoadsInRuntime(body) => Graph(ToJsonObject(document)) = Graph(body)

(***************************************************************************)
(* A node whose values are ones the property panel can write (widgets.js), *)
(* with whole numbers in the fields of integers, is read by its handler    *)
(* without a refusal and as written, if the catalog let it pass.  The      *)
(* exception are numbers the catalog gives no maximum and the handler no   *)
(* room: max_tokens of a vision.llm beyond 32 bits passes the validator    *)
(* (agent_node_catalog.cpp:231) and fails the node                         *)
(* (agent_runtime_nodes.cpp:209).  Values of other origins - null, a       *)
(* string for a list, a half in an integer, a trigger in capitals - pass   *)
(* the validator and fail in the runtime too.                              *)
(***************************************************************************)
PanelWrites(in, v) ==
  CASE in.widget = "int" -> v.kind = "number" /\ v.number % 2 = 0
    [] in.widget = "float" -> v.kind = "number"
    [] in.widget = "bool" -> v.kind = "bool"
    [] in.widget = "enum" -> v.kind = "string" /\ v.text = Text(v.text.word)
    [] in.widget = "string_list" -> v.kind = "array"
    [] in.widget = "text" -> v.kind = "string"
HasRoom(type, in, v) ==
  in.hasMax \/ v.number <= 2 * (IF type = "vision.llm" THEN MaxInt ELSE MaxInteger)
AcceptedConfigIsRead ==
  stage = "runs" =>
    \A i \in DOMAIN document.nodes :
      LET n == document.nodes[i]
          inputs == Catalog[n.type.word]
      IN (\A k \in DOMAIN inputs \cap DOMAIN n.config :
            PanelWrites(inputs[k], n.config[k]) /\ HasRoom(n.type.word, inputs[k], n.config[k]))
         => Reads(n)
=============================================================================
