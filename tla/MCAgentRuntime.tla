--------------------------- MODULE MCAgentRuntime ---------------------------
(***************************************************************************)
(* The runtime over small graphs: the default DAG with a source per        *)
(* trigger, two parallel requests into a join, one request, timeouts that  *)
(* are refused when the request is registered, and a DAG no user input can *)
(* start.                                                                  *)
(***************************************************************************)
EXTENDS AgentRuntime

CONSTANTS a, b, c, d, f1

MCNode == {a, b, c, d}

Dag(nodes, edges, trigger, kind) ==
  [nodes |-> nodes, edges |-> edges,
   trigger |-> [n \in nodes |-> IF n \in DOMAIN trigger THEN trigger[n] ELSE Absent],
   kind |-> [n \in nodes |-> kind[n]],
   badTimeout |-> {},
   rank |-> [n \in nodes |-> CASE n = a -> 1 [] n = b -> 2 [] n = c -> 3 [] n = d -> 4]]

PerNode(x, y, z) ==
  [n \in MCNode |-> CASE n = a -> x [] n = b -> y [] n = c -> z [] n = d -> "output"]
Untriggered == [n \in {} |-> Absent]
PerTrigger == [n \in {a, b} |-> IF n = a THEN "user" ELSE "vision"]

\* agent_dag_structure.json without the nodes that finish at once
Default == Dag(MCNode, {<<a, c>>, <<b, c>>, <<c, d>>}, PerTrigger,
               PerNode("web", "vision", "stream"))
\* both triggers start a chat and a web.research, joined at the output node
Parallel == Dag({a, b, d}, {<<a, d>>, <<b, d>>}, Untriggered,
                PerNode("stream", "web", "plain"))
\* tool.loop
Single == Dag({a, d}, {<<a, d>>}, Untriggered, PerNode("tool", "plain", "plain"))
BadWeb == [Parallel EXCEPT !.badTimeout = {b}]
\* frames start nothing here
BadChat == [Parallel EXCEPT !.badTimeout = {a},
                            !.trigger = [n \in {a, b, d} |-> IF n = d THEN Absent ELSE "user"]]
\* no source takes user inputs
VisionOnly == Dag({b, d}, {<<b, d>>}, [n \in {b} |-> "vision"],
                  PerNode("plain", "vision", "plain"))

\* The graphs each run may load and reload.
Mixed == {Parallel, BadWeb, BadChat, VisionOnly}
OnlySingle == {Single}
OnlyDefault == {Default}
Swapped == {Single, VisionOnly}
SingleAndDefault == {Single, Default}
OneFrame == {f1}

=============================================================================
