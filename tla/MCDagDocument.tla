---------------------------- MODULE MCDagDocument ----------------------------
(* Bodies for DagDocument: every small structure, and every value of every input. *)
EXTENDS DagDocument

Padded(t) == [t EXCEPT !.padded = TRUE]
Upper(t) == [t EXCEPT !.upper = TRUE]
Node(id, type, settings) ==
  [form |-> "object", id |-> id, type |-> type, config |-> "object", settings |-> settings]
Edge(from, to) == [form |-> "object", from |-> from, to |-> to]
Json(nodes, edges) == [arrays |-> TRUE, nodes |-> nodes, edges |-> edges]
UpTo2(S) == {<<>>} \cup {<<x>> : x \in S} \cup (S \X S)

a == Text("a")
b == Text("b")
c == Text("c")
Chat(id) == Node(id, Text("llm.chat"), NoInputs)
NodeForms ==
  {Chat(a), Chat(b), Chat(Padded(a)), Chat(Padded(Blank)), Node(b, Blank, NoInputs),
   Node(b, Text("unknown"), NoInputs), [Chat(b) EXCEPT !.form = "string"],
   [Chat(b) EXCEPT !.form = "other"], [Chat(b) EXCEPT !.config = "absent"],
   [Chat(b) EXCEPT !.config = "other"]}
EdgeForms ==
  {Edge(a, b), Edge(b, a), Edge(Padded(a), b), Edge(a, a), Edge(a, c), Edge(Padded(Blank), b),
   [Edge(a, b) EXCEPT !.form = "other"]}
Triangle == {Edge(a, b), Edge(b, c), Edge(c, a)}

Structures ==
  {Json(nodes, edges) : nodes \in UpTo2(NodeForms), edges \in UpTo2(EdgeForms)}
  \cup {Json(<<Chat(a), Chat(b), Chat(c)>>, edges) : edges \in Triangle \X Triangle \X Triangle}
  \cup {[Json(<<Chat(a)>>, <<>>) EXCEPT !.arrays = FALSE]}

Around(in) ==
  {in.min - 2, in.min, in.min + 1}
  \cup IF in.hasMax THEN {in.max, in.max + 2}
       ELSE {2 * MaxInt, 2 * (MaxInt + 1), 2 * MaxInteger, 2 * (MaxInteger + 1)}
Values(in) ==
  {Null, [Null EXCEPT !.kind = "bool"], String(Text("word")),
   Array({}), Array({Text("web.search")}), Array({Text("other")})}
  \cup {Number(n) : n \in Around(in)}
  \cup {String(f) : f \in UNION {{Text(w), Upper(Text(w)), Padded(Text(w))} : w \in in.values}}
SettingsOf(type) ==
  UNION {{Json(<<Node(a, Text(type), [x \in {k} |-> v])>>, <<>>) : v \in Values(Catalog[type][k])} :
         k \in DOMAIN Catalog[type]}
Settings == UNION {SettingsOf(type) : type \in DOMAIN Catalog}

MCBody == Structures \cup Settings
=============================================================================
