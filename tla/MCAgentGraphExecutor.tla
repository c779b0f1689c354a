------------------------ MODULE MCAgentGraphExecutor ------------------------
(* Small graphs for the executor: pruning by trigger, fan-out and join, a join  *)
(* fed over paths of different length, several terminals, undeclared triggers.  *)
EXTENDS AgentGraphExecutor

CONSTANTS a, b, c, d, user, vision

MCNode == {a, b, c, d}
MCTrigger == {user, vision}

Snapshot(edges, trigger) ==
  [nodes |-> MCNode, edges |-> edges,
   rank |-> [n \in MCNode |-> CASE n = a -> 2 [] n = b -> 1 [] n = c -> 4 [] n = d -> 3],
   trigger |-> trigger]

Untriggered == [n \in MCNode |-> NoTrigger]
\* two triggered sources that share the rest of the chain
Shared == Snapshot({<<a, c>>, <<b, c>>, <<c, d>>},
                   [Untriggered EXCEPT ![a] = user, ![b] = vision])
\* one source without a trigger beside a triggered one
HalfDeclared == Snapshot({<<a, c>>, <<b, c>>, <<a, d>>, <<c, d>>},
                         [Untriggered EXCEPT ![a] = user])
Diamond == Snapshot({<<a, b>>, <<a, c>>, <<b, d>>, <<c, d>>}, Untriggered)
TwoSources == Snapshot({<<a, c>>, <<b, c>>, <<a, d>>, <<c, d>>}, Untriggered)
TwoTerminals == Snapshot({<<a, b>>, <<a, c>>, <<c, d>>}, Untriggered)

MCGraph == {Shared, HalfDeclared, Diamond, TwoSources, TwoTerminals}
=============================================================================
