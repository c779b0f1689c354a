------------------------- MODULE MCMemoryTaskQueue -------------------------
(***************************************************************************)
(* A small instance: two partitions, retrievals for both and a task        *)
(* without a result, a queue of two.                                       *)
(***************************************************************************)
EXTENDS MemoryTaskQueue

CONSTANTS k1, k2

TwoKeys == {k1, k2}
Tasks == {"retrieve1", "retrieve2", "store"}
TaskKeys == [t \in Tasks |-> CASE t = "retrieve1" -> k1
                               [] t = "retrieve2" -> k2
                               [] OTHER -> NoKey]
OneValue == {"entries"}

=============================================================================
