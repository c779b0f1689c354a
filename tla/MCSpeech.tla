------------------------------ MODULE MCSpeech ------------------------------
(* A stream of several sentences over two synthesis slots, a second one, and a *)
(* reply that is said as a whole.                                              *)
EXTENDS Speech

TwoSources == {1, 3}
=============================================================================
