------------------------- MODULE MCCircularBounded -------------------------
(* Instances of CircularBoundedMessageQueue for TLC. *)
EXTENDS CircularBoundedMessageQueue, TLC

Symmetry == Permutations(Producers) \cup Permutations(Consumers)
              \cup Permutations(Messages)
=============================================================================
