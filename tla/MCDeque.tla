------------------------------ MODULE MCDeque ------------------------------
(* Instances of DequeBoundedMessageQueue for TLC: threads and messages are *)
(* model values given by the .cfg files.                                   *)
EXTENDS DequeBoundedMessageQueue, TLC

Symmetry == Permutations(Producers) \cup Permutations(Consumers)
              \cup Permutations(Messages)
=============================================================================
