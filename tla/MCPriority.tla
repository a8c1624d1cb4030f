----------------------------- MODULE MCPriority -----------------------------
(* Instances of PriorityMessageQueue for TLC: the messages in Urgent come  *)
(* before all others.                                                      *)
EXTENDS PriorityMessageQueue, TLC

CONSTANT Urgent

UrgentFirst == [m \in Messages |-> IF m \in Urgent THEN 0 ELSE 1]

Symmetry == Permutations(Messages \ Urgent)
=============================================================================
