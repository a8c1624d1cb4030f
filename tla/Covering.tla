------------------------------ MODULE Covering ------------------------------
(***************************************************************************)
(* The counting argument about condition variables: n slots or messages    *)
(* are covered by a set W of threads that are about to notify somebody or  *)
(* to compete themselves.  The lemmas follow n and W through a step.       *)
(***************************************************************************)
EXTENDS FiniteSetTheorems, TLAPS

Covered(n, W) == n <= Cardinality(W)

(* A larger set covers as well. *)
LEMMA CoverKept ==
  ASSUME NEW n \in Nat, NEW W, NEW V, IsFiniteSet(V), W \subseteq V, Covered(n, W)
  PROVE  Covered(n, V)
<1>1. Cardinality(W) <= Cardinality(V) /\ IsFiniteSet(W)
  BY FS_Subset
<1>2. QED
  BY <1>1, FS_CardinalityType DEF Covered

(* One more to cover, one more thread. *)
LEMMA CoverGrows ==
  ASSUME NEW n \in Nat, NEW W, NEW V, NEW t, IsFiniteSet(V),
         W \subseteq V, t \in V, t \notin W, Covered(n, W)
  PROVE  Covered(n + 1, V)
<1>1. W \subseteq V \ {t} /\ IsFiniteSet(V \ {t})
  BY FS_Subset
<1>2. Covered(n, V \ {t})
  BY <1>1, CoverKept
<1>3. Cardinality(V \ {t}) = Cardinality(V) - 1
  BY FS_RemoveElement
<1>4. QED
  BY <1>1, <1>2, <1>3, FS_CardinalityType DEF Covered

(* One less to cover, and one thread may go. *)
LEMMA CoverShrinks ==
  ASSUME NEW n \in Nat, NEW W, NEW V, NEW t, IsFiniteSet(V), IsFiniteSet(W),
         W \ {t} \subseteq V, Covered(n + 1, W)
  PROVE  Covered(n, V)
<1>1. IsFiniteSet(W \ {t}) /\ Cardinality(W) <= Cardinality(W \ {t}) + 1
  <2>1. CASE t \in W
    <3>1. IsFiniteSet(W \ {t}) /\ Cardinality(W \ {t}) = Cardinality(W) - 1
      BY <2>1, FS_RemoveElement
    <3>2. QED
      BY <3>1, FS_CardinalityType
  <2>2. CASE t \notin W
    <3>1. W \ {t} = W
      BY <2>2
    <3>2. Cardinality(W) \in Nat
      BY FS_CardinalityType
    <3>3. IsFiniteSet(W \ {t}) /\ Cardinality(W \ {t}) = Cardinality(W)
      BY <3>1
    <3>4. QED
      BY <3>2, <3>3
  <2>3. QED
    BY <2>1, <2>2
<1>2. Covered(n, W \ {t})
  BY <1>1, FS_CardinalityType DEF Covered
<1>3. QED
  BY <1>2, CoverKept

(* A thread may go when another one comes: what a notify does. *)
LEMMA CoverMoves ==
  ASSUME NEW n \in Nat, NEW W, NEW V, NEW t, NEW s,
         IsFiniteSet(V), IsFiniteSet(W),
         W \ {t} \subseteq V, s \in V, s \notin W, Covered(n, W)
  PROVE  Covered(n, V)
<1>1. IsFiniteSet(V \ {s}) /\ Cardinality(V \ {s}) = Cardinality(V) - 1
  BY FS_RemoveElement
<1>2. CASE n = 0
  BY <1>2, FS_CardinalityType DEF Covered
<1>3. CASE n # 0
  <2>1. W \ {t} \subseteq V \ {s}
    OBVIOUS
  <2>2. Covered(n - 1, V \ {s})
    <3>1. n - 1 \in Nat /\ Covered((n - 1) + 1, W)
      BY <1>3
    <3>2. QED
      BY <1>1, <2>1, <3>1, CoverShrinks
  <2>3. QED
    BY <1>1, <2>2, FS_CardinalityType DEF Covered
<1>4. QED
  BY <1>2, <1>3

(* Nothing needs no cover. *)
LEMMA CoverNone ==
  ASSUME NEW W, IsFiniteSet(W)
  PROVE  Covered(0, W)
  BY FS_CardinalityType DEF Covered
=============================================================================
