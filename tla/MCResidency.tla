---------------------------- MODULE MCResidency ----------------------------
(***************************************************************************)
(* Instances of Residency for TLC: an instance costs one byte in its       *)
(* initial state and two in the other.                                     *)
(***************************************************************************)
EXTENDS Residency, TLC

SmallBytes == [s \in State |-> IF s = Initial THEN 1 ELSE 2]

\* Eviction or refusal; keys are deleted by an application that waits for it.
Sound ==
  {[policy |-> "lru", timeouts |-> TRUE, forgets |-> TRUE, overlaps |-> FALSE],
   [policy |-> "reject", timeouts |-> FALSE, forgets |-> TRUE, overlaps |-> FALSE]}

Symmetries == Permutations(Trigger) \cup Permutations(Key)

=============================================================================
