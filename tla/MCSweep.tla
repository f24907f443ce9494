------------------------------ MODULE MCSweep ------------------------------
(***************************************************************************)
(* Instances of Sweep for TLC: two bounds on one state and one on another. *)
(* The keys are interchangeable.                                           *)
(***************************************************************************)
EXTENDS Sweep, TLC

Escalating ==
  << [name |-> "soon", in |-> "a", within |-> 1, policy |-> "reject"],
     [name |-> "late", in |-> "b", within |-> 1, policy |-> "warn"],
     [name |-> "then", in |-> "a", within |-> 2, policy |-> "reject"] >>

SymKeys == Permutations(Key)

=============================================================================
