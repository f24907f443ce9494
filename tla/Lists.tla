------------------------------- MODULE Lists -------------------------------
(***************************************************************************)
(* Lists of what the code keeps in arrays.                                 *)
(***************************************************************************)
EXTENDS Integers, Sequences, SequencesExt

IsList(x) == x \in Seq(ToSet(x))

\* filter(): the elements at some positions of a list, in their order.
Picked(list, positions) ==
  FoldLeft(LAMBDA kept, i : IF i \in positions THEN Append(kept, list[i]) ELSE kept,
           <<>>, [i \in DOMAIN list |-> i])

=============================================================================
