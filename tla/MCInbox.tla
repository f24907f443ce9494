------------------------------ MODULE MCInbox ------------------------------
(***************************************************************************)
(* Instances of Inbox for TLC: four or five triggers, every overflow       *)
(* policy, and capacities from none to two.                                *)
(***************************************************************************)
EXTENDS Inbox, TLC

SmallCapacities == 0 .. 2

TriggerSymmetry == Permutations(Trigger)

=============================================================================
