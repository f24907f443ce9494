---------------------------- MODULE MCFileStore ----------------------------
(***************************************************************************)
(* Instances of FileStore for TLC.  A line is two bytes, a snapshot three. *)
(***************************************************************************)
EXTENDS FileStore, TLC

Retention(policy, perLogBytes, totalBytes) ==
  [policy |-> policy, perLogBytes |-> perLogBytes, totalBytes |-> totalBytes]

\* Folding behind an append, folding in a sweep, and refusing new keys.
EveryRetention ==
  {Retention("none", 2, Nothing), Retention("compact", 0, 4),
   Retention("reject", 2, 4)}

FoldsOften == {Retention("none", 2, Nothing)}

DataSymmetry == Permutations(Key) \cup Permutations(State)

=============================================================================
