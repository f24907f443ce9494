---------------------------- MODULE DurableKeys ----------------------------
(***************************************************************************)
(* What a durable store promises about the commits of its keys, without    *)
(* files, caches, compaction or crashes.                                   *)
(*                                                                         *)
(* A key holds nothing or its last commit.  A commit is numbered right     *)
(* after it.  The writer is told at once, later, or never (its process     *)
(* died, or the store failed after the commit was written); it is never    *)
(* told of a commit the key does not hold.  FileStore.tla implements this  *)
(* module.                                                                 *)
(***************************************************************************)
EXTENDS Integers

CONSTANTS
  Key,
  State,    \* the states a commit may enter
  Nothing   \* no commit

VARIABLES
  current,  \* the last commit of each key: [seq, state]
  acked     \* the last commit of each key its writer was told of

vars == <<current, acked>>

Init ==
  \A k \in Key : current[k] = Nothing /\ acked[k] = Nothing

Stays(k) == current'[k] = current[k] /\ acked'[k] = acked[k]

NextSeq(k) == IF current[k] = Nothing THEN 0 ELSE current[k].seq + 1

Commits(k) ==
  /\ \E s \in State : current'[k] = [seq |-> NextSeq(k), state |-> s]
  /\ acked'[k] \in {acked[k], current'[k]}

Acknowledges(k) ==
  /\ current'[k] = current[k]
  /\ acked'[k] = current[k]

Forgets(k) == current'[k] = Nothing /\ acked'[k] = Nothing

Next ==
  \A k \in Key : Stays(k) \/ Commits(k) \/ Acknowledges(k) \/ Forgets(k)

Spec == Init /\ [][Next]_vars

=============================================================================
