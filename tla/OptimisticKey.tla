--------------------------- MODULE OptimisticKey ---------------------------
(***************************************************************************)
(* What one key promises about commits, without write chains, tokens,      *)
(* timers or a resident copy: an append-only list of commits in which      *)
(* every commit was decided on the commit right before it.                 *)
(*                                                                         *)
(* An attempt reads some version of the key, possibly an old one; its      *)
(* result commits only if nothing was committed since.  A sender is told   *)
(* "committed" only when a commit of its trigger is in the list.  It may   *)
(* be told "failed" although one is: the attempt was given up too early.   *)
(* Dispatch.tla implements this module.                                    *)
(***************************************************************************)
EXTENDS Naturals, Sequences

CONSTANTS
  Trigger,    \* the triggers sent to the key
  AttemptId,  \* pairs of a trigger and the number of an attempt
  State,      \* the states a commit may enter
  Author      \* whoever may commit: attempts, the runtime, another writer

VARIABLES
  commits,    \* the key's commits: [to, by], the one at sequence 0 first
  seen,       \* how many commits each attempt had seen when it started
  outcome     \* what each sender has been told

vars == <<commits, seen, outcome>>

Init ==
  /\ commits = <<>>
  /\ seen = [a \in AttemptId |-> 0]
  /\ outcome = [t \in Trigger |-> "unsent"]

Ask(t) ==
  /\ outcome[t] = "unsent"
  /\ outcome' = [outcome EXCEPT ![t] = "pending"]
  /\ UNCHANGED <<commits, seen>>

\* An attempt starts on a version of the key.
Read(a) ==
  /\ seen[a] = 0
  /\ \E n \in 1 .. Len(commits) : seen' = [seen EXCEPT ![a] = n]
  /\ UNCHANGED <<commits, outcome>>

\* The attempt's result follows the version it was decided on.
Commit(a, to) ==
  /\ seen[a] # 0
  /\ seen[a] = Len(commits)
  /\ commits' = Append(commits, [to |-> to, by |-> a])
  /\ UNCHANGED <<seen, outcome>>

\* Initialization, and the commits of another writer.
CommitBy(author, to) ==
  /\ author \notin AttemptId
  /\ commits' = Append(commits, [to |-> to, by |-> author])
  /\ UNCHANGED <<seen, outcome>>

Confirm(t) ==
  /\ outcome[t] = "pending"
  /\ \E i \in 1 .. Len(commits) :
       commits[i].by \in AttemptId /\ commits[i].by[1] = t
  /\ outcome' = [outcome EXCEPT ![t] = "committed"]
  /\ UNCHANGED <<commits, seen>>

Deny(t) ==
  /\ outcome[t] \in {"unsent", "pending"}
  /\ outcome' = [outcome EXCEPT ![t] = "failed"]
  /\ UNCHANGED <<commits, seen>>

Next ==
  \/ \E t \in Trigger : Ask(t) \/ Confirm(t) \/ Deny(t)
  \/ \E a \in AttemptId :
       Read(a) \/ \E to \in State : Commit(a, to)
  \/ \E author \in Author, to \in State : CommitBy(author, to)

Spec == Init /\ [][Next]_vars

=============================================================================
