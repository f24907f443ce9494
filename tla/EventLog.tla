------------------------------ MODULE EventLog ------------------------------
(***************************************************************************)
(* The event stream of one key (src/events.ts) and what a store derives    *)
(* from it (src/store.ts).                                                 *)
(*                                                                         *)
(* Two sorts of events matter to the runtime.  A "transition" is a commit  *)
(* and advances the sequence; everything else (a rejection, a constraint   *)
(* violation) carries the sequence it followed and is a "note" here.  The  *)
(* committed values are not modelled: an event is told apart by its        *)
(* sequence, the states it joins and who wrote it, `by`.                   *)
(***************************************************************************)
EXTENDS Integers, Sequences

\* The sequence reported for a key the store has never seen.
EMPTY_SEQ == -1

Transition(seq, from, to, by) ==
  [type |-> "transition", seq |-> seq, from |-> from, to |-> to, by |-> by]

Note(seq, state, by) ==
  [type |-> "note", seq |-> seq, from |-> state, to |-> state, by |-> by]

\* Only in the resident stream: the record became what the store holds.
Restored(seq, state, by) ==
  [type |-> "restored", seq |-> seq, from |-> state, to |-> state, by |-> by]

Commits(log) == {i \in 1 .. Len(log) : log[i].type = "transition"}

\* The position of the last commit of a log that has one.
LastCommit(log) ==
  CHOOSE i \in Commits(log) : \A j \in Commits(log) : j <= i

\* latestSeq(): the sequence of the last commit, ignoring everything else.
LatestSeq(log) ==
  IF Commits(log) = {} THEN EMPTY_SEQ ELSE log[LastCommit(log)].seq

\* What replay() rebuilds from a log that holds a commit and has no snapshot.
Replay(log) == [seq |-> LatestSeq(log), state |-> log[LastCommit(log)].to]

(***************************************************************************)
(* A stream is well formed when its commits are numbered 0, 1, 2, ... and  *)
(* every note carries the sequence of the commit it follows.               *)
(***************************************************************************)
Contiguous(log) ==
  \A i \in 1 .. Len(log) :
    LET before == IF i = 1 THEN EMPTY_SEQ ELSE log[i - 1].seq
    IN  /\ i = 1 => log[i].type = "transition"
        /\ log[i].seq = IF log[i].type = "transition" THEN before + 1
                                                      ELSE before

\* Commit i + 1 of a log leaves the state that commit i entered.
Chained(log) ==
  \A i, j \in Commits(log) :
    log[j].seq = log[i].seq + 1 => log[j].from = log[i].to

=============================================================================
