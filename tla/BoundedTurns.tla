---------------------------- MODULE BoundedTurns ----------------------------
(***************************************************************************)
(* What one key promises the callers of send(), without its queue, its     *)
(* drain loop or its telemetry: a line of waiting triggers in call order,  *)
(* one turn at a time, and a sender that is always answered.               *)
(*                                                                         *)
(* A trigger is refused only while another one has the turn and more than  *)
(* `capacity` triggers stand in line.  Inbox.tla implements this module.   *)
(***************************************************************************)
EXTENDS Naturals, Sequences

CONSTANTS
  Trigger,    \* the triggers that callers may send
  Capacities, \* how many of them may be allowed to wait behind the turn
  None        \* nobody has the turn

VARIABLES
  capacity,   \* how many may, fixed at the start
  line,       \* triggers waiting, in the order they were sent
  turn,       \* the trigger being handled, or None
  outcome     \* what each sender has been told

vars == <<capacity, line, turn, outcome>>

Refusals == {"INBOX_OVERFLOW", "TRIGGER_DROPPED"}

Results == {"resolved", "rejected"}

Init ==
  /\ capacity \in Capacities
  /\ line = <<>>
  /\ turn = None
  /\ outcome = [t \in Trigger |-> "unsent"]

Submit(t) ==
  /\ outcome[t] = "unsent"
  /\ outcome' = [outcome EXCEPT ![t] = "pending"]
  /\ line' = Append(line, t)
  /\ UNCHANGED <<capacity, turn>>

\* Somebody has to go, and somebody is told; who goes is the policy's choice.
Refuse(t) ==
  /\ turn # None
  /\ Len(line) > capacity
  /\ \E i \in 1 .. Len(line) :
       /\ line[i] = t
       /\ line' = SubSeq(line, 1, i - 1) \o SubSeq(line, i + 1, Len(line))
  /\ \E code \in Refusals : outcome' = [outcome EXCEPT ![t] = code]
  /\ UNCHANGED <<capacity, turn>>

Begin ==
  /\ turn = None
  /\ line # <<>>
  /\ turn' = Head(line)
  /\ line' = Tail(line)
  /\ UNCHANGED <<capacity, outcome>>

Finish ==
  /\ turn # None
  /\ \E r \in Results : outcome' = [outcome EXCEPT ![turn] = r]
  /\ turn' = None
  /\ UNCHANGED <<capacity, line>>

Next ==
  \/ \E t \in Trigger : Submit(t) \/ Refuse(t)
  \/ Begin
  \/ Finish

Spec == Init /\ [][Next]_vars /\ WF_vars(Begin) /\ WF_vars(Finish)

=============================================================================
