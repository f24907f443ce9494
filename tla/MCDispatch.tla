----------------------------- MODULE MCDispatch -----------------------------
(***************************************************************************)
(* Instances of Dispatch for TLC.                                          *)
(***************************************************************************)
EXTENDS Dispatch, TLC

Exposed(timeouts, others, lostAnswers, turns) ==
  [timeouts |-> timeouts, foreign |-> others, lostAnswers |-> lostAnswers,
   turns |-> turns]

\* One writer with timeouts, or three turns beside another runtime.
Either ==
  {Exposed(TRUE, {}, TRUE, 2),
   Exposed(FALSE, {"commit"}, FALSE, 3),
   Exposed(FALSE, {"commit", "forget"}, FALSE, 2)}

Hanging == {Exposed(TRUE, {"commit"}, FALSE, 2)}

Shared == {Exposed(FALSE, {"commit"}, FALSE, 2)}

TriggerSymmetry == Permutations(Trigger)

=============================================================================
