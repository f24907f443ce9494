------------------------------- MODULE Sweep -------------------------------
(***************************************************************************)
(* Temporal constraints: sweep() of src/ekman.ts walks the instances that  *)
(* are in a watched state, records a violation for each constraint that is *)
(* overdue, and sends an escalation through the inbox of the instance,     *)
(* while other triggers move it.                                           *)
(*                                                                         *)
(* Of an instance only the state, the moment it entered it and the inbox   *)
(* are kept.  Turns have one attempt and no timeout, so the temporal index *)
(* is the state of the resident records (what a raced commit does to it is *)
(* in Residency).  Which idle instances a full budget evicts is left open. *)
(* A step of the sweep is what runs between two of its awaits, except that *)
(* the keys of a state are read a step before the first of them is visited.*)
(* Ghosts: whether the instance was loaded when the sweep read its age     *)
(* (sweep.loaded), when a commit landed (`seen` in entries), and fires.    *)
(***************************************************************************)
EXTENDS Integers, SequencesExt

CONSTANTS
  Key,          \* the keys
  State,        \* the states of the entity
  Initial,      \* its initial state
  Constraints,  \* its temporal constraints, in the order of their declaration
  Capacity,     \* how many triggers may wait in an inbox
  Evicts,       \* whether idle instances may be evicted
  MaxTime,      \* bound: the last moment of the clock
  MaxSends,     \* bound: how many triggers the application sends
  MaxFaults,    \* bound: how many loads and appends fail
  None          \* no record, no key, no state

Policies == {"reject", "warn"}

ASSUME StateAssumption == Initial \in State
ASSUME ConstraintsAssumption ==
  Constraints \in Seq([name: STRING, in: State, within: Nat \ {0},
                       policy: Policies])
ASSUME BoundsAssumption ==
  /\ {Capacity, MaxTime, MaxSends, MaxFaults} \subseteq Nat
  /\ Evicts \in BOOLEAN

\* What is kept of a resident instance: the turn of its first trigger is at pc.
Records ==
  [state : State, since : Nat, hydration : {"none", "done", "failed"},
   fired : SUBSET STRING, queue : Seq({"app", "temporal"}),
   pc : {"idle", "loading", "failing", "handling", "writing"},
   to : State, at : Nat]

ASSUME NoneAssumption == None \notin Key \cup State \cup Records

VARIABLES
  now,      \* the clock
  entries,  \* the stream of each key: the states it entered, and when
  record,   \* the resident record of each key, or None
  sweep,    \* the pass under way
  fires,    \* ghost: how often each constraint fired since the last entry
  sends,    \* how many triggers were sent
  faults    \* how many loads and appends failed

bounds == <<sends, faults>>
vars == <<now, entries, record, sweep, fires, bounds>>

Index == DOMAIN Constraints

\* temporalByState: the watched states, each by the first constraint on it,
\* which gives their order.
Watched ==
  {i \in Index : \A j \in 1 .. i - 1 : Constraints[j].in # Constraints[i].in}

\* The constraints on a state; their order is that of their declaration.
Watching(s) == {i \in Index : Constraints[i].in = s}

Resident(k) == record[k] # None

\* What the stream says of a key.
Stored(k) == Last(entries[k])

Entry(s, at) == [state |-> s, since |-> at, seen |-> now]

Enters(k, s, at) ==
  entries' = [entries EXCEPT ![k] = Append(@, Entry(s, at))]

-----------------------------------------------------------------------------
(* Records and their inboxes.                                              *)

Fresh ==
  [state |-> Initial, since |-> now, hydration |-> "none", fired |-> {},
   pc |-> "idle", queue |-> <<>>, to |-> Initial, at |-> 0]

\* #run: a record is reconciled with the store in its first turn.
Begun(r) ==
  [r EXCEPT !.pc = CASE r.hydration = "none" -> "loading"
                     [] r.hydration = "failed" -> "failing"
                     [] OTHER -> "handling"]

Queued(r, trigger) ==
  LET queued == [r EXCEPT !.queue = Append(@, trigger)]
  IN  IF r.pc = "idle" THEN Begun(queued) ELSE queued

\* What send() makes of the record of k.
Sent(k, trigger) == Queued(IF Resident(k) THEN record[k] ELSE Fresh, trigger)

\* INBOX_OVERFLOW: the trigger in hand is not waiting.
HasRoom(k) == ~Resident(k) \/ Len(record[k].queue) <= Capacity

Advanced(r) ==
  LET rest == [r EXCEPT !.queue = Tail(@)]
  IN  IF rest.queue = <<>> THEN [rest EXCEPT !.pc = "idle"] ELSE Begun(rest)

\* The sweep goes on when its escalation was answered; a record it holds may
\* have been evicted meanwhile, and keeps what was marked on it.
Answered(k, gone) ==
  LET mine == sweep.key = k
      told == mine /\ sweep.pc = "waiting" /\ Head(record[k].queue) = "temporal"
      next == IF told THEN [sweep EXCEPT !.pc = "between"] ELSE sweep
  IN  IF sweep.key \in gone /\ ~sweep.gone
        THEN [next EXCEPT !.gone = TRUE, !.fired = record[sweep.key].fired]
        ELSE next

\* A turn of k ends, and the key may go idle, which is when records go.
TurnEnds(k, after) ==
  LET rest == [record EXCEPT ![k] = Advanced(after)]
      idle == {j \in Key : rest[j] # None /\ rest[j].pc = "idle"}
  IN  \E gone \in IF Evicts /\ k \in idle THEN SUBSET idle ELSE {{}} :
        /\ record' = [j \in Key |-> IF j \in gone THEN None ELSE rest[j]]
        /\ sweep' = Answered(k, gone)

-----------------------------------------------------------------------------

NoPass ==
  [pc |-> "off", at |-> 0, ahead |-> {}, state |-> None, keys |-> {},
   key |-> None, loaded |-> TRUE, elapsed |-> 0, rest |-> {}, gone |-> FALSE,
   fired |-> {}]

\* The store may hold instances an earlier process left in another state.
Init ==
  /\ now = 0
  /\ entries \in [Key -> {<<>>} \cup {<<[state |-> s, since |-> 0, seen |-> 0]>> :
                                          s \in State \ {Initial}}]
  /\ record = [k \in Key |-> None]
  /\ sweep = NoPass
  /\ fires = [k \in Key |-> [i \in Index |-> 0]]
  /\ sends = 0
  /\ faults = 0

Tick ==
  /\ now < MaxTime
  /\ now' = now + 1
  /\ UNCHANGED <<entries, record, sweep, fires, bounds>>

\* The application sends a trigger.
Send(k) ==
  /\ sends < MaxSends
  /\ sends' = sends + 1
  /\ record' = IF HasRoom(k) THEN [record EXCEPT ![k] = Sent(k, "app")]
                             ELSE record
  /\ UNCHANGED <<now, entries, sweep, fires, faults>>

At(k, pc) == Resident(k) /\ record[k].pc = pc

\* Loaded: become what the store holds, or initialize.
Reconcile(k) ==
  /\ At(k, "loading")
  /\ IF entries[k] = <<>>
       THEN /\ Enters(k, Initial, record[k].since)
            /\ record' = [record EXCEPT ![k].hydration = "done",
                                        ![k].pc = "handling"]
       ELSE /\ record' = [record EXCEPT ![k].hydration = "done",
                                        ![k].pc = "handling",
                                        ![k].state = Stored(k).state,
                                        ![k].since = Stored(k).since]
            /\ UNCHANGED entries
  /\ UNCHANGED <<now, sweep, fires, bounds>>

\* The load fails; the record stays, with its error.
LoadFails(k) ==
  /\ At(k, "loading")
  /\ faults < MaxFaults
  /\ faults' = faults + 1
  /\ TurnEnds(k, [record[k] EXCEPT !.hydration = "failed"])
  /\ UNCHANGED <<now, entries, fires, sends>>

\* The handler moves the instance: the commit is on its way, dated now.
HandlerMoves(k, to) ==
  /\ At(k, "handling")
  /\ to # record[k].state
  /\ record' = [record EXCEPT ![k].pc = "writing", ![k].to = to, ![k].at = now]
  /\ UNCHANGED <<now, entries, sweep, fires, bounds>>

\* The turn leaves the instance where it is: the handler stays or fails, or
\* the record was never loaded.
TurnStays(k) ==
  /\ At(k, "handling") \/ At(k, "failing")
  /\ TurnEnds(k, record[k])
  /\ UNCHANGED <<now, entries, fires, bounds>>

Mutant_MoveLands(k) ==
  /\ At(k, "writing")
  /\ Enters(k, record[k].to, record[k].at)
  /\ TurnEnds(k, [record[k] EXCEPT !.state = record[k].to, !.fired = {}])
  /\ fires' = [fires EXCEPT ![k] = [i \in Index |-> 0]]
  /\ UNCHANGED <<now, bounds>>

\* The move is durable: a new entry, for which no constraint has fired.
MoveLands(k) ==
  /\ At(k, "writing")
  /\ Enters(k, record[k].to, record[k].at)
  /\ TurnEnds(k, [record[k] EXCEPT !.state = record[k].to,
                                   !.since = record[k].at,
                                   !.fired = {}])
  /\ fires' = [fires EXCEPT ![k] = [i \in Index |-> 0]]
  /\ UNCHANGED <<now, bounds>>

MoveFails(k) ==
  /\ At(k, "writing")
  /\ faults < MaxFaults
  /\ faults' = faults + 1
  /\ TurnEnds(k, record[k])
  /\ UNCHANGED <<now, entries, fires, sends>>

-----------------------------------------------------------------------------
(* A pass.                                                                 *)

\* The resident keys that are in a state now.
Bucket(s) == {k \in Key : Resident(k) /\ record[k].state = s}

\* The pass turns to the next key, of this state or of a later one, or ends.
Walk(pass) ==
  LET some == {i \in pass.ahead : Bucket(Constraints[i].in) # {}}
      from == [pass EXCEPT !.pc = "walking", !.key = None, !.loaded = TRUE,
                           !.elapsed = 0, !.rest = {}, !.gone = FALSE,
                           !.fired = {}]
  IN  IF pass.keys # {} THEN from
      ELSE IF some = {} THEN NoPass
      ELSE [from EXCEPT !.state = Constraints[Min(some)].in,
                        !.keys = Bucket(Constraints[Min(some)].in),
                        !.ahead = {i \in @ : i > Min(some)}]

\* One pass at a time, on one reading of the clock.
SweepStarts ==
  /\ sweep.pc = "off"
  /\ sweep' = Walk([NoPass EXCEPT !.at = now, !.ahead = Watched])
  /\ UNCHANGED <<now, entries, record, fires, bounds>>

\* What was marked on the record the sweep holds, evicted or not.
MarkedOn(k) == IF sweep.gone THEN sweep.fired ELSE record[k].fired

\* hasFired: once since the state was entered, by the name of the constraint.
Due(k, i, elapsed) ==
  elapsed >= Constraints[i].within /\ Constraints[i].name \notin MarkedOn(k)

Mutant_Marked(r, i) == r

\* markFired.
Marked(r, i) == [r EXCEPT !.fired = @ \cup {Constraints[i].name}]

\* #escalate: record the violation, then deliver the trigger or not.
Escalates(k, i, next) ==
  LET held == IF sweep.gone THEN record
              ELSE [record EXCEPT ![k] = Marked(@, i)]
      room == HasRoom(k) /\ Constraints[i].policy = "reject"
  IN  /\ fires' = [fires EXCEPT ![k][i] = @ + 1]
      /\ record' = IF room
                     THEN [held EXCEPT ![k] =
                             Queued(IF Resident(k) THEN held[k] ELSE Fresh,
                                    "temporal")]
                     ELSE held
      /\ sweep' = [next EXCEPT !.pc = IF room THEN "waiting" ELSE "between",
                               !.fired = IF sweep.gone
                                           THEN @ \cup {Constraints[i].name}
                                           ELSE @]

\* The loop over the constraints of a state, up to its next await.
Evaluates(pass, k, constraints, elapsed) ==
  LET due == {i \in constraints : Due(k, i, elapsed)}
  IN  IF due = {}
        THEN sweep' = Walk(pass) /\ UNCHANGED <<record, fires>>
        ELSE Escalates(k, Min(due),
               [pass EXCEPT !.key = k, !.elapsed = elapsed,
                            !.rest = {i \in constraints : i > Min(due)}])

Walking == sweep.pc = "walking"

Mutant_IsThere(k) == Resident(k)

\* #ageOf: the key is resident, and still in the state of its bucket.
IsThere(k) == Resident(k) /\ record[k].state = sweep.state

\* #sweepInstance: the next key of the bucket.
Visit(k) ==
  /\ Walking
  /\ k \in sweep.keys
  /\ LET pass == [sweep EXCEPT !.keys = @ \ {k}]
     IN  IF IsThere(k)
           THEN Evaluates([pass EXCEPT !.loaded = record[k].hydration = "done"],
                          k, Watching(sweep.state),
                          sweep.at - record[k].since)
           ELSE sweep' = Walk(pass) /\ UNCHANGED <<record, fires>>
  /\ UNCHANGED <<now, entries, bounds>>

\* The next constraint, with the age that was read before the last await.
Continue ==
  /\ sweep.pc = "between"
  /\ Evaluates(sweep, sweep.key, sweep.rest, sweep.elapsed)
  /\ UNCHANGED <<now, entries, bounds>>

-----------------------------------------------------------------------------

Turn(k) ==
  \/ Reconcile(k) \/ LoadFails(k)
  \/ \E to \in State : HandlerMoves(k, to)
  \/ TurnStays(k) \/ MoveLands(k) \/ MoveFails(k)

Pass ==
  \/ SweepStarts
  \/ \E k \in Key : Visit(k)
  \/ Continue

Next ==
  \/ Tick
  \/ \E k \in Key : Send(k) \/ Turn(k)
  \/ Pass

Spec == Init /\ [][Next]_vars

-----------------------------------------------------------------------------

(***************************************************************************)
(* "A constraint fires at most once per entry into its state.  Leaving and *)
(* re-entering arms it again." (src/constraints.ts)                        *)
(***************************************************************************)
OncePerEntry == \A k \in Key : \A i \in Index : fires[k][i] <= 1

\* A violation of k by the i-th constraint is recorded in this step.
Fires(k, i) == fires'[k][i] = fires[k][i] + 1

\* At that moment k was in s for all one could see, and had been for so long.
WasIn(k, s, at, within) ==
  \E n \in 1 .. Len(entries[k]) :
    /\ entries[k][n].state = s
    /\ entries[k][n].since + within <= at
    /\ n < Len(entries[k]) => entries[k][n + 1].seen >= at

(***************************************************************************)
(* "Every violation a pass records is true at that one instant", the one   *)
(* reading of the clock, whatever turns, moves and other escalations came  *)
(* between the reading and the record; provided the age was read of a      *)
(* loaded record, since one that is not says it is in the initial state.   *)
(***************************************************************************)
TrueWhenRecorded ==
  [][\A k \in Key : \A i \in Index :
       Fires(k, i) /\ sweep'.loaded =>
         WasIn(k, Constraints[i].in, sweep'.at, Constraints[i].within)]_vars

(***************************************************************************)
(* An escalation is for the state the instance is in, unless it follows    *)
(* another one for the same instance in the same pass.                     *)
(***************************************************************************)
AimedAtItsState ==
  [][\A k \in Key : \A i \in Index :
       Fires(k, i) /\ Walking => record[k].state = Constraints[i].in]_vars

=============================================================================
