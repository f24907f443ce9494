------------------------------- MODULE Inbox -------------------------------
(***************************************************************************)
(* One key's bounded FIFO inbox (src/inbox.ts) and its drain loop.         *)
(*                                                                         *)
(* JavaScript runs one synchronous stretch at a time, so a call of         *)
(* enqueue() would be a single step if it called nobody.  It does call     *)
(* somebody: every acceptance and every refusal is reported to a telemetry *)
(* sink in the middle of the call, and a sink is application code that may *)
(* call send() for the same key again.  The calls in progress are          *)
(* therefore kept on an explicit stack, one frame per enqueue() that has   *)
(* not returned yet, and a step of the model runs from one of those        *)
(* reports to the next.  While the stack is not empty no promise callback  *)
(* runs; that is JavaScript's run-to-completion.                           *)
(***************************************************************************)
EXTENDS Naturals, Sequences, FiniteSets

CONSTANTS
  Trigger,        \* the triggers that callers may send, each at most once
  Capacities,     \* the inbox capacities an application may configure
  SinksMaySend,   \* whether a telemetry sink calls send() for this key
  None            \* no trigger

ASSUME CapacitiesAssumption == Capacities \subseteq Nat
ASSUME SinksMaySendAssumption == SinksMaySend \in BOOLEAN
ASSUME NoneAssumption == None \notin Trigger

VARIABLES
  config,     \* ResolvedInboxConfig, fixed when the runtime is built
  queue,      \* #queue: triggers waiting, the one being handled excluded
  running,    \* #running: a drain loop owns this inbox
  current,    \* the entry the drain loop has shifted off and is running
  stack,      \* the enqueue() and drain calls in progress, newest last
  outcome,    \* what the promise returned to each sender has settled to
  recorded,   \* triggers whose refusal was written to the key's stream
  calls,      \* history: how many send() calls were made
  calledAt,   \* history: the position of each trigger among those calls
  started     \* history: triggers in the order their handler started

vars == <<config, queue, running, current, stack, outcome, recorded,
          calls, calledAt, started>>

history == <<calls, calledAt>>

Policies == {"reject", "drop-newest", "drop-oldest"}

Configs == [capacity: Capacities, overflow: Policies, recordOverflow: BOOLEAN]

Refusals == {"INBOX_OVERFLOW", "TRIGGER_DROPPED"}

Outcomes == {"unsent", "pending", "resolved", "rejected"} \cup Refusals

(***************************************************************************)
(* A frame is an enqueue() call in progress for `trigger`:                 *)
(*   "refusing"  inside #refuse for `victim`; when the victim is another   *)
(*               trigger, `trigger` is accepted afterwards;                *)
(*   "starting"  pushed and reporting "inbox.enqueued", #running not       *)
(*               looked at yet;                                            *)
(* or a drain loop between two entries ("draining").                       *)
(***************************************************************************)
Frames ==
       [pc: {"refusing"}, trigger: Trigger, victim: Trigger]
  \cup [pc: {"starting"}, trigger: Trigger, victim: {None}]
  \cup [pc: {"draining"}, trigger: {None}, victim: {None}]

Frame(pc, t, v) == [pc |-> pc, trigger |-> t, victim |-> v]

Top == stack[Len(stack)]

Below == SubSeq(stack, 1, Len(stack) - 1)

At(pc) == stack # <<>> /\ Top.pc = pc

-----------------------------------------------------------------------------

Init ==
  /\ config \in Configs
  /\ queue = <<>>
  /\ running = FALSE
  /\ current = None
  /\ stack = <<>>
  /\ outcome = [t \in Trigger |-> "unsent"]
  /\ recorded = {}
  /\ calls = 0
  /\ calledAt = [t \in Trigger |-> 0]
  /\ started = <<>>

\* Nothing running and nothing waiting: what eviction and forget() may touch.
Idle == ~running /\ queue = <<>>

Mutant_HasRoom == Idle \/ Len(queue) <= config.capacity

Mutant_HasRoomIdle == Len(queue) < config.capacity

\* A trigger that can start at once is not measured against the capacity.
HasRoom == Idle \/ Len(queue) < config.capacity

\* Who may call send() now: anybody between two synchronous stretches, and a
\* telemetry sink from the report of an acceptance or a refusal.
MayCall ==
  \/ stack = <<>>
  \/ SinksMaySend /\ (At("refusing") \/ At("starting"))

Mutant_Accept(t) ==
  /\ stack' = Append(stack, Frame("starting", t, None))
  /\ UNCHANGED queue

\* The start of #accept: push, then report "inbox.enqueued".
Accept(t) ==
  /\ queue' = Append(queue, t)
  /\ stack' = Append(stack, Frame("starting", t, None))

Mutant_Overflow(t) ==
  /\ UNCHANGED queue
  /\ stack' = Append(stack, Frame("refusing", t,
       IF config.overflow = "drop-oldest" /\ queue # <<>> THEN Head(queue) ELSE t))

\* #overflow up to its report.  Under drop-oldest the longest-waiting trigger
\* leaves the queue before the report; with nobody waiting, and under the
\* other policies, the newcomer is the one that goes.
Overflow(t) ==
  IF config.overflow = "drop-oldest" /\ queue # <<>>
    THEN /\ queue' = Tail(queue)
         /\ stack' = Append(stack, Frame("refusing", t, Head(queue)))
    ELSE /\ queue' = queue
         /\ stack' = Append(stack, Frame("refusing", t, t))

\* send() as the inbox sees it: enqueue() up to its first report.
Enqueue(t) ==
  /\ MayCall
  /\ outcome[t] = "unsent"
  /\ calls' = calls + 1
  /\ calledAt' = [calledAt EXCEPT ![t] = calls + 1]
  /\ outcome' = [outcome EXCEPT ![t] = "pending"]
  /\ IF HasRoom THEN Accept(t) ELSE Overflow(t)
  /\ UNCHANGED <<config, running, current, recorded, started>>

Mutant_RefusalCode == config.overflow

RefusalCode ==
  IF config.overflow = "reject" THEN "INBOX_OVERFLOW" ELSE "TRIGGER_DROPPED"

Mutant_RefuseInPlace ==
  /\ At("refusing")
  /\ outcome' = [outcome EXCEPT ![Top.victim] = RefusalCode]
  /\ recorded' = IF config.recordOverflow THEN recorded \cup {Top.victim}
                                          ELSE recorded
  /\ IF Top.victim = Top.trigger
       THEN /\ stack' = Below
            /\ UNCHANGED queue
       ELSE /\ queue' = <<Top.trigger>> \o queue
            /\ stack' = Append(Below, Frame("starting", Top.trigger, None))
  /\ UNCHANGED <<config, running, current, started, history>>

\* The rest of #refuse: the optional record, the sender's error, and, when an
\* older trigger made way, the acceptance of the newcomer.
Refuse ==
  /\ At("refusing")
  /\ outcome' = [outcome EXCEPT ![Top.victim] = RefusalCode]
  /\ recorded' = IF config.recordOverflow THEN recorded \cup {Top.victim}
                                          ELSE recorded
  /\ IF Top.victim = Top.trigger
       THEN /\ stack' = Below
            /\ UNCHANGED queue
       ELSE /\ queue' = Append(queue, Top.trigger)
            /\ stack' = Append(Below, Frame("starting", Top.trigger, None))
  /\ UNCHANGED <<config, running, current, started, history>>

\* The end of #accept: start the drain unless one is running.
Start ==
  /\ At("starting")
  /\ running' = TRUE
  /\ stack' = IF running THEN Below
                         ELSE Append(Below, Frame("draining", None, None))
  /\ UNCHANGED <<config, queue, current, outcome, recorded, started, history>>

Mutant_Drain ==
  /\ At("draining")
  /\ stack' = Below
  /\ IF queue # <<>>
       THEN /\ current' = Head(queue)
            /\ queue' = Tail(queue)
            /\ started' = Append(started, Head(queue))
            /\ UNCHANGED running
       ELSE UNCHANGED <<running, current, queue, started>>
  /\ UNCHANGED <<config, outcome, recorded, history>>

\* #drain between two awaits: shift the next entry and start its handler, or
\* give the inbox up and report it idle.
Drain ==
  /\ At("draining")
  /\ stack' = Below
  /\ IF queue # <<>>
       THEN /\ current' = Head(queue)
            /\ queue' = Tail(queue)
            /\ started' = Append(started, Head(queue))
            /\ UNCHANGED running
       ELSE /\ running' = FALSE
            /\ UNCHANGED <<current, queue, started>>
  /\ UNCHANGED <<config, outcome, recorded, history>>

\* The turn's promise settles, and the loop goes on to the next entry.  A turn
\* ends when dispatch does: with a commit, or with a failure.
Settle(result) ==
  /\ stack = <<>>
  /\ current # None
  /\ outcome' = [outcome EXCEPT ![current] = result]
  /\ current' = None
  /\ stack' = <<Frame("draining", None, None)>>
  /\ UNCHANGED <<config, queue, running, recorded, started, history>>

\* Every caller was answered and nothing is in progress: the inbox rests.
Rest ==
  /\ stack = <<>>
  /\ \A t \in Trigger : outcome[t] \notin {"unsent", "pending"}
  /\ Idle
  /\ UNCHANGED vars

Next ==
  \/ \E t \in Trigger : Enqueue(t)
  \/ Refuse
  \/ Start
  \/ Drain
  \/ \E result \in {"resolved", "rejected"} : Settle(result)
  \/ Rest

(***************************************************************************)
(* A synchronous stretch always runs to its end, and a turn always ends:   *)
(* that is what the execution timeout is for, and the inbox relies on it.  *)
(* Nobody has to call send().                                              *)
(***************************************************************************)
Fairness ==
  /\ WF_vars(Refuse)
  /\ WF_vars(Start)
  /\ WF_vars(Drain)
  /\ WF_vars(\E result \in {"resolved", "rejected"} : Settle(result))

Spec == Init /\ [][Next]_vars

FairSpec == Spec /\ Fairness

-----------------------------------------------------------------------------

\* Type correctness of the inbox and of the history variables.
TypeOK ==
  /\ config \in Configs
  /\ queue \in Seq(Trigger)
  /\ running \in BOOLEAN
  /\ current \in Trigger \cup {None}
  /\ stack \in Seq(Frames)
  /\ outcome \in [Trigger -> Outcomes]
  /\ recorded \in SUBSET Trigger
  /\ calls \in Nat
  /\ calledAt \in [Trigger -> Nat]
  /\ started \in Seq(Trigger)

(***************************************************************************)
(* Capacity bounds the backlog: whenever no call is in progress at most    *)
(* `capacity` triggers wait behind the one being handled.                  *)
(***************************************************************************)
CapacityBound == stack = <<>> => Len(queue) <= config.capacity

(***************************************************************************)
(* Nobody waits on an inbox nobody drains: with no call in progress and    *)
(* nothing running, the queue is empty and no entry is half handled.       *)
(***************************************************************************)
NoStrandedTrigger ==
  stack = <<>> => /\ running <=> current # None
                  /\ ~running => queue = <<>>

(***************************************************************************)
(* "Every policy refuses exactly one trigger and tells its sender": a      *)
(* sender is unanswered exactly as long as its trigger is in one place,    *)
(* the queue, the drain loop's hand or a call in progress, and never in    *)
(* two of them.                                                            *)
(***************************************************************************)
HeldBy(frame, t) ==
  frame.pc = "refusing" /\ (frame.victim = t \/ frame.trigger = t)

Places(t) ==
    Cardinality({i \in 1 .. Len(queue) : queue[i] = t})
  + Cardinality({i \in 1 .. Len(stack) : HeldBy(stack[i], t)})
  + (IF current = t THEN 1 ELSE 0)

EverySenderAccountedFor ==
  \A t \in Trigger : Places(t) = IF outcome[t] = "pending" THEN 1 ELSE 0

(***************************************************************************)
(* FIFO order is call order: handlers start in the order in which their    *)
(* send() calls were made, whatever was refused in between.                *)
(***************************************************************************)
HandledInCallOrder ==
  \A i, j \in 1 .. Len(started) :
    i < j => calledAt[started[i]] < calledAt[started[j]]

(***************************************************************************)
(* A drain loop started by #accept finds the trigger it was started for    *)
(* even when sinks call send() inside the reports: "the first shift always *)
(* finds something".                                                       *)
(***************************************************************************)
FirstShiftFindsWork == At("starting") /\ ~running => queue # <<>>

\* Whoever calls send() is eventually told what became of the trigger.
EverySenderAnswered ==
  \A t \in Trigger : outcome[t] = "pending" ~> outcome[t] # "pending"

(***************************************************************************)
(* The inbox implements BoundedTurns: the line is the trigger being made   *)
(* to go, then the queue, then the newcomer that is not pushed yet.        *)
(***************************************************************************)
HeldVictim ==
  IF At("refusing") /\ Top.victim # Top.trigger THEN <<Top.victim>> ELSE <<>>

HeldNewcomer == IF At("refusing") THEN <<Top.trigger>> ELSE <<>>

Turns == INSTANCE BoundedTurns WITH
           capacity <- config.capacity,
           line     <- HeldVictim \o queue \o HeldNewcomer,
           turn     <- current

\* The inbox keeps the promise BoundedTurns states to the callers of send().
ImplementsBoundedTurns == Turns!Spec

=============================================================================
