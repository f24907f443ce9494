--------------------------- MODULE DeployService ---------------------------
(***************************************************************************)
(* The deployment service built on the runtime                             *)
(* (src/examples/deploy-service): two entities, and the HTTP routes, the   *)
(* queue consumer, the sweep, the reaction that opens incidents and the    *)
(* prune that all act on the same keys.                                    *)
(*                                                                         *)
(* The runtime is reduced to what it promises the service: a bounded line  *)
(* for each key whose turns come one after the other (Inbox), a commit     *)
(* that is durable before it is applied (Dispatch), constraints that are   *)
(* checked before it (Constraints), records that may be evicted between    *)
(* turns (Residency), one escalation per entry of a resident instance      *)
(* (Sweep), and a forget() that refuses a busy key.                        *)
(*                                                                         *)
(* Of what an instance carries, its region, how often it was deployed, its *)
(* note and the reason of an incident are kept; the rest is never read.    *)
(* Whatever is asked about the age of an instance may be so.               *)
(***************************************************************************)
EXTENDS Constraints, FiniteSets

CONSTANTS
  Ids,         \* the ids of deployments, and of the incidents about them
  Clients,     \* what may have a request about a deployment outstanding
  Pruners,     \* what may have a prune under way
  Posts,       \* the triggers of the requests that reach the runtime
  Backlog,     \* the messages of the queue, as the broker hands them out
  Regions,     \* what triggers carry as a region
  Notes,       \* what deployments carry as a note
  MaxAttempts, \* deployMaxAttempts
  Capacity,    \* inboxCapacity
  Bounds       \* bounds: a set of how many posts, prunes, operations and stops

\* What the queue holds is about the deployments there are.
ASSUME BacklogAssumption ==
  /\ Backlog \in Seq(ToSet(Backlog))
  /\ \A message \in ToSet(Backlog) : message.id \in Ids

VARIABLES
  instance,    \* what the authority holds of each key
  resident,    \* what the runtime holds: the state, and whether it escalated
  line,        \* the turn and the waiting triggers of each key
  consumed,    \* how many messages of the backlog the consumer has taken
  pruning,     \* the ids each prune has found and not yet come to
  serving,     \* whether the server accepts requests
  failures,    \* the notes each id has failed with, life after life
  cut,         \* whether the process has stopped
  left         \* what the bounds leave

serviceVars == <<instance, resident, line, consumed, pruning, serving, failures, cut, left>>

Deployment(id) == <<"deployments", id>>
Incident(id) == <<"incidents", id>>
Keys == {Deployment(id) : id \in Ids} \cup {Incident(id) : id \in Ids}

\* What is held of a key that nobody holds.
Nothing == [state |-> ""]

-----------------------------------------------------------------------------
(* The entities.                                                           *)

OVERDUE == "constraint.temporal"

Move(to, values) == [kind |-> "transitionTo", state |-> to, values |-> values]
Stay(values) == [kind |-> "stay", values |-> values]

\* A field of a trigger, which any producer may leave out.
Text(field, fallback) == IF field \in {Unset, ""} THEN fallback ELSE field

Definition == [
  deployments |->
    [initial  |-> "queued",
     states   |-> <<"queued", "deploying", "live", "failed", "rolled-back">>,
     values   |-> [region |-> "", attempts |-> 0, note |-> ""],
     triggers |-> {"deploy", "succeeded", "failed", "rollback", OVERDUE}],
  incidents |->
    [initial  |-> "open",
     states   |-> <<"open", "acknowledged", "resolved">>,
     values   |-> [reason |-> ""],
     triggers |-> {"open", "acknowledge", "resolve"}]]

DeploymentValues ==
  [region : Regions \cup {"", Unset}, attempts : 0 .. 2, note : Notes \cup {""}]

Mutant_Lifecycle ==
  << <<"queued", <<"deploying">>>>, <<"deploying", <<"live", "failed">>>>,
     <<"live", <<"rolled-back">>>>, <<"failed", <<"rolled-back">>>>,
     <<"rolled-back", <<"deploying">>>> >>

Lifecycle ==
  << <<"queued", <<"deploying">>>>, <<"deploying", <<"live", "failed">>>>,
     <<"live", <<"rolled-back">>>>, <<"failed", <<"rolled-back">>>>,
     <<"rolled-back", <<>>>> >>

IncidentLifecycle ==
  << <<"open", <<"acknowledged", "resolved">>>>, <<"acknowledged", <<"resolved">>>>,
     <<"resolved", <<>>>> >>

Says(holds) == IF holds THEN "true" ELSE "false"

Declaration == [
  deployments |->
    [transitions |-> [policy |-> "reject", allow |-> Lifecycle],
     guards      |-> <<[name |-> "region-required", on |-> "deploying",
                        from |-> Unset, policy |-> Unset,
                        check |-> [v \in DeploymentValues |-> Says(v.region # "")]]>>,
     invariants  |-> <<[name |-> "attempts-sane", in |-> Unset, policy |-> Unset,
                        check |-> [v \in DeploymentValues |-> Says(v.attempts >= 0)]]>>,
     temporal    |-> <<[name |-> "deploy-takes-too-long", in |-> "deploying",
                        within |-> 1, escalateTo |-> "failed", policy |-> Unset]>>],
  incidents |->
    [transitions |-> [policy |-> "reject", allow |-> IncidentLifecycle],
     guards |-> <<>>, invariants |-> <<>>, temporal |-> <<>>]]

\* Both definitions are accepted when the module is loaded.
ASSUME DefinitionsAreAccepted ==
  \A e \in DOMAIN Definition :
    /\ Definition[e].initial # Unset /\ Declaration[e].transitions # Unset
    /\ ValidConstraints(Declaration[e], StatesOf(Definition[e].states))

CompiledEntity == [e \in DOMAIN Definition |->
             CompileConstraints(Declaration[e], StatesOf(Definition[e].states))]

\* A move into deploying, whatever the trigger that asks for it is.
Deploying(values, region, note) ==
  Move("deploying", [region |-> region, attempts |-> values.attempts + 1,
                     note |-> note])

Noted(values, note) == [values EXCEPT !.note = note]

\* The handlers of entities/deployment.ts, once they have returned.
DeploymentHandler(state, values, trigger) ==
  CASE state = "queued" -> Deploying(values, trigger.region, "deploy requested")
    [] state = "deploying" ->
         IF trigger.type = OVERDUE THEN Move("failed", Noted(values, "gave up"))
         ELSE IF trigger.type = "succeeded" THEN Move("live", Noted(values, "deployed"))
         ELSE Move("failed", Noted(values, Text(trigger.reason, "reported failed")))
    [] state \in {"live", "failed"} /\ trigger.type = "rollback" ->
         Move("rolled-back", Noted(values, Text(trigger.reason, "rolled back")))
    [] state \in {"live", "rolled-back"} /\ trigger.type = "deploy" ->
         Deploying(values, values.region, "redeploy requested")
    [] OTHER -> Stay(values)

Mutant_IncidentHandler(state, values, trigger) ==
  CASE state = "open" /\ trigger.type = "acknowledge" ->
         Move("acknowledged", values)
    [] state \in {"open", "acknowledged"} /\ trigger.type = "resolve" ->
         Move("resolved", values)
    [] state = "open" /\ trigger.type = "open" ->
         Stay([values EXCEPT !.reason = trigger.reason])
    [] OTHER -> Stay(values)

\* The handlers of entities/incident.ts: the first open is the one recorded.
\* The entity lists its triggers: what is no acknowledge or resolve is an open.
IncidentHandler(state, values, trigger) ==
  CASE state = "open" /\ trigger.type = "acknowledge" ->
         Move("acknowledged", values)
    [] state \in {"open", "acknowledged"} /\ trigger.type = "resolve" ->
         Move("resolved", values)
    [] state = "open" /\ trigger.type = "open" /\ values.reason = "" ->
         Stay([values EXCEPT !.reason = trigger.reason])
    [] OTHER -> Stay(values)

Handler(key, now, trigger) ==
  IF key[1] = "deployments"
    THEN DeploymentHandler(now.state, now.values, trigger)
    ELSE IncidentHandler(now.state, now.values, trigger)

\* The one call to something external, which a region may not answer.
CallsOut(key, now, trigger) ==
  key[1] = "deployments" /\ now.state = "deploying" /\ trigger.type = "succeeded"

-----------------------------------------------------------------------------
(* Lines.                                                                  *)

IdleTurn == [pc |-> "idle"]
Taken(trigger) == [pc |-> "taken", trigger |-> trigger, attempt |-> 1]

\* A trigger is taken, waits, or is refused with INBOX_OVERFLOW.
Arrived(lines, key, trigger) ==
  IF lines[key].turn = IdleTurn THEN [lines EXCEPT ![key].turn = Taken(trigger)]
  ELSE IF Len(lines[key].waiting) < Capacity
    THEN [lines EXCEPT ![key].waiting = Append(@, trigger)]
  ELSE lines

\* A turn ends, its sender is told, and the next trigger is taken.
Ended(lines, key) ==
  IF lines[key].waiting = <<>> THEN [lines EXCEPT ![key].turn = IdleTurn]
  ELSE [lines EXCEPT ![key] = [turn |-> Taken(Head(@.waiting)),
                               waiting |-> Tail(@.waiting)]]

IdleLine == [turn |-> IdleTurn, waiting |-> <<>>]

\* Whether a sender awaits the outcome of a trigger.
Awaits(from) ==
  \E k \in Keys :
    \/ line[k].turn # IdleTurn /\ line[k].turn.trigger.from = from
    \/ \E i \in DOMAIN line[k].waiting : line[k].waiting[i].from = from

Phase(key, pc) == line[key].turn.pc = pc

May(what) == left[what] > 0 /\ left' = [left EXCEPT ![what] = @ - 1]

ServiceInit ==
  /\ instance = [k \in Keys |-> Nothing]
  /\ resident = [k \in Keys |-> Nothing]
  /\ line = [k \in Keys |-> IdleLine]
  /\ consumed = 0
  /\ pruning = [p \in Pruners |-> {}]
  /\ serving = TRUE
  /\ failures = [id \in Ids |-> <<>>]
  /\ cut = FALSE
  /\ left \in Bounds

-----------------------------------------------------------------------------
(* What a runtime does with a trigger.                                     *)

Now(key) ==
  IF instance[key] # Nothing THEN instance[key]
  ELSE [state |-> Definition[key[1]].initial, values |-> Definition[key[1]].values]

\* The record is loaded or initialized, and a type that the entity does not
\* list is refused with UNKNOWN_TRIGGER.
Start(key) ==
  /\ Phase(key, "taken")
  /\ instance' = [instance EXCEPT ![key] = Now(key)]
  /\ resident' = IF resident[key] # Nothing THEN resident ELSE
       [resident EXCEPT ![key] = [state |-> Now(key).state, fired |-> FALSE]]
  /\ line' = IF line[key].turn.trigger.type \in Definition[key[1]].triggers
                THEN [line EXCEPT ![key].turn.pc = "handling"]
                ELSE Ended(line, key)
  /\ UNCHANGED <<consumed, pruning, serving, failures, cut, left>>

\* callDeployApi throws: another attempt, or HANDLER_FAILED.
Throw(key) ==
  /\ Phase(key, "handling")
  /\ CallsOut(key, instance[key], line[key].turn.trigger)
  /\ instance[key].values.region = "unreachable"
  /\ line' = IF line[key].turn.attempt < MaxAttempts
                THEN [line EXCEPT ![key].turn.attempt = @ + 1]
                ELSE Ended(line, key)
  /\ UNCHANGED <<instance, resident, consumed, pruning, serving, failures, cut, left>>

\* A handler returns: what it asks for is refused with CONSTRAINT_VIOLATED, or
\* it is on the disk.
Return(key) ==
  /\ Phase(key, "handling")
  /\ LET now     == instance[key]
         trigger == line[key].turn.trigger
         result  == Handler(key, now, trigger)
         next    == [state  |-> IF result.kind = "stay" THEN now.state ELSE result.state,
                     values |-> result.values]
         fails   == next.state = "failed" /\ now.state # "failed"
     IN  /\ CallsOut(key, now, trigger) => now.values.region # "unreachable"
         /\ IF Rejected(CheckConstraints(CompiledEntity[key[1]], now.state, next, result))
              THEN /\ line' = Ended(line, key)
                   /\ UNCHANGED <<instance, failures>>
              ELSE /\ line' = [line EXCEPT ![key].turn.pc = "landed"]
                   /\ instance' = [instance EXCEPT ![key] = next]
                   /\ failures' = IF fails
                        THEN [failures EXCEPT ![key[2]] = Append(@, next.values.note)]
                        ELSE failures
  /\ UNCHANGED <<resident, consumed, pruning, serving, cut, left>>

Trigger(type, region, reason, from) ==
  [type |-> type, region |-> region, reason |-> reason, from |-> from]

\* incidentOpener, which sees every commit and not only moves.
Reactions(lines, key) ==
  IF key[1] = "deployments" /\ instance[key].state = "failed"
    THEN Arrived(lines, Incident(key[2]),
                 Trigger("open", Unset, instance[key].values.note, "reaction"))
    ELSE lines

\* The commit is applied, the audit sinks are handed it, and the sender is told.
Apply(key) ==
  /\ Phase(key, "landed")
  /\ resident' = [resident EXCEPT ![key] =
       [state |-> instance[key].state,
        fired |-> @.fired /\ @.state = instance[key].state]]
  /\ line' = Ended(Reactions(line, key), key)
  /\ UNCHANGED <<instance, consumed, pruning, serving, failures, cut, left>>

\* The memory budget: an idle record goes, and what it had fired with it.
Evict(key) ==
  /\ resident[key] # Nothing
  /\ line[key] = IdleLine
  /\ resident' = [resident EXCEPT ![key] = Nothing]
  /\ UNCHANGED <<instance, line, consumed, pruning, serving, failures, cut, left>>

-----------------------------------------------------------------------------
(* Who sends triggers.                                                     *)

Sends(key, trigger) ==
  /\ ~Awaits(trigger.from)
  /\ line' = Arrived(line, key, trigger)
  /\ UNCHANGED <<instance, resident, failures, cut>>

\* POST /deployments/:id, which wants a region.
Create(c, id, region) ==
  /\ serving
  /\ May("posts")
  /\ region \notin {"", Unset}
  /\ Sends(Deployment(id), Trigger("deploy", region, Unset, c))
  /\ UNCHANGED <<consumed, pruning, serving>>

\* POST /deployments/:id/events, which wants a type and passes the body on.
PostEvent(c, id, event) ==
  /\ serving
  /\ May("posts")
  /\ Sends(Deployment(id), Trigger(event.type, event.region, event.reason, c))
  /\ UNCHANGED <<consumed, pruning, serving>>

\* drainOnce: one message after the other, whatever became of the one before.
Consume ==
  /\ consumed < Len(Backlog)
  /\ consumed' = consumed + 1
  /\ LET message == Backlog[consumed + 1]
     IN  Sends(Deployment(message.id),
               Trigger(message.type, message.region, message.reason, "queue"))
  /\ UNCHANGED <<pruning, serving, left>>

\* A pass of the sweep comes to a deployment that is overdue.
Escalate(id) ==
  /\ ~Awaits("sweep")
  /\ resident[Deployment(id)] # Nothing
  /\ resident[Deployment(id)].state = "deploying"
  /\ ~resident[Deployment(id)].fired
  /\ resident' = [resident EXCEPT ![Deployment(id)].fired = TRUE]
  /\ line' = Arrived(line, Deployment(id), Trigger(OVERDUE, Unset, Unset, "sweep"))
  /\ UNCHANGED <<instance, consumed, pruning, serving, failures, cut, left>>

\* Somebody works on an incident through the handle the runtime exports.
Operate(id, type) ==
  /\ instance[Incident(id)] # Nothing
  /\ May("operations")
  /\ Sends(Incident(id), Trigger(type, Unset, Unset, "operator"))
  /\ UNCHANGED <<consumed, pruning, serving>>

-----------------------------------------------------------------------------
(* POST /ops/prune, and the end of the process.                            *)

IsRolledBack(id) ==
  instance[Deployment(id)] # Nothing /\ instance[Deployment(id)].state = "rolled-back"

\* The query: whatever is rolled back, and old enough.
AskPrune(p) ==
  /\ serving
  /\ pruning[p] = {}
  /\ May("prunes")
  /\ \E found \in (SUBSET {id \in Ids : IsRolledBack(id)}) \ {{}} :
       pruning' = [pruning EXCEPT ![p] = found]
  /\ UNCHANGED <<instance, resident, line, consumed, serving, failures, cut>>

\* forget(), of one key after the other: a busy one is reported and kept, and
\* the state it is in by now is not looked at.
Forget(p, id) ==
  /\ id \in pruning[p]
  /\ pruning' = [pruning EXCEPT ![p] = @ \ {id}]
  /\ IF line[Deployment(id)] = IdleLine
       THEN /\ instance' = [instance EXCEPT ![Deployment(id)] = Nothing]
            /\ resident' = [resident EXCEPT ![Deployment(id)] = Nothing]
       ELSE UNCHANGED <<instance, resident>>
  /\ UNCHANGED <<line, consumed, serving, failures, cut, left>>

\* The process is gone and started again: the backlog comes from its beginning.
Restarts ==
  /\ resident' = [k \in Keys |-> Nothing]
  /\ line' = [k \in Keys |-> IdleLine]
  /\ consumed' = 0
  /\ pruning' = [p \in Pruners |-> {}]
  /\ serving' = TRUE
  /\ cut' = TRUE
  /\ UNCHANGED <<instance, failures>>

Crash == May("stops") /\ Restarts

\* SIGTERM: the server accepts nothing more.
Shutdown ==
  /\ serving
  /\ May("stops")
  /\ serving' = FALSE
  /\ UNCHANGED <<instance, resident, line, consumed, pruning, failures, cut>>

\* It is closed once every request is answered; nothing else is waited for.
Exit ==
  /\ ~serving
  /\ \A c \in Clients : ~Awaits(c)
  /\ \A p \in Pruners : pruning[p] = {}
  /\ Restarts
  /\ UNCHANGED left

\* The bounds are used up.
Spent ==
  /\ \A what \in DOMAIN left \ {"prunes", "operations"} : left[what] = 0
  /\ UNCHANGED serviceVars

Runtime(key) == Start(key) \/ Throw(key) \/ Return(key) \/ Apply(key) \/ Evict(key)

ServiceNext ==
  \/ \E k \in Keys : Runtime(k)
  \/ \E c \in Clients, id \in Ids :
       \/ \E region \in Regions : Create(c, id, region)
       \/ \E event \in Posts : PostEvent(c, id, event)
  \/ Consume
  \/ \E id \in Ids :
       \/ Escalate(id)
       \/ \E type \in {"acknowledge", "resolve"} : Operate(id, type)
       \/ \E p \in Pruners : Forget(p, id)
  \/ \E p \in Pruners : AskPrune(p)
  \/ Crash
  \/ Shutdown
  \/ Exit
  \/ Spent

ServiceSpec == ServiceInit /\ [][ServiceNext]_serviceVars

-----------------------------------------------------------------------------

\* However often a deploy is delivered, by whatever producer and across
\* restarts, a deployment is deployed at most once in its life: the handlers of
\* live and rolled-back deployments try again, and the declared lifecycle
\* refuses it (entities/deployment.ts:125, workers/consumer.ts:39).
DeployedOncePerLife ==
  \A id \in Ids : instance[Deployment(id)] # Nothing =>
    instance[Deployment(id)].values.attempts <= 1

\* What a prune deletes is finished at the moment it is deleted, although the
\* query it acts on was answered before, and triggers, turns and restarts came
\* in between: one prune at a time is enough for that, two are not
\* (api/routes/ops.ts:94).
PruneTakesOnlyFinished ==
  [][\A id \in Ids :
       instance[Deployment(id)] # Nothing /\ instance'[Deployment(id)] = Nothing
         => IsRolledBack(id)]_serviceVars

Quiet(id) == line[Deployment(id)] = IdleLine /\ line[Incident(id)] = IdleLine

Reason(id) == IF instance[Incident(id)] = Nothing THEN ""
                                               ELSE instance[Incident(id)].values.reason

\* A failure opens an incident, and the incident says what went wrong first,
\* whatever is delivered again, however often the deployment is created anew
\* under the same id, and whatever is done about the incident: only a process
\* that stops in between loses it (lib/reactions.ts:13, entities/incident.ts:4).
IncidentTellsTheFirstFailure ==
  \A id \in Ids :
    /\ Reason(id) \in {""} \cup ToSet(failures[id])
    /\ ~cut /\ Quiet(id) /\ failures[id] # <<>> => Reason(id) = Head(failures[id])

=============================================================================
