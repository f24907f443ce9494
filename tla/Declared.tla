------------------------------ MODULE Declared ------------------------------
(***************************************************************************)
(* One instance of an entity under the constraints the entity declares,    *)
(* over several releases of the entity: defineEntity (src/entity.ts), the  *)
(* verdict on what handlers and error handlers return (src/dispatch.ts),   *)
(* the events a key's stream keeps of it, and the edges folded out of the  *)
(* stream and declared by the next release (src/observed.ts).              *)
(*                                                                         *)
(* Attempts, retries, tokens and the store are Dispatch's: here a turn is  *)
(* one attempt that may commit, and the stream outlives the process.       *)
(***************************************************************************)
EXTENDS Constraints

CONSTANTS
  Releases,   \* what may be released, one definition after another
  Adopt,      \* a release that declares the edges observed so far
  Types,      \* the trigger types that are sent
  Names,      \* the state names handlers return
  Values,     \* the values handlers return
  MaxEvents,  \* bound: the stream is this long when the last turn begins
  None

\* What defineEntity is handed has these fields, whatever is in them.
IsDefinition(d) ==
  /\ {"states", "initial", "values", "constraints"} \subseteq DOMAIN d
  /\ {"transitions", "guards", "invariants"} \subseteq DOMAIN d.constraints
  /\ IsList(d.states)
  /\ IsList(d.constraints.guards)
  /\ IsList(d.constraints.invariants)
  /\ d.constraints.transitions # Unset =>
       LET allow == d.constraints.transitions.allow
       IN  /\ IsList(allow)
           /\ \A entry \in ToSet(allow) : IsList(entry[2])
           /\ \A i, j \in DOMAIN allow : allow[i][1] = allow[j][1] => i = j

ASSUME ReleasesAssumption ==
  \A r \in Releases :
    IsList(r) /\ \A d \in ToSet(r) : d = Adopt \/ IsDefinition(d)

VARIABLES
  releases,   \* the releases to come
  definition, \* the definition of the running release
  since,      \* the length of the stream when it was released
  adopted,    \* whether it was released with the observed edges
  state,      \* the state of the instance
  values,     \* its values
  stream,     \* the key's durable stream
  turn        \* the turn in progress and what its handler returned

vars == <<releases, definition, since, adopted, state, values, stream, turn>>

\* The results a handler may return.
Results ==
  [kind: {"transitionTo"}, state: Names, values: Values \cup {Unset}] \cup
  [kind: {"stay"}, values: Values \cup {Unset}] \cup
  [kind: {"fail"}]

NoTurn == [pc |-> "idle", result |-> None]

TransitionEvent(from, to) == [type |-> "transition", from |-> from, to |-> to]

ViolationEvent(v, from, to) ==
  [type |-> "violation", kind |-> v.kind, name |-> v.name, policy |-> v.policy,
   from |-> from, to |-> to]

RejectedEvent(code) == [type |-> "rejected", code |-> code]

Transitions(events) ==
  {e \in ToSet(events) : e.type = "transition" /\ e.from # None}

-----------------------------------------------------------------------------
(* Observed edges.                                                         *)

RefusedEdges(events) ==
  {<<e.from, e.to>> : e \in {v \in ToSet(events) :
     v.type = "violation" /\ v.kind = "transition" /\ v.policy = "reject"}}

Mutant_ObserveEdges(events) ==
  [taken   |-> {<<e.from, e.to>> : e \in
                  {t \in Transitions(events) : t.from # t.to}},
   refused |-> RefusedEdges(events)]

\* observeEdges: what committed, whatever was warned about it, and what a
\* rejecting constraint refused.  Initialization is not a move.
ObserveEdges(events) ==
  [taken   |-> {<<e.from, e.to>> : e \in Transitions(events)},
   refused |-> RefusedEdges(events)]

\* allowFrom: a row for every state that something left.
AllowFrom(observed) ==
  LET Row(from) == <<from, SetToSeq({e[2] : e \in
                     {t \in observed.taken : t[1] = from}})>>
  IN  SetToSeq({Row(e[1]) : e \in observed.taken})

-----------------------------------------------------------------------------
(* Definitions.                                                            *)

\* defineEntity: states, an initial one among them, trigger types if there is
\* a list of them, and constraints that name what there is.
Accepted(d) ==
  /\ d.states # <<>>
  /\ d.initial # Unset
  /\ Contains(d.states, d.initial)
  /\ d.triggers # {}
  /\ ValidConstraints(d.constraints, StatesOf(d.states))

\* The constraints of the running release.
Entity == CompileConstraints(definition.constraints, StatesOf(definition.states))

Released == IF Head(releases) # Adopt THEN Head(releases) ELSE
  [definition EXCEPT !.constraints.transitions =
     [policy |-> Unset, allow |-> AllowFrom(ObserveEdges(stream))]]

\* resolveErrorHandler: by classification, then the fallback.
ErrorHandlerFor(class) ==
  CASE class \in definition.onError -> class
    [] class \notin definition.onError /\ "*" \in definition.onError -> "*"
    [] OTHER -> None

Init ==
  /\ releases \in Releases
  /\ definition = None
  /\ since = 0
  /\ adopted = FALSE
  /\ state = None
  /\ values = None
  /\ stream = <<>>
  /\ turn = NoTurn

\* The process restarts with the next release, in the middle of a turn or
\* not.  A definition that is refused never runs, and the old process does.
Release ==
  /\ releases # <<>>
  /\ releases' = Tail(releases)
  /\ IF (Head(releases) = Adopt => definition # None) /\ Accepted(Released)
       THEN /\ definition' = Released
            /\ since' = Len(stream)
            /\ adopted' = (Head(releases) = Adopt)
            /\ turn' = NoTurn
       ELSE UNCHANGED <<definition, since, adopted, turn>>
  /\ UNCHANGED <<state, values, stream>>

-----------------------------------------------------------------------------
(* Turns.                                                                  *)

\* A key nothing holds is initialized: a commit no constraint looks at.
Initialize ==
  /\ definition # None
  /\ stream = <<>>
  /\ state' = definition.initial
  /\ values' = definition.values
  /\ stream' = <<TransitionEvent(None, definition.initial)>>
  /\ UNCHANGED <<releases, definition, since, adopted, turn>>

Idle == definition # None /\ turn.pc = "idle" /\ stream # <<>>

Recognizes(type) == definition.triggers = Unset \/ type \in definition.triggers

Handled == HasState(StatesOf(definition.states), state)

\* dispatch: the handler of the state the instance is in starts, or the
\* trigger is refused and the stream says so.
Dispatch(type) ==
  /\ Idle
  /\ Len(stream) < MaxEvents
  /\ IF Recognizes(type) /\ Handled
       THEN /\ turn' = [NoTurn EXCEPT !.pc = "handling"]
            /\ UNCHANGED stream
       ELSE /\ stream' = Append(stream, RejectedEvent(
                 IF Recognizes(type) THEN "UNKNOWN_STATE" ELSE "UNKNOWN_TRIGGER"))
            /\ UNCHANGED turn
  /\ UNCHANGED <<releases, definition, since, adopted, state, values>>

\* A handler returns, or the error handler of its failure does.
Returns(result) ==
  /\ turn.pc \in {"handling", "recovering"}
  /\ turn' = [pc |-> IF turn.pc = "handling" THEN "returned" ELSE "recovered",
              result |-> result]
  /\ UNCHANGED <<releases, definition, since, adopted, state, values, stream>>

\* handleFailure: one error handler at most, and none for its own failure.
FailureEnds(class) == turn.pc = "recovered" \/ ErrorHandlerFor(class) = None

Fails(class) ==
  turn' = IF FailureEnds(class) THEN NoTurn
                                ELSE [NoTurn EXCEPT !.pc = "recovering"]

\* What the result asks to commit: values it omits are carried forward.
Proposed(result) ==
  [state  |-> IF result.kind = "transitionTo" THEN result.state ELSE state,
   values |-> IF result.values = Unset THEN values ELSE result.values]

\* applyConstraints and commit: what does not hold is recorded, under a
\* warning as under a refusal, and what is not refused is committed.
Settle ==
  /\ turn.pc \in {"returned", "recovered"}
  /\ IF turn.result.kind = "fail"
       THEN Fails("Error") /\ UNCHANGED <<state, values, stream>>
       ELSE LET next  == Proposed(turn.result)
                found == CheckConstraints(Entity, state, next, turn.result)
                noted == stream \o [i \in DOMAIN found |->
                           ViolationEvent(found[i], state, next.state)]
            IN  IF Rejected(found)
                  THEN /\ stream' = noted
                       /\ Fails("ConstraintViolationError")
                       /\ UNCHANGED <<state, values>>
                  ELSE /\ stream' = Append(noted,
                                           TransitionEvent(state, next.state))
                       /\ state' = next.state
                       /\ values' = next.values
                       /\ turn' = NoTurn
  /\ UNCHANGED <<releases, definition, since, adopted>>

\* Nothing more is sent and nothing more is released.
Rest ==
  /\ releases = <<>>
  /\ definition # None => Len(stream) >= MaxEvents /\ turn.pc = "idle"
  /\ UNCHANGED vars

Next ==
  \/ Release
  \/ Initialize
  \/ \E type \in Types : Dispatch(type)
  \/ \E result \in Results : Returns(result)
  \/ Settle
  \/ Rest

Spec == Init /\ [][Next]_vars

-----------------------------------------------------------------------------

\* The instance has only ever lived under the running release.
Founded == definition # None /\ since = 0 /\ stream # <<>>

\* What the declaration, read word by word, says of a result: the guards and
\* invariants that are not met, and whether the move itself is not allowed.
Unmet(constraints, Applies(_), vs) ==
  {c \in ToSet(constraints) :
     c.policy # "off" /\ Applies(c) /\ c.check[vs] # "true"}

MoveDeclared(from, to) ==
  \E entry \in ToSet(definition.constraints.transitions.allow) :
    entry[1] = from /\ Contains(entry[2], to)

EdgeUnmet(result) ==
  LET t == definition.constraints.transitions
  IN  IF result.kind = "transitionTo" /\ t # Unset
        THEN IF t.policy # "off" /\ ~MoveDeclared(state, result.state) THEN {t} ELSE {}
        ELSE {}

GuardsUnmet(result) ==
  Unmet(definition.constraints.guards, LAMBDA g :
    /\ result.kind = "transitionTo" /\ g.on = result.state
    /\ g.from # Unset => Contains(g.from, state), Proposed(result).values)

InvariantsUnmet(result) ==
  LET next == Proposed(result)
  IN  Unmet(definition.constraints.invariants, LAMBDA i :
        /\ result.kind = "transitionTo" \/ result.values # Unset
        /\ i.in # Unset => Contains(i.in, next.state), next.values)

AllUnmet(result) ==
  EdgeUnmet(result) \cup GuardsUnmet(result) \cup InvariantsUnmet(result)

\* What is to be said of them when they only warn.
Warnings(result) ==
  {Violation("transition", <<"transitions">>, "warn") : t \in EdgeUnmet(result)}
  \cup {Violation("guard", Named(g, "guard", <<g.from, g.on>>), "warn") :
          g \in GuardsUnmet(result)}
  \cup {Violation("invariant", Named(i, "invariant", i.in), "warn") :
          i \in InvariantsUnmet(result)}

Judged == turn.pc \in {"returned", "recovered"} /\ turn.result.kind # "fail"

\* A result, of a handler or of the error handler that recovers from one, is
\* committed exactly when no rejecting constraint the entity declares is
\* unmet, and a refusal is the last thing the stream says of it: neither the
\* order constraints come in nor a warning found first hides one that rejects.
\* Before a commit the stream notes the warnings it ignored, all of them and
\* nothing else.
VerdictFollowsTheDeclaration ==
  [][Judged /\ stream' # stream =>
       LET next  == Proposed(turn.result)
           noted == {stream'[i] : i \in Len(stream) + 1 .. Len(stream') - 1}
       IN  IF \E c \in AllUnmet(turn.result) : c.policy \in {Unset, "reject"}
             THEN /\ <<state, values>>' = <<state, values>>
                  /\ Last(stream').type = "violation"
                  /\ Last(stream').policy = "reject"
             ELSE /\ <<state, values>>' = <<next.state, next.values>>
                  /\ Last(stream') = TransitionEvent(state, next.state)
                  /\ noted = {ViolationEvent(v, state, next.state) :
                                v \in Warnings(turn.result)}
    ]_vars

\* What analyze() says of an entity is true of its instances while rejecting
\* edges are in force: a state it calls unreachable is never entered, and a
\* state it calls terminal is never left.
UnreachableStaysEmpty ==
  Founded /\ Entity.edgePolicy = "reject" =>
    LET shape == Analyze(Entity.graph, definition.initial)
    IN  /\ state \notin shape.unreachable
        /\ \A e \in Transitions(stream) : /\ e.to \notin shape.unreachable
                                          /\ e.from \in shape.terminals => e.to = e.from

\* Once a result was checked the instance never rests on values that a
\* rejecting invariant of its state refuses: omitted values, stays, warnings
\* and recoveries included.  Only the initial values are nobody's to check.
InvariantsHoldOnceChecked ==
  Founded /\ (values # definition.values \/
              \E e \in Transitions(stream) : e.from # e.to) =>
    \A i \in ToSet(Entity.invariants) :
      i.policy = "reject" /\ AppliesIn(i, state) => Holds(i, values)

\* The discovery workflow: after the observed edges are declared, no move the
\* stream shows to have committed before is refused by the graph, and the
\* diagram of the new release has no observed edge left to draw.
ObservedMovesStayOpen ==
  adopted =>
    LET before == {<<e.from, e.to>> : e \in Transitions(SubSeq(stream, 1, since))}
    IN  /\ EdgesOf(Entity.graph, before).observed = {}
        /\ before \cap RefusedEdges(SubSeq(stream, since + 1, Len(stream))) = {}

=============================================================================
