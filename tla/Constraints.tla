---------------------------- MODULE Constraints ----------------------------
(***************************************************************************)
(* An entity's constraints (src/constraints.ts): how a declaration is      *)
(* validated and compiled when the entity is defined, and how a proposed   *)
(* commit is checked against what was compiled.                            *)
(*                                                                         *)
(* A declaration is a record of what the entity wrote, with Unset where a  *)
(* field was left out.  A check is a function from the proposed values to  *)
(* what running it gives: it returned true, false or a reason, or threw.   *)
(***************************************************************************)
EXTENDS StateGraph

CONSTANT Unset

ViolationPolicies == {"reject", "warn", "off"}

ASSUME UnsetAssumption == Unset \notin ViolationPolicies

ResolvePolicy(declared) == IF declared = Unset THEN "reject" ELSE declared

KnownPolicy(c) == ResolvePolicy(c.policy) \in ViolationPolicies

InForce(c) == ResolvePolicy(c.policy) # "off"

NamesOf(list) == IF list = Unset THEN <<>> ELSE list

DeclaredAll(graph, names) == \A n \in ToSet(names) : HasState(graph, n)

-----------------------------------------------------------------------------
(* Definition time.                                                        *)

\* compileTransitions: a constraint that is off is not looked at further, and
\* one that allows nothing at all is refused.
ValidTransitions(declared, graph) ==
  declared # Unset =>
    /\ KnownPolicy(declared)
    /\ InForce(declared) =>
         /\ declared.allow # <<>>
         /\ \A entry \in ToSet(declared.allow) :
              HasState(graph, entry[1]) /\ DeclaredAll(graph, entry[2])

\* The overlay is installed on the entity's own states, and it is what the
\* rest of the declaration is held against, whatever its policy is.
WithEdges(declared, graph) ==
  IF declared = Unset \/ ~InForce(declared)
    THEN graph
    ELSE DeclareEdges(graph, declared.allow)

\* What a scoped guard conditions, and what an escalation asks for, is a move
\* of one step that the graph has.
GuardedEdge(graph, source, on) == Allows(graph, source, on)

Escalatable(graph, from, to) == Allows(graph, from, to)

\* compileGuards: a scope names edges the graph has, even of a guard that is
\* off and under an overlay that only warns.
ValidGuard(guard, graph) ==
  /\ KnownPolicy(guard)
  /\ HasState(graph, guard.on)
  /\ \A source \in ToSet(NamesOf(guard.from)) :
       HasState(graph, source) /\ GuardedEdge(graph, source, guard.on)

ValidInvariant(invariant, graph) ==
  KnownPolicy(invariant) /\ DeclaredAll(graph, NamesOf(invariant.in))

ValidTemporal(temporal, graph) ==
  /\ KnownPolicy(temporal)
  /\ HasState(graph, temporal.in)
  /\ temporal.escalateTo # Unset =>
       /\ HasState(graph, temporal.escalateTo)
       /\ Escalatable(graph, temporal.in, temporal.escalateTo)
  /\ temporal.within > 0

ValidConstraints(declared, states) ==
  LET graph == WithEdges(declared.transitions, states)
  IN  /\ ValidTransitions(declared.transitions, states)
      /\ \A g \in ToSet(declared.guards) : ValidGuard(g, graph)
      /\ \A i \in ToSet(declared.invariants) : ValidInvariant(i, graph)
      /\ \A t \in ToSet(declared.temporal) : ValidTemporal(t, graph)

\* A name says what the constraint covers: two on one state share it.
DefaultName(kind, scope) == <<kind, scope>>

\* What is off is not compiled.
Kept(list) == Picked(list, {i \in DOMAIN list : InForce(list[i])})

Named(c, kind, scope) == IF c.name = Unset THEN DefaultName(kind, scope)
                                           ELSE c.name

CompileGuards(guards) ==
  LET kept == Kept(guards)
  IN  [n \in DOMAIN kept |-> LET g == kept[n] IN
         [kind |-> "guard", on |-> g.on, from |-> g.from,
          name |-> Named(g, "guard", <<g.from, g.on>>),
          policy |-> ResolvePolicy(g.policy), check |-> g.check]]

CompileInvariants(invariants) ==
  LET kept == Kept(invariants)
  IN  [n \in DOMAIN kept |-> LET i == kept[n] IN
         [kind |-> "invariant", in |-> i.in,
          name |-> Named(i, "invariant", i.in),
          policy |-> ResolvePolicy(i.policy), check |-> i.check]]

CompileTemporal(temporal) ==
  LET kept == Kept(temporal)
  IN  [n \in DOMAIN kept |-> LET t == kept[n] IN
         [in |-> t.in, escalateTo |-> t.escalateTo,
          name |-> Named(t, "temporal", t.in),
          policy |-> ResolvePolicy(t.policy)]]

\* compileConstraints: policies resolved, names derived, "off" removed.  With
\* nothing left the lists are empty, which is checked like no constraints.
CompileConstraints(declared, states) ==
  [graph      |-> WithEdges(declared.transitions, states),
   edgePolicy |-> IF declared.transitions = Unset THEN "off"
                  ELSE ResolvePolicy(declared.transitions.policy),
   guards     |-> CompileGuards(declared.guards),
   invariants |-> CompileInvariants(declared.invariants),
   temporal   |-> CompileTemporal(declared.temporal)]

-----------------------------------------------------------------------------
(* Commit time.                                                            *)

Violation(kind, name, policy) == [kind |-> kind, name |-> name, policy |-> policy]

Mutant_Halted(violations) == violations # <<>>

\* A walk stops at the first refusal, so a refusal can only come last.
Halted(violations) == violations # <<>> /\ Last(violations).policy = "reject"

\* Anything but true is a violation, a check that throws included.
Holds(constraint, values) == constraint.check[values] = "true"

\* In declaration order, over those that apply and do not hold.
Walk(found, constraints, failing) ==
  FoldLeft(LAMBDA acc, c : IF Halted(acc) \/ c \notin failing THEN acc
                           ELSE Append(acc, Violation(c.kind, c.name, c.policy)),
           found, constraints)

CheckGraph(compiled, fromId, to) ==
  IF compiled.edgePolicy = "off" \/ AllowsFrom(compiled.graph, fromId, to)
    THEN <<>>
    ELSE <<Violation("transition", <<"transitions">>, compiled.edgePolicy)>>

\* No scope means any source state; an empty one means none.
AppliesFrom(guard, from) == guard.from = Unset \/ Contains(guard.from, from)

AppliesIn(invariant, state) ==
  invariant.in = Unset \/ Contains(invariant.in, state)

Mutant_GatesInvariants(result) == result.kind = "transitionTo"

\* What invariants gate: a move, or new values.
GatesInvariants(result) ==
  result.kind = "transitionTo" \/ result.values # Unset

WalkGuards(found, compiled, from, next) ==
  Walk(found, compiled.guards,
       {g \in ToSet(compiled.guards) : /\ g.on = next.state
                                       /\ AppliesFrom(g, from)
                                       /\ ~Holds(g, next.values)})

WalkInvariants(found, compiled, next) ==
  Walk(found, compiled.invariants,
       {i \in ToSet(compiled.invariants) : /\ AppliesIn(i, next.state)
                                           /\ ~Holds(i, next.values)})

\* checkConstraints: the graph, then guards, then invariants.
CheckConstraints(compiled, from, next, result) ==
  LET moved == IF result.kind # "transitionTo" THEN <<>>
               ELSE WalkGuards(CheckGraph(compiled, IdOf(compiled.graph, from),
                                          next.state),
                               compiled, from, next)
  IN  IF GatesInvariants(result) THEN WalkInvariants(moved, compiled, next)
                                 ELSE moved

Rejected(violations) == \E v \in ToSet(violations) : v.policy = "reject"

=============================================================================
