----------------------------- MODULE MCDeclared -----------------------------
(***************************************************************************)
(* Instances of Declared for TLC: releases of an entity over the states a, *)
(* b and c whose value starts at 0 and may become 1.                       *)
(***************************************************************************)
EXTENDS Declared, TLC

Free == [transitions |-> Unset, guards |-> <<>>, invariants |-> <<>>,
         temporal |-> <<>>]

Plain == [states |-> <<"a", "b", "c">>, initial |-> "a", values |-> 0,
          triggers |-> Unset, onError |-> {}, constraints |-> Free]

Moves(policy, allow) ==
  [Plain EXCEPT !.constraints.transitions = [policy |-> policy, allow |-> allow]]

Chain == << <<"a", <<"b">>>>, <<"b", <<"c">>>> >>
Cycle == << <<"a", <<"b", "b">>>>, <<"b", <<"c", "a">>>>, <<"c", <<"a">>>> >>
Aside == << <<"a", <<"a">>>>, <<"b", <<"a", "c">>>>, <<"c", <<>>>> >>

\* A check: whether it holds for 0 and for 1, and how it does not.
Wants(v, otherwise) == [x \in {0, 1} |-> IF x = v THEN "true" ELSE otherwise]

Guard(on, from, policy, check) ==
  [name |-> Unset, on |-> on, from |-> from, policy |-> policy, check |-> check]

Invariant(in, policy, check) ==
  [name |-> Unset, in |-> in, policy |-> policy, check |-> check]

Bound(in, escalateTo, policy) ==
  [name |-> Unset, in |-> in, within |-> 1, escalateTo |-> escalateTo,
   trigger |-> Unset, policy |-> policy]

Checked(d, guards, invariants) ==
  [d EXCEPT !.constraints.guards = guards,
            !.constraints.invariants = invariants]

Timed(d, temporal) == [d EXCEPT !.constraints.temporal = temporal]

Recovering(d, classes) == [d EXCEPT !.onError = classes]

\* Edges of every policy, and what is refused when the entity is defined.
Edges == {Moves(p, allow) : p \in {Unset, "warn", "off"},
                            allow \in {Chain, Cycle, Aside}}

Misdeclared ==
  {Moves(Unset, <<>>), Moves("bogus", Chain), Moves("warn", << <<"a", <<"x">>>> >>),
   [Plain EXCEPT !.states = <<>>], [Plain EXCEPT !.initial = "x"],
   [Plain EXCEPT !.triggers = {}],
   Checked(Plain, <<Guard("x", Unset, "off", Wants(0, "false"))>>, <<>>),
   Checked(Plain, <<>>, <<Invariant(<<"x">>, Unset, Wants(0, "false"))>>)}

Escalating ==
  {Timed(Moves(p, Chain), <<Bound("a", to, q)>>) :
     p \in {Unset, "warn"}, to \in {"b", "c", Unset}, q \in {Unset, "off"}}

Checking ==
  LET Guards(p, q) == <<Guard("b", Unset, p, Wants(1, "throws")),
                        Guard("b", <<"a">>, q, Wants(0, "reason"))>>
      Invariants(p, v) == <<Invariant(<<"b">>, p, Wants(v, "false")),
                         Invariant(Unset, "warn", Wants(0, "reason"))>>
  IN  {Recovering(Checked(Moves(t, Chain), Guards(p, q), Invariants(r, v)), onError) :
         t \in {Unset, "warn"}, p \in {"warn", "off"}, q \in {Unset, "warn", "off"},
         r \in {Unset, "warn"}, v \in {0, 1}, onError \in {{}, {"*"}}}
      \cup {Recovering(Checked(Plain, <<>>, Invariants(Unset, 0)), {"Error"})}

Scoped == {Checked(Moves(p, Chain), <<Guard(on, <<"a">>, Unset, Wants(1, "false"))>>,
                   <<>>) : p \in {Unset, "warn"}, on \in {"b", "c"}}

\* A state is dropped, trigger types are listed.
Narrow == [Plain EXCEPT !.states = <<"a", "b">>, !.triggers = {"go"}]

OneRelease == {<<d>> : d \in Edges \cup Misdeclared \cup Escalating \cup
                             Checking \cup Scoped}

Adopting == {<<d, Adopt>> : d \in Edges \cup {Plain, Narrow}}
            \cup {<<Plain, Narrow>>, <<Moves("warn", Chain), Moves(Unset, Chain), Adopt>>}

Workflows == OneRelease \cup Adopting

=============================================================================
