--------------------------- MODULE DeclaredProofs ---------------------------
(***************************************************************************)
(* Proofs about Declared, for any releases of an entity: any states,       *)
(* edges, guards and invariants under any policy, any handlers that return *)
(* anything, and any restarts.  Then proofs about DeployService, whose two *)
(* entities are compiled and checked by the same operators: for any ids,   *)
(* clients, workers and pruners, any backlog, and any stops.               *)
(***************************************************************************)
EXTENDS Declared, DeployService, DataProofs

-----------------------------------------------------------------------------
(* Lists that became Sets.                                                 *)

\* A list that became a Set has the elements of the list.
LEMMA DedupeKeepsElements ==
  ASSUME NEW S, NEW list \in Seq(S)
  PROVE  Dedupe(list) \in Seq(S) /\ ToSet(Dedupe(list)) = ToSet(list)
<1> DEFINE First == {i \in DOMAIN list : \A j \in 1 .. i - 1 : list[j] # list[i]}
<1>1. /\ Picked(list, First) \in Seq(S)
      /\ \A x : x \in ToSet(Picked(list, First)) <=>
                  \E i \in 1 .. Len(list) : i \in First /\ list[i] = x
  <2> HIDE DEF First
  <2> QED  BY PickedElements
<1>2. \A x : x \in ToSet(list) <=> \E i \in 1 .. Len(list) : list[i] = x
  BY Elements
<1>3. ASSUME NEW i \in 1 .. Len(list)
      PROVE  \E k \in 1 .. Len(list) : k \in First /\ list[k] = list[i]
  <2> DEFINE Same == {k \in 1 .. Len(list) : list[k] = list[i]}
  <2>1. Same \subseteq Nat /\ Same # {}
    OBVIOUS
  <2>2. PICK k \in Same : \A n \in Same : k <= n
    <3> HIDE DEF Same
    <3> QED  BY <2>1, LeastOfNaturals
  <2>3. \A j \in 1 .. k - 1 : list[j] # list[k]
    <3> SUFFICES ASSUME NEW j \in 1 .. k - 1, list[j] = list[k] PROVE FALSE
      OBVIOUS
    <3>1. j \in Same
      BY <2>2
    <3> QED  BY <2>2, <3>1
  <2> QED  BY <2>3
<1>4. \A x : x \in ToSet(Dedupe(list)) <=> x \in ToSet(list)
  BY <1>1, <1>2, <1>3 DEF Dedupe
<1> QED  BY <1>1, <1>4 DEF Dedupe

-----------------------------------------------------------------------------
(* What a walk finds.                                                      *)

Found1(v, c, failing) ==
  IF Halted(v) \/ c \notin failing THEN v
  ELSE Append(v, Violation(c.kind, c.name, c.policy))

\* What was found among the first constraints, one after the other.
AreFound(m, found, constraints, failing) ==
  /\ m[0] = found
  /\ \A i \in 1 .. Len(constraints) : m[i] = Found1(m[i - 1], constraints[i], failing)
  /\ Walk(found, constraints, failing) = m[Len(constraints)]

LEMMA WalksOneByOne ==
  ASSUME NEW S, NEW list \in Seq(S), NEW found, NEW failing
  PROVE  \E m : AreFound(m, found, list, failing)
<1> DEFINE last == Len(list)
           Next1(g, s) == IF s = {} THEN found
                          ELSE Found1(g[s \ {Max(s)}], list[Max(s)], failing)
           IsFoldOn(g, D) == g = [s \in SUBSET D |-> Next1(g, s)]
           IsFold(g, n) == IsFoldOn(g, 1 .. n)
<1>0. last \in Nat /\ DOMAIN list = 1 .. last
  OBVIOUS
<1>1. \A n \in 0 .. last : \E g : IsFold(g, n)
  <2> DEFINE Good == {n \in 0 .. last : \E g : IsFold(g, n)}
  <2>1. 0 \in Good
    <3> DEFINE g0 == [s \in SUBSET (1 .. 0) |-> found]
    <3>1. SUBSET (1 .. 0) = {{}}
      OBVIOUS
    <3>2. \A s \in SUBSET (1 .. 0) : Next1(g0, s) = found
      BY <3>1
    <3>3. IsFold(g0, 0)
      BY <3>2
    <3> QED  BY <1>0, <3>3
  <2>2. ASSUME NEW n \in 0 .. last - 1, n \in Good
        PROVE  n + 1 \in Good
    <3>1. PICK g : IsFold(g, n)
      BY <2>2
    <3> DEFINE D == SUBSET (1 .. n + 1)
               h == [s \in D |->
                       IF n + 1 \in s
                         THEN Found1(g[s \ {n + 1}], list[n + 1], failing)
                         ELSE g[s]]
    <3>2. ASSUME NEW s \in D
          PROVE  h[s] = Next1(h, s)
      <4>1. CASE n + 1 \in s
        <5>1. Max(s) = n + 1
          BY <2>2, <4>1, GreatestOfInterval
        <5>2. s \ {n + 1} \in SUBSET (1 .. n) /\ s \ {n + 1} \in D
          BY <2>2
        <5>3. h[s \ {n + 1}] = g[s \ {n + 1}]
          BY <5>2
        <5> QED  BY <4>1, <5>1, <5>3
      <4>2. CASE n + 1 \notin s
        <5>1. s \in SUBSET (1 .. n)
          BY <2>2, <4>2
        <5>2. h[s] = Next1(g, s)
          BY <3>1, <4>2, <5>1
        <5>3. CASE s # {}
          <6>1. s \ {Max(s)} \in D /\ n + 1 \notin s \ {Max(s)}
            BY <5>1, <4>2
          <6>2. h[s \ {Max(s)}] = g[s \ {Max(s)}]
            BY <6>1
          <6> QED  BY <5>2, <5>3, <6>2
        <5> QED  BY <5>2, <5>3
      <4> QED  BY <4>1, <4>2
    <3>3. IsFold(h, n + 1)
      <4>1. h = [s \in D |-> h[s]]
        OBVIOUS
      <4> HIDE DEF h, Next1
      <4>2. h = [s \in D |-> Next1(h, s)]
        BY <3>2, <4>1
      <4> QED  BY <4>2
    <3>4. n + 1 \in 0 .. last
      BY <1>0, <2>2
    <3> QED  BY <3>3, <3>4
  <2> HIDE DEF Good
  <2>3. \A n \in 0 .. last : n \in Good
    BY <1>0, <2>1, <2>2, UpTo
  <2> QED  BY <2>3 DEF Good
<1> DEFINE G == CHOOSE g : IsFoldOn(g, DOMAIN list)
<1>2. G = [s \in SUBSET (1 .. last) |-> Next1(G, s)]
  <2>1. \E g : IsFoldOn(g, DOMAIN list)
    <3> HIDE DEF IsFoldOn
    <3>1. PICK g : IsFoldOn(g, 1 .. last)
      <4>1. last \in 0 .. last
        BY <1>0
      <4> HIDE DEF last
      <4> QED  BY <1>1, <4>1
    <3>2. IsFoldOn(g, DOMAIN list)
      BY <1>0, <3>1
    <3> QED  BY <3>2
  <2> HIDE DEF IsFoldOn
  <2>2. IsFoldOn(G, DOMAIN list)
    BY <2>1
  <2> QED  BY <1>0, <2>2 DEF IsFoldOn
<1>3. Walk(found, list, failing) = G[1 .. last]
  <2>1. Walk(found, list, failing) = G[DOMAIN list]
    BY DEF Walk, FoldLeft, MapThenFoldSet, Found1
  <2> QED  BY <1>0, <2>1
<1> HIDE DEF G
<1>4. G[1 .. 0] = found
  BY <1>0, <1>2
<1>5. ASSUME NEW i \in 1 .. last
      PROVE  G[1 .. i] = Found1(G[1 .. i - 1], list[i], failing)
  <2>1. 1 .. i \in SUBSET (1 .. last) /\ 1 .. i - 1 \in SUBSET (1 .. last)
        /\ i \in 1 .. i
    BY <1>0
  <2>2. Max(1 .. i) = i
    BY <1>0 DEF Max
  <2>3. (1 .. i) \ {i} = 1 .. i - 1
    BY <1>0
  <2> QED  BY <1>2, <2>1, <2>2, <2>3
<1> DEFINE m == [i \in 0 .. last |-> G[1 .. i]]
<1>6. m[0] = found /\ m[last] = G[1 .. last]
  BY <1>0, <1>4
<1>7. \A i \in 1 .. last : m[i] = Found1(m[i - 1], list[i], failing)
  BY <1>0, <1>5
<1> HIDE DEF m
<1> QED  BY <1>3, <1>6, <1>7 DEF AreFound

LEMMA LastOfAppend ==
  ASSUME NEW S, NEW list \in Seq(S), NEW x
  PROVE  Append(list, x) # <<>> /\ Last(Append(list, x)) = x
<1> DEFINE T == S \cup {x}
           new == Append(list, x)
<1>1. list \in Seq(T) /\ x \in T
  BY SeqMonotonic
<1> HIDE DEF T
<1>2. /\ new # <<>> /\ Len(new) = Len(list) + 1
      /\ new[Len(list) + 1] = x
  BY <1>1, AppendProperties
<1> QED  BY <1>2 DEF Last

\* What is found is of a constraint that fails, and none that rejects is missed
\* although a walk stops at the first of them, which comes last.
LEMMA WalkFinds ==
  ASSUME NEW V, NEW found \in Seq(V), NEW C, NEW constraints \in Seq(C), NEW failing,
         \A c \in C : Violation(c.kind, c.name, c.policy) \in V
  PROVE  LET w == Walk(found, constraints, failing)
         IN  /\ w \in Seq(V) /\ ToSet(found) \subseteq ToSet(w)
             /\ \A v \in ToSet(w) \ ToSet(found) :
                  \E c \in ToSet(constraints) \cap failing :
                    v = Violation(c.kind, c.name, c.policy)
             /\ (\E c \in ToSet(constraints) : c \in failing /\ c.policy = "reject")
                  => Rejected(w)
             /\ (Rejected(found) => Halted(found)) => (Rejected(w) => Halted(w))
             /\ ~Rejected(w) => \A c \in ToSet(constraints) \cap failing :
                  Violation(c.kind, c.name, c.policy) \in ToSet(w)
<1> DEFINE last == Len(constraints)
           Of(v) == \E i \in 1 .. last :
              constraints[i] \in failing /\
              v = Violation(constraints[i].kind, constraints[i].name, constraints[i].policy)
           Seen(w, n) == \A i \in 1 .. n :
              constraints[i] \in failing /\ constraints[i].policy = "reject" => Rejected(w)
           Said(i) == Violation(constraints[i].kind, constraints[i].name, constraints[i].policy)
           Recorded(w, n) == Rejected(w) \/
             \A i \in 1 .. n : constraints[i] \in failing => Said(i) \in ToSet(w)
           Stops(w) == (Rejected(found) => Halted(found)) => (Rejected(w) => Halted(w))
           Right(w, n) == /\ w \in Seq(V) /\ ToSet(found) \subseteq ToSet(w)
                          /\ \A v \in ToSet(w) \ ToSet(found) : Of(v)
                          /\ Seen(w, n) /\ Recorded(w, n)
                          /\ Stops(w)
<1>1. PICK m : AreFound(m, found, constraints, failing)
  BY WalksOneByOne
<1> DEFINE Good == {n \in 0 .. last : Right(m[n], n)}
<1>2. last \in Nat /\ \A i \in 1 .. last : constraints[i] \in C
  OBVIOUS
<1>3. 0 \in Good
  <2>1. m[0] = found /\ 0 \in 0 .. last /\ 1 .. 0 = {}
    BY <1>1, <1>2 DEF AreFound
  <2> HIDE DEF Of, last
  <2> QED  BY <2>1
<1>4. ASSUME NEW n \in 0 .. last - 1, n \in Good PROVE n + 1 \in Good
  <2> DEFINE c == constraints[n + 1]
             w == m[n]
             v == Violation(c.kind, c.name, c.policy)
  <2>1. n + 1 \in 1 .. last /\ (n + 1) - 1 = n /\ n + 1 \in 0 .. last
    BY <1>2
  <2>2. m[n + 1] = Found1(w, c, failing) /\ c \in C /\ v \in V
    BY <1>1, <1>2, <2>1 DEF AreFound
  <2>3. Right(w, n)
    BY <1>4
  <2>4. 1 .. n + 1 = 1 .. n \cup {n + 1}
    BY <1>2
  <2>5. CASE Halted(w)
    <3>1. w[Len(w)] \in ToSet(w) /\ w[Len(w)].policy = "reject"
      <4>1. Len(w) \in 1 .. Len(w)
        BY <2>3, <2>5, EmptySeq DEF Halted
      <4>2. w[Len(w)] \in ToSet(w)
        BY <2>3, <4>1, Elements
      <4> QED  BY <2>5, <4>2 DEF Halted, Last
    <3>2. Rejected(w)
      BY <3>1 DEF Rejected
    <3>3. m[n + 1] = w
      BY <2>2, <2>5 DEF Found1
    <3> HIDE DEF Of, w
    <3> QED  BY <2>1, <2>3, <3>2, <3>3
  <2>6. CASE ~Halted(w) /\ c \notin failing
    <3>1. m[n + 1] = w
      BY <2>2, <2>6 DEF Found1
    <3>2. Seen(w, n + 1) /\ Recorded(w, n + 1)
      <4> HIDE DEF Said
      <4> QED  BY <2>3, <2>4, <2>6
    <3> HIDE DEF Of, w, Seen, Recorded
    <3> QED  BY <2>1, <2>3, <3>1, <3>2
  <2>7. CASE ~Halted(w) /\ c \in failing
    <3>1. m[n + 1] = Append(w, v)
      BY <2>2, <2>7 DEF Found1
    <3>2. m[n + 1] \in Seq(V \cup {v}) /\ ToSet(m[n + 1]) = ToSet(w) \cup {v}
      <4>1. \A x : \A l \in Seq(V) : Append(l, x) \in Seq(V \cup {x})
                                  /\ ToSet(Append(l, x)) = ToSet(l) \cup {x}
        BY ElementsOfAppend
      <4>2. w \in Seq(V)
        BY <2>3
      <4> HIDE DEF v, w
      <4> QED  BY <3>1, <4>1, <4>2
    <3>3. V \cup {v} = V
      BY <2>2
    <3>4. Of(v)
      BY <2>1, <2>7
    <3>5. Rejected(w) => Rejected(m[n + 1])
      BY <3>2 DEF Rejected
    <3>6. c.policy = "reject" => Rejected(m[n + 1])
      <4>1. v.policy = c.policy
        BY DEF Violation
      <4> HIDE DEF v
      <4> QED  BY <3>2, <4>1 DEF Rejected
    <3>7. Seen(m[n + 1], n + 1)
      BY <2>3, <2>4, <3>5, <3>6
    <3>10. Recorded(m[n + 1], n + 1)
      <4>1. v = Said(n + 1) /\ v \in ToSet(m[n + 1])
        <5>1. v = Said(n + 1)
          OBVIOUS
        <5> HIDE DEF v
        <5> QED  BY <3>2, <5>1
      <4> HIDE DEF v, w, Said
      <4> QED  BY <2>3, <2>4, <3>2, <3>5, <4>1
    <3>8. /\ m[n + 1] \in Seq(V) /\ ToSet(found) \subseteq ToSet(m[n + 1])
          /\ \A x \in ToSet(m[n + 1]) \ ToSet(found) : Of(x)
      <4> HIDE DEF v, w, Of
      <4> QED  BY <2>3, <3>2, <3>3, <3>4
    <3>9. Stops(m[n + 1])
      <4> SUFFICES ASSUME Rejected(found) => Halted(found), Rejected(m[n + 1])
                   PROVE  Halted(m[n + 1])
        OBVIOUS
      <4>1. ~Rejected(w)
        BY <2>3, <2>7
      <4>2. m[n + 1] # <<>> /\ Last(m[n + 1]) = v
        <5>1. \A x : \A l \in Seq(V) : Append(l, x) # <<>> /\ Last(Append(l, x)) = x
          BY LastOfAppend
        <5>2. w \in Seq(V)
          BY <2>3
        <5> HIDE DEF v, w
        <5> QED  BY <3>1, <5>1, <5>2
      <4> HIDE DEF v, w
      <4>3. v.policy = "reject"
        BY <3>2, <4>1 DEF Rejected
      <4> QED  BY <4>2, <4>3 DEF Halted
    <3> HIDE DEF Of, Seen, Recorded, Stops
    <3> QED  BY <2>1, <3>7, <3>8, <3>9, <3>10
  <2> QED  BY <2>5, <2>6, <2>7
<1>5. last \in Good
  <2> HIDE DEF Good, last
  <2>1. \A n \in 0 .. last : n \in Good
    BY <1>2, <1>3, <1>4, UpTo
  <2> QED  BY <1>2, <2>1
<1>6. Walk(found, constraints, failing) = m[last]
  BY <1>1 DEF AreFound
<1>7. \A x : x \in ToSet(constraints) <=> \E i \in 1 .. last : constraints[i] = x
  BY Elements
<1> DEFINE w == Walk(found, constraints, failing)
<1>8. Right(w, last)
  BY <1>5, <1>6
<1> HIDE DEF w, last
<1>9. (\E c \in ToSet(constraints) : c \in failing /\ c.policy = "reject") => Rejected(w)
  BY <1>7, <1>8
<1>10. \A v \in ToSet(w) \ ToSet(found) :
         \E c \in ToSet(constraints) \cap failing : v = Violation(c.kind, c.name, c.policy)
  BY <1>7, <1>8
<1>11. ~Rejected(w) => \A c \in ToSet(constraints) \cap failing :
         Violation(c.kind, c.name, c.policy) \in ToSet(w)
  BY <1>7, <1>8
<1> QED  BY <1>8, <1>9, <1>10, <1>11 DEF w

\* A walk refuses what was refused before it and what fails a constraint that
\* rejects, and nothing else.
LEMMA WalkDecides ==
  ASSUME NEW found, IsList(found), Rejected(found) => Halted(found),
         NEW constraints, IsList(constraints), NEW failing
  PROVE  LET w == Walk(found, constraints, failing)
         IN  /\ IsList(w)
             /\ Rejected(w) => Halted(w)
             /\ Rejected(w) <=>
                  \/ Rejected(found)
                  \/ \E c \in ToSet(constraints) : c \in failing /\ c.policy = "reject"
             /\ ~Rejected(w) => \A v : v \in ToSet(w) <=>
                  \/ v \in ToSet(found)
                  \/ \E c \in ToSet(constraints) :
                       c \in failing /\ v = Violation(c.kind, c.name, c.policy)
<1> DEFINE C == ToSet(constraints)
           Of(c) == Violation(c.kind, c.name, c.policy)
           V == ToSet(found) \cup {Of(c) : c \in C}
           w == Walk(found, constraints, failing)
<1>1. constraints \in Seq(C)
  BY DEF IsList
<1>2. found \in Seq(V)
  <2>1. found \in Seq(ToSet(found)) /\ ToSet(found) \subseteq V
    BY DEF IsList
  <2> HIDE DEF V
  <2> QED  BY <2>1, SeqMonotonic
<1>3. \A c \in C : Violation(c.kind, c.name, c.policy) \in V
  OBVIOUS
<1> HIDE DEF V
<1>4. /\ w \in Seq(V) /\ ToSet(found) \subseteq ToSet(w)
      /\ \A v \in ToSet(w) \ ToSet(found) :
           \E c \in ToSet(constraints) \cap failing : v = Violation(c.kind, c.name, c.policy)
      /\ (\E c \in ToSet(constraints) : c \in failing /\ c.policy = "reject")
           => Rejected(w)
      /\ (Rejected(found) => Halted(found)) => (Rejected(w) => Halted(w))
      /\ ~Rejected(w) => \A c \in ToSet(constraints) \cap failing :
           Violation(c.kind, c.name, c.policy) \in ToSet(w)
  <2> HIDE DEF C
  <2> QED  BY <1>1, <1>2, <1>3, WalkFinds
<1> HIDE DEF w
<1>5. IsList(w)
  BY <1>4, Elements
<1>6. \A c : Violation(c.kind, c.name, c.policy).policy = c.policy
  BY DEF Violation
<1>7. ASSUME Rejected(w), ~Rejected(found)
      PROVE  \E c \in ToSet(constraints) : c \in failing /\ c.policy = "reject"
  <2>1. PICK v \in ToSet(w) : v.policy = "reject"
    BY <1>7 DEF Rejected
  <2>2. v \notin ToSet(found)
    BY <1>7, <2>1 DEF Rejected
  <2>3. PICK c \in ToSet(constraints) \cap failing : v = Violation(c.kind, c.name, c.policy)
    BY <1>4, <2>1, <2>2
  <2> QED  BY <1>6, <2>1, <2>3
<1>8. Rejected(found) => Rejected(w)
  BY <1>4 DEF Rejected
<1>9. ~Rejected(w) => \A v : v \in ToSet(w) <=>
        \/ v \in ToSet(found)
        \/ \E c \in ToSet(constraints) :
             c \in failing /\ v = Violation(c.kind, c.name, c.policy)
  BY <1>4
<1> QED  BY <1>4, <1>5, <1>7, <1>8, <1>9 DEF w

\* Found for the edge, the guards and the invariants of a compiled entity.
IsCompiled(compiled) ==
  /\ IsList(compiled.guards) /\ IsList(compiled.invariants)
  /\ \A g \in ToSet(compiled.guards) : g.kind = "guard"
  /\ \A i \in ToSet(compiled.invariants) : i.kind = "invariant"

LEMMA CompiledAreLists ==
  ASSUME NEW d, IsDefinition(d)
  PROVE  IsCompiled(CompileConstraints(d.constraints, StatesOf(d.states)))
<1> DEFINE c == CompileConstraints(d.constraints, StatesOf(d.states))
           gs == d.constraints.guards
           is == d.constraints.invariants
           InForceAt(l) == {i \in DOMAIN l : InForce(l[i])}
           keptG == Picked(gs, InForceAt(gs))
           keptI == Picked(is, InForceAt(is))
<1>1. c.guards = CompileGuards(gs) /\ c.invariants = CompileInvariants(is)
  BY DEF CompileConstraints
<1>2. keptG \in Seq(ToSet(gs)) /\ keptI \in Seq(ToSet(is))
  <2>1. gs \in Seq(ToSet(gs)) /\ is \in Seq(ToSet(is))
    BY DEF IsDefinition, IsList
  <2> HIDE DEF gs, is, InForceAt
  <2> QED  BY <2>1, PickedElements
<1> DEFINE Guard1(g) == [kind |-> "guard", on |-> g.on, from |-> g.from,
                         name |-> Named(g, "guard", <<g.from, g.on>>),
                         policy |-> ResolvePolicy(g.policy), check |-> g.check]
           Invariant1(i) == [kind |-> "invariant", in |-> i.in,
                             name |-> Named(i, "invariant", i.in),
                             policy |-> ResolvePolicy(i.policy), check |-> i.check]
           G == {Guard1(g) : g \in ToSet(gs)}
           I == {Invariant1(i) : i \in ToSet(is)}
<1>3. c.guards = [i \in DOMAIN keptG |-> Guard1(keptG[i])]
  BY <1>1 DEF CompileGuards, Kept
<1>4. c.invariants = [i \in DOMAIN keptI |-> Invariant1(keptI[i])]
  BY <1>1 DEF CompileInvariants, Kept
<1> HIDE DEF c, keptG, keptI
<1>5. c.guards \in Seq(G)
  <2> HIDE DEF Guard1, gs
  <2>1. DOMAIN keptG = 1 .. Len(keptG) /\ Len(keptG) \in Nat
        /\ \A i \in 1 .. Len(keptG) : keptG[i] \in ToSet(gs)
    BY <1>2
  <2>2. c.guards \in [1 .. Len(keptG) -> G]
    BY <1>3, <2>1
  <2> HIDE DEF G
  <2> QED  BY <2>1, <2>2, SeqDef
<1>6. c.invariants \in Seq(I)
  <2> HIDE DEF Invariant1, is
  <2>1. DOMAIN keptI = 1 .. Len(keptI) /\ Len(keptI) \in Nat
        /\ \A i \in 1 .. Len(keptI) : keptI[i] \in ToSet(is)
    BY <1>2
  <2>2. c.invariants \in [1 .. Len(keptI) -> I]
    BY <1>4, <2>1
  <2> HIDE DEF I
  <2> QED  BY <2>1, <2>2, SeqDef
<1>7. (\A g \in G : g.kind = "guard") /\ (\A i \in I : i.kind = "invariant")
  <2>1. /\ \A g : Guard1(g).kind = "guard"
        /\ \A i : Invariant1(i).kind = "invariant"
    OBVIOUS
  <2> HIDE DEF Guard1, Invariant1
  <2> QED  BY <2>1
<1> HIDE DEF G, I
<1>8. IsList(c.guards) /\ ToSet(c.guards) \subseteq G
  BY <1>5, Elements
<1>9. IsList(c.invariants) /\ ToSet(c.invariants) \subseteq I
  BY <1>6, Elements
<1> QED  BY <1>7, <1>8, <1>9 DEF IsCompiled, c

\* What is found is a list; an edge is found to be undeclared where it is, and
\* every rejecting invariant that does not hold refuses.
LEMMA CheckFinds ==
  ASSUME NEW compiled, IsCompiled(compiled), NEW from, NEW next, NEW result
  PROVE  LET found == CheckConstraints(compiled, from, next, result)
             refused == /\ compiled.edgePolicy # "off"
                        /\ ~Allows(compiled.graph, from, next.state)
         IN  /\ IsList(found)
             /\ \A v \in ToSet(found) : v.kind = "transition" =>
                  refused /\ result.kind = "transitionTo"
             /\ refused /\ compiled.edgePolicy = "reject" /\ result.kind = "transitionTo"
                  => Rejected(found)
             /\ GatesInvariants(result) /\ ~Rejected(found) =>
                  \A i \in ToSet(compiled.invariants) :
                    i.policy = "reject" /\ AppliesIn(i, next.state) => Holds(i, next.values)
<1> DEFINE found == CheckConstraints(compiled, from, next, result)
           refused == /\ compiled.edgePolicy # "off"
                      /\ ~Allows(compiled.graph, from, next.state)
           edge == CheckGraph(compiled, IdOf(compiled.graph, from), next.state)
           v0 == Violation("transition", <<"transitions">>, compiled.edgePolicy)
           C == ToSet(compiled.guards)
           D == ToSet(compiled.invariants)
           All == {Violation(c.kind, c.name, c.policy) : c \in C \cup D}
           V == All \cup {v0}
           moved == IF result.kind # "transitionTo" THEN <<>>
                    ELSE WalkGuards(edge, compiled, from, next)
<1>1. edge = IF refused THEN <<v0>> ELSE <<>>
  BY DEF CheckGraph, Allows
<1>2. found = IF GatesInvariants(result) THEN WalkInvariants(moved, compiled, next)
                                         ELSE moved
  BY DEF CheckConstraints
<1>3. compiled.guards \in Seq(C) /\ compiled.invariants \in Seq(D)
  BY DEF IsCompiled, IsList
<1>4. v0.kind = "transition" /\ v0.policy = compiled.edgePolicy
  BY DEF Violation
<1>5. /\ \A c \in C \cup D : Violation(c.kind, c.name, c.policy) \in V
      /\ \A c \in C \cup D : Violation(c.kind, c.name, c.policy).kind # "transition"
  BY DEF Violation, IsCompiled
<1> DEFINE Right(w) == /\ w \in Seq(V)
                       /\ \A v \in ToSet(w) : v.kind = "transition" => v = v0 /\ refused
<1>6. Right(edge) /\ (refused => v0 \in ToSet(edge))
  <2>1. CASE refused
    <3>1. edge = <<v0>>
      BY <1>1, <2>1
    <3>2. <<v0>> \in Seq(V) /\ ToSet(<<v0>>) = {v0}
      <4> HIDE DEF v0
      <4> QED  BY DEF ToSet
    <3> HIDE DEF edge, v0
    <3> QED  BY <2>1, <3>1, <3>2
  <2>2. CASE ~refused
    <3>1. edge = <<>>
      BY <1>1, <2>2
    <3>2. ToSet(<<>>) = {}
      BY DEF ToSet
    <3> HIDE DEF edge
    <3> QED  BY <2>2, <3>1, <3>2
  <2> QED  BY <2>1, <2>2
<1>7. Right(<<>>)
  BY DEF ToSet
<1> HIDE DEF v0, refused, All, C, D
<1>8. ASSUME NEW w, Right(w)
      PROVE  LET g == WalkGuards(w, compiled, from, next)
             IN  Right(g) /\ ToSet(w) \subseteq ToSet(g)
  <2> DEFINE failing == {g \in ToSet(compiled.guards) : /\ g.on = next.state
                                       /\ AppliesFrom(g, from)
                                       /\ ~Holds(g, next.values)}
             g == Walk(w, compiled.guards, failing)
  <2>1. /\ g \in Seq(V) /\ ToSet(w) \subseteq ToSet(g)
        /\ \A v \in ToSet(g) \ ToSet(w) : \E c \in C : v = Violation(c.kind, c.name, c.policy)
    <3>1. \A c \in C : Violation(c.kind, c.name, c.policy) \in V
      BY <1>5
    <3>2. C = ToSet(compiled.guards)
      BY DEF C
    <3> HIDE DEF failing, V
    <3>3. /\ g \in Seq(V) /\ ToSet(w) \subseteq ToSet(g)
          /\ \A v \in ToSet(g) \ ToSet(w) :
               \E c \in ToSet(compiled.guards) \cap failing :
                 v = Violation(c.kind, c.name, c.policy)
      BY <1>3, <1>8, <3>1, WalkFinds
    <3> HIDE DEF g
    <3> QED  BY <3>2, <3>3
  <2>2. WalkGuards(w, compiled, from, next) = g
    BY DEF WalkGuards
  <2> HIDE DEF g, V
  <2>3. Right(g)
    BY <1>5, <1>8, <2>1
  <2> QED  BY <2>1, <2>2, <2>3
<1>9. ASSUME NEW w, Right(w)
      PROVE  LET g == WalkInvariants(w, compiled, next)
             IN  /\ Right(g) /\ ToSet(w) \subseteq ToSet(g)
                 /\ \A v \in ToSet(g) : v.kind = "transition" => v \in ToSet(w)
                 /\ ~Rejected(g) => \A i \in D :
                      i.policy = "reject" /\ AppliesIn(i, next.state) => Holds(i, next.values)
  <2> DEFINE failing == {i \in ToSet(compiled.invariants) : /\ AppliesIn(i, next.state)
                                                            /\ ~Holds(i, next.values)}
             g == Walk(w, compiled.invariants, failing)
  <2>1. /\ g \in Seq(V) /\ ToSet(w) \subseteq ToSet(g)
        /\ \A v \in ToSet(g) \ ToSet(w) : \E c \in D : v = Violation(c.kind, c.name, c.policy)
        /\ (\E c \in D : c \in failing /\ c.policy = "reject") => Rejected(g)
    <3>1. \A c \in D : Violation(c.kind, c.name, c.policy) \in V
      BY <1>5
    <3>2. D = ToSet(compiled.invariants)
      BY DEF D
    <3> HIDE DEF failing, V
    <3>3. /\ g \in Seq(V) /\ ToSet(w) \subseteq ToSet(g)
          /\ \A v \in ToSet(g) \ ToSet(w) :
               \E c \in ToSet(compiled.invariants) \cap failing :
                 v = Violation(c.kind, c.name, c.policy)
          /\ (\E c \in ToSet(compiled.invariants) : c \in failing /\ c.policy = "reject")
               => Rejected(g)
      BY <1>3, <1>9, <3>1, WalkFinds
    <3> HIDE DEF g
    <3> QED  BY <3>2, <3>3
  <2>2. WalkInvariants(w, compiled, next) = g
    BY DEF WalkInvariants
  <2>3. ~Rejected(g) => \A i \in D :
           i.policy = "reject" /\ AppliesIn(i, next.state) => Holds(i, next.values)
    <3> HIDE DEF g
    <3> QED  BY <2>1 DEF D
  <2> HIDE DEF g, V, failing
  <2>4. Right(g) /\ \A v \in ToSet(g) : v.kind = "transition" => v \in ToSet(w)
    BY <1>5, <1>9, <2>1
  <2> QED  BY <2>1, <2>2, <2>3, <2>4
<1> HIDE DEF edge, V
<1>10. /\ Right(moved)
       /\ result.kind = "transitionTo" => ToSet(edge) \subseteq ToSet(moved)
       /\ result.kind # "transitionTo" => ToSet(moved) = {}
  <2>1. CASE result.kind = "transitionTo"
    <3> HIDE DEF Right
    <3> QED  BY <1>6, <1>8, <2>1
  <2>2. CASE result.kind # "transitionTo"
    <3>1. ToSet(<<>>) = {}
      BY DEF ToSet
    <3> HIDE DEF Right
    <3> QED  BY <1>7, <2>2, <3>1
  <2> QED  BY <2>1, <2>2
<1>11. D = ToSet(compiled.invariants)
  BY DEF D
<1>12. /\ Right(found) /\ ToSet(moved) \subseteq ToSet(found)
       /\ \A v \in ToSet(found) : v.kind = "transition" => v \in ToSet(moved)
       /\ GatesInvariants(result) /\ ~Rejected(found) => \A i \in D :
            i.policy = "reject" /\ AppliesIn(i, next.state) => Holds(i, next.values)
  <2> HIDE DEF Right, found, moved
  <2>1. CASE GatesInvariants(result)
    BY <1>2, <1>9, <1>10, <2>1
  <2>2. CASE ~GatesInvariants(result)
    BY <1>2, <1>10, <2>2
  <2> QED  BY <2>1, <2>2
<1>13. found \in Seq(V)
  BY <1>12
<1>14. IsList(found)
  <2> HIDE DEF found
  <2> QED  BY <1>13, Elements
<1>15. ASSUME NEW v \in ToSet(found), v.kind = "transition"
       PROVE  refused /\ result.kind = "transitionTo"
  <2> HIDE DEF found, moved
  <2> QED  BY <1>10, <1>12, <1>15
<1>16. ASSUME refused, compiled.edgePolicy = "reject", result.kind = "transitionTo"
       PROVE  Rejected(found)
  <2> HIDE DEF found, moved
  <2>1. v0 \in ToSet(found) /\ v0.policy = "reject"
    BY <1>4, <1>6, <1>10, <1>12, <1>16
  <2> QED  BY <2>1 DEF Rejected
<1> HIDE DEF found
<1> QED  BY <1>11, <1>12, <1>14, <1>15, <1>16 DEF found, refused

-----------------------------------------------------------------------------
(* The graph of an entity that was accepted.                               *)

LEMMA FiniteImage ==
  ASSUME NEW S, IsFiniteSet(S), NEW f
  PROVE  IsFiniteSet({f[x] : x \in S})
<1> DEFINE g == [x \in S |-> f[x]]
           T == {f[x] : x \in S}
<1>1. g \in Surjection(S, T)
  BY DEF Surjection
<1> HIDE DEF g, T
<1>2. IsFiniteSet(T)
  BY <1>1, FS_Surjection
<1> QED  BY <1>2 DEF T

LEMMA ListIsFinite ==
  ASSUME NEW S, NEW list \in Seq(S)
  PROVE  IsFiniteSet(ToSet(list))
<1>1. DOMAIN list = 1 .. Len(list) /\ Len(list) \in Nat
  OBVIOUS
<1>2. IsFiniteSet(DOMAIN list)
  BY <1>1, FS_Interval
<1> QED  BY <1>2, FiniteImage DEF ToSet

\* Some list of the elements of a set.
LEMMA ListOfSet ==
  ASSUME NEW S, IsFiniteSet(S)
  PROVE  /\ SetToSeq(S) \in Seq(S) /\ ToSet(SetToSeq(S)) = S
         /\ \A i, j \in DOMAIN SetToSeq(S) : SetToSeq(S)[i] = SetToSeq(S)[j] => i = j
<1> DEFINE n == Cardinality(S)
           list == SetToSeq(S)
<1>1. n \in Nat /\ ExistsBijection(1 .. n, S)
  BY FS_CardinalityType
<1>2. \E f \in [1 .. n -> S] : IsInjective(f)
  BY <1>1 DEF ExistsBijection, Bijection, Injection
<1>3. list \in [1 .. n -> S] /\ IsInjective(list)
  BY <1>2 DEF SetToSeq
<1>4. list \in Injection(1 .. n, S)
  BY <1>3 DEF Injection
<1>5. IsFiniteSet(1 .. n) /\ Cardinality(1 .. n) = n
  BY <1>1, FS_Interval
<1> HIDE DEF list
<1>6. list \in Surjection(1 .. n, S)
  BY <1>4, <1>5, FS_Injection
<1>7. list \in Seq(S)
  BY <1>1, <1>3, SeqDef
<1>8. ToSet(list) = S
  BY <1>3, <1>6 DEF Surjection, ToSet
<1>9. \A i, j \in DOMAIN list : list[i] = list[j] => i = j
  BY <1>3 DEF IsInjective
<1> QED  BY <1>7, <1>8, <1>9 DEF list

\* Which entries of a declaration are about a state.
RowsOf(entries, name) == {i \in DOMAIN entries : entries[i][1] = name}

\* The last of them is the row of the state.
RowOf(entries, name) ==
  IF RowsOf(entries, name) = {} THEN <<>>
  ELSE Dedupe(entries[Max(RowsOf(entries, name))][2])

LEMMA EdgesAreRows ==
  ASSUME NEW graph, NEW entries
  PROVE  DeclareEdges(graph, entries) =
           [graph EXCEPT !.edges = [i \in DOMAIN graph.nodes |->
                                      RowOf(entries, graph.nodes[i])]]
BY DEF DeclareEdges, RowOf, RowsOf

\* The compiled graph has the states that were declared and leads from one to
\* those of its last entry, which are states.
LEMMA GraphIsDeclared ==
  ASSUME NEW d, IsDefinition(d), Accepted(d),
         d.constraints.transitions # Unset, InForce(d.constraints.transitions)
  PROVE  LET graph == CompileConstraints(d.constraints, StatesOf(d.states)).graph
             entries == d.constraints.transitions.allow
         IN  /\ IsList(graph.nodes) /\ HasEdges(graph)
             /\ ToSet(graph.nodes) = ToSet(d.states)
             /\ \A n, m : Contains(TargetsOf(graph, n), m) <=>
                  /\ n \in ToSet(d.states) /\ RowsOf(entries, n) # {}
                  /\ m \in ToSet(entries[Max(RowsOf(entries, n))][2])
             /\ \A n, m : Contains(TargetsOf(graph, n), m) => m \in ToSet(d.states)
             /\ \A n : IsList(TargetsOf(graph, n))
             /\ \A n : RowsOf(entries, n) # {} =>
                  Max(RowsOf(entries, n)) \in RowsOf(entries, n)
<1> DEFINE graph == CompileConstraints(d.constraints, StatesOf(d.states)).graph
           entries == d.constraints.transitions.allow
           nodes == Dedupe(d.states)
           Row(name) == RowOf(entries, name)
           edges == [i \in DOMAIN nodes |-> Row(nodes[i])]
           States == ToSet(d.states)
<1>1. /\ IsList(d.states) /\ IsList(entries)
      /\ \A entry \in ToSet(entries) : IsList(entry[2])
      /\ d.states # <<>>
      /\ \A entry \in ToSet(entries) : DeclaredAll(StatesOf(d.states), entry[2])
  BY DEF IsDefinition, Accepted, ValidConstraints, ValidTransitions
<1>2. graph = DeclareEdges(StatesOf(d.states), entries)
  BY DEF CompileConstraints, WithEdges
<1>3. graph.nodes = nodes /\ graph.edges = edges
  <2>1. StatesOf(d.states).nodes = nodes /\ DOMAIN StatesOf(d.states) = {"nodes", "edges"}
    BY DEF StatesOf
  <2>2. graph = [StatesOf(d.states) EXCEPT !.edges = edges]
    <3> HIDE DEF graph, nodes, entries
    <3> QED  BY <1>2, <2>1, EdgesAreRows
  <2> HIDE DEF graph, edges, nodes
  <2> QED  BY <2>1, <2>2
<1>4. nodes \in Seq(States) /\ ToSet(nodes) = States
  <2>1. d.states \in Seq(States)
    BY <1>1 DEF IsList
  <2> HIDE DEF States
  <2>2. Dedupe(d.states) \in Seq(States) /\ ToSet(Dedupe(d.states)) = ToSet(d.states)
    BY <2>1, DedupeKeepsElements
  <2> QED  BY <2>2 DEF States
<1>5. /\ IsList(nodes) /\ DOMAIN nodes = 1 .. Len(nodes) /\ Len(nodes) \in Nat
      /\ \A x : x \in States <=> \E i \in 1 .. Len(nodes) : nodes[i] = x
      /\ \A x : x \in States <=> Contains(nodes, x)
  <2> HIDE DEF nodes, States
  <2> QED  BY <1>4, Elements
<1>6. nodes # <<>>
  <2>1. PICK x : x \in States
    <3>1. Len(d.states) \in 1 .. Len(d.states) /\ DOMAIN d.states = 1 .. Len(d.states)
      BY <1>1, EmptySeq DEF IsList
    <3> QED  BY <3>1 DEF ToSet
  <2>2. ToSet(<<>>) = {}
    BY DEF ToSet
  <2> HIDE DEF nodes, States
  <2> QED  BY <1>4, <2>1, <2>2
<1>7. HasEdges(graph)
  <2>1. 1 \in DOMAIN nodes /\ DOMAIN edges = DOMAIN nodes
    <3>1. DOMAIN edges = DOMAIN nodes
      OBVIOUS
    <3> HIDE DEF nodes, States, edges
    <3> QED  BY <1>4, <1>5, <1>6, <3>1, EmptySeq
  <2>2. DOMAIN NoEdges = {}
    BY DEF NoEdges
  <2> HIDE DEF graph, edges, nodes
  <2> QED  BY <1>3, <2>1, <2>2 DEF HasEdges
<1>8. ASSUME NEW n, n \in States PROVE TargetsOf(graph, n) = Row(n)
  <2> DEFINE id == IdOf(graph, n)
  <2> HIDE DEF graph
  <2>1. HasState(graph, n)
    BY <1>3, <1>5, <1>8 DEF HasState
  <2>2. id \in DOMAIN nodes /\ nodes[id] = n
    BY <1>3, <1>5, <1>8, <2>1 DEF IdOf
  <2> HIDE DEF id
  <2>3. TargetsFrom(graph, id) = graph.edges[id]
    BY <1>3, <1>7, <2>2 DEF TargetsFrom
  <2>4. edges[id] = Row(nodes[id])
    BY <2>2
  <2> HIDE DEF edges, Row
  <2> QED  BY <1>3, <2>2, <2>3, <2>4 DEF TargetsOf, id
<1>9. ASSUME NEW n, n \notin States PROVE TargetsOf(graph, n) = <<>>
  <2> HIDE DEF graph
  <2>1. ~HasState(graph, n)
    BY <1>3, <1>5, <1>9 DEF HasState
  <2>2. UNKNOWN_NODE \notin DOMAIN graph.nodes
    BY <1>3, <1>5 DEF UNKNOWN_NODE
  <2> QED  BY <2>1, <2>2 DEF TargetsOf, IdOf, TargetsFrom
<1>10. \A n : RowsOf(entries, n) # {} => Max(RowsOf(entries, n)) \in RowsOf(entries, n)
  <2> SUFFICES ASSUME NEW n, RowsOf(entries, n) # {}
               PROVE  Max(RowsOf(entries, n)) \in RowsOf(entries, n)
    OBVIOUS
  <2> DEFINE R == RowsOf(entries, n)
             last == Len(entries)
  <2>1. last \in Nat /\ R \subseteq 1 .. last
    BY <1>1 DEF IsList, RowsOf
  <2> HIDE DEF R, last
  <2>2. \E m \in R : \A k \in R : k <= m
    BY <2>1, GreatestUpTo DEF R
  <2>3. \A k, m \in R : k <= m <=> m >= k
    BY <2>1
  <2> QED  BY <2>2, <2>3 DEF Max, R
<1>11. ASSUME NEW n, RowsOf(entries, n) # {}
       PROVE  LET targets == entries[Max(RowsOf(entries, n))][2]
              IN  /\ IsList(Row(n)) /\ ToSet(targets) \subseteq States
                  /\ \A m : Contains(Row(n), m) <=> m \in ToSet(targets)
  <2> DEFINE entry == entries[Max(RowsOf(entries, n))]
             targets == entry[2]
  <2>1. entry \in ToSet(entries)
    BY <1>10, <1>11 DEF RowsOf, ToSet
  <2>2. IsList(targets) /\ DeclaredAll(StatesOf(d.states), targets)
    BY <1>1, <2>1
  <2>3. Row(n) = Dedupe(targets)
    BY <1>11 DEF RowOf
  <2>4. ToSet(targets) \subseteq States
    BY <1>5, <2>2 DEF DeclaredAll, HasState, StatesOf
  <2> HIDE DEF targets, Row
  <2>5. Row(n) \in Seq(ToSet(targets)) /\ ToSet(Row(n)) = ToSet(targets)
    BY <2>2, <2>3, DedupeKeepsElements DEF IsList
  <2>6. IsList(Row(n)) /\ \A m : m \in ToSet(Row(n)) <=> Contains(Row(n), m)
    BY <2>5, Elements
  <2> QED  BY <2>4, <2>5, <2>6 DEF targets
<1>12. IsList(<<>>) /\ \A m : ~Contains(<<>>, m)
  BY DEF IsList, ToSet, Contains
<1>13. \A n : RowsOf(entries, n) = {} => Row(n) = <<>>
  BY DEF RowOf
<1> HIDE DEF graph, entries, nodes, Row, States
<1>14. \A n, m : Contains(TargetsOf(graph, n), m) <=>
                  /\ n \in States /\ RowsOf(entries, n) # {}
                  /\ m \in ToSet(entries[Max(RowsOf(entries, n))][2])
  BY <1>8, <1>9, <1>11, <1>12, <1>13
<1>15. \A n, m : Contains(TargetsOf(graph, n), m) => m \in States
  BY <1>11, <1>14
<1>16. \A n : IsList(TargetsOf(graph, n))
  BY <1>8, <1>9, <1>11, <1>12, <1>13
<1> QED  BY <1>3, <1>4, <1>5, <1>7, <1>10, <1>14, <1>15, <1>16 DEF graph, entries, States
-----------------------------------------------------------------------------
(* The stream only grows.                                                  *)

Grows(old, new, added) ==
  /\ IsList(new) /\ Len(old) <= Len(new)
  /\ \A i \in 1 .. Len(old) : new[i] = old[i]
  /\ \A i \in Len(old) + 1 .. Len(new) : new[i] \in added
  /\ ToSet(new) = ToSet(old) \cup added

LEMMA GrowsByOne ==
  ASSUME NEW old, IsList(old), NEW x
  PROVE  Grows(old, Append(old, x), {x})
<1> DEFINE S == ToSet(old)
           T == S \cup {x}
           new == Append(old, x)
<1>1. old \in Seq(S)
  BY DEF IsList
<1>2. new \in Seq(T) /\ ToSet(new) = ToSet(old) \cup {x}
  <2> HIDE DEF S
  <2> QED  BY <1>1, ElementsOfAppend
<1>3. old \in Seq(T)
  <2> HIDE DEF S
  <2> QED  BY <1>1, SeqMonotonic
<1>4. x \in T
  OBVIOUS
<1> HIDE DEF T
<1>5. /\ Len(new) = Len(old) + 1 /\ Len(old) \in Nat
      /\ \A i \in 1 .. Len(old) : new[i] = old[i]
      /\ new[Len(old) + 1] = x
  BY <1>3, <1>4, AppendProperties
<1>6. IsList(new)
  <2> HIDE DEF new
  <2> QED  BY <1>2, Elements
<1> HIDE DEF new
<1>7. \A i \in Len(old) + 1 .. Len(new) : new[i] \in {x}
  BY <1>5
<1> QED  BY <1>2, <1>5, <1>6, <1>7 DEF Grows, new

LEMMA GrowsByMany ==
  ASSUME NEW old, IsList(old), NEW more, IsList(more)
  PROVE  Grows(old, old \o more, ToSet(more))
<1> DEFINE S == ToSet(old) \cup ToSet(more)
           new == old \o more
<1>1. old \in Seq(S) /\ more \in Seq(S)
  BY SeqMonotonic DEF IsList
<1> HIDE DEF S
<1>2. /\ new \in Seq(S) /\ Len(new) = Len(old) + Len(more)
      /\ \A i \in 1 .. Len(new) :
           new[i] = IF i <= Len(old) THEN old[i] ELSE more[i - Len(old)]
  BY <1>1, ConcatProperties
<1>3. /\ Len(old) \in Nat /\ Len(more) \in Nat
      /\ \A x : x \in ToSet(old) <=> \E i \in 1 .. Len(old) : old[i] = x
      /\ \A x : x \in ToSet(more) <=> \E i \in 1 .. Len(more) : more[i] = x
  BY <1>1, Elements
<1> HIDE DEF new
<1>4. IsList(new) /\ \A x : x \in ToSet(new) <=> \E i \in 1 .. Len(new) : new[i] = x
  BY <1>2, Elements
<1>5. \A i \in 1 .. Len(old) : i \in 1 .. Len(new) /\ new[i] = old[i]
  BY <1>2, <1>3
<1>6. ASSUME NEW i \in 1 .. Len(more)
      PROVE  Len(old) + i \in 1 .. Len(new) /\ new[Len(old) + i] = more[i]
  <2>1. Len(old) + i \in 1 .. Len(new) /\ ~(Len(old) + i <= Len(old))
        /\ (Len(old) + i) - Len(old) = i
    BY <1>2, <1>3
  <2> QED  BY <1>2, <2>1
<1>7. ASSUME NEW i \in Len(old) + 1 .. Len(new)
      PROVE  i - Len(old) \in 1 .. Len(more) /\ new[i] = more[i - Len(old)]
  <2>1. i \in 1 .. Len(new) /\ ~(i <= Len(old)) /\ i - Len(old) \in 1 .. Len(more)
    BY <1>2, <1>3
  <2> QED  BY <1>2, <2>1
<1>8. \A i \in Len(old) + 1 .. Len(new) : new[i] \in ToSet(more)
  BY <1>3, <1>7
<1>9. ToSet(new) \subseteq ToSet(old) \cup ToSet(more)
  <2> SUFFICES ASSUME NEW i \in 1 .. Len(new) PROVE new[i] \in ToSet(old) \cup ToSet(more)
    BY <1>4
  <2>1. i \in 1 .. Len(old) \/ i \in Len(old) + 1 .. Len(new)
    BY <1>2, <1>3
  <2> QED  BY <1>3, <1>5, <1>8, <2>1
<1>10. ToSet(old) \cup ToSet(more) \subseteq ToSet(new)
  <2>1. \A x \in ToSet(old) : x \in ToSet(new)
    BY <1>3, <1>4, <1>5
  <2>2. \A x \in ToSet(more) : x \in ToSet(new)
    BY <1>3, <1>4, <1>6
  <2> QED  BY <2>1, <2>2
<1>11. Len(old) <= Len(new)
  BY <1>2, <1>3
<1> QED  BY <1>4, <1>5, <1>8, <1>9, <1>10, <1>11 DEF Grows, new

LEMMA GrowsTwice ==
  ASSUME NEW a, IsList(a), NEW b, NEW c, NEW x, NEW y, Grows(a, b, x), Grows(b, c, y)
  PROVE  Grows(a, c, x \cup y)
<1>1. Len(a) \in Nat /\ Len(b) \in Nat /\ Len(c) \in Nat
  BY LenProperties DEF Grows, IsList
<1>2. \A i \in 1 .. Len(a) : i \in 1 .. Len(b) /\ c[i] = a[i]
  BY <1>1 DEF Grows
<1>3. ASSUME NEW i \in Len(a) + 1 .. Len(c) PROVE c[i] \in x \cup y
  <2>1. CASE i <= Len(b)
    <3>1. i \in 1 .. Len(b) /\ i \in Len(a) + 1 .. Len(b)
      BY <1>1, <2>1
    <3> QED  BY <3>1 DEF Grows
  <2>2. CASE ~(i <= Len(b))
    <3>1. i \in Len(b) + 1 .. Len(c)
      BY <1>1, <2>2
    <3> QED  BY <3>1 DEF Grows
  <2> QED  BY <2>1, <2>2
<1>4. IsList(c) /\ Len(a) <= Len(c) /\ ToSet(c) = ToSet(a) \cup (x \cup y)
  BY <1>1 DEF Grows
<1> QED  BY <1>2, <1>3, <1>4 DEF Grows

\* A violation is noted for each that was found.
NotesOf(found, from, to) == {ViolationEvent(v, from, to) : v \in ToSet(found)}

LEMMA GrowsByNotes ==
  ASSUME NEW old, IsList(old), NEW found, IsList(found), NEW from, NEW to
  PROVE  Grows(old, old \o [i \in DOMAIN found |-> ViolationEvent(found[i], from, to)],
               NotesOf(found, from, to))
<1> DEFINE S == NotesOf(found, from, to)
           V(v) == ViolationEvent(v, from, to)
           more == [i \in DOMAIN found |-> V(found[i])]
<1>1. /\ DOMAIN found = 1 .. Len(found) /\ Len(found) \in Nat
      /\ \A x : x \in ToSet(found) <=> \E i \in 1 .. Len(found) : found[i] = x
  BY Elements DEF IsList
<1>2. \A x : x \in S <=> \E v \in ToSet(found) : x = V(v)
  BY DEF NotesOf
<1> HIDE DEF S, V
<1>3. /\ DOMAIN more = 1 .. Len(found)
      /\ \A i \in 1 .. Len(found) : more[i] = V(found[i]) /\ more[i] \in S
  BY <1>1, <1>2
<1>4. more \in [1 .. Len(found) -> S]
  <2>1. more = [i \in 1 .. Len(found) |-> more[i]]
    BY <1>1, <1>3
  <2> HIDE DEF more
  <2> QED  BY <1>3, <2>1
<1> HIDE DEF more
<1>5. more \in Seq(S) /\ Len(more) = Len(found)
  <2>1. more \in Seq(S)
    BY <1>1, <1>4, SeqDef
  <2> QED  BY <1>1, <1>3, <2>1, LenProperties
<1>6. IsList(more) /\ \A x : x \in ToSet(more) <=> \E i \in 1 .. Len(more) : more[i] = x
  BY <1>5, Elements
<1>7. ToSet(more) = S
  <2>1. \A x \in ToSet(more) : x \in S
    BY <1>3, <1>5, <1>6
  <2>2. ASSUME NEW x \in S PROVE x \in ToSet(more)
    <3>1. PICK v \in ToSet(found) : x = V(v)
      BY <1>2
    <3>2. PICK i \in 1 .. Len(found) : found[i] = v
      BY <1>1
    <3>3. more[i] = x
      BY <1>3, <3>1, <3>2
    <3> QED  BY <1>5, <1>6, <3>3
  <2> QED  BY <2>1, <2>2
<1>8. Grows(old, old \o more, S)
  BY <1>6, <1>7, GrowsByMany
<1> QED  BY <1>8 DEF more, V, S
-----------------------------------------------------------------------------
(* The edges that were observed, declared.                                 *)

\* An entry for every state that was left, with the states it was left for.
LEMMA ObservedEntries ==
  ASSUME NEW observed, IsFiniteSet(observed.taken)
  PROVE  LET allow == AllowFrom(observed)
         IN  /\ IsList(allow)
             /\ \A entry \in ToSet(allow) :
                  /\ IsList(entry[2])
                  /\ \A to : to \in ToSet(entry[2]) <=>
                       \E e \in observed.taken : e[1] = entry[1] /\ e[2] = to
             /\ \A e \in observed.taken : \E entry \in ToSet(allow) : entry[1] = e[1]
             /\ \A i, j \in DOMAIN allow : allow[i][1] = allow[j][1] => i = j
<1> DEFINE taken == observed.taken
           To(from) == {e[2] : e \in {t \in taken : t[1] = from}}
           Row(from) == <<from, SetToSeq(To(from))>>
           Rows == {Row(e[1]) : e \in taken}
           allow == SetToSeq(Rows)
<1>1. AllowFrom(observed) = allow
  BY DEF AllowFrom
<1>2. IsFiniteSet(Rows)
  <2> DEFINE f == [e \in taken |-> Row(e[1])]
  <2>1. \A e \in taken : f[e] = Row(e[1])
    OBVIOUS
  <2> HIDE DEF f
  <2>2. IsFiniteSet({f[e] : e \in taken})
    BY FiniteImage
  <2>3. {f[e] : e \in taken} = Rows
    <3> HIDE DEF Row
    <3> QED  BY <2>1
  <2> QED  BY <2>2, <2>3
<1>3. \A from : IsFiniteSet(To(from))
  <2> SUFFICES ASSUME NEW from PROVE IsFiniteSet(To(from))
    OBVIOUS
  <2> DEFINE some == {t \in taken : t[1] = from}
             f == [e \in some |-> e[2]]
  <2>1. \A e \in some : f[e] = e[2]
    OBVIOUS
  <2>2. IsFiniteSet(some)
    BY FS_Subset
  <2>3. To(from) = {e[2] : e \in some}
    OBVIOUS
  <2> HIDE DEF f, some
  <2>4. IsFiniteSet({f[e] : e \in some})
    BY <2>2, FiniteImage
  <2>5. {f[e] : e \in some} = {e[2] : e \in some}
    BY <2>1
  <2> QED  BY <2>3, <2>4, <2>5
<1>4. \A from : /\ Row(from)[1] = from /\ IsList(Row(from)[2])
                /\ ToSet(Row(from)[2]) = To(from)
  <2> SUFFICES ASSUME NEW from
               PROVE  /\ Row(from)[1] = from /\ IsList(Row(from)[2])
                      /\ ToSet(Row(from)[2]) = To(from)
    OBVIOUS
  <2>1. Row(from)[1] = from /\ Row(from)[2] = SetToSeq(To(from))
    OBVIOUS
  <2> HIDE DEF Row, To
  <2>2. SetToSeq(To(from)) \in Seq(To(from)) /\ ToSet(SetToSeq(To(from))) = To(from)
    BY <1>3, ListOfSet
  <2> QED  BY <2>1, <2>2 DEF IsList
<1>5. /\ allow \in Seq(Rows) /\ ToSet(allow) = Rows
      /\ \A i, j \in DOMAIN allow : allow[i] = allow[j] => i = j
  <2> HIDE DEF Rows
  <2> QED  BY <1>2, ListOfSet
<1>6. \A from, to : to \in To(from) <=> \E e \in taken : e[1] = from /\ e[2] = to
  OBVIOUS
<1>7. \A r : r \in Rows <=> \E e \in taken : r = Row(e[1])
  OBVIOUS
<1> HIDE DEF Rows, Row, To, allow, taken
<1>8. IsList(allow)
  BY <1>5 DEF IsList
<1>9. ASSUME NEW entry \in ToSet(allow)
      PROVE  /\ IsList(entry[2])
             /\ \A to : to \in ToSet(entry[2]) <=>
                  \E e \in taken : e[1] = entry[1] /\ e[2] = to
  <2>1. PICK e \in taken : entry = Row(e[1])
    BY <1>5, <1>7
  <2>2. entry[1] = e[1] /\ IsList(entry[2]) /\ ToSet(entry[2]) = To(entry[1])
    BY <1>4, <2>1
  <2> QED  BY <1>6, <2>2
<1>10. \A e \in taken : \E entry \in ToSet(allow) : entry[1] = e[1]
  BY <1>4, <1>5, <1>7
<1>11. ASSUME NEW i \in DOMAIN allow, NEW j \in DOMAIN allow, allow[i][1] = allow[j][1]
       PROVE  i = j
  <2>1. allow[i] \in Rows /\ allow[j] \in Rows
    BY <1>5 DEF ToSet
  <2>2. PICK e \in taken : allow[i] = Row(e[1])
    BY <1>7, <2>1
  <2>3. PICK f \in taken : allow[j] = Row(f[1])
    BY <1>7, <2>1
  <2>4. e[1] = f[1]
    BY <1>4, <1>11, <2>2, <2>3
  <2>5. allow[i] = allow[j]
    BY <2>2, <2>3, <2>4
  <2> QED  BY <1>5, <2>5
<1> QED  BY <1>1, <1>8, <1>9, <1>10, <1>11 DEF taken

\* What a stream shows to have been taken is as finite as the stream.
LEMMA TakenIsFinite ==
  ASSUME NEW events, IsList(events)
  PROVE  IsFiniteSet(ObserveEdges(events).taken)
<1> DEFINE T == Transitions(events)
           f == [e \in T |-> <<e.from, e.to>>]
<1>1. IsFiniteSet(T)
  <2>1. IsFiniteSet(ToSet(events))
    BY ListIsFinite DEF IsList
  <2> QED  BY <2>1, FS_Subset DEF Transitions
<1>2. \A e \in T : f[e] = <<e.from, e.to>>
  OBVIOUS
<1>3. ObserveEdges(events).taken = {<<e.from, e.to>> : e \in T}
  BY DEF ObserveEdges
<1> HIDE DEF f, T
<1>4. IsFiniteSet({f[e] : e \in T})
  BY <1>1, FiniteImage
<1>5. {f[e] : e \in T} = {<<e.from, e.to>> : e \in T}
  BY <1>2
<1> QED  BY <1>3, <1>4, <1>5

Adopting(d, observed) ==
  [d EXCEPT !.constraints.transitions =
     [policy |-> Unset, allow |-> AllowFrom(observed)]]

\* A definition with the observed edges is a definition, under whose edges
\* everything that was observed is open.
LEMMA AdoptedIsDefinition ==
  ASSUME NEW d, IsDefinition(d), NEW observed, IsFiniteSet(observed.taken)
  PROVE  /\ IsDefinition(Adopting(d, observed))
         /\ Adopting(d, observed).constraints.transitions =
              [policy |-> Unset, allow |-> AllowFrom(observed)]
<1> DEFINE r == Adopting(d, observed)
           t == [policy |-> Unset, allow |-> AllowFrom(observed)]
<1>1. "constraints" \in DOMAIN d /\ "transitions" \in DOMAIN d.constraints
  BY DEF IsDefinition
<1>2. /\ DOMAIN r = DOMAIN d
      /\ r.constraints = [d.constraints EXCEPT !.transitions = t]
      /\ \A k \in DOMAIN d \ {"constraints"} : r[k] = d[k]
  BY <1>1 DEF Adopting
<1> HIDE DEF r, t
<1>3. /\ DOMAIN r.constraints = DOMAIN d.constraints
      /\ r.constraints.transitions = t
      /\ \A k \in DOMAIN d.constraints \ {"transitions"} : r.constraints[k] = d.constraints[k]
  BY <1>1, <1>2
<1>4. r.states = d.states /\ r.constraints.guards = d.constraints.guards
      /\ r.constraints.invariants = d.constraints.invariants
  <2>1. "states" \in DOMAIN d \ {"constraints"}
        /\ {"guards", "invariants"} \subseteq DOMAIN d.constraints \ {"transitions"}
    BY DEF IsDefinition
  <2> QED  BY <1>2, <1>3, <2>1
<1>5. t.allow = AllowFrom(observed)
  BY DEF t
<1>6. /\ IsList(t.allow) /\ \A entry \in ToSet(t.allow) : IsList(entry[2])
      /\ \A i, j \in DOMAIN t.allow : t.allow[i][1] = t.allow[j][1] => i = j
  BY <1>5, ObservedEntries
<1>7. IsDefinition(r)
  <2>1. {"states", "initial", "values", "constraints"} \subseteq DOMAIN r
        /\ {"transitions", "guards", "invariants"} \subseteq DOMAIN r.constraints
    BY <1>2, <1>3 DEF IsDefinition
  <2>2. IsList(r.states) /\ IsList(r.constraints.guards) /\ IsList(r.constraints.invariants)
    BY <1>4 DEF IsDefinition
  <2>3. LET allow == r.constraints.transitions.allow
        IN  /\ IsList(allow) /\ \A entry \in ToSet(allow) : IsList(entry[2])
            /\ \A i, j \in DOMAIN allow : allow[i][1] = allow[j][1] => i = j
    BY <1>3, <1>6
  <2> QED  BY <2>1, <2>2, <2>3 DEF IsDefinition
<1> QED  BY <1>3, <1>7 DEF r, t
\* Under the observed edges everything that was observed is open.
LEMMA ObservedIsAllowed ==
  ASSUME NEW d, IsDefinition(d), Accepted(d), d.constraints.transitions # Unset,
         NEW observed, IsFiniteSet(observed.taken),
         d.constraints.transitions = [policy |-> Unset, allow |-> AllowFrom(observed)]
  PROVE  LET graph == CompileConstraints(d.constraints, StatesOf(d.states)).graph
         IN  HasEdges(graph) /\ \A e \in observed.taken : Allows(graph, e[1], e[2])
<1> DEFINE graph == CompileConstraints(d.constraints, StatesOf(d.states)).graph
           entries == d.constraints.transitions.allow
<1>1. entries = AllowFrom(observed) /\ InForce(d.constraints.transitions)
  BY DEF InForce, ResolvePolicy
<1>2. /\ IsList(entries)
      /\ \A entry \in ToSet(entries) : \A to : to \in ToSet(entry[2]) <=>
           \E e \in observed.taken : e[1] = entry[1] /\ e[2] = to
      /\ \A e \in observed.taken : \E entry \in ToSet(entries) : entry[1] = e[1]
  <2> HIDE DEF entries
  <2> QED  BY <1>1, ObservedEntries
<1>3. /\ HasEdges(graph)
      /\ \A n, m : Contains(TargetsOf(graph, n), m) <=>
           /\ n \in ToSet(d.states) /\ RowsOf(entries, n) # {}
           /\ m \in ToSet(entries[Max(RowsOf(entries, n))][2])
      /\ \A n : RowsOf(entries, n) # {} =>
           Max(RowsOf(entries, n)) \in RowsOf(entries, n)
  BY <1>1, GraphIsDeclared
<1>4. \A entry \in ToSet(entries) : entry[1] \in ToSet(d.states)
  <2>1. \A entry \in ToSet(entries) : HasState(StatesOf(d.states), entry[1])
    BY <1>1 DEF Accepted, ValidConstraints, ValidTransitions
  <2>2. d.states \in Seq(ToSet(d.states))
    BY DEF IsDefinition, IsList
  <2>3. Dedupe(d.states) \in Seq(ToSet(d.states))
    BY <2>2, DedupeKeepsElements
  <2>4. \A x : Contains(Dedupe(d.states), x) => x \in ToSet(d.states)
    BY <2>3, Elements
  <2> QED  BY <2>1, <2>4 DEF HasState, StatesOf
<1> HIDE DEF graph, entries
<1>5. ASSUME NEW e \in observed.taken PROVE Allows(graph, e[1], e[2])
  <2> DEFINE R == RowsOf(entries, e[1])
             entry == entries[Max(R)]
  <2>1. PICK some \in ToSet(entries) : some[1] = e[1]
    BY <1>2
  <2>2. R # {}
    BY <2>1 DEF ToSet, RowsOf
  <2>3. Max(R) \in R
    BY <1>3, <2>2
  <2>4. entry \in ToSet(entries) /\ entry[1] = e[1]
    <3>1. \A i \in R : i \in DOMAIN entries /\ entries[i][1] = e[1]
      BY DEF RowsOf
    <3> HIDE DEF R
    <3> QED  BY <2>3, <3>1 DEF ToSet
  <2>5. e[2] \in ToSet(entry[2])
    BY <1>2, <2>4
  <2>6. e[1] \in ToSet(d.states)
    BY <1>4, <2>4
  <2>7. Contains(TargetsOf(graph, e[1]), e[2])
    BY <1>3, <2>2, <2>5, <2>6
  <2> QED  BY <2>7 DEF Allows, AllowsFrom, TargetsOf
<1> QED  BY <1>3, <1>5 DEF graph

-----------------------------------------------------------------------------
(* What is in the variables.                                               *)

Defined(d) == IsDefinition(d) /\ Accepted(d)

DTypes ==
  /\ IsList(releases)
  /\ \A d \in ToSet(releases) : d = Adopt \/ IsDefinition(d)
  /\ definition # None => Defined(definition)
  /\ adopted => Defined(definition)
  /\ IsList(stream)
  /\ since \in 0 .. Len(stream)
  /\ turn.pc \in {"idle", "handling", "recovering", "returned", "recovered"}
  /\ turn.pc \in {"returned", "recovered"} => turn.result \in Results
  /\ turn.pc # "idle" => definition # None /\ stream # <<>>

LEMMA Grown ==
  ASSUME NEW old, IsList(old), NEW new, NEW added, Grows(old, new, added)
  PROVE  /\ IsList(new)
         /\ old # <<>> => new # <<>>
         /\ \A n \in 0 .. Len(old) : n \in 0 .. Len(new)
<1>1. Len(old) \in Nat /\ Len(new) \in Nat /\ Len(old) <= Len(new) /\ IsList(new)
  BY LenProperties DEF Grows, IsList
<1>2. ASSUME old # <<>> PROVE new # <<>>
  <2>1. Len(old) # 0
    BY <1>2, EmptySeq DEF IsList
  <2>2. Len(new) # 0
    BY <1>1, <2>1
  <2> QED  BY <2>2
<1> QED  BY <1>1, <1>2

\* A turn that settles fails, notes what refuses it, or commits.
Verdict ==
  LET next == Proposed(turn.result)
      found == CheckConstraints(Entity, state, next, turn.result)
  IN  \/ UNCHANGED <<state, values, stream>>
      \/ /\ turn.result.kind # "fail" /\ Rejected(found)
         /\ Grows(stream, stream', NotesOf(found, state, next.state))
         /\ UNCHANGED <<state, values>>
      \/ /\ turn.result.kind # "fail" /\ ~Rejected(found)
         /\ Grows(stream, stream', NotesOf(found, state, next.state)
                                     \cup {TransitionEvent(state, next.state)})
         /\ state' = next.state /\ values' = next.values

LEMMA SettleWrites ==
  ASSUME DTypes, Settle
  PROVE  Verdict /\ UNCHANGED <<releases, definition, since, adopted>>
<1> DEFINE next == Proposed(turn.result)
           found == CheckConstraints(Entity, state, next, turn.result)
           noted == stream \o [i \in DOMAIN found |->
                           ViolationEvent(found[i], state, next.state)]
<1>1. IsList(stream) /\ IsCompiled(Entity)
  BY CompiledAreLists DEF DTypes, Defined, Settle, Entity
<1>2. IsList(found)
  BY <1>1, CheckFinds
<1>3. UNCHANGED <<releases, definition, since, adopted>>
  BY DEF Settle
<1>4. \/ UNCHANGED <<state, values, stream>>
      \/ /\ turn.result.kind # "fail" /\ Rejected(found)
         /\ stream' = noted /\ UNCHANGED <<state, values>>
      \/ /\ turn.result.kind # "fail" /\ ~Rejected(found)
         /\ stream' = Append(noted, TransitionEvent(state, next.state))
         /\ state' = next.state /\ values' = next.values
  BY DEF Settle
<1> HIDE DEF found
<1>5. Grows(stream, noted, NotesOf(found, state, next.state))
  BY <1>1, <1>2, GrowsByNotes
<1> HIDE DEF next, noted
<1>6. Grows(stream, Append(noted, TransitionEvent(state, next.state)),
            NotesOf(found, state, next.state) \cup {TransitionEvent(state, next.state)})
  <2>1. IsList(noted)
    BY <1>5 DEF Grows
  <2>2. Grows(noted, Append(noted, TransitionEvent(state, next.state)),
              {TransitionEvent(state, next.state)})
    BY <2>1, GrowsByOne
  <2> QED  BY <1>1, <1>5, <2>2, GrowsTwice
<1>7. \/ UNCHANGED <<state, values, stream>>
      \/ /\ turn.result.kind # "fail" /\ Rejected(found)
         /\ Grows(stream, stream', NotesOf(found, state, next.state))
         /\ UNCHANGED <<state, values>>
      \/ /\ turn.result.kind # "fail" /\ ~Rejected(found)
         /\ Grows(stream, stream', NotesOf(found, state, next.state)
                                     \cup {TransitionEvent(state, next.state)})
         /\ state' = next.state /\ values' = next.values
  BY <1>4, <1>5, <1>6
<1> QED  BY <1>3, <1>7 DEF Verdict, found, next
\* A release changes nothing of the instance.  What it installs was accepted,
\* and with the observed edges it is the running release under those edges.
LEMMA ReleaseInstalls ==
  ASSUME DTypes, Release
  PROVE  /\ UNCHANGED <<state, values, stream>>
         /\ IsList(releases') /\ ToSet(releases') \subseteq ToSet(releases)
         /\ \/ UNCHANGED <<definition, since, adopted, turn>>
            \/ /\ Defined(definition') /\ since' = Len(stream) /\ turn' = NoTurn
               /\ adopted' => definition' = Adopting(definition, ObserveEdges(stream))
                              /\ definition # None
<1>1. /\ Head(releases) \in ToSet(releases) /\ IsList(Tail(releases))
      /\ ToSet(Tail(releases)) \subseteq ToSet(releases)
  <2> DEFINE S == ToSet(releases)
  <2>1. releases \in Seq(S) /\ releases # <<>>
    BY DEF DTypes, Release, IsList
  <2>2. Head(releases) \in S /\ Tail(releases) \in Seq(S)
    <3> HIDE DEF S
    <3> QED  BY <2>1, HeadTailProperties
  <2> HIDE DEF S
  <2>3. IsList(Tail(releases)) /\ ToSet(Tail(releases)) \subseteq S
    BY <2>2, Elements
  <2> QED  BY <2>2, <2>3 DEF S
<1>2. /\ releases' = Tail(releases)
      /\ UNCHANGED <<state, values, stream>>
      /\ \/ UNCHANGED <<definition, since, adopted, turn>>
         \/ /\ (Head(releases) = Adopt => definition # None) /\ Accepted(Released)
            /\ definition' = Released /\ since' = Len(stream) /\ turn' = NoTurn
            /\ adopted' = (Head(releases) = Adopt)
  BY DEF Release
<1>3. ASSUME Head(releases) = Adopt => definition # None
      PROVE  /\ IsDefinition(Released)
             /\ Head(releases) = Adopt => Released = Adopting(definition, ObserveEdges(stream))
  <2>1. CASE Head(releases) # Adopt
    BY <1>1, <2>1 DEF Released, DTypes
  <2>2. CASE Head(releases) = Adopt
    <3>1. Released = Adopting(definition, ObserveEdges(stream))
      BY <2>2 DEF Released, Adopting
    <3>2. IsDefinition(definition) /\ IsFiniteSet(ObserveEdges(stream).taken)
      BY <1>3, <2>2, TakenIsFinite DEF DTypes, Defined
    <3> QED  BY <3>1, <3>2, AdoptedIsDefinition
  <2> QED  BY <2>1, <2>2
<1> QED  BY <1>1, <1>2, <1>3 DEF Defined

LEMMA TypesInit == Init => DTypes
<1> SUFFICES ASSUME Init PROVE DTypes
  OBVIOUS
<1>1. IsList(releases) /\ \A d \in ToSet(releases) : d = Adopt \/ IsDefinition(d)
  BY ReleasesAssumption DEF Init
<1>2. IsList(<<>>) /\ Len(<<>>) = 0
  BY DEF IsList, ToSet
<1> QED  BY <1>1, <1>2 DEF Init, DTypes, NoTurn

LEMMA TypesStep == DTypes /\ [Next]_vars => DTypes'
<1> SUFFICES ASSUME DTypes, [Next]_vars PROVE DTypes'
  OBVIOUS
<1>0. Len(stream) \in Nat /\ 0 \in 0 .. Len(stream) /\ Len(stream) \in 0 .. Len(stream)
  BY LenProperties DEF DTypes, IsList
<1>1. CASE Release
  BY <1>0, <1>1, ReleaseInstalls DEF DTypes, NoTurn, Defined
<1>2. CASE Initialize
  <2> DEFINE e == TransitionEvent(None, definition.initial)
  <2>1. IsList(<<e>>) /\ Len(<<e>>) = 1 /\ <<e>> # <<>>
    <3> HIDE DEF e
    <3> QED  BY DEF IsList, ToSet
  <2>2. stream' = <<e>> /\ since = 0 /\ UNCHANGED <<releases, definition, since, adopted, turn>>
    BY <1>2 DEF Initialize, DTypes
  <2> HIDE DEF e
  <2> QED  BY <2>1, <2>2 DEF DTypes, Defined
<1>3. ASSUME NEW type \in Types, Dispatch(type) PROVE DTypes'
  <2>1. \/ /\ turn' = [NoTurn EXCEPT !.pc = "handling"] /\ stream' = stream
        \/ /\ \E x : stream' = Append(stream, x)
           /\ turn' = turn
    BY <1>3 DEF Dispatch
  <2>2. UNCHANGED <<releases, definition, since, adopted>> /\ definition # None
        /\ stream # <<>>
    BY <1>3 DEF Dispatch, Idle
  <2>3. CASE turn' = [NoTurn EXCEPT !.pc = "handling"] /\ stream' = stream
    BY <2>2, <2>3 DEF DTypes, NoTurn, Defined
  <2>4. CASE turn' = turn /\ \E x : stream' = Append(stream, x)
    <3>1. PICK x : Grows(stream, stream', {x})
      BY <2>4, GrowsByOne DEF DTypes
    <3>2. IsList(stream') /\ stream' # <<>> /\ since' \in 0 .. Len(stream')
      BY <2>2, <3>1, Grown DEF DTypes
    <3> QED  BY <2>2, <2>4, <3>2 DEF DTypes, Defined
  <2> QED  BY <2>1, <2>3, <2>4
<1>4. ASSUME NEW result \in Results, Returns(result) PROVE DTypes'
  <2>1. turn'.pc \in {"returned", "recovered"} /\ turn'.result = result /\ turn.pc # "idle"
    BY <1>4 DEF Returns
  <2>2. UNCHANGED <<releases, definition, since, adopted, stream>>
    BY <1>4 DEF Returns
  <2> QED  BY <2>1, <2>2 DEF DTypes, Defined
<1>5. CASE Settle
  <2>1. Verdict /\ UNCHANGED <<releases, definition, since, adopted>>
    BY <1>5, SettleWrites
  <2>2. turn'.pc \in {"idle", "recovering"} /\ definition # None /\ stream # <<>>
    BY <1>5 DEF Settle, Fails, NoTurn, DTypes
  <2>3. stream' = stream \/ \E added : Grows(stream, stream', added)
    BY <2>1 DEF Verdict
  <2>4. IsList(stream') /\ stream' # <<>> /\ since' \in 0 .. Len(stream')
    BY <2>1, <2>2, <2>3, Grown DEF DTypes
  <2> QED  BY <2>1, <2>2, <2>4 DEF DTypes, Defined
<1>6. CASE UNCHANGED vars
  BY <1>6 DEF vars, DTypes, Defined
<1> QED  BY <1>1, <1>2, <1>3, <1>4, <1>5, <1>6 DEF Next, Rest
\* Whatever is asked of an instance, everything in its variables keeps its form.
THEOREM DeclaredTypes == Spec => []DTypes
<1>1. Init => DTypes
  BY TypesInit
<1>2. DTypes /\ [Next]_vars => DTypes'
  BY TypesStep
<1> QED  BY <1>1, <1>2, PTL DEF Spec

-----------------------------------------------------------------------------
(* Invariants, once a result was checked.                                  *)

\* What does not commit a move makes none.
LEMMA QuietGrowth ==
  ASSUME NEW old, NEW new, NEW added, Grows(old, new, added),
         \A e \in added : e.type # "transition"
  PROVE  Transitions(new) = Transitions(old)
BY DEF Grows, Transitions

LEMMA EventTypes ==
  /\ \A found, from, to : \A e \in NotesOf(found, from, to) : e.type = "violation"
  /\ \A code : RejectedEvent(code).type = "rejected"
  /\ \A from, to : /\ TransitionEvent(from, to).type = "transition"
                   /\ TransitionEvent(from, to).from = from
                   /\ TransitionEvent(from, to).to = to
<1>1. \A v, from, to : ViolationEvent(v, from, to).type = "violation"
  BY DEF ViolationEvent
<1>2. \A code : RejectedEvent(code).type = "rejected"
  BY DEF RejectedEvent
<1>3. \A from, to : /\ TransitionEvent(from, to).type = "transition"
                    /\ TransitionEvent(from, to).from = from
                    /\ TransitionEvent(from, to).to = to
  BY DEF TransitionEvent
<1>4. \A found, from, to : \A e \in NotesOf(found, from, to) : e.type = "violation"
  BY <1>1 DEF NotesOf
<1> QED  BY <1>2, <1>3, <1>4

\* A commit adds one transition.
LEMMA CommitGrowth ==
  ASSUME NEW old, NEW new, NEW found, NEW from, NEW to,
         Grows(old, new, NotesOf(found, from, to) \cup {TransitionEvent(from, to)})
  PROVE  /\ Transitions(old) \subseteq Transitions(new)
         /\ Transitions(new) \subseteq Transitions(old) \cup {TransitionEvent(from, to)}
<1>1. ToSet(new) = ToSet(old) \cup (NotesOf(found, from, to) \cup {TransitionEvent(from, to)})
  BY DEF Grows
<1>2. \A e \in NotesOf(found, from, to) : e.type # "transition"
  BY EventTypes
<1> QED  BY <1>1, <1>2 DEF Transitions

LEMMA InvariantsInit == Init => InvariantsHoldOnceChecked
BY DEF Init, InvariantsHoldOnceChecked, Founded

LEMMA InvariantsStep ==
  DTypes /\ InvariantsHoldOnceChecked /\ [Next]_vars => InvariantsHoldOnceChecked'
<1> DEFINE Moved == values # definition.values \/
                    \E e \in Transitions(stream) : e.from # e.to
           Good == \A i \in ToSet(Entity.invariants) :
                     i.policy = "reject" /\ AppliesIn(i, state) => Holds(i, values)
<1> SUFFICES ASSUME DTypes, InvariantsHoldOnceChecked, [Next]_vars, Founded', Moved'
             PROVE  Good'
  BY DEF InvariantsHoldOnceChecked
<1>1. Founded /\ Moved => Good
  BY DEF InvariantsHoldOnceChecked
<1>2. ASSUME UNCHANGED <<definition, since, state, values, stream>> PROVE Good'
  BY <1>1, <1>2 DEF Founded, Entity
<1>3. CASE Release
  <2>1. UNCHANGED <<state, values, stream>>
        /\ (UNCHANGED <<definition, since>> \/ since' = Len(stream))
    BY <1>3, ReleaseInstalls
  <2>2. CASE UNCHANGED <<definition, since>>
    BY <1>2, <2>1, <2>2
  <2>3. CASE since' = Len(stream)
    <3>1. Len(stream) = 0 /\ stream # <<>>
      BY <2>1, <2>3 DEF Founded
    <3> QED  BY <3>1, EmptySeq DEF DTypes, IsList
  <2> QED  BY <2>1, <2>2, <2>3
<1>4. CASE Initialize
  <2>1. /\ values' = definition.values /\ definition' = definition
        /\ stream' = <<TransitionEvent(None, definition.initial)>>
    BY <1>4 DEF Initialize
  <2>2. Transitions(stream') = {}
    <3>1. ToSet(stream') = {TransitionEvent(None, definition.initial)}
      <4> DEFINE e == TransitionEvent(None, definition.initial)
      <4> HIDE DEF e
      <4>1. ToSet(<<e>>) = {e}
        BY DEF ToSet
      <4> QED  BY <2>1, <4>1 DEF e
    <3> QED  BY <3>1, EventTypes DEF Transitions
  <2> QED  BY <2>1, <2>2
<1>5. ASSUME NEW type \in Types, Dispatch(type) PROVE Good'
  <2>1. UNCHANGED <<definition, since, state, values>> /\ stream # <<>>
    BY <1>5 DEF Dispatch, Idle
  <2>2. stream' = stream \/ \E code : stream' = Append(stream, RejectedEvent(code))
    BY <1>5 DEF Dispatch
  <2>3. Transitions(stream') = Transitions(stream)
    <3>1. ASSUME NEW code, stream' = Append(stream, RejectedEvent(code))
          PROVE  Transitions(stream') = Transitions(stream)
      <4>1. Grows(stream, stream', {RejectedEvent(code)})
        BY <3>1, GrowsByOne DEF DTypes
      <4>2. \A e \in {RejectedEvent(code)} : e.type # "transition"
        BY EventTypes
      <4> QED  BY <4>1, <4>2, QuietGrowth
    <3> QED  BY <2>2, <3>1
  <2> QED  BY <1>1, <2>1, <2>3 DEF Founded, Entity
<1>6. ASSUME NEW result \in Results, Returns(result) PROVE Good'
  BY <1>2, <1>6 DEF Returns
<1>7. CASE Settle
  <2> DEFINE next == Proposed(turn.result)
             found == CheckConstraints(Entity, state, next, turn.result)
  <2>1. Verdict /\ UNCHANGED <<definition, since>>
    BY <1>7, SettleWrites
  <2>2. IsCompiled(Entity) /\ turn.result \in Results /\ stream # <<>> /\ definition # None
    BY <1>7, CompiledAreLists DEF DTypes, Defined, Settle, Entity
  <2>3. Entity' = Entity /\ Founded
    BY <2>1, <2>2 DEF Entity, Founded
  <2>4. CASE UNCHANGED <<state, values, stream>>
    BY <1>2, <2>1, <2>4
  <2>5. CASE /\ Grows(stream, stream', NotesOf(found, state, next.state))
             /\ UNCHANGED <<state, values>>
    <3>1. \A e \in NotesOf(found, state, next.state) : e.type # "transition"
      BY EventTypes
    <3>2. Transitions(stream') = Transitions(stream)
      BY <2>5, <3>1, QuietGrowth
    <3> QED  BY <1>1, <2>1, <2>3, <2>5, <3>2
  <2>6. CASE /\ turn.result.kind # "fail" /\ ~Rejected(found)
             /\ Grows(stream, stream', NotesOf(found, state, next.state)
                                         \cup {TransitionEvent(state, next.state)})
             /\ state' = next.state /\ values' = next.values
    <3>1. CASE GatesInvariants(turn.result)
      <4> HIDE DEF next
      <4>1. \A i \in ToSet(Entity.invariants) :
               i.policy = "reject" /\ AppliesIn(i, next.state) => Holds(i, next.values)
        BY <2>2, <2>6, <3>1, CheckFinds
      <4> QED  BY <2>3, <2>6, <4>1
    <3>2. CASE ~GatesInvariants(turn.result)
      <4>1. next.state = state /\ next.values = values
        BY <3>2 DEF GatesInvariants, Proposed
      <4>2. Transitions(stream') \subseteq Transitions(stream)
                                             \cup {TransitionEvent(state, next.state)}
        <5> HIDE DEF next, found
        <5> QED  BY <2>6, CommitGrowth
      <4>3. TransitionEvent(state, next.state).from = TransitionEvent(state, next.state).to
        BY <4>1, EventTypes
      <4>4. Moved
        <5> HIDE DEF next, found
        <5> QED  BY <2>1, <2>6, <4>1, <4>2, <4>3
      <4> QED  BY <1>1, <2>3, <2>6, <4>1, <4>4
    <3> QED  BY <3>1, <3>2
  <2> QED  BY <2>1, <2>4, <2>5, <2>6 DEF Verdict
<1>8. CASE UNCHANGED vars
  BY <1>2, <1>8 DEF vars
<1> QED  BY <1>3, <1>4, <1>5, <1>6, <1>7, <1>8 DEF Next, Rest

\* Once a result was checked an instance never rests on values that a rejecting
\* invariant of its state refuses: whatever a handler returned, left out, or
\* recovered with, and whatever was only warned about on the way.
THEOREM InvariantsHold == Spec => []InvariantsHoldOnceChecked
<1>1. Init => InvariantsHoldOnceChecked
  BY InvariantsInit
<1>2. DTypes /\ InvariantsHoldOnceChecked /\ [Next]_vars => InvariantsHoldOnceChecked'
  BY InvariantsStep
<1> QED  BY <1>1, <1>2, DeclaredTypes, PTL DEF Spec
-----------------------------------------------------------------------------
(* The discovery workflow.                                                 *)

IsMove(e) == e.type = "transition" /\ e.from # None

IsRefusal(e) == e.type = "violation" /\ e.kind = "transition"

\* The adopted edges are those of some observation that has everything the
\* stream showed at the release, and they are what refused moves since.
AdoptedEdges ==
  adopted =>
    /\ \E observed :
         /\ IsFiniteSet(observed.taken)
         /\ definition.constraints.transitions =
              [policy |-> Unset, allow |-> AllowFrom(observed)]
         /\ \A i \in 1 .. since :
              IsMove(stream[i]) => <<stream[i].from, stream[i].to>> \in observed.taken
    /\ \A i \in since + 1 .. Len(stream) :
         IsRefusal(stream[i]) => ~Allows(Entity.graph, stream[i].from, stream[i].to)

\* It stays so while the stream grows by what the edges do not contradict.
LEMMA AdoptedGrows ==
  ASSUME DTypes, AdoptedEdges, NEW added, Grows(stream, stream', added),
         UNCHANGED <<definition, since, adopted>>,
         adopted => \A e \in added :
           IsRefusal(e) => ~Allows(Entity.graph, e.from, e.to)
  PROVE  AdoptedEdges'
<1> SUFFICES ASSUME adopted
             PROVE  AdoptedEdges'
  BY DEF AdoptedEdges
<1>1. Len(stream) \in Nat /\ Len(stream') \in Nat /\ since \in 0 .. Len(stream)
  BY LenProperties DEF DTypes, Grows, IsList
<1>2. Entity' = Entity
  BY DEF Entity
<1>3. \A i \in 1 .. since : stream'[i] = stream[i]
  BY <1>1 DEF Grows
<1>4. ASSUME NEW i \in since + 1 .. Len(stream'), IsRefusal(stream'[i])
      PROVE  ~Allows(Entity.graph, stream'[i].from, stream'[i].to)
  <2>1. CASE i <= Len(stream)
    <3>1. i \in since + 1 .. Len(stream) /\ stream'[i] = stream[i]
      BY <1>1, <2>1 DEF Grows
    <3> QED  BY <1>4, <3>1 DEF AdoptedEdges
  <2>2. CASE ~(i <= Len(stream))
    <3>1. stream'[i] \in added
      BY <1>1, <2>2 DEF Grows
    <3> QED  BY <1>4, <3>1
  <2> QED  BY <2>1, <2>2
<1>5. PICK observed :
         /\ IsFiniteSet(observed.taken)
         /\ definition.constraints.transitions =
              [policy |-> Unset, allow |-> AllowFrom(observed)]
         /\ \A i \in 1 .. since :
              IsMove(stream[i]) => <<stream[i].from, stream[i].to>> \in observed.taken
  BY DEF AdoptedEdges
<1>6. \A i \in 1 .. since :
         IsMove(stream'[i]) => <<stream'[i].from, stream'[i].to>> \in observed.taken
  BY <1>3, <1>5
<1> QED  BY <1>2, <1>4, <1>5, <1>6 DEF AdoptedEdges

LEMMA AdoptedInit == Init => AdoptedEdges
BY DEF Init, AdoptedEdges

LEMMA AdoptedStep == DTypes /\ AdoptedEdges /\ [Next]_vars => AdoptedEdges'
<1> SUFFICES ASSUME DTypes, AdoptedEdges, [Next]_vars PROVE AdoptedEdges'
  OBVIOUS
<1>1. ASSUME UNCHANGED <<definition, since, adopted, stream>> PROVE AdoptedEdges'
  BY <1>1 DEF AdoptedEdges, Entity
<1>2. CASE Release
  <2>1. /\ stream' = stream
        /\ \/ UNCHANGED <<definition, since, adopted, turn>>
           \/ /\ Defined(definition') /\ since' = Len(stream) /\ turn' = NoTurn
              /\ adopted' => definition' = Adopting(definition, ObserveEdges(stream))
                             /\ definition # None
    BY <1>2, ReleaseInstalls
  <2>2. CASE UNCHANGED <<definition, since, adopted, turn>>
    BY <1>1, <2>1, <2>2
  <2>3. CASE /\ since' = Len(stream)
             /\ adopted' => definition' = Adopting(definition, ObserveEdges(stream))
                            /\ definition # None
    <3> SUFFICES ASSUME adopted' PROVE AdoptedEdges'
      BY DEF AdoptedEdges
    <3> DEFINE observed == ObserveEdges(stream)
    <3>1. IsFiniteSet(observed.taken) /\ IsDefinition(definition)
      BY <2>3, TakenIsFinite DEF DTypes, Defined
    <3>2. definition'.constraints.transitions =
             [policy |-> Unset, allow |-> AllowFrom(observed)]
      <4> HIDE DEF observed
      <4>1. definition' = Adopting(definition, observed)
        BY <2>3 DEF observed
      <4> QED  BY <3>1, <4>1, AdoptedIsDefinition
    <3>3. ASSUME NEW i \in 1 .. Len(stream), IsMove(stream[i])
          PROVE  <<stream[i].from, stream[i].to>> \in observed.taken
      <4>1. stream[i] \in ToSet(stream)
        BY Elements DEF DTypes, IsList
      <4> QED  BY <3>3, <4>1 DEF ObserveEdges, Transitions, IsMove
    <3>4. since' + 1 .. Len(stream') = {}
      BY <2>1, <2>3, LenProperties DEF DTypes, IsList
    <3> HIDE DEF observed
    <3> QED  BY <2>1, <2>3, <3>1, <3>2, <3>3, <3>4 DEF AdoptedEdges
  <2> QED  BY <2>1, <2>2, <2>3
<1>3. CASE Initialize
  <2> DEFINE e == TransitionEvent(None, definition.initial)
  <2>1. /\ stream = <<>> /\ stream' = <<e>>
        /\ UNCHANGED <<definition, since, adopted>>
    BY <1>3 DEF Initialize
  <2>2. Grows(stream, stream', {e})
    <3>1. Append(stream, e) = <<e>>
      <4> HIDE DEF e
      <4> QED  BY <2>1
    <3> QED  BY <2>1, <3>1, GrowsByOne DEF DTypes
  <2>3. ~IsRefusal(e)
    BY EventTypes DEF IsRefusal
  <2> HIDE DEF e
  <2> QED  BY <2>1, <2>2, <2>3, AdoptedGrows
<1>4. ASSUME NEW type \in Types, Dispatch(type) PROVE AdoptedEdges'
  <2>1. UNCHANGED <<definition, since, adopted>>
    BY <1>4 DEF Dispatch
  <2>2. stream' = stream \/ \E code : stream' = Append(stream, RejectedEvent(code))
    BY <1>4 DEF Dispatch
  <2>3. ASSUME NEW code, stream' = Append(stream, RejectedEvent(code))
        PROVE  AdoptedEdges'
    <3>1. Grows(stream, stream', {RejectedEvent(code)})
      BY <2>3, GrowsByOne DEF DTypes
    <3>2. ~IsRefusal(RejectedEvent(code))
      BY EventTypes DEF IsRefusal
    <3> QED  BY <2>1, <3>1, <3>2, AdoptedGrows
  <2> QED  BY <1>1, <2>1, <2>2, <2>3
<1>5. ASSUME NEW result \in Results, Returns(result) PROVE AdoptedEdges'
  BY <1>1, <1>5 DEF Returns
<1>6. CASE Settle
  <2> DEFINE next == Proposed(turn.result)
             found == CheckConstraints(Entity, state, next, turn.result)
             noted == NotesOf(found, state, next.state)
             commit == TransitionEvent(state, next.state)
  <2>1. Verdict /\ UNCHANGED <<definition, since, adopted>>
    BY <1>6, SettleWrites
  <2>2. IsCompiled(Entity)
    BY <1>6, CompiledAreLists DEF DTypes, Defined, Settle, Entity
  <2>3. ASSUME NEW e \in noted, IsRefusal(e)
        PROVE  ~Allows(Entity.graph, e.from, e.to)
    <3>1. PICK v \in ToSet(found) : e = ViolationEvent(v, state, next.state)
      BY DEF NotesOf
    <3>2. e.kind = v.kind /\ e.from = state /\ e.to = next.state
      BY <3>1 DEF ViolationEvent
    <3> HIDE DEF next
    <3>3. ~Allows(Entity.graph, state, next.state)
      BY <2>2, <2>3, <3>2, CheckFinds DEF IsRefusal
    <3> QED  BY <3>2, <3>3
  <2>4. ~IsRefusal(commit)
    BY EventTypes DEF IsRefusal
  <2> HIDE DEF noted, commit
  <2>5. \/ UNCHANGED stream
        \/ Grows(stream, stream', noted)
        \/ Grows(stream, stream', noted \cup {commit})
    BY <2>1 DEF Verdict, noted, commit
  <2> HIDE DEF next, found
  <2>6. CASE UNCHANGED stream
    BY <1>1, <2>1, <2>6
  <2>7. CASE Grows(stream, stream', noted)
    BY <2>1, <2>3, <2>7, AdoptedGrows
  <2>8. CASE Grows(stream, stream', noted \cup {commit})
    BY <2>1, <2>3, <2>4, <2>8, AdoptedGrows
  <2> QED  BY <2>5, <2>6, <2>7, <2>8
<1>7. CASE UNCHANGED vars
  BY <1>1, <1>7 DEF vars
<1> QED  BY <1>2, <1>3, <1>4, <1>5, <1>6, <1>7 DEF Next, Rest
LEMMA ElementsOfPart ==
  ASSUME NEW list, IsList(list), NEW m \in Nat \ {0}, NEW n \in 0 .. Len(list)
  PROVE  \A x : x \in ToSet(SubSeq(list, m, n)) => \E i \in m .. n : list[i] = x
<1> DEFINE S == ToSet(list)
           part == SubSeq(list, m, n)
<1>1. Len(list) \in Nat /\ list \in Seq(S)
  BY LenProperties DEF IsList
<1>2. \A i \in m .. n : list[i] \in S
  BY <1>1 DEF ToSet
<1> HIDE DEF S
<1>3. /\ part \in Seq(S) /\ Len(part) = IF m <= n THEN n - m + 1 ELSE 0
      /\ \A i \in 1 .. n - m + 1 : part[i] = list[m + i - 1]
  BY <1>1, <1>2, SubSeqProperties
<1> HIDE DEF part
<1>4. \A x : x \in ToSet(part) => \E i \in 1 .. Len(part) : part[i] = x
  BY <1>3, Elements
<1>5. \A i \in 1 .. Len(part) : m + i - 1 \in m .. n /\ part[i] = list[m + i - 1]
  BY <1>1, <1>3
<1>6. \A x : x \in ToSet(part) => \E i \in m .. n : list[i] = x
  BY <1>4, <1>5
<1> QED  BY <1>6 DEF part

LEMMA AdoptedMovesAreOpen ==
  ASSUME \A allow : Unset # [policy |-> Unset, allow |-> allow],
         DTypes, AdoptedEdges
  PROVE  ObservedMovesStayOpen
<1> DEFINE first == SubSeq(stream, 1, since)
           later == SubSeq(stream, since + 1, Len(stream))
           before == {<<e.from, e.to>> : e \in Transitions(first)}
<1> SUFFICES ASSUME adopted
             PROVE  /\ EdgesOf(Entity.graph, before).observed = {}
                    /\ before \cap RefusedEdges(later) = {}
  BY DEF ObservedMovesStayOpen
<1>1. Defined(definition) /\ IsList(stream) /\ since \in 0 .. Len(stream)
      /\ Len(stream) \in Nat
  BY LenProperties DEF DTypes, IsList
<1>2. PICK observed :
         /\ IsFiniteSet(observed.taken)
         /\ definition.constraints.transitions =
              [policy |-> Unset, allow |-> AllowFrom(observed)]
         /\ \A i \in 1 .. since :
              IsMove(stream[i]) => <<stream[i].from, stream[i].to>> \in observed.taken
  BY DEF AdoptedEdges
<1>3. HasEdges(Entity.graph) /\ \A e \in observed.taken : Allows(Entity.graph, e[1], e[2])
  BY <1>1, <1>2, ObservedIsAllowed DEF Defined, Entity
<1>4. ASSUME NEW e \in Transitions(first)
      PROVE  Allows(Entity.graph, e.from, e.to)
  <2>1. e \in ToSet(first) /\ IsMove(e)
    BY DEF Transitions, IsMove
  <2>2. \A x : x \in ToSet(first) => \E i \in 1 .. since : stream[i] = x
    <3>1. 1 \in Nat \ {0}
      OBVIOUS
    <3> QED  BY <1>1, <3>1, ElementsOfPart
  <2>3. PICK i \in 1 .. since : stream[i] = e
    BY <2>1, <2>2
  <2>4. <<e.from, e.to>> \in observed.taken
    BY <1>2, <2>1, <2>3
  <2> QED  BY <1>3, <2>4
<1>5. ASSUME NEW e \in ToSet(later), IsRefusal(e)
      PROVE  ~Allows(Entity.graph, e.from, e.to)
  <2>1. since + 1 \in Nat \ {0} /\ Len(stream) \in 0 .. Len(stream)
    BY <1>1
  <2>2. PICK i \in since + 1 .. Len(stream) : stream[i] = e
    BY <1>1, <2>1, ElementsOfPart
  <2> QED  BY <1>5, <2>2 DEF AdoptedEdges
<1> HIDE DEF first, later
<1>6. \A b \in before : Allows(Entity.graph, b[1], b[2])
  BY <1>4
<1>7. EdgesOf(Entity.graph, before).observed = {}
  <2> HIDE DEF before
  <2>1. EdgesOf(Entity.graph, before).observed =
          {e \in before : ~(HasEdges(Entity.graph) /\ Allows(Entity.graph, e[1], e[2]))}
    BY DEF EdgesOf
  <2> QED  BY <1>3, <1>6, <2>1
<1>8. \A b \in RefusedEdges(later) : ~Allows(Entity.graph, b[1], b[2])
  BY <1>5 DEF RefusedEdges, IsRefusal
<1>9. before \cap RefusedEdges(later) = {}
  <2> HIDE DEF before
  <2> QED  BY <1>6, <1>8
<1> QED  BY <1>7, <1>9

\* Once an entity adopts the edges its instance took, no move it had made is
\* refused and no observed edge is left over: whatever edges it had declared,
\* and whatever was warned about.  A field that was left out is no declaration.
THEOREM ObservedStayOpen ==
  ASSUME \A allow : Unset # [policy |-> Unset, allow |-> allow]
  PROVE  Spec => []ObservedMovesStayOpen
<1>1. Init => AdoptedEdges
  BY AdoptedInit
<1>2. DTypes /\ AdoptedEdges /\ [Next]_vars => AdoptedEdges'
  BY AdoptedStep
<1>3. DTypes /\ AdoptedEdges => ObservedMovesStayOpen
  BY AdoptedMovesAreOpen
<1> QED  BY <1>1, <1>2, <1>3, DeclaredTypes, PTL DEF Spec
-----------------------------------------------------------------------------
(* Where a graph leads.                                                    *)

\* One round of the search.
RoundAfter(graph, r) ==
  LET new == Found(graph, r.frontier) \ r.seen
  IN  [seen |-> r.seen \cup new, frontier |-> new]

AreRounds(r, graph, from, n) ==
  /\ r[0] = [seen |-> {}, frontier |-> {from}]
  /\ \A k \in 1 .. n : r[k] = RoundAfter(graph, r[k - 1])

LEMMA RoundsExist ==
  ASSUME NEW graph, Len(graph.nodes) \in Nat, NEW from, HasState(graph, from)
  PROVE  \E r : /\ AreRounds(r, graph, from, Len(graph.nodes))
                /\ ReachableFrom(graph, from) = r[Len(graph.nodes)].seen
<1> DEFINE last == Len(graph.nodes)
           Next1(g, k) == IF k = 0 THEN [seen |-> {}, frontier |-> {from}]
                          ELSE RoundAfter(graph, g[k - 1])
           IsSearch(g, n) == g = [k \in 0 .. n |-> Next1(g, k)]
<1>1. \A n \in 0 .. last : \E g : IsSearch(g, n)
  <2> DEFINE Good == {n \in 0 .. last : \E g : IsSearch(g, n)}
  <2>1. 0 \in Good
    <3> DEFINE g0 == [k \in 0 .. 0 |-> Next1(<<>>, 0)]
    <3>1. \A k \in 0 .. 0 : k = 0
      OBVIOUS
    <3>2. IsSearch(g0, 0)
      BY <3>1
    <3> HIDE DEF IsSearch
    <3> QED  BY <3>2
  <2>2. ASSUME NEW n \in 0 .. last - 1, n \in Good
        PROVE  n + 1 \in Good
    <3>1. PICK g : IsSearch(g, n)
      BY <2>2
    <3> DEFINE D == 0 .. n + 1
               h == [k \in D |-> IF k = n + 1 THEN RoundAfter(graph, g[n]) ELSE g[k]]
    <3>2. ASSUME NEW k \in D
          PROVE  h[k] = Next1(h, k)
      <4>1. CASE k = n + 1
        <5>1. k # 0 /\ k - 1 = n /\ n \in D /\ n # n + 1
          BY <2>2, <4>1
        <5>2. h[k] = RoundAfter(graph, g[n]) /\ h[n] = g[n]
          BY <4>1, <5>1
        <5> HIDE DEF h
        <5> QED  BY <5>1, <5>2
      <4>2. CASE k # n + 1
        <5>1. k \in 0 .. n
          BY <2>2, <4>2
        <5>2. h[k] = g[k] /\ g[k] = Next1(g, k)
          <6>1. h[k] = g[k]
            BY <4>2
          <6> HIDE DEF h, Next1
          <6> QED  BY <3>1, <5>1, <6>1
        <5>3. CASE k # 0
          <6>1. k - 1 \in D /\ k - 1 # n + 1
            BY <2>2, <5>1, <5>3
          <6>2. h[k - 1] = g[k - 1]
            BY <6>1
          <6> HIDE DEF h
          <6> QED  BY <5>2, <5>3, <6>2
        <5> HIDE DEF h
        <5> QED  BY <5>2, <5>3
      <4> QED  BY <4>1, <4>2
    <3>3. IsSearch(h, n + 1)
      <4>1. h = [k \in D |-> h[k]]
        OBVIOUS
      <4> HIDE DEF h, Next1
      <4>2. h = [k \in D |-> Next1(h, k)]
        BY <3>2, <4>1
      <4> QED  BY <4>2
    <3>4. n + 1 \in 0 .. last
      BY <2>2
    <3> QED  BY <3>3, <3>4
  <2> HIDE DEF Good
  <2>3. \A n \in 0 .. last : n \in Good
    <3> HIDE DEF last
    <3>1. last \in Nat
      BY DEF last
    <3> QED  BY <2>1, <2>2, <3>1, UpTo
  <2> QED  BY <2>3 DEF Good
<1> DEFINE r == CHOOSE g : IsSearch(g, last)
<1>2. IsSearch(r, last)
  <2>1. \E g : IsSearch(g, last)
    <3> HIDE DEF IsSearch
    <3>1. last \in 0 .. last
      OBVIOUS
    <3> HIDE DEF last
    <3> QED  BY <1>1, <3>1
  <2> HIDE DEF IsSearch
  <2> QED  BY <2>1
<1>3. ReachableFrom(graph, from) = r[last].seen
  BY DEF ReachableFrom, RoundAfter
<1> HIDE DEF r
<1>4. AreRounds(r, graph, from, last)
  <2>1. \A k \in 0 .. last : r[k] = Next1(r, k)
    <3> HIDE DEF Next1, last
    <3> QED  BY <1>2
  <2>2. 0 \in 0 .. last /\ \A k \in 1 .. last : k \in 0 .. last /\ k # 0
    OBVIOUS
  <2> HIDE DEF last
  <2>3. r[0] = [seen |-> {}, frontier |-> {from}]
        /\ \A k \in 1 .. last : r[k] = RoundAfter(graph, r[k - 1])
    BY <2>1, <2>2
  <2> QED  BY <2>3 DEF AreRounds, last
<1> QED  BY <1>3, <1>4
\* The search is closed: what it found, and where it began, leads nowhere else.
\* It runs one round for each state, and a round that finds a state finds a new
\* one, so by then there is nothing new to find.
LEMMA SearchIsClosed ==
  ASSUME NEW graph, IsList(graph.nodes), NEW from, HasState(graph, from),
         \A n, m : Contains(TargetsOf(graph, n), m) => m \in ToSet(graph.nodes),
         \A n : IsList(TargetsOf(graph, n))
  PROVE  \A n \in {from} \cup ReachableFrom(graph, from) : \A m :
           Contains(TargetsOf(graph, n), m) => m \in ReachableFrom(graph, from)
<1> DEFINE last == Len(graph.nodes)
           States == ToSet(graph.nodes)
<1>1. last \in Nat
  BY LenProperties DEF IsList
<1>2. PICK r : /\ AreRounds(r, graph, from, last)
               /\ ReachableFrom(graph, from) = r[last].seen
  BY <1>1, RoundsExist
<1>3. IsFiniteSet(States) /\ Cardinality(States) \in Nat /\ Cardinality(States) <= last
  <2>1. DOMAIN graph.nodes = 1 .. last /\ graph.nodes \in [1 .. last -> States]
    <3>1. DOMAIN graph.nodes = 1 .. last
      BY LenProperties DEF IsList
    <3>2. graph.nodes = [i \in DOMAIN graph.nodes |-> graph.nodes[i]]
      BY DEF IsList
    <3> QED  BY <3>1, <3>2 DEF ToSet
  <2>2. graph.nodes \in Surjection(1 .. last, States)
    BY <2>1 DEF Surjection, ToSet
  <2> HIDE DEF last, States
  <2>3. IsFiniteSet(1 .. last) /\ Cardinality(1 .. last) = last
    BY <1>1, FS_Interval
  <2> QED  BY <2>2, <2>3, FS_Surjection, FS_CardinalityType
<1>4. \A names : Found(graph, names) \subseteq States
  <2>1. \A n : ToSet(TargetsOf(graph, n)) \subseteq States
    BY Elements DEF IsList
  <2> QED  BY <2>1 DEF Found
<1>5. \A names : \A n \in names : ToSet(TargetsOf(graph, n)) \subseteq Found(graph, names)
  BY DEF Found
<1>6. Found(graph, {}) = {}
  BY DEF Found
<1> DEFINE Leads(n, k) == ToSet(TargetsOf(graph, n)) \subseteq r[k].seen
           Closed(k) == \A n \in {from} \cup r[k].seen : n \in r[k].frontier \/ Leads(n, k)
           Finds(k) == \/ r[k].frontier = {}
                       \/ Cardinality(r[k].seen) >= k
           Good == {k \in 0 .. last : r[k].seen \subseteq States /\ Closed(k) /\ Finds(k)}
<1> HIDE DEF last, States
<1>7. r[0].seen = {} /\ r[0].frontier = {from}
  BY <1>2 DEF AreRounds
<1>8. \A k \in 0 .. last - 1 :
         /\ r[k + 1].frontier = Found(graph, r[k].frontier) \ r[k].seen
         /\ r[k + 1].seen = r[k].seen \cup (Found(graph, r[k].frontier) \ r[k].seen)
  <2> SUFFICES ASSUME NEW k \in 0 .. last - 1
               PROVE  /\ r[k + 1].frontier = Found(graph, r[k].frontier) \ r[k].seen
                      /\ r[k + 1].seen = r[k].seen \cup (Found(graph, r[k].frontier) \ r[k].seen)
    OBVIOUS
  <2>1. k + 1 \in 1 .. last /\ (k + 1) - 1 = k
    BY <1>1
  <2>2. r[k + 1] = RoundAfter(graph, r[k])
    BY <1>2, <2>1 DEF AreRounds
  <2> QED  BY <2>2 DEF RoundAfter
<1>9. 0 \in Good
  <2>1. Cardinality(r[0].seen) >= 0
    BY <1>7, FS_EmptySet
  <2> QED  BY <1>1, <1>7, <2>1
<1>10. ASSUME NEW k \in 0 .. last - 1, k \in Good PROVE k + 1 \in Good
  <2> DEFINE new == r[k + 1].frontier
  <2>1. /\ new = Found(graph, r[k].frontier) \ r[k].seen
        /\ r[k + 1].seen = r[k].seen \cup new
        /\ new \subseteq States /\ r[k + 1].seen \subseteq States
        /\ Found(graph, r[k].frontier) \subseteq r[k + 1].seen
    BY <1>4, <1>8, <1>10
  <2>2. Closed(k + 1)
    <3> SUFFICES ASSUME NEW n \in {from} \cup r[k + 1].seen, n \notin new
                 PROVE  Leads(n, k + 1)
      OBVIOUS
    <3>1. n \in {from} \cup r[k].seen
      BY <2>1
    <3>2. n \in r[k].frontier \/ Leads(n, k)
      BY <1>10, <3>1
    <3> QED  BY <1>5, <2>1, <3>2
  <2>3. Finds(k + 1)
    <3>1. CASE r[k].frontier = {}
      BY <1>6, <2>1, <3>1
    <3>2. CASE new # {} /\ r[k].frontier # {}
      <4>1. Cardinality(r[k].seen) >= k
        BY <1>10, <3>2
      <4>2. PICK x : x \in new
        BY <3>2
      <4>3. x \notin r[k].seen /\ r[k].seen \cup {x} \in SUBSET r[k + 1].seen
        BY <2>1, <4>2
      <4>4. IsFiniteSet(r[k].seen) /\ IsFiniteSet(r[k + 1].seen)
        BY <1>3, <1>10, <2>1, FS_Subset
      <4> HIDE DEF new
      <4>5. Cardinality(r[k].seen \cup {x}) = Cardinality(r[k].seen) + 1
        BY <4>3, <4>4, FS_AddElement
      <4>6. Cardinality(r[k].seen \cup {x}) <= Cardinality(r[k + 1].seen)
        BY <4>3, <4>4, FS_Subset
      <4>7. Cardinality(r[k].seen) \in Nat /\ Cardinality(r[k + 1].seen) \in Nat
        BY <4>4, FS_CardinalityType
      <4> QED  BY <4>1, <4>5, <4>6, <4>7
    <3> QED  BY <3>1, <3>2
  <2>4. k + 1 \in 0 .. last
    BY <1>1
  <2> QED  BY <2>1, <2>2, <2>3, <2>4
<1>11. last \in Good
  <2> HIDE DEF Good
  <2>1. \A k \in 0 .. last : k \in Good
    BY <1>1, <1>9, <1>10, UpTo
  <2> QED  BY <1>1, <2>1
<1>12. ASSUME NEW n \in {from} \cup r[last].seen PROVE Leads(n, last)
  <2>1. CASE r[last].frontier = {}
    BY <1>11, <2>1
  <2>2. CASE Cardinality(r[last].seen) >= last
    <3>1. r[last].seen \in SUBSET States /\ Cardinality(r[last].seen) <= Cardinality(States)
          /\ Cardinality(r[last].seen) \in Nat
      BY <1>3, <1>11, FS_Subset, FS_CardinalityType
    <3>2. Cardinality(States) = Cardinality(r[last].seen)
      BY <1>1, <1>3, <2>2, <3>1
    <3>3. States = r[last].seen
      BY <1>3, <3>1, <3>2, FS_Subset
    <3> QED  BY <1>4, <1>5, <3>3
  <2> QED  BY <1>11, <2>1, <2>2
<1>13. \A n, m : Contains(TargetsOf(graph, n), m) => m \in ToSet(TargetsOf(graph, n))
  BY Elements DEF IsList
<1> QED  BY <1>2, <1>12, <1>13
-----------------------------------------------------------------------------
(* What analysis says of an entity is true of its instances.               *)

Reached == {definition.initial} \cup ReachableFrom(Entity.graph, definition.initial)

Follows(from, to) == from = to \/ Contains(TargetsOf(Entity.graph, from), to)

\* The instance is where the edges lead, and every move it made follows one.
EdgesFollowed ==
  Founded /\ Entity.edgePolicy = "reject" =>
    /\ state \in Reached
    /\ \A e \in Transitions(stream) : e.to \in Reached /\ Follows(e.from, e.to)

LEMMA ReachedIsClosed ==
  ASSUME Defined(definition), Entity.edgePolicy = "reject"
  PROVE  /\ HasEdges(Entity.graph)
         /\ \A n \in Reached : \A m :
              Contains(TargetsOf(Entity.graph, n), m) => m \in Reached
<1> DEFINE t == definition.constraints.transitions
           first == definition.initial
<1>1. t # Unset /\ InForce(t)
  <2>1. Entity.edgePolicy = IF t = Unset THEN "off" ELSE ResolvePolicy(t.policy)
    BY DEF Entity, CompileConstraints
  <2> QED  BY <2>1 DEF InForce
<1>2. /\ IsList(Entity.graph.nodes) /\ HasEdges(Entity.graph)
      /\ ToSet(Entity.graph.nodes) = ToSet(definition.states)
      /\ \A n, m : Contains(TargetsOf(Entity.graph, n), m) => m \in ToSet(definition.states)
      /\ \A n : IsList(TargetsOf(Entity.graph, n))
  BY <1>1, GraphIsDeclared DEF Defined, Entity
<1>3. HasState(Entity.graph, first)
  <2>1. Contains(definition.states, first) /\ IsList(definition.states)
    BY DEF Defined, Accepted, IsDefinition
  <2>2. first \in ToSet(definition.states)
    BY <2>1, Elements DEF IsList
  <2> QED  BY <1>2, <2>2, Elements DEF HasState, IsList
<1>4. \A n \in {first} \cup ReachableFrom(Entity.graph, first) : \A m :
        Contains(TargetsOf(Entity.graph, n), m) => m \in ReachableFrom(Entity.graph, first)
  BY <1>2, <1>3, SearchIsClosed
<1> QED  BY <1>2, <1>4 DEF Reached

LEMMA EdgesInit == Init => EdgesFollowed
BY DEF Init, EdgesFollowed, Founded

LEMMA EdgesStep == DTypes /\ EdgesFollowed /\ [Next]_vars => EdgesFollowed'
<1> DEFINE Good == /\ state \in Reached
                   /\ \A e \in Transitions(stream) : e.to \in Reached /\ Follows(e.from, e.to)
<1> SUFFICES ASSUME DTypes, EdgesFollowed, [Next]_vars, Founded',
                    Entity'.edgePolicy = "reject"
             PROVE  Good'
  BY DEF EdgesFollowed
<1>1. Founded /\ Entity.edgePolicy = "reject" => Good
  BY DEF EdgesFollowed
<1>2. ASSUME UNCHANGED <<definition, since, state>>, Founded,
             Transitions(stream') = Transitions(stream)
      PROVE  Good'
  <2>1. Entity' = Entity /\ Reached' = Reached
    BY <1>2 DEF Entity, Reached
  <2> QED  BY <1>1, <1>2, <2>1 DEF Follows
<1>3. CASE Release
  <2>1. UNCHANGED <<state, values, stream>>
        /\ (UNCHANGED <<definition, since>> \/ since' = Len(stream))
    BY <1>3, ReleaseInstalls
  <2>2. CASE UNCHANGED <<definition, since>>
    BY <1>2, <2>1, <2>2 DEF Founded
  <2>3. CASE since' = Len(stream)
    <3>1. Len(stream) = 0 /\ stream # <<>>
      BY <2>1, <2>3 DEF Founded
    <3> QED  BY <3>1, EmptySeq DEF DTypes, IsList
  <2> QED  BY <2>1, <2>2, <2>3
<1>4. CASE Initialize
  <2> DEFINE first == TransitionEvent(None, definition.initial)
  <2>1. /\ definition' = definition /\ state' = definition.initial
        /\ stream' = <<first>>
    BY <1>4 DEF Initialize
  <2>2. Transitions(stream') = {}
    <3>1. first.from = None
      BY EventTypes
    <3> HIDE DEF first
    <3>2. ToSet(stream') = {first}
      BY <2>1 DEF ToSet
    <3> QED  BY <3>1, <3>2 DEF Transitions
  <2>3. state' \in Reached'
    BY <2>1 DEF Reached
  <2> QED  BY <2>2, <2>3
<1>5. ASSUME NEW type \in Types, Dispatch(type) PROVE Good'
  <2>1. UNCHANGED <<definition, since, state>> /\ Founded
    BY <1>5 DEF Dispatch, Idle, Founded
  <2>2. stream' = stream \/ \E code : stream' = Append(stream, RejectedEvent(code))
    BY <1>5 DEF Dispatch
  <2>3. Transitions(stream') = Transitions(stream)
    <3>1. ASSUME NEW code, stream' = Append(stream, RejectedEvent(code))
          PROVE  Transitions(stream') = Transitions(stream)
      <4>1. Grows(stream, stream', {RejectedEvent(code)})
        BY <3>1, GrowsByOne DEF DTypes
      <4>2. \A e \in {RejectedEvent(code)} : e.type # "transition"
        BY EventTypes
      <4> QED  BY <4>1, <4>2, QuietGrowth
    <3> QED  BY <2>2, <3>1
  <2> QED  BY <1>2, <2>1, <2>3
<1>6. ASSUME NEW result \in Results, Returns(result) PROVE Good'
  BY <1>2, <1>6 DEF Returns, Founded
<1>7. CASE Settle
  <2> DEFINE next == Proposed(turn.result)
             found == CheckConstraints(Entity, state, next, turn.result)
             commit == TransitionEvent(state, next.state)
  <2>1. Verdict /\ UNCHANGED <<definition, since>>
    BY <1>7, SettleWrites
  <2>2. /\ IsCompiled(Entity) /\ Defined(definition)
        /\ turn.result \in Results /\ stream # <<>> /\ definition # None
    BY <1>7, CompiledAreLists DEF DTypes, Defined, Settle, Entity
  <2>3. /\ Entity' = Entity /\ Reached' = Reached /\ Founded
        /\ \A a, b : Follows(a, b)' = Follows(a, b)
    BY <2>1, <2>2 DEF Entity, Founded, Reached, Follows
  <2>4. Good
    BY <1>1, <2>3
  <2>5. CASE UNCHANGED <<state, values, stream>>
    BY <1>2, <2>1, <2>3, <2>5
  <2>6. CASE /\ Grows(stream, stream', NotesOf(found, state, next.state))
             /\ UNCHANGED <<state, values>>
    <3>1. \A e \in NotesOf(found, state, next.state) : e.type # "transition"
      BY EventTypes
    <3>2. Transitions(stream') = Transitions(stream)
      BY <2>6, <3>1, QuietGrowth
    <3> QED  BY <1>2, <2>1, <2>3, <2>6, <3>2
  <2>7. CASE /\ turn.result.kind # "fail" /\ ~Rejected(found)
             /\ Grows(stream, stream', NotesOf(found, state, next.state)
                                         \cup {TransitionEvent(state, next.state)})
             /\ state' = next.state /\ values' = next.values
    <3>1. Follows(state, next.state)
      <4>1. CASE turn.result.kind = "transitionTo"
        <5>1. Allows(Entity.graph, state, next.state)
          <6> HIDE DEF next
          <6>1. Entity.edgePolicy = "reject" /\ Entity.edgePolicy # "off"
            BY <2>3
          <6> QED  BY <2>2, <2>7, <4>1, <6>1, CheckFinds
        <5>2. HasEdges(Entity.graph)
          BY <2>2, <2>3, ReachedIsClosed
        <5> QED  BY <5>1, <5>2 DEF Follows, Allows, AllowsFrom, TargetsOf
      <4>2. CASE turn.result.kind # "transitionTo"
        BY <4>2 DEF Proposed, Follows
      <4> QED  BY <4>1, <4>2
    <3> HIDE DEF next
    <3>2. next.state \in Reached
      BY <2>2, <2>3, <2>4, <3>1, ReachedIsClosed DEF Follows
    <3>3. Transitions(stream') \subseteq Transitions(stream) \cup {commit}
      <4> HIDE DEF found
      <4> QED  BY <2>7, CommitGrowth
    <3>4. commit.from = state /\ commit.to = next.state
      BY EventTypes
    <3> HIDE DEF commit, found
    <3>5. \A e \in Transitions(stream') : e.to \in Reached /\ Follows(e.from, e.to)
      BY <2>4, <3>1, <3>2, <3>3, <3>4
    <3>6. \A e \in Transitions(stream') : e.to \in Reached' /\ Follows(e.from, e.to)'
      BY <2>3, <3>5
    <3> QED  BY <2>3, <2>7, <3>2, <3>6
  <2> QED  BY <2>1, <2>5, <2>6, <2>7 DEF Verdict
<1>8. CASE UNCHANGED vars
  BY <1>2, <1>8 DEF vars, Founded
<1> QED  BY <1>3, <1>4, <1>5, <1>6, <1>7, <1>8 DEF Next, Rest

LEMMA FollowedIsAnalyzed == EdgesFollowed => UnreachableStaysEmpty
<1> SUFFICES ASSUME EdgesFollowed, Founded, Entity.edgePolicy = "reject"
             PROVE  LET shape == Analyze(Entity.graph, definition.initial)
                    IN  /\ state \notin shape.unreachable
                        /\ \A e \in Transitions(stream) :
                             /\ e.to \notin shape.unreachable
                             /\ e.from \in shape.terminals => e.to = e.from
  BY DEF UnreachableStaysEmpty
<1> DEFINE shape == Analyze(Entity.graph, definition.initial)
<1>1. \A n \in shape.unreachable : n \notin Reached
  BY DEF Analyze, UnreachableFrom, Reached
<1>2. \A n \in shape.terminals : TargetsOf(Entity.graph, n) = <<>>
  BY DEF Analyze, Terminals
<1>3. \A m : ~Contains(<<>>, m)
  BY DEF Contains
<1> HIDE DEF shape
<1>4. /\ state \in Reached
      /\ \A e \in Transitions(stream) : e.to \in Reached /\ Follows(e.from, e.to)
  BY DEF EdgesFollowed
<1>5. \A e \in Transitions(stream) : e.from \in shape.terminals => e.to = e.from
  BY <1>2, <1>3, <1>4 DEF Follows
<1> QED  BY <1>1, <1>4, <1>5 DEF shape

\* While edges are declared and reject, an instance never enters a state that
\* analysis calls unreachable and never leaves one that it calls terminal: for
\* any graph, and under warnings, stays, recoveries and releases that are refused.
THEOREM UnreachableIsEmpty == Spec => []UnreachableStaysEmpty
<1>1. Init => EdgesFollowed
  BY EdgesInit
<1>2. DTypes /\ EdgesFollowed /\ [Next]_vars => EdgesFollowed'
  BY EdgesStep
<1>3. EdgesFollowed => UnreachableStaysEmpty
  BY FollowedIsAnalyzed
<1> QED  BY <1>1, <1>2, <1>3, DeclaredTypes, PTL DEF Spec
-----------------------------------------------------------------------------
(* The verdict, and the declaration read word by word.                     *)

CompiledGuard(g) ==
  [kind |-> "guard", on |-> g.on, from |-> g.from,
   name |-> Named(g, "guard", <<g.from, g.on>>),
   policy |-> ResolvePolicy(g.policy), check |-> g.check]

CompiledInvariant(i) ==
  [kind |-> "invariant", in |-> i.in,
   name |-> Named(i, "invariant", i.in),
   policy |-> ResolvePolicy(i.policy), check |-> i.check]

\* What is compiled is what was declared and is in force.
LEMMA PickedInForce ==
  ASSUME NEW list, IsList(list), NEW form, NEW kept, NEW compiled,
         kept = Picked(list, {i \in DOMAIN list : InForce(list[i])}),
         compiled = [i \in DOMAIN kept |-> form[kept[i]]]
  PROVE  \A x : x \in ToSet(compiled) <=>
           \E c \in ToSet(list) : InForce(c) /\ x = form[c]
<1> DEFINE positions == {i \in DOMAIN list : InForce(list[i])}
           S == ToSet(list)
<1>1. list \in Seq(S) /\ DOMAIN list = 1 .. Len(list)
  BY Elements DEF IsList
<1>2. \A x : x \in S <=> \E i \in 1 .. Len(list) : list[i] = x
  BY <1>1, Elements
<1> HIDE DEF S
<1>3. /\ kept \in Seq(S)
      /\ \A x : x \in ToSet(kept) <=> \E i \in 1 .. Len(list) : i \in positions /\ list[i] = x
  <2>1. kept = Picked(list, positions)
    OBVIOUS
  <2> HIDE DEF positions
  <2>2. /\ Picked(list, positions) \in Seq(S)
        /\ \A x : x \in ToSet(Picked(list, positions)) <=>
                    \E i \in 1 .. Len(list) : i \in positions /\ list[i] = x
    BY <1>1, PickedElements
  <2> QED  BY <2>1, <2>2
<1>4. \A x : x \in ToSet(kept) <=> x \in S /\ InForce(x)
  BY <1>1, <1>2, <1>3
<1>5. \A x : x \in ToSet(compiled) <=> \E y \in ToSet(kept) : x = form[y]
  BY DEF ToSet
<1> QED  BY <1>4, <1>5 DEF S

LEMMA CompiledElements ==
  ASSUME NEW d, IsDefinition(d)
  PROVE  LET c == CompileConstraints(d.constraints, StatesOf(d.states))
         IN  /\ \A x : x \in ToSet(c.guards) <=>
                  \E g \in ToSet(d.constraints.guards) : InForce(g) /\ x = CompiledGuard(g)
             /\ \A x : x \in ToSet(c.invariants) <=>
                  \E i \in ToSet(d.constraints.invariants) :
                    InForce(i) /\ x = CompiledInvariant(i)
<1> DEFINE c == CompileConstraints(d.constraints, StatesOf(d.states))
           gs == d.constraints.guards
           is == d.constraints.invariants
           keptG == Picked(gs, {i \in DOMAIN gs : InForce(gs[i])})
           keptI == Picked(is, {i \in DOMAIN is : InForce(is[i])})
           formG == [g \in ToSet(gs) |-> CompiledGuard(g)]
           formI == [i \in ToSet(is) |-> CompiledInvariant(i)]
<1>1. IsList(gs) /\ IsList(is)
  BY DEF IsDefinition
<1>2. /\ c.guards = [i \in DOMAIN keptG |-> CompiledGuard(keptG[i])]
      /\ c.invariants = [i \in DOMAIN keptI |-> CompiledInvariant(keptI[i])]
  BY DEF CompileConstraints, CompileGuards, CompileInvariants, Kept,
         CompiledGuard, CompiledInvariant
<1> HIDE DEF c
<1>3. c.guards = [i \in DOMAIN keptG |-> formG[keptG[i]]]
  <2>1. keptG \in Seq(ToSet(gs))
    <3> DEFINE positions == {i \in DOMAIN gs : InForce(gs[i])}
    <3> HIDE DEF gs, positions
    <3>1. Picked(gs, positions) \in Seq(ToSet(gs))
      BY <1>1, PickedElements DEF IsList
    <3> QED  BY <3>1 DEF positions
  <2> HIDE DEF keptG, gs
  <2>2. \A i \in DOMAIN keptG : keptG[i] \in ToSet(gs)
    BY <2>1
  <2> QED  BY <1>2, <2>2
<1>4. c.invariants = [i \in DOMAIN keptI |-> formI[keptI[i]]]
  <2>1. keptI \in Seq(ToSet(is))
    <3> DEFINE positions == {i \in DOMAIN is : InForce(is[i])}
    <3> HIDE DEF is, positions
    <3>1. Picked(is, positions) \in Seq(ToSet(is))
      BY <1>1, PickedElements DEF IsList
    <3> QED  BY <3>1 DEF positions
  <2> HIDE DEF keptI, is
  <2>2. \A i \in DOMAIN keptI : keptI[i] \in ToSet(is)
    BY <2>1
  <2> QED  BY <1>2, <2>2
<1>5. /\ \A g \in ToSet(gs) : formG[g] = CompiledGuard(g)
      /\ \A i \in ToSet(is) : formI[i] = CompiledInvariant(i)
  OBVIOUS
<1> HIDE DEF formG, formI, gs, is
<1>10. /\ keptG = Picked(gs, {i \in DOMAIN gs : InForce(gs[i])})
       /\ keptI = Picked(is, {i \in DOMAIN is : InForce(is[i])})
  OBVIOUS
<1> HIDE DEF keptG, keptI
<1>6. \A x : x \in ToSet(c.guards) <=> \E g \in ToSet(gs) : InForce(g) /\ x = formG[g]
  BY <1>1, <1>3, <1>10, PickedInForce
<1>7. \A x : x \in ToSet(c.invariants) <=> \E i \in ToSet(is) : InForce(i) /\ x = formI[i]
  BY <1>1, <1>4, <1>10, PickedInForce
<1>8. \A x : x \in ToSet(c.guards) <=>
        \E g \in ToSet(gs) : InForce(g) /\ x = CompiledGuard(g)
  BY <1>5, <1>6
<1>9. \A x : x \in ToSet(c.invariants) <=>
        \E i \in ToSet(is) : InForce(i) /\ x = CompiledInvariant(i)
  BY <1>5, <1>7
<1> QED  BY <1>8, <1>9 DEF c, gs, is

\* An undeclared edge, an unmet guard or an unmet invariant that rejects is what
\* makes a check refuse, and a refusal comes last.  A check that does not refuse
\* found all that are unmet.
LEMMA CheckDecides ==
  ASSUME NEW compiled, IsCompiled(compiled), NEW from, NEW next, NEW result
  PROVE  LET found == CheckConstraints(compiled, from, next, result)
             moves == result.kind = "transitionTo"
         IN  /\ IsList(found)
             /\ Rejected(found) => Halted(found)
             /\ Rejected(found) <=>
                  \/ /\ moves /\ compiled.edgePolicy = "reject"
                     /\ ~Allows(compiled.graph, from, next.state)
                  \/ moves /\ \E g \in ToSet(compiled.guards) :
                       /\ g.policy = "reject" /\ g.on = next.state
                       /\ AppliesFrom(g, from) /\ ~Holds(g, next.values)
                  \/ GatesInvariants(result) /\ \E i \in ToSet(compiled.invariants) :
                       /\ i.policy = "reject"
                       /\ AppliesIn(i, next.state) /\ ~Holds(i, next.values)
             /\ ~Rejected(found) => \A v : v \in ToSet(found) <=>
                  \/ /\ moves /\ compiled.edgePolicy # "off"
                     /\ ~Allows(compiled.graph, from, next.state)
                     /\ v = Violation("transition", <<"transitions">>, compiled.edgePolicy)
                  \/ moves /\ \E g \in ToSet(compiled.guards) :
                       /\ g.on = next.state
                       /\ AppliesFrom(g, from) /\ ~Holds(g, next.values)
                       /\ v = Violation(g.kind, g.name, g.policy)
                  \/ GatesInvariants(result) /\ \E i \in ToSet(compiled.invariants) :
                       /\ AppliesIn(i, next.state) /\ ~Holds(i, next.values)
                       /\ v = Violation(i.kind, i.name, i.policy)
<1> DEFINE found == CheckConstraints(compiled, from, next, result)
           moves == result.kind = "transitionTo"
           edge == CheckGraph(compiled, IdOf(compiled.graph, from), next.state)
           v0 == Violation("transition", <<"transitions">>, compiled.edgePolicy)
           failingG == {g \in ToSet(compiled.guards) : /\ g.on = next.state
                                       /\ AppliesFrom(g, from)
                                       /\ ~Holds(g, next.values)}
           failingI == {i \in ToSet(compiled.invariants) : /\ AppliesIn(i, next.state)
                                           /\ ~Holds(i, next.values)}
           guarded == Walk(edge, compiled.guards, failingG)
           moved == IF moves THEN guarded ELSE <<>>
           Edge == compiled.edgePolicy = "reject" /\ ~Allows(compiled.graph, from, next.state)
           SomeG == \E g \in ToSet(compiled.guards) : g \in failingG /\ g.policy = "reject"
           SomeI == \E i \in ToSet(compiled.invariants) : i \in failingI /\ i.policy = "reject"
           OfEdge(v) == /\ compiled.edgePolicy # "off"
                        /\ ~Allows(compiled.graph, from, next.state) /\ v = v0
           OfG(v) == \E g \in ToSet(compiled.guards) :
                       g \in failingG /\ v = Violation(g.kind, g.name, g.policy)
           OfI(v) == \E i \in ToSet(compiled.invariants) :
                       i \in failingI /\ v = Violation(i.kind, i.name, i.policy)
<1>1. found = IF GatesInvariants(result) THEN Walk(moved, compiled.invariants, failingI)
                                         ELSE moved
  BY DEF CheckConstraints, WalkGuards, WalkInvariants
<1>2. IsList(compiled.guards) /\ IsList(compiled.invariants)
  BY DEF IsCompiled
<1>3. IsList(<<>>) /\ ~Rejected(<<>>)
  BY DEF IsList, ToSet, Rejected
<1>4. /\ IsList(edge)
      /\ Rejected(edge) => Halted(edge)
      /\ Rejected(edge) <=> Edge
      /\ \A v : v \in ToSet(edge) <=> OfEdge(v)
  <2>1. edge = IF compiled.edgePolicy # "off" /\ ~Allows(compiled.graph, from, next.state)
                 THEN <<v0>> ELSE <<>>
    BY DEF CheckGraph, Allows
  <2>2. v0.policy = compiled.edgePolicy
    BY DEF Violation
  <2> HIDE DEF edge, v0
  <2>3. IsList(<<v0>>) /\ ToSet(<<v0>>) = {v0} /\ <<v0>> # <<>> /\ Last(<<v0>>) = v0
    BY DEF IsList, ToSet, Last
  <2>4. Rejected(<<v0>>) => Halted(<<v0>>)
    BY <2>3 DEF Rejected, Halted
  <2>5. Rejected(<<v0>>) <=> compiled.edgePolicy = "reject"
    BY <2>2, <2>3 DEF Rejected
  <2>6. ToSet(<<>>) = {}
    BY DEF ToSet
  <2>7. \A v : v \in ToSet(edge) <=> OfEdge(v)
    BY <2>1, <2>3, <2>6
  <2> HIDE DEF OfEdge
  <2> QED  BY <1>3, <2>1, <2>3, <2>4, <2>5, <2>7
<1> HIDE DEF edge, failingG, failingI, found, OfEdge
<1>5. /\ IsList(guarded)
      /\ Rejected(guarded) => Halted(guarded)
      /\ Rejected(guarded) <=> Rejected(edge) \/ SomeG
      /\ ~Rejected(guarded) =>
           \A v : v \in ToSet(guarded) <=> v \in ToSet(edge) \/ OfG(v)
  BY <1>2, <1>4, WalkDecides
<1> HIDE DEF guarded, SomeG, SomeI, Edge, OfG
<1>6. /\ IsList(moved)
      /\ Rejected(moved) => Halted(moved)
      /\ Rejected(moved) <=> moves /\ (Edge \/ SomeG)
      /\ ~Rejected(moved) => \A v : v \in ToSet(moved) <=> moves /\ (OfEdge(v) \/ OfG(v))
  <2>1. ToSet(<<>>) = {}
    BY DEF ToSet
  <2>2. CASE moves
    <3> HIDE DEF moves
    <3> QED  BY <1>4, <1>5, <2>2
  <2>3. CASE ~moves
    <3> HIDE DEF moves
    <3> QED  BY <1>3, <2>1, <2>3
  <2> QED  BY <2>2, <2>3
<1> HIDE DEF moved, moves
<1>7. /\ IsList(Walk(moved, compiled.invariants, failingI))
      /\ Rejected(Walk(moved, compiled.invariants, failingI))
           => Halted(Walk(moved, compiled.invariants, failingI))
      /\ Rejected(Walk(moved, compiled.invariants, failingI)) <=> Rejected(moved) \/ SomeI
      /\ ~Rejected(Walk(moved, compiled.invariants, failingI)) =>
           \A v : v \in ToSet(Walk(moved, compiled.invariants, failingI)) <=>
                    v \in ToSet(moved) \/ OfI(v)
  BY <1>2, <1>6, WalkDecides DEF SomeI
<1> HIDE DEF OfI
<1>8. /\ IsList(found)
      /\ Rejected(found) => Halted(found)
      /\ Rejected(found) <=> \/ moves /\ (Edge \/ SomeG)
                             \/ GatesInvariants(result) /\ SomeI
      /\ ~Rejected(found) => \A v : v \in ToSet(found) <=>
           \/ moves /\ (OfEdge(v) \/ OfG(v))
           \/ GatesInvariants(result) /\ OfI(v)
  BY <1>1, <1>6, <1>7
<1>9. SomeG <=> \E g \in ToSet(compiled.guards) :
                  /\ g.policy = "reject" /\ g.on = next.state
                  /\ AppliesFrom(g, from) /\ ~Holds(g, next.values)
  BY DEF SomeG, failingG
<1>10. SomeI <=> \E i \in ToSet(compiled.invariants) :
                  /\ i.policy = "reject"
                  /\ AppliesIn(i, next.state) /\ ~Holds(i, next.values)
  BY DEF SomeI, failingI
<1>11. \A v : OfG(v) <=> \E g \in ToSet(compiled.guards) :
                  /\ g.on = next.state
                  /\ AppliesFrom(g, from) /\ ~Holds(g, next.values)
                  /\ v = Violation(g.kind, g.name, g.policy)
  BY DEF OfG, failingG
<1>12. \A v : OfI(v) <=> \E i \in ToSet(compiled.invariants) :
                  /\ AppliesIn(i, next.state) /\ ~Holds(i, next.values)
                  /\ v = Violation(i.kind, i.name, i.policy)
  BY DEF OfI, failingI
<1>13. \A v : OfEdge(v) <=>
         /\ compiled.edgePolicy # "off" /\ ~Allows(compiled.graph, from, next.state)
         /\ v = Violation("transition", <<"transitions">>, compiled.edgePolicy)
  BY DEF OfEdge
<1>14. ~Rejected(found) => \A v : v \in ToSet(found) <=>
         \/ /\ moves /\ compiled.edgePolicy # "off"
            /\ ~Allows(compiled.graph, from, next.state)
            /\ v = Violation("transition", <<"transitions">>, compiled.edgePolicy)
         \/ moves /\ \E g \in ToSet(compiled.guards) :
              /\ g.on = next.state
              /\ AppliesFrom(g, from) /\ ~Holds(g, next.values)
              /\ v = Violation(g.kind, g.name, g.policy)
         \/ GatesInvariants(result) /\ \E i \in ToSet(compiled.invariants) :
              /\ AppliesIn(i, next.state) /\ ~Holds(i, next.values)
              /\ v = Violation(i.kind, i.name, i.policy)
  BY <1>8, <1>11, <1>12, <1>13
<1> QED  BY <1>8, <1>9, <1>10, <1>14 DEF found, moves, Edge

\* The compiled graph has the edges of the declaration.
LEMMA MoveIsAllowed ==
  ASSUME NEW d, Defined(d), d.constraints.transitions # Unset,
         InForce(d.constraints.transitions)
  PROVE  LET graph == CompileConstraints(d.constraints, StatesOf(d.states)).graph
         IN  \A from, to : Allows(graph, from, to) <=>
               \E entry \in ToSet(d.constraints.transitions.allow) :
                 entry[1] = from /\ Contains(entry[2], to)
<1> DEFINE graph == CompileConstraints(d.constraints, StatesOf(d.states)).graph
           entries == d.constraints.transitions.allow
<1>1. /\ IsList(entries) /\ IsList(d.states)
      /\ \A entry \in ToSet(entries) : IsList(entry[2])
      /\ \A i, j \in DOMAIN entries : entries[i][1] = entries[j][1] => i = j
      /\ \A entry \in ToSet(entries) : HasState(StatesOf(d.states), entry[1])
  BY DEF Defined, IsDefinition, Accepted, ValidConstraints, ValidTransitions
<1>2. /\ HasEdges(graph)
      /\ \A n, m : Contains(TargetsOf(graph, n), m) <=>
           /\ n \in ToSet(d.states) /\ RowsOf(entries, n) # {}
           /\ m \in ToSet(entries[Max(RowsOf(entries, n))][2])
      /\ \A n : RowsOf(entries, n) # {} =>
           Max(RowsOf(entries, n)) \in RowsOf(entries, n)
  BY GraphIsDeclared DEF Defined
<1>3. \A entry \in ToSet(entries) : entry[1] \in ToSet(d.states)
  <2>1. d.states \in Seq(ToSet(d.states))
    BY <1>1 DEF IsList
  <2>2. Dedupe(d.states) \in Seq(ToSet(d.states))
    BY <2>1, DedupeKeepsElements
  <2>3. \A x : Contains(Dedupe(d.states), x) => x \in ToSet(d.states)
    BY <2>2, Elements
  <2> QED  BY <1>1, <2>3 DEF HasState, StatesOf
<1> HIDE DEF graph, entries
<1>4. \A from, to : Allows(graph, from, to) <=> Contains(TargetsOf(graph, from), to)
  BY <1>2 DEF Allows, AllowsFrom, TargetsOf
<1>5. \A from : RowsOf(entries, from) # {} =>
        /\ entries[Max(RowsOf(entries, from))] \in ToSet(entries)
        /\ entries[Max(RowsOf(entries, from))][1] = from
  BY <1>2 DEF RowsOf, ToSet
<1>6. ASSUME NEW from, NEW to, Contains(TargetsOf(graph, from), to)
      PROVE  \E entry \in ToSet(entries) : entry[1] = from /\ Contains(entry[2], to)
  <2> DEFINE entry == entries[Max(RowsOf(entries, from))]
  <2>1. entry \in ToSet(entries) /\ entry[1] = from /\ to \in ToSet(entry[2])
    BY <1>2, <1>5, <1>6
  <2> HIDE DEF entry
  <2>2. Contains(entry[2], to)
    BY <1>1, <2>1, Elements DEF IsList
  <2> QED  BY <2>1, <2>2
<1>7. ASSUME NEW entry \in ToSet(entries), NEW to, Contains(entry[2], to)
      PROVE  Contains(TargetsOf(graph, entry[1]), to)
  <2> DEFINE R == RowsOf(entries, entry[1])
  <2>1. PICK i \in DOMAIN entries : entries[i] = entry
    BY DEF ToSet
  <2>2. i \in R
    BY <2>1 DEF RowsOf
  <2>3. Max(R) \in DOMAIN entries /\ entries[Max(R)][1] = entry[1]
    BY <1>2, <2>2 DEF RowsOf
  <2>4. Max(R) = i
    BY <1>1, <2>1, <2>3
  <2>5. to \in ToSet(entry[2])
    BY <1>1, <1>7, Elements DEF IsList
  <2>6. entry[1] \in ToSet(d.states)
    BY <1>3
  <2> HIDE DEF R
  <2> QED  BY <1>2, <2>1, <2>2, <2>4, <2>5, <2>6 DEF R
<1> QED  BY <1>4, <1>6, <1>7 DEF graph, entries

Rejecting(c) == c.policy \in {Unset, "reject"}

LEMMA Policies ==
  \A c : /\ Rejecting(c) <=> ResolvePolicy(c.policy) = "reject"
         /\ InForce(c) <=> c.policy # "off"
BY UnsetAssumption DEF Rejecting, InForce, ResolvePolicy, ViolationPolicies

\* A check refuses when a rejecting constraint that is declared is unmet.
LEMMA VerdictIsDeclared ==
  ASSUME Defined(definition), NEW result \in Results, result.kind # "fail"
  PROVE  Rejected(CheckConstraints(Entity, state, Proposed(result), result)) <=>
           \E c \in AllUnmet(result) : c.policy \in {Unset, "reject"}
<1> DEFINE next == Proposed(result)
           moves == result.kind = "transitionTo"
           gates == GatesInvariants(result)
           t == definition.constraints.transitions
           gs == definition.constraints.guards
           is == definition.constraints.invariants
           Edge == \E c \in EdgeUnmet(result) : Rejecting(c)
           Refuses(g) == /\ g.on = next.state /\ (g.from # Unset => Contains(g.from, state))
                         /\ g.check[next.values] # "true"
           Breaks(i) == /\ i.in # Unset => Contains(i.in, next.state)
                        /\ i.check[next.values] # "true"
           SomeG == moves /\ \E g \in ToSet(gs) : InForce(g) /\ Rejecting(g) /\ Refuses(g)
           SomeI == gates /\ \E i \in ToSet(is) : InForce(i) /\ Rejecting(i) /\ Breaks(i)
<1>1. moves => next.state = result.state
  BY DEF Proposed
<1>2. (\E c \in AllUnmet(result) : c.policy \in {Unset, "reject"}) <=> Edge \/ SomeG \/ SomeI
  <2> DEFINE G == {g \in ToSet(gs) : g.policy # "off" /\ moves /\ g.on = result.state
                     /\ (g.from # Unset => Contains(g.from, state))
                     /\ g.check[next.values] # "true"}
             I == {i \in ToSet(is) : i.policy # "off" /\ gates
                     /\ (i.in # Unset => Contains(i.in, next.state))
                     /\ i.check[next.values] # "true"}
  <2>1. AllUnmet(result) = EdgeUnmet(result) \cup G \cup I
    BY DEF AllUnmet, GuardsUnmet, InvariantsUnmet, Unmet, GatesInvariants
  <2>2. (\E g \in G : Rejecting(g)) <=> SomeG
    <3> HIDE DEF next, gs
    <3> QED  BY <1>1, Policies
  <2>3. (\E i \in I : Rejecting(i)) <=> SomeI
    <3> HIDE DEF next, is, gates
    <3> QED  BY Policies
  <2> HIDE DEF G, I, SomeG, SomeI
  <2> QED  BY <2>1, <2>2, <2>3 DEF Rejecting
<1>3. Edge <=> moves /\ Entity.edgePolicy = "reject" /\ ~Allows(Entity.graph, state, next.state)
  <2>1. Entity.edgePolicy = IF t = Unset THEN "off" ELSE ResolvePolicy(t.policy)
    BY DEF Entity, CompileConstraints
  <2>2. Edge <=> /\ moves /\ t # Unset /\ InForce(t) /\ Rejecting(t)
                 /\ ~MoveDeclared(state, result.state)
    BY Policies DEF EdgeUnmet
  <2>3. t # Unset /\ InForce(t) =>
          (Allows(Entity.graph, state, result.state) <=> MoveDeclared(state, result.state))
    <3> SUFFICES ASSUME t # Unset, InForce(t)
                 PROVE  Allows(Entity.graph, state, result.state) <=>
                          MoveDeclared(state, result.state)
      OBVIOUS
    <3>1. \A from, to : Allows(Entity.graph, from, to) <=>
             \E entry \in ToSet(t.allow) : entry[1] = from /\ Contains(entry[2], to)
      BY MoveIsAllowed DEF Entity
    <3> QED  BY <3>1 DEF MoveDeclared
  <2>4. t # Unset /\ InForce(t) /\ Rejecting(t) <=> Entity.edgePolicy = "reject"
    <3>1. Rejecting(t) <=> ResolvePolicy(t.policy) = "reject"
      BY Policies
    <3> HIDE DEF t
    <3> QED  BY <2>1, <3>1 DEF InForce
  <2> HIDE DEF next, t, Edge
  <2> QED  BY <1>1, <2>2, <2>3, <2>4
<1>4. /\ \A x : x \in ToSet(Entity.guards) <=>
           \E g \in ToSet(gs) : InForce(g) /\ x = CompiledGuard(g)
      /\ \A x : x \in ToSet(Entity.invariants) <=>
           \E i \in ToSet(is) : InForce(i) /\ x = CompiledInvariant(i)
  BY CompiledElements DEF Defined, Entity
<1>5. \A g : /\ CompiledGuard(g).policy = "reject" <=> Rejecting(g)
             /\ Refuses(g) <=>
                  /\ CompiledGuard(g).on = next.state
                  /\ AppliesFrom(CompiledGuard(g), state)
                  /\ ~Holds(CompiledGuard(g), next.values)
  <2> HIDE DEF next
  <2>1. \A g : /\ CompiledGuard(g).policy = ResolvePolicy(g.policy)
               /\ CompiledGuard(g).on = g.on /\ CompiledGuard(g).from = g.from
               /\ CompiledGuard(g).check = g.check
    BY DEF CompiledGuard
  <2> QED  BY <2>1, Policies DEF AppliesFrom, Holds
<1>6. \A i : /\ CompiledInvariant(i).policy = "reject" <=> Rejecting(i)
             /\ Breaks(i) <=> /\ AppliesIn(CompiledInvariant(i), next.state)
                              /\ ~Holds(CompiledInvariant(i), next.values)
  <2> HIDE DEF next
  <2>1. \A i : /\ CompiledInvariant(i).policy = ResolvePolicy(i.policy)
               /\ CompiledInvariant(i).in = i.in
               /\ CompiledInvariant(i).check = i.check
    BY DEF CompiledInvariant
  <2> QED  BY <2>1, Policies DEF AppliesIn, Holds
<1> DEFINE Guarded == moves /\ \E g \in ToSet(Entity.guards) :
                        /\ g.policy = "reject" /\ g.on = next.state
                        /\ AppliesFrom(g, state) /\ ~Holds(g, next.values)
           Broken == gates /\ \E i \in ToSet(Entity.invariants) :
                       /\ i.policy = "reject"
                       /\ AppliesIn(i, next.state) /\ ~Holds(i, next.values)
<1>7. SomeG <=> Guarded
  <2> HIDE DEF next, gs, Refuses
  <2> QED  BY <1>4, <1>5
<1>8. SomeI <=> Broken
  <2> HIDE DEF next, is, Breaks, gates
  <2> QED  BY <1>4, <1>6
<1>9. Rejected(CheckConstraints(Entity, state, next, result)) <=>
        \/ moves /\ Entity.edgePolicy = "reject" /\ ~Allows(Entity.graph, state, next.state)
        \/ Guarded \/ Broken
  <2>1. IsCompiled(Entity)
    BY CompiledAreLists DEF Defined, Entity
  <2> HIDE DEF next
  <2> QED  BY <2>1, CheckDecides
<1> HIDE DEF Edge, SomeG, SomeI, Guarded, Broken, moves, next
<1>10. Rejected(CheckConstraints(Entity, state, next, result)) <=>
         \E c \in AllUnmet(result) : c.policy \in {Unset, "reject"}
  BY <1>2, <1>3, <1>7, <1>8, <1>9
<1> QED  BY <1>10 DEF next

\* A check that does not refuse found the warnings that are declared.
LEMMA WarningsAreDeclared ==
  ASSUME Defined(definition), NEW result \in Results, result.kind # "fail",
         ~Rejected(CheckConstraints(Entity, state, Proposed(result), result))
  PROVE  ToSet(CheckConstraints(Entity, state, Proposed(result), result)) = Warnings(result)
<1> DEFINE next == Proposed(result)
           found == CheckConstraints(Entity, state, next, result)
           moves == result.kind = "transitionTo"
           gates == GatesInvariants(result)
           t == definition.constraints.transitions
           gs == definition.constraints.guards
           is == definition.constraints.invariants
           EdgeSays(v) == \E c \in EdgeUnmet(result) :
             v = Violation("transition", <<"transitions">>, "warn")
           GuardSays(v) == \E g \in GuardsUnmet(result) :
             v = Violation("guard", Named(g, "guard", <<g.from, g.on>>), "warn")
           InvariantSays(v) == \E i \in InvariantsUnmet(result) :
             v = Violation("invariant", Named(i, "invariant", i.in), "warn")
<1>1. moves => next.state = result.state
  BY DEF Proposed
<1>2. \A c : InForce(c) /\ KnownPolicy(c) /\ ~Rejecting(c) => ResolvePolicy(c.policy) = "warn"
  <2>1. \A c : InForce(c) => ResolvePolicy(c.policy) # "off"
    BY DEF InForce
  <2>2. \A c : KnownPolicy(c) => ResolvePolicy(c.policy) \in {"reject", "warn", "off"}
    BY DEF KnownPolicy, ViolationPolicies
  <2> QED  BY <2>1, <2>2, Policies
<1>3. \A c \in EdgeUnmet(result) \cup GuardsUnmet(result) \cup InvariantsUnmet(result) :
        ~Rejecting(c)
  <2>1. ~ \E c \in AllUnmet(result) : c.policy \in {Unset, "reject"}
    BY VerdictIsDeclared
  <2> QED  BY <2>1 DEF AllUnmet, Rejecting
<1>4. /\ t # Unset => KnownPolicy(t)
      /\ \A g \in ToSet(gs) : KnownPolicy(g)
      /\ \A i \in ToSet(is) : KnownPolicy(i)
  BY DEF Defined, Accepted, ValidConstraints, ValidTransitions, ValidGuard, ValidInvariant
<1>5. ASSUME NEW v
      PROVE  EdgeSays(v) <=>
               /\ moves /\ Entity.edgePolicy # "off"
               /\ ~Allows(Entity.graph, state, next.state)
               /\ v = Violation("transition", <<"transitions">>, Entity.edgePolicy)
  <2>1. Entity.edgePolicy = IF t = Unset THEN "off" ELSE ResolvePolicy(t.policy)
    BY DEF Entity, CompileConstraints
  <2>2. EdgeUnmet(result) = IF /\ moves /\ t # Unset /\ InForce(t)
                               /\ ~MoveDeclared(state, result.state)
                              THEN {t} ELSE {}
    BY Policies DEF EdgeUnmet
  <2>3. t # Unset /\ InForce(t) =>
          (Allows(Entity.graph, state, result.state) <=> MoveDeclared(state, result.state))
    <3> SUFFICES ASSUME t # Unset, InForce(t)
                 PROVE  Allows(Entity.graph, state, result.state) <=>
                          MoveDeclared(state, result.state)
      OBVIOUS
    <3>1. \A from, to : Allows(Entity.graph, from, to) <=>
             \E entry \in ToSet(t.allow) : entry[1] = from /\ Contains(entry[2], to)
      BY MoveIsAllowed DEF Entity
    <3> QED  BY <3>1 DEF MoveDeclared
  <2>4. t # Unset /\ InForce(t) <=> Entity.edgePolicy # "off"
    <3> HIDE DEF t
    <3> QED  BY <2>1 DEF InForce
  <2>5. EdgeUnmet(result) # {} => Entity.edgePolicy = "warn"
    <3>1. EdgeUnmet(result) # {} => t # Unset /\ InForce(t) /\ ~Rejecting(t)
      <4> HIDE DEF t, moves
      <4> QED  BY <1>3, <2>2
    <3> HIDE DEF t
    <3> QED  BY <1>2, <1>4, <2>1, <3>1
  <2>6. EdgeSays(v) <=> /\ EdgeUnmet(result) # {}
                        /\ v = Violation("transition", <<"transitions">>, "warn")
    OBVIOUS
  <2>7. EdgeUnmet(result) # {} <=> /\ moves /\ Entity.edgePolicy # "off"
                                   /\ ~Allows(Entity.graph, state, next.state)
    <3> HIDE DEF t, next, moves
    <3> QED  BY <1>1, <2>2, <2>3, <2>4
  <2> HIDE DEF EdgeSays, next, moves
  <2> QED  BY <2>5, <2>6, <2>7
<1>6. /\ \A x : x \in ToSet(Entity.guards) <=>
           \E g \in ToSet(gs) : InForce(g) /\ x = CompiledGuard(g)
      /\ \A x : x \in ToSet(Entity.invariants) <=>
           \E i \in ToSet(is) : InForce(i) /\ x = CompiledInvariant(i)
  BY CompiledElements DEF Defined, Entity
<1>7. ASSUME NEW v
      PROVE  GuardSays(v) <=> moves /\ \E g \in ToSet(Entity.guards) :
               /\ g.on = next.state
               /\ AppliesFrom(g, state) /\ ~Holds(g, next.values)
               /\ v = Violation(g.kind, g.name, g.policy)
  <2> DEFINE Refuses(g) == /\ g.on = next.state
                           /\ AppliesFrom(g, state) /\ ~Holds(g, next.values)
             Name(g) == Named(g, "guard", <<g.from, g.on>>)
  <2>1. \A g : g \in GuardsUnmet(result) <=>
                 /\ g \in ToSet(gs) /\ InForce(g) /\ moves
                 /\ Refuses(CompiledGuard(g))
    <3>1. \A g : /\ CompiledGuard(g).on = g.on /\ CompiledGuard(g).from = g.from
                 /\ CompiledGuard(g).check = g.check
      BY DEF CompiledGuard
    <3>2. \A g : g \in GuardsUnmet(result) <=>
                 /\ g \in ToSet(gs) /\ g.policy # "off" /\ moves /\ g.on = result.state
                 /\ (g.from # Unset => Contains(g.from, state))
                 /\ g.check[next.values] # "true"
      BY DEF GuardsUnmet, Unmet
    <3> HIDE DEF next, moves, gs
    <3> QED  BY <1>1, <3>1, <3>2, Policies DEF AppliesFrom, Holds
  <2>2. \A g : /\ CompiledGuard(g).kind = "guard" /\ CompiledGuard(g).name = Name(g)
               /\ CompiledGuard(g).policy = ResolvePolicy(g.policy)
    BY DEF CompiledGuard
  <2>3. \A g \in GuardsUnmet(result) : ResolvePolicy(g.policy) = "warn"
    <3> HIDE DEF gs, moves, Refuses
    <3> QED  BY <1>2, <1>3, <1>4, <2>1
  <2>4. \A g \in GuardsUnmet(result) :
          Violation(CompiledGuard(g).kind, CompiledGuard(g).name, CompiledGuard(g).policy)
            = Violation("guard", Name(g), "warn")
    <3> HIDE DEF Name
    <3> QED  BY <2>2, <2>3
  <2>5. GuardSays(v) <=> \E g \in GuardsUnmet(result) : v = Violation("guard", Name(g), "warn")
    OBVIOUS
  <2> HIDE DEF GuardSays, Refuses, Name, gs, moves, next
  <2>6. GuardSays(v) <=> moves /\ \E x \in ToSet(Entity.guards) :
          Refuses(x) /\ v = Violation(x.kind, x.name, x.policy)
    BY <1>6, <2>1, <2>4, <2>5
  <2> QED  BY <2>6 DEF Refuses
<1>8. ASSUME NEW v
      PROVE  InvariantSays(v) <=> gates /\ \E i \in ToSet(Entity.invariants) :
               /\ AppliesIn(i, next.state) /\ ~Holds(i, next.values)
               /\ v = Violation(i.kind, i.name, i.policy)
  <2> DEFINE Breaks(i) == AppliesIn(i, next.state) /\ ~Holds(i, next.values)
             Name(i) == Named(i, "invariant", i.in)
  <2>1. \A i : i \in InvariantsUnmet(result) <=>
                 /\ i \in ToSet(is) /\ InForce(i) /\ gates
                 /\ Breaks(CompiledInvariant(i))
    <3>1. \A i : CompiledInvariant(i).in = i.in /\ CompiledInvariant(i).check = i.check
      BY DEF CompiledInvariant
    <3>2. \A i : i \in InvariantsUnmet(result) <=>
                 /\ i \in ToSet(is) /\ i.policy # "off" /\ gates
                 /\ (i.in # Unset => Contains(i.in, next.state))
                 /\ i.check[next.values] # "true"
      BY DEF InvariantsUnmet, Unmet, GatesInvariants
    <3> HIDE DEF next, gates, is
    <3> QED  BY <3>1, <3>2, Policies DEF AppliesIn, Holds
  <2>2. \A i : /\ CompiledInvariant(i).kind = "invariant" /\ CompiledInvariant(i).name = Name(i)
               /\ CompiledInvariant(i).policy = ResolvePolicy(i.policy)
    BY DEF CompiledInvariant
  <2>3. \A i \in InvariantsUnmet(result) : ResolvePolicy(i.policy) = "warn"
    <3> HIDE DEF is, gates, Breaks
    <3> QED  BY <1>2, <1>3, <1>4, <2>1
  <2>4. \A i \in InvariantsUnmet(result) :
          Violation(CompiledInvariant(i).kind, CompiledInvariant(i).name,
                    CompiledInvariant(i).policy) = Violation("invariant", Name(i), "warn")
    <3> HIDE DEF Name
    <3> QED  BY <2>2, <2>3
  <2>5. InvariantSays(v) <=>
          \E i \in InvariantsUnmet(result) : v = Violation("invariant", Name(i), "warn")
    OBVIOUS
  <2> HIDE DEF InvariantSays, Breaks, Name, is, gates, next
  <2>6. InvariantSays(v) <=> gates /\ \E x \in ToSet(Entity.invariants) :
          Breaks(x) /\ v = Violation(x.kind, x.name, x.policy)
    BY <1>6, <2>1, <2>4, <2>5
  <2> QED  BY <2>6 DEF Breaks
<1>9. \A v : v \in ToSet(found) <=>
        \/ /\ moves /\ Entity.edgePolicy # "off"
           /\ ~Allows(Entity.graph, state, next.state)
           /\ v = Violation("transition", <<"transitions">>, Entity.edgePolicy)
        \/ moves /\ \E g \in ToSet(Entity.guards) :
             /\ g.on = next.state
             /\ AppliesFrom(g, state) /\ ~Holds(g, next.values)
             /\ v = Violation(g.kind, g.name, g.policy)
        \/ gates /\ \E i \in ToSet(Entity.invariants) :
             /\ AppliesIn(i, next.state) /\ ~Holds(i, next.values)
             /\ v = Violation(i.kind, i.name, i.policy)
  <2>1. IsCompiled(Entity)
    BY CompiledAreLists DEF Defined, Entity
  <2>2. ~Rejected(found)
    OBVIOUS
  <2> HIDE DEF next
  <2> QED  BY <2>1, <2>2, CheckDecides
<1>10. \A v : v \in Warnings(result) <=> EdgeSays(v) \/ GuardSays(v) \/ InvariantSays(v)
  BY DEF Warnings
<1> HIDE DEF EdgeSays, GuardSays, InvariantSays, found, next, moves, gates
<1>11. \A v : v \in ToSet(found) <=> v \in Warnings(result)
  BY <1>5, <1>7, <1>8, <1>9, <1>10
<1>12. ToSet(found) = Warnings(result)
  BY <1>11
<1> QED  BY <1>12 DEF found, next

LEMMA LastOfNotes ==
  ASSUME NEW old, IsList(old), NEW found, IsList(found), found # <<>>, NEW from, NEW to
  PROVE  Last(old \o [i \in DOMAIN found |-> ViolationEvent(found[i], from, to)]) =
           ViolationEvent(Last(found), from, to)
<1> DEFINE V(v) == ViolationEvent(v, from, to)
           more == [i \in DOMAIN found |-> V(found[i])]
           S == ToSet(old) \cup {V(v) : v \in ToSet(found)}
<1>1. DOMAIN found = 1 .. Len(found) /\ Len(found) \in Nat /\ Len(found) # 0
      /\ \A i \in 1 .. Len(found) : found[i] \in ToSet(found)
  BY EmptySeq, LenProperties, Elements DEF IsList
<1>2. old \in Seq(S)
  <2>1. old \in Seq(ToSet(old)) /\ ToSet(old) \subseteq S
    BY DEF IsList
  <2> HIDE DEF S
  <2> QED  BY <2>1, SeqMonotonic
<1>3. more \in Seq(S) /\ Len(more) = Len(found)
  <2> HIDE DEF V
  <2>1. more \in [1 .. Len(found) -> S]
    BY <1>1
  <2>2. DOMAIN more = 1 .. Len(found)
    BY <1>1
  <2> HIDE DEF more, S
  <2>3. more \in Seq(S)
    BY <1>1, <2>1, SeqDef
  <2> QED  BY <1>1, <2>2, <2>3, LenProperties
<1>4. more[Len(found)] = V(found[Len(found)])
  <2> HIDE DEF V
  <2> QED  BY <1>1
<1> HIDE DEF more, S
<1>5. /\ Len(old \o more) = Len(old) + Len(more) /\ Len(old) \in Nat
      /\ \A i \in 1 .. Len(old) + Len(more) :
           (old \o more)[i] = IF i <= Len(old) THEN old[i] ELSE more[i - Len(old)]
  BY <1>2, <1>3, ConcatProperties, LenProperties
<1>6. (old \o more)[Len(old \o more)] = more[Len(found)]
  <2>1. Len(old) + Len(found) \in 1 .. Len(old) + Len(more)
        /\ ~(Len(old) + Len(found) <= Len(old))
        /\ (Len(old) + Len(found)) - Len(old) = Len(found)
    BY <1>1, <1>3, <1>5
  <2> QED  BY <1>3, <1>5, <2>1
<1>7. Last(old \o more) = V(Last(found))
  BY <1>4, <1>6 DEF Last
<1> QED  BY <1>7 DEF more

Noting(old, found, from, to) ==
  old \o [i \in DOMAIN found |-> ViolationEvent(found[i], from, to)]

\* The elements after the old ones.
NewIn(old, new) == {new[i] : i \in Len(old) + 1 .. Len(new)}

\* What follows the old events is what was found.
LEMMA NotesAreNew ==
  ASSUME NEW old, IsList(old), NEW found, IsList(found), NEW from, NEW to, NEW noted,
         noted = Noting(old, found, from, to)
  PROVE  NewIn(old, noted) = NotesOf(found, from, to)
<1> DEFINE V(v) == ViolationEvent(v, from, to)
           more == [i \in DOMAIN found |-> V(found[i])]
           S == ToSet(old) \cup {V(v) : v \in ToSet(found)}
<1>0. noted = old \o more
  BY DEF Noting
<1>1. /\ DOMAIN found = 1 .. Len(found) /\ Len(found) \in Nat
      /\ \A i \in 1 .. Len(found) : found[i] \in ToSet(found)
      /\ \A v \in ToSet(found) : \E i \in 1 .. Len(found) : found[i] = v
  BY LenProperties, Elements DEF IsList
<1>2. old \in Seq(S)
  <2>1. old \in Seq(ToSet(old)) /\ ToSet(old) \subseteq S
    BY DEF IsList
  <2> HIDE DEF S
  <2> QED  BY <2>1, SeqMonotonic
<1>3. more \in Seq(S) /\ Len(more) = Len(found)
  <2> HIDE DEF V
  <2>1. more \in [1 .. Len(found) -> S]
    BY <1>1
  <2>2. DOMAIN more = 1 .. Len(found)
    BY <1>1
  <2> HIDE DEF more, S
  <2>3. more \in Seq(S)
    BY <1>1, <2>1, SeqDef
  <2> QED  BY <1>1, <2>2, <2>3, LenProperties
<1>4. \A i \in 1 .. Len(found) : more[i] = V(found[i])
  <2> HIDE DEF V
  <2> QED  BY <1>1
<1> HIDE DEF more, S
<1>5. /\ Len(noted) = Len(old) + Len(more) /\ Len(old) \in Nat
      /\ \A i \in 1 .. Len(old) + Len(more) :
           noted[i] = IF i <= Len(old) THEN old[i] ELSE more[i - Len(old)]
  <2>1. /\ Len(old \o more) = Len(old) + Len(more) /\ Len(old) \in Nat
        /\ \A i \in 1 .. Len(old) + Len(more) :
             (old \o more)[i] = IF i <= Len(old) THEN old[i] ELSE more[i - Len(old)]
    BY <1>2, <1>3, ConcatProperties, LenProperties
  <2> QED  BY <1>0, <2>1
<1>6. \A k \in 1 .. Len(found) : noted[Len(old) + k] = V(found[k])
  <2> SUFFICES ASSUME NEW k \in 1 .. Len(found) PROVE noted[Len(old) + k] = V(found[k])
    OBVIOUS
  <2>1. /\ Len(old) + k \in 1 .. Len(old) + Len(more) /\ ~(Len(old) + k <= Len(old))
        /\ (Len(old) + k) - Len(old) = k
    BY <1>1, <1>3, <1>5
  <2> HIDE DEF V
  <2> QED  BY <1>4, <1>5, <2>1
<1>7. \A i \in Len(old) + 1 .. Len(noted) : \E v \in ToSet(found) : noted[i] = V(v)
  <2> SUFFICES ASSUME NEW i \in Len(old) + 1 .. Len(noted)
               PROVE  \E v \in ToSet(found) : noted[i] = V(v)
    OBVIOUS
  <2>1. i - Len(old) \in 1 .. Len(found) /\ Len(old) + (i - Len(old)) = i
    BY <1>1, <1>3, <1>5
  <2>2. noted[i] = V(found[i - Len(old)])
    <3> HIDE DEF V
    <3> QED  BY <1>6, <2>1
  <2> HIDE DEF V
  <2> QED  BY <1>1, <2>1, <2>2
<1>8. \A v \in ToSet(found) : \E i \in Len(old) + 1 .. Len(noted) : noted[i] = V(v)
  <2> SUFFICES ASSUME NEW v \in ToSet(found)
               PROVE  \E i \in Len(old) + 1 .. Len(noted) : noted[i] = V(v)
    OBVIOUS
  <2>1. PICK k \in 1 .. Len(found) : found[k] = v
    BY <1>1
  <2>2. Len(old) + k \in Len(old) + 1 .. Len(noted)
    BY <1>1, <1>3, <1>5
  <2>3. noted[Len(old) + k] = V(found[k])
    <3> HIDE DEF V
    <3> QED  BY <1>6
  <2> HIDE DEF V
  <2> QED  BY <2>1, <2>2, <2>3
<1>9. NewIn(old, noted) = {V(v) : v \in ToSet(found)}
  <2> HIDE DEF V
  <2> QED  BY <1>7, <1>8 DEF NewIn
<1> QED  BY <1>9 DEF NotesOf

LEMMA VerdictStep ==
  ASSUME DTypes, [Next]_vars, Judged, stream' # stream
  PROVE  LET next  == Proposed(turn.result)
             noted == {stream'[i] : i \in Len(stream) + 1 .. Len(stream') - 1}
         IN  IF \E c \in AllUnmet(turn.result) : c.policy \in {Unset, "reject"}
               THEN /\ <<state, values>>' = <<state, values>>
                    /\ Last(stream').type = "violation"
                    /\ Last(stream').policy = "reject"
               ELSE /\ <<state, values>>' = <<next.state, next.values>>
                    /\ Last(stream') = TransitionEvent(state, next.state)
                    /\ noted = {ViolationEvent(v, state, next.state) :
                                  v \in Warnings(turn.result)}
<1> DEFINE next == Proposed(turn.result)
           found == CheckConstraints(Entity, state, next, turn.result)
           noted == stream \o [i \in DOMAIN found |->
                           ViolationEvent(found[i], state, next.state)]
           commit == TransitionEvent(state, next.state)
<1>1. turn.pc # "idle" /\ turn.result.kind # "fail" /\ turn.result \in Results
      /\ definition # None /\ stream # <<>> /\ Defined(definition)
  BY DEF Judged, DTypes
<1>2. Settle
  <2>1. UNCHANGED stream \/ Settle \/ \E type \in Types : Dispatch(type)
    BY <1>1, ReleaseInstalls DEF Next, Initialize, Returns, Rest, vars
  <2>2. \A type \in Types : ~Dispatch(type)
    BY <1>1 DEF Dispatch, Idle
  <2> QED  BY <2>1, <2>2
<1>3. \/ /\ Rejected(found) /\ stream' = noted /\ UNCHANGED <<state, values>>
      \/ /\ ~Rejected(found) /\ stream' = Append(noted, commit)
         /\ state' = next.state /\ values' = next.values
  BY <1>1, <1>2 DEF Settle
<1>4. Rejected(found) <=> \E c \in AllUnmet(turn.result) : c.policy \in {Unset, "reject"}
  BY <1>1, VerdictIsDeclared
<1>5. IsCompiled(Entity)
  BY <1>1, CompiledAreLists DEF Defined, Entity
<1>6. IsList(found) /\ (Rejected(found) => Halted(found))
  BY <1>5, CheckDecides
<1> HIDE DEF found
<1>7. IsList(noted)
  <2>1. Grows(stream, noted, NotesOf(found, state, next.state))
    BY <1>6, GrowsByNotes DEF DTypes
  <2> QED  BY <2>1 DEF Grows
<1>8. CASE Rejected(found)
  <2>1. found # <<>> /\ Last(found).policy = "reject"
    BY <1>6, <1>8 DEF Halted
  <2>2. Last(noted) = ViolationEvent(Last(found), state, next.state)
    BY <1>6, <2>1, LastOfNotes DEF DTypes
  <2> HIDE DEF noted
  <2>3. Last(noted).type = "violation" /\ Last(noted).policy = "reject"
    BY <2>1, <2>2 DEF ViolationEvent
  <2> QED  BY <1>3, <1>4, <1>8, <2>3
<1>9. CASE ~Rejected(found)
  <2> DEFINE new == {stream'[i] : i \in Len(stream) + 1 .. Len(stream') - 1}
  <2>1. ToSet(found) = Warnings(turn.result)
    BY <1>1, <1>9, WarningsAreDeclared DEF found
  <2>2. {noted[i] : i \in Len(stream) + 1 .. Len(noted)} =
          {ViolationEvent(v, state, next.state) : v \in Warnings(turn.result)}
    <3>1. IsList(stream) /\ IsList(found)
      BY <1>6 DEF DTypes
    <3>2. noted = Noting(stream, found, state, next.state)
      BY DEF Noting
    <3> HIDE DEF noted, next
    <3>3. NewIn(stream, noted) = NotesOf(found, state, next.state)
      BY <3>1, <3>2, NotesAreNew
    <3> QED  BY <2>1, <3>3 DEF NewIn, NotesOf
  <2> HIDE DEF noted, commit, next
  <2>3. Last(Append(noted, commit)) = commit
    BY <1>7, LastOfAppend DEF IsList
  <2>4. stream' = Append(noted, commit) /\ state' = next.state /\ values' = next.values
    BY <1>3, <1>9
  <2>5. /\ Len(stream') - 1 = Len(noted)
        /\ \A i \in Len(stream) + 1 .. Len(noted) : stream'[i] = noted[i]
    <3>1. /\ Len(noted) \in Nat /\ Len(stream) \in Nat
          /\ Len(Append(noted, commit)) = Len(noted) + 1
          /\ \A i \in 1 .. Len(noted) : Append(noted, commit)[i] = noted[i]
      <4> DEFINE S == ToSet(noted) \cup {commit}
      <4>1. /\ noted \in Seq(ToSet(noted)) /\ ToSet(noted) \subseteq S /\ commit \in S
            /\ Len(stream) \in Nat
        BY <1>7, LenProperties DEF IsList, DTypes
      <4> HIDE DEF S
      <4>2. noted \in Seq(S)
        BY <4>1, SeqMonotonic
      <4> QED  BY <4>1, <4>2, AppendProperties, LenProperties
    <3>2. \A i \in Len(stream) + 1 .. Len(noted) : i \in 1 .. Len(noted)
      BY <3>1
    <3> QED  BY <2>4, <3>1, <3>2
  <2>6. new = {noted[i] : i \in Len(stream) + 1 .. Len(noted)}
    BY <2>5
  <2> HIDE DEF new
  <2>7. new = {ViolationEvent(v, state, next.state) : v \in Warnings(turn.result)}
    BY <2>2, <2>6
  <2>8. ~ \E c \in AllUnmet(turn.result) : c.policy \in {Unset, "reject"}
    BY <1>4, <1>9
  <2> QED  BY <2>3, <2>4, <2>7, <2>8 DEF new, next, commit
<1>10. \/ Rejected(found) \/ ~Rejected(found)
  OBVIOUS
<1> QED  BY <1>8, <1>9, <1>10

\* What a handler or an error handler returns is committed exactly when no
\* constraint that is declared to reject is unmet, and a refusal is the last
\* thing the stream says of it: compiling, the order of the constraints, and a
\* walk that stops at the first refusal lose nothing and add nothing.  What a
\* commit notes on its way is the warnings that are declared, and nothing else.
THEOREM VerdictIsTheDeclaration == Spec => VerdictFollowsTheDeclaration
<1>1. DTypes /\ [Next]_vars =>
        [Judged /\ stream' # stream =>
           LET next  == Proposed(turn.result)
               noted == {stream'[i] : i \in Len(stream) + 1 .. Len(stream') - 1}
           IN  IF \E c \in AllUnmet(turn.result) : c.policy \in {Unset, "reject"}
                 THEN /\ <<state, values>>' = <<state, values>>
                      /\ Last(stream').type = "violation"
                      /\ Last(stream').policy = "reject"
                 ELSE /\ <<state, values>>' = <<next.state, next.values>>
                      /\ Last(stream') = TransitionEvent(state, next.state)
                      /\ noted = {ViolationEvent(v, state, next.state) :
                                    v \in Warnings(turn.result)}]_vars
  BY VerdictStep
<1> QED  BY <1>1, DeclaredTypes, PTL DEF Spec, VerdictFollowsTheDeclaration

-----------------------------------------------------------------------------
(* The deployment service: what its entities declare.                      *)

\* An entity of the service as defineEntity is handed it.
Handed(e) ==
  [states |-> Definition[e].states, initial |-> Definition[e].initial,
   values |-> Definition[e].values, triggers |-> Definition[e].triggers,
   constraints |-> Declaration[e]]

StateNames == {"queued", "deploying", "live", "failed", "rolled-back",
               "open", "acknowledged", "resolved"}

LEMMA ShortLists ==
  ASSUME NEW S, NEW a \in S, NEW b \in S, NEW c \in S, NEW d \in S, NEW e \in S
  PROVE  /\ <<>> \in Seq(S) /\ <<a>> \in Seq(S) /\ <<a, b>> \in Seq(S)
         /\ <<a, b, c>> \in Seq(S) /\ <<a, b, c, d, e>> \in Seq(S)
OBVIOUS

LEMMA ServiceIsDefined ==
  \A e \in {"deployments", "incidents"} :
    /\ Defined(Handed(e)) /\ Handed(e).constraints = Declaration[e]
    /\ CompiledEntity[e] =
         CompileConstraints(Handed(e).constraints, StatesOf(Handed(e).states))
<1> DEFINE deployments == Definition.deployments.states
           incidents == Definition.incidents.states
<1>1. DOMAIN Definition = {"deployments", "incidents"}
  BY DEF Definition
<1>2. /\ IsList(deployments) /\ Contains(deployments, "queued") /\ deployments # <<>>
      /\ IsList(incidents) /\ Contains(incidents, "open") /\ incidents # <<>>
  <2>1. /\ deployments = <<"queued", "deploying", "live", "failed", "rolled-back">>
        /\ incidents = <<"open", "acknowledged", "resolved">>
    BY DEF Definition
  <2>2. deployments \in Seq(StateNames) /\ incidents \in Seq(StateNames)
    <3>1. /\ <<"queued", "deploying", "live", "failed", "rolled-back">> \in Seq(StateNames)
          /\ <<"open", "acknowledged", "resolved">> \in Seq(StateNames)
      BY ShortLists DEF StateNames
    <3> QED  BY <2>1, <3>1
  <2>3. deployments[1] = "queued" /\ incidents[1] = "open"
        /\ Len(deployments) = 5 /\ Len(incidents) = 3
    BY <2>1
  <2> HIDE DEF deployments, incidents
  <2>4. deployments # <<>> /\ incidents # <<>>
    BY <2>3
  <2> QED  BY <2>2, <2>3, <2>4, Elements
<1>3. ASSUME NEW allow, allow \in {Lifecycle, IncidentLifecycle}
      PROVE  /\ IsList(allow)
             /\ \A entry \in ToSet(allow) : IsList(entry[2])
             /\ \A i, j \in DOMAIN allow : allow[i][1] = allow[j][1] => i = j
  <2> DEFINE Entries == StateNames \X Seq(StateNames)
  <2>1. allow \in Seq(Entries)
    <3>1. \A n, x, y \in StateNames : /\ <<n, <<>>>> \in Entries /\ <<n, <<x>>>> \in Entries
                                 /\ <<n, <<x, y>>>> \in Entries
      BY ShortLists
    <3>2. /\ <<"queued", <<"deploying">>>> \in Entries
          /\ <<"deploying", <<"live", "failed">>>> \in Entries
          /\ <<"live", <<"rolled-back">>>> \in Entries
          /\ <<"failed", <<"rolled-back">>>> \in Entries
          /\ <<"rolled-back", <<>>>> \in Entries
          /\ <<"open", <<"acknowledged", "resolved">>>> \in Entries
          /\ <<"acknowledged", <<"resolved">>>> \in Entries
          /\ <<"resolved", <<>>>> \in Entries
      BY <3>1 DEF StateNames
    <3> HIDE DEF Entries
    <3>3. Lifecycle \in Seq(Entries)
      BY <3>2, ShortLists DEF Lifecycle
    <3>4. IncidentLifecycle \in Seq(Entries)
      BY <3>2, ShortLists DEF IncidentLifecycle
    <3> QED  BY <1>3, <3>3, <3>4
  <2>2. \A i, j \in DOMAIN allow : allow[i][1] = allow[j][1] => i = j
    BY <1>3 DEF Lifecycle, IncidentLifecycle
  <2>3. \A entry \in Entries : entry[2] \in Seq(StateNames)
    OBVIOUS
  <2>4. IsList(allow) /\ ToSet(allow) \subseteq Entries
    <3> HIDE DEF Entries
    <3> QED  BY <2>1, Elements
  <2>5. \A entry \in Entries : IsList(entry[2])
    BY <2>3, Elements
  <2> QED  BY <2>2, <2>4, <2>5
<1>4. ASSUME NEW e \in {"deployments", "incidents"}
      PROVE  IsDefinition(Handed(e)) /\ Handed(e).constraints = Declaration[e]
  <2>1. /\ DOMAIN Handed(e) = {"states", "initial", "values", "triggers", "constraints"}
        /\ Handed(e).constraints = Declaration[e]
        /\ Handed(e).states \in {deployments, incidents}
    BY <1>4 DEF Handed
  <2>2. /\ {"transitions", "guards", "invariants"} \subseteq DOMAIN Declaration[e]
        /\ Declaration[e].transitions.allow \in {Lifecycle, IncidentLifecycle}
    <3>1. /\ DOMAIN Declaration.deployments =
               {"transitions", "guards", "invariants", "temporal"}
          /\ DOMAIN Declaration.incidents =
               {"transitions", "guards", "invariants", "temporal"}
      BY DEF Declaration
    <3>2. /\ Declaration.deployments.transitions.allow = Lifecycle
          /\ Declaration.incidents.transitions.allow = IncidentLifecycle
      BY DEF Declaration
    <3> QED  BY <1>4, <3>1, <3>2
  <2>3. IsList(Declaration[e].guards) /\ IsList(Declaration[e].invariants)
    <3>1. ASSUME NEW x PROVE IsList(<<x>>) /\ IsList(<<>>)
      <4>1. <<x>> \in Seq({x}) /\ <<>> \in Seq({x})
        OBVIOUS
      <4> QED  BY <4>1, Elements
    <3>2. CASE e = "deployments"
      <4>1. PICK g, i : Declaration[e].guards = <<g>> /\ Declaration[e].invariants = <<i>>
        BY <3>2 DEF Declaration
      <4> QED  BY <3>1, <4>1
    <3>3. CASE e = "incidents"
      <4>1. Declaration[e].guards = <<>> /\ Declaration[e].invariants = <<>>
        BY <3>3 DEF Declaration
      <4> QED  BY <3>1, <4>1
    <3> QED  BY <1>4, <3>2, <3>3
  <2> HIDE DEF deployments, incidents
  <2> QED  BY <1>2, <1>3, <2>1, <2>2, <2>3 DEF IsDefinition
<1>5. ASSUME NEW e \in {"deployments", "incidents"}
      PROVE  Accepted(Handed(e))
  <2>1. /\ Handed(e).states = Definition[e].states
        /\ Handed(e).constraints = Declaration[e]
        /\ Handed(e).initial = Definition[e].initial
        /\ Handed(e).triggers = Definition[e].triggers
    BY DEF Handed
  <2>2. /\ Definition[e].triggers # {}
        /\ \/ Definition[e].states = deployments /\ Definition[e].initial = "queued"
           \/ Definition[e].states = incidents /\ Definition[e].initial = "open"
    <3>1. Definition.deployments.triggers # {} /\ Definition.incidents.triggers # {}
      <4>1. /\ "deploy" \in Definition.deployments.triggers
            /\ "open" \in Definition.incidents.triggers
        BY DEF Definition
      <4> QED  BY <4>1
    <3>2. Definition.deployments.initial = "queued" /\ Definition.incidents.initial = "open"
      BY DEF Definition
    <3> QED  BY <1>5, <3>1, <3>2
  <2>3. ValidConstraints(Declaration[e], StatesOf(Definition[e].states))
       /\ Definition[e].initial # Unset
    BY <1>1, <1>5, DefinitionsAreAccepted
  <2> HIDE DEF deployments, incidents
  <2> QED  BY <1>2, <2>1, <2>2, <2>3 DEF Accepted
<1>6. \A e \in {"deployments", "incidents"} : CompiledEntity[e] =
         CompileConstraints(Handed(e).constraints, StatesOf(Handed(e).states))
  BY <1>1 DEF CompiledEntity, Handed
<1> QED  BY <1>4, <1>5, <1>6 DEF Defined

\* What is committed of a deployment that was finished, or live.
LEMMA DeploymentVerdict ==
  ASSUME NEW from, NEW next, NEW result, result.kind = "transitionTo",
         ~Rejected(CheckConstraints(CompiledEntity["deployments"], from, next, result))
  PROVE  from # "rolled-back" /\ (from = "live" => next.state = "rolled-back")
<1> DEFINE d == Handed("deployments")
           compiled == CompiledEntity["deployments"]
<1>1. /\ Defined(d) /\ d.constraints = Declaration["deployments"]
      /\ compiled = CompileConstraints(d.constraints, StatesOf(d.states))
  BY ServiceIsDefined
<1>2. /\ d.constraints.transitions.policy = "reject"
      /\ d.constraints.transitions.allow = Lifecycle
      /\ d.constraints.transitions # Unset
  <2>1. /\ Declaration["deployments"].transitions.policy = "reject"
        /\ Declaration["deployments"].transitions.allow = Lifecycle
        /\ "deployments" \in DOMAIN Definition
    BY DEF Declaration, Definition
  <2>2. Declaration["deployments"].transitions # Unset
    BY DefinitionsAreAccepted, <2>1
  <2> HIDE DEF d
  <2> QED  BY <1>1, <2>1, <2>2
<1>3. compiled.edgePolicy = "reject" /\ InForce(d.constraints.transitions)
  <2> HIDE DEF d
  <2>1. ResolvePolicy(d.constraints.transitions.policy) = "reject"
    BY <1>2, UnsetAssumption DEF ResolvePolicy, ViolationPolicies
  <2> QED  BY <1>1, <1>2, <2>1 DEF CompileConstraints, InForce
<1>4. Allows(compiled.graph, from, next.state)
  <2>1. IsCompiled(compiled)
    BY <1>1, CompiledAreLists DEF Defined
  <2> HIDE DEF compiled, d
  <2> QED  BY <1>3, <2>1, CheckFinds DEF compiled
<1>5. PICK entry \in ToSet(Lifecycle) : entry[1] = from /\ Contains(entry[2], next.state)
  <2> HIDE DEF compiled, d
  <2> QED  BY <1>1, <1>2, <1>3, <1>4, MoveIsAllowed
<1>6. PICK i \in 1 .. 5 : entry = Lifecycle[i]
  BY DEF ToSet, Lifecycle
<1>7. CASE entry = <<"rolled-back", <<>>>>
  BY <1>5, <1>7 DEF Contains
<1>8. CASE entry = <<"live", <<"rolled-back">>>>
  BY <1>5, <1>8 DEF Contains
<1>9. CASE entry[1] \notin {"live", "rolled-back"}
  BY <1>5, <1>9
<1> QED  BY <1>6, <1>7, <1>8, <1>9 DEF Lifecycle

\* Nothing is asked of an incident that stays where it is.
LEMMA IncidentVerdict ==
  ASSUME NEW from, NEW next, NEW result, result.kind # "transitionTo"
  PROVE  ~Rejected(CheckConstraints(CompiledEntity["incidents"], from, next, result))
<1> DEFINE d == Handed("incidents")
           compiled == CompiledEntity["incidents"]
<1>1. /\ Defined(d) /\ d.constraints = Declaration["incidents"]
      /\ compiled = CompileConstraints(d.constraints, StatesOf(d.states))
  BY ServiceIsDefined
<1>2. d.constraints.invariants = <<>>
  BY <1>1 DEF Declaration
<1> HIDE DEF d
<1>3. IsCompiled(compiled)
  BY <1>1, CompiledAreLists DEF Defined
<1>4. ToSet(compiled.invariants) = {}
  <2>1. ToSet(<<>>) = {}
    BY DEF ToSet
  <2>2. \A x : x \in ToSet(compiled.invariants) =>
           \E i \in ToSet(d.constraints.invariants) : TRUE
    BY <1>1, CompiledElements DEF Defined
  <2> QED  BY <1>2, <2>1, <2>2
<1> HIDE DEF compiled
<1>5. Rejected(CheckConstraints(compiled, from, next, result)) =>
        \E i \in ToSet(compiled.invariants) : TRUE
  BY <1>3, CheckDecides
<1> QED  BY <1>4, <1>5 DEF compiled

-----------------------------------------------------------------------------
(* The lines of the service, and what is held of its keys.                 *)

LEMMA Places ==
  ASSUME NEW id \in Ids, NEW j \in Ids
  PROVE  /\ Deployment(id) \in Keys /\ Incident(id) \in Keys
         /\ Deployment(id) # Incident(j)
         /\ Deployment(id) = Deployment(j) => id = j
         /\ Incident(id) = Incident(j) => id = j
         /\ Deployment(id)[1] = "deployments" /\ Deployment(id)[2] = id
         /\ Incident(id)[1] = "incidents"
         /\ Deployment(id)[1] # "incidents" /\ Incident(id)[1] # "deployments"
BY DEF Deployment, Incident, Keys

LEMMA KeysAreKeys ==
  \A k \in Keys : \E id \in Ids : k = Deployment(id) \/ k = Incident(id)
BY DEF Keys

IsLine(l) ==
  /\ l = [turn |-> l.turn, waiting |-> l.waiting] /\ IsList(l.waiting)
  /\ l.turn # IdleTurn =>
       /\ l.turn = [pc |-> l.turn.pc, trigger |-> l.turn.trigger,
                    attempt |-> l.turn.attempt]
       /\ l.turn.pc \in {"taken", "handling", "landed"}

\* The triggers nobody has been told the outcome of.
InLine(l) == (IF l.turn = IdleTurn THEN {} ELSE {l.turn.trigger}) \cup ToSet(l.waiting)

AreLines(lines) ==
  lines = [k \in Keys |-> lines[k]] /\ \A k \in Keys : IsLine(lines[k])

LEMMA TurnsDiffer ==
  /\ IdleTurn.pc = "idle"
  /\ \A t : /\ Taken(t) # IdleTurn /\ Taken(t).pc = "taken" /\ Taken(t).trigger = t
            /\ Taken(t) = [pc |-> "taken", trigger |-> t, attempt |-> 1]
BY DEF IdleTurn, Taken

LEMMA NothingWaits == IsLine(IdleLine) /\ InLine(IdleLine) = {}
<1>1. <<>> \in Seq({}) /\ ToSet(<<>>) = {}
  BY DEF ToSet
<1>2. IsList(<<>>)
  BY <1>1, Elements
<1> QED  BY <1>1, <1>2 DEF IdleLine, IsLine, InLine

LEMMA TailsAreParts ==
  ASSUME NEW list, IsList(list), list # <<>>
  PROVE  /\ IsList(Tail(list)) /\ ToSet(Tail(list)) \subseteq ToSet(list)
         /\ Head(list) \in ToSet(list)
<1>1. list \in Seq(ToSet(list))
  BY DEF IsList
<1> DEFINE S == ToSet(list)
<1>2. Tail(list) \in Seq(S) /\ Head(list) \in S
  <2> HIDE DEF S
  <2>1. list \in Seq(S)
    BY <1>1 DEF S
  <2> QED  BY <2>1, HeadTailProperties
<1> HIDE DEF S
<1>3. IsList(Tail(list)) /\ ToSet(Tail(list)) \subseteq S
  BY <1>2, Elements
<1> QED  BY <1>2, <1>3 DEF S

LEMMA ArrivedLine ==
  ASSUME NEW lines, AreLines(lines), NEW key \in Keys, NEW t
  PROVE  LET ls == Arrived(lines, key, t)
         IN  /\ AreLines(ls)
             /\ \A k \in Keys \ {key} : ls[k] = lines[k]
             /\ ls[key].turn = IF lines[key].turn = IdleTurn THEN Taken(t)
                                                            ELSE lines[key].turn
             /\ InLine(ls[key]) \subseteq InLine(lines[key]) \cup {t}
<1> DEFINE ls == Arrived(lines, key, t)
           l == lines[key]
<1>1. l = [turn |-> l.turn, waiting |-> l.waiting] /\ IsList(l.waiting) /\ IsLine(l)
  BY DEF AreLines, IsLine
<1>2. ASSUME NEW n, IsLine(n), ls = [lines EXCEPT ![key] = n],
             n.turn = (IF l.turn = IdleTurn THEN Taken(t) ELSE l.turn),
             InLine(n) \subseteq InLine(l) \cup {t}
      PROVE  /\ AreLines(ls)
             /\ \A k \in Keys \ {key} : ls[k] = lines[k]
             /\ ls[key].turn = IF l.turn = IdleTurn THEN Taken(t) ELSE l.turn
             /\ InLine(ls[key]) \subseteq InLine(l) \cup {t}
  <2>1. ls = [k \in Keys |-> IF k = key THEN n ELSE lines[k]]
    BY <1>2 DEF AreLines
  <2> HIDE DEF ls
  <2> QED  BY <1>2, <2>1 DEF AreLines
<1>3. CASE l.turn = IdleTurn
  <2> DEFINE n == [turn |-> Taken(t), waiting |-> l.waiting]
  <2>1. ls = [lines EXCEPT ![key].turn = Taken(t)]
    BY <1>3 DEF Arrived
  <2>2. ls = [lines EXCEPT ![key] = n]
    BY <1>1, <2>1
  <2>3. IsLine(n)
    BY <1>1, TurnsDiffer DEF IsLine
  <2>4. InLine(n) \subseteq InLine(l) \cup {t}
    BY TurnsDiffer DEF InLine
  <2> HIDE DEF ls
  <2>5. n.turn = Taken(t)
    OBVIOUS
  <2> HIDE DEF n
  <2> QED  BY <1>2, <1>3, <2>2, <2>3, <2>4, <2>5 DEF ls
<1>4. CASE l.turn # IdleTurn /\ Len(l.waiting) < Capacity
  <2> DEFINE n == [turn |-> l.turn, waiting |-> Append(l.waiting, t)]
  <2>1. ls = [lines EXCEPT ![key].waiting = Append(@, t)]
    BY <1>4 DEF Arrived
  <2>2. ls = [lines EXCEPT ![key] = n]
    BY <1>1, <2>1
  <2>3. IsList(Append(l.waiting, t)) /\ ToSet(Append(l.waiting, t)) = ToSet(l.waiting) \cup {t}
    <3>1. l.waiting \in Seq(ToSet(l.waiting))
      BY <1>1 DEF IsList
    <3> HIDE DEF l
    <3>2. /\ Append(l.waiting, t) \in Seq(ToSet(l.waiting) \cup {t})
          /\ ToSet(Append(l.waiting, t)) = ToSet(l.waiting) \cup {t}
      BY <3>1, ElementsOfAppend
    <3> QED  BY <3>2, Elements
  <2>4. IsLine(n)
    BY <1>1, <2>3 DEF IsLine
  <2>5. InLine(n) \subseteq InLine(l) \cup {t}
    BY <2>3 DEF InLine
  <2> HIDE DEF ls
  <2>6. n.turn = l.turn
    OBVIOUS
  <2> HIDE DEF n
  <2> QED  BY <1>2, <1>4, <2>2, <2>4, <2>5, <2>6 DEF ls
<1>5. CASE l.turn # IdleTurn /\ ~(Len(l.waiting) < Capacity)
  <2>1. ls = lines
    BY <1>5 DEF Arrived
  <2> HIDE DEF ls
  <2> QED  BY <1>5, <2>1 DEF ls
<1> QED  BY <1>3, <1>4, <1>5

LEMMA EndedLine ==
  ASSUME NEW lines, AreLines(lines), NEW key \in Keys
  PROVE  LET ls == Ended(lines, key)
         IN  /\ AreLines(ls)
             /\ \A k \in Keys \ {key} : ls[k] = lines[k]
             /\ ls[key].turn.pc \in {"idle", "taken"}
             /\ InLine(ls[key]) \subseteq InLine(lines[key])
<1> DEFINE ls == Ended(lines, key)
           l == lines[key]
<1>1. l = [turn |-> l.turn, waiting |-> l.waiting] /\ IsList(l.waiting) /\ IsLine(l)
  BY DEF AreLines, IsLine
<1>2. ASSUME NEW n, IsLine(n), ls = [lines EXCEPT ![key] = n],
             n.turn.pc \in {"idle", "taken"}, InLine(n) \subseteq InLine(l)
      PROVE  /\ AreLines(ls)
             /\ \A k \in Keys \ {key} : ls[k] = lines[k]
             /\ ls[key].turn.pc \in {"idle", "taken"}
             /\ InLine(ls[key]) \subseteq InLine(l)
  <2>1. ls = [k \in Keys |-> IF k = key THEN n ELSE lines[k]]
    BY <1>2 DEF AreLines
  <2> HIDE DEF ls
  <2> QED  BY <1>2, <2>1 DEF AreLines
<1>3. CASE l.waiting = <<>>
  <2> DEFINE n == [turn |-> IdleTurn, waiting |-> l.waiting]
  <2>1. ls = [lines EXCEPT ![key].turn = IdleTurn]
    BY <1>3 DEF Ended
  <2>2. ls = [lines EXCEPT ![key] = n]
    BY <1>1, <2>1
  <2>3. IsLine(n)
    BY <1>1 DEF IsLine
  <2>4. InLine(n) \subseteq InLine(l) /\ n.turn.pc = "idle"
    BY TurnsDiffer DEF InLine
  <2> HIDE DEF ls, n
  <2> QED  BY <1>2, <2>2, <2>3, <2>4 DEF ls
<1>4. CASE l.waiting # <<>>
  <2> DEFINE n == [turn |-> Taken(Head(l.waiting)), waiting |-> Tail(l.waiting)]
  <2>1. ls = [lines EXCEPT ![key] = n]
    BY <1>1, <1>4 DEF Ended
  <2>2. /\ IsList(Tail(l.waiting)) /\ ToSet(Tail(l.waiting)) \subseteq ToSet(l.waiting)
        /\ Head(l.waiting) \in ToSet(l.waiting)
    <3> HIDE DEF l
    <3> QED  BY <1>1, <1>4, TailsAreParts
  <2>3. IsLine(n)
    BY <1>1, <2>2, TurnsDiffer DEF IsLine
  <2>4. InLine(n) \subseteq InLine(l) /\ n.turn.pc = "taken"
    BY <2>2, TurnsDiffer DEF InLine
  <2> HIDE DEF ls, n
  <2> QED  BY <1>2, <2>1, <2>3, <2>4 DEF ls
<1> QED  BY <1>3, <1>4

\* The turn of a line goes on.
Advanced(lines, key, pc) == [lines EXCEPT ![key].turn.pc = pc]
Retried(lines, key) == [lines EXCEPT ![key].turn.attempt = @ + 1]

LEMMA TurnGoesOn ==
  ASSUME NEW lines, AreLines(lines), NEW key \in Keys, lines[key].turn # IdleTurn,
         NEW ls, NEW pc \in {"taken", "handling", "landed"},
         \/ ls = Advanced(lines, key, pc)
         \/ lines[key].turn.pc = pc /\ ls = Retried(lines, key)
  PROVE  /\ AreLines(ls)
         /\ \A k \in Keys \ {key} : ls[k] = lines[k]
         /\ ls[key].turn # IdleTurn /\ ls[key].turn.pc = pc
         /\ ls[key].turn.trigger = lines[key].turn.trigger
         /\ InLine(ls[key]) = InLine(lines[key])
<1> DEFINE l == lines[key]
           at == IF ls = Advanced(lines, key, pc) THEN l.turn.attempt
                                                            ELSE l.turn.attempt + 1
           n == [turn |-> [pc |-> pc, trigger |-> l.turn.trigger, attempt |-> at],
                 waiting |-> l.waiting]
<1>1. /\ l = [turn |-> l.turn, waiting |-> l.waiting] /\ IsList(l.waiting)
      /\ l.turn = [pc |-> l.turn.pc, trigger |-> l.turn.trigger, attempt |-> l.turn.attempt]
  BY DEF AreLines, IsLine
<1>2. lines = [k \in Keys |-> lines[k]]
  BY DEF AreLines
<1>3. ls = [k \in Keys |-> IF k = key THEN n ELSE lines[k]]
  <2>1. CASE ls = Advanced(lines, key, pc)
    BY <1>1, <1>2, <2>1 DEF Advanced
  <2>2. CASE ls # Advanced(lines, key, pc) /\ lines[key].turn.pc = pc /\ ls = Retried(lines, key)
    BY <1>1, <1>2, <2>2 DEF Retried
  <2> QED  BY <2>1, <2>2
<1>4. IsLine(n) /\ n.turn # IdleTurn /\ InLine(n) = InLine(l)
  BY <1>1, TurnsDiffer DEF IsLine, InLine
<1>5. n.turn.pc = pc /\ n.turn.trigger = l.turn.trigger
  OBVIOUS
<1> HIDE DEF n
<1> QED  BY <1>3, <1>4, <1>5 DEF AreLines

-----------------------------------------------------------------------------
(* What the handlers of the service return, and what is committed of it.   *)

IsDeployment(v) ==
  \E at \in {"queued", "deploying", "live", "failed", "rolled-back"},
     attempts \in {0, 1} : \E region, note :
    /\ v = [state |-> at,
            values |-> [region |-> region, attempts |-> attempts, note |-> note]]
    /\ at = "queued" => attempts = 0

IsIncident(v) ==
  \E at \in {"open", "acknowledged", "resolved"} : \E reason :
    v = [state |-> at, values |-> [reason |-> reason]]

LEMMA NothingIsHeld ==
  \A v : IsDeployment(v) \/ IsIncident(v) => v # Nothing
<1>1. DOMAIN Nothing = {"state"}
  BY DEF Nothing
<1>2. \A v : IsDeployment(v) \/ IsIncident(v) => DOMAIN v = {"state", "values"}
  BY DEF IsDeployment, IsIncident
<1> QED  BY <1>1, <1>2

\* What a result makes of an instance.
NextOf(now, result) ==
  [state  |-> IF result.kind = "stay" THEN now.state ELSE result.state,
   values |-> result.values]

LEMMA ResultsAre ==
  \A v, to, vs : /\ Move(to, vs).kind = "transitionTo" /\ Stay(vs).kind = "stay"
                 /\ NextOf(v, Move(to, vs)) = [state |-> to, values |-> vs]
                 /\ NextOf(v, Stay(vs)) = [state |-> v.state, values |-> vs]
BY DEF Move, Stay, NextOf

\* Where the handlers of a deployment take it, and what they make of its values.
Steps(at, held, to, vs) ==
  \/ /\ at = "queued" /\ to = "deploying"
     /\ \E region, note :
          vs = [region |-> region, attempts |-> held.attempts + 1, note |-> note]
  \/ /\ \/ at = "deploying" /\ to \in {"live", "failed"}
        \/ at \in {"live", "failed"} /\ to = "rolled-back"
     /\ \E note : vs = [held EXCEPT !.note = note] /\ (to = "failed" => note # "")
  \/ at \in {"live", "rolled-back"} /\ to = "deploying"

LEMMA DeploymentAsks ==
  ASSUME NEW at, NEW held, NEW trigger
  PROVE  LET result == DeploymentHandler(at, held, trigger)
         IN  \/ result = Stay(held)
             \/ \E to, vs : result = Move(to, vs) /\ Steps(at, held, to, vs)
<1> DEFINE result == DeploymentHandler(at, held, trigger)
           Goal == \/ result = Stay(held)
                   \/ \E to, vs : /\ result = Move(to, vs)
                                         /\ Steps(at, held, to, vs)
<1> SUFFICES Goal
  OBVIOUS
<1>1. \A field : Text(field, "reported failed") # ""
  BY DEF Text
<1>2. \A region, note : Deploying(held, region, note) =
        Move("deploying", [region |-> region, attempts |-> held.attempts + 1, note |-> note])
  BY DEF Deploying
<1>3. ASSUME NEW to, NEW note, to = "failed" => note # "",
             \/ at = "deploying" /\ to \in {"live", "failed"}
             \/ at \in {"live", "failed"} /\ to = "rolled-back",
             result = Move(to, Noted(held, note))
      PROVE  Goal
  <2> HIDE DEF result
  <2>1. result = Move(to, [held EXCEPT !.note = note])
    BY <1>3 DEF Noted
  <2>2. Steps(at, held, to, [held EXCEPT !.note = note])
    BY <1>3 DEF Steps
  <2> QED  BY <2>1, <2>2
<1>4. CASE at = "queued"
  <2>1. PICK note : result = Deploying(held, trigger.region, note)
    BY <1>4 DEF DeploymentHandler
  <2> DEFINE made == [region |-> trigger.region, attempts |-> held.attempts + 1,
                      note |-> note]
  <2>2. result = Move("deploying", made)
    BY <1>2, <2>1
  <2>3. Steps(at, held, "deploying", made)
    BY <1>4 DEF Steps
  <2> HIDE DEF result, made
  <2> QED  BY <2>2, <2>3
<1>5. CASE at = "deploying"
  <2>1. result = IF trigger.type = OVERDUE THEN Move("failed", Noted(held, "gave up"))
                 ELSE IF trigger.type = "succeeded" THEN Move("live", Noted(held, "deployed"))
                 ELSE Move("failed", Noted(held, Text(trigger.reason, "reported failed")))
    BY <1>5 DEF DeploymentHandler
  <2>2. \E to \in {"live", "failed"} : \E note :
          result = Move(to, Noted(held, note)) /\ (to = "failed" => note # "")
    <3> DEFINE gaveUp == "gave up"
               deployed == "deployed"
               reported == Text(trigger.reason, "reported failed")
    <3>1. gaveUp # "" /\ reported # ""
      BY <1>1
    <3>2. result = IF trigger.type = OVERDUE THEN Move("failed", Noted(held, gaveUp))
                   ELSE IF trigger.type = "succeeded" THEN Move("live", Noted(held, deployed))
                   ELSE Move("failed", Noted(held, reported))
      BY <2>1
    <3> HIDE DEF result, gaveUp, deployed, reported
    <3>3. CASE result = Move("failed", Noted(held, gaveUp))
      BY <3>1, <3>3
    <3>4. CASE result = Move("live", Noted(held, deployed))
      BY <3>4
    <3>5. CASE result = Move("failed", Noted(held, reported))
      BY <3>1, <3>5
    <3> QED  BY <3>2, <3>3, <3>4, <3>5
  <2> HIDE DEF result, Goal
  <2> QED  BY <1>3, <1>5, <2>2
<1>6. CASE at \in {"live", "failed"} /\ trigger.type = "rollback"
  <2>1. PICK note : result = Move("rolled-back", Noted(held, note))
    BY <1>6 DEF DeploymentHandler
  <2> HIDE DEF result, Goal
  <2> QED  BY <1>3, <1>6, <2>1
<1>7. CASE /\ ~(at \in {"live", "failed"} /\ trigger.type = "rollback")
           /\ at \in {"live", "rolled-back"} /\ trigger.type = "deploy"
  <2>1. PICK note : result = Deploying(held, held.region, note)
    BY <1>7 DEF DeploymentHandler
  <2>2. \A vs : Steps(at, held, "deploying", vs)
    BY <1>7 DEF Steps
  <2> HIDE DEF result
  <2> QED  BY <1>2, <2>1, <2>2
<1>8. CASE /\ at \notin {"queued", "deploying"}
           /\ ~(at \in {"live", "failed"} /\ trigger.type = "rollback")
           /\ ~(at \in {"live", "rolled-back"} /\ trigger.type = "deploy")
  BY <1>8 DEF DeploymentHandler
<1> QED  BY <1>4, <1>5, <1>6, <1>7, <1>8

\* Nothing but what was asked for may be committed of a deployment: a second
\* deployment is refused, and so is anything after a rollback.
LEMMA DeploymentReturns ==
  ASSUME NEW v, IsDeployment(v), NEW result,
         \/ result = Stay(v.values)
         \/ \E to, vs : result = Move(to, vs) /\ Steps(v.state, v.values, to, vs),
         ~Rejected(CheckConstraints(CompiledEntity["deployments"], v.state,
                                    NextOf(v, result), result))
  PROVE  LET next == NextOf(v, result)
         IN  /\ IsDeployment(next)
             /\ v.state = "rolled-back" => next.state = "rolled-back"
             /\ next.state = "failed" => IF v.state = "failed" THEN next.values = v.values
                                                               ELSE next.values.note # ""
<1> DEFINE next == NextOf(v, result)
           Goal == /\ IsDeployment(next)
                   /\ v.state = "rolled-back" => next.state = "rolled-back"
                   /\ next.state = "failed" =>
                        IF v.state = "failed" THEN next.values = v.values
                                              ELSE next.values.note # ""
<1> SUFFICES Goal
  OBVIOUS
<1>0. PICK at \in {"queued", "deploying", "live", "failed", "rolled-back"},
           attempts \in {0, 1} : \E region, note :
        /\ v = [state |-> at, values |->
                 [region |-> region, attempts |-> attempts, note |-> note]]
        /\ at = "queued" => attempts = 0
  BY DEF IsDeployment
<1>1. PICK region, note, held :
        /\ held = [region |-> region, attempts |-> attempts, note |-> note]
        /\ v = [state |-> at, values |-> held]
        /\ at = "queued" => attempts = 0
  BY <1>0
<1>2. v.state = at /\ v.values = held /\ v = [state |-> at, values |-> held]
  BY <1>1
<1>3. CASE result = Stay(v.values)
  <2>1. NextOf(v, Stay(v.values)) = v
    BY <1>2, ResultsAre
  <2>2. next = v
    BY <1>3, <2>1
  <2> HIDE DEF next
  <2> QED  BY <2>2 DEF Goal
<1>4. CASE \E to, vs : result = Move(to, vs) /\ Steps(v.state, v.values, to, vs)
  <2>1. PICK to, vs : result = Move(to, vs) /\ Steps(at, held, to, vs)
    BY <1>2, <1>4
  <2>2. result.kind = "transitionTo" /\ next = [state |-> to, values |-> vs]
    BY <2>1, ResultsAre
  <2>3. next.state = to /\ next.values = vs
    BY <2>2
  <2>4. at # "rolled-back" /\ (at = "live" => to = "rolled-back")
    <3>1. ~Rejected(CheckConstraints(CompiledEntity["deployments"], at, next, result))
      BY <1>2
    <3> HIDE DEF next
    <3> QED  BY <2>2, <2>3, <3>1, DeploymentVerdict
  <2>5. \E a \in {0, 1} : \E r, n : /\ vs = [region |-> r, attempts |-> a, note |-> n]
                                    /\ to = "failed" => n # ""
    <3>1. CASE /\ at = "queued" /\ to = "deploying"
               /\ \E r, n : vs = [region |-> r, attempts |-> held.attempts + 1, note |-> n]
      <4>1. held.attempts + 1 = 1
        BY <1>1, <3>1
      <4> QED  BY <3>1, <4>1
    <3>2. CASE \E n : vs = [held EXCEPT !.note = n] /\ (to = "failed" => n # "")
      <4>1. PICK n : vs = [held EXCEPT !.note = n] /\ (to = "failed" => n # "")
        BY <3>2
      <4>2. vs = [region |-> region, attempts |-> attempts, note |-> n]
        BY <1>1, <4>1
      <4> QED  BY <4>1, <4>2
    <3> QED  BY <2>1, <2>4, <3>1, <3>2 DEF Steps
  <2>6. at # "failed" \/ to # "failed"
    BY <2>1 DEF Steps
  <2>7. to \in {"deploying", "live", "failed", "rolled-back"}
    BY <2>1 DEF Steps
  <2> HIDE DEF next
  <2>8. PICK a \in {0, 1} : \E r, n : /\ vs = [region |-> r, attempts |-> a, note |-> n]
                                      /\ to = "failed" => n # ""
    BY <2>5
  <2>11. PICK r, n : vs = [region |-> r, attempts |-> a, note |-> n] /\ (to = "failed" => n # "")
    BY <2>8
  <2>9. IsDeployment(next)
    BY <2>2, <2>7, <2>11 DEF IsDeployment
  <2>10. vs.note = n
    BY <2>11
  <2> QED  BY <1>2, <2>3, <2>4, <2>6, <2>11, <2>9, <2>10
<1> QED  BY <1>3, <1>4

LEMMA IncidentAsks ==
  ASSUME NEW at, NEW held, NEW trigger
  PROVE  LET result == IncidentHandler(at, held, trigger)
         IN  \/ /\ at = "open" /\ trigger.type = "acknowledge"
                /\ result = Move("acknowledged", held)
             \/ /\ at \in {"open", "acknowledged"} /\ trigger.type = "resolve"
                /\ result = Move("resolved", held)
             \/ /\ at = "open" /\ held.reason = "" /\ trigger.type = "open"
                /\ result = Stay([held EXCEPT !.reason = trigger.reason])
             \/ /\ ~(at = "open" /\ held.reason = "" /\ trigger.type = "open")
                /\ result = Stay(held)
<1> DEFINE result == IncidentHandler(at, held, trigger)
           overwritten == [held EXCEPT !.reason = trigger.reason]
           Goal == \/ /\ at = "open" /\ trigger.type = "acknowledge"
                      /\ result = Move("acknowledged", held)
                   \/ /\ at \in {"open", "acknowledged"} /\ trigger.type = "resolve"
                      /\ result = Move("resolved", held)
                   \/ /\ at = "open" /\ held.reason = "" /\ trigger.type = "open"
                      /\ result = Stay(overwritten)
                   \/ /\ ~(at = "open" /\ held.reason = "" /\ trigger.type = "open")
                      /\ result = Stay(held)
<1> SUFFICES Goal
  OBVIOUS
<1>1. CASE at = "open" /\ trigger.type = "acknowledge"
  <2>1. result = Move("acknowledged", held)
    BY <1>1 DEF IncidentHandler
  <2> HIDE DEF result, overwritten
  <2> QED  BY <1>1, <2>1
<1>2. CASE at \in {"open", "acknowledged"} /\ trigger.type = "resolve"
  <2>1. result = Move("resolved", held)
    BY <1>2 DEF IncidentHandler
  <2> HIDE DEF result, overwritten
  <2> QED  BY <1>2, <2>1
<1>3. CASE at = "open" /\ held.reason = "" /\ trigger.type = "open"
  <2>1. result = Stay(overwritten)
    <3> HIDE DEF overwritten
    <3>1. result = Stay([held EXCEPT !.reason = trigger.reason])
      BY <1>3 DEF IncidentHandler
    <3> QED  BY <3>1 DEF overwritten
  <2> HIDE DEF result, overwritten
  <2> QED  BY <1>3, <2>1
<1>4. CASE /\ ~(at = "open" /\ trigger.type = "acknowledge")
           /\ ~(at \in {"open", "acknowledged"} /\ trigger.type = "resolve")
           /\ ~(at = "open" /\ held.reason = "" /\ trigger.type = "open")
  <2>1. result = Stay(held)
    BY <1>4 DEF IncidentHandler
  <2> HIDE DEF result, overwritten
  <2> QED  BY <1>4, <2>1
<1> QED  BY <1>1, <1>2, <1>3, <1>4

\* The first to open an incident says why, and nobody else does.
LEMMA IncidentReturns ==
  ASSUME NEW v, IsIncident(v), NEW trigger
  PROVE  LET result == IncidentHandler(v.state, v.values, trigger)
             next   == NextOf(v, result)
         IN  /\ IsIncident(next)
             /\ next.values.reason # v.values.reason =>
                  /\ v.state = "open" /\ v.values.reason = "" /\ trigger.type = "open"
                  /\ next.values.reason = trigger.reason
             /\ v.state = "open" /\ v.values.reason = "" /\ trigger.type = "open" =>
                  result.kind = "stay" /\ next.values.reason = trigger.reason
<1> DEFINE result == IncidentHandler(v.state, v.values, trigger)
           next == NextOf(v, result)
<1>0. PICK at \in {"open", "acknowledged", "resolved"} : \E reason :
        v = [state |-> at, values |-> [reason |-> reason]]
  BY DEF IsIncident
<1>1. PICK reason, held :
        v = [state |-> at, values |-> held] /\ held = [reason |-> reason]
  BY <1>0
<1>2. v.state = at /\ v.values = held /\ held.reason = reason
  BY <1>1
<1>3. \A r : [held EXCEPT !.reason = r] = [reason |-> r]
  BY <1>1
<1>4. ASSUME NEW to \in {"open", "acknowledged", "resolved"}, NEW r,
             next = [state |-> to, values |-> [reason |-> r]]
      PROVE  IsIncident(next) /\ next.values.reason = r
  <2> HIDE DEF next
  <2> QED  BY <1>4 DEF IsIncident
<1> HIDE DEF result
<1>5. \/ /\ at = "open" /\ trigger.type = "acknowledge"
         /\ result = Move("acknowledged", held)
      \/ /\ at \in {"open", "acknowledged"} /\ trigger.type = "resolve"
         /\ result = Move("resolved", held)
      \/ /\ at = "open" /\ held.reason = "" /\ trigger.type = "open"
         /\ result = Stay([held EXCEPT !.reason = trigger.reason])
      \/ /\ ~(at = "open" /\ held.reason = "" /\ trigger.type = "open")
         /\ result = Stay(held)
  <2>1. result = IncidentHandler(at, held, trigger)
    BY <1>2 DEF result
  <2> QED  BY <2>1, IncidentAsks, Zenon
<1>6. \/ /\ at = "open" /\ trigger.type = "acknowledge"
         /\ next = [state |-> "acknowledged", values |-> [reason |-> reason]]
      \/ /\ at \in {"open", "acknowledged"} /\ trigger.type = "resolve"
         /\ next = [state |-> "resolved", values |-> [reason |-> reason]]
      \/ /\ at = "open" /\ reason = "" /\ trigger.type = "open"
         /\ next = [state |-> "open", values |-> [reason |-> trigger.reason]]
         /\ result.kind = "stay"
      \/ /\ ~(at = "open" /\ reason = "" /\ trigger.type = "open")
         /\ next = [state |-> at, values |-> [reason |-> reason]]
  <2>1. ASSUME NEW to, result = Move(to, held)
        PROVE  next = [state |-> to, values |-> [reason |-> reason]]
    BY <1>1, <2>1, ResultsAre
  <2>2. ASSUME NEW vs, result = Stay(vs)
        PROVE  next = [state |-> at, values |-> vs] /\ result.kind = "stay"
    BY <1>2, <2>2, ResultsAre
  <2> HIDE DEF next
  <2>3. /\ [held EXCEPT !.reason = trigger.reason] = [reason |-> trigger.reason]
        /\ held = [reason |-> reason]
    BY <1>1, <1>3
  <2> QED  BY <1>2, <1>5, <2>1, <2>2, <2>3
<1> HIDE DEF next
<1>7. /\ IsIncident(next)
      /\ next.values.reason # reason =>
           /\ at = "open" /\ reason = "" /\ trigger.type = "open"
           /\ next.values.reason = trigger.reason
      /\ at = "open" /\ reason = "" /\ trigger.type = "open" =>
           result.kind = "stay" /\ next.values.reason = trigger.reason
  <2>1. CASE /\ at = "open" /\ trigger.type = "acknowledge"
             /\ next = [state |-> "acknowledged", values |-> [reason |-> reason]]
    BY <1>4, <2>1
  <2>2. CASE /\ at \in {"open", "acknowledged"} /\ trigger.type = "resolve"
             /\ next = [state |-> "resolved", values |-> [reason |-> reason]]
    BY <1>4, <2>2
  <2>3. CASE /\ at = "open" /\ reason = "" /\ trigger.type = "open"
             /\ next = [state |-> "open", values |-> [reason |-> trigger.reason]]
             /\ result.kind = "stay"
    BY <1>4, <2>3
  <2>4. CASE /\ ~(at = "open" /\ reason = "" /\ trigger.type = "open")
             /\ next = [state |-> at, values |-> [reason |-> reason]]
    BY <1>4, <2>4
  <2> QED  BY <1>6, <2>1, <2>2, <2>3, <2>4
<1> QED  BY <1>2, <1>7 DEF next, result

-----------------------------------------------------------------------------
(* The shapes of what the service keeps, and what its steps do.            *)

IsHeld(key, v) ==
  v = Nothing \/ IF key[1] = "deployments" THEN IsDeployment(v) ELSE IsIncident(v)

\* Only what is held can be worked on, and what is held is of the shape that
\* its entity's definition gives it.
Shapes ==
  /\ instance = [k \in Keys |-> instance[k]]
  /\ \A k \in Keys : IsHeld(k, instance[k])
  /\ AreLines(line)
  /\ \A k \in Keys : line[k].turn.pc \in {"handling", "landed"} => instance[k] # Nothing
  /\ failures = [id \in Ids |-> failures[id]] /\ \A id \in Ids : IsList(failures[id])
  /\ pruning = [p \in Pruners |-> pruning[p]]
  /\ consumed \in Nat

\* A trigger that is sent to a deployment, or to an incident that is open.
Sent(k, t) ==
  /\ \/ k[1] = "deployments"
     \/ t.type \in {"acknowledge", "resolve"} /\ instance[k] # Nothing
  /\ line' = Arrived(line, k, t)
  /\ UNCHANGED <<instance, pruning, failures, cut>>

\* Steps of which nothing below depends on more than this.
LEMMA ServiceSteps ==
  ASSUME [ServiceNext]_serviceVars, consumed \in Nat
  PROVE  /\ consumed' \in Nat
         /\ \/ UNCHANGED <<instance, line, pruning, failures, cut>>
            \/ \E k \in Keys : Start(k) \/ Throw(k) \/ Return(k) \/ Apply(k)
            \/ \E k \in Keys : \E t : Sent(k, t)
            \/ \E p \in Pruners : AskPrune(p)
            \/ \E p \in Pruners, id \in Ids : Forget(p, id)
            \/ Restarts
<1> DEFINE Goal == /\ consumed' \in Nat
                   /\ \/ UNCHANGED <<instance, line, pruning, failures, cut>>
                      \/ \E k \in Keys : Start(k) \/ Throw(k) \/ Return(k) \/ Apply(k)
                      \/ \E k \in Keys : \E t : Sent(k, t)
                      \/ \E p \in Pruners : AskPrune(p)
                      \/ \E p \in Pruners, id \in Ids : Forget(p, id)
                      \/ Restarts
<1> SUFFICES Goal
  OBVIOUS
<1>1. \A k, t : Sends(k, t) => /\ line' = Arrived(line, k, t)
                               /\ UNCHANGED <<instance, failures, cut>>
  BY DEF Sends
<1>2. ASSUME NEW id \in Ids, NEW t, Sends(Deployment(id), t), UNCHANGED pruning
      PROVE  \E k \in Keys : Sent(k, t)
  <2>1. Sent(Deployment(id), t)
    BY <1>1, <1>2, Places DEF Sent
  <2> QED  BY <2>1, Places
<1>3. ASSUME NEW k \in Keys, Runtime(k)
      PROVE  Goal
  <2>1. CASE Start(k) \/ Throw(k) \/ Return(k) \/ Apply(k)
    <3>1. UNCHANGED consumed
      BY <2>1 DEF Start, Throw, Return, Apply
    <3> QED  BY <2>1, <3>1
  <2>2. CASE Evict(k)
    <3>1. UNCHANGED <<instance, line, pruning, failures, cut, consumed>>
      BY <2>2 DEF Evict
    <3> QED  BY <3>1
  <2> QED  BY <1>3, <2>1, <2>2 DEF Runtime
<1>4. ASSUME NEW c \in Clients, NEW id \in Ids, NEW region \in Regions, Create(c, id, region)
      PROVE  Goal
  <2>1. PICK t : Sends(Deployment(id), t) /\ UNCHANGED <<pruning, consumed>>
    BY <1>4 DEF Create
  <2> QED  BY <1>2, <2>1
<1>5. ASSUME NEW c \in Clients, NEW id \in Ids, NEW event \in Posts, PostEvent(c, id, event)
      PROVE  Goal
  <2>1. PICK t : Sends(Deployment(id), t) /\ UNCHANGED <<pruning, consumed>>
    BY <1>5 DEF PostEvent
  <2> QED  BY <1>2, <2>1
<1>6. CASE Consume
  <2>1. consumed + 1 \in 1 .. Len(Backlog) /\ consumed' = consumed + 1 /\ UNCHANGED pruning
    BY <1>6, BacklogAssumption DEF Consume
  <2>2. PICK t : Sends(Deployment(Backlog[consumed + 1].id), t)
    BY <1>6 DEF Consume
  <2>3. Backlog[consumed + 1].id \in Ids
    <3>1. Backlog[consumed + 1] \in ToSet(Backlog)
      BY <2>1, BacklogAssumption
    <3> QED  BY <3>1, BacklogAssumption
  <2>4. consumed' \in Nat
    BY <2>1
  <2> QED  BY <1>2, <2>1, <2>2, <2>3, <2>4
<1>7. ASSUME NEW id \in Ids, Escalate(id)
      PROVE  Goal
  <2>1. PICK t : line' = Arrived(line, Deployment(id), t)
    BY <1>7 DEF Escalate
  <2>2. UNCHANGED <<instance, consumed, pruning, failures, cut>>
    BY <1>7 DEF Escalate
  <2>3. Sent(Deployment(id), t)
    BY <2>1, <2>2, Places DEF Sent
  <2> QED  BY <2>2, <2>3, Places
<1>8. ASSUME NEW id \in Ids, NEW type \in {"acknowledge", "resolve"}, Operate(id, type)
      PROVE  Goal
  <2> DEFINE t == Trigger(type, Unset, Unset, "operator")
  <2>1. /\ Sends(Incident(id), t) /\ UNCHANGED <<consumed, pruning>>
        /\ instance[Incident(id)] # Nothing
    BY <1>8 DEF Operate
  <2>2. t.type = type
    BY DEF Trigger
  <2> HIDE DEF t
  <2>3. Sent(Incident(id), t)
    BY <1>1, <2>1, <2>2 DEF Sent
  <2> QED  BY <2>1, <2>3, Places
<1>9. ASSUME NEW id \in Ids, NEW p \in Pruners, Forget(p, id)
      PROVE  Goal
  <2>1. UNCHANGED consumed
    BY <1>9 DEF Forget
  <2> QED  BY <1>9, <2>1
<1>10. ASSUME NEW p \in Pruners, AskPrune(p)
       PROVE  Goal
  <2>1. UNCHANGED consumed
    BY <1>10 DEF AskPrune
  <2> QED  BY <1>10, <2>1
<1>11. CASE Crash \/ Exit
  <2>1. Restarts
    BY <1>11 DEF Crash, Exit
  <2>2. consumed' \in Nat
    BY <2>1 DEF Restarts
  <2> QED  BY <2>1, <2>2
<1>12. CASE Shutdown \/ Spent \/ UNCHANGED serviceVars
  <2>1. UNCHANGED <<instance, line, pruning, failures, cut, consumed>>
    BY <1>12 DEF Shutdown, Spent, serviceVars
  <2> QED  BY <2>1
<1> HIDE DEF Goal
<1> QED  BY <1>3, <1>4, <1>5, <1>6, <1>7, <1>8, <1>9, <1>10, <1>11, <1>12 DEF ServiceNext

\* What Return(key) does to a deployment.
DeploymentLands(id) ==
  LET k == Deployment(id)
  IN  /\ line[k].turn.pc = "handling"
      /\ UNCHANGED <<pruning, cut>>
      /\ \/ line' = Ended(line, k) /\ UNCHANGED <<instance, failures>>
         \/ \E next :
              /\ IsDeployment(next)
              /\ instance[k].state = "rolled-back" => next.state = "rolled-back"
              /\ next.state = "failed" =>
                   IF instance[k].state = "failed" THEN next.values = instance[k].values
                                                   ELSE next.values.note # ""
              /\ line' = [line EXCEPT ![k].turn.pc = "landed"]
              /\ instance' = [instance EXCEPT ![k] = next]
              /\ failures' = IF next.state = "failed" /\ instance[k].state # "failed"
                               THEN [failures EXCEPT ![id] = Append(@, next.values.note)]
                               ELSE failures

\* What Return(key) does to an incident.
IncidentLands(id) ==
  LET k       == Incident(id)
      trigger == line[k].turn.trigger
      opens   == /\ instance[k].state = "open" /\ instance[k].values.reason = ""
                 /\ trigger.type = "open"
  IN  /\ line[k].turn.pc = "handling"
      /\ UNCHANGED <<pruning, cut, failures>>
      /\ \/ line' = Ended(line, k) /\ UNCHANGED instance /\ ~opens
         \/ \E next :
              /\ IsIncident(next)
              /\ opens => next.values.reason = trigger.reason
              /\ ~opens => next.values.reason = instance[k].values.reason
              /\ line' = [line EXCEPT ![k].turn.pc = "landed"]
              /\ instance' = [instance EXCEPT ![k] = next]

LEMMA ReturnDoes ==
  ASSUME NEW k, Return(k)
  PROVE  LET now    == instance[k]
             result == Handler(k, now, line[k].turn.trigger)
             next   == NextOf(now, result)
         IN  /\ line[k].turn.pc = "handling"
             /\ UNCHANGED <<pruning, cut, consumed>>
             /\ \/ /\ Rejected(CheckConstraints(CompiledEntity[k[1]], now.state, next, result))
                   /\ line' = Ended(line, k) /\ UNCHANGED <<instance, failures>>
                \/ /\ ~Rejected(CheckConstraints(CompiledEntity[k[1]], now.state, next, result))
                   /\ line' = [line EXCEPT ![k].turn.pc = "landed"]
                   /\ instance' = [instance EXCEPT ![k] = next]
                   /\ failures' = IF next.state = "failed" /\ now.state # "failed"
                        THEN [failures EXCEPT ![k[2]] = Append(@, next.values.note)]
                        ELSE failures
BY DEF Return, Phase, NextOf

LEMMA Lands ==
  ASSUME Shapes, NEW id \in Ids
  PROVE  /\ Return(Deployment(id)) => DeploymentLands(id)
         /\ Return(Incident(id)) => IncidentLands(id)
<1>1. ASSUME Return(Deployment(id))
      PROVE  DeploymentLands(id)
  <2> DEFINE k == Deployment(id)
             now == instance[k]
             result == DeploymentHandler(now.state, now.values, line[k].turn.trigger)
             next == NextOf(now, result)
  <2>1. k[1] = "deployments" /\ k[2] = id /\ k \in Keys
    BY Places
  <2>2. Handler(k, now, line[k].turn.trigger) = result
    BY <2>1 DEF Handler
  <2> DEFINE Rejects ==
               Rejected(CheckConstraints(CompiledEntity["deployments"], now.state, next, result))
  <2>3. /\ line[k].turn.pc = "handling"
        /\ UNCHANGED <<pruning, cut, consumed>>
        /\ \/ Rejects /\ line' = Ended(line, k) /\ UNCHANGED <<instance, failures>>
           \/ /\ ~Rejects
              /\ line' = [line EXCEPT ![k].turn.pc = "landed"]
              /\ instance' = [instance EXCEPT ![k] = next]
              /\ failures' = IF next.state = "failed" /\ now.state # "failed"
                               THEN [failures EXCEPT ![id] = Append(@, next.values.note)]
                               ELSE failures
    <3> HIDE DEF k, result, now
    <3>1. Return(k)
      BY <1>1 DEF k
    <3> QED  BY <2>1, <2>2, <3>1, ReturnDoes DEF now
  <2>4. IsDeployment(now)
    <3> HIDE DEF k
    <3> QED  BY <2>1, <2>3 DEF Shapes, IsHeld
  <2>5. ~Rejects => /\ IsDeployment(next)
                    /\ now.state = "rolled-back" => next.state = "rolled-back"
                    /\ next.state = "failed" =>
                         IF now.state = "failed" THEN next.values = now.values
                                                 ELSE next.values.note # ""
    <3>1. \/ result = Stay(now.values)
          \/ \E to, vs : result = Move(to, vs) /\ Steps(now.state, now.values, to, vs)
      BY DeploymentAsks
    <3> HIDE DEF result, now
    <3> QED  BY <2>4, <3>1, DeploymentReturns
  <2> HIDE DEF Rejects, next, result
  <2> QED  BY <2>3, <2>5 DEF DeploymentLands
<1>2. ASSUME Return(Incident(id))
      PROVE  IncidentLands(id)
  <2> DEFINE k == Incident(id)
             now == instance[k]
             trigger == line[k].turn.trigger
             result == IncidentHandler(now.state, now.values, trigger)
             next == NextOf(now, result)
  <2>1. k[1] = "incidents" /\ k[1] # "deployments" /\ k \in Keys
    BY Places
  <2>2. Handler(k, now, line[k].turn.trigger) = result
    BY <2>1 DEF Handler
  <2> DEFINE Rejects ==
               Rejected(CheckConstraints(CompiledEntity["incidents"], now.state, next, result))
  <2>3. /\ line[k].turn.pc = "handling"
        /\ UNCHANGED <<pruning, cut, consumed>>
        /\ \/ Rejects /\ line' = Ended(line, k) /\ UNCHANGED <<instance, failures>>
           \/ /\ ~Rejects
              /\ line' = [line EXCEPT ![k].turn.pc = "landed"]
              /\ instance' = [instance EXCEPT ![k] = next]
              /\ next.state # "failed" => failures' = failures
    <3> HIDE DEF k, result, now
    <3>1. Return(k)
      BY <1>2 DEF k
    <3> QED  BY <2>1, <2>2, <3>1, ReturnDoes DEF now
  <2>4. IsIncident(now)
    <3> HIDE DEF k
    <3> QED  BY <2>1, <2>3 DEF Shapes, IsHeld
  <2>5. /\ IsIncident(next)
        /\ next.values.reason # now.values.reason =>
             /\ now.state = "open" /\ now.values.reason = "" /\ trigger.type = "open"
             /\ next.values.reason = trigger.reason
        /\ now.state = "open" /\ now.values.reason = "" /\ trigger.type = "open" =>
             result.kind = "stay" /\ next.values.reason = trigger.reason
    <3> HIDE DEF now, trigger
    <3> QED  BY <2>4, IncidentReturns
  <2>6. result.kind = "stay" => ~Rejects
    <3> HIDE DEF next, result, now
    <3> QED  BY IncidentVerdict
  <2>7. next.state # "failed"
    <3>1. \A v : IsIncident(v) => v.state # "failed"
      BY DEF IsIncident
    <3> HIDE DEF next, result, now
    <3> QED  BY <2>5, <3>1
  <2> HIDE DEF Rejects, next, result
  <2> QED  BY <2>3, <2>5, <2>6, <2>7 DEF IncidentLands
<1> QED  BY <1>1, <1>2

-----------------------------------------------------------------------------
(* Shapes is kept.                                                         *)

LEMMA PhasesDiffer ==
  \A k : line[k].turn.pc \in {"taken", "handling", "landed"} => line[k].turn # IdleTurn
BY TurnsDiffer

Deployed(at, region, attempts, note) ==
  [state |-> at, values |-> [region |-> region, attempts |-> attempts, note |-> note]]

LEMMA MadeDeployment ==
  ASSUME NEW at \in {"queued", "deploying", "live", "failed", "rolled-back"},
         NEW attempts \in {0, 1}, at = "queued" => attempts = 0, NEW region, NEW note
  PROVE  IsDeployment(Deployed(at, region, attempts, note))
BY DEF IsDeployment, Deployed

LEMMA StartsWell ==
  ASSUME Shapes, NEW k \in Keys
  PROVE  /\ IsHeld(k, Now(k)) /\ Now(k) # Nothing
         /\ instance[k] # Nothing => Now(k) = instance[k]
         /\ instance[k] = Nothing /\ k[1] = "deployments" => Now(k).state = "queued"
         /\ instance[k] = Nothing /\ k[1] = "incidents" =>
              Now(k) = [state |-> "open", values |-> [reason |-> ""]]
<1>1. /\ Definition["deployments"].initial = "queued"
      /\ Definition["deployments"].values = [region |-> "", attempts |-> 0, note |-> ""]
      /\ Definition["incidents"].initial = "open"
      /\ Definition["incidents"].values = [reason |-> ""]
  BY DEF Definition
<1>2. CASE instance[k] # Nothing
  BY <1>2 DEF Now, Shapes
<1>3. CASE instance[k] = Nothing /\ k[1] = "deployments"
  <2>1. Now(k) = [state |-> "queued",
                  values |-> [region |-> "", attempts |-> 0, note |-> ""]]
    BY <1>1, <1>3 DEF Now
  <2>2. IsDeployment(Now(k)) /\ Now(k).state = "queued"
    <3>1. Now(k) = Deployed("queued", "", 0, "")
      BY <2>1 DEF Deployed
    <3>2. PICK n, vs : n = Now(k) /\ n = [state |-> "queued", values |-> vs]
      BY <2>1
    <3>3. n.state = "queued"
      BY <3>2
    <3>4. IsDeployment(Now(k))
      BY <3>1, MadeDeployment
    <3> QED  BY <3>2, <3>3, <3>4
  <2> QED  BY <1>3, <2>2, NothingIsHeld DEF IsHeld
<1>4. CASE instance[k] = Nothing /\ k[1] = "incidents"
  <2>1. Now(k) = [state |-> "open", values |-> [reason |-> ""]]
    BY <1>1, <1>4 DEF Now
  <2>2. IsIncident(Now(k))
    BY <2>1 DEF IsIncident
  <2> QED  BY <1>4, <2>1, <2>2, NothingIsHeld DEF IsHeld
<1>5. k[1] \in {"deployments", "incidents"}
  BY KeysAreKeys, Places
<1> QED  BY <1>2, <1>3, <1>4, <1>5

\* One instance is written.
LEMMA OneIsWritten ==
  ASSUME Shapes, NEW k \in Keys, NEW v, IsHeld(k, v), instance' = [instance EXCEPT ![k] = v]
  PROVE  /\ instance' = [j \in Keys |-> instance'[j]]
         /\ \A j \in Keys : IsHeld(j, instance'[j])
         /\ instance'[k] = v /\ \A j \in Keys \ {k} : instance'[j] = instance[j]
<1>1. instance' = [j \in Keys |-> IF j = k THEN v ELSE instance[j]]
  BY DEF Shapes
<1>2. \A j \in Keys : IsHeld(j, instance[j])
  BY DEF Shapes
<1>3. \A j \in Keys : IsHeld(j, IF j = k THEN v ELSE instance[j])
  BY <1>2
<1> QED  BY <1>1, <1>3

\* What is kept of Shapes by a step that works on one key.
LEMMA OneKeyMoves ==
  ASSUME Shapes, NEW k \in Keys,
         AreLines(line'), \A j \in Keys \ {k} : line'[j] = line[j],
         line'[k].turn.pc \in {"handling", "landed"} => instance'[k] # Nothing,
         \/ UNCHANGED instance
         \/ \E v : IsHeld(k, v) /\ instance' = [instance EXCEPT ![k] = v]
  PROVE  /\ instance' = [j \in Keys |-> instance'[j]]
         /\ \A j \in Keys : IsHeld(j, instance'[j])
         /\ \A j \in Keys : line'[j].turn.pc \in {"handling", "landed"}
                              => instance'[j] # Nothing
<1>1. /\ instance' = [j \in Keys |-> instance'[j]]
      /\ \A j \in Keys : IsHeld(j, instance'[j])
      /\ \A j \in Keys \ {k} : instance'[j] = instance[j]
  <2>1. CASE UNCHANGED instance
    BY <2>1 DEF Shapes
  <2>2. CASE \E v : IsHeld(k, v) /\ instance' = [instance EXCEPT ![k] = v]
    BY <2>2, OneIsWritten
  <2> QED  BY <2>1, <2>2
<1>2. \A j \in Keys \ {k} : line[j].turn.pc \in {"handling", "landed"} => instance[j] # Nothing
  BY DEF Shapes
<1> QED  BY <1>1, <1>2

LEMMA StartDoes ==
  ASSUME Shapes, NEW k \in Keys, Start(k)
  PROVE  /\ line[k].turn.pc = "taken"
         /\ AreLines(line') /\ \A j \in Keys \ {k} : line'[j] = line[j]
         /\ \/ /\ line[k].turn.trigger.type \in Definition[k[1]].triggers
               /\ line'[k].turn.pc = "handling"
               /\ line'[k].turn.trigger = line[k].turn.trigger
            \/ /\ line[k].turn.trigger.type \notin Definition[k[1]].triggers
               /\ line'[k].turn.pc \in {"idle", "taken"}
         /\ InLine(line'[k]) \subseteq InLine(line[k])
         /\ instance' = [instance EXCEPT ![k] = Now(k)]
         /\ UNCHANGED <<pruning, failures, cut>>
<1>1. /\ line[k].turn.pc = "taken" /\ line[k].turn # IdleTurn
      /\ instance' = [instance EXCEPT ![k] = Now(k)]
      /\ UNCHANGED <<pruning, failures, cut>>
  BY PhasesDiffer DEF Start, Phase
<1>2. AreLines(line)
  BY DEF Shapes
<1>3. CASE line[k].turn.trigger.type \in Definition[k[1]].triggers
  <2>1. line' = [line EXCEPT ![k].turn.pc = "handling"]
    BY <1>3 DEF Start
  <2>0. line' = Advanced(line, k, "handling")
    BY <2>1 DEF Advanced
  <2>2. /\ AreLines(line') /\ \A j \in Keys \ {k} : line'[j] = line[j]
        /\ line'[k].turn.pc = "handling"
        /\ line'[k].turn.trigger = line[k].turn.trigger
        /\ InLine(line'[k]) = InLine(line[k])
    BY <1>1, <1>2, <2>0, TurnGoesOn
  <2> QED  BY <1>1, <1>3, <2>2
<1>4. CASE line[k].turn.trigger.type \notin Definition[k[1]].triggers
  <2>1. line' = Ended(line, k)
    BY <1>4 DEF Start
  <2> QED  BY <1>1, <1>2, <1>4, <2>1, EndedLine
<1> QED  BY <1>1, <1>3, <1>4

LEMMA ThrowDoes ==
  ASSUME Shapes, NEW k \in Keys, Throw(k)
  PROVE  /\ line[k].turn.pc = "handling" /\ k[1] = "deployments"
         /\ AreLines(line') /\ \A j \in Keys \ {k} : line'[j] = line[j]
         /\ line'[k].turn.pc \in {"idle", "taken", "handling"}
         /\ UNCHANGED <<instance, pruning, failures, cut>>
<1>1. /\ line[k].turn.pc = "handling" /\ line[k].turn # IdleTurn /\ k[1] = "deployments"
      /\ UNCHANGED <<instance, pruning, failures, cut>>
  BY PhasesDiffer DEF Throw, Phase, CallsOut
<1>2. AreLines(line)
  BY DEF Shapes
<1>3. CASE line' = [line EXCEPT ![k].turn.attempt = @ + 1]
  <2>1. line' = Retried(line, k)
    BY <1>3 DEF Retried
  <2>2. /\ AreLines(line') /\ \A j \in Keys \ {k} : line'[j] = line[j]
        /\ line'[k].turn.pc = "handling"
    BY <1>1, <1>2, <2>1, TurnGoesOn
  <2> QED  BY <1>1, <2>2
<1>4. CASE line' = Ended(line, k)
  BY <1>1, <1>2, <1>4, EndedLine
<1> QED  BY <1>1, <1>3, <1>4 DEF Throw

\* A failure is reported to the incident about it.
Reports(k, id, t) ==
  /\ k = Deployment(id) /\ instance[k].state = "failed"
  /\ t.type = "open" /\ t.reason = instance[k].values.note
  /\ \A j \in Keys \ {k, Incident(id)} : line'[j] = line[j]
  /\ line'[Incident(id)].turn =
       IF line[Incident(id)].turn = IdleTurn THEN Taken(t) ELSE line[Incident(id)].turn
  /\ InLine(line'[Incident(id)]) \subseteq InLine(line[Incident(id)]) \cup {t}

\* A commit is applied: the turn ends, and a failure is reported.
LEMMA ApplyDoes ==
  ASSUME Shapes, NEW k \in Keys, Apply(k)
  PROVE  /\ line[k].turn.pc = "landed"
         /\ AreLines(line')
         /\ line'[k].turn.pc \in {"idle", "taken"}
         /\ InLine(line'[k]) \subseteq InLine(line[k])
         /\ UNCHANGED <<instance, pruning, failures, cut>>
         /\ \/ /\ ~(k[1] = "deployments" /\ instance[k].state = "failed")
               /\ \A j \in Keys \ {k} : line'[j] = line[j]
            \/ \E id \in Ids : \E t : Reports(k, id, t)
<1>1. /\ line[k].turn.pc = "landed" /\ line[k].turn # IdleTurn
      /\ line' = Ended(Reactions(line, k), k)
      /\ UNCHANGED <<instance, pruning, failures, cut>>
  BY PhasesDiffer DEF Apply, Phase
<1>2. AreLines(line)
  BY DEF Shapes
<1>3. CASE k[1] = "deployments" /\ instance[k].state = "failed"
  <2>1. PICK id \in Ids : k = Deployment(id)
    BY <1>3, KeysAreKeys, Places
  <2>2. k[2] = id /\ Incident(id) \in Keys /\ Incident(id) # k
    BY <2>1, Places
  <2> DEFINE t == Trigger("open", Unset, instance[k].values.note, "reaction")
             lines == Arrived(line, Incident(id), t)
  <2>3. t.type = "open" /\ t.reason = instance[k].values.note
    BY DEF Trigger
  <2>4. Reactions(line, k) = lines
    BY <1>3, <2>2 DEF Reactions
  <2> HIDE DEF t
  <2>5. /\ AreLines(lines)
        /\ \A j \in Keys \ {Incident(id)} : lines[j] = line[j]
        /\ lines[Incident(id)].turn = IF line[Incident(id)].turn = IdleTurn THEN Taken(t)
                                      ELSE line[Incident(id)].turn
        /\ InLine(lines[Incident(id)]) \subseteq InLine(line[Incident(id)]) \cup {t}
    BY <1>2, <2>2, ArrivedLine
  <2> HIDE DEF lines
  <2>6. /\ AreLines(line')
        /\ \A j \in Keys \ {k} : line'[j] = lines[j]
        /\ line'[k].turn.pc \in {"idle", "taken"}
        /\ InLine(line'[k]) \subseteq InLine(lines[k])
    BY <1>1, <2>4, <2>5, EndedLine
  <2>7. lines[k] = line[k] /\ line'[Incident(id)] = lines[Incident(id)]
    BY <2>2, <2>5, <2>6
  <2>8. \A j \in Keys \ {k, Incident(id)} : line'[j] = line[j]
    BY <2>5, <2>6
  <2>9. Reports(k, id, t)
    BY <1>3, <2>1, <2>3, <2>5, <2>7, <2>8 DEF Reports
  <2>10. InLine(line'[k]) \subseteq InLine(line[k])
    BY <2>6, <2>7
  <2>11. \E i \in Ids : \E u : Reports(k, i, u)
    BY <2>9
  <2>12. UNCHANGED <<instance, pruning, failures, cut>> /\ line[k].turn.pc = "landed"
    BY <1>1
  <2> QED  BY <2>6, <2>10, <2>11, <2>12
<1>4. CASE ~(k[1] = "deployments" /\ instance[k].state = "failed")
  <2>1. line' = Ended(line, k)
    BY <1>1, <1>4 DEF Reactions
  <2>2. /\ AreLines(line') /\ \A j \in Keys \ {k} : line'[j] = line[j]
        /\ line'[k].turn.pc \in {"idle", "taken"}
        /\ InLine(line'[k]) \subseteq InLine(line[k])
    BY <1>2, <2>1, EndedLine
  <2> QED  BY <1>1, <1>4, <2>2
<1> QED  BY <1>3, <1>4

LEMMA SentDoes ==
  ASSUME Shapes, NEW k \in Keys, NEW t, Sent(k, t)
  PROVE  /\ AreLines(line') /\ \A j \in Keys \ {k} : line'[j] = line[j]
         /\ line'[k].turn = IF line[k].turn = IdleTurn THEN Taken(t) ELSE line[k].turn
         /\ InLine(line'[k]) \subseteq InLine(line[k]) \cup {t}
         /\ UNCHANGED <<instance, pruning, failures, cut>>
<1>1. AreLines(line)
  BY DEF Shapes
<1>2. line' = Arrived(line, k, t) /\ UNCHANGED <<instance, pruning, failures, cut>>
  BY DEF Sent
<1> QED  BY <1>1, <1>2, ArrivedLine

LEMMA RestartsDo ==
  ASSUME Restarts
  PROVE  /\ AreLines(line') /\ \A j \in Keys : line'[j] = IdleLine
         /\ pruning' = [p \in Pruners |-> {}] /\ cut'
         /\ UNCHANGED <<instance, failures>>
<1>1. line' = [k \in Keys |-> IdleLine]
  BY DEF Restarts
<1> QED  BY <1>1, NothingWaits DEF Restarts, AreLines

LEMMA ForgetDoes ==
  ASSUME Shapes, NEW p \in Pruners, NEW id \in Ids, Forget(p, id)
  PROVE  /\ id \in pruning[p] /\ pruning' = [pruning EXCEPT ![p] = @ \ {id}]
         /\ UNCHANGED <<line, failures, cut>>
         /\ \/ UNCHANGED instance
            \/ /\ line[Deployment(id)] = IdleLine
               /\ instance' = [instance EXCEPT ![Deployment(id)] = Nothing]
BY DEF Forget

LEMMA ShapesBegin == ServiceInit => Shapes
<1> SUFFICES ASSUME ServiceInit PROVE Shapes
  OBVIOUS
<1>1. /\ instance = [k \in Keys |-> Nothing] /\ line = [k \in Keys |-> IdleLine]
      /\ failures = [id \in Ids |-> <<>>] /\ pruning = [p \in Pruners |-> {}]
      /\ consumed = 0
  BY DEF ServiceInit
<1>2. IdleLine.turn.pc = "idle" /\ IsLine(IdleLine) /\ IsList(<<>>)
  <2>1. IdleLine.turn = IdleTurn
    BY DEF IdleLine
  <2>2. <<>> \in Seq({})
    OBVIOUS
  <2> QED  BY <2>1, <2>2, TurnsDiffer, NothingWaits, Elements
<1> QED  BY <1>1, <1>2 DEF Shapes, IsHeld, AreLines

LEMMA ShapesKept == Shapes /\ [ServiceNext]_serviceVars => Shapes'
<1> SUFFICES ASSUME Shapes, [ServiceNext]_serviceVars PROVE Shapes'
  OBVIOUS
<1> DEFINE Instances == /\ instance' = [k \in Keys |-> instance'[k]]
                        /\ \A k \in Keys : IsHeld(k, instance'[k])
           Busy == \A k \in Keys : line'[k].turn.pc \in {"handling", "landed"}
                                     => instance'[k] # Nothing
           Failures == /\ failures' = [id \in Ids |-> failures'[id]]
                       /\ \A id \in Ids : IsList(failures'[id])
           Prunings == pruning' = [p \in Pruners |-> pruning'[p]]
           Others == Failures /\ Prunings
           Goal == Instances /\ AreLines(line') /\ Busy /\ Others
<1>1. UNCHANGED <<failures, pruning>> => Others
  BY DEF Shapes
<1>2. ASSUME NEW k \in Keys, Others,
             AreLines(line'), \A j \in Keys \ {k} : line'[j] = line[j],
             line'[k].turn.pc \in {"handling", "landed"} => instance'[k] # Nothing,
             \/ UNCHANGED instance
             \/ \E v : IsHeld(k, v) /\ instance' = [instance EXCEPT ![k] = v]
      PROVE  Goal
  <2>1. Instances /\ Busy
    <3>1. /\ instance' = [j \in Keys |-> instance'[j]]
          /\ \A j \in Keys : IsHeld(j, instance'[j])
          /\ \A j \in Keys : line'[j].turn.pc \in {"handling", "landed"}
                               => instance'[j] # Nothing
      BY <1>2, OneKeyMoves
    <3> QED  BY <3>1
  <2> HIDE DEF Instances, Busy, Others
  <2> QED  BY <1>2, <2>1
<1>3. ASSUME NEW k \in Keys, Start(k)
      PROVE  Goal
  <2>1. /\ IsHeld(k, Now(k)) /\ instance' = [instance EXCEPT ![k] = Now(k)]
        /\ AreLines(line') /\ \A j \in Keys \ {k} : line'[j] = line[j]
        /\ UNCHANGED <<failures, pruning>> /\ Now(k) # Nothing
    BY <1>3, StartDoes, StartsWell
  <2>2. instance'[k] # Nothing
    BY <2>1, OneIsWritten
  <2> HIDE DEF Goal, Others
  <2> QED  BY <1>1, <1>2, <2>1, <2>2
<1>4. ASSUME NEW k \in Keys, Throw(k)
      PROVE  Goal
  <2>1. /\ line[k].turn.pc = "handling" /\ UNCHANGED <<instance, failures, pruning>>
        /\ AreLines(line') /\ \A j \in Keys \ {k} : line'[j] = line[j]
    BY <1>4, ThrowDoes
  <2>2. instance'[k] # Nothing
    BY <2>1 DEF Shapes
  <2> HIDE DEF Goal, Others
  <2> QED  BY <1>1, <1>2, <2>1, <2>2
<1>5. ASSUME NEW id \in Ids, Return(Deployment(id))
      PROVE  Goal
  <2> DEFINE k == Deployment(id)
  <2>1. k \in Keys /\ k[1] = "deployments" /\ AreLines(line)
    BY Places DEF Shapes
  <2>2. DeploymentLands(id)
    BY <1>5, Lands
  <2>3. line[k].turn # IdleTurn /\ instance[k] # Nothing /\ UNCHANGED pruning
    <3>1. line[k].turn.pc = "handling" /\ UNCHANGED pruning
      BY <2>2 DEF DeploymentLands
    <3> HIDE DEF k
    <3> QED  BY <2>1, <3>1, PhasesDiffer DEF Shapes
  <2>4. CASE line' = Ended(line, k) /\ UNCHANGED <<instance, failures>>
    <3> HIDE DEF k
    <3>1. AreLines(line') /\ \A j \in Keys \ {k} : line'[j] = line[j]
      BY <2>1, <2>4, EndedLine
    <3> HIDE DEF Goal, Others
    <3> QED  BY <1>1, <1>2, <2>1, <2>3, <2>4, <3>1
  <2>5. ASSUME NEW next, IsDeployment(next), line' = Advanced(line, k, "landed"),
               instance' = [instance EXCEPT ![k] = next],
               \/ failures' = failures
               \/ failures' = [failures EXCEPT ![id] = Append(@, next.values.note)]
        PROVE  Goal
    <3> HIDE DEF k
    <3>1. AreLines(line') /\ \A j \in Keys \ {k} : line'[j] = line[j]
      BY <2>1, <2>3, <2>5, TurnGoesOn
    <3>2. Failures
      <4>1. CASE failures' = failures
        BY <4>1 DEF Shapes
      <4>2. CASE failures' = [failures EXCEPT ![id] = Append(@, next.values.note)]
        <5> DEFINE note == next.values.note
        <5>1. IsList(failures[id]) /\ failures = [i \in Ids |-> failures[i]]
          BY DEF Shapes
        <5>2. IsList(Append(failures[id], note))
          <6>1. failures[id] \in Seq(ToSet(failures[id]))
            BY <5>1 DEF IsList
          <6> HIDE DEF note
          <6>2. Append(failures[id], note) \in Seq(ToSet(failures[id]) \cup {note})
            BY <6>1, ElementsOfAppend
          <6> QED  BY <6>2, Elements
        <5> HIDE DEF note
        <5>3. failures' = [i \in Ids |-> IF i = id THEN Append(failures[id], note)
                                                   ELSE failures[i]]
          BY <4>2, <5>1 DEF note
        <5>4. \A i \in Ids : IsList(failures[i])
          BY DEF Shapes
        <5> QED  BY <5>2, <5>3, <5>4
      <4> QED  BY <2>5, <4>1, <4>2
    <3>3. Prunings
      BY <2>3 DEF Shapes
    <3>4. IsHeld(k, next) /\ next # Nothing
      BY <2>1, <2>5, NothingIsHeld DEF IsHeld
    <3>5. instance'[k] # Nothing
      BY <2>1, <2>5, <3>4, OneIsWritten
    <3>6. Others
      BY <3>2, <3>3
    <3> HIDE DEF Goal, Others
    <3> QED  BY <1>2, <2>1, <2>5, <3>1, <3>4, <3>5, <3>6
  <2> HIDE DEF Goal
  <2> QED  BY <2>2, <2>4, <2>5 DEF DeploymentLands, Advanced
<1>6. ASSUME NEW id \in Ids, Return(Incident(id))
      PROVE  Goal
  <2> DEFINE k == Incident(id)
  <2>1. k \in Keys /\ k[1] # "deployments" /\ AreLines(line)
    BY Places DEF Shapes
  <2>2. IncidentLands(id)
    BY <1>6, Lands
  <2>3. line[k].turn # IdleTurn /\ instance[k] # Nothing /\ UNCHANGED <<failures, pruning>>
    <3>1. line[k].turn.pc = "handling" /\ UNCHANGED <<failures, pruning>>
      BY <2>2 DEF IncidentLands
    <3> HIDE DEF k
    <3> QED  BY <2>1, <3>1, PhasesDiffer DEF Shapes
  <2>4. CASE line' = Ended(line, k) /\ UNCHANGED instance
    <3> HIDE DEF k
    <3>1. AreLines(line') /\ \A j \in Keys \ {k} : line'[j] = line[j]
      BY <2>1, <2>4, EndedLine
    <3> HIDE DEF Goal, Others
    <3> QED  BY <1>1, <1>2, <2>1, <2>3, <2>4, <3>1
  <2>5. ASSUME NEW next, IsIncident(next), line' = Advanced(line, k, "landed"),
               instance' = [instance EXCEPT ![k] = next]
        PROVE  Goal
    <3> HIDE DEF k
    <3>1. AreLines(line') /\ \A j \in Keys \ {k} : line'[j] = line[j]
      BY <2>1, <2>3, <2>5, TurnGoesOn
    <3>2. IsHeld(k, next) /\ next # Nothing
      BY <2>1, <2>5, NothingIsHeld DEF IsHeld
    <3>3. instance'[k] # Nothing
      BY <2>1, <2>5, <3>2, OneIsWritten
    <3> HIDE DEF Goal, Others
    <3> QED  BY <1>1, <1>2, <2>1, <2>3, <2>5, <3>1, <3>2, <3>3
  <2> HIDE DEF Goal
  <2> QED  BY <2>2, <2>4, <2>5 DEF IncidentLands, Advanced
<1>7. ASSUME NEW k \in Keys, Apply(k)
      PROVE  Goal
  <2>1. /\ AreLines(line') /\ UNCHANGED <<instance, failures, pruning>>
        /\ line'[k].turn.pc \in {"idle", "taken"}
    BY <1>7, ApplyDoes
  <2>2. \A j \in Keys \ {k} : line'[j] = line[j] \/ line'[j].turn = line[j].turn
                              \/ line'[j].turn.pc = "taken"
    <3>1. CASE \A j \in Keys \ {k} : line'[j] = line[j]
      BY <3>1
    <3>2. CASE \E id \in Ids : \E t : Reports(k, id, t)
      BY <3>2, TurnsDiffer DEF Reports
    <3> QED  BY <1>7, <3>1, <3>2, ApplyDoes
  <2>3. Busy
    BY <2>1, <2>2 DEF Shapes
  <2>4. Instances
    BY <2>1 DEF Shapes
  <2> HIDE DEF Others, Instances, Busy
  <2> QED  BY <1>1, <2>1, <2>3, <2>4
<1>8. ASSUME NEW k \in Keys, NEW t, Sent(k, t)
      PROVE  Goal
  <2>1. /\ AreLines(line') /\ \A j \in Keys \ {k} : line'[j] = line[j]
        /\ UNCHANGED <<instance, failures, pruning>>
        /\ line'[k].turn = line[k].turn \/ line'[k].turn.pc = "taken"
    BY <1>8, SentDoes, TurnsDiffer
  <2>2. line'[k].turn.pc \in {"handling", "landed"} => instance'[k] # Nothing
    BY <2>1 DEF Shapes
  <2> HIDE DEF Goal, Others
  <2> QED  BY <1>1, <1>2, <2>1, <2>2
<1>9. ASSUME NEW p \in Pruners, AskPrune(p)
      PROVE  Goal
  <2>1. /\ UNCHANGED <<instance, line, failures>>
        /\ \E found : pruning' = [pruning EXCEPT ![p] = found]
    BY <1>9 DEF AskPrune
  <2> QED  BY <2>1 DEF Shapes
<1>10. ASSUME NEW p \in Pruners, NEW id \in Ids, Forget(p, id)
       PROVE  Goal
  <2> DEFINE k == Deployment(id)
  <2>1. k \in Keys /\ IsHeld(k, Nothing) /\ AreLines(line')
    BY <1>10, Places, ForgetDoes DEF IsHeld, Shapes
  <2>2. Others
    BY <1>10, ForgetDoes DEF Shapes
  <2>3. /\ \A j \in Keys \ {k} : line'[j] = line[j]
        /\ line'[k].turn.pc \in {"handling", "landed"} => instance'[k] # Nothing
    <3>1. CASE UNCHANGED instance
      BY <1>10, <2>1, <3>1, ForgetDoes DEF Shapes
    <3>2. CASE line[k] = IdleLine
      <4>1. IdleLine.turn = IdleTurn
        BY DEF IdleLine
      <4> QED  BY <1>10, <3>2, <4>1, ForgetDoes, TurnsDiffer
    <3> QED  BY <1>10, <3>1, <3>2, ForgetDoes
  <2>4. UNCHANGED instance \/ instance' = [instance EXCEPT ![k] = Nothing]
    BY <1>10, ForgetDoes
  <2> HIDE DEF Goal, Others, k
  <2> QED  BY <1>2, <2>1, <2>2, <2>3, <2>4
<1>11. ASSUME Restarts
       PROVE  Goal
  <2>1. IdleLine.turn.pc = "idle"
    BY TurnsDiffer DEF IdleLine
  <2>2. Busy
    BY <1>11, <2>1, RestartsDo
  <2>3. Others
    BY <1>11, RestartsDo DEF Shapes
  <2>4. Instances
    BY <1>11, RestartsDo DEF Shapes
  <2> HIDE DEF Others, Instances, Busy
  <2> QED  BY <1>11, <2>2, <2>3, <2>4, RestartsDo
<1>12. ASSUME UNCHANGED <<instance, line, pruning, failures, cut>>
       PROVE  Goal
  BY <1>12 DEF Shapes
<1>13. \A k \in Keys : Return(k) => Goal
  <2> HIDE DEF Goal
  <2> QED  BY <1>5, <1>6, KeysAreKeys
<1>14. consumed' \in Nat /\ Goal
  <2>1. consumed \in Nat
    BY DEF Shapes
  <2> HIDE DEF Goal
  <2> QED  BY <1>3, <1>4, <1>7, <1>8, <1>9, <1>10, <1>11, <1>12, <1>13, <2>1, ServiceSteps
<1> QED  BY <1>14 DEF Shapes

\* A deployment is deployed at most once in its life (DeployedOncePerLife): what a
\* second deploy asks for is refused by the lifecycle the entity declares, for every
\* number of producers, ids and restarts, and whatever the queue and the requests say.
THEOREM DeployedOnce == ServiceSpec => []DeployedOncePerLife
<1>1. Shapes => DeployedOncePerLife
  <2>1. \A v : IsDeployment(v) => v.values.attempts <= 1
    <3> TAKE v
    <3> HAVE IsDeployment(v)
    <3>1. PICK attempts \in {0, 1} : \E at, region, note :
            v = [state |-> at, values |->
                  [region |-> region, attempts |-> attempts, note |-> note]]
      BY DEF IsDeployment
    <3>2. v.values.attempts = attempts
      BY <3>1
    <3> QED  BY <3>2
  <2> QED  BY <2>1, Places DEF Shapes, IsHeld, DeployedOncePerLife
<1> QED  BY <1>1, ShapesBegin, ShapesKept, PTL DEF ServiceSpec

-----------------------------------------------------------------------------
(* What a prune deletes.                                                   *)

PruneInv == \A p \in Pruners, id \in Ids : id \in pruning[p] => IsRolledBack(id)

\* A deployment that is rolled back stays so, and what is held is kept, unless it
\* is forgotten.
LEMMA DeploymentsStay ==
  ASSUME Shapes, [ServiceNext]_serviceVars, NEW id \in Ids
  PROVE  \/ \E p \in Pruners : Forget(p, id)
         \/ /\ IsRolledBack(id) => IsRolledBack(id)'
            /\ instance[Deployment(id)] # Nothing => instance'[Deployment(id)] # Nothing
<1> DEFINE d == Deployment(id)
           Stays == /\ IsRolledBack(id) => IsRolledBack(id)'
                    /\ instance[d] # Nothing => instance'[d] # Nothing
<1>1. d \in Keys
  BY Places
<1>2. instance'[d] = instance[d] => Stays
  BY DEF IsRolledBack
<1>3. ASSUME NEW k \in Keys, Start(k)
      PROVE  Stays
  <2>1. instance' = [instance EXCEPT ![k] = Now(k)] /\ IsHeld(k, Now(k))
    BY <1>3, StartDoes, StartsWell
  <2>2. instance[d] # Nothing => instance'[d] = instance[d]
    <3> HIDE DEF d
    <3>1. k = d => Now(k) = instance[d] \/ instance[d] = Nothing
      BY <1>1, StartsWell
    <3> QED  BY <1>1, <2>1, <3>1, OneIsWritten
  <2>3. CASE instance[d] = Nothing
    BY <2>3 DEF IsRolledBack
  <2> QED  BY <1>2, <2>2, <2>3
<1>4. ASSUME NEW k \in Keys, k # d, Return(k)
      PROVE  Stays
  <2>1. \/ UNCHANGED instance
        \/ \E v : instance' = [instance EXCEPT ![k] = v]
    BY <1>4, ReturnDoes
  <2>2. instance'[d] = instance[d]
    BY <1>1, <1>4, <2>1 DEF Shapes
  <2> QED  BY <1>2, <2>2
<1>5. ASSUME Return(d)
      PROVE  Stays
  <2>1. DeploymentLands(id)
    BY <1>5, Lands
  <2>2. CASE UNCHANGED instance
    BY <1>2, <2>2
  <2>3. ASSUME NEW next, IsDeployment(next), instance' = [instance EXCEPT ![d] = next],
               instance[d].state = "rolled-back" => next.state = "rolled-back"
        PROVE  Stays
    <3>1. IsHeld(d, next) /\ next # Nothing
      BY <2>3, Places, NothingIsHeld DEF IsHeld
    <3>2. instance'[d] = next
      <4> HIDE DEF d
      <4> QED  BY <1>1, <2>3, <3>1, OneIsWritten
    <3> QED  BY <2>3, <3>1, <3>2 DEF IsRolledBack
  <2> HIDE DEF Stays
  <2> QED  BY <2>1, <2>2, <2>3 DEF DeploymentLands
<1>6. ASSUME NEW p \in Pruners, NEW other \in Ids, other # id, Forget(p, other)
      PROVE  Stays
  <2>1. d # Deployment(other)
    BY <1>6, Places
  <2>2. \/ UNCHANGED instance
        \/ instance' = [instance EXCEPT ![Deployment(other)] = Nothing]
    BY <1>6, ForgetDoes
  <2>3. instance'[d] = instance[d]
    BY <1>1, <2>1, <2>2 DEF Shapes
  <2> QED  BY <1>2, <2>3
<1>7. ASSUME UNCHANGED instance
      PROVE  Stays
  BY <1>2, <1>7
<1>8. \A k \in Keys : Throw(k) \/ Apply(k) => UNCHANGED instance
  BY ThrowDoes, ApplyDoes
<1>9. \A k \in Keys : \A t : Sent(k, t) => UNCHANGED instance
  BY SentDoes
<1>10. \A p \in Pruners : AskPrune(p) => UNCHANGED instance
  BY DEF AskPrune
<1>11. Restarts => UNCHANGED instance
  BY RestartsDo
<1>12. consumed \in Nat
  BY DEF Shapes
<1>13. Stays \/ \E p \in Pruners : Forget(p, id)
  <2> HIDE DEF Stays
  <2> QED  BY <1>3, <1>4, <1>5, <1>6, <1>7, <1>8, <1>9, <1>10, <1>11, <1>12, ServiceSteps
<1> QED  BY <1>13

\* What a prune has found.
LEMMA PruningsStay ==
  ASSUME Shapes, [ServiceNext]_serviceVars, NEW p \in Pruners
  PROVE  \/ pruning'[p] = pruning[p]
         \/ pruning'[p] = {}
         \/ UNCHANGED instance /\ \A id \in pruning'[p] : IsRolledBack(id)
         \/ \E id \in Ids : Forget(p, id) /\ pruning'[p] = pruning[p] \ {id}
<1> DEFINE Goal == \/ pruning'[p] = pruning[p]
                   \/ pruning'[p] = {}
                   \/ UNCHANGED instance /\ \A id \in pruning'[p] : IsRolledBack(id)
                   \/ \E id \in Ids : Forget(p, id) /\ pruning'[p] = pruning[p] \ {id}
<1>1. pruning = [q \in Pruners |-> pruning[q]] /\ consumed \in Nat
  BY DEF Shapes
<1>2. UNCHANGED pruning => Goal
  OBVIOUS
<1>3. ASSUME NEW q \in Pruners, AskPrune(q)
      PROVE  Goal
  <2>1. PICK found : /\ found \subseteq {id \in Ids : IsRolledBack(id)}
                     /\ pruning' = [pruning EXCEPT ![q] = found] /\ UNCHANGED instance
    BY <1>3 DEF AskPrune
  <2>2. pruning'[p] = IF p = q THEN found ELSE pruning[p]
    BY <1>1, <2>1
  <2> QED  BY <2>1, <2>2
<1>4. ASSUME NEW q \in Pruners, NEW id \in Ids, Forget(q, id)
      PROVE  Goal
  <2>1. pruning' = [pruning EXCEPT ![q] = @ \ {id}]
    BY <1>4, ForgetDoes
  <2>2. pruning'[p] = IF p = q THEN pruning[q] \ {id} ELSE pruning[p]
    BY <1>1, <2>1
  <2> QED  BY <1>4, <2>2
<1>5. Restarts => Goal
  BY RestartsDo
<1>6. \A k \in Keys : Start(k) \/ Throw(k) \/ Return(k) \/ Apply(k) => UNCHANGED pruning
  BY StartDoes, ThrowDoes, ReturnDoes, ApplyDoes
<1>7. \A k \in Keys : \A t : Sent(k, t) => UNCHANGED pruning
  BY SentDoes
<1>8. Goal
  <2> HIDE DEF Goal
  <2> QED  BY <1>1, <1>2, <1>3, <1>4, <1>5, <1>6, <1>7, ServiceSteps
<1> QED  BY <1>8

\* While no two prunes are under way, what a prune deletes is rolled back at the moment
\* it is deleted (PruneTakesOnlyFinished), however long ago the query was answered: no
\* handler and no producer takes a deployment out of that state, and only a prune
\* could make room for another deployment under the same id.
THEOREM PruneIsSafe ==
  ASSUME \A p, q \in Pruners : p = q
  PROVE  ServiceSpec => PruneTakesOnlyFinished
<1> DEFINE Taking == \A id \in Ids :
             instance[Deployment(id)] # Nothing /\ instance'[Deployment(id)] = Nothing
               => IsRolledBack(id)
<1>1. ServiceInit => PruneInv
  BY DEF ServiceInit, PruneInv
<1>2. Shapes /\ PruneInv /\ [ServiceNext]_serviceVars => Taking
  <2> SUFFICES ASSUME Shapes, PruneInv, [ServiceNext]_serviceVars, NEW id \in Ids,
                      instance[Deployment(id)] # Nothing, instance'[Deployment(id)] = Nothing
               PROVE  IsRolledBack(id)
    OBVIOUS
  <2>1. PICK p \in Pruners : Forget(p, id)
    BY DeploymentsStay
  <2> QED  BY <2>1, ForgetDoes DEF PruneInv
<1>3. Shapes /\ PruneInv /\ [ServiceNext]_serviceVars => PruneInv'
  <2> SUFFICES ASSUME Shapes, PruneInv, [ServiceNext]_serviceVars,
                      NEW p \in Pruners, NEW id \in Ids, id \in pruning'[p]
               PROVE  IsRolledBack(id)'
    BY DEF PruneInv
  <2>1. CASE UNCHANGED instance /\ IsRolledBack(id)
    BY <2>1 DEF IsRolledBack
  <2>2. ASSUME id \in pruning[p], ~\E q \in Pruners : Forget(q, id)
        PROVE  IsRolledBack(id)'
    BY <2>2, DeploymentsStay DEF PruneInv
  <2>3. ASSUME NEW q \in Pruners, Forget(q, id)
        PROVE  FALSE
    <3>1. p = q /\ pruning'[p] = pruning[p] \ {id}
      BY <2>3, ForgetDoes DEF Shapes
    <3> QED  BY <3>1
  <2> QED  BY <2>1, <2>2, <2>3, PruningsStay
<1> QED  BY <1>1, <1>2, <1>3, ShapesBegin, ShapesKept, PTL
         DEF ServiceSpec, PruneTakesOnlyFinished

-----------------------------------------------------------------------------
(* What an incident tells: the deployment is held as d, the incident as i, *)
(* dl and il are their lines, and f is what the deployment failed with.    *)

ReasonOf(i) == IF i = Nothing THEN "" ELSE i.values.reason

\* The first failure is committed, and its incident is not sent for yet.
FirstFails(d, i, dl, il, f) ==
  /\ i = Nothing /\ il = IdleLine
  /\ dl.turn.pc = "landed"
  /\ d # Nothing /\ d.state = "failed" /\ d.values.note = Head(f)

\* The trigger that opens the incident is the first of its line.
FirstOpens(i, il, f) ==
  /\ il.turn.pc \in {"taken", "handling"}
  /\ il.turn.trigger.type = "open" /\ il.turn.trigger.reason = Head(f)
  /\ \/ i = Nothing /\ il.turn.pc = "taken"
     \/ i # Nothing /\ i.state = "open" /\ i.values.reason = ""

Tells(d, i, dl, il, f) ==
  IF f = <<>> THEN i = Nothing /\ il = IdleLine
  ELSE FirstFails(d, i, dl, il, f) \/ FirstOpens(i, il, f) \/ ReasonOf(i) = Head(f)

\* An incident is only ever told of failures there were.
IsToldOf(t, f) ==
  t.type \in {"open", "acknowledge", "resolve"} /\ (t.type = "open" => t.reason \in ToSet(f))

ToldOf(d, i, dl, il, f, stopped) ==
  /\ IsList(f) /\ "" \notin ToSet(f)
  /\ d # Nothing /\ d.state = "failed" => d.values.note \in ToSet(f)
  /\ \A t \in InLine(il) : IsToldOf(t, f)
  /\ ReasonOf(i) \in {""} \cup ToSet(f)
  /\ stopped \/ Tells(d, i, dl, il, f)

LEMMA HeadsTell ==
  \A f : IsList(f) /\ f # <<>> /\ "" \notin ToSet(f) => Head(f) \in ToSet(f) /\ Head(f) # ""
BY TailsAreParts

LEMMA NothingFailed == ToSet(<<>>) = {}
BY DEF ToSet

LEMMA NothingIsSaid == ReasonOf(Nothing) = ""
BY DEF ReasonOf

LEMMA FailuresGrow ==
  ASSUME NEW f, IsList(f), NEW x
  PROVE  /\ IsList(Append(f, x)) /\ ToSet(Append(f, x)) = ToSet(f) \cup {x}
         /\ Append(f, x) # <<>>
         /\ Head(Append(f, x)) = IF f = <<>> THEN x ELSE Head(f)
<1>1. f \in Seq(ToSet(f))
  BY DEF IsList
<1> DEFINE S == ToSet(f) \cup {x}
<1>2. Append(f, x) \in Seq(S) /\ ToSet(Append(f, x)) = S
  BY <1>1, ElementsOfAppend
<1>3. Append(f, x) # <<>> /\ Head(Append(f, x)) = IF f = <<>> THEN x ELSE Head(f)
  <2>0. f \in Seq(S) /\ x \in S
    <3>1. Seq(ToSet(f)) \subseteq Seq(S)
      OBVIOUS
    <3> QED  BY <1>1, <3>1
  <2> HIDE DEF S
  <2>1. Append(f, x) # <<>> /\ Len(Append(f, x)) = Len(f) + 1
    BY <2>0, AppendProperties
  <2>2. Append(f, x)[1] = IF f = <<>> THEN x ELSE f[1]
    BY <2>0
  <2> QED  BY <1>1, <1>2, <2>1, <2>2
<1> HIDE DEF S
<1>4. IsList(Append(f, x))
  BY <1>2, Elements
<1> QED  BY <1>2, <1>3, <1>4 DEF S

\* The deployment goes on, without failing and without having failed.
LEMMA DeploymentGoesOn ==
  ASSUME NEW d, NEW i, NEW dl, NEW il, NEW f, NEW stopped, ToldOf(d, i, dl, il, f, stopped),
         NEW e, NEW el, e # Nothing /\ e.state = "failed" => e.values.note \in ToSet(f),
         \/ dl.turn.pc # "landed"
         \/ d.state # "failed"
         \/ e = d /\ el.turn = dl.turn
  PROVE  ToldOf(e, i, el, il, f, stopped)
BY DEF ToldOf, Tells, FirstFails

\* The deployment fails.
LEMMA DeploymentFails ==
  ASSUME NEW d, NEW i, NEW dl, NEW il, NEW f, NEW stopped, ToldOf(d, i, dl, il, f, stopped),
         NEW e, NEW el, e # Nothing, e.state = "failed", e.values.note # "",
         dl.turn.pc = "handling", el.turn.pc = "landed"
  PROVE  ToldOf(e, i, el, il, Append(f, e.values.note), stopped)
<1> DEFINE note == e.values.note
           g == Append(f, note)
<1>1. IsList(f)
  BY DEF ToldOf
<1>2. /\ IsList(g) /\ ToSet(g) = ToSet(f) \cup {note}
      /\ g # <<>> /\ Head(g) = IF f = <<>> THEN note ELSE Head(f)
  <2> HIDE DEF note
  <2> QED  BY <1>1, FailuresGrow
<1>3. ~FirstFails(d, i, dl, il, f)
  BY DEF FirstFails
<1>4. ASSUME Tells(d, i, dl, il, f)
      PROVE  Tells(e, i, el, il, g)
  <2>1. CASE f = <<>>
    <3>1. FirstFails(e, i, el, il, g)
      BY <1>2, <1>4, <2>1 DEF Tells, FirstFails
    <3> HIDE DEF g
    <3> QED  BY <1>2, <3>1 DEF Tells
  <2>2. CASE f # <<>> /\ FirstOpens(i, il, f)
    <3> HIDE DEF g
    <3> QED  BY <1>2, <2>2 DEF Tells, FirstOpens
  <2>3. CASE f # <<>> /\ ReasonOf(i) = Head(f)
    <3> HIDE DEF g
    <3> QED  BY <1>2, <2>3 DEF Tells
  <2> QED  BY <1>3, <1>4, <2>1, <2>2, <2>3 DEF Tells
<1> HIDE DEF g
<1>5. \A t : IsToldOf(t, f) => IsToldOf(t, g)
  BY <1>2 DEF IsToldOf
<1>6. ToldOf(e, i, el, il, g, stopped)
  BY <1>2, <1>4, <1>5 DEF ToldOf
<1> QED  BY <1>6 DEF g

\* The failure is reported.
LEMMA IncidentIsSentFor ==
  ASSUME NEW d, NEW i, NEW dl, NEW il, NEW f, NEW stopped, ToldOf(d, i, dl, il, f, stopped),
         d # Nothing, d.state = "failed",
         NEW el, NEW jl, NEW t, t.type = "open", t.reason = d.values.note,
         jl.turn = IF il.turn = IdleTurn THEN Taken(t) ELSE il.turn,
         InLine(jl) \subseteq InLine(il) \cup {t}
  PROVE  ToldOf(d, i, el, jl, f, stopped)
<1>1. d.values.note \in ToSet(f) /\ f # <<>>
  BY NothingFailed DEF ToldOf
<1>2. IsToldOf(t, f)
  BY <1>1 DEF IsToldOf
<1>3. ASSUME Tells(d, i, dl, il, f)
      PROVE  Tells(d, i, el, jl, f)
  <2>1. CASE FirstFails(d, i, dl, il, f)
    <3>1. jl.turn = Taken(t) /\ i = Nothing /\ t.reason = Head(f)
      BY <2>1 DEF FirstFails, IdleLine
    <3>2. jl.turn.pc = "taken" /\ jl.turn.trigger = t
      BY <3>1, TurnsDiffer
    <3>3. FirstOpens(i, jl, f)
      BY <3>1, <3>2 DEF FirstOpens
    <3> QED  BY <1>1, <3>3 DEF Tells
  <2>2. CASE FirstOpens(i, il, f)
    <3>1. jl.turn = il.turn
      BY <2>2, TurnsDiffer DEF FirstOpens
    <3> QED  BY <1>1, <2>2, <3>1 DEF Tells, FirstOpens
  <2>3. CASE ReasonOf(i) = Head(f)
    BY <1>1, <2>3 DEF Tells
  <2> QED  BY <1>1, <1>3, <2>1, <2>2, <2>3 DEF Tells
<1> QED  BY <1>2, <1>3 DEF ToldOf

\* The line of the incident goes on, and the incident with it.
LEMMA IncidentGoesOn ==
  ASSUME NEW d, NEW i, NEW dl, NEW il, NEW f, NEW stopped, ToldOf(d, i, dl, il, f, stopped),
         il.turn # IdleTurn, NEW j, NEW jl, InLine(jl) \subseteq InLine(il),
         ReasonOf(j) \in {""} \cup ToSet(f),
         ReasonOf(i) # "" => ReasonOf(j) = ReasonOf(i),
         FirstOpens(i, il, f) => FirstOpens(j, jl, f) \/ ReasonOf(j) = Head(f)
  PROVE  ToldOf(d, j, dl, jl, f, stopped)
<1>1. ASSUME Tells(d, i, dl, il, f)
      PROVE  Tells(d, j, dl, jl, f)
  <2>1. f # <<>> /\ ~FirstFails(d, i, dl, il, f)
    <3>1. IdleLine.turn = IdleTurn
      BY DEF IdleLine
    <3> QED  BY <1>1, <3>1 DEF Tells, FirstFails
  <2>2. Head(f) # ""
    BY <2>1, HeadsTell DEF ToldOf
  <2> QED  BY <1>1, <2>1, <2>2 DEF Tells
<1> QED  BY <1>1 DEF ToldOf

\* Somebody works on an incident that is open.
LEMMA IncidentIsSent ==
  ASSUME NEW d, NEW i, NEW dl, NEW il, NEW f, NEW stopped, ToldOf(d, i, dl, il, f, stopped),
         i # Nothing, NEW jl, NEW t, t.type \in {"acknowledge", "resolve"},
         jl.turn = IF il.turn = IdleTurn THEN Taken(t) ELSE il.turn,
         InLine(jl) \subseteq InLine(il) \cup {t}
  PROVE  ToldOf(d, i, dl, jl, f, stopped)
<1>1. IsToldOf(t, f)
  BY DEF IsToldOf
<1>2. ASSUME Tells(d, i, dl, il, f)
      PROVE  Tells(d, i, dl, jl, f)
  <2>1. f # <<>> /\ ~FirstFails(d, i, dl, il, f)
    BY <1>2 DEF Tells, FirstFails
  <2>2. CASE FirstOpens(i, il, f)
    <3>1. jl.turn = il.turn
      BY <2>2, TurnsDiffer DEF FirstOpens
    <3> QED  BY <2>1, <2>2, <3>1 DEF Tells, FirstOpens
  <2> QED  BY <1>2, <2>1, <2>2 DEF Tells
<1> QED  BY <1>1, <1>2 DEF ToldOf

\* The process stops.
LEMMA IncidentIsCut ==
  ASSUME NEW d, NEW i, NEW dl, NEW il, NEW f, NEW stopped, ToldOf(d, i, dl, il, f, stopped),
         NEW el
  PROVE  ToldOf(d, i, el, IdleLine, f, TRUE)
BY NothingWaits DEF ToldOf

Told(id) ==
  ToldOf(instance[Deployment(id)], instance[Incident(id)],
         line[Deployment(id)], line[Incident(id)], failures[id], cut)

LEMMA ElsewhereTold ==
  ASSUME NEW id \in Ids, Told(id),
         instance'[Deployment(id)] = instance[Deployment(id)],
         instance'[Incident(id)] = instance[Incident(id)],
         line'[Deployment(id)] = line[Deployment(id)],
         line'[Incident(id)] = line[Incident(id)],
         failures'[id] = failures[id], cut' = cut
  PROVE  Told(id)'
BY DEF Told

LEMMA LandedLine ==
  ASSUME AreLines(line), NEW k \in Keys, line[k].turn # IdleTurn,
         line' = Advanced(line, k, "landed")
  PROVE  /\ \A j \in Keys \ {k} : line'[j] = line[j]
         /\ line'[k].turn.pc = "landed" /\ InLine(line'[k]) = InLine(line[k])
<1> DEFINE ls == line'
<1>1. ls = Advanced(line, k, "landed") /\ "landed" \in {"taken", "handling", "landed"}
  OBVIOUS
<1> HIDE DEF ls
<1>2. /\ \A j \in Keys \ {k} : ls[j] = line[j]
      /\ ls[k].turn.pc = "landed" /\ InLine(ls[k]) = InLine(line[k])
  BY <1>1, TurnGoesOn
<1> QED  BY <1>2 DEF ls

LEMMA StartTold ==
  ASSUME Shapes, NEW k \in Keys, Start(k), NEW id \in Ids, Told(id)
  PROVE  Told(id)'
<1> DEFINE d == Deployment(id)
           i == Incident(id)
<1>1. /\ d \in Keys /\ i \in Keys /\ d # i
      /\ d[1] = "deployments" /\ i[1] = "incidents"
  BY Places
<1>2. /\ line[k].turn.pc = "taken" /\ line[k].turn # IdleTurn
      /\ \A j \in Keys \ {k} : line'[j] = line[j] /\ instance'[j] = instance[j]
      /\ instance'[k] = Now(k) /\ Now(k) # Nothing
      /\ UNCHANGED <<failures, cut>>
  <2>1. /\ line[k].turn.pc = "taken" /\ \A j \in Keys \ {k} : line'[j] = line[j]
        /\ instance' = [instance EXCEPT ![k] = Now(k)] /\ IsHeld(k, Now(k))
        /\ UNCHANGED <<failures, cut>> /\ Now(k) # Nothing
    BY StartDoes, StartsWell
  <2>2. instance'[k] = Now(k) /\ \A j \in Keys \ {k} : instance'[j] = instance[j]
    BY <2>1, OneIsWritten
  <2>3. line[k].turn # IdleTurn
    BY <2>1, PhasesDiffer
  <2> QED  BY <2>1, <2>2, <2>3
<1>3. CASE k = d
  <2>1. Now(k).state = "failed" => Now(k) = instance[k]
    BY <1>1, <1>3, StartsWell
  <2>2. Now(k) # Nothing /\ Now(k).state = "failed" => Now(k).values.note \in ToSet(failures[id])
    BY <1>2, <1>3, <2>1 DEF Told, ToldOf
  <2> HIDE DEF d, i
  <2>3. ToldOf(Now(k), instance[i], line'[d], line[i], failures[id], cut)
    BY <1>2, <1>3, <2>2, DeploymentGoesOn DEF Told, d, i
  <2>4. line'[i] = line[i] /\ instance'[i] = instance[i] /\ instance'[d] = Now(k)
    BY <1>1, <1>2, <1>3
  <2> QED  BY <1>2, <2>3, <2>4 DEF Told, d, i
<1>4. CASE k = i
  <2> DEFINE j == Now(k)
  <2>1. \/ instance[k] # Nothing /\ j = instance[k]
        \/ instance[k] = Nothing /\ j = [state |-> "open", values |-> [reason |-> ""]]
    BY <1>1, <1>4, StartsWell
  <2>2. /\ ReasonOf(j) = ReasonOf(instance[k]) /\ j # Nothing
        /\ instance[k] = Nothing => j.state = "open" /\ j.values.reason = ""
    <3>1. ASSUME NEW v, v = [state |-> "open", values |-> [reason |-> ""]]
          PROVE  v.state = "open" /\ v.values.reason = ""
      BY <3>1
    <3>2. instance[k] = Nothing => j.state = "open" /\ j.values.reason = ""
      <4> HIDE DEF j
      <4> QED  BY <2>1, <3>1
    <3> HIDE DEF j
    <3>3. j # Nothing
      BY <1>2 DEF j
    <3> QED  BY <2>1, <3>2, <3>3 DEF ReasonOf
  <2>3. \A t : t.type \in {"open", "acknowledge", "resolve"} => t.type \in Definition[k[1]].triggers
    <3>1. Definition["incidents"].triggers = {"open", "acknowledge", "resolve"}
      BY DEF Definition
    <3> QED  BY <1>1, <1>4, <3>1
  <2>4. line[k].turn.trigger.type \in Definition[k[1]].triggers
    <3>1. line[k].turn.trigger \in InLine(line[k])
      BY <1>2 DEF InLine
    <3>2. \A t \in InLine(line[i]) : t.type \in {"open", "acknowledge", "resolve"}
      BY DEF Told, ToldOf, IsToldOf
    <3> HIDE DEF i
    <3> QED  BY <1>4, <2>3, <3>1, <3>2
  <2>5. /\ line'[k].turn.pc = "handling" /\ line'[k].turn.trigger = line[k].turn.trigger
        /\ InLine(line'[k]) \subseteq InLine(line[k])
    BY <2>4, StartDoes
  <2> HIDE DEF d, i, j
  <2>6. FirstOpens(instance[k], line[k], failures[id]) => FirstOpens(j, line'[k], failures[id])
    BY <2>1, <2>2, <2>5 DEF FirstOpens
  <2>7. ToldOf(instance[d], instance[k], line[d], line[k], failures[id], cut)
    BY <1>4 DEF Told, d, i
  <2>8. ReasonOf(j) \in {""} \cup ToSet(failures[id])
    BY <2>2, <2>7 DEF ToldOf
  <2>9. ToldOf(instance[d], j, line[d], line'[k], failures[id], cut)
    BY <1>2, <2>2, <2>5, <2>6, <2>7, <2>8, IncidentGoesOn
  <2>10. line'[d] = line[d] /\ instance'[d] = instance[d] /\ instance'[i] = j
    BY <1>1, <1>2, <1>4 DEF j
  <2> QED  BY <1>2, <1>4, <2>9, <2>10 DEF Told, d, i
<1>5. CASE k \notin {d, i}
  <2> HIDE DEF d, i
  <2>1. /\ line'[d] = line[d] /\ instance'[d] = instance[d]
        /\ line'[i] = line[i] /\ instance'[i] = instance[i]
    BY <1>1, <1>2, <1>5
  <2> QED  BY <1>2, <2>1, ElsewhereTold DEF d, i
<1> QED  BY <1>3, <1>4, <1>5

LEMMA ThrowTold ==
  ASSUME Shapes, NEW k \in Keys, Throw(k), NEW id \in Ids, Told(id)
  PROVE  Told(id)'
<1> DEFINE d == Deployment(id)
           i == Incident(id)
<1>1. /\ d \in Keys /\ i \in Keys /\ d # i /\ i[1] # "deployments"
  BY Places
<1>2. /\ line[k].turn.pc = "handling" /\ \A j \in Keys \ {k} : line'[j] = line[j]
      /\ k[1] = "deployments" /\ UNCHANGED <<instance, failures, cut>>
  BY ThrowDoes
<1>3. CASE k = d
  <2> HIDE DEF d, i
  <2>1. ToldOf(instance[d], instance[i], line[d], line[i], failures[id], cut)
    BY DEF Told, d, i
  <2>2. instance[d] # Nothing /\ instance[d].state = "failed" =>
          instance[d].values.note \in ToSet(failures[id])
    BY <2>1 DEF ToldOf
  <2>3. ToldOf(instance[d], instance[i], line'[d], line[i], failures[id], cut)
    BY <1>2, <1>3, <2>1, <2>2, DeploymentGoesOn
  <2>4. line'[i] = line[i]
    BY <1>1, <1>2, <1>3
  <2> QED  BY <1>2, <2>3, <2>4 DEF Told, d, i
<1>4. CASE k \notin {d, i}
  <2> HIDE DEF d, i
  <2>1. line'[d] = line[d] /\ line'[i] = line[i]
    BY <1>1, <1>2, <1>4
  <2> QED  BY <1>2, <2>1, ElsewhereTold DEF d, i
<1> QED  BY <1>1, <1>2, <1>3, <1>4

LEMMA ForgetTold ==
  ASSUME Shapes, NEW p \in Pruners, NEW other \in Ids, Forget(p, other), NEW id \in Ids, Told(id)
  PROVE  Told(id)'
<1> DEFINE d == Deployment(id)
           i == Incident(id)
<1>1. /\ d \in Keys /\ i \in Keys /\ i # Deployment(other)
      /\ Deployment(other) \in Keys
  BY Places
<1>2. /\ UNCHANGED <<line, failures, cut>>
      /\ \/ UNCHANGED instance
         \/ /\ line[Deployment(other)] = IdleLine
            /\ instance' = [instance EXCEPT ![Deployment(other)] = Nothing]
  BY ForgetDoes
<1>3. instance'[i] = instance[i]
  BY <1>1, <1>2 DEF Shapes
<1>4. CASE instance'[d] = instance[d]
  BY <1>2, <1>3, <1>4, ElsewhereTold
<1>5. CASE instance'[d] # instance[d]
  <2>1. d = Deployment(other) /\ line[d] = IdleLine /\ instance'[d] = Nothing
    BY <1>1, <1>2, <1>5 DEF Shapes
  <2>2. line[d].turn.pc # "landed"
    BY <2>1, TurnsDiffer DEF IdleLine
  <2> HIDE DEF d, i
  <2>3. ToldOf(instance[d], instance[i], line[d], line[i], failures[id], cut)
    BY DEF Told, d, i
  <2>4. ToldOf(Nothing, instance[i], line[d], line[i], failures[id], cut)
    BY <2>2, <2>3, DeploymentGoesOn
  <2> QED  BY <1>2, <1>3, <2>1, <2>4 DEF Told, d, i
<1> QED  BY <1>4, <1>5

LEMMA RestartTold ==
  ASSUME Restarts, NEW id \in Ids, Told(id)
  PROVE  Told(id)'
<1>1. /\ line'[Deployment(id)] = IdleLine /\ line'[Incident(id)] = IdleLine
      /\ UNCHANGED <<instance, failures>> /\ cut' = TRUE
  BY RestartsDo, Places DEF Restarts
<1>2. ToldOf(instance[Deployment(id)], instance[Incident(id)], IdleLine, IdleLine,
             failures[id], TRUE)
  BY IncidentIsCut DEF Told
<1> QED  BY <1>1, <1>2 DEF Told

LEMMA SentTold ==
  ASSUME Shapes, NEW k \in Keys, NEW t, Sent(k, t), NEW id \in Ids, Told(id)
  PROVE  Told(id)'
<1> DEFINE d == Deployment(id)
           i == Incident(id)
<1>1. /\ d \in Keys /\ i \in Keys /\ d # i /\ i[1] # "deployments"
  BY Places
<1>2. /\ \A j \in Keys \ {k} : line'[j] = line[j]
      /\ line'[k].turn = IF line[k].turn = IdleTurn THEN Taken(t) ELSE line[k].turn
      /\ InLine(line'[k]) \subseteq InLine(line[k]) \cup {t}
      /\ UNCHANGED <<instance, failures, cut>>
      /\ \/ k[1] = "deployments"
         \/ t.type \in {"acknowledge", "resolve"} /\ instance[k] # Nothing
  <2>1. /\ \A j \in Keys \ {k} : line'[j] = line[j]
        /\ line'[k].turn = IF line[k].turn = IdleTurn THEN Taken(t) ELSE line[k].turn
        /\ InLine(line'[k]) \subseteq InLine(line[k]) \cup {t}
        /\ UNCHANGED <<instance, failures, cut>>
    BY SentDoes
  <2>2. \/ k[1] = "deployments"
        \/ t.type \in {"acknowledge", "resolve"} /\ instance[k] # Nothing
    BY DEF Sent
  <2> QED  BY <2>1, <2>2
<1> HIDE DEF d, i
<1>3. ToldOf(instance[d], instance[i], line[d], line[i], failures[id], cut)
  BY DEF Told, d, i
<1>4. CASE k = d
  <2>1. instance[d] # Nothing /\ instance[d].state = "failed" =>
          instance[d].values.note \in ToSet(failures[id])
    BY <1>3 DEF ToldOf
  <2>2. line[d].turn.pc # "landed" \/ line'[d].turn = line[d].turn
    BY <1>2, <1>4, TurnsDiffer
  <2>3. ToldOf(instance[d], instance[i], line'[d], line[i], failures[id], cut)
    BY <1>3, <2>1, <2>2, DeploymentGoesOn
  <2>4. line'[i] = line[i]
    BY <1>1, <1>2, <1>4
  <2> QED  BY <1>2, <2>3, <2>4 DEF Told, d, i
<1>5. CASE k = i
  <2>1. ToldOf(instance[d], instance[i], line[d], line'[i], failures[id], cut)
    BY <1>1, <1>2, <1>3, <1>5, IncidentIsSent
  <2>2. line'[d] = line[d]
    BY <1>1, <1>2, <1>5
  <2> QED  BY <1>2, <2>1, <2>2 DEF Told, d, i
<1>6. CASE k \notin {d, i}
  <2>1. line'[d] = line[d] /\ line'[i] = line[i]
    BY <1>1, <1>2, <1>6
  <2> QED  BY <1>2, <2>1, ElsewhereTold DEF d, i
<1> QED  BY <1>4, <1>5, <1>6

LEMMA ApplyTold ==
  ASSUME Shapes, NEW k \in Keys, Apply(k), NEW id \in Ids, Told(id)
  PROVE  Told(id)'
<1> DEFINE d == Deployment(id)
           i == Incident(id)
<1>1. /\ d \in Keys /\ i \in Keys /\ d # i
      /\ d[1] = "deployments" /\ i[1] # "deployments"
  BY Places
<1>2. /\ line[k].turn.pc = "landed" /\ line[k].turn # IdleTurn
      /\ UNCHANGED <<instance, failures, cut>>
      /\ InLine(line'[k]) \subseteq InLine(line[k])
      /\ instance[k] # Nothing
  <2>1. /\ line[k].turn.pc = "landed"
        /\ UNCHANGED <<instance, failures, cut>>
        /\ InLine(line'[k]) \subseteq InLine(line[k])
    BY ApplyDoes
  <2>2. line[k].turn # IdleTurn /\ instance[k] # Nothing
    BY <2>1, PhasesDiffer DEF Shapes
  <2> QED  BY <2>1, <2>2
<1>3. ToldOf(instance[d], instance[i], line[d], line[i], failures[id], cut)
  BY DEF Told
<1>4. ASSUME \A j \in Keys \ {k} : line'[j] = line[j],
             ~(k[1] = "deployments" /\ instance[k].state = "failed")
      PROVE  Told(id)'
  <2> HIDE DEF d, i
  <2>1. CASE k = d
    <3>1. ToldOf(instance[d], instance[i], line'[d], line[i], failures[id], cut)
      BY <1>1, <1>3, <1>4, <2>1, DeploymentGoesOn
    <3>2. line'[i] = line[i]
      BY <1>1, <1>4, <2>1
    <3> QED  BY <1>2, <3>1, <3>2 DEF Told, d, i
  <2>2. CASE k = i
    <3>1. ~FirstOpens(instance[i], line[i], failures[id])
      BY <1>2, <2>2 DEF FirstOpens
    <3>2. ReasonOf(instance[i]) \in {""} \cup ToSet(failures[id])
      BY <1>3 DEF ToldOf
    <3>3. ToldOf(instance[d], instance[i], line[d], line'[i], failures[id], cut)
      BY <1>2, <1>3, <2>2, <3>1, <3>2, IncidentGoesOn
    <3>4. line'[d] = line[d]
      BY <1>1, <1>4, <2>2
    <3> QED  BY <1>2, <3>3, <3>4 DEF Told, d, i
  <2>3. CASE k \notin {d, i}
    <3>1. line'[d] = line[d] /\ line'[i] = line[i]
      BY <1>1, <1>4, <2>3
    <3> QED  BY <1>2, <3>1, ElsewhereTold DEF d, i
  <2> QED  BY <2>1, <2>2, <2>3
<1>5. ASSUME NEW other \in Ids, NEW t, Reports(k, other, t)
      PROVE  Told(id)'
  <2>1. CASE other = id
    <3>1. /\ k = d /\ instance[d].state = "failed" /\ instance[d] # Nothing
          /\ t.type = "open" /\ t.reason = instance[d].values.note
          /\ line'[i].turn = IF line[i].turn = IdleTurn THEN Taken(t) ELSE line[i].turn
          /\ InLine(line'[i]) \subseteq InLine(line[i]) \cup {t}
      BY <1>2, <1>5, <2>1 DEF Reports
    <3> HIDE DEF d, i
    <3>2. ToldOf(instance[d], instance[i], line'[d], line'[i], failures[id], cut)
      BY <1>3, <3>1, IncidentIsSentFor
    <3> QED  BY <1>2, <3>2 DEF Told, d, i
  <2>2. CASE other # id
    <3>1. d \notin {k, Incident(other)} /\ i \notin {k, Incident(other)}
      BY <1>5, <2>2, Places DEF Reports
    <3> HIDE DEF d, i
    <3>2. line'[d] = line[d] /\ line'[i] = line[i]
      BY <1>1, <1>5, <3>1 DEF Reports
    <3> QED  BY <1>2, <3>2, ElsewhereTold DEF d, i
  <2> QED  BY <2>1, <2>2
<1> QED  BY <1>4, <1>5, ApplyDoes

LEMMA ReturnTold ==
  ASSUME Shapes, NEW k \in Keys, Return(k), NEW id \in Ids, Told(id)
  PROVE  Told(id)'
<1>1. ASSUME NEW other \in Ids, k = Deployment(other)
      PROVE  Told(id)'
  <2> DEFINE d == Deployment(id)
             i == Incident(id)
  <2>1. /\ d \in Keys /\ i \in Keys /\ i # k /\ AreLines(line)
        /\ d = k <=> other = id
    BY <1>1, Places DEF Shapes
  <2>2. DeploymentLands(other)
    BY <1>1, Lands
  <2>3. line[k].turn.pc = "handling" /\ line[k].turn # IdleTurn /\ UNCHANGED cut
        /\ instance[k] # Nothing
    <3>1. line[k].turn.pc = "handling" /\ UNCHANGED cut
      BY <1>1, <2>2 DEF DeploymentLands
    <3> QED  BY <3>1, PhasesDiffer DEF Shapes
  <2>4. ToldOf(instance[d], instance[i], line[d], line[i], failures[id], cut)
    BY DEF Told
  <2>5. CASE line' = Ended(line, k) /\ UNCHANGED <<instance, failures>>
    <3>1. \A j \in Keys \ {k} : line'[j] = line[j]
      BY <2>1, <2>5, EndedLine
    <3> HIDE DEF d, i
    <3>2. line'[i] = line[i]
      BY <2>1, <3>1
    <3>3. ToldOf(instance[d], instance[i], line'[d], line[i], failures[id], cut)
      <4>1. CASE d = k
        <5>1. instance[d] # Nothing /\ instance[d].state = "failed" =>
                instance[d].values.note \in ToSet(failures[id])
          BY <2>4 DEF ToldOf
        <5> QED  BY <2>3, <2>4, <4>1, <5>1, DeploymentGoesOn
      <4>2. CASE d # k
        <5>1. line'[d] = line[d]
          BY <2>1, <3>1, <4>2
        <5> QED  BY <2>4, <5>1
      <4> QED  BY <4>1, <4>2
    <3> QED  BY <2>3, <2>5, <3>2, <3>3 DEF Told, d, i
  <2>6. ASSUME NEW next, IsDeployment(next),
               next.state = "failed" =>
                 IF instance[k].state = "failed" THEN next.values = instance[k].values
                                                 ELSE next.values.note # "",
               line' = Advanced(line, k, "landed"),
               instance' = [instance EXCEPT ![k] = next],
               failures' = IF next.state = "failed" /\ instance[k].state # "failed"
                             THEN [failures EXCEPT ![other] = Append(@, next.values.note)]
                             ELSE failures
        PROVE  Told(id)'
    <3>1. /\ \A j \in Keys \ {k} : line'[j] = line[j]
          /\ line'[k].turn.pc = "landed"
      BY <2>1, <2>3, <2>6, LandedLine
    <3>2. /\ instance'[k] = next /\ next # Nothing
          /\ \A j \in Keys \ {k} : instance'[j] = instance[j]
      <4>1. IsHeld(k, next) /\ next # Nothing
        BY <1>1, <2>6, Places, NothingIsHeld DEF IsHeld
      <4> QED  BY <2>6, <4>1, OneIsWritten
    <3>3. instance'[i] = instance[i] /\ line'[i] = line[i]
      BY <2>1, <3>1, <3>2
    <3> DEFINE note == next.values.note
    <3>4. failures'[id] = IF /\ next.state = "failed" /\ instance[k].state # "failed"
                             /\ other = id
                            THEN Append(failures[id], note) ELSE failures[id]
      <4> HIDE DEF note
      <4>1. failures = [j \in Ids |-> failures[j]]
        BY DEF Shapes
      <4>2. CASE next.state = "failed" /\ instance[k].state # "failed"
        <5>1. failures' = [failures EXCEPT ![other] = Append(failures[other], note)]
          BY <2>6, <4>2 DEF note
        <5> QED  BY <4>1, <4>2, <5>1
      <4>3. CASE ~(next.state = "failed" /\ instance[k].state # "failed")
        BY <2>6, <4>3
      <4> QED  BY <4>2, <4>3
    <3> HIDE DEF d, i
    <3>5. CASE other # id
      <4>1. d # k
        BY <2>1, <3>5
      <4>2. failures'[id] = failures[id] /\ instance'[d] = instance[d] /\ line'[d] = line[d]
        BY <2>1, <3>1, <3>2, <3>4, <3>5, <4>1
      <4> QED  BY <2>3, <2>4, <3>3, <4>2 DEF Told, d, i
    <3>6. CASE other = id /\ next.state = "failed" /\ instance[k].state # "failed"
      <4>1. d = k
        BY <2>1, <3>6
      <4>2. note # ""
        BY <2>6, <3>6
      <4>3. ToldOf(next, instance[i], line'[d], line[i], Append(failures[id], note), cut)
        BY <2>3, <2>4, <3>1, <3>2, <3>6, <4>1, <4>2, DeploymentFails
      <4>4. failures'[id] = Append(failures[id], note) /\ instance'[d] = next
        <5> HIDE DEF note
        <5> QED  BY <3>2, <3>4, <3>6, <4>1
      <4> HIDE DEF note
      <4> QED  BY <2>3, <3>3, <4>3, <4>4 DEF Told, d, i
    <3>7. CASE other = id /\ ~(next.state = "failed" /\ instance[k].state # "failed")
      <4>1. d = k
        BY <2>1, <3>7
      <4>2. next.state = "failed" => note \in ToSet(failures[id])
        <5>1. instance[d].state = "failed" => instance[d].values.note \in ToSet(failures[id])
          BY <2>3, <2>4, <4>1 DEF ToldOf
        <5> QED  BY <2>6, <3>7, <4>1, <5>1
      <4>3. ToldOf(next, instance[i], line'[d], line[i], failures[id], cut)
        BY <2>3, <2>4, <4>1, <4>2, DeploymentGoesOn
      <4>4. failures'[id] = failures[id] /\ instance'[d] = next
        BY <3>2, <3>4, <3>7, <4>1
      <4> QED  BY <2>3, <3>3, <4>3, <4>4 DEF Told, d, i
    <3> QED  BY <3>5, <3>6, <3>7
  <2> QED  BY <1>1, <2>2, <2>5, <2>6 DEF DeploymentLands, Advanced
<1>2. ASSUME NEW other \in Ids, k = Incident(other)
      PROVE  Told(id)'
  <2> DEFINE d == Deployment(id)
             i == Incident(id)
             trigger == line[k].turn.trigger
             f == failures[id]
             opens == /\ instance[k].state = "open" /\ instance[k].values.reason = ""
                      /\ trigger.type = "open"
  <2>1. /\ d \in Keys /\ i \in Keys /\ d # k /\ AreLines(line)
        /\ i = k <=> other = id
    BY <1>2, Places DEF Shapes
  <2>2. IncidentLands(other)
    BY <1>2, Lands
  <2>3. line[k].turn.pc = "handling" /\ line[k].turn # IdleTurn
        /\ UNCHANGED <<cut, failures>> /\ instance[k] # Nothing
    <3>1. line[k].turn.pc = "handling" /\ UNCHANGED <<cut, failures>>
      BY <1>2, <2>2 DEF IncidentLands
    <3> QED  BY <3>1, PhasesDiffer DEF Shapes
  <2>4. ToldOf(instance[d], instance[i], line[d], line[i], f, cut)
    BY DEF Told
  <2>5. FirstOpens(instance[k], line[k], f) => opens /\ trigger.reason = Head(f)
    BY <2>3 DEF FirstOpens
  <2>6. trigger \in InLine(line[k])
    BY <2>3 DEF InLine
  <2>7. CASE line' = Ended(line, k) /\ UNCHANGED instance /\ ~opens
    <3>1. /\ \A j \in Keys \ {k} : line'[j] = line[j]
          /\ InLine(line'[k]) \subseteq InLine(line[k])
      BY <2>1, <2>7, EndedLine
    <3> HIDE DEF d, i, f, opens, trigger
    <3>2. line'[d] = line[d]
      BY <2>1, <3>1
    <3>3. ToldOf(instance[d], instance[i], line[d], line'[i], f, cut)
      <4>1. CASE i = k
        <5>1. ReasonOf(instance[i]) \in {""} \cup ToSet(f)
          BY <2>4 DEF ToldOf
        <5> QED  BY <2>3, <2>4, <2>5, <2>7, <3>1, <4>1, <5>1, IncidentGoesOn
      <4>2. CASE i # k
        <5>1. line'[i] = line[i]
          BY <2>1, <3>1, <4>2
        <5> QED  BY <2>4, <5>1
      <4> QED  BY <4>1, <4>2
    <3> QED  BY <2>3, <2>7, <3>2, <3>3 DEF Told, d, i, f
  <2>8. ASSUME NEW next, IsIncident(next),
               opens => next.values.reason = trigger.reason,
               ~opens => next.values.reason = instance[k].values.reason,
               line' = Advanced(line, k, "landed"),
               instance' = [instance EXCEPT ![k] = next]
        PROVE  Told(id)'
    <3>1. /\ \A j \in Keys \ {k} : line'[j] = line[j]
          /\ InLine(line'[k]) = InLine(line[k])
      BY <2>1, <2>3, <2>8, LandedLine
    <3>2. /\ instance'[k] = next /\ next # Nothing
          /\ \A j \in Keys \ {k} : instance'[j] = instance[j]
      <4>1. IsHeld(k, next) /\ next # Nothing
        BY <1>2, <2>8, Places, NothingIsHeld DEF IsHeld
      <4> QED  BY <2>8, <4>1, OneIsWritten
    <3>3. instance'[d] = instance[d] /\ line'[d] = line[d]
      BY <2>1, <3>1, <3>2
    <3>4. CASE i = k
      <4>1. /\ ReasonOf(instance[k]) = instance[k].values.reason
            /\ ReasonOf(next) = next.values.reason
        BY <2>3, <3>2 DEF ReasonOf
      <4>2. opens => trigger.reason \in ToSet(f)
        BY <2>4, <2>6, <3>4 DEF ToldOf, IsToldOf
      <4>3. ReasonOf(next) \in {""} \cup ToSet(f)
        <5>1. ReasonOf(instance[k]) \in {""} \cup ToSet(f)
          BY <2>4, <3>4 DEF ToldOf
        <5> HIDE DEF f, opens, trigger
        <5> QED  BY <2>8, <4>1, <4>2, <5>1
      <4>4. ReasonOf(instance[k]) # "" => ReasonOf(next) = ReasonOf(instance[k])
        BY <2>8, <4>1
      <4>5. FirstOpens(instance[k], line[k], f) => ReasonOf(next) = Head(f)
        <5> HIDE DEF f, opens, trigger
        <5> QED  BY <2>5, <2>8, <4>1
      <4> HIDE DEF d, i, f, opens, trigger
      <4>6. ToldOf(instance[d], next, line[d], line'[i], f, cut)
        BY <2>3, <2>4, <3>1, <3>4, <4>3, <4>4, <4>5, IncidentGoesOn
      <4>7. instance'[i] = next
        BY <3>2, <3>4
      <4> QED  BY <2>3, <3>3, <4>6, <4>7 DEF Told, d, i, f
    <3>5. CASE i # k
      <4> HIDE DEF d, i, f, opens, trigger
      <4>1. instance'[i] = instance[i] /\ line'[i] = line[i]
        BY <2>1, <3>1, <3>2, <3>5
      <4> QED  BY <2>3, <2>4, <3>3, <4>1 DEF Told, d, i, f
    <3> QED  BY <3>4, <3>5
  <2> QED  BY <1>2, <2>2, <2>7, <2>8 DEF IncidentLands, Advanced
<1> QED  BY <1>1, <1>2, KeysAreKeys

\* A failure opens an incident that says what went wrong first, unless the process
\* stops in between (IncidentTellsTheFirstFailure): the trigger that carries it is the
\* first the incident ever gets, the handler keeps what it said, and every commit in
\* the state of a failure reports a note that is among the failures.
THEOREM IncidentIsTold == ServiceSpec => []IncidentTellsTheFirstFailure
<1> DEFINE AllTold == \A id \in Ids : Told(id)
<1>1. ServiceInit => AllTold
  <2> SUFFICES ASSUME ServiceInit, NEW id \in Ids PROVE Told(id)
    OBVIOUS
  <2>1. /\ instance[Deployment(id)] = Nothing /\ instance[Incident(id)] = Nothing
        /\ line[Incident(id)] = IdleLine /\ failures[id] = <<>>
    BY Places DEF ServiceInit
  <2>2. IsList(<<>>)
    <3>1. <<>> \in Seq({})
      OBVIOUS
    <3> QED  BY <3>1, Elements
  <2>3. \A d, dl, s : ToldOf(Nothing, Nothing, dl, IdleLine, <<>>, s)
    BY <2>2, NothingWaits, NothingFailed, NothingIsSaid DEF ToldOf, Tells
  <2> QED  BY <2>1, <2>3 DEF Told
<1>2. Shapes /\ AllTold /\ [ServiceNext]_serviceVars => AllTold'
  <2> SUFFICES ASSUME Shapes, AllTold, [ServiceNext]_serviceVars, NEW id \in Ids
               PROVE  Told(id)'
    OBVIOUS
  <2>1. consumed \in Nat /\ Told(id)
    BY DEF Shapes
  <2>2. CASE UNCHANGED <<instance, line, pruning, failures, cut>>
    BY <2>1, <2>2, ElsewhereTold
  <2>3. \A p \in Pruners : AskPrune(p) => UNCHANGED <<instance, line, failures, cut>>
    BY DEF AskPrune
  <2>4. ASSUME NEW p \in Pruners, AskPrune(p)
        PROVE  Told(id)'
    BY <2>1, <2>3, <2>4, ElsewhereTold
  <2> QED  BY <2>1, <2>2, <2>4, ServiceSteps, StartTold, ThrowTold, ReturnTold, ApplyTold,
              SentTold, ForgetTold, RestartTold
<1>3. AllTold => IncidentTellsTheFirstFailure
  <2> SUFFICES ASSUME NEW id \in Ids, Told(id)
               PROVE  /\ Reason(id) \in {""} \cup ToSet(failures[id])
                      /\ ~cut /\ Quiet(id) /\ failures[id] # <<>> =>
                           Reason(id) = Head(failures[id])
    BY DEF IncidentTellsTheFirstFailure
  <2>1. Reason(id) = ReasonOf(instance[Incident(id)])
    BY DEF Reason, ReasonOf
  <2>2. IdleLine.turn.pc = "idle"
    BY TurnsDiffer DEF IdleLine
  <2> QED  BY <2>1, <2>2 DEF Told, ToldOf, Tells, FirstFails, FirstOpens, Quiet
<1> QED  BY <1>1, <1>2, <1>3, ShapesBegin, ShapesKept, PTL DEF ServiceSpec

=============================================================================
