----------------------------- MODULE DataProofs -----------------------------
(***************************************************************************)
(* Lemmas about data: what holds of every prefix of a list, sums over a    *)
(* finite set of keys, and what is read off the event stream of a key, for *)
(* keys, numbers and streams of any kind.  The library's induction rules   *)
(* take an operator, which the provers cannot instantiate, so every        *)
(* induction here is the least counterexample in a set.                    *)
(***************************************************************************)
EXTENDS EventLog, Lists, FiniteSets, Functions, FiniteSetsExt, FiniteSetTheorems,
        SequenceTheorems, WellFoundedInduction, TLAPS

\* Every set of naturals has a least one.
LEMMA LeastOfNaturals ==
  ASSUME NEW S, S \subseteq Nat, S # {}
  PROVE  \E m \in S : \A n \in S : m <= n
<1>1. \E m \in S : \A n \in S : ~(<<n, m>> \in OpToRel(<, Nat))
  BY WFMin, NatLessThanWellFounded, Zenon
<1>2. \A m, n \in Nat : <<n, m>> \in OpToRel(<, Nat) <=> n < m
  BY DEF OpToRel
<1>3. PICK m \in S : \A n \in S : ~(n < m)
  BY <1>1, <1>2
<1>4. \A n \in S : m <= n
  BY <1>3
<1> QED  BY <1>3, <1>4

\* What holds of 0, and of n + 1 if it holds of n, holds up to `last`.
LEMMA UpTo ==
  ASSUME NEW last \in Nat, NEW Good, 0 \in Good,
         \A n \in 0 .. last - 1 : n \in Good => n + 1 \in Good
  PROVE  \A n \in 0 .. last : n \in Good
<1> DEFINE Bad == {n \in 0 .. last : n \notin Good}
<1> SUFFICES ASSUME Bad # {} PROVE FALSE
  OBVIOUS
<1>1. PICK n \in Bad : \A m \in Bad : n <= m
  <2>1. Bad \subseteq Nat
    OBVIOUS
  <2> HIDE DEF Bad
  <2> QED  BY <2>1, LeastOfNaturals
<1>2. n # 0 /\ n - 1 \in 0 .. last - 1 /\ n - 1 \notin Bad
  BY <1>1
<1> QED  BY <1>1, <1>2

LEMMA GreatestOfInterval ==
  ASSUME NEW n \in Nat, NEW s \in SUBSET (1 .. n + 1), n + 1 \in s
  PROVE  Max(s) = n + 1
<1>1. \A y \in s : n + 1 >= y
  OBVIOUS
<1>2. Max(s) \in s /\ \A y \in s : Max(s) >= y
  BY <1>1 DEF Max
<1>3. Max(s) \in 1 .. n + 1 /\ Max(s) >= n + 1
  BY <1>2
<1> QED  BY <1>3

-----------------------------------------------------------------------------
(* Lists.                                                                  *)

LEMMA Elements ==
  ASSUME NEW S, NEW list \in Seq(S)
  PROVE  /\ IsList(list) /\ ToSet(list) \subseteq S
         /\ DOMAIN list = 1 .. Len(list) /\ Len(list) \in Nat
         /\ \A x : x \in ToSet(list) <=> \E i \in 1 .. Len(list) : list[i] = x
         /\ \A x : x \in ToSet(list) <=> Contains(list, x)
<1>1. DOMAIN list = 1 .. Len(list) /\ Len(list) \in Nat
      /\ \A i \in 1 .. Len(list) : list[i] \in S
  OBVIOUS
<1>2. \A i \in 1 .. Len(list) : list[i] \in ToSet(list)
  BY <1>1 DEF ToSet
<1>3. list \in Seq(ToSet(list))
  <2>1. list \in [1 .. Len(list) -> ToSet(list)]
    BY <1>1, <1>2
  <2> QED  BY <1>1, <2>1, SeqDef
<1> QED  BY <1>1, <1>3 DEF IsList, ToSet, Contains

LEMMA ElementsOfAppend ==
  ASSUME NEW S, NEW list \in Seq(S), NEW x
  PROVE  /\ Append(list, x) \in Seq(S \cup {x})
         /\ ToSet(Append(list, x)) = ToSet(list) \cup {x}
<1> DEFINE T == S \cup {x}
           new == Append(list, x)
<1>1. list \in Seq(T) /\ x \in T
  BY SeqMonotonic
<1>2. /\ new \in Seq(T) /\ new # <<>> /\ Len(new) = Len(list) + 1
      /\ \A i \in 1 .. Len(list) : new[i] = list[i]
      /\ new[Len(list) + 1] = x /\ Len(list) \in Nat
  <2> HIDE DEF T
  <2> QED  BY <1>1, AppendProperties
<1> HIDE DEF new, T
<1>3. /\ \A y : y \in ToSet(list) <=> \E i \in 1 .. Len(list) : list[i] = y
      /\ \A y : y \in ToSet(new) <=> \E i \in 1 .. Len(new) : new[i] = y
  BY <1>2, Elements
<1>4. 1 .. Len(new) = 1 .. Len(list) \cup {Len(list) + 1}
  BY <1>2
<1>5. \A y : y \in ToSet(new) <=> y \in ToSet(list) \cup {x}
  BY <1>2, <1>3, <1>4
<1> QED  BY <1>2, <1>5 DEF new, T

-----------------------------------------------------------------------------
(* Folds of lists.                                                         *)

\* A set of positions has a greatest one.
LEMMA GreatestIsIn ==
  ASSUME NEW last \in Nat, NEW s \in SUBSET (1 .. last), s # {}
  PROVE  Max(s) \in s /\ \A n \in s : n <= Max(s)
<1> DEFINE Above == {last - n : n \in s}
<1>1. Above \subseteq Nat /\ Above # {}
  <2>1. \A n \in s : last - n \in Nat
    OBVIOUS
  <2> QED  BY <2>1
<1>2. PICK a \in Above : \A b \in Above : a <= b
  <2> HIDE DEF Above
  <2> QED  BY <1>1, LeastOfNaturals
<1>3. PICK x \in s : a = last - x
  BY <1>2
<1>4. \A n \in s : x >= n
  <2> TAKE n \in s
  <2>1. last - n \in Above
    OBVIOUS
  <2>2. a <= last - n
    <3> HIDE DEF Above
    <3> QED  BY <1>2, <2>1
  <2> QED  BY <1>3, <2>2
<1> QED  BY <1>3, <1>4 DEF Max

\* A fold goes through values of a set that its steps do not leave.
IsFoldThrough(g, n, V, base, step) ==
  /\ g \in [SUBSET (1 .. n) -> V]
  /\ \A s \in SUBSET (1 .. n) :
       g[s] = IF s = {} THEN base ELSE step[<<g[s \ {Max(s)}], Max(s)>>]

LEMMA FoldsExist ==
  ASSUME NEW last \in Nat, NEW V, NEW base \in V, NEW step \in [V \X (1 .. last) -> V]
  PROVE  \E g : IsFoldThrough(g, last, V, base, step)
<1> DEFINE Next1(g, s) == IF s = {} THEN base ELSE step[<<g[s \ {Max(s)}], Max(s)>>]
           Folds(g, n) == /\ g \in [SUBSET (1 .. n) -> V]
                          /\ \A s \in SUBSET (1 .. n) : g[s] = Next1(g, s)
           Good == {n \in 0 .. last : \E g : Folds(g, n)}
<1>1. 0 \in Good
  <2> DEFINE g0 == [s \in SUBSET (1 .. 0) |-> base]
  <2>1. SUBSET (1 .. 0) = {{}}
    OBVIOUS
  <2>2. g0 \in [SUBSET (1 .. 0) -> V] /\ \A s \in SUBSET (1 .. 0) : g0[s] = base /\ s = {}
    BY <2>1
  <2> HIDE DEF g0
  <2>3. \A s \in SUBSET (1 .. 0) : g0[s] = Next1(g0, s)
    BY <2>2
  <2>4. Folds(g0, 0) /\ 0 \in 0 .. last
    BY <2>2, <2>3
  <2> HIDE DEF Folds
  <2> QED  BY <2>4
<1>2. ASSUME NEW n \in 0 .. last - 1, n \in Good
      PROVE  n + 1 \in Good
  <2>1. PICK g : Folds(g, n)
    BY <1>2
  <2> DEFINE h == [s \in SUBSET (1 .. n + 1) |->
                     IF n + 1 \in s THEN step[<<g[s \ {n + 1}], n + 1>>] ELSE g[s]]
  <2>2. ASSUME NEW s \in SUBSET (1 .. n + 1)
        PROVE  h[s] \in V /\ h[s] = Next1(h, s)
    <3>1. CASE n + 1 \in s
      <4>1. Max(s) = n + 1 /\ n + 1 \in 1 .. last
        BY <1>2, <3>1, GreatestOfInterval
      <4>2. s \ {n + 1} \in SUBSET (1 .. n) /\ s \ {n + 1} \in SUBSET (1 .. n + 1)
            /\ n + 1 \notin s \ {n + 1}
        BY <1>2
      <4>3. h[s \ {n + 1}] = g[s \ {n + 1}]
        BY <4>2
      <4>4. h[s] = step[<<g[s \ {n + 1}], n + 1>>]
        BY <3>1
      <4>5. g[s \ {n + 1}] \in V
        BY <2>1, <4>2
      <4>6. step[<<g[s \ {n + 1}], n + 1>>] \in V
        BY <4>1, <4>5
      <4>7. Next1(h, s) = step[<<h[s \ {n + 1}], n + 1>>]
        BY <3>1, <4>1
      <4> HIDE DEF h, Next1
      <4> QED  BY <4>3, <4>4, <4>6, <4>7
    <3>2. CASE n + 1 \notin s
      <4>1. s \in SUBSET (1 .. n)
        BY <1>2, <3>2
      <4>2. h[s] = g[s] /\ g[s] \in V /\ g[s] = Next1(g, s)
        BY <2>1, <3>2, <4>1
      <4>3. CASE s # {}
        <5>1. s \ {Max(s)} \in SUBSET (1 .. n + 1) /\ n + 1 \notin s \ {Max(s)}
          BY <3>2
        <5>2. h[s \ {Max(s)}] = g[s \ {Max(s)}]
          BY <5>1
        <5>3. Next1(h, s) = Next1(g, s)
          BY <4>3, <5>2
        <5> HIDE DEF h, Next1
        <5> QED  BY <4>2, <5>3
      <4>4. CASE s = {}
        BY <4>2, <4>4
      <4> QED  BY <4>3, <4>4
    <3> QED  BY <3>1, <3>2
  <2>3. h \in [SUBSET (1 .. n + 1) -> V]
    <3>1. h = [s \in SUBSET (1 .. n + 1) |-> h[s]]
      OBVIOUS
    <3> HIDE DEF h
    <3> QED  BY <2>2, <3>1
  <2> HIDE DEF h, Next1
  <2>4. Folds(h, n + 1)
    BY <2>2, <2>3
  <2>5. n + 1 \in 0 .. last
    OBVIOUS
  <2> HIDE DEF Folds
  <2> QED  BY <2>4, <2>5
<1> HIDE DEF Good
<1>3. \A n \in 0 .. last : n \in Good
  BY <1>1, <1>2, UpTo
<1>4. PICK g : Folds(g, last)
  <2> HIDE DEF Folds
  <2> QED  BY <1>3 DEF Good
<1> QED  BY <1>4 DEF IsFoldThrough

\* What a fold has come to after each of its elements, whatever the order in which
\* the library's definition takes the sets of positions.
IsFoldedTo(m, g, last) ==
  /\ m[0] = g[{}] /\ m[last] = g[1 .. last]
  /\ \A i \in 1 .. last :
       /\ m[i] = g[1 .. i] /\ m[i - 1] = g[(1 .. i) \ {Max(1 .. i)}]
       /\ Max(1 .. i) = i /\ 1 .. i \in SUBSET (1 .. last) /\ 1 .. i # {}

LEMMA FoldsOneByOne ==
  ASSUME NEW last \in Nat, NEW g
  PROVE  \E m : IsFoldedTo(m, g, last)
<1> DEFINE m == [i \in 0 .. last |-> g[1 .. i]]
<1>1. 1 .. 0 = {} /\ 0 \in 0 .. last /\ last \in 0 .. last
  OBVIOUS
<1>2. \A j \in 0 .. last : m[j] = g[1 .. j]
  OBVIOUS
<1> HIDE DEF m
<1>3. ASSUME NEW i \in 1 .. last
      PROVE  /\ m[i] = g[1 .. i]
             /\ m[i - 1] = g[(1 .. i) \ {Max(1 .. i)}]
             /\ Max(1 .. i) = i /\ 1 .. i \in SUBSET (1 .. last) /\ 1 .. i # {}
  <2>1. i - 1 \in 0 .. last /\ i \in 0 .. last
    OBVIOUS
  <2>2. Max(1 .. i) = i
    BY DEF Max
  <2>3. (1 .. i) \ {i} = 1 .. i - 1
    OBVIOUS
  <2>4. 1 .. i \in SUBSET (1 .. last) /\ 1 .. i # {}
    OBVIOUS
  <2> QED  BY <1>2, <2>1, <2>2, <2>3, <2>4
<1> QED  BY <1>1, <1>2, <1>3 DEF IsFoldedTo

-----------------------------------------------------------------------------
(* The elements at some positions.                                         *)

\* The next element is taken or not.
Takes(kept, x, takes) == IF takes THEN Append(kept, x) ELSE kept

\* What is taken of the first elements, one after the other.
ArePicked(m, list, positions) ==
  /\ m[0] = <<>>
  /\ \A i \in 1 .. Len(list) : m[i] = Takes(m[i - 1], list[i], i \in positions)
  /\ Picked(list, positions) = m[Len(list)]

LEMMA PicksOneByOne ==
  ASSUME NEW S, NEW list \in Seq(S), NEW positions
  PROVE  \E m : ArePicked(m, list, positions)
<1> DEFINE last == Len(list)
           e == [i \in DOMAIN list |-> i]
           V == Seq(S)
           step == [x \in V \X (1 .. last) |-> Takes(x[1], list[x[2]], x[2] \in positions)]
           Next1(g, s) == IF s = {} THEN <<>>
                          ELSE Takes(g[s \ {Max(s)}], list[e[Max(s)]], e[Max(s)] \in positions)
           IsIter(g) == g = [s \in SUBSET (DOMAIN e) |-> Next1(g, s)]
           G == CHOOSE g : IsIter(g)
<1>1. /\ last \in Nat /\ DOMAIN list = 1 .. last /\ DOMAIN e = 1 .. last
      /\ \A i \in 1 .. last : e[i] = i /\ list[i] \in S
  OBVIOUS
<1>2. step \in [V \X (1 .. last) -> V] /\ <<>> \in V
  <2>1. \A x \in V \X (1 .. last) : Takes(x[1], list[x[2]], x[2] \in positions) \in V
    BY <1>1, AppendProperties DEF Takes
  <2> HIDE DEF V
  <2>2. step \in [V \X (1 .. last) -> V]
    BY <2>1
  <2> QED  BY <2>2 DEF V
<1> HIDE DEF last, e
<1>3. \E g : IsIter(g)
  <2> HIDE DEF V, step
  <2>0. PICK g : IsFoldThrough(g, last, V, <<>>, step)
    BY <1>1, <1>2, FoldsExist
  <2>1. /\ g \in [SUBSET (1 .. last) -> V]
        /\ \A s \in SUBSET (1 .. last) :
             g[s] = IF s = {} THEN <<>> ELSE step[<<g[s \ {Max(s)}], Max(s)>>]
    BY <2>0 DEF IsFoldThrough
  <2>2. ASSUME NEW s \in SUBSET (1 .. last)
        PROVE  g[s] = Next1(g, s)
    <3>1. CASE s = {}
      BY <2>1, <3>1
    <3>2. CASE s # {}
      <4>1. Max(s) \in 1 .. last /\ s \ {Max(s)} \in SUBSET (1 .. last)
        BY <1>1, <2>2, <3>2, GreatestIsIn
      <4>2. g[s \ {Max(s)}] \in V
        BY <2>1, <4>1
      <4>3. step[<<g[s \ {Max(s)}], Max(s)>>] = Takes(g[s \ {Max(s)}], list[Max(s)], Max(s) \in positions)
        BY <4>1, <4>2 DEF step
      <4> QED  BY <1>1, <2>1, <3>2, <4>1, <4>3
    <3> QED  BY <3>1, <3>2
  <2> HIDE DEF Next1
  <2> QED  BY <1>1, <2>1, <2>2
<1>4. G = [s \in SUBSET (1 .. last) |-> Next1(G, s)]
  <2> HIDE DEF IsIter
  <2>1. IsIter(G)
    BY <1>3
  <2> HIDE DEF G
  <2> QED  BY <1>1, <2>1 DEF IsIter
<1>5. Picked(list, positions) = G[1 .. last]
  <2>1. Picked(list, positions) = G[DOMAIN e]
    BY DEF Picked, FoldLeft, MapThenFoldSet, Takes, e
  <2> QED  BY <1>1, <2>1
<1> HIDE DEF G
<1>6. PICK m : IsFoldedTo(m, G, last)
  BY <1>1, FoldsOneByOne
<1>7. m[0] = <<>> /\ m[last] = G[1 .. last]
  BY <1>4, <1>6 DEF IsFoldedTo
<1>8. ASSUME NEW i \in 1 .. last
      PROVE  m[i] = Takes(m[i - 1], list[i], i \in positions)
  <2>1. /\ m[i] = G[1 .. i] /\ m[i - 1] = G[(1 .. i) \ {Max(1 .. i)}]
        /\ Max(1 .. i) = i /\ 1 .. i \in SUBSET (1 .. last) /\ 1 .. i # {}
    BY <1>6 DEF IsFoldedTo
  <2>2. G[1 .. i] = Next1(G, 1 .. i)
    <3> HIDE DEF Next1
    <3> QED  BY <1>4, <2>1
  <2>3. Next1(G, 1 .. i) = Takes(G[(1 .. i) \ {Max(1 .. i)}], list[e[i]], e[i] \in positions)
    BY <2>1
  <2>4. e[i] = i
    BY <1>1
  <2> HIDE DEF Next1
  <2> QED  BY <2>1, <2>2, <2>3, <2>4
<1> QED  BY <1>5, <1>7, <1>8 DEF ArePicked, last

LEMMA PickedElements ==
  ASSUME NEW S, NEW list \in Seq(S), NEW positions
  PROVE  /\ Picked(list, positions) \in Seq(S)
         /\ \A x : x \in ToSet(Picked(list, positions)) <=>
                     \E i \in 1 .. Len(list) : i \in positions /\ list[i] = x
<1> DEFINE last == Len(list)
           At(n) == {list[i] : i \in (1 .. n) \cap positions}
<1>1. PICK m : ArePicked(m, list, positions)
  BY PicksOneByOne
<1> DEFINE Good == {n \in 0 .. last : m[n] \in Seq(S) /\ ToSet(m[n]) = At(n)}
<1>2. last \in Nat /\ \A i \in 1 .. last : list[i] \in S
  OBVIOUS
<1>3. 0 \in Good
  <2>1. 0 \in 0 .. last /\ <<>> \in Seq(S) /\ ToSet(<<>>) = {} /\ At(0) = {}
    BY <1>2 DEF ToSet
  <2>2. m[0] = <<>>
    BY <1>1 DEF ArePicked
  <2> QED  BY <2>1, <2>2
<1>4. ASSUME NEW n \in 0 .. last - 1, n \in Good PROVE n + 1 \in Good
  <2>1. n + 1 \in 1 .. last /\ (n + 1) - 1 = n /\ n + 1 \in 0 .. last
    BY <1>2
  <2>2. m[n + 1] = Takes(m[n], list[n + 1], n + 1 \in positions)
    BY <1>1, <2>1 DEF ArePicked
  <2>3. list[n + 1] \in S /\ m[n] \in Seq(S) /\ ToSet(m[n]) = At(n)
    BY <1>2, <1>4, <2>1
  <2>4. 1 .. n + 1 = 1 .. n \cup {n + 1}
    BY <1>2
  <2>5. CASE n + 1 \in positions
    <3>1. At(n + 1) = At(n) \cup {list[n + 1]}
      BY <2>4, <2>5
    <3>2. /\ m[n + 1] \in Seq(S \cup {list[n + 1]})
          /\ ToSet(m[n + 1]) = ToSet(m[n]) \cup {list[n + 1]}
      <4> HIDE DEF At
      <4>1. m[n + 1] = Append(m[n], list[n + 1])
        BY <2>2, <2>5 DEF Takes
      <4> QED  BY <2>3, <4>1, ElementsOfAppend
    <3>3. S \cup {list[n + 1]} = S
      BY <2>3
    <3> HIDE DEF At
    <3> QED  BY <2>1, <2>3, <3>1, <3>2, <3>3
  <2>6. CASE n + 1 \notin positions
    <3>1. At(n + 1) = At(n)
      BY <2>4, <2>6
    <3>2. m[n + 1] = m[n]
      BY <2>2, <2>6 DEF Takes
    <3> HIDE DEF At
    <3> QED  BY <2>1, <2>3, <3>1, <3>2
  <2> QED  BY <2>5, <2>6
<1>5. last \in Good
  <2> HIDE DEF Good, last
  <2>1. \A n \in 0 .. last : n \in Good
    BY <1>2, <1>3, <1>4, UpTo
  <2> QED  BY <1>2, <2>1
<1>6. Picked(list, positions) = m[last]
  BY <1>1 DEF ArePicked
<1>7. \A x : x \in At(last) <=> \E i \in 1 .. last : i \in positions /\ list[i] = x
  OBVIOUS
<1> QED  BY <1>5, <1>6, <1>7

\* Of two elements that were taken, the first one was first.
LEMMA PicksInOrder ==
  ASSUME NEW S, NEW list \in Seq(S), NEW positions
  PROVE  \A i, j \in 1 .. Len(Picked(list, positions)) : i < j =>
           \E a, b \in positions \cap 1 .. Len(list) :
             /\ a < b
             /\ Picked(list, positions)[i] = list[a] /\ Picked(list, positions)[j] = list[b]
<1> DEFINE last == Len(list)
           Single(l, n) == \A i \in 1 .. Len(l) : \E a \in positions \cap 1 .. n : l[i] = list[a]
           Pairs(l, n) == \A i, j \in 1 .. Len(l) : i < j =>
                            \E a, b \in positions \cap 1 .. n :
                              a < b /\ l[i] = list[a] /\ l[j] = list[b]
           Good(m) == {n \in 0 .. last : m[n] \in Seq(S) /\ Single(m[n], n) /\ Pairs(m[n], n)}
<1>1. PICK m : ArePicked(m, list, positions)
  BY PicksOneByOne
<1>2. last \in Nat /\ \A i \in 1 .. last : list[i] \in S
  OBVIOUS
<1>3. 0 \in Good(m)
  <2>1. 0 \in 0 .. last /\ m[0] = <<>> /\ <<>> \in Seq(S) /\ Len(<<>>) = 0
    BY <1>1, <1>2 DEF ArePicked
  <2>2. Single(m[0], 0) /\ Pairs(m[0], 0)
    BY <2>1
  <2> HIDE DEF Single, Pairs
  <2> QED  BY <2>1, <2>2
<1>4. ASSUME NEW n \in 0 .. last - 1, n \in Good(m) PROVE n + 1 \in Good(m)
  <2> DEFINE old == m[n]
             new == m[n + 1]
  <2>1. n + 1 \in 1 .. last /\ (n + 1) - 1 = n /\ n + 1 \in 0 .. last /\ n \in Nat
    BY <1>2
  <2>2. new = Takes(old, list[n + 1], n + 1 \in positions)
    BY <1>1, <2>1 DEF ArePicked
  <2>3. list[n + 1] \in S /\ old \in Seq(S) /\ Single(old, n) /\ Pairs(old, n)
    BY <1>2, <1>4, <2>1
  <2> HIDE DEF old, new
  <2>4. CASE n + 1 \in positions
    <3>1. new = Append(old, list[n + 1])
      BY <2>2, <2>4 DEF Takes
    <3>2. /\ new \in Seq(S) /\ Len(new) = Len(old) + 1 /\ Len(old) \in Nat
          /\ new[Len(old) + 1] = list[n + 1]
          /\ \A i \in 1 .. Len(old) : new[i] = old[i]
      BY <2>3, <3>1, AppendProperties
    <3>3. /\ n + 1 \in positions \cap 1 .. n + 1
          /\ \A a \in positions \cap 1 .. n : a \in positions \cap 1 .. n + 1 /\ a < n + 1
      BY <2>1, <2>4
    <3>4. \A i \in 1 .. Len(new) : i = Len(old) + 1 \/ i \in 1 .. Len(old)
      BY <3>2
    <3>5. Single(new, n + 1)
      <4> SUFFICES ASSUME NEW i \in 1 .. Len(new)
                   PROVE  \E a \in positions \cap 1 .. n + 1 : new[i] = list[a]
        OBVIOUS
      <4>1. CASE i \in 1 .. Len(old)
        <5>1. PICK a \in positions \cap 1 .. n : old[i] = list[a]
          BY <2>3, <4>1
        <5> QED  BY <3>2, <3>3, <4>1, <5>1
      <4>2. CASE i = Len(old) + 1
        BY <3>2, <3>3, <4>2
      <4> QED  BY <3>4, <4>1, <4>2
    <3>6. Pairs(new, n + 1)
      <4> SUFFICES ASSUME NEW i \in 1 .. Len(new), NEW j \in 1 .. Len(new), i < j
                   PROVE  \E a, b \in positions \cap 1 .. n + 1 :
                            a < b /\ new[i] = list[a] /\ new[j] = list[b]
        OBVIOUS
      <4>1. i \in 1 .. Len(old)
        BY <3>2
      <4>2. CASE j \in 1 .. Len(old)
        <5>1. PICK a \in positions \cap 1 .. n, b \in positions \cap 1 .. n :
                a < b /\ old[i] = list[a] /\ old[j] = list[b]
          BY <2>3, <4>1, <4>2
        <5> QED  BY <3>2, <3>3, <4>1, <4>2, <5>1
      <4>3. CASE j = Len(old) + 1
        <5>1. PICK a \in positions \cap 1 .. n : old[i] = list[a]
          BY <2>3, <4>1
        <5> QED  BY <3>2, <3>3, <4>1, <4>3, <5>1
      <4> QED  BY <3>4, <4>2, <4>3
    <3> HIDE DEF Single, Pairs
    <3> QED  BY <2>1, <3>2, <3>5, <3>6 DEF new
  <2>5. CASE n + 1 \notin positions
    <3>1. new = old
      BY <2>2, <2>5 DEF Takes
    <3>2. \A a \in positions \cap 1 .. n : a \in positions \cap 1 .. n + 1
      BY <2>1
    <3>3. Single(new, n + 1)
      BY <2>3, <3>1, <3>2
    <3>4. Pairs(new, n + 1)
      <4> SUFFICES ASSUME NEW i \in 1 .. Len(new), NEW j \in 1 .. Len(new), i < j
                   PROVE  \E a, b \in positions \cap 1 .. n + 1 :
                            a < b /\ new[i] = list[a] /\ new[j] = list[b]
        OBVIOUS
      <4>1. PICK a \in positions \cap 1 .. n, b \in positions \cap 1 .. n :
                a < b /\ old[i] = list[a] /\ old[j] = list[b]
        BY <2>3, <3>1
      <4> QED  BY <3>1, <3>2, <4>1
    <3> HIDE DEF Single, Pairs
    <3> QED  BY <2>1, <2>3, <3>1, <3>3, <3>4 DEF new
  <2> QED  BY <2>4, <2>5
<1>5. last \in Good(m)
  <2> DEFINE good == Good(m)
  <2>1. 0 \in good /\ \A n \in 0 .. last - 1 : n \in good => n + 1 \in good
    BY <1>3, <1>4
  <2> HIDE DEF good, last
  <2>2. \A n \in 0 .. last : n \in good
    BY <1>2, <2>1, UpTo
  <2>3. last \in good
    BY <1>2, <2>2
  <2> QED  BY <2>3 DEF good
<1>6. Picked(list, positions) = m[last]
  BY <1>1 DEF ArePicked
<1>7. Pairs(m[last], last)
  <2> HIDE DEF Pairs, Single
  <2> QED  BY <1>5
<1> QED  BY <1>6, <1>7

-----------------------------------------------------------------------------
(* Sums.                                                                   *)

\* A reduce() over the values of a table.
Total(f) == FoldFunction(LAMBDA x, y : x + y, 0, f)

\* A table of the sums over the sets of keys, whatever key is taken first.
Sums(g, D, f) ==
  /\ g \in [SUBSET D -> Nat]
  /\ g[{}] = 0
  /\ \A s \in SUBSET D : \A x \in s : g[s] = f[x] + g[s \ {x}]

\* Parts of a finite set by their size.
LEMMA Subsets ==
  ASSUME NEW D, IsFiniteSet(D)
  PROVE  /\ Cardinality(D) \in Nat
         /\ \A s \in SUBSET D :
              /\ IsFiniteSet(s) /\ Cardinality(s) \in 0 .. Cardinality(D)
              /\ Cardinality(s) = 0 <=> s = {}
              /\ \A x \in s : Cardinality(s \ {x}) = Cardinality(s) - 1
<1>1. Cardinality(D) \in Nat
  BY FS_CardinalityType
<1> SUFFICES ASSUME NEW s \in SUBSET D
             PROVE  /\ IsFiniteSet(s) /\ Cardinality(s) \in 0 .. Cardinality(D)
                    /\ Cardinality(s) = 0 <=> s = {}
                    /\ \A x \in s : Cardinality(s \ {x}) = Cardinality(s) - 1
  BY <1>1
<1>2. IsFiniteSet(s) /\ Cardinality(s) <= Cardinality(D) /\ Cardinality(s) \in Nat
  BY FS_Subset, FS_CardinalityType
<1>3. Cardinality(s) = 0 <=> s = {}
  BY <1>2, FS_EmptySet
<1>4. ASSUME NEW x \in s PROVE Cardinality(s \ {x}) = Cardinality(s) - 1
  BY <1>2, FS_RemoveElement
<1> QED  BY <1>1, <1>2, <1>3, <1>4

LEMMA SumsExist ==
  ASSUME NEW D, IsFiniteSet(D), NEW f \in [D -> Nat]
  PROVE  \E g : Sums(g, D, f) /\ Total(f) = g[D]
<1> DEFINE size == Cardinality(D)
           First(s) == CHOOSE x \in s : TRUE
           Step1(g, s) == IF s = {} THEN 0 ELSE f[First(s)] + g[s \ {First(s)}]
           IsSumOn(g, E) == g = [s \in SUBSET E |-> Step1(g, s)]
           IsSum(g) == IsSumOn(g, D)
<1>0. size \in Nat
  BY Subsets
<1>1. \A s \in SUBSET D : s # {} => First(s) \in s
  OBVIOUS
<1>2. \A n \in 0 .. size : \E g : \A s \in SUBSET D :
         Cardinality(s) <= n => g[s] = Step1(g, s)
  <2> DEFINE Upto(g, n) == \A s \in SUBSET D : Cardinality(s) <= n => g[s] = Step1(g, s)
             Good == {n \in 0 .. size : \E g : Upto(g, n)}
  <2>1. 0 \in Good
    <3> DEFINE g == [s \in SUBSET D |-> 0]
    <3>1. ASSUME NEW s \in SUBSET D, Cardinality(s) <= 0
          PROVE  g[s] = Step1(g, s)
      <4>1. s = {}
        BY <3>1, Subsets
      <4> QED  BY <4>1
    <3>2. Upto(g, 0)
      BY <3>1
    <3>3. \E f1 : Upto(f1, 0)
      <4> HIDE DEF g, Upto
      <4> QED  BY <3>2
    <3>4. 0 \in 0 .. size
      BY <1>0
    <3> HIDE DEF Upto
    <3> QED  BY <3>3, <3>4
  <2>2. ASSUME NEW n \in 0 .. size - 1, n \in Good
        PROVE  n + 1 \in Good
    <3>1. PICK g : Upto(g, n)
      BY <2>2
    <3> DEFINE h == [s \in SUBSET D |-> Step1(g, s)]
    <3>2. ASSUME NEW s \in SUBSET D, Cardinality(s) <= n + 1
          PROVE  h[s] = Step1(h, s)
      <4>1. CASE s = {}
        BY <4>1
      <4>2. CASE s # {}
        <5>1. First(s) \in s
          BY <1>1, <4>2
        <5> DEFINE p == First(s)
                   rest == s \ {p}
        <5>2. rest \in SUBSET D /\ Cardinality(rest) <= n
          <6>0. p \in s
            BY <5>1
          <6> HIDE DEF p
          <6>1. Cardinality(rest) = Cardinality(s) - 1 /\ Cardinality(s) \in Nat
            BY <6>0, Subsets
          <6> HIDE DEF rest
          <6>2. n \in Nat
            BY <2>2
          <6>3. Cardinality(rest) <= n
            BY <3>2, <6>1, <6>2
          <6> QED  BY <6>3 DEF rest
        <5>3. g[rest] = Step1(g, rest)
          BY <3>1, <5>2
        <5>4. h[rest] = g[rest]
          BY <5>2, <5>3
        <5> QED  BY <4>2, <5>4
      <4> QED  BY <4>1, <4>2
    <3>3. Upto(h, n + 1)
      BY <3>2
    <3>4. n + 1 \in 0 .. size
      BY <1>0, <2>2
    <3> QED  BY <3>3, <3>4
  <2> HIDE DEF Good
  <2>3. \A n \in 0 .. size : n \in Good
    BY <1>0, <2>1, <2>2, UpTo
  <2> QED  BY <2>3 DEF Good
<1> DEFINE G == CHOOSE g : IsSumOn(g, DOMAIN f)
<1>3. G = [s \in SUBSET D |-> Step1(G, s)]
  <2>1. PICK g : \A s \in SUBSET D : Cardinality(s) <= size => g[s] = Step1(g, s)
    <3>1. size \in 0 .. size
      BY <1>0
    <3> HIDE DEF size
    <3> QED  BY <1>2, <3>1
  <2>2. \A s \in SUBSET D : g[s] = Step1(g, s)
    <3>1. \A s \in SUBSET D : Cardinality(s) <= size
      BY Subsets
    <3> QED  BY <2>1, <3>1
  <2> DEFINE h == [s \in SUBSET D |-> g[s]]
  <2>3. ASSUME NEW s \in SUBSET D PROVE h[s] = Step1(h, s)
    <3>1. s # {} => s \ {First(s)} \in SUBSET D
      OBVIOUS
    <3>2. s # {} => h[s \ {First(s)}] = g[s \ {First(s)}]
      BY <3>1
    <3>3. h[s] = g[s]
      OBVIOUS
    <3> QED  BY <2>2, <3>2, <3>3
  <2>4. IsSum(h)
    BY <2>3
  <2>5. DOMAIN f = D
    OBVIOUS
  <2> HIDE DEF IsSumOn, h
  <2>6. IsSumOn(h, DOMAIN f)
    BY <2>4, <2>5
  <2> HIDE DEF G
  <2>7. IsSumOn(G, DOMAIN f)
    BY <2>6 DEF G
  <2> QED  BY <2>5, <2>7 DEF IsSumOn
<1>4. Total(f) = G[D]
  <2>1. Total(f) = G[DOMAIN f]
    BY DEF Total, FoldFunction, FoldFunctionOnSet, MapThenFoldSet
  <2> QED  BY <2>1
<1> HIDE DEF G
<1>5. G[{}] = 0
  BY <1>3
<1> DEFINE Right(s) == /\ G[s] \in Nat
                       /\ \A x \in s : G[s] = f[x] + G[s \ {x}]
           Sized == {n \in 0 .. size : \A s \in SUBSET D : Cardinality(s) <= n => Right(s)}
<1>6. 0 \in Sized
  <2>1. \A s \in SUBSET D : Cardinality(s) <= 0 => s = {}
    BY Subsets
  <2>2. Right({})
    BY <1>5
  <2> HIDE DEF Right
  <2> QED  BY <1>0, <2>1, <2>2
<1>7. ASSUME NEW n \in 0 .. size - 1, n \in Sized
      PROVE  n + 1 \in Sized
  <2>0. n \in Nat
    BY <1>7
  <2>1. ASSUME NEW s \in SUBSET D, Cardinality(s) <= n + 1
        PROVE  Right(s)
    <3>1. CASE s = {}
      BY <1>5, <3>1
    <3>2. CASE s # {}
      <4>1. \A x \in s : s \ {x} \in SUBSET D /\ Right(s \ {x})
        <5>1. ASSUME NEW x \in s PROVE Cardinality(s \ {x}) <= n
          <6>1. Cardinality(s \ {x}) = Cardinality(s) - 1 /\ Cardinality(s) \in Nat
            BY Subsets
          <6> QED  BY <2>0, <2>1, <6>1
        <5> HIDE DEF Right
        <5> QED  BY <1>7, <5>1
      <4> DEFINE p == First(s)
      <4>2. p \in s /\ G[s] = f[p] + G[s \ {p}]
        BY <1>1, <1>3, <3>2
      <4> HIDE DEF p
      <4>3. f[p] \in Nat /\ G[s \ {p}] \in Nat
        BY <4>1, <4>2
      <4>4. ASSUME NEW x \in s PROVE G[s] = f[x] + G[s \ {x}]
        <5>1. CASE x = p
          BY <4>2, <5>1
        <5>2. CASE x # p
          <6> DEFINE both == (s \ {p}) \ {x}
          <6>1. /\ x \in s \ {p} /\ p \in s \ {x}
                /\ both = (s \ {x}) \ {p}
            BY <4>2, <5>2
          <6>2. /\ G[s \ {p}] = f[x] + G[both]
                /\ G[s \ {x}] = f[p] + G[both]
            BY <4>1, <4>2, <6>1
          <6>3. G[both] \in Nat
            <7>1. Cardinality(both) <= n /\ both \in SUBSET D
              <8>1. /\ Cardinality(s \ {p}) = Cardinality(s) - 1
                    /\ Cardinality(s) \in Nat
                BY <4>2, Subsets
              <8>2. /\ s \ {p} \in SUBSET D
                    /\ Cardinality(both) = Cardinality(s \ {p}) - 1
                BY <6>1, Subsets
              <8> QED  BY <2>0, <2>1, <8>1, <8>2
            <7>2. Right(both)
              <8> HIDE DEF Right, both
              <8> QED  BY <1>7, <7>1
            <7> QED  BY <7>2
          <6>4. f[x] \in Nat
            OBVIOUS
          <6> HIDE DEF both
          <6> QED  BY <4>2, <4>3, <6>2, <6>3, <6>4
        <5> QED  BY <5>1, <5>2
      <4>5. G[s] \in Nat
        BY <4>2, <4>3
      <4> QED  BY <4>4, <4>5
    <3> QED  BY <3>1, <3>2
  <2>2. n + 1 \in 0 .. size
    BY <1>0, <1>7
  <2> HIDE DEF Right
  <2> QED  BY <2>1, <2>2
<1>8. size \in Sized
  <2>1. size \in 0 .. size
    BY <1>0
  <2> HIDE DEF Sized, size
  <2> QED  BY <1>0, <1>6, <1>7, <2>1, UpTo
<1>9. \A s \in SUBSET D : Right(s)
  <2>1. \A s \in SUBSET D : Cardinality(s) \in 0 .. size
    BY Subsets
  <2> HIDE DEF Right
  <2> QED  BY <1>8, <2>1
<1>10. Sums(G, D, f)
  <2>1. G \in [SUBSET D -> Nat]
    BY <1>3, <1>9
  <2> QED  BY <1>5, <1>9, <2>1 DEF Sums
<1> QED  BY <1>4, <1>10

\* The sum over a set of keys depends on what those keys cost and on no other.
LEMMA SameSums ==
  ASSUME NEW D, IsFiniteSet(D), NEW f, NEW g, Sums(g, D, f),
         NEW f2, NEW g2, Sums(g2, D, f2),
         NEW s \in SUBSET D, \A x \in s : f[x] = f2[x]
  PROVE  g[s] = g2[s]
<1> DEFINE size == Cardinality(D)
           Same(q) == (\A x \in q : f[x] = f2[x]) => g[q] = g2[q]
           Sized == {n \in 0 .. size : \A q \in SUBSET D : Cardinality(q) <= n => Same(q)}
<1>0. size \in Nat
  BY Subsets
<1>1. 0 \in Sized
  <2>1. \A q \in SUBSET D : Cardinality(q) <= 0 => q = {}
    BY Subsets
  <2>2. Same({})
    BY DEF Sums
  <2> HIDE DEF Same
  <2> QED  BY <1>0, <2>1, <2>2
<1>2. ASSUME NEW n \in 0 .. size - 1, n \in Sized
      PROVE  n + 1 \in Sized
  <2>1. ASSUME NEW q \in SUBSET D, Cardinality(q) <= n + 1, \A x \in q : f[x] = f2[x]
        PROVE  g[q] = g2[q]
    <3>1. CASE q = {}
      BY <3>1 DEF Sums
    <3>2. CASE q # {}
      <4>1. PICK x \in q : TRUE
        BY <3>2
      <4>2. Cardinality(q \ {x}) <= n
        <5>1. Cardinality(q \ {x}) = Cardinality(q) - 1 /\ Cardinality(q) \in Nat /\ n \in Nat
          BY <1>2, <4>1, Subsets
        <5> QED  BY <2>1, <5>1
      <4>3. g[q \ {x}] = g2[q \ {x}]
        BY <1>2, <2>1, <4>2
      <4> QED  BY <2>1, <4>1, <4>3 DEF Sums
    <3> QED  BY <3>1, <3>2
  <2>2. n + 1 \in 0 .. size
    BY <1>0, <1>2
  <2> QED  BY <2>1, <2>2
<1>3. size \in Sized
  <2>1. size \in 0 .. size
    BY <1>0
  <2> HIDE DEF Sized, size
  <2> QED  BY <1>0, <1>1, <1>2, <2>1, UpTo
<1> QED  BY <1>3, Subsets

\* A key that costs something else moves the sum by the difference.
LEMMA SumChanges ==
  ASSUME NEW D, IsFiniteSet(D), NEW f \in [D -> Nat], NEW k \in D, NEW b \in Nat
  PROVE  /\ Total([f EXCEPT ![k] = b]) = Total(f) + b - f[k]
         /\ Total(f) \in Nat
<1> DEFINE f2 == [f EXCEPT ![k] = b]
           others == D \ {k}
<1>0. f2 \in [D -> Nat] /\ f2[k] = b /\ \A x \in others : f[x] = f2[x]
  OBVIOUS
<1> HIDE DEF f2
<1>1. PICK g : Sums(g, D, f) /\ Total(f) = g[D]
  BY SumsExist
<1>2. PICK g2 : Sums(g2, D, f2) /\ Total(f2) = g2[D]
  BY <1>0, SumsExist
<1>3. g[others] = g2[others]
  BY <1>0, <1>1, <1>2, SameSums
<1>4. g[D] = f[k] + g[others] /\ g2[D] = b + g2[others]
  BY <1>0, <1>1, <1>2 DEF Sums
<1>5. g[others] \in Nat /\ g[D] \in Nat /\ f[k] \in Nat
  BY <1>1 DEF Sums
<1>6. Total(f2) = Total(f) + b - f[k]
  BY <1>1, <1>2, <1>3, <1>4, <1>5
<1> QED  BY <1>1, <1>5, <1>6 DEF f2

\* Keys that cost nothing cost nothing together.
LEMMA SumOfNothing ==
  ASSUME NEW D, IsFiniteSet(D), NEW f \in [D -> Nat], \A k \in D : f[k] = 0
  PROVE  Total(f) = 0
<1> DEFINE g2 == [s \in SUBSET D |-> 0]
<1>1. Sums(g2, D, f)
  BY DEF Sums
<1>2. PICK g : Sums(g, D, f) /\ Total(f) = g[D]
  BY SumsExist
<1>3. g[D] = g2[D]
  <2> HIDE DEF g2
  <2> QED  BY <1>1, <1>2, SameSums
<1> QED  BY <1>2, <1>3

\* The sum over all of it is a sum in the table of any of its sums.
LEMMA SumIsInTable ==
  ASSUME NEW D, IsFiniteSet(D), NEW f \in [D -> Nat], NEW g, Sums(g, D, f)
  PROVE  Total(f) = g[D]
<1>1. PICK h : Sums(h, D, f) /\ Total(f) = h[D]
  BY SumsExist
<1> QED  BY <1>1, SameSums

\* What has no entry counts for nothing.
LEMMA SumOfSome ==
  ASSUME NEW D, IsFiniteSet(D), NEW E \in SUBSET D, NEW f \in [E -> Nat]
  PROVE  Total(f) = Total([x \in D |-> IF x \in E THEN f[x] ELSE 0])
<1> DEFINE all == [x \in D |-> IF x \in E THEN f[x] ELSE 0]
<1>1. IsFiniteSet(E) /\ all \in [D -> Nat]
  BY FS_Subset
<1>2. PICK g : Sums(g, E, f) /\ Total(f) = g[E]
  BY <1>1, SumsExist
<1> DEFINE h == [s \in SUBSET D |-> g[s \cap E]]
<1>3. h \in [SUBSET D -> Nat] /\ h[{}] = 0
  <2>1. \A s \in SUBSET D : s \cap E \in SUBSET E
    OBVIOUS
  <2>2. {} \cap E = {}
    OBVIOUS
  <2> QED  BY <1>2, <2>1, <2>2 DEF Sums
<1>4. ASSUME NEW s \in SUBSET D, NEW x \in s
      PROVE  h[s] = all[x] + h[s \ {x}]
  <2>1. h[s] = g[s \cap E] /\ h[s \ {x}] = g[(s \ {x}) \cap E]
    OBVIOUS
  <2>2. CASE x \in E
    <3>1. (s \ {x}) \cap E = (s \cap E) \ {x} /\ x \in s \cap E /\ s \cap E \in SUBSET E
      BY <2>2
    <3>2. g[s \cap E] = f[x] + g[(s \cap E) \ {x}]
      BY <1>2, <3>1 DEF Sums
    <3> QED  BY <2>1, <2>2, <3>1, <3>2
  <2>3. CASE x \notin E
    <3> DEFINE here == s \cap E
               rest == (s \ {x}) \cap E
    <3>1. rest = here /\ here \in SUBSET E
      BY <2>3
    <3>2. g[here] \in Nat
      BY <1>2, <3>1 DEF Sums
    <3>3. h[s] = g[here] /\ h[s \ {x}] = g[rest] /\ all[x] = 0
      BY <2>1, <2>3
    <3> HIDE DEF here, rest, h, all
    <3> QED  BY <3>1, <3>2, <3>3
  <2> QED  BY <2>2, <2>3
<1>5. Sums(h, D, all)
  <2> HIDE DEF h
  <2> QED  BY <1>3, <1>4 DEF Sums
<1>6. h[D] = g[E]
  <2>1. D \cap E = E
    OBVIOUS
  <2> QED  BY <2>1
<1> HIDE DEF h, all
<1>7. Total(all) = h[D]
  BY <1>1, <1>5, SumIsInTable
<1> QED  BY <1>2, <1>6, <1>7 DEF all

\* Two tables, and one more for each of some keys.
LEMMA SumOfBoth ==
  ASSUME NEW D, IsFiniteSet(D), NEW f1 \in [D -> Nat], NEW f2 \in [D -> Nat],
         NEW f \in [D -> Nat], NEW more \in SUBSET D,
         \A x \in D : f1[x] + f2[x] = f[x] + IF x \in more THEN 1 ELSE 0
  PROVE  /\ Total(f1) + Total(f2) = Total(f) + Cardinality(more)
         /\ Total(f) \in Nat /\ Cardinality(more) \in Nat
<1>1. PICK g1 : Sums(g1, D, f1) /\ Total(f1) = g1[D]
  BY SumsExist
<1>2. PICK g2 : Sums(g2, D, f2) /\ Total(f2) = g2[D]
  BY SumsExist
<1>3. PICK g : Sums(g, D, f) /\ Total(f) = g[D]
  BY SumsExist
<1> DEFINE both == [x \in D |-> f1[x] + f2[x]]
           h1 == [s \in SUBSET D |-> g1[s] + g2[s]]
           h2 == [s \in SUBSET D |-> g[s] + Cardinality(s \cap more)]
<1>4. Sums(h1, D, both)
  <2>1. h1 \in [SUBSET D -> Nat] /\ h1[{}] = 0
    BY <1>1, <1>2 DEF Sums
  <2>2. ASSUME NEW s \in SUBSET D, NEW x \in s
        PROVE  h1[s] = both[x] + h1[s \ {x}]
    <3>1. s \ {x} \in SUBSET D /\ x \in D
      OBVIOUS
    <3>2. g1[s] = f1[x] + g1[s \ {x}] /\ g2[s] = f2[x] + g2[s \ {x}]
      BY <1>1, <1>2 DEF Sums
    <3>3. g1[s \ {x}] \in Nat /\ g2[s \ {x}] \in Nat /\ f1[x] \in Nat /\ f2[x] \in Nat
      BY <1>1, <1>2, <3>1 DEF Sums
    <3>4. both[x] = f1[x] + f2[x] /\ h1[s] = g1[s] + g2[s]
          /\ h1[s \ {x}] = g1[s \ {x}] + g2[s \ {x}]
      BY <3>1
    <3> QED  BY <3>2, <3>3, <3>4
  <2> HIDE DEF h1, both
  <2> QED  BY <2>1, <2>2 DEF Sums
<1>5. \A s \in SUBSET D : Cardinality(s \cap more) \in Nat
  BY Subsets
<1>6. Sums(h2, D, both)
  <2>1. h2 \in [SUBSET D -> Nat]
    <3>1. \A s \in SUBSET D : g[s] \in Nat
      BY <1>3 DEF Sums
    <3>2. ASSUME NEW s \in SUBSET D PROVE h2[s] \in Nat
      <4> DEFINE c == Cardinality(s \cap more)
      <4>1. h2[s] = g[s] + c
        OBVIOUS
      <4>2. c \in Nat /\ g[s] \in Nat
        BY <1>5, <3>1
      <4> HIDE DEF c, h2
      <4> QED  BY <4>1, <4>2
    <3> QED  BY <3>2
  <2>2. h2[{}] = 0
    <3>1. {} \cap more = {}
      OBVIOUS
    <3> QED  BY <1>3, <3>1, FS_EmptySet DEF Sums
  <2>3. ASSUME NEW s \in SUBSET D, NEW x \in s
        PROVE  h2[s] = both[x] + h2[s \ {x}]
    <3>1. s \ {x} \in SUBSET D /\ x \in D
      OBVIOUS
    <3>2. g[s] = f[x] + g[s \ {x}] /\ g[s \ {x}] \in Nat /\ f[x] \in Nat
      BY <1>3, <3>1 DEF Sums
    <3>3. both[x] = f[x] + IF x \in more THEN 1 ELSE 0
      OBVIOUS
    <3> DEFINE here == s \cap more
               rest == (s \ {x}) \cap more
               c == Cardinality(here)
               d == Cardinality(rest)
    <3>4. c \in Nat /\ d \in Nat
      BY <1>5, <3>1
    <3>5. c = d + IF x \in more THEN 1 ELSE 0
      <4>1. here \in SUBSET D
        OBVIOUS
      <4>2. x \in more => rest = here \ {x} /\ x \in here
        OBVIOUS
      <4>3. x \notin more => rest = here
        OBVIOUS
      <4> HIDE DEF here, rest
      <4>4. x \in more => Cardinality(here \ {x}) = c - 1
        BY <4>1, <4>2, Subsets
      <4>5. x \in more => d = c - 1
        BY <4>2, <4>4
      <4>6. x \notin more => d = c
        BY <4>3
      <4> HIDE DEF c, d
      <4> QED  BY <3>4, <4>5, <4>6
    <3>6. h2[s] = g[s] + c /\ h2[s \ {x}] = g[s \ {x}] + d
      BY <3>1
    <3> HIDE DEF c, d, both, h2
    <3> QED  BY <3>2, <3>3, <3>4, <3>5, <3>6
  <2> HIDE DEF h2, both
  <2> QED  BY <2>1, <2>2, <2>3 DEF Sums
<1>7. h1[D] = h2[D]
  <2> HIDE DEF h1, h2, both
  <2> QED  BY <1>4, <1>6, SameSums
<1>8. D \cap more = more /\ Cardinality(more) \in Nat /\ g[D] \in Nat
  BY <1>3, <1>5 DEF Sums
<1>9. h1[D] = g1[D] + g2[D] /\ h2[D] = g[D] + Cardinality(D \cap more)
  OBVIOUS
<1> QED  BY <1>1, <1>2, <1>3, <1>7, <1>8, <1>9

-----------------------------------------------------------------------------
(* The event stream of a key.                                              *)

LEMMA GreatestUpTo ==
  ASSUME NEW n \in Nat, NEW S, S \subseteq 1 .. n, S # {}
  PROVE  \E m \in S : \A k \in S : k <= m
<1> DEFINE Behind == {n - k : k \in S}
<1>1. Behind \subseteq Nat /\ Behind # {}
  <2>1. \A k \in S : k \in 1 .. n /\ n - k \in Nat
    OBVIOUS
  <2>2. PICK k \in S : TRUE
    OBVIOUS
  <2>3. n - k \in Behind
    OBVIOUS
  <2> QED  BY <2>1, <2>3
<1>2. PICK b \in Behind : \A c \in Behind : b <= c
  BY <1>1, LeastOfNaturals
<1>3. PICK m \in S : b = n - m
  OBVIOUS
<1>4. ASSUME NEW k \in S PROVE k <= m
  <2>1. n - k \in Behind
    OBVIOUS
  <2>2. b <= n - k
    BY <2>1, <1>2
  <2> QED  BY <2>2, <1>3
<1> QED  BY <1>4

(***************************************************************************)
(* latestSeq() and replay() read the last commit there is (src/store.ts).  *)
(***************************************************************************)
LEMMA LastCommitIsLast ==
  ASSUME NEW S, NEW log \in Seq(S), Commits(log) # {}
  PROVE  /\ LastCommit(log) \in Commits(log)
         /\ \A j \in Commits(log) : j <= LastCommit(log)
<1>1. Len(log) \in Nat /\ Commits(log) \subseteq 1 .. Len(log)
  BY LenProperties DEF Commits
<1>2. \E i \in Commits(log) : \A j \in Commits(log) : j <= i
  BY <1>1, GreatestUpTo
<1> QED  BY <1>2 DEF LastCommit

LEMMA LatestSeqIsThere ==
  ASSUME NEW S, NEW log \in Seq(S), \A e \in S : e.seq \in Nat
  PROVE  /\ LatestSeq(log) \in Int /\ LatestSeq(log) >= EMPTY_SEQ
         /\ LatestSeq(log) = EMPTY_SEQ <=> Commits(log) = {}
         /\ Commits(log) # {} =>
              /\ LastCommit(log) \in Commits(log)
              /\ log[LastCommit(log)] \in S
              /\ LatestSeq(log) = log[LastCommit(log)].seq
<1>1. CASE Commits(log) = {}
  BY <1>1 DEF LatestSeq, EMPTY_SEQ
<1>2. CASE Commits(log) # {}
  <2>1. LastCommit(log) \in Commits(log)
    BY <1>2, LastCommitIsLast
  <2>2. log[LastCommit(log)] \in S
    BY <2>1, ElementOfSeq DEF Commits
  <2> QED  BY <1>2, <2>1, <2>2 DEF LatestSeq, EMPTY_SEQ
<1> QED  BY <1>1, <1>2

LEMMA CommitsOfAppend ==
  ASSUME NEW S, NEW log \in Seq(S), NEW e \in S
  PROVE  /\ \A i \in 1 .. Len(log) : Append(log, e)[i] = log[i]
         /\ Append(log, e)[Len(log) + 1] = e
         /\ Len(Append(log, e)) = Len(log) + 1
         /\ e.type = "transition" =>
              Commits(Append(log, e)) = Commits(log) \cup {Len(log) + 1}
         /\ e.type # "transition" => Commits(Append(log, e)) = Commits(log)
<1>1. /\ Len(log) \in Nat
      /\ Len(Append(log, e)) = Len(log) + 1
      /\ \A i \in 1 .. Len(log) : Append(log, e)[i] = log[i]
      /\ Append(log, e)[Len(log) + 1] = e
  BY LenProperties, AppendProperties
<1>2. 1 .. Len(log) + 1 = (1 .. Len(log)) \cup {Len(log) + 1}
  BY <1>1
<1>3. \A i : i \in Commits(Append(log, e)) <=>
        \/ i \in Commits(log)
        \/ i = Len(log) + 1 /\ e.type = "transition"
  BY <1>1, <1>2 DEF Commits
<1>4. e.type = "transition" =>
        Commits(Append(log, e)) = Commits(log) \cup {Len(log) + 1}
  BY <1>3
<1>5. e.type # "transition" => Commits(Append(log, e)) = Commits(log)
  BY <1>3
<1> QED  BY <1>1, <1>4, <1>5

-----------------------------------------------------------------------------

LEMMA SeqsGrow ==
  ASSUME NEW S, NEW log \in Seq(S), \A e \in S : e.seq \in Nat,
         Contiguous(log),
         NEW i \in 1 .. Len(log), NEW j \in i .. Len(log)
  PROVE  /\ log[i].seq <= log[j].seq
         /\ i < j /\ log[j].type = "transition" => log[i].seq < log[j].seq
<1>1. Len(log) \in Nat /\ \A k \in 1 .. Len(log) : log[k].seq \in Nat
  BY LenProperties, ElementOfSeq
<1>2. \A k \in 2 .. Len(log) :
        log[k].seq = IF log[k].type = "transition" THEN log[k - 1].seq + 1
                                                   ELSE log[k - 1].seq
  BY <1>1 DEF Contiguous
<1>3. \A k \in i .. Len(log) : log[i].seq <= log[k].seq
  <2> DEFINE Below == {k \in i .. Len(log) : ~(log[i].seq <= log[k].seq)}
  <2> SUFFICES ASSUME Below # {} PROVE FALSE
    OBVIOUS
  <2>1. Below \subseteq Nat
    BY <1>1
  <2>2. PICK m \in Below : \A k \in Below : m <= k
    BY <2>1, LeastOfNaturals
  <2>3. m > i /\ m \in 2 .. Len(log) /\ m - 1 \in i .. Len(log)
    BY <2>2, <1>1
  <2>4. m - 1 \notin Below
    BY <2>2, <2>3
  <2>5. log[i].seq <= log[m - 1].seq
    BY <2>3, <2>4
  <2>6. m - 1 \in 1 .. Len(log)
    BY <2>3
  <2>7. log[m - 1].seq <= log[m].seq
    <3>1. /\ log[m].seq = IF log[m].type = "transition"
                            THEN log[m - 1].seq + 1 ELSE log[m - 1].seq
          /\ log[m - 1].seq \in Nat
      BY <1>1, <1>2, <2>3, <2>6
    <3> QED  BY <3>1
  <2>8. /\ log[i].seq \in Nat /\ log[m].seq \in Nat
        /\ log[m - 1].seq \in Nat /\ ~(log[i].seq <= log[m].seq)
    BY <1>1, <2>2, <2>3, <2>6
  <2> QED  BY <2>5, <2>7, <2>8
<1>4. ASSUME i < j, log[j].type = "transition"
      PROVE  log[i].seq < log[j].seq
  <2>1. j \in 2 .. Len(log) /\ j - 1 \in i .. Len(log) /\ j - 1 \in 1 .. Len(log)
    BY <1>1, <1>4
  <2>2. log[j].seq = log[j - 1].seq + 1
    BY <1>2, <1>4, <2>1
  <2>3. log[i].seq <= log[j - 1].seq
    BY <1>3, <2>1
  <2>4. log[i].seq \in Nat /\ log[j - 1].seq \in Nat
    BY <1>1, <2>1
  <2> QED  BY <2>2, <2>3, <2>4
<1> QED  BY <1>3, <1>4

(***************************************************************************)
(* In a well-formed stream a sequence names one commit, the last commit    *)
(* has the greatest one, and the notes after it carry it.                  *)
(***************************************************************************)
LEMMA SeqNamesACommit ==
  ASSUME NEW S, NEW log \in Seq(S), \A e \in S : e.seq \in Nat,
         Contiguous(log)
  PROVE  /\ \A i, j \in Commits(log) : log[i].seq = log[j].seq => i = j
         /\ \A i \in 1 .. Len(log) : log[i].seq <= LatestSeq(log)
         /\ log # <<>> => log[Len(log)].seq = LatestSeq(log)
         /\ log # <<>> => Commits(log) # {}
<1>1. Len(log) \in Nat /\ \A k \in 1 .. Len(log) : log[k].seq \in Nat
  BY LenProperties, ElementOfSeq
<1>2. \A i, j \in Commits(log) : log[i].seq = log[j].seq => i = j
  <2> SUFFICES ASSUME NEW i \in Commits(log), NEW j \in Commits(log), i < j
               PROVE  log[i].seq # log[j].seq
    BY <1>1 DEF Commits
  <2>1. /\ i \in 1 .. Len(log) /\ j \in i .. Len(log) /\ j \in 1 .. Len(log)
        /\ log[j].type = "transition"
    BY <1>1 DEF Commits
  <2>2. log[i].seq < log[j].seq
    BY <2>1, SeqsGrow
  <2> QED  BY <1>1, <2>1, <2>2
<1>3. ASSUME log # <<>>
      PROVE  Commits(log) # {} /\ log[Len(log)].seq = LatestSeq(log)
  <2>1. Len(log) \in 1 .. Len(log) /\ 1 \in 1 .. Len(log)
    BY <1>1, <1>3, EmptySeq
  <2>2. 1 \in Commits(log)
    BY <2>1 DEF Contiguous, Commits
  <2> DEFINE last == LastCommit(log)
  <2>3. /\ last \in Commits(log)
        /\ \A j \in Commits(log) : j <= last
        /\ LatestSeq(log) = log[last].seq
    BY <2>2, LastCommitIsLast, LatestSeqIsThere
  <2> HIDE DEF last
  <2> DEFINE After == {k \in last .. Len(log) : log[k].seq # log[last].seq}
  <2>4. After = {}
    <3> SUFFICES ASSUME After # {} PROVE FALSE
      OBVIOUS
    <3>1. After \subseteq Nat
      BY <1>1, <2>3 DEF Commits
    <3>2. PICK m \in After : \A k \in After : m <= k
      BY <3>1, LeastOfNaturals
    <3>3. /\ m > last /\ m - 1 \in last .. Len(log) /\ m \in 2 .. Len(log)
          /\ m - 1 \in 1 .. Len(log)
      BY <1>1, <2>3, <3>2 DEF Commits
    <3>4. log[m - 1].seq = log[last].seq
      <4>1. m - 1 \notin After
        BY <3>2, <3>3
      <4> QED  BY <3>3, <4>1
    <3>5. log[m].type # "transition"
      BY <2>3, <3>3 DEF Commits
    <3>6. log[m].seq = log[m - 1].seq
      BY <1>1, <3>3, <3>5 DEF Contiguous
    <3> QED  BY <3>2, <3>4, <3>6
  <2>5. Len(log) \in last .. Len(log)
    BY <1>1, <2>3 DEF Commits
  <2>6. log[Len(log)].seq = log[last].seq
    BY <2>4, <2>5
  <2> QED  BY <2>2, <2>3, <2>6
<1>4. ASSUME NEW i \in 1 .. Len(log)
      PROVE  log[i].seq <= LatestSeq(log)
  <2>1. Len(log) \in i .. Len(log) /\ log # <<>>
    BY <1>1, EmptySeq
  <2>2. log[i].seq <= log[Len(log)].seq
    BY <2>1, SeqsGrow
  <2> QED  BY <1>3, <2>1, <2>2
<1> QED  BY <1>2, <1>3, <1>4

(***************************************************************************)
(* What a conditional append preserves: an event whose sequence follows    *)
(* from the one it is conditioned on keeps the stream well formed.         *)
(***************************************************************************)
LEMMA ContiguousAppend ==
  ASSUME NEW S, NEW log \in Seq(S), NEW e \in S,
         \A x \in S : x.seq \in Nat, Contiguous(log),
         e.seq = IF e.type = "transition" THEN LatestSeq(log) + 1
                                          ELSE LatestSeq(log)
  PROVE  Contiguous(Append(log, e))
<1>1. /\ Len(log) \in Nat
      /\ \A i \in 1 .. Len(log) : Append(log, e)[i] = log[i]
      /\ Append(log, e)[Len(log) + 1] = e
      /\ Len(Append(log, e)) = Len(log) + 1
  BY LenProperties, CommitsOfAppend
<1> DEFINE grown == Append(log, e)
<1>2. CASE log = <<>>
  <2>1. LatestSeq(log) = EMPTY_SEQ /\ Len(log) = 0
    BY <1>2 DEF LatestSeq, Commits
  <2>2. e.type = "transition" /\ e.seq = EMPTY_SEQ + 1
    BY <2>1 DEF EMPTY_SEQ
  <2>3. grown[1] = e /\ Len(grown) = 1
    BY <1>1, <2>1
  <2> QED  BY <2>2, <2>3 DEF Contiguous
<1>3. CASE log # <<>>
  <2>1. log[Len(log)].seq = LatestSeq(log) /\ Len(log) >= 1
    BY <1>1, <1>3, SeqNamesACommit, EmptySeq
  <2>2. /\ grown[Len(log) + 1] = e /\ grown[Len(log)] = log[Len(log)]
        /\ \A i \in 1 .. Len(log) : grown[i] = log[i]
        /\ Len(grown) = Len(log) + 1
    BY <1>1, <2>1
  <2> HIDE DEF grown
  <2>3. ASSUME NEW i \in 1 .. Len(grown)
        PROVE  LET before == IF i = 1 THEN EMPTY_SEQ ELSE grown[i - 1].seq
               IN  /\ i = 1 => grown[i].type = "transition"
                   /\ grown[i].seq = IF grown[i].type = "transition"
                                       THEN before + 1 ELSE before
    <3>1. CASE i = Len(log) + 1
      BY <1>1, <2>1, <2>2, <3>1
    <3>2. CASE i \in 1 .. Len(log)
      <4>1. grown[i] = log[i] /\ (i # 1 => grown[i - 1] = log[i - 1])
        BY <1>1, <2>2, <3>2
      <4> QED  BY <4>1, <3>2 DEF Contiguous
    <3> QED  BY <1>1, <2>2, <3>1, <3>2
  <2> QED  BY <2>3 DEF Contiguous, grown
<1> QED  BY <1>2, <1>3

(***************************************************************************)
(* A commit that leaves the state the latest commit entered keeps the      *)
(* commits of a stream chained.                                            *)
(***************************************************************************)
LEMMA ChainedAppend ==
  ASSUME NEW S, NEW log \in Seq(S), NEW e \in S,
         \A x \in S : x.seq \in Nat, Contiguous(log), Chained(log),
         e.type = "transition" =>
           /\ e.seq = LatestSeq(log) + 1
           /\ \A k \in Commits(log) : log[k].seq = LatestSeq(log) => e.from = log[k].to
  PROVE  Chained(Append(log, e))
<1> DEFINE grown == Append(log, e)
<1>1. /\ \A i \in Commits(log) : /\ grown[i] = log[i] /\ log[i].seq \in Nat
                                 /\ log[i].seq <= LatestSeq(log)
      /\ grown[Len(log) + 1] = e
      /\ LatestSeq(log) \in Int
  <2>1. \A i \in 1 .. Len(log) : log[i].seq \in Nat
    BY ElementOfSeq
  <2>2. LatestSeq(log) \in Int
    BY LatestSeqIsThere
  <2> QED  BY <2>1, <2>2, CommitsOfAppend, SeqNamesACommit DEF Commits
<1>2. CASE e.type # "transition"
  <2>1. Commits(grown) = Commits(log)
    BY <1>2, CommitsOfAppend
  <2> HIDE DEF grown
  <2>2. Chained(grown)
    BY <1>1, <2>1 DEF Chained
  <2> QED  BY <2>2 DEF grown
<1>3. CASE e.type = "transition"
  <2>1. Commits(grown) = Commits(log) \cup {Len(log) + 1}
    BY <1>3, CommitsOfAppend
  <2> HIDE DEF grown
  <2> SUFFICES ASSUME NEW i \in Commits(grown), NEW j \in Commits(grown),
                      grown[j].seq = grown[i].seq + 1
               PROVE  grown[j].from = grown[i].to
    BY DEF Chained, grown
  <2>2. CASE i \in Commits(log) /\ j \in Commits(log)
    BY <1>1, <2>2 DEF Chained
  <2>3. CASE i \in Commits(log) /\ j = Len(log) + 1
    BY <1>1, <1>3, <2>3
  <2>4. CASE i = Len(log) + 1 /\ j \in Commits(log)
    BY <1>1, <1>3, <2>4
  <2>5. CASE i = Len(log) + 1 /\ j = Len(log) + 1
    BY <1>1, <1>3, <2>5
  <2> QED  BY <2>1, <2>2, <2>3, <2>4, <2>5
<1> QED  BY <1>2, <1>3

=============================================================================
