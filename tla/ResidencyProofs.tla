-------------------------- MODULE ResidencyProofs --------------------------
(***************************************************************************)
(* Proofs about Residency, for any triggers, keys, states and budgets.     *)
(***************************************************************************)
EXTENDS Residency, DataProofs

-----------------------------------------------------------------------------
(* What eviction makes of memory, key by key.                              *)

\* The fold of #evictToFit, from one picture of memory to the next.
EvictsThrough(recs, base, keys) ==
  FoldLeft(LAMBDA m, k : MakesRoom(recs, m, k), base, keys)

\* The pictures m that eviction goes through, one after each key.
IsTrace(m, recs, base, keys) ==
  /\ m[0] = base
  /\ \A i \in 1 .. Len(keys) : m[i] = MakesRoom(recs, m[i - 1], keys[i])
  /\ EvictsThrough(recs, base, keys) = m[Len(keys)]

LEMMA EvictionFolds ==
  ASSUME NEW recs, NEW base, NEW keys \in Seq(Key)
  PROVE  \E m : IsTrace(m, recs, base, keys)
<1> DEFINE last == Len(keys)
           Next1(g, s) == IF s = {} THEN base
                          ELSE MakesRoom(recs, g[s \ {Max(s)}], keys[Max(s)])
           IsFoldOn(g, D) == g = [s \in SUBSET D |-> Next1(g, s)]
           IsFold(g, n) == IsFoldOn(g, 1 .. n)
<1>0. last \in Nat
  OBVIOUS
<1>1. \A n \in 0 .. last : \E g : IsFold(g, n)
  <2> DEFINE Good == {n \in 0 .. last : \E g : IsFold(g, n)}
  <2>1. 0 \in Good
    <3> DEFINE g0 == [s \in SUBSET (1 .. 0) |-> base]
    <3>1. SUBSET (1 .. 0) = {{}}
      OBVIOUS
    <3>2. \A s \in SUBSET (1 .. 0) : Next1(g0, s) = base
      BY <3>1
    <3>3. IsFold(g0, 0)
      BY <3>2
    <3> QED  BY <1>0, <3>3
  <2>2. ASSUME NEW n \in 0 .. last - 1, n \in Good
        PROVE  n + 1 \in Good
    <3>1. PICK g : IsFold(g, n)
      BY <2>2
    <3> DEFINE top == MakesRoom(recs, g[1 .. n], keys[n + 1])
               h == [s \in SUBSET (1 .. n + 1) |->
                       IF n + 1 \in s
                         THEN MakesRoom(recs, g[s \ {n + 1}], keys[n + 1])
                         ELSE g[s]]
    <3>2. ASSUME NEW s \in SUBSET (1 .. n + 1)
          PROVE  h[s] = Next1(h, s)
      <4>1. CASE n + 1 \in s
        <5>1. Max(s) = n + 1
          BY <2>2, <4>1, GreatestOfInterval
        <5>2. s \ {n + 1} \in SUBSET (1 .. n) /\ s \ {n + 1} \in SUBSET (1 .. n + 1)
          BY <2>2
        <5>3. h[s \ {n + 1}] = g[s \ {n + 1}]
          BY <5>2
        <5> QED  BY <4>1, <5>1, <5>3
      <4>2. CASE n + 1 \notin s
        <5>1. s \in SUBSET (1 .. n)
          BY <2>2, <4>2
        <5>2. h[s] = Next1(g, s)
          BY <3>1, <4>2, <5>1
        <5>3. CASE s # {}
          <6>1. s \ {Max(s)} \in SUBSET (1 .. n) /\ s \ {Max(s)} \in SUBSET (1 .. n + 1)
                /\ n + 1 \notin s \ {Max(s)}
            BY <5>1, <4>2
          <6>2. h[s \ {Max(s)}] = g[s \ {Max(s)}]
            BY <6>1
          <6> QED  BY <5>2, <5>3, <6>2
        <5> QED  BY <5>2, <5>3
      <4> QED  BY <4>1, <4>2
    <3>3. IsFold(h, n + 1)
      BY <3>2
    <3>4. n + 1 \in 0 .. last
      BY <1>0, <2>2
    <3> QED  BY <3>3, <3>4
  <2> HIDE DEF Good
  <2>3. \A n \in 0 .. last : n \in Good
    BY <1>0, <2>1, <2>2, UpTo
  <2> QED  BY <2>3 DEF Good
<1> DEFINE G == CHOOSE g : IsFoldOn(g, DOMAIN keys)
<1>2. G = [s \in SUBSET (1 .. last) |-> Next1(G, s)]
  <2>1. DOMAIN keys = 1 .. last
    OBVIOUS
  <2>2. \E g : IsFoldOn(g, DOMAIN keys)
    <3> HIDE DEF IsFoldOn
    <3>1. PICK g : IsFoldOn(g, 1 .. last)
      <4>1. last \in 0 .. last
        BY <1>0
      <4> HIDE DEF last
      <4> QED  BY <1>1, <4>1
    <3>2. IsFoldOn(g, DOMAIN keys)
      BY <2>1, <3>1
    <3> QED  BY <3>2
  <2> HIDE DEF IsFoldOn
  <2>3. IsFoldOn(G, DOMAIN keys)
    BY <2>2
  <2> QED  BY <2>1, <2>3 DEF IsFoldOn
<1>3. EvictsThrough(recs, base, keys) = G[1 .. last]
  <2>1. EvictsThrough(recs, base, keys) = G[DOMAIN keys]
    BY DEF EvictsThrough, FoldLeft, MapThenFoldSet
  <2> QED  BY <2>1
<1> HIDE DEF G
<1>4. G[1 .. 0] = base
  BY <1>0, <1>2
<1>5. ASSUME NEW i \in 1 .. last
      PROVE  G[1 .. i] = MakesRoom(recs, G[1 .. i - 1], keys[i])
  <2>1. 1 .. i \in SUBSET (1 .. last) /\ 1 .. i - 1 \in SUBSET (1 .. last)
        /\ i \in 1 .. i
    BY <1>0
  <2>2. Max(1 .. i) = i
    BY <1>0 DEF Max
  <2>3. (1 .. i) \ {i} = 1 .. i - 1
    BY <1>0
  <2> QED  BY <1>2, <2>1, <2>2, <2>3
<1> DEFINE m == [i \in 0 .. last |-> G[1 .. i]]
<1>6. m[0] = base /\ m[last] = G[1 .. last]
  BY <1>0, <1>4
<1>7. \A i \in 1 .. last : m[i] = MakesRoom(recs, m[i - 1], keys[i])
  BY <1>0, <1>5
<1> HIDE DEF m
<1> QED  BY <1>3, <1>6, <1>7 DEF IsTrace

-----------------------------------------------------------------------------
(* What the keys cost together.                                            *)

\* The sum that TablesInStep compares the running total with.
SumOf(f) == MapThenSumSet(LAMBDA k : f[k], Key)

LEMMA SumIsTotal ==
  ASSUME NEW f \in [Key -> Nat]
  PROVE  SumOf(f) = Total(f)
<1>1. DOMAIN f = Key
  OBVIOUS
<1>2. Total(f) = FoldFunctionOnSet(LAMBDA x, y : x + y, 0, f, Key)
  BY <1>1 DEF Total, FoldFunction
<1> QED  BY <1>2 DEF SumOf, MapThenSumSet, FoldFunctionOnSet, MapThenFoldSet

\* A key that costs something else moves the sum by the difference.
LEMMA CostChanges ==
  ASSUME NEW f \in [Key -> Nat], NEW k \in Key, NEW b \in Nat
  PROVE  /\ SumOf([f EXCEPT ![k] = b]) = SumOf(f) + b - f[k]
         /\ SumOf(f) \in Nat
BY KeyAssumption, SumChanges, SumIsTotal

\* Keys that cost nothing cost nothing together.
LEMMA FreeKeys ==
  ASSUME NEW f \in [Key -> Nat], \A k \in Key : f[k] = 0
  PROVE  SumOf(f) = 0
BY KeyAssumption, SumOfNothing, SumIsTotal

-----------------------------------------------------------------------------
(* The order of use, in which a key stands once.                           *)

InUse(s) == s \in Seq(Key) /\ IsInjective(s)

\* A sequence without the position i of it.
LEMMA WithoutPosition ==
  ASSUME NEW s, InUse(s), NEW i \in 1 .. Len(s)
  PROVE  /\ InUse(RemoveAt(s, i))
         /\ ToSet(RemoveAt(s, i)) = ToSet(s) \ {s[i]}
<1> DEFINE n == Len(s)
           r == RemoveAt(s, i)
<1>0. s \in Seq(Key) /\ n \in Nat /\ i \in Nat /\ i <= n /\ DOMAIN s = 1 .. n
  BY DEF InUse
<1> DEFINE before == SubSeq(s, 1, i - 1)
           after == SubSeq(s, i + 1, n)
<1>1. /\ before \in Seq(Key) /\ Len(before) = i - 1
      /\ \A j \in 1 .. i - 1 : before[j] = s[j]
  BY <1>0, SubSeqProperties
<1>2. /\ after \in Seq(Key) /\ Len(after) = n - i
      /\ \A j \in 1 .. n - i : after[j] = s[i + j]
  <2>1. \A j \in i + 1 .. n : s[j] \in Key
    BY <1>0
  <2>2. /\ after \in Seq(Key)
        /\ Len(after) = IF i + 1 <= n THEN n - (i + 1) + 1 ELSE 0
        /\ \A j \in 1 .. n - (i + 1) + 1 : after[j] = s[(i + 1) + j - 1]
    BY <1>0, <2>1, SubSeqProperties
  <2> HIDE DEF after
  <2>3. Len(after) = n - i
    <3> HIDE DEF n
    <3> QED  BY <1>0, <2>2
  <2>4. ASSUME NEW j \in 1 .. n - i PROVE after[j] = s[i + j]
    <3>1. j \in 1 .. n - (i + 1) + 1 /\ (i + 1) + j - 1 = i + j
      <4> HIDE DEF n
      <4> QED  BY <1>0, <2>4
    <3> QED  BY <2>2, <3>1
  <2> QED  BY <2>2, <2>3, <2>4
<1>3. /\ r \in Seq(Key) /\ Len(r) = n - 1
      /\ \A j \in 1 .. n - 1 : r[j] = IF j < i THEN s[j] ELSE s[j + 1]
  <2> HIDE DEF before, after
  <2>1. /\ before \o after \in Seq(Key) /\ Len(before \o after) = n - 1
        /\ \A j \in 1 .. n - 1 : (before \o after)[j] =
              IF j <= i - 1 THEN before[j] ELSE after[j - (i - 1)]
    <3>1. Len(before) + Len(after) = n - 1
      BY <1>0, <1>1, <1>2
    <3>2. /\ before \o after \in Seq(Key)
          /\ Len(before \o after) = Len(before) + Len(after)
          /\ \A j \in 1 .. Len(before) + Len(after) : (before \o after)[j] =
                IF j <= Len(before) THEN before[j] ELSE after[j - Len(before)]
      BY <1>1, <1>2, ConcatProperties
    <3> QED  BY <1>1, <3>1, <3>2
  <2>2. r = before \o after
    BY DEF RemoveAt, before, after
  <2>3. ASSUME NEW j \in 1 .. n - 1
        PROVE  r[j] = IF j < i THEN s[j] ELSE s[j + 1]
    <3>1. CASE j < i
      BY <1>0, <1>1, <2>1, <2>2, <3>1
    <3>2. CASE ~(j < i)
      <4>1. j - (i - 1) \in 1 .. n - i /\ i + (j - (i - 1)) = j + 1
        BY <1>0, <3>2
      <4> QED  BY <1>0, <1>2, <2>1, <2>2, <3>2, <4>1
    <3> QED  BY <3>1, <3>2
  <2> HIDE DEF r
  <2> QED  BY <2>1, <2>2, <2>3
<1> HIDE DEF r
<1>4. \A a, b \in 1 .. n : s[a] = s[b] => a = b
  BY <1>0 DEF InUse, IsInjective
<1>5. IsInjective(r)
  BY <1>0, <1>3, <1>4 DEF IsInjective
<1>6. ASSUME NEW x \in ToSet(r) PROVE x \in ToSet(s) \ {s[i]}
  <2>1. PICK j \in 1 .. n - 1 : x = r[j]
    BY <1>3, <1>6 DEF ToSet
  <2>2. PICK p \in 1 .. n : x = s[p] /\ p # i
    BY <1>0, <1>3, <2>1
  <2> QED  BY <1>0, <1>4, <2>2 DEF ToSet
<1>7. ASSUME NEW x \in ToSet(s) \ {s[i]} PROVE x \in ToSet(r)
  <2>1. PICK j \in 1 .. n : x = s[j]
    BY <1>0, <1>7 DEF ToSet
  <2>2. CASE j < i
    BY <1>0, <1>3, <2>1, <2>2 DEF ToSet
  <2>3. CASE j > i
    <3>1. j - 1 \in 1 .. n - 1 /\ r[j - 1] = s[j]
      BY <1>0, <1>3, <2>1, <2>3
    <3> QED  BY <1>3, <2>1, <3>1 DEF ToSet
  <2> QED  BY <1>0, <1>7, <2>1, <2>2, <2>3
<1> QED  BY <1>3, <1>5, <1>6, <1>7 DEF InUse, r

LEMMA WithoutKey ==
  ASSUME NEW s, InUse(s), NEW k
  PROVE  /\ InUse(RemoveFirst(s, k))
         /\ ToSet(RemoveFirst(s, k)) = ToSet(s) \ {k}
<1>1. CASE \E i \in 1 .. Len(s) : s[i] = k
  <2> DEFINE at == SelectInSeq(s, LAMBDA v : v = k)
             I == {i \in 1 .. Len(s) : s[i] = k}
  <2>1. at \in 1 .. Len(s) /\ s[at] = k
    <3>1. at = Min(I)
      BY <1>1 DEF SelectInSeq
    <3>2. \E m \in I : \A n \in I : m <= n
      <4>1. I \subseteq Nat /\ I # {}
        BY <1>1
      <4> HIDE DEF I
      <4> QED  BY <4>1, LeastOfNaturals
    <3>3. Min(I) \in I
      <4> HIDE DEF I
      <4> QED  BY <3>2 DEF Min
    <3> QED  BY <3>1, <3>3
  <2>2. RemoveFirst(s, k) = RemoveAt(s, at)
    BY <1>1 DEF RemoveFirst
  <2> HIDE DEF at
  <2> QED  BY <2>1, <2>2, WithoutPosition
<1>2. CASE ~ \E i \in 1 .. Len(s) : s[i] = k
  <2>1. RemoveFirst(s, k) = s
    BY <1>2 DEF RemoveFirst
  <2>2. k \notin ToSet(s)
    BY <1>2 DEF ToSet, InUse
  <2> QED  BY <2>1, <2>2
<1> QED  BY <1>1, <1>2

LEMMA MostRecent ==
  ASSUME NEW s, InUse(s), NEW k \in Key
  PROVE  /\ InUse(Append(RemoveFirst(s, k), k))
         /\ ToSet(Append(RemoveFirst(s, k), k)) = ToSet(s) \cup {k}
<1> DEFINE r == RemoveFirst(s, k)
           u == Append(r, k)
<1>1. InUse(r) /\ ToSet(r) = ToSet(s) \ {k}
  BY WithoutKey
<1> HIDE DEF r
<1>2. /\ r \in Seq(Key) /\ Len(r) \in Nat /\ DOMAIN r = 1 .. Len(r)
      /\ \A a, b \in 1 .. Len(r) : r[a] = r[b] => a = b
  BY <1>1 DEF InUse, IsInjective
<1>3. /\ u \in Seq(Key) /\ Len(u) = Len(r) + 1
      /\ \A j \in 1 .. Len(r) : u[j] = r[j]
      /\ u[Len(r) + 1] = k
  BY <1>2
<1>4. \A j \in 1 .. Len(r) : r[j] # k
  BY <1>1, <1>2 DEF ToSet
<1> HIDE DEF u
<1>5. IsInjective(u)
  BY <1>2, <1>3, <1>4 DEF IsInjective
<1>6. ToSet(u) = ToSet(r) \cup {k}
  <2>1. ASSUME NEW x \in ToSet(u) PROVE x \in ToSet(r) \cup {k}
    BY <1>2, <1>3, <2>1 DEF ToSet
  <2>2. ASSUME NEW x \in ToSet(r) PROVE x \in ToSet(u)
    BY <1>2, <1>3, <2>2 DEF ToSet
  <2>3. k \in ToSet(u)
    BY <1>2, <1>3 DEF ToSet
  <2> QED  BY <2>1, <2>2, <2>3
<1> QED  BY <1>1, <1>3, <1>5, <1>6 DEF InUse, u, r

-----------------------------------------------------------------------------
(* What the variables hold.                                                *)

Written == {CommitBy(t) : t \in Trigger}

Authors == {InitialValues} \cup Written

Given == Authors \cup {NoCommit}

\* What a load or a snapshot tells of a key: nothing, or a state it was in.
Pictures == {NoSnapshot} \cup [seq : Nat, state : State, by : Authors]

\* Only an initialization is for a stream that is not there.
Writes ==
  {InitWrite} \cup [to : State, by : Written, on : Given, expected : Nat]

Phases == {"idle", "hydrating", "hydrated", "initializing", "reloading",
           "reloaded", "failing", "handling", "writing"}

Records ==
  [key : Key \cup {None}, state : State, seq : Nat, by : Authors,
   hydration : {"none", "running", "done", "failed"}, stale : BOOLEAN,
   loaded : Pictures, queue : Seq(Trigger), pc : Phases,
   token : [seq : Nat, by : Given], chain : Seq(Writes)]

Held ==
  [resident : [Key -> Trigger \cup {None}], order : Seq(Key),
   bytes : [Key -> Nat], total : Int, index : [Key -> State \cup {None}]]

\* No initialization is on the way.
NoInit(chain) == \A i \in 1 .. Len(chain) : chain[i] # InitWrite

\* A record with a key, a turn under way, and nothing to wait for.
Busy(r) ==
  /\ r \in Records
  /\ r.key \in Key
  /\ r.queue # <<>>
  /\ NoInit(r.chain)

\* A turn is under way exactly as long as a trigger is queued, and an
\* initialization is the last write of the turn that waits for it.
Sane(r) ==
  /\ r \in Records
  /\ r.pc = "idle" <=> r.queue = <<>>
  /\ r.pc # "idle" \/ r.chain # <<>> => r.key \in Key
  /\ \A i \in 1 .. Len(r.chain) :
       r.chain[i] = InitWrite => i = Len(r.chain) /\ r.pc = "initializing"

\* The ledger adds up.
Ledger(h) ==
  /\ InUse(h.order)
  /\ h.total = SumOf(h.bytes)

TypeOK ==
  /\ config \in Configs
  /\ record \in [Trigger -> Records]
  /\ \A r \in Trigger : Sane(record[r])
  /\ held \in Held /\ Ledger(held)
  /\ outcome \in [Trigger -> {"unsent", "pending", "committed", "failed"}]
  /\ log \in [Key -> Seq([to : State, by : Authors, on : Given])]
  /\ snapshot \in [Key -> Pictures]
  /\ pending \in [Key -> {NoForget} \cup [record : Trigger, ahead : Nat]]
  /\ forgets \in Nat
  /\ faults \in Nat

\* The three tables hold the same keys, and no other key costs anything.
Together(h) ==
  \A k \in Key :
    /\ (h.resident[k] # None) <=> (h.index[k] # None)
    /\ (h.resident[k] # None) <=> (k \in ToSet(h.order))
    /\ h.resident[k] = None => h.bytes[k] = 0

\* What is in the table was made for the key, by a send().
Named ==
  \A k \in Key : Resident(k) # None =>
    record[Resident(k)].key = k /\ outcome[Resident(k)] # "unsent"

\* A busy record is at home, and a forget() waits for an idle one.
AtHome ==
  /\ \A r \in Trigger : record[r].pc # "idle" => Resident(record[r].key) = r
  /\ \A k \in Key : pending[k] # NoForget /\ Resident(k) # None => Idle(k)
  /\ \A t \in Trigger : outcome[t] = "unsent" => record[t] = Fresh(None)

\* A runtime whose application waits for its forget() calls.
Waits == \A c \in Configs : ~c.overlaps

-----------------------------------------------------------------------------
(* What becomes of a record when a turn starts, goes on or ends.           *)

\* The commits of a record stay where they are.
Keeps(r, after) ==
  /\ after.key = r.key /\ after.state = r.state /\ after.seq = r.seq
  /\ after.by = r.by /\ after.chain = r.chain /\ after.loaded = r.loaded

LEMMA ReadyIsSane ==
  ASSUME NEW r, Busy(r)
  PROVE  /\ Sane(Ready(r)) /\ Keeps(r, Ready(r))
         /\ Ready(r).pc = "handling"
<1>1. r \in Records /\ r.seq \in Nat /\ r.by \in Given
  BY DEF Busy, Records, Given
<1>2. Ready(r) \in Records
  BY <1>1 DEF Ready, Records, Phases
<1>3. Keeps(r, Ready(r)) /\ Ready(r).pc = "handling" /\ Ready(r).queue = r.queue
  BY <1>1 DEF Ready, Records, Keeps
<1> QED  BY <1>2, <1>3 DEF Busy, Sane, Keeps, NoInit

LEMMA BegunIsSane ==
  ASSUME NEW r, Busy(r)
  PROVE  /\ Sane(Begun(r)) /\ Keeps(r, Begun(r))
         /\ Begun(r).pc # "idle"
<1>1. r \in Records
  BY DEF Busy
<1>2. CASE r.stale
  <2>1. Begun(r) = [r EXCEPT !.pc = "reloading"]
    BY <1>2 DEF Begun
  <2>2. Begun(r) \in Records /\ Keeps(r, Begun(r))
        /\ Begun(r).pc = "reloading" /\ Begun(r).queue = r.queue
    BY <1>1, <2>1 DEF Records, Phases, Keeps
  <2> QED  BY <2>2 DEF Busy, Sane, Keeps, NoInit
<1>3. CASE ~r.stale /\ r.hydration = "none"
  <2>1. Begun(r) = [r EXCEPT !.pc = "hydrating", !.hydration = "running"]
    BY <1>3 DEF Begun
  <2>2. Begun(r) \in Records /\ Keeps(r, Begun(r))
        /\ Begun(r).pc = "hydrating" /\ Begun(r).queue = r.queue
    BY <1>1, <2>1 DEF Records, Phases, Keeps
  <2> QED  BY <2>2 DEF Busy, Sane, Keeps, NoInit
<1>4. CASE ~r.stale /\ r.hydration = "failed"
  <2>1. Begun(r) = [r EXCEPT !.pc = "failing"]
    BY <1>4 DEF Begun
  <2>2. Begun(r) \in Records /\ Keeps(r, Begun(r))
        /\ Begun(r).pc = "failing" /\ Begun(r).queue = r.queue
    BY <1>1, <2>1 DEF Records, Phases, Keeps
  <2> QED  BY <2>2 DEF Busy, Sane, Keeps, NoInit
<1>5. CASE ~r.stale /\ r.hydration # "none" /\ r.hydration # "failed"
  <2>1. Begun(r) = Ready(r)
    BY <1>5 DEF Begun
  <2> QED  BY <2>1, ReadyIsSane
<1> QED  BY <1>2, <1>3, <1>4, <1>5

LEMMA AdvancedIsSane ==
  ASSUME NEW r, Busy(r)
  PROVE  Sane(Advanced(r)) /\ Keeps(r, Advanced(r))
<1> DEFINE rest == [r EXCEPT !.queue = Tail(@)]
<1>1. r \in Records /\ r.queue \in Seq(Trigger) /\ r.queue # <<>>
  BY DEF Busy, Records
<1>2. Tail(r.queue) \in Seq(Trigger)
  BY <1>1
<1>3. rest \in Records /\ Keeps(r, rest) /\ rest.queue = Tail(r.queue)
  BY <1>1, <1>2 DEF Records, Keeps
<1>4. CASE rest.queue = <<>>
  <2>1. Advanced(r) = [rest EXCEPT !.pc = "idle"]
    BY <1>4 DEF Advanced
  <2> HIDE DEF rest
  <2>2. Advanced(r) \in Records /\ Keeps(rest, Advanced(r))
        /\ Advanced(r).pc = "idle" /\ Advanced(r).queue = <<>>
    BY <1>3, <1>4, <2>1 DEF Records, Phases, Keeps
  <2>3. Keeps(r, Advanced(r))
    BY <1>3, <2>2 DEF Keeps
  <2> QED  BY <2>2, <2>3 DEF Busy, Sane, Keeps, NoInit
<1>5. CASE rest.queue # <<>>
  <2>1. Advanced(r) = Begun(rest)
    BY <1>5 DEF Advanced
  <2> HIDE DEF rest
  <2>2. Busy(rest)
    BY <1>3, <1>5 DEF Busy, Keeps
  <2> QED  BY <1>3, <2>1, <2>2, BegunIsSane DEF Keeps
<1> QED  BY <1>4, <1>5

LEMMA EnqueuedIsSane ==
  ASSUME NEW r, Sane(r), r.key \in Key, NEW t \in Trigger
  PROVE  /\ Sane(Enqueued(r, t)) /\ Keeps(r, Enqueued(r, t))
         /\ Enqueued(r, t).pc # "idle"
<1> DEFINE queued == [r EXCEPT !.queue = Append(@, t)]
<1>1. r \in Records /\ r.queue \in Seq(Trigger)
  BY DEF Sane, Records
<1>2. Append(r.queue, t) \in Seq(Trigger) /\ Append(r.queue, t) # <<>>
  BY <1>1, AppendProperties
<1>3. queued \in Records /\ Keeps(r, queued) /\ queued.queue # <<>>
      /\ queued.pc = r.pc
  BY <1>1, <1>2 DEF Records, Keeps
<1> HIDE DEF queued
<1>4. CASE r.pc = "idle"
  <2>1. Enqueued(r, t) = Begun(queued)
    BY <1>4 DEF Enqueued, queued
  <2>2. Busy(queued)
    BY <1>3, <1>4 DEF Busy, Keeps, Sane, NoInit
  <2> QED  BY <1>3, <2>1, <2>2, BegunIsSane DEF Keeps
<1>5. CASE r.pc # "idle"
  <2>1. Enqueued(r, t) = queued
    BY <1>5 DEF Enqueued, queued
  <2> QED  BY <1>3, <1>5, <2>1 DEF Sane, Keeps
<1> QED  BY <1>4, <1>5

-----------------------------------------------------------------------------
(* What becomes of memory when a key costs something, moves or is released. *)

\* Memory that is well formed.
Kept(h) == h \in Held /\ Ledger(h)

LEMMA CostsFit ==
  ASSUME NEW h, Kept(h), NEW k \in Key, NEW b \in Nat
  PROVE  /\ Kept(Costs(h, k, b))
         /\ Costs(h, k, b).resident = h.resident
         /\ Costs(h, k, b).index = h.index
         /\ ToSet(Costs(h, k, b).order) = ToSet(h.order) \cup {k}
         /\ Costs(h, k, b).bytes = [h.bytes EXCEPT ![k] = b]
<1> DEFINE c == Costs(h, k, b)
<1>1. /\ h \in Held /\ InUse(h.order) /\ h.bytes \in [Key -> Nat]
      /\ h.total = SumOf(h.bytes)
  BY DEF Kept, Ledger, Held
<1>2. /\ c.resident = h.resident /\ c.index = h.index
      /\ c.order = Append(RemoveFirst(h.order, k), k)
      /\ c.bytes = [h.bytes EXCEPT ![k] = b]
      /\ c.total = h.total + b - h.bytes[k]
  BY <1>1 DEF Costs, Held
<1>3. InUse(c.order) /\ ToSet(c.order) = ToSet(h.order) \cup {k}
  BY <1>1, <1>2, MostRecent
<1>4. c.total = SumOf(c.bytes) /\ c.total \in Int /\ c.bytes \in [Key -> Nat]
  <2>1. /\ SumOf([h.bytes EXCEPT ![k] = b]) = SumOf(h.bytes) + b - h.bytes[k]
        /\ SumOf(h.bytes) \in Nat
    BY <1>1, CostChanges
  <2> QED  BY <1>1, <1>2, <2>1
<1>5. c \in Held
  <2>1. /\ Append(RemoveFirst(h.order, k), k) \in Seq(Key)
        /\ h.total + b - h.bytes[k] \in Int
    BY <1>2, <1>3, <1>4 DEF InUse
  <2> QED  BY <1>1, <2>1 DEF Costs, Held
<1> HIDE DEF c
<1> QED  BY <1>2, <1>3, <1>4, <1>5 DEF Kept, Ledger, c

LEMMA EntersFit ==
  ASSUME NEW h, Kept(h), NEW k \in Key, NEW s \in State \cup {None}
  PROVE  LET e == [h EXCEPT !.index[k] = s]
         IN  /\ Kept(e)
             /\ e.resident = h.resident /\ e.order = h.order
             /\ e.bytes = h.bytes /\ e.total = h.total
             /\ e.index = [h.index EXCEPT ![k] = s]
  BY DEF Kept, Held, Ledger

LEMMA ReleasedFits ==
  ASSUME NEW h, Kept(h), NEW k \in Key
  PROVE  /\ Kept(Released(h, k))
         /\ Released(h, k).resident = [h.resident EXCEPT ![k] = None]
         /\ Released(h, k).index = [h.index EXCEPT ![k] = None]
         /\ ToSet(Released(h, k).order) = ToSet(h.order) \ {k}
         /\ Released(h, k).bytes = [h.bytes EXCEPT ![k] = 0]
         /\ Released(h, k).total = h.total - h.bytes[k]
<1> DEFINE c == Released(h, k)
<1>1. /\ h \in Held /\ InUse(h.order) /\ h.bytes \in [Key -> Nat]
      /\ h.total = SumOf(h.bytes)
  BY DEF Kept, Ledger, Held
<1>2. /\ c.resident = [h.resident EXCEPT ![k] = None]
      /\ c.index = [h.index EXCEPT ![k] = None]
      /\ c.order = RemoveFirst(h.order, k)
      /\ c.bytes = [h.bytes EXCEPT ![k] = 0]
      /\ c.total = h.total - h.bytes[k]
  <2> DEFINE h1 == [h EXCEPT !.resident[k] = None]
             h2 == Refunded(h1, k)
  <2>1. /\ h1 \in Held /\ h1.resident = [h.resident EXCEPT ![k] = None]
        /\ h1.index = h.index /\ h1.order = h.order /\ h1.bytes = h.bytes
        /\ h1.total = h.total
    BY <1>1 DEF Held
  <2> HIDE DEF h1
  <2>2. /\ h2.resident = h1.resident /\ h2.index = h1.index
        /\ h2.order = RemoveFirst(h1.order, k)
        /\ h2.bytes = [h1.bytes EXCEPT ![k] = 0]
        /\ h2.total = h1.total - h1.bytes[k]
        /\ DOMAIN h2 = {"resident", "order", "bytes", "total", "index"}
    BY <2>1 DEF Refunded, Held
  <2> HIDE DEF h2
  <2>3. c = [h2 EXCEPT !.index[k] = None]
    BY DEF Released, Removed, h1, h2
  <2> QED  BY <2>1, <2>2, <2>3
<1>3. InUse(c.order) /\ ToSet(c.order) = ToSet(h.order) \ {k}
  BY <1>1, <1>2, WithoutKey
<1>4. c.total = SumOf(c.bytes) /\ c.total \in Int /\ c.bytes \in [Key -> Nat]
  <2>1. /\ SumOf([h.bytes EXCEPT ![k] = 0]) = SumOf(h.bytes) + 0 - h.bytes[k]
        /\ SumOf(h.bytes) \in Nat
    BY <1>1, CostChanges
  <2> QED  BY <1>1, <1>2, <2>1
<1>5. c.resident \in [Key -> Trigger \cup {None}] /\ c.index \in [Key -> State \cup {None}]
  BY <1>1, <1>2 DEF Held
<1>6. c \in Held
  <2> DEFINE o == RemoveFirst(h.order, k)
             u == h.total - h.bytes[k]
  <2>1. o \in Seq(Key) /\ u \in Int
    BY <1>2, <1>3, <1>4 DEF InUse
  <2>2. c = [[[[[h EXCEPT !.resident[k] = None] EXCEPT !.order = o]
                 EXCEPT !.total = u] EXCEPT !.bytes[k] = 0] EXCEPT !.index[k] = None]
    BY <1>1 DEF Released, Refunded, Removed, Held
  <2> HIDE DEF c, o, u
  <2> QED  BY <1>1, <2>1, <2>2 DEF Held
<1> HIDE DEF c
<1> QED  BY <1>2, <1>3, <1>4, <1>6 DEF Kept, Ledger, c

LEMMA ReleasedTogether ==
  ASSUME NEW h, Kept(h), Together(h), NEW k \in Key
  PROVE  Together(Released(h, k))
<1>1. h.resident \in [Key -> Trigger \cup {None}] /\ h.index \in [Key -> State \cup {None}]
      /\ h.bytes \in [Key -> Nat]
  BY DEF Kept, Held
<1> DEFINE c == Released(h, k)
<1>2. /\ c.resident = [h.resident EXCEPT ![k] = None]
      /\ c.index = [h.index EXCEPT ![k] = None]
      /\ ToSet(c.order) = ToSet(h.order) \ {k}
      /\ c.bytes = [h.bytes EXCEPT ![k] = 0]
  BY ReleasedFits
<1> HIDE DEF c
<1>3. Together(c)
  BY <1>1, <1>2 DEF Together
<1> QED  BY <1>3 DEF c

LEMMA MaterializedFits ==
  ASSUME NEW h, Kept(h), NEW k \in Key, NEW r \in Trigger
  PROVE  /\ Kept(Materialized(h, k, r))
         /\ Materialized(h, k, r).resident = [h.resident EXCEPT ![k] = r]
         /\ Together(h) => Together(Materialized(h, k, r))
<1> DEFINE h1 == [h EXCEPT !.resident[k] = r]
           h2 == Costs(h1, k, Bytes[Initial])
           h3 == [h2 EXCEPT !.index[k] = Initial]
<1>1. /\ Kept(h1) /\ h1.resident = [h.resident EXCEPT ![k] = r]
      /\ h1.index = h.index /\ h1.order = h.order /\ h1.bytes = h.bytes
  BY DEF Kept, Held, Ledger
<1>2. Bytes[Initial] \in Nat
  BY BytesAssumption, StateAssumption
<1> HIDE DEF h1
<1>3. /\ Kept(h2) /\ h2.resident = h1.resident /\ h2.index = h1.index
      /\ ToSet(h2.order) = ToSet(h1.order) \cup {k}
      /\ h2.bytes = [h1.bytes EXCEPT ![k] = Bytes[Initial]]
  <2> DEFINE b == Bytes[Initial]
  <2>1. Kept(h1) /\ b \in Nat
    BY <1>1, <1>2
  <2> HIDE DEF b, h2
  <2>2. /\ Kept(Costs(h1, k, b))
        /\ Costs(h1, k, b).resident = h1.resident
        /\ Costs(h1, k, b).index = h1.index
        /\ ToSet(Costs(h1, k, b).order) = ToSet(h1.order) \cup {k}
        /\ Costs(h1, k, b).bytes = [h1.bytes EXCEPT ![k] = b]
    BY <2>1, CostsFit
  <2>3. h2 = Costs(h1, k, b)
    BY DEF h2, b
  <2> QED  BY <2>2, <2>3 DEF b
<1> HIDE DEF h2
<1>4. /\ Kept(h3) /\ h3.resident = h2.resident /\ h3.order = h2.order
      /\ h3.bytes = h2.bytes /\ h3.index = [h2.index EXCEPT ![k] = Initial]
  BY <1>3, StateAssumption, EntersFit
<1>5. Materialized(h, k, r) = h3
  BY DEF Materialized, Enters, h1, h2
<1> HIDE DEF h3
<1>6. ASSUME Together(h) PROVE Together(h3)
  <2>1. r # None /\ Initial # None
    BY NoneAssumption, StateAssumption
  <2>2. h.resident \in [Key -> Trigger \cup {None}] /\ h.index \in [Key -> State \cup {None}]
        /\ h.bytes \in [Key -> Nat]
    BY DEF Kept, Held
  <2> QED  BY <1>1, <1>3, <1>4, <1>6, <2>1, <2>2 DEF Together
<1> QED  BY <1>1, <1>3, <1>4, <1>5, <1>6

-----------------------------------------------------------------------------
(* Eviction: it lets go of idle instances, and leaves their pictures behind. *)

LEMMA PicturesOfRecords ==
  ASSUME NEW r \in Records
  PROVE  Picture(r) \in Pictures /\ Picture(r) # NoSnapshot
  BY DEF Records, Pictures, Picture, NoSnapshot

LEMMA NewerPictures ==
  ASSUME NEW p \in Pictures, NEW q \in Pictures
  PROVE  Newer(p, q) \in Pictures
  BY DEF Newer

\* What has become of one key of h, with the snapshot s0 of it.
Spared(h, s0, m, k) ==
  /\ m.held.resident[k] = h.resident[k]
  /\ m.held.index[k] = h.index[k]
  /\ m.snapshot[k] = s0[k]

LetGo(recs, h, s0, m, k) ==
  /\ h.resident[k] # None
  /\ recs[h.resident[k]].pc = "idle"
  /\ m.held.resident[k] = None
  /\ m.held.index[k] = None
  /\ m.snapshot[k] = Newer(s0[k], Picture(recs[h.resident[k]]))

\* A picture of memory and of the snapshots that h and s0 may be drained to.
Drained(recs, h, s0, m) ==
  /\ Kept(m.held)
  /\ Together(h) => Together(m.held)
  /\ m.snapshot \in [Key -> Pictures]
  /\ \A k \in Key : Spared(h, s0, m, k) \/ LetGo(recs, h, s0, m, k)

\* There is nothing to let go of.
Empty(recs, m, k) ==
  m.held.resident[k] = None \/ recs[m.held.resident[k]].pc # "idle"

LEMMA EvictionStep ==
  ASSUME NEW recs \in [Trigger -> Records], NEW h, Kept(h),
         NEW s0 \in [Key -> Pictures],
         NEW m, Drained(recs, h, s0, m), NEW k \in Key
  PROVE  LET after == MakesRoom(recs, m, k)
         IN  /\ Drained(recs, h, s0, after)
             /\ ~Over(m.held) => after = m
             /\ ~Over(after.held) \/ Empty(recs, after, k)
             /\ \A x \in Key : Empty(recs, m, x) => Empty(recs, after, x)
<1> DEFINE after == MakesRoom(recs, m, k)
           w == m.held.resident[k]
<1>0. /\ Kept(m.held) /\ m.held.resident \in [Key -> Trigger \cup {None}]
      /\ m.held.index \in [Key -> State \cup {None}]
      /\ m.snapshot \in [Key -> Pictures]
  BY DEF Drained, Kept, Held
<1>1. CASE ~Over(m.held) \/ w = None \/ recs[w].pc # "idle"
  <2>1. after = m
    BY <1>1 DEF MakesRoom, Evictable
  <2>2. ~Over(after.held) \/ Empty(recs, after, k)
    BY <1>1, <2>1 DEF Empty
  <2> QED  BY <2>1, <2>2
<1>2. CASE Over(m.held) /\ w # None /\ recs[w].pc = "idle"
  <2>1. w \in Trigger /\ Picture(recs[w]) \in Pictures
    BY <1>0, <1>2, PicturesOfRecords
  <2> DEFINE p == Newer(m.snapshot[k], Picture(recs[w]))
             h2 == Released(m.held, k)
  <2>2. p \in Pictures
    BY <1>0, <2>1, NewerPictures
  <2>3. after = [held |-> h2, snapshot |-> [m.snapshot EXCEPT ![k] = p]]
    BY <1>2 DEF MakesRoom, Evictable, Evicted
  <2>4. /\ Kept(h2) /\ h2.resident = [m.held.resident EXCEPT ![k] = None]
        /\ h2.index = [m.held.index EXCEPT ![k] = None]
    BY <1>0, ReleasedFits
  <2>5. Together(h) => Together(h2)
    BY <1>0, ReleasedTogether DEF Drained
  <2>6. /\ h.resident[k] = w /\ m.snapshot[k] = s0[k]
    BY <1>2 DEF Drained, Spared, LetGo
  <2>7. after.held = h2 /\ after.snapshot = [m.snapshot EXCEPT ![k] = p]
    BY <2>3
  <2> HIDE DEF h2, after
  <2>8. after.snapshot \in [Key -> Pictures]
    BY <1>0, <2>2, <2>7
  <2>9. after.held.resident[k] = None /\ after.held.index[k] = None /\ after.snapshot[k] = p
    BY <1>0, <2>4, <2>7
  <2>10. \A x \in Key \ {k} : /\ after.held.resident[x] = m.held.resident[x]
                              /\ after.held.index[x] = m.held.index[x]
                              /\ after.snapshot[x] = m.snapshot[x]
    BY <1>0, <2>4, <2>7
  <2>11. LetGo(recs, h, s0, after, k)
    BY <1>2, <2>6, <2>9 DEF LetGo
  <2>12. \A x \in Key \ {k} : Spared(h, s0, after, x) \/ LetGo(recs, h, s0, after, x)
    BY <2>10 DEF Drained, Spared, LetGo
  <2>13. Drained(recs, h, s0, after)
    BY <2>4, <2>5, <2>7, <2>8, <2>11, <2>12 DEF Drained
  <2>14. \A x \in Key : Empty(recs, m, x) => Empty(recs, after, x)
    BY <2>9, <2>10 DEF Empty
  <2>15. Empty(recs, after, k)
    BY <2>9 DEF Empty
  <2> QED  BY <1>2, <2>13, <2>14, <2>15 DEF after
<1> QED  BY <1>1, <1>2

LEMMA Eviction ==
  ASSUME NEW recs \in [Trigger -> Records], NEW h, Kept(h),
         snapshot \in [Key -> Pictures]
  PROVE  /\ Drained(recs, h, snapshot, EvictToFit(recs, h))
         /\ \/ ~Over(EvictToFit(recs, h).held)
            \/ \A k \in ToSet(h.order) : Empty(recs, EvictToFit(recs, h), k)
<1> DEFINE base == [held |-> h, snapshot |-> snapshot]
           keys == h.order
           last == Len(keys)
<1>1. keys \in Seq(Key) /\ last \in Nat /\ \A i \in 1 .. last : keys[i] \in Key
  BY DEF Kept, Ledger, InUse
<1>2. PICK m : /\ m[0] = base
               /\ \A i \in 1 .. last : m[i] = MakesRoom(recs, m[i - 1], keys[i])
               /\ EvictsThrough(recs, base, keys) = m[last]
  <2> HIDE DEF base, keys
  <2>1. PICK m : IsTrace(m, recs, base, keys)
    BY <1>1, EvictionFolds
  <2> QED  BY <2>1 DEF IsTrace
<1>3. EvictToFit(recs, h) = m[last]
  BY <1>2 DEF EvictToFit, EvictsThrough
<1>4. base.held = h /\ base.snapshot = snapshot
  OBVIOUS
<1> HIDE DEF base, keys
<1> DEFINE Fine(i) == /\ Drained(recs, h, snapshot, m[i])
                      /\ \/ ~Over(m[i].held)
                         \/ \A j \in 1 .. i : Empty(recs, m[i], keys[j])
           Good == {i \in 0 .. last : Fine(i)}
<1>5. 0 \in Good
  <2>1. Drained(recs, h, snapshot, base)
    BY <1>4 DEF Drained, Spared
  <2> QED  BY <1>1, <1>2, <2>1
<1>6. ASSUME NEW i \in 0 .. last - 1, i \in Good
      PROVE  i + 1 \in Good
  <2>1. /\ i + 1 \in 1 .. last /\ i + 1 \in 0 .. last /\ (i + 1) - 1 = i
        /\ 1 .. i \subseteq 1 .. last /\ 1 .. i + 1 = (1 .. i) \cup {i + 1}
    BY <1>1, <1>6
  <2> DEFINE k == keys[i + 1]
             before == m[i]
             after == MakesRoom(recs, before, k)
  <2>2. m[i + 1] = after /\ k \in Key
    BY <1>1, <1>2, <2>1
  <2>3. Drained(recs, h, snapshot, before)
        /\ (~Over(before.held) \/ \A j \in 1 .. i : Empty(recs, before, keys[j]))
    BY <1>6
  <2> HIDE DEF before, k
  <2>4. /\ Drained(recs, h, snapshot, after)
        /\ ~Over(before.held) => after = before
        /\ ~Over(after.held) \/ Empty(recs, after, k)
        /\ \A x \in Key : Empty(recs, before, x) => Empty(recs, after, x)
    BY <2>2, <2>3, EvictionStep
  <2> HIDE DEF after
  <2>5. ~Over(after.held) \/ \A j \in 1 .. i + 1 : Empty(recs, after, keys[j])
    BY <1>1, <2>1, <2>3, <2>4 DEF k
  <2>6. Fine(i + 1)
    BY <2>2, <2>4, <2>5
  <2> HIDE DEF Fine
  <2> QED  BY <2>1, <2>6
<1>7. Fine(last)
  <2>1. last \in 0 .. last
    BY <1>1
  <2> HIDE DEF Fine, last
  <2>2. last \in Nat
    BY <1>1 DEF last
  <2>3. last \in {i \in 0 .. last : Fine(i)}
    <3> HIDE DEF Good
    <3>1. \A i \in 0 .. last : i \in Good
      BY <1>5, <1>6, <2>2, UpTo
    <3> QED  BY <2>1, <3>1 DEF Good
  <2> QED  BY <2>3
<1>8. ASSUME NEW k \in ToSet(h.order) PROVE \E j \in 1 .. last : keys[j] = k
  BY <1>1, <1>8 DEF ToSet, keys
<1> QED  BY <1>3, <1>7, <1>8

-----------------------------------------------------------------------------
(* Every step keeps the types.                                             *)

LEMMA InitTyped == Init => TypeOK
<1> SUFFICES ASSUME Init PROVE TypeOK
  OBVIOUS
<1>1. Fresh(None) \in Records /\ Fresh(None).pc = "idle" /\ Fresh(None).queue = <<>>
      /\ Fresh(None).chain = <<>>
  BY StateAssumption
  DEF Fresh, Records, Pictures, Phases, NoToken, Given, Authors, NoSnapshot
<1>2. Sane(Fresh(None))
  BY <1>1 DEF Sane
<1>3. Nothing \in Held /\ InUse(Nothing.order)
  BY DEF Nothing, Held, InUse, IsInjective
<1>4. Nothing.total = SumOf(Nothing.bytes)
  BY FreeKeys DEF Nothing
<1>5. Kept(Nothing)
  BY <1>3, <1>4 DEF Kept, Ledger
<1> QED  BY <1>1, <1>2, <1>5 DEF Init, TypeOK, Kept, Pictures

\* What a step that changes one record has to show of it.
LEMMA RecordTyped ==
  ASSUME TypeOK, NEW r \in Trigger, NEW x, Sane(x),
         record' = [record EXCEPT ![r] = x]
  PROVE  /\ record' \in [Trigger -> Records]
         /\ \A q \in Trigger : Sane(record'[q])
  BY DEF TypeOK, Sane

LEMMA TurnEndsTyped ==
  ASSUME TypeOK, NEW r \in Trigger, NEW after, Busy(after),
         NEW result \in {"committed", "failed"}, NEW h, Kept(h),
         TurnEnds(r, after, result, h)
  PROVE  /\ record' = [record EXCEPT ![r] = Advanced(after)]
         /\ record' \in [Trigger -> Records]
         /\ \A q \in Trigger : Sane(record'[q])
         /\ Sane(Advanced(after)) /\ Keeps(after, Advanced(after))
         /\ Kept(held')
         /\ outcome' = [outcome EXCEPT ![Head(after.queue)] = result]
         /\ outcome' \in [Trigger -> {"unsent", "pending", "committed", "failed"}]
         /\ snapshot' \in [Key -> Pictures]
<1>1. record' = [record EXCEPT ![r] = Advanced(after)]
  BY DEF TurnEnds
<1>2. Sane(Advanced(after)) /\ Keeps(after, Advanced(after))
  BY AdvancedIsSane
<1>3. record' \in [Trigger -> Records] /\ \A q \in Trigger : Sane(record'[q])
  BY <1>1, <1>2, RecordTyped
<1>4. outcome' = [outcome EXCEPT ![Head(after.queue)] = result]
  BY DEF TurnEnds
<1>5. outcome' \in [Trigger -> {"unsent", "pending", "committed", "failed"}]
  BY <1>4 DEF TypeOK
<1> DEFINE recs == [record EXCEPT ![r] = Advanced(after)]
           fit == EvictToFit(recs, h)
<1>6. Drained(recs, h, snapshot, fit)
  <2>1. recs \in [Trigger -> Records] /\ snapshot \in [Key -> Pictures]
    BY <1>1, <1>3 DEF TypeOK
  <2> HIDE DEF recs
  <2> QED  BY <2>1, Eviction
<1>7. /\ held' = h \/ held' = fit.held
      /\ snapshot' = snapshot \/ snapshot' = fit.snapshot
  BY DEF TurnEnds
<1>8. Kept(held') /\ snapshot' \in [Key -> Pictures]
  <2> HIDE DEF fit, recs
  <2> QED  BY <1>6, <1>7 DEF Drained, TypeOK
<1> QED  BY <1>1, <1>2, <1>3, <1>4, <1>5, <1>8

LEMMA SendTyped ==
  ASSUME TypeOK, Named, NEW t \in Trigger, NEW k \in Key, Send(t, k)
  PROVE  TypeOK'
<1>0. Kept(held) /\ held.resident \in [Key -> Trigger \cup {None}]
  BY DEF TypeOK, Kept, Held
<1>1. CASE SendResident(t, k)
  <2> DEFINE r == Resident(k)
             x == Enqueued(record[r], t)
  <2>1. r \in Trigger /\ Sane(record[r]) /\ record[r].key \in Key
    BY <1>0, <1>1 DEF SendResident, TypeOK, Resident, Named
  <2>2. record' = [record EXCEPT ![r] = x]
    BY <1>1 DEF SendResident
  <2>3. Sane(x)
    BY <2>1, EnqueuedIsSane
  <2> HIDE DEF x, r
  <2>4. record' \in [Trigger -> Records] /\ \A q \in Trigger : Sane(record'[q])
    BY <2>1, <2>2, <2>3, RecordTyped
  <2> QED  BY <1>1, <2>4 DEF SendResident, TypeOK, store
<1>2. CASE SendNew(t, k)
  <2> DEFINE x == Enqueued(Fresh(k), t)
  <2>1. Sane(Fresh(k)) /\ Fresh(k).key = k
    <3>1. Fresh(k) \in Records /\ Fresh(k).pc = "idle" /\ Fresh(k).queue = <<>>
          /\ Fresh(k).chain = <<>> /\ Fresh(k).key = k
      BY StateAssumption
      DEF Fresh, Records, Pictures, Phases, NoToken, Given, Authors, NoSnapshot
    <3> QED  BY <3>1 DEF Sane
  <2>2. Sane(x)
    BY <2>1, EnqueuedIsSane
  <2>3. record' = [record EXCEPT ![t] = x] /\ held' = Materialized(held, k, t)
    BY <1>2 DEF SendNew
  <2>4. Kept(held')
    BY <1>0, <2>3, MaterializedFits
  <2> HIDE DEF x
  <2>5. record' \in [Trigger -> Records] /\ \A q \in Trigger : Sane(record'[q])
    BY <2>2, <2>3, RecordTyped
  <2> QED  BY <1>2, <2>4, <2>5 DEF SendNew, TypeOK, store, Kept
<1>3. CASE SendRefused(t, k)
  BY <1>3 DEF SendRefused, TypeOK, store
<1> QED  BY <1>1, <1>2, <1>3 DEF Send

LEMMA LoadedTyped ==
  ASSUME TypeOK, NEW k \in Key
  PROVE  Loaded(k) \in Pictures
<1> DEFINE s == log[k]
<1>1. s \in Seq([to : State, by : Authors, on : Given]) /\ snapshot[k] \in Pictures
  BY DEF TypeOK
<1>2. CASE s # <<>> /\ DurableSeq(k) > snapshot[k].seq
  <2>1. /\ Len(s) \in Nat /\ Len(s) > 0 /\ Last(s) = s[Len(s)]
        /\ s[Len(s)] \in [to : State, by : Authors, on : Given]
    <3>1. s # <<>>
      BY <1>2
    <3> HIDE DEF s
    <3>2. Len(s) \in Nat /\ Len(s) # 0
      BY <1>1, <3>1, EmptySeq
    <3>3. Len(s) > 0 /\ Len(s) \in 1 .. Len(s)
      BY <3>2
    <3>4. s[Len(s)] \in [to : State, by : Authors, on : Given]
      BY <1>1, <3>3, ElementOfSeq
    <3> QED  BY <3>2, <3>3, <3>4 DEF Last
  <2>2. Loaded(k) = [seq |-> Len(s) - 1, state |-> Last(s).to, by |-> Last(s).by]
    BY <1>2 DEF Loaded, StoredCommit, DurableSeq
  <2> HIDE DEF s
  <2> QED  BY <2>1, <2>2 DEF Pictures
<1>3. CASE ~(s # <<>> /\ DurableSeq(k) > snapshot[k].seq)
  BY <1>1, <1>3 DEF Loaded, Pictures
<1> QED  BY <1>2, <1>3

\* A record whose turn is under way, and which waits for no initialization.
LEMMA BusyRecords ==
  ASSUME NEW r, Sane(r), r.pc \notin {"idle", "initializing"}
  PROVE  Busy(r)
  BY DEF Sane, Busy, NoInit

LEMMA AdoptingTyped ==
  ASSUME NEW r, Busy(r), r.loaded # NoSnapshot
  PROVE  /\ Sane(Adopting(r)) /\ Adopting(r).key = r.key
         /\ Adopting(r).pc = "handling" /\ Adopting(r).chain = r.chain
         /\ Adopting(r).state = r.loaded.state /\ Adopting(r).seq = r.loaded.seq
         /\ Adopting(r).by = r.loaded.by
<1> DEFINE x == [r EXCEPT !.state = r.loaded.state, !.seq = r.loaded.seq,
                          !.by = r.loaded.by, !.loaded = NoSnapshot]
<1>1. r \in Records /\ r.loaded \in [seq : Nat, state : State, by : Authors]
  BY DEF Busy, Records, Pictures
<1>2. x \in Records
  BY <1>1 DEF Records, Pictures
<1>3. /\ x.key = r.key /\ x.queue = r.queue /\ x.chain = r.chain
      /\ x.state = r.loaded.state /\ x.seq = r.loaded.seq /\ x.by = r.loaded.by
  BY <1>1 DEF Records
<1>4. Adopting(r) = Ready(x)
  BY DEF Adopting
<1> HIDE DEF x
<1>5. Busy(x)
  BY <1>2, <1>3 DEF Busy
<1> QED  BY <1>3, <1>4, <1>5, ReadyIsSane DEF Keeps

LEMMA LoadsTyped ==
  ASSUME TypeOK, NEW r \in Trigger, Loads(r)
  PROVE  TypeOK'
<1>0. Kept(held) /\ Sane(record[r]) /\ record[r] \in Records
  BY DEF TypeOK, Kept, Sane
<1>1. CASE StoreLoad(r)
  <2> DEFINE l == Loaded(record[r].key)
             x == [record[r] EXCEPT
                     !.pc = IF @ = "hydrating" THEN "hydrated" ELSE "reloaded",
                     !.loaded = l]
  <2>1. Busy(record[r]) /\ record[r].key \in Key
    BY <1>0, <1>1, BusyRecords DEF StoreLoad, Busy
  <2>2. l \in Pictures
    BY <2>1, LoadedTyped
  <2>3. record' = [record EXCEPT ![r] = x]
    BY <1>1 DEF StoreLoad
  <2> HIDE DEF l
  <2>4. /\ x \in Records /\ x.key = record[r].key /\ x.queue = record[r].queue
        /\ x.chain = record[r].chain /\ x.pc # "idle"
    BY <1>0, <2>2 DEF Records, Phases
  <2> HIDE DEF x
  <2>5. Sane(x)
    BY <2>1, <2>4 DEF Sane, Busy, NoInit
  <2>6. record' \in [Trigger -> Records] /\ \A q \in Trigger : Sane(record'[q])
    BY <2>3, <2>5, RecordTyped
  <2> QED  BY <1>1, <2>6 DEF StoreLoad, TypeOK, store
<1>2. CASE Hydrate(r) /\ IsGone(r)
  <2> DEFINE c == Append(record[r].chain, InitWrite)
             x == [record[r] EXCEPT !.chain = Append(@, InitWrite),
                                    !.pc = "initializing"]
  <2>1. Busy(record[r]) /\ record[r].chain \in Seq(Writes)
    BY <1>0, <1>2, BusyRecords DEF Hydrate, Records
  <2>2. InitWrite \in Writes
    BY DEF Writes
  <2>3. /\ c \in Seq(Writes) /\ Len(c) = Len(record[r].chain) + 1
        /\ \A i \in 1 .. Len(record[r].chain) : c[i] = record[r].chain[i]
    BY <2>1, <2>2, AppendProperties
  <2>4. record' = [record EXCEPT ![r] = x]
    BY <1>2 DEF Hydrate
  <2>8. x = [record[r] EXCEPT !.pc = "initializing", !.chain = c]
    BY <1>0 DEF Records
  <2> HIDE DEF c, x
  <2>5. /\ x \in Records /\ x.key = record[r].key /\ x.queue = record[r].queue
        /\ x.chain = c /\ x.pc = "initializing"
    BY <1>0, <2>3, <2>8 DEF Records, Phases
  <2>6. Sane(x)
    <3>1. Len(record[r].chain) \in Nat
      BY <2>1
    <3> QED  BY <2>1, <2>3, <2>5, <3>1 DEF Sane, Busy, NoInit
  <2>7. record' \in [Trigger -> Records] /\ \A q \in Trigger : Sane(record'[q])
    BY <2>4, <2>6, RecordTyped
  <2> QED  BY <1>2, <2>7 DEF Hydrate, TypeOK, store
<1>3. ASSUME NEW y, Busy(y), y.loaded = record[r].loaded, y.key = record[r].key,
             record' = [record EXCEPT ![r] = Adopting(y)], ~IsGone(r),
             held' = Enters(held, record[r].key, record[r].loaded.state)
      PROVE  /\ record' \in [Trigger -> Records]
             /\ \A q \in Trigger : Sane(record'[q])
             /\ Kept(held')
  <2>1. y.loaded # NoSnapshot
    BY <1>3 DEF IsGone
  <2>2. Sane(Adopting(y))
    BY <1>3, <2>1, AdoptingTyped
  <2>3. record' \in [Trigger -> Records] /\ \A q \in Trigger : Sane(record'[q])
    BY <1>3, <2>2, RecordTyped
  <2>4. record[r].key \in Key /\ record[r].loaded.state \in State
    BY <1>3, <2>1 DEF Busy, Records, Pictures
  <2>5. Kept(held')
    BY <1>0, <1>3, <2>4, EntersFit DEF Enters
  <2> QED  BY <2>3, <2>5
<1>4. CASE Hydrate(r) /\ ~IsGone(r)
  <2> DEFINE y == [record[r] EXCEPT !.hydration = "done"]
  <2>1. Busy(record[r])
    BY <1>0, <1>4, BusyRecords DEF Hydrate
  <2>2. /\ y \in Records /\ y.key = record[r].key /\ y.queue = record[r].queue
        /\ y.chain = record[r].chain /\ y.loaded = record[r].loaded
    BY <1>0 DEF Records
  <2>3. /\ record' = [record EXCEPT ![r] = Adopting(y)]
        /\ held' = Enters(held, record[r].key, record[r].loaded.state)
    BY <1>4 DEF Hydrate
  <2> HIDE DEF y
  <2>4. Busy(y)
    BY <2>1, <2>2 DEF Busy
  <2>5. /\ record' \in [Trigger -> Records] /\ Kept(held')
        /\ \A q \in Trigger : Sane(record'[q])
    BY <1>3, <1>4, <2>2, <2>3, <2>4
  <2> QED  BY <1>4, <2>5 DEF Hydrate, TypeOK, store, Kept
<1>5. CASE Reload(r) /\ ~IsGone(r)
  <2> DEFINE y == [record[r] EXCEPT !.stale = FALSE]
  <2>1. Busy(record[r])
    BY <1>0, <1>5, BusyRecords DEF Reload
  <2>2. /\ y \in Records /\ y.key = record[r].key /\ y.queue = record[r].queue
        /\ y.chain = record[r].chain /\ y.loaded = record[r].loaded
    BY <1>0 DEF Records
  <2>3. /\ record' = [record EXCEPT ![r] = Adopting(y)]
        /\ held' = Enters(held, record[r].key, record[r].loaded.state)
    BY <1>5 DEF Reload
  <2> HIDE DEF y
  <2>4. Busy(y)
    BY <2>1, <2>2 DEF Busy
  <2>5. /\ record' \in [Trigger -> Records] /\ Kept(held')
        /\ \A q \in Trigger : Sane(record'[q])
    BY <1>3, <1>5, <2>2, <2>3, <2>4
  <2> QED  BY <1>5, <2>5 DEF Reload, TypeOK, store, Kept
<1>6. CASE Reload(r) /\ IsGone(r)
  <2> DEFINE x == [record[r] EXCEPT
                     !.state = Initial, !.seq = 0, !.by = InitialValues,
                     !.stale = FALSE, !.hydration = "running", !.pc = "hydrating"]
  <2>1. Busy(record[r])
    BY <1>0, <1>6, BusyRecords DEF Reload
  <2>2. record' = [record EXCEPT ![r] = x]
    BY <1>6 DEF Reload
  <2>3. /\ x \in Records /\ x.key = record[r].key /\ x.queue = record[r].queue
        /\ x.chain = record[r].chain /\ x.pc = "hydrating"
    BY <1>0, StateAssumption DEF Records, Phases, Authors
  <2> HIDE DEF x
  <2>4. Sane(x)
    BY <2>1, <2>3 DEF Sane, Busy, NoInit
  <2>5. record' \in [Trigger -> Records] /\ \A q \in Trigger : Sane(record'[q])
    BY <2>2, <2>4, RecordTyped
  <2> QED  BY <1>6, <2>5 DEF Reload, TypeOK, store
<1>7. CASE LoadFails(r)
  <2> DEFINE x == IF record[r].pc = "reloading" THEN record[r]
                  ELSE [record[r] EXCEPT !.hydration = "failed"]
  <2>1. Busy(record[r])
    BY <1>0, <1>7, BusyRecords DEF LoadFails
  <2>2. /\ x \in Records /\ x.key = record[r].key /\ x.queue = record[r].queue
        /\ x.chain = record[r].chain
    BY <1>0 DEF Records
  <2>3. TurnEnds(r, x, "failed", held)
    BY <1>7 DEF LoadFails
  <2> HIDE DEF x
  <2>4. Busy(x)
    BY <2>1, <2>2 DEF Busy
  <2>5. /\ record' \in [Trigger -> Records]
        /\ \A q \in Trigger : Sane(record'[q])
        /\ Kept(held')
        /\ outcome' \in [Trigger -> {"unsent", "pending", "committed", "failed"}]
        /\ snapshot' \in [Key -> Pictures]
    BY <1>0, <2>3, <2>4, TurnEndsTyped
  <2>6. faults' \in Nat /\ UNCHANGED <<config, log, pending, forgets>>
    BY <1>7 DEF LoadFails, TypeOK
  <2> QED  BY <2>5, <2>6 DEF TypeOK, Kept
<1> QED  BY <1>1, <1>2, <1>4, <1>5, <1>6, <1>7 DEF Loads

\* A turn that ends and changes neither the record nor what is in memory.
LEMMA TurnOverTyped ==
  ASSUME TypeOK, NEW r \in Trigger, Busy(record[r]),
         TurnEnds(r, record[r], "failed", held),
         UNCHANGED <<config, log, pending, forgets, faults>>
  PROVE  TypeOK'
<1>1. Kept(held)
  BY DEF TypeOK, Kept
<1>2. /\ record' \in [Trigger -> Records]
      /\ \A q \in Trigger : Sane(record'[q])
      /\ Kept(held')
      /\ outcome' \in [Trigger -> {"unsent", "pending", "committed", "failed"}]
      /\ snapshot' \in [Key -> Pictures]
  BY <1>1, TurnEndsTyped
<1> QED  BY <1>2 DEF TypeOK, Kept

LEMMA AttemptTyped ==
  ASSUME TypeOK, NEW r \in Trigger, Attempt(r) \/ Timeout(r)
  PROVE  TypeOK'
<1>0. Sane(record[r]) /\ record[r] \in Records
  BY DEF TypeOK
<1>1. ASSUME NEW to \in State, Seal(r, to) PROVE TypeOK'
  <2> DEFINE w == [to |-> to, by |-> CommitBy(Head(record[r].queue)),
                   on |-> record[r].token.by, expected |-> record[r].seq]
             c == Append(record[r].chain, w)
             x == [record[r] EXCEPT !.chain = c, !.pc = "writing"]
  <2>1. Busy(record[r]) /\ record[r].chain \in Seq(Writes)
    BY <1>0, <1>1, BusyRecords DEF Seal, Records
  <2>2. /\ w \in [to : State, by : Written, on : Given, expected : Nat]
        /\ w # InitWrite
    <3>1. Head(record[r].queue) \in Trigger
      BY <2>1 DEF Busy, Records
    <3>2. CommitBy(Head(record[r].queue)) \in Written
      BY <3>1 DEF Written
    <3>3. record[r].token.by \in Given /\ record[r].seq \in Nat
      BY <1>0 DEF Records
    <3>4. w.expected # -1
      BY <3>3
    <3> QED  BY <3>2, <3>3, <3>4 DEF InitWrite
  <2>3. w \in Writes
    BY <2>2 DEF Writes
  <2>4. record' = [record EXCEPT ![r] = x]
    BY <1>1 DEF Seal
  <2> HIDE DEF w
  <2>5. /\ c \in Seq(Writes) /\ Len(c) = Len(record[r].chain) + 1
        /\ \A i \in 1 .. Len(record[r].chain) : c[i] = record[r].chain[i]
        /\ c[Len(record[r].chain) + 1] = w
    BY <2>1, <2>3, AppendProperties
  <2> HIDE DEF c
  <2>6. /\ x \in Records /\ x.key = record[r].key /\ x.queue = record[r].queue
        /\ x.chain = c /\ x.pc = "writing"
    BY <1>0, <2>5 DEF Records, Phases
  <2> HIDE DEF x
  <2>7. NoInit(c)
    <3>1. Len(record[r].chain) \in Nat
      BY <2>1
    <3> QED  BY <2>1, <2>2, <2>5, <3>1 DEF Busy, NoInit
  <2>8. Sane(x)
    BY <2>1, <2>6, <2>7 DEF Sane, Busy, NoInit
  <2>9. record' \in [Trigger -> Records] /\ \A q \in Trigger : Sane(record'[q])
    BY <2>4, <2>8, RecordTyped
  <2> QED  BY <1>1, <2>9 DEF Seal, TypeOK, store
<1>2. CASE TurnFails(r)
  <2>1. Busy(record[r])
    BY <1>0, <1>2, BusyRecords DEF TurnFails
  <2> QED  BY <1>2, <2>1, TurnOverTyped DEF TurnFails
<1>3. CASE Timeout(r)
  <2>1. Busy(record[r])
    BY <1>0, <1>3, BusyRecords DEF Timeout
  <2> QED  BY <1>3, <2>1, TurnOverTyped DEF Timeout
<1> QED  BY <1>1, <1>2, <1>3 DEF Attempt

\* A record whose first write is settled.
LEMMA RestTyped ==
  ASSUME TypeOK, NEW r \in Trigger, record[r].chain # <<>>
  PROVE  /\ record[r] \in Records /\ record[r].key \in Key
         /\ Write(r) \in Writes
         /\ Rest(r) \in Records
         /\ Rest(r).chain = Tail(record[r].chain)
         /\ Rest(r).key = record[r].key /\ Rest(r).queue = record[r].queue
         /\ Rest(r).pc = record[r].pc /\ Rest(r).state = record[r].state
         /\ Rest(r).seq = record[r].seq /\ Rest(r).by = record[r].by
         /\ Rest(r).stale = record[r].stale
         /\ \A i \in 1 .. Len(Rest(r).chain) : Rest(r).chain[i] = record[r].chain[i + 1]
         /\ Len(Rest(r).chain) = Len(record[r].chain) - 1
         /\ IsInit(r) => /\ record[r].pc = "initializing"
                         /\ Rest(r).chain = <<>> /\ Write(r) = InitWrite
         /\ ~IsInit(r) => Write(r) # InitWrite
<1> DEFINE c == record[r].chain
<1>1. Sane(record[r]) /\ record[r] \in Records /\ c \in Seq(Writes) /\ c # <<>>
      /\ record[r].key \in Key
  BY DEF TypeOK, Sane, Records
<1>2. /\ Head(c) \in Writes /\ Tail(c) \in Seq(Writes) /\ Head(c) = c[1]
      /\ Len(Tail(c)) = Len(c) - 1 /\ Len(c) \in Nat /\ Len(c) # 0
      /\ \A i \in 1 .. Len(Tail(c)) : Tail(c)[i] = c[i + 1]
  <2> HIDE DEF c
  <2> QED  BY <1>1, HeadTailProperties, EmptySeq
<1>3. /\ Rest(r) \in Records /\ Rest(r).chain = Tail(c)
      /\ Rest(r).key = record[r].key /\ Rest(r).queue = record[r].queue
      /\ Rest(r).pc = record[r].pc /\ Rest(r).state = record[r].state
      /\ Rest(r).seq = record[r].seq /\ Rest(r).by = record[r].by
      /\ Rest(r).stale = record[r].stale
  BY <1>1, <1>2 DEF Rest, Records
<1>4. IsInit(r) <=> Write(r) = InitWrite
  <2>1. Write(r) \in Writes
    BY <1>2 DEF Write
  <2>2. \A t \in Trigger : CommitBy(t) # InitialValues
    BY DEF CommitBy, InitialValues
  <2>3. InitWrite.by = InitialValues
    BY DEF InitWrite
  <2> HIDE DEF c
  <2> QED  BY <2>1, <2>2, <2>3 DEF IsInit, Writes, Written
<1>5. ASSUME Write(r) = InitWrite
      PROVE  record[r].pc = "initializing" /\ Tail(c) = <<>>
  <2>1. 1 \in 1 .. Len(c) /\ c[1] = InitWrite
    BY <1>2, <1>5 DEF Write
  <2>2. 1 = Len(c) /\ record[r].pc = "initializing"
    BY <1>1, <2>1 DEF Sane
  <2>3. Len(Tail(c)) = 0
    BY <1>2, <2>2
  <2> HIDE DEF c
  <2> QED  BY <1>2, <2>2, <2>3, EmptySeq
<1>6. Write(r) \in Writes
  BY <1>2 DEF Write
<1> QED  BY <1>1, <1>2, <1>3, <1>4, <1>5, <1>6

\* What is left of a chain without an initialization has none.
LEMMA RestNoInit ==
  ASSUME TypeOK, NEW r \in Trigger, record[r].chain # <<>>
  PROVE  /\ NoInit(record[r].chain) => NoInit(Rest(r).chain)
         /\ IsInit(r) => NoInit(Rest(r).chain)
         /\ record[r].pc # "initializing" => NoInit(record[r].chain)
<1>1. Sane(record[r]) /\ record[r].chain \in Seq(Writes) /\ Len(record[r].chain) \in Nat
  BY DEF TypeOK, Records
<1>2. /\ \A i \in 1 .. Len(Rest(r).chain) : Rest(r).chain[i] = record[r].chain[i + 1]
      /\ Len(Rest(r).chain) = Len(record[r].chain) - 1
      /\ IsInit(r) => Rest(r).chain = <<>>
  BY RestTyped
<1> QED  BY <1>1, <1>2 DEF NoInit, Sane

\* The stream of the key of a record that writes.
LEMMA StoresTyped ==
  ASSUME TypeOK, NEW r \in Trigger, record[r].chain # <<>>, Stores(r)
  PROVE  log' \in [Key -> Seq([to : State, by : Authors, on : Given])]
<1>1. /\ Write(r) \in Writes /\ record[r].key \in Key
  BY RestTyped
<1>2. /\ Write(r).to \in State /\ Write(r).by \in Authors /\ Write(r).on \in Given
  BY <1>1, StateAssumption DEF Writes, InitWrite, Authors, Given
<1> DEFINE e == [to |-> Write(r).to, by |-> Write(r).by, on |-> Write(r).on]
<1>3. e \in [to : State, by : Authors, on : Given]
  BY <1>2
<1>4. log' = [log EXCEPT ![record[r].key] = Append(@, e)]
  BY DEF Stores
<1> HIDE DEF e
<1>5. Append(log[record[r].key], e) \in Seq([to : State, by : Authors, on : Given])
  BY <1>1, <1>3, AppendProperties DEF TypeOK
<1> QED  BY <1>1, <1>4, <1>5 DEF TypeOK

LEMMA WriteLeavesTyped ==
  ASSUME TypeOK, NEW r \in Trigger, WriteLeaves(r)
  PROVE  /\ pending' \in [Key -> {NoForget} \cup [record : Trigger, ahead : Nat]]
         /\ \A k \in Key : pending'[k] # NoForget => pending[k] # NoForget
<1>1. ASSUME NEW k \in Key, pending[k].record = r, pending[k].ahead > 0
      PROVE  [pending[k] EXCEPT !.ahead = @ - 1] \in [record : Trigger, ahead : Nat]
             /\ pending[k] # NoForget
  <2>1. NoForget.ahead = 0
    BY DEF NoForget
  <2>2. pending[k] \in [record : Trigger, ahead : Nat] /\ pending[k] # NoForget
    BY <1>1, <2>1 DEF TypeOK
  <2> QED  BY <1>1, <2>2
<1> QED  BY <1>1 DEF TypeOK, WriteLeaves

LEMMA AccountedFits ==
  ASSUME NEW r, NEW after, Kept(held), after.key \in Key, after.state \in State
  PROVE  Kept(Accounted(r, after))
<1> DEFINE moved == IF after.state = record[r].state THEN held
                    ELSE Enters(held, after.key, after.state)
<1>1. Kept(moved)
  BY EntersFit DEF Enters
<1>2. Bytes[after.state] \in Nat
  BY BytesAssumption
<1> HIDE DEF moved
<1>3. Kept(Costs(moved, after.key, Bytes[after.state]))
  BY <1>1, <1>2, CostsFit
<1> QED  BY <1>3 DEF Accounted, moved

\* A record after a write that nobody waits for, whatever it learned from it.
LEMMA UnawaitedIsSane ==
  ASSUME TypeOK, NEW r \in Trigger, record[r].chain # <<>>,
         NEW x \in Records, x.key = record[r].key, x.queue = record[r].queue,
         x.chain = Rest(r).chain, x.pc = record[r].pc
  PROVE  Sane(x)
<1>1. Sane(record[r]) /\ Len(record[r].chain) \in Nat
  BY DEF TypeOK, Records
<1>2. /\ record[r].key \in Key
      /\ \A i \in 1 .. Len(Rest(r).chain) : Rest(r).chain[i] = record[r].chain[i + 1]
      /\ Len(Rest(r).chain) = Len(record[r].chain) - 1
  BY RestTyped
<1> QED  BY <1>1, <1>2 DEF Sane

\* A record after the write its turn waits for.
LEMMA AwaitedIsBusy ==
  ASSUME TypeOK, NEW r \in Trigger, record[r].chain # <<>>, Awaited(r),
         NEW x \in Records, x.key = record[r].key, x.queue = record[r].queue,
         x.chain = Rest(r).chain
  PROVE  Busy(x)
<1>1. Sane(record[r]) /\ record[r].pc = "writing"
  BY DEF TypeOK, Awaited
<1>2. Busy(record[r])
  BY <1>1, BusyRecords
<1>3. NoInit(Rest(r).chain)
  BY <1>1, RestNoInit
<1> QED  BY <1>2, <1>3 DEF Busy

LEMMA InitBusy ==
  ASSUME TypeOK, NEW r \in Trigger, record[r].chain # <<>>, IsInit(r),
         NEW x \in Records, x.key = record[r].key, x.queue = record[r].queue,
         x.chain = Rest(r).chain
  PROVE  Busy(x)
<1>1. Sane(record[r]) /\ record[r].pc = "initializing" /\ record[r].key \in Key
  BY RestTyped DEF TypeOK
<1>2. NoInit(Rest(r).chain)
  BY RestNoInit
<1> QED  BY <1>1, <1>2 DEF Busy, Sane

LEMMA SettlesTyped ==
  ASSUME TypeOK, NEW r \in Trigger, Settles(r)
  PROVE  TypeOK'
<1>0. Kept(held) /\ record[r].chain # <<>>
  BY DEF TypeOK, Kept, Settles, InitLands, InitFails, CommitLands, CommitFails
<1>1. CASE InitLands(r)
  <2> DEFINE y == [Rest(r) EXCEPT !.hydration = "done"]
  <2>1. Rest(r) \in Records /\ Rest(r).key = record[r].key
        /\ Rest(r).queue = record[r].queue
    BY <1>0, RestTyped
  <2>2. /\ y \in Records /\ y.key = record[r].key /\ y.queue = record[r].queue
        /\ y.chain = Rest(r).chain
    BY <2>1 DEF Records
  <2>3. record' = [record EXCEPT ![r] = Ready(y)] /\ IsInit(r)
    BY <1>1 DEF InitLands
  <2> HIDE DEF y
  <2>4. Sane(Ready(y))
    BY <1>0, <2>2, <2>3, InitBusy, ReadyIsSane
  <2>5. record' \in [Trigger -> Records] /\ \A q \in Trigger : Sane(record'[q])
    BY <2>3, <2>4, RecordTyped
  <2>6. log' \in [Key -> Seq([to : State, by : Authors, on : Given])]
    BY <1>0, <1>1, StoresTyped DEF InitLands
  <2>7. pending' \in [Key -> {NoForget} \cup [record : Trigger, ahead : Nat]]
    BY <1>1, WriteLeavesTyped DEF InitLands
  <2> QED  BY <1>1, <2>5, <2>6, <2>7 DEF InitLands, TypeOK
<1>2. ASSUME NEW x, Busy(x), NEW result \in {"committed", "failed"},
             NEW h, Kept(h), TurnEnds(r, x, result, h), WriteLeaves(r),
             log' \in [Key -> Seq([to : State, by : Authors, on : Given])],
             faults' \in Nat, UNCHANGED <<config, forgets>>
      PROVE  TypeOK'
  <2>1. /\ record' \in [Trigger -> Records]
        /\ \A q \in Trigger : Sane(record'[q])
        /\ Kept(held')
        /\ outcome' \in [Trigger -> {"unsent", "pending", "committed", "failed"}]
        /\ snapshot' \in [Key -> Pictures]
    BY <1>2, TurnEndsTyped
  <2>2. pending' \in [Key -> {NoForget} \cup [record : Trigger, ahead : Nat]]
    BY <1>2, WriteLeavesTyped
  <2> QED  BY <1>2, <2>1, <2>2 DEF TypeOK, Kept
<1>3. ASSUME NEW x, Sane(x), record' = [record EXCEPT ![r] = x], WriteLeaves(r),
             log' \in [Key -> Seq([to : State, by : Authors, on : Given])],
             faults' \in Nat,
             UNCHANGED <<config, held, outcome, snapshot, forgets>>
      PROVE  TypeOK'
  <2>1. record' \in [Trigger -> Records] /\ \A q \in Trigger : Sane(record'[q])
    BY <1>3, RecordTyped
  <2>2. pending' \in [Key -> {NoForget} \cup [record : Trigger, ahead : Nat]]
    BY <1>3, WriteLeavesTyped
  <2> QED  BY <1>3, <2>1, <2>2 DEF TypeOK
<1>4. CASE InitFails(r)
  <2> DEFINE x == [Rest(r) EXCEPT !.hydration = "failed"]
  <2>1. Rest(r) \in Records /\ Rest(r).key = record[r].key
        /\ Rest(r).queue = record[r].queue
    BY <1>0, RestTyped
  <2>2. /\ x \in Records /\ x.key = record[r].key /\ x.queue = record[r].queue
        /\ x.chain = Rest(r).chain
    BY <2>1 DEF Records
  <2>3. /\ TurnEnds(r, x, "failed", held) /\ IsInit(r) /\ WriteLeaves(r)
        /\ UNCHANGED <<config, log, forgets>> /\ faults' \in Nat
    BY <1>4 DEF InitFails, TypeOK
  <2> HIDE DEF x
  <2>4. Busy(x)
    BY <1>0, <2>2, <2>3, InitBusy
  <2>5. log' \in [Key -> Seq([to : State, by : Authors, on : Given])]
    BY <2>3 DEF TypeOK
  <2> QED  BY <1>0, <1>2, <2>3, <2>4, <2>5
<1>5. CASE CommitLands(r)
  <2> DEFINE x == [Rest(r) EXCEPT !.state = Write(r).to,
                                  !.seq = Write(r).expected + 1,
                                  !.by = Write(r).by]
  <2>1. /\ Rest(r) \in Records /\ Rest(r).key = record[r].key
        /\ Rest(r).queue = record[r].queue /\ Rest(r).pc = record[r].pc
        /\ record[r].key \in Key
    BY <1>0, RestTyped
  <2>2. /\ Write(r).to \in State /\ Write(r).by \in Authors
        /\ Write(r).expected + 1 \in Nat
    <3>1. Write(r) \in Writes /\ Write(r) # InitWrite
      BY <1>0, <1>5, RestTyped DEF CommitLands
    <3> QED  BY <3>1 DEF Writes, Authors
  <2>3. /\ x \in Records /\ x.key = record[r].key /\ x.queue = record[r].queue
        /\ x.chain = Rest(r).chain /\ x.pc = record[r].pc /\ x.state \in State
    BY <2>1, <2>2 DEF Records
  <2>4. /\ WriteLeaves(r) /\ UNCHANGED <<config, forgets, faults>>
        /\ IF Awaited(r)
             THEN TurnEnds(r, x, "committed", Accounted(r, x))
             ELSE /\ record' = [record EXCEPT ![r] = x]
                  /\ UNCHANGED <<held, outcome, snapshot>>
    BY <1>5 DEF CommitLands
  <2> HIDE DEF x
  <2>5. log' \in [Key -> Seq([to : State, by : Authors, on : Given])]
    BY <1>0, <1>5, StoresTyped DEF CommitLands
  <2>6. faults' \in Nat
    BY <2>4 DEF TypeOK
  <2>7. CASE Awaited(r)
    <3>1. Busy(x)
      BY <1>0, <2>3, <2>7, AwaitedIsBusy
    <3>2. Kept(Accounted(r, x))
      BY <1>0, <2>1, <2>3, AccountedFits
    <3> QED  BY <1>2, <2>4, <2>5, <2>6, <2>7, <3>1, <3>2
  <2>8. CASE ~Awaited(r)
    <3>1. Sane(x)
      BY <1>0, <2>3, UnawaitedIsSane
    <3> QED  BY <1>3, <2>4, <2>5, <2>6, <2>8, <3>1
  <2> QED  BY <2>7, <2>8
<1>6. ASSUME NEW conflict \in BOOLEAN, CommitFails(r), faults' \in Nat,
             LET after == [Rest(r) EXCEPT !.stale = @ \/ conflict]
             IN  IF Awaited(r)
                   THEN TurnEnds(r, after, "failed", held)
                   ELSE /\ record' = [record EXCEPT ![r] = after]
                        /\ UNCHANGED <<held, outcome, snapshot>>
      PROVE  TypeOK'
  <2> DEFINE x == [Rest(r) EXCEPT !.stale = @ \/ conflict]
  <2>1. /\ Rest(r) \in Records /\ Rest(r).key = record[r].key
        /\ Rest(r).queue = record[r].queue /\ Rest(r).pc = record[r].pc
    BY <1>0, RestTyped
  <2>2. /\ x \in Records /\ x.key = record[r].key /\ x.queue = record[r].queue
        /\ x.chain = Rest(r).chain /\ x.pc = record[r].pc
    BY <2>1 DEF Records
  <2>3. /\ WriteLeaves(r) /\ UNCHANGED <<config, log, forgets>>
        /\ IF Awaited(r)
             THEN TurnEnds(r, x, "failed", held)
             ELSE /\ record' = [record EXCEPT ![r] = x]
                  /\ UNCHANGED <<held, outcome, snapshot>>
    BY <1>6 DEF CommitFails
  <2> HIDE DEF x
  <2>4. log' \in [Key -> Seq([to : State, by : Authors, on : Given])]
    BY <2>3 DEF TypeOK
  <2>5. CASE Awaited(r)
    <3>1. Busy(x)
      BY <1>0, <2>2, <2>5, AwaitedIsBusy
    <3> QED  BY <1>0, <1>2, <1>6, <2>3, <2>4, <2>5, <3>1
  <2>6. CASE ~Awaited(r)
    <3>1. Sane(x)
      BY <1>0, <2>2, UnawaitedIsSane
    <3> QED  BY <1>3, <1>6, <2>3, <2>4, <2>6, <3>1
  <2> QED  BY <2>5, <2>6
<1>7. CASE CommitFails(r)
  <2>1. faults' \in Nat
    BY <1>7 DEF CommitFails, TypeOK
  <2> QED  BY <1>6, <1>7, <2>1 DEF CommitFails
<1> QED  BY <1>1, <1>4, <1>5, <1>7 DEF Settles

LEMMA DeletedTyped ==
  ASSUME TypeOK, NEW k \in Key, Deleted(k)
  PROVE  /\ log' \in [Key -> Seq([to : State, by : Authors, on : Given])]
         /\ snapshot' \in [Key -> Pictures]
<1>1. log' = [log EXCEPT ![k] = <<>>] /\ snapshot' = [snapshot EXCEPT ![k] = NoSnapshot]
  BY DEF Deleted
<1>2. <<>> \in Seq([to : State, by : Authors, on : Given])
  OBVIOUS
<1>3. log' \in [Key -> Seq([to : State, by : Authors, on : Given])]
  BY <1>1, <1>2 DEF TypeOK
<1>4. snapshot' \in [Key -> Pictures]
  BY <1>1 DEF TypeOK, Pictures
<1> QED  BY <1>3, <1>4

LEMMA ForgetTyped ==
  ASSUME TypeOK, NEW k \in Key,
         ForgetFlushes(k) \/ ForgetDeletes(k) \/ ForgetAbsent(k)
  PROVE  TypeOK'
<1>0. Kept(held) /\ held.resident \in [Key -> Trigger \cup {None}]
  BY DEF TypeOK, Kept, Held
<1>1. CASE ForgetFlushes(k)
  <2> DEFINE p == [record |-> Resident(k), ahead |-> Len(record[Resident(k)].chain)]
  <2>1. Resident(k) \in Trigger
    BY <1>0, <1>1 DEF ForgetFlushes, Resident
  <2>2. Len(record[Resident(k)].chain) \in Nat
    BY <2>1 DEF TypeOK, Records
  <2>3. p \in [record : Trigger, ahead : Nat]
    BY <2>1, <2>2
  <2>4. pending' = [pending EXCEPT ![k] = p] /\ forgets' = forgets + 1
        /\ UNCHANGED <<config, record, held, outcome, store, faults>>
    BY <1>1 DEF ForgetFlushes
  <2> HIDE DEF p
  <2>5. forgets' \in Nat
    BY <2>4 DEF TypeOK
  <2>6. pending' \in [Key -> {NoForget} \cup [record : Trigger, ahead : Nat]]
    BY <2>3, <2>4 DEF TypeOK
  <2> QED  BY <2>4, <2>5, <2>6 DEF TypeOK, store
<1>2. CASE ForgetDeletes(k)
  <2>1. held' = Released(held, k) /\ Deleted(k)
        /\ pending' = [pending EXCEPT ![k] = NoForget]
        /\ UNCHANGED <<config, record, outcome, forgets, faults>>
    BY <1>2 DEF ForgetDeletes
  <2>2. Kept(held')
    BY <1>0, <2>1, ReleasedFits
  <2>3. /\ log' \in [Key -> Seq([to : State, by : Authors, on : Given])]
        /\ snapshot' \in [Key -> Pictures]
    BY <2>1, DeletedTyped
  <2> QED  BY <2>1, <2>2, <2>3 DEF TypeOK, Kept
<1>3. CASE ForgetAbsent(k)
  <2>1. /\ log' \in [Key -> Seq([to : State, by : Authors, on : Given])]
        /\ snapshot' \in [Key -> Pictures]
    BY <1>3, DeletedTyped DEF ForgetAbsent
  <2>2. forgets' \in Nat /\ UNCHANGED <<config, record, held, outcome, pending, faults>>
    BY <1>3 DEF ForgetAbsent, TypeOK
  <2> QED  BY <2>1, <2>2 DEF TypeOK
<1> QED  BY <1>1, <1>2, <1>3

\* The ways a step can go.
LEMMA Steps ==
  ASSUME [Next]_vars
  PROVE  \/ \E t \in Trigger, k \in Key : Send(t, k)
         \/ \E r \in Trigger : Loads(r)
         \/ \E r \in Trigger : Attempt(r) \/ Timeout(r)
         \/ \E r \in Trigger : Settles(r)
         \/ \E k \in Key : ForgetFlushes(k) \/ ForgetDeletes(k) \/ ForgetAbsent(k)
         \/ UNCHANGED vars
  BY DEF Next, Quiet

-----------------------------------------------------------------------------
(* Every step of a runtime whose application waits keeps busy records home. *)

\* The same records, at most fewer of them busy, in a table that lets go of
\* idle ones at most; no forget() but of an idle instance.
Calm ==
  /\ \A q \in Trigger :
       /\ record'[q].key = record[q].key
       /\ record[q].pc = "idle" => record'[q].pc = "idle"
       /\ outcome'[q] = "unsent" => outcome[q] = "unsent" /\ record'[q] = record[q]
  /\ \A k \in Key :
       /\ \/ held'.resident[k] = held.resident[k]
          \/ held'.resident[k] = None /\ record'[held.resident[k]].pc = "idle"
       /\ pending'[k] # NoForget => pending[k] # NoForget \/ Idle(k)

LEMMA CalmHome ==
  ASSUME TypeOK, Named, AtHome, Calm, TypeOK'
  PROVE  Named' /\ AtHome'
<1>1. /\ held.resident \in [Key -> Trigger \cup {None}]
      /\ held'.resident \in [Key -> Trigger \cup {None}]
  BY DEF TypeOK, Held
<1>2. Named'
  BY <1>1 DEF Named, Calm, Resident
<1>3. ASSUME NEW r \in Trigger, record'[r].pc # "idle"
      PROVE  held'.resident[record'[r].key] = r
  <2>1. record[r].pc # "idle" /\ record'[r].key = record[r].key
    BY <1>3 DEF Calm
  <2>2. held.resident[record[r].key] = r /\ record[r].key \in Key
    BY <2>1 DEF AtHome, Resident, TypeOK, Sane
  <2> QED  BY <1>3, <2>1, <2>2 DEF Calm
<1>4. ASSUME NEW k \in Key, pending'[k] # NoForget, held'.resident[k] # None
      PROVE  record'[held'.resident[k]].pc = "idle"
  <2>1. held'.resident[k] = held.resident[k] /\ held.resident[k] \in Trigger
    BY <1>1, <1>4 DEF Calm
  <2>2. pending[k] # NoForget \/ record[held.resident[k]].pc = "idle"
    BY <1>4 DEF Calm, Idle, Resident
  <2>3. record[held.resident[k]].pc = "idle"
    BY <1>4, <2>1, <2>2 DEF AtHome, Idle, Resident
  <2> QED  BY <2>1, <2>3 DEF Calm
<1>5. \A t \in Trigger : outcome'[t] = "unsent" => record'[t] = Fresh(None)
  BY DEF AtHome, Calm
<1> QED  BY <1>2, <1>3, <1>4, <1>5 DEF AtHome, Idle, Resident

\* A record that does something was sent to.
LEMMA ActiveWasSent ==
  ASSUME AtHome, NEW r \in Trigger,
         record[r].pc # "idle" \/ record[r].chain # <<>>
  PROVE  outcome[r] # "unsent"
  BY DEF AtHome, Fresh

LEMMA ChangeIsCalm ==
  ASSUME TypeOK, AtHome, NEW r \in Trigger, NEW x,
         record[r].pc # "idle" \/ record[r].chain # <<>>,
         x.key = record[r].key, record[r].pc = "idle" => x.pc = "idle",
         record' = [record EXCEPT ![r] = x], UNCHANGED outcome,
         held'.resident = held.resident,
         \A k \in Key : pending'[k] # NoForget => pending[k] # NoForget
  PROVE  Calm
<1>1. outcome[r] # "unsent"
  BY ActiveWasSent
<1>2. \A q \in Trigger : record'[q] = IF q = r THEN x ELSE record[q]
  BY DEF TypeOK
<1> QED  BY <1>1, <1>2 DEF Calm

LEMMA TurnEndsIsCalm ==
  ASSUME TypeOK, AtHome, NEW r \in Trigger, record[r].pc # "idle",
         NEW after, Busy(after), after.key = record[r].key,
         NEW result \in {"committed", "failed"},
         NEW h, Kept(h), h.resident = held.resident,
         TurnEnds(r, after, result, h),
         \A k \in Key : pending'[k] # NoForget => pending[k] # NoForget
  PROVE  Calm /\ (Together(h) => Together(held'))
<1> DEFINE x == Advanced(after)
           recs == [record EXCEPT ![r] = x]
           fit == EvictToFit(recs, h)
<1>1. /\ record' = recs
      /\ record' \in [Trigger -> Records]
      /\ outcome' = [outcome EXCEPT ![Head(after.queue)] = result]
      /\ Keeps(after, x)
  BY TurnEndsTyped
<1>2. Drained(recs, h, snapshot, fit)
  <2>1. recs \in [Trigger -> Records] /\ snapshot \in [Key -> Pictures]
    BY <1>1 DEF TypeOK
  <2> HIDE DEF recs
  <2> QED  BY <2>1, Eviction
<1>3. held' = h \/ held' = fit.held
  BY DEF TurnEnds
<1>4. x.key = record[r].key
  BY <1>1 DEF Keeps
<1> HIDE DEF x
<1>5. \A q \in Trigger : record'[q] = IF q = r THEN x ELSE record[q]
  BY <1>1 DEF TypeOK
<1> HIDE DEF recs, fit
<1>6. \A k \in Key :
        \/ held'.resident[k] = held.resident[k]
        \/ held'.resident[k] = None /\ record'[held.resident[k]].pc = "idle"
  BY <1>1, <1>2, <1>3 DEF Drained, Spared, LetGo
<1>7. outcome[r] # "unsent"
  BY ActiveWasSent
<1>8. \A q \in Trigger : outcome'[q] = "unsent" => outcome[q] = "unsent"
  BY <1>1 DEF TypeOK
<1>9. Calm
  BY <1>4, <1>5, <1>6, <1>7, <1>8 DEF Calm
<1>10. Together(h) => Together(held')
  BY <1>2, <1>3 DEF Drained
<1> QED  BY <1>9, <1>10

\* The key of a busy record may move and cost something else.
LEMMA EntersTogether ==
  ASSUME NEW h, Kept(h), Together(h), NEW k \in Key, h.resident[k] # None,
         NEW s \in State
  PROVE  Together([h EXCEPT !.index[k] = s])
<1> DEFINE e == [h EXCEPT !.index[k] = s]
<1>1. /\ e.resident = h.resident /\ e.order = h.order /\ e.bytes = h.bytes
      /\ e.index = [h.index EXCEPT ![k] = s]
  BY EntersFit
<1>2. h.index \in [Key -> State \cup {None}] /\ s # None
  BY NoneAssumption DEF Kept, Held
<1> HIDE DEF e
<1>3. Together(e)
  BY <1>1, <1>2 DEF Together
<1> QED  BY <1>3 DEF e

LEMMA CostsTogether ==
  ASSUME NEW h, Kept(h), Together(h), NEW k \in Key, h.resident[k] # None,
         NEW b \in Nat
  PROVE  Together(Costs(h, k, b))
<1> DEFINE c == Costs(h, k, b)
<1>1. /\ c.resident = h.resident /\ c.index = h.index
      /\ ToSet(c.order) = ToSet(h.order) \cup {k}
      /\ c.bytes = [h.bytes EXCEPT ![k] = b]
  BY CostsFit
<1>2. h.bytes \in [Key -> Nat]
  BY DEF Kept, Held
<1> HIDE DEF c
<1>3. Together(c)
  BY <1>1, <1>2 DEF Together
<1> QED  BY <1>3 DEF c

LEMMA AccountedTogether ==
  ASSUME NEW r, NEW after, Kept(held), Together(held),
         after.key \in Key, after.state \in State, Resident(after.key) # None
  PROVE  /\ Together(Accounted(r, after))
         /\ Accounted(r, after).resident = held.resident
<1> DEFINE k == after.key
           s == after.state
           moved == IF s = record[r].state THEN held ELSE Enters(held, k, s)
<1>1. Kept(moved) /\ Together(moved) /\ moved.resident = held.resident
  BY EntersFit, EntersTogether DEF Enters, Resident
<1>2. Bytes[s] \in Nat
  BY BytesAssumption
<1>3. Resident(k) # None
  OBVIOUS
<1> DEFINE b == Bytes[s]
<1> HIDE DEF moved, b
<1>4. Together(Costs(moved, k, b)) /\ Costs(moved, k, b).resident = moved.resident
  BY <1>1, <1>2, <1>3, CostsTogether, CostsFit DEF Resident, b
<1> QED  BY <1>1, <1>4 DEF Accounted, moved, b

\* Everything that holds of a runtime whose application waits.
IInv == TypeOK /\ Named /\ AtHome /\ Together(held)

LEMMA SendKeepsHome ==
  ASSUME Waits, IInv, TypeOK', NEW t \in Trigger, NEW k \in Key, Send(t, k)
  PROVE  IInv'
<1>0. /\ Kept(held) /\ held.resident \in [Key -> Trigger \cup {None}]
      /\ outcome[t] = "unsent" /\ pending[k] = NoForget
      /\ record \in [Trigger -> Records]
      /\ outcome \in [Trigger -> {"unsent", "pending", "committed", "failed"}]
  BY DEF IInv, TypeOK, Kept, Held, Send, SendResident, SendNew, SendRefused,
         MaySend, Waits
<1>1. CASE SendResident(t, k)
  <2> DEFINE r == Resident(k)
             x == Enqueued(record[r], t)
  <2>1. /\ r \in Trigger /\ Sane(record[r]) /\ record[r].key = k
        /\ outcome[r] # "unsent"
    BY <1>0, <1>1 DEF SendResident, IInv, TypeOK, Resident, Named
  <2>2. /\ record' = [record EXCEPT ![r] = x]
        /\ outcome' = [outcome EXCEPT ![t] = "pending"]
        /\ UNCHANGED <<held, pending>>
    BY <1>1 DEF SendResident
  <2>3. x.key = k
    BY <2>1, EnqueuedIsSane DEF Keeps
  <2>4. held.resident[k] = r
    BY DEF Resident
  <2> HIDE DEF x, r
  <2>5. /\ \A q \in Trigger : record'[q] = IF q = r THEN x ELSE record[q]
        /\ \A q \in Trigger : outcome'[q] = IF q = t THEN "pending" ELSE outcome[q]
    BY <1>0, <2>2
  <2>6. \A q \in Trigger : record'[q].key = record[q].key
    BY <2>1, <2>3, <2>5
  <2>7. Named'
    BY <1>0, <2>2, <2>5, <2>6 DEF IInv, Named, Resident
  <2>8. \A q \in Trigger : record'[q].pc # "idle" => held'.resident[record'[q].key] = q
    BY <2>2, <2>3, <2>4, <2>5 DEF IInv, AtHome, Resident
  <2>9. ASSUME NEW j \in Key, pending'[j] # NoForget, held'.resident[j] # None
        PROVE  record'[held'.resident[j]].pc = "idle"
    <3>1. /\ j # k /\ held.resident[j] \in Trigger /\ record[held.resident[j]].key = j
          /\ record[held.resident[j]].pc = "idle"
      BY <1>0, <2>2, <2>9 DEF IInv, AtHome, Named, Resident, Idle
    <3> QED  BY <2>1, <2>2, <2>5, <3>1
  <2>10. \A q \in Trigger : outcome'[q] = "unsent" => record'[q] = Fresh(None)
    BY <2>1, <2>5 DEF IInv, AtHome
  <2>11. AtHome'
    BY <2>8, <2>9, <2>10 DEF AtHome, Resident, Idle
  <2> QED  BY <2>2, <2>7, <2>11 DEF IInv
<1>2. CASE SendNew(t, k)
  <2> DEFINE x == Enqueued(Fresh(k), t)
  <2>1. Sane(Fresh(k)) /\ Fresh(k).key = k
    <3>1. Fresh(k) \in Records /\ Fresh(k).pc = "idle" /\ Fresh(k).queue = <<>>
          /\ Fresh(k).chain = <<>> /\ Fresh(k).key = k
      BY StateAssumption
      DEF Fresh, Records, Pictures, Phases, NoToken, Given, Authors, NoSnapshot
    <3> QED  BY <3>1 DEF Sane
  <2>2. x.key = k
    BY <2>1, EnqueuedIsSane DEF Keeps
  <2>3. /\ record' = [record EXCEPT ![t] = x]
        /\ held' = Materialized(held, k, t)
        /\ outcome' = [outcome EXCEPT ![t] = "pending"]
        /\ held.resident[k] = None
        /\ UNCHANGED pending
    BY <1>2 DEF SendNew, Resident
  <2>4. /\ held'.resident = [held.resident EXCEPT ![k] = t]
        /\ Together(held')
    BY <1>0, <2>3, MaterializedFits DEF IInv
  <2> HIDE DEF x
  <2>5. /\ \A q \in Trigger : record'[q] = IF q = t THEN x ELSE record[q]
        /\ \A q \in Trigger : outcome'[q] = IF q = t THEN "pending" ELSE outcome[q]
        /\ \A j \in Key : held'.resident[j] = IF j = k THEN t ELSE held.resident[j]
    BY <1>0, <2>3, <2>4
  <2>6. \A j \in Key \ {k} : held.resident[j] # t
    BY <1>0, NoneAssumption DEF IInv, Named, Resident
  <2>7. Named'
    BY <1>0, <2>2, <2>5, <2>6 DEF IInv, Named, Resident
  <2>8. ASSUME NEW q \in Trigger, record'[q].pc # "idle"
        PROVE  held'.resident[record'[q].key] = q
    <3>1. CASE q = t
      BY <2>2, <2>5, <3>1
    <3>2. CASE q # t
      <4>1. record'[q] = record[q] /\ record[q].key \in Key
        BY <2>5, <2>8, <3>2 DEF IInv, TypeOK, Sane
      <4>2. held.resident[record[q].key] = q
        BY <2>8, <4>1 DEF IInv, AtHome, Resident
      <4>3. record[q].key # k
        BY <2>3, <4>2, NoneAssumption
      <4> QED  BY <2>5, <4>1, <4>2, <4>3
    <3> QED  BY <3>1, <3>2
  <2>9. ASSUME NEW j \in Key, pending'[j] # NoForget, held'.resident[j] # None
        PROVE  record'[held'.resident[j]].pc = "idle"
    <3>1. j # k
      BY <1>0, <2>3, <2>9
    <3>2. /\ held'.resident[j] = held.resident[j] /\ held.resident[j] \in Trigger
          /\ held.resident[j] # t /\ record[held.resident[j]].pc = "idle"
      BY <1>0, <2>3, <2>5, <2>6, <2>9, <3>1 DEF IInv, AtHome, Resident, Idle
    <3> QED  BY <2>5, <3>2
  <2>10. \A q \in Trigger : outcome'[q] = "unsent" => record'[q] = Fresh(None)
    BY <2>5 DEF IInv, AtHome
  <2>11. AtHome'
    BY <2>8, <2>9, <2>10 DEF AtHome, Resident, Idle
  <2> QED  BY <2>4, <2>7, <2>11 DEF IInv
<1>3. CASE SendRefused(t, k)
  <2>1. /\ outcome' = [outcome EXCEPT ![t] = "failed"]
        /\ UNCHANGED <<record, held, pending>>
    BY <1>3 DEF SendRefused
  <2>2. \A q \in Trigger : outcome'[q] = IF q = t THEN "failed" ELSE outcome[q]
    BY <1>0, <2>1
  <2>3. Named'
    BY <1>0, <2>1, <2>2 DEF IInv, Named, Resident
  <2>4. AtHome'
    BY <2>1, <2>2 DEF IInv, AtHome, Resident, Idle
  <2> QED  BY <2>1, <2>3, <2>4 DEF IInv
<1> QED  BY <1>1, <1>2, <1>3 DEF Send

LEMMA LoadsKeepHome ==
  ASSUME IInv, TypeOK', NEW r \in Trigger, Loads(r)
  PROVE  IInv'
<1>0. /\ Kept(held) /\ Sane(record[r]) /\ record[r] \in Records
      /\ record[r].pc \notin {"idle", "initializing"}
  BY DEF IInv, TypeOK, Kept, Loads, StoreLoad, Hydrate, Reload, LoadFails
<1>1. Busy(record[r]) /\ record[r].key \in Key
  BY <1>0, BusyRecords DEF Busy
<1>2. Resident(record[r].key) = r /\ r # None
  BY <1>0, NoneAssumption DEF IInv, AtHome
<1>3. SUFFICES Calm /\ Together(held')
  BY CalmHome DEF IInv
<1>4. ASSUME NEW x, x.key = record[r].key, record' = [record EXCEPT ![r] = x],
             UNCHANGED <<outcome, pending>>, held'.resident = held.resident
      PROVE  Calm
  BY <1>0, <1>4, ChangeIsCalm DEF IInv
<1>5. CASE StoreLoad(r)
  <2> DEFINE x == [record[r] EXCEPT
                     !.pc = IF @ = "hydrating" THEN "hydrated" ELSE "reloaded",
                     !.loaded = Loaded(record[r].key)]
  <2>1. x.key = record[r].key
    BY <1>0 DEF Records
  <2>2. record' = [record EXCEPT ![r] = x] /\ UNCHANGED <<outcome, pending, held>>
    BY <1>5 DEF StoreLoad
  <2> HIDE DEF x
  <2> QED  BY <1>4, <2>1, <2>2 DEF IInv
<1>6. CASE Hydrate(r) /\ IsGone(r)
  <2> DEFINE x == [record[r] EXCEPT !.chain = Append(@, InitWrite),
                                    !.pc = "initializing"]
  <2>1. x.key = record[r].key
    BY <1>0 DEF Records
  <2>2. record' = [record EXCEPT ![r] = x] /\ UNCHANGED <<outcome, pending, held>>
    BY <1>6 DEF Hydrate
  <2> HIDE DEF x
  <2> QED  BY <1>4, <2>1, <2>2 DEF IInv
<1>7. CASE Reload(r) /\ IsGone(r)
  <2> DEFINE x == [record[r] EXCEPT
                     !.state = Initial, !.seq = 0, !.by = InitialValues,
                     !.stale = FALSE, !.hydration = "running", !.pc = "hydrating"]
  <2>1. x.key = record[r].key
    BY <1>0 DEF Records
  <2>2. record' = [record EXCEPT ![r] = x] /\ UNCHANGED <<outcome, pending, held>>
    BY <1>7 DEF Reload
  <2> HIDE DEF x
  <2> QED  BY <1>4, <2>1, <2>2 DEF IInv
<1>8. ASSUME NEW y \in Records, y.key = record[r].key, y.queue = record[r].queue,
             y.chain = record[r].chain, y.loaded = record[r].loaded,
             record' = [record EXCEPT ![r] = Adopting(y)], ~IsGone(r),
             held' = Enters(held, record[r].key, record[r].loaded.state),
             UNCHANGED <<outcome, pending>>
      PROVE  Calm /\ Together(held')
  <2>1. Busy(y) /\ y.loaded # NoSnapshot
    BY <1>1, <1>8 DEF Busy, IsGone
  <2>2. Adopting(y).key = record[r].key
    BY <1>8, <2>1, AdoptingTyped
  <2>3. record[r].loaded.state \in State
    BY <1>8, <2>1 DEF Records, Pictures
  <2>4. held'.resident = held.resident
    BY <1>0, <1>1, <1>8, <2>3, EntersFit DEF Enters
  <2>5. Together(held')
    BY <1>0, <1>1, <1>2, <1>8, <2>3, EntersTogether DEF Enters, IInv, Resident
  <2> QED  BY <1>4, <1>8, <2>2, <2>4, <2>5
<1>9. CASE Hydrate(r) /\ ~IsGone(r)
  <2> DEFINE y == [record[r] EXCEPT !.hydration = "done"]
  <2>1. /\ y \in Records /\ y.key = record[r].key /\ y.queue = record[r].queue
        /\ y.chain = record[r].chain /\ y.loaded = record[r].loaded
    BY <1>0 DEF Records
  <2>2. /\ record' = [record EXCEPT ![r] = Adopting(y)]
        /\ held' = Enters(held, record[r].key, record[r].loaded.state)
        /\ UNCHANGED <<outcome, pending>>
    BY <1>9 DEF Hydrate
  <2> HIDE DEF y
  <2> QED  BY <1>8, <1>9, <2>1, <2>2
<1>10. CASE Reload(r) /\ ~IsGone(r)
  <2> DEFINE y == [record[r] EXCEPT !.stale = FALSE]
  <2>1. /\ y \in Records /\ y.key = record[r].key /\ y.queue = record[r].queue
        /\ y.chain = record[r].chain /\ y.loaded = record[r].loaded
    BY <1>0 DEF Records
  <2>2. /\ record' = [record EXCEPT ![r] = Adopting(y)]
        /\ held' = Enters(held, record[r].key, record[r].loaded.state)
        /\ UNCHANGED <<outcome, pending>>
    BY <1>10 DEF Reload
  <2> HIDE DEF y
  <2> QED  BY <1>8, <1>10, <2>1, <2>2
<1>11. CASE LoadFails(r)
  <2> DEFINE x == IF record[r].pc = "reloading" THEN record[r]
                  ELSE [record[r] EXCEPT !.hydration = "failed"]
  <2>1. /\ x \in Records /\ x.key = record[r].key /\ x.queue = record[r].queue
        /\ x.chain = record[r].chain
    BY <1>0 DEF Records
  <2>2. TurnEnds(r, x, "failed", held) /\ UNCHANGED pending
    BY <1>11 DEF LoadFails
  <2> HIDE DEF x
  <2>3. Busy(x)
    BY <1>1, <2>1 DEF Busy
  <2> QED  BY <1>0, <2>1, <2>2, <2>3, TurnEndsIsCalm DEF IInv
<1> QED  BY <1>5, <1>6, <1>7, <1>9, <1>10, <1>11 DEF Loads

LEMMA AttemptKeepsHome ==
  ASSUME IInv, TypeOK', NEW r \in Trigger, Attempt(r) \/ Timeout(r)
  PROVE  IInv'
<1>0. /\ Kept(held) /\ Sane(record[r]) /\ record[r] \in Records
      /\ record[r].pc \notin {"idle", "initializing"}
  BY DEF IInv, TypeOK, Kept, Attempt, Seal, TurnFails, Timeout
<1>1. Busy(record[r])
  BY <1>0, BusyRecords
<1>2. SUFFICES Calm /\ Together(held')
  BY CalmHome DEF IInv
<1>3. ASSUME NEW to \in State, Seal(r, to) PROVE Calm /\ Together(held')
  <2> DEFINE x == [record[r] EXCEPT
                     !.chain = Append(@, [to |-> to,
                                          by |-> CommitBy(Head(record[r].queue)),
                                          on |-> record[r].token.by,
                                          expected |-> record[r].seq]),
                     !.pc = "writing"]
  <2>1. x.key = record[r].key
    BY <1>0 DEF Records
  <2>2. record' = [record EXCEPT ![r] = x] /\ UNCHANGED <<outcome, pending, held>>
    BY <1>3 DEF Seal
  <2> HIDE DEF x
  <2> QED  BY <1>0, <2>1, <2>2, ChangeIsCalm DEF IInv
<1>4. CASE TurnFails(r) \/ Timeout(r)
  <2>1. TurnEnds(r, record[r], "failed", held) /\ UNCHANGED pending
    BY <1>4 DEF TurnFails, Timeout
  <2> QED  BY <1>0, <1>1, <2>1, TurnEndsIsCalm DEF IInv
<1> QED  BY <1>3, <1>4 DEF Attempt

LEMMA SettlesKeepsHome ==
  ASSUME IInv, TypeOK', NEW r \in Trigger, Settles(r)
  PROVE  IInv'
<1>0. /\ TypeOK /\ AtHome /\ Kept(held) /\ Together(held)
      /\ record[r].chain # <<>> /\ WriteLeaves(r)
  BY DEF IInv, TypeOK, Kept, Settles, InitLands, InitFails, CommitLands, CommitFails
<1>1. \A k \in Key : pending'[k] # NoForget => pending[k] # NoForget
  BY <1>0, WriteLeavesTyped
<1>2. /\ Rest(r) \in Records /\ Rest(r).key = record[r].key
      /\ Rest(r).queue = record[r].queue /\ Rest(r).pc = record[r].pc
      /\ record[r].key \in Key /\ (IsInit(r) => record[r].pc = "initializing")
  BY <1>0, RestTyped
<1>3. SUFFICES Calm /\ Together(held')
  BY CalmHome DEF IInv
<1>4. ASSUME NEW x, x.key = record[r].key, record[r].pc = "idle" => x.pc = "idle",
             record' = [record EXCEPT ![r] = x], UNCHANGED <<outcome, held>>
      PROVE  Calm /\ Together(held')
  BY <1>0, <1>1, <1>4, ChangeIsCalm
<1>5. ASSUME NEW x, Busy(x), x.key = record[r].key, record[r].pc # "idle",
             NEW result \in {"committed", "failed"},
             NEW h, Kept(h), Together(h), h.resident = held.resident,
             TurnEnds(r, x, result, h)
      PROVE  Calm /\ Together(held')
  BY <1>0, <1>1, <1>5, TurnEndsIsCalm
<1>6. CASE InitLands(r)
  <2> DEFINE y == [Rest(r) EXCEPT !.hydration = "done"]
  <2>1. /\ y \in Records /\ y.key = record[r].key /\ y.queue = record[r].queue
        /\ y.chain = Rest(r).chain
    BY <1>2 DEF Records
  <2>2. /\ record' = [record EXCEPT ![r] = Ready(y)] /\ IsInit(r)
        /\ UNCHANGED <<outcome, held>>
    BY <1>6 DEF InitLands
  <2> HIDE DEF y
  <2>3. Ready(y).key = record[r].key
    BY <1>0, <2>1, <2>2, InitBusy, ReadyIsSane DEF Keeps
  <2>4. record[r].pc # "idle"
    BY <1>2, <2>2
  <2> QED  BY <1>4, <2>2, <2>3, <2>4
<1>7. CASE InitFails(r)
  <2> DEFINE x == [Rest(r) EXCEPT !.hydration = "failed"]
  <2>1. /\ x \in Records /\ x.key = record[r].key /\ x.queue = record[r].queue
        /\ x.chain = Rest(r).chain
    BY <1>2 DEF Records
  <2>2. TurnEnds(r, x, "failed", held) /\ IsInit(r)
    BY <1>7 DEF InitFails
  <2> HIDE DEF x
  <2>3. Busy(x) /\ record[r].pc # "idle"
    BY <1>0, <1>2, <2>1, <2>2, InitBusy
  <2> QED  BY <1>0, <1>5, <2>1, <2>2, <2>3
<1>8. CASE CommitLands(r)
  <2> DEFINE x == [Rest(r) EXCEPT !.state = Write(r).to,
                                  !.seq = Write(r).expected + 1,
                                  !.by = Write(r).by]
  <2>1. Write(r).to \in State /\ Write(r).by \in Authors /\ Write(r).expected + 1 \in Nat
    <3>1. Write(r) \in Writes /\ Write(r) # InitWrite
      BY <1>0, <1>8, RestTyped DEF CommitLands
    <3> QED  BY <3>1 DEF Writes, Authors
  <2>2. /\ x \in Records /\ x.key = record[r].key /\ x.queue = record[r].queue
        /\ x.chain = Rest(r).chain /\ x.pc = record[r].pc /\ x.state \in State
    BY <1>2, <2>1 DEF Records
  <2>3. IF Awaited(r)
          THEN TurnEnds(r, x, "committed", Accounted(r, x))
          ELSE /\ record' = [record EXCEPT ![r] = x]
               /\ UNCHANGED <<held, outcome, snapshot>>
    BY <1>8 DEF CommitLands
  <2> HIDE DEF x
  <2>4. CASE Awaited(r)
    <3>1. Busy(x) /\ record[r].pc # "idle"
      BY <1>0, <2>2, <2>4, AwaitedIsBusy DEF Awaited
    <3>2. Resident(x.key) # None
      BY <1>0, <2>2, <3>1, NoneAssumption DEF AtHome
    <3>3. /\ Kept(Accounted(r, x)) /\ Together(Accounted(r, x))
          /\ Accounted(r, x).resident = held.resident
      BY <1>0, <1>2, <2>2, <3>2, AccountedFits, AccountedTogether
    <3> QED  BY <1>5, <2>2, <2>3, <2>4, <3>1, <3>3
  <2>5. CASE ~Awaited(r)
    BY <1>4, <2>2, <2>3, <2>5
  <2> QED  BY <2>4, <2>5
<1>9. CASE CommitFails(r)
  <2>1. PICK conflict \in BOOLEAN :
          LET after == [Rest(r) EXCEPT !.stale = @ \/ conflict]
          IN  IF Awaited(r)
                THEN TurnEnds(r, after, "failed", held)
                ELSE /\ record' = [record EXCEPT ![r] = after]
                     /\ UNCHANGED <<held, outcome, snapshot>>
    BY <1>9 DEF CommitFails
  <2> DEFINE x == [Rest(r) EXCEPT !.stale = @ \/ conflict]
  <2>2. /\ x \in Records /\ x.key = record[r].key /\ x.queue = record[r].queue
        /\ x.chain = Rest(r).chain /\ x.pc = record[r].pc
    BY <1>2 DEF Records
  <2>3. IF Awaited(r)
          THEN TurnEnds(r, x, "failed", held)
          ELSE /\ record' = [record EXCEPT ![r] = x]
               /\ UNCHANGED <<held, outcome, snapshot>>
    BY <2>1
  <2> HIDE DEF x
  <2>4. CASE Awaited(r)
    <3>1. Busy(x) /\ record[r].pc # "idle"
      BY <1>0, <2>2, <2>4, AwaitedIsBusy DEF Awaited
    <3> QED  BY <1>0, <1>5, <2>2, <2>3, <2>4, <3>1
  <2>5. CASE ~Awaited(r)
    BY <1>4, <2>2, <2>3, <2>5
  <2> QED  BY <2>4, <2>5
<1> QED  BY <1>6, <1>7, <1>8, <1>9 DEF Settles

LEMMA ForgetKeepsHome ==
  ASSUME IInv, TypeOK', NEW k \in Key,
         ForgetFlushes(k) \/ ForgetDeletes(k) \/ ForgetAbsent(k)
  PROVE  IInv'
<1>0. /\ TypeOK /\ AtHome /\ Kept(held) /\ Together(held)
      /\ held.resident \in [Key -> Trigger \cup {None}]
      /\ pending \in [Key -> {NoForget} \cup [record : Trigger, ahead : Nat]]
  BY DEF IInv, TypeOK, Kept, Held
<1>1. SUFFICES Calm /\ Together(held')
  BY CalmHome DEF IInv
<1>2. CASE ForgetFlushes(k)
  <2>1. /\ Idle(k) /\ UNCHANGED <<record, held, outcome>>
        /\ \A j \in Key \ {k} : pending'[j] = pending[j]
    BY <1>0, <1>2 DEF ForgetFlushes
  <2>2. Calm
    BY <2>1 DEF Calm
  <2> QED  BY <1>0, <2>1, <2>2
<1>3. CASE ForgetDeletes(k)
  <2>1. /\ held' = Released(held, k) /\ pending[k] # NoForget
        /\ pending' = [pending EXCEPT ![k] = NoForget]
        /\ UNCHANGED <<record, outcome>>
    BY <1>3 DEF ForgetDeletes
  <2>2. /\ held'.resident = [held.resident EXCEPT ![k] = None]
        /\ Together(held')
    BY <1>0, <2>1, ReleasedFits, ReleasedTogether
  <2>3. held.resident[k] # None => record[held.resident[k]].pc = "idle"
    BY <1>0, <2>1 DEF AtHome, Idle, Resident
  <2>4. \A j \in Key :
          /\ held'.resident[j] = IF j = k THEN None ELSE held.resident[j]
          /\ pending'[j] # NoForget => pending[j] # NoForget
    BY <1>0, <2>1, <2>2
  <2>5. Calm
    BY <2>1, <2>3, <2>4 DEF Calm
  <2> QED  BY <2>2, <2>5
<1>4. CASE ForgetAbsent(k)
  <2>1. UNCHANGED <<record, held, outcome, pending>>
    BY <1>4 DEF ForgetAbsent
  <2>2. Calm
    BY <2>1 DEF Calm
  <2> QED  BY <1>0, <2>1, <2>2
<1> QED  BY <1>2, <1>3, <1>4

LEMMA IInvInit == Init => IInv
<1> SUFFICES ASSUME Init PROVE IInv
  OBVIOUS
<1>1. TypeOK
  BY InitTyped
<1>2. Fresh(None).pc = "idle"
  BY DEF Fresh
<1>3. /\ \A k \in Key : held.resident[k] = None /\ held.index[k] = None /\ held.bytes[k] = 0
      /\ ToSet(held.order) = {}
  BY DEF Init, Nothing, ToSet
<1>4. Together(held)
  BY <1>3 DEF Together
<1>5. Named
  BY <1>3 DEF Named, Resident
<1>6. AtHome
  BY <1>2, <1>3 DEF Init, AtHome, Resident
<1> QED  BY <1>1, <1>4, <1>5, <1>6 DEF IInv

LEMMA IInvStep ==
  ASSUME Waits, IInv, [Next]_vars
  PROVE  IInv'
<1>1. ASSUME NEW t \in Trigger, NEW k \in Key, Send(t, k) PROVE IInv'
  <2>1. TypeOK'
    BY <1>1, SendTyped DEF IInv
  <2> QED  BY <1>1, <2>1, SendKeepsHome
<1>2. ASSUME NEW r \in Trigger, Loads(r) PROVE IInv'
  <2>1. TypeOK'
    BY <1>2, LoadsTyped DEF IInv
  <2> QED  BY <1>2, <2>1, LoadsKeepHome
<1>3. ASSUME NEW r \in Trigger, Attempt(r) \/ Timeout(r) PROVE IInv'
  <2>1. TypeOK'
    BY <1>3, AttemptTyped DEF IInv
  <2> QED  BY <1>3, <2>1, AttemptKeepsHome
<1>4. ASSUME NEW r \in Trigger, Settles(r) PROVE IInv'
  <2>1. TypeOK'
    BY <1>4, SettlesTyped DEF IInv
  <2> QED  BY <1>4, <2>1, SettlesKeepsHome
<1>5. ASSUME NEW k \in Key, ForgetFlushes(k) \/ ForgetDeletes(k) \/ ForgetAbsent(k)
      PROVE  IInv'
  <2>1. TypeOK'
    BY <1>5, ForgetTyped DEF IInv
  <2> QED  BY <1>5, <2>1, ForgetKeepsHome
<1>6. CASE UNCHANGED vars
  BY <1>6 DEF vars, store, IInv, TypeOK, Named, AtHome, Together, Resident, Idle
<1> QED  BY <1>1, <1>2, <1>3, <1>4, <1>5, <1>6, Steps

LEMMA IInvHolds ==
  ASSUME Waits
  PROVE  Spec => []IInv
<1>1. IInv /\ [Next]_vars => IInv'
  BY IInvStep
<1> QED  BY <1>1, IInvInit, PTL DEF Spec

(***************************************************************************)
(* One handler at a time per key (#resolveInstance, #onIdle and #evict in  *)
(* src/ekman.ts), however many keys, triggers, reloads and evictions, as   *)
(* long as the application sends nothing to a key it is forgetting.        *)
(***************************************************************************)
THEOREM TurnsAtHome ==
  ASSUME Waits
  PROVE  Spec => []OneTurnPerKey
<1>1. IInv => OneTurnPerKey
  BY DEF IInv, AtHome, OneTurnPerKey
<1> QED  BY <1>1, IInvHolds, PTL

(***************************************************************************)
(* The table, the ledger and the index stay in step, and the ledger adds   *)
(* up, through sends, moves, evictions and deletions.                      *)
(***************************************************************************)
THEOREM TablesAgree ==
  ASSUME Waits
  PROVE  Spec => []TablesInStep
<1>1. IInv => TablesInStep
  <2> SUFFICES ASSUME IInv PROVE TablesInStep
    OBVIOUS
  <2>1. Together(held) /\ InUse(held.order) /\ held.total = SumOf(held.bytes)
    BY DEF IInv, TypeOK, Ledger
  <2> QED  BY <2>1 DEF TablesInStep, Together, InUse, SumOf, Resident
<1> QED  BY <1>1, IInvHolds, PTL

-----------------------------------------------------------------------------
(* The budget.                                                             *)

\* Memory in which nothing is held costs nothing.
LEMMA NothingHeld ==
  ASSUME NEW h, Kept(h), Together(h), \A k \in Key : h.resident[k] = None
  PROVE  h.total = 0
<1>1. h.bytes \in [Key -> Nat] /\ \A k \in Key : h.bytes[k] = 0
  BY DEF Kept, Held, Together
<1>2. h.total = SumOf(h.bytes)
  BY DEF Kept, Ledger
<1> QED  BY <1>1, <1>2, FreeKeys

AllIdle == \A r \in Trigger : record[r].pc = "idle"

\* A turn that ends, and leaves everything idle, has met the budget.
LEMMA TurnEndsInBudget ==
  ASSUME TypeOK, NEW r \in Trigger, record[r].pc # "idle",
         NEW after, Busy(after), NEW result \in {"committed", "failed"},
         NEW h, Kept(h), Together(h),
         TurnEnds(r, after, result, h),
         config.policy = "lru", AllIdle'
  PROVE  held'.total <= MaxBytes
<1> DEFINE recs == [record EXCEPT ![r] = Advanced(after)]
           fit == EvictToFit(recs, h)
<1>1. /\ record' = recs /\ record' \in [Trigger -> Records]
  BY TurnEndsTyped
<1>2. /\ Drained(recs, h, snapshot, fit)
      /\ ~Over(fit.held) \/ \A k \in ToSet(h.order) : Empty(recs, fit, k)
  <2>1. recs \in [Trigger -> Records] /\ snapshot \in [Key -> Pictures]
    BY <1>1 DEF TypeOK
  <2> HIDE DEF recs
  <2> QED  BY <2>1, Eviction
<1>3. held' = fit.held
  BY <1>1 DEF TurnEnds, AllIdle
<1>4. \A q \in Trigger : recs[q].pc = "idle"
  BY <1>1 DEF AllIdle
<1> HIDE DEF recs, fit
<1>5. Kept(fit.held) /\ Together(fit.held) /\ MaxBytes \in Nat
      /\ fit.held.total \in Int
  BY <1>2, BytesAssumption DEF Drained, Kept, Held
<1>6. CASE ~Over(fit.held)
  BY <1>3, <1>5, <1>6 DEF Over
<1>7. CASE \A k \in ToSet(h.order) : Empty(recs, fit, k)
  <2>1. ASSUME NEW k \in Key PROVE fit.held.resident[k] = None
    <3>1. fit.held.resident[k] \in Trigger \cup {None}
      BY <1>5 DEF Kept, Held
    <3>2. h.resident[k] = None => fit.held.resident[k] = None
      BY <1>2 DEF Drained, Spared, LetGo
    <3>3. h.resident[k] # None => Empty(recs, fit, k)
      BY <1>7 DEF Together
    <3> QED  BY <1>4, <3>1, <3>2, <3>3 DEF Empty
  <2>2. fit.held.total = 0
    BY <1>5, <2>1, NothingHeld
  <2> QED  BY <1>3, <1>5, <2>2
<1> QED  BY <1>2, <1>6, <1>7

LEMMA BudgetStep ==
  ASSUME IInv, IInv', BudgetHolds, [Next]_vars
  PROVE  BudgetHolds'
<1> USE DEF IInv
<1>0. /\ TypeOK /\ AtHome /\ Kept(held) /\ Together(held) /\ TypeOK'
      /\ held.total \in Int /\ MaxBytes \in Nat
  BY BytesAssumption DEF TypeOK, Kept, Held
<1> SUFFICES ASSUME config'.policy = "lru", AllIdle'
             PROVE  held'.total <= MaxBytes
  BY DEF BudgetHolds, AllIdle
<1>1. config' = config
  BY DEF Next, Quiet, vars, Send, Loads, Attempt, Settles, SendResident, SendNew,
         SendRefused, StoreLoad, Hydrate, Reload, LoadFails, Seal, TurnFails,
         Timeout, InitLands, InitFails, CommitLands, CommitFails, ForgetFlushes,
         ForgetDeletes, ForgetAbsent
<1>2. ASSUME AllIdle, held' = held PROVE held'.total <= MaxBytes
  BY <1>1, <1>2 DEF BudgetHolds, AllIdle
<1>3. ASSUME NEW r \in Trigger, NEW x, x.pc # "idle", record' = [record EXCEPT ![r] = x]
      PROVE  FALSE
  BY <1>0, <1>3 DEF AllIdle, TypeOK
<1>4. ASSUME NEW t \in Trigger, NEW k \in Key, Send(t, k)
      PROVE  held'.total <= MaxBytes
  <2>1. CASE SendResident(t, k)
    <3>1. /\ Resident(k) \in Trigger /\ Sane(record[Resident(k)])
          /\ record[Resident(k)].key \in Key
      BY <1>0, <2>1 DEF SendResident, Resident, TypeOK, Held, Named
    <3>2. Enqueued(record[Resident(k)], t).pc # "idle"
      BY <3>1, EnqueuedIsSane
    <3> QED  BY <1>3, <2>1, <3>1, <3>2 DEF SendResident
  <2>2. CASE SendNew(t, k)
    <3>1. Sane(Fresh(k)) /\ Fresh(k).key \in Key
      <4>1. Fresh(k) \in Records /\ Fresh(k).pc = "idle" /\ Fresh(k).queue = <<>>
            /\ Fresh(k).chain = <<>> /\ Fresh(k).key = k
        BY StateAssumption
        DEF Fresh, Records, Pictures, Phases, NoToken, Given, Authors, NoSnapshot
      <4> QED  BY <4>1 DEF Sane
    <3>2. Enqueued(Fresh(k), t).pc # "idle"
      BY <3>1, EnqueuedIsSane
    <3> QED  BY <1>3, <2>2, <3>2 DEF SendNew
  <2>3. CASE SendRefused(t, k)
    BY <1>2, <2>3 DEF SendRefused, AllIdle
  <2> QED  BY <1>4, <2>1, <2>2, <2>3 DEF Send
<1>5. ASSUME NEW r \in Trigger, NEW x, Busy(x), record[r].pc # "idle",
             NEW result \in {"committed", "failed"},
             NEW h, Kept(h), Together(h), TurnEnds(r, x, result, h)
      PROVE  held'.total <= MaxBytes
  BY <1>0, <1>1, <1>5, TurnEndsInBudget
<1>6. ASSUME NEW r \in Trigger, Loads(r) PROVE held'.total <= MaxBytes
  <2>1. /\ Busy(record[r]) /\ record[r] \in Records /\ record[r].pc # "idle"
    BY <1>0, <1>6, BusyRecords
    DEF TypeOK, Loads, StoreLoad, Hydrate, Reload, LoadFails
  <2>2. CASE StoreLoad(r)
    BY <1>3, <2>1, <2>2 DEF StoreLoad, Records
  <2>3. ASSUME NEW y \in Records, y.key = record[r].key, y.queue = record[r].queue,
               y.chain = record[r].chain, y.loaded = record[r].loaded,
               record' = [record EXCEPT ![r] = Adopting(y)], ~IsGone(r)
        PROVE  FALSE
    <3>1. Busy(y) /\ y.loaded # NoSnapshot
      BY <2>1, <2>3 DEF Busy, IsGone
    <3> QED  BY <1>3, <2>3, <3>1, AdoptingTyped
  <2>4. CASE Hydrate(r) /\ ~IsGone(r)
    <3> DEFINE y == [record[r] EXCEPT !.hydration = "done"]
    <3>1. /\ y \in Records /\ y.key = record[r].key /\ y.queue = record[r].queue
          /\ y.chain = record[r].chain /\ y.loaded = record[r].loaded
      BY <2>1 DEF Records
    <3>2. record' = [record EXCEPT ![r] = Adopting(y)]
      BY <2>4 DEF Hydrate
    <3> HIDE DEF y
    <3> QED  BY <2>3, <2>4, <3>1, <3>2
  <2>5. CASE Reload(r) /\ ~IsGone(r)
    <3> DEFINE y == [record[r] EXCEPT !.stale = FALSE]
    <3>1. /\ y \in Records /\ y.key = record[r].key /\ y.queue = record[r].queue
          /\ y.chain = record[r].chain /\ y.loaded = record[r].loaded
      BY <2>1 DEF Records
    <3>2. record' = [record EXCEPT ![r] = Adopting(y)]
      BY <2>5 DEF Reload
    <3> HIDE DEF y
    <3> QED  BY <2>3, <2>5, <3>1, <3>2
  <2>6. CASE Hydrate(r) /\ IsGone(r)
    BY <1>3, <2>1, <2>6 DEF Hydrate, Records
  <2>7. CASE Reload(r) /\ IsGone(r)
    BY <1>3, <2>1, <2>7 DEF Reload, Records
  <2>8. CASE LoadFails(r)
    <3> DEFINE x == IF record[r].pc = "reloading" THEN record[r]
                    ELSE [record[r] EXCEPT !.hydration = "failed"]
    <3>1. /\ x \in Records /\ x.key = record[r].key /\ x.queue = record[r].queue
          /\ x.chain = record[r].chain
      BY <2>1 DEF Records
    <3>2. TurnEnds(r, x, "failed", held)
      BY <2>8 DEF LoadFails
    <3> HIDE DEF x
    <3>3. Busy(x)
      BY <2>1, <3>1 DEF Busy
    <3> QED  BY <1>0, <1>5, <2>1, <3>2, <3>3
  <2> QED  BY <1>6, <2>2, <2>4, <2>5, <2>6, <2>7, <2>8 DEF Loads
<1>7. ASSUME NEW r \in Trigger, Attempt(r) \/ Timeout(r)
      PROVE  held'.total <= MaxBytes
  <2>1. /\ Busy(record[r]) /\ record[r] \in Records /\ record[r].pc # "idle"
    BY <1>0, <1>7, BusyRecords DEF TypeOK, Attempt, Seal, TurnFails, Timeout
  <2>2. ASSUME NEW to \in State, Seal(r, to) PROVE FALSE
    BY <1>3, <2>1, <2>2 DEF Seal, Records
  <2>3. CASE TurnFails(r) \/ Timeout(r)
    BY <1>0, <1>5, <2>1, <2>3 DEF TurnFails, Timeout
  <2> QED  BY <1>7, <2>2, <2>3 DEF Attempt
<1>8. ASSUME NEW r \in Trigger, Settles(r) PROVE held'.total <= MaxBytes
  <2>0. /\ record[r].chain # <<>>
        /\ Rest(r) \in Records /\ Rest(r).key = record[r].key
        /\ Rest(r).queue = record[r].queue /\ Rest(r).pc = record[r].pc
        /\ record[r].key \in Key /\ (IsInit(r) => record[r].pc = "initializing")
    <3>1. record[r].chain # <<>>
      BY <1>8 DEF Settles, InitLands, InitFails, CommitLands, CommitFails
    <3> QED  BY <1>0, <3>1, RestTyped
  <2>1. ASSUME NEW x \in Records, x.pc = record[r].pc,
               record' = [record EXCEPT ![r] = x], UNCHANGED held
        PROVE  held'.total <= MaxBytes
    <3>1. AllIdle
      BY <1>0, <2>1 DEF AllIdle, TypeOK
    <3> QED  BY <1>2, <2>1, <3>1
  <2>2. CASE InitLands(r)
    <3> DEFINE y == [Rest(r) EXCEPT !.hydration = "done"]
    <3>1. /\ y \in Records /\ y.key = record[r].key /\ y.queue = record[r].queue
          /\ y.chain = Rest(r).chain
      BY <2>0 DEF Records
    <3>2. record' = [record EXCEPT ![r] = Ready(y)] /\ IsInit(r)
      BY <2>2 DEF InitLands
    <3> HIDE DEF y
    <3>3. Ready(y).pc = "handling"
      BY <1>0, <2>0, <3>1, <3>2, InitBusy, ReadyIsSane
    <3> QED  BY <1>3, <3>2, <3>3
  <2>3. CASE InitFails(r)
    <3> DEFINE x == [Rest(r) EXCEPT !.hydration = "failed"]
    <3>1. /\ x \in Records /\ x.key = record[r].key /\ x.queue = record[r].queue
          /\ x.chain = Rest(r).chain
      BY <2>0 DEF Records
    <3>2. TurnEnds(r, x, "failed", held) /\ IsInit(r)
      BY <2>3 DEF InitFails
    <3> HIDE DEF x
    <3>3. Busy(x) /\ record[r].pc # "idle"
      BY <1>0, <2>0, <3>1, <3>2, InitBusy
    <3> QED  BY <1>0, <1>5, <3>2, <3>3
  <2>4. CASE CommitLands(r)
    <3> DEFINE x == [Rest(r) EXCEPT !.state = Write(r).to,
                                    !.seq = Write(r).expected + 1,
                                    !.by = Write(r).by]
    <3>1. Write(r).to \in State /\ Write(r).by \in Authors /\ Write(r).expected + 1 \in Nat
      <4>1. Write(r) \in Writes /\ Write(r) # InitWrite
        BY <1>0, <2>0, <2>4, RestTyped DEF CommitLands
      <4> QED  BY <4>1 DEF Writes, Authors
    <3>2. /\ x \in Records /\ x.key = record[r].key /\ x.queue = record[r].queue
          /\ x.chain = Rest(r).chain /\ x.pc = record[r].pc /\ x.state \in State
      BY <2>0, <3>1 DEF Records
    <3>3. IF Awaited(r)
            THEN TurnEnds(r, x, "committed", Accounted(r, x))
            ELSE /\ record' = [record EXCEPT ![r] = x]
                 /\ UNCHANGED <<held, outcome, snapshot>>
      BY <2>4 DEF CommitLands
    <3> HIDE DEF x
    <3>4. CASE Awaited(r)
      <4>1. Busy(x) /\ record[r].pc # "idle"
        BY <1>0, <2>0, <3>2, <3>4, AwaitedIsBusy DEF Awaited
      <4>2. Resident(x.key) # None
        BY <1>0, <3>2, <4>1, NoneAssumption DEF AtHome
      <4>3. Kept(Accounted(r, x)) /\ Together(Accounted(r, x))
        BY <1>0, <2>0, <3>2, <4>2, AccountedFits, AccountedTogether
      <4> QED  BY <1>5, <3>3, <3>4, <4>1, <4>3
    <3>5. CASE ~Awaited(r)
      BY <2>1, <3>2, <3>3, <3>5
    <3> QED  BY <3>4, <3>5
  <2>5. CASE CommitFails(r)
    <3>1. PICK conflict \in BOOLEAN :
            LET after == [Rest(r) EXCEPT !.stale = @ \/ conflict]
            IN  IF Awaited(r)
                  THEN TurnEnds(r, after, "failed", held)
                  ELSE /\ record' = [record EXCEPT ![r] = after]
                       /\ UNCHANGED <<held, outcome, snapshot>>
      BY <2>5 DEF CommitFails
    <3> DEFINE x == [Rest(r) EXCEPT !.stale = @ \/ conflict]
    <3>2. /\ x \in Records /\ x.key = record[r].key /\ x.queue = record[r].queue
          /\ x.chain = Rest(r).chain /\ x.pc = record[r].pc
      BY <2>0 DEF Records
    <3>3. IF Awaited(r)
            THEN TurnEnds(r, x, "failed", held)
            ELSE /\ record' = [record EXCEPT ![r] = x]
                 /\ UNCHANGED <<held, outcome, snapshot>>
      BY <3>1
    <3> HIDE DEF x
    <3>4. CASE Awaited(r)
      <4>1. Busy(x) /\ record[r].pc # "idle"
        BY <1>0, <2>0, <3>2, <3>4, AwaitedIsBusy DEF Awaited
      <4> QED  BY <1>0, <1>5, <3>3, <3>4, <4>1
    <3>5. CASE ~Awaited(r)
      BY <2>1, <3>2, <3>3, <3>5
    <3> QED  BY <3>4, <3>5
  <2> QED  BY <1>8, <2>2, <2>3, <2>4, <2>5 DEF Settles
<1>9. ASSUME NEW k \in Key, ForgetFlushes(k) \/ ForgetDeletes(k) \/ ForgetAbsent(k)
      PROVE  held'.total <= MaxBytes
  <2>1. record' = record
    BY <1>9 DEF ForgetFlushes, ForgetDeletes, ForgetAbsent
  <2>2. AllIdle
    BY <2>1 DEF AllIdle
  <2>3. CASE ForgetDeletes(k)
    <3>1. held'.total = held.total - held.bytes[k] /\ held.bytes[k] \in Nat
      BY <1>0, <2>3, ReleasedFits DEF ForgetDeletes, Kept, Held
    <3>2. held.total <= MaxBytes
      BY <1>1, <2>2 DEF BudgetHolds, AllIdle
    <3> QED  BY <1>0, <3>1, <3>2
  <2>4. CASE ForgetFlushes(k) \/ ForgetAbsent(k)
    BY <1>2, <2>2, <2>4 DEF ForgetFlushes, ForgetAbsent
  <2> QED  BY <1>9, <2>3, <2>4
<1>10. CASE UNCHANGED vars
  <2>1. AllIdle /\ held' = held
    BY <1>10 DEF vars, AllIdle
  <2> QED  BY <1>2, <2>1
<1> QED  BY <1>4, <1>6, <1>7, <1>8, <1>9, <1>10, Steps

(***************************************************************************)
(* Under "lru" the accounted bytes are within memory.maxBytes whenever     *)
(* nothing is under way (#onIdle and #evictToFit in src/ekman.ts), for     *)
(* any budget and whatever instances cost.                                 *)
(***************************************************************************)
THEOREM BudgetIsMet ==
  ASSUME Waits
  PROVE  Spec => []BudgetHolds
<1>1. Init => BudgetHolds
  BY BytesAssumption DEF Init, Nothing, BudgetHolds
<1>2. IInv /\ IInv' /\ BudgetHolds /\ [Next]_vars => BudgetHolds'
  BY BudgetStep
<1> QED  BY <1>1, <1>2, IInvHolds, PTL DEF Spec

-----------------------------------------------------------------------------
(* A stream starts with an initialization.                                 *)

\* The start of a stream is the initialization of a record at home.
LEMMA StreamsStart ==
  ASSUME IInv, NEW r \in Trigger, record[r].chain # <<>>, Holds(r), Stores(r),
         NEW k \in Key, log[k] = <<>>, log'[k] # <<>>
  PROVE  log'[k][1].by = InitialValues /\ Resident(k) = r
<1> DEFINE e == [to |-> Write(r).to, by |-> Write(r).by, on |-> Write(r).on]
<1>1. /\ TypeOK /\ AtHome
      /\ Write(r) \in Writes /\ record[r].key \in Key
      /\ ~IsInit(r) => Write(r) # InitWrite
      /\ IsInit(r) => record[r].pc = "initializing"
  BY RestTyped DEF IInv
<1>2. log' = [log EXCEPT ![record[r].key] = Append(@, e)]
  BY DEF Stores
<1>3. record[r].key = k
  BY <1>1, <1>2 DEF TypeOK
<1>4. Len(log[k]) = 0
  BY EmptySeq
<1>5. Write(r).expected = -1
  BY <1>3, <1>4 DEF Holds, DurableSeq
<1>6. IsInit(r)
  BY <1>1, <1>5 DEF Writes
<1>7. log'[k] = Append(<<>>, e)
  BY <1>1, <1>2, <1>3 DEF TypeOK
<1>8. log'[k][1] = e
  <2> HIDE DEF e
  <2> QED  BY <1>7
<1>9. e.by = InitialValues
  BY <1>6 DEF IsInit
<1> HIDE DEF e
<1> QED  BY <1>1, <1>3, <1>6, <1>8, <1>9 DEF AtHome

(***************************************************************************)
(* A forgotten key comes back as a new one: whatever appends of its former *)
(* records are still on their way, a stream starts with an initialization, *)
(* by the record in the table (append() conditional on expectedSeq).       *)
(***************************************************************************)
THEOREM ForgottenKeysStartOver ==
  ASSUME Waits
  PROVE  Spec => ForgottenStartsOver
<1>1. IInv /\ [Next]_vars =>
        [\A k \in Key : log[k] = <<>> /\ log'[k] # <<>> =>
           /\ log'[k][1].by = InitialValues
           /\ Resident(k) # None]_vars
  <2> SUFFICES ASSUME IInv, [Next]_vars,
                      NEW k \in Key, log[k] = <<>>, log'[k] # <<>>
               PROVE  log'[k][1].by = InitialValues /\ Resident(k) # None
    BY DEF vars, store
  <2>1. ASSUME NEW r \in Trigger, record[r].chain # <<>>, Holds(r), Stores(r)
        PROVE  log'[k][1].by = InitialValues /\ Resident(k) # None
    BY <2>1, StreamsStart, NoneAssumption
  <2>2. ASSUME NEW r \in Trigger, Settles(r)
        PROVE  log'[k][1].by = InitialValues /\ Resident(k) # None
    BY <2>1, <2>2 DEF Settles, InitLands, InitFails, CommitLands, CommitFails
  <2>3. CASE \E j \in Key : ForgetFlushes(j) \/ ForgetDeletes(j) \/ ForgetAbsent(j)
    BY <2>3 DEF IInv, TypeOK, ForgetFlushes, ForgetDeletes, ForgetAbsent, Deleted, store
  <2>4. CASE \E t \in Trigger, j \in Key : Send(t, j)
    BY <2>4 DEF Send, SendResident, SendNew, SendRefused, store
  <2>5. CASE \E r \in Trigger : Loads(r)
    BY <2>5 DEF Loads, StoreLoad, Hydrate, Reload, LoadFails, store
  <2>6. CASE \E r \in Trigger : Attempt(r) \/ Timeout(r)
    BY <2>6 DEF Attempt, Seal, TurnFails, Timeout, store
  <2>7. CASE UNCHANGED vars
    BY <2>7 DEF vars, store
  <2> QED  BY <2>2, <2>3, <2>4, <2>5, <2>6, <2>7, Steps
<1> QED  BY <1>1, IInvHolds, PTL DEF Spec, ForgottenStartsOver

-----------------------------------------------------------------------------
(* Decisions are on the latest commit, in a runtime that deletes nothing.  *)

\* What the commit of this sequence in a stream is, as far as it is known: the
\* definition's values are the first commit whether they were stored or not.
Agrees(l, seq, by) ==
  \/ seq = 0 /\ by = InitialValues
  \/ seq \in 1 .. Len(l) - 1 /\ by = l[seq + 1].by

Known(l, p) == p = NoSnapshot \/ Agrees(l, p.seq, p.by)

\* What a record holds, and what it has on its way, agrees with the stream.
Follows(l, x) ==
  /\ Agrees(l, x.seq, x.by)
  /\ Known(l, x.loaded)
  /\ \A i \in 1 .. Len(x.chain) :
       x.chain[i] = InitWrite \/ Agrees(l, x.chain[i].expected, x.chain[i].on)

\* And so does what its attempt was given.
Abides(l, x) ==
  /\ Follows(l, x)
  /\ x.pc = "handling" => Agrees(l, x.token.seq, x.token.by)

\* Each commit was decided on the one before it.
Unbroken(l) ==
  /\ l # <<>> => l[1].by = InitialValues
  /\ \A i \in 1 .. Len(l) : l[i].on = IF i = 1 THEN NoCommit ELSE l[i - 1].by

Agreement ==
  forgets = 0 =>
    /\ \A k \in Key : /\ pending[k] = NoForget
                      /\ Unbroken(log[k])
                      /\ Known(log[k], snapshot[k])
    /\ \A r \in Trigger :
         record[r].key \in Key => Abides(log[record[r].key], record[r])

\* The token of a record is of the moment it was made ready.
TokenOfNow(x) == x.pc = "handling" => x.token = [seq |-> x.seq, by |-> x.by]

LEMMA ReadyToken ==
  ASSUME NEW r \in Records
  PROVE  TokenOfNow(Ready(r))
  BY DEF TokenOfNow, Ready, Records

LEMMA BegunToken ==
  ASSUME NEW r \in Records
  PROVE  TokenOfNow(Begun(r))
<1>1. CASE r.stale
  <2>1. Begun(r).pc = "reloading"
    BY <1>1 DEF Begun, Records
  <2> QED  BY <2>1 DEF TokenOfNow
<1>2. CASE ~r.stale /\ r.hydration = "none"
  <2>1. Begun(r).pc = "hydrating"
    BY <1>2 DEF Begun, Records
  <2> QED  BY <2>1 DEF TokenOfNow
<1>3. CASE ~r.stale /\ r.hydration = "failed"
  <2>1. Begun(r).pc = "failing"
    BY <1>3 DEF Begun, Records
  <2> QED  BY <2>1 DEF TokenOfNow
<1>4. CASE ~r.stale /\ r.hydration # "none" /\ r.hydration # "failed"
  <2>1. Begun(r) = Ready(r)
    BY <1>4 DEF Begun
  <2> QED  BY <2>1, ReadyToken
<1> QED  BY <1>1, <1>2, <1>3, <1>4

LEMMA AdvancedToken ==
  ASSUME NEW r, Busy(r)
  PROVE  TokenOfNow(Advanced(r))
<1> DEFINE rest == [r EXCEPT !.queue = Tail(@)]
<1>1. r \in Records /\ r.queue \in Seq(Trigger) /\ r.queue # <<>>
  BY DEF Busy, Records
<1>2. rest \in Records
  <2>1. Tail(r.queue) \in Seq(Trigger)
    BY <1>1
  <2> QED  BY <1>1, <2>1 DEF Records
<1>3. CASE rest.queue = <<>>
  <2>1. Advanced(r) = [rest EXCEPT !.pc = "idle"]
    BY <1>3 DEF Advanced
  <2> HIDE DEF rest
  <2>2. Advanced(r).pc = "idle"
    BY <1>2, <2>1 DEF Records
  <2> QED  BY <2>2 DEF TokenOfNow
<1>4. CASE rest.queue # <<>>
  <2>1. Advanced(r) = Begun(rest)
    BY <1>4 DEF Advanced
  <2> HIDE DEF rest
  <2> QED  BY <1>2, <2>1, BegunToken
<1> QED  BY <1>3, <1>4

\* What a turn leaves to the next one agrees with the stream as it did.
LEMMA KeepsFollowing ==
  ASSUME NEW l, NEW x, NEW y, Follows(l, x), Keeps(x, y), TokenOfNow(y)
  PROVE  Abides(l, y)
  BY DEF Follows, Keeps, TokenOfNow, Abides

LEMMA EnqueuedAbides ==
  ASSUME NEW l, NEW r, Sane(r), r.key \in Key, NEW t \in Trigger, Abides(l, r)
  PROVE  Abides(l, Enqueued(r, t))
<1> DEFINE queued == [r EXCEPT !.queue = Append(@, t)]
<1>1. r \in Records /\ r.queue \in Seq(Trigger)
  BY DEF Sane, Records
<1>2. Append(r.queue, t) \in Seq(Trigger)
  BY <1>1, AppendProperties
<1>3. queued \in Records /\ Keeps(r, queued) /\ queued.pc = r.pc
      /\ queued.token = r.token
  BY <1>1, <1>2 DEF Records, Keeps
<1> HIDE DEF queued
<1>4. CASE r.pc = "idle"
  <2>1. Enqueued(r, t) = Begun(queued)
    BY <1>4 DEF Enqueued, queued
  <2>2. Keeps(r, Enqueued(r, t))
    BY EnqueuedIsSane
  <2>3. TokenOfNow(Enqueued(r, t))
    BY <1>3, <2>1, BegunToken
  <2> QED  BY <2>2, <2>3, KeepsFollowing DEF Abides
<1>5. CASE r.pc # "idle"
  <2>1. Enqueued(r, t) = queued
    BY <1>5 DEF Enqueued, queued
  <2> QED  BY <1>3, <2>1 DEF Abides, Follows, Keeps
<1> QED  BY <1>4, <1>5

\* A turn that ends leaves behind what agrees with the streams l.
LEMMA TurnEndsAbides ==
  ASSUME TypeOK, Named, NEW r \in Trigger,
         NEW after, Busy(after), after.key = record[r].key,
         NEW result \in {"committed", "failed"},
         NEW h, Kept(h), h.resident = held.resident,
         TurnEnds(r, after, result, h),
         NEW l, \A k \in Key : Known(l[k], snapshot[k]),
         \A q \in Trigger : record[q].key \in Key /\ q # r =>
           Abides(l[record[q].key], record[q]),
         Follows(l[after.key], after)
  PROVE  /\ \A k \in Key : Known(l[k], snapshot'[k])
         /\ \A q \in Trigger : record'[q].key \in Key =>
              Abides(l[record'[q].key], record'[q])
<1> DEFINE x == Advanced(after)
           recs == [record EXCEPT ![r] = x]
           fit == EvictToFit(recs, h)
<1>1. /\ record' = recs
      /\ record' \in [Trigger -> Records]
      /\ Keeps(after, x)
  BY TurnEndsTyped
<1>2. Drained(recs, h, snapshot, fit)
  <2>1. recs \in [Trigger -> Records] /\ snapshot \in [Key -> Pictures]
    BY <1>1 DEF TypeOK
  <2> HIDE DEF recs
  <2> QED  BY <2>1, Eviction
<1>3. snapshot' = snapshot \/ snapshot' = fit.snapshot
  BY DEF TurnEnds
<1>4. x.key = record[r].key
  BY <1>1 DEF Keeps
<1>5. Abides(l[after.key], x)
  BY <1>1, AdvancedToken, KeepsFollowing
<1> HIDE DEF x
<1>6. \A q \in Trigger : record'[q] = IF q = r THEN x ELSE record[q]
  BY <1>1 DEF TypeOK
<1> HIDE DEF recs, fit
<1>7. ASSUME NEW q \in Trigger, record'[q].key \in Key
      PROVE  Abides(l[record'[q].key], record'[q])
  BY <1>4, <1>5, <1>6, <1>7
<1>8. ASSUME NEW k \in Key PROVE Known(l[k], fit.snapshot[k])
  <2>1. CASE Spared(h, snapshot, fit, k)
    BY <2>1 DEF Spared
  <2>2. CASE LetGo(recs, h, snapshot, fit, k)
    <3> DEFINE w == held.resident[k]
    <3>1. /\ w \in Trigger /\ record[w].key = k
          /\ fit.snapshot[k] = Newer(snapshot[k], Picture(record'[w]))
      BY <1>1, <2>2 DEF LetGo, TypeOK, Held, Named, Resident
    <3>2. record'[w].key = k
      BY <1>4, <1>6, <3>1
    <3>3. Agrees(l[k], record'[w].seq, record'[w].by)
      BY <1>7, <3>1, <3>2 DEF Abides, Follows
    <3>4. Known(l[k], Picture(record'[w]))
      BY <3>3 DEF Known, Picture
    <3> QED  BY <3>1, <3>4 DEF Newer
  <2> QED  BY <1>2, <2>1, <2>2 DEF Drained
<1> QED  BY <1>3, <1>7, <1>8

\* A load gives what the stream holds.
LEMMA LoadedIsKnown ==
  ASSUME TypeOK, NEW k \in Key, Unbroken(log[k]), Known(log[k], snapshot[k])
  PROVE  Known(log[k], Loaded(k))
<1> DEFINE s == log[k]
<1>1. s \in Seq([to : State, by : Authors, on : Given])
  BY DEF TypeOK
<1>2. CASE s # <<>> /\ DurableSeq(k) > snapshot[k].seq
  <2>1. Loaded(k).seq = Len(s) - 1 /\ Loaded(k).by = Last(s).by
    BY <1>2 DEF Loaded, StoredCommit, DurableSeq
  <2>2. Len(s) \in Nat /\ Len(s) # 0
    BY <1>1, <1>2, EmptySeq
  <2>3. Last(s) = s[Len(s)]
    BY DEF Last
  <2>4. CASE Len(s) = 1
    BY <1>2, <2>1, <2>3, <2>4 DEF Known, Agrees, Unbroken
  <2>5. CASE Len(s) # 1
    <3>1. Len(s) - 1 \in 1 .. Len(s) - 1 /\ (Len(s) - 1) + 1 = Len(s)
      <4> DEFINE n == Len(s)
      <4>1. n \in Nat /\ n # 0 /\ n # 1
        BY <2>2, <2>5
      <4> HIDE DEF n
      <4>2. n - 1 \in 1 .. n - 1 /\ (n - 1) + 1 = n
        BY <4>1
      <4> QED  BY <4>2 DEF n
    <3> QED  BY <2>1, <2>3, <3>1 DEF Known, Agrees
  <2> QED  BY <2>4, <2>5
<1>3. CASE ~(s # <<>> /\ DurableSeq(k) > snapshot[k].seq)
  BY <1>3 DEF Loaded, Known
<1> QED  BY <1>2, <1>3

\* A stream that grows says of its commits what it said before.
LEMMA GrownAgrees ==
  ASSUME NEW S, NEW l \in Seq(S), NEW e \in S
  PROVE  /\ \A seq, by : Agrees(l, seq, by) => Agrees(Append(l, e), seq, by)
         /\ \A p : Known(l, p) => Known(Append(l, e), p)
         /\ \A x : Follows(l, x) => Follows(Append(l, e), x)
         /\ \A x : Abides(l, x) => Abides(Append(l, e), x)
<1>1. /\ Len(Append(l, e)) = Len(l) + 1 /\ Len(l) \in Nat
      /\ \A i \in 1 .. Len(l) : Append(l, e)[i] = l[i]
  BY AppendProperties
<1>2. ASSUME NEW seq, NEW by, Agrees(l, seq, by) PROVE Agrees(Append(l, e), seq, by)
  BY <1>1, <1>2 DEF Agrees
<1> QED  BY <1>2 DEF Known, Follows, Abides

\* An append that the store accepts continues the stream.
LEMMA LandsChained ==
  ASSUME NEW S, NEW l \in Seq(S), Unbroken(l), NEW e \in S,
         \/ l = <<>> /\ e.by = InitialValues /\ e.on = NoCommit
         \/ /\ l # <<>> /\ Agrees(l, Len(l) - 1, e.on)
  PROVE  Unbroken(Append(l, e))
<1> DEFINE g == Append(l, e)
<1>1. /\ Len(g) = Len(l) + 1 /\ Len(l) \in Nat
      /\ \A i \in 1 .. Len(l) : g[i] = l[i]
      /\ g[Len(l) + 1] = e
  BY AppendProperties
<1>2. l = <<>> <=> Len(l) = 0
  BY EmptySeq
<1> SUFFICES Unbroken(g)
  OBVIOUS
<1> HIDE DEF g
<1>3. CASE l = <<>>
  BY <1>1, <1>2, <1>3 DEF Unbroken
<1>4. CASE l # <<>>
  <2>1. e.on = l[Len(l)].by
    <3>1. CASE Len(l) = 1
      BY <1>4, <3>1 DEF Unbroken, Agrees
    <3>2. CASE Len(l) # 1
      BY <1>1, <1>2, <1>4, <3>2 DEF Agrees
    <3> QED  BY <3>1, <3>2
  <2>2. g[1].by = InitialValues
    BY <1>1, <1>2, <1>4 DEF Unbroken
  <2>3. ASSUME NEW i \in 1 .. Len(g)
        PROVE  g[i].on = IF i = 1 THEN NoCommit ELSE g[i - 1].by
    <3>1. CASE i = Len(l) + 1
      BY <1>1, <1>2, <1>4, <2>1, <3>1
    <3>2. CASE i # Len(l) + 1
      BY <1>1, <3>2 DEF Unbroken
    <3> QED  BY <3>1, <3>2
  <2> QED  BY <2>2, <2>3 DEF Unbroken
<1> QED  BY <1>3, <1>4

\* Agreement, in a runtime that has deleted nothing.
LEMMA AgreementNow ==
  ASSUME Agreement, forgets = 0
  PROVE  /\ \A k \in Key : /\ pending[k] = NoForget
                           /\ Unbroken(log[k])
                           /\ Known(log[k], snapshot[k])
         /\ \A r \in Trigger :
              record[r].key \in Key => Abides(log[record[r].key], record[r])
  BY DEF Agreement

\* A record changes, and the store does not.
LEMMA ChangeAgrees ==
  ASSUME IInv, Agreement, forgets = 0, NEW r \in Trigger, NEW x,
         record' = [record EXCEPT ![r] = x],
         x.key \in Key => Abides(log[x.key], x),
         UNCHANGED <<log, snapshot>>,
         \A k \in Key : pending'[k] # NoForget => pending[k] # NoForget
  PROVE  Agreement'
<1>1. \A q \in Trigger : record'[q] = IF q = r THEN x ELSE record[q]
  BY DEF IInv, TypeOK
<1>2. \A q \in Trigger :
        record'[q].key \in Key => Abides(log[record'[q].key], record'[q])
  BY <1>1, AgreementNow
<1>3. \A k \in Key : /\ pending'[k] = NoForget
                     /\ Unbroken(log[k])
                     /\ Known(log[k], snapshot[k])
  BY AgreementNow
<1> QED  BY <1>2, <1>3 DEF Agreement

\* A turn ends, and the streams stay as they are.
LEMMA TurnAgrees ==
  ASSUME IInv, Agreement, forgets = 0, NEW r \in Trigger,
         NEW after, Busy(after), after.key = record[r].key,
         NEW result \in {"committed", "failed"},
         TurnEnds(r, after, result, held),
         Follows(log[after.key], after), UNCHANGED log,
         \A k \in Key : pending'[k] # NoForget => pending[k] # NoForget
  PROVE  Agreement'
<1>0. TypeOK /\ Named /\ Kept(held)
  BY DEF IInv, TypeOK, Kept
<1>1. /\ \A k \in Key : Known(log[k], snapshot[k])
      /\ \A q \in Trigger : record[q].key \in Key /\ q # r =>
           Abides(log[record[q].key], record[q])
  BY AgreementNow
<1>2. /\ \A k \in Key : Known(log[k], snapshot'[k])
      /\ \A q \in Trigger : record'[q].key \in Key =>
           Abides(log[record'[q].key], record'[q])
  BY <1>0, <1>1, TurnEndsAbides
<1>3. \A k \in Key : pending'[k] = NoForget /\ Unbroken(log[k])
  BY AgreementNow
<1> QED  BY <1>2, <1>3 DEF Agreement

LEMMA SendAgrees ==
  ASSUME IInv, Agreement, forgets' = 0, NEW t \in Trigger, NEW k \in Key, Send(t, k)
  PROVE  Agreement'
<1>0. /\ forgets = 0 /\ UNCHANGED <<log, snapshot, pending>>
      /\ held.resident \in [Key -> Trigger \cup {None}]
  BY DEF Send, SendResident, SendNew, SendRefused, store, IInv, TypeOK, Held
<1>1. CASE SendResident(t, k)
  <2> DEFINE r == Resident(k)
             x == Enqueued(record[r], t)
  <2>1. r \in Trigger /\ Sane(record[r]) /\ record[r].key = k
    BY <1>0, <1>1 DEF SendResident, IInv, TypeOK, Resident, Named
  <2>2. record' = [record EXCEPT ![r] = x]
    BY <1>1 DEF SendResident
  <2>3. Abides(log[k], record[r])
    BY <1>0, <2>1, AgreementNow
  <2> HIDE DEF r
  <2>4. Abides(log[k], x)
    BY <2>1, <2>3, EnqueuedAbides
  <2>5. x.key = k
    BY <2>1, EnqueuedIsSane DEF Keeps
  <2> HIDE DEF x
  <2> QED  BY <1>0, <2>1, <2>2, <2>4, <2>5, ChangeAgrees
<1>2. CASE SendNew(t, k)
  <2> DEFINE x == Enqueued(Fresh(k), t)
  <2>1. /\ Sane(Fresh(k)) /\ Fresh(k).key = k
        /\ Fresh(k).seq = 0 /\ Fresh(k).by = InitialValues
        /\ Fresh(k).loaded = NoSnapshot /\ Fresh(k).chain = <<>>
        /\ Fresh(k).pc = "idle"
    <3>1. /\ Fresh(k) \in Records /\ Fresh(k).queue = <<>>
      BY StateAssumption
      DEF Fresh, Records, Pictures, Phases, NoToken, Given, Authors, NoSnapshot
    <3>2. /\ Fresh(k).key = k
          /\ Fresh(k).seq = 0 /\ Fresh(k).by = InitialValues
          /\ Fresh(k).loaded = NoSnapshot /\ Fresh(k).chain = <<>>
          /\ Fresh(k).pc = "idle"
      BY DEF Fresh
    <3> QED  BY <3>1, <3>2 DEF Sane
  <2>2. Abides(log[k], Fresh(k))
    BY <2>1 DEF Abides, Follows, Known, Agrees
  <2>3. Abides(log[k], x) /\ x.key = k
    BY <2>1, <2>2, EnqueuedAbides, EnqueuedIsSane DEF Keeps
  <2>4. record' = [record EXCEPT ![t] = x]
    BY <1>2 DEF SendNew
  <2> HIDE DEF x
  <2> QED  BY <1>0, <2>3, <2>4, ChangeAgrees
<1>3. CASE SendRefused(t, k)
  BY <1>0, <1>3 DEF SendRefused, Agreement
<1> QED  BY <1>1, <1>2, <1>3 DEF Send

LEMMA AdoptingAbides ==
  ASSUME NEW l, NEW y, Busy(y), y.loaded # NoSnapshot, Follows(l, y)
  PROVE  Abides(l, Adopting(y))
<1> DEFINE x == [y EXCEPT !.state = y.loaded.state, !.seq = y.loaded.seq,
                          !.by = y.loaded.by, !.loaded = NoSnapshot]
<1>1. y \in Records /\ y.loaded \in [seq : Nat, state : State, by : Authors]
  BY DEF Busy, Records, Pictures
<1>2. x \in Records
  BY <1>1 DEF Records, Pictures
<1>3. /\ x.key = y.key /\ x.queue = y.queue /\ x.chain = y.chain
      /\ x.seq = y.loaded.seq /\ x.by = y.loaded.by /\ x.loaded = NoSnapshot
  BY <1>1 DEF Records
<1>4. Adopting(y) = Ready(x)
  BY DEF Adopting
<1> HIDE DEF x
<1>5. Busy(x)
  BY <1>2, <1>3 DEF Busy
<1>6. Follows(l, x)
  BY <1>3 DEF Follows, Known
<1>7. Keeps(x, Ready(x)) /\ TokenOfNow(Ready(x))
  BY <1>2, <1>5, ReadyIsSane, ReadyToken
<1> QED  BY <1>4, <1>6, <1>7, KeepsFollowing

LEMMA LoadsAgree ==
  ASSUME IInv, Agreement, forgets' = 0, NEW r \in Trigger, Loads(r)
  PROVE  Agreement'
<1>0. /\ forgets = 0 /\ UNCHANGED <<log, pending>>
      /\ TypeOK /\ Sane(record[r]) /\ record[r] \in Records
      /\ record[r].pc \notin {"idle", "initializing"}
  BY DEF Loads, StoreLoad, Hydrate, Reload, LoadFails, store, IInv, TypeOK
<1> DEFINE l == log[record[r].key]
<1>1. Busy(record[r]) /\ record[r].key \in Key
  BY <1>0, BusyRecords DEF Busy
<1>2. Abides(l, record[r]) /\ Follows(l, record[r])
      /\ Unbroken(l) /\ Known(l, snapshot[record[r].key])
  BY <1>0, <1>1, AgreementNow DEF Abides
<1>3. Known(l, Loaded(record[r].key))
  BY <1>0, <1>1, <1>2, LoadedIsKnown
<1> HIDE DEF l
<1>4. ASSUME NEW x, x.key = record[r].key, Abides(l, x),
             record' = [record EXCEPT ![r] = x], UNCHANGED snapshot
      PROVE  Agreement'
  BY <1>0, <1>4, ChangeAgrees DEF l
<1>5. CASE StoreLoad(r)
  <2> DEFINE x == [record[r] EXCEPT
                     !.pc = IF @ = "hydrating" THEN "hydrated" ELSE "reloaded",
                     !.loaded = Loaded(record[r].key)]
  <2>1. /\ x.key = record[r].key /\ x.seq = record[r].seq /\ x.by = record[r].by
        /\ x.chain = record[r].chain /\ x.loaded = Loaded(record[r].key)
        /\ x.pc # "handling"
    BY <1>0 DEF Records
  <2>2. record' = [record EXCEPT ![r] = x] /\ UNCHANGED snapshot
    BY <1>5 DEF StoreLoad, store
  <2> HIDE DEF x
  <2>3. Abides(l, x)
    BY <1>2, <1>3, <2>1 DEF Abides, Follows
  <2> QED  BY <1>4, <2>1, <2>2, <2>3
<1>6. CASE Hydrate(r) /\ IsGone(r)
  <2> DEFINE c == Append(record[r].chain, InitWrite)
             x == [record[r] EXCEPT !.chain = Append(@, InitWrite),
                                    !.pc = "initializing"]
  <2>1. /\ x.key = record[r].key /\ x.seq = record[r].seq /\ x.by = record[r].by
        /\ x.chain = c /\ x.loaded = record[r].loaded
        /\ x.pc # "handling"
    BY <1>0 DEF Records
  <2>2. record' = [record EXCEPT ![r] = x] /\ UNCHANGED snapshot
    BY <1>6 DEF Hydrate, store
  <2>3. /\ Len(c) = Len(record[r].chain) + 1 /\ c[Len(record[r].chain) + 1] = InitWrite
        /\ \A i \in 1 .. Len(record[r].chain) : c[i] = record[r].chain[i]
        /\ Len(record[r].chain) \in Nat
    <3>1. record[r].chain \in Seq(Writes) /\ InitWrite \in Writes
      BY <1>0 DEF Records, Writes
    <3> QED  BY <3>1, AppendProperties
  <2> HIDE DEF x, c
  <2>4. Abides(l, x)
    BY <1>2, <2>1, <2>3 DEF Abides, Follows
  <2> QED  BY <1>4, <2>1, <2>2, <2>4
<1>7. CASE Reload(r) /\ IsGone(r)
  <2> DEFINE x == [record[r] EXCEPT
                     !.state = Initial, !.seq = 0, !.by = InitialValues,
                     !.stale = FALSE, !.hydration = "running", !.pc = "hydrating"]
  <2>1. /\ x.key = record[r].key /\ x.seq = 0 /\ x.by = InitialValues
        /\ x.chain = record[r].chain /\ x.loaded = record[r].loaded
        /\ x.pc # "handling"
    BY <1>0 DEF Records
  <2>2. record' = [record EXCEPT ![r] = x] /\ UNCHANGED snapshot
    BY <1>7 DEF Reload, store
  <2> HIDE DEF x
  <2>3. Abides(l, x)
    BY <1>2, <2>1 DEF Abides, Follows, Agrees
  <2> QED  BY <1>4, <2>1, <2>2, <2>3
<1>8. ASSUME NEW y \in Records, y.key = record[r].key, y.queue = record[r].queue,
             y.chain = record[r].chain, y.loaded = record[r].loaded,
             y.seq = record[r].seq, y.by = record[r].by,
             record' = [record EXCEPT ![r] = Adopting(y)], ~IsGone(r),
             UNCHANGED snapshot
      PROVE  Agreement'
  <2>1. Busy(y) /\ y.loaded # NoSnapshot
    BY <1>1, <1>8 DEF Busy, IsGone
  <2>2. Follows(l, y)
    BY <1>2, <1>8 DEF Follows
  <2>3. Abides(l, Adopting(y)) /\ Adopting(y).key = record[r].key
    BY <1>8, <2>1, <2>2, AdoptingAbides, AdoptingTyped
  <2> QED  BY <1>4, <1>8, <2>3
<1>9. CASE Hydrate(r) /\ ~IsGone(r)
  <2> DEFINE y == [record[r] EXCEPT !.hydration = "done"]
  <2>1. /\ y \in Records /\ y.key = record[r].key /\ y.queue = record[r].queue
        /\ y.chain = record[r].chain /\ y.loaded = record[r].loaded
        /\ y.seq = record[r].seq /\ y.by = record[r].by
    BY <1>0 DEF Records
  <2>2. record' = [record EXCEPT ![r] = Adopting(y)] /\ UNCHANGED snapshot
    BY <1>9 DEF Hydrate, store
  <2> HIDE DEF y
  <2> QED  BY <1>8, <1>9, <2>1, <2>2
<1>10. CASE Reload(r) /\ ~IsGone(r)
  <2> DEFINE y == [record[r] EXCEPT !.stale = FALSE]
  <2>1. /\ y \in Records /\ y.key = record[r].key /\ y.queue = record[r].queue
        /\ y.chain = record[r].chain /\ y.loaded = record[r].loaded
        /\ y.seq = record[r].seq /\ y.by = record[r].by
    BY <1>0 DEF Records
  <2>2. record' = [record EXCEPT ![r] = Adopting(y)] /\ UNCHANGED snapshot
    BY <1>10 DEF Reload, store
  <2> HIDE DEF y
  <2> QED  BY <1>8, <1>10, <2>1, <2>2
<1>11. CASE LoadFails(r)
  <2> DEFINE x == IF record[r].pc = "reloading" THEN record[r]
                  ELSE [record[r] EXCEPT !.hydration = "failed"]
  <2>1. /\ x \in Records /\ x.key = record[r].key /\ x.queue = record[r].queue
        /\ x.chain = record[r].chain /\ x.loaded = record[r].loaded
        /\ x.seq = record[r].seq /\ x.by = record[r].by
    BY <1>0 DEF Records
  <2>2. TurnEnds(r, x, "failed", held)
    BY <1>11 DEF LoadFails
  <2> HIDE DEF x
  <2>3. Busy(x) /\ Follows(log[x.key], x)
    BY <1>1, <1>2, <2>1 DEF Busy, Follows, l
  <2> QED  BY <1>0, <2>1, <2>2, <2>3, TurnAgrees
<1> QED  BY <1>5, <1>6, <1>7, <1>9, <1>10, <1>11 DEF Loads

LEMMA AttemptAgrees ==
  ASSUME IInv, Agreement, forgets' = 0, NEW r \in Trigger, Attempt(r) \/ Timeout(r)
  PROVE  Agreement'
<1>0. /\ forgets = 0 /\ UNCHANGED <<log, pending>>
      /\ TypeOK /\ Sane(record[r]) /\ record[r] \in Records
      /\ record[r].pc \notin {"idle", "initializing"}
  BY DEF Attempt, Seal, TurnFails, Timeout, store, IInv, TypeOK
<1> DEFINE l == log[record[r].key]
<1>1. Busy(record[r]) /\ record[r].key \in Key
  BY <1>0, BusyRecords DEF Busy
<1>2. Abides(l, record[r]) /\ Follows(l, record[r])
  BY <1>0, <1>1, AgreementNow DEF Abides
<1> HIDE DEF l
<1>3. ASSUME NEW to \in State, Seal(r, to) PROVE Agreement'
  <2> DEFINE w == [to |-> to, by |-> CommitBy(Head(record[r].queue)),
                   on |-> record[r].token.by, expected |-> record[r].seq]
             c == Append(record[r].chain, w)
             x == [record[r] EXCEPT !.chain = c, !.pc = "writing"]
  <2>1. Agrees(l, w.expected, w.on)
    BY <1>2, <1>3 DEF Seal, Committable, Abides
  <2>2. record' = [record EXCEPT ![r] = x] /\ UNCHANGED snapshot
    BY <1>3 DEF Seal, store
  <2>3. w \in Writes
    <3>1. Head(record[r].queue) \in Trigger
      BY <1>1 DEF Busy, Records
    <3>2. CommitBy(Head(record[r].queue)) \in Written
      BY <3>1 DEF Written
    <3>3. record[r].token.by \in Given /\ record[r].seq \in Nat
      BY <1>0 DEF Records
    <3> QED  BY <3>2, <3>3 DEF Writes
  <2> HIDE DEF w
  <2>4. /\ Len(c) = Len(record[r].chain) + 1 /\ c[Len(record[r].chain) + 1] = w
        /\ \A i \in 1 .. Len(record[r].chain) : c[i] = record[r].chain[i]
        /\ Len(record[r].chain) \in Nat
    <3>1. record[r].chain \in Seq(Writes)
      BY <1>0 DEF Records
    <3> QED  BY <2>3, <3>1, AppendProperties
  <2> HIDE DEF c
  <2>5. /\ x.key = record[r].key /\ x.seq = record[r].seq /\ x.by = record[r].by
        /\ x.chain = c /\ x.loaded = record[r].loaded /\ x.pc # "handling"
    BY <1>0 DEF Records
  <2> HIDE DEF x
  <2>6. Abides(l, x)
    BY <1>2, <2>1, <2>4, <2>5 DEF Abides, Follows
  <2>7. x.key \in Key => Abides(log[x.key], x)
    BY <2>5, <2>6 DEF l
  <2> QED  BY <1>0, <2>2, <2>7, ChangeAgrees
<1>4. CASE TurnFails(r) \/ Timeout(r)
  <2>1. TurnEnds(r, record[r], "failed", held)
    BY <1>4 DEF TurnFails, Timeout
  <2> QED  BY <1>0, <1>1, <1>2, <2>1, TurnAgrees DEF l
<1> QED  BY <1>3, <1>4 DEF Attempt

\* What a record says of its stream once its first write has left its chain.
LEMMA RestFollows ==
  ASSUME TypeOK, NEW r \in Trigger, record[r].chain # <<>>,
         NEW l, Follows(l, record[r]),
         NEW x, x.chain = Rest(r).chain, x.loaded = record[r].loaded,
         Agrees(l, x.seq, x.by)
  PROVE  Follows(l, x)
<1>1. /\ \A i \in 1 .. Len(Rest(r).chain) : Rest(r).chain[i] = record[r].chain[i + 1]
      /\ Len(Rest(r).chain) = Len(record[r].chain) - 1
  BY RestTyped
<1>2. Len(record[r].chain) \in Nat
  BY DEF TypeOK, Records
<1>3. ASSUME NEW i \in 1 .. Len(x.chain)
      PROVE  x.chain[i] = InitWrite \/ Agrees(l, x.chain[i].expected, x.chain[i].on)
  <2>1. i + 1 \in 1 .. Len(record[r].chain) /\ x.chain[i] = record[r].chain[i + 1]
    BY <1>1, <1>2
  <2> QED  BY <2>1 DEF Follows
<1> QED  BY <1>3 DEF Follows

\* What is left of a record says the same but for the first write.
LEMMA RestFields ==
  ASSUME TypeOK, NEW r \in Trigger, record[r].chain # <<>>
  PROVE  /\ Rest(r).loaded = record[r].loaded
         /\ Rest(r).token = record[r].token
         /\ Write(r) = record[r].chain[1] /\ 1 \in 1 .. Len(record[r].chain)
<1>1. record[r] \in Records /\ record[r].chain \in Seq(Writes)
  BY DEF TypeOK, Records
<1>2. Rest(r).loaded = record[r].loaded /\ Rest(r).token = record[r].token
  BY <1>1 DEF Rest, Records
<1>3. Len(record[r].chain) \in Nat /\ Len(record[r].chain) # 0
  BY <1>1, EmptySeq
<1> QED  BY <1>2, <1>3 DEF Write

LEMMA SettlesAgrees ==
  ASSUME IInv, Agreement, forgets' = 0, NEW r \in Trigger, Settles(r)
  PROVE  Agreement'
<1>0. /\ forgets = 0 /\ TypeOK /\ Named /\ Kept(held) /\ AtHome /\ Together(held)
      /\ record[r].chain # <<>> /\ WriteLeaves(r)
      /\ record \in [Trigger -> Records] /\ snapshot \in [Key -> Pictures]
  BY DEF Settles, InitLands, InitFails, CommitLands, CommitFails, IInv, TypeOK, Kept
<1> DEFINE k == record[r].key
           l == log[k]
           e == [to |-> Write(r).to, by |-> Write(r).by, on |-> Write(r).on]
           S == [to : State, by : Authors, on : Given]
<1>1. /\ Rest(r) \in Records /\ Rest(r).key = k
      /\ Rest(r).queue = record[r].queue /\ Rest(r).pc = record[r].pc
      /\ Rest(r).seq = record[r].seq /\ Rest(r).by = record[r].by
      /\ k \in Key /\ (IsInit(r) => record[r].pc = "initializing")
      /\ Write(r) \in Writes
      /\ IsInit(r) => Write(r) = InitWrite
      /\ ~IsInit(r) => Write(r) # InitWrite
  BY <1>0, RestTyped
<1>2. Rest(r).loaded = record[r].loaded /\ Rest(r).token = record[r].token
  BY <1>0, RestFields
<1>3. Abides(l, record[r]) /\ Follows(l, record[r]) /\ Unbroken(l)
      /\ Agrees(l, record[r].seq, record[r].by)
  BY <1>0, <1>1, AgreementNow DEF Abides, Follows
<1>4. \A j \in Key : pending'[j] # NoForget => pending[j] # NoForget
  BY <1>0, WriteLeavesTyped
<1>5. l \in Seq(S) /\ e \in S
  <2>1. Write(r).to \in State /\ Write(r).by \in Authors /\ Write(r).on \in Given
    BY <1>1, StateAssumption DEF Writes, InitWrite, Authors, Given
  <2> QED  BY <1>1, <2>1 DEF IInv, TypeOK
<1>6. ASSUME NEW x, x.chain = Rest(r).chain, x.loaded = record[r].loaded,
             x.seq = record[r].seq, x.by = record[r].by
      PROVE  Follows(l, x)
  BY <1>0, <1>3, <1>6, RestFollows
\* The streams once the write has landed.
<1> DEFINE grown == [log EXCEPT ![k] = Append(l, e)]
<1>7. Stores(r) => log' = grown
  BY DEF Stores
<1>8. ASSUME Unbroken(Append(l, e)), log' = grown
      PROVE  /\ \A j \in Key : Unbroken(log'[j])
             /\ \A j \in Key : Known(log'[j], snapshot[j])
             /\ \A q \in Trigger : record[q].key \in Key =>
                  Abides(log'[record[q].key], record[q])
             /\ log'[k] = Append(l, e)
             /\ \A j \in Key : pending'[j] = NoForget
  <2>1. \A j \in Key : log'[j] = IF j = k THEN Append(l, e) ELSE log[j]
    BY <1>8 DEF IInv, TypeOK
  <2>2. /\ \A p : Known(l, p) => Known(Append(l, e), p)
        /\ \A x : Abides(l, x) => Abides(Append(l, e), x)
    <3> HIDE DEF S, e, l
    <3> QED  BY <1>5, GrownAgrees
  <2>3. /\ \A j \in Key : pending[j] = NoForget /\ Unbroken(log[j])
                          /\ Known(log[j], snapshot[j])
        /\ \A q \in Trigger :
             record[q].key \in Key => Abides(log[record[q].key], record[q])
    BY <1>0, AgreementNow
  <2>4. \A j \in Key : pending'[j] = NoForget
    BY <1>4, <2>3
  <2>5. k \in Key
    BY <1>1
  <2> DEFINE n == Append(l, e)
  <2>6. Unbroken(n) /\ (\A j \in Key : log'[j] = IF j = k THEN n ELSE log[j])
    BY <1>8, <2>1
  <2>7. /\ \A p : Known(log[k], p) => Known(n, p)
        /\ \A x : Abides(log[k], x) => Abides(n, x)
    BY <2>2
  <2> HIDE DEF e, n
  <2>8. \A j \in Key : Unbroken(log'[j]) /\ Known(log'[j], snapshot[j])
    BY <2>3, <2>6, <2>7
  <2>9. ASSUME NEW q \in Trigger, record[q].key \in Key
        PROVE  Abides(log'[record[q].key], record[q])
    <3> DEFINE kq == record[q].key
    <3>1. log'[kq] = IF kq = k THEN n ELSE log[kq]
      BY <2>6, <2>9
    <3>2. Abides(log[kq], record[q])
      BY <2>3, <2>9
    <3> QED  BY <2>7, <3>1, <3>2
  <2>10. log'[k] = n
    BY <2>5, <2>6
  <2> QED  BY <2>4, <2>8, <2>9, <2>10 DEF n
<1> HIDE DEF l, e, S, k, grown
<1>9. CASE InitLands(r)
  <2> DEFINE y == [Rest(r) EXCEPT !.hydration = "done"]
             x == Ready(y)
  <2>1. /\ y \in Records /\ y.key = k /\ y.queue = record[r].queue
        /\ y.chain = Rest(r).chain /\ y.loaded = record[r].loaded
        /\ y.seq = record[r].seq /\ y.by = record[r].by
    BY <1>1, <1>2 DEF Records
  <2>2. /\ record' = [record EXCEPT ![r] = x] /\ IsInit(r) /\ Holds(r) /\ Stores(r)
        /\ UNCHANGED snapshot
    BY <1>9 DEF InitLands
  <2> HIDE DEF y
  <2>3. Follows(l, y)
    BY <1>6, <2>1
  <2>4. Keeps(y, x) /\ TokenOfNow(x)
    BY <1>0, <2>1, <2>2, InitBusy, ReadyIsSane, ReadyToken DEF k
  <2> HIDE DEF x
  <2>5. Abides(l, x) /\ x.key = k
    BY <2>1, <2>3, <2>4, KeepsFollowing DEF Keeps
  <2>6. l = <<>> /\ e.by = InitialValues /\ e.on = NoCommit
    <3>1. Len(l) - 1 = -1
      BY <1>1, <2>2 DEF Holds, DurableSeq, InitWrite, l, k
    <3>2. Len(l) = 0
      BY <1>5, <3>1
    <3> QED  BY <1>1, <1>5, <2>2, <3>2, EmptySeq DEF e, InitWrite
  <2>7. Unbroken(Append(l, e))
    BY <1>3, <1>5, <2>6, LandsChained
  <2>8. Abides(Append(l, e), x)
    BY <1>5, <2>5, GrownAgrees
  <2>9. \A q \in Trigger : record'[q] = IF q = r THEN x ELSE record[q]
    BY <1>0, <2>2
  <2> QED  BY <1>7, <1>8, <2>2, <2>5, <2>7, <2>8, <2>9 DEF Agreement
<1>10. CASE InitFails(r)
  <2> DEFINE x == [Rest(r) EXCEPT !.hydration = "failed"]
  <2>1. /\ x \in Records /\ x.key = k /\ x.queue = record[r].queue
        /\ x.chain = Rest(r).chain /\ x.loaded = record[r].loaded
        /\ x.seq = record[r].seq /\ x.by = record[r].by
    BY <1>1, <1>2 DEF Records
  <2>2. TurnEnds(r, x, "failed", held) /\ IsInit(r) /\ UNCHANGED log
    BY <1>10 DEF InitFails
  <2> HIDE DEF x
  <2>3. Busy(x)
    BY <1>0, <2>1, <2>2, InitBusy DEF k
  <2>4. Follows(l, x)
    BY <1>6, <2>1
  <2> QED  BY <1>0, <1>4, <2>1, <2>2, <2>3, <2>4, TurnAgrees DEF k, l
<1>11. CASE CommitLands(r)
  <2> DEFINE x == [Rest(r) EXCEPT !.state = Write(r).to,
                                  !.seq = Write(r).expected + 1,
                                  !.by = Write(r).by]
  <2>1. /\ Write(r).to \in State /\ Write(r).by \in Authors
        /\ Write(r).expected \in Nat /\ ~IsInit(r)
    BY <1>1, <1>11 DEF CommitLands, Writes, Authors
  <2>2. /\ x \in Records /\ x.key = k /\ x.queue = record[r].queue
        /\ x.chain = Rest(r).chain /\ x.pc = record[r].pc /\ x.state \in State
        /\ x.loaded = record[r].loaded /\ x.token = record[r].token
        /\ x.seq = Write(r).expected + 1 /\ x.by = Write(r).by
    <3>1. Write(r).expected + 1 \in Nat
      BY <2>1
    <3>2. /\ x \in Records /\ x.state \in State
          /\ x.seq = Write(r).expected + 1 /\ x.by = Write(r).by
      BY <1>1, <2>1, <3>1 DEF Records
    <3>3. /\ x.key = Rest(r).key /\ x.queue = Rest(r).queue
          /\ x.chain = Rest(r).chain /\ x.pc = Rest(r).pc
          /\ x.loaded = Rest(r).loaded /\ x.token = Rest(r).token
      BY <1>1 DEF Records
    <3> HIDE DEF x
    <3> QED  BY <1>1, <1>2, <3>2, <3>3
  <2>3. /\ Holds(r) /\ Stores(r)
        /\ IF Awaited(r)
             THEN TurnEnds(r, x, "committed", Accounted(r, x))
             ELSE /\ record' = [record EXCEPT ![r] = x]
                  /\ UNCHANGED <<held, outcome, snapshot>>
    BY <1>11 DEF CommitLands
  <2> HIDE DEF x
  <2>4. Len(l) - 1 = Write(r).expected /\ Len(l) \in Nat
    BY <1>5, <2>3 DEF Holds, DurableSeq, l, k
  <2>5. l # <<>> /\ Agrees(l, Len(l) - 1, e.on)
    <3>1. Agrees(l, Write(r).expected, Write(r).on)
      BY <1>0, <1>1, <1>3, <2>1, RestFields DEF Follows
    <3>2. Len(l) # 0
      BY <2>1, <2>4
    <3> QED  BY <2>4, <3>1, <3>2, EmptySeq DEF e
  <2>6. Unbroken(Append(l, e))
    BY <1>3, <1>5, <2>5, LandsChained
  <2>7. Agrees(Append(l, e), x.seq, x.by)
    <3>1. Len(Append(l, e)) = Len(l) + 1 /\ Append(l, e)[Len(l) + 1] = e
      BY <1>5, AppendProperties
    <3>2. x.seq \in 1 .. Len(Append(l, e)) - 1 /\ x.seq + 1 = Len(l) + 1
      BY <2>1, <2>2, <2>4, <3>1
    <3>3. x.by = e.by
      BY <2>2 DEF e
    <3> QED  BY <3>1, <3>2, <3>3 DEF Agrees
  <2>8. Follows(Append(l, e), record[r])
        /\ (record[r].pc = "handling" =>
              Agrees(Append(l, e), record[r].token.seq, record[r].token.by))
    BY <1>3, <1>5, GrownAgrees DEF Abides
  <2>9. Follows(Append(l, e), x)
    BY <1>0, <2>2, <2>7, <2>8, RestFollows
  <2>10. Abides(Append(l, e), x)
    BY <2>2, <2>8, <2>9 DEF Abides
  <2>11. /\ \A j \in Key : Unbroken(log'[j])
         /\ \A j \in Key : Known(log'[j], snapshot[j])
         /\ \A q \in Trigger : record[q].key \in Key =>
              Abides(log'[record[q].key], record[q])
         /\ log'[k] = Append(l, e)
         /\ \A j \in Key : pending'[j] = NoForget
    BY <1>7, <1>8, <2>3, <2>6
  <2>12. CASE Awaited(r)
    <3>1. Busy(x) /\ record[r].pc # "idle"
      BY <1>0, <2>2, <2>12, AwaitedIsBusy DEF Awaited, k
    <3>2. Resident(x.key) # None
      BY <1>0, <2>2, <3>1, NoneAssumption DEF AtHome, k
    <3>3. Kept(Accounted(r, x)) /\ Accounted(r, x).resident = held.resident
      BY <1>0, <1>1, <2>2, <3>2, AccountedFits, AccountedTogether
    <3> DEFINE h == Accounted(r, x)
               m == log'
    <3>4. /\ \A j \in Key : Known(m[j], snapshot[j])
          /\ \A q \in Trigger : record[q].key \in Key /\ q # r =>
               Abides(m[record[q].key], record[q])
          /\ Follows(m[x.key], x)
      BY <2>2, <2>9, <2>11
    <3>5. TurnEnds(r, x, "committed", h) /\ Kept(h) /\ h.resident = held.resident
      BY <2>3, <2>12, <3>3
    <3>6. x.key = record[r].key
      BY <2>2 DEF k
    <3> HIDE DEF m, h
    <3>7. /\ \A j \in Key : Known(m[j], snapshot'[j])
          /\ \A q \in Trigger : record'[q].key \in Key =>
               Abides(m[record'[q].key], record'[q])
      BY <1>0, <3>1, <3>4, <3>5, <3>6, TurnEndsAbides
    <3> QED  BY <2>11, <3>7 DEF m, Agreement
  <2>13. CASE ~Awaited(r)
    <3>1. \A q \in Trigger : record'[q] = IF q = r THEN x ELSE record[q]
      BY <1>0, <2>3, <2>13
    <3>2. snapshot' = snapshot
      BY <2>3, <2>13
    <3> QED  BY <2>2, <2>10, <2>11, <3>1, <3>2 DEF Agreement
  <2> QED  BY <2>12, <2>13
<1>12. CASE CommitFails(r)
  <2>1. PICK conflict \in BOOLEAN :
          LET after == [Rest(r) EXCEPT !.stale = @ \/ conflict]
          IN  IF Awaited(r)
                THEN TurnEnds(r, after, "failed", held)
                ELSE /\ record' = [record EXCEPT ![r] = after]
                     /\ UNCHANGED <<held, outcome, snapshot>>
    BY <1>12 DEF CommitFails
  <2> DEFINE x == [Rest(r) EXCEPT !.stale = @ \/ conflict]
  <2>2. /\ x \in Records /\ x.key = k /\ x.queue = record[r].queue
        /\ x.chain = Rest(r).chain /\ x.pc = record[r].pc
        /\ x.loaded = record[r].loaded /\ x.token = record[r].token
        /\ x.seq = record[r].seq /\ x.by = record[r].by
    BY <1>1, <1>2 DEF Records
  <2>3. /\ IF Awaited(r)
             THEN TurnEnds(r, x, "failed", held)
             ELSE /\ record' = [record EXCEPT ![r] = x]
                  /\ UNCHANGED <<held, outcome, snapshot>>
        /\ UNCHANGED log
    BY <1>12, <2>1 DEF CommitFails
  <2> HIDE DEF x
  <2>4. Follows(l, x)
    BY <1>6, <2>2
  <2>5. CASE Awaited(r)
    <3>1. Busy(x)
      BY <1>0, <2>2, <2>5, AwaitedIsBusy DEF k
    <3> QED  BY <1>0, <1>4, <2>2, <2>3, <2>4, <2>5, <3>1, TurnAgrees DEF k, l
  <2>6. CASE ~Awaited(r)
    <3>1. Abides(log[x.key], x)
      BY <1>3, <2>2, <2>4 DEF Abides, l
    <3> QED  BY <1>0, <1>4, <2>3, <2>6, <3>1, ChangeAgrees
  <2> QED  BY <2>5, <2>6
<1> QED  BY <1>9, <1>10, <1>11, <1>12 DEF Settles

\* Deletions are out of the question: none was asked for.
LEMMA ForgetAgrees ==
  ASSUME IInv, Agreement, forgets' = 0, NEW k \in Key,
         ForgetFlushes(k) \/ ForgetDeletes(k) \/ ForgetAbsent(k)
  PROVE  FALSE
<1>1. CASE ForgetFlushes(k) \/ ForgetAbsent(k)
  <2>1. forgets' = forgets + 1 /\ forgets \in Nat
    BY <1>1 DEF ForgetFlushes, ForgetAbsent, IInv, TypeOK
  <2> QED  BY <2>1
<1>2. CASE ForgetDeletes(k)
  BY <1>2 DEF ForgetDeletes, Agreement
<1> QED  BY <1>1, <1>2

LEMMA AgreementStep == IInv /\ Agreement /\ [Next]_vars => Agreement'
<1> SUFFICES ASSUME IInv, Agreement, [Next]_vars, forgets' = 0
             PROVE  Agreement'
  BY DEF Agreement
<1>1. CASE UNCHANGED vars
  BY <1>1 DEF vars, store, Agreement
<1> QED  BY <1>1, SendAgrees, LoadsAgree, AttemptAgrees, SettlesAgrees, ForgetAgrees, Steps

(***************************************************************************)
(* A reload is transparent: as long as nothing was deleted, each commit of *)
(* a key was decided on the commit right before it, across evictions,      *)
(* reloads, timeouts and appends that outlive their records.               *)
(***************************************************************************)
THEOREM DecisionsOnLatest ==
  ASSUME Waits
  PROVE  Spec => []DecidedOnLatest
<1>1. Init => Agreement
  <2> SUFFICES ASSUME Init PROVE Agreement
    OBVIOUS
  <2>1. \A r \in Trigger : record[r].key = None
    BY DEF Init, Fresh
  <2>2. None \notin Key
    BY NoneAssumption
  <2> QED  BY <2>1, <2>2 DEF Init, Agreement, Unbroken, Known
<1>2. Agreement => DecidedOnLatest
  BY DEF Agreement, DecidedOnLatest, Unbroken
<1> QED  BY <1>1, <1>2, AgreementStep, IInvHolds, PTL DEF Spec

-----------------------------------------------------------------------------
(* The index names the state a resident is in.  Only a commit that lands   *)
(* after its turn was abandoned moves an instance behind the index's back, *)
(* and its sender was told of a failure.                                   *)

\* A stream holds a commit whose sender was told of a failure.
RacedIn(l, out) ==
  \E i \in 1 .. Len(l) :
    \E t \in Trigger : l[i].by = CommitBy(t) /\ out[t] = "failed"

\* A commit on the way is the last write of the turn that waits for it, or its
\* sender was told of a failure.
Answerable(x, out) ==
  \A i \in 1 .. Len(x.chain) : \A t \in Trigger :
    x.chain[i].by = CommitBy(t) =>
      \/ out[t] = "failed"
      \/ x.pc = "writing" /\ Head(x.queue) = t /\ i = Len(x.chain)

\* Of a key without a stream l, a record knows nothing.
Settled(x, l) ==
  l = <<>> =>
    /\ x.hydration # "done" /\ ~x.stale /\ x.loaded = NoSnapshot
    /\ \A i \in 1 .. Len(x.chain) : x.chain[i] = InitWrite

\* A resident works on what it was given by a stream that is still there.
Grounded(x, l) ==
  /\ Settled(x, l)
  /\ x.hydration = "running" => x.pc \in {"hydrating", "hydrated", "initializing"}
  /\ x.pc = "reloaded" => x.loaded # NoSnapshot
  /\ l = <<>> => x.pc \notin {"handling", "writing", "reloading", "reloaded"}

\* A queued trigger is queued once, and its sender waits.
Waiting ==
  /\ \A r \in Trigger : \A i \in 1 .. Len(record[r].queue) :
       outcome[record[r].queue[i]] = "pending"
  /\ \A r, s \in Trigger :
       \A i \in 1 .. Len(record[r].queue), j \in 1 .. Len(record[s].queue) :
         record[r].queue[i] = record[s].queue[j] => r = s /\ i = j

Told == \A r \in Trigger : Answerable(record[r], outcome)

Streamed ==
  \A k \in Key : Resident(k) # None => Grounded(record[Resident(k)], log[k])

InStep ==
  \A k \in Key : Resident(k) # None =>
    RacedIn(log[k], outcome) \/ held.index[k] = record[Resident(k)].state

IndexInv == Waiting /\ Told /\ Streamed /\ InStep

\* A stream that is left alone or appended to.
Continues(l, m) ==
  /\ m = <<>> => l = <<>>
  /\ \A i \in 1 .. Len(l) : i \in 1 .. Len(m) /\ m[i] = l[i]

LEMMA GroundedLater ==
  ASSUME NEW x, NEW l, NEW m, Continues(l, m)
  PROVE  /\ Settled(x, l) => Settled(x, m)
         /\ Grounded(x, l) => Grounded(x, m)
  BY DEF Continues, Settled, Grounded

LEMMA RacedLater ==
  ASSUME NEW l, NEW m, Continues(l, m), NEW out, NEW told,
         \A t \in Trigger : out[t] = "failed" => told[t] = "failed",
         RacedIn(l, out)
  PROVE  RacedIn(m, told)
  BY DEF Continues, RacedIn

LEMMA AppendContinues ==
  ASSUME NEW S, NEW l \in Seq(S), NEW e \in S
  PROVE  /\ Continues(l, Append(l, e)) /\ Append(l, e) # <<>>
         /\ \E i \in 1 .. Len(Append(l, e)) : Append(l, e)[i] = e
<1>1. /\ Len(Append(l, e)) = Len(l) + 1 /\ Len(l) \in Nat
      /\ \A i \in 1 .. Len(l) : Append(l, e)[i] = l[i]
      /\ Append(l, e)[Len(l) + 1] = e /\ Append(l, e) # <<>>
  BY AppendProperties
<1> QED  BY <1>1 DEF Continues

\* A turn begins on grounds that are there.
LEMMA BegunGrounded ==
  ASSUME NEW r, Busy(r), NEW l, Settled(r, l), r.hydration # "running"
  PROVE  Grounded(Begun(r), l) /\ Begun(r).queue = r.queue
<1>1. r \in Records
  BY DEF Busy
<1>2. CASE r.stale
  <2>1. Begun(r) = [r EXCEPT !.pc = "reloading"]
    BY <1>2 DEF Begun
  <2> QED  BY <1>1, <1>2, <2>1 DEF Records, Settled, Grounded
<1>3. CASE ~r.stale /\ r.hydration = "none"
  <2>1. Begun(r) = [r EXCEPT !.pc = "hydrating", !.hydration = "running"]
    BY <1>3 DEF Begun
  <2> QED  BY <1>1, <1>3, <2>1 DEF Records, Settled, Grounded
<1>4. CASE ~r.stale /\ r.hydration = "failed"
  <2>1. Begun(r) = [r EXCEPT !.pc = "failing"]
    BY <1>4 DEF Begun
  <2> QED  BY <1>1, <1>4, <2>1 DEF Records, Settled, Grounded
<1>5. CASE ~r.stale /\ r.hydration = "done"
  <2>1. Begun(r) = [r EXCEPT !.pc = "handling",
                             !.token = [seq |-> r.seq, by |-> r.by]]
    BY <1>5 DEF Begun, Ready
  <2> QED  BY <1>1, <1>5, <2>1 DEF Records, Settled, Grounded
<1> QED  BY <1>1, <1>2, <1>3, <1>4, <1>5 DEF Records

\* What a turn leaves to the next one.
LEMMA AdvancedGrounded ==
  ASSUME NEW r, Busy(r), NEW l, Settled(r, l), r.hydration # "running"
  PROVE  Grounded(Advanced(r), l) /\ Advanced(r).queue = Tail(r.queue)
<1> DEFINE rest == [r EXCEPT !.queue = Tail(@)]
<1>1. r \in Records /\ r.queue \in Seq(Trigger) /\ r.queue # <<>>
  BY DEF Busy, Records
<1>2. Tail(r.queue) \in Seq(Trigger)
  BY <1>1
<1>3. /\ rest \in Records /\ rest.queue = Tail(r.queue)
      /\ rest.hydration = r.hydration /\ rest.stale = r.stale
      /\ rest.loaded = r.loaded /\ rest.chain = r.chain /\ rest.key = r.key
  BY <1>1, <1>2 DEF Records
<1>4. Settled(rest, l)
  BY <1>3 DEF Settled
<1>5. CASE rest.queue = <<>>
  <2>1. Advanced(r) = [rest EXCEPT !.pc = "idle"]
    BY <1>5 DEF Advanced
  <2> HIDE DEF rest
  <2> QED  BY <1>3, <1>4, <2>1 DEF Records, Settled, Grounded
<1>6. CASE rest.queue # <<>>
  <2>1. Advanced(r) = Begun(rest)
    BY <1>6 DEF Advanced
  <2> HIDE DEF rest
  <2>2. Busy(rest)
    BY <1>3, <1>6 DEF Busy
  <2> QED  BY <1>3, <1>4, <2>1, <2>2, BegunGrounded
<1> QED  BY <1>5, <1>6

\* A trigger joins the queue of a resident.
LEMMA EnqueuedGrounded ==
  ASSUME NEW r, Sane(r), r.key \in Key, NEW t \in Trigger, NEW l, Grounded(r, l)
  PROVE  /\ Grounded(Enqueued(r, t), l)
         /\ Enqueued(r, t).queue = Append(r.queue, t)
         /\ r.pc # "idle" => Enqueued(r, t).pc = r.pc
<1> DEFINE queued == [r EXCEPT !.queue = Append(@, t)]
<1>1. r \in Records /\ r.queue \in Seq(Trigger)
  BY DEF Sane, Records
<1>2. Append(r.queue, t) \in Seq(Trigger) /\ Append(r.queue, t) # <<>>
  BY <1>1, AppendProperties
<1>3. /\ queued \in Records /\ queued.queue = Append(r.queue, t)
      /\ queued.hydration = r.hydration /\ queued.stale = r.stale
      /\ queued.loaded = r.loaded /\ queued.chain = r.chain /\ queued.key = r.key
      /\ queued.pc = r.pc
  BY <1>1, <1>2 DEF Records
<1> HIDE DEF queued
<1>4. Settled(queued, l)
  BY <1>3 DEF Settled, Grounded
<1>5. CASE r.pc = "idle"
  <2>1. Enqueued(r, t) = Begun(queued)
    BY <1>5 DEF Enqueued, queued
  <2>2. Busy(queued) /\ queued.hydration # "running"
    BY <1>2, <1>3, <1>5 DEF Busy, Sane, NoInit, Grounded
  <2> QED  BY <1>3, <1>4, <1>5, <2>1, <2>2, BegunGrounded
<1>6. CASE r.pc # "idle"
  <2>1. Enqueued(r, t) = queued
    BY <1>6 DEF Enqueued, queued
  <2> QED  BY <1>3, <1>4, <2>1 DEF Grounded
<1> QED  BY <1>5, <1>6
\* Every stream is left alone or appended to.
Goes == \A k \in Key : Continues(log[k], log'[k])

LEMMA GoesOn ==
  ASSUME TypeOK
  PROVE  /\ UNCHANGED log => Goes
         /\ \A r \in Trigger : record[r].chain # <<>> /\ Stores(r) =>
              /\ Goes /\ log'[record[r].key] # <<>>
              /\ \E i \in 1 .. Len(log'[record[r].key]) :
                   log'[record[r].key][i].by = Write(r).by
<1>1. ASSUME UNCHANGED log PROVE Goes
  BY <1>1 DEF Goes, Continues
<1>2. ASSUME NEW r \in Trigger, record[r].chain # <<>>, Stores(r)
      PROVE  /\ Goes /\ log'[record[r].key] # <<>>
             /\ \E i \in 1 .. Len(log'[record[r].key]) :
                  log'[record[r].key][i].by = Write(r).by
  <2> DEFINE k == record[r].key
             l == log[k]
             S == [to : State, by : Authors, on : Given]
             e == [to |-> Write(r).to, by |-> Write(r).by, on |-> Write(r).on]
  <2>1. Write(r) \in Writes /\ k \in Key
    BY <1>2, RestTyped
  <2>2. Write(r).to \in State /\ Write(r).by \in Authors /\ Write(r).on \in Given
    BY <2>1, StateAssumption DEF Writes, InitWrite, Authors, Given
  <2>3. e \in S /\ l \in Seq(S) /\ e.by = Write(r).by
    BY <2>1, <2>2 DEF TypeOK
  <2>4. \A j \in Key : log'[j] = IF j = k THEN Append(l, e) ELSE log[j]
    BY <1>2, <2>1 DEF Stores, TypeOK
  <2> HIDE DEF l, S, e
  <2>5. /\ Continues(l, Append(l, e)) /\ Append(l, e) # <<>>
        /\ \E i \in 1 .. Len(Append(l, e)) : Append(l, e)[i] = e
    BY <2>3, AppendContinues
  <2>6. Goes
    BY <2>4, <2>5 DEF Goes, Continues, l
  <2>7. log'[k] = Append(l, e)
    BY <2>1, <2>4
  <2> QED  BY <2>3, <2>5, <2>6, <2>7
<1> QED  BY <1>1, <1>2

\* A record changes and its turn, if it has one, goes on.
LEMMA ChangeInStep ==
  ASSUME IInv, IndexInv, NEW r \in Trigger, NEW x,
         record' = [record EXCEPT ![r] = x],
         x.key = record[r].key, x.queue = record[r].queue,
         UNCHANGED outcome, Goes, held'.resident = held.resident,
         Answerable(x, outcome),
         Resident(record[r].key) = r =>
           /\ Grounded(x, log'[record[r].key])
           /\ \/ RacedIn(log'[record[r].key], outcome)
              \/ held'.index[record[r].key] = x.state,
         \A k \in Key : Resident(k) # r => held'.index[k] = held.index[k]
  PROVE  IndexInv'
<1>0. /\ record \in [Trigger -> Records] /\ Named
      /\ held.resident \in [Key -> Trigger \cup {None}]
  BY DEF IInv, TypeOK, Held
<1>1. \A q \in Trigger : record'[q] = IF q = r THEN x ELSE record[q]
  BY <1>0
<1>2. \A q \in Trigger : record'[q].queue = record[q].queue
  BY <1>1
<1>3. Waiting'
  BY <1>2 DEF IndexInv, Waiting
<1>4. Told'
  BY <1>1 DEF IndexInv, Told
<1>5. ASSUME NEW k \in Key, held'.resident[k] # None
      PROVE  /\ Grounded(record'[held'.resident[k]], log'[k])
             /\ \/ RacedIn(log'[k], outcome')
                \/ held'.index[k] = record'[held'.resident[k]].state
  <2>1. /\ held'.resident[k] = Resident(k) /\ Resident(k) \in Trigger
        /\ Resident(k) # None /\ record[Resident(k)].key = k
    BY <1>0, <1>5 DEF Resident, Named
  <2>2. CASE Resident(k) = r
    BY <1>1, <2>1, <2>2
  <2>3. CASE Resident(k) # r
    <3>1. record'[Resident(k)] = record[Resident(k)] /\ held'.index[k] = held.index[k]
      BY <1>1, <2>1, <2>3
    <3>2. Grounded(record[Resident(k)], log'[k])
      BY <2>1, GroundedLater DEF IndexInv, Streamed, Goes
    <3>3. RacedIn(log[k], outcome) => RacedIn(log'[k], outcome')
      BY RacedLater DEF Goes
    <3> QED  BY <2>1, <3>1, <3>2, <3>3 DEF IndexInv, InStep
  <2> QED  BY <2>2, <2>3
<1>6. Streamed' /\ InStep'
  BY <1>5 DEF Streamed, InStep, Resident
<1> QED  BY <1>3, <1>4, <1>6 DEF IndexInv

\* The turn of a record ends.
LEMMA TurnInStep ==
  ASSUME IInv, IndexInv, NEW r \in Trigger, record[r].pc # "idle",
         NEW after, Busy(after), after.key = record[r].key,
         after.queue = record[r].queue, after.hydration # "running",
         NEW result \in {"committed", "failed"},
         NEW h, Kept(h), h.resident = held.resident,
         \A k \in Key \ {record[r].key} : h.index[k] = held.index[k],
         TurnEnds(r, after, result, h), Goes,
         Settled(after, log'[record[r].key]),
         \/ RacedIn(log'[record[r].key], outcome)
         \/ h.index[record[r].key] = after.state,
         \A i \in 1 .. Len(after.chain) : \A t \in Trigger :
           after.chain[i].by = CommitBy(t) =>
             \/ outcome[t] = "failed"
             \/ result = "failed" /\ t = Head(after.queue)
  PROVE  IndexInv'
<1> DEFINE x == Advanced(after)
           recs == [record EXCEPT ![r] = x]
           fit == EvictToFit(recs, h)
           a == Head(after.queue)
           u == record[r].queue
<1>0. /\ TypeOK /\ record \in [Trigger -> Records] /\ Named
      /\ held.resident \in [Key -> Trigger \cup {None}]
      /\ outcome \in [Trigger -> {"unsent", "pending", "committed", "failed"}]
  BY DEF IInv, TypeOK, Held
<1>1. /\ record' = recs
      /\ record' \in [Trigger -> Records]
      /\ Keeps(after, x)
      /\ outcome' = [outcome EXCEPT ![a] = result]
      /\ Kept(held')
  BY <1>0, TurnEndsTyped
<1>2. Drained(recs, h, snapshot, fit)
  <2>1. recs \in [Trigger -> Records] /\ snapshot \in [Key -> Pictures]
    BY <1>0, <1>1 DEF TypeOK
  <2> HIDE DEF recs
  <2> QED  BY <2>1, Eviction
<1>3. held' = h \/ held' = fit.held
  BY DEF TurnEnds
<1>4. Grounded(x, log'[record[r].key]) /\ x.queue = Tail(after.queue)
  BY AdvancedGrounded
<1>5. /\ x.key = record[r].key /\ x.state = after.state /\ x.chain = after.chain
  BY <1>1 DEF Keeps
<1>6. /\ u \in Seq(Trigger) /\ u # <<>> /\ a = u[1] /\ x.queue = Tail(u)
      /\ a \in Trigger /\ Len(u) \in Nat /\ 1 \in 1 .. Len(u)
      /\ \A i \in 1 .. Len(x.queue) : i + 1 \in 1 .. Len(u) /\ x.queue[i] = u[i + 1]
  <2>1. u \in Seq(Trigger) /\ u # <<>> /\ a = Head(u) /\ x.queue = Tail(u)
    BY <1>4 DEF Busy, Records
  <2> HIDE DEF u, x
  <2>2. /\ Len(u) \in Nat /\ Len(u) # 0 /\ Head(u) = u[1] /\ Head(u) \in Trigger
        /\ Len(Tail(u)) = Len(u) - 1
        /\ \A i \in 1 .. Len(Tail(u)) : Tail(u)[i] = u[i + 1]
    BY <2>1, HeadTailProperties, EmptySeq
  <2>3. 1 \in 1 .. Len(u) /\ \A i \in 1 .. Len(Tail(u)) : i + 1 \in 1 .. Len(u)
    BY <2>2
  <2> QED  BY <2>1, <2>2, <2>3
<1> HIDE DEF x
<1>7. \A q \in Trigger : record'[q] = IF q = r THEN x ELSE record[q]
  BY <1>0, <1>1
<1> HIDE DEF recs, fit
<1>8. outcome[a] = "pending"
  BY <1>6 DEF IndexInv, Waiting
<1> HIDE DEF a
<1>9. \A t \in Trigger : outcome'[t] = IF t = a THEN result ELSE outcome[t]
  BY <1>0, <1>1
<1>10. \A t \in Trigger : outcome[t] = "failed" => outcome'[t] = "failed"
  BY <1>8, <1>9
<1>11. ASSUME NEW q \in Trigger, NEW i \in 1 .. Len(record'[q].queue)
       PROVE  \E j \in 1 .. Len(record[q].queue) :
                /\ record'[q].queue[i] = record[q].queue[j]
                /\ q = r => j = i + 1
                /\ q # r => j = i
  BY <1>6, <1>7
<1>12. Waiting'
  <2>1. ASSUME NEW q \in Trigger, NEW i \in 1 .. Len(record'[q].queue)
        PROVE  outcome'[record'[q].queue[i]] = "pending"
    <3>1. PICK j \in 1 .. Len(record[q].queue) :
            /\ record'[q].queue[i] = record[q].queue[j]
            /\ q = r => j = i + 1
      BY <1>11
    <3>2. record[q].queue \in Seq(Trigger)
      BY <1>0 DEF Records
    <3>3. record[q].queue[j] \in Trigger
      BY <3>2
    <3>4. outcome[record[q].queue[j]] = "pending"
      BY DEF IndexInv, Waiting
    <3>5. record[q].queue[j] # a
      <4>1. SUFFICES ASSUME record[q].queue[j] = record[r].queue[1] PROVE FALSE
        BY <1>6
      <4>2. q = r /\ j = 1
        BY <1>6, <4>1 DEF IndexInv, Waiting
      <4>3. Len(record'[q].queue) \in Nat
        BY <1>1 DEF Records
      <4> QED  BY <3>1, <4>2, <4>3
    <3> QED  BY <1>9, <3>1, <3>3, <3>4, <3>5
  <2>2. ASSUME NEW q \in Trigger, NEW s \in Trigger,
               NEW i \in 1 .. Len(record'[q].queue),
               NEW j \in 1 .. Len(record'[s].queue),
               record'[q].queue[i] = record'[s].queue[j]
        PROVE  q = s /\ i = j
    <3>1. PICK m \in 1 .. Len(record[q].queue) :
            /\ record'[q].queue[i] = record[q].queue[m]
            /\ q = r => m = i + 1
            /\ q # r => m = i
      BY <1>11
    <3>2. PICK n \in 1 .. Len(record[s].queue) :
            /\ record'[s].queue[j] = record[s].queue[n]
            /\ s = r => n = j + 1
            /\ s # r => n = j
      BY <1>11
    <3>3. q = s /\ m = n
      <4>1. record[q].queue[m] = record[s].queue[n]
        BY <2>2, <3>1, <3>2
      <4>2. \A v, w \in Trigger :
              \A c \in 1 .. Len(record[v].queue), d \in 1 .. Len(record[w].queue) :
                record[v].queue[c] = record[w].queue[d] => v = w /\ c = d
        BY DEF IndexInv, Waiting
      <4> QED  BY <4>1, <4>2
    <3>4. i \in Int /\ j \in Int
      OBVIOUS
    <3> QED  BY <3>1, <3>2, <3>3, <3>4
  <2> QED  BY <2>1, <2>2 DEF Waiting
<1>13. Told'
  <2>1. ASSUME NEW q \in Trigger, q # r PROVE Answerable(record[q], outcome')
    <3>1. SUFFICES ASSUME NEW i \in 1 .. Len(record[q].chain), NEW t \in Trigger,
                          record[q].chain[i].by = CommitBy(t)
                   PROVE  \/ outcome'[t] = "failed"
                          \/ /\ record[q].pc = "writing" /\ Head(record[q].queue) = t
                             /\ i = Len(record[q].chain)
      BY DEF Answerable
    <3>2. \/ outcome[t] = "failed"
          \/ /\ record[q].pc = "writing" /\ Head(record[q].queue) = t
             /\ i = Len(record[q].chain)
      BY <3>1 DEF IndexInv, Told, Answerable
    <3> QED  BY <1>10, <3>2
  <2>2. Answerable(x, outcome')
    BY <1>5, <1>9, <1>10 DEF Answerable, a
  <2> QED  BY <1>7, <2>1, <2>2 DEF Told
<1>14. ASSUME NEW k \in Key, held'.resident[k] # None
       PROVE  /\ Grounded(record'[held'.resident[k]], log'[k])
              /\ \/ RacedIn(log'[k], outcome')
                 \/ held'.index[k] = record'[held'.resident[k]].state
  <2>1. /\ held'.resident[k] = Resident(k) /\ Resident(k) \in Trigger
        /\ Resident(k) # None /\ record[Resident(k)].key = k
        /\ held'.index[k] = h.index[k]
    <3>1. held'.resident[k] = h.resident[k] /\ held'.index[k] = h.index[k]
      BY <1>2, <1>3, <1>14 DEF Drained, Spared, LetGo
    <3>2. h.resident[k] = Resident(k) /\ Resident(k) \in Trigger \cup {None}
      BY <1>0 DEF Resident
    <3> QED  BY <1>0, <1>14, <3>1, <3>2 DEF Named
  <2>2. CASE Resident(k) = r
    <3>1. k = record[r].key
      BY <2>1, <2>2
    <3>2. RacedIn(log'[k], outcome) => RacedIn(log'[k], outcome')
      <4>1. Continues(log'[k], log'[k])
        BY DEF Continues
      <4> QED  BY <1>10, <4>1, RacedLater
    <3> QED  BY <1>4, <1>5, <1>7, <2>1, <2>2, <3>1, <3>2
  <2>3. CASE Resident(k) # r
    <3>1. record'[Resident(k)] = record[Resident(k)]
      BY <1>7, <2>1, <2>3
    <3>2. k # record[r].key
      <4>1. Resident(record[r].key) = r
        BY DEF IInv, AtHome
      <4> QED  BY <2>3, <4>1
    <3>3. Grounded(record[Resident(k)], log'[k])
      BY <2>1, GroundedLater DEF IndexInv, Streamed, Goes
    <3>4. RacedIn(log[k], outcome) => RacedIn(log'[k], outcome')
      BY <1>10, RacedLater DEF Goes
    <3> QED  BY <2>1, <3>1, <3>2, <3>3, <3>4 DEF IndexInv, InStep
  <2> QED  BY <2>2, <2>3
<1>15. Streamed' /\ InStep'
  BY <1>14 DEF Streamed, InStep, Resident
<1> QED  BY <1>12, <1>13, <1>15 DEF IndexInv

\* A load finds a key exactly when there is a stream of it.
LEMMA LoadedIsThere ==
  ASSUME TypeOK, NEW k \in Key
  PROVE  Loaded(k) = NoSnapshot <=> log[k] = <<>>
<1> DEFINE s == log[k]
<1>1. s \in Seq([to : State, by : Authors, on : Given]) /\ snapshot[k] \in Pictures
  BY DEF TypeOK
<1>2. CASE s = <<>>
  BY <1>2 DEF Loaded
<1>3. CASE s # <<>>
  <2> DEFINE n == Len(s)
  <2>1. n \in Nat /\ n > 0
    <3> HIDE DEF s
    <3>1. Len(s) \in Nat /\ Len(s) # 0
      BY <1>1, <1>3, EmptySeq
    <3> QED  BY <3>1
  <2> HIDE DEF n
  <2>2. NoSnapshot.seq = -1
    BY DEF NoSnapshot
  <2>3. DurableSeq(k) = n - 1
    BY DEF DurableSeq, n
  <2>4. CASE DurableSeq(k) > snapshot[k].seq
    <3>1. Loaded(k).seq = n - 1
      BY <1>3, <2>3, <2>4 DEF Loaded, StoredCommit
    <3> QED  BY <1>3, <2>1, <2>2, <3>1
  <2>5. CASE ~(DurableSeq(k) > snapshot[k].seq)
    <3>1. Loaded(k) = snapshot[k]
      BY <1>3, <2>5 DEF Loaded
    <3>2. snapshot[k] # NoSnapshot
      BY <2>1, <2>2, <2>3, <2>5
    <3> QED  BY <1>3, <3>1, <3>2
  <2> QED  BY <2>4, <2>5
<1> QED  BY <1>2, <1>3

\* What IndexInv says of a busy record, which is the resident of its key.
LEMMA BusyIsInStep ==
  ASSUME IInv, IndexInv, NEW r \in Trigger, record[r].pc # "idle"
  PROVE  /\ record[r].key \in Key /\ Resident(record[r].key) = r
         /\ record[r].queue # <<>> /\ Head(record[r].queue) \in Trigger
         /\ outcome[Head(record[r].queue)] = "pending"
         /\ \A k \in Key : Resident(k) = r => k = record[r].key
         /\ Answerable(record[r], outcome)
         /\ Grounded(record[r], log[record[r].key])
         /\ \/ RacedIn(log[record[r].key], outcome)
            \/ held.index[record[r].key] = record[r].state
<1>1. /\ Sane(record[r]) /\ record[r] \in Records /\ record[r].key \in Key
      /\ record[r].queue # <<>> /\ record[r].queue \in Seq(Trigger)
  BY DEF IInv, TypeOK, Sane, Records
<1>2. Resident(record[r].key) = r /\ r # None
  BY NoneAssumption DEF IInv, AtHome
<1>3. \A k \in Key : Resident(k) = r => k = record[r].key
  BY <1>2 DEF IInv, Named
<1>4. /\ Head(record[r].queue) = record[r].queue[1]
      /\ 1 \in 1 .. Len(record[r].queue) /\ record[r].queue[1] \in Trigger
  <2> DEFINE u == record[r].queue
  <2>1. u \in Seq(Trigger) /\ u # <<>>
    BY <1>1
  <2> HIDE DEF u
  <2>2. Len(u) \in Nat /\ Len(u) # 0 /\ Head(u) = u[1] /\ Head(u) \in Trigger
    BY <2>1, HeadTailProperties, EmptySeq
  <2> QED  BY <2>2 DEF u
<1>5. outcome[record[r].queue[1]] = "pending"
  BY <1>4 DEF IndexInv, Waiting
<1> QED  BY <1>1, <1>2, <1>3, <1>4, <1>5 DEF IndexInv, Told, Streamed, InStep

LEMMA LoadsInStep ==
  ASSUME IInv, IndexInv, NEW r \in Trigger, Loads(r)
  PROVE  IndexInv'
<1>0. /\ TypeOK /\ Kept(held) /\ Sane(record[r]) /\ record[r] \in Records
      /\ record[r].pc \notin {"idle", "initializing", "writing"}
      /\ UNCHANGED log
  BY DEF IInv, TypeOK, Kept, Loads, StoreLoad, Hydrate, Reload, LoadFails, store
<1> DEFINE k == record[r].key
           l == log[k]
<1>1. /\ k \in Key /\ Resident(k) = r /\ Busy(record[r]) /\ Goes
      /\ Answerable(record[r], outcome) /\ Grounded(record[r], l)
      /\ RacedIn(l, outcome) \/ held.index[k] = record[r].state
      /\ \A j \in Key : Resident(j) = r => j = k
      /\ log'[k] = l
  BY <1>0, BusyRecords, BusyIsInStep, GoesOn
<1>2. Loaded(k) = NoSnapshot <=> l = <<>>
  BY <1>0, <1>1, LoadedIsThere
<1> HIDE DEF k, l
<1>3. ASSUME NEW x, record' = [record EXCEPT ![r] = x],
             x.key = record[r].key, x.queue = record[r].queue,
             Answerable(x, outcome), Grounded(x, l), UNCHANGED outcome,
             held'.resident = held.resident,
             RacedIn(l, outcome) \/ held'.index[k] = x.state,
             \A j \in Key \ {k} : held'.index[j] = held.index[j]
      PROVE  IndexInv'
  BY <1>1, <1>3, ChangeInStep DEF k
<1>4. CASE StoreLoad(r)
  <2> DEFINE x == [record[r] EXCEPT
                     !.pc = IF @ = "hydrating" THEN "hydrated" ELSE "reloaded",
                     !.loaded = Loaded(k)]
  <2>1. /\ x.key = record[r].key /\ x.queue = record[r].queue
        /\ x.chain = record[r].chain /\ x.loaded = Loaded(k)
        /\ x.state = record[r].state /\ x.hydration = record[r].hydration
        /\ x.stale = record[r].stale
        /\ \/ record[r].pc = "hydrating" /\ x.pc = "hydrated"
           \/ record[r].pc = "reloading" /\ x.pc = "reloaded"
    BY <1>0, <1>4 DEF Records, StoreLoad
  <2>2. record' = [record EXCEPT ![r] = x] /\ UNCHANGED <<outcome, held>>
    BY <1>4 DEF StoreLoad, k
  <2> HIDE DEF x
  <2>3. Grounded(x, l)
    BY <1>1, <1>2, <2>1 DEF Grounded, Settled
  <2>4. Answerable(x, outcome)
    BY <1>0, <1>1, <2>1 DEF Answerable
  <2> QED  BY <1>1, <1>3, <2>1, <2>2, <2>3, <2>4
<1>5. CASE Hydrate(r) /\ IsGone(r)
  <2> DEFINE c == Append(record[r].chain, InitWrite)
             x == [record[r] EXCEPT !.chain = Append(@, InitWrite),
                                    !.pc = "initializing"]
  <2>1. /\ x.key = record[r].key /\ x.queue = record[r].queue
        /\ x.chain = c /\ x.loaded = record[r].loaded
        /\ x.state = record[r].state /\ x.hydration = record[r].hydration
        /\ x.stale = record[r].stale /\ x.pc = "initializing"
    BY <1>0 DEF Records
  <2>2. record' = [record EXCEPT ![r] = x] /\ UNCHANGED <<outcome, held>>
    BY <1>5 DEF Hydrate
  <2>3. /\ Len(c) = Len(record[r].chain) + 1 /\ c[Len(record[r].chain) + 1] = InitWrite
        /\ \A i \in 1 .. Len(record[r].chain) : c[i] = record[r].chain[i]
        /\ Len(record[r].chain) \in Nat
    <3>1. record[r].chain \in Seq(Writes) /\ InitWrite \in Writes
      BY <1>0 DEF Records, Writes
    <3> QED  BY <3>1, AppendProperties
  <2> HIDE DEF x, c
  <2>4. \A i \in 1 .. Len(c) : i \in 1 .. Len(record[r].chain) \/ c[i] = InitWrite
    BY <2>3
  <2>5. Grounded(x, l)
    BY <1>1, <2>1, <2>3, <2>4 DEF Grounded, Settled
  <2>6. Answerable(x, outcome)
    <3>1. \A t \in Trigger : InitWrite.by # CommitBy(t)
      BY NoneAssumption DEF InitWrite, InitialValues, CommitBy
    <3>2. \A i \in 1 .. Len(record[r].chain) : \A t \in Trigger :
            record[r].chain[i].by = CommitBy(t) => outcome[t] = "failed"
      BY <1>0, <1>1 DEF Answerable
    <3>3. \A i \in 1 .. Len(c) : \A t \in Trigger :
            c[i].by = CommitBy(t) => outcome[t] = "failed"
      BY <2>3, <2>4, <3>1, <3>2
    <3> QED  BY <2>1, <3>3 DEF Answerable
  <2> QED  BY <1>1, <1>3, <2>1, <2>2, <2>5, <2>6
<1>6. CASE Reload(r) /\ IsGone(r)
  BY <1>1, <1>6 DEF Reload, IsGone, Grounded
<1>7. ASSUME NEW y \in Records, y.key = record[r].key, y.queue = record[r].queue,
             y.chain = record[r].chain, y.loaded = record[r].loaded,
             y.hydration # "running", y.stale => record[r].stale,
             record' = [record EXCEPT ![r] = Adopting(y)], ~IsGone(r),
             held' = Enters(held, record[r].key, record[r].loaded.state),
             UNCHANGED outcome
      PROVE  IndexInv'
  <2> DEFINE x == Adopting(y)
             s == record[r].loaded.state
  <2>1. Busy(y) /\ y.loaded # NoSnapshot
    BY <1>1, <1>7 DEF Busy, IsGone
  <2>2. /\ x.key = record[r].key /\ x.state = s /\ x.pc = "handling"
        /\ x.chain = record[r].chain
    BY <1>7, <2>1, AdoptingTyped
  <2>3. /\ x.queue = record[r].queue /\ x.loaded = NoSnapshot
        /\ x.hydration = y.hydration /\ x.stale = y.stale
    BY <1>7 DEF Adopting, Ready, Records
  <2>4. s \in State
    BY <1>7, <2>1 DEF Records, Pictures
  <2> HIDE DEF x, s
  <2>5. held'.resident = held.resident /\ held'.index = [held.index EXCEPT ![k] = s]
    BY <1>0, <1>1, <1>7, <2>4, EntersFit DEF Enters, k, s
  <2>6. \A j \in Key : held'.index[j] = IF j = k THEN s ELSE held.index[j]
    BY <1>0, <2>5 DEF Kept, Held
  <2>7. l # <<>>
    BY <1>1, <1>7 DEF Grounded, Settled, IsGone
  <2>8. Grounded(x, l)
    BY <1>7, <2>2, <2>3, <2>7 DEF Grounded, Settled
  <2>9. Answerable(x, outcome)
    BY <1>0, <1>1, <2>2 DEF Answerable
  <2> QED  BY <1>1, <1>3, <1>7, <2>2, <2>3, <2>5, <2>6, <2>8, <2>9 DEF x
<1>8. CASE Hydrate(r) /\ ~IsGone(r)
  <2> DEFINE y == [record[r] EXCEPT !.hydration = "done"]
  <2>1. /\ y \in Records /\ y.key = record[r].key /\ y.queue = record[r].queue
        /\ y.chain = record[r].chain /\ y.loaded = record[r].loaded
        /\ y.hydration = "done" /\ y.stale = record[r].stale
    BY <1>0 DEF Records
  <2>2. /\ record' = [record EXCEPT ![r] = Adopting(y)]
        /\ held' = Enters(held, record[r].key, record[r].loaded.state)
        /\ UNCHANGED outcome
    BY <1>8 DEF Hydrate
  <2> HIDE DEF y
  <2> QED  BY <1>7, <1>8, <2>1, <2>2
<1>9. CASE Reload(r) /\ ~IsGone(r)
  <2> DEFINE y == [record[r] EXCEPT !.stale = FALSE]
  <2>1. /\ y \in Records /\ y.key = record[r].key /\ y.queue = record[r].queue
        /\ y.chain = record[r].chain /\ y.loaded = record[r].loaded
        /\ y.hydration = record[r].hydration /\ ~y.stale
    BY <1>0 DEF Records
  <2>2. /\ record' = [record EXCEPT ![r] = Adopting(y)]
        /\ held' = Enters(held, record[r].key, record[r].loaded.state)
        /\ UNCHANGED outcome
    BY <1>9 DEF Reload
  <2> HIDE DEF y
  <2>3. record[r].hydration # "running"
    BY <1>1, <1>9 DEF Reload, Grounded
  <2> QED  BY <1>7, <1>9, <2>1, <2>2, <2>3
<1>10. CASE LoadFails(r)
  <2> DEFINE x == IF record[r].pc = "reloading" THEN record[r]
                  ELSE [record[r] EXCEPT !.hydration = "failed"]
  <2>1. /\ x \in Records /\ x.key = record[r].key /\ x.queue = record[r].queue
        /\ x.chain = record[r].chain /\ x.loaded = record[r].loaded
        /\ x.state = record[r].state /\ x.stale = record[r].stale
        /\ x.hydration = record[r].hydration \/ x.hydration = "failed"
    BY <1>0 DEF Records
  <2>2. x.hydration # "running"
    BY <1>0, <1>1, <1>10 DEF LoadFails, Grounded, Records
  <2>3. TurnEnds(r, x, "failed", held)
    BY <1>10 DEF LoadFails
  <2> HIDE DEF x
  <2>4. Busy(x)
    BY <1>1, <2>1 DEF Busy
  <2>5. Settled(x, l)
    BY <1>1, <2>1, <2>2 DEF Settled, Grounded
  <2>6. \A i \in 1 .. Len(x.chain) : \A t \in Trigger :
          x.chain[i].by = CommitBy(t) => outcome[t] = "failed"
    BY <1>0, <1>1, <2>1 DEF Answerable
  <2> QED  BY <1>0, <1>1, <2>1, <2>2, <2>3, <2>4, <2>5, <2>6, TurnInStep DEF k
<1> QED  BY <1>4, <1>5, <1>6, <1>8, <1>9, <1>10 DEF Loads

LEMMA AttemptInStep ==
  ASSUME IInv, IndexInv, NEW r \in Trigger, Attempt(r) \/ Timeout(r)
  PROVE  IndexInv'
<1>0. /\ TypeOK /\ Kept(held) /\ Sane(record[r]) /\ record[r] \in Records
      /\ record[r].pc \in {"failing", "handling", "writing"}
      /\ UNCHANGED log
  BY DEF IInv, TypeOK, Kept, Attempt, Seal, TurnFails, Timeout, store
<1> DEFINE k == record[r].key
           l == log[k]
           a == Head(record[r].queue)
<1>1. /\ k \in Key /\ Resident(k) = r /\ Busy(record[r]) /\ Goes
      /\ Answerable(record[r], outcome) /\ Grounded(record[r], l)
      /\ RacedIn(l, outcome) \/ held.index[k] = record[r].state
      /\ \A j \in Key : Resident(j) = r => j = k
      /\ log'[k] = l /\ a \in Trigger
  BY <1>0, BusyRecords, BusyIsInStep, GoesOn
<1> HIDE DEF k, l, a
<1>2. ASSUME NEW to \in State, Seal(r, to) PROVE IndexInv'
  <2> DEFINE w == [to |-> to, by |-> CommitBy(a),
                   on |-> record[r].token.by, expected |-> record[r].seq]
             c == Append(record[r].chain, w)
             x == [record[r] EXCEPT !.chain = c, !.pc = "writing"]
  <2>1. record' = [record EXCEPT ![r] = x] /\ UNCHANGED <<outcome, held>>
        /\ record[r].pc = "handling"
    BY <1>2 DEF Seal, a
  <2>2. w \in Writes /\ w.by = CommitBy(a)
    <3>1. CommitBy(a) \in Written
      BY <1>1 DEF Written
    <3>2. record[r].token.by \in Given /\ record[r].seq \in Nat
      BY <1>0 DEF Records
    <3> QED  BY <3>1, <3>2 DEF Writes
  <2> HIDE DEF w
  <2>3. /\ Len(c) = Len(record[r].chain) + 1 /\ c[Len(record[r].chain) + 1] = w
        /\ \A i \in 1 .. Len(record[r].chain) : c[i] = record[r].chain[i]
        /\ Len(record[r].chain) \in Nat
    <3>1. record[r].chain \in Seq(Writes)
      BY <1>0 DEF Records
    <3> QED  BY <2>2, <3>1, AppendProperties
  <2> HIDE DEF c
  <2>4. /\ x.key = record[r].key /\ x.queue = record[r].queue
        /\ x.chain = c /\ x.loaded = record[r].loaded /\ x.pc = "writing"
        /\ x.state = record[r].state /\ x.hydration = record[r].hydration
        /\ x.stale = record[r].stale
    BY <1>0 DEF Records
  <2> HIDE DEF x
  <2>5. Grounded(x, l)
    BY <1>1, <2>1, <2>4 DEF Grounded, Settled
  <2>6. Answerable(x, outcome)
    <3>1. SUFFICES ASSUME NEW i \in 1 .. Len(c), NEW t \in Trigger,
                          c[i].by = CommitBy(t)
                   PROVE  outcome[t] = "failed" \/ (a = t /\ i = Len(c))
      BY <2>4 DEF Answerable, a
    <3>2. CASE i \in 1 .. Len(record[r].chain)
      BY <1>1, <2>1, <2>3, <3>1, <3>2 DEF Answerable
    <3>3. CASE i \notin 1 .. Len(record[r].chain)
      <4>1. i = Len(c) /\ c[i] = w
        BY <2>3, <3>3
      <4> QED  BY <2>2, <3>1, <4>1 DEF CommitBy
    <3> QED  BY <3>2, <3>3
  <2> QED  BY <1>1, <2>1, <2>4, <2>5, <2>6, ChangeInStep DEF k
<1>3. CASE TurnFails(r) \/ Timeout(r)
  <2>1. TurnEnds(r, record[r], "failed", held)
    BY <1>3 DEF TurnFails, Timeout
  <2>2. record[r].hydration # "running" /\ Settled(record[r], l)
    BY <1>0, <1>1 DEF Grounded
  <2>3. \A i \in 1 .. Len(record[r].chain) : \A t \in Trigger :
          record[r].chain[i].by = CommitBy(t) =>
            outcome[t] = "failed" \/ t = Head(record[r].queue)
    BY <1>1 DEF Answerable
  <2> QED  BY <1>0, <1>1, <2>1, <2>2, <2>3, TurnInStep DEF k
<1> QED  BY <1>2, <1>3 DEF Attempt

\* A commit that its turn waits for leaves the index with the state it moved to.
LEMMA AccountedIndex ==
  ASSUME NEW r, NEW after, Kept(held), after.key \in Key, after.state \in State
  PROVE  \A k \in Key : Accounted(r, after).index[k] =
           IF k = after.key /\ after.state # record[r].state
             THEN after.state ELSE held.index[k]
<1> DEFINE moved == IF after.state = record[r].state THEN held
                    ELSE Enters(held, after.key, after.state)
<1>1. Kept(moved) /\ \A k \in Key : moved.index[k] =
        IF k = after.key /\ after.state # record[r].state
          THEN after.state ELSE held.index[k]
  <2>1. CASE after.state = record[r].state
    BY <2>1
  <2>2. CASE after.state # record[r].state
    <3>1. /\ Kept(moved)
          /\ moved.index = [held.index EXCEPT ![after.key] = after.state]
      BY <2>2, EntersFit DEF Enters
    <3>2. held.index \in [Key -> State \cup {None}]
      BY DEF Kept, Held
    <3> HIDE DEF moved
    <3> QED  BY <2>2, <3>1, <3>2
  <2> QED  BY <2>1, <2>2
<1> DEFINE b == Bytes[after.state]
<1>2. b \in Nat
  BY BytesAssumption
<1> HIDE DEF moved, b
<1>3. Costs(moved, after.key, b).index = moved.index
  BY <1>1, <1>2, CostsFit
<1> QED  BY <1>1, <1>3 DEF Accounted, moved, b

\* What is left of the chain of a record, and of what is said of it.
LEMMA RestAnswers ==
  ASSUME IInv, IndexInv, NEW r \in Trigger, record[r].chain # <<>>
  PROVE  /\ \A i \in 1 .. Len(Rest(r).chain) : \A t \in Trigger :
              Rest(r).chain[i].by = CommitBy(t) =>
                \/ outcome[t] = "failed"
                \/ /\ record[r].pc = "writing" /\ Head(record[r].queue) = t
                   /\ i = Len(Rest(r).chain) /\ ~Awaited(r)
         /\ \A l : Settled(record[r], l) =>
              \A i \in 1 .. Len(Rest(r).chain) :
                l = <<>> => Rest(r).chain[i] = InitWrite
         /\ \A t \in Trigger : Write(r).by = CommitBy(t) =>
              outcome[t] = "failed" \/ Awaited(r)
         /\ \A l : Settled(record[r], l) /\ ~IsInit(r) => l # <<>>
<1>1. /\ \A i \in 1 .. Len(Rest(r).chain) : Rest(r).chain[i] = record[r].chain[i + 1]
      /\ Len(Rest(r).chain) = Len(record[r].chain) - 1
      /\ Len(record[r].chain) \in Nat
      /\ Write(r) = record[r].chain[1] /\ 1 \in 1 .. Len(record[r].chain)
      /\ ~IsInit(r) => Write(r) # InitWrite
  <2>1. TypeOK
    BY DEF IInv
  <2>2. Len(record[r].chain) \in Nat
    BY <2>1 DEF TypeOK, Records
  <2> QED  BY <2>1, <2>2, RestTyped, RestFields
<1>2. \A i \in 1 .. Len(record[r].chain) : \A t \in Trigger :
        record[r].chain[i].by = CommitBy(t) =>
          \/ outcome[t] = "failed"
          \/ /\ record[r].pc = "writing" /\ Head(record[r].queue) = t
             /\ i = Len(record[r].chain)
  BY DEF IndexInv, Told, Answerable
<1>3. ASSUME NEW i \in 1 .. Len(Rest(r).chain), NEW t \in Trigger,
             Rest(r).chain[i].by = CommitBy(t), outcome[t] # "failed"
      PROVE  /\ record[r].pc = "writing" /\ Head(record[r].queue) = t
             /\ i = Len(Rest(r).chain) /\ ~Awaited(r)
  <2>1. i + 1 \in 1 .. Len(record[r].chain)
    BY <1>1
  <2>2. /\ record[r].pc = "writing" /\ Head(record[r].queue) = t
        /\ i + 1 = Len(record[r].chain)
    BY <1>1, <1>2, <1>3, <2>1
  <2>3. i = Len(Rest(r).chain)
    BY <1>1, <2>2
  <2>4. ASSUME Awaited(r) PROVE FALSE
    <3>1. record[r].chain[1].by = CommitBy(t)
      BY <1>1, <2>2, <2>4 DEF Awaited
    <3>2. 1 = Len(record[r].chain)
      BY <1>1, <1>2, <1>3, <3>1
    <3> QED  BY <1>1, <2>2, <3>2
  <2> QED  BY <2>2, <2>3, <2>4
<1>4. ASSUME NEW l, Settled(record[r], l), l = <<>>
      PROVE  \A i \in 1 .. Len(record[r].chain) : record[r].chain[i] = InitWrite
  BY <1>4 DEF Settled
<1>5. \A i \in 1 .. Len(Rest(r).chain) : i + 1 \in 1 .. Len(record[r].chain)
  BY <1>1
<1>6. ASSUME NEW t \in Trigger, Write(r).by = CommitBy(t), outcome[t] # "failed"
      PROVE  Awaited(r)
  BY <1>1, <1>2, <1>6 DEF Awaited
<1>7. ASSUME NEW l, Settled(record[r], l), l = <<>>,
             NEW i \in 1 .. Len(Rest(r).chain)
      PROVE  Rest(r).chain[i] = InitWrite
  BY <1>1, <1>4, <1>5, <1>7
<1>8. ASSUME NEW l, Settled(record[r], l), ~IsInit(r) PROVE l # <<>>
  BY <1>1, <1>4, <1>8
<1>9. \A l : Settled(record[r], l) =>
        \A i \in 1 .. Len(Rest(r).chain) : l = <<>> => Rest(r).chain[i] = InitWrite
  BY <1>7
<1>10. \A l : Settled(record[r], l) /\ ~IsInit(r) => l # <<>>
  BY <1>8
<1>11. \A i \in 1 .. Len(Rest(r).chain) : \A t \in Trigger :
         Rest(r).chain[i].by = CommitBy(t) =>
           \/ outcome[t] = "failed"
           \/ /\ record[r].pc = "writing" /\ Head(record[r].queue) = t
              /\ i = Len(Rest(r).chain) /\ ~Awaited(r)
  BY <1>3
<1>12. \A t \in Trigger : Write(r).by = CommitBy(t) =>
         outcome[t] = "failed" \/ Awaited(r)
  BY <1>6
<1> QED  BY <1>9, <1>10, <1>11, <1>12

LEMMA SettlesInStep ==
  ASSUME IInv, IndexInv, NEW r \in Trigger, Settles(r)
  PROVE  IndexInv'
<1>0. /\ TypeOK /\ Kept(held) /\ AtHome /\ Together(held) /\ Named
      /\ record \in [Trigger -> Records] /\ record[r].chain # <<>>
  BY DEF Settles, InitLands, InitFails, CommitLands, CommitFails, IInv, TypeOK, Kept
<1> DEFINE k == record[r].key
           l == log[k]
<1>1. /\ record[r] \in Records /\ k \in Key
      /\ Rest(r) \in Records /\ Rest(r).key = k
      /\ Rest(r).queue = record[r].queue /\ Rest(r).pc = record[r].pc
      /\ Rest(r).state = record[r].state /\ Rest(r).stale = record[r].stale
      /\ Rest(r).loaded = record[r].loaded
      /\ Rest(r).hydration = record[r].hydration
      /\ IsInit(r) => record[r].pc = "initializing" /\ Rest(r).chain = <<>>
      /\ Write(r) \in Writes /\ (~IsInit(r) => Write(r) # InitWrite)
  <2>1. Rest(r).hydration = record[r].hydration
    BY <1>0 DEF Rest, Records
  <2> QED  BY <1>0, <2>1, RestTyped, RestFields
<1>2. /\ UNCHANGED log => Goes
      /\ Stores(r) => /\ Goes /\ log'[k] # <<>>
                      /\ \E i \in 1 .. Len(log'[k]) : log'[k][i].by = Write(r).by
      /\ Goes => Continues(l, log'[k])
  BY <1>0, <1>1, GoesOn DEF Goes
<1>3. Continues(l, log'[k]) => (RacedIn(l, outcome) => RacedIn(log'[k], outcome))
  BY RacedLater
<1>4. /\ \A i \in 1 .. Len(Rest(r).chain) : \A t \in Trigger :
           Rest(r).chain[i].by = CommitBy(t) =>
             \/ outcome[t] = "failed"
             \/ /\ record[r].pc = "writing" /\ Head(record[r].queue) = t
                /\ i = Len(Rest(r).chain) /\ ~Awaited(r)
      /\ \A t \in Trigger : Write(r).by = CommitBy(t) =>
           outcome[t] = "failed" \/ Awaited(r)
      /\ Settled(record[r], l) /\ ~IsInit(r) => l # <<>>
  BY <1>0, RestAnswers
<1>5. Resident(k) = r =>
        /\ Grounded(record[r], l)
        /\ RacedIn(l, outcome) \/ held.index[k] = record[r].state
  <2>1. r # None
    BY NoneAssumption
  <2> QED  BY <1>1, <2>1 DEF IndexInv, Streamed, InStep
<1>6. record[r].pc # "idle" => Resident(k) = r
  BY <1>0 DEF AtHome
<1>7. Len(<<>>) = 0
  OBVIOUS
<1> HIDE DEF k, l
<1>8. CASE InitLands(r)
  <2> DEFINE y == [Rest(r) EXCEPT !.hydration = "done"]
             x == [y EXCEPT !.pc = "handling", !.token = [seq |-> y.seq, by |-> y.by]]
  <2>1. /\ record' = [record EXCEPT ![r] = x] /\ IsInit(r) /\ Stores(r)
        /\ UNCHANGED <<held, outcome>>
    BY <1>8 DEF InitLands, Ready
  <2>2. /\ x.key = k /\ x.queue = record[r].queue /\ x.chain = <<>>
        /\ x.pc = "handling" /\ x.state = record[r].state /\ x.hydration = "done"
    BY <1>1, <2>1 DEF Records
  <2> HIDE DEF x
  <2>3. Answerable(x, outcome)
    BY <1>7, <2>2 DEF Answerable
  <2>4. log'[k] # <<>> /\ Goes
    BY <1>2, <2>1
  <2>5. Grounded(x, log'[k])
    BY <2>2, <2>4 DEF Grounded, Settled
  <2> QED  BY <1>1, <1>2, <1>3, <1>5, <1>6, <2>1, <2>2, <2>3, <2>4, <2>5,
              ChangeInStep DEF k
<1>9. CASE InitFails(r)
  <2> DEFINE x == [Rest(r) EXCEPT !.hydration = "failed"]
  <2>1. TurnEnds(r, x, "failed", held) /\ IsInit(r) /\ UNCHANGED log
    BY <1>9 DEF InitFails
  <2>2. /\ x \in Records /\ x.key = k /\ x.queue = record[r].queue
        /\ x.chain = Rest(r).chain /\ x.chain = <<>> /\ x.state = record[r].state
        /\ x.hydration = "failed" /\ x.stale = record[r].stale
        /\ x.loaded = record[r].loaded
    BY <1>1, <2>1 DEF Records
  <2> HIDE DEF x
  <2>3. Busy(x) /\ record[r].pc # "idle"
    BY <1>0, <1>1, <2>1, <2>2, InitBusy DEF k
  <2>4. log'[k] = l /\ Goes
    BY <1>2, <2>1 DEF l
  <2>5. Settled(x, l)
    BY <1>5, <1>6, <1>7, <2>2, <2>3 DEF Settled, Grounded
  <2>6. RacedIn(l, outcome) \/ held.index[k] = x.state
    BY <1>5, <1>6, <2>2, <2>3
  <2> QED  BY <1>0, <1>7, <2>1, <2>2, <2>3, <2>4, <2>5, <2>6, TurnInStep DEF k
<1>10. CASE CommitLands(r)
  <2> DEFINE x == [Rest(r) EXCEPT !.state = Write(r).to,
                                  !.seq = Write(r).expected + 1,
                                  !.by = Write(r).by]
  <2>1. /\ Write(r).to \in State /\ Write(r).by \in Written
        /\ Write(r).expected \in Nat /\ ~IsInit(r) /\ Stores(r)
    BY <1>1, <1>10 DEF CommitLands, Writes
  <2>2. /\ x \in Records /\ x.key = k /\ x.queue = record[r].queue
        /\ x.chain = Rest(r).chain /\ x.pc = record[r].pc /\ x.state \in State
        /\ x.loaded = record[r].loaded /\ x.hydration = record[r].hydration
    <3>1. Write(r).expected + 1 \in Nat /\ Write(r).by \in Authors
      BY <2>1 DEF Authors
    <3> QED  BY <1>1, <2>1, <3>1 DEF Records
  <2>3. IF Awaited(r)
          THEN TurnEnds(r, x, "committed", Accounted(r, x))
          ELSE /\ record' = [record EXCEPT ![r] = x]
               /\ UNCHANGED <<held, outcome>>
    BY <1>10 DEF CommitLands
  <2> HIDE DEF x
  <2>4. log'[k] # <<>> /\ Goes
    BY <1>2, <2>1
  <2>5. CASE Awaited(r)
    <3>1. Busy(x) /\ record[r].pc = "writing"
      BY <1>0, <2>2, <2>5, AwaitedIsBusy DEF Awaited, k
    <3>2. Resident(x.key) # None
      BY <1>6, <2>2, <3>1, NoneAssumption
    <3> DEFINE h == Accounted(r, x)
    <3>3. Kept(h) /\ h.resident = held.resident
      BY <1>0, <1>1, <2>2, <3>2, AccountedFits, AccountedTogether
    <3>4. \A j \in Key : h.index[j] =
            IF j = k /\ x.state # record[r].state THEN x.state ELSE held.index[j]
      BY <1>0, <1>1, <2>2, AccountedIndex
    <3>5. TurnEnds(r, x, "committed", h)
      BY <2>3, <2>5
    <3> HIDE DEF h
    <3>6. RacedIn(log'[k], outcome) \/ h.index[k] = x.state
      BY <1>1, <1>2, <1>3, <1>5, <1>6, <2>4, <3>1, <3>4
    <3>7. x.hydration # "running" /\ Settled(x, log'[k])
      BY <1>5, <1>6, <2>2, <2>4, <3>1 DEF Settled, Grounded
    <3>8. \A i \in 1 .. Len(x.chain) : \A t \in Trigger :
            x.chain[i].by = CommitBy(t) => outcome[t] = "failed"
      BY <1>4, <2>2, <2>5
    <3> QED  BY <2>2, <2>4, <3>1, <3>3, <3>4, <3>5, <3>6, <3>7, <3>8, TurnInStep DEF k
  <2>6. CASE ~Awaited(r)
    <3>1. record' = [record EXCEPT ![r] = x] /\ UNCHANGED <<held, outcome>>
      BY <2>3, <2>6
    <3>2. Answerable(x, outcome)
      BY <1>4, <2>2 DEF Answerable
    <3>3. RacedIn(log'[k], outcome)
      <4>1. PICK t \in Trigger : Write(r).by = CommitBy(t)
        BY <2>1 DEF Written
      <4>2. outcome[t] = "failed"
        BY <1>4, <2>6, <4>1
      <4> QED  BY <1>2, <2>1, <4>1, <4>2 DEF RacedIn
    <3>4. Resident(k) = r => Grounded(x, log'[k])
      BY <1>5, <2>2, <2>4 DEF Settled, Grounded
    <3> QED  BY <2>2, <2>4, <3>1, <3>2, <3>3, <3>4, ChangeInStep DEF k
  <2> QED  BY <2>5, <2>6
<1>11. CASE CommitFails(r)
  <2>1. PICK conflict \in BOOLEAN :
          LET after == [Rest(r) EXCEPT !.stale = @ \/ conflict]
          IN  IF Awaited(r)
                THEN TurnEnds(r, after, "failed", held)
                ELSE /\ record' = [record EXCEPT ![r] = after]
                     /\ UNCHANGED <<held, outcome, snapshot>>
    BY <1>11 DEF CommitFails
  <2> DEFINE x == [Rest(r) EXCEPT !.stale = @ \/ conflict]
  <2>2. /\ x \in Records /\ x.key = k /\ x.queue = record[r].queue
        /\ x.chain = Rest(r).chain /\ x.pc = record[r].pc
        /\ x.state = record[r].state /\ x.loaded = record[r].loaded
        /\ x.hydration = record[r].hydration
    BY <1>1 DEF Records
  <2>3. /\ IF Awaited(r)
             THEN TurnEnds(r, x, "failed", held)
             ELSE /\ record' = [record EXCEPT ![r] = x]
                  /\ UNCHANGED <<held, outcome, snapshot>>
        /\ UNCHANGED log /\ ~IsInit(r)
    BY <1>11, <2>1 DEF CommitFails
  <2> HIDE DEF x
  <2>4. log'[k] = l /\ Goes
    BY <1>2, <2>3 DEF l
  <2>5. CASE Awaited(r)
    <3>1. Busy(x) /\ record[r].pc = "writing"
      BY <1>0, <2>2, <2>5, AwaitedIsBusy DEF Awaited, k
    <3>2. x.hydration # "running" /\ Settled(x, l)
      BY <1>4, <1>5, <1>6, <2>2, <2>3, <3>1 DEF Settled, Grounded
    <3>3. RacedIn(l, outcome) \/ held.index[k] = x.state
      BY <1>5, <1>6, <2>2, <3>1
    <3>4. \A i \in 1 .. Len(x.chain) : \A t \in Trigger :
            x.chain[i].by = CommitBy(t) => outcome[t] = "failed"
      BY <1>4, <2>2, <2>5
    <3> QED  BY <1>0, <2>2, <2>3, <2>4, <2>5, <3>1, <3>2, <3>3, <3>4, TurnInStep DEF k
  <2>6. CASE ~Awaited(r)
    <3>1. record' = [record EXCEPT ![r] = x] /\ UNCHANGED <<held, outcome>>
      BY <2>3, <2>6
    <3>2. Answerable(x, outcome)
      BY <1>4, <2>2 DEF Answerable
    <3>3. Resident(k) = r =>
            /\ Grounded(x, l)
            /\ RacedIn(l, outcome) \/ held.index[k] = x.state
      BY <1>4, <1>5, <2>2, <2>3 DEF Settled, Grounded
    <3> QED  BY <2>2, <2>4, <3>1, <3>2, <3>3, ChangeInStep DEF k
  <2> QED  BY <2>5, <2>6
<1> QED  BY <1>8, <1>9, <1>10, <1>11 DEF Settles

\* A trigger that joins a queue waits there, behind the others.
LEMMA SendWaits ==
  ASSUME IInv, Waiting, NEW t \in Trigger, outcome[t] = "unsent",
         NEW r \in Trigger, NEW x,
         record' = [record EXCEPT ![r] = x],
         outcome' = [outcome EXCEPT ![t] = "pending"],
         \/ x.queue = Append(record[r].queue, t)
         \/ x.queue = <<t>>
  PROVE  Waiting'
<1>0. /\ record \in [Trigger -> Records]
      /\ outcome \in [Trigger -> {"unsent", "pending", "committed", "failed"}]
  BY DEF IInv, TypeOK
<1>1. /\ \A q \in Trigger : record'[q] = IF q = r THEN x ELSE record[q]
      /\ \A q \in Trigger : outcome'[q] = IF q = t THEN "pending" ELSE outcome[q]
  BY <1>0
<1>2. /\ \A q \in Trigger : \A i \in 1 .. Len(record[q].queue) :
           /\ record[q].queue[i] \in Trigger
           /\ outcome[record[q].queue[i]] = "pending"
      /\ \A v, w \in Trigger :
           \A c \in 1 .. Len(record[v].queue), d \in 1 .. Len(record[w].queue) :
             record[v].queue[c] = record[w].queue[d] => v = w /\ c = d
  <2>1. ASSUME NEW q \in Trigger, NEW i \in 1 .. Len(record[q].queue)
        PROVE  record[q].queue[i] \in Trigger
    <3>1. record[q].queue \in Seq(Trigger)
      BY <1>0 DEF Records
    <3> QED  BY <3>1
  <2> QED  BY <2>1 DEF Waiting
<1>3. \A i \in 1 .. Len(x.queue) :
        \/ x.queue[i] = t /\ i = Len(x.queue)
        \/ /\ i \in 1 .. Len(record[r].queue) /\ x.queue[i] = record[r].queue[i]
  <2> DEFINE u == record[r].queue
  <2>1. u \in Seq(Trigger)
    BY <1>0 DEF Records
  <2> HIDE DEF u
  <2>2. /\ Len(Append(u, t)) = Len(u) + 1 /\ Len(u) \in Nat
        /\ \A i \in 1 .. Len(u) : Append(u, t)[i] = u[i]
        /\ Append(u, t)[Len(u) + 1] = t
    BY <2>1, AppendProperties
  <2>3. CASE x.queue = Append(u, t)
    BY <2>2, <2>3 DEF u
  <2>4. CASE x.queue = <<t>>
    BY <2>4
  <2> QED  BY <2>3, <2>4 DEF u
<1>4. \A q \in Trigger : \A i \in 1 .. Len(record'[q].queue) :
        \/ q = r /\ record'[q].queue[i] = t /\ i = Len(x.queue)
        \/ /\ i \in 1 .. Len(record[q].queue)
           /\ record'[q].queue[i] = record[q].queue[i]
           /\ record'[q].queue[i] # t
  BY <1>1, <1>2, <1>3
<1>5. \A q \in Trigger : \A i \in 1 .. Len(record'[q].queue) :
        outcome'[record'[q].queue[i]] = "pending"
  BY <1>1, <1>2, <1>4
<1>6. ASSUME NEW v \in Trigger, NEW w \in Trigger,
             NEW c \in 1 .. Len(record'[v].queue),
             NEW d \in 1 .. Len(record'[w].queue),
             record'[v].queue[c] = record'[w].queue[d]
      PROVE  v = w /\ c = d
  <2>1. CASE record'[v].queue[c] = t
    <3>1. v = r /\ c = Len(x.queue)
      BY <1>4, <2>1
    <3>2. w = r /\ d = Len(x.queue)
      BY <1>4, <1>6, <2>1
    <3> QED  BY <3>1, <3>2
  <2>2. CASE record'[v].queue[c] # t
    <3>1. /\ c \in 1 .. Len(record[v].queue)
          /\ record'[v].queue[c] = record[v].queue[c]
      BY <1>4, <2>2
    <3>2. /\ d \in 1 .. Len(record[w].queue)
          /\ record'[w].queue[d] = record[w].queue[d]
      BY <1>4, <1>6, <2>2
    <3> QED  BY <1>2, <1>6, <3>1, <3>2
  <2> QED  BY <2>1, <2>2
<1> QED  BY <1>5, <1>6 DEF Waiting

LEMMA SendInStep ==
  ASSUME IInv, IndexInv, NEW t \in Trigger, NEW k \in Key, Send(t, k)
  PROVE  IndexInv'
<1>0. /\ Kept(held) /\ held.resident \in [Key -> Trigger \cup {None}]
      /\ held.index \in [Key -> State \cup {None}]
      /\ outcome[t] = "unsent" /\ UNCHANGED log
      /\ record \in [Trigger -> Records] /\ Named /\ TypeOK
      /\ outcome \in [Trigger -> {"unsent", "pending", "committed", "failed"}]
  BY DEF IInv, TypeOK, Kept, Held, Send, SendResident, SendNew, SendRefused, MaySend,
         store
<1>1. \A l : Continues(l, l)
  BY DEF Continues
<1>2. ASSUME \A q \in Trigger : outcome[q] = "failed" => outcome'[q] = "failed"
      PROVE  /\ \A l : RacedIn(l, outcome) => RacedIn(l, outcome')
             /\ \A q \in Trigger : Answerable(record[q], outcome')
  <2>1. \A l : RacedIn(l, outcome) => RacedIn(l, outcome')
    BY <1>1, <1>2, RacedLater
  <2>2. \A q \in Trigger : Answerable(record[q], outcome')
    <3>1. SUFFICES ASSUME NEW q \in Trigger,
                          NEW i \in 1 .. Len(record[q].chain), NEW u \in Trigger,
                          record[q].chain[i].by = CommitBy(u)
                   PROVE  \/ outcome'[u] = "failed"
                          \/ /\ record[q].pc = "writing" /\ Head(record[q].queue) = u
                             /\ i = Len(record[q].chain)
      BY DEF Answerable
    <3>2. \/ outcome[u] = "failed"
          \/ /\ record[q].pc = "writing" /\ Head(record[q].queue) = u
             /\ i = Len(record[q].chain)
      BY <3>1 DEF IndexInv, Told, Answerable
    <3> QED  BY <1>2, <3>2
  <2> QED  BY <2>1, <2>2
<1>3. CASE SendResident(t, k)
  <2> DEFINE r == Resident(k)
             x == Enqueued(record[r], t)
  <2>1. /\ r \in Trigger /\ Sane(record[r]) /\ record[r].key = k /\ r # None
        /\ record[r] \in Records
    BY <1>0, <1>3 DEF SendResident, TypeOK, Resident, Named
  <2>2. /\ record' = [record EXCEPT ![r] = x]
        /\ outcome' = [outcome EXCEPT ![t] = "pending"]
        /\ UNCHANGED held
    BY <1>3 DEF SendResident
  <2>3. Grounded(record[r], log[k])
    BY <2>1 DEF IndexInv, Streamed
  <2>4. x.state = record[r].state /\ x.chain = record[r].chain
    BY <2>1, EnqueuedIsSane DEF Keeps
  <2> HIDE DEF r
  <2>5. /\ Grounded(x, log[k]) /\ x.queue = Append(record[r].queue, t)
        /\ record[r].pc # "idle" => x.pc = record[r].pc
    BY <2>1, <2>3, EnqueuedGrounded
  <2> HIDE DEF x
  <2>6. /\ \A q \in Trigger : record'[q] = IF q = r THEN x ELSE record[q]
        /\ \A q \in Trigger : outcome'[q] = IF q = t THEN "pending" ELSE outcome[q]
    BY <1>0, <2>2
  <2>7. Waiting'
    BY <1>0, <2>1, <2>2, <2>5, SendWaits DEF IndexInv
  <2>8. /\ \A l : RacedIn(l, outcome) => RacedIn(l, outcome')
        /\ \A q \in Trigger : Answerable(record[q], outcome')
    BY <1>0, <1>2, <2>6
  <2>9. Head(x.queue) = Head(record[r].queue) \/ record[r].pc = "idle"
    <3> DEFINE u == record[r].queue
    <3>1. u \in Seq(Trigger) /\ (record[r].pc # "idle" => u # <<>>)
      BY <2>1 DEF Records, Sane
    <3> HIDE DEF u
    <3>2. u # <<>> => Head(Append(u, t)) = Head(u)
      BY <3>1
    <3> QED  BY <2>5, <3>1, <3>2 DEF u
  <2>10. Answerable(x, outcome')
    BY <2>1, <2>4, <2>5, <2>8, <2>9 DEF Answerable
  <2>11. Told'
    BY <2>6, <2>8, <2>10 DEF Told
  <2>12. ASSUME NEW j \in Key, held'.resident[j] # None
         PROVE  /\ Grounded(record'[held'.resident[j]], log'[j])
                /\ \/ RacedIn(log'[j], outcome')
                   \/ held'.index[j] = record'[held'.resident[j]].state
    <3>1. /\ held'.resident[j] = Resident(j) /\ Resident(j) \in Trigger
          /\ Resident(j) # None /\ record[Resident(j)].key = j
          /\ held'.index[j] = held.index[j] /\ log'[j] = log[j]
      BY <1>0, <2>2, <2>12 DEF Resident, Named
    <3>2. /\ Grounded(record[Resident(j)], log[j])
          /\ RacedIn(log[j], outcome) \/ held.index[j] = record[Resident(j)].state
      BY <3>1 DEF IndexInv, Streamed, InStep
    <3>3. CASE Resident(j) = r
      BY <2>1, <2>4, <2>5, <2>6, <2>8, <3>1, <3>2, <3>3
    <3>4. CASE Resident(j) # r
      BY <2>6, <2>8, <3>1, <3>2, <3>4
    <3> QED  BY <3>3, <3>4
  <2>13. Streamed' /\ InStep'
    BY <2>12 DEF Streamed, InStep, Resident
  <2> QED  BY <2>7, <2>11, <2>13 DEF IndexInv
<1>4. CASE SendNew(t, k)
  <2> DEFINE f == Fresh(k)
             x == Enqueued(f, t)
  <2>1. /\ record' = [record EXCEPT ![t] = x]
        /\ held' = Materialized(held, k, t)
        /\ outcome' = [outcome EXCEPT ![t] = "pending"]
    BY <1>4 DEF SendNew
  <2>2. /\ f \in Records /\ f.pc = "idle" /\ f.queue = <<>> /\ f.chain = <<>>
        /\ f.key = k /\ f.state = Initial /\ f.hydration = "none" /\ ~f.stale
        /\ f.loaded = NoSnapshot
    BY StateAssumption
    DEF Fresh, Records, Pictures, Phases, NoToken, Given, Authors, NoSnapshot
  <2> HIDE DEF f
  <2>3. Sane(f)
    BY <2>2 DEF Sane
  <2>4. \A l : Grounded(f, l)
    BY <2>2 DEF Grounded, Settled
  <2>5. Grounded(x, log[k]) /\ x.queue = Append(f.queue, t)
    BY <2>2, <2>3, <2>4, EnqueuedGrounded
  <2>6. x.state = Initial /\ x.chain = <<>>
    BY <2>2, <2>3, EnqueuedIsSane DEF Keeps
  <2>7. x.queue = <<t>>
    BY <2>2, <2>5
  <2>8. /\ held'.resident = [held.resident EXCEPT ![k] = t]
        /\ held'.index = [held.index EXCEPT ![k] = Initial]
    <3>1. held'.resident = [held.resident EXCEPT ![k] = t]
      BY <1>0, <2>1, MaterializedFits
    <3> DEFINE h1 == [held EXCEPT !.resident[k] = t]
               b == Bytes[Initial]
    <3>2. Kept(h1) /\ h1.index = held.index
      BY <1>0 DEF Kept, Held, Ledger
    <3>3. b \in Nat
      BY BytesAssumption, StateAssumption
    <3> HIDE DEF h1, b
    <3>4. Kept(Costs(h1, k, b)) /\ Costs(h1, k, b).index = h1.index
      BY <3>2, <3>3, CostsFit
    <3>5. held' = [Costs(h1, k, b) EXCEPT !.index[k] = Initial]
      BY <2>1 DEF Materialized, Enters, h1, b
    <3> DEFINE h2 == Costs(h1, k, b)
    <3>6. h2 \in Held /\ h2.index = held.index /\ held' = [h2 EXCEPT !.index[k] = Initial]
      BY <3>2, <3>4, <3>5 DEF Kept
    <3> HIDE DEF h2
    <3>7. held'.index = [held.index EXCEPT ![k] = Initial]
      BY <3>6 DEF Held
    <3> QED  BY <3>1, <3>7
  <2> HIDE DEF x
  <2>9. /\ \A q \in Trigger : record'[q] = IF q = t THEN x ELSE record[q]
        /\ \A q \in Trigger : outcome'[q] = IF q = t THEN "pending" ELSE outcome[q]
        /\ \A j \in Key : held'.resident[j] = IF j = k THEN t ELSE held.resident[j]
        /\ \A j \in Key : held'.index[j] = IF j = k THEN Initial ELSE held.index[j]
    BY <1>0, <2>1, <2>8
  <2>10. Waiting'
    BY <1>0, <2>1, <2>7, SendWaits DEF IndexInv
  <2>11. /\ \A l : RacedIn(l, outcome) => RacedIn(l, outcome')
         /\ \A q \in Trigger : Answerable(record[q], outcome')
    BY <1>0, <1>2, <2>9
  <2>12. Answerable(x, outcome')
    <3>1. Len(x.chain) = 0
      BY <2>6
    <3> QED  BY <3>1 DEF Answerable
  <2>13. Told'
    BY <2>9, <2>11, <2>12 DEF Told
  <2>14. ASSUME NEW j \in Key, held'.resident[j] # None
         PROVE  /\ Grounded(record'[held'.resident[j]], log'[j])
                /\ \/ RacedIn(log'[j], outcome')
                   \/ held'.index[j] = record'[held'.resident[j]].state
    <3>1. CASE j = k
      BY <1>0, <2>5, <2>6, <2>9, <3>1
    <3>2. CASE j # k
      <4>1. /\ held'.resident[j] = Resident(j) /\ Resident(j) \in Trigger
            /\ Resident(j) # None /\ outcome[Resident(j)] # "unsent"
            /\ held'.index[j] = held.index[j] /\ log'[j] = log[j]
        BY <1>0, <2>9, <2>14, <3>2 DEF Resident, Named
      <4>2. record'[Resident(j)] = record[Resident(j)]
        BY <1>0, <2>9, <4>1
      <4>3. /\ Grounded(record[Resident(j)], log[j])
            /\ RacedIn(log[j], outcome) \/ held.index[j] = record[Resident(j)].state
        BY <4>1 DEF IndexInv, Streamed, InStep
      <4> QED  BY <2>11, <4>1, <4>2, <4>3
    <3> QED  BY <3>1, <3>2
  <2>15. Streamed' /\ InStep'
    BY <2>14 DEF Streamed, InStep, Resident
  <2> QED  BY <2>10, <2>13, <2>15 DEF IndexInv
<1>5. CASE SendRefused(t, k)
  <2>1. outcome' = [outcome EXCEPT ![t] = "failed"] /\ UNCHANGED <<record, held, log>>
    BY <1>0, <1>5 DEF SendRefused
  <2>2. \A q \in Trigger : outcome'[q] = IF q = t THEN "failed" ELSE outcome[q]
    BY <1>0, <2>1
  <2>3. /\ \A l : RacedIn(l, outcome) => RacedIn(l, outcome')
        /\ \A q \in Trigger : Answerable(record[q], outcome')
    BY <1>2, <2>2
  <2>4. Told'
    BY <2>1, <2>3 DEF Told
  <2>5. \A q \in Trigger : \A i \in 1 .. Len(record[q].queue) :
          outcome'[record[q].queue[i]] = "pending"
    <3>1. ASSUME NEW q \in Trigger, NEW i \in 1 .. Len(record[q].queue)
          PROVE  record[q].queue[i] \in Trigger /\ outcome[record[q].queue[i]] = "pending"
      <4>1. record[q].queue \in Seq(Trigger)
        BY <1>0 DEF Records
      <4> QED  BY <4>1 DEF IndexInv, Waiting
    <3> QED  BY <1>0, <2>2, <3>1
  <2>6. Waiting'
    BY <2>1, <2>5 DEF IndexInv, Waiting
  <2>7. Streamed' /\ InStep'
    BY <2>1, <2>3 DEF IndexInv, Streamed, InStep, Resident
  <2> QED  BY <2>4, <2>6, <2>7 DEF IndexInv
<1> QED  BY <1>3, <1>4, <1>5 DEF Send

LEMMA ForgetInStep ==
  ASSUME IInv, IndexInv, NEW k \in Key,
         ForgetFlushes(k) \/ ForgetDeletes(k) \/ ForgetAbsent(k)
  PROVE  IndexInv'
<1>0. /\ Kept(held) /\ UNCHANGED <<record, outcome>>
      /\ held.resident \in [Key -> Trigger \cup {None}]
      /\ held.index \in [Key -> State \cup {None}]
  BY DEF ForgetFlushes, ForgetDeletes, ForgetAbsent, IInv, TypeOK, Kept, Held
<1>1. \A j \in Key : held'.resident[j] # None =>
        /\ held'.resident[j] = held.resident[j] /\ held'.index[j] = held.index[j]
        /\ log'[j] = log[j]
  <2>1. CASE ForgetFlushes(k)
    BY <2>1 DEF ForgetFlushes, store
  <2>2. CASE ForgetDeletes(k)
    <3>1. held' = Released(held, k) /\ log' = [log EXCEPT ![k] = <<>>]
      BY <2>2 DEF ForgetDeletes, Deleted
    <3>2. /\ held'.resident = [held.resident EXCEPT ![k] = None]
          /\ held'.index = [held.index EXCEPT ![k] = None]
      BY <1>0, <3>1, ReleasedFits
    <3> QED  BY <1>0, <3>1, <3>2 DEF IInv, TypeOK
  <2>3. CASE ForgetAbsent(k)
    BY <2>3 DEF ForgetAbsent, Deleted, Resident, IInv, TypeOK
  <2> QED  BY <2>1, <2>2, <2>3
<1>2. Waiting' /\ Told'
  BY <1>0 DEF IndexInv, Waiting, Told
<1>3. Streamed' /\ InStep'
  BY <1>0, <1>1 DEF IndexInv, Streamed, InStep, Resident
<1> QED  BY <1>2, <1>3 DEF IndexInv

LEMMA IndexInvStep == IInv /\ IndexInv /\ [Next]_vars => IndexInv'
<1> SUFFICES ASSUME IInv, IndexInv, [Next]_vars PROVE IndexInv'
  OBVIOUS
<1>1. CASE UNCHANGED vars
  BY <1>1 DEF vars, store, IndexInv, Waiting, Told, Streamed, InStep, Resident
<1> QED  BY <1>1, SendInStep, LoadsInStep, AttemptInStep, SettlesInStep, ForgetInStep,
            Steps

(***************************************************************************)
(* The index that sweeps and queries walk (TemporalIndex in                *)
(* src/temporal.ts) has every idle instance under the state it is in,      *)
(* unless one of its commits landed after its sender was told of a         *)
(* failure: no load, eviction, refusal or deletion lets the two drift.     *)
(***************************************************************************)
THEOREM IndexIsRight ==
  ASSUME Waits
  PROVE  Spec => []IndexNamesTheState
<1>1. Init => IndexInv
  <2> SUFFICES ASSUME Init PROVE IndexInv
    OBVIOUS
  <2>1. \A r \in Trigger : /\ Len(record[r].queue) = 0 /\ Len(record[r].chain) = 0
    BY DEF Init, Fresh
  <2>2. \A k \in Key : Resident(k) = None
    BY DEF Init, Nothing, Resident
  <2> QED  BY <2>1, <2>2 DEF IndexInv, Waiting, Told, Answerable, Streamed, InStep
<1>2. IndexInv => IndexNamesTheState
  BY DEF IndexInv, InStep, IndexNamesTheState, RacedIn, Raced
<1> QED  BY <1>1, <1>2, IndexInvStep, IInvHolds, PTL DEF Spec

=============================================================================
