---------------------------- MODULE SweepProofs ----------------------------
(***************************************************************************)
(* Proofs about Sweep, for any keys, states and temporal constraints.      *)
(***************************************************************************)
EXTENDS Sweep, DataProofs

-----------------------------------------------------------------------------
(* What a pass, a record and the stream can be.                            *)

Entries == [state : State, since : Nat, seen : Nat]

Passes ==
  [pc : {"off", "walking", "waiting", "between"}, at : Nat,
   ahead : SUBSET Index, state : State \cup {None}, keys : SUBSET Key,
   key : Key \cup {None}, loaded : BOOLEAN, elapsed : Int,
   rest : SUBSET Index, gone : BOOLEAN, fired : SUBSET STRING]

\* A record in a turn has its trigger in hand, and a turn gets as far as the
\* load of the record allows.
Turning ==
  {r \in Records : /\ r.pc # "idle" => r.queue # <<>>
                   /\ r.pc = "loading" => r.hydration = "none"
                   /\ r.pc \in {"handling", "writing"} => r.hydration = "done"
                   /\ r.hydration = "none" => r.state = Initial}

TypeOK ==
  /\ now \in Nat
  /\ entries \in [Key -> Seq(Entries)]
  /\ record \in [Key -> Turning \cup {None}]
  /\ sweep \in Passes
  /\ fires \in [Key -> [Index -> Nat]]

\* The list ends with the entry the record says it made.
EndsWith(list, r) ==
  /\ list # <<>>
  /\ list[Len(list)].state = r.state
  /\ list[Len(list)].since = r.since

\* A record that was loaded says what the stream says.
Mirrors ==
  \A k \in Key :
    Resident(k) /\ record[k].hydration = "done" => EndsWith(entries[k], record[k])

\* The list has an entry into s at `since` that nothing seen before `at` ended.
HasStay(list, s, since, at) ==
  \E n \in 1 .. Len(list) :
    /\ list[n].state = s
    /\ list[n].since = since
    /\ n < Len(list) => list[n + 1].seen >= at

\* The pass holds an instance: it has escalated one, and will go on with it.
Holds == sweep.pc \in {"waiting", "between"}

\* What the pass holds between two escalations is still worth what it was:
\* the constraints left are on the state of the bucket, and the age that was
\* read is that of a stay which lasted till the instant of the pass.
Held ==
  /\ ~Holds => sweep.key = None /\ ~sweep.gone
  /\ Holds =>
       /\ sweep.key \in Key
       /\ ~sweep.gone => Resident(sweep.key)
       /\ \A i \in sweep.rest : Constraints[i].in = sweep.state
       /\ sweep.loaded => HasStay(entries[sweep.key], sweep.state,
                                  sweep.at - sweep.elapsed, sweep.at)

SweepInv ==
  /\ TypeOK
  /\ Mirrors
  /\ sweep.at <= now
  /\ Held

-----------------------------------------------------------------------------
(* Records and passes under the operators of Sweep.                        *)

\* What a temporal constraint asks of a record.
SameEntry(r, s) ==
  /\ r.state = s.state
  /\ r.since = s.since
  /\ r.hydration = s.hydration
  /\ r.fired = s.fired

LEMMA BegunTurns ==
  ASSUME NEW r \in Records, r.queue # <<>>, r.hydration = "none" => r.state = Initial
  PROVE  Begun(r) \in Turning /\ SameEntry(Begun(r), r)
<1>1. PICK pc \in {"loading", "failing", "handling"} :
        /\ Begun(r) = [r EXCEPT !.pc = pc]
        /\ pc = "loading" => r.hydration = "none"
        /\ pc = "handling" => r.hydration = "done"
  BY DEF Begun, Records
<1> DEFINE b == [r EXCEPT !.pc = pc]
<1>2. /\ b \in Records /\ b.queue = r.queue /\ b.pc = pc /\ b.state = r.state
      /\ b.since = r.since /\ b.hydration = r.hydration /\ b.fired = r.fired
  BY DEF Records
<1> HIDE DEF b
<1>3. b \in Turning /\ SameEntry(b, r)
  BY <1>1, <1>2 DEF Turning, SameEntry
<1> QED  BY <1>1, <1>3 DEF b

LEMMA QueuedTurns ==
  ASSUME NEW r \in Turning, NEW t \in {"app", "temporal"}
  PROVE  Queued(r, t) \in Turning /\ SameEntry(Queued(r, t), r)
<1> DEFINE q == [r EXCEPT !.queue = Append(@, t)]
<1>1. r \in Records
  BY DEF Turning
<1>2. r.queue \in Seq({"app", "temporal"})
  BY <1>1 DEF Records
<1>3. Append(r.queue, t) \in Seq({"app", "temporal"}) /\ Append(r.queue, t) # <<>>
  BY <1>2
<1>4. /\ q \in Records /\ q.queue = Append(r.queue, t) /\ q.pc = r.pc
      /\ q.state = r.state /\ q.since = r.since /\ q.hydration = r.hydration
      /\ q.fired = r.fired
  BY <1>1, <1>3 DEF Records
<1>5. Queued(r, t) = IF r.pc = "idle" THEN Begun(q) ELSE q
  BY DEF Queued
<1> HIDE DEF q
<1>6. q.hydration = "none" => q.state = Initial
  BY <1>4 DEF Turning
<1>7. Begun(q) \in Turning /\ SameEntry(Begun(q), q)
  BY <1>3, <1>4, <1>6, BegunTurns
<1>8. q \in Turning
  BY <1>3, <1>4 DEF Turning
<1> QED  BY <1>4, <1>5, <1>7, <1>8 DEF SameEntry

LEMMA AdvancedTurns ==
  ASSUME NEW r \in Records, r.queue # <<>>, r.hydration = "none" => r.state = Initial
  PROVE  Advanced(r) \in Turning /\ SameEntry(Advanced(r), r)
<1> DEFINE q == [r EXCEPT !.queue = Tail(@)]
           rests == [q EXCEPT !.pc = "idle"]
<1>1. r.queue \in Seq({"app", "temporal"})
  BY DEF Records
<1>2. Tail(r.queue) \in Seq({"app", "temporal"})
  BY <1>1, HeadTailProperties
<1>3. /\ q \in Records /\ q.state = r.state /\ q.since = r.since
      /\ q.hydration = r.hydration /\ q.fired = r.fired
  BY <1>2 DEF Records
<1>4. Advanced(r) = IF q.queue = <<>> THEN rests ELSE Begun(q)
  BY DEF Advanced
<1> HIDE DEF q
<1>5. /\ rests \in Records /\ rests.state = q.state /\ rests.since = q.since
      /\ rests.hydration = q.hydration /\ rests.fired = q.fired /\ rests.pc = "idle"
  BY <1>3 DEF Records
<1> HIDE DEF rests
<1>6. rests \in Turning
  BY <1>3, <1>5 DEF Turning
<1>7. q.queue # <<>> => Begun(q) \in Turning /\ SameEntry(Begun(q), q)
  BY <1>3, BegunTurns
<1> QED  BY <1>3, <1>4, <1>5, <1>6, <1>7 DEF SameEntry

LEMMA FreshTurns ==
  ASSUME now \in Nat
  PROVE  Fresh \in Turning /\ Fresh.fired = {} /\ Fresh.hydration = "none"
<1>1. <<>> \in Seq({"app", "temporal"})
  OBVIOUS
<1>2. /\ Fresh \in Records /\ Fresh.fired = {} /\ Fresh.hydration = "none"
      /\ Fresh.pc = "idle" /\ Fresh.state = Initial
  BY <1>1, StateAssumption DEF Fresh, Records
<1> QED  BY <1>2 DEF Turning

LEMMA ConstraintTypes ==
  ASSUME NEW i \in Index
  PROVE  /\ i \in Nat /\ Constraints[i].name \in STRING
         /\ Constraints[i].in \in State /\ Constraints[i].within \in Nat
<1> DEFINE C == [name : STRING, in : State, within : Nat \ {0}, policy : Policies]
<1>1. Constraints \in Seq(C)
  BY ConstraintsAssumption
<1> HIDE DEF C
<1>2. i \in Nat /\ Constraints[i] \in C
  BY <1>1 DEF Index
<1> QED  BY <1>2 DEF C

LEMMA MarkedTurns ==
  ASSUME NEW r \in Turning, NEW i \in Index
  PROVE  /\ Marked(r, i) \in Turning /\ Marked(r, i).state = r.state
         /\ Marked(r, i).since = r.since /\ Marked(r, i).hydration = r.hydration
         /\ Marked(r, i).fired = r.fired \cup {Constraints[i].name}
<1> DEFINE m == Marked(r, i)
<1>1. r \in Records /\ Constraints[i].name \in STRING
  BY ConstraintTypes DEF Turning
<1>2. /\ m \in Records /\ m.state = r.state /\ m.since = r.since
      /\ m.hydration = r.hydration /\ m.pc = r.pc /\ m.queue = r.queue
      /\ m.fired = r.fired \cup {Constraints[i].name}
  BY <1>1 DEF Marked, Records
<1> HIDE DEF m
<1>3. m \in Turning
  BY <1>2 DEF Turning
<1> QED  BY <1>2, <1>3 DEF m

LEMMA LeastIsIn ==
  ASSUME NEW S, S \subseteq Nat, S # {}
  PROVE  Min(S) \in S
BY LeastOfNaturals DEF Min

LEMMA WalkTypes ==
  ASSUME NEW p \in Passes
  PROVE  /\ Walk(p) \in Passes /\ Walk(p).pc \in {"off", "walking"}
         /\ Walk(p).key = None /\ Walk(p).gone = FALSE /\ Walk(p).at \in {p.at, 0}
<1> DEFINE some == {i \in p.ahead : Bucket(Constraints[i].in) # {}}
           from == [p EXCEPT !.pc = "walking", !.key = None, !.loaded = TRUE,
                             !.elapsed = 0, !.rest = {}, !.gone = FALSE,
                             !.fired = {}]
           s    == Constraints[Min(some)].in
           on   == [from EXCEPT !.state = s, !.keys = Bucket(s),
                                !.ahead = {i \in @ : i > Min(some)}]
<1>1. p.ahead \subseteq Index
  BY DEF Passes
<1>2. some # {} => Min(some) \in Index /\ s \in State
  <2>1. some \subseteq Nat
    BY <1>1, ConstraintTypes
  <2> HIDE DEF some
  <2>2. some # {} => Min(some) \in some
    BY <2>1, LeastIsIn
  <2>3. some \subseteq Index
    BY <1>1 DEF some
  <2> QED  BY <2>2, <2>3, ConstraintTypes
<1>3. Bucket(s) \in SUBSET Key
  BY DEF Bucket
<1>4. /\ from \in Passes /\ from.pc = "walking" /\ from.key = None
      /\ from.gone = FALSE /\ from.at = p.at
  <2> DEFINE low == [p EXCEPT !.pc = "walking", !.key = None, !.gone = FALSE]
  <2>1. /\ low \in Passes /\ low.pc = "walking" /\ low.key = None
        /\ low.gone = FALSE /\ low.at = p.at
    BY DEF Passes
  <2>2. from = [low EXCEPT !.loaded = TRUE, !.elapsed = 0, !.rest = {}, !.fired = {}]
    BY DEF Passes
  <2> HIDE DEF low, from
  <2>3. /\ from.pc = low.pc /\ from.key = low.key
        /\ from.gone = low.gone /\ from.at = low.at
    BY <2>1, <2>2 DEF Passes
  <2>4. [low EXCEPT !.loaded = TRUE] \in Passes
    BY <2>1 DEF Passes
  <2>5. \A q \in Passes : [q EXCEPT !.elapsed = 0] \in Passes
    BY DEF Passes
  <2>6. \A q \in Passes : [q EXCEPT !.rest = {}] \in Passes
    BY DEF Passes
  <2>7. \A q \in Passes : [q EXCEPT !.fired = {}] \in Passes
    BY DEF Passes
  <2> QED  BY <2>1, <2>2, <2>3, <2>4, <2>5, <2>6, <2>7
<1>5. Walk(p) = IF p.keys # {} THEN from ELSE IF some = {} THEN NoPass ELSE on
  BY DEF Walk
<1>6. /\ NoPass \in Passes /\ NoPass.pc = "off" /\ NoPass.key = None
      /\ NoPass.gone = FALSE /\ NoPass.at = 0
  BY DEF NoPass, Passes
<1> HIDE DEF some, from
<1>7. some # {} => /\ on \in Passes /\ on.pc = "walking" /\ on.key = None
                   /\ on.gone = FALSE /\ on.at = p.at
  <2> HIDE DEF s
  <2>1. {i \in from.ahead : i > Min(some)} \subseteq Index
    BY <1>4 DEF Passes
  <2> QED  BY <1>2, <1>3, <1>4, <2>1 DEF Passes
<1> QED  BY <1>4, <1>5, <1>6, <1>7

-----------------------------------------------------------------------------
(* What a step of a turn makes of the records and of the pass.             *)

\* The records after a step that makes r of the record of k, and may evict
\* some: what a temporal constraint asks of the others is unchanged.
Becomes(k, r) ==
  /\ record' \in [Key -> Turning \cup {None}]
  /\ \A j \in Key : record'[j] # None =>
       /\ j # k => record[j] # None
       /\ SameEntry(record'[j], IF j = k THEN r ELSE record[j])
  /\ ~Evicts => \A j \in Key : record[j] # None => record'[j] # None

\* The step leaves what was marked on the record of k.
Carries(k) ==
  \E r \in Records : Becomes(k, r) /\ (Resident(k) => r.fired = record[k].fired)

\* The pass after such a step: it may have been answered, and the record it
\* holds may have gone.
PassStays ==
  /\ sweep' \in Passes
  /\ sweep'.at = sweep.at /\ sweep'.state = sweep.state /\ sweep'.key = sweep.key
  /\ sweep'.loaded = sweep.loaded /\ sweep'.elapsed = sweep.elapsed
  /\ sweep'.rest = sweep.rest
  /\ Holds' <=> Holds
  /\ sweep.gone => sweep'.gone
  /\ sweep'.gone => sweep.gone \/ (Evicts /\ sweep.key \in Key)
  /\ Resident(sweep.key) /\ sweep.key \in Key /\ ~sweep'.gone =>
       record'[sweep.key] # None

LEMMA PassUnchanged ==
  ASSUME TypeOK, UNCHANGED sweep,
         \A j \in Key : record[j] # None => record'[j] # None
  PROVE  PassStays
<1>1. sweep \in Passes
  BY DEF TypeOK
<1> QED  BY <1>1 DEF PassStays, Resident, Holds

\* The records after a step that replaces that of k.
LEMMA Replaced ==
  ASSUME TypeOK, NEW k \in Key
  PROVE  \A r \in Turning, s \in Records :
           record' = [record EXCEPT ![k] = r] /\ SameEntry(r, s)
           => /\ Becomes(k, s) /\ record'[k] = r /\ record'[k] # None
              /\ \A j \in Key : record[j] # None => record'[j] # None
<1> SUFFICES ASSUME NEW r \in Turning, NEW s \in Records,
                    record' = [record EXCEPT ![k] = r], SameEntry(r, s)
             PROVE  /\ Becomes(k, s) /\ record'[k] = r /\ record'[k] # None
                    /\ \A j \in Key : record[j] # None => record'[j] # None
  OBVIOUS
<1>1. record \in [Key -> Turning \cup {None}]
  BY DEF TypeOK
<1>2. r # None
  BY NoneAssumption DEF Turning
<1>3. record' \in [Key -> Turning \cup {None}]
  BY <1>1
<1>4. \A j \in Key : record'[j] = IF j = k THEN r ELSE record[j]
  BY <1>1
<1>5. Becomes(k, s)
  BY <1>2, <1>3, <1>4 DEF Becomes, SameEntry
<1> QED  BY <1>2, <1>4, <1>5

LEMMA Replaces ==
  ASSUME TypeOK, NEW k \in Key, UNCHANGED sweep
  PROVE  \A r \in Turning, s \in Records :
           record' = [record EXCEPT ![k] = r] /\ SameEntry(r, s)
           => Becomes(k, s) /\ PassStays
BY Replaced, PassUnchanged

LEMMA TurnEndsWell ==
  ASSUME TypeOK, Held, NEW k \in Key, Resident(k)
  PROVE  \A r \in Records :
           /\ r.queue # <<>>
           /\ r.hydration = "none" => r.state = Initial
           /\ TurnEnds(k, r)
           => Becomes(k, r) /\ PassStays
<1> SUFFICES ASSUME NEW r \in Records, r.queue # <<>>,
                    r.hydration = "none" => r.state = Initial, TurnEnds(k, r)
             PROVE  Becomes(k, r) /\ PassStays
  OBVIOUS
<1> DEFINE rest == [record EXCEPT ![k] = Advanced(r)]
           idle == {j \in Key : rest[j] # None /\ rest[j].pc = "idle"}
<1>1. PICK gone \in SUBSET idle :
        /\ gone # {} => Evicts
        /\ record' = [j \in Key |-> IF j \in gone THEN None ELSE rest[j]]
        /\ sweep' = Answered(k, gone)
  BY DEF TurnEnds
<1>2. Advanced(r) \in Turning /\ SameEntry(Advanced(r), r) /\ Advanced(r) # None
  BY AdvancedTurns, NoneAssumption DEF Turning
<1>3. /\ record \in [Key -> Turning \cup {None}]
      /\ rest \in [Key -> Turning \cup {None}]
      /\ \A j \in Key : rest[j] = IF j = k THEN Advanced(r) ELSE record[j]
  BY <1>2 DEF TypeOK
<1>4. gone \subseteq Key
  OBVIOUS
<1> HIDE DEF rest, idle
<1>5. \A j \in Key : record'[j] = IF j \in gone THEN None ELSE rest[j]
  BY <1>1
<1>6. record' \in [Key -> Turning \cup {None}]
  BY <1>1, <1>3
<1>7. Becomes(k, r)
  BY <1>1, <1>2, <1>3, <1>5, <1>6 DEF Becomes, SameEntry
<1>8. PassStays
  <2> DEFINE next == IF /\ sweep.key = k /\ sweep.pc = "waiting"
                        /\ Head(record[k].queue) = "temporal"
                       THEN [sweep EXCEPT !.pc = "between"] ELSE sweep
             left == [next EXCEPT !.gone = TRUE, !.fired = record[sweep.key].fired]
  <2>1. sweep \in Passes
    BY DEF TypeOK
  <2>2. /\ next \in Passes /\ next.at = sweep.at /\ next.state = sweep.state
        /\ next.key = sweep.key /\ next.loaded = sweep.loaded
        /\ next.elapsed = sweep.elapsed /\ next.rest = sweep.rest
        /\ next.gone = sweep.gone
        /\ next.pc \in {"waiting", "between"} <=> Holds
    BY <2>1 DEF Passes, Holds
  <2>3. sweep' = IF sweep.key \in gone /\ ~sweep.gone THEN left ELSE next
    BY <1>1 DEF Answered
  <2> HIDE DEF next
  <2>4. ASSUME sweep.key \in gone, ~sweep.gone
        PROVE  /\ left \in Passes /\ left.gone
               /\ left.at = next.at /\ left.state = next.state
               /\ left.key = next.key /\ left.loaded = next.loaded
               /\ left.elapsed = next.elapsed /\ left.rest = next.rest
               /\ left.pc = next.pc /\ sweep.key \in Key /\ Evicts
    <3>1. sweep.key \in Key /\ Evicts
      BY <1>1, <1>4, <2>4
    <3>2. Holds
      BY <3>1, NoneAssumption DEF Held
    <3>3. record[sweep.key] \in Turning
      BY <1>3, <2>4, <3>1, <3>2 DEF Held, Resident
    <3>4. record[sweep.key].fired \in SUBSET STRING
      BY <3>3 DEF Turning, Records
    <3> QED  BY <2>2, <3>1, <3>4 DEF Passes
  <2> HIDE DEF left
  <2>5. ASSUME Resident(sweep.key), sweep.key \in Key, ~sweep'.gone
        PROVE  record'[sweep.key] # None
    <3>1. sweep.key \notin gone
      BY <2>2, <2>3, <2>4, <2>5
    <3> QED  BY <1>2, <1>3, <1>5, <2>5, <3>1 DEF Resident
  <2>6. CASE sweep.key \in gone /\ ~sweep.gone
    BY <2>2, <2>3, <2>4, <2>5, <2>6 DEF PassStays, Holds
  <2>7. CASE ~(sweep.key \in gone /\ ~sweep.gone)
    BY <2>2, <2>3, <2>5, <2>7 DEF PassStays, Holds
  <2> QED  BY <2>6, <2>7
<1> QED  BY <1>7, <1>8

-----------------------------------------------------------------------------
(* Every step keeps the invariant: first those of the instances.           *)

LEMMA StayLasts ==
  ASSUME NEW list \in Seq(Entries), NEW e \in Entries, NEW s, NEW since,
         NEW at \in Nat, HasStay(list, s, since, at), e.seen >= at
  PROVE  HasStay(Append(list, e), s, since, at)
<1>1. PICK n \in 1 .. Len(list) :
        /\ list[n].state = s /\ list[n].since = since
        /\ n < Len(list) => list[n + 1].seen >= at
  BY DEF HasStay
<1> DEFINE grown == Append(list, e)
<1>2. /\ Len(list) \in Nat /\ Len(grown) = Len(list) + 1
      /\ \A i \in 1 .. Len(list) : grown[i] = list[i]
      /\ grown[Len(list) + 1] = e
  BY AppendProperties, LenProperties
<1> HIDE DEF grown
<1>3. n \in 1 .. Len(grown) /\ grown[n] = list[n]
  BY <1>2
<1>4. grown[n + 1].seen >= at
  <2>1. CASE n < Len(list)
    BY <1>1, <1>2, <2>1
  <2>2. CASE n = Len(list)
    BY <1>2, <2>2
  <2> QED  BY <1>2, <2>1, <2>2
<1>5. HasStay(grown, s, since, at)
  BY <1>1, <1>3, <1>4 DEF HasStay
<1> QED  BY <1>5 DEF grown

\* The stream after a step that enters a state in it, for k alone.
LEMMA EntersTypes ==
  ASSUME TypeOK, NEW k \in Key, NEW s \in State, NEW at \in Nat, Enters(k, s, at)
  PROVE  /\ entries' \in [Key -> Seq(Entries)]
         /\ Entry(s, at) \in Entries
         /\ entries'[k] = Append(entries[k], Entry(s, at))
         /\ \A j \in Key : j # k => entries'[j] = entries[j]
<1>1. Entry(s, at) \in Entries
  BY DEF TypeOK, Entry, Entries
<1>2. entries \in [Key -> Seq(Entries)]
  BY DEF TypeOK
<1>3. Append(entries[k], Entry(s, at)) \in Seq(Entries)
  BY <1>1, <1>2, AppendProperties
<1> QED  BY <1>1, <1>2, <1>3 DEF Enters

\* The stream ends with what was entered.
LEMMA EntersLast ==
  ASSUME TypeOK, NEW k \in Key
  PROVE  \A r : r.state \in State /\ r.since \in Nat /\ Enters(k, r.state, r.since)
                => EndsWith(entries'[k], r)
<1> SUFFICES ASSUME NEW r, r.state \in State, r.since \in Nat,
                    Enters(k, r.state, r.since)
             PROVE  EndsWith(entries'[k], r)
  OBVIOUS
<1> DEFINE e == Entry(r.state, r.since)
           list == entries[k]
           grown == Append(list, e)
<1>1. entries'[k] = grown /\ e \in Entries
  BY EntersTypes
<1>2. e.state = r.state /\ e.since = r.since
  BY DEF Entry
<1>3. list \in Seq(Entries)
  BY DEF TypeOK
<1> HIDE DEF e, list
<1>4. grown # <<>> /\ grown[Len(grown)] = e
  BY <1>1, <1>3, AppendProperties
<1> QED  BY <1>1, <1>2, <1>4 DEF EndsWith

\* A record that becomes r, as the stream says, leaves everything as it should.
LEMMA TurnKeeps ==
  ASSUME SweepInv, NEW k \in Key, UNCHANGED now,
         fires' \in [Key -> [Index -> Nat]]
  PROVE  \A r \in Records :
           /\ Becomes(k, r) /\ PassStays
           /\ UNCHANGED entries \/ Enters(k, r.state, r.since)
           /\ r.hydration = "done" => EndsWith(entries'[k], r)
           => SweepInv'
<1> SUFFICES ASSUME NEW r \in Records, Becomes(k, r), PassStays,
                    UNCHANGED entries \/ Enters(k, r.state, r.since),
                    r.hydration = "done" => EndsWith(entries'[k], r)
             PROVE  SweepInv'
  OBVIOUS
<1>1. TypeOK /\ Mirrors /\ sweep.at <= now /\ Held
  BY DEF SweepInv
<1>2. /\ now \in Nat /\ entries \in [Key -> Seq(Entries)] /\ sweep \in Passes
      /\ r.state \in State /\ r.since \in Nat
  BY <1>1 DEF TypeOK, Records
<1>3. sweep.at \in Nat
  BY <1>2 DEF Passes
<1>4. /\ entries' \in [Key -> Seq(Entries)]
      /\ \A j \in Key : j # k => entries'[j] = entries[j]
      /\ \/ entries'[k] = entries[k]
         \/ /\ entries'[k] = Append(entries[k], Entry(r.state, r.since))
            /\ Entry(r.state, r.since) \in Entries
            /\ Entry(r.state, r.since).seen = now
  BY <1>1, <1>2, EntersTypes DEF Entry
<1>5. TypeOK'
  BY <1>2, <1>4 DEF TypeOK, Becomes, PassStays
<1>6. Mirrors'
  <2> SUFFICES ASSUME NEW j \in Key, record'[j] # None,
                      record'[j].hydration = "done"
               PROVE  EndsWith(entries'[j], record'[j])
    BY DEF Mirrors, Resident
  <2>1. CASE j = k
    BY <2>1 DEF Becomes, SameEntry, EndsWith
  <2>2. CASE j # k
    <3>1. EndsWith(entries[j], record[j]) /\ SameEntry(record'[j], record[j])
      BY <1>1, <2>2 DEF Becomes, Mirrors, Resident, SameEntry
    <3> QED  BY <1>4, <2>2, <3>1 DEF EndsWith, SameEntry
  <2> QED  BY <2>1, <2>2
<1>7. Held'
  <2>1. ASSUME ~Holds'
        PROVE  sweep'.key = None /\ ~sweep'.gone
    BY <1>1, <2>1, NoneAssumption DEF PassStays, Held
  <2>2. ASSUME Holds'
        PROVE  /\ sweep'.key \in Key
               /\ ~sweep'.gone => record'[sweep'.key] # None
               /\ \A i \in sweep'.rest : Constraints[i].in = sweep'.state
               /\ sweep'.loaded => HasStay(entries'[sweep'.key], sweep'.state,
                                           sweep'.at - sweep'.elapsed, sweep'.at)
    <3>1. /\ Holds /\ sweep.key \in Key
          /\ ~sweep.gone => Resident(sweep.key)
          /\ \A i \in sweep.rest : Constraints[i].in = sweep.state
      BY <1>1, <2>2 DEF PassStays, Held
    <3>2. ~sweep'.gone => record'[sweep'.key] # None
      BY <3>1 DEF PassStays
    <3>3. ASSUME sweep.loaded
          PROVE  HasStay(entries'[sweep.key], sweep.state, sweep.at - sweep.elapsed,
                         sweep.at)
      <4>1. HasStay(entries[sweep.key], sweep.state, sweep.at - sweep.elapsed, sweep.at)
        BY <1>1, <3>1, <3>3 DEF Held
      <4>2. CASE entries'[sweep.key] = entries[sweep.key]
        BY <4>1, <4>2
      <4>3. CASE entries'[sweep.key] # entries[sweep.key]
        <5>1. sweep.key = k /\ entries[k] \in Seq(Entries)
          BY <1>2, <1>4, <3>1, <4>3
        <5>2. Entry(r.state, r.since).seen >= sweep.at
          BY <1>1, <1>2, <1>3, <1>4, <4>3, <5>1
        <5> QED  BY <1>3, <1>4, <4>1, <4>3, <5>1, <5>2, StayLasts
      <4> QED  BY <4>2, <4>3
    <3> QED  BY <3>1, <3>2, <3>3 DEF PassStays
  <2> QED  BY <2>1, <2>2 DEF Held, Resident
<1>8. sweep'.at <= now'
  BY <1>1 DEF PassStays
<1> QED  BY <1>5, <1>6, <1>7, <1>8 DEF SweepInv

\* What is known of the record of a key whose turn has got to pc.
LEMMA AtPc ==
  ASSUME TypeOK, NEW k \in Key, Resident(k)
  PROVE  /\ record[k] \in Turning /\ record[k] \in Records
         /\ record[k].state \in State /\ record[k].since \in Nat
         /\ record[k].to \in State /\ record[k].at \in Nat
         /\ record[k].pc # "idle" => record[k].queue # <<>>
         /\ record[k].pc = "loading" => record[k].hydration = "none"
         /\ record[k].pc \in {"handling", "writing"} => record[k].hydration = "done"
         /\ record[k].hydration = "none" => record[k].state = Initial
<1>1. record[k] \in Turning
  BY DEF TypeOK, Resident
<1> QED  BY <1>1 DEF Turning, Records

\* A trigger is queued at the record of k, or at a new one.
LEMMA SentWell ==
  ASSUME TypeOK, NEW k \in Key, NEW t \in {"app", "temporal"}
  PROVE  LET r == IF Resident(k) THEN record[k] ELSE Fresh
         IN  /\ Queued(r, t) \in Turning /\ r \in Records
             /\ SameEntry(Queued(r, t), r)
             /\ ~Resident(k) => r.hydration = "none" /\ r.fired = {}
<1> DEFINE r == IF Resident(k) THEN record[k] ELSE Fresh
<1>1. r \in Turning /\ (~Resident(k) => r.hydration = "none" /\ r.fired = {})
  BY AtPc, FreshTurns DEF TypeOK
<1>2. r \in Records
  BY <1>1 DEF Turning
<1> HIDE DEF r
<1>3. Queued(r, t) \in Turning /\ SameEntry(Queued(r, t), r)
  BY <1>1, QueuedTurns
<1> QED  BY <1>1, <1>2, <1>3 DEF r

\* What the stream of k says of the record of k, where it was loaded.
LEMMA MirrorOf ==
  ASSUME Mirrors, NEW k \in Key, Resident(k), record[k].hydration = "done"
  PROVE  EndsWith(entries[k], record[k])
BY DEF Mirrors

LEMMA SendKeeps ==
  ASSUME SweepInv, NEW k \in Key, Send(k)
  PROVE  SweepInv' /\ PassStays /\ Carries(k)
<1> DEFINE r == IF Resident(k) THEN record[k] ELSE Fresh
<1>1. TypeOK /\ Mirrors /\ UNCHANGED <<now, entries, sweep, fires>>
  BY DEF Send, SweepInv
<1>2. /\ r \in Records /\ Queued(r, "app") \in Turning
      /\ SameEntry(Queued(r, "app"), r)
      /\ Resident(k) => r = record[k]
      /\ ~Resident(k) => r.hydration = "none"
  BY <1>1, SentWell
<1>3. record' = [record EXCEPT ![k] = Queued(r, "app")]
      \/ (record' = record /\ Resident(k))
  BY DEF Send, Sent, HasRoom
<1> HIDE DEF r
<1>4. Becomes(k, r) /\ PassStays
  <2>1. CASE record' = [record EXCEPT ![k] = Queued(r, "app")]
    BY <1>1, <1>2, <2>1, Replaces
  <2>2. CASE record' = record /\ Resident(k)
    <3>1. record \in [Key -> Turning \cup {None}]
      BY <1>1 DEF TypeOK
    <3>2. record' = [record EXCEPT ![k] = record[k]] /\ record[k] \in Turning
      BY <1>1, <2>2, <3>1, AtPc
    <3>3. SameEntry(record[k], r)
      BY <1>2, <2>2 DEF SameEntry
    <3> QED  BY <1>1, <1>2, <3>2, <3>3, Replaces
  <2> QED  BY <1>3, <2>1, <2>2
<1>5. r.hydration = "done" => EndsWith(entries'[k], r)
  BY <1>1, <1>2, MirrorOf
<1>6. fires' \in [Key -> [Index -> Nat]]
  BY <1>1 DEF TypeOK
<1> QED  BY <1>1, <1>2, <1>4, <1>5, <1>6, TurnKeeps DEF Carries

LEMMA ReconcileKeeps ==
  ASSUME SweepInv, NEW k \in Key, Reconcile(k)
  PROVE  SweepInv' /\ PassStays /\ Carries(k)
<1> DEFINE new == [record[k] EXCEPT !.hydration = "done", !.pc = "handling"]
           old == [record[k] EXCEPT !.hydration = "done", !.pc = "handling",
                                    !.state = Stored(k).state,
                                    !.since = Stored(k).since]
           r == IF entries[k] = <<>> THEN new ELSE old
<1>1. TypeOK /\ Mirrors /\ UNCHANGED <<now, sweep, fires>>
  BY DEF Reconcile, SweepInv
<1>2. Resident(k) /\ record[k].pc = "loading"
  BY DEF Reconcile, At
<1>3. /\ record[k] \in Records /\ record[k].queue # <<>>
      /\ record[k].state = Initial
  BY <1>1, <1>2, AtPc
<1>4. record \in [Key -> Turning \cup {None}] /\ entries \in [Key -> Seq(Entries)]
  BY <1>1 DEF TypeOK
<1>5. entries[k] # <<>> =>
        /\ Stored(k) = entries[k][Len(entries[k])]
        /\ Stored(k).state \in State /\ Stored(k).since \in Nat
  <2> SUFFICES ASSUME entries[k] # <<>>
               PROVE  /\ Stored(k) = entries[k][Len(entries[k])]
                      /\ Stored(k).state \in State /\ Stored(k).since \in Nat
    OBVIOUS
  <2>1. Stored(k) = entries[k][Len(entries[k])]
    BY DEF Stored, Last
  <2>2. Stored(k) \in Entries
    BY <1>4, <2>1, EmptySeq, ElementOfSeq, LenProperties
  <2> QED  BY <2>1, <2>2 DEF Entries
<1>6. /\ r \in Records /\ r.pc = "handling" /\ r.hydration = "done"
      /\ r.queue = record[k].queue /\ r.fired = record[k].fired
  BY <1>3, <1>5 DEF Records
<1>7. /\ entries[k] = <<>> => r.state = Initial /\ r.since = record[k].since
      /\ entries[k] # <<>> => r.state = Stored(k).state /\ r.since = Stored(k).since
  BY <1>3 DEF Records
<1>8. record' = [record EXCEPT ![k] = r]
  <2>1. CASE entries[k] = <<>>
    BY <1>3, <1>4, <2>1 DEF Reconcile
  <2>2. CASE entries[k] # <<>>
    BY <1>3, <1>4, <2>2 DEF Reconcile
  <2> QED  BY <2>1, <2>2
<1> HIDE DEF r
<1>9. r \in Turning
  BY <1>3, <1>6 DEF Turning
<1>10. Becomes(k, r) /\ PassStays
  BY <1>1, <1>6, <1>8, <1>9, Replaces DEF SameEntry
<1>11. (UNCHANGED entries \/ Enters(k, r.state, r.since)) /\ EndsWith(entries'[k], r)
  <2>1. CASE entries[k] = <<>>
    <3>1. Enters(k, r.state, r.since)
      BY <1>7, <2>1 DEF Reconcile
    <3>2. /\ r.state \in State /\ r.since \in Nat
      BY <1>6 DEF Records
    <3> QED  BY <1>1, <3>1, <3>2, EntersLast
  <2>2. CASE entries[k] # <<>>
    <3>1. UNCHANGED entries
      BY <2>2 DEF Reconcile
    <3> QED  BY <1>5, <1>7, <2>2, <3>1 DEF EndsWith
  <2> QED  BY <2>1, <2>2
<1>12. fires' \in [Key -> [Index -> Nat]]
  BY <1>1 DEF TypeOK
<1> QED  BY <1>1, <1>6, <1>10, <1>11, <1>12, TurnKeeps DEF Carries

\* A turn of k that ends with the record r, when nothing entered the stream.
LEMMA EndKeeps ==
  ASSUME SweepInv, NEW k \in Key, Resident(k), record[k].pc # "idle",
         UNCHANGED <<now, entries, fires>>
  PROVE  \A r \in Records :
           /\ r.queue = record[k].queue /\ r.state = record[k].state
           /\ r.since = record[k].since /\ r.fired = record[k].fired
           /\ r.hydration \in {record[k].hydration, "failed"}
           /\ TurnEnds(k, r)
           => SweepInv' /\ PassStays /\ Carries(k)
<1> SUFFICES ASSUME NEW r \in Records, r.queue = record[k].queue,
                    r.state = record[k].state, r.since = record[k].since,
                    r.fired = record[k].fired,
                    r.hydration \in {record[k].hydration, "failed"},
                    TurnEnds(k, r)
             PROVE  SweepInv' /\ PassStays /\ Carries(k)
  OBVIOUS
<1>1. TypeOK /\ Mirrors /\ Held /\ fires' \in [Key -> [Index -> Nat]]
  BY DEF SweepInv, TypeOK
<1>2. r.queue # <<>> /\ (r.hydration = "none" => r.state = Initial)
  BY <1>1, AtPc
<1>3. Becomes(k, r) /\ PassStays
  BY <1>1, <1>2, TurnEndsWell
<1>4. r.hydration = "done" => EndsWith(entries'[k], r)
  BY <1>1, MirrorOf DEF EndsWith
<1> QED  BY <1>1, <1>3, <1>4, TurnKeeps DEF Carries

LEMMA LoadFailsKeeps ==
  ASSUME SweepInv, NEW k \in Key, LoadFails(k)
  PROVE  SweepInv' /\ PassStays /\ Carries(k)
<1> DEFINE r == [record[k] EXCEPT !.hydration = "failed"]
<1>1. /\ Resident(k) /\ record[k].pc = "loading" /\ TurnEnds(k, r)
      /\ UNCHANGED <<now, entries, fires>>
  BY DEF LoadFails, At
<1>2. record[k] \in Records
  BY <1>1, AtPc DEF SweepInv
<1>3. /\ r \in Records /\ r.queue = record[k].queue /\ r.state = record[k].state
      /\ r.since = record[k].since /\ r.fired = record[k].fired
      /\ r.hydration = "failed"
  BY <1>2 DEF Records
<1> HIDE DEF r
<1> QED  BY <1>1, <1>3, EndKeeps

LEMMA TurnStaysKeeps ==
  ASSUME SweepInv, NEW k \in Key, TurnStays(k) \/ MoveFails(k)
  PROVE  SweepInv' /\ PassStays /\ Carries(k)
<1>1. /\ Resident(k) /\ record[k].pc # "idle" /\ TurnEnds(k, record[k])
      /\ UNCHANGED <<now, entries, fires>>
  BY DEF TurnStays, MoveFails, At
<1>2. record[k] \in Records
  BY <1>1, AtPc DEF SweepInv
<1> QED  BY <1>1, <1>2, EndKeeps

LEMMA HandlerMovesKeeps ==
  ASSUME SweepInv, NEW k \in Key, NEW to \in State, HandlerMoves(k, to)
  PROVE  SweepInv' /\ PassStays /\ Carries(k)
<1> DEFINE r == [record[k] EXCEPT !.pc = "writing", !.to = to, !.at = now]
<1>1. /\ Resident(k) /\ record[k].pc = "handling"
      /\ UNCHANGED <<now, entries, sweep, fires>>
  BY DEF HandlerMoves, At
<1>2. TypeOK /\ Mirrors /\ now \in Nat /\ record \in [Key -> Turning \cup {None}]
      /\ fires' \in [Key -> [Index -> Nat]]
  BY <1>1 DEF SweepInv, TypeOK
<1>3. /\ record[k] \in Records /\ record[k].queue # <<>>
      /\ record[k].hydration = "done"
  BY <1>1, <1>2, AtPc
<1>4. /\ r \in Records /\ r.queue = record[k].queue /\ r.state = record[k].state
      /\ r.since = record[k].since /\ r.fired = record[k].fired
      /\ r.hydration = record[k].hydration /\ r.pc = "writing"
  BY <1>2, <1>3 DEF Records
<1>5. record' = [record EXCEPT ![k] = r]
  BY <1>2, <1>3 DEF HandlerMoves, Records
<1> HIDE DEF r
<1>6. r \in Turning
  BY <1>3, <1>4 DEF Turning
<1>7. Becomes(k, r) /\ PassStays
  BY <1>1, <1>2, <1>4, <1>5, <1>6, Replaces DEF SameEntry
<1>8. EndsWith(entries'[k], r)
  BY <1>1, <1>2, <1>3, <1>4, MirrorOf DEF EndsWith
<1> QED  BY <1>1, <1>2, <1>4, <1>7, <1>8, TurnKeeps DEF Carries

LEMMA MoveLandsKeeps ==
  ASSUME SweepInv, NEW k \in Key, MoveLands(k)
  PROVE  /\ SweepInv' /\ PassStays /\ \E r \in Records : Becomes(k, r)
         /\ fires' = [fires EXCEPT ![k] = [i \in Index |-> 0]]
<1> DEFINE r == [record[k] EXCEPT !.state = record[k].to, !.since = record[k].at,
                                  !.fired = {}]
<1>1. /\ Resident(k) /\ record[k].pc = "writing"
      /\ Enters(k, record[k].to, record[k].at) /\ TurnEnds(k, r)
      /\ fires' = [fires EXCEPT ![k] = [i \in Index |-> 0]]
      /\ UNCHANGED now
  BY DEF MoveLands, At
<1>2. TypeOK /\ Held /\ fires \in [Key -> [Index -> Nat]]
  BY DEF SweepInv, TypeOK
<1>3. /\ record[k] \in Records /\ record[k].queue # <<>>
      /\ record[k].hydration = "done"
      /\ record[k].to \in State /\ record[k].at \in Nat
  BY <1>1, <1>2, AtPc
<1>4. /\ r \in Records /\ r.queue = record[k].queue /\ r.hydration = "done"
      /\ r.state = record[k].to /\ r.since = record[k].at
  BY <1>3 DEF Records
<1> HIDE DEF r
<1>5. Becomes(k, r) /\ PassStays
  BY <1>1, <1>2, <1>3, <1>4, TurnEndsWell
<1>6. Enters(k, r.state, r.since)
  BY <1>1, <1>4
<1>7. EndsWith(entries'[k], r)
  BY <1>2, <1>3, <1>4, <1>6, EntersLast
<1>8. fires' \in [Key -> [Index -> Nat]]
  BY <1>1, <1>2
<1> QED  BY <1>1, <1>4, <1>5, <1>6, <1>7, <1>8, TurnKeeps

-----------------------------------------------------------------------------
(* The steps of a pass.                                                    *)

\* The pass goes on, or ends, without a violation.
GoesBy == UNCHANGED <<record, fires>> /\ ~Holds'

\* The pass records a violation of k by the i-th constraint, and marks it.
Reports(k, i) ==
  /\ Holds' /\ sweep'.key = k /\ sweep'.gone = sweep.gone
  /\ ~sweep.gone => Resident(k)
  /\ Constraints[i].name \notin MarkedOn(k)
  /\ fires' = [fires EXCEPT ![k][i] = @ + 1]
  /\ \E r \in Records :
       /\ Becomes(k, r)
       /\ ~sweep.gone => r.fired = record[k].fired \cup {Constraints[i].name}
  /\ sweep'.loaded => WasIn(k, Constraints[i].in, sweep'.at, Constraints[i].within)
  /\ Constraints[i].in = sweep.state

LEMMA WalkKeeps ==
  ASSUME SweepInv, UNCHANGED <<now, entries, record, fires>>
  PROVE  \A p \in Passes : p.at <= now /\ sweep' = Walk(p) => SweepInv' /\ GoesBy
<1> SUFFICES ASSUME NEW p \in Passes, p.at <= now, sweep' = Walk(p)
             PROVE  SweepInv' /\ GoesBy
  OBVIOUS
<1>1. /\ sweep' \in Passes /\ sweep'.pc \in {"off", "walking"} /\ sweep'.key = None
      /\ sweep'.gone = FALSE /\ sweep'.at \in {p.at, 0}
  BY WalkTypes
<1>2. ~Holds' /\ Held'
  BY <1>1 DEF Held, Holds
<1>3. TypeOK' /\ Mirrors' /\ now \in Nat
  BY <1>1 DEF SweepInv, TypeOK, Mirrors, Resident
<1>4. sweep'.at <= now'
  BY <1>1, <1>3
<1> QED  BY <1>2, <1>3, <1>4 DEF SweepInv, GoesBy

LEMMA SweepStartsKeeps ==
  ASSUME SweepInv, SweepStarts
  PROVE  SweepInv' /\ GoesBy
<1> DEFINE p == [NoPass EXCEPT !.at = now, !.ahead = Watched]
<1>1. NoPass \in Passes
  BY DEF NoPass, Passes
<1>2. now \in Nat /\ Watched \in SUBSET Index
  BY DEF SweepInv, TypeOK, Watched
<1>3. p \in Passes /\ p.at = now
  BY <1>1, <1>2 DEF Passes
<1>4. sweep' = Walk(p) /\ UNCHANGED <<now, entries, record, fires>>
  BY DEF SweepStarts
<1> HIDE DEF p
<1> QED  BY <1>2, <1>3, <1>4, WalkKeeps

\* What an escalation makes of the records.
LEMMA EscalatesRecords ==
  ASSUME TypeOK, NEW k \in Key, NEW i \in Index, ~sweep.gone => Resident(k)
  PROVE  \A next : Escalates(k, i, next) =>
           \E r \in Records :
             /\ Becomes(k, r)
             /\ ~sweep.gone => record'[k] # None
             /\ Resident(k) => r.state = record[k].state /\ r.since = record[k].since
                               /\ r.hydration = record[k].hydration
             /\ ~Resident(k) => r.hydration = "none"
             /\ ~sweep.gone => r.fired = record[k].fired \cup {Constraints[i].name}
<1> DEFINE m == Marked(record[k], i)
           r == IF ~Resident(k) THEN Fresh ELSE IF sweep.gone THEN record[k] ELSE m
           held == IF sweep.gone THEN record
                   ELSE [record EXCEPT ![k] = Marked(@, i)]
           q == Queued(r, "temporal")
<1> SUFFICES ASSUME NEW next, Escalates(k, i, next)
             PROVE  /\ r \in Records /\ Becomes(k, r)
                    /\ ~sweep.gone => record'[k] # None
                    /\ Resident(k) => r.state = record[k].state
                                      /\ r.since = record[k].since
                                      /\ r.hydration = record[k].hydration
                    /\ ~Resident(k) => r.hydration = "none"
                    /\ ~sweep.gone => r.fired = record[k].fired \cup {Constraints[i].name}
  OBVIOUS
<1>1. record \in [Key -> Turning \cup {None}] /\ now \in Nat
  BY DEF TypeOK
<1>2. Resident(k) => /\ record[k] \in Turning /\ m \in Turning
                     /\ m.state = record[k].state /\ m.since = record[k].since
                     /\ m.hydration = record[k].hydration
                     /\ m.fired = record[k].fired \cup {Constraints[i].name}
  BY AtPc, MarkedTurns
<1>3. ~Resident(k) => Fresh \in Turning /\ Fresh.hydration = "none"
  BY <1>1, FreshTurns
<1>4. held \in [Key -> Turning \cup {None}] /\ (Resident(k) => held[k] = r)
      /\ (~sweep.gone => held = [record EXCEPT ![k] = r])
  BY <1>1, <1>2
<1>5. /\ record' = [held EXCEPT ![k] =
                      Queued(IF Resident(k) THEN held[k] ELSE Fresh, "temporal")]
         \/ record' = held
  BY DEF Escalates
<1>6. Resident(k) => /\ r.state = record[k].state /\ r.since = record[k].since
                     /\ r.hydration = record[k].hydration
  BY <1>2
<1>7. /\ r \in Turning /\ (~Resident(k) => r.hydration = "none")
      /\ ~sweep.gone => r.fired = record[k].fired \cup {Constraints[i].name}
  BY <1>2, <1>3
<1>8. (IF Resident(k) THEN held[k] ELSE Fresh) = r
  BY <1>4
<1>9. \/ record' = [record EXCEPT ![k] = q]
      \/ record' = [record EXCEPT ![k] = r] /\ Resident(k)
      \/ record' = record /\ ~Resident(k)
  <2>1. CASE sweep.gone
    <3>1. held = record
      BY <2>1
    <3>2. record' = [record EXCEPT ![k] = q] \/ record' = record
      BY <1>5, <1>8, <3>1
    <3>3. Resident(k) => record = [record EXCEPT ![k] = r]
      BY <1>1, <1>4, <3>1
    <3> QED  BY <3>2, <3>3
  <2>2. CASE ~sweep.gone
    <3>1. held = [record EXCEPT ![k] = r] /\ Resident(k)
      BY <1>4, <2>2
    <3> HIDE DEF r, held, q
    <3>2. [held EXCEPT ![k] = q] = [record EXCEPT ![k] = q]
      BY <1>1, <3>1
    <3>3. record' = [held EXCEPT ![k] = q] \/ record' = held
      BY <1>5, <1>8 DEF q
    <3> QED  BY <3>1, <3>2, <3>3
  <2> QED  BY <2>1, <2>2
<1> HIDE DEF m, r, held
<1>10. q \in Turning /\ SameEntry(q, r) /\ r \in Records /\ SameEntry(r, r)
  BY <1>7, QueuedTurns DEF SameEntry, Turning
<1> HIDE DEF q
<1>11. Becomes(k, r) /\ (~sweep.gone => record'[k] # None)
  <2>1. CASE record' = [record EXCEPT ![k] = q]
    BY <1>10, <2>1, Replaced
  <2>2. CASE record' = [record EXCEPT ![k] = r] /\ Resident(k)
    BY <1>7, <1>10, <2>2, Replaced
  <2>3. CASE record' = record /\ ~Resident(k)
    BY <1>1, <2>3 DEF Becomes, SameEntry, Resident
  <2> QED  BY <1>9, <2>1, <2>2, <2>3
<1> QED  BY <1>6, <1>7, <1>10, <1>11

LEMMA EscalatesKeeps ==
  ASSUME SweepInv, NEW k \in Key, NEW i \in Index, ~sweep.gone => Resident(k),
         UNCHANGED <<now, entries>>
  PROVE  \A next \in Passes :
           /\ next.key = k /\ next.gone = sweep.gone /\ next.at = sweep.at
           /\ \A j \in next.rest : Constraints[j].in = next.state
           /\ next.loaded => HasStay(entries[k], next.state,
                                     next.at - next.elapsed, next.at)
           /\ Escalates(k, i, next)
           => /\ SweepInv' /\ Holds' /\ sweep'.key = k /\ sweep'.gone = sweep.gone
              /\ sweep'.at = sweep.at /\ sweep'.loaded = next.loaded
              /\ fires' = [fires EXCEPT ![k][i] = @ + 1]
<1> SUFFICES ASSUME NEW next \in Passes,
                    next.key = k, next.gone = sweep.gone, next.at = sweep.at,
                    \A j \in next.rest : Constraints[j].in = next.state,
                    next.loaded => HasStay(entries[k], next.state,
                                           next.at - next.elapsed, next.at),
                    Escalates(k, i, next)
             PROVE  /\ SweepInv' /\ Holds' /\ sweep'.key = k
                    /\ sweep'.gone = sweep.gone
                    /\ sweep'.at = sweep.at /\ sweep'.loaded = next.loaded
                    /\ fires' = [fires EXCEPT ![k][i] = @ + 1]
  OBVIOUS
<1>1. TypeOK /\ Mirrors /\ sweep.at <= now
  BY DEF SweepInv
<1>2. PICK r \in Records :
        /\ Becomes(k, r)
        /\ ~sweep.gone => record'[k] # None
        /\ Resident(k) => /\ r.state = record[k].state /\ r.since = record[k].since
                          /\ r.hydration = record[k].hydration
        /\ ~Resident(k) => r.hydration = "none"
  BY <1>1, EscalatesRecords
<1>3. /\ fires \in [Key -> [Index -> Nat]] /\ sweep \in Passes
      /\ fires' = [fires EXCEPT ![k][i] = @ + 1]
  BY <1>1 DEF TypeOK, Escalates
<1>4. fires' \in [Key -> [Index -> Nat]]
  BY <1>3
<1>5. Constraints[i].name \in STRING
  BY ConstraintTypes
<1>6. PICK pc \in {"waiting", "between"}, marked \in SUBSET STRING :
        sweep' = [next EXCEPT !.pc = pc, !.fired = marked]
  <2>1. next.fired \in SUBSET STRING
    BY DEF Passes
  <2>2. sweep' = [next EXCEPT !.pc = IF HasRoom(k) /\ Constraints[i].policy = "reject"
                                       THEN "waiting" ELSE "between",
                              !.fired = IF sweep.gone
                                          THEN @ \cup {Constraints[i].name} ELSE @]
    BY DEF Escalates
  <2> DEFINE pc == IF HasRoom(k) /\ Constraints[i].policy = "reject"
                     THEN "waiting" ELSE "between"
             marked == IF sweep.gone THEN next.fired \cup {Constraints[i].name}
                       ELSE next.fired
  <2>3. pc \in {"waiting", "between"} /\ marked \in SUBSET STRING
    BY <1>5, <2>1
  <2>4. sweep' = [next EXCEPT !.pc = pc, !.fired = marked]
    BY <2>2 DEF Passes
  <2> QED  BY <2>3, <2>4
<1>7. /\ sweep' \in Passes /\ sweep'.pc \in {"waiting", "between"}
      /\ sweep'.key = k /\ sweep'.gone = sweep.gone /\ sweep'.at = sweep.at
      /\ sweep'.loaded = next.loaded /\ sweep'.rest = next.rest
      /\ sweep'.state = next.state /\ sweep'.elapsed = next.elapsed
  BY <1>6 DEF Passes
<1>8. Held' /\ Holds'
  BY <1>2, <1>7 DEF Held, Holds, Resident
<1>9. Mirrors'
  <2> SUFFICES ASSUME NEW j \in Key, record'[j] # None,
                      record'[j].hydration = "done"
               PROVE  EndsWith(entries[j], record'[j])
    BY DEF Mirrors, Resident
  <2>1. CASE j = k
    BY <1>1, <1>2, <2>1, MirrorOf DEF Becomes, SameEntry, EndsWith
  <2>2. CASE j # k
    BY <1>1, <1>2, <2>2, MirrorOf DEF Becomes, SameEntry, EndsWith, Resident
  <2> QED  BY <2>1, <2>2
<1>10. TypeOK'
  BY <1>1, <1>2, <1>4, <1>7 DEF TypeOK, Becomes
<1> QED  BY <1>1, <1>3, <1>7, <1>8, <1>9, <1>10 DEF SweepInv

LEMMA EvaluatesKeeps ==
  ASSUME SweepInv, NEW k \in Key, ~sweep.gone => Resident(k),
         UNCHANGED <<now, entries>>
  PROVE  \A pass \in Passes, constraints \in SUBSET Index, elapsed \in Int :
           /\ pass.gone = sweep.gone /\ pass.at = sweep.at /\ pass.state = sweep.state
           /\ \A i \in constraints : Constraints[i].in = sweep.state
           /\ pass.loaded => HasStay(entries[k], sweep.state,
                                     sweep.at - elapsed, sweep.at)
           /\ Evaluates(pass, k, constraints, elapsed)
           => SweepInv' /\ (GoesBy \/ \E i \in constraints : Reports(k, i))
<1> SUFFICES ASSUME NEW pass \in Passes, NEW constraints \in SUBSET Index,
                    NEW elapsed \in Int,
                    pass.gone = sweep.gone, pass.at = sweep.at,
                    pass.state = sweep.state,
                    \A i \in constraints : Constraints[i].in = sweep.state,
                    pass.loaded => HasStay(entries[k], sweep.state,
                                           sweep.at - elapsed, sweep.at),
                    Evaluates(pass, k, constraints, elapsed)
             PROVE  SweepInv' /\ (GoesBy \/ \E i \in constraints : Reports(k, i))
  OBVIOUS
<1> DEFINE due == {i \in constraints : Due(k, i, elapsed)}
           next == [pass EXCEPT !.key = k, !.elapsed = elapsed,
                                !.rest = {i \in constraints : i > Min(due)}]
<1>1. TypeOK /\ sweep.at <= now /\ sweep.at \in Nat
  BY DEF SweepInv, TypeOK, Passes
<1>2. CASE due = {}
  <2>1. sweep' = Walk(pass) /\ UNCHANGED <<record, fires>>
    BY <1>2 DEF Evaluates
  <2> QED  BY <1>1, <2>1, WalkKeeps
<1>3. CASE due # {}
  <2> DEFINE i == Min(due)
  <2>1. due \subseteq Nat
    BY ConstraintTypes
  <2>2. i \in due
    <3> HIDE DEF due
    <3> QED  BY <1>3, <2>1, LeastIsIn
  <2>3. Escalates(k, i, next)
    BY <1>3 DEF Evaluates
  <2>4. i \in constraints /\ i \in Index /\ Due(k, i, elapsed)
    BY <2>2
  <2> HIDE DEF i
  <2>5. {j \in constraints : j > i} \subseteq Index
    OBVIOUS
  <2>6. /\ next \in Passes /\ next.key = k /\ next.gone = sweep.gone
        /\ next.at = sweep.at /\ next.state = sweep.state /\ next.elapsed = elapsed
        /\ next.loaded = pass.loaded /\ next.rest = {j \in constraints : j > i}
    <3>1. next = [pass EXCEPT !.key = k, !.elapsed = elapsed,
                              !.rest = {j \in constraints : j > i}]
      BY DEF i
    <3> HIDE DEF next
    <3>2. [pass EXCEPT !.key = k, !.elapsed = elapsed] \in Passes
      BY DEF Passes
    <3>3. \A p \in Passes, s \in SUBSET Index : [p EXCEPT !.rest = s] \in Passes
      BY DEF Passes
    <3>4. next = [[pass EXCEPT !.key = k, !.elapsed = elapsed]
                    EXCEPT !.rest = {j \in constraints : j > i}]
      BY <3>1 DEF Passes
    <3>5. next \in Passes
      BY <2>5, <3>2, <3>3, <3>4
    <3> QED  BY <3>1, <3>5 DEF Passes
  <2> HIDE DEF next, due
  <2>7. /\ SweepInv' /\ Holds' /\ sweep'.key = k /\ sweep'.gone = sweep.gone
        /\ sweep'.at = sweep.at /\ sweep'.loaded = pass.loaded
        /\ fires' = [fires EXCEPT ![k][i] = @ + 1]
    BY <2>3, <2>4, <2>6, EscalatesKeeps
  <2>8. PICK r \in Records :
          /\ Becomes(k, r)
          /\ ~sweep.gone => r.fired = record[k].fired \cup {Constraints[i].name}
    BY <1>1, <2>3, <2>4, EscalatesRecords
  <2>9. Constraints[i].name \notin MarkedOn(k) /\ elapsed >= Constraints[i].within
    BY <2>4 DEF Due
  <2>10. ASSUME pass.loaded
         PROVE  WasIn(k, Constraints[i].in, sweep'.at, Constraints[i].within)
    <3>1. PICK n \in 1 .. Len(entries[k]) :
            /\ entries[k][n].state = sweep.state
            /\ entries[k][n].since = sweep.at - elapsed
            /\ n < Len(entries[k]) => entries[k][n + 1].seen >= sweep.at
      BY <2>10 DEF HasStay
    <3>2. entries[k][n].since + Constraints[i].within <= sweep.at
      BY <1>1, <2>4, <2>9, <3>1, ConstraintTypes
    <3>3. Constraints[i].in = sweep.state /\ sweep'.at = sweep.at
      BY <2>4, <2>7
    <3> QED  BY <3>1, <3>2, <3>3 DEF WasIn
  <2>11. Reports(k, i)
    BY <2>4, <2>7, <2>8, <2>9, <2>10 DEF Reports
  <2> QED  BY <2>4, <2>7, <2>11
<1> QED  BY <1>2, <1>3

LEMMA VisitKeeps ==
  ASSUME SweepInv, NEW k \in Key, Visit(k)
  PROVE  /\ SweepInv'
         /\ GoesBy \/ \E i \in Index : Reports(k, i) /\ record[k].state = sweep.state
<1> DEFINE pass == [sweep EXCEPT !.keys = @ \ {k}]
           looked == [pass EXCEPT !.loaded = record[k].hydration = "done"]
           elapsed == sweep.at - record[k].since
<1>1. /\ TypeOK /\ Mirrors /\ Held /\ sweep \in Passes /\ sweep.at <= now
      /\ sweep.at \in Nat /\ UNCHANGED <<now, entries>>
      /\ entries \in [Key -> Seq(Entries)]
  BY DEF SweepInv, TypeOK, Visit, Passes
<1>2. ~sweep.gone
  BY <1>1 DEF Visit, Walking, Held, Holds
<1>3. /\ pass \in Passes /\ pass.at = sweep.at /\ pass.state = sweep.state
      /\ pass.gone = sweep.gone
  BY <1>1 DEF Passes
<1>4. CASE ~IsThere(k)
  <2>1. sweep' = Walk(pass) /\ UNCHANGED <<record, fires>>
    BY <1>4 DEF Visit
  <2> HIDE DEF pass
  <2> QED  BY <1>1, <1>3, <2>1, WalkKeeps
<1>5. CASE IsThere(k)
  <2>1. Resident(k) /\ record[k].state = sweep.state
    BY <1>5 DEF IsThere
  <2>2. record[k].since \in Nat
    BY <1>1, <2>1, AtPc
  <2>3. Evaluates(looked, k, Watching(sweep.state), elapsed)
    BY <1>5 DEF Visit
  <2> HIDE DEF pass
  <2>4. /\ looked \in Passes /\ looked.at = sweep.at /\ looked.state = sweep.state
        /\ looked.gone = sweep.gone
        /\ looked.loaded <=> record[k].hydration = "done"
    <3> DEFINE b == record[k].hydration = "done"
    <3>1. b \in BOOLEAN
      OBVIOUS
    <3> HIDE DEF b
    <3>2. LET l == [pass EXCEPT !.loaded = b]
          IN  /\ l \in Passes /\ l.at = pass.at /\ l.state = pass.state
              /\ l.gone = pass.gone /\ l.loaded = b
      BY <1>3, <3>1 DEF Passes
    <3> QED  BY <1>3, <3>2 DEF b
  <2>5. ASSUME record[k].hydration = "done"
        PROVE  HasStay(entries[k], sweep.state, sweep.at - elapsed, sweep.at)
    <3>1. EndsWith(entries[k], record[k])
      BY <1>1, <2>1, <2>5, MirrorOf
    <3>2. sweep.at - elapsed = record[k].since
      BY <1>1, <2>2
    <3>3. entries[k] \in Seq(Entries)
      BY <1>1
    <3>4. Len(entries[k]) \in 1 .. Len(entries[k])
      BY <3>1, <3>3, EmptySeq, LenProperties DEF EndsWith
    <3>5. ~(Len(entries[k]) < Len(entries[k]))
      BY <3>4
    <3> QED  BY <2>1, <3>1, <3>2, <3>4, <3>5 DEF EndsWith, HasStay
  <2>6. elapsed \in Int
    BY <1>1, <2>2
  <2>7. /\ Watching(sweep.state) \in SUBSET Index
        /\ \A i \in Watching(sweep.state) : Constraints[i].in = sweep.state
    BY DEF Watching
  <2> HIDE DEF looked, elapsed
  <2> QED  BY <1>1, <2>1, <2>3, <2>4, <2>5, <2>6, <2>7, EvaluatesKeeps
<1> QED  BY <1>4, <1>5

LEMMA ContinueKeeps ==
  ASSUME SweepInv, Continue
  PROVE  SweepInv' /\ (GoesBy \/ \E k \in Key, i \in Index : Reports(k, i))
<1>1. /\ Held /\ sweep \in Passes /\ UNCHANGED <<now, entries>>
      /\ sweep.rest \in SUBSET Index /\ sweep.elapsed \in Int
  BY DEF SweepInv, TypeOK, Continue, Passes
<1>2. /\ sweep.key \in Key /\ (~sweep.gone => Resident(sweep.key))
      /\ \A i \in sweep.rest : Constraints[i].in = sweep.state
      /\ sweep.loaded => HasStay(entries[sweep.key], sweep.state,
                                 sweep.at - sweep.elapsed, sweep.at)
  BY <1>1 DEF Continue, Held, Holds
<1>3. Evaluates(sweep, sweep.key, sweep.rest, sweep.elapsed)
  BY DEF Continue
<1> QED  BY <1>1, <1>2, <1>3, EvaluatesKeeps

-----------------------------------------------------------------------------
(* The theorems.                                                           *)

LEMMA InitKeeps ==
  ASSUME Init
  PROVE  SweepInv /\ \A k \in Key : \A i \in Index : fires[k][i] = 0
<1>1. now = 0 /\ sweep.at = 0 /\ sweep.key = None /\ ~sweep.gone /\ sweep.pc = "off"
  BY DEF Init, NoPass
<1>2. sweep \in Passes
  BY DEF Init, NoPass, Passes
<1>3. entries \in [Key -> Seq(Entries)]
  <2>1. \A s \in State : <<[state |-> s, since |-> 0, seen |-> 0]>> \in Seq(Entries)
    BY DEF Entries
  <2>2. <<>> \in Seq(Entries)
    OBVIOUS
  <2> QED  BY <2>1, <2>2 DEF Init
<1>4. record \in [Key -> Turning \cup {None}] /\ \A k \in Key : record[k] = None
  BY DEF Init
<1>5. fires \in [Key -> [Index -> Nat]] /\ \A k \in Key : \A i \in Index : fires[k][i] = 0
  BY DEF Init
<1>6. Mirrors /\ Held
  BY <1>1, <1>4 DEF Mirrors, Resident, Held, Holds
<1> QED  BY <1>1, <1>2, <1>3, <1>4, <1>5, <1>6 DEF SweepInv, TypeOK

\* A step of the application or of a turn leaves what has fired as it is, or
\* is the entry of k into a state.
LEMMA InstanceStep ==
  ASSUME SweepInv, NEW k \in Key, Send(k) \/ Turn(k)
  PROVE  /\ SweepInv' /\ PassStays
         /\ \/ Carries(k) /\ UNCHANGED fires
            \/ /\ \E r \in Records : Becomes(k, r)
               /\ fires' = [fires EXCEPT ![k] = [i \in Index |-> 0]]
<1>1. CASE Send(k)
  BY <1>1, SendKeeps DEF Send
<1>2. CASE Reconcile(k)
  BY <1>2, ReconcileKeeps DEF Reconcile
<1>3. CASE LoadFails(k)
  BY <1>3, LoadFailsKeeps DEF LoadFails
<1>4. ASSUME NEW to \in State, HandlerMoves(k, to)
      PROVE  SweepInv' /\ PassStays /\ Carries(k) /\ UNCHANGED fires
  BY <1>4, HandlerMovesKeeps DEF HandlerMoves
<1>5. CASE TurnStays(k) \/ MoveFails(k)
  BY <1>5, TurnStaysKeeps DEF TurnStays, MoveFails
<1>6. CASE MoveLands(k)
  BY <1>6, MoveLandsKeeps
<1> QED  BY <1>1, <1>2, <1>3, <1>4, <1>5, <1>6 DEF Turn

\* A step of a pass goes by, or reports a violation.
LEMMA PassStep ==
  ASSUME SweepInv, Pass
  PROVE  /\ SweepInv'
         /\ GoesBy \/ \E k \in Key, i \in Index :
                        Reports(k, i) /\ (Walking => record[k].state = sweep.state)
<1>1. CASE SweepStarts
  BY <1>1, SweepStartsKeeps
<1>2. ASSUME NEW k \in Key, Visit(k)
      PROVE  /\ SweepInv'
             /\ GoesBy \/ \E i \in Index : Reports(k, i) /\ record[k].state = sweep.state
  BY <1>2, VisitKeeps
<1>3. CASE Continue
  <2>1. ~Walking
    BY <1>3 DEF Continue, Walking
  <2> QED  BY <1>3, <2>1, ContinueKeeps
<1> QED  BY <1>1, <1>2, <1>3 DEF Pass

LEMMA OtherStep ==
  ASSUME SweepInv, Tick \/ UNCHANGED vars
  PROVE  SweepInv' /\ UNCHANGED <<record, sweep, fires>>
<1>1. /\ UNCHANGED <<entries, record, sweep, fires>> /\ now' \in Nat /\ now' >= now
  BY DEF Tick, vars, SweepInv, TypeOK
<1>2. sweep.at \in Nat /\ now \in Nat
  BY DEF SweepInv, TypeOK, Passes
<1>3. TypeOK' /\ Mirrors' /\ Held'
  BY <1>1 DEF SweepInv, TypeOK, Mirrors, EndsWith, Resident, Held, Holds, HasStay
<1> QED  BY <1>1, <1>2, <1>3 DEF SweepInv

LEMMA StepKeeps ==
  ASSUME SweepInv, [Next]_vars
  PROVE  SweepInv'
BY InstanceStep, PassStep, OtherStep DEF Next

\* A violation is recorded only by a pass that reports it.
LEMMA OnlyReports ==
  ASSUME SweepInv, [Next]_vars, NEW k \in Key, NEW i \in Index, Fires(k, i)
  PROVE  Reports(k, i) /\ (Walking => record[k].state = sweep.state)
<1>1. fires \in [Key -> [Index -> Nat]] /\ fires'[k][i] # fires[k][i]
      /\ fires[k][i] + 1 # 0
  BY DEF SweepInv, TypeOK, Fires
<1>2. ASSUME NEW j \in Key, Send(j) \/ Turn(j) PROVE FALSE
  <2>1. CASE UNCHANGED fires
    BY <1>1, <2>1
  <2>2. CASE fires' = [fires EXCEPT ![j] = [n \in Index |-> 0]]
    BY <1>1, <2>2 DEF Fires
  <2> QED  BY <1>2, <2>1, <2>2, InstanceStep
<1>3. CASE Pass
  <2>1. PICK j \in Key, n \in Index :
          Reports(j, n) /\ (Walking => record[j].state = sweep.state)
    BY <1>1, <1>3, PassStep DEF GoesBy
  <2>2. j = k /\ n = i
    BY <1>1, <2>1 DEF Reports
  <2> QED  BY <2>1, <2>2
<1>4. CASE Tick \/ UNCHANGED vars
  BY <1>1, <1>4, OtherStep
<1> QED  BY <1>2, <1>3, <1>4 DEF Next

(***************************************************************************)
(* "Every violation a pass records is true at that one instant"            *)
(* (src/ekman.ts): the instance was, at the instant the pass read the      *)
(* clock, in the state of the constraint, and had been for its bound,      *)
(* however many turns, moves, failures, evictions and other escalations    *)
(* came between the reading and the record.  The invariant behind it says  *)
(* that a loaded record mirrors the stream, and that the age a pass keeps  *)
(* over its awaits is that of a stay which no entry ended before it.       *)
(***************************************************************************)
THEOREM ViolationsAreTrue == Spec => TrueWhenRecorded
<1>1. Init => SweepInv
  BY InitKeeps
<1>2. SweepInv /\ [Next]_vars => SweepInv'
  BY StepKeeps
<1>3. SweepInv /\ [Next]_vars =>
        [\A k \in Key : \A i \in Index :
           Fires(k, i) /\ sweep'.loaded =>
             WasIn(k, Constraints[i].in, sweep'.at, Constraints[i].within)]_vars
  BY OnlyReports DEF Reports
<1> QED  BY <1>1, <1>2, <1>3, PTL DEF Spec, TrueWhenRecorded

(***************************************************************************)
(* The first escalation of a visit is for the state the record is in: the  *)
(* guard of #ageOf, where the bucket was read some awaits ago.             *)
(***************************************************************************)
THEOREM EscalationsAreAimed == Spec => AimedAtItsState
<1>1. Init => SweepInv
  BY InitKeeps
<1>2. SweepInv /\ [Next]_vars => SweepInv'
  BY StepKeeps
<1>3. SweepInv /\ [Next]_vars =>
        [\A k \in Key : \A i \in Index :
           Fires(k, i) /\ Walking => record[k].state = Constraints[i].in]_vars
  BY OnlyReports DEF Reports
<1> QED  BY <1>1, <1>2, <1>3, PTL DEF Spec, AimedAtItsState

\* What has fired since the entry is marked on the record.
MarksKept ==
  /\ ~sweep.gone
  /\ \A k \in Key : \A i \in Index :
       /\ fires[k][i] <= 1
       /\ fires[k][i] > 0 => Resident(k) /\ Constraints[i].name \in record[k].fired

(***************************************************************************)
(* "A constraint fires at most once per entry into its state"              *)
(* (src/constraints.ts), whatever passes, moves and escalations do, as     *)
(* long as no record is evicted: the marks are on the record, and one that *)
(* was evicted under a pass comes back without them.                       *)
(***************************************************************************)
THEOREM FiresOnce ==
  ASSUME ~Evicts
  PROVE  Spec => []OncePerEntry
<1> DEFINE IInv == SweepInv /\ MarksKept
<1>1. Init => IInv
  <2> SUFFICES ASSUME Init PROVE IInv
    OBVIOUS
  <2>1. ~sweep.gone
    BY DEF Init, NoPass
  <2> QED  BY <2>1, InitKeeps DEF MarksKept
<1>2. IInv /\ [Next]_vars => IInv'
  <2> SUFFICES ASSUME SweepInv, MarksKept, [Next]_vars PROVE MarksKept'
    BY StepKeeps
  <2>0. fires \in [Key -> [Index -> Nat]] /\ SweepInv' /\ TypeOK
    BY StepKeeps DEF SweepInv, TypeOK
  <2>1. ASSUME NEW k \in Key, Send(k) \/ Turn(k)
        PROVE  MarksKept'
    <3>1. ~sweep'.gone
      BY <2>1, InstanceStep DEF PassStays, MarksKept
    <3>2. CASE Carries(k) /\ UNCHANGED fires
      BY <3>1, <3>2 DEF Carries, Becomes, SameEntry, MarksKept, Resident
    <3>3. CASE /\ \E r \in Records : Becomes(k, r)
               /\ fires' = [fires EXCEPT ![k] = [i \in Index |-> 0]]
      <4>1. \A j \in Key : \A i \in Index :
              fires'[j][i] = IF j = k THEN 0 ELSE fires[j][i]
        BY <2>0, <3>3
      <4> QED  BY <3>1, <3>3, <4>1 DEF Becomes, SameEntry, MarksKept, Resident
    <3> QED  BY <2>1, <3>2, <3>3, InstanceStep
  <2>2. CASE Pass
    <3>1. CASE GoesBy
      BY <2>0, <3>1 DEF GoesBy, SweepInv, Held, MarksKept, Resident
    <3>2. ASSUME NEW k \in Key, NEW i \in Index, Reports(k, i)
          PROVE  MarksKept'
      <4>1. /\ ~sweep'.gone /\ Resident(k)
            /\ Constraints[i].name \notin record[k].fired
        BY <3>2 DEF Reports, MarksKept, MarkedOn
      <4>2. fires[k][i] = 0
        BY <2>0, <4>1 DEF MarksKept
      <4>3. \A j \in Key : \A n \in Index :
              fires'[j][n] = IF j = k /\ n = i THEN 1 ELSE fires[j][n]
        BY <2>0, <3>2, <4>2 DEF Reports
      <4>4. PICK r \in Records :
              Becomes(k, r) /\ r.fired = record[k].fired \cup {Constraints[i].name}
        BY <3>2 DEF Reports, MarksKept
      <4>5. \A j \in Key : Resident(j) =>
              record'[j] # None /\ record[j].fired \subseteq record'[j].fired
        BY <4>4 DEF Becomes, SameEntry, Resident
      <4>6. Constraints[i].name \in record'[k].fired
        BY <4>1, <4>4, <4>5 DEF Becomes, SameEntry
      <4> QED  BY <4>1, <4>3, <4>5, <4>6 DEF MarksKept, Resident
    <3> QED  BY <2>2, <3>1, <3>2, PassStep
  <2>3. CASE Tick \/ UNCHANGED vars
    BY <2>3, OtherStep DEF MarksKept, Resident
  <2> QED  BY <2>1, <2>2, <2>3 DEF Next
<1>3. IInv => OncePerEntry
  BY DEF MarksKept, OncePerEntry
<1> QED  BY <1>1, <1>2, <1>3, PTL DEF Spec

=============================================================================
