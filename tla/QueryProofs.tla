---------------------------- MODULE QueryProofs ----------------------------
(***************************************************************************)
(* Proofs about Query, for any keys, states, configurations and bounds.    *)
(***************************************************************************)
EXTENDS Query, DataProofs

-----------------------------------------------------------------------------
(* What is under way, by its fields.                                       *)

IsQuery(q) ==
  /\ q.pc \in {"scanning", "answered"}
  /\ q = [pc |-> q.pc, criteria |-> q.criteria, at |-> q.at, rows |-> q.rows,
          unread |-> q.unread, unloaded |-> q.unloaded, answer |-> q.answer,
          complete |-> q.complete]

IsHistory(h) ==
  /\ h.pc \in {"flushing", "read", "answered"}
  /\ h = [pc |-> h.pc, key |-> h.key, holds |-> h.holds, waits |-> h.waits,
          events |-> h.events, restores |-> h.restores, complete |-> h.complete,
          acked |-> h.acked, notes |-> h.notes]

\* A row is true: its key was so while the query ran, or was not loaded yet.
IsTrue(row, q, was) ==
  (row.resident /\ row.key \in q.unloaded) \/ row.picture \in was[row.key]

\* Whoever matched all the while is among the rows, or will be read.
Misses(q, was, rows) ==
  \E k \in Keys :
    /\ \A p \in was[k] : Wanted(p, q.criteria, q.at)
    /\ q.pc = "scanning" => k \notin q.unread
    /\ \A row \in rows : row.key # k

\* What a query found so far, and what it answers.
Found(q) == IF q.pc = "answered" THEN q.answer ELSE q.rows

QueryInv ==
  /\ reading = NoReading \/ IsQuery(reading) \/ IsHistory(reading)
  /\ IsQuery(reading) =>
       /\ \A row \in Found(reading) :
            row.key \in Keys /\ IsTrue(row, reading, seen)
       /\ durable /\ (reading.pc = "answered" => reading.complete) =>
            ~Misses(reading, seen, Found(reading))
       /\ reading.pc = "answered" /\ reading.complete => durable

LEMMA Different ==
  ASSUME NEW q
  PROVE  /\ IsQuery(q) => "criteria" \in DOMAIN q /\ "notes" \notin DOMAIN q
         /\ IsHistory(q) => "criteria" \notin DOMAIN q /\ "notes" \in DOMAIN q
         /\ ~(IsQuery(NoReading) \/ IsHistory(NoReading))
         /\ NoReading.pc = "none"
<1>1. IsQuery(q) => DOMAIN q = {"pc", "criteria", "at", "rows", "unread", "unloaded",
                                "answer", "complete"}
  BY DEF IsQuery
<1>2. IsHistory(q) => DOMAIN q = {"pc", "key", "holds", "waits", "events", "restores",
                                  "complete", "acked", "notes"}
  BY DEF IsHistory
<1>3. NoReading.pc = "none"
  BY DEF NoReading
<1> QED  BY <1>1, <1>2, <1>3 DEF IsQuery, IsHistory

-----------------------------------------------------------------------------
(* Events, pictures, and what replay() makes of them.                      *)

IsEvent(e) ==
  /\ e.type \in {"transition", "note", "restored"}
  /\ e.seq \in Nat
  /\ e.type = "transition" => e.to \in States

IsPicture(p) ==
  p = NoPicture \/ \E s \in States, n \in Nat : \E t : p = Picture(s, n, t)

AreEvents(list) == IsList(list) /\ \A e \in ToSet(list) : IsEvent(e)

Holds(h) ==
  h = [snap |-> h.snap, events |-> h.events] /\ IsPicture(h.snap) /\ AreEvents(h.events)

LEMMA Pictured ==
  /\ NoPicture.seq = EMPTY_SEQ
  /\ \A s, n, t : /\ Picture(s, n, t).state = s /\ Picture(s, n, t).seq = n
                  /\ Picture(s, n, t).since = t /\ Picture(s, n, t) # NoPicture
  /\ \A p : IsPicture(p) =>
       /\ p.seq \in Int /\ p.seq >= EMPTY_SEQ
       /\ p = NoPicture <=> p.seq = EMPTY_SEQ
       /\ p # NoPicture => p.state \in States /\ p.seq \in Nat
<1>1. NoPicture.seq = EMPTY_SEQ /\ EMPTY_SEQ = -1
  BY DEF NoPicture, EMPTY_SEQ
<1>2. ASSUME NEW s, NEW n, NEW t
      PROVE  /\ Picture(s, n, t).state = s /\ Picture(s, n, t).seq = n
             /\ Picture(s, n, t).since = t /\ Picture(s, n, t) # NoPicture
  <2>1. "state" \in DOMAIN Picture(s, n, t) /\ "state" \notin DOMAIN NoPicture
    BY DEF Picture, NoPicture
  <2> QED  BY <2>1 DEF Picture
<1> QED  BY <1>1, <1>2 DEF IsPicture

LEMMA EventsOfList ==
  ASSUME NEW list, AreEvents(list)
  PROVE  /\ list \in Seq(ToSet(list)) /\ Len(list) \in Nat /\ DOMAIN list = 1 .. Len(list)
         /\ \A i \in 1 .. Len(list) : list[i] \in ToSet(list) /\ IsEvent(list[i])
         /\ \A x : x \in ToSet(list) <=> \E i \in 1 .. Len(list) : list[i] = x
         /\ Commits(list) \subseteq 1 .. Len(list)
<1>1. list \in Seq(ToSet(list))
  BY DEF AreEvents, IsList
<1> QED  BY <1>1, Elements DEF AreEvents, Commits

\* What replay() has come to after each event.
AreReplayed(m, h) ==
  /\ m[0] = h.snap
  /\ \A i \in 1 .. Len(h.events) : m[i] = Applied(m[i - 1], h.events[i])
  /\ Replayed(h) = m[Len(h.events)]

LEMMA ReplaysOneByOne ==
  ASSUME NEW h, Holds(h)
  PROVE  \E m : AreReplayed(m, h)
<1> DEFINE list == h.events
           last == Len(list)
           T == {h.snap.since} \cup {list[i].at : i \in 1 .. last}
           V == {NoPicture, h.snap} \cup {Picture(s, n, t) : s \in States, n \in Nat, t \in T}
           step == [x \in V \X (1 .. last) |-> Applied(x[1], list[x[2]])]
           Next1(g, s) == IF s = {} THEN h.snap ELSE Applied(g[s \ {Max(s)}], list[Max(s)])
           IsIter(g) == g = [s \in SUBSET (DOMAIN list) |-> Next1(g, s)]
           G == CHOOSE g : IsIter(g)
<1>1. /\ last \in Nat /\ DOMAIN list = 1 .. last
      /\ \A i \in 1 .. last : IsEvent(list[i])
  BY EventsOfList DEF Holds
<1>2. step \in [V \X (1 .. last) -> V] /\ h.snap \in V
  <2>1. ASSUME NEW p \in V, NEW i \in 1 .. last
        PROVE  Applied(p, list[i]) \in V
    <3>1. p # NoPicture => p.since \in T
      BY Pictured
    <3>2. list[i].at \in T
      OBVIOUS
    <3> DEFINE since == IF list[i].from = list[i].to /\ p # NoPicture THEN p.since
                        ELSE list[i].at
    <3>3. since \in T
      BY <3>1, <3>2
    <3>4. list[i].type = "transition" => list[i].to \in States /\ list[i].seq \in Nat
      BY <1>1 DEF IsEvent
    <3>5. Applied(p, list[i]) = IF list[i].type # "transition" \/ list[i].seq <= p.seq THEN p
                                ELSE Picture(list[i].to, list[i].seq, since)
      BY DEF Applied
    <3> HIDE DEF T, since, list
    <3> QED  BY <3>3, <3>4, <3>5
  <2>2. \A x \in V \X (1 .. last) : Applied(x[1], list[x[2]]) \in V
    <3> HIDE DEF V, last, list
    <3> QED  BY <2>1
  <2> HIDE DEF V
  <2>3. step \in [V \X (1 .. last) -> V]
    BY <2>2
  <2> QED  BY <2>3 DEF V
<1> HIDE DEF last, list
<1>3. \E g : IsIter(g)
  <2> HIDE DEF V, step
  <2>0. PICK g : IsFoldThrough(g, last, V, h.snap, step)
    BY <1>1, <1>2, FoldsExist
  <2>1. /\ g \in [SUBSET (1 .. last) -> V]
        /\ \A s \in SUBSET (1 .. last) :
             g[s] = IF s = {} THEN h.snap ELSE step[<<g[s \ {Max(s)}], Max(s)>>]
    BY <2>0 DEF IsFoldThrough
  <2>2. ASSUME NEW s \in SUBSET (1 .. last)
        PROVE  g[s] = Next1(g, s)
    <3>1. CASE s = {}
      BY <2>1, <3>1
    <3>2. CASE s # {}
      <4>1. Max(s) \in 1 .. last /\ s \ {Max(s)} \in SUBSET (1 .. last)
        BY <1>1, <2>2, <3>2, GreatestIsIn
      <4>2. g[s \ {Max(s)}] \in V
        BY <2>1, <4>1
      <4>3. step[<<g[s \ {Max(s)}], Max(s)>>] = Applied(g[s \ {Max(s)}], list[Max(s)])
        BY <4>1, <4>2 DEF step
      <4> QED  BY <1>1, <2>1, <3>2, <4>1, <4>3
    <3> QED  BY <3>1, <3>2
  <2> HIDE DEF Next1
  <2> QED  BY <1>1, <2>1, <2>2
<1>4. G = [s \in SUBSET (1 .. last) |-> Next1(G, s)]
  <2> HIDE DEF IsIter
  <2>1. IsIter(G)
    BY <1>3
  <2> HIDE DEF G
  <2> QED  BY <1>1, <2>1 DEF IsIter
<1>5. Replayed(h) = G[1 .. last]
  <2>1. Replayed(h) = G[DOMAIN list]
    BY DEF Replayed, FoldLeft, MapThenFoldSet, list
  <2> QED  BY <1>1, <2>1
<1> HIDE DEF G
<1>6. PICK m : IsFoldedTo(m, G, last)
  BY <1>1, FoldsOneByOne
<1>7. m[0] = h.snap /\ m[last] = G[1 .. last]
  BY <1>4, <1>6 DEF IsFoldedTo
<1>8. ASSUME NEW i \in 1 .. last
      PROVE  m[i] = Applied(m[i - 1], list[i])
  <2>1. /\ m[i] = G[1 .. i] /\ m[i - 1] = G[(1 .. i) \ {Max(1 .. i)}]
        /\ Max(1 .. i) = i /\ 1 .. i \in SUBSET (1 .. last) /\ 1 .. i # {}
    BY <1>6 DEF IsFoldedTo
  <2>2. G[1 .. i] = Next1(G, 1 .. i)
    <3> HIDE DEF Next1
    <3> QED  BY <1>4, <2>1
  <2>3. Next1(G, 1 .. i) = Applied(G[(1 .. i) \ {Max(1 .. i)}], list[i])
    BY <2>1
  <2> HIDE DEF Next1
  <2> QED  BY <2>1, <2>2, <2>3
<1> QED  BY <1>5, <1>7, <1>8 DEF AreReplayed, last, list

\* One more event.
LEMMA AppliedOnce ==
  ASSUME NEW p, IsPicture(p), NEW e, IsEvent(e)
  PROVE  /\ IsPicture(Applied(p, e)) /\ Applied(p, e).seq >= p.seq
         /\ e.type = "transition" => Applied(p, e).seq >= e.seq
         /\ e.type # "transition" \/ e.seq <= p.seq => Applied(p, e) = p
         /\ e.type = "transition" /\ ~(e.seq <= p.seq) =>
              Applied(p, e).seq = e.seq /\ Applied(p, e).state = e.to
<1> DEFINE since == IF e.from = e.to /\ p # NoPicture THEN p.since ELSE e.at
<1>1. CASE e.type # "transition" \/ e.seq <= p.seq
  <2>1. Applied(p, e) = p
    BY <1>1 DEF Applied
  <2> QED  BY <1>1, <2>1, Pictured DEF IsEvent
<1>2. CASE e.type = "transition" /\ ~(e.seq <= p.seq)
  <2>1. Applied(p, e) = Picture(e.to, e.seq, since)
    BY <1>2 DEF Applied
  <2>2. e.to \in States /\ e.seq \in Nat
    BY <1>2 DEF IsEvent
  <2> HIDE DEF since
  <2>3. IsPicture(Applied(p, e))
    BY <2>1, <2>2 DEF IsPicture
  <2>4. Applied(p, e).seq = e.seq /\ Applied(p, e).state = e.to
    BY <2>1, Pictured
  <2>5. p.seq \in Int
    BY Pictured
  <2> QED  BY <1>2, <2>2, <2>3, <2>4, <2>5
<1> QED  BY <1>1, <1>2

\* What is replayed is the last that was committed.
LEMMA ReplayIsLatest ==
  ASSUME NEW h, Holds(h)
  PROVE  /\ IsPicture(Replayed(h)) /\ h.snap.seq <= Replayed(h).seq
         /\ \A i \in Commits(h.events) : h.events[i].seq <= Replayed(h).seq
<1> DEFINE list == h.events
           last == Len(list)
           Good(m) == {n \in 0 .. last :
                         /\ IsPicture(m[n]) /\ h.snap.seq <= m[n].seq
                         /\ \A i \in 1 .. n : list[i].type = "transition" =>
                                                list[i].seq <= m[n].seq}
<1>1. PICK m : AreReplayed(m, h)
  BY ReplaysOneByOne
<1>2. last \in Nat /\ (\A i \in 1 .. last : IsEvent(list[i])) /\ IsPicture(h.snap)
  BY EventsOfList DEF Holds
<1>3. 0 \in Good(m)
  <2>1. m[0] = h.snap /\ h.snap.seq \in Int /\ 0 \in 0 .. last
    BY <1>1, <1>2, Pictured DEF AreReplayed
  <2> QED  BY <1>2, <2>1
<1>4. ASSUME NEW n \in 0 .. last - 1, n \in Good(m) PROVE n + 1 \in Good(m)
  <2>1. n + 1 \in 1 .. last /\ (n + 1) - 1 = n /\ n + 1 \in 0 .. last /\ n \in Nat
    BY <1>2
  <2>2. m[n + 1] = Applied(m[n], list[n + 1])
    BY <1>1, <2>1 DEF AreReplayed
  <2>3. IsEvent(list[n + 1])
    BY <1>2, <2>1
  <2> HIDE DEF last, list
  <2>4. /\ IsPicture(m[n]) /\ h.snap.seq <= m[n].seq
        /\ \A i \in 1 .. n : list[i].type = "transition" => list[i].seq <= m[n].seq
    BY <1>4
  <2>5. /\ IsPicture(m[n + 1]) /\ m[n + 1].seq >= m[n].seq
        /\ list[n + 1].type = "transition" => m[n + 1].seq >= list[n + 1].seq
    BY <2>2, <2>3, <2>4, AppliedOnce
  <2>6. m[n].seq \in Int /\ m[n + 1].seq \in Int /\ h.snap.seq \in Int
    BY <1>2, <2>4, <2>5, Pictured
  <2>7. \A i \in 1 .. n + 1 : i \in 1 .. n \/ i = n + 1
    BY <2>1
  <2>8. \A i \in 1 .. n + 1 : list[i].seq \in Nat
    BY <1>2, <2>1 DEF IsEvent, last
  <2> QED  BY <2>1, <2>4, <2>5, <2>6, <2>7, <2>8
<1>5. last \in Good(m)
  <2> DEFINE good == Good(m)
  <2>1. 0 \in good /\ \A n \in 0 .. last - 1 : n \in good => n + 1 \in good
    BY <1>3, <1>4
  <2> HIDE DEF good, last
  <2>2. \A n \in 0 .. last : n \in good
    BY <1>2, <2>1, UpTo
  <2>3. last \in good
    BY <1>2, <2>2
  <2> QED  BY <2>3 DEF good
<1>6. Replayed(h) = m[last]
  BY <1>1 DEF AreReplayed
<1> QED  BY <1>5, <1>6 DEF Commits

\* Replaying what a picture covers gives that picture.
LEMMA ReplayOfCovered ==
  ASSUME NEW h, Holds(h),
         \A i \in Commits(h.events) : h.events[i].seq <= h.snap.seq
  PROVE  Replayed(h) = h.snap
<1> DEFINE list == h.events
           last == Len(list)
           Good(m) == {n \in 0 .. last : m[n] = h.snap}
<1>1. PICK m : AreReplayed(m, h)
  BY ReplaysOneByOne
<1>2. last \in Nat /\ (\A i \in 1 .. last : IsEvent(list[i])) /\ IsPicture(h.snap)
  BY EventsOfList DEF Holds
<1>3. 0 \in Good(m)
  BY <1>1, <1>2 DEF AreReplayed
<1>4. ASSUME NEW n \in 0 .. last - 1, n \in Good(m) PROVE n + 1 \in Good(m)
  <2>1. n + 1 \in 1 .. last /\ (n + 1) - 1 = n /\ n + 1 \in 0 .. last
    BY <1>2
  <2>2. m[n + 1] = Applied(m[n], list[n + 1]) /\ m[n] = h.snap
    BY <1>1, <1>4, <2>1 DEF AreReplayed
  <2>3. list[n + 1].type # "transition" \/ list[n + 1].seq <= h.snap.seq
    BY <2>1 DEF Commits
  <2>4. Applied(h.snap, list[n + 1]) = h.snap
    BY <2>3 DEF Applied
  <2> QED  BY <2>1, <2>2, <2>4
<1>5. last \in Good(m)
  <2> DEFINE good == Good(m)
  <2>1. 0 \in good /\ \A n \in 0 .. last - 1 : n \in good => n + 1 \in good
    BY <1>3, <1>4
  <2> HIDE DEF good, last
  <2>2. \A n \in 0 .. last : n \in good
    BY <1>2, <2>1, UpTo
  <2>3. last \in good
    BY <1>2, <2>2
  <2> QED  BY <2>3 DEF good
<1> QED  BY <1>1, <1>5 DEF AreReplayed

\* What replay() makes of a key the store does not have.
LEMMA NothingReplayed == Replayed(Nothing) = NoPicture /\ Holds(Nothing)
<1>1. Nothing.snap = NoPicture /\ Nothing.events = <<>>
  BY DEF Nothing
<1>2. AreEvents(<<>>)
  <2>1. <<>> \in Seq({}) /\ ToSet(<<>>) = {}
    BY DEF ToSet
  <2> QED  BY <2>1 DEF AreEvents, IsList
<1>3. Holds(Nothing)
  BY <1>1, <1>2 DEF Holds, IsPicture, Nothing
<1>4. Commits(<<>>) = {}
  BY DEF Commits
<1> QED  BY <1>1, <1>3, <1>4, ReplayOfCovered

\* An append adds what it appends.
LEMMA ReplayOfAppend ==
  ASSUME NEW h, Holds(h), NEW e, IsEvent(e),
         NEW next, next = [h EXCEPT !.events = Append(@, e)]
  PROVE  Holds(next) /\ Replayed(next) = Applied(Replayed(h), e)
         /\ next.snap = h.snap /\ next.events = Append(h.events, e)
<1> DEFINE list == h.events
           last == Len(list)
           longer == Append(list, e)
<1>1. next.snap = h.snap /\ next.events = longer
      /\ next = [snap |-> next.snap, events |-> next.events]
  BY DEF Holds
<1>2. /\ list \in Seq(ToSet(list)) /\ last \in Nat
      /\ \A x \in ToSet(list) : IsEvent(x)
  BY EventsOfList DEF Holds, AreEvents
<1>3. longer \in Seq(ToSet(list) \cup {e}) /\ ToSet(longer) = ToSet(list) \cup {e}
  <2> HIDE DEF list
  <2> QED  BY <1>2, ElementsOfAppend
<1>4. Holds(next)
  <2> HIDE DEF list, longer
  <2> QED  BY <1>1, <1>2, <1>3 DEF Holds, AreEvents, IsList
<1>5. /\ Len(longer) = last + 1 /\ longer[last + 1] = e
      /\ \A i \in 1 .. last : longer[i] = list[i]
  <2> HIDE DEF list
  <2> QED  BY <1>2, AppendProperties
<1>6. PICK m : AreReplayed(m, h)
  BY ReplaysOneByOne
<1>7. PICK m2 : AreReplayed(m2, next)
  BY <1>4, ReplaysOneByOne
<1> DEFINE Good == {n \in 0 .. last : m[n] = m2[n]}
<1>8. /\ m[0] = h.snap /\ m2[0] = h.snap
      /\ \A i \in 1 .. last : m[i] = Applied(m[i - 1], list[i])
      /\ \A i \in 1 .. last + 1 : m2[i] = Applied(m2[i - 1], longer[i])
      /\ Replayed(h) = m[last] /\ Replayed(next) = m2[last + 1]
  BY <1>1, <1>5, <1>6, <1>7 DEF AreReplayed
<1> HIDE DEF list, last, longer
<1>9. last \in Good
  <2>1. 0 \in Good
    BY <1>2, <1>8
  <2>2. ASSUME NEW n \in 0 .. last - 1, n \in Good PROVE n + 1 \in Good
    <3>1. n + 1 \in 1 .. last /\ n + 1 \in 1 .. last + 1 /\ (n + 1) - 1 = n
          /\ n + 1 \in 0 .. last
      BY <1>2
    <3> QED  BY <1>5, <1>8, <2>2, <3>1
  <2> HIDE DEF Good
  <2>3. \A n \in 0 .. last : n \in Good
    BY <1>2, <2>1, <2>2, UpTo
  <2> QED  BY <1>2, <2>3
<1>10. last + 1 \in 1 .. last + 1 /\ (last + 1) - 1 = last
  BY <1>2
<1> QED  BY <1>1, <1>4, <1>5, <1>8, <1>9, <1>10 DEF longer, list

-----------------------------------------------------------------------------
(* Every step keeps the invariant: first those of the runtime.             *)

\* A history goes on, or a query is left alone, unless the process ends.
LEMMA TurnEndsReading ==
  ASSUME NEW k, NEW r, NEW entered,
         reading = NoReading \/ IsQuery(reading) \/ IsHistory(reading),
         reading.pc # "answered", TurnEnds(k, r, entered)
  PROVE  reading' = reading \/ (IsHistory(reading) /\ IsHistory(reading'))
<1>1. CASE reading = NoReading \/ IsQuery(reading)
  <2>1. reading.pc \notin {"flushing", "read"}
    BY <1>1, Different DEF IsQuery
  <2> QED  BY <2>1 DEF TurnEnds
<1>2. CASE IsHistory(reading)
  <2>1. PICK restores : \/ reading' = [reading EXCEPT !.holds = None, !.restores = restores]
                        \/ reading' = reading
    BY DEF TurnEnds
  <2> QED  BY <1>2, <2>1 DEF IsHistory
<1> QED  BY <1>1, <1>2

LEMMA RunReading ==
  ASSUME QueryInv, Runs
  PROVE  /\ UNCHANGED setup /\ reading.pc # "answered"
         /\ \/ reading' = reading
            \/ reading' = NoReading
            \/ IsHistory(reading) /\ IsHistory(reading')
<1>1. reading = NoReading \/ IsQuery(reading) \/ IsHistory(reading)
  BY DEF QueryInv
<1>2. ASSUME NEW k \in Keys, Committed(k) \/ Fail(k)
      PROVE  /\ UNCHANGED setup /\ reading.pc # "answered"
             /\ reading' = reading \/ (IsHistory(reading) /\ IsHistory(reading'))
  <2>1. UNCHANGED setup /\ reading.pc # "answered"
    BY <1>2 DEF Committed, Fail, Going
  <2>2. CASE Committed(k)
    <3>1. TurnEnds(k, record[k], Entered(k))
      BY <2>2 DEF Committed
    <3> QED  BY <1>1, <2>1, <3>1, TurnEndsReading
  <2>3. CASE Fail(k)
    <3>1. TurnEnds(k, record[k], index)
      BY <2>3 DEF Fail
    <3> QED  BY <1>1, <2>1, <3>1, TurnEndsReading
  <2> QED  BY <1>2, <2>1, <2>2, <2>3
<1>3. ASSUME NEW k \in Keys,
             \/ Send(k) \/ Hydrate(k) \/ Reindex(k) \/ Record(k) \/ Settle(k)
             \/ SettleOrphan(k) \/ Fold(k) \/ \E to \in States : Commit(k, to)
      PROVE  UNCHANGED <<setup, reading>> /\ reading.pc # "answered"
  BY <1>3 DEF Send, Hydrate, Reindex, Record, Settle, SettleOrphan, Fold, Commit, May, Going
<1>4. ASSUME Restart \/ Passes
      PROVE  /\ UNCHANGED setup /\ reading.pc # "answered"
             /\ reading' \in {reading, NoReading}
  BY <1>4 DEF Restart, Passes, May
<1> QED  BY <1>2, <1>3, <1>4 DEF Runs

\* durable is read off the configuration.
LEMMA SameConfig ==
  ASSUME UNCHANGED setup
  PROVE  durable' = durable /\ hasStore' = hasStore
BY DEF durable, hasStore, authority, layers, config

\* What a query found so far stays true as more is seen, and no key that it
\* missed matches again.
LEMMA MoreIsSeen ==
  ASSUME NEW q, NEW was, NEW is, \A k \in Keys : was[k] \subseteq is[k]
  PROVE  /\ \A row : row.key \in Keys /\ IsTrue(row, q, was) => IsTrue(row, q, is)
         /\ \A rows : Misses(q, is, rows) => Misses(q, was, rows)
BY DEF IsTrue, Misses

LEMMA RunKeeps ==
  ASSUME QueryInv, Runs, Watch
  PROVE  QueryInv'
<1>1. /\ UNCHANGED setup /\ reading.pc # "answered"
      /\ reading' = reading \/ reading' = NoReading \/ IsHistory(reading')
  BY RunReading
<1>2. durable' = durable
  BY <1>1, SameConfig
<1>3. CASE reading' # reading \/ ~IsQuery(reading)
  <2>1. ~IsQuery(reading') /\ (reading' = NoReading \/ IsHistory(reading'))
    BY <1>1, <1>3, Different DEF QueryInv
  <2> QED  BY <2>1 DEF QueryInv
<1>4. CASE reading' = reading /\ IsQuery(reading)
  <2>1. reading.pc = "scanning"
    BY <1>1, <1>4 DEF IsQuery
  <2>2. reading' # NoReading
    BY <1>4, Different
  <2>3. \A k \in Keys : seen[k] \subseteq seen'[k]
    BY <2>1, <2>2 DEF Watch
  <2>4. /\ \A row \in Found(reading) : row.key \in Keys /\ IsTrue(row, reading, seen)
        /\ durable => ~Misses(reading, seen, Found(reading))
    BY <1>4, <2>1 DEF QueryInv
  <2>5. /\ \A row \in Found(reading) : row.key \in Keys /\ IsTrue(row, reading, seen')
        /\ durable => ~Misses(reading, seen', Found(reading))
    BY <2>3, <2>4, MoreIsSeen
  <2> QED  BY <1>2, <1>4, <2>1, <2>5 DEF QueryInv
<1> QED  BY <1>3, <1>4

-----------------------------------------------------------------------------
(* The steps of a query and of a history.                                  *)

LEMMA AskKeeps ==
  ASSUME QueryInv, NEW c \in setup.criteria, Ask(c), Watch
  PROVE  QueryInv'
<1> DEFINE q == [pc |-> "scanning", criteria |-> c, at |-> now,
                 rows |-> ResidentMatches(c, now), unread |-> StoredKeys,
                 unloaded |-> {k \in Residents(record) : ~record[k].loaded},
                 answer |-> {}, complete |-> FALSE]
<1>1. /\ reading' = q /\ UNCHANGED <<setup, record, store>> /\ reading.pc = "none"
  BY Different DEF Ask, memory
<1>2. durable' = durable
  BY <1>1, SameConfig
<1>3. \A k \in Keys : Pictures(k) \subseteq seen'[k]
  <2>1. \A k \in Keys : Pictures(k)' = Pictures(k)
    BY <1>1 DEF Pictures, Stored
  <2>2. reading'.pc = "scanning"
    BY <1>1
  <2> QED  BY <2>1, <2>2 DEF Watch
<1>4. /\ IsQuery(q) /\ q.pc = "scanning" /\ q.rows = ResidentMatches(c, now)
      /\ q.unread = StoredKeys /\ q.criteria = c /\ q.at = now
      /\ q.unloaded = {k \in Residents(record) : ~record[k].loaded}
  BY DEF IsQuery
<1> HIDE DEF q
<1>5. ASSUME NEW row \in q.rows
      PROVE  row.key \in Keys /\ IsTrue(row, q, seen')
  <2>1. PICK k \in Keys : row = Row(k, AgeOf(k), TRUE) /\ Wanted(AgeOf(k), c, now)
    BY <1>4, <1>5 DEF ResidentMatches
  <2>2. row.key = k /\ row.picture = AgeOf(k) /\ row.resident
    BY <2>1 DEF Row
  <2>3. record[k] # NoRecord /\ AgeOf(k) = PictureOf(record[k])
    BY <2>1 DEF AgeOf, Wanted
  <2>4. CASE record[k].loaded
    <3>1. PictureOf(record[k]) \in Pictures(k)
      BY <2>3, <2>4 DEF Pictures
    <3> QED  BY <1>3, <2>2, <2>3, <3>1 DEF IsTrue
  <2>5. CASE ~record[k].loaded
    BY <1>4, <2>2, <2>3, <2>5 DEF IsTrue, Residents
  <2> QED  BY <2>4, <2>5
<1>6. durable => ~Misses(q, seen', q.rows)
  <2> SUFFICES ASSUME durable, NEW k \in Keys,
                      \A p \in seen'[k] : Wanted(p, c, now), k \notin q.unread
               PROVE  FALSE
    BY <1>4 DEF Misses
  <2>1. Wanted(Stored(k), c, now)
    BY <1>3 DEF Pictures
  <2>2. store[k] # Nothing
    BY <2>1, NothingReplayed DEF Wanted, Stored
  <2> QED  BY <1>4, <2>2 DEF StoredKeys, durable
<1> QED  BY <1>1, <1>2, <1>4, <1>5, <1>6 DEF QueryInv, Found

LEMMA ScanKeeps ==
  ASSUME QueryInv, NEW k \in Keys, ScanNext(k), Watch
  PROVE  QueryInv'
<1> DEFINE more == IF Scanned(reading, k) THEN reading.rows \cup {Row(k, Stored(k), FALSE)}
                   ELSE reading.rows
           q == [reading EXCEPT !.unread = @ \ {k}, !.rows = more]
<1>1. /\ UNCHANGED <<setup, record, store>> /\ reading.pc = "scanning"
  BY DEF ScanNext, memory
<1>2. IsQuery(reading)
  BY <1>1, Different DEF QueryInv, IsHistory
<1>3. /\ reading' = q /\ IsQuery(q) /\ q.pc = "scanning" /\ q.rows = more
      /\ q.unread = reading.unread \ {k} /\ q.criteria = reading.criteria
      /\ q.at = reading.at /\ q.unloaded = reading.unloaded
  <2>1. reading' = q
    BY DEF ScanNext
  <2> HIDE DEF more
  <2>2. /\ q.pc = reading.pc /\ q.rows = more /\ q.unread = reading.unread \ {k}
        /\ q.criteria = reading.criteria /\ q.at = reading.at
        /\ q.unloaded = reading.unloaded
    BY <1>2 DEF IsQuery
  <2>3. IsQuery(reading')
    BY <1>1, <1>2, <2>1 DEF IsQuery
  <2> QED  BY <1>1, <2>1, <2>2, <2>3
<1>4. durable' = durable
  BY <1>1, SameConfig
<1>5. \A j \in Keys : Pictures(j) \subseteq seen'[j] /\ seen[j] \subseteq seen'[j]
  <2>1. \A j \in Keys : Pictures(j)' = Pictures(j)
    BY <1>1 DEF Pictures, Stored
  <2>2. reading'.pc = "scanning" /\ reading' # NoReading
    BY <1>3, Different
  <2> QED  BY <1>1, <2>1, <2>2 DEF Watch
<1>6. Stored(k) \in seen'[k]
  BY <1>5 DEF Pictures
<1>7. /\ \A row \in reading.rows : row.key \in Keys /\ IsTrue(row, reading, seen')
      /\ durable => ~Misses(reading, seen', reading.rows)
  <2>1. /\ \A row \in reading.rows : row.key \in Keys /\ IsTrue(row, reading, seen)
        /\ durable => ~Misses(reading, seen, reading.rows)
    BY <1>1, <1>2 DEF QueryInv, Found
  <2> QED  BY <1>5, <2>1, MoreIsSeen
<1>8. \A row \in more : row.key \in Keys /\ IsTrue(row, reading, seen')
  BY <1>6, <1>7 DEF Row, IsTrue
<1>9. ASSUME durable PROVE ~Misses(q, seen', more)
  <2> SUFFICES ASSUME NEW j \in Keys,
                      \A p \in seen'[j] : Wanted(p, reading.criteria, reading.at),
                      j \notin reading.unread \ {k}, \A row \in more : row.key # j
               PROVE  FALSE
    BY <1>3 DEF Misses
  <2>1. CASE j = k
    <3>1. Wanted(Stored(k), reading.criteria, reading.at)
      BY <1>6, <2>1
    <3>2. Scanned(reading, k)
      BY <2>1, <3>1 DEF Scanned
    <3>3. Row(k, Stored(k), FALSE) \in more
      BY <3>2
    <3>4. Row(k, Stored(k), FALSE).key = k
      BY DEF Row
    <3> HIDE DEF more
    <3> QED  BY <2>1, <3>3, <3>4
  <2>2. CASE j # k
    <3>1. reading.rows \subseteq more
      OBVIOUS
    <3>2. j \notin reading.unread /\ \A row \in reading.rows : row.key # j
      BY <2>2, <3>1
    <3> HIDE DEF more, q
    <3>3. \A p \in seen'[j] : Wanted(p, reading.criteria, reading.at)
      OBVIOUS
    <3>4. Misses(reading, seen', reading.rows)
      BY <3>2, <3>3 DEF Misses
    <3> QED  BY <1>7, <1>9, <3>4
  <2> QED  BY <2>1, <2>2
<1> HIDE DEF q, more
<1>10. \A row \in more : row.key \in Keys /\ IsTrue(row, q, seen')
  BY <1>3, <1>8 DEF IsTrue
<1> QED  BY <1>3, <1>4, <1>9, <1>10 DEF QueryInv, Found

LEMMA AnswerKeeps ==
  ASSUME QueryInv, Answer, Watch
  PROVE  QueryInv'
<1>1. /\ UNCHANGED setup /\ reading.pc = "scanning" /\ reading.unread = {}
  BY DEF Answer
<1>2. IsQuery(reading)
  BY <1>1, Different DEF QueryInv, IsHistory
<1>3. PICK rows \in SUBSET reading.rows :
        reading' = [reading EXCEPT !.pc = "answered", !.answer = rows,
                                   !.complete = Covers /\ rows = reading.rows]
  BY DEF Answer
<1>4. /\ IsQuery(reading') /\ reading'.pc = "answered" /\ reading'.answer = rows
      /\ reading'.complete <=> Covers /\ rows = reading.rows
      /\ reading'.criteria = reading.criteria /\ reading'.at = reading.at
      /\ reading'.unloaded = reading.unloaded
  <2> DEFINE whole == Covers /\ rows = reading.rows
  <2>1. whole \in BOOLEAN
    BY DEF Covers
  <2>2. reading' = [reading EXCEPT !.pc = "answered", !.answer = rows, !.complete = whole]
    BY <1>3
  <2> HIDE DEF whole
  <2>3. /\ IsQuery(reading') /\ reading'.pc = "answered" /\ reading'.answer = rows
        /\ reading'.complete = whole
        /\ reading'.criteria = reading.criteria /\ reading'.at = reading.at
        /\ reading'.unloaded = reading.unloaded
    BY <1>2, <2>2 DEF IsQuery
  <2> QED  BY <2>1, <2>3 DEF whole
<1>5. durable' = durable
  BY <1>1, SameConfig
<1>6. \A j \in Keys : seen'[j] = seen[j]
  <2>1. reading' # NoReading
    BY <1>4, Different
  <2> QED  BY <1>1, <1>4, <2>1 DEF Watch
<1>7. /\ \A row \in reading.rows : row.key \in Keys /\ IsTrue(row, reading, seen)
      /\ durable => ~Misses(reading, seen, reading.rows)
  BY <1>1, <1>2 DEF QueryInv, Found
<1>8. \A row \in rows : row.key \in Keys /\ IsTrue(row, reading', seen')
  BY <1>4, <1>6, <1>7 DEF IsTrue
<1>9. ASSUME durable, rows = reading.rows
      PROVE  ~Misses(reading', seen', rows)
  BY <1>1, <1>4, <1>6, <1>7, <1>9 DEF Misses
<1>10. Covers => durable
  BY DEF Covers
<1> QED  BY <1>4, <1>5, <1>8, <1>9, <1>10 DEF QueryInv, Found

LEMMA HistoryKeeps ==
  ASSUME QueryInv, ReadHistory \/ AnswerHistory \/ \E k \in Keys : AskHistory(k)
  PROVE  QueryInv'
<1>1. IsHistory(reading')
  <2>1. CASE \E k \in Keys : AskHistory(k)
    <3>1. PICK k \in Keys : AskHistory(k)
      BY <2>1
    <3>2. PICK events : \/ reading' = History(k, "flushing", events, <<>>, FALSE)
                        \/ reading' = History(k, "answered", events, <<>>, FALSE)
      BY <3>1 DEF AskHistory
    <3> QED  BY <3>2 DEF History, IsHistory
  <2>2. CASE ReadHistory \/ AnswerHistory
    <3>1. IsHistory(reading)
      BY <2>2, Different DEF ReadHistory, AnswerHistory, QueryInv, IsQuery
    <3>2. CASE ReadHistory
      BY <3>1, <3>2 DEF ReadHistory, IsHistory
    <3>3. CASE AnswerHistory
      <4>1. PICK events, restores, complete :
              reading' = [reading EXCEPT !.pc = "answered", !.events = events,
                                         !.restores = restores, !.complete = complete]
        BY <3>3 DEF AnswerHistory
      <4> QED  BY <3>1, <4>1 DEF IsHistory
    <3> QED  BY <2>2, <3>2, <3>3
  <2> QED  BY <2>1, <2>2
<1>2. ~IsQuery(reading')
  BY <1>1, Different
<1> QED  BY <1>1, <1>2 DEF QueryInv

LEMMA StepKeeps ==
  ASSUME QueryInv, [Next \/ Rest]_vars
  PROVE  QueryInv'
<1>1. CASE Runs /\ Watch
  BY <1>1, RunKeeps
<1>2. CASE Reads /\ Watch
  BY <1>2, AskKeeps, ScanKeeps, AnswerKeeps, HistoryKeeps DEF Reads
<1>3. CASE UNCHANGED vars
  <2>1. UNCHANGED <<reading, seen>> /\ durable' = durable
    BY <1>3, SameConfig DEF vars
  <2> QED  BY <2>1 DEF QueryInv
<1> QED  BY <1>1, <1>2, <1>3 DEF Next, Rest

LEMMA QueryInvHolds == Spec => []QueryInv
<1>1. Init => QueryInv
  BY Different DEF Init, QueryInv
<1>2. QueryInv /\ [Next \/ Rest]_vars => QueryInv'
  BY StepKeeps
<1> QED  BY <1>1, <1>2, PTL DEF Spec

-----------------------------------------------------------------------------
(* What the authority holds of a key.                                      *)

\* A stream in the order of its commits, which go on to a sequence.
InOrder(list, seq) ==
  /\ \A i, j \in 1 .. Len(list) : i < j =>
       /\ list[i].seq <= list[j].seq
       /\ list[j].type = "transition" => list[i].seq < list[j].seq
  /\ \A i \in 1 .. Len(list) : list[i].type # "restored" /\ list[i].seq <= seq
  /\ \A i \in Commits(list) :
       /\ \A n \in list[i].seq .. seq : \E j \in Commits(list) : list[j].seq = n
       /\ list[i].seq = 0 => list[i].from = None

Filed(h) == Holds(h) /\ InOrder(h.events, Replayed(h).seq)

\* An event that may follow in such a stream.
Follows(e, seq) ==
  /\ IsEvent(e) /\ e.type \in {"transition", "note"}
  /\ e.type = "note" => e.seq = seq
  /\ e.type = "transition" => e.seq = seq + 1 /\ (e.seq = 0 => e.from = None)

LEMMA InOrderGrows ==
  ASSUME NEW list, AreEvents(list), NEW seq \in Int, InOrder(list, seq),
         NEW e, Follows(e, seq)
  PROVE  AreEvents(Append(list, e)) /\ InOrder(Append(list, e), e.seq)
         /\ ToSet(Append(list, e)) = ToSet(list) \cup {e}
<1> DEFINE new == Append(list, e)
           last == Len(list)
<1>1. /\ list \in Seq(ToSet(list)) /\ last \in Nat
      /\ \A i \in 1 .. last : IsEvent(list[i])
      /\ Commits(list) \subseteq 1 .. last /\ IsEvent(e) /\ e.seq \in Nat
  BY EventsOfList DEF Follows, IsEvent
<1>2. new \in Seq(ToSet(list) \cup {e}) /\ ToSet(new) = ToSet(list) \cup {e}
  BY <1>1, ElementsOfAppend
<1>3. AreEvents(new)
  BY <1>1, <1>2 DEF AreEvents, IsList
<1>4. /\ Len(new) = last + 1 /\ new[last + 1] = e
      /\ \A i \in 1 .. last : new[i] = list[i]
  <2> HIDE DEF last
  <2> QED  BY <1>1, AppendProperties DEF last
<1>5. \A i \in 1 .. last : list[i].seq \in Nat
  BY <1>1 DEF IsEvent
<1>6. \A i \in Commits(new) : i \in Commits(list) \/ (i = last + 1 /\ e.type = "transition")
  BY <1>1, <1>4 DEF Commits
<1>7. /\ Commits(list) \subseteq Commits(new)
      /\ e.type = "transition" => last + 1 \in Commits(new)
  BY <1>1, <1>4 DEF Commits
<1> HIDE DEF new, last
<1>8. /\ \A i \in 1 .. last : list[i].type # "restored" /\ list[i].seq <= seq
      /\ e.type # "restored" /\ seq <= e.seq /\ (e.type = "transition" => seq < e.seq)
  BY <1>1 DEF InOrder, Follows, last
<1>9. \A i \in 1 .. last + 1 : i \in 1 .. last \/ i = last + 1
  BY <1>1
<1>10. ASSUME NEW i \in 1 .. last + 1, NEW j \in 1 .. last + 1, i < j
       PROVE  /\ new[i].seq <= new[j].seq
              /\ new[j].type = "transition" => new[i].seq < new[j].seq
  <2>1. i \in 1 .. last
    BY <1>1, <1>10
  <2>2. CASE j \in 1 .. last
    BY <1>4, <1>10, <2>1, <2>2 DEF InOrder, last
  <2>3. CASE j = last + 1
    BY <1>1, <1>4, <1>5, <1>8, <2>1, <2>3
  <2> QED  BY <1>9, <2>2, <2>3
<1>11. \A i \in 1 .. last + 1 : new[i].type # "restored" /\ new[i].seq <= e.seq
  BY <1>1, <1>4, <1>5, <1>8, <1>9
<1>12. ASSUME NEW i \in Commits(new)
       PROVE  /\ \A n \in new[i].seq .. e.seq : \E j \in Commits(new) : new[j].seq = n
              /\ new[i].seq = 0 => new[i].from = None
  <2>1. CASE i \in Commits(list)
    <3>1. i \in 1 .. last /\ new[i] = list[i]
      BY <1>1, <1>4, <2>1
    <3>2. ASSUME NEW n \in list[i].seq .. e.seq
          PROVE  \E j \in Commits(new) : new[j].seq = n
      <4>1. CASE n <= seq
        <5>1. PICK j \in Commits(list) : list[j].seq = n
          BY <1>5, <2>1, <3>1, <4>1 DEF InOrder
        <5> QED  BY <1>1, <1>4, <1>7, <5>1
      <4>2. CASE ~(n <= seq)
        <5>1. e.type = "transition" /\ n = e.seq
          BY <1>1, <1>5, <3>1, <4>2 DEF Follows
        <5> QED  BY <1>4, <1>7, <5>1
      <4> QED  BY <4>1, <4>2
    <3> QED  BY <2>1, <3>1, <3>2 DEF InOrder
  <2>2. CASE i = last + 1 /\ e.type = "transition"
    <3>1. new[i] = e /\ \A n \in e.seq .. e.seq : n = e.seq
      BY <1>1, <1>4, <2>2
    <3> QED  BY <1>7, <2>2, <3>1 DEF Follows
  <2> QED  BY <1>6, <1>12, <2>1, <2>2
<1>13. InOrder(new, e.seq)
  BY <1>4, <1>10, <1>11, <1>12 DEF InOrder
<1> QED  BY <1>2, <1>3, <1>13 DEF new

LEMMA FiledSeq ==
  ASSUME NEW h, Filed(h)
  PROVE  /\ Holds(h) /\ Replayed(h).seq \in Int /\ Replayed(h).seq >= EMPTY_SEQ
         /\ Replayed(h).seq = EMPTY_SEQ <=> Replayed(h) = NoPicture
         /\ Replayed(h) # NoPicture => Replayed(h).state \in States /\ Replayed(h).seq \in Nat
BY ReplayIsLatest, Pictured DEF Filed

LEMMA NothingIsFiled == Filed(Nothing) /\ Replayed(Nothing) = NoPicture
<1>1. Nothing.events = <<>>
  BY DEF Nothing
<1>2. InOrder(<<>>, Replayed(Nothing).seq)
  BY DEF InOrder, Commits
<1> QED  BY <1>1, <1>2, NothingReplayed DEF Filed

\* An append that was conditional on what is replayed.
LEMMA FiledGrows ==
  ASSUME NEW h, Filed(h), NEW e, Follows(e, Replayed(h).seq),
         NEW next, next = [h EXCEPT !.events = Append(@, e)]
  PROVE  /\ Filed(next) /\ Replayed(next).seq = e.seq
         /\ ToSet(next.events) = ToSet(h.events) \cup {e}
         /\ next.snap = h.snap
<1>1. /\ Holds(h) /\ IsEvent(e) /\ IsPicture(Replayed(h)) /\ Replayed(h).seq \in Int
      /\ AreEvents(h.events) /\ InOrder(h.events, Replayed(h).seq)
  BY ReplayIsLatest, FiledSeq DEF Filed, Follows, Holds
<1>2. /\ Holds(next) /\ Replayed(next) = Applied(Replayed(h), e)
      /\ next.snap = h.snap /\ next.events = Append(h.events, e)
  BY <1>1, ReplayOfAppend
<1>3. InOrder(next.events, e.seq) /\ ToSet(next.events) = ToSet(h.events) \cup {e}
  BY <1>1, <1>2, InOrderGrows
<1>4. Applied(Replayed(h), e).seq = e.seq
  <2>1. CASE e.type = "note"
    <3>1. Applied(Replayed(h), e) = Replayed(h) /\ e.seq = Replayed(h).seq
      BY <1>1, <2>1, AppliedOnce DEF Follows
    <3> QED  BY <3>1
  <2>2. CASE e.type = "transition"
    <3>1. e.seq = Replayed(h).seq + 1
      BY <2>2 DEF Follows
    <3>2. ~(e.seq <= Replayed(h).seq)
      BY <1>1, <3>1
    <3> QED  BY <1>1, <2>2, <3>2, AppliedOnce
  <2> QED  BY <2>1, <2>2 DEF Follows
<1> QED  BY <1>2, <1>3, <1>4 DEF Filed

\* What a fold leaves.
LEMMA FiledFolds ==
  ASSUME NEW h, Filed(h), Replayed(h) # NoPicture,
         NEW next, next = [snap |-> Replayed(h),
                           events |-> Picked(h.events, DOMAIN h.events \ Commits(h.events))]
  PROVE  /\ Filed(next) /\ Replayed(next) = Replayed(h) /\ next.snap # NoPicture
         /\ \A e \in ToSet(h.events) : e.type = "note" => e \in ToSet(next.events)
<1> DEFINE list == h.events
           notes == DOMAIN list \ Commits(list)
           left2 == Picked(list, notes)
           seq == Replayed(h).seq
<1>1. /\ Holds(h) /\ AreEvents(list) /\ InOrder(list, seq) /\ seq \in Int
      /\ IsPicture(Replayed(h))
  BY FiledSeq, ReplayIsLatest DEF Filed, Holds
<1>2. /\ list \in Seq(ToSet(list)) /\ Len(list) \in Nat /\ DOMAIN list = 1 .. Len(list)
      /\ \A i \in 1 .. Len(list) : list[i] \in ToSet(list) /\ IsEvent(list[i])
      /\ \A x : x \in ToSet(list) <=> \E i \in 1 .. Len(list) : list[i] = x
  <2> HIDE DEF list
  <2> QED  BY <1>1, EventsOfList
<1>3. /\ next.snap = Replayed(h) /\ next.events = left2
      /\ next = [snap |-> next.snap, events |-> next.events]
  OBVIOUS
<1> HIDE DEF list
<1>4. /\ left2 \in Seq(ToSet(list))
      /\ \A x : x \in ToSet(left2) <=> \E i \in 1 .. Len(list) : i \in notes /\ list[i] = x
      /\ \A i, j \in 1 .. Len(left2) : i < j =>
           \E a, b \in notes \cap 1 .. Len(list) :
             a < b /\ left2[i] = list[a] /\ left2[j] = list[b]
  <2> DEFINE S == ToSet(list)
  <2>1. list \in Seq(S)
    BY <1>2
  <2> HIDE DEF notes, S
  <2>2. /\ Picked(list, notes) \in Seq(S)
        /\ \A x : x \in ToSet(Picked(list, notes)) <=>
                    \E i \in 1 .. Len(list) : i \in notes /\ list[i] = x
    BY <2>1, PickedElements
  <2>3. \A i, j \in 1 .. Len(Picked(list, notes)) : i < j =>
          \E a, b \in notes \cap 1 .. Len(list) :
            /\ a < b
            /\ Picked(list, notes)[i] = list[a] /\ Picked(list, notes)[j] = list[b]
    BY <2>1, PicksInOrder
  <2> QED  BY <2>2, <2>3 DEF S
<1>5. /\ IsList(left2) /\ Len(left2) \in Nat
      /\ \A i \in 1 .. Len(left2) : left2[i] \in ToSet(left2)
  <2> HIDE DEF left2
  <2> QED  BY <1>4, Elements
<1>6. \A i \in notes : i \in 1 .. Len(list) /\ list[i].type # "transition"
  BY <1>2 DEF Commits
<1>7. \A x \in ToSet(left2) : \E i \in 1 .. Len(list) :
        list[i] = x /\ x.type # "transition"
  BY <1>4, <1>6
<1>8. AreEvents(left2)
  BY <1>2, <1>5, <1>7 DEF AreEvents
<1>9. Holds(next)
  BY <1>1, <1>3, <1>8 DEF Holds
<1>10. Commits(left2) = {}
  BY <1>5, <1>7 DEF Commits
<1> HIDE DEF left2
<1>11. Replayed(next) = Replayed(h)
  <2>1. \A i \in Commits(next.events) : next.events[i].seq <= next.snap.seq
    BY <1>3, <1>10
  <2> QED  BY <1>3, <1>9, <2>1, ReplayOfCovered
<1>12. InOrder(left2, seq)
  <2>1. ASSUME NEW i \in 1 .. Len(left2), NEW j \in 1 .. Len(left2), i < j
        PROVE  /\ left2[i].seq <= left2[j].seq
               /\ left2[j].type = "transition" => left2[i].seq < left2[j].seq
    <3>1. PICK a, b \in notes \cap 1 .. Len(list) :
            a < b /\ left2[i] = list[a] /\ left2[j] = list[b]
      BY <1>4, <2>1
    <3> QED  BY <1>1, <1>6, <3>1 DEF InOrder
  <2>2. \A i \in 1 .. Len(left2) : left2[i].type # "restored" /\ left2[i].seq <= seq
    BY <1>1, <1>5, <1>7 DEF InOrder
  <2> QED  BY <1>10, <2>1, <2>2 DEF InOrder
<1>13. ASSUME NEW e \in ToSet(list), e.type = "note" PROVE e \in ToSet(left2)
  <2>1. PICK i \in 1 .. Len(list) : list[i] = e
    BY <1>2
  <2>2. i \in notes
    BY <1>2, <1>13, <2>1 DEF Commits
  <2> QED  BY <1>4, <2>1, <2>2
<1> QED  BY <1>3, <1>9, <1>11, <1>12, <1>13 DEF Filed, list

\* A snapshot of what is replayed anyway.
LEMMA FiledSnapshot ==
  ASSUME NEW h, Filed(h), NEW p, IsPicture(p), p # NoPicture, p.seq = Replayed(h).seq,
         NEW next, next = [h EXCEPT !.snap = p]
  PROVE  /\ Filed(next) /\ Replayed(next) = p /\ next.snap # NoPicture
         /\ next.events = h.events
<1>1. Holds(h) /\ InOrder(h.events, p.seq)
  BY DEF Filed
<1>2. Holds(next) /\ next.snap = p /\ next.events = h.events
  BY <1>1 DEF Holds
<1>3. \A i \in Commits(next.events) : next.events[i].seq <= next.snap.seq
  BY <1>1, <1>2 DEF InOrder, Commits
<1>4. Replayed(next) = p
  BY <1>2, <1>3, ReplayOfCovered
<1> QED  BY <1>1, <1>2, <1>4 DEF Filed

-----------------------------------------------------------------------------
(* What a history makes of a stream and the reload of its record.          *)

\* A list with one more element, at a position.
Inserted(list, p, x, longer) ==
  /\ IsList(longer) /\ Len(longer) = Len(list) + 1
  /\ \A i \in 1 .. Len(longer) :
       longer[i] = IF i < p THEN list[i] ELSE IF i = p THEN x ELSE list[i - 1]

\* The reload comes where what is stored goes beyond what it loaded.
IsBeyond(stored, p, seq) ==
  /\ p \in 1 .. Len(stored) + 1
  /\ p <= Len(stored) => stored[p].seq > seq
  /\ \A i \in 1 .. p - 1 : ~(stored[i].seq > seq)

LEMMA FirstIsBeyond ==
  ASSUME NEW stored, IsList(stored), NEW seq
  PROVE  IsBeyond(stored, FirstAbove(stored, 1, seq), seq)
<1> DEFINE last == Len(stored)
           S == {i \in 1 .. last : stored[i].seq > seq} \cup {last + 1}
           p == FirstAbove(stored, 1, seq)
<1>1. last \in Nat
  BY LenProperties DEF IsList
<1>2. S \subseteq Nat /\ S # {} /\ p = Min(S)
  BY <1>1 DEF FirstAbove
<1>3. PICK m \in S : \A n \in S : m <= n
  <2> HIDE DEF S
  <2> QED  BY <1>2, LeastOfNaturals
<1>4. p \in S /\ \A n \in S : p <= n
  <2> HIDE DEF S, p
  <2> QED  BY <1>2, <1>3 DEF Min
<1> HIDE DEF p, last
<1>5. p \in 1 .. last + 1 /\ (p <= last => stored[p].seq > seq)
  BY <1>1, <1>4
<1>6. ASSUME NEW i \in 1 .. p - 1 PROVE ~(stored[i].seq > seq)
  <2>1. i \in 1 .. last /\ i < p /\ i \in Nat /\ p \in Nat
    BY <1>1, <1>5
  <2> QED  BY <1>4, <2>1
<1> QED  BY <1>5, <1>6 DEF IsBeyond, p, last

\* Without a reload what is stored is the history.
LEMMA NothingToMerge ==
  ASSUME NEW stored, IsList(stored)
  PROVE  MergeRestores(stored, <<>>) = stored
<1> DEFINE base == [next |-> 1, merged |-> <<>>]
           restores == <<>>
           Next1(g, s) == IF s = {} THEN base
                          ELSE Woven(stored, g[s \ {Max(s)}], restores[Max(s)])
           G == CHOOSE g : g = [s \in SUBSET (DOMAIN restores) |-> Next1(g, s)]
           m == G[DOMAIN restores]
<1>1. MergeRestores(stored, restores) = m.merged \o SubSeq(stored, m.next, Len(stored))
  BY DEF MergeRestores, FoldLeft, MapThenFoldSet
<1>2. DOMAIN restores = {} /\ SUBSET {} = {{}}
  OBVIOUS
<1>3. m = base
  <2> DEFINE f == [s \in SUBSET (DOMAIN restores) |-> base]
  <2>1. f = [s \in SUBSET (DOMAIN restores) |-> Next1(f, s)]
    BY <1>2
  <2>2. G = [s \in SUBSET (DOMAIN restores) |-> Next1(G, s)]
    <3> HIDE DEF Next1
    <3> QED  BY <2>1
  <2> HIDE DEF G
  <2> QED  BY <1>2, <2>2
<1>4. stored \in Seq(ToSet(stored)) /\ Len(stored) \in Nat
  BY LenProperties DEF IsList
<1>5. SubSeq(stored, 1, Len(stored)) = stored
  BY <1>4
<1> HIDE DEF m
<1>6. m.merged = <<>> /\ m.next = 1
  BY <1>3
<1> QED  BY <1>1, <1>4, <1>5, <1>6, ConcatEmptySeq

\* The one reload is put into what is stored.
LEMMA OneToMerge ==
  ASSUME NEW stored, IsList(stored), NEW restores, IsList(restores), Len(restores) = 1
  PROVE  \E p : /\ IsBeyond(stored, p, restores[1].seq)
                /\ Inserted(stored, p, restores[1], MergeRestores(stored, restores))
<1> DEFINE base == [next |-> 1, merged |-> <<>>]
           x == restores[1]
           Next1(g, s) == IF s = {} THEN base
                          ELSE Woven(stored, g[s \ {Max(s)}], restores[Max(s)])
           G == CHOOSE g : g = [s \in SUBSET (DOMAIN restores) |-> Next1(g, s)]
           m == G[DOMAIN restores]
           p == FirstAbove(stored, 1, x.seq)
           last == Len(stored)
           longer == MergeRestores(stored, restores)
           S == ToSet(stored) \cup {x}
<1>1. longer = m.merged \o SubSeq(stored, m.next, last)
  BY DEF MergeRestores, FoldLeft, MapThenFoldSet
<1>2. DOMAIN restores = {1} /\ SUBSET {1} = {{}, {1}}
  BY LenProperties DEF IsList
<1>3. Max({1}) = 1 /\ {1} \ {Max({1})} = {}
  BY DEF Max
<1>4. m = Woven(stored, base, x)
  <2> DEFINE f == [s \in SUBSET (DOMAIN restores) |->
                     IF s = {} THEN base ELSE Woven(stored, base, x)]
  <2>1. f = [s \in SUBSET (DOMAIN restores) |-> Next1(f, s)]
    <3>1. f[{}] = base
      BY <1>2
    <3>2. \A s \in SUBSET (DOMAIN restores) : f[s] = Next1(f, s)
      <4> HIDE DEF base
      <4> QED  BY <1>2, <1>3, <3>1
    <3> HIDE DEF Next1
    <3> QED  BY <3>2
  <2>2. G = [s \in SUBSET (DOMAIN restores) |-> Next1(G, s)]
    <3> HIDE DEF Next1, f
    <3> QED  BY <2>1
  <2> HIDE DEF G
  <2>3. {} \in SUBSET (DOMAIN restores) /\ {1} \in SUBSET (DOMAIN restores)
    BY <1>2
  <2>4. G[{}] = base /\ G[{1}] = Woven(stored, G[{1} \ {Max({1})}], restores[Max({1})])
    BY <2>2, <2>3
  <2> QED  BY <1>2, <1>3, <2>4
<1>5. stored \in Seq(ToSet(stored)) /\ last \in Nat
  BY LenProperties DEF IsList
<1>6. IsBeyond(stored, p, x.seq)
  BY FirstIsBeyond
<1> HIDE DEF m, p
<1>7. m.next = p /\ m.merged = <<>> \o SubSeq(stored, 1, p - 1) \o <<x>>
  BY <1>4 DEF Woven, p
<1>8. p \in 1 .. last + 1
  BY <1>6 DEF IsBeyond
<1> HIDE DEF x, last, longer
<1> DEFINE before == SubSeq(stored, 1, p - 1)
           after == SubSeq(stored, p, last)
<1>9. \A i \in 1 .. last : stored[i] \in S
  BY <1>5, ElementOfSeq DEF last
<1>10. /\ before \in Seq(S) /\ Len(before) = p - 1
       /\ \A i \in 1 .. p - 1 : before[i] = stored[i]
  <2>1. \A i \in 1 .. p - 1 : stored[i] \in S
    BY <1>5, <1>8, <1>9
  <2>2. p - 1 \in Int
    BY <1>8
  <2> HIDE DEF S, before
  <2>3. /\ before \in Seq(S) /\ Len(before) = IF 1 <= p - 1 THEN p - 1 - 1 + 1 ELSE 0
        /\ \A i \in 1 .. p - 1 - 1 + 1 : before[i] = stored[1 + i - 1]
    BY <2>1, <2>2, SubSeqProperties DEF before
  <2> QED  BY <1>5, <1>8, <2>3
<1>11. /\ after \in Seq(S) /\ Len(after) = last - p + 1
       /\ \A i \in 1 .. last - p + 1 : after[i] = stored[p + i - 1]
  <2>1. \A i \in p .. last : stored[i] \in S
    BY <1>5, <1>8, <1>9
  <2>2. p \in Int /\ last \in Int
    BY <1>5, <1>8
  <2> HIDE DEF S, after
  <2>3. /\ after \in Seq(S) /\ Len(after) = IF p <= last THEN last - p + 1 ELSE 0
        /\ \A i \in 1 .. last - p + 1 : after[i] = stored[p + i - 1]
    BY <2>1, <2>2, SubSeqProperties DEF after
  <2> QED  BY <1>5, <1>8, <2>3
<1>12. /\ m.merged \in Seq(S) /\ Len(m.merged) = p
       /\ \A i \in 1 .. p : m.merged[i] = IF i < p THEN stored[i] ELSE x
  <2>0. x \in S
    OBVIOUS
  <2> HIDE DEF before, S
  <2>1. m.merged = before \o <<x>>
    <3>1. <<>> \o before = before
      BY <1>10, ConcatEmptySeq
    <3> QED  BY <1>7, <3>1 DEF before
  <2>2. <<x>> \in Seq(S) /\ Len(<<x>>) = 1 /\ <<x>>[1] = x
    BY <2>0
  <2> DEFINE one == <<x>>
  <2> HIDE DEF one
  <2>3. one \in Seq(S) /\ Len(one) = 1 /\ one[1] = x /\ m.merged = before \o one
    BY <2>1, <2>2 DEF one
  <2>4. /\ before \o one \in Seq(S) /\ Len(before \o one) = Len(before) + Len(one)
        /\ \A i \in 1 .. Len(before) + Len(one) : (before \o one)[i] =
             IF i <= Len(before) THEN before[i] ELSE one[i - Len(before)]
    BY <1>10, <2>3, ConcatProperties
  <2> QED  BY <1>5, <1>8, <1>10, <2>3, <2>4
<1>13. /\ longer \in Seq(S) /\ Len(longer) = last + 1
       /\ \A i \in 1 .. last + 1 :
            longer[i] = IF i < p THEN stored[i] ELSE IF i = p THEN x ELSE stored[i - 1]
  <2> DEFINE first == m.merged
  <2> HIDE DEF first, after, S
  <2>1. longer = first \o after
    BY <1>1, <1>7 DEF first, after
  <2>2. /\ first \in Seq(S) /\ Len(first) = p
        /\ \A i \in 1 .. p : first[i] = IF i < p THEN stored[i] ELSE x
    BY <1>12 DEF first
  <2>3. /\ first \o after \in Seq(S) /\ Len(first \o after) = Len(first) + Len(after)
        /\ \A i \in 1 .. Len(first) + Len(after) : (first \o after)[i] =
             IF i <= Len(first) THEN first[i] ELSE after[i - Len(first)]
    BY <1>11, <2>2, ConcatProperties
  <2>4. Len(longer) = last + 1
    BY <1>5, <1>8, <1>11, <2>1, <2>2, <2>3
  <2>5. ASSUME NEW i \in 1 .. last + 1
        PROVE  longer[i] = IF i < p THEN stored[i] ELSE IF i = p THEN x ELSE stored[i - 1]
    <3>1. longer[i] = IF i <= p THEN first[i] ELSE after[i - p]
      <4>1. Len(longer) = Len(first) + Len(after)
        BY <2>1, <2>3
      <4>2. i \in 1 .. Len(first) + Len(after)
        BY <2>4, <4>1
      <4> QED  BY <2>1, <2>2, <2>3, <4>2
    <3>2. CASE i <= p
      BY <1>8, <2>2, <3>1, <3>2
    <3>3. CASE ~(i <= p)
      <4>1. i - p \in 1 .. last - p + 1 /\ p + (i - p) - 1 = i - 1
        BY <1>5, <1>8, <3>3
      <4>2. after[i - p] = stored[p + (i - p) - 1]
        BY <1>11, <4>1
      <4> QED  BY <1>8, <3>1, <3>3, <4>1, <4>2
    <3> QED  BY <3>2, <3>3
  <2> QED  BY <2>1, <2>3, <2>4, <2>5
<1>14. IsList(longer)
  <2> HIDE DEF S
  <2> QED  BY <1>13, Elements
<1>15. Inserted(stored, p, x, longer)
  BY <1>13, <1>14 DEF Inserted, last
<1> QED  BY <1>6, <1>15 DEF x, longer

\* A stream with all commits of another, in their order.
Spreads(stored, merged, up) ==
  /\ IsList(merged)
  /\ \A i \in 1 .. Len(stored) : up[i] \in 1 .. Len(merged) /\ merged[up[i]] = stored[i]
  /\ \A i, j \in 1 .. Len(stored) : i < j => up[i] < up[j]
  /\ \A j \in Commits(merged) : \E i \in Commits(stored) : j = up[i]

OneByOne(events) ==
  \A i, j \in Commits(events) :
    i < j /\ (\A l \in Commits(events) : l <= i \/ j <= l) =>
      events[j].seq = events[i].seq + 1

Placed(events) ==
  \A i \in DOMAIN events, j \in Commits(events) :
    IsRestore(events[i]) => (j < i <=> events[j].seq <= events[i].seq)

LEMMA SpreadIsOneByOne ==
  ASSUME NEW stored, AreEvents(stored), NEW seq \in Int, InOrder(stored, seq),
         NEW merged, NEW up, Spreads(stored, merged, up)
  PROVE  /\ OneByOne(merged) /\ ToSet(stored) \subseteq ToSet(merged)
         /\ \A i \in Commits(stored) :
              LatestSeq(merged) \in Nat /\ stored[i].seq <= LatestSeq(merged)
<1>1. /\ Len(stored) \in Nat /\ Commits(stored) \subseteq 1 .. Len(stored)
      /\ \A i \in 1 .. Len(stored) : stored[i].seq \in Nat
      /\ \A x : x \in ToSet(stored) <=> \E i \in 1 .. Len(stored) : stored[i] = x
  BY EventsOfList DEF IsEvent
<1>2. /\ merged \in Seq(ToSet(merged)) /\ Len(merged) \in Nat
      /\ \A x : x \in ToSet(merged) <=> \E i \in 1 .. Len(merged) : merged[i] = x
  BY Elements DEF Spreads, IsList
<1>3. \A i \in Commits(stored) : up[i] \in Commits(merged) /\ merged[up[i]] = stored[i]
  BY <1>1 DEF Spreads, Commits
<1>8. \A i \in 1 .. Len(stored) : up[i] \in Int
  BY <1>2 DEF Spreads
<1>4. \A i, j \in 1 .. Len(stored) : up[i] < up[j] <=> i < j
  <2> SUFFICES ASSUME NEW i \in 1 .. Len(stored), NEW j \in 1 .. Len(stored)
               PROVE  up[i] < up[j] <=> i < j
    OBVIOUS
  <2>1. up[i] \in Int /\ up[j] \in Int /\ i \in Int /\ j \in Int
    BY <1>1, <1>2 DEF Spreads
  <2>2. i < j => up[i] < up[j]
    BY DEF Spreads
  <2>3. j < i => up[j] < up[i]
    BY DEF Spreads
  <2>4. i = j => up[i] = up[j]
    OBVIOUS
  <2> QED  BY <2>1, <2>2, <2>3, <2>4
<1>5. ASSUME NEW i \in Commits(merged), NEW j \in Commits(merged), i < j,
             \A l \in Commits(merged) : l <= i \/ j <= l
      PROVE  merged[j].seq = merged[i].seq + 1
  <2>1. PICK a \in Commits(stored), b \in Commits(stored) : i = up[a] /\ j = up[b]
    BY DEF Spreads
  <2>2. /\ a \in 1 .. Len(stored) /\ b \in 1 .. Len(stored) /\ a < b
        /\ stored[a].seq \in Nat /\ stored[b].seq \in Nat
        /\ merged[i] = stored[a] /\ merged[j] = stored[b]
    BY <1>1, <1>3, <1>4, <1>5, <2>1
  <2>3. stored[a].seq < stored[b].seq /\ stored[b].seq <= seq
    BY <2>1, <2>2 DEF InOrder, Commits
  <2>4. PICK c \in Commits(stored) : stored[c].seq = stored[a].seq + 1
    <3>1. stored[a].seq + 1 \in stored[a].seq .. seq
      BY <2>2, <2>3
    <3> QED  BY <2>1, <3>1 DEF InOrder
  <2>5. c \in 1 .. Len(stored) /\ stored[c].type = "transition" /\ stored[b].type = "transition"
        /\ stored[a].type = "transition"
    BY <1>1, <2>1, <2>4 DEF Commits
  <2>6. a < c
    <3>1. c < a => stored[c].seq < stored[a].seq
      BY <2>2, <2>5 DEF InOrder
    <3>2. c # a
      BY <2>2, <2>4
    <3> QED  BY <1>1, <2>2, <2>4, <2>5, <3>1, <3>2
  <2>7. ~(b < c)
    <3>1. b < c => stored[b].seq < stored[c].seq
      BY <2>2, <2>5 DEF InOrder
    <3> QED  BY <2>2, <2>3, <2>4, <3>1
  <2>8. up[c] \in Commits(merged) /\ up[a] < up[c] /\ ~(up[b] < up[c])
        /\ (up[c] < up[b] <=> c < b)
    BY <1>3, <1>4, <2>2, <2>4, <2>5, <2>6, <2>7
  <2>9. up[c] <= up[a] \/ up[b] <= up[c]
    BY <1>5, <2>1, <2>8
  <2>10. up[c] \in Int /\ up[a] \in Int /\ up[b] \in Int /\ c \in Int /\ b \in Int
    BY <1>1, <1>8, <2>2, <2>5
  <2>11. b = c
    BY <2>7, <2>8, <2>9, <2>10
  <2> QED  BY <2>2, <2>4, <2>11
<1>6. ToSet(stored) \subseteq ToSet(merged)
  BY <1>1, <1>2 DEF Spreads
<1>7. ASSUME NEW i \in Commits(stored)
      PROVE  LatestSeq(merged) \in Nat /\ stored[i].seq <= LatestSeq(merged)
  <2>1. Commits(merged) # {}
    BY <1>3
  <2>2. /\ LastCommit(merged) \in Commits(merged)
        /\ \A j \in Commits(merged) : j <= LastCommit(merged)
        /\ LatestSeq(merged) = merged[LastCommit(merged)].seq
    BY <1>2, <2>1, LastCommitIsLast DEF LatestSeq
  <2>3. PICK a \in Commits(stored) : LastCommit(merged) = up[a]
    BY <2>2 DEF Spreads
  <2>4. /\ a \in 1 .. Len(stored) /\ i \in 1 .. Len(stored) /\ up[i] <= up[a]
        /\ up[i] \in Int /\ up[a] \in Int
    <3>1. a \in 1 .. Len(stored) /\ i \in 1 .. Len(stored) /\ up[i] \in Commits(merged)
      BY <1>1, <1>3
    <3> QED  BY <1>8, <2>2, <2>3, <3>1
  <2>5. i = a \/ i < a
    BY <1>1, <1>4, <2>4
  <2>6. stored[i].seq <= stored[a].seq
    BY <1>1, <2>4, <2>5 DEF InOrder
  <2>7. LatestSeq(merged) = stored[a].seq /\ stored[a].seq \in Nat
    BY <1>1, <1>3, <2>2, <2>3, <2>4
  <2> QED  BY <2>6, <2>7
<1> QED  BY <1>5, <1>6, <1>7 DEF OneByOne

\* What a history answers of what it read.
LEMMA MergedIsHonest ==
  ASSUME NEW stored, AreEvents(stored), NEW seq \in Int, InOrder(stored, seq),
         NEW restores, IsList(restores), Len(restores) <= 1,
         \A i \in 1 .. Len(restores) : IsRestore(restores[i]) /\ restores[i].seq \in Nat,
         NEW merged, merged = MergeRestores(stored, restores)
  PROVE  /\ OneByOne(merged) /\ Placed(merged) /\ ToSet(stored) \subseteq ToSet(merged)
         /\ \A i \in Commits(stored) :
              LatestSeq(merged) \in Nat /\ stored[i].seq <= LatestSeq(merged)
         /\ 1 \in Commits(merged) => 1 \in Commits(stored) /\ merged[1] = stored[1]
         /\ merged = <<>> => stored = <<>>
<1>1. /\ IsList(stored) /\ Len(stored) \in Nat /\ Commits(stored) \subseteq 1 .. Len(stored)
      /\ \A i \in 1 .. Len(stored) : stored[i].seq \in Nat
      /\ DOMAIN stored = 1 .. Len(stored)
  BY EventsOfList DEF IsEvent, AreEvents
<1>2. restores \in Seq(ToSet(restores)) /\ Len(restores) \in Nat
  BY LenProperties DEF IsList
<1>3. CASE restores = <<>>
  <2>1. merged = stored
    BY <1>1, <1>3, NothingToMerge
  <2> DEFINE up == [i \in 1 .. Len(stored) |-> i]
  <2>2. Spreads(stored, merged, up)
    BY <1>1, <2>1 DEF Spreads
  <2> HIDE DEF up
  <2>3. Placed(merged)
    BY <1>1, <2>1 DEF Placed, InOrder, IsRestore
  <2> QED  BY <2>1, <2>2, <2>3, SpreadIsOneByOne
<1>4. CASE restores # <<>>
  <2> DEFINE x == restores[1]
             last == Len(stored)
  <2>1. Len(restores) = 1
    <3> DEFINE S == ToSet(restores)
    <3> HIDE DEF S
    <3>1. restores \in Seq(S)
      BY <1>2 DEF S
    <3>2. Len(restores) \in Nat \ {0}
      BY <1>4, <3>1, EmptySeq
    <3> DEFINE n == Len(restores)
    <3>3. n \in Nat \ {0} /\ n <= 1
      BY <3>2
    <3> HIDE DEF n
    <3>4. n = 1
      BY <3>3
    <3> QED  BY <3>4 DEF n
  <2>2. PICK p : IsBeyond(stored, p, x.seq) /\ Inserted(stored, p, x, merged)
    BY <1>1, <2>1, OneToMerge
  <2>3. IsRestore(x) /\ x.seq \in Nat
    BY <2>1
  <2> HIDE DEF x
  <2> DEFINE up == [i \in 1 .. last |-> IF i < p THEN i ELSE i + 1]
  <2>4. /\ p \in 1 .. last + 1 /\ Len(merged) = last + 1 /\ IsList(merged)
        /\ \A i \in 1 .. last + 1 :
             merged[i] = IF i < p THEN stored[i] ELSE IF i = p THEN x ELSE stored[i - 1]
    BY <2>2 DEF IsBeyond, Inserted
  <2>5. merged[p] = x /\ p \notin Commits(merged)
    BY <1>1, <2>3, <2>4 DEF Commits, IsRestore
  <2>6. ASSUME NEW j \in Commits(merged)
        PROVE  /\ j \in 1 .. last + 1 /\ j # p
               /\ j < p => j \in Commits(stored) /\ merged[j] = stored[j]
               /\ ~(j < p) => j - 1 \in Commits(stored) /\ merged[j] = stored[j - 1]
                              /\ p <= j - 1
    <3>1. j \in 1 .. last + 1 /\ j # p /\ merged[j].type = "transition"
      BY <2>4, <2>5 DEF Commits
    <3>2. CASE j < p
      BY <1>1, <2>4, <3>1, <3>2 DEF Commits
    <3>3. CASE ~(j < p)
      <4>1. j - 1 \in 1 .. last /\ p <= j - 1
        BY <1>1, <2>4, <3>1, <3>3
      <4>2. merged[j] = stored[j - 1]
        BY <2>4, <3>1, <3>3
      <4> QED  BY <3>1, <3>3, <4>1, <4>2 DEF Commits
    <3> QED  BY <3>1, <3>2, <3>3
  <2>7. Spreads(stored, merged, up)
    <3>1. ASSUME NEW i \in 1 .. last
          PROVE  up[i] \in 1 .. last + 1 /\ merged[up[i]] = stored[i]
      <4>1. CASE i < p
        BY <1>1, <2>4, <4>1
      <4>2. CASE ~(i < p)
        <5>1. up[i] = i + 1 /\ i + 1 \in 1 .. last + 1 /\ ~(i + 1 < p) /\ i + 1 # p
              /\ (i + 1) - 1 = i
          BY <1>1, <2>4, <4>2
        <5> HIDE DEF up
        <5> QED  BY <2>4, <5>1
      <4> QED  BY <4>1, <4>2
    <3>2. \A i, j \in 1 .. last : i < j => up[i] < up[j]
      BY <1>1, <2>4
    <3>3. ASSUME NEW j \in Commits(merged)
          PROVE  \E i \in Commits(stored) : j = up[i]
      <4>1. CASE j < p
        <5>1. j \in Commits(stored) /\ j \in 1 .. last
          BY <1>1, <2>6, <3>3, <4>1
        <5>2. up[j] = j
          BY <4>1, <5>1
        <5> QED  BY <5>1, <5>2
      <4>2. CASE ~(j < p)
        <5>1. j - 1 \in Commits(stored) /\ j - 1 \in 1 .. last /\ p <= j - 1
              /\ j \in 1 .. last + 1
          BY <1>1, <2>6, <3>3, <4>2
        <5>2. up[j - 1] = j
          BY <1>1, <2>4, <5>1
        <5> QED  BY <5>1, <5>2
      <4> QED  BY <4>1, <4>2
    <3> HIDE DEF up
    <3> QED  BY <2>4, <3>1, <3>2, <3>3 DEF Spreads
  <2> HIDE DEF up
  <2>8. /\ OneByOne(merged) /\ ToSet(stored) \subseteq ToSet(merged)
        /\ \A i \in Commits(stored) :
             LatestSeq(merged) \in Nat /\ stored[i].seq <= LatestSeq(merged)
    BY <2>7, SpreadIsOneByOne
  <2>9. DOMAIN merged = 1 .. last + 1
    BY <2>4, LenProperties DEF IsList
  <2>10. ASSUME NEW i \in DOMAIN merged, NEW j \in Commits(merged), IsRestore(merged[i])
         PROVE  j < i <=> merged[j].seq <= merged[i].seq
    <3>1. i = p
      <4>1. i \in 1 .. last + 1 /\ merged[i].type = "restored"
        BY <2>9, <2>10 DEF IsRestore
      <4>2. CASE i < p
        <5>1. i \in 1 .. last /\ merged[i] = stored[i]
          BY <1>1, <2>4, <4>1, <4>2
        <5> QED  BY <4>1, <5>1 DEF InOrder
      <4>3. CASE ~(i < p) /\ i # p
        <5>1. i - 1 \in 1 .. last /\ merged[i] = stored[i - 1]
          BY <1>1, <2>4, <4>1, <4>3
        <5> QED  BY <4>1, <5>1 DEF InOrder
      <4> QED  BY <4>2, <4>3
    <3>2. merged[i] = x /\ p \in Int /\ j \in Int
      BY <1>1, <2>4, <2>5, <2>6, <3>1
    <3>3. CASE j < p
      <4>1. j \in 1 .. p - 1 /\ j \in 1 .. last /\ merged[j] = stored[j]
        BY <1>1, <2>4, <2>6, <3>3
      <4>2. ~(stored[j].seq > x.seq) /\ stored[j].seq \in Nat
        BY <1>1, <2>2, <4>1 DEF IsBeyond
      <4> QED  BY <2>3, <3>1, <3>2, <3>3, <4>1, <4>2
    <3>4. CASE ~(j < p)
      <4>1. /\ j - 1 \in 1 .. last /\ p <= j - 1 /\ merged[j] = stored[j - 1]
            /\ p \in 1 .. last
        BY <1>1, <2>4, <2>6, <3>4
      <4>2. stored[p].seq > x.seq /\ stored[p].seq <= stored[j - 1].seq
        <5>1. stored[p].seq > x.seq
          BY <1>1, <2>2, <4>1 DEF IsBeyond
        <5>2. p = j - 1 \/ p < j - 1
          BY <1>1, <4>1
        <5>3. stored[p].seq <= stored[j - 1].seq
          BY <1>1, <4>1, <5>2 DEF InOrder
        <5> QED  BY <5>1, <5>3
      <4>3. stored[p].seq \in Nat /\ stored[j - 1].seq \in Nat
        BY <1>1, <4>1
      <4> QED  BY <2>3, <3>1, <3>2, <3>4, <4>1, <4>2, <4>3
    <3> QED  BY <3>3, <3>4
  <2>11. 1 \in Commits(merged) => 1 \in Commits(stored) /\ merged[1] = stored[1]
    <3> SUFFICES ASSUME 1 \in Commits(merged)
                 PROVE  1 \in Commits(stored) /\ merged[1] = stored[1]
      OBVIOUS
    <3>1. 1 < p
      BY <1>1, <2>4, <2>6
    <3> QED  BY <2>6, <3>1
  <2>12. merged # <<>>
    BY <1>1, <2>4, EmptySeq
  <2> QED  BY <2>8, <2>10, <2>11, <2>12 DEF Placed
<1> QED  BY <1>3, <1>4

-----------------------------------------------------------------------------
(* Records, their write chains, and the store.                             *)

\* A write of a chain: a note at the sequence it was made at, or the commit
\* after it; only the first commit comes from no state.
IsWrite(w) ==
  /\ w = [event |-> w.event, expected |-> w.expected]
  /\ IsEvent(w.event) /\ w.event.type \in {"transition", "note"} /\ w.expected \in Int
  /\ w.event.type = "note" => w.event.seq = w.expected
  /\ w.event.type = "transition" =>
       w.event.seq = w.expected + 1 /\ (w.event.from = None <=> w.event.seq = 0)

IsChain(c) == IsList(c) /\ \A w \in ToSet(c) : IsWrite(w)

\* The commits of a chain.
Moves(c) == {i \in 1 .. Len(c) : c[i].event.type # "note"}

Reloads(list) == {i \in 1 .. Len(list) : IsRestore(list[i])}

AtMostOne(S) == \A i, j \in S : i = j

IsRecord(r) ==
  /\ r = [state |-> r.state, seq |-> r.seq, since |-> r.since, loaded |-> r.loaded,
          pc |-> r.pc, chain |-> r.chain, events |-> r.events]
  /\ r.state \in States /\ r.seq \in Nat /\ r.loaded \in BOOLEAN
  /\ r.pc \in {"new", "initializing", "adopted", "turn", "writing", "moved", "idle"}
  /\ r.loaded <=> r.pc \notin {"new", "initializing"}
  /\ AreEvents(r.events) /\ IsChain(r.chain)
  /\ AtMostOne(Reloads(r.events)) /\ (r.pc = "new" => Reloads(r.events) = {})

\* A record of a runtime that has an authority: only one commit is under way,
\* and every note was appended, refused, or is still to be written.
InStep(r, h, missing) ==
  /\ IF r.loaded THEN r.seq = Replayed(h).seq ELSE r.seq = 0
  /\ AtMostOne(Moves(r.chain))
  /\ \A i \in Moves(r.chain) :
       r.pc = IF r.chain[i].event.from = None THEN "initializing" ELSE "writing"
  /\ \A e \in ToSet(r.events) : e.type = "note" =>
       \/ e.by \in missing
       \/ e \in ToSet(h.events)
       \/ \E w \in ToSet(r.chain) : w.event = e

\* A record of a runtime that has none.
Alone(r) ==
  /\ r.chain = <<>> /\ r.pc \in {"turn", "moved", "idle"}
  /\ InOrder(r.events, r.seq)

AreOrphans(chains) ==
  \A c \in chains : IsChain(c) /\ c # <<>> /\ Moves(c) = {}

IsSound(r, h, chains, missing) ==
  /\ Filed(h) /\ AreOrphans(chains)
  /\ r # NoRecord => IsRecord(r)
  /\ hasStore /\ r # NoRecord => InStep(r, h, missing)
  /\ ~hasStore => h = Nothing /\ chains = {} /\ (r # NoRecord => Alone(r))

\* What is on its way to the authority.
Writes(r, chains) ==
  UNION {ToSet(chain) : chain \in chains \cup IF r = NoRecord THEN {} ELSE {r.chain}}

\* What a send() would find.
KnownOf(r, h) == IF r # NoRecord /\ r.loaded THEN r.seq ELSE Replayed(h).seq

\* Nothing that was filed or refused is forgotten, and what is on its way gets
\* there or is refused.
Advances(r, h, chains, missing, r2, h2, chains2, missing2) ==
  /\ missing \subseteq missing2
  /\ Replayed(h).seq <= Replayed(h2).seq
  /\ h.snap # NoPicture => h2.snap # NoPicture
  /\ \A e \in ToSet(h.events) : e.type = "note" => e \in ToSet(h2.events)
  /\ \A w \in Writes(r, chains) : w.event.type = "note" =>
       \/ w \in Writes(r2, chains2)
       \/ w.event.by \in missing2
       \/ w.event \in ToSet(h2.events)

\* A step of one key.
Moving(r, h, chains, missing, r2, h2, chains2, missing2) ==
  /\ IsSound(r2, h2, chains2, missing2)
  /\ Advances(r, h, chains, missing, r2, h2, chains2, missing2)
  /\ KnownOf(r, h) <= KnownOf(r2, h2)

-----------------------------------------------------------------------------

LEMMA NoRecordIsNone ==
  ASSUME NEW r, IsRecord(r)
  PROVE  r # NoRecord
<1>1. "chain" \in DOMAIN r /\ "chain" \notin DOMAIN NoRecord
  BY DEF IsRecord, NoRecord
<1> QED  BY <1>1

LEMMA RecordOf ==
  ASSUME NEW r, IsRecord(r)
  PROVE  /\ r.state \in States /\ r.seq \in Nat
         /\ AreEvents(r.events) /\ IsChain(r.chain) /\ AtMostOne(Reloads(r.events))
         /\ r.pc = "new" => Reloads(r.events) = {}
BY DEF IsRecord

LEMMA LoadedIs ==
  ASSUME NEW r, IsRecord(r)
  PROVE  r.loaded \in BOOLEAN /\ (r.loaded <=> r.pc \notin {"new", "initializing"})
BY DEF IsRecord

LEMMA RecordShape ==
  ASSUME NEW r, IsRecord(r)
  PROVE  r = [state |-> r.state, seq |-> r.seq, since |-> r.since, loaded |-> r.loaded,
              pc |-> r.pc, chain |-> r.chain, events |-> r.events]
BY DEF IsRecord

LEMMA ChainOf ==
  ASSUME NEW c, IsChain(c)
  PROVE  /\ c \in Seq(ToSet(c)) /\ Len(c) \in Nat
         /\ \A i \in 1 .. Len(c) : c[i] \in ToSet(c) /\ IsWrite(c[i])
         /\ \A w : w \in ToSet(c) <=> \E i \in 1 .. Len(c) : c[i] = w
<1>1. c \in Seq(ToSet(c))
  BY DEF IsChain, IsList
<1> QED  BY <1>1, Elements DEF IsChain

LEMMA NoWrites == IsChain(<<>>) /\ Moves(<<>>) = {} /\ ToSet(<<>>) = {} /\ AreEvents(<<>>)
                  /\ Reloads(<<>>) = {} /\ InOrder(<<>>, EMPTY_SEQ)
<1>1. <<>> \in Seq({}) /\ ToSet(<<>>) = {} /\ Len(<<>>) = 0
  BY DEF ToSet
<1>2. IsList(<<>>)
  BY <1>1 DEF IsList
<1> QED  BY <1>1, <1>2 DEF IsChain, Moves, AreEvents, Reloads, InOrder, Commits

LEMMA ChainGrows ==
  ASSUME NEW c, IsChain(c), NEW w, IsWrite(w)
  PROVE  /\ IsChain(Append(c, w)) /\ ToSet(Append(c, w)) = ToSet(c) \cup {w}
         /\ \A i \in Moves(Append(c, w)) :
              \/ i \in Moves(c) /\ Append(c, w)[i] = c[i]
              \/ i = Len(c) + 1 /\ Append(c, w)[i] = w /\ w.event.type # "note"
<1> DEFINE new == Append(c, w)
<1>1. c \in Seq(ToSet(c)) /\ Len(c) \in Nat /\ \A v \in ToSet(c) : IsWrite(v)
  BY ChainOf DEF IsChain
<1>2. new \in Seq(ToSet(c) \cup {w}) /\ ToSet(new) = ToSet(c) \cup {w}
  BY <1>1, ElementsOfAppend
<1>3. /\ Len(new) = Len(c) + 1 /\ new[Len(c) + 1] = w
      /\ \A i \in 1 .. Len(c) : new[i] = c[i]
  BY <1>1, AppendProperties
<1>4. \A i \in 1 .. Len(c) + 1 : i \in 1 .. Len(c) \/ i = Len(c) + 1
  BY <1>1
<1> HIDE DEF new
<1>5. \A i \in Moves(new) : \/ i \in Moves(c) /\ new[i] = c[i]
                            \/ i = Len(c) + 1 /\ new[i] = w /\ w.event.type # "note"
  BY <1>3, <1>4 DEF Moves
<1>6. IsChain(new)
  BY <1>1, <1>2 DEF IsChain, IsList
<1> QED  BY <1>2, <1>5, <1>6 DEF new

LEMMA ChainShrinks ==
  ASSUME NEW c, IsChain(c), c # <<>>
  PROVE  /\ IsChain(Tail(c)) /\ IsWrite(Head(c)) /\ Head(c) = c[1]
         /\ ToSet(c) = ToSet(Tail(c)) \cup {Head(c)}
         /\ 1 \in 1 .. Len(c)
         /\ \A i \in Moves(Tail(c)) : i + 1 \in Moves(c) /\ Tail(c)[i] = c[i + 1] /\ i + 1 # 1
<1> DEFINE S == ToSet(c)
           rest == Tail(c)
<1>1. c \in Seq(S) /\ Len(c) \in Nat /\ \A w \in S : IsWrite(w)
  BY ChainOf DEF IsChain
<1>2. \A w : w \in S <=> \E i \in 1 .. Len(c) : c[i] = w
  BY ChainOf
<1> HIDE DEF S
<1>3. Len(c) \in Nat \ {0}
  BY <1>1, EmptySeq
<1>4. /\ Head(c) \in S /\ rest \in Seq(S) /\ Len(rest) = Len(c) - 1
      /\ \A i \in 1 .. Len(rest) : rest[i] = c[i + 1]
  BY <1>1, HeadTailProperties
<1>5. Head(c) = c[1]
  BY <1>1
<1> HIDE DEF rest
<1>6. /\ IsList(rest) /\ ToSet(rest) \subseteq S
      /\ \A w : w \in ToSet(rest) <=> \E i \in 1 .. Len(rest) : rest[i] = w
  BY <1>4, Elements
<1>7. IsChain(rest)
  BY <1>1, <1>6 DEF IsChain
<1>8. ASSUME NEW w \in S PROVE w \in ToSet(rest) \cup {Head(c)}
  <2>1. PICK i \in 1 .. Len(c) : c[i] = w
    BY <1>2
  <2>2. CASE i = 1
    BY <1>5, <2>1, <2>2
  <2>3. CASE i # 1
    <3>1. i - 1 \in 1 .. Len(rest) /\ (i - 1) + 1 = i
      BY <1>3, <1>4, <2>1, <2>3
    <3>2. rest[i - 1] = w
      BY <1>4, <2>1, <3>1
    <3> QED  BY <1>6, <3>1, <3>2
  <2> QED  BY <2>2, <2>3
<1>9. ASSUME NEW i \in Moves(rest)
      PROVE  i + 1 \in Moves(c) /\ rest[i] = c[i + 1] /\ i + 1 # 1
  <2>1. i \in 1 .. Len(rest) /\ i + 1 \in 1 .. Len(c) /\ i + 1 # 1
    BY <1>3, <1>4 DEF Moves
  <2> QED  BY <1>4, <2>1 DEF Moves
<1>10. 1 \in 1 .. Len(c)
  BY <1>3
<1>11. IsWrite(Head(c))
  BY <1>1, <1>4
<1> QED  BY <1>4, <1>5, <1>6, <1>7, <1>8, <1>9, <1>10, <1>11 DEF S, rest

LEMMA EventsGrow ==
  ASSUME NEW list, AreEvents(list), NEW e, IsEvent(e)
  PROVE  /\ AreEvents(Append(list, e)) /\ ToSet(Append(list, e)) = ToSet(list) \cup {e}
         /\ e.type # "restored" => Reloads(Append(list, e)) = Reloads(list)
         /\ Reloads(Append(list, e)) \subseteq Reloads(list) \cup {Len(list) + 1}
<1> DEFINE new == Append(list, e)
<1>1. list \in Seq(ToSet(list)) /\ Len(list) \in Nat /\ \A x \in ToSet(list) : IsEvent(x)
  BY EventsOfList DEF AreEvents
<1>2. new \in Seq(ToSet(list) \cup {e}) /\ ToSet(new) = ToSet(list) \cup {e}
  BY <1>1, ElementsOfAppend
<1>3. /\ Len(new) = Len(list) + 1 /\ new[Len(list) + 1] = e
      /\ \A i \in 1 .. Len(list) : new[i] = list[i]
  BY <1>1, AppendProperties
<1>4. /\ \A i \in 1 .. Len(list) + 1 : i \in 1 .. Len(list) \/ i = Len(list) + 1
      /\ \A i \in 1 .. Len(list) : i \in 1 .. Len(list) + 1
  BY <1>1
<1> HIDE DEF new
<1>5. AreEvents(new)
  BY <1>1, <1>2 DEF AreEvents, IsList
<1>6. Reloads(new) \subseteq Reloads(list) \cup {Len(list) + 1}
  BY <1>3, <1>4 DEF Reloads
<1>7. e.type # "restored" => Reloads(new) = Reloads(list)
  BY <1>3, <1>4 DEF Reloads, IsRestore
<1> QED  BY <1>2, <1>5, <1>6, <1>7 DEF new

\* The reloads of a record, as a history takes them.
LEMMA RestoresAre ==
  ASSUME NEW r, IsRecord(r), NEW list, list = RestoresOf(r)
  PROVE  /\ IsList(list) /\ Len(list) <= 1
         /\ \A i \in 1 .. Len(list) : IsRestore(list[i]) /\ list[i].seq \in Nat
<1> DEFINE events == r.events
           positions == {i \in DOMAIN events : IsRestore(events[i])}
           S == ToSet(events)
<1>1. /\ events \in Seq(S) /\ DOMAIN events = 1 .. Len(events) /\ Len(events) \in Nat
      /\ \A e \in S : IsEvent(e)
      /\ AtMostOne(Reloads(events))
  BY EventsOfList DEF IsRecord, AreEvents
<1>2. positions = Reloads(events) /\ list = Picked(events, positions)
  BY <1>1 DEF Reloads, RestoresOf
<1>3. \A i \in positions : IsRestore(events[i])
  OBVIOUS
<1> HIDE DEF positions, events, S
<1>4. /\ Picked(events, positions) \in Seq(S)
      /\ \A x : x \in ToSet(Picked(events, positions)) <=>
                  \E i \in 1 .. Len(events) : i \in positions /\ events[i] = x
  BY <1>1, PickedElements
<1>5. \A i, j \in 1 .. Len(Picked(events, positions)) : i < j =>
        \E a, b \in positions \cap 1 .. Len(events) :
          /\ a < b
          /\ Picked(events, positions)[i] = events[a]
          /\ Picked(events, positions)[j] = events[b]
  BY <1>1, PicksInOrder
<1>6. /\ IsList(list) /\ Len(list) \in Nat
      /\ \A x : x \in ToSet(list) <=> \E i \in 1 .. Len(list) : list[i] = x
  BY <1>2, <1>4, Elements
<1>7. \A i \in 1 .. Len(list) : IsRestore(list[i])
  BY <1>2, <1>3, <1>4, <1>6
<1>8. \A i \in 1 .. Len(list) : list[i].seq \in Nat
  <2>1. \A i \in 1 .. Len(list) : list[i] \in S
    BY <1>2, <1>4, ElementOfSeq
  <2> QED  BY <1>1, <2>1 DEF IsEvent
<1>9. Len(list) <= 1
  <2> SUFFICES ASSUME ~(Len(list) <= 1) PROVE FALSE
    OBVIOUS
  <2>1. 1 \in 1 .. Len(list) /\ 2 \in 1 .. Len(list) /\ 1 < 2
    BY <1>6
  <2>2. PICK a, b \in positions \cap 1 .. Len(events) : a < b
    BY <1>2, <1>5, <2>1
  <2>3. a = b
    BY <1>1, <1>2, <2>2 DEF AtMostOne
  <2> QED  BY <1>1, <2>2, <2>3
<1> QED  BY <1>6, <1>7, <1>8, <1>9

LEMMA Sound ==
  ASSUME NEW r, NEW h, NEW chains, NEW missing, IsSound(r, h, chains, missing)
  PROVE  /\ Filed(h) /\ Replayed(h).seq \in Int /\ Replayed(h).seq >= EMPTY_SEQ /\ Holds(h)
         /\ KnownOf(r, h) \in Int /\ KnownOf(r, h) >= EMPTY_SEQ
         /\ hasStore => KnownOf(r, h) = Replayed(h).seq
         /\ r # NoRecord => IsRecord(r)
         /\ ~hasStore => Replayed(h).seq = EMPTY_SEQ
<1>1. Filed(h) /\ Holds(h) /\ Replayed(h).seq \in Int /\ Replayed(h).seq >= EMPTY_SEQ
  BY FiledSeq DEF IsSound
<1>2. EMPTY_SEQ = -1
  BY DEF EMPTY_SEQ
<1>3. r # NoRecord => IsRecord(r) /\ r.seq \in Nat
  BY DEF IsSound, IsRecord
<1>4. KnownOf(r, h) \in Int /\ KnownOf(r, h) >= EMPTY_SEQ
  BY <1>1, <1>2, <1>3 DEF KnownOf
<1>5. hasStore => KnownOf(r, h) = Replayed(h).seq
  BY DEF KnownOf, IsSound, InStep
<1>6. ~hasStore => Replayed(h).seq = EMPTY_SEQ
  BY NothingIsFiled, Pictured DEF IsSound
<1> QED  BY <1>1, <1>3, <1>4, <1>5, <1>6

LEMMA Stays ==
  ASSUME NEW r, NEW h, NEW chains, NEW missing, IsSound(r, h, chains, missing),
         NEW missing2, missing \subseteq missing2
  PROVE  Moving(r, h, chains, missing, r, h, chains, missing2)
<1>1. hasStore /\ r # NoRecord => InStep(r, h, missing2)
  BY DEF IsSound, InStep
<1>2. IsSound(r, h, chains, missing2)
  BY <1>1 DEF IsSound
<1>3. Replayed(h).seq <= Replayed(h).seq /\ KnownOf(r, h) <= KnownOf(r, h)
  BY Sound
<1>4. Advances(r, h, chains, missing, r, h, chains, missing2)
  BY <1>3 DEF Advances
<1> QED  BY <1>2, <1>3, <1>4 DEF Moving

\* The record changes, and what it has queued stays queued.
LEMMA RecordMoves ==
  ASSUME NEW r, NEW h, NEW chains, NEW missing, IsSound(r, h, chains, missing),
         NEW r2, IsRecord(r2), r # NoRecord => ToSet(r.chain) \subseteq ToSet(r2.chain),
         hasStore => InStep(r2, h, missing),
         ~hasStore => Alone(r2) /\ (r # NoRecord => r.seq <= r2.seq)
  PROVE  Moving(r, h, chains, missing, r2, h, chains, missing)
<1>1. r2 # NoRecord /\ r2.seq \in Nat
  BY NoRecordIsNone DEF IsRecord
<1>2. IsSound(r2, h, chains, missing)
  BY <1>1 DEF IsSound
<1>3. Replayed(h).seq \in Int /\ Replayed(h).seq >= EMPTY_SEQ /\ EMPTY_SEQ = -1
  BY Sound DEF EMPTY_SEQ
<1>4. Writes(r, chains) \subseteq Writes(r2, chains)
  BY <1>1 DEF Writes
<1>5. Advances(r, h, chains, missing, r2, h, chains, missing)
  BY <1>3, <1>4 DEF Advances
<1>6. KnownOf(r, h) <= KnownOf(r2, h)
  <2>1. CASE hasStore
    <3>1. KnownOf(r, h) = Replayed(h).seq /\ KnownOf(r2, h) = Replayed(h).seq
      BY <1>2, <2>1, Sound
    <3> QED  BY <1>3, <3>1
  <2>2. CASE ~hasStore
    <3>1. KnownOf(r2, h) = r2.seq
      BY <1>1, <2>2 DEF KnownOf, Alone, IsRecord
    <3>2. r = NoRecord => KnownOf(r, h) = EMPTY_SEQ
      BY <2>2, Sound DEF KnownOf
    <3>3. r # NoRecord => KnownOf(r, h) = r.seq
      BY <2>2 DEF KnownOf, Alone, IsRecord, IsSound
    <3> QED  BY <1>1, <1>3, <2>2, <3>1, <3>2, <3>3
  <2> QED  BY <2>1, <2>2
<1> QED  BY <1>2, <1>5, <1>6 DEF Moving

\* A turn begins, or ends.
LEMMA TurnMoves ==
  ASSUME NEW r, NEW h, NEW chains, NEW missing, IsSound(r, h, chains, missing),
         r # NoRecord, r.pc \in {"idle", "adopted", "turn", "moved"},
         NEW pc \in {"turn", "idle"}, NEW r2, r2 = [r EXCEPT !.pc = pc]
  PROVE  Moving(r, h, chains, missing, r2, h, chains, missing) /\ IsRecord(r2)
         /\ r2.chain = r.chain /\ r2.seq = r.seq /\ r2.events = r.events /\ r2.pc = pc
         /\ r2.loaded /\ PictureOf(r2) = PictureOf(r)
<1>1. IsRecord(r) /\ r.loaded
  BY DEF IsSound, IsRecord
<1>2. /\ r2 = [state |-> r.state, seq |-> r.seq, since |-> r.since, loaded |-> r.loaded,
               pc |-> pc, chain |-> r.chain, events |-> r.events]
  BY <1>1 DEF IsRecord
<1>3. IsRecord(r2)
  BY <1>1, <1>2 DEF IsRecord
<1>4. hasStore => InStep(r2, h, missing)
  BY <1>1, <1>2 DEF InStep, IsSound
<1>5. ~hasStore => Alone(r2) /\ r.seq <= r2.seq
  BY <1>1, <1>2 DEF Alone, IsSound, IsRecord
<1>6. ToSet(r.chain) \subseteq ToSet(r2.chain)
  BY <1>2
<1>7. Moving(r, h, chains, missing, r2, h, chains, missing)
  BY <1>3, <1>4, <1>5, <1>6, RecordMoves
<1>8. PictureOf(r2) = PictureOf(r)
  BY <1>2 DEF PictureOf
<1> QED  BY <1>1, <1>2, <1>3, <1>7, <1>8

\* The events of this model, by their fields.
LEMMA DatedEvents ==
  ASSUME NEW seq \in Nat, NEW from, NEW to \in States, NEW by, NEW at
  PROVE  LET t == Dated(Transition(seq, from, to, by), at)
             n == Dated(Note(seq, to, by), at)
             s == Dated(Restored(seq, to, by), at)
         IN  /\ IsEvent(t) /\ IsEvent(n) /\ IsEvent(s)
             /\ t.type = "transition" /\ t.seq = seq /\ t.from = from /\ t.to = to /\ t.at = at
             /\ n.type = "note" /\ n.seq = seq /\ n.by = by
             /\ s.type = "restored" /\ s.seq = seq
BY DEF Dated, Transition, Note, Restored, IsEvent

LEMMA FreshMoves ==
  ASSUME NEW h, NEW chains, NEW missing, IsSound(NoRecord, h, chains, missing)
  PROVE  Moving(NoRecord, h, chains, missing, Fresh, h, chains, missing)
<1> DEFINE init == Dated(Transition(0, None, Initial, 0), now)
           r2 == Fresh
<1>1. IsEvent(init) /\ init.type = "transition" /\ init.seq = 0 /\ init.from = None
  BY DatedEvents, InitialAssumption
<1>2. hasStore \in BOOLEAN
  BY DEF hasStore
<1> HIDE DEF init
<1>3. CASE hasStore
  <2>1. r2 = [state |-> Initial, seq |-> 0, since |-> now, loaded |-> FALSE,
              pc |-> "new", chain |-> <<>>, events |-> <<>>]
    BY <1>2, <1>3 DEF Fresh
  <2>2. IsRecord(r2)
    BY <2>1, NoWrites, InitialAssumption DEF IsRecord, AtMostOne
  <2>3. InStep(r2, h, missing)
    BY <2>1, NoWrites DEF InStep, AtMostOne
  <2> HIDE DEF r2
  <2>4. Moving(NoRecord, h, chains, missing, r2, h, chains, missing)
    BY <1>3, <2>2, <2>3, RecordMoves
  <2> QED  BY <2>4 DEF r2
<1>4. CASE ~hasStore
  <2> DEFINE events == <<init>>
  <2>1. r2 = [state |-> Initial, seq |-> 0, since |-> now, loaded |-> TRUE,
              pc |-> "turn", chain |-> <<>>, events |-> events]
    BY <1>2, <1>4 DEF Fresh, init
  <2>2. events = Append(<<>>, init)
    OBVIOUS
  <2>3. Follows(init, EMPTY_SEQ) /\ EMPTY_SEQ \in Int
    BY <1>1 DEF Follows, EMPTY_SEQ
  <2> HIDE DEF events
  <2>4. AreEvents(events) /\ InOrder(events, init.seq)
    BY <2>2, <2>3, NoWrites, InOrderGrows
  <2>5. Reloads(events) = {}
    BY <1>1, <2>2, NoWrites, EventsGrow
  <2>6. IsRecord(r2)
    BY <2>1, <2>4, <2>5, NoWrites, InitialAssumption DEF IsRecord, AtMostOne
  <2>7. Alone(r2)
    BY <1>1, <2>1, <2>4 DEF Alone
  <2> HIDE DEF r2
  <2>8. Moving(NoRecord, h, chains, missing, r2, h, chains, missing)
    BY <1>4, <2>6, <2>7, RecordMoves
  <2> QED  BY <2>8 DEF r2
<1> QED  BY <1>3, <1>4

\* #hydrate: nothing is stored, and the first commit is queued.
LEMMA InitializingMoves ==
  ASSUME NEW r, NEW h, NEW chains, NEW missing, IsSound(r, h, chains, missing),
         r # NoRecord, r.pc = "new", NEW at
  PROVE  LET r2 == [Persists(r, Dated(Transition(0, None, Initial, 0), at), EMPTY_SEQ)
                      EXCEPT !.pc = "initializing"]
         IN  Moving(r, h, chains, missing, r2, h, chains, missing)
<1> DEFINE init == Dated(Transition(0, None, Initial, 0), at)
           r2 == [Persists(r, init, EMPTY_SEQ) EXCEPT !.pc = "initializing"]
           w == [event |-> init, expected |-> EMPTY_SEQ]
<1>1. IsEvent(init) /\ init.type = "transition" /\ init.seq = 0 /\ init.from = None
  BY DatedEvents, InitialAssumption
<1>2. hasStore /\ IsRecord(r) /\ ~r.loaded /\ InStep(r, h, missing)
  BY DEF IsSound, Alone, IsRecord
<1> HIDE DEF init
<1>3. IsWrite(w) /\ w.event = init
  BY <1>1 DEF IsWrite, EMPTY_SEQ
<1> HIDE DEF w
<1>4. r2 = [state |-> r.state, seq |-> r.seq, since |-> r.since, loaded |-> r.loaded,
            pc |-> "initializing", chain |-> Append(r.chain, w), events |-> r.events]
  <2>1. r = [state |-> r.state, seq |-> r.seq, since |-> r.since, loaded |-> r.loaded,
             pc |-> r.pc, chain |-> r.chain, events |-> r.events]
    BY <1>2, RecordShape
  <2>2. r2 = [[r EXCEPT !.chain = Append(@, w)] EXCEPT !.pc = "initializing"]
    BY <1>2 DEF Persists, w
  <2> HIDE DEF r2
  <2> QED  BY <2>1, <2>2
<1> HIDE DEF r2
<1>5. /\ IsChain(r2.chain) /\ ToSet(r2.chain) = ToSet(r.chain) \cup {w}
      /\ \A i \in Moves(r2.chain) : i = Len(r.chain) + 1 /\ r2.chain[i] = w
  <2>1. Moves(r.chain) = {} /\ IsChain(r.chain) /\ r2.chain = Append(r.chain, w)
    BY <1>2, <1>4, RecordOf DEF InStep
  <2> QED  BY <1>3, <2>1, ChainGrows
<1>6. IsRecord(r2)
  <2>1. /\ r.state \in States /\ r.seq \in Nat /\ AreEvents(r.events)
        /\ AtMostOne(Reloads(r.events))
    BY <1>2, RecordOf
  <2>2. r.loaded = FALSE
    BY <1>2, LoadedIs
  <2> QED  BY <1>4, <1>5, <2>1, <2>2 DEF IsRecord
<1>7. InStep(r2, h, missing)
  BY <1>1, <1>2, <1>3, <1>4, <1>5 DEF InStep, AtMostOne
<1>8. Moving(r, h, chains, missing, r2, h, chains, missing)
  BY <1>2, <1>5, <1>6, <1>7, RecordMoves
<1> QED  BY <1>8 DEF r2, init

\* #hydrate: the record becomes what is stored.
LEMMA AdoptedMoves ==
  ASSUME NEW r, NEW h, NEW chains, NEW missing, IsSound(r, h, chains, missing),
         r # NoRecord, r.pc = "new", NEW at, NEW p, p = Replayed(h), p # NoPicture
  PROVE  LET r2 == [r EXCEPT !.state = p.state, !.seq = p.seq, !.since = p.since,
                      !.loaded = TRUE, !.pc = "adopted",
                      !.events = Append(@, Dated(Restored(p.seq, p.state, 0), at))]
         IN  Moving(r, h, chains, missing, r2, h, chains, missing)
<1> DEFINE e == Dated(Restored(p.seq, p.state, 0), at)
           r2 == [r EXCEPT !.state = p.state, !.seq = p.seq, !.since = p.since,
                    !.loaded = TRUE, !.pc = "adopted", !.events = Append(@, e)]
<1>1. p.state \in States /\ p.seq \in Nat
  BY FiledSeq DEF IsSound
<1>2. IsEvent(e) /\ e.type = "restored"
  BY <1>1, DatedEvents
<1>3. hasStore /\ IsRecord(r) /\ InStep(r, h, missing) /\ Reloads(r.events) = {}
  BY DEF IsSound, Alone, IsRecord
<1> HIDE DEF e
<1>4. r2 = [state |-> p.state, seq |-> p.seq, since |-> p.since, loaded |-> TRUE,
            pc |-> "adopted", chain |-> r.chain, events |-> Append(r.events, e)]
  <2>1. r = [state |-> r.state, seq |-> r.seq, since |-> r.since, loaded |-> r.loaded,
             pc |-> r.pc, chain |-> r.chain, events |-> r.events]
    BY <1>3, RecordShape
  <2> DEFINE events == Append(r.events, e)
  <2>2. r2 = [r EXCEPT !.state = p.state, !.seq = p.seq, !.since = p.since,
                !.loaded = TRUE, !.pc = "adopted", !.events = events]
    OBVIOUS
  <2> HIDE DEF r2, events
  <2>3. r2 = [state |-> p.state, seq |-> p.seq, since |-> p.since, loaded |-> TRUE,
              pc |-> "adopted", chain |-> r.chain, events |-> events]
    BY <2>1, <2>2
  <2> QED  BY <2>3 DEF events
<1> HIDE DEF r2
<1>5. /\ AreEvents(r2.events) /\ ToSet(r2.events) = ToSet(r.events) \cup {e}
      /\ Reloads(r2.events) \subseteq {Len(r.events) + 1}
  <2>1. AreEvents(r.events) /\ r2.events = Append(r.events, e)
    BY <1>3, <1>4, RecordOf
  <2> QED  BY <1>2, <1>3, <2>1, EventsGrow
<1>6. IsRecord(r2)
  <2>1. AtMostOne(Reloads(r2.events))
    BY <1>5 DEF AtMostOne
  <2>2. IsChain(r.chain)
    BY <1>3, RecordOf
  <2> QED  BY <1>1, <1>4, <1>5, <2>1, <2>2 DEF IsRecord
<1>7. Moves(r.chain) = {}
  BY <1>3 DEF InStep
<1>8. InStep(r2, h, missing)
  BY <1>2, <1>3, <1>4, <1>5, <1>7 DEF InStep, AtMostOne
<1>9. ToSet(r.chain) \subseteq ToSet(r2.chain)
  BY <1>4
<1>10. Moving(r, h, chains, missing, r2, h, chains, missing)
  BY <1>3, <1>6, <1>8, <1>9, RecordMoves
<1> QED  BY <1>10 DEF r2, e

\* A commit is queued, or made at once.
LEMMA CommitMoves ==
  ASSUME NEW r, NEW h, NEW chains, NEW missing, IsSound(r, h, chains, missing),
         r # NoRecord, r.pc = "turn", NEW at, NEW to \in States,
         NEW event, event = Dated(Transition(r.seq + 1, r.state, to, 0), at)
  PROVE  LET r2 == IF hasStore THEN [Persists(r, event, r.seq) EXCEPT !.pc = "writing"]
                               ELSE Moved(r, event)
         IN  Moving(r, h, chains, missing, r2, h, chains, missing)
<1> DEFINE r2 == IF hasStore THEN [Persists(r, event, r.seq) EXCEPT !.pc = "writing"]
                             ELSE Moved(r, event)
<1>1. IsRecord(r) /\ r.seq \in Nat /\ r.state \in States /\ r.state # None /\ r.loaded
  BY NoneAssumption DEF IsSound, IsRecord
<1>2. /\ IsEvent(event) /\ event.type = "transition" /\ event.seq = r.seq + 1
      /\ event.from = r.state /\ event.to = to /\ event.at = at
  <2>1. r.seq + 1 \in Nat
    BY <1>1
  <2> QED  BY <2>1, DatedEvents
<1>3. CASE hasStore
  <2> DEFINE w == [event |-> event, expected |-> r.seq]
  <2>1. IsWrite(w) /\ w.event = event
    BY <1>1, <1>2 DEF IsWrite
  <2> HIDE DEF w
  <2>2. r2 = [state |-> r.state, seq |-> r.seq, since |-> r.since, loaded |-> r.loaded,
              pc |-> "writing", chain |-> Append(r.chain, w), events |-> r.events]
    BY <1>1, <1>3 DEF Persists, IsRecord, w
  <2> HIDE DEF r2
  <2>3. InStep(r, h, missing) /\ Moves(r.chain) = {}
    BY <1>3 DEF IsSound, InStep
  <2>4. /\ IsChain(r2.chain) /\ ToSet(r2.chain) = ToSet(r.chain) \cup {w}
        /\ \A i \in Moves(r2.chain) : i = Len(r.chain) + 1 /\ r2.chain[i] = w
    <3>1. IsChain(r.chain) /\ r2.chain = Append(r.chain, w)
      BY <1>1, <2>2, RecordOf
    <3> QED  BY <2>1, <2>3, <3>1, ChainGrows
  <2>5. IsRecord(r2)
    <3>1. AreEvents(r.events) /\ AtMostOne(Reloads(r.events)) /\ r.loaded = TRUE
      BY <1>1, RecordOf, LoadedIs
    <3>2. r.seq \in Nat /\ r.state \in States
      BY <1>1
    <3> QED  BY <2>2, <2>4, <3>1, <3>2 DEF IsRecord
  <2>6. InStep(r2, h, missing)
    BY <1>1, <1>2, <2>1, <2>2, <2>3, <2>4 DEF InStep, AtMostOne
  <2>7. Moving(r, h, chains, missing, r2, h, chains, missing)
    BY <1>3, <2>4, <2>5, <2>6, RecordMoves
  <2> QED  BY <2>7 DEF r2
<1>4. CASE ~hasStore
  <2>1. Alone(r)
    BY <1>4 DEF IsSound
  <2> DEFINE since == IF event.from = event.to THEN r.since ELSE event.at
  <2>2. r2 = [state |-> to, seq |-> r.seq + 1, since |-> since, loaded |-> r.loaded,
              pc |-> "moved", chain |-> r.chain, events |-> Append(r.events, event)]
    BY <1>1, <1>2, <1>4 DEF Moved, IsRecord
  <2> HIDE DEF since, r2
  <2>3. Follows(event, r.seq) /\ r.seq \in Int
    BY <1>1, <1>2 DEF Follows
  <2>4. AreEvents(r2.events) /\ InOrder(r2.events, r.seq + 1)
    <3>1. /\ AreEvents(r.events) /\ InOrder(r.events, r.seq)
          /\ r2.events = Append(r.events, event)
      BY <1>1, <2>1, <2>2, RecordOf DEF Alone
    <3> QED  BY <1>2, <2>3, <3>1, InOrderGrows
  <2>5. Reloads(r2.events) = Reloads(r.events)
    <3>1. AreEvents(r.events) /\ r2.events = Append(r.events, event)
      BY <1>1, <2>2, RecordOf
    <3> QED  BY <1>2, <3>1, EventsGrow
  <2>6. IsRecord(r2)
    <3>1. /\ AtMostOne(Reloads(r2.events)) /\ AreEvents(r2.events)
          /\ IsChain(r.chain) /\ r.seq + 1 \in Nat /\ r.loaded = TRUE
      BY <1>1, <2>4, <2>5, RecordOf, LoadedIs
    <3> QED  BY <2>2, <3>1 DEF IsRecord
  <2>7. Alone(r2) /\ r.seq <= r2.seq
    BY <1>1, <2>1, <2>2, <2>4 DEF Alone
  <2>8. ToSet(r.chain) \subseteq ToSet(r2.chain)
    BY <2>2
  <2>9. Moving(r, h, chains, missing, r2, h, chains, missing)
    BY <1>4, <2>6, <2>7, <2>8, RecordMoves
  <2> QED  BY <2>9 DEF r2
<1> QED  BY <1>3, <1>4

\* A note is taken: of a refusal or a violation.
LEMMA NoteMoves ==
  ASSUME NEW r, NEW h, NEW chains, NEW missing, IsSound(r, h, chains, missing),
         r # NoRecord, NEW by, NEW at,
         NEW note, note = Dated(Note(r.seq, r.state, by), at)
  PROVE  LET r2 == Persists([r EXCEPT !.events = Append(@, note)], note, r.seq)
         IN  Moving(r, h, chains, missing, r2, h, chains, missing)
<1> DEFINE r2 == Persists([r EXCEPT !.events = Append(@, note)], note, r.seq)
           events == Append(r.events, note)
           w == [event |-> note, expected |-> r.seq]
<1>1. IsRecord(r) /\ r.seq \in Nat /\ r.state \in States /\ AreEvents(r.events)
      /\ IsChain(r.chain) /\ AtMostOne(Reloads(r.events))
      /\ (r.pc = "new" => Reloads(r.events) = {})
  BY RecordOf DEF IsSound
<1>2. IsEvent(note) /\ note.type = "note" /\ note.seq = r.seq
  BY <1>1, DatedEvents
<1>3. /\ AreEvents(events) /\ ToSet(events) = ToSet(r.events) \cup {note}
      /\ Reloads(events) = Reloads(r.events)
  BY <1>1, <1>2, EventsGrow
<1>4. IsWrite(w) /\ w.event = note
  BY <1>1, <1>2 DEF IsWrite
<1>5. r = [state |-> r.state, seq |-> r.seq, since |-> r.since, loaded |-> r.loaded,
           pc |-> r.pc, chain |-> r.chain, events |-> r.events]
  BY <1>1, RecordShape
<1>6. r2 = IF hasStore THEN [[r EXCEPT !.events = events] EXCEPT !.chain = Append(@, w)]
                       ELSE [r EXCEPT !.events = events]
  BY DEF Persists
<1> HIDE DEF r2, w, events
<1>7. CASE hasStore
  <2>1. r2 = [state |-> r.state, seq |-> r.seq, since |-> r.since, loaded |-> r.loaded,
              pc |-> r.pc, chain |-> Append(r.chain, w), events |-> events]
    BY <1>5, <1>6, <1>7
  <2>2. /\ IsChain(r2.chain) /\ ToSet(r2.chain) = ToSet(r.chain) \cup {w}
        /\ \A i \in Moves(r2.chain) : i \in Moves(r.chain) /\ r2.chain[i] = r.chain[i]
    <3>1. r2.chain = Append(r.chain, w)
      BY <2>1
    <3> DEFINE c == r.chain
    <3>2. IsChain(c) /\ IsWrite(w) /\ w.event.type = "note"
      BY <1>1, <1>2, <1>4
    <3> HIDE DEF c
    <3>3. /\ IsChain(Append(c, w)) /\ ToSet(Append(c, w)) = ToSet(c) \cup {w}
          /\ \A i \in Moves(Append(c, w)) : i \in Moves(c) /\ Append(c, w)[i] = c[i]
      BY <3>2, ChainGrows
    <3> QED  BY <3>1, <3>3 DEF c
  <2>3. IsRecord(r2)
    BY <1>1, <1>3, <2>1, <2>2 DEF IsRecord
  <2>4. InStep(r, h, missing)
    BY <1>7 DEF IsSound
  <2>5. InStep(r2, h, missing)
    <3>1. AtMostOne(Moves(r2.chain))
      BY <2>2, <2>4 DEF InStep, AtMostOne
    <3>2. \A i \in Moves(r2.chain) :
            r2.pc = IF r2.chain[i].event.from = None THEN "initializing" ELSE "writing"
      BY <2>1, <2>2, <2>4 DEF InStep
    <3>3. IF r2.loaded THEN r2.seq = Replayed(h).seq ELSE r2.seq = 0
      BY <2>1, <2>4 DEF InStep
    <3>4. ASSUME NEW e \in ToSet(r2.events), e.type = "note"
          PROVE  \/ e.by \in missing
                 \/ e \in ToSet(h.events)
                 \/ \E v \in ToSet(r2.chain) : v.event = e
      <4>1. e \in ToSet(r.events) \/ e = note
        BY <1>3, <2>1, <3>4
      <4> QED  BY <1>4, <2>2, <2>4, <3>4, <4>1 DEF InStep
    <3> QED  BY <3>1, <3>2, <3>3, <3>4 DEF InStep
  <2>6. Moving(r, h, chains, missing, r2, h, chains, missing)
    BY <1>7, <2>2, <2>3, <2>5, RecordMoves
  <2> QED  BY <2>6 DEF r2
<1>8. CASE ~hasStore
  <2>1. r2 = [state |-> r.state, seq |-> r.seq, since |-> r.since, loaded |-> r.loaded,
              pc |-> r.pc, chain |-> r.chain, events |-> events]
    BY <1>5, <1>6, <1>8
  <2>2. IsRecord(r2)
    BY <1>1, <1>3, <2>1 DEF IsRecord
  <2>3. Alone(r)
    BY <1>8 DEF IsSound
  <2>4. InOrder(events, r.seq)
    <3>1. Follows(note, r.seq) /\ r.seq \in Int
      BY <1>1, <1>2 DEF Follows
    <3>2. InOrder(r.events, r.seq)
      BY <2>3 DEF Alone
    <3> QED  BY <1>1, <1>2, <3>1, <3>2, InOrderGrows DEF events
  <2>5. Alone(r2) /\ r.seq <= r2.seq
    BY <1>1, <2>1, <2>3, <2>4 DEF Alone
  <2>6. ToSet(r.chain) \subseteq ToSet(r2.chain)
    BY <2>1
  <2>7. Moving(r, h, chains, missing, r2, h, chains, missing)
    BY <1>8, <2>2, <2>5, <2>6, RecordMoves
  <2> QED  BY <2>7 DEF r2
<1> QED  BY <1>7, <1>8

\* A write settles: it is appended, or it was a note and is refused.
Settles(h, w, missing, h2, missing2) ==
  \/ /\ Replayed(h).seq = w.expected
     /\ h2 = [h EXCEPT !.events = Append(@, w.event)]
     /\ missing2 = missing
  \/ /\ w.event.type = "note"
     /\ h2 = h
     /\ missing2 = missing \cup {w.event.by}

LEMMA AfterTheWrite ==
  ASSUME NEW h, Filed(h), NEW w, IsWrite(w), NEW missing, NEW h2, NEW missing2,
         Settles(h, w, missing, h2, missing2)
  PROVE  /\ Filed(h2) /\ h2.snap = h.snap
         /\ ToSet(h.events) \subseteq ToSet(h2.events) /\ missing \subseteq missing2
         /\ Replayed(h).seq \in Int /\ Replayed(h2).seq \in Int
         /\ Replayed(h).seq <= Replayed(h2).seq
         /\ w.event.type = "note" => /\ Replayed(h2).seq = Replayed(h).seq
                                     /\ w.event.by \in missing2 \/ w.event \in ToSet(h2.events)
         /\ w.event.type # "note" => Replayed(h2).seq = w.event.seq
<1>1. Replayed(h).seq \in Int
  BY FiledSeq
<1>2. CASE /\ Replayed(h).seq = w.expected
           /\ h2 = [h EXCEPT !.events = Append(@, w.event)]
           /\ missing2 = missing
  <2> DEFINE e == w.event
  <2>1. Follows(e, Replayed(h).seq)
    BY <1>2 DEF IsWrite, Follows
  <2> HIDE DEF e
  <2>2. h2 = [h EXCEPT !.events = Append(@, e)]
    BY <1>2 DEF e
  <2>3. /\ Filed(h2) /\ Replayed(h2).seq = e.seq
        /\ ToSet(h2.events) = ToSet(h.events) \cup {e} /\ h2.snap = h.snap
    <3>1. \A next : next = [h EXCEPT !.events = Append(@, e)] =>
             /\ Filed(next) /\ Replayed(next).seq = e.seq
             /\ ToSet(next.events) = ToSet(h.events) \cup {e}
             /\ next.snap = h.snap
      BY <2>1, FiledGrows
    <3> QED  BY <2>2, <3>1
  <2>4. /\ e.type = "note" => e.seq = Replayed(h).seq
        /\ e.type # "note" => e.seq = Replayed(h).seq + 1
    BY <2>1 DEF Follows
  <2> QED  BY <1>1, <1>2, <2>3, <2>4 DEF e
<1>3. CASE /\ w.event.type = "note" /\ h2 = h
           /\ missing2 = missing \cup {w.event.by}
  BY <1>1, <1>3
<1> QED  BY <1>2, <1>3 DEF Settles

\* The first write of a record's chain.
LEMMA SettleMoves ==
  ASSUME NEW r, NEW h, NEW chains, NEW missing, IsSound(r, h, chains, missing),
         r # NoRecord, r.chain # <<>>, NEW h2, NEW missing2,
         Settles(h, Head(r.chain), missing, h2, missing2)
  PROVE  LET event == Head(r.chain).event
             r0 == [r EXCEPT !.chain = Tail(@)]
             r2 == IF event.type = "note" THEN r0
                   ELSE IF event.from = None THEN Initialized(r0, event)
                   ELSE Moved(r0, event)
         IN  Moving(r, h, chains, missing, r2, h2, chains, missing2)
<1> DEFINE w == Head(r.chain)
           rest == Tail(r.chain)
           event == w.event
           r0 == [r EXCEPT !.chain = rest]
           r2 == IF event.type = "note" THEN r0
                 ELSE IF event.from = None THEN Initialized(r0, event)
                 ELSE Moved(r0, event)
           longer == Append(r.events, event)
           since == IF event.from = event.to THEN r.since ELSE event.at
<1>1. /\ hasStore /\ IsRecord(r) /\ InStep(r, h, missing) /\ Filed(h) /\ AreOrphans(chains)
  BY DEF IsSound, Alone
<1>2. /\ r.state \in States /\ r.seq \in Nat /\ AreEvents(r.events) /\ IsChain(r.chain)
      /\ AtMostOne(Reloads(r.events)) /\ (r.pc = "new" => Reloads(r.events) = {})
  BY <1>1, RecordOf
<1>3. /\ IsChain(rest) /\ IsWrite(w) /\ w = r.chain[1]
      /\ ToSet(r.chain) = ToSet(rest) \cup {w} /\ 1 \in 1 .. Len(r.chain)
      /\ \A i \in Moves(rest) : i + 1 \in Moves(r.chain) /\ rest[i] = r.chain[i + 1]
                                /\ i + 1 # 1 /\ i \in Int
  <2>1. \A i \in Moves(rest) : i \in Int
    BY DEF Moves
  <2> QED  BY <1>2, <2>1, ChainShrinks
<1>4. r0 = [state |-> r.state, seq |-> r.seq, since |-> r.since, loaded |-> r.loaded,
            pc |-> r.pc, chain |-> rest, events |-> r.events]
  <2>1. r = [state |-> r.state, seq |-> r.seq, since |-> r.since, loaded |-> r.loaded,
             pc |-> r.pc, chain |-> r.chain, events |-> r.events]
    BY <1>1, RecordShape
  <2> HIDE DEF rest
  <2> QED  BY <2>1
<1> HIDE DEF w, rest
<1>5. IsEvent(event) /\ event.type \in {"transition", "note"}
      /\ (event.type = "transition" => (event.from = None <=> event.seq = 0))
      /\ (event.type = "transition" => event.to \in States) /\ event.seq \in Nat
  BY <1>3 DEF IsWrite, IsEvent
<1>6. /\ Filed(h2) /\ h2.snap = h.snap
      /\ ToSet(h.events) \subseteq ToSet(h2.events) /\ missing \subseteq missing2
      /\ Replayed(h).seq \in Int /\ Replayed(h2).seq \in Int
      /\ Replayed(h).seq <= Replayed(h2).seq
      /\ event.type = "note" => /\ Replayed(h2).seq = Replayed(h).seq
                                /\ event.by \in missing2 \/ event \in ToSet(h2.events)
      /\ event.type # "note" => Replayed(h2).seq = event.seq
  <2>1. Settles(h, w, missing, h2, missing2)
    BY DEF w
  <2> QED  BY <1>1, <1>3, <2>1, AfterTheWrite
<1> HIDE DEF event, r0
<1>7. /\ AreEvents(longer) /\ ToSet(longer) = ToSet(r.events) \cup {event}
      /\ Reloads(longer) = Reloads(r.events)
  BY <1>2, <1>5, EventsGrow
<1>8. \A e \in ToSet(r.events) : e.type = "note" =>
        \/ e.by \in missing2
        \/ e \in ToSet(h2.events)
        \/ \E v \in ToSet(rest) : v.event = e
  <2> SUFFICES ASSUME NEW e \in ToSet(r.events), e.type = "note"
               PROVE  \/ e.by \in missing2
                      \/ e \in ToSet(h2.events)
                      \/ \E v \in ToSet(rest) : v.event = e
    OBVIOUS
  <2>1. \/ e.by \in missing \/ e \in ToSet(h.events)
        \/ \E v \in ToSet(r.chain) : v.event = e
    BY <1>1 DEF InStep
  <2> QED  BY <1>3, <1>6, <2>1 DEF event
<1>9. event.type # "note" =>
        /\ Moves(rest) = {}
        /\ r.pc = IF event.from = None THEN "initializing" ELSE "writing"
  <2> SUFFICES ASSUME event.type # "note"
               PROVE  /\ Moves(rest) = {}
                      /\ r.pc = IF event.from = None THEN "initializing" ELSE "writing"
    OBVIOUS
  <2>1. 1 \in Moves(r.chain)
    BY <1>3 DEF Moves, event
  <2>2. \A i \in Moves(rest) : i + 1 = 1
    BY <1>1, <1>3, <2>1 DEF InStep, AtMostOne
  <2> QED  BY <1>1, <1>3, <2>1, <2>2 DEF InStep, event
<1>10. IsRecord(r2) /\ InStep(r2, h2, missing2) /\ r2.chain = rest
  <2>1. CASE event.type = "note"
    <3>1. r2 = [state |-> r.state, seq |-> r.seq, since |-> r.since, loaded |-> r.loaded,
                pc |-> r.pc, chain |-> rest, events |-> r.events]
      BY <1>4, <2>1
    <3> HIDE DEF r2
    <3>2. r.pc \in {"new", "initializing", "adopted", "turn", "writing", "moved", "idle"}
          /\ r.loaded \in BOOLEAN /\ (r.loaded <=> r.pc \notin {"new", "initializing"})
      BY <1>1 DEF IsRecord
    <3>3. IsRecord(r2)
      BY <1>2, <1>3, <3>1, <3>2 DEF IsRecord
    <3>4. AtMostOne(Moves(rest))
      BY <1>1, <1>3 DEF InStep, AtMostOne
    <3>5. \A i \in Moves(rest) :
            r.pc = IF rest[i].event.from = None THEN "initializing" ELSE "writing"
      BY <1>1, <1>3 DEF InStep
    <3>6. IF r.loaded THEN r.seq = Replayed(h2).seq ELSE r.seq = 0
      BY <1>1, <1>6, <2>1 DEF InStep
    <3>7. InStep(r2, h2, missing2)
      BY <1>8, <3>1, <3>4, <3>5, <3>6 DEF InStep
    <3> QED  BY <3>1, <3>3, <3>7
  <2>2. CASE event.type # "note" /\ event.from = None
    <3>1. r2 = [state |-> r.state, seq |-> r.seq, since |-> r.since, loaded |-> TRUE,
                pc |-> "turn", chain |-> rest, events |-> longer]
      BY <1>4, <2>2 DEF Initialized
    <3> HIDE DEF r2, longer
    <3>2. IsRecord(r2)
      BY <1>2, <1>3, <1>7, <3>1 DEF IsRecord
    <3>3. r.seq = 0 /\ Replayed(h2).seq = 0
      <4>1. ~r.loaded
        BY <1>1, <1>9, <2>2, LoadedIs
      <4> QED  BY <1>1, <1>5, <1>6, <2>2, <4>1 DEF InStep
    <3>4. InStep(r2, h2, missing2)
      BY <1>7, <1>8, <1>9, <2>2, <3>1, <3>3 DEF InStep, AtMostOne
    <3> QED  BY <3>1, <3>2, <3>4
  <2>3. CASE event.type # "note" /\ event.from # None
    <3>1. r2 = [state |-> event.to, seq |-> event.seq, since |-> since, loaded |-> r.loaded,
                pc |-> "moved", chain |-> rest, events |-> longer]
      BY <1>4, <2>3 DEF Moved
    <3> HIDE DEF r2, longer, since
    <3>2. r.loaded = TRUE
      BY <1>1, <1>9, <2>3, LoadedIs
    <3>3. IsRecord(r2)
      BY <1>2, <1>3, <1>5, <1>7, <2>3, <3>1, <3>2 DEF IsRecord
    <3>4. InStep(r2, h2, missing2)
      BY <1>6, <1>7, <1>8, <1>9, <2>3, <3>1, <3>2 DEF InStep, AtMostOne
    <3> QED  BY <3>1, <3>3, <3>4
  <2> QED  BY <2>1, <2>2, <2>3
<1> HIDE DEF r2, longer, since
<1>11. r2 # NoRecord
  BY <1>10, NoRecordIsNone
<1>12. IsSound(r2, h2, chains, missing2)
  BY <1>1, <1>6, <1>10 DEF IsSound
<1>13. Advances(r, h, chains, missing, r2, h2, chains, missing2)
  <2>1. ASSUME NEW v \in Writes(r, chains), v.event.type = "note"
        PROVE  \/ v \in Writes(r2, chains) \/ v.event.by \in missing2
               \/ v.event \in ToSet(h2.events)
    <3>1. v \in Writes(r2, chains) \/ v = w
      BY <1>3, <1>10, <1>11, <2>1 DEF Writes
    <3> QED  BY <1>6, <2>1, <3>1 DEF event
  <2> QED  BY <1>6, <2>1 DEF Advances
<1>14. KnownOf(r, h) <= KnownOf(r2, h2)
  BY <1>1, <1>6, <1>12, Sound
<1>15. Moving(r, h, chains, missing, r2, h2, chains, missing2)
  BY <1>12, <1>13, <1>14 DEF Moving
<1> QED  BY <1>15 DEF r2, r0, event, w, rest

\* The chain of an evicted record goes on.
LEMMA OrphanMoves ==
  ASSUME NEW r, NEW h, NEW chains, NEW missing, IsSound(r, h, chains, missing),
         NEW c \in chains, NEW h2, NEW missing2, Settles(h, Head(c), missing, h2, missing2),
         NEW chains2, chains2 = (chains \ {c}) \cup ({Tail(c)} \ {<<>>})
  PROVE  Moving(r, h, chains, missing, r, h2, chains2, missing2)
<1> DEFINE w == Head(c)
<1>1. /\ hasStore /\ Filed(h) /\ AreOrphans(chains) /\ IsChain(c) /\ c # <<>> /\ Moves(c) = {}
      /\ (r # NoRecord => IsRecord(r) /\ InStep(r, h, missing))
  BY DEF IsSound, AreOrphans
<1>2. /\ IsChain(Tail(c)) /\ IsWrite(w) /\ w = c[1]
      /\ ToSet(c) = ToSet(Tail(c)) \cup {w} /\ 1 \in 1 .. Len(c)
      /\ \A i \in Moves(Tail(c)) : i + 1 \in Moves(c)
  BY <1>1, ChainShrinks
<1> HIDE DEF w
<1>3. w.event.type = "note"
  BY <1>1, <1>2 DEF Moves
<1>4. /\ Filed(h2) /\ h2.snap = h.snap
      /\ ToSet(h.events) \subseteq ToSet(h2.events) /\ missing \subseteq missing2
      /\ Replayed(h).seq \in Int /\ Replayed(h2).seq = Replayed(h).seq
      /\ w.event.by \in missing2 \/ w.event \in ToSet(h2.events)
  <2>1. Settles(h, w, missing, h2, missing2) /\ IsWrite(w) /\ Filed(h)
    BY <1>1, <1>2 DEF w
  <2>2. /\ Filed(h2) /\ h2.snap = h.snap
        /\ ToSet(h.events) \subseteq ToSet(h2.events) /\ missing \subseteq missing2
        /\ Replayed(h).seq \in Int /\ Replayed(h2).seq \in Int
        /\ Replayed(h).seq <= Replayed(h2).seq
        /\ w.event.type = "note" => /\ Replayed(h2).seq = Replayed(h).seq
                                    /\ w.event.by \in missing2 \/ w.event \in ToSet(h2.events)
        /\ w.event.type # "note" => Replayed(h2).seq = w.event.seq
    BY <2>1, AfterTheWrite
  <2> QED  BY <1>3, <2>2
<1>5. Moves(Tail(c)) = {}
  BY <1>1, <1>2
<1>6. AreOrphans(chains2)
  BY <1>1, <1>2, <1>5 DEF AreOrphans
<1>7. r # NoRecord => InStep(r, h2, missing2)
  BY <1>1, <1>4 DEF InStep
<1>8. IsSound(r, h2, chains2, missing2)
  BY <1>1, <1>4, <1>6, <1>7 DEF IsSound
<1>9. ASSUME NEW v \in Writes(r, chains), v.event.type = "note"
      PROVE  \/ v \in Writes(r, chains2) \/ v.event.by \in missing2
             \/ v.event \in ToSet(h2.events)
  <2> DEFINE own == IF r = NoRecord THEN {} ELSE {r.chain}
  <2>1. PICK d \in chains \cup own : v \in ToSet(d)
    BY <1>9 DEF Writes
  <2>2. CASE d \in own \/ (d \in chains /\ d # c)
    BY <2>1, <2>2 DEF Writes
  <2>3. CASE d = c
    <3>1. CASE v \in ToSet(Tail(c))
      <4>1. Tail(c) # <<>>
        <5>1. ToSet(<<>>) = {}
          BY NoWrites
        <5> QED  BY <3>1, <5>1
      <4>2. Tail(c) \in chains2
        BY <4>1
      <4> HIDE DEF own
      <4> QED  BY <3>1, <4>2 DEF Writes
    <3>2. CASE v = w
      BY <1>4, <3>2
    <3> QED  BY <1>2, <2>1, <2>3, <3>1, <3>2
  <2> QED  BY <2>1, <2>2, <2>3
<1>10. Advances(r, h, chains, missing, r, h2, chains2, missing2)
  <2>1. Replayed(h).seq <= Replayed(h2).seq
    BY <1>4
  <2>2. \A e \in ToSet(h.events) : e.type = "note" => e \in ToSet(h2.events)
    BY <1>4
  <2>3. missing \subseteq missing2 /\ (h.snap # NoPicture => h2.snap # NoPicture)
    BY <1>4
  <2> QED  BY <1>9, <2>1, <2>2, <2>3 DEF Advances
<1>11. KnownOf(r, h) <= KnownOf(r, h2)
  BY <1>1, <1>4, <1>8, Sound
<1> QED  BY <1>8, <1>10, <1>11 DEF Moving

\* A fold.
LEMMA FoldMoves ==
  ASSUME NEW r, NEW h, NEW chains, NEW missing, IsSound(r, h, chains, missing),
         hasStore, Replayed(h) # NoPicture,
         NEW h2, h2 = [snap |-> Replayed(h),
                       events |-> Picked(h.events, DOMAIN h.events \ Commits(h.events))]
  PROVE  Moving(r, h, chains, missing, r, h2, chains, missing)
<1>1. /\ Filed(h) /\ AreOrphans(chains)
      /\ (r # NoRecord => IsRecord(r) /\ InStep(r, h, missing))
  BY DEF IsSound
<1>2. /\ Filed(h2) /\ Replayed(h2) = Replayed(h) /\ h2.snap # NoPicture
      /\ \A e \in ToSet(h.events) : e.type = "note" => e \in ToSet(h2.events)
  BY <1>1, FiledFolds
<1>3. r # NoRecord => InStep(r, h2, missing)
  BY <1>1, <1>2 DEF InStep
<1>4. IsSound(r, h2, chains, missing)
  BY <1>1, <1>2, <1>3 DEF IsSound
<1>5. Replayed(h).seq \in Int
  BY <1>1, FiledSeq
<1>6. Advances(r, h, chains, missing, r, h2, chains, missing)
  BY <1>2, <1>5 DEF Advances
<1>7. KnownOf(r, h) <= KnownOf(r, h2)
  BY <1>2, <1>4, <1>5, Sound
<1> QED  BY <1>4, <1>6, <1>7 DEF Moving

\* An eviction: the record goes, its chain goes on, and what it was may be
\* snapshotted.
LEMMA EvictionMoves ==
  ASSUME NEW r, NEW h, NEW chains, NEW missing, IsSound(r, h, chains, missing),
         r # NoRecord, r.pc = "idle",
         NEW chains2, chains2 = IF r.chain # <<>> THEN chains \cup {r.chain} ELSE chains,
         NEW h2, h2 = h \/ (hasStore /\ h2 = [h EXCEPT !.snap = PictureOf(r)])
  PROVE  /\ IsSound(NoRecord, h2, chains2, missing)
         /\ Advances(r, h, chains, missing, NoRecord, h2, chains2, missing)
         /\ hasStore => KnownOf(r, h) <= KnownOf(NoRecord, h2)
<1>1. /\ Filed(h) /\ AreOrphans(chains) /\ IsRecord(r)
      /\ Replayed(h).seq \in Int
  BY FiledSeq DEF IsSound
<1>2. Filed(h2) /\ Replayed(h2).seq = Replayed(h).seq /\ h2.events = h.events
      /\ (h.snap # NoPicture => h2.snap # NoPicture)
  <2>1. CASE h2 = h
    BY <1>1, <2>1
  <2>2. CASE hasStore /\ h2 = [h EXCEPT !.snap = PictureOf(r)]
    <3> DEFINE p == PictureOf(r)
    <3>1. r.state \in States /\ r.seq \in Nat /\ r.loaded
      BY <1>1, RecordOf, LoadedIs
    <3>2. r.seq = Replayed(h).seq
      BY <2>2, <3>1 DEF IsSound, InStep
    <3>3. p = Picture(r.state, r.seq, r.since)
      BY DEF PictureOf
    <3>4. IsPicture(p) /\ p # NoPicture /\ p.seq = Replayed(h).seq
      BY <3>1, <3>2, <3>3, Pictured DEF IsPicture
    <3> HIDE DEF p
    <3>5. h2 = [h EXCEPT !.snap = p]
      BY <2>2 DEF p
    <3>6. \A next : next = [h EXCEPT !.snap = p] =>
             /\ Filed(next) /\ Replayed(next) = p /\ next.snap # NoPicture
             /\ next.events = h.events
      BY <1>1, <3>4, FiledSnapshot
    <3> QED  BY <3>4, <3>5, <3>6
  <2> QED  BY <2>1, <2>2
<1>3. IsChain(r.chain) /\ (hasStore => Moves(r.chain) = {}) /\ (~hasStore => r.chain = <<>>)
  BY <1>1, RecordOf DEF IsSound, InStep, Alone
<1>4. AreOrphans(chains2)
  BY <1>1, <1>3 DEF AreOrphans
<1>5. IsSound(NoRecord, h2, chains2, missing)
  BY <1>1, <1>2, <1>3, <1>4 DEF IsSound
<1>6. Writes(r, chains) \subseteq Writes(NoRecord, chains2)
  <2> SUFFICES ASSUME NEW d \in chains \cup {r.chain}, NEW v \in ToSet(d)
               PROVE  \E e \in chains2 : v \in ToSet(e)
    BY DEF Writes
  <2>1. CASE d \in chains
    BY <2>1
  <2>2. CASE d = r.chain
    <3>1. r.chain # <<>>
      <4>1. ToSet(<<>>) = {}
        BY NoWrites
      <4> QED  BY <2>2, <4>1
    <3> QED  BY <2>2, <3>1
  <2> QED  BY <2>1, <2>2
<1>7. Advances(r, h, chains, missing, NoRecord, h2, chains2, missing)
  <2>1. Replayed(h).seq <= Replayed(h2).seq
    BY <1>1, <1>2
  <2>2. \A e \in ToSet(h.events) : e.type = "note" => e \in ToSet(h2.events)
    BY <1>2
  <2>3. \A v \in Writes(r, chains) : v \in Writes(NoRecord, chains2)
    BY <1>6
  <2> QED  BY <1>2, <2>1, <2>2, <2>3 DEF Advances
<1>8. hasStore => KnownOf(r, h) <= KnownOf(NoRecord, h2)
  BY <1>1, <1>2, <1>5, Sound
<1> QED  BY <1>5, <1>7, <1>8

\* The process ends, with the store or without it.
LEMMA RestartIsSound ==
  ASSUME NEW r, NEW h, NEW chains, NEW missing, IsSound(r, h, chains, missing),
         NEW h2, h2 = Nothing \/ (hasStore /\ h2 = h)
  PROVE  IsSound(NoRecord, h2, {}, missing)
         /\ (hasStore /\ h2 = h => KnownOf(r, h) = KnownOf(NoRecord, h2))
<1>1. Filed(h2) /\ AreOrphans({}) /\ (~hasStore => h2 = Nothing)
  BY NothingIsFiled DEF IsSound, AreOrphans
<1>2. IsSound(NoRecord, h2, {}, missing)
  BY <1>1 DEF IsSound
<1>3. hasStore /\ h2 = h => KnownOf(r, h) = KnownOf(NoRecord, h2)
  BY <1>2, Sound
<1> QED  BY <1>2, <1>3

-----------------------------------------------------------------------------
(* The tables, and the steps on them.                                      *)

RecordInv ==
  /\ record = [k \in Keys |-> record[k]] /\ orphans = [k \in Keys |-> orphans[k]]
  /\ store = [k \in Keys |-> store[k]] /\ acked = [k \in Keys |-> acked[k]]
  /\ \A k \in Keys : IsSound(record[k], store[k], orphans[k], lost)

\* Key k makes a step, and no other.
Only(k) ==
  /\ UNCHANGED setup
  /\ record' = [j \in Keys |-> record'[j]] /\ orphans' = [j \in Keys |-> orphans'[j]]
  /\ store' = [j \in Keys |-> store'[j]] /\ UNCHANGED acked
  /\ lost \subseteq lost'
  /\ \A j \in Keys \ {k} :
       record'[j] = record[j] /\ orphans'[j] = orphans[j] /\ store'[j] = store[j]
  /\ Moving(record[k], store[k], orphans[k], lost,
            record'[k], store'[k], orphans'[k], lost')

LEMMA SendIsOnly ==
  ASSUME RecordInv, NEW k \in Keys, Send(k)
  PROVE  Only(k)
<1>1. /\ UNCHANGED <<setup, orphans, store, acked, lost>>
      /\ record = [j \in Keys |-> record[j]]
      /\ orphans = [j \in Keys |-> orphans[j]] /\ store = [j \in Keys |-> store[j]]
      /\ IsSound(record[k], store[k], orphans[k], lost)
  BY DEF Send, RecordInv
<1>2. CASE record' = record
  <2>1. Moving(record[k], store[k], orphans[k], lost, record[k], store[k], orphans[k], lost)
    BY <1>1, Stays
  <2> QED  BY <1>1, <1>2, <2>1 DEF Only
<1>3. CASE record[k] # NoRecord /\ record' # record
  <2> DEFINE r2 == [record[k] EXCEPT !.pc = "turn"]
  <2>1. record' = [record EXCEPT ![k] = r2] /\ record[k].pc = "idle"
    BY <1>3 DEF Send
  <2>2. Moving(record[k], store[k], orphans[k], lost, r2, store[k], orphans[k], lost)
    BY <1>1, <1>3, <2>1, TurnMoves
  <2> HIDE DEF r2
  <2> QED  BY <1>1, <2>1, <2>2 DEF Only
<1>4. CASE record[k] = NoRecord /\ record' # record
  <2>1. record' = [record EXCEPT ![k] = Fresh]
    BY <1>4 DEF Send
  <2>2. Moving(record[k], store[k], orphans[k], lost, Fresh, store[k], orphans[k], lost)
    BY <1>1, <1>4, FreshMoves
  <2> QED  BY <1>1, <2>1, <2>2 DEF Only
<1> QED  BY <1>2, <1>3, <1>4

LEMMA HydrateIsOnly ==
  ASSUME RecordInv, NEW k \in Keys, Hydrate(k)
  PROVE  Only(k)
<1> DEFINE r == record[k]
           p == Replayed(store[k])
           first == [Persists(r, Dated(Transition(0, None, Initial, 0), r.since), EMPTY_SEQ)
                       EXCEPT !.pc = "initializing"]
           adopted == [r EXCEPT !.state = p.state, !.seq = p.seq, !.since = p.since,
                         !.loaded = TRUE, !.pc = "adopted",
                         !.events = Append(@, Dated(Restored(p.seq, p.state, 0), r.since))]
           r2 == IF p = NoPicture THEN first ELSE adopted
<1>1. /\ UNCHANGED <<setup, orphans, store, acked, lost>>
      /\ record = [j \in Keys |-> record[j]]
      /\ orphans = [j \in Keys |-> orphans[j]] /\ store = [j \in Keys |-> store[j]]
      /\ IsSound(r, store[k], orphans[k], lost)
      /\ r # NoRecord /\ r.pc = "new"
  BY DEF Hydrate, RecordInv
<1>2. record' = [record EXCEPT ![k] = r2]
  BY DEF Hydrate, Stored
<1>3. Moving(r, store[k], orphans[k], lost, first, store[k], orphans[k], lost)
  BY <1>1, InitializingMoves
<1>4. p # NoPicture =>
        Moving(r, store[k], orphans[k], lost, adopted, store[k], orphans[k], lost)
  BY <1>1, AdoptedMoves
<1>5. Moving(r, store[k], orphans[k], lost, r2, store[k], orphans[k], lost)
  <2> HIDE DEF first, adopted
  <2> QED  BY <1>3, <1>4
<1> HIDE DEF r2
<1> QED  BY <1>1, <1>2, <1>5 DEF Only

LEMMA ReindexIsOnly ==
  ASSUME RecordInv, NEW k \in Keys, Reindex(k)
  PROVE  Only(k)
<1> DEFINE r2 == [record[k] EXCEPT !.pc = "turn"]
<1>1. /\ UNCHANGED <<setup, orphans, store, acked, lost>>
      /\ record = [j \in Keys |-> record[j]]
      /\ orphans = [j \in Keys |-> orphans[j]] /\ store = [j \in Keys |-> store[j]]
      /\ IsSound(record[k], store[k], orphans[k], lost)
      /\ record[k] # NoRecord /\ record[k].pc = "adopted"
      /\ record' = [record EXCEPT ![k] = r2]
  BY DEF Reindex, RecordInv
<1>2. Moving(record[k], store[k], orphans[k], lost, r2, store[k], orphans[k], lost)
  BY <1>1, TurnMoves
<1> HIDE DEF r2
<1> QED  BY <1>1, <1>2 DEF Only

LEMMA CommitIsOnly ==
  ASSUME RecordInv, NEW k \in Keys, NEW to \in States, Commit(k, to)
  PROVE  Only(k)
<1> DEFINE r == record[k]
           event == Dated(Transition(r.seq + 1, r.state, to, 0), now)
           r2 == IF hasStore THEN [Persists(r, event, r.seq) EXCEPT !.pc = "writing"]
                             ELSE Moved(r, event)
<1>1. /\ UNCHANGED <<setup, orphans, store, acked, lost>>
      /\ record = [j \in Keys |-> record[j]]
      /\ orphans = [j \in Keys |-> orphans[j]] /\ store = [j \in Keys |-> store[j]]
      /\ IsSound(r, store[k], orphans[k], lost)
      /\ r # NoRecord /\ r.pc = "turn"
  BY DEF Commit, RecordInv
<1>2. record' = [record EXCEPT ![k] = r2]
  BY DEF Commit
<1>3. Moving(r, store[k], orphans[k], lost, r2, store[k], orphans[k], lost)
  BY <1>1, CommitMoves
<1> HIDE DEF r2
<1> QED  BY <1>1, <1>2, <1>3 DEF Only

LEMMA RecordIsOnly ==
  ASSUME RecordInv, NEW k \in Keys, Record(k)
  PROVE  Only(k)
<1> DEFINE r == record[k]
           note == Dated(Note(r.seq, r.state, left["notes"]), now)
           r2 == Persists([r EXCEPT !.events = Append(@, note)], note, r.seq)
<1>1. /\ UNCHANGED <<setup, orphans, store, acked, lost>>
      /\ record = [j \in Keys |-> record[j]]
      /\ orphans = [j \in Keys |-> orphans[j]] /\ store = [j \in Keys |-> store[j]]
      /\ IsSound(r, store[k], orphans[k], lost) /\ r # NoRecord
  BY DEF Record, RecordInv
<1>2. record' = [record EXCEPT ![k] = r2]
  BY DEF Record
<1>3. Moving(r, store[k], orphans[k], lost, r2, store[k], orphans[k], lost)
  BY <1>1, NoteMoves
<1> HIDE DEF r2
<1> QED  BY <1>1, <1>2, <1>3 DEF Only

LEMMA AppendsSettles ==
  ASSUME RecordInv, NEW k \in Keys, NEW w, Appends(k, w)
  PROVE  /\ Settles(store[k], w, lost, store'[k], lost') /\ lost \subseteq lost'
         /\ store' = [j \in Keys |-> store'[j]]
         /\ \A j \in Keys \ {k} : store'[j] = store[j]
<1>1. store = [j \in Keys |-> store[j]]
  BY DEF RecordInv
<1>2. CASE StoredSeq(k) = w.expected
  <2> DEFINE h2 == [store[k] EXCEPT !.events = Append(@, w.event)]
  <2>1. store' = [store EXCEPT ![k] = h2] /\ lost' = lost
    BY <1>2 DEF Appends
  <2>2. Replayed(store[k]).seq = w.expected
    BY <1>2 DEF StoredSeq, Stored
  <2>3. Settles(store[k], w, lost, h2, lost)
    BY <2>2 DEF Settles
  <2> HIDE DEF h2
  <2> QED  BY <1>1, <2>1, <2>3
<1>3. CASE StoredSeq(k) # w.expected
  BY <1>1, <1>3 DEF Appends, Settles
<1> QED  BY <1>2, <1>3

LEMMA SettleIsOnly ==
  ASSUME RecordInv, NEW k \in Keys, Settle(k)
  PROVE  Only(k)
<1> DEFINE r == record[k]
           event == Head(r.chain).event
           r0 == [r EXCEPT !.chain = Tail(@)]
           r2 == IF event.type = "note" THEN r0
                 ELSE IF event.from = None THEN Initialized(r0, event)
                 ELSE Moved(r0, event)
<1>1. /\ UNCHANGED <<setup, orphans, acked>>
      /\ record = [j \in Keys |-> record[j]] /\ orphans = [j \in Keys |-> orphans[j]]
      /\ IsSound(r, store[k], orphans[k], lost)
      /\ r # NoRecord /\ r.chain # <<>> /\ Appends(k, Head(r.chain))
  BY DEF Settle, RecordInv
<1>2. record' = [record EXCEPT ![k] = r2]
  BY DEF Settle
<1>3. /\ Settles(store[k], Head(r.chain), lost, store'[k], lost') /\ lost \subseteq lost'
      /\ store' = [j \in Keys |-> store'[j]]
      /\ \A j \in Keys \ {k} : store'[j] = store[j]
  BY <1>1, AppendsSettles
<1>4. Moving(r, store[k], orphans[k], lost, r2, store'[k], orphans[k], lost')
  BY <1>1, <1>3, SettleMoves
<1> HIDE DEF r2
<1> QED  BY <1>1, <1>2, <1>3, <1>4 DEF Only

LEMMA SettleOrphanIsOnly ==
  ASSUME RecordInv, NEW k \in Keys, SettleOrphan(k)
  PROVE  Only(k)
<1>1. PICK c \in orphans[k] :
        /\ Appends(k, Head(c))
        /\ orphans' = [orphans EXCEPT ![k] = (@ \ {c}) \cup ({Tail(c)} \ {<<>>})]
  BY DEF SettleOrphan
<1> DEFINE chains2 == (orphans[k] \ {c}) \cup ({Tail(c)} \ {<<>>})
<1>2. /\ UNCHANGED <<setup, record, acked>>
      /\ record = [j \in Keys |-> record[j]] /\ orphans = [j \in Keys |-> orphans[j]]
      /\ IsSound(record[k], store[k], orphans[k], lost)
      /\ orphans' = [orphans EXCEPT ![k] = chains2]
  BY <1>1 DEF SettleOrphan, RecordInv
<1>3. /\ Settles(store[k], Head(c), lost, store'[k], lost') /\ lost \subseteq lost'
      /\ store' = [j \in Keys |-> store'[j]]
      /\ \A j \in Keys \ {k} : store'[j] = store[j]
  BY <1>1, AppendsSettles
<1>4. Moving(record[k], store[k], orphans[k], lost, record[k], store'[k], chains2, lost')
  BY <1>2, <1>3, OrphanMoves
<1> HIDE DEF chains2
<1> QED  BY <1>2, <1>3, <1>4 DEF Only

LEMMA FoldIsOnly ==
  ASSUME RecordInv, NEW k \in Keys, Fold(k)
  PROVE  Only(k)
<1> DEFINE h == store[k]
           h2 == [snap |-> Replayed(h),
                  events |-> Picked(h.events, DOMAIN h.events \ Commits(h.events))]
<1>1. /\ UNCHANGED <<setup, record, orphans, acked, lost>>
      /\ record = [j \in Keys |-> record[j]] /\ orphans = [j \in Keys |-> orphans[j]]
      /\ store = [j \in Keys |-> store[j]]
      /\ IsSound(record[k], h, orphans[k], lost)
      /\ hasStore /\ Replayed(h) # NoPicture
  BY DEF Fold, RecordInv, memory, Stored
<1>2. store' = [store EXCEPT ![k] = h2]
  BY DEF Fold, Stored
<1>3. Moving(record[k], h, orphans[k], lost, record[k], h2, orphans[k], lost)
  BY <1>1, FoldMoves
<1> HIDE DEF h2
<1> QED  BY <1>1, <1>2, <1>3 DEF Only

\* What became of every key, unless the process ended.
Goes(k) ==
  /\ IsSound(record'[k], store'[k], orphans'[k], lost')
  /\ Advances(record[k], store[k], orphans[k], lost,
              record'[k], store'[k], orphans'[k], lost')
  /\ \/ KnownOf(record[k], store[k]) <= KnownOf(record'[k], store'[k])
     \/ ~hasStore /\ config.memory.allowDiscard = TRUE

KeysGo ==
  /\ UNCHANGED setup
  /\ record' = [j \in Keys |-> record'[j]] /\ orphans' = [j \in Keys |-> orphans'[j]]
  /\ store' = [j \in Keys |-> store'[j]]
  /\ \A k \in Keys : Goes(k)
  /\ \E k \in Keys : Residents(record') \subseteq Residents(record) \cup {k}

LEMMA OnlyGoes ==
  ASSUME RecordInv, NEW k \in Keys, Only(k)
  PROVE  KeysGo /\ UNCHANGED acked
<1>1. ASSUME NEW j \in Keys PROVE Goes(j)
  <2>1. CASE j = k
    BY <2>1 DEF Only, Moving, Goes
  <2>2. CASE j # k
    <3>1. IsSound(record[j], store[j], orphans[j], lost) /\ lost \subseteq lost'
      BY DEF RecordInv, Only
    <3>2. Moving(record[j], store[j], orphans[j], lost, record[j], store[j], orphans[j], lost')
      BY <3>1, Stays
    <3>3. record'[j] = record[j] /\ store'[j] = store[j] /\ orphans'[j] = orphans[j]
      BY <2>2 DEF Only
    <3> QED  BY <3>2, <3>3 DEF Moving, Goes
  <2> QED  BY <2>1, <2>2
<1>2. Residents(record') \subseteq Residents(record) \cup {k}
  BY DEF Only, Residents
<1> QED  BY <1>1, <1>2 DEF KeysGo, Only

-----------------------------------------------------------------------------
(* The configuration and the bounds.                                       *)

What == {"asks", "histories", "sends", "notes", "folds", "restarts", "ticks"}

\* A behaviour in which a commit may be lost: nothing durable, and the process
\* ended, or the application said that records may be discarded.
Excused ==
  /\ ~durable
  /\ \/ left["restarts"] < setup.bounds["restarts"]
     \/ config.memory.allowDiscard = TRUE

KeptInv ==
  /\ setup \in Setups /\ ValidConfig(config)
  /\ left \in [What -> Nat] /\ left["restarts"] <= setup.bounds["restarts"]
  /\ IsFiniteSet(Residents(record))
  /\ \A k \in Keys : acked[k] \in Int
  /\ Excused \/ \A k \in Keys : acked[k] <= KnownOf(record[k], store[k])

\* Whoever reads a history keeps the record it found, or what the record had
\* reloaded when it was evicted.
ReadsOn ==
  \/ /\ reading' = reading
     /\ reading.pc \in {"flushing", "read"} /\ reading.holds \in Keys =>
          (record[reading.holds] # NoRecord => record'[reading.holds] # NoRecord)
  \/ /\ reading.pc \in {"flushing", "read"}
     /\ \E r : /\ IsRecord(r)
              /\ reading' = [reading EXCEPT !.holds = None, !.restores = RestoresOf(r)]

\* Nothing is evicted unless the budget says so.
LEMMA VictimsAre ==
  ASSUME KeptInv, NEW recs, IsFiniteSet(Residents(recs)), NEW gone \in Victims(recs),
         ~hasStore, gone # {}
  PROVE  config.memory.allowDiscard = TRUE
<1> DEFINE idle == {k \in Residents(recs) : recs[k].pc = "idle"}
<1>1. gone \subseteq idle /\ Cardinality(gone) = Min({Excess(recs), Cardinality(idle)})
  BY DEF Victims
<1>2. IsFiniteSet(idle)
  BY FS_Subset
<1> HIDE DEF idle
<1>3. Cardinality(idle) \in Nat /\ Cardinality(gone) # 0
  BY <1>1, <1>2, FS_CardinalityType, FS_Subset, FS_EmptySet
<1>4. Excess(recs) # 0
  <2> SUFFICES ASSUME Excess(recs) = 0 PROVE FALSE
    OBVIOUS
  <2>1. Min({0, Cardinality(idle)}) = 0
    BY <1>3 DEF Min
  <2> QED  BY <1>1, <1>3, <2>1
<1>5. EvictionOf(config.memory) = "lru" /\ ~Unlimited(config.memory)
  BY <1>4 DEF Excess
<1>6. ValidMemory(config.memory, LayersOf(config) # <<>>)
  BY DEF KeptInv, ValidConfig
<1>7. LayersOf(config) = <<>>
  BY DEF hasStore, layers
<1> QED  BY <1>5, <1>6, <1>7 DEF ValidMemory

LEMMA IdleMoves ==
  ASSUME NEW r, NEW h, NEW chains, NEW missing, IsSound(r, h, chains, missing),
         r # NoRecord, r.pc \in {"turn", "moved"}
  PROVE  LET r2 == [r EXCEPT !.pc = "idle"]
         IN  /\ Moving(r, h, chains, missing, r2, h, chains, missing)
             /\ IsRecord(r2) /\ r2.chain = r.chain /\ r2.seq = r.seq
             /\ r2.pc = "idle" /\ r2.loaded
<1> DEFINE r2 == [r EXCEPT !.pc = "idle"]
<1>1. Moving(r, h, chains, missing, r2, h, chains, missing)
  BY TurnMoves
<1>2. IsRecord(r) /\ r.loaded
  BY LoadedIs DEF IsSound
<1>3. r = [state |-> r.state, seq |-> r.seq, since |-> r.since, loaded |-> r.loaded,
           pc |-> r.pc, chain |-> r.chain, events |-> r.events]
  BY <1>2, RecordShape
<1>4. r2 = [state |-> r.state, seq |-> r.seq, since |-> r.since, loaded |-> r.loaded,
            pc |-> "idle", chain |-> r.chain, events |-> r.events]
  BY <1>3
<1> HIDE DEF r2
<1>5. r2.chain = r.chain /\ r2.seq = r.seq /\ r2.pc = "idle" /\ r2.loaded
  BY <1>2, <1>4
<1>6. r2 # NoRecord
  <2>1. "chain" \in DOMAIN r2 /\ "chain" \notin DOMAIN NoRecord
    BY <1>4 DEF NoRecord
  <2> QED  BY <2>1
<1>7. IsRecord(r2)
  BY <1>1, <1>6 DEF Moving, IsSound
<1> QED  BY <1>1, <1>5, <1>7 DEF r2

\* The end of a turn, and the evictions after it.
LEMMA TurnEndsGoes ==
  ASSUME RecordInv, KeptInv, UNCHANGED <<setup, lost>>, NEW k \in Keys, record[k] # NoRecord,
         record[k].pc \in {"turn", "moved"}, NEW entered, TurnEnds(k, record[k], entered)
  PROVE  KeysGo /\ ReadsOn
<1> DEFINE r2 == [record[k] EXCEPT !.pc = "idle"]
           recs == [record EXCEPT ![k] = r2]
<1>1. PICK gone \in Victims(recs) :
        /\ record' = [j \in Keys |-> IF j \in gone THEN NoRecord ELSE recs[j]]
        /\ orphans' = [j \in Keys |->
             IF j \in gone /\ recs[j].chain # <<>>
               THEN orphans[j] \cup {recs[j].chain} ELSE orphans[j]]
        /\ store' = [j \in Keys |->
             IF j \in gone THEN Snapshotted(j, recs[j]) ELSE store[j]]
        /\ reading' =
             IF reading.pc \in {"flushing", "read"} /\ reading.holds \in gone
               THEN [reading EXCEPT !.holds = None,
                       !.restores = RestoresOf(recs[reading.holds])]
               ELSE reading
  BY DEF TurnEnds
<1>2. /\ record = [j \in Keys |-> record[j]]
      /\ \A j \in Keys : IsSound(record[j], store[j], orphans[j], lost)
  BY DEF RecordInv
<1>3. /\ Moving(record[k], store[k], orphans[k], lost, r2, store[k], orphans[k], lost)
      /\ IsRecord(r2) /\ r2.chain = record[k].chain /\ r2.seq = record[k].seq
      /\ r2.pc = "idle" /\ r2.loaded
  BY <1>2, IdleMoves
<1>4. r2 # NoRecord
  BY <1>3, NoRecordIsNone
<1> HIDE DEF r2
<1>5. recs = [j \in Keys |-> IF j = k THEN r2 ELSE record[j]]
  BY <1>2
<1> HIDE DEF recs
<1>6. Residents(recs) = Residents(record)
  BY <1>4, <1>5 DEF Residents
<1>7. \A j \in gone : j \in Keys /\ recs[j] # NoRecord /\ recs[j].pc = "idle"
  BY DEF Victims, Residents
<1>8. ASSUME NEW j \in Keys
      PROVE  /\ IsSound(recs[j], store[j], orphans[j], lost)
             /\ Advances(record[j], store[j], orphans[j], lost,
                         recs[j], store[j], orphans[j], lost)
             /\ Writes(record[j], orphans[j]) = Writes(recs[j], orphans[j])
             /\ KnownOf(record[j], store[j]) = KnownOf(recs[j], store[j])
  <2>1. CASE j = k
    <3>1. record[k].loaded
      BY <1>2, LoadedIs DEF IsSound
    <3>2. recs[j] = r2
      BY <1>5, <2>1
    <3>3. Writes(record[k], orphans[k]) = Writes(r2, orphans[k])
      BY <1>3, <1>4 DEF Writes
    <3>4. KnownOf(record[k], store[k]) = KnownOf(r2, store[k])
      BY <1>3, <1>4, <3>1 DEF KnownOf
    <3> QED  BY <1>3, <2>1, <3>2, <3>3, <3>4 DEF Moving
  <2>2. CASE j # k
    <3>1. recs[j] = record[j]
      BY <1>5, <2>2
    <3>2. Moving(record[j], store[j], orphans[j], lost, record[j], store[j], orphans[j], lost)
      BY <1>2, Stays
    <3> QED  BY <3>1, <3>2 DEF Moving
  <2> QED  BY <2>1, <2>2
<1>9. ASSUME NEW j \in Keys, j \notin gone
      PROVE  Goes(j)
  <2>1. record'[j] = recs[j] /\ orphans'[j] = orphans[j] /\ store'[j] = store[j]
    BY <1>1, <1>9
  <2>2. KnownOf(record[j], store[j]) \in Int
    BY <1>2, Sound
  <2> QED  BY <1>8, <2>1, <2>2 DEF Goes
<1>10. ASSUME NEW j \in Keys, j \in gone
       PROVE  Goes(j)
  <2> DEFINE q == recs[j]
             chains2 == IF q.chain # <<>> THEN orphans[j] \cup {q.chain} ELSE orphans[j]
             h2 == Snapshotted(j, q)
  <2>1. record'[j] = NoRecord /\ orphans'[j] = chains2 /\ store'[j] = h2
    BY <1>1, <1>10
  <2>2. q # NoRecord /\ q.pc = "idle" /\ IsSound(q, store[j], orphans[j], lost)
    BY <1>7, <1>8, <1>10
  <2>3. h2 = store[j] \/ (hasStore /\ h2 = [store[j] EXCEPT !.snap = PictureOf(q)])
    BY DEF Snapshotted
  <2> HIDE DEF q, h2
  <2>4. /\ IsSound(NoRecord, h2, chains2, lost)
        /\ Advances(q, store[j], orphans[j], lost, NoRecord, h2, chains2, lost)
        /\ hasStore => KnownOf(q, store[j]) <= KnownOf(NoRecord, h2)
    BY <2>2, <2>3, EvictionMoves
  <2>5. Advances(record[j], store[j], orphans[j], lost, NoRecord, h2, chains2, lost)
    <3>1. Writes(record[j], orphans[j]) = Writes(q, orphans[j])
      BY <1>8 DEF q
    <3> HIDE DEF chains2
    <3> QED  BY <2>4, <3>1 DEF Advances
  <2>6. hasStore \/ config.memory.allowDiscard = TRUE
    <3>1. IsFiniteSet(Residents(recs))
      BY <1>6 DEF KeptInv
    <3> QED  BY <1>10, <3>1, VictimsAre
  <2>7. KnownOf(record[j], store[j]) = KnownOf(q, store[j])
    BY <1>8 DEF q
  <2> HIDE DEF chains2
  <2>8. hasStore => KnownOf(record[j], store[j]) <= KnownOf(NoRecord, h2)
    BY <2>4, <2>7
  <2> QED  BY <2>1, <2>4, <2>5, <2>6, <2>8 DEF Goes
<1>11. Residents(record') \subseteq Residents(record) \cup {k}
  <2>1. Residents(record') \subseteq Residents(recs)
    BY <1>1 DEF Residents
  <2> QED  BY <1>6, <2>1
<1>12. /\ record' = [j \in Keys |-> record'[j]] /\ orphans' = [j \in Keys |-> orphans'[j]]
       /\ store' = [j \in Keys |-> store'[j]]
  BY <1>1
<1>13. KeysGo
  BY <1>9, <1>10, <1>11, <1>12 DEF KeysGo
<1>14. CASE reading.pc \in {"flushing", "read"} /\ reading.holds \in gone
  <2>1. reading' = [reading EXCEPT !.holds = None, !.restores = RestoresOf(recs[reading.holds])]
    BY <1>1, <1>14
  <2>2. IsRecord(recs[reading.holds])
    BY <1>7, <1>8, <1>14 DEF IsSound
  <2> QED  BY <1>13, <1>14, <2>1, <2>2 DEF ReadsOn
<1>15. CASE ~(reading.pc \in {"flushing", "read"} /\ reading.holds \in gone)
  <2>1. reading' = reading
    BY <1>1, <1>15
  <2>2. ASSUME reading.pc \in {"flushing", "read"}, reading.holds \in Keys,
               record[reading.holds] # NoRecord
        PROVE  record'[reading.holds] # NoRecord
    BY <1>1, <1>4, <1>5, <1>15, <2>2
  <2> QED  BY <1>13, <2>1, <2>2 DEF ReadsOn
<1> QED  BY <1>13, <1>14, <1>15

-----------------------------------------------------------------------------
(* Every step of the runtime.                                              *)

KeyStep(k) ==
  \/ Send(k) \/ Hydrate(k) \/ Reindex(k) \/ Record(k) \/ Settle(k) \/ SettleOrphan(k)
  \/ Fold(k) \/ \E to \in States : Commit(k, to)

LEMMA KeyStepIsOnly ==
  ASSUME RecordInv, NEW k \in Keys, KeyStep(k)
  PROVE  Only(k) /\ UNCHANGED reading
<1>1. Only(k)
  BY SendIsOnly, HydrateIsOnly, ReindexIsOnly, RecordIsOnly, SettleIsOnly,
     SettleOrphanIsOnly, FoldIsOnly, CommitIsOnly DEF KeyStep
<1>2. UNCHANGED reading
  BY DEF KeyStep, Send, Hydrate, Reindex, Record, Settle, SettleOrphan, Fold, Commit
<1> QED  BY <1>1, <1>2

\* Only the end of a turn evicts.
LEMMA NobodyGoes ==
  ASSUME RecordInv, NEW k \in Keys, KeyStep(k), NEW j \in Keys, record[j] # NoRecord
  PROVE  record'[j] # NoRecord
<1>1. CASE j # k
  BY <1>1, KeyStepIsOnly DEF Only
<1>2. CASE j = k
  <2>1. record = [i \in Keys |-> record[i]] /\ IsRecord(record[k])
    BY <1>2 DEF RecordInv, IsSound
  <2>2. "chain" \in DOMAIN record[k] /\ "chain" \notin DOMAIN NoRecord
    BY <2>1 DEF IsRecord, NoRecord
  <2>3. ASSUME NEW r2, record' = [record EXCEPT ![k] = r2], DOMAIN r2 = DOMAIN record[k]
        PROVE  record'[j] # NoRecord
    BY <1>2, <2>1, <2>2, <2>3
  <2>4. CASE record' = record
    BY <2>4
  <2>5. CASE Send(k)
    <3> DEFINE r2 == [record[k] EXCEPT !.pc = "turn"]
    <3>1. record' = [record EXCEPT ![k] = r2]
      BY <1>2, <2>5 DEF Send
    <3>2. DOMAIN r2 = DOMAIN record[k]
      OBVIOUS
    <3> HIDE DEF r2
    <3> QED  BY <2>3, <3>1, <3>2
  <2>6. CASE Hydrate(k)
    <3> DEFINE r == record[k]
               p == Stored(k)
               init == Dated(Transition(0, None, Initial, 0), r.since)
               e == Dated(Restored(p.seq, p.state, 0), r.since)
               r2 == IF p = NoPicture
                       THEN [Persists(r, init, EMPTY_SEQ) EXCEPT !.pc = "initializing"]
                       ELSE [r EXCEPT !.state = p.state, !.seq = p.seq, !.since = p.since,
                               !.loaded = TRUE, !.pc = "adopted", !.events = Append(@, e)]
    <3>1. record' = [record EXCEPT ![k] = r2]
      BY <2>6 DEF Hydrate
    <3>2. DOMAIN r2 = DOMAIN r
      <4> HIDE DEF r, p, init, e
      <4> QED  BY DEF Persists
    <3> HIDE DEF r2
    <3> QED  BY <2>3, <3>1, <3>2
  <2>7. CASE Reindex(k)
    <3> DEFINE r2 == [record[k] EXCEPT !.pc = "turn"]
    <3>1. record' = [record EXCEPT ![k] = r2]
      BY <2>7 DEF Reindex
    <3>2. DOMAIN r2 = DOMAIN record[k]
      OBVIOUS
    <3> HIDE DEF r2
    <3> QED  BY <2>3, <3>1, <3>2
  <2>8. CASE Record(k)
    <3> DEFINE r == record[k]
               note == Dated(Note(r.seq, r.state, left["notes"]), now)
               r2 == Persists([r EXCEPT !.events = Append(@, note)], note, r.seq)
    <3>1. record' = [record EXCEPT ![k] = r2]
      BY <2>8 DEF Record
    <3>2. DOMAIN r2 = DOMAIN r
      <4> HIDE DEF r, note
      <4> QED  BY DEF Persists
    <3> HIDE DEF r2
    <3> QED  BY <2>3, <3>1, <3>2
  <2>9. CASE Settle(k)
    <3> DEFINE r == record[k]
               event == Head(r.chain).event
               r0 == [r EXCEPT !.chain = Tail(@)]
               r2 == IF event.type = "note" THEN r0
                     ELSE IF event.from = None THEN Initialized(r0, event)
                     ELSE Moved(r0, event)
    <3>1. record' = [record EXCEPT ![k] = r2]
      BY <2>9 DEF Settle
    <3>2. DOMAIN r2 = DOMAIN r
      <4>1. DOMAIN r0 = DOMAIN r
        OBVIOUS
      <4> HIDE DEF r0, event
      <4> QED  BY <4>1 DEF Initialized, Moved
    <3> HIDE DEF r2
    <3> QED  BY <2>3, <3>1, <3>2
  <2>10. CASE SettleOrphan(k) \/ Fold(k)
    BY <2>4, <2>10 DEF SettleOrphan, Fold, memory
  <2>11. ASSUME NEW to \in States, Commit(k, to) PROVE record'[j] # NoRecord
    <3> DEFINE r == record[k]
               event == Dated(Transition(r.seq + 1, r.state, to, 0), now)
               r2 == IF hasStore THEN [Persists(r, event, r.seq) EXCEPT !.pc = "writing"]
                                 ELSE Moved(r, event)
    <3>1. record' = [record EXCEPT ![k] = r2]
      BY <2>11 DEF Commit
    <3>2. DOMAIN r2 = DOMAIN r
      <4> HIDE DEF r, event
      <4> QED  BY DEF Persists, Moved
    <3> HIDE DEF r2
    <3> QED  BY <2>3, <3>1, <3>2
  <2> QED  BY <2>5, <2>6, <2>7, <2>8, <2>9, <2>10, <2>11 DEF KeyStep
<1> QED  BY <1>1, <1>2

\* A sender is told of the commit that was made.
Tells ==
  /\ acked' = [j \in Keys |-> acked'[j]]
  /\ \A j \in Keys : acked'[j] = acked[j] \/ acked'[j] = KnownOf(record[j], store[j])

Spends ==
  \/ left' = left
  \/ \E what \in What : left[what] > 0 /\ left' = [left EXCEPT ![what] = @ - 1]

LEMMA KeysRun ==
  ASSUME RecordInv, KeptInv, NEW k \in Keys, KeyStep(k) \/ Committed(k) \/ Fail(k)
  PROVE  KeysGo /\ ReadsOn /\ Tells
<1>1. CASE KeyStep(k)
  <2>1. KeysGo /\ UNCHANGED acked
    BY <1>1, KeyStepIsOnly, OnlyGoes
  <2>2. ReadsOn
    BY <1>1, KeyStepIsOnly, NobodyGoes DEF ReadsOn
  <2>3. Tells
    BY <2>1 DEF Tells, RecordInv
  <2> QED  BY <2>1, <2>2, <2>3
<1>2. CASE Committed(k)
  <2>1. /\ UNCHANGED <<setup, lost>> /\ record[k] # NoRecord /\ record[k].pc = "moved"
        /\ TurnEnds(k, record[k], Entered(k)) /\ acked' = [acked EXCEPT ![k] = record[k].seq]
        /\ acked = [j \in Keys |-> acked[j]]
    BY <1>2 DEF Committed, RecordInv
  <2>2. KeysGo /\ ReadsOn
    <3>1. record[k].pc \in {"turn", "moved"}
      BY <2>1
    <3> QED  BY <2>1, <3>1, TurnEndsGoes
  <2>3. record[k].loaded
    BY <2>1, LoadedIs DEF RecordInv, IsSound
  <2>4. KnownOf(record[k], store[k]) = record[k].seq
    BY <2>1, <2>3 DEF KnownOf
  <2>5. Tells
    BY <2>1, <2>4 DEF Tells
  <2> QED  BY <2>2, <2>5
<1>3. CASE Fail(k)
  <2>1. /\ UNCHANGED <<setup, lost, acked>> /\ record[k] # NoRecord /\ record[k].pc = "turn"
        /\ TurnEnds(k, record[k], index)
        /\ acked = [j \in Keys |-> acked[j]]
    BY <1>3 DEF Fail, RecordInv
  <2>2. KeysGo /\ ReadsOn
    <3>1. record[k].pc \in {"turn", "moved"}
      BY <2>1
    <3> QED  BY <2>1, <3>1, TurnEndsGoes
  <2> QED  BY <2>1, <2>2 DEF Tells
<1> QED  BY <1>1, <1>2, <1>3

\* The end of the process.
Ends ==
  /\ UNCHANGED <<setup, acked, lost>> /\ reading' = NoReading
  /\ record' = [k \in Keys |-> NoRecord] /\ orphans' = [k \in Keys |-> {}]
  /\ store' = IF durable THEN store ELSE [k \in Keys |-> Nothing]
  /\ left["restarts"] > 0 /\ left' = [left EXCEPT !["restarts"] = @ - 1]

LEMMA StepsAre ==
  ASSUME RecordInv, KeptInv, [Next \/ Rest]_vars
  PROVE  \/ Ends
         \/ /\ Spends
            /\ \/ KeysGo /\ ReadsOn /\ Tells
               \/ UNCHANGED <<setup, record, orphans, store, acked, lost>>
<1>1. ASSUME NEW k \in Keys, KeyStep(k) \/ Committed(k) \/ Fail(k)
      PROVE  Spends /\ KeysGo /\ ReadsOn /\ Tells
  <2>1. KeysGo /\ ReadsOn /\ Tells
    BY <1>1, KeysRun
  <2>2. Spends
    BY <1>1 DEF KeyStep, Committed, Fail, Send, Hydrate, Reindex, Record, Settle, SettleOrphan,
       Fold, Commit, May, Going, Spends, What
  <2> QED  BY <2>1, <2>2
<1>2. CASE Restart
  BY <1>2 DEF Restart, Ends, May
<1>3. CASE Passes
  BY <1>3 DEF Passes, May, memory, Spends, What
<1>4. CASE Reads
  <2>1. UNCHANGED <<setup, memory, store, acked, lost>> /\ Spends
    BY <1>4 DEF Reads, Ask, ScanNext, Answer, AskHistory, ReadHistory, AnswerHistory,
       May, Going, Spends, What
  <2> QED  BY <2>1 DEF memory
<1>5. CASE UNCHANGED vars
  BY <1>5 DEF vars, memory, Spends
<1>6. CASE Runs
  <2>1. (\E k \in Keys : KeyStep(k) \/ Committed(k) \/ Fail(k)) \/ Restart \/ Passes
    BY <1>6 DEF Runs, KeyStep
  <2> QED  BY <1>1, <1>2, <1>3, <2>1
<1> QED  BY <1>4, <1>5, <1>6 DEF Next, Rest

\* The invariant of the next state, whose configuration is the same.
LEMMA SoundNext ==
  ASSUME UNCHANGED setup,
         record' = [k \in Keys |-> record'[k]], orphans' = [k \in Keys |-> orphans'[k]],
         store' = [k \in Keys |-> store'[k]], acked' = [k \in Keys |-> acked'[k]],
         \A k \in Keys : IsSound(record'[k], store'[k], orphans'[k], lost')
  PROVE  RecordInv'
<1>1. hasStore' = hasStore
  BY SameConfig
<1>2. \A k \in Keys : IsSound(record[k], store[k], orphans[k], lost)'
  BY <1>1 DEF IsSound
<1> QED  BY <1>2 DEF RecordInv

LEMMA SpendsLess ==
  ASSUME KeptInv, Spends
  PROVE  left' \in [What -> Nat] /\ left'["restarts"] <= left["restarts"]
<1>1. left \in [What -> Nat] /\ "restarts" \in What
  BY DEF KeptInv, What
<1> QED  BY <1>1 DEF Spends

LEMMA ExcusedStays ==
  ASSUME KeptInv, UNCHANGED setup, left'["restarts"] \in Nat,
         left'["restarts"] <= left["restarts"]
  PROVE  /\ Excused => Excused'
         /\ setup' \in Setups /\ ValidConfig(config)'
         /\ left'["restarts"] <= setup'.bounds["restarts"]
<1>1. durable' = durable /\ config' = config
  BY SameConfig DEF config
<1>2. setup.bounds["restarts"] \in Nat /\ left["restarts"] \in Nat
  BY SetupsAssumption DEF KeptInv, What
<1>3. Excused => Excused'
  BY <1>1, <1>2 DEF Excused
<1> QED  BY <1>1, <1>2, <1>3 DEF KeptInv

LEMMA GoesOnSafely ==
  ASSUME RecordInv, KeptInv, Spends, KeysGo, Tells
  PROVE  RecordInv' /\ KeptInv'
<1>1. RecordInv'
  BY SoundNext DEF KeysGo, Tells, Goes
<1>2. UNCHANGED setup /\ left' \in [What -> Nat] /\ left'["restarts"] <= left["restarts"]
  BY SpendsLess DEF KeysGo
<1>3. /\ Excused => Excused'
      /\ setup' \in Setups /\ ValidConfig(config)'
      /\ left'["restarts"] <= setup'.bounds["restarts"]
  BY <1>2, ExcusedStays DEF What
<1>4. IsFiniteSet(Residents(record'))
  <2>1. PICK k \in Keys : Residents(record') \subseteq Residents(record) \cup {k}
    BY DEF KeysGo
  <2>2. IsFiniteSet(Residents(record) \cup {k})
    BY FS_AddElement DEF KeptInv
  <2> QED  BY <2>1, <2>2, FS_Subset
<1>5. \A k \in Keys : KnownOf(record[k], store[k]) \in Int
  BY Sound DEF RecordInv
<1>6. \A k \in Keys : KnownOf(record'[k], store'[k]) \in Int
  BY <1>2, Sound DEF KeysGo, Goes
<1>7. \A k \in Keys : acked'[k] \in Int
  BY <1>5 DEF Tells, KeptInv
<1>8. ASSUME ~Excused, NEW k \in Keys PROVE acked'[k] <= KnownOf(record'[k], store'[k])
  <2>1. KnownOf(record[k], store[k]) <= KnownOf(record'[k], store'[k])
    BY <1>8 DEF KeysGo, Goes, Excused, durable
  <2>2. acked'[k] <= KnownOf(record[k], store[k])
    BY <1>5, <1>8 DEF Tells, KeptInv
  <2> QED  BY <1>5, <1>6, <1>7, <2>1, <2>2
<1>9. KeptInv'
  <2>1. IsFiniteSet(Residents(record))'
    BY <1>4 DEF Residents
  <2>2. Excused' \/ \A k \in Keys : acked'[k] <= KnownOf(record'[k], store'[k])
    BY <1>3, <1>8
  <2> QED  BY <1>2, <1>3, <1>7, <2>1, <2>2 DEF KeptInv
<1> QED  BY <1>1, <1>9

LEMMA EndsSafely ==
  ASSUME RecordInv, KeptInv, Ends
  PROVE  RecordInv' /\ KeptInv'
<1>1. durable => hasStore
  BY DEF durable
<1>2. \A k \in Keys : /\ record'[k] = NoRecord /\ orphans'[k] = {}
                      /\ store'[k] = IF durable THEN store[k] ELSE Nothing
  BY DEF Ends
<1>3. \A k \in Keys : /\ IsSound(NoRecord, store'[k], {}, lost)
                      /\ durable => KnownOf(record[k], store[k]) = KnownOf(NoRecord, store'[k])
  BY <1>1, <1>2, RestartIsSound DEF RecordInv
<1>4. store' = [k \in Keys |-> store'[k]]
  BY DEF Ends, RecordInv
<1>5. RecordInv'
  BY <1>2, <1>3, <1>4, SoundNext DEF Ends, RecordInv
<1>6. left' \in [What -> Nat] /\ left'["restarts"] < left["restarts"] /\ UNCHANGED <<setup, acked>>
      /\ left["restarts"] \in Nat /\ left'["restarts"] \in Nat
  BY DEF Ends, KeptInv, What
<1>7. /\ Excused => Excused'
      /\ setup' \in Setups /\ ValidConfig(config)'
      /\ left'["restarts"] <= setup'.bounds["restarts"]
  BY <1>6, ExcusedStays
<1>8. ~durable => Excused'
  <2>1. durable' = durable
    BY <1>6, SameConfig
  <2>2. setup.bounds["restarts"] \in Nat
    BY SetupsAssumption DEF KeptInv, What
  <2>3. left'["restarts"] < setup'.bounds["restarts"]
    BY <1>6, <2>2 DEF KeptInv
  <2> QED  BY <2>1, <2>3 DEF Excused
<1>9. Residents(record') = {}
  BY <1>2 DEF Residents
<1>10. IsFiniteSet(Residents(record))'
  BY <1>9, FS_EmptySet DEF Residents
<1>11. Excused' \/ \A k \in Keys : acked'[k] <= KnownOf(record'[k], store'[k])
  BY <1>2, <1>3, <1>6, <1>7, <1>8 DEF KeptInv
<1> QED  BY <1>5, <1>6, <1>7, <1>10, <1>11 DEF KeptInv

LEMMA RecordsKeep ==
  ASSUME RecordInv, KeptInv, [Next \/ Rest]_vars
  PROVE  RecordInv' /\ KeptInv'
<1>1. CASE Ends
  BY <1>1, EndsSafely
<1>2. CASE Spends /\ KeysGo /\ ReadsOn /\ Tells
  BY <1>2, GoesOnSafely
<1>3. CASE Spends /\ UNCHANGED <<setup, record, orphans, store, acked, lost>>
  <2>1. RecordInv'
    BY <1>3, SoundNext DEF RecordInv
  <2>2. left' \in [What -> Nat] /\ left'["restarts"] <= left["restarts"]
    BY <1>3, SpendsLess
  <2>3. /\ Excused => Excused'
        /\ setup' \in Setups /\ ValidConfig(config)'
        /\ left'["restarts"] <= setup'.bounds["restarts"]
    BY <1>3, <2>2, ExcusedStays DEF What
  <2>4. IsFiniteSet(Residents(record))'
    BY <1>3 DEF KeptInv, Residents
  <2>5. Excused' \/ \A k \in Keys : acked'[k] <= KnownOf(record'[k], store'[k])
    BY <1>3, <2>3 DEF KeptInv
  <2> QED  BY <1>3, <2>1, <2>2, <2>3, <2>4, <2>5 DEF KeptInv
<1> QED  BY <1>1, <1>2, <1>3, StepsAre

LEMMA RecordsHold == Spec => [](RecordInv /\ KeptInv)
<1>1. Init => RecordInv /\ KeptInv
  <2> SUFFICES ASSUME Init PROVE RecordInv /\ KeptInv
    OBVIOUS
  <2>1. /\ setup \in Setups /\ ValidConfig(config) /\ left = setup.bounds
        /\ setup.bounds \in [What -> Nat]
    BY SetupsAssumption DEF Init, config, What
  <2>2. \A k \in Keys : record[k] = NoRecord /\ store[k] = Nothing /\ orphans[k] = {}
                        /\ acked[k] = EMPTY_SEQ
    BY DEF Init
  <2>3. lost = {} /\ AreOrphans({})
    BY DEF Init, AreOrphans
  <2>4. \A k \in Keys : IsSound(record[k], store[k], orphans[k], lost)
    BY <2>2, <2>3, NothingIsFiled DEF IsSound
  <2>5. RecordInv
    BY <2>4 DEF Init, RecordInv
  <2>6. Residents(record) = {}
    BY <2>2 DEF Residents
  <2>7. IsFiniteSet(Residents(record))
    BY <2>6, FS_EmptySet
  <2>8. \A k \in Keys : acked[k] \in Int /\ acked[k] <= KnownOf(record[k], store[k])
    <3>1. EMPTY_SEQ = -1 /\ Replayed(Nothing).seq = EMPTY_SEQ
      BY NothingIsFiled, Pictured DEF EMPTY_SEQ
    <3> QED  BY <2>2, <3>1 DEF KnownOf
  <2>9. left["restarts"] \in Nat /\ left["restarts"] <= setup.bounds["restarts"]
    BY <2>1 DEF What
  <2> QED  BY <2>1, <2>5, <2>7, <2>8, <2>9 DEF KeptInv
<1>2. RecordInv /\ KeptInv /\ [Next \/ Rest]_vars => RecordInv' /\ KeptInv'
  BY RecordsKeep
<1> QED  BY <1>1, <1>2, PTL DEF Spec

\* A stack with a durable layer has a durable authority.
LEMMA LayeredIsDurable ==
  ASSUME ValidConfig(config), Layered
  PROVE  durable
<1>1. layers # <<>>
  BY DEF Layered
<1>2. Durable(authority)
  <2>1. ValidStack(layers)
    BY DEF ValidConfig, layers
  <2> QED  BY <1>1, <2>1 DEF ValidStack, Layered, authority
<1> QED  BY <1>1, <1>2 DEF durable, hasStore

-----------------------------------------------------------------------------
(* A history under way.                                                    *)

AreReloads(list) ==
  /\ IsList(list) /\ Len(list) <= 1
  /\ \A i \in 1 .. Len(list) : IsRestore(list[i]) /\ list[i].seq \in Nat

\* Every note a history was asked with is filed, or was refused; or it is
\* still to be written, and the history waits for it.
AreAwaited(q, h, writes, missing) ==
  \A e \in q.notes : e.type = "note" /\
    \/ e.by \in missing
    \/ e \in ToSet(h.events)
    \/ \E w \in q.waits \cap writes : w.event = e

\* What a history read has every commit up to a sequence from its first one on,
\* and what it does not have was folded.
WasRead(q, h, missing, lasting) ==
  /\ \A e \in q.notes : e.by \in missing \/ e \in ToSet(q.events)
  /\ AreEvents(q.events)
  /\ \E seq \in Int : InOrder(q.events, seq) /\ (lasting => q.acked <= seq)
  /\ lasting /\ q.events = <<>> => q.acked <= EMPTY_SEQ \/ h.snap # NoPicture

GoesOn(q, h, writes, missing, lasting) ==
  /\ q.acked \in Int
  /\ lasting => q.acked <= Replayed(h).seq
  /\ q.pc = "flushing" => AreAwaited(q, h, writes, missing)
  /\ q.pc = "read" => WasRead(q, h, missing, lasting)

IsHonest(q) ==
  LET events == q.events
  IN  /\ OneByOne(events) /\ Placed(events)
      /\ q.complete /\ (events = <<>> \/ 1 \in Commits(events)) =>
           /\ LatestSeq(events) >= q.acked
           /\ events # <<>> => events[1].from = None

UnderWay ==
  /\ hasStore /\ reading.key \in Keys
  /\ \/ reading.holds = None /\ AreReloads(reading.restores)
     \/ reading.holds = reading.key /\ record[reading.key] # NoRecord
  /\ GoesOn(reading, store[reading.key],
            Writes(record[reading.key], orphans[reading.key]), lost, durable)

IsAnswered ==
  /\ IsHonest(reading)
  /\ \A e \in reading.notes : e.by \in lost \/ e \in ToSet(reading.events)

HistoryInv ==
  IsHistory(reading) =>
    /\ reading.pc = "answered" => IsAnswered
    /\ reading.pc # "answered" => UnderWay

-----------------------------------------------------------------------------

LEMMA GoesOnFurther ==
  ASSUME NEW r, NEW h, NEW chains, NEW missing, NEW r2, NEW h2, NEW chains2, NEW missing2,
         Advances(r, h, chains, missing, r2, h2, chains2, missing2),
         Replayed(h).seq \in Int, Replayed(h2).seq \in Int,
         NEW q, NEW lasting, GoesOn(q, h, Writes(r, chains), missing, lasting)
  PROVE  GoesOn(q, h2, Writes(r2, chains2), missing2, lasting)
<1>1. lasting => q.acked <= Replayed(h2).seq
  BY DEF Advances, GoesOn
<1>2. ASSUME AreAwaited(q, h, Writes(r, chains), missing)
      PROVE  AreAwaited(q, h2, Writes(r2, chains2), missing2)
  <2> SUFFICES ASSUME NEW e \in q.notes
               PROVE  e.type = "note" /\ \/ e.by \in missing2
                                         \/ e \in ToSet(h2.events)
                                         \/ \E w \in q.waits \cap Writes(r2, chains2) : w.event = e
    BY DEF AreAwaited
  <2>1. e.type = "note" /\ \/ e.by \in missing
                           \/ e \in ToSet(h.events)
                           \/ \E w \in q.waits \cap Writes(r, chains) : w.event = e
    BY <1>2 DEF AreAwaited
  <2>2. CASE e.by \in missing \/ e \in ToSet(h.events)
    BY <2>1, <2>2 DEF Advances
  <2>3. ASSUME NEW w \in q.waits \cap Writes(r, chains), w.event = e
        PROVE  \/ e.by \in missing2
               \/ e \in ToSet(h2.events)
               \/ \E v \in q.waits \cap Writes(r2, chains2) : v.event = e
    BY <2>1, <2>3 DEF Advances
  <2> QED  BY <2>1, <2>2, <2>3
<1>3. ASSUME WasRead(q, h, missing, lasting)
      PROVE  WasRead(q, h2, missing2, lasting)
  BY <1>3 DEF WasRead, Advances
<1> QED  BY <1>1, <1>2, <1>3 DEF GoesOn

\* How a history answers, of what it read and of the reloads of its record.
LEMMA AnswerIsHonest ==
  ASSUME NEW q, NEW h, NEW missing, NEW lasting \in BOOLEAN, WasRead(q, h, missing, lasting),
         q.acked \in Int, NEW restores, AreReloads(restores),
         NEW events, events = MergeRestores(q.events, restores),
         NEW q2, q2.events = events, q2.acked = q.acked, q2.notes = q.notes,
         q2.complete => lasting /\ IF q.events # <<>> THEN ~(q.events[1].seq > 0)
                                                      ELSE h.snap = NoPicture
  PROVE  /\ IsHonest(q2)
         /\ \A e \in q2.notes : e.by \in missing \/ e \in ToSet(q2.events)
<1> DEFINE stored == q.events
<1>1. PICK seq \in Int : InOrder(stored, seq) /\ (lasting => q.acked <= seq)
  BY DEF WasRead
<1>2. AreEvents(stored)
  BY DEF WasRead
<1>3. /\ OneByOne(events) /\ Placed(events) /\ ToSet(stored) \subseteq ToSet(events)
      /\ \A i \in Commits(stored) : LatestSeq(events) \in Nat /\ stored[i].seq <= LatestSeq(events)
      /\ 1 \in Commits(events) => 1 \in Commits(stored) /\ events[1] = stored[1]
      /\ events = <<>> => stored = <<>>
  BY <1>1, <1>2, MergedIsHonest DEF AreReloads
<1>4. \A e \in q.notes : e.by \in missing \/ e \in ToSet(events)
  BY <1>3 DEF WasRead
<1>5. ASSUME q2.complete, events = <<>>
      PROVE  LatestSeq(events) >= q.acked
  <2>1. q.acked <= EMPTY_SEQ
    BY <1>3, <1>5 DEF WasRead
  <2>2. LatestSeq(events) = EMPTY_SEQ
    <3>1. Commits(<<>>) = {}
      BY DEF Commits
    <3> QED  BY <1>5, <3>1 DEF LatestSeq
  <2> QED  BY <2>1, <2>2 DEF EMPTY_SEQ
<1>6. ASSUME q2.complete, 1 \in Commits(events)
      PROVE  LatestSeq(events) >= q.acked /\ events[1].from = None
  <2>1. /\ 1 \in Commits(stored) /\ events[1] = stored[1]
        /\ Commits(stored) \subseteq 1 .. Len(stored)
        /\ \A i \in 1 .. Len(stored) : stored[i].seq \in Nat
    BY <1>2, <1>3, <1>6, EventsOfList DEF IsEvent
  <2>2. stored # <<>> /\ stored[1].seq \in Nat /\ stored[1].seq <= seq
    <3>1. Len(<<>>) = 0
      OBVIOUS
    <3> QED  BY <1>1, <2>1, <3>1 DEF InOrder
  <2>3. stored[1].seq = 0
    BY <1>6, <2>2
  <2>4. events[1].from = None
    BY <1>1, <2>1, <2>3 DEF InOrder
  <2>5. PICK j \in Commits(stored) : stored[j].seq = seq
    <3>1. seq \in stored[1].seq .. seq
      BY <2>2
    <3> QED  BY <1>1, <2>1, <3>1 DEF InOrder
  <2>6. seq <= LatestSeq(events) /\ LatestSeq(events) \in Nat
    BY <1>3, <2>5
  <2>7. q.acked <= seq
    BY <1>1, <1>6
  <2> QED  BY <2>4, <2>6, <2>7
<1> QED  BY <1>3, <1>4, <1>5, <1>6 DEF IsHonest

LEMMA ReadingGoesOn ==
  ASSUME RecordInv, KeysGo, NEW q, q.key \in Keys,
         GoesOn(q, store[q.key], Writes(record[q.key], orphans[q.key]), lost, durable)
  PROVE  GoesOn(q, store'[q.key], Writes(record'[q.key], orphans'[q.key]), lost', durable')
<1> DEFINE k == q.key
<1>1. durable' = durable
  BY SameConfig DEF KeysGo
<1>2. /\ Advances(record[k], store[k], orphans[k], lost,
                  record'[k], store'[k], orphans'[k], lost')
      /\ Replayed(store[k]).seq \in Int /\ Replayed(store'[k]).seq \in Int
  BY Sound DEF RecordInv, KeysGo, Goes
<1> QED  BY <1>1, <1>2, GoesOnFurther

LEMMA RunsGoOn ==
  ASSUME QueryInv, QueryInv', RecordInv, KeptInv, HistoryInv, NEW k \in Keys,
         KeyStep(k) \/ Committed(k) \/ Fail(k)
  PROVE  HistoryInv'
<1>1. KeysGo /\ ReadsOn
  BY KeysRun
<1>2. reading.pc # "answered"
  BY DEF KeyStep, Committed, Fail, Send, Hydrate, Reindex, Record, Settle, SettleOrphan,
     Fold, Commit, May, Going
<1>3. hasStore' = hasStore
  BY <1>1, SameConfig DEF KeysGo
<1>4. SUFFICES ASSUME IsHistory(reading')
               PROVE  reading'.pc # "answered" /\ UnderWay'
  BY DEF HistoryInv, UnderWay
<1>5. CASE reading' = reading /\ (reading.pc \in {"flushing", "read"} /\ reading.holds \in Keys =>
             (record[reading.holds] # NoRecord => record'[reading.holds] # NoRecord))
  <2>1. UnderWay /\ reading.pc \in {"flushing", "read"}
    BY <1>2, <1>4, <1>5 DEF HistoryInv, IsHistory
  <2>2. GoesOn(reading, store'[reading.key], Writes(record'[reading.key], orphans'[reading.key]),
               lost', durable')
    BY <1>1, <2>1, ReadingGoesOn DEF UnderWay
  <2>3. \/ reading.holds = None /\ AreReloads(reading.restores)
        \/ reading.holds = reading.key /\ record'[reading.key] # NoRecord
    BY <1>5, <2>1 DEF UnderWay
  <2> QED  BY <1>2, <1>3, <1>5, <2>1, <2>2, <2>3 DEF UnderWay
<1>6. ASSUME reading.pc \in {"flushing", "read"}, NEW r, IsRecord(r),
             reading' = [reading EXCEPT !.holds = None, !.restores = RestoresOf(r)]
      PROVE  reading'.pc # "answered" /\ UnderWay'
  <2> DEFINE list == RestoresOf(r)
  <2>1. IsHistory(reading)
    BY <1>6, Different DEF QueryInv, IsQuery
  <2>2. UnderWay
    BY <1>2, <2>1 DEF HistoryInv
  <2>3. AreReloads(list)
    BY <1>6, RestoresAre DEF AreReloads
  <2> HIDE DEF list
  <2>4. /\ reading'.pc = reading.pc /\ reading'.key = reading.key /\ reading'.holds = None
        /\ reading'.waits = reading.waits /\ reading'.events = reading.events
        /\ reading'.restores = list /\ reading'.acked = reading.acked
        /\ reading'.notes = reading.notes
    BY <1>6, <2>1 DEF IsHistory, list
  <2>5. GoesOn(reading, store'[reading.key], Writes(record'[reading.key], orphans'[reading.key]),
               lost', durable')
    BY <1>1, <2>2, ReadingGoesOn DEF UnderWay
  <2>6. GoesOn(reading', store'[reading.key], Writes(record'[reading.key], orphans'[reading.key]),
               lost', durable')
    BY <2>4, <2>5 DEF GoesOn, AreAwaited, WasRead
  <2> QED  BY <1>2, <1>3, <2>2, <2>3, <2>4, <2>6 DEF UnderWay
<1> QED  BY <1>1, <1>5, <1>6 DEF ReadsOn

LEMMA AskHistoryKeeps ==
  ASSUME RecordInv, KeptInv, NEW k \in Keys, AskHistory(k)
  PROVE  HistoryInv'
<1>1. /\ UNCHANGED <<setup, record, orphans, store, acked, lost>>
      /\ IsSound(record[k], store[k], orphans[k], lost)
      /\ durable' = durable /\ hasStore' = hasStore
  BY SameConfig DEF AskHistory, memory, RecordInv
<1> DEFINE r == record[k]
           notes == IF r = NoRecord THEN {} ELSE {e \in ToSet(r.events) : e.type = "note"}
           holds == IF r = NoRecord THEN None ELSE k
<1>2. CASE hasStore
  <2>1. reading' = [pc |-> "flushing", key |-> k, holds |-> holds, waits |-> Waits(k),
                    events |-> <<>>, restores |-> <<>>, complete |-> FALSE,
                    acked |-> acked[k], notes |-> notes]
    BY <1>2 DEF AskHistory, History
  <2>2. holds = None \/ (holds = k /\ r # NoRecord)
    OBVIOUS
  <2>3. AreReloads(<<>>)
    BY NoWrites DEF AreReloads, AreEvents
  <2>4. durable => acked[k] <= Replayed(store[k]).seq
    <3>1. hasStore => KnownOf(r, store[k]) = Replayed(store[k]).seq
      BY <1>1, Sound
    <3> QED  BY <1>2, <3>1 DEF KeptInv, Excused
  <2>5. ASSUME NEW e \in notes
        PROVE  e.type = "note" /\ \/ e.by \in lost
                                  \/ e \in ToSet(store[k].events)
                                  \/ \E w \in Waits(k) \cap Writes(r, orphans[k]) : w.event = e
    <3>1. r # NoRecord /\ e \in ToSet(r.events) /\ e.type = "note"
      BY <2>5
    <3>2. Waits(k) = ToSet(r.chain) /\ ToSet(r.chain) \subseteq Writes(r, orphans[k])
      BY <3>1 DEF Waits, Writes
    <3>3. InStep(r, store[k], lost)
      BY <1>1, <1>2, <3>1 DEF IsSound
    <3> QED  BY <3>1, <3>2, <3>3 DEF InStep
  <2> HIDE DEF r, notes, holds
  <2>6. /\ reading'.pc = "flushing" /\ reading'.key = k /\ reading'.holds = holds
        /\ reading'.waits = Waits(k) /\ reading'.restores = <<>> /\ reading'.acked = acked[k]
        /\ reading'.notes = notes
    BY <2>1
  <2>7. GoesOn(reading', store[k], Writes(record[k], orphans[k]), lost, durable)
    BY <2>4, <2>5, <2>6 DEF GoesOn, AreAwaited, KeptInv, r
  <2>8. UnderWay'
    BY <1>1, <1>2, <2>2, <2>3, <2>6, <2>7 DEF UnderWay, r
  <2> QED  BY <2>6, <2>8 DEF HistoryInv, UnderWay
<1>3. CASE ~hasStore
  <2> DEFINE events == IF r = NoRecord THEN <<>> ELSE r.events
  <2>1. reading' = [pc |-> "answered", key |-> k, holds |-> holds, waits |-> Waits(k),
                    events |-> events, restores |-> <<>>, complete |-> FALSE,
                    acked |-> acked[k], notes |-> notes]
    BY <1>3 DEF AskHistory, History
  <2>2. AreEvents(events) /\ \E seq \in Int : InOrder(events, seq)
    <3>1. CASE r = NoRecord
      BY <3>1, NoWrites DEF EMPTY_SEQ
    <3>2. CASE r # NoRecord
      <4>1. Alone(r) /\ IsRecord(r)
        BY <1>1, <1>3, <3>2 DEF IsSound
      <4> QED  BY <3>2, <4>1, RecordOf DEF Alone
    <3> QED  BY <3>1, <3>2
  <2>3. \A e \in notes : e \in ToSet(events)
    OBVIOUS
  <2> HIDE DEF r, notes, holds, events
  <2>4. /\ reading'.pc = "answered" /\ reading'.events = events
        /\ reading'.complete = FALSE /\ reading'.notes = notes
    BY <2>1
  <2>5. OneByOne(events) /\ Placed(events)
    <3>1. PICK seq \in Int : InOrder(events, seq)
      BY <2>2
    <3>2. IsList(<<>>) /\ Len(<<>>) = 0
      BY NoWrites DEF AreEvents
    <3>3. IsList(events)
      BY <2>2 DEF AreEvents
    <3>4. MergeRestores(events, <<>>) = events
      BY <3>3, NothingToMerge
    <3> DEFINE none == <<>>
    <3>5. IsList(none) /\ Len(none) <= 1
          /\ \A i \in 1 .. Len(none) : IsRestore(none[i]) /\ none[i].seq \in Nat
      BY <3>2
    <3>6. events = MergeRestores(events, none)
      BY <3>4
    <3> HIDE DEF none
    <3>7. /\ OneByOne(events) /\ Placed(events) /\ ToSet(events) \subseteq ToSet(events)
          /\ \A i \in Commits(events) : LatestSeq(events) \in Nat
                                        /\ events[i].seq <= LatestSeq(events)
          /\ 1 \in Commits(events) => 1 \in Commits(events) /\ events[1] = events[1]
          /\ events = <<>> => events = <<>>
      BY <2>2, <3>1, <3>5, <3>6, MergedIsHonest
    <3> QED  BY <3>7
  <2>6. IsAnswered'
    BY <2>3, <2>4, <2>5 DEF IsAnswered, IsHonest
  <2> QED  BY <2>4, <2>6 DEF HistoryInv, IsAnswered
<1> QED  BY <1>2, <1>3

LEMMA ReadHistoryKeeps ==
  ASSUME QueryInv, RecordInv, KeptInv, HistoryInv, ReadHistory
  PROVE  HistoryInv'
<1> DEFINE k == reading.key
           events == store[k].events
<1>1. /\ UNCHANGED <<setup, record, orphans, store, acked, lost>>
      /\ durable' = durable /\ hasStore' = hasStore
      /\ reading.pc = "flushing" /\ reading.waits \cap InFlight(k) = {}
      /\ reading' = [reading EXCEPT !.pc = "read", !.events = events]
  BY SameConfig DEF ReadHistory, memory
<1>2. IsHistory(reading)
  BY <1>1, Different DEF QueryInv, IsQuery
<1>3. UnderWay
  BY <1>1, <1>2 DEF HistoryInv
<1>4. k \in Keys /\ Filed(store[k])
  BY <1>3 DEF UnderWay, RecordInv, IsSound
<1>5. InFlight(k) = Writes(record[k], orphans[k])
  BY DEF InFlight, Writes
<1>6. /\ reading.acked \in Int /\ (durable => reading.acked <= Replayed(store[k]).seq)
      /\ \A e \in reading.notes : e.by \in lost \/ e \in ToSet(events)
  BY <1>1, <1>3, <1>5 DEF UnderWay, GoesOn, AreAwaited
<1>7. AreEvents(events) /\ InOrder(events, Replayed(store[k]).seq)
      /\ Replayed(store[k]).seq \in Int
  BY <1>4, FiledSeq DEF Filed, Holds
<1>8. durable /\ events = <<>> => reading.acked <= EMPTY_SEQ \/ store[k].snap # NoPicture
  <2> SUFFICES ASSUME durable, events = <<>>, store[k].snap = NoPicture
               PROVE  reading.acked <= EMPTY_SEQ
    OBVIOUS
  <2>1. store[k] = Nothing
    BY <1>4 DEF Filed, Holds, Nothing
  <2>2. Replayed(store[k]).seq = EMPTY_SEQ
    BY <2>1, NothingIsFiled, Pictured
  <2> QED  BY <1>6, <2>2
<1> HIDE DEF events
<1>9. /\ reading'.pc = "read" /\ reading'.key = reading.key /\ reading'.holds = reading.holds
      /\ reading'.events = events
      /\ reading'.restores = reading.restores /\ reading'.acked = reading.acked
      /\ reading'.notes = reading.notes
  BY <1>1, <1>2 DEF IsHistory
<1>10. GoesOn(reading', store[k], Writes(record[k], orphans[k]), lost, durable)
  BY <1>6, <1>7, <1>8, <1>9 DEF GoesOn, WasRead
<1>11. UnderWay'
  BY <1>1, <1>3, <1>9, <1>10 DEF UnderWay
<1> QED  BY <1>9, <1>11 DEF HistoryInv, UnderWay

LEMMA AnswerHistoryKeeps ==
  ASSUME QueryInv, RecordInv, HistoryInv, AnswerHistory
  PROVE  HistoryInv'
<1> DEFINE k == reading.key
           restores == IF reading.holds = None THEN reading.restores ELSE RestoresOf(record[k])
           events == MergeRestores(reading.events, restores)
           complete == durable /\ ~WasCompacted(k, reading.events)
<1>1. /\ UNCHANGED lost /\ reading.pc = "read"
      /\ reading' = [reading EXCEPT !.pc = "answered", !.events = events,
                       !.restores = restores, !.complete = complete]
  BY DEF AnswerHistory
<1>2. IsHistory(reading)
  BY <1>1, Different DEF QueryInv, IsQuery
<1>3. UnderWay
  BY <1>1, <1>2 DEF HistoryInv
<1>4. AreReloads(restores)
  <2>1. CASE reading.holds = None /\ AreReloads(reading.restores)
    BY <2>1
  <2>2. CASE reading.holds = k /\ record[k] # NoRecord
    <3>1. k \in Keys /\ IsRecord(record[k]) /\ reading.holds # None
      BY <1>3, <2>2, NoneAssumption DEF UnderWay, RecordInv, IsSound
    <3> QED  BY <3>1, RestoresAre DEF AreReloads
  <2> QED  BY <1>3, <2>1, <2>2 DEF UnderWay
<1>5. WasRead(reading, store[k], lost, durable) /\ reading.acked \in Int
  BY <1>1, <1>3 DEF UnderWay, GoesOn
<1>6. complete => durable /\ IF reading.events # <<>> THEN ~(reading.events[1].seq > 0)
                                                     ELSE store[k].snap = NoPicture
  BY DEF WasCompacted
<1>7. durable \in BOOLEAN /\ complete \in BOOLEAN
  BY DEF durable, hasStore
<1> HIDE DEF restores, complete
<1>8. events = MergeRestores(reading.events, restores)
  OBVIOUS
<1> HIDE DEF events
<1>9. /\ reading'.pc = "answered" /\ reading'.events = events /\ reading'.complete = complete
      /\ reading'.acked = reading.acked /\ reading'.notes = reading.notes
  BY <1>1, <1>2 DEF IsHistory
<1>10. /\ IsHonest(reading')
       /\ \A e \in reading'.notes : e.by \in lost \/ e \in ToSet(reading'.events)
  BY <1>4, <1>5, <1>6, <1>7, <1>8, <1>9, AnswerIsHonest
<1>11. IsAnswered'
  BY <1>1, <1>10 DEF IsAnswered, IsHonest
<1> QED  BY <1>9, <1>11 DEF HistoryInv, IsAnswered

\* A query is no history.
LEMMA QueryKeepsHistory ==
  ASSUME QueryInv, (\E c \in setup.criteria : Ask(c)) \/ (\E k \in Keys : ScanNext(k)) \/ Answer
  PROVE  HistoryInv'
<1> SUFFICES ~IsHistory(reading')
  BY DEF HistoryInv
<1>1. ASSUME NEW c \in setup.criteria, Ask(c)
      PROVE  "criteria" \in DOMAIN reading'
  BY <1>1 DEF Ask
<1>2. CASE (\E k \in Keys : ScanNext(k)) \/ Answer
  <2>1. reading.pc = "scanning" /\ DOMAIN reading' = DOMAIN reading
    BY <1>2 DEF ScanNext, Answer
  <2>2. IsQuery(reading)
    BY <2>1, Different DEF QueryInv, IsHistory
  <2>3. "criteria" \in DOMAIN reading'
    BY <2>1, <2>2, Different
  <2> QED  BY <2>3, Different
<1> QED  BY <1>1, <1>2, Different

LEMMA HistoryStays ==
  ASSUME HistoryInv, UNCHANGED <<setup, record, orphans, store, lost, reading>>
  PROVE  HistoryInv'
<1>1. durable' = durable /\ hasStore' = hasStore
  BY SameConfig
<1>2. UnderWay => UnderWay'
  BY <1>1 DEF UnderWay
<1>3. IsAnswered => IsAnswered'
  BY DEF IsAnswered
<1> QED  BY <1>2, <1>3 DEF HistoryInv

LEMMA HistoryStep ==
  ASSUME QueryInv, QueryInv', RecordInv, KeptInv, HistoryInv, [Next \/ Rest]_vars
  PROVE  HistoryInv'
<1>1. CASE Runs
  <2>1. CASE \E k \in Keys : KeyStep(k) \/ Committed(k) \/ Fail(k)
    BY <2>1, RunsGoOn
  <2>2. CASE Restart
    <3>1. ~IsHistory(reading')
      BY <2>2, Different DEF Restart
    <3> QED  BY <3>1 DEF HistoryInv
  <2>3. CASE Passes
    BY <2>3, HistoryStays DEF Passes, memory
  <2> QED  BY <1>1, <2>1, <2>2, <2>3 DEF Runs, KeyStep
<1>2. CASE Reads
  BY <1>2, QueryKeepsHistory, AskHistoryKeeps, ReadHistoryKeeps, AnswerHistoryKeeps DEF Reads
<1>3. CASE UNCHANGED vars
  BY <1>3, HistoryStays DEF vars, memory
<1> QED  BY <1>1, <1>2, <1>3 DEF Next, Rest

LEMMA HistoryHolds == Spec => [](QueryInv /\ HistoryInv)
<1>1. Init => HistoryInv
  BY Different DEF Init, HistoryInv
<1>2. QueryInv /\ QueryInv' /\ RecordInv /\ KeptInv /\ HistoryInv /\ [Next \/ Rest]_vars
        => HistoryInv'
  BY HistoryStep
<1> QED  BY <1>1, <1>2, QueryInvHolds, RecordsHold, PTL DEF Spec

LEMMA AnsweredIs ==
  ASSUME QueryInv, HistoryInv, Answered("notes")
  PROVE  IsAnswered
<1>1. IsHistory(reading)
  BY Different DEF QueryInv, Answered, NoReading
<1> QED  BY <1>1 DEF HistoryInv, Answered

-----------------------------------------------------------------------------
(* The theorems.                                                           *)

(***************************************************************************)
(* query() never answers what was not so: whatever commits, moves, loads,  *)
(* evictions, folds and ends of the process come between the look at the   *)
(* index, the scan of the store and the answer, every row was true of its  *)
(* key at a moment of the query, or is of a record not yet loaded.         *)
(***************************************************************************)
THEOREM RowsAreTrue == Spec => []AnswersWereTrue
<1>1. QueryInv => AnswersWereTrue
  BY Different DEF QueryInv, AnswersWereTrue, Answered, Found, IsTrue, NoReading
<1> QED  BY <1>1, QueryInvHolds, PTL

(***************************************************************************)
(* query() leaves nothing out where it says that it is complete: a key     *)
(* that matched all the while is in the answer, in whatever order it moved *)
(* between memory and the store while they were read.                      *)
(***************************************************************************)
THEOREM CompleteIsComplete == Spec => []CompleteAnswersMissNothing
<1>1. QueryInv => CompleteAnswersMissNothing
  <2> SUFFICES ASSUME QueryInv, Answered("criteria"), reading.complete
               PROVE  ~Misses(reading, seen, reading.answer)
    BY DEF CompleteAnswersMissNothing, Misses, Answered
  <2>1. IsQuery(reading) /\ reading.pc = "answered"
    BY Different DEF QueryInv, Answered, NoReading
  <2> QED  BY <2>1 DEF QueryInv, Found
<1> QED  BY <1>1, QueryInvHolds, PTL

(***************************************************************************)
(* No accepted configuration loses a commit whose sender was told of it    *)
(* unless it said so: with a durable layer it is there whatever is         *)
(* evicted, folded, and loaded again, and however the process ends.        *)
(***************************************************************************)
THEOREM ToldIsKept == Spec => []CommitsAreKept
<1>1. RecordInv /\ KeptInv => CommitsAreKept
  <2> SUFFICES ASSUME RecordInv, KeptInv, NEW k \in Keys, Known(k) < acked[k]
               PROVE  /\ ~Layered
                      /\ \/ left["restarts"] < setup.bounds["restarts"]
                         \/ config.memory.allowDiscard = TRUE
    BY DEF CommitsAreKept
  <2>1. Known(k) = KnownOf(record[k], store[k])
    BY DEF Known, KnownOf, StoredSeq, Stored
  <2>2. KnownOf(record[k], store[k]) \in Int /\ acked[k] \in Int
    BY Sound DEF RecordInv, KeptInv
  <2>3. Excused
    BY <2>1, <2>2 DEF KeptInv
  <2> QED  BY <2>3, LayeredIsDurable DEF Excused, KeptInv
<1> QED  BY <1>1, RecordsHold, PTL

(***************************************************************************)
(* history() waits for what the record had queued: no refusal or violation *)
(* the instance had recorded is missing from the answer, unless its append *)
(* was refused, also when the record is evicted meanwhile and its writes   *)
(* go on without it, and when the commit authority folds the stream.       *)
(***************************************************************************)
THEOREM RefusalsAreSeen == Spec => []HistorySeesRefusals
<1>1. QueryInv /\ HistoryInv => HistorySeesRefusals
  BY AnsweredIs DEF HistorySeesRefusals, IsAnswered
<1> QED  BY <1>1, HistoryHolds, PTL

(***************************************************************************)
(* A history is what it says: every commit follows the one before it, the  *)
(* reload of a record stands after what it loaded, and one that says it is *)
(* complete goes from the initialization to the last commit anybody was    *)
(* told of, whatever is evicted, loaded, folded or committed while it is   *)
(* read.                                                                   *)
(***************************************************************************)
THEOREM HistoriesAreHonest == Spec => []HistoryIsHonest
<1>1. QueryInv /\ HistoryInv => HistoryIsHonest
  BY AnsweredIs DEF HistoryIsHonest, IsAnswered, IsHonest, OneByOne, Placed
<1> QED  BY <1>1, HistoryHolds, PTL

=============================================================================
