------------------------------- MODULE Query -------------------------------
(***************************************************************************)
(* query() and history() of a runtime (src/ekman.ts, src/query.ts) while   *)
(* instances are created, commit, are evicted and loaded again, the commit *)
(* authority folds streams into snapshots, and the process restarts.       *)
(*                                                                         *)
(* A configuration is one Stack accepts.  The turns are those of Dispatch, *)
(* reduced to one attempt that commits, or not; the records are those of   *)
(* Residency, with one trigger in the inbox.  A load, an append, a         *)
(* snapshot and a fold are one step each of the store.  A fold is the      *)
(* compaction a storage sweep does.                                        *)
(***************************************************************************)
EXTENDS Stack, EventLog, Lists

CONSTANTS
  Keys,      \* the keys of the entity
  States,    \* its states
  Initial,   \* the initial one
  Tick,      \* how far the clock moves, in milliseconds
  Setups,    \* configurations, with what is asked and the other bounds
  None       \* no state, no key

ASSUME InitialAssumption == Initial \in States
ASSUME NoneAssumption == None \notin States \cup Keys
ASSUME TickAssumption == Tick \in Nat \ {0}
ASSUME SetupsAssumption ==
  \A s \in Setups : s.bounds \in
    [{"asks", "histories", "sends", "notes", "folds", "restarts", "ticks"} -> Nat]

VARIABLES
  setup,     \* the configuration, what is asked, and the bounds
  record,    \* #instances: the record of each key in memory
  index,     \* #temporal: the state each key in memory is indexed under
  orphans,   \* the write chains of evicted records
  store,     \* what the authority holds of each key
  acked,     \* the sequence each key had when its last commit resolved
  lost,      \* the notes whose append was refused, which somebody was told
  reading,   \* the query() or history() under way
  seen,      \* what each key was while a query ran
  now,       \* the runtime's clock
  left       \* bounds: what may still happen

memory == <<record, index, orphans>>
vars == <<setup, memory, store, acked, lost, reading, seen, now, left>>

config == setup.config
layers == LayersOf(config)
hasStore == layers # <<>>
authority == AuthorityIn(layers)
durable == hasStore /\ Durable(authority)

-----------------------------------------------------------------------------
(* Streams and pictures.                                                   *)

\* A picture: the state of an instance, its sequence and when it got there.
Picture(state, seq, since) == [state |-> state, seq |-> seq, since |-> since]

\* What there is of an instance that was never initialized.
NoPicture == [seq |-> EMPTY_SEQ]

PictureOf(r) == Picture(r.state, r.seq, r.since)

Dated(e, at) ==
  [type |-> e.type, seq |-> e.seq, from |-> e.from, to |-> e.to, by |-> e.by, at |-> at]

\* A commit after what is known so far; one of values is not a move.
Applied(p, e) ==
  IF e.type # "transition" \/ e.seq <= p.seq THEN p
  ELSE Picture(e.to, e.seq,
               IF e.from = e.to /\ p # NoPicture THEN p.since ELSE e.at)

\* replay(): the commits after the snapshot.
Replayed(held) == FoldLeft(Applied, held.snap, held.events)

Stored(k) == Replayed(store[k])

StoredSeq(k) == Stored(k).seq

Nothing == [snap |-> NoPicture, events |-> <<>>]

\* No record is in memory.
NoRecord == [pc |-> "none"]

\* What the key is, as far as anybody could tell.
Pictures(k) ==
  {Stored(k)} \cup IF record[k] # NoRecord /\ record[k].loaded
                     THEN {PictureOf(record[k])} ELSE {}

\* A key's new record, not loaded yet unless there is nothing to load from.
Fresh ==
  LET init == Dated(Transition(0, None, Initial, 0), now)
  IN  [state |-> Initial, seq |-> 0, since |-> now, loaded |-> ~hasStore,
       pc |-> IF hasStore THEN "new" ELSE "turn", chain |-> <<>>,
       events |-> IF hasStore THEN <<>> ELSE <<init>>]

\* #persist: on the write chain of the record.
Persists(r, event, expected) ==
  IF hasStore
    THEN [r EXCEPT !.chain = Append(@, [event |-> event, expected |-> expected])]
    ELSE r

\* commit() after the write: the instance moves.
Moved(r, event) ==
  [r EXCEPT !.state = event.to, !.seq = event.seq,
            !.since = IF event.from = event.to THEN @ ELSE event.at,
            !.events = Append(@, event), !.pc = "moved"]

Initialized(r, event) ==
  [r EXCEPT !.loaded = TRUE, !.events = Append(@, event), !.pc = "turn"]

-----------------------------------------------------------------------------
(* Reading.                                                                *)

NoReading == [pc |-> "none"]

Units == [ms |-> 1, s |-> 1000, m |-> 60000, h |-> 3600000, d |-> 86400000]

\* parseDuration, of a count and its unit.
ParseDuration(d) == d.count * Units[d.unit]

AtLeast(c) == IF c.olderThan = Unset THEN 0 ELSE ParseDuration(c.olderThan)

\* The filters of a criteria, whether the store or the runtime applies them.
Wanted(p, c, at) ==
  /\ p # NoPicture
  /\ c.state \in {Unset, p.state}
  /\ at - p.since >= AtLeast(c)

Row(k, p, resident) == [key |-> k, picture |-> p, resident |-> resident]

Mutant_AgeOf(k) ==
  IF record[k] = NoRecord THEN NoPicture ELSE [PictureOf(record[k]) EXCEPT !.state = index[k]]

\* #ageOf: the record of a key, if it is where the index says.
AgeOf(k) ==
  IF record[k] = NoRecord \/ record[k].state # index[k] THEN NoPicture
                                                        ELSE PictureOf(record[k])

\* #residentMatches: through the index, at the moment of the call.
ResidentMatches(c, at) ==
  {Row(k, AgeOf(k), TRUE) : k \in {j \in Keys :
     index[j] # None /\ Wanted(AgeOf(j), c, at)}}

\* The keys the authority enumerates.
StoredKeys == IF hasStore THEN {k \in Keys : store[k] # Nothing} ELSE {}

Mutant_Scanned(q, k) == record[k] = NoRecord /\ Wanted(Stored(k), q.criteria, q.at)

\* #scanInto: a stored match, unless the resident view already answered.
Scanned(q, k) ==
  /\ \A row \in q.rows : row.key # k
  /\ Wanted(Stored(k), q.criteria, q.at)

\* Whether the store could apply every filter, and the authority is durable.
Covers == durable /\ Unsupported(authority) = {}

\* The oldest rows first, as many as were asked for; ties in some order.
Kept(q, rows) ==
  /\ rows \subseteq q.rows
  /\ IF q.criteria.limit = Unset THEN rows = q.rows ELSE
       /\ Cardinality(rows) =
            Min({q.criteria.limit, Cardinality(q.rows)})
       /\ \A in \in rows, out \in q.rows \ rows :
            in.picture.since <= out.picture.since

\* What is on its way to the authority for a key.
InFlight(k) ==
  LET chains == orphans[k] \cup IF record[k] = NoRecord THEN {} ELSE {record[k].chain}
  IN  UNION {ToSet(chain) : chain \in chains}

IsRestore(event) == event.type = "restored"

RestoresOf(r) == Picked(r.events, {i \in DOMAIN r.events : IsRestore(r.events[i])})

\* The first stored event from a position on that is above a sequence.
FirstAbove(stored, from, seq) ==
  Min({i \in from .. Len(stored) : stored[i].seq > seq} \cup {Len(stored) + 1})

\* What is stored at or below a restore comes before it.
Woven(stored, m, restore) ==
  LET next == FirstAbove(stored, m.next, restore.seq)
  IN  [next |-> next,
       merged |-> m.merged \o SubSeq(stored, m.next, next - 1) \o <<restore>>]

\* mergeRestores
MergeRestores(stored, restores) ==
  LET m == FoldLeft(LAMBDA w, restore : Woven(stored, w, restore),
                    [next |-> 1, merged |-> <<>>], restores)
  IN  m.merged \o SubSeq(stored, m.next, Len(stored))

Mutant_WasCompacted(k, stored) == stored # <<>> /\ stored[1].seq > 0

\* #wasCompacted: a stream that does not start where the instance did; of an
\* empty one only the snapshot knows.
WasCompacted(k, stored) ==
  IF stored # <<>> THEN stored[1].seq > 0 ELSE store[k].snap # NoPicture

-----------------------------------------------------------------------------
(* Eviction.                                                               *)

Residents(recs) == {k \in Keys : recs[k] # NoRecord}

Excess(recs) ==
  IF EvictionOf(config.memory) # "lru" \/ Unlimited(config.memory) THEN 0
  ELSE Max({0, Cardinality(Residents(recs)) - config.memory.maxBytes})

\* What the runtime may release: idle records, as many as the excess.
Victims(recs) ==
  LET idle == {k \in Residents(recs) : recs[k].pc = "idle"}
  IN  {S \in SUBSET idle :
         Cardinality(S) = Min({Excess(recs), Cardinality(idle)})}

\* The snapshot of an evicted record, which never replaces a newer one.
Snapshotted(k, r) ==
  IF /\ hasStore
     /\ SnapshotOnEvict(config.memory, hasStore)
     /\ store[k].snap = NoPicture \/ store[k].snap.seq < r.seq
    THEN [store[k] EXCEPT !.snap = PictureOf(r)]
    ELSE store[k]

\* A turn of k ends with record r; #onIdle evicts to fit the budget.  A
\* history() keeps the record it found, which does not change any more.
TurnEnds(k, r, entered) ==
  LET recs == [record EXCEPT ![k] = [r EXCEPT !.pc = "idle"]]
  IN  \E gone \in Victims(recs) :
        /\ record' = [j \in Keys |-> IF j \in gone THEN NoRecord ELSE recs[j]]
        /\ index' = [j \in Keys |-> IF j \in gone THEN None ELSE entered[j]]
        /\ orphans' = [j \in Keys |->
             IF j \in gone /\ recs[j].chain # <<>>
               THEN orphans[j] \cup {recs[j].chain} ELSE orphans[j]]
        /\ store' = [j \in Keys |->
             IF j \in gone THEN Snapshotted(j, recs[j]) ELSE store[j]]
        /\ reading' =
             IF reading.pc \in {"flushing", "read"} /\ reading.holds \in gone
               THEN [reading EXCEPT !.holds = None,
                       !.restores = RestoresOf(recs[reading.holds])]
               ELSE reading

-----------------------------------------------------------------------------

Init ==
  /\ setup \in {s \in Setups : ValidConfig(s.config)}
  /\ record = [k \in Keys |-> NoRecord]
  /\ index = [k \in Keys |-> None]
  /\ orphans = [k \in Keys |-> {}]
  /\ store = [k \in Keys |-> Nothing]
  /\ acked = [k \in Keys |-> EMPTY_SEQ]
  /\ lost = {}
  /\ reading = NoReading
  /\ seen = [k \in Keys |-> {}]
  /\ now = 0
  /\ left = setup.bounds

\* Nothing happens after the answer that a behaviour is about.
May(what) ==
  /\ reading.pc # "answered"
  /\ left[what] > 0
  /\ left' = [left EXCEPT ![what] = @ - 1]

Going == reading.pc # "answered" /\ UNCHANGED left

NoRoom ==
  /\ EvictionOf(config.memory) = "reject"
  /\ ~Unlimited(config.memory)
  /\ Cardinality(Residents(record)) >= config.memory.maxBytes

\* send(): to a record, which takes a turn, or to a new one, indexed in the
\* initial state.  MEMORY_EXHAUSTED leaves everything as it was.
Send(k) ==
  /\ May("sends")
  /\ IF record[k] # NoRecord
       THEN /\ record[k].pc = "idle"
            /\ record' = [record EXCEPT ![k].pc = "turn"]
            /\ UNCHANGED index
     ELSE IF NoRoom THEN UNCHANGED <<record, index>>
       ELSE /\ record' = [record EXCEPT ![k] = Fresh]
            /\ index' = [index EXCEPT ![k] = Initial]
  /\ UNCHANGED <<setup, orphans, store, acked, lost, reading, now>>

\* #hydrate: become what the store holds, or initialize.
Hydrate(k) ==
  /\ Going
  /\ record[k] # NoRecord
  /\ record[k].pc = "new"
  /\ LET r == record[k]
         p == Stored(k)
         init == Dated(Transition(0, None, Initial, 0), r.since)
     IN  record' = [record EXCEPT ![k] =
           IF p = NoPicture THEN [Persists(r, init, EMPTY_SEQ) EXCEPT !.pc = "initializing"]
           ELSE [r EXCEPT !.state = p.state, !.seq = p.seq, !.since = p.since,
                          !.loaded = TRUE, !.pc = "adopted",
                          !.events = Append(@, Dated(Restored(p.seq, p.state, 0), r.since))]]
  /\ UNCHANGED <<setup, index, orphans, store, acked, lost, reading, now>>

Entered(k) == [index EXCEPT ![k] = record[k].state]

\* The runtime goes on once ready() has resolved, and indexes what was loaded.
Reindex(k) ==
  /\ Going
  /\ record[k] # NoRecord
  /\ record[k].pc = "adopted"
  /\ index' = Entered(k)
  /\ record' = [record EXCEPT ![k].pc = "turn"]
  /\ UNCHANGED <<setup, orphans, store, acked, lost, reading, now>>

\* A handler's commit: on the write chain, or at once without a store.
Commit(k, to) ==
  /\ Going
  /\ record[k] # NoRecord
  /\ record[k].pc = "turn"
  /\ LET r == record[k]
         event == Dated(Transition(r.seq + 1, r.state, to, 0), now)
     IN  record' = [record EXCEPT ![k] =
           IF hasStore THEN [Persists(r, event, r.seq) EXCEPT !.pc = "writing"]
                       ELSE Moved(r, event)]
  /\ UNCHANGED <<setup, index, orphans, store, acked, lost, reading, now>>

\* #record: a refusal or a violation, at the sequence the record has.
Record(k) ==
  /\ May("notes")
  /\ record[k] # NoRecord
  /\ LET r == record[k]
         note == Dated(Note(r.seq, r.state, left["notes"]), now)
     IN  record' = [record EXCEPT ![k] =
           Persists([r EXCEPT !.events = Append(@, note)], note, r.seq)]
  /\ UNCHANGED <<setup, index, orphans, store, acked, lost, reading, now>>

\* The runtime goes on once commit() has resolved: it indexes a move, and the
\* sender is told.
Committed(k) ==
  /\ Going
  /\ record[k] # NoRecord
  /\ record[k].pc = "moved"
  /\ acked' = [acked EXCEPT ![k] = record[k].seq]
  /\ TurnEnds(k, record[k], Entered(k))
  /\ UNCHANGED <<setup, lost, now>>

\* The trigger is refused.
Fail(k) ==
  /\ Going
  /\ record[k] # NoRecord
  /\ record[k].pc = "turn"
  /\ TurnEnds(k, record[k], index)
  /\ UNCHANGED <<setup, acked, lost, now>>

\* The conditional append of one write: it lands, or a note is lost.
Appends(k, write) ==
  IF StoredSeq(k) = write.expected
    THEN /\ store' = [store EXCEPT ![k].events = Append(@, write.event)]
         /\ UNCHANGED lost
    ELSE /\ write.event.type = "note"
         /\ lost' = lost \cup {write.event.by}
         /\ UNCHANGED store

\* The first write of a record's chain settles.
Settle(k) ==
  /\ Going
  /\ record[k] # NoRecord
  /\ record[k].chain # <<>>
  /\ LET event == Head(record[k].chain).event
         r == [record[k] EXCEPT !.chain = Tail(@)]
     IN  /\ Appends(k, Head(record[k].chain))
         /\ record' = [record EXCEPT ![k] =
              IF event.type = "note" THEN r
              ELSE IF event.from = None THEN Initialized(r, event)
              ELSE Moved(r, event)]
  /\ UNCHANGED <<setup, index, orphans, acked, reading, now>>

\* The chain of an evicted record goes on without it.
SettleOrphan(k) ==
  /\ Going
  /\ \E chain \in orphans[k] :
       /\ Appends(k, Head(chain))
       /\ orphans' = [orphans EXCEPT ![k] =
            (@ \ {chain}) \cup ({Tail(chain)} \ {<<>>})]
  /\ UNCHANGED <<setup, record, index, acked, reading, now>>

\* compact(): the commits go into the snapshot, everything else is kept.
Fold(k) ==
  /\ May("folds")
  /\ hasStore
  /\ Compacts(authority)
  /\ Stored(k) # NoPicture
  /\ store' = [store EXCEPT ![k] =
       [snap |-> Stored(k),
        events |-> Picked(@.events, DOMAIN @.events \ Commits(@.events))]]
  /\ UNCHANGED <<setup, memory, acked, lost, reading, now>>

\* The process dies and starts again with the same configuration.
Restart ==
  /\ May("restarts")
  /\ record' = [k \in Keys |-> NoRecord]
  /\ index' = [k \in Keys |-> None]
  /\ orphans' = [k \in Keys |-> {}]
  /\ store' = IF durable THEN store ELSE [k \in Keys |-> Nothing]
  /\ reading' = NoReading
  /\ UNCHANGED <<setup, acked, lost, now>>

Passes ==
  /\ May("ticks")
  /\ now' = now + Tick
  /\ UNCHANGED <<setup, memory, store, acked, lost, reading>>

-----------------------------------------------------------------------------
(* query() and history().                                                  *)

\* The resident view is read, and the scan begins, before anything is awaited.
Ask(c) ==
  /\ May("asks")
  /\ reading = NoReading
  /\ reading' = [pc |-> "scanning", criteria |-> c, at |-> now,
                 rows |-> ResidentMatches(c, now), unread |-> StoredKeys,
                 unloaded |-> {k \in Residents(record) : ~record[k].loaded},
                 answer |-> {}, complete |-> FALSE]
  /\ UNCHANGED <<setup, memory, store, acked, lost, now>>

\* scanKeys: one key after the other.
ScanNext(k) ==
  /\ Going
  /\ reading.pc = "scanning"
  /\ k \in reading.unread
  /\ reading' = [reading EXCEPT
       !.unread = @ \ {k},
       !.rows = IF Scanned(reading, k) THEN @ \cup {Row(k, Stored(k), FALSE)}
                                       ELSE @]
  /\ UNCHANGED <<setup, memory, store, acked, lost, now>>

Answer ==
  /\ Going
  /\ reading.pc = "scanning"
  /\ reading.unread = {}
  /\ \E rows \in SUBSET reading.rows :
       /\ Kept(reading, rows)
       /\ reading' = [reading EXCEPT !.pc = "answered", !.answer = rows,
                        !.complete = Covers /\ rows = reading.rows]
  /\ UNCHANGED <<setup, memory, store, acked, lost, now>>

Mutant_Waits(k) == {}

\* flushed(): what the record had queued when it was asked.
Waits(k) == IF record[k] = NoRecord THEN {} ELSE ToSet(record[k].chain)

History(k, pc, events, restores, complete) ==
  [pc |-> pc, key |-> k, holds |-> IF record[k] = NoRecord THEN None ELSE k,
   waits |-> Waits(k), events |-> events, restores |-> restores,
   complete |-> complete, acked |-> acked[k],
   notes |-> IF record[k] = NoRecord THEN {} ELSE
               {e \in ToSet(record[k].events) : e.type = "note"}]

\* Without an authority the record's own stream is all there is.
AskHistory(k) ==
  /\ May("histories")
  /\ reading = NoReading
  /\ reading' =
       IF hasStore THEN History(k, "flushing", <<>>, <<>>, FALSE)
       ELSE History(k, "answered",
              IF record[k] = NoRecord THEN <<>> ELSE record[k].events, <<>>, FALSE)
  /\ UNCHANGED <<setup, memory, store, acked, lost, now>>

\* The stream is read, and of an empty one also the snapshot.
ReadHistory ==
  /\ Going
  /\ reading.pc = "flushing"
  /\ reading.waits \cap InFlight(reading.key) = {}
  /\ reading' = [reading EXCEPT !.pc = "read", !.events = store[reading.key].events]
  /\ UNCHANGED <<setup, memory, store, acked, lost, now>>

AnswerHistory ==
  /\ Going
  /\ reading.pc = "read"
  /\ LET restores == IF reading.holds = None THEN reading.restores
                     ELSE RestoresOf(record[reading.key])
     IN  reading' = [reading EXCEPT
           !.pc = "answered",
           !.events = MergeRestores(@, restores),
           !.restores = restores,
           !.complete = durable /\ ~WasCompacted(reading.key, reading.events)]
  /\ UNCHANGED <<setup, memory, store, acked, lost, now>>

\* The question was answered, or nothing is under way.
Rest ==
  /\ \/ reading.pc = "answered"
     \/ /\ reading = NoReading
        /\ \A k \in Keys :
             /\ orphans[k] = {}
             /\ record[k] # NoRecord =>
                  record[k].pc = "idle" /\ record[k].chain = <<>>
  /\ UNCHANGED vars

\* What the keys are is noted while a query runs.
Watch ==
  seen' = [k \in Keys |->
    (IF reading.pc = "scanning" /\ reading' # NoReading THEN seen[k] ELSE {})
      \cup (IF reading'.pc = "scanning" THEN Pictures(k)' ELSE {})]

Runs ==
  \/ \E k \in Keys :
       \/ Send(k)
       \/ Hydrate(k)
       \/ Reindex(k)
       \/ \E to \in States : Commit(k, to)
       \/ Record(k)
       \/ Committed(k)
       \/ Fail(k)
       \/ Settle(k)
       \/ SettleOrphan(k)
       \/ Fold(k)
  \/ Restart
  \/ Passes

Reads ==
  \/ \E c \in setup.criteria : Ask(c)
  \/ \E k \in Keys : ScanNext(k) \/ AskHistory(k)
  \/ Answer
  \/ ReadHistory
  \/ AnswerHistory

Next == (Runs \/ Reads) /\ Watch

Spec == Init /\ [][Next \/ Rest]_vars

-----------------------------------------------------------------------------

Layered == config.store # Unset /\ \E i \in DOMAIN layers : Durable(layers[i])

\* What a send() to the key would find.
Known(k) ==
  IF record[k] # NoRecord /\ record[k].loaded THEN record[k].seq ELSE StoredSeq(k)

(***************************************************************************)
(* A configuration that is accepted loses no commit whose sender was told  *)
(* of it, unless it says so: only without a durable layer, and then only   *)
(* by a restart, or by an eviction the application allowed to discard.     *)
(***************************************************************************)
CommitsAreKept ==
  \A k \in Keys : Known(k) < acked[k] =>
    /\ ~Layered
    /\ \/ left["restarts"] < setup.bounds["restarts"]
       \/ config.memory.allowDiscard = TRUE

Answered(kind) == reading.pc = "answered" /\ kind \in DOMAIN reading

(***************************************************************************)
(* A query that says it is complete has every key that matched all the     *)
(* while: on the way from memory to the store, being loaded, or moved but  *)
(* not indexed yet.                                                        *)
(***************************************************************************)
CompleteAnswersMissNothing ==
  Answered("criteria") /\ reading.complete =>
    \A k \in Keys :
      (\A p \in seen[k] : Wanted(p, reading.criteria, reading.at)) =>
        \E row \in reading.answer : row.key = k

(***************************************************************************)
(* Every row of an answer was true of its key at some moment of the query, *)
(* except the rows of instances that were not loaded when it began.        *)
(***************************************************************************)
AnswersWereTrue ==
  Answered("criteria") =>
    \A row \in reading.answer :
      (row.resident /\ row.key \in reading.unloaded) \/ row.picture \in seen[row.key]

(***************************************************************************)
(* A history has every refusal and violation the instance in memory had    *)
(* recorded when it was asked, although nobody waited for their appends,   *)
(* unless an append failed.                                                *)
(***************************************************************************)
HistorySeesRefusals ==
  Answered("notes") =>
    \A note \in reading.notes : note.by \in lost \/ note \in ToSet(reading.events)

(***************************************************************************)
(* What a history says of itself: its commits follow one another, a reload *)
(* comes after what it loaded, and one that says it is complete goes from  *)
(* the initialization to the last commit anybody was told of.  Except for  *)
(* a stream that was compacted and begins with a refusal.                  *)
(***************************************************************************)
HistoryIsHonest ==
  Answered("notes") =>
    LET events == reading.events
        commits == Commits(events)
    IN  /\ \A i, j \in commits :
             i < j /\ (\A l \in commits : l <= i \/ j <= l)
               => events[j].seq = events[i].seq + 1
        /\ \A i \in DOMAIN events, j \in commits :
             IsRestore(events[i]) => (j < i <=> events[j].seq <= events[i].seq)
        /\ reading.complete /\ (events = <<>> \/ 1 \in commits) =>
             /\ LatestSeq(events) >= reading.acked
             /\ events # <<>> => events[1].from = None

=============================================================================
