----------------------------- MODULE Residency -----------------------------
(***************************************************************************)
(* Which instances a runtime holds in memory (src/ekman.ts), what they     *)
(* cost (src/memory.ts) and where they are indexed (src/temporal.ts), over *)
(* a commit authority that keeps a stream and a snapshot of each key.      *)
(*                                                                         *)
(* A key may have several records: one in the table, and others that were  *)
(* evicted or forgotten while an append of theirs was still under way.  A  *)
(* record is named by the trigger whose send() created it.  What Dispatch  *)
(* says of one record is reduced to what matters here: one attempt per     *)
(* turn, which may be abandoned at its timeout before or after its token   *)
(* is sealed.  The result of an attempt abandoned before is fenced and     *)
(* left out.  Committed values are the identity of the commit.             *)
(*                                                                         *)
(* An append and its answer are one step of the store, in any order        *)
(* between records; a load is two, and the store may change before the     *)
(* record looks at what it was given.  A snapshot and a deletion are       *)
(* immediate, as they are in the stores of src/stores.                     *)
(***************************************************************************)
EXTENDS Integers, FiniteSets, SequencesExt

CONSTANTS
  Trigger,     \* the triggers that are sent
  Key,         \* the keys they are sent to
  State,       \* the states of the entity
  Initial,     \* its initial state
  Bytes,       \* what an instance in a state is accounted at
  MaxBytes,    \* memory.maxBytes
  Configs,     \* the settings a runtime may be started with, see Settings
  MaxForgets,  \* bound: how many forget() calls are accepted
  MaxFaults,   \* bound: how many loads and appends fail
  None         \* no key, no record, no state

(***************************************************************************)
(* policy   : eviction.policy                                              *)
(* timeouts : whether policy.timeoutMs is set                              *)
(* forgets  : whether the application calls forget(), and                  *)
(* overlaps : whether it may send to a key before its forget() returned.   *)
(***************************************************************************)
Settings == [policy: {"lru", "reject", "none"}, timeouts: BOOLEAN,
             forgets: BOOLEAN, overlaps: BOOLEAN]

ASSUME KeyAssumption == IsFiniteSet(Key)
ASSUME StateAssumption == Initial \in State
ASSUME BytesAssumption == Bytes \in [State -> Nat \ {0}] /\ MaxBytes \in Nat
ASSUME ConfigsAssumption == Configs \subseteq Settings
ASSUME BoundsAssumption == MaxForgets \in Nat /\ MaxFaults \in Nat
ASSUME NoneAssumption == None \notin Trigger \cup Key \cup State

VARIABLES
  config,    \* the settings of this runtime
  record,    \* every record created so far, named by its first trigger
  held,      \* #instances, #ledger and #temporal: what is in memory
  outcome,   \* what each sender has been told
  log,       \* the stream of each key at the commit authority
  snapshot,  \* the snapshot of each key there
  pending,   \* forget() calls waiting for the writes of a record
  forgets,   \* how many forget() calls were accepted
  faults     \* how many loads and appends failed

store == <<log, snapshot>>
vars == <<config, record, held, outcome, store, pending, forgets, faults>>

\* Where committed values come from: the definition, or a trigger's handler.
NoCommit == <<None, "none">>
InitialValues == <<None, "init">>
CommitBy(t) == <<t, "commit">>

NoSnapshot == [seq |-> -1, state |-> Initial, by |-> InitialValues]

\* What the attempt under way was given.
NoToken == [seq |-> 0, by |-> NoCommit]

NoForget == [record |-> None, ahead |-> 0]

Fresh(k) ==
  [key |-> k, state |-> Initial, seq |-> 0, by |-> InitialValues,
   hydration |-> "none", stale |-> FALSE, loaded |-> NoSnapshot,
   queue |-> <<>>, pc |-> "idle", token |-> NoToken, chain |-> <<>>]

-----------------------------------------------------------------------------
(* What is in memory: three structures that have to stay in step.          *)

Nothing ==
  [resident |-> [k \in Key |-> None],  order |-> <<>>,
   bytes |-> [k \in Key |-> 0],  total |-> 0,
   index |-> [k \in Key |-> None]]

\* MemoryLedger.record: what a key costs now, most recently used.
Costs(h, k, bytes) ==
  [h EXCEPT !.order = Append(RemoveFirst(@, k), k),
            !.bytes[k] = bytes,
            !.total = @ + bytes - h.bytes[k]]

\* TemporalIndex.enter: the key is in this state and in no other.
Enters(h, k, s) == [h EXCEPT !.index[k] = s]

\* TemporalIndex.remove: the key is in no state.
Removed(h, k) == [h EXCEPT !.index[k] = None]

\* MemoryLedger.release: the key costs nothing any more.
Refunded(h, k) ==
  [h EXCEPT !.order = RemoveFirst(@, k),
            !.total = @ - h.bytes[k],
            !.bytes[k] = 0]

\* #release: out of the table, the ledger and the index.
Released(h, k) == Removed(Refunded([h EXCEPT !.resident[k] = None], k), k)

\* #resolveInstance: a new record, whose stay in the initial state begins.
Materialized(h, k, r) ==
  Enters(Costs([h EXCEPT !.resident[k] = r], k, Bytes[Initial]), k, Initial)

\* The picture a record leaves behind, which never replaces a newer one.
Picture(r) == [seq |-> r.seq, state |-> r.state, by |-> r.by]

Newer(old, new) == IF old.seq < new.seq THEN new ELSE old

Mutant_Evictable(recs, r) == TRUE

\* Only an idle record: no turn under way and nothing queued.
Evictable(recs, r) == recs[r].pc = "idle"

Mutant_Evicted(m, recs, k) ==
  [held |-> [m.held EXCEPT !.resident[k] = None], snapshot |-> m.snapshot]

\* #evict: leave a snapshot behind, whatever the record knows, and let go.
Evicted(m, recs, k) ==
  [held |-> Released(m.held, k),
   snapshot |-> [m.snapshot EXCEPT
                   ![k] = Newer(@, Picture(recs[m.held.resident[k]]))]]

Mutant_Over(h) == h.total > MaxBytes + 1

Over(h) == h.total > MaxBytes

\* The next key goes, unless the budget is met or the key is busy.
MakesRoom(recs, m, k) ==
  IF \/ ~Over(m.held)
     \/ m.held.resident[k] = None
     \/ ~Evictable(recs, m.held.resident[k])
    THEN m
    ELSE Evicted(m, recs, k)

\* #evictToFit: least recently used first, until the budget is met.
EvictToFit(recs, h) ==
  FoldLeft(LAMBDA m, k : MakesRoom(recs, m, k),
           [held |-> h, snapshot |-> snapshot], h.order)

-----------------------------------------------------------------------------
(* The stream of a key.                                                    *)

DurableSeq(k) == Len(log[k]) - 1

StoredCommit(k) ==
  [seq |-> DurableSeq(k), state |-> Last(log[k]).to, by |-> Last(log[k]).by]

\* load() and replay(): the snapshot, and the commits after it, of a key that
\* has a stream.
Loaded(k) ==
  IF log[k] = <<>> THEN NoSnapshot
  ELSE IF DurableSeq(k) > snapshot[k].seq THEN StoredCommit(k)
  ELSE snapshot[k]

-----------------------------------------------------------------------------
(* The inbox of a record: one turn at a time, in the order of the sends.   *)

\* Dispatch: the attempt's token is for the sequence of this moment.
Ready(r) ==
  [r EXCEPT !.pc = "handling", !.token = [seq |-> r.seq, by |-> r.by]]

\* #run: reconcile with the store first, unless there is nothing to reconcile.
Begun(r) ==
  IF r.stale THEN [r EXCEPT !.pc = "reloading"]
  ELSE IF r.hydration = "none"
    THEN [r EXCEPT !.pc = "hydrating", !.hydration = "running"]
  ELSE IF r.hydration = "failed" THEN [r EXCEPT !.pc = "failing"]
  ELSE Ready(r)

Enqueued(r, t) ==
  LET queued == [r EXCEPT !.queue = Append(@, t)]
  IN  IF r.pc = "idle" THEN Begun(queued) ELSE queued

\* The drain loop takes the next trigger, or leaves the key idle.
Advanced(r) ==
  LET rest == [r EXCEPT !.queue = Tail(@)]
  IN  IF rest.queue = <<>> THEN [rest EXCEPT !.pc = "idle"] ELSE Begun(rest)

\* A turn of r ends and leaves `after`; #onIdle follows the last one.
TurnEnds(r, after, result, h) ==
  LET recs == [record EXCEPT ![r] = Advanced(after)]
      fit  == EvictToFit(recs, h)
      acts == recs[r].pc = "idle" /\ config.policy = "lru"
  IN  /\ record' = recs
      /\ outcome' = [outcome EXCEPT ![Head(after.queue)] = result]
      /\ held' = IF acts THEN fit.held ELSE h
      /\ snapshot' = IF acts THEN fit.snapshot ELSE snapshot

-----------------------------------------------------------------------------

Init ==
  /\ config \in Configs
  /\ record = [t \in Trigger |-> Fresh(None)]
  /\ held = Nothing
  /\ outcome = [t \in Trigger |-> "unsent"]
  /\ log = [k \in Key |-> <<>>]
  /\ snapshot = [k \in Key |-> NoSnapshot]
  /\ pending = [k \in Key |-> NoForget]
  /\ forgets = 0
  /\ faults = 0

Resident(k) == held.resident[k]

MaySend(t, k) ==
  /\ outcome[t] = "unsent"
  /\ config.overlaps \/ pending[k] = NoForget

\* send() to a key in memory.
SendResident(t, k) ==
  /\ MaySend(t, k)
  /\ Resident(k) # None
  /\ record' = [record EXCEPT ![Resident(k)] = Enqueued(@, t)]
  /\ outcome' = [outcome EXCEPT ![t] = "pending"]
  /\ UNCHANGED <<config, held, store, pending, forgets, faults>>

\* The budget is full, and may not be met by eviction.
NoRoom == config.policy = "reject" /\ held.total >= MaxBytes

\* send() to any other key: a record, which starts its first turn.
SendNew(t, k) ==
  /\ MaySend(t, k)
  /\ Resident(k) = None
  /\ ~NoRoom
  /\ record' = [record EXCEPT ![t] = Enqueued(Fresh(k), t)]
  /\ held' = Materialized(held, k, t)
  /\ outcome' = [outcome EXCEPT ![t] = "pending"]
  /\ UNCHANGED <<config, store, pending, forgets, faults>>

\* MEMORY_EXHAUSTED.
SendRefused(t, k) ==
  /\ MaySend(t, k)
  /\ Resident(k) = None
  /\ NoRoom
  /\ outcome' = [outcome EXCEPT ![t] = "failed"]
  /\ UNCHANGED <<config, record, held, store, pending, forgets, faults>>

InitWrite == [to |-> Initial, by |-> InitialValues, on |-> NoCommit,
              expected |-> -1]

\* The store answers with what it holds at that moment.
StoreLoad(r) ==
  /\ record[r].pc \in {"hydrating", "reloading"}
  /\ record' = [record EXCEPT ![r] =
       [record[r] EXCEPT !.pc = IF @ = "hydrating" THEN "hydrated" ELSE "reloaded",
                         !.loaded = Loaded(record[r].key)]]
  /\ UNCHANGED <<config, held, outcome, store, pending, forgets, faults>>

\* Become what the store holds, and go on to the handler.
Adopting(r) ==
  Ready([r EXCEPT !.state = r.loaded.state, !.seq = r.loaded.seq,
                  !.by = r.loaded.by, !.loaded = NoSnapshot])

IsGone(r) == record[r].loaded = NoSnapshot

\* The rest of #hydrate: adopt and index what was loaded, or initialize, which
\* has to be durable first and indexes nothing.
Hydrate(r) ==
  /\ record[r].pc = "hydrated"
  /\ IF IsGone(r)
       THEN /\ record' = [record EXCEPT ![r] =
                 [record[r] EXCEPT !.chain = Append(@, InitWrite),
                                   !.pc = "initializing"]]
            /\ UNCHANGED held
       ELSE /\ record' = [record EXCEPT ![r] =
                 Adopting([@ EXCEPT !.hydration = "done"])]
            /\ held' = Enters(held, record[r].key, record[r].loaded.state)
  /\ UNCHANGED <<config, outcome, store, pending, forgets, faults>>

\* The rest of #reload: adopt, or hydrate again when the key is gone.
Reload(r) ==
  /\ record[r].pc = "reloaded"
  /\ IF IsGone(r)
       THEN /\ record' = [record EXCEPT ![r] =
                 [@ EXCEPT !.state = Initial, !.seq = 0, !.by = InitialValues,
                           !.stale = FALSE, !.hydration = "running",
                           !.pc = "hydrating"]]
            /\ UNCHANGED held
       ELSE /\ record' = [record EXCEPT ![r] =
                 Adopting([@ EXCEPT !.stale = FALSE])]
            /\ held' = Enters(held, record[r].key, record[r].loaded.state)
  /\ UNCHANGED <<config, outcome, store, pending, forgets, faults>>

\* The load fails, and so does the turn.  A hydration keeps the error.
LoadFails(r) ==
  /\ record[r].pc \in {"hydrating", "reloading"}
  /\ faults < MaxFaults
  /\ faults' = faults + 1
  /\ LET failed == IF record[r].pc = "reloading" THEN record[r]
                   ELSE [record[r] EXCEPT !.hydration = "failed"]
     IN  TurnEnds(r, failed, "failed", held)
  /\ UNCHANGED <<config, log, pending, forgets>>

\* The fence: the record is still where the attempt found it.
Committable(r) == r.token.seq = r.seq

\* The handler returns and its commit is put on the write chain, sealed.
Seal(r, to) ==
  /\ record[r].pc = "handling"
  /\ Committable(record[r])
  /\ record' = [record EXCEPT ![r] =
       [record[r] EXCEPT
          !.chain = Append(@, [to |-> to,
                               by |-> CommitBy(Head(record[r].queue)),
                               on |-> record[r].token.by,
                               expected |-> record[r].seq]),
          !.pc = "writing"]]
  /\ UNCHANGED <<config, held, outcome, store, pending, forgets, faults>>

\* The turn fails: the hydration did before, or the handler, or the fence.
TurnFails(r) ==
  /\ record[r].pc \in {"failing", "handling"}
  /\ TurnEnds(r, record[r], "failed", held)
  /\ UNCHANGED <<config, log, pending, forgets, faults>>

\* The attempt times out.  A sealed append goes on without it.
Timeout(r) ==
  /\ config.timeouts
  /\ record[r].pc \in {"handling", "writing"}
  /\ TurnEnds(r, record[r], "failed", held)
  /\ UNCHANGED <<config, log, pending, forgets, faults>>

-----------------------------------------------------------------------------
(* The write chain of a record, whether it is in memory or not.            *)

Write(r) == Head(record[r].chain)

Rest(r) == [record[r] EXCEPT !.chain = Tail(@)]

Mutant_Holds(r) == DurableSeq(record[r].key) >= Write(r).expected

Mutant_HoldsAbsent(r) ==
  log[record[r].key] = <<>> \/ DurableSeq(record[r].key) = Write(r).expected

\* The append is conditional on the sequence it was built on.
Holds(r) == DurableSeq(record[r].key) = Write(r).expected

IsInit(r) == Write(r).by = InitialValues

\* The turn of the trigger waits for this commit.
Awaited(r) ==
  /\ record[r].pc = "writing"
  /\ Write(r).by = CommitBy(Head(record[r].queue))

\* flushed() waits for the writes that were on the chain when it was called.
WriteLeaves(r) ==
  pending' = [k \in Key |->
    IF pending[k].record = r /\ pending[k].ahead > 0
      THEN [pending[k] EXCEPT !.ahead = @ - 1]
      ELSE pending[k]]

Stores(r) ==
  log' = [log EXCEPT ![record[r].key] =
            Append(@, [to |-> Write(r).to, by |-> Write(r).by,
                       on |-> Write(r).on])]

\* The rest of #hydrate, and the dispatch it was awaited by.
InitLands(r) ==
  /\ record[r].chain # <<>> /\ IsInit(r)
  /\ Holds(r)
  /\ Stores(r)
  /\ record' = [record EXCEPT ![r] =
       Ready([Rest(r) EXCEPT !.hydration = "done"])]
  /\ WriteLeaves(r)
  /\ UNCHANGED <<config, held, outcome, snapshot, forgets, faults>>

\* Somebody else initialized the key, or the store is out of order.
InitFails(r) ==
  /\ record[r].chain # <<>> /\ IsInit(r)
  /\ \/ ~Holds(r) /\ UNCHANGED faults
     \/ faults < MaxFaults /\ faults' = faults + 1
  /\ TurnEnds(r, [Rest(r) EXCEPT !.hydration = "failed"], "failed", held)
  /\ WriteLeaves(r)
  /\ UNCHANGED <<config, log, forgets>>

Mutant_Accounted(r, after) == Costs(held, after.key, Bytes[after.state])

\* #dispatch after a commit: index a move, and account for the instance.  For
\* the key, whatever became of the record.
Accounted(r, after) ==
  LET moved == IF after.state = record[r].state THEN held
               ELSE Enters(held, after.key, after.state)
  IN  Costs(moved, after.key, Bytes[after.state])

\* The rest of commit(), and of #dispatch when its turn is still waiting.
CommitLands(r) ==
  /\ record[r].chain # <<>> /\ ~IsInit(r)
  /\ Holds(r)
  /\ Stores(r)
  /\ LET after == [Rest(r) EXCEPT !.state = Write(r).to,
                                  !.seq = Write(r).expected + 1,
                                  !.by = Write(r).by]
     IN  IF Awaited(r)
           THEN TurnEnds(r, after, "committed", Accounted(r, after))
           ELSE /\ record' = [record EXCEPT ![r] = after]
                /\ UNCHANGED <<held, outcome, snapshot>>
  /\ WriteLeaves(r)
  /\ UNCHANGED <<config, forgets, faults>>

\* A conflict makes the record stale; any other failure leaves it as it is.
CommitFails(r) ==
  /\ record[r].chain # <<>> /\ ~IsInit(r)
  /\ \E conflict \in BOOLEAN :
       /\ IF conflict THEN ~Holds(r) /\ UNCHANGED faults
                      ELSE faults < MaxFaults /\ faults' = faults + 1
       /\ LET after == [Rest(r) EXCEPT !.stale = @ \/ conflict]
          IN  IF Awaited(r)
                THEN TurnEnds(r, after, "failed", held)
                ELSE /\ record' = [record EXCEPT ![r] = after]
                     /\ UNCHANGED <<held, outcome, snapshot>>
  /\ WriteLeaves(r)
  /\ UNCHANGED <<config, log, forgets>>

-----------------------------------------------------------------------------
(* forget().                                                               *)

Idle(k) == record[Resident(k)].pc = "idle"

\* KEY_BUSY unless idle; then the writes of the record are waited for.
ForgetFlushes(k) ==
  /\ config.forgets
  /\ forgets < MaxForgets
  /\ pending[k] = NoForget
  /\ Resident(k) # None
  /\ Idle(k)
  /\ forgets' = forgets + 1
  /\ pending' = [pending EXCEPT ![k] =
       [record |-> Resident(k), ahead |-> Len(record[Resident(k)].chain)]]
  /\ UNCHANGED <<config, record, held, outcome, store, faults>>

\* Both halves of what the store holds of a key.
Deleted(k) ==
  /\ log' = [log EXCEPT ![k] = <<>>]
  /\ snapshot' = [snapshot EXCEPT ![k] = NoSnapshot]

\* The record is released and the key deleted, without looking again.
ForgetDeletes(k) ==
  /\ pending[k] # NoForget
  /\ pending[k].ahead = 0
  /\ held' = Released(held, k)
  /\ Deleted(k)
  /\ pending' = [pending EXCEPT ![k] = NoForget]
  /\ UNCHANGED <<config, record, outcome, forgets, faults>>

\* A key with no record is deleted at once.
ForgetAbsent(k) ==
  /\ config.forgets
  /\ forgets < MaxForgets
  /\ Resident(k) = None
  /\ forgets' = forgets + 1
  /\ Deleted(k)
  /\ UNCHANGED <<config, record, held, outcome, pending, faults>>

-----------------------------------------------------------------------------

\* Every trigger was sent and answered, and nothing is under way.
Quiet ==
  /\ \A t \in Trigger : outcome[t] \notin {"unsent", "pending"}
  /\ \A r \in Trigger : record[r].chain = <<>>
  /\ \A k \in Key : pending[k] = NoForget
  /\ UNCHANGED vars

Send(t, k) == SendResident(t, k) \/ SendNew(t, k) \/ SendRefused(t, k)

Loads(r) == StoreLoad(r) \/ Hydrate(r) \/ Reload(r) \/ LoadFails(r)

Attempt(r) == (\E to \in State : Seal(r, to)) \/ TurnFails(r)

Settles(r) == InitLands(r) \/ InitFails(r) \/ CommitLands(r) \/ CommitFails(r)

Next ==
  \/ \E t \in Trigger, k \in Key : Send(t, k)
  \/ \E r \in Trigger : Loads(r) \/ Attempt(r) \/ Timeout(r) \/ Settles(r)
  \/ \E k \in Key : ForgetFlushes(k) \/ ForgetDeletes(k) \/ ForgetAbsent(k)
  \/ Quiet

Spec == Init /\ [][Next]_vars

-----------------------------------------------------------------------------

(***************************************************************************)
(* One handler at a time per key: a turn is only ever under way on the     *)
(* record in the table, whatever was evicted, reloaded and forgotten.      *)
(***************************************************************************)
OneTurnPerKey ==
  \A r \in Trigger : record[r].pc # "idle" => Resident(record[r].key) = r

(***************************************************************************)
(* A reload is transparent: in a runtime that has deleted nothing, each    *)
(* commit of a key was decided on the commit right before it, across       *)
(* records of the key that come and go, and appends that outlive theirs.   *)
(***************************************************************************)
DecidedOnLatest ==
  forgets = 0 =>
    \A k \in Key : \A i \in 1 .. Len(log[k]) :
      log[k][i].on = IF i = 1 THEN NoCommit ELSE log[k][i - 1].by

(***************************************************************************)
(* The table, the ledger and the index hold the same keys, and the running *)
(* total is the sum of what the keys cost.                                 *)
(***************************************************************************)
TablesInStep ==
  /\ \A k \in Key :
       /\ (Resident(k) # None) <=> (held.index[k] # None)
       /\ (Resident(k) # None) <=> (k \in ToSet(held.order))
  /\ IsInjective(held.order)
  /\ held.total = MapThenSumSet(LAMBDA k : held.bytes[k], Key)

\* A commit of k whose sender was told of a failure.
Raced(k) ==
  \E i \in 1 .. Len(log[k]) :
    \E t \in Trigger : log[k][i].by = CommitBy(t) /\ outcome[t] = "failed"

(***************************************************************************)
(* The index that sweeps and queries walk has an idle instance under the   *)
(* state it is in, as long as none of its commits was raced by a timeout:  *)
(* such a commit moves the instance and not the index.                     *)
(***************************************************************************)
IndexNamesTheState ==
  \A k \in Key :
    Resident(k) # None /\ Idle(k) /\ ~Raced(k) =>
      held.index[k] = record[Resident(k)].state

(***************************************************************************)
(* Under "lru" the accounted bytes are within the budget whenever nothing  *)
(* is under way: the budget goes over for busy instances only.             *)
(***************************************************************************)
BudgetHolds ==
  config.policy = "lru" /\ (\A r \in Trigger : record[r].pc = "idle") =>
    held.total <= MaxBytes

(***************************************************************************)
(* A forgotten key comes back as a new one: a stream starts with an        *)
(* initialization, by the record in the table.                             *)
(***************************************************************************)
ForgottenStartsOver ==
  [][\A k \in Key : log[k] = <<>> /\ log'[k] # <<>> =>
       /\ log'[k][1].by = InitialValues
       /\ Resident(k) # None]_vars

=============================================================================
