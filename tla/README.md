# A TLA+ model of ekman

ekman runs state machines addressed by key. A `send()` puts a trigger into the inbox of its
key, a handler decides on a snapshot of the instance, and the commit is appended to the key's
event stream under the condition that nothing was committed since. This directory models the
parts of it that are hard to test (queues, abandoned handlers, retries, other writers, crashes),
checks them with TLC, and proves what can be proved for every size with TLAPS.

Sources are cited relative to the repository. `PROJECT.json` maps every definition to its lines.

## The system

| Part | State it keeps | Operations | Talks to | What makes it correct |
|---|---|---|---|---|
| Inbox (`src/inbox.ts`, `src/config.ts`) | queue of a key, `#running` | `enqueue`, overflow policies, drain loop | called by `send()`; calls the turn; reports to telemetry sinks in the middle of an operation | call order, capacity, every sender answered once, never a queue without a drain loop |
| Dispatch (`src/dispatch.ts`, `src/policy.ts`) | attempt number, timer | attempt loop, timeout, error handlers, constraints, commit | inbox above, record and fence below | one answer per trigger; no attempt decides on anything but the latest commit |
| Fence (`src/fence.ts`) | one token per attempt | `invalidate`, `seal`, `fenceViolation` | invalidated by timers and retries, consulted by commits | an attempt given up before its seal writes nothing |
| Instance record (`src/instance.ts`) | state, sequence, stale flag, hydration, resident events, write chain | `ready`, `#hydrate`, `#reload`, `commit`, `reject`/`violation` | dispatch above, the commit authority below | the record is a state of the durable stream |
| Event stream (`src/events.ts`, `src/store.ts`) | none | `replay`, `latestSeq`, scans | everything | commits numbered without gaps |
| Memory store (`src/stores/memory.ts`) | logs, snapshots | conditional append, load, snapshot, forget | record | an append is atomic with its check |
| File store (`src/stores/file.ts`) | log and snapshot files; sequence cache, byte table | the same, plus compaction, retention, repair | record, storage sweep | nothing acknowledged is lost, whatever crashes |
| Runtime (`src/ekman.ts`, `src/memory.ts`) | table of records, ledger of bytes | `send`, eviction, `forget`, `history`, `query` | owns the records | at most one live record acts for a key |
| Temporal index and sweep (`src/temporal.ts`, `src/ekman.ts`) | who is in which state since when | `enter`, `remove`, `sweep`, escalation | sends triggers | a constraint fires once per stay, for the state it is about |
| Queries (`src/query.ts`, `src/ekman.ts`) | none | `query`: resident rows, a scan, filters, limit, reasons; `history`: stored stream, merge of restores, completeness | index and records, store | an answer called complete is complete |
| Constraints and states (`src/constraints.ts`, `src/states.ts`) | compiled lists and the graph of an entity | compile, check a proposed commit | dispatch, sweep, analysis | a verdict is what the declaration says, whatever the order and the policies |
| Definitions, keys, results (`src/entity.ts`, `src/key.ts`, `src/results.ts`) | none | pure functions | dispatch | they compute what they say |
| Stack (`src/stack.ts`, `src/memory.ts`) | the layers | build, pick the authority, refuse what cannot work | runtime | exactly one authority, and the right one |
| Analysis, diagrams, observed edges (`src/analysis.ts`, `src/diagram.ts`, `src/observed.ts`) | none | reports over a graph and over streams | graph, streams | what they call unreachable, terminal or taken is |
| Deployment service (`examples/deploy-service`) | two entities | HTTP routes, queue consumer, sweep, reaction, prune, shutdown | runtime | a deployment runs once, fails visibly, and is deleted only when finished |
| Audit (`src/audit.ts`), telemetry (`src/telemetry.ts`) | none | unawaited deliveries; synchronous reports | runtime | a sink cannot fail a commit |
| Runner, scenarios, demos, benchmarks, tests | none | users of the library | - | outside this model |

Calls within a process are JavaScript: a stretch of code between two `await`s is one atomic
step, and everything else may happen at an `await`. The exception is telemetry: a sink runs
synchronously inside the operation that reports, and may call `send()` again.

## The modules

| Module | What it is |
|---|---|
| `BoundedTurns` | promise of an inbox: a bounded line of triggers and one turn at a time |
| `Inbox` | `src/inbox.ts`; implements `BoundedTurns` |
| `MCInbox`, `MCInbox_*.cfg` | instances of `Inbox` |
| `InboxProofs` | theorems about `Inbox`: types, stranded triggers, capacity, order, who is answered, and that its steps are those of `BoundedTurns` |
| `EventLog` | events, `replay`, `latestSeq`, and what a well formed stream is |
| `Lists` | lists the code keeps in arrays, and `filter()` |
| `DataProofs` | lemmas about folds, lists and sums over finite data, without induction rules, and about what `EventLog` and `filter()` read off a stream |
| `OptimisticKey` | promise of a key: a list of commits, each decided on the one right before it |
| `Dispatch` | dispatch, fence, record and write chain of one key of one runtime, with the authority's log, another writer and failures; implements `OptimisticKey` |
| `MCDispatch`, `MCDispatch_*.cfg` | instances of `Dispatch` |
| `DispatchProofs` | theorems about `Dispatch`: types, the stream, the fence; what was decided on what, what a sender is told, and that it implements `OptimisticKey` |
| `DurableKeys` | promise of a durable store: the last commit of each key, and which one its writer was told of |
| `FileStore` | `src/stores/file.ts`, one file operation per step; implements `DurableKeys` |
| `FileStoreProofs` | theorems about `FileStore`: what is acknowledged, cached and counted, and that it implements `DurableKeys` |
| `MCFileStore`, `MCFileStore_*.cfg` | instances of `FileStore` |
| `Residency` | the runtime of `src/ekman.ts` with `src/memory.ts` and `src/temporal.ts`: which instances are in memory, what they cost, where they are indexed, eviction and `forget()`, over the authority's streams and snapshots |
| `MCResidency`, `MCResidency_*.cfg` | instances of `Residency` |
| `ResidencyProofs` | theorems about `Residency`: the tables, the index, the budget, one turn per key, what was decided on what |
| `Sweep` | temporal constraints: `sweep()`, what has fired, and escalations beside turns that move the instances |
| `MCSweep`, `MCSweep_*.cfg` | instances of `Sweep` |
| `SweepProofs` | theorems about `Sweep`: what a violation says is true, an escalation is aimed, a constraint fires once |
| `StateGraph` | `src/states.ts`, `src/analysis.ts` and the edges of `src/diagram.ts`: states, declared edges, reachability |
| `Constraints` | `src/constraints.ts`: what a declaration may say, its compiled form, and the verdict on a result; over `StateGraph` |
| `Declared` | one instance under the constraints of its entity, through releases; `src/entity.ts`, the verdict in `src/dispatch.ts`, `src/observed.ts`; over `Constraints` |
| `MCDeclared`, `MCDeclared_*.cfg` | instances of `Declared` |
| `DeclaredProofs` | proofs about `Declared` |
| `Stack` | `src/stack.ts`, the memory configuration of `src/memory.ts`, and the storage sweep: which configurations are accepted, and who is the authority |
| `Query` | `query()` and `history()` beside turns, evictions, reloads, folds and restarts; over `Stack`, `EventLog` and `Lists` |
| `QueryProofs` | theorems about `Query`: what a row of an answer says and what a complete answer leaves out, that no commit is lost, and what a history says |
| `MCQuery`, `MCQuery_*.cfg` | instances of `Query` |
| `DeployService` | `examples/deploy-service`: producers, consumer, sweep, reaction, prune and shutdown over the runtime; over `Constraints` |
| `MCDeployService`, `MCDeployService_*.cfg` | instances of `DeployService` |

The definitions named `Mutant_...` are variants of the definition that follows them, each with
a plausible bug. None of them is used by a specification. For each property of a passing run one
of them, put in the place of the original, makes TLC find the property violated.

### Inbox

`queue`, `running` and `outcome` are the inbox; `stack` is the JavaScript call stack of nested
`enqueue()` calls, because an `enqueue()` reports to sinks before it starts the drain loop, and a
sink that sends opens another `enqueue()` on top of it. `Enqueue` is the capacity decision,
`Accept` and `Overflow` what follows it up to the next report, `Refuse` the rest of a refusal,
`Start` the rest of an acceptance, `Drain` and `Settle` the loop. Capacity and policy are chosen
in `Init` and never change. Handlers are reduced to turns that settle with a success or a failure.

### Dispatch

`state`, `seq`, `hydration`, `stale`, `events` and `writes` are fields of `InstanceRecord`; `token`
has the `CommitToken` of every attempt together with how far its handler is; `turn` is the
trigger that has the key (the inbox guarantees there is one at a time) and the stage of
`Ekman.#run` and of the attempt loop; `outcome` is what `send()` has told; `log` is the stream at
the authority. `writes` is `#persisting`: appends run one at a time in the order they were queued,
and the steps `StoreAppend`/`AppendFails` (the authority does it) and
`CommitLands`/`CommitConflicts`/`CommitUnstored`/... (the runtime learns of it) are separate,
since a timer or another turn can come in between.

An attempt that timed out is not stopped: `HandlerReturns(a)` is enabled for every attempt that
is still running, whatever turn or attempt has the key. `ForeignCommit` and `ForeignForget` are
another process on a multi-writer store. `RecordBeside` is a refusal by overflow or a violation
found by a sweep, recorded whatever the key is doing.

What is abstracted: committed values (a commit is identified by its attempt); which constraint
was violated (the model chooses none, a warning or a rejection); backoff lengths; custom
`retryable` predicates (the default one is modelled); `STORE_UNAVAILABLE` stands for every error
of a store other than a conflict. A runtime with no store at all is the special case in which
every append is done and answered at once. `Begin` and `FirstAttempt` are one stretch in the code
when there is nothing to reconcile; the step between them changes nothing the others look at.

### FileStore

`log` and `snap` are the files of each key, as lines; `cached` is `#seq`, `counted`, `snapBytes`
and `total` are the byte table, `op` says between which two file operations an operation is.
Operations are synchronous, so only the end of the process comes in between: `Crash` clears the
memory and keeps the files. A write that stops half way leaves a `Fragment`, cut off by the next
read of the log (`Repaired`); a line written onto a fragment is `Corrupt`. `Failures` lists which
writes may stop half way: "torn line" and "half log" end the process in an append or in the
rewriting of a log; "short write" is a full disk, after which the process goes on; "half snapshot"
and "half forget" are the other two places.

### Residency

`held` is `#instances`, `#ledger` and `#temporal` of the runtime; `record` is every `InstanceRecord`
created so far, in the table or not, since an evicted record may still have an append under way
that lands later. A record is named by the trigger whose `send()` created it. `log` and `snapshot`
are the authority's. `SendResident`, `SendNew` and `SendRefused` are `send()` and
`#resolveInstance`; `StoreLoad` with `Hydrate` or `Reload` is a load and what the record makes of
it, two steps because the store may change in between; `Seal`, `Timeout`, `CommitLands` and
`CommitFails` are what `Dispatch` says of an attempt, reduced to one attempt per turn. `TurnEnds`
is `#onIdle` with the whole of `#evictToFit` and the snapshots it writes: no `await` in it.
`ForgetFlushes` and `ForgetDeletes` are the two halves of `forget()` around its `await`.

Assumed: there is a store, `memory.snapshotOnEvict` is on (its default), triggers are accepted by
the inbox, and this runtime is the only writer. `overlaps` in the settings says whether the
application may send to a key before its `forget()` returned.

### Sweep

`record` has of each resident instance its state, the time it entered it, what has fired
(`#firedTemporal`), whether it was loaded, and its inbox; `entries` is its stream, as the states it
entered and when; `sweep` is the local state of `#sweepOnce` and `#sweepInstance`: the instant of the
pass, the states and keys still to visit, the key under evaluation with its age read before the last
`await`, and its remaining constraints. `Visit` and `Continue` are the stretches between two awaits of
a pass; `Escalates` is `#escalate` up to `await this.send`, and a turn that answers the escalation
lets the pass go on (`Answered`). A pass keeps a reference to the record it visits, so one that is
evicted under it (`sweep.gone`) still remembers what was marked on it.

Not in the model: several entities, overflow policies other than `reject`, retries and timeouts of a
turn (`Residency` has what they do to the index), the violation in the stream, and the timer
(`SweepStarts` may come at any time). The load and the initialization of a new instance are one step.

### Constraints and Declared

`StateGraph` and `Constraints` have no state: they are the pure functions of their files, in the order
the code evaluates them, with violations as a sequence because a walk stops at the first refusal and
reads off the last entry whether it did. A check is a function from the proposed values to "true",
"false", a reason, or "throws". `Declared` gives them an instance: `Initialize`, `Dispatch`, `Returns`
and `Settle` are one attempt, in which a handler may return any result, and an error handler what it
recovers with; `Release` restarts the process with the next definition, in the middle of a turn or not,
and `Adopt` stands for a release that declares what `allowFrom(observeEdges(...))` gives for the stream.
`ValidConstraints` is what the definition is refused for. `VerdictFollowsTheDeclaration` compares the
sequence the code builds with a reading of the declaration as sets of unmet constraints: what is
committed, and which warnings (`Warnings`) a commit noted on its way.

### Stack and Query

`Stack` says which configurations a runtime accepts and which layer is the commit authority. `Query`
runs on every configuration of its setups that `Stack` accepts. `record` and `index` are `#instances`
and `#temporal`, `orphans` the write chains of records that were evicted with writes under way, `store`
the snapshot and the stream of each key at the authority. `Ask` is the synchronous first half of
`query()`, `ScanNext` the scan, one key after the other, `Answer` the union, the limit and the reasons;
`AskHistory`, `ReadHistory` and `AnswerHistory` are `history()` cut at its three awaits, and `MergeRestores` the
loop of `src/query.ts` with its position in the stored stream. `NoPicture` and `NoRecord` are what there is of
an instance never initialized and of one not in memory. `seen` is what
each key was while a query ran, and is only read by properties. After the one answer a behaviour is
about, it stops.

### DeployService

The runtime is reduced to what the modules above say of it: a bounded line per key (`Arrived`,
`Ended`), a turn that loads or initializes (`Start`), calls the deploy API and may be retried
(`Throw`), is judged by `CheckConstraints` of `Constraints` and is on disk (`Return`) before it is
applied and handed to the audit sinks (`Apply`, which posts the incident). `Create`, `PostEvent`,
`Consume`, `Escalate` and `Operate` are who sends; a producer waits for its answer. `AskPrune` and
`Forget` are the query and the deletions of `POST /ops/prune`. `Crash` and `Exit` lose everything but
`instance`. The ages the sweep and the prune ask about are abstracted: what may be old is old. A key
that nobody holds is `Nothing`.

## What the runs check

Every run is exhaustive within its bounds and looks for deadlock. `PROJECT.json` lists them with their properties.

| Run | Instance | Shows |
|---|---|---|
| `inbox_turns` | 4 triggers, capacity 0..2, all policies, sinks only observe | `CapacityBound`, `HandledInCallOrder`; refinement of `BoundedTurns`; `EverySenderAnswered` |
| `inbox_sinks` | 5 triggers, the same configurations, sinks may send | nested sends lose nobody (`EverySenderAccountedFor`) and neither strand a queue (`NoStrandedTrigger`) |
| `dispatch_fence` | 2 triggers, 2 attempts, timeouts, 1 failed load or append (which may have reached the log), 1 note; or no timeouts and 2 commits or deletions of another runtime, with 3 triggers beside commits alone | `FenceHolds`, `DecidedOnLatest`; record and answers agree with the log (`RecordIsDurable`, `AnswersAreTrue`) |
| `dispatch_live` | 2 triggers, 2 attempts, timeouts, 1 commit of another runtime | `EveryTurnEnds` although handlers may hang, `FailureIsReported`, refinement of `OptimisticKey` |
| `filestore_durable` | 2 keys, 2 states, 3 retention configurations, commits 0 and 1 of each life of a key, 1 crash | `AckedIsDurable`, `CacheIsCurrent`, `BudgetCoversDisk`, `NotesSurvive`, refinement of `DurableKeys` |
| `residency_tables` | 4 triggers, 2 keys, a budget of 1 byte for instances of 1 and 2, "lru" with timeouts or "reject" without, 1 forget, 1 failed load or append | `OneTurnPerKey`, `DecidedOnLatest` across evictions and reloads, `TablesInStep`, `IndexNamesTheState`, `BudgetHolds`, `ForgottenStartsOver` |
| `sweep_pass` | 2 keys, 2 states, three constraints (two on one state), 3 moments, 3 triggers and any number of escalations, 1 failed load or append, no eviction | `OncePerEntry`, `TrueWhenRecorded`, `AimedAtItsState` |
| `declared_releases` | 3 states, streams of about 5 events, single releases of about 90 declarations (all policies of edges, guards, invariants and escalations, error handlers, and 8 that are refused), and releases that adopt observed edges or drop a state | `VerdictFollowsTheDeclaration`, `InvariantsHoldOnceChecked`, `UnreachableStaysEmpty`, `ObservedMovesStayOpen` |
| `query_answers` | 2 keys, 2 states; a file, a cache before a file, memory alone, no store, an adapter without state filters, and a memory layer claiming authority over a file (refused), with budgets for one instance or none; 1 query or history, up to 3 sends, 2 notes, 1 fold, 1 restart, 1 tick | `CommitsAreKept`, `CompleteAnswersMissNothing`, `AnswersWereTrue`, `HistorySeesRefusals`, `HistoryIsHonest` |
| `service_day` | 1 id, 1 client, room for 1 waiting trigger, 2 attempts, a backlog of 4 messages, 1 prune, and 3 requests with 1 operation, or 2 with 1 crash or shutdown | `DeployedOncePerLife`, `PruneTakesOnlyFinished`, `IncidentTellsTheFirstFailure` |
| `dispatch_collision`, `filestore_torn` | small instances | the findings below |

Bounds. Two attempts are enough for an attempt to be superseded, and two triggers for an abandoned
attempt to reach into the turn of another; a third trigger, without timeouts, finds what another
writer and a failure left behind. Two states tell a commit on the wrong state from one on
the right state. Capacity 0, 1 and 2 are no room, one slot, and a queue with an inside. In
`FileStore` a log is folded once it has two lines, so a fold comes between any two commits and a
commit can follow a fold. In `Residency` the budget holds one instance in its initial state and
none in the other, so a commit can evict its own instance and another key's; four triggers are enough
for a key to be evicted with an append under way, loaded again, and committed to by both records. In
`Sweep` three moments separate a bound that has passed from one that has not, three triggers create
both instances and let one leave and re-enter. In `Declared` a stream of five events has an
initialization, a way into each state and a refusal on it; in `Query` two keys are enough for one to be
evicted by the other while a scan is between them; in `DeployService` two requests beside the backlog
are enough to deploy, fail, roll back, prune, deploy again and fail for another reason, and the keys of
different ids share nothing (but see the finding on ids). The counters `foreign`, `faults`, `notes`, `crashes`,
`forgets`, `sends`, `left` and
`MaxEvents` only bound how much happens; of these, properties read `forgets`, and `left` for whether a
process has stopped.

### Where timeouts and other writers matter

A token is sealed when its append is *queued* (`src/instance.ts:356`). A timeout that fires between
that and the answer finds a commit that stands. Under timeouts a rejected `send()` may therefore have
committed, and `AnswersAreTrue` promises the opposite only without them. Nor is it promised there that
the sequence an attempt is bound to stays the record's while it runs (`src/fence.ts:133` says that it
does), that the handler of a retry belongs to the state it is given (it is looked up once per turn,
`src/dispatch.ts:89`), or that a trigger commits once: if the late commit lands during the backoff, the
retry gets a token for the sequence it produced. What the code does promise is `FailureIsReported`: the
runtime knows of every such commit and reports `commit.raced`.

`AnswersAreTrue` also needs a store that tells the truth about a failed append. Appends are
conditional on a sequence number alone, so another runtime that deletes a key and brings it back
to the same sequence goes unnoticed: `Chained` in `DecidedOnLatest`, and `RecordIsDurable`, are stated
beside commits or beside nothing, not beside deletions. In `Residency` `DecidedOnLatest` is stated of
runtimes that have deleted nothing, since an append of an evicted record is not waited for by
`forget()`, and may land at the matching sequence of the key's next life.

A commit raced by a timeout also moves the instance without the index and the ledger
(`src/ekman.ts:705`): `IndexNamesTheState` excludes such keys. With `overlaps` true, `OneTurnPerKey`,
`DecidedOnLatest`, `TablesInStep`, `BudgetHolds` and `ForgottenStartsOver` fail: a `send()` during the
`await` of `forget()` starts a turn on the record that is then released. `overlaps` is FALSE in the
passing run.

`AimedAtItsState` is about the first escalation of a visit: the age is read once
(`src/ekman.ts:1055`) and the constraints after it fire by it, although the instance may have left the
state in the turn of the first. `TrueWhenRecorded` still holds for them, at the instant of the pass. It
is conditional on a loaded record: one whose load is under way or failed is indexed and aged as if it
had entered its initial state when it was created, and a violation recorded for it may be of a state it
was never in.

`AnswersWereTrue` leaves out rows of records that were not loaded when the query began: they are
reported in the initial state, at the age of the record, although the store knows better
(`src/ekman.ts:645`). `HistoryIsHonest` leaves out streams that begin with a refusal
(`src/ekman.ts:978`). `PruneTakesOnlyFinished` is stated of one prune at a time: with two `Pruners` it
fails. `IncidentTellsTheFirstFailure` promises an incident only as long as the process has not stopped.

### Fairness

Synchronous stretches run to their end, a drain loop continues after a turn settles, and a store
answers (weak fairness of `Reconcile`, `Proceed`, `StoreAnswers`, `WriteSettles`; of `Drain`,
`Start` and `Refuse` in the inbox). A handler is application code and gets no fairness where a
timeout is configured: there the timer is fair (`FairSpec`). Without a timeout the application has
to promise that handlers return, and no liveness is stated for that case. The other modules are
checked for safety, without fairness. Nothing is assumed of `send()`, of other writers, of
failures or of crashes.

## Findings

- `dispatch_collision`: two runtimes initialize a key at once. The loser's hydration is rejected
  with a conflict, the rejected promise stays cached, `#stale` is not set, and every later trigger of
  that record gets the old error without the store being read.
- `filestore_torn`: after a short write the same process writes its next line onto the fragment,
  resolves, and leaves a log nobody can load.

Met on the way, without a run of their own. In the runtime:

- `forget()` checks that the key is idle, then waits for its writes (`src/ekman.ts:266`). A `send()` in
  between starts a turn on the record that is then released, and the key is deleted under it, although
  docs/api.md:81 says that `forget` raises `KEY_BUSY` while a handler is in flight. With `overlaps` TRUE
  in a setting of `Residency`, `OneTurnPerKey` fails.
- What a constraint has fired for is kept on the resident record alone (`src/instance.ts:59`). An
  instance that is evicted and loaded again without having moved is escalated again for the same entry,
  although `src/constraints.ts:128` says "at most once per entry". With `Evicts` TRUE, `OncePerEntry`
  of `Sweep` fails.
- A refusal or violation recorded behind a commit in flight is appended on condition of the sequence
  before that commit (`src/instance.ts:459`), so the authority refuses it.
- A retry that is fenced by the late commit of the attempt before it tells its sender `COMMIT_FENCED`,
  documented as "Nothing committed", although the trigger has committed; and a retry that starts after
  the late commit landed may commit the trigger a second time.
- `forget()` and the append of an evicted record; a raced commit and the index; violations of records
  that are not loaded: above.
- The ledger keeps the size of the initial values of a restored instance until its next commit
  (`src/ekman.ts:723`).
- Two unnamed constraints on one state share the default name `temporal:<state>`
  (`src/constraints.ts:434`); what has fired is remembered by name, so the second never fires.
- A handler that awaits `sweep()` while the sweep's escalation waits behind that handler waits for
  itself.
- A refusal at sequence 0 that survives a fold is the first event of the log that is left, and
  `history()` then calls a stream without its commits complete (`src/ekman.ts:978`), although
  `src/query.ts:81` calls that flag "whether this is the instance's whole history". `HistoryIsHonest`
  without its exception fails.
- A query in which a key is being loaded reports it in the initial state (`src/ekman.ts:645`), although
  the comment at `src/ekman.ts:1128` says that an instance in memory is by definition up to date.
- A history taken while its instance is evicted waits for what the record had queued when it was asked,
  and misses a note queued later. A refusal recorded while a key is still being loaded carries sequence
  0, and its append is refused unless the stored key is at 0.
- The row of an instance that entered its state after the query began has a negative age.
- Caches are written behind the authority and never read, although `src/stack.ts` describes reads; one
  that misses an append conflicts with every later one.
- `sweepStorage()` over several layers stops at the first that throws, and skips the rest.
- `in: []` and `from: []` make an invariant or a guard that applies nowhere, and are accepted. Edges that
  were refused under one release are declared by `allowFrom` if they were taken under another, although
  `src/observed.ts:73` leaves refused edges out on purpose.
- A sink that sends from an `inbox.dropped` report is queued before the trigger whose arrival caused
  the drop, and may exceed the capacity by one (so `CapacityBound` and `HandledInCallOrder` are stated
  for sinks that observe).
- A crash inside the first write of a fold leaves half a snapshot, since it is not written under a
  temporary name like the snapshots of `snapshot()`; a crash between the two removals of `forget()`
  leaves a snapshot that brings the key back at an older state, with no log that a scan would find.
  With "half snapshot" or "half forget" among the `Failures`, `AckedIsDurable` or
  `ImplementsDurableKeys` fails.

In the deployment service:

- Two prunes at once: the second still deletes what its query found, although the first has deleted it
  and the deployment was created again meanwhile. A deployment in `deploying` between two triggers is
  idle, so `forget()` does not refuse it. With two `Pruners`, `PruneTakesOnlyFinished` fails.
- The guard `region-required` is called "the backstop that holds no matter which producer sent it"
  (`entities/deployment.ts:176`), and lets a trigger without a region pass: `undefined !== ""`, and a
  queued deployment moves to `deploying` on any trigger.
- `entities/deployment.ts:163` says that a redelivered `succeeded` for something rolled back "is refused
  rather than applied": its handler returns `stay`, which is committed. A redelivered `deploy` or
  `rollback` in `deploying` moves the deployment to `failed`. A commit that stays in `failed` posts the
  incident again.
- `lib/reactions.ts:16` calls delivery at-least-once: a stop between the commit and the delivery loses
  the incident, and so does a full inbox. An escalation that meets a full inbox is not sent again while
  its instance stays in memory.
- "One incident per deployment, by key" (`lib/reactions.ts:42`): the ids `a:b` and `a-b` share one, and
  a deployment that is pruned and created again keeps the incident of its former life.
- The consumer dead-letters `STORE_FULL`, `MEMORY_EXHAUSTED` and `HANDLER_FAILED`, which may well work
  on a later attempt.

## What is proved

`InboxProofs` proves, for any set of triggers and any set of capacities:

- `TypeCorrect`: `Spec => []TypeOK`.
- `NobodyIsStranded` (`NoStrandedTrigger`) and `TheFirstShiftFindsWork` (no call starts the drain loop
  of an empty queue), for sinks that observe *and* for sinks that
  send. Neither is inductive. The strengthening is `NobodyStrandedInv`: whoever is queued or on the
  call stack has been sent (`SentInv`); the drain loop, if `#running` is set, is the newest call or has
  a turn in hand, and there is one of it (`DrainInv`); if it is not set, whatever waits was pushed by a
  call on the stack that will start it, and such a call finds a trigger in the queue, or a nested call
  above it that still owes one (`StartInv`). The last clause is what makes nested sends safe: an inner
  call can start the loop and empty the queue under the outer one.
- `CapacityIsKept` and `CallOrderIsKept`, under the assumption that sinks only observe
  (`SinksMaySend = FALSE`); without it both are false. The invariants add that the call stack is at
  most one frame high, and that ranks in the queue grow and stay above the rank of the turn in hand.
- `EverySenderIsAccountedFor` (`EverySenderAccountedFor`), for sinks that observe and for sinks that send: a
  sender is unanswered exactly as long as its trigger is in one place. The proof counts the positions of a
  trigger in the queue and on the call stack, and what a push, a shift and a return add or take away. It
  rests on `NobodyStrandedInv` twice: a trigger that enters was nowhere before (`SentInv`), and the loop
  that takes the next entry has none in hand (`DrainInv`).
- `TurnsAreBounded`: with sinks that only observe, each step of the inbox is a step of `BoundedTurns` or a
  stutter. The line is the victim on its way out, the queue and the newcomer on its way in; the invariant
  added, `CrowdedInv`, remembers during a refusal that the queue was full when it began. This is the safety
  half of `ImplementsBoundedTurns`; that a turn begins and ends is a matter of fairness.

`DispatchProofs` proves, for any set of triggers and states, any number of attempts, any settings
(timeouts, other writers that commit or delete, answers that are lost) and any bounds:

| Theorem | Says |
|---|---|
| `TypeCorrect` | `Spec => []TypeOK` |
| `LogIsContiguous` | the stream has neither a gap nor a repeated sequence, deletions included |
| `FenceAlwaysHolds` | `FenceHolds`: an attempt invalidated before its seal has written nothing, however late its handler returns |
| `DecisionsAreOnLatest` | `DecidedOnLatest`: no lost update |
| `RecordIsAlwaysDurable` | `RecordIsDurable`: the record is a commit of the stream |
| `AnswersAreAlwaysTrue` | `AnswersAreTrue`: what resolved has committed; what was refused has not, where nothing times out and no failed append reaches the store |
| `FailureIsAlwaysReported` | `FailureIsReported`, in settings without lost answers: a commit whose sender was told of a failure was raced by a timeout |
| `KeyIsOptimistic` | `ImplementsOptimisticKey`: a key that nobody deletes is an `OptimisticKey`, every step of `Dispatch` being one of its steps or a stutter |

They assume only what `Dispatch` assumes of its constants: the initial state is one of the states, there is at
least one attempt, bounds are natural numbers, and the names for "nobody" and "another writer" are no
triggers. No other assumption is made of the environment: an attempt that was given up may go on at any
moment, and a load or an append may fail at any moment that `Dispatch` allows.

None of the properties is inductive. Each rests on the one before:

1. `StreamInv`: types; the stream is contiguous; and a commit on the write chain is numbered one above the
   sequence it is conditioned on, so an append that the authority accepts cannot leave a gap.
2. `FenceInv` adds `TurnInv` (a sender with a turn has not been answered, and the attempts of its trigger
   that have begun are those the attempt loop has come to), `ChainInv` (at most one initialization is on the
   chain, and its turn waits for it) and `SealInv`: whoever has written, in the stream or on the chain, has
   sealed its token, and a sealed token was not invalidated before its seal. The last half is what
   `FenceHolds` needs, since the seal and the append are steps apart.
3. `DecisionInv` adds `Agreement`, for keys that nobody deletes. Whatever holds a state and a
   sequence agrees with one commit of the stream: the record (`RecordAgrees`), a load on its way
   (`LoadAgrees`), the token of an attempt at work, sealed or not (`TokenAgrees`), a write on the chain with the
   token it was decided by (`WriteAgrees`), and the stream itself (`LogAgrees`). Since sequences are not
   repeated, a commit that is appended right behind the sequence its token is bound to was decided on that
   very commit. Without deletions streams only grow, so that what agreed once agrees forever; that
   is why a step has to show no more than `LogGrows` for whatever it leaves alone.
4. `AnswerInv` follows an attempt to its answer. An attempt whose handler runs has not sealed its token and
   is awaited by the turn, unless it was invalidated; one that writes is awaited, or was raced by a timeout
   (`LiveAttempt`). An attempt has at most one write (`WriterInv`). So an attempt with an event in the stream
   has been acknowledged to its sender, was raced, or has its acknowledgement waiting on the chain
   (`Accounted`), and in the last case the sender has not been told anything yet.
5. The refinement needs nothing beyond `DecisionInv`. Sequences have no gap, so the commits of the stream
   are a list that an accepted append extends by one entry (`CommitsOf`); what an attempt has seen is
   the position its token is bound to; and an acknowledgement finds its commit in that list.
   A deletion would shorten the list, which `OptimisticKey` does not allow: hence `[]NeverDeleted`.

`DataProofs` states what they need of `replay` and `latestSeq`, which are reductions over a stream in
the code: where the last commit of a contiguous stream is, and what an append does to it. The definitions
choose an extreme index of a finite set, so the lemmas follow from the set having one, and no recursion is involved.

`ResidencyProofs` proves, for any set of triggers and states, any finite set of keys, any sizes, any budget and
any bounds, under the assumption `Waits` (no setting has `overlaps`: an application that sends to a
key waits for its `forget()`; without it every one of them is false, see the findings):

| Theorem | Says |
|---|---|
| `TurnsAtHome` | `OneTurnPerKey`: a turn is only under way on the record in the table |
| `TablesAgree` | `TablesInStep`: the table, the order of use and the index have the same keys; the total is the sum of the costs |
| `BudgetIsMet` | `BudgetHolds`: with "lru", a runtime at rest is within its budget |
| `ForgottenKeysStartOver` | `ForgottenStartsOver`: an empty stream starts with an initialization, by the record in the table |
| `DecisionsOnLatest` | `DecidedOnLatest`: no lost update across eviction, reload, timeouts and appends that outlive their record |
| `IndexIsRight` | `IndexNamesTheState`: an idle instance is indexed under its state, unless a timeout raced one of its commits |

They share the inductive invariant `IInv`. Beside the types it says that a resident key is resident as a record
of that key (`Named`), that a record with a turn is the resident one and has its trigger queued (`AtHome`,
with `Sane` for each record: the phase of a record is idle exactly if its queue is empty, and an
initialization is the last write of a turn that waits for it), and that the tables of memory are in step
(`Together`). `Sane` is what makes the others inductive: a record that is evicted is idle, so nothing
but appends is left of it, and none of these is the first write of its key, which a later record makes.

Two parts of the code are loops over data. The total of the ledger is maintained by differences
(`SumChanges` of `DataProofs`: changing one cost changes the sum by the difference). `#evictToFit` is a fold over the order of use
taken before it started. `EvictionFolds` turns the fold into the pictures of memory it goes through, and
`Eviction` shows by least counterexample (the library's well-foundedness of `<` on the naturals; an
induction rule could not be applied) that each of them keeps the tables in step, that it only lets go of
idle instances, and that at the end memory is within its budget or nothing idle is left in it.
`BudgetIsMet` follows: the end of a turn evicts, and whatever else grows the total leaves a turn under way.

`DecisionsOnLatest` adds `Agreement`, for runtimes that have deleted nothing: the record, the snapshot at the
store, a loaded picture, the token of a handler at work and every write on a chain, evicted records
included, name a commit that the stream has at that sequence (`Agrees`, `Known`, `Follows`, `Abides`). Streams only grow,
so an append that is accepted right behind the sequence of its token was decided on that very commit,
whichever record of the key it comes from.

`IndexIsRight` adds `IndexInv`. The index is written when a record is made, when it adopts what was loaded and when a
turn gets the answer to its commit; a commit that lands without its turn moves the instance and not the index.
So the proof follows each commit on a write chain to its sender: the sender is told of a failure, or waits in the
turn in hand, whose last write this is (`Told`, which needs that a queued trigger is queued once and
unanswered, `Waiting`). The other way for the two to part is a reload that finds the key gone, which
resets the state alone. It cannot happen to a resident: whoever works on what a stream held knows that
the stream is there, because a deletion lets go of the record, and a new one knows nothing until it has loaded
(`Streamed`).

`FileStoreProofs` proves, for any states, any finite set of keys, any retention configurations and any bounds,
under the assumption `Dies` (a process may end inside an append, inside the rewriting of a log, and between
any two file operations but those of `forget()`; the other failures falsify these properties, see the findings
and the notes above):

| Theorem | Says |
|---|---|
| `AcknowledgedIsDurable` | `AckedIsDurable`: an append that resolved is never lost |
| `CacheIsAlwaysCurrent` | `CacheIsCurrent`: conditional appends are decided on what the files hold |
| `KeysAreDurable` | `ImplementsDurableKeys`: every file operation is a step of `DurableKeys` or a stutter |
| `BudgetAlwaysCoversDisk` | `BudgetCoversDisk`: the running total is what is on disk, and at most one fragment more for each failure |
| `NotesAreKept` | `NotesSurvive`: refusals and violations stay in the log, in their order |

The first three share the invariant `FilesInv`: types (`Tables`), how far the operation in progress is (`OpFits`), and for
each key not half deleted that its files fit together (`Fits`): only the last line of a log can be a fragment,
commits ascend in it, a key whose sequence is cached has no torn tail and holds that sequence, and
what was acknowledged is held. `OpFits` remembers of an append that has not resolved that its commit is the
one its key holds now (`IsNews`), which is what makes its acknowledgement true, and of a fold that the snapshot
it wrote is what the key holds, so that a log cut off anywhere after it loses nothing.

The lemmas are about values rather than steps: what `Written`, `Repaired`, a snapshot and a fold make of files that
fit (`CommitFits`, `NoteFits`, `RepairKeeps`, `SnapshotFits`, `RewriteFits`). What a fold keeps is a `filter` in the
code and a fold over the lines in the model; `Filters` shows, by the least counterexample over prefixes, that it
takes the lines at an ascending list of positions, and `KeptIsNotes` that these are notes alone,
since the snapshot covers every commit of the log. `RewriteKeepsNotes` adds that it takes all of them: the rewritten
log is exactly the notes of the one before it, and `AppendKeepsNotes` that a line more leaves those before it as they were.

The total is moved by each append, fold, snapshot and deletion and recounted by none of them, so what it says of
the disk is a matter of history. `BooksInv` keeps the books key by key (`Entered`): a counted key is counted with
its lines and at most one fragment, which is in the count whenever it is in the file and may stay there once
it was cut off, and with its snapshot; a key that is not counted has no files. Each operation then changes one key, and
the total by the difference (`Rebooked`). The keys with a fragment in their count (`Swollen`) are no more than
there were failures, since a table is only filled after a failure from files that hold no more fragments than that
(`Torn`), and no step but a failure adds one. What makes this inductive are the sizes that an operation takes before it
uses them: those of a sweep are still those of the table for the keys it has not looked at (`SweepAgrees`),
and the size a fold subtracts is the one the table has for the log it rewrites (`RewriteAgrees`). At the end
the sums over the keys are compared (`SumOfBoth`); `DataProofs` states what all of this needs of a sum over a finite
set, by least counterexample again.

`SweepProofs` proves, for any keys and states, any sequence of temporal constraints, any capacity and any bounds:

| Theorem | Says |
|---|---|
| `ViolationsAreTrue` | `TrueWhenRecorded`: the instance was in the state of the constraint, and overdue, at the instant of the pass |
| `EscalationsAreAimed` | `AimedAtItsState`: the first escalation of a visit is for the state of the record |
| `FiresOnce` | `OncePerEntry`, where no record is evicted (`~Evicts`; with eviction a pass marks a record that is gone, and it is false) |

A pass works over its awaits with an age it read before the first of them. `SweepInv` says what that age is worth
later: a record that was loaded ends where its stream ends (`Mirrors`), and while the pass holds an instance its stream
has a stay in the state of the bucket, begun that long ago, that no entry ended before the instant of the pass
(`HasStay` in `Held`). A later entry is dated after that instant, since the clock was read once, so turns, moves and evictions leave
the stay alone. `FiresOnce` adds `MarksKept`: what fired since the last entry is marked on the resident record. Each
step of a turn is brought to one form first (`Becomes`, `PassStays`): one record is replaced, others may be evicted, and what a
constraint asks of the rest is unchanged. `WalkTypes` and `EvaluatesKeeps` need that the next constraint, the least in a
set, is one of the set (`LeastOfNaturals`).

`QueryProofs` proves, for any keys and states, any configuration that the stack accepts, any criteria and any bounds:

| Theorem | Says |
|---|---|
| `RowsAreTrue` | `AnswersWereTrue`: each row was true of its key while the query ran, or is of a record registered and not loaded |
| `CompleteIsComplete` | `CompleteAnswersMissNothing`: an answer that calls itself complete has every key that matched all the while |
| `ToldIsKept` | `CommitsAreKept`: no commit somebody was told of is lost, unless nothing is durable and the process restarted or records may be discarded |
| `RefusalsAreSeen` | `HistorySeesRefusals`: a history has every refusal and violation recorded before it was asked, unless its append was refused |
| `HistoriesAreHonest` | `HistoryIsHonest`: commits without a gap, a reload behind what it loaded, and all of it when it says so |

`SetupsAssumption` and `TickAssumption` say that bounds and ticks are numbers, `InitialAssumption` and `NoneAssumption`
that the initial state is a state and that no state and no key is `None`.

The invariant of the first two, `QueryInv`, is about the query under way: what it found so far is true of what was seen since it began, and, with a
durable authority, whoever matched all the while is found or will still be read (`Misses`). A turn, an eviction or a fold between
two reads can only add to what was seen, which keeps rows true and lets fewer keys match all the while (`MoreIsSeen`). A
key that the scan does not list matches nothing at that moment, since replaying what the store does not have gives
nothing (`NothingReplayed`). No step of the runtime touches a query under way but the end of the process
(`RunReading`), so these two say nothing of the records: a query takes nothing from the runtime but what
it reads.

The other three are about what records, write chains and the store have to do with each other. `RecordInv` says it of each key
(`IsSound`). What the authority holds is a stream in order: its commits ascend one by one, from the first
that was not folded to the one it replays to (`Filed`, `InOrder`). A loaded record has the sequence that replays, at most one commit is on its chain,
and each note it remembers was filed, was refused, or is still on the chain (`InStep`). An evicted record leaves notes
alone behind (`AreOrphans`), since only an idle record is evicted and a commit on a chain has a turn waiting for it. Without a store the record
is the stream (`Alone`). Each step of a key is brought to one form (`Moving`), of which the two properties need only `Advances`:
nothing that was filed or refused is forgotten, and what is on its way gets there or is refused.

- `KeptInv`: what a sender was told is at most what a `send()` would find (`KnownOf`), or the behaviour is excused. Eviction loses nothing
  where a store has the commit already; without one a record is evicted only where the configuration allows it to be discarded
  (`VictimsAre`). `LayeredIsDurable` is about `resolveStack`: a stack it accepts with a durable layer in it has a durable authority,
  so that `CommitsAreKept` can speak of the layers and the invariant of the authority.
- `HistoryInv`: until it reads, a history waits for each note of its record that is neither filed nor refused (`AreAwaited`); what it read
  is in order up to a sequence at or above what anybody was told when it asked, and an empty stream has a snapshot behind it
  (`WasRead`); the record it holds is in memory, or what it had reloaded was kept when it was evicted (`UnderWay`).
  A commit or a fold between the read and the answer changes neither (`GoesOn`).

`MergedIsHonest` is the lemma about `mergeRestores`. A record reloads at most once, so that one restore is put into
the stream, behind all that is at or below it (`IsBeyond`); the commits around it keep their order and their numbers
(`Spreads`). That a fold keeps the notes and that replaying past it gives the same picture are lemmas on `FoldLeft` of
`DataProofs`, one element at a time and then by least counterexample.

`DeclaredProofs` proves, for any releases of an entity (any states, edges, guards and invariants under any policy),
any results of its handlers and any bounds:

| Theorem | Says |
|---|---|
| `VerdictIsTheDeclaration` | `VerdictFollowsTheDeclaration`: a result is committed exactly when no rejecting constraint is unmet, and a commit notes exactly the warnings that are declared |
| `InvariantsHold` | `InvariantsHoldOnceChecked`: no rest on values that a rejecting invariant of the state refuses |
| `UnreachableIsEmpty` | `UnreachableStaysEmpty`: what `analyze()` calls unreachable or terminal is |
| `ObservedStayOpen` | `ObservedMovesStayOpen`: adopted edges are open to every move that was made |

`ReleasesAssumption` says what a definition is: it has its fields, its lists are lists, and an object of edges has a
key once. `UnsetAssumption` and the hypothesis of `ObservedStayOpen` say that a field left out is no policy
and no declaration. Most of the work is in the loops of the code, which the model writes as folds: the Set that
drops duplicates, the filters that compile constraints (`PickedElements`), the walk that stops at a refusal (`WalkFinds`:
what it finds is of a failing constraint, a rejecting one that fails is never missed, and a refusal comes last) and
the breadth-first search. Each fold is first shown to exist and to go one element at a time
(`PicksOneByOne`, `WalksOneByOne`, `RoundsExist`), then followed by least counterexample (`UpTo`).
`SearchIsClosed` is the argument the code's comment gives for the end of the search: a round either finds a state it had not
found or is the last, so that after as many rounds as there are states what was found leads nowhere else.
`GraphIsDeclared` says what the compiled graph is in terms of the declaration, and `CheckDecides` when a check refuses
and what it found when it does not; `WarningsAreDeclared` reads that in the declaration.

Over these the invariants are short. `InvariantsHoldOnceChecked` is inductive as it stands: only a stay without values is
not checked, and it changes nothing. `EdgesFollowed` says that the state and the target of each move
are among what the initial state leads to. `AdoptedEdges` says that the adopted edges come from an observation
that has every move before the release, and that what was refused since is not among them. They lean on `Grows`: a step
leaves the events of the stream where they are, which also makes a release harmless to what came before it.

`DeclaredProofs` goes on to `DeployService`, whose two entities are definitions of that kind, for any ids, clients, workers,
regions and notes, any capacity, backlog and bounds:

| Theorem | Says |
|---|---|
| `DeployedOnce` | `DeployedOncePerLife`: no life of a deployment is deployed twice |
| `PruneIsSafe` | `PruneTakesOnlyFinished`, where no two prunes are under way at once (with two it is false) |
| `IncidentIsTold` | `IncidentTellsTheFirstFailure`: unless the process stopped, an incident tells what went wrong first |

`BacklogAssumption` says that the queue is a list of messages about the deployments there are; that the definitions are
valid (`DefinitionsAreAccepted`) is a closed fact that TLC evaluates. No handler counts deploys or remembers a first failure:
what keeps a second one out is the declared lifecycle. So the proof first says what the declaration comes to. `StateNames` and the
lemmas after it compile the two entities with the operators of `Constraints`, and `DeploymentVerdict` and
`IncidentVerdict` read off, by `CheckDecides`, which of a handler's results are committed; `ServiceSteps` brings each step of the service
to one of eight forms, and `Lands` a commit to the pairs of states it may lead between. The invariants over these:

- `Shapes`: what is held of a deployment is a record its definition allows, deployed at most once, and not at all while `queued`
  (`IsDeployment`); lines and turns have their fields (`AreLines`), and a turn past its first step works on something that is held. `DeployedOncePerLife` follows,
  since the only way into `deploying` leaves from `queued`, and `queued` is never entered again.
- `PruneInv`: whatever a prune still has in hand is rolled back. It is inductive since nothing leaves `rolled-back`
  (`DeploymentsStay`) and only a prune takes a key away, which is where a second prune would break it: between the two deletions the
  deployment may be created again.
- `Told` follows the report of a failure: before the process stops, a deployment that has failed has its failure committed and not
  yet handed to the sinks (`FirstFails`), or its `open` first in the incident's line or just being answered
  (`FirstOpens`), or written in the incident. Around it, `ToldOf` says that everything in the incident's line is an acknowledge, a
  resolve, or tells a failure there was (`IsToldOf`). The line of an incident is empty when the first `open` comes, since
  `Operate` needs an incident to post to; an incident with a reason keeps it.

A proof attempt found the model ambiguous where TLC could not see it. `IncidentHandler` had two arms of a `CASE` that could both hold, of which
TLC takes the first and TLA+ any; the arms now exclude each other, as the `if` that returns does in
`entities/incident.ts`.

Only model-checked: `CollisionIsNotFinal`, `AckedIsDurable` under short writes (both are violated, see the findings), and liveness: `EverySenderAnswered`,
`EveryTurnEnds` and the fairness of `BoundedTurns`, since fairness and `ENABLED` are beyond the prover. The refinements, up to
that fairness, and every safety property of a passing run are theorems, under the conditions the tables
give. Induction over data is beyond the prover too: the lemmas about folds argue by least counterexample instead, each
for the fold it is about.

## Not modelled, and the plan

Of the library, what is left is: the retries of audit deliveries (nothing waits for them and they
change no state), the overlap flag of the storage sweep's timer, entities added while triggers run,
and resolution of duplicate constraint names inside `Sweep`. Formatting and parsing of keys,
durations and diagrams, the entity builder and types are pure and say nothing about order or failure.
The scenario runner, demos, benchmarks, scripts and tests drive the library through one sequence of calls
each; there is no state of their own to get wrong. Of the deployment service, routes that only read,
metrics and the audit log are left out for the same reason.

What the model could say next is the liveness of `Sweep`, `OverdueIsReported`: an overdue instance is reported by a
later pass whatever the passes find on their way to it, with fair passes and turns that end.
