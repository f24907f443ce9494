------------------------------ MODULE Dispatch ------------------------------
(***************************************************************************)
(* One key of one runtime: the resident record (src/instance.ts), the      *)
(* attempt loop that runs handlers against it (src/dispatch.ts), the       *)
(* commit fence (src/fence.ts) and the commit authority's log of the key.  *)
(*                                                                         *)
(* A step of the model is one synchronous stretch of JavaScript: what runs *)
(* between two awaits.  What may happen between them is the other steps:   *)
(* a handler returns, a timer fires, the store does an append or answers   *)
(* one, a refusal or a temporal violation is recorded, another writer      *)
(* moves the key.  An attempt abandoned at its timeout is never stopped:   *)
(* it goes on beside the attempts and turns that come after it.            *)
(*                                                                         *)
(* The inbox (Inbox.tla) is reduced to what it guarantees: one turn at a   *)
(* time.  Committed values are reduced to the identity of the commit.      *)
(***************************************************************************)
EXTENDS EventLog, FiniteSets

CONSTANTS
  Trigger,       \* the triggers that get a turn
  State,         \* the states handlers may move the instance to
  Initial,       \* the entity's initial state
  MaxAttempts,   \* policy.maxAttempts
  Settings,      \* what a key is exposed to, see Exposures
  MaxForeign,    \* bound: how often another writer touches the key
  MaxFaults,     \* bound: how many loads and appends fail for other reasons
  MaxNotes,      \* bound: how many refusals and violations are recorded
  None,          \* no trigger, no reason
  Other          \* the other writer

(***************************************************************************)
(* timeouts    : whether policy.timeoutMs is set                           *)
(* foreign     : what another writer does to the key                       *)
(* lostAnswers : whether a failed append may have reached the log          *)
(* turns       : bound: how many triggers get a turn                       *)
(***************************************************************************)
Exposures == [timeouts: BOOLEAN, foreign: SUBSET {"commit", "forget"},
              lostAnswers: BOOLEAN, turns: Nat]

ASSUME StateAssumption == Initial \in State
ASSUME MaxAttemptsAssumption == MaxAttempts \in Nat \ {0}
ASSUME SettingsAssumption == Settings \subseteq Exposures
ASSUME BoundsAssumption ==
  MaxForeign \in Nat /\ MaxFaults \in Nat /\ MaxNotes \in Nat
ASSUME ActorsAssumption ==
  None \notin Trigger /\ Other \notin Trigger /\ None # Other

VARIABLES
  setting,    \* what the key is exposed to
  state,      \* #state of the record
  seq,        \* #seq of the record
  hydration,  \* #pending and #hydration: "none", "running", "done", an error
  stale,      \* #stale: a conditional append was refused
  events,     \* #events: the resident stream
  writes,     \* #writes: the write chain, the append in flight first
  token,      \* the commit token of each attempt, and how far the attempt is
  turn,       \* the trigger that has the key, its attempt, and the phase
  outcome,    \* what each sender has been told
  log,        \* the key's stream at the commit authority
  loaded,     \* what the load in progress has read
  foreign,    \* how many operations of the other writer happened
  faults,     \* how many loads and appends failed
  notes       \* how many refusals and violations were recorded

record == <<state, seq, hydration, stale, events>>
bounds == <<setting, foreign, faults, notes>>
vars == <<record, writes, token, turn, outcome, log, loaded, bounds>>

AttemptId == Trigger \X (1 .. MaxAttempts)

\* Who writes events: attempts, the runtime (init is note 0), the other writer.
InitId == <<None, 0>>
NoteId(n) == <<None, n>>
ForeignId(n) == <<Other, n>>

FenceReasons == {"timeout", "superseded"}

ASSUME ReasonsAssumption == None \notin FenceReasons

TurnPhases == {"idle", "hydrating", "hydrated", "initializing", "reloading",
               "reloaded", "ready", "attempting", "backoff"}

NoTurn == [trigger |-> None, attempt |-> 0, handler |-> None, pc |-> "idle"]

NoToken == [pc |-> "none", seq |-> 0, observed |-> None, sealed |-> FALSE,
            invalidatedBy |-> None, racedBy |-> None]

Write(event, expected) ==
  [event |-> event, expected |-> expected, result |-> "queued"]

StoreErrors == {"STORE_CONFLICT", "STORE_UNAVAILABLE"}

Errors == StoreErrors \cup {"UNKNOWN_TRIGGER", "CONSTRAINT_VIOLATED",
                            "COMMIT_FENCED", "HANDLER_FAILED",
                            "HANDLER_TIMEOUT"}

\* Codes a retry cannot change (NOT_RETRYABLE), of those an attempt ends with.
NotRetryable == {"COMMIT_FENCED", "CONSTRAINT_VIOLATED"}

-----------------------------------------------------------------------------

Init ==
  /\ setting \in Settings
  /\ state = Initial
  /\ seq = 0
  /\ hydration = "none"
  /\ stale = FALSE
  /\ events = <<>>
  /\ writes = <<>>
  /\ token = [a \in AttemptId |-> NoToken]
  /\ turn = NoTurn
  /\ outcome = [t \in Trigger |-> "unsent"]
  /\ log = <<>>
  /\ loaded = <<>>
  /\ foreign = 0
  /\ faults = 0
  /\ notes = 0

\* The turn waits for attempt a: the race with its timeout is not decided.
Awaiting(a) == turn.pc = "attempting" /\ a = <<turn.trigger, turn.attempt>>

Current == <<turn.trigger, turn.attempt>>

EndTurn(result) ==
  /\ outcome' = [outcome EXCEPT ![turn.trigger] = result]
  /\ turn' = NoTurn

Mutant_LastAttempt == turn.attempt > MaxAttempts

LastAttempt == turn.attempt >= MaxAttempts

\* The attempt loop's catch clause; a result nobody waits for is ignored.
LoopCatches(a, code) ==
  IF ~Awaiting(a)
    THEN UNCHANGED <<turn, outcome>>
    ELSE IF LastAttempt \/ code \in NotRetryable
           THEN EndTurn(code)
           ELSE /\ turn' = [turn EXCEPT !.pc = "backoff"]
                /\ UNCHANGED outcome

Mutant_Invalidated(t, reason) ==
  IF t.sealed THEN t
  ELSE [t EXCEPT !.invalidatedBy = IF @ = None THEN reason ELSE @]

\* CommitToken.invalidate: after the seal it is only noticed, and the first
\* reason wins either way.
Invalidated(t, reason) ==
  IF t.sealed
    THEN [t EXCEPT !.racedBy = IF @ = None THEN reason ELSE @]
    ELSE [t EXCEPT !.invalidatedBy = IF @ = None THEN reason ELSE @]

Mutant_CommittableOvertaken(a) == token[a].invalidatedBy = None

Mutant_CommittableLate(a) == token[a].seq = seq

\* fenceViolation: the token still holds and the record has not moved.
Committable(a) == token[a].invalidatedBy = None /\ token[a].seq = seq

-----------------------------------------------------------------------------
(* Turns: reconciling the record with the store, then the attempt loop.    *)

\* A trigger gets the key.  A stale record is re-read, one never loaded is
\* loaded, and a hydration that failed once answers every later turn.
Begin(t) ==
  /\ turn.pc = "idle"
  /\ outcome[t] = "unsent"
  /\ Cardinality({u \in Trigger : outcome[u] # "unsent"}) < setting.turns
  /\ IF ~stale /\ hydration \in StoreErrors
       THEN /\ outcome' = [outcome EXCEPT ![t] = hydration]
            /\ UNCHANGED <<turn, hydration>>
       ELSE /\ outcome' = [outcome EXCEPT ![t] = "pending"]
            /\ turn' = [trigger |-> t, attempt |-> 1, handler |-> None,
                        pc |-> IF stale THEN "reloading"
                               ELSE IF hydration = "none" THEN "hydrating"
                               ELSE "ready"]
            /\ hydration' = IF ~stale /\ hydration = "none" THEN "running"
                                                            ELSE hydration
  /\ UNCHANGED <<state, seq, stale, events, writes, token, log, loaded, bounds>>

\* The store answers a load with what it holds at that moment.
StoreLoad ==
  /\ turn.pc \in {"hydrating", "reloading"}
  /\ loaded' = log
  /\ turn' = [turn EXCEPT !.pc = IF @ = "hydrating" THEN "hydrated"
                                                    ELSE "reloaded"]
  /\ UNCHANGED <<record, writes, token, outcome, log, bounds>>

LoadFails ==
  /\ turn.pc \in {"hydrating", "reloading"}
  /\ faults < MaxFaults
  /\ faults' = faults + 1
  /\ hydration' = IF turn.pc = "hydrating" THEN "STORE_UNAVAILABLE"
                                           ELSE hydration
  /\ EndTurn("STORE_UNAVAILABLE")
  /\ UNCHANGED <<setting, state, seq, stale, events, writes, token, log, loaded,
                 foreign, notes>>

Mutant_Adopt ==
  /\ seq' = Replay(loaded).seq
  /\ events' = Append(events, Restored(seq', state, InitId))
  /\ UNCHANGED state

\* Become what the store holds, and say so in the resident stream.
Adopt ==
  /\ state' = Replay(loaded).state
  /\ seq' = Replay(loaded).seq
  /\ events' = Append(events, Restored(seq', state', InitId))

\* The rest of #hydrate: adopt the stored instance, or initialize a new one,
\* which is a commit at sequence 0 and has to be durable first.
Hydrate ==
  /\ turn.pc = "hydrated"
  /\ loaded' = <<>>
  /\ IF LatestSeq(loaded) = EMPTY_SEQ
       THEN /\ writes' = Append(writes,
                 Write(Transition(0, None, state, InitId), EMPTY_SEQ))
            /\ turn' = [turn EXCEPT !.pc = "initializing"]
            /\ UNCHANGED <<state, seq, hydration, events>>
       ELSE /\ Adopt
            /\ hydration' = "done"
            /\ turn' = [turn EXCEPT !.pc = "ready"]
            /\ UNCHANGED writes
  /\ UNCHANGED <<stale, token, outcome, log, bounds>>

\* The rest of #reload: adopt, or start over when the key is gone.
Reload ==
  /\ turn.pc = "reloaded"
  /\ loaded' = <<>>
  /\ stale' = FALSE
  /\ IF LatestSeq(loaded) = EMPTY_SEQ
       THEN /\ state' = Initial
            /\ seq' = 0
            /\ hydration' = "running"
            /\ turn' = [turn EXCEPT !.pc = "hydrating"]
            /\ UNCHANGED events
       ELSE /\ Adopt
            /\ turn' = [turn EXCEPT !.pc = "ready"]
            /\ UNCHANGED hydration
  /\ UNCHANGED <<writes, token, outcome, log, bounds>>

\* #record: into the resident stream now, towards the store behind the chain.
Record(event) ==
  /\ notes < MaxNotes
  /\ notes' = notes + 1
  /\ events' = Append(events, event)
  /\ writes' = Append(writes, Write(event, seq))

\* A trigger or state without a handler: recorded, and the sender is told.
Refuse ==
  /\ turn.pc = "ready"
  /\ Record(Note(seq, state, NoteId(notes + 1)))
  /\ EndTurn("UNKNOWN_TRIGGER")
  /\ UNCHANGED <<setting, state, seq, hydration, stale, token, log, loaded,
                 foreign,
                 faults>>

\* The handler is looked up once per turn, by the state of that moment.
HandlerFor(n) == IF n = 1 THEN state ELSE turn.handler

\* The top of the attempt loop: the previous attempt is superseded, and the
\* handler starts on a snapshot of the record with a token for its sequence.
Issue(n) ==
  /\ token' = [a \in AttemptId |->
       CASE a = <<turn.trigger, n>> ->
              [NoToken EXCEPT !.pc = "handling", !.seq = seq,
                              !.observed = state]
         [] n > 1 /\ a = <<turn.trigger, n - 1>> ->
              Invalidated(token[a], "superseded")
         [] OTHER -> token[a]]
  /\ turn' = [turn EXCEPT !.attempt = n, !.pc = "attempting",
                          !.handler = HandlerFor(n)]

FirstAttempt ==
  /\ turn.pc = "ready"
  /\ Issue(1)
  /\ UNCHANGED <<record, writes, outcome, log, loaded, bounds>>

\* The backoff is over.  The record is not reconciled again before a retry.
Retry ==
  /\ turn.pc = "backoff"
  /\ Issue(turn.attempt + 1)
  /\ UNCHANGED <<record, writes, outcome, log, loaded, bounds>>

-----------------------------------------------------------------------------
(* Attempts: handlers, error handlers, commits and timeouts.               *)

\* The attempt's promise rejects.
AttemptFails(a, code) ==
  /\ token' = [token EXCEPT ![a].pc = "over"]
  /\ LoopCatches(a, code)

\* A matching error handler starts.
Recovering(a) ==
  /\ token' = [token EXCEPT ![a].pc = "recovering"]
  /\ UNCHANGED <<turn, outcome>>

\* handleFailure: one error handler at most, and none for its own failure.
Failure(a, code) ==
  \/ AttemptFails(a, code)
  \/ token[a].pc = "handling" /\ Recovering(a)

\* A result arrives from a handler or an error handler that failed.
HandlerFails(a) ==
  /\ token[a].pc \in {"handling", "recovering"}
  /\ Failure(a, "HANDLER_FAILED")
  /\ UNCHANGED <<record, writes, log, loaded, bounds>>

\* commit() for an attempt that may not commit: nothing is checked or written.
Fenced(a) ==
  /\ token[a].pc \in {"handling", "recovering"}
  /\ ~Committable(a)
  /\ AttemptFails(a, "COMMIT_FENCED")
  /\ UNCHANGED <<record, writes, log, loaded, bounds>>

\* Seal the token and put the commit on the write chain.
Seal(a, to, chain) ==
  /\ token' = [token EXCEPT ![a].sealed = TRUE, ![a].pc = "writing"]
  /\ writes' = Append(chain, Write(Transition(seq + 1, state, to, a), seq))
  /\ UNCHANGED <<turn, outcome>>

\* commit() with every constraint satisfied.
Commit(a, to) ==
  /\ token[a].pc \in {"handling", "recovering"}
  /\ Committable(a)
  /\ Seal(a, to, writes)
  /\ UNCHANGED <<record, log, loaded, bounds>>

\* commit() with a violation under "warn": recorded, then committed.
CommitWarned(a, to) ==
  /\ token[a].pc \in {"handling", "recovering"}
  /\ Committable(a)
  /\ notes < MaxNotes
  /\ notes' = notes + 1
  /\ LET note == Note(seq, state, NoteId(notes + 1))
     IN  /\ events' = Append(events, note)
         /\ Seal(a, to, Append(writes, Write(note, seq)))
  /\ UNCHANGED <<setting, state, seq, hydration, stale, log, loaded, foreign,
                 faults>>

\* commit() with a violation under "reject": recorded, and a failure.
CommitRejected(a) ==
  /\ token[a].pc \in {"handling", "recovering"}
  /\ Committable(a)
  /\ Record(Note(seq, state, NoteId(notes + 1)))
  /\ Failure(a, "CONSTRAINT_VIOLATED")
  /\ UNCHANGED <<setting, state, seq, hydration, stale, log, loaded, foreign,
                 faults>>

Mutant_Timeout ==
  /\ setting.timeouts
  /\ turn.pc = "attempting"
  /\ token' = [token EXCEPT ![Current] = Invalidated(@, "timeout")]
  /\ UNCHANGED <<record, writes, turn, outcome, log, loaded, bounds>>

\* The attempt's timer fires first: its token is invalidated, and the loop
\* goes on without it.
Timeout ==
  /\ setting.timeouts
  /\ turn.pc = "attempting"
  /\ token' = [token EXCEPT ![Current] = Invalidated(@, "timeout")]
  /\ LoopCatches(Current, "HANDLER_TIMEOUT")
  /\ UNCHANGED <<record, writes, log, loaded, bounds>>

-----------------------------------------------------------------------------
(* The write chain: one append at a time, each conditional.                *)

AppendInFlight == writes # <<>> /\ Head(writes).result = "queued"

AppendAnswered == writes # <<>> /\ Head(writes).result # "queued"

Answer(result) == writes' = [writes EXCEPT ![1].result = result]

Mutant_ConditionHolds == LatestSeq(log) >= Head(writes).expected

\* The expected sequence names the commit this write was built on.
ConditionHolds == LatestSeq(log) = Head(writes).expected

\* The authority appends the event, or refuses it without touching anything.
StoreAppend ==
  /\ AppendInFlight
  /\ IF ConditionHolds
       THEN log' = Append(log, Head(writes).event) /\ Answer("ok")
       ELSE UNCHANGED log /\ Answer("conflict")
  /\ UNCHANGED <<record, token, turn, outcome, loaded, bounds>>

\* The append fails for another reason: the authority cannot be reached, or
\* it fails after the event reached the log.
AppendFails ==
  /\ AppendInFlight
  /\ faults < MaxFaults
  /\ faults' = faults + 1
  /\ Answer("failed")
  /\ \/ UNCHANGED log
     \/ /\ setting.lostAnswers
        /\ ConditionHolds
        /\ log' = Append(log, Head(writes).event)
  /\ UNCHANGED <<setting, record, token, turn, outcome, loaded, foreign, notes>>

Answered(result) == AppendAnswered /\ Head(writes).result = result

AnsweredEvent == Head(writes).event

AnsweredError == IF Answered("conflict") THEN "STORE_CONFLICT"
                                         ELSE "STORE_UNAVAILABLE"

IsCommit == AnsweredEvent.by \in AttemptId

\* The attempt's promise resolves: the turn is over if it waits for it.
Resolve(a) ==
  IF Awaiting(a) THEN EndTurn("committed") ELSE UNCHANGED <<turn, outcome>>

Mutant_CommitLands ==
  /\ Answered("ok") /\ IsCommit
  /\ writes' = Tail(writes)
  /\ state' = AnsweredEvent.to
  /\ seq' = AnsweredEvent.seq
  /\ events' = Append(events, AnsweredEvent)
  /\ AttemptFails(AnsweredEvent.by, "HANDLER_FAILED")
  /\ UNCHANGED <<hydration, stale, log, loaded, bounds>>

\* The rest of instance.commit(): the state, the sequence and the event are
\* applied in one stretch, whatever became of the attempt's turn meanwhile.
CommitLands ==
  /\ Answered("ok") /\ IsCommit
  /\ writes' = Tail(writes)
  /\ state' = AnsweredEvent.to
  /\ seq' = AnsweredEvent.seq
  /\ events' = Append(events, AnsweredEvent)
  /\ token' = [token EXCEPT ![AnsweredEvent.by].pc = "over"]
  /\ Resolve(AnsweredEvent.by)
  /\ UNCHANGED <<hydration, stale, log, loaded, bounds>>

\* The append was refused: another commit got there first.
CommitConflicts ==
  /\ Answered("conflict") /\ IsCommit
  /\ writes' = Tail(writes)
  /\ stale' = TRUE
  /\ AttemptFails(AnsweredEvent.by, "STORE_CONFLICT")
  /\ UNCHANGED <<state, seq, hydration, events, log, loaded, bounds>>

\* The append failed: the record stays what it was.
CommitUnstored ==
  /\ Answered("failed") /\ IsCommit
  /\ writes' = Tail(writes)
  /\ AttemptFails(AnsweredEvent.by, "STORE_UNAVAILABLE")
  /\ UNCHANGED <<record, log, loaded, bounds>>

\* The rest of #hydrate for a new instance.
InitLands ==
  /\ Answered("ok") /\ AnsweredEvent.by = InitId
  /\ writes' = Tail(writes)
  /\ events' = Append(events, AnsweredEvent)
  /\ hydration' = "done"
  /\ turn' = [turn EXCEPT !.pc = "ready"]
  /\ UNCHANGED <<state, seq, stale, token, outcome, log, loaded, bounds>>

\* The rejection of #hydrate's promise, which stays cached.
InitFails ==
  /\ AppendAnswered /\ Head(writes).result # "ok"
  /\ AnsweredEvent.by = InitId
  /\ writes' = Tail(writes)
  /\ hydration' = AnsweredError
  /\ EndTurn(AnsweredError)
  /\ UNCHANGED <<state, seq, stale, events, token, log, loaded, bounds>>

\* Nobody waits for a recorded refusal or violation; an error is reported.
NoteSettles ==
  /\ AppendAnswered
  /\ AnsweredEvent.type = "note"
  /\ writes' = Tail(writes)
  /\ UNCHANGED <<record, token, turn, outcome, log, loaded, bounds>>

-----------------------------------------------------------------------------
(* What happens beside the turn.                                           *)

\* An overflow refusal, or a temporal violation found by a sweep, is recorded
\* whatever the key is doing.
RecordBeside ==
  /\ Record(Note(seq, state, NoteId(notes + 1)))
  /\ UNCHANGED <<setting, state, seq, hydration, stale, token, turn, outcome,
                 log,
                 loaded, foreign, faults>>

\* Another runtime on a multi-writer store commits on top of the log, or
\* initializes a key that is not there.
ForeignCommit(to) ==
  /\ "commit" \in setting.foreign
  /\ log = <<>> => to = Initial
  /\ foreign < MaxForeign
  /\ foreign' = foreign + 1
  /\ LET from == IF log = <<>> THEN None ELSE Replay(log).state
     IN  log' = Append(log, Transition(LatestSeq(log) + 1, from, to,
                                       ForeignId(foreign + 1)))
  /\ UNCHANGED <<setting, record, writes, token, turn, outcome, loaded,
                 faults, notes>>

\* Another runtime deletes the key.
ForeignForget ==
  /\ "forget" \in setting.foreign
  /\ foreign < MaxForeign
  /\ foreign' = foreign + 1
  /\ log' = <<>>
  /\ UNCHANGED <<setting, record, writes, token, turn, outcome, loaded,
                 faults, notes>>

\* Every trigger had its turn and every attempt and write is over.
Rest ==
  /\ turn.pc = "idle"
  /\ Cardinality({t \in Trigger : outcome[t] # "unsent"}) = setting.turns
  /\ \A a \in AttemptId : token[a].pc \in {"none", "over"}
  /\ writes = <<>>
  /\ UNCHANGED vars

HandlerReturns(a) ==
  \/ HandlerFails(a)
  \/ Fenced(a)
  \/ \E to \in State : Commit(a, to) \/ CommitWarned(a, to)
  \/ CommitRejected(a)

Reconcile == StoreLoad \/ LoadFails \/ Hydrate \/ Reload

Proceed == Refuse \/ FirstAttempt \/ Retry

StoreAnswers == StoreAppend \/ AppendFails

WriteSettles ==
  \/ CommitLands
  \/ CommitConflicts
  \/ CommitUnstored
  \/ InitLands
  \/ InitFails
  \/ NoteSettles

Next ==
  \/ \E t \in Trigger : Begin(t)
  \/ Reconcile
  \/ Proceed
  \/ \E a \in AttemptId : HandlerReturns(a)
  \/ Timeout
  \/ StoreAnswers
  \/ WriteSettles
  \/ RecordBeside
  \/ \E to \in State : ForeignCommit(to)
  \/ ForeignForget
  \/ Rest

Spec == Init /\ [][Next]_vars

(***************************************************************************)
(* Synchronous stretches run to their end and the store answers what it is *)
(* asked.  A handler need not return: with a timeout configured the timer  *)
(* ends its attempt.                                                       *)
(***************************************************************************)
Progress ==
  /\ WF_vars(Reconcile)
  /\ WF_vars(Proceed)
  /\ WF_vars(StoreAnswers)
  /\ WF_vars(WriteSettles)

FairSpec == Spec /\ Progress /\ WF_vars(Timeout)

-----------------------------------------------------------------------------

\* Type correctness of the record, its tokens, its turn and its writes.
Authors == (Trigger \cup {None, Other}) \X Nat

Events == [type: {"transition", "note", "restored"}, seq: Nat,
           from: State \cup {None}, to: State, by: Authors]

Tokens == [pc: {"none", "handling", "recovering", "writing", "over"},
           seq: Nat, observed: State \cup {None}, sealed: BOOLEAN,
           invalidatedBy: FenceReasons \cup {None},
           racedBy: FenceReasons \cup {None}]

Writes == [event: Events, expected: Nat \cup {EMPTY_SEQ},
           result: {"queued", "ok", "conflict", "failed"}]

Turns == [trigger: Trigger \cup {None}, attempt: 0 .. MaxAttempts,
          handler: State \cup {None}, pc: TurnPhases]

Outcomes == {"unsent", "pending", "committed"} \cup Errors

TypeOK ==
  /\ setting \in Settings
  /\ state \in State
  /\ seq \in Nat
  /\ hydration \in {"none", "running", "done"} \cup StoreErrors
  /\ stale \in BOOLEAN
  /\ events \in Seq(Events)
  /\ writes \in Seq(Writes)
  /\ token \in [AttemptId -> Tokens]
  /\ turn \in Turns
  /\ outcome \in [Trigger -> Outcomes]
  /\ log \in Seq(Events)
  /\ loaded \in Seq(Events)
  /\ foreign \in 0 .. MaxForeign
  /\ faults \in 0 .. MaxFaults
  /\ notes \in 0 .. MaxNotes

\* Nobody deletes the key behind the record's back.
NeverDeleted == "forget" \notin setting.foreign

(***************************************************************************)
(* No lost update, whatever attempts, retries, abandoned handlers and      *)
(* other writers do to the stream: commits are numbered without a gap or a *)
(* repetition, and as long as the key is not deleted each leaves the state *)
(* the one before it entered, which is what its handler was given.         *)
(***************************************************************************)
DecidedOnLatest ==
  /\ Contiguous(log)
  /\ NeverDeleted =>
       /\ Chained(log)
       /\ \A i \in Commits(log) :
            log[i].by \in AttemptId =>
              /\ log[i].seq = token[log[i].by].seq + 1
              /\ log[i].from = token[log[i].by].observed

\* An attempt whose token was invalidated before its seal writes nothing,
\* however late its handler returns.
FenceHolds ==
  \A a \in AttemptId : token[a].invalidatedBy # None =>
    /\ \A i \in 1 .. Len(log) : log[i].by # a
    /\ \A i \in 1 .. Len(writes) : writes[i].event.by # a

(***************************************************************************)
(* The resident record is a state of the durable stream: there is a commit *)
(* in the log at the record's sequence, and it entered the record's state, *)
(* unless another writer deleted it.                                       *)
(***************************************************************************)
RecordIsDurable ==
  hydration = "done" /\ NeverDeleted =>
    \E i \in Commits(log) : log[i].seq = seq /\ log[i].to = state

Committed(t) ==
  \E i \in Commits(log) : log[i].by \in AttemptId /\ log[i].by[1] = t

(***************************************************************************)
(* What a sender is told is true.  A send() that resolves has reached the  *)
(* commit authority, and its commit is there as long as nobody deletes the *)
(* key.  One that rejects has committed nothing, whatever the error is     *)
(* ("nothing committed", "the commit did not happen", "nothing was         *)
(* written", docs/errors.md), unless a timeout crossed the commit or the   *)
(* store answered an append that it made with a failure.                   *)
(***************************************************************************)
AnswersAreTrue ==
  \A t \in Trigger :
    /\ outcome[t] = "committed" /\ NeverDeleted => Committed(t)
    /\ outcome[t] \in Errors /\ ~setting.timeouts /\ ~setting.lostAnswers =>
         ~Committed(t)

(***************************************************************************)
(* A sender told of an error although a commit of its trigger is in the    *)
(* log was crossed by a timeout, and the runtime knows: the token of that  *)
(* attempt says what raced it, which is what commit.raced reports.         *)
(***************************************************************************)
FailureIsReported ==
  \A t \in Trigger : outcome[t] \in Errors =>
    \A i \in Commits(log) :
      log[i].by \in AttemptId /\ log[i].by[1] = t =>
        token[log[i].by].racedBy # None

(***************************************************************************)
(* One collision does not take a key out of service: a trigger is never    *)
(* failed at the start of its turn, before the store was read again.       *)
(***************************************************************************)
CollisionIsNotFinal ==
  [][\A t \in Trigger : outcome[t] = "unsent" => outcome'[t] \notin Errors]_vars

\* Every trigger that gets the key gives it up with an answer.
EveryTurnEnds ==
  \A t \in Trigger : outcome[t] = "pending" ~> outcome[t] # "pending"

(***************************************************************************)
(* Dispatch implements OptimisticKey: the list of commits is the log       *)
(* without its notes, and the commit with sequence n is entry n + 1 of it. *)
(***************************************************************************)
CommitAt(log_, n) == CHOOSE k \in Commits(log_) : log_[k].seq = n

CommitsOf(log_) ==
  [n \in 1 .. LatestSeq(log_) + 1 |->
     LET e == log_[CommitAt(log_, n - 1)] IN [to |-> e.to, by |-> e.by]]

Abstract == INSTANCE OptimisticKey WITH
  Author  <- {InitId} \cup {ForeignId(n) : n \in 1 .. MaxForeign},
  commits <- CommitsOf(log),
  outcome <- [t \in Trigger |-> IF outcome[t] \in Errors THEN "failed"
                                                         ELSE outcome[t]],
  seen    <- [a \in AttemptId |-> IF token[a].pc = "none" THEN 0
                                  ELSE token[a].seq + 1]

\* Commits happen as optimistic concurrency control promises.
ImplementsOptimisticKey == Abstract!Spec

=============================================================================
