--------------------------- MODULE DispatchProofs ---------------------------
(***************************************************************************)
(* Proofs about Dispatch, for any triggers, states, settings and bounds.   *)
(***************************************************************************)
EXTENDS Dispatch, DataProofs

-----------------------------------------------------------------------------
(* Types of what the steps are built from.                                 *)

LEMMA EventTypes ==
  /\ \A e \in Events : e.seq \in Nat /\ e.to \in State
  /\ \A n \in Nat, s \in State, by \in Authors :
       Note(n, s, by) \in Events /\ Restored(n, s, by) \in Events
  /\ \A n \in Nat, from \in State \cup {None}, to \in State, by \in Authors :
       Transition(n, from, to, by) \in Events
  BY DEF Events, Note, Restored, Transition

LEMMA AuthorTypes ==
  /\ AttemptId \subseteq Authors /\ InitId \in Authors
  /\ \A n \in Nat : NoteId(n) \in Authors /\ ForeignId(n) \in Authors
  BY MaxAttemptsAssumption DEF AttemptId, Authors, InitId, NoteId, ForeignId

LEMMA ReplayTypes ==
  ASSUME NEW s \in Seq(Events)
  PROVE  /\ LatestSeq(s) \in Nat \cup {EMPTY_SEQ}
         /\ LatestSeq(s) = EMPTY_SEQ <=> Commits(s) = {}
         /\ Commits(s) # {} => Replay(s).seq \in Nat /\ Replay(s).state \in State
<1>1. \A e \in Events : e.seq \in Nat
  BY EventTypes
<1>2. /\ LatestSeq(s) \in Int /\ LatestSeq(s) >= EMPTY_SEQ
      /\ LatestSeq(s) = EMPTY_SEQ <=> Commits(s) = {}
      /\ Commits(s) # {} => s[LastCommit(s)] \in Events
  BY <1>1, LatestSeqIsThere
<1> QED  BY <1>2, EventTypes DEF Replay, EMPTY_SEQ

LEMMA TokenTypes ==
  /\ NoToken \in Tokens
  /\ \A t \in Tokens, reason \in FenceReasons : Invalidated(t, reason) \in Tokens
  BY DEF NoToken, Tokens, Invalidated, FenceReasons

LEMMA EndTypes ==
  ASSUME TypeOK, NEW result \in Outcomes, EndTurn(result)
  PROVE  turn' \in Turns /\ outcome' \in [Trigger -> Outcomes]
<1>1. NoTurn \in Turns
  BY MaxAttemptsAssumption DEF NoTurn, Turns, TurnPhases
<1>2. outcome' \in [Trigger -> Outcomes]
  BY DEF TypeOK, EndTurn
<1> QED  BY <1>1, <1>2 DEF EndTurn

LEMMA CatchTypes ==
  ASSUME TypeOK, NEW a, NEW code \in Errors, LoopCatches(a, code)
  PROVE  turn' \in Turns /\ outcome' \in [Trigger -> Outcomes]
<1>1. turn \in Turns /\ outcome \in [Trigger -> Outcomes]
  BY DEF TypeOK
<1>2. [turn EXCEPT !.pc = "backoff"] \in Turns
  BY <1>1 DEF Turns, TurnPhases
<1>3. code \in Outcomes
  BY DEF Outcomes
<1>4. CASE EndTurn(code)
  BY <1>3, <1>4, EndTypes
<1>5. CASE ~EndTurn(code)
  BY <1>1, <1>2, <1>5 DEF LoopCatches
<1> QED  BY <1>4, <1>5

-----------------------------------------------------------------------------
(* The write chain as a set.                                               *)

Chain(w) == {w[i] : i \in 1 .. Len(w)}

LEMMA ChainGrows ==
  ASSUME NEW w \in Seq(Writes), NEW x \in Writes
  PROVE  Append(w, x) \in Seq(Writes) /\ Chain(Append(w, x)) = Chain(w) \cup {x}
<1>1. /\ Append(w, x) \in Seq(Writes) /\ Len(w) \in Nat
      /\ Len(Append(w, x)) = Len(w) + 1
      /\ \A i \in 1 .. Len(w) : Append(w, x)[i] = w[i]
      /\ Append(w, x)[Len(w) + 1] = x
  BY LenProperties, AppendProperties
<1>2. 1 .. Len(w) + 1 = (1 .. Len(w)) \cup {Len(w) + 1}
  BY <1>1
<1> QED  BY <1>1, <1>2 DEF Chain

LEMMA ChainShrinks ==
  ASSUME NEW w \in Seq(Writes), w # <<>>
  PROVE  /\ Head(w) \in Writes /\ Tail(w) \in Seq(Writes)
         /\ Head(w) \in Chain(w) /\ Chain(Tail(w)) \subseteq Chain(w)
<1>1. /\ Head(w) \in Writes /\ Tail(w) \in Seq(Writes)
      /\ Len(w) \in Nat /\ Len(w) >= 1 /\ Len(Tail(w)) = Len(w) - 1
      /\ \A i \in 1 .. Len(Tail(w)) : Tail(w)[i] = w[i + 1]
      /\ Head(w) = w[1]
  BY HeadTailProperties, LenProperties, EmptySeq
<1> QED  BY <1>1 DEF Chain

LEMMA ChainAnswered ==
  ASSUME NEW r \in {"ok", "conflict", "failed"},
         writes \in Seq(Writes), AppendInFlight, Answer(r)
  PROVE  /\ writes' \in Seq(Writes)
         /\ Head(writes) \in Writes
         /\ Chain(writes') \subseteq
              Chain(writes) \cup {[Head(writes) EXCEPT !.result = r]}
<1>1. /\ Head(writes) \in Writes /\ Head(writes) = writes[1]
      /\ Len(writes) \in Nat /\ Len(writes) >= 1 /\ 1 \in 1 .. Len(writes)
  BY HeadTailProperties, LenProperties, EmptySeq DEF AppendInFlight
<1> DEFINE x == [Head(writes) EXCEPT !.result = r]
<1>2. x \in Writes
  BY <1>1 DEF Writes
<1>3. writes' = [writes EXCEPT ![1] = x]
  BY <1>1 DEF Answer
<1>4. /\ writes' \in Seq(Writes) /\ Len(writes') = Len(writes)
      /\ \A i \in 1 .. Len(writes) : writes'[i] = IF i = 1 THEN x ELSE writes[i]
  <2> HIDE DEF x
  <2> QED  BY <1>1, <1>2, <1>3, ExceptSeq
<1> QED  BY <1>1, <1>4 DEF Chain

-----------------------------------------------------------------------------
(***************************************************************************)
(* The strengthening of TypeOK: what waits to be appended carries the      *)
(* sequence that follows from the one it is conditioned on, the log is     *)
(* well formed, and a backoff is only begun with an attempt left.          *)
(***************************************************************************)
Follows(x) ==
  x.event.seq = IF x.event.type = "transition" THEN x.expected + 1
                                               ELSE x.expected

StreamInv ==
  /\ TypeOK
  /\ Contiguous(log)
  /\ \A x \in Chain(writes) : Follows(x)
  /\ turn.pc = "backoff" => turn.attempt < MaxAttempts

LEMMA InitStream == Init => StreamInv
<1> SUFFICES ASSUME Init PROVE StreamInv
  OBVIOUS
<1>1. /\ <<>> \in Seq(Events) /\ <<>> \in Seq(Writes)
  BY EmptySeq
<1>2. NoTurn \in Turns /\ NoTurn.pc = "idle"
  BY MaxAttemptsAssumption DEF NoTurn, Turns, TurnPhases
<1>3. token \in [AttemptId -> Tokens] /\ outcome \in [Trigger -> Outcomes]
  BY TokenTypes DEF Init, Outcomes
<1>4. foreign \in 0 .. MaxForeign /\ faults \in 0 .. MaxFaults
      /\ notes \in 0 .. MaxNotes
  BY BoundsAssumption DEF Init
<1>5. TypeOK
  BY <1>1, <1>2, <1>3, <1>4, StateAssumption DEF Init, TypeOK
<1>6. Contiguous(log) /\ Chain(writes) = {}
  BY <1>1, EmptySeq DEF Init, Contiguous, Chain
<1> QED  BY <1>2, <1>5, <1>6 DEF Init, StreamInv

LEMMA BeginKeepsStream ==
  ASSUME StreamInv, NEW t \in Trigger, Begin(t)
  PROVE  StreamInv'
<1> USE DEF StreamInv
<1>1. turn' \in Turns /\ turn'.pc # "backoff"
  BY MaxAttemptsAssumption DEF TypeOK, Begin, Turns, TurnPhases
<1>2. outcome' \in [Trigger -> Outcomes]
  BY DEF TypeOK, Begin, Outcomes, Errors
<1>3. hydration' \in {"none", "running", "done"} \cup StoreErrors
  BY DEF TypeOK, Begin
<1>4. UNCHANGED <<setting, state, seq, stale, events, writes, token, log, loaded,
                  foreign, faults, notes>>
  BY DEF Begin, bounds
<1> QED  BY <1>1, <1>2, <1>3, <1>4 DEF TypeOK

LEMMA ReconcileKeepsStream ==
  ASSUME StreamInv, Reconcile
  PROVE  StreamInv'
<1> USE DEF StreamInv
<1>1. ASSUME StoreLoad PROVE StreamInv'
  <2>1. turn' \in Turns /\ turn'.pc # "backoff"
    BY <1>1 DEF TypeOK, StoreLoad, Turns, TurnPhases
  <2> QED  BY <1>1, <2>1 DEF TypeOK, StoreLoad, record, bounds
<1>2. ASSUME LoadFails PROVE StreamInv'
  <2>1. turn' \in Turns /\ outcome' \in [Trigger -> Outcomes] /\ turn'.pc # "backoff"
    <3>1. "STORE_UNAVAILABLE" \in Outcomes
      BY DEF Outcomes, Errors, StoreErrors
    <3> QED  BY <1>2, <3>1, EndTypes DEF LoadFails, EndTurn, NoTurn
  <2>2. hydration' \in {"none", "running", "done"} \cup StoreErrors
    BY <1>2 DEF TypeOK, LoadFails, StoreErrors
  <2>3. faults' \in 0 .. MaxFaults
    BY <1>2, BoundsAssumption DEF TypeOK, LoadFails
  <2>4. UNCHANGED <<setting, state, seq, stale, events, writes, token, log, loaded,
                    foreign, notes>>
    BY <1>2 DEF LoadFails
  <2> QED  BY <2>1, <2>2, <2>3, <2>4 DEF TypeOK
<1>3. ASSUME Adopt, LatestSeq(loaded) # EMPTY_SEQ
      PROVE  state' \in State /\ seq' \in Nat /\ events' \in Seq(Events)
  <2>1. state' \in State /\ seq' \in Nat
    BY <1>3, ReplayTypes DEF TypeOK, Adopt
  <2>2. Restored(seq', state', InitId) \in Events
    BY <2>1, EventTypes, AuthorTypes
  <2> QED  BY <1>3, <2>1, <2>2, AppendProperties DEF TypeOK, Adopt
<1>4. ASSUME Hydrate PROVE StreamInv'
  <2>1. turn' \in Turns /\ turn'.pc # "backoff"
    BY <1>4 DEF TypeOK, Hydrate, Turns, TurnPhases
  <2>2. loaded' \in Seq(Events)
    BY <1>4, EmptySeq DEF Hydrate
  <2>3. CASE LatestSeq(loaded) = EMPTY_SEQ
    <3> DEFINE first == Write(Transition(0, None, state, InitId), EMPTY_SEQ)
    <3>1. first \in Writes /\ Follows(first)
      <4>1. Transition(0, None, state, InitId) \in Events
        BY EventTypes, AuthorTypes DEF TypeOK
      <4> QED  BY <4>1 DEF Write, Writes, Follows, Transition, EMPTY_SEQ
    <3>2. writes' = Append(writes, first)
      BY <1>4, <2>3 DEF Hydrate
    <3> HIDE DEF first
    <3>3. writes' \in Seq(Writes) /\ \A x \in Chain(writes') : Follows(x)
      BY <3>1, <3>2, ChainGrows DEF TypeOK
    <3> QED  BY <1>4, <2>1, <2>2, <2>3, <3>3 DEF TypeOK, Hydrate, bounds
  <2>4. CASE LatestSeq(loaded) # EMPTY_SEQ
    BY <1>3, <1>4, <2>1, <2>2, <2>4 DEF TypeOK, Hydrate, bounds
  <2> QED  BY <2>3, <2>4
<1>5. ASSUME Reload PROVE StreamInv'
  <2>1. turn' \in Turns /\ turn'.pc # "backoff"
    BY <1>5 DEF TypeOK, Reload, Turns, TurnPhases
  <2>2. loaded' \in Seq(Events)
    BY <1>5, EmptySeq DEF Reload
  <2>3. state' \in State /\ seq' \in Nat /\ events' \in Seq(Events)
    BY <1>3, <1>5, StateAssumption DEF TypeOK, Reload
  <2> QED  BY <1>5, <2>1, <2>2, <2>3 DEF TypeOK, Reload, bounds
<1> QED  BY <1>1, <1>2, <1>4, <1>5 DEF Reconcile

LEMMA RecordTypes ==
  ASSUME StreamInv, Record(Note(seq, state, NoteId(notes + 1)))
  PROVE  /\ notes' \in 0 .. MaxNotes /\ events' \in Seq(Events)
         /\ writes' \in Seq(Writes) /\ \A x \in Chain(writes') : Follows(x)
<1> USE DEF StreamInv
<1> DEFINE note == Note(seq, state, NoteId(notes + 1))
<1>1. notes' \in 0 .. MaxNotes /\ notes + 1 \in Nat
  BY BoundsAssumption DEF TypeOK, Record
<1>2. note \in Events /\ note.type = "note" /\ note.seq = seq
  <2>1. note \in Events
    BY <1>1, EventTypes, AuthorTypes DEF TypeOK
  <2> QED  BY <2>1 DEF Note
<1>3. Write(note, seq) \in Writes /\ Follows(Write(note, seq))
  BY <1>2 DEF TypeOK, Write, Writes, Follows
<1>4. events' = Append(events, note) /\ writes' = Append(writes, Write(note, seq))
  BY DEF Record
<1> HIDE DEF note
<1>5. events' \in Seq(Events)
  BY <1>2, <1>4, AppendProperties DEF TypeOK
<1>6. writes' \in Seq(Writes) /\ \A x \in Chain(writes') : Follows(x)
  BY <1>3, <1>4, ChainGrows DEF TypeOK
<1> QED  BY <1>1, <1>5, <1>6

LEMMA IssueTypes ==
  ASSUME StreamInv, NEW n \in 1 .. MaxAttempts, Issue(n)
  PROVE  /\ token' \in [AttemptId -> Tokens] /\ turn' \in Turns
         /\ turn'.pc # "backoff"
<1> USE DEF StreamInv
<1>1. [NoToken EXCEPT !.pc = "handling", !.seq = seq, !.observed = state] \in Tokens
  BY DEF TypeOK, NoToken, Tokens
<1>2. \A a \in AttemptId : token[a] \in Tokens
                           /\ Invalidated(token[a], "superseded") \in Tokens
  BY TokenTypes DEF TypeOK, FenceReasons
<1>3. token' \in [AttemptId -> Tokens]
  BY <1>1, <1>2 DEF Issue
<1>4. HandlerFor(n) \in State \cup {None}
  BY DEF TypeOK, HandlerFor, Turns
<1>5. turn' \in Turns /\ turn'.pc # "backoff"
  <2>1. turn \in Turns /\ n \in 0 .. MaxAttempts /\ "attempting" \in TurnPhases
    BY MaxAttemptsAssumption DEF TypeOK, TurnPhases
  <2>2. turn' = [turn EXCEPT !.attempt = n, !.pc = "attempting",
                             !.handler = HandlerFor(n)]
    BY DEF Issue
  <2> QED  BY <1>4, <2>1, <2>2 DEF Turns
<1> QED  BY <1>3, <1>5

LEMMA ProceedKeepsStream ==
  ASSUME StreamInv, Proceed
  PROVE  StreamInv'
<1> USE DEF StreamInv
<1>1. ASSUME Refuse PROVE StreamInv'
  <2>1. /\ notes' \in 0 .. MaxNotes /\ events' \in Seq(Events)
        /\ writes' \in Seq(Writes) /\ \A x \in Chain(writes') : Follows(x)
    BY <1>1, RecordTypes DEF Refuse
  <2>2. turn' \in Turns /\ outcome' \in [Trigger -> Outcomes] /\ turn'.pc # "backoff"
    <3>1. "UNKNOWN_TRIGGER" \in Outcomes
      BY DEF Outcomes, Errors
    <3> QED  BY <1>1, <3>1, EndTypes DEF Refuse, EndTurn, NoTurn
  <2> QED  BY <1>1, <2>1, <2>2 DEF TypeOK, Refuse
<1>2. ASSUME FirstAttempt PROVE StreamInv'
  <2>1. 1 \in 1 .. MaxAttempts
    BY MaxAttemptsAssumption
  <2>2. /\ token' \in [AttemptId -> Tokens] /\ turn' \in Turns
        /\ turn'.pc # "backoff"
    BY <1>2, <2>1, IssueTypes DEF FirstAttempt
  <2> QED  BY <1>2, <2>2 DEF TypeOK, FirstAttempt, record, bounds
<1>3. ASSUME Retry PROVE StreamInv'
  <2>1. turn.attempt + 1 \in 1 .. MaxAttempts
    BY <1>3, MaxAttemptsAssumption DEF TypeOK, Retry, Turns
  <2>2. /\ token' \in [AttemptId -> Tokens] /\ turn' \in Turns
        /\ turn'.pc # "backoff"
    BY <1>3, <2>1, IssueTypes DEF Retry
  <2> QED  BY <1>3, <2>2 DEF TypeOK, Retry, record, bounds
<1> QED  BY <1>1, <1>2, <1>3 DEF Proceed

\* What the loop makes of an attempt that is over: a backoff leaves one more.
LEMMA CatchKeepsStream ==
  ASSUME StreamInv, NEW a, NEW code \in Errors, LoopCatches(a, code)
  PROVE  /\ turn' \in Turns /\ outcome' \in [Trigger -> Outcomes]
         /\ turn'.pc = "backoff" => turn'.attempt < MaxAttempts
<1>1. turn' \in Turns /\ outcome' \in [Trigger -> Outcomes]
  BY CatchTypes DEF StreamInv
<1>2. CASE EndTurn(code)
  BY <1>1, <1>2 DEF EndTurn, NoTurn
<1>3. CASE ~EndTurn(code) /\ Awaiting(a)
  <2>1. ~(turn.attempt >= MaxAttempts) /\ turn' = [turn EXCEPT !.pc = "backoff"]
    BY <1>3 DEF LoopCatches, LastAttempt
  <2>2. turn \in Turns
    BY DEF StreamInv, TypeOK
  <2>3. turn'.attempt = turn.attempt /\ turn.attempt \in Nat
    BY <2>1, <2>2, MaxAttemptsAssumption DEF Turns
  <2> QED  BY <1>1, <2>1, <2>3, MaxAttemptsAssumption
<1>4. CASE ~Awaiting(a)
  BY <1>1, <1>4 DEF LoopCatches, StreamInv
<1> QED  BY <1>1, <1>2, <1>3, <1>4

LEMMA AttemptStepTypes ==
  ASSUME StreamInv, NEW a \in AttemptId, NEW code \in Errors, Failure(a, code)
  PROVE  /\ token' \in [AttemptId -> Tokens]
         /\ turn' \in Turns /\ outcome' \in [Trigger -> Outcomes]
         /\ turn'.pc = "backoff" => turn'.attempt < MaxAttempts
<1>1. \A pc \in {"over", "recovering"} :
        [token EXCEPT ![a].pc = pc] \in [AttemptId -> Tokens]
  BY DEF StreamInv, TypeOK, Tokens
<1>2. CASE AttemptFails(a, code)
  BY <1>1, <1>2, CatchKeepsStream DEF AttemptFails
<1>3. CASE Recovering(a)
  BY <1>1, <1>3 DEF Recovering, StreamInv, TypeOK
<1> QED  BY <1>2, <1>3 DEF Failure

LEMMA SealTypes ==
  ASSUME StreamInv, NEW a \in AttemptId, NEW to \in State,
         NEW chain \in Seq(Writes), \A x \in Chain(chain) : Follows(x),
         Seal(a, to, chain)
  PROVE  /\ token' \in [AttemptId -> Tokens]
         /\ writes' \in Seq(Writes) /\ \A x \in Chain(writes') : Follows(x)
         /\ UNCHANGED <<turn, outcome>>
<1>1. token' \in [AttemptId -> Tokens]
  <2>1. token \in [AttemptId -> Tokens] /\ token[a] \in Tokens
    BY DEF StreamInv, TypeOK
  <2>2. [token[a] EXCEPT !.sealed = TRUE, !.pc = "writing"] \in Tokens
    BY <2>1 DEF Tokens
  <2>3. token' = [token EXCEPT ![a] = [token[a] EXCEPT !.sealed = TRUE, !.pc = "writing"]]
    BY <2>1 DEF Seal
  <2> QED  BY <2>1, <2>2, <2>3
<1> DEFINE x == Write(Transition(seq + 1, state, to, a), seq)
<1>2. x \in Writes /\ Follows(x)
  <2>1. Transition(seq + 1, state, to, a) \in Events
    BY EventTypes, AuthorTypes DEF StreamInv, TypeOK
  <2> QED  BY <2>1 DEF StreamInv, TypeOK, Write, Writes, Follows, Transition
<1>3. writes' = Append(chain, x) /\ UNCHANGED <<turn, outcome>>
  BY DEF Seal
<1> HIDE DEF x
<1>4. writes' \in Seq(Writes) /\ \A y \in Chain(writes') : Follows(y)
  BY <1>2, <1>3, ChainGrows
<1> QED  BY <1>1, <1>3, <1>4

LEMMA HandlerReturnsKeepsStream ==
  ASSUME StreamInv, NEW a \in AttemptId, HandlerReturns(a)
  PROVE  StreamInv'
<1> USE DEF StreamInv
<1>1. ASSUME HandlerFails(a) PROVE StreamInv'
  <2>1. "HANDLER_FAILED" \in Errors
    BY DEF Errors
  <2> QED  BY <1>1, <2>1, AttemptStepTypes DEF HandlerFails, TypeOK, record, bounds
<1>2. ASSUME Fenced(a) PROVE StreamInv'
  <2>1. "COMMIT_FENCED" \in Errors /\ Failure(a, "COMMIT_FENCED")
    BY <1>2 DEF Errors, Fenced, Failure
  <2> QED  BY <1>2, <2>1, AttemptStepTypes DEF Fenced, TypeOK, record, bounds
<1>3. ASSUME NEW to \in State, Commit(a, to) PROVE StreamInv'
  BY <1>3, SealTypes DEF Commit, TypeOK, record, bounds
<1>4. ASSUME NEW to \in State, CommitWarned(a, to) PROVE StreamInv'
  <2> DEFINE note  == Note(seq, state, NoteId(notes + 1))
             chain == Append(writes, Write(note, seq))
  <2>1. notes' \in 0 .. MaxNotes /\ notes + 1 \in Nat
    BY <1>4, BoundsAssumption DEF TypeOK, CommitWarned
  <2>2. note \in Events /\ note.type = "note" /\ note.seq = seq
    <3>1. note \in Events
      BY <2>1, EventTypes, AuthorTypes DEF TypeOK
    <3> QED  BY <3>1 DEF Note
  <2>3. Write(note, seq) \in Writes /\ Follows(Write(note, seq))
    BY <2>2 DEF TypeOK, Write, Writes, Follows
  <2>4. events' = Append(events, note) /\ Seal(a, to, chain)
    BY <1>4 DEF CommitWarned
  <2> HIDE DEF note
  <2>5. chain \in Seq(Writes) /\ \A x \in Chain(chain) : Follows(x)
    BY <2>3, ChainGrows DEF TypeOK
  <2>6. events' \in Seq(Events)
    BY <2>2, <2>4, AppendProperties DEF TypeOK
  <2> HIDE DEF chain
  <2> QED  BY <1>4, <2>1, <2>4, <2>5, <2>6, SealTypes DEF CommitWarned, TypeOK
<1>5. ASSUME CommitRejected(a) PROVE StreamInv'
  <2>1. "CONSTRAINT_VIOLATED" \in Errors
    BY DEF Errors
  <2> QED  BY <1>5, <2>1, AttemptStepTypes, RecordTypes DEF CommitRejected, TypeOK
<1> QED  BY <1>1, <1>2, <1>3, <1>4, <1>5 DEF HandlerReturns

LEMMA TimeoutKeepsStream ==
  ASSUME StreamInv, Timeout
  PROVE  StreamInv'
<1> USE DEF StreamInv
<1>1. token' \in [AttemptId -> Tokens]
  <2>1. \A a \in AttemptId : Invalidated(token[a], "timeout") \in Tokens
    BY TokenTypes DEF TypeOK, FenceReasons
  <2> QED  BY <2>1 DEF TypeOK, Timeout
<1>2. "HANDLER_TIMEOUT" \in Errors /\ LoopCatches(Current, "HANDLER_TIMEOUT")
  BY DEF Errors, Timeout
<1> QED  BY <1>1, <1>2, CatchKeepsStream DEF TypeOK, Timeout, record, bounds

\* An append whose condition holds goes to a well-formed log.
LEMMA AppendKeepsLog ==
  ASSUME StreamInv, AppendInFlight, ConditionHolds,
         log' = Append(log, Head(writes).event)
  PROVE  log' \in Seq(Events) /\ Contiguous(log')
<1>1. Head(writes) \in Writes /\ Head(writes) \in Chain(writes)
  BY ChainShrinks DEF StreamInv, TypeOK, AppendInFlight
<1>2. Follows(Head(writes))
  BY <1>1 DEF StreamInv
<1> DEFINE e == Head(writes).event
<1>3. /\ e \in Events
      /\ e.seq = IF e.type = "transition" THEN LatestSeq(log) + 1
                                          ELSE LatestSeq(log)
  BY <1>1, <1>2 DEF Writes, Follows, ConditionHolds
<1>4. log \in Seq(Events) /\ Contiguous(log) /\ \A x \in Events : x.seq \in Nat
  BY EventTypes DEF StreamInv, TypeOK
<1> HIDE DEF e
<1>5. Contiguous(Append(log, e)) /\ Append(log, e) \in Seq(Events)
  BY <1>3, <1>4, ContiguousAppend, AppendProperties
<1> QED  BY <1>5 DEF e

LEMMA AnswerKeepsChain ==
  ASSUME StreamInv, NEW r \in {"ok", "conflict", "failed"},
         AppendInFlight, Answer(r)
  PROVE  writes' \in Seq(Writes) /\ \A x \in Chain(writes') : Follows(x)
<1>1. /\ writes' \in Seq(Writes) /\ Head(writes) \in Writes
      /\ Chain(writes') \subseteq
           Chain(writes) \cup {[Head(writes) EXCEPT !.result = r]}
  BY ChainAnswered DEF StreamInv, TypeOK
<1>2. Head(writes) \in Chain(writes)
  BY ChainShrinks DEF StreamInv, TypeOK, AppendInFlight
<1>3. Follows([Head(writes) EXCEPT !.result = r])
  BY <1>1, <1>2 DEF StreamInv, Follows, Writes
<1> QED  BY <1>1, <1>3 DEF StreamInv

LEMMA StoreKeepsStream ==
  ASSUME StreamInv, StoreAnswers
  PROVE  StreamInv'
<1> USE DEF StreamInv
<1>1. ASSUME StoreAppend PROVE StreamInv'
  <2>1. writes' \in Seq(Writes) /\ \A x \in Chain(writes') : Follows(x)
    BY <1>1, AnswerKeepsChain DEF StoreAppend
  <2>2. log' \in Seq(Events) /\ Contiguous(log')
    BY <1>1, AppendKeepsLog DEF StoreAppend, TypeOK
  <2> QED  BY <1>1, <2>1, <2>2 DEF StoreAppend, TypeOK, record, bounds
<1>2. ASSUME AppendFails PROVE StreamInv'
  <2>1. writes' \in Seq(Writes) /\ \A x \in Chain(writes') : Follows(x)
    BY <1>2, AnswerKeepsChain DEF AppendFails
  <2>2. log' \in Seq(Events) /\ Contiguous(log')
    BY <1>2, AppendKeepsLog DEF AppendFails, TypeOK
  <2>3. faults' \in 0 .. MaxFaults
    BY <1>2, BoundsAssumption DEF TypeOK, AppendFails
  <2> QED  BY <1>2, <2>1, <2>2, <2>3 DEF AppendFails, TypeOK, record
<1> QED  BY <1>1, <1>2 DEF StoreAnswers

\* What every step that takes the head off the write chain starts from.
LEMMA SettledChain ==
  ASSUME StreamInv, AppendAnswered, writes' = Tail(writes)
  PROVE  /\ writes' \in Seq(Writes) /\ \A x \in Chain(writes') : Follows(x)
         /\ AnsweredEvent \in Events
<1>1. /\ Head(writes) \in Writes /\ Tail(writes) \in Seq(Writes)
      /\ Chain(Tail(writes)) \subseteq Chain(writes)
  BY ChainShrinks DEF StreamInv, TypeOK, AppendAnswered
<1> QED  BY <1>1 DEF StreamInv, AnsweredEvent, Writes

LEMMA SettleKeepsStream ==
  ASSUME StreamInv, WriteSettles
  PROVE  StreamInv'
<1> USE DEF StreamInv
<1>1. /\ AppendAnswered /\ writes' = Tail(writes)
      /\ UNCHANGED <<log, loaded, setting, foreign, faults, notes>>
  BY DEF WriteSettles, CommitLands, CommitConflicts, CommitUnstored, InitLands,
         InitFails, NoteSettles, Answered, bounds
<1>2. /\ writes' \in Seq(Writes) /\ \A x \in Chain(writes') : Follows(x)
      /\ AnsweredEvent \in Events
  BY <1>1, SettledChain
<1>3. AnsweredEvent.to \in State /\ AnsweredEvent.seq \in Nat
  BY <1>2, EventTypes
<1>4. ASSUME events' \in Seq(Events), state' \in State, seq' \in Nat,
             hydration' \in {"none", "running", "done"} \cup StoreErrors,
             stale' \in BOOLEAN, token' \in [AttemptId -> Tokens],
             turn' \in Turns, outcome' \in [Trigger -> Outcomes],
             turn'.pc = "backoff" => turn'.attempt < MaxAttempts
      PROVE  StreamInv'
  BY <1>1, <1>2, <1>4 DEF TypeOK
<1>5. events' \in Seq(Events)
  <2>1. Append(events, AnsweredEvent) \in Seq(Events)
    BY <1>2, AppendProperties DEF TypeOK
  <2> QED  BY <2>1 DEF WriteSettles, CommitLands, CommitConflicts,
                  CommitUnstored, InitLands, InitFails, NoteSettles, record, TypeOK
<1>6. \A a \in AttemptId : [token EXCEPT ![a].pc = "over"] \in [AttemptId -> Tokens]
  BY DEF TypeOK, Tokens
<1>7. ASSUME CommitLands PROVE StreamInv'
  <2>1. "committed" \in Outcomes
    BY DEF Outcomes
  <2>2. /\ turn' \in Turns /\ outcome' \in [Trigger -> Outcomes]
        /\ turn'.pc = "backoff" => turn'.attempt < MaxAttempts
    <3>1. CASE EndTurn("committed")
      BY <2>1, <3>1, EndTypes DEF EndTurn, NoTurn
    <3>2. CASE UNCHANGED <<turn, outcome>>
      BY <3>2 DEF TypeOK
    <3> QED  BY <1>7, <3>1, <3>2 DEF CommitLands, Resolve
  <2> QED  BY <1>3, <1>4, <1>5, <1>6, <1>7, <2>2 DEF CommitLands, IsCommit, TypeOK
<1>8. ASSUME NEW code \in Errors, AttemptFails(AnsweredEvent.by, code), IsCommit
      PROVE  /\ turn' \in Turns /\ outcome' \in [Trigger -> Outcomes]
             /\ turn'.pc = "backoff" => turn'.attempt < MaxAttempts
             /\ token' \in [AttemptId -> Tokens]
  BY <1>6, <1>8, CatchKeepsStream DEF AttemptFails, IsCommit
<1>9. StoreErrors \subseteq Errors /\ StoreErrors \subseteq Outcomes
  BY DEF Errors, Outcomes
<1>10. ASSUME CommitConflicts PROVE StreamInv'
  <2>1. "STORE_CONFLICT" \in Errors
    BY DEF Errors, StoreErrors
  <2> QED  BY <1>4, <1>5, <1>8, <1>10, <2>1 DEF CommitConflicts, TypeOK
<1>11. ASSUME CommitUnstored PROVE StreamInv'
  <2>1. "STORE_UNAVAILABLE" \in Errors
    BY DEF Errors, StoreErrors
  <2> QED  BY <1>4, <1>5, <1>8, <1>11, <2>1 DEF CommitUnstored, TypeOK, record
<1>12. ASSUME InitLands PROVE StreamInv'
  <2>1. turn' \in Turns /\ turn'.pc # "backoff"
    BY <1>12 DEF InitLands, TypeOK, Turns, TurnPhases
  <2> QED  BY <1>4, <1>5, <1>12, <2>1 DEF InitLands, TypeOK
<1>13. ASSUME InitFails PROVE StreamInv'
  <2>1. AnsweredError \in StoreErrors
    BY DEF AnsweredError, StoreErrors
  <2>2. turn' \in Turns /\ outcome' \in [Trigger -> Outcomes] /\ turn'.pc # "backoff"
    BY <1>9, <1>13, <2>1, EndTypes DEF InitFails, EndTurn, NoTurn
  <2> QED  BY <1>4, <1>5, <1>13, <2>1, <2>2 DEF InitFails, TypeOK
<1>14. ASSUME NoteSettles PROVE StreamInv'
  BY <1>4, <1>5, <1>14 DEF NoteSettles, TypeOK, record
<1> QED  BY <1>7, <1>10, <1>11, <1>12, <1>13, <1>14 DEF WriteSettles

LEMMA ForeignKeepsStream ==
  ASSUME StreamInv,
         ForeignForget \/ \E to \in State : ForeignCommit(to)
  PROVE  StreamInv'
<1> USE DEF StreamInv
<1>1. ASSUME ForeignForget PROVE StreamInv'
  <2>1. log' \in Seq(Events) /\ Contiguous(log') /\ foreign' \in 0 .. MaxForeign
    BY <1>1, EmptySeq, BoundsAssumption DEF ForeignForget, Contiguous, TypeOK
  <2> QED  BY <1>1, <2>1 DEF ForeignForget, TypeOK, record
<1>2. ASSUME NEW to \in State, ForeignCommit(to) PROVE StreamInv'
  <2>1. foreign' \in 0 .. MaxForeign /\ foreign + 1 \in Nat
    BY <1>2, BoundsAssumption DEF ForeignCommit, TypeOK
  <2>2. log \in Seq(Events) /\ Contiguous(log) /\ \A x \in Events : x.seq \in Nat
    BY EventTypes DEF TypeOK
  <2> DEFINE from == IF log = <<>> THEN None ELSE Replay(log).state
             e    == Transition(LatestSeq(log) + 1, from, to, ForeignId(foreign + 1))
  <2>3. from \in State \cup {None} /\ LatestSeq(log) + 1 \in Nat
    <3>1. log # <<>> => Commits(log) # {}
      BY <2>2, SeqNamesACommit
    <3> QED  BY <2>2, <3>1, ReplayTypes DEF EMPTY_SEQ
  <2>4. /\ e \in Events /\ e.type = "transition" /\ e.seq = LatestSeq(log) + 1
    <3> HIDE DEF from
    <3>1. e \in Events
      BY <2>1, <2>3, EventTypes, AuthorTypes
    <3> QED  BY <3>1 DEF Transition
  <2>5. log' = Append(log, e)
    BY <1>2 DEF ForeignCommit
  <2> HIDE DEF e
  <2>6. log' \in Seq(Events) /\ Contiguous(log')
    BY <2>2, <2>4, <2>5, ContiguousAppend, AppendProperties
  <2> QED  BY <1>2, <2>1, <2>6 DEF ForeignCommit, TypeOK, record
<1> QED  BY <1>1, <1>2

LEMMA StepKeepsStream == StreamInv /\ [Next]_vars => StreamInv'
<1> SUFFICES ASSUME StreamInv, [Next]_vars PROVE StreamInv'
  OBVIOUS
<1>1. ASSUME RecordBeside PROVE StreamInv'
  BY <1>1, RecordTypes DEF RecordBeside, StreamInv, TypeOK
<1>2. ASSUME UNCHANGED vars PROVE StreamInv'
  BY <1>2 DEF vars, record, bounds, StreamInv, TypeOK
<1>3. ASSUME Rest PROVE StreamInv'
  BY <1>2, <1>3 DEF Rest
<1> QED  BY <1>1, <1>2, <1>3, BeginKeepsStream, ReconcileKeepsStream,
            ProceedKeepsStream, HandlerReturnsKeepsStream, TimeoutKeepsStream,
            StoreKeepsStream, SettleKeepsStream, ForeignKeepsStream DEF Next

(***************************************************************************)
(* Type correctness: every variable of the key keeps its type.             *)
(***************************************************************************)
THEOREM TypeCorrect == Spec => []TypeOK
<1>1. StreamInv => TypeOK
  BY DEF StreamInv
<1> QED  BY <1>1, InitStream, StepKeepsStream, PTL DEF Spec

(***************************************************************************)
(* The log of a key never has a gap or a repetition, whatever attempts,    *)
(* retries, other writers and failing appends do: the first half of        *)
(* DecidedOnLatest.                                                        *)
(***************************************************************************)
THEOREM LogIsContiguous == Spec => []Contiguous(log)
<1>1. StreamInv => Contiguous(log)
  BY DEF StreamInv
<1> QED  BY <1>1, InitStream, StepKeepsStream, PTL DEF Spec

-----------------------------------------------------------------------------
(***************************************************************************)
(* Which attempts have begun, and who initializes: a token is only issued  *)
(* to an attempt that never had one, and the init write is the turn's.     *)
(***************************************************************************)
Begun(a) == token[a].pc # "none"

TurnInv ==
  /\ turn.pc = "idle" => turn.trigger = None
  /\ turn.pc # "idle" => turn.trigger \in Trigger /\ outcome[turn.trigger] = "pending"
  /\ \A a \in AttemptId : Begun(a) =>
       /\ outcome[a[1]] # "unsent"
       /\ a[1] = turn.trigger => /\ turn.pc \in {"attempting", "backoff"}
                                 /\ a[2] <= turn.attempt

WritesOf(w, b) == {i \in 1 .. Len(w) : w[i].event.by = b}

InitWrites(w) == WritesOf(w, InitId)

ChainInv ==
  /\ InitWrites(writes) # {} => turn.pc = "initializing"
  /\ \A i, j \in InitWrites(writes) : i = j

LEMMA IdsDiffer ==
  /\ \A a \in AttemptId : a[1] \in Trigger /\ a[1] # None /\ a[2] \in 1 .. MaxAttempts
                          /\ a = <<a[1], a[2]>>
  /\ \A a \in AttemptId : a # InitId /\ \A n \in Nat : a # NoteId(n) /\ a # ForeignId(n)
  /\ \A n \in Nat : NoteId(n + 1) # InitId
  BY ActorsAssumption DEF AttemptId, InitId, NoteId, ForeignId

LEMMA TurnWaits ==
  ASSUME TurnInv, UNCHANGED <<turn, outcome>>,
         \A a \in AttemptId : Begun(a)' => Begun(a)
  PROVE  TurnInv'
  BY DEF TurnInv

LEMMA TurnEnds ==
  ASSUME TypeOK, TurnInv, NEW result \in Outcomes \ {"unsent"}, EndTurn(result),
         \A a \in AttemptId : Begun(a)' => Begun(a)
  PROVE  TurnInv'
<1>1. turn'.pc = "idle" /\ turn'.trigger = None
  BY DEF EndTurn, NoTurn
<1>2. \A t \in Trigger : outcome[t] # "unsent" => outcome'[t] # "unsent"
  BY DEF EndTurn, TypeOK
<1> QED  BY <1>1, <1>2, IdsDiffer DEF TurnInv

NoneBegins == \A a \in AttemptId : Begun(a)' => Begun(a)

LEMMA TurnCaught ==
  ASSUME TypeOK, TurnInv, NEW a, NEW code \in Errors,
         LoopCatches(a, code), NoneBegins
  PROVE  TurnInv' /\ (turn.pc = "initializing" => turn' = turn)
<1>1. CASE EndTurn(code) /\ Awaiting(a)
  <2>1. code \in Outcomes \ {"unsent"}
    BY DEF Outcomes, Errors, StoreErrors
  <2> QED  BY <1>1, <2>1, TurnEnds DEF Awaiting, NoneBegins
<1>2. CASE Awaiting(a) /\ turn' = [turn EXCEPT !.pc = "backoff"] /\ UNCHANGED outcome
  <2>1. turn \in Turns /\ turn.pc = "attempting"
    BY <1>2 DEF TypeOK, Awaiting
  <2>2. /\ turn'.trigger = turn.trigger /\ turn'.attempt = turn.attempt
        /\ turn'.pc = "backoff"
    BY <1>2, <2>1 DEF Turns
  <2> QED  BY <1>2, <2>1, <2>2 DEF TurnInv, NoneBegins
<1>3. CASE UNCHANGED <<turn, outcome>>
  BY <1>3, TurnWaits DEF NoneBegins
<1> QED  BY <1>1, <1>2, <1>3 DEF LoopCatches

\* The turn goes on before its first attempt.
LEMMA TurnProceeds ==
  ASSUME TypeOK, TurnInv, turn.pc \notin {"idle", "attempting", "backoff"},
         NEW pc \in TurnPhases \ {"idle"}, turn' = [turn EXCEPT !.pc = pc],
         UNCHANGED <<outcome, token>>
  PROVE  TurnInv'
<1>1. turn'.trigger = turn.trigger /\ turn'.pc = pc
  BY DEF TypeOK, Turns
<1>2. \A a \in AttemptId : Begun(a)' => Begun(a) /\ a[1] # turn.trigger
  BY DEF TurnInv, Begun
<1> QED  BY <1>1, <1>2 DEF TurnInv

LEMMA IssueIsNew ==
  ASSUME TypeOK, TurnInv, NEW n \in 1 .. MaxAttempts, Issue(n), UNCHANGED outcome,
         \/ turn.pc = "ready" /\ n = 1
         \/ turn.pc = "backoff" /\ n = turn.attempt + 1
  PROVE  /\ TurnInv'
         /\ turn.trigger \in Trigger /\ ~Begun(<<turn.trigger, n>>)
<1>1. /\ turn.trigger \in Trigger /\ outcome[turn.trigger] = "pending"
      /\ turn \in Turns /\ turn.attempt \in Nat
  BY MaxAttemptsAssumption DEF TypeOK, TurnInv, Turns
<1>2. /\ turn'.trigger = turn.trigger /\ turn'.attempt = n
      /\ turn'.pc = "attempting"
  BY <1>1 DEF Issue, Turns
<1> DEFINE new == <<turn.trigger, n>>
<1>3. new \in AttemptId /\ new[1] = turn.trigger /\ new[2] = n
  BY <1>1 DEF AttemptId
<1>4. \A b \in AttemptId : b[1] = turn.trigger /\ Begun(b) => b[2] < n
  BY <1>1, IdsDiffer DEF TurnInv
<1>5. ~Begun(new)
  BY <1>3, <1>4
<1>6. \A b \in AttemptId : Begun(b)' => Begun(b) \/ b = new
  <2> SUFFICES ASSUME NEW b \in AttemptId, b # new
               PROVE  Begun(b)' => Begun(b)
    OBVIOUS
  <2>1. token'[b] = token[b] \/ token'[b] = Invalidated(token[b], "superseded")
    BY DEF Issue
  <2>2. Invalidated(token[b], "superseded").pc = token[b].pc
    <3>1. token[b] \in Tokens
      BY DEF TypeOK
    <3> QED  BY <3>1 DEF Invalidated, Tokens
  <2> QED  BY <2>1, <2>2 DEF Begun
<1> HIDE DEF new
<1>7. ASSUME NEW b \in AttemptId, Begun(b)'
      PROVE  /\ outcome'[b[1]] # "unsent"
             /\ b[1] = turn'.trigger => b[2] <= turn'.attempt
  <2>1. CASE b = new
    BY <1>1, <1>2, <1>3, <2>1
  <2>2. CASE Begun(b)
    <3>1. outcome[b[1]] # "unsent"
      BY <2>2 DEF TurnInv
    <3>2. b[1] = turn.trigger => b[2] < n
      BY <1>4, <2>2
    <3> QED  BY <1>2, <3>1, <3>2, IdsDiffer
  <2> QED  BY <1>6, <1>7, <2>1, <2>2
<1>8. TurnInv'
  BY <1>1, <1>2, <1>7 DEF TurnInv
<1> QED  BY <1>1, <1>5, <1>8 DEF new

-----------------------------------------------------------------------------
(* The writes of one author on the chain, and the init write.              *)

LEMMA WritesGrow ==
  ASSUME NEW w \in Seq(Writes), NEW x \in Writes, NEW b
  PROVE  WritesOf(Append(w, x), b) =
           WritesOf(w, b) \cup (IF x.event.by = b THEN {Len(w) + 1} ELSE {})
<1>1. /\ Len(w) \in Nat /\ Len(Append(w, x)) = Len(w) + 1
      /\ \A i \in 1 .. Len(w) : Append(w, x)[i] = w[i]
      /\ Append(w, x)[Len(w) + 1] = x
  BY LenProperties, AppendProperties
<1>2. 1 .. Len(w) + 1 = (1 .. Len(w)) \cup {Len(w) + 1}
  BY <1>1
<1>3. \A i : i \in WritesOf(Append(w, x), b) <=>
        \/ i \in WritesOf(w, b)
        \/ i = Len(w) + 1 /\ x.event.by = b
  BY <1>1, <1>2 DEF WritesOf
<1> QED  BY <1>3

LEMMA WritesShrink ==
  ASSUME NEW w \in Seq(Writes), w # <<>>, NEW b
  PROVE  /\ \A i \in WritesOf(Tail(w), b) :
              i + 1 \in WritesOf(w, b) /\ i \in Nat \ {0}
         /\ Head(w).event.by = b => 1 \in WritesOf(w, b)
<1>1. /\ Len(w) \in Nat /\ Len(w) >= 1 /\ Len(Tail(w)) = Len(w) - 1
      /\ \A i \in 1 .. Len(Tail(w)) : Tail(w)[i] = w[i + 1]
      /\ Head(w) = w[1]
  BY HeadTailProperties, LenProperties, EmptySeq
<1>2. \A i \in 1 .. Len(Tail(w)) : i + 1 \in 1 .. Len(w) /\ i \in Nat \ {0}
  BY <1>1
<1> QED  BY <1>1, <1>2 DEF WritesOf

LEMMA WritesAnswered ==
  ASSUME writes \in Seq(Writes), AppendInFlight, NEW b,
         NEW r \in {"ok", "conflict", "failed"}, Answer(r)
  PROVE  WritesOf(writes', b) = WritesOf(writes, b)
<1>1. /\ Head(writes) \in Writes /\ Head(writes) = writes[1]
      /\ Len(writes) \in Nat /\ Len(writes) >= 1 /\ 1 \in 1 .. Len(writes)
  BY HeadTailProperties, LenProperties, EmptySeq DEF AppendInFlight
<1> DEFINE x == [Head(writes) EXCEPT !.result = r]
<1>2. x \in Writes /\ x.event = writes[1].event
  BY <1>1 DEF Writes
<1>3. writes' = [writes EXCEPT ![1] = x]
  BY <1>1 DEF Answer
<1>4. /\ Len(writes') = Len(writes)
      /\ \A i \in 1 .. Len(writes) : writes'[i] = IF i = 1 THEN x ELSE writes[i]
  <2> HIDE DEF x
  <2> QED  BY <1>1, <1>2, <1>3, ExceptSeq
<1>5. \A i \in 1 .. Len(writes) : writes'[i].event = writes[i].event
  BY <1>2, <1>4
<1> QED  BY <1>4, <1>5 DEF WritesOf

LEMMA InitWritesGrow ==
  ASSUME NEW w \in Seq(Writes), NEW x \in Writes
  PROVE  InitWrites(Append(w, x)) =
           InitWrites(w) \cup (IF x.event.by = InitId THEN {Len(w) + 1} ELSE {})
  BY WritesGrow DEF InitWrites

LEMMA InitWritesShrink ==
  ASSUME NEW w \in Seq(Writes), w # <<>>
  PROVE  /\ \A i \in InitWrites(Tail(w)) : i + 1 \in InitWrites(w) /\ i \in Nat \ {0}
         /\ Head(w).event.by = InitId => 1 \in InitWrites(w)
  BY WritesShrink DEF InitWrites

LEMMA InitWritesAnswered ==
  ASSUME writes \in Seq(Writes), AppendInFlight,
         NEW r \in {"ok", "conflict", "failed"}, Answer(r)
  PROVE  InitWrites(writes') = InitWrites(writes)
  BY WritesAnswered DEF InitWrites

\* Steps after which no other init write is on the chain.
LEMMA ChainStands ==
  ASSUME ChainInv, InitWrites(writes') = InitWrites(writes),
         turn.pc = "initializing" => turn'.pc = "initializing"
  PROVE  ChainInv'
  BY DEF ChainInv

LEMMA ChainSettles ==
  ASSUME TypeOK, ChainInv, AppendAnswered, writes' = Tail(writes),
         turn.pc = "initializing" /\ AnsweredEvent.by # InitId
           => turn'.pc = "initializing"
  PROVE  ChainInv'
<1>1. /\ \A i \in InitWrites(writes') : i + 1 \in InitWrites(writes) /\ i \in Nat \ {0}
      /\ AnsweredEvent.by = InitId => 1 \in InitWrites(writes)
  BY InitWritesShrink DEF TypeOK, AppendAnswered, AnsweredEvent
<1>2. \A i, j \in InitWrites(writes') : i = j
  BY <1>1 DEF ChainInv
<1>3. InitWrites(writes') # {} => turn'.pc = "initializing"
  <2> SUFFICES ASSUME NEW i \in InitWrites(writes')
               PROVE  turn'.pc = "initializing"
    OBVIOUS
  <2>1. i + 1 \in InitWrites(writes) /\ i + 1 # 1
    BY <1>1
  <2>2. AnsweredEvent.by # InitId /\ turn.pc = "initializing"
    BY <1>1, <2>1 DEF ChainInv
  <2> QED  BY <2>2
<1> QED  BY <1>2, <1>3 DEF ChainInv

-----------------------------------------------------------------------------
(* What may happen to tokens that were issued.                             *)

TokenStands(b) ==
  /\ token'[b].sealed = token[b].sealed
  /\ token[b].sealed => token'[b].invalidatedBy = token[b].invalidatedBy
  /\ token'[b].seq = token[b].seq
  /\ token'[b].observed = token[b].observed
  /\ Begun(b)' <=> Begun(b)

LEMMA PhaseStands ==
  ASSUME TypeOK, NEW a \in AttemptId, Begun(a), NEW pc \in {"over", "recovering"},
         token' = [token EXCEPT ![a].pc = pc]
  PROVE  \A b \in AttemptId : TokenStands(b)
<1>1. \A b \in AttemptId : token[b] \in Tokens
  BY DEF TypeOK
<1>2. \A b \in AttemptId : token'[b] = IF b = a THEN [token[a] EXCEPT !.pc = pc]
                                                ELSE token[b]
  BY DEF TypeOK
<1>3. TokenStands(a)
  BY <1>1, <1>2 DEF TokenStands, Begun, Tokens
<1>4. \A b \in AttemptId \ {a} : TokenStands(b)
  BY <1>2 DEF TokenStands, Begun
<1> QED  BY <1>3, <1>4

LEMMA InvalidatedStands ==
  ASSUME TypeOK, NEW b \in AttemptId, NEW reason \in FenceReasons,
         token'[b] = Invalidated(token[b], reason)
  PROVE  TokenStands(b)
<1>1. token[b] \in Tokens
  BY DEF TypeOK
<1>2. /\ token'[b].sealed = token[b].sealed /\ token'[b].seq = token[b].seq
      /\ token'[b].observed = token[b].observed /\ token'[b].pc = token[b].pc
      /\ token[b].sealed => token'[b].invalidatedBy = token[b].invalidatedBy
  BY <1>1 DEF Invalidated, Tokens
<1> QED  BY <1>2 DEF TokenStands, Begun

LEMMA UnchangedStands ==
  UNCHANGED token => \A b \in AttemptId : TokenStands(b)
  BY DEF TokenStands, Begun

-----------------------------------------------------------------------------
(***************************************************************************)
(* The strengthening of FenceHolds: whoever has written anything has       *)
(* sealed its token, and a sealed token was never invalidated.             *)
(***************************************************************************)
Written(a) ==
  \/ \E i \in 1 .. Len(log) : log[i].by = a
  \/ \E x \in Chain(writes) : x.event.by = a

SealInv ==
  \A a \in AttemptId :
    /\ Written(a) => token[a].sealed
    /\ token[a].sealed => token[a].invalidatedBy = None /\ Begun(a)

FenceInv == StreamInv /\ TurnInv /\ ChainInv /\ SealInv

LEMMA SealStands ==
  ASSUME SealInv, \A a \in AttemptId : TokenStands(a),
         \A a \in AttemptId : Written(a)' => Written(a)
  PROVE  SealInv'
  BY DEF SealInv, TokenStands

\* A note or an init write comes to the chain.
LEMMA OtherWrite ==
  ASSUME StreamInv, NEW x \in Writes, writes' = Append(writes, x),
         x.event.by \notin AttemptId, UNCHANGED log
  PROVE  \A a \in AttemptId : Written(a)' => Written(a)
<1>1. Chain(writes') = Chain(writes) \cup {x}
  BY ChainGrows DEF StreamInv, TypeOK
<1> QED  BY <1>1 DEF Written

LEMMA SettledWrite ==
  ASSUME StreamInv, AppendAnswered, writes' = Tail(writes), UNCHANGED log
  PROVE  /\ \A a \in AttemptId : Written(a)' => Written(a)
         /\ \A a \in AttemptId : a = AnsweredEvent.by => Written(a)
<1>1. Head(writes) \in Chain(writes) /\ Chain(writes') \subseteq Chain(writes)
  BY ChainShrinks DEF StreamInv, TypeOK, AppendAnswered
<1> QED  BY <1>1 DEF Written, AnsweredEvent

LEMMA AnsweredWrite ==
  ASSUME StreamInv, AppendInFlight, NEW r \in {"ok", "conflict", "failed"}, Answer(r),
         log' = log \/ log' = Append(log, Head(writes).event)
  PROVE  \A a \in AttemptId : Written(a)' => Written(a)
<1>1. /\ Head(writes) \in Writes /\ Head(writes) \in Chain(writes)
      /\ Head(writes).event \in Events
  BY ChainShrinks DEF StreamInv, TypeOK, AppendInFlight, Writes
<1>2. Chain(writes') \subseteq Chain(writes) \cup {[Head(writes) EXCEPT !.result = r]}
  BY ChainAnswered DEF StreamInv, TypeOK
<1>3. [Head(writes) EXCEPT !.result = r].event = Head(writes).event
  BY <1>1 DEF Writes
<1>4. \A a : (\E x \in Chain(writes') : x.event.by = a)
              => \E x \in Chain(writes) : x.event.by = a
  BY <1>1, <1>2, <1>3
<1>5. \A a : (\E i \in 1 .. Len(log') : log'[i].by = a)
              => (\E i \in 1 .. Len(log) : log[i].by = a) \/ a = Head(writes).event.by
  <2>1. CASE log' = log
    BY <2>1
  <2>2. CASE log' = Append(log, Head(writes).event)
    <3>1. /\ Len(log) \in Nat /\ Len(log') = Len(log) + 1
          /\ \A i \in 1 .. Len(log) : log'[i] = log[i]
          /\ log'[Len(log) + 1] = Head(writes).event
      BY <1>1, <2>2, LenProperties, CommitsOfAppend DEF StreamInv, TypeOK
    <3>2. 1 .. Len(log') = (1 .. Len(log)) \cup {Len(log) + 1}
      BY <3>1
    <3> QED  BY <3>1, <3>2
  <2> QED  BY <2>1, <2>2
<1> QED  BY <1>1, <1>4, <1>5 DEF Written

LEMMA InitFence == Init => FenceInv
<1> SUFFICES ASSUME Init PROVE FenceInv
  OBVIOUS
<1>1. Len(log) = 0 /\ Len(writes) = 0
  BY EmptySeq DEF Init
<1>2. \A a \in AttemptId : ~Begun(a) /\ ~token[a].sealed
  BY DEF Init, Begun, NoToken
<1>3. TurnInv
  BY <1>2 DEF Init, TurnInv, NoTurn
<1>4. ChainInv
  BY <1>1 DEF ChainInv, InitWrites, WritesOf
<1>5. SealInv
  BY <1>1, <1>2 DEF SealInv, Written, Chain
<1> QED  BY <1>3, <1>4, <1>5, InitStream DEF FenceInv

LEMMA BeginKeepsFence ==
  ASSUME FenceInv, NEW t \in Trigger, Begin(t)
  PROVE  TurnInv' /\ ChainInv' /\ SealInv'
<1> USE DEF FenceInv
<1>1. UNCHANGED <<writes, token, log>> /\ turn.pc = "idle"
  BY DEF Begin
<1>2. turn.trigger = None /\ outcome[t] = "unsent" /\ outcome \in [Trigger -> Outcomes]
  BY DEF TurnInv, Begin, StreamInv, TypeOK
<1>3. \A a \in AttemptId : Begun(a)' => Begun(a) /\ a[1] # t
  BY <1>1, <1>2 DEF Begun, TurnInv
<1>4. TurnInv'
  <2>1. CASE outcome' = [outcome EXCEPT ![t] = hydration] /\ UNCHANGED turn
    BY <1>1, <1>2, <1>3, <2>1 DEF TurnInv
  <2>2. CASE /\ outcome' = [outcome EXCEPT ![t] = "pending"]
             /\ turn'.trigger = t /\ turn'.pc # "idle"
    BY <1>1, <1>2, <1>3, <2>2 DEF TurnInv
  <2> QED  BY <2>1, <2>2 DEF Begin
<1>5. ChainInv'
  BY <1>1, ChainStands
<1>6. SealInv'
  BY <1>1, UnchangedStands, SealStands DEF Written
<1> QED  BY <1>4, <1>5, <1>6

LEMMA ReconcileKeepsFence ==
  ASSUME FenceInv, Reconcile
  PROVE  TurnInv' /\ ChainInv' /\ SealInv'
<1> USE DEF FenceInv
<1>1. UNCHANGED <<token, log>>
  BY DEF Reconcile, StoreLoad, LoadFails, Hydrate, Reload
<1>2. TypeOK
  BY DEF StreamInv
<1>3. TurnInv'
  <2>1. CASE EndTurn("STORE_UNAVAILABLE")
    <3>1. "STORE_UNAVAILABLE" \in Outcomes \ {"unsent"}
      BY DEF Outcomes, Errors, StoreErrors
    <3> QED  BY <1>1, <1>2, <2>1, <3>1, TurnEnds DEF Begun
  <2>2. ASSUME NEW pc \in TurnPhases \ {"idle"}, turn' = [turn EXCEPT !.pc = pc],
               turn.pc \notin {"idle", "attempting", "backoff"}, UNCHANGED outcome
        PROVE  TurnInv'
    BY <1>1, <1>2, <2>2, TurnProceeds
  <2>3. {"hydrated", "reloaded", "initializing", "ready", "hydrating"}
          \subseteq TurnPhases \ {"idle"}
    BY DEF TurnPhases
  <2>4. CASE StoreLoad
    BY <2>2, <2>3, <2>4 DEF StoreLoad
  <2>5. CASE LoadFails
    BY <2>1, <2>5 DEF LoadFails
  <2>6. CASE Hydrate
    BY <2>2, <2>3, <2>6 DEF Hydrate
  <2>7. CASE Reload
    BY <2>2, <2>3, <2>7 DEF Reload
  <2> QED  BY <2>4, <2>5, <2>6, <2>7 DEF Reconcile
<1>4. CASE UNCHANGED writes
  <2>1. InitWrites(writes') = {}
    BY <1>4 DEF Reconcile, StoreLoad, LoadFails, Hydrate, Reload, ChainInv
  <2>2. ChainInv'
    BY <2>1 DEF ChainInv
  <2>3. SealInv'
    BY <1>1, <1>4, UnchangedStands, SealStands DEF Written
  <2> QED  BY <1>3, <2>2, <2>3
<1>5. CASE ~UNCHANGED writes
  <2> DEFINE first == Write(Transition(0, None, state, InitId), EMPTY_SEQ)
  <2>1. /\ writes' = Append(writes, first)
        /\ turn.pc = "hydrated" /\ turn' = [turn EXCEPT !.pc = "initializing"]
    BY <1>5 DEF Reconcile, StoreLoad, LoadFails, Hydrate, Reload
  <2>2. first \in Writes /\ first.event.by = InitId
    <3>1. Transition(0, None, state, InitId) \in Events
      BY <1>2, EventTypes, AuthorTypes DEF TypeOK
    <3> QED  BY <3>1 DEF Write, Writes, Transition
  <2> HIDE DEF first
  <2>3. InitWrites(writes) = {} /\ turn'.pc = "initializing"
    BY <1>2, <2>1 DEF ChainInv, TypeOK, Turns
  <2>4. InitWrites(writes') = {Len(writes) + 1}
    BY <1>2, <2>1, <2>2, <2>3, InitWritesGrow DEF TypeOK
  <2>5. ChainInv'
    BY <2>3, <2>4 DEF ChainInv
  <2>6. first.event.by \notin AttemptId
    BY <2>2, IdsDiffer
  <2>7. SealInv'
    BY <1>1, <2>1, <2>2, <2>6, OtherWrite, UnchangedStands, SealStands
  <2> QED  BY <1>3, <2>5, <2>7
<1> QED  BY <1>4, <1>5

\* A note on the chain: what the write of it is, and is not.
LEMMA NoteWrite ==
  ASSUME StreamInv, notes < MaxNotes
  PROVE  LET note == Note(seq, state, NoteId(notes + 1))
         IN  /\ note \in Events /\ Write(note, seq) \in Writes
             /\ Write(note, seq).event.by = NoteId(notes + 1)
             /\ Write(note, seq).event.type = "note"
             /\ NoteId(notes + 1) \notin AttemptId /\ NoteId(notes + 1) # InitId
<1>1. notes + 1 \in Nat /\ notes \in Nat
  BY BoundsAssumption DEF StreamInv, TypeOK
<1>2. Note(seq, state, NoteId(notes + 1)) \in Events
  BY <1>1, EventTypes, AuthorTypes DEF StreamInv, TypeOK
<1>3. NoteId(notes + 1) \notin AttemptId /\ NoteId(notes + 1) # InitId
  BY <1>1, IdsDiffer
<1> QED  BY <1>2, <1>3 DEF Write, Writes, Note, StreamInv, TypeOK

LEMMA NoteKeepsChain ==
  ASSUME StreamInv, Record(Note(seq, state, NoteId(notes + 1))), UNCHANGED log
  PROVE  /\ InitWrites(writes') = InitWrites(writes)
         /\ \A a \in AttemptId : Written(a)' => Written(a)
<1> DEFINE x == Write(Note(seq, state, NoteId(notes + 1)), seq)
<1>1. writes' = Append(writes, x) /\ notes < MaxNotes
  BY DEF Record
<1>2. x \in Writes /\ x.event.by \notin AttemptId /\ x.event.by # InitId
  BY <1>1, NoteWrite
<1> HIDE DEF x
<1> QED  BY <1>1, <1>2, InitWritesGrow, OtherWrite DEF StreamInv, TypeOK

LEMMA ProceedKeepsFence ==
  ASSUME FenceInv, Proceed
  PROVE  TurnInv' /\ ChainInv' /\ SealInv'
<1> USE DEF FenceInv
<1>1. TypeOK
  BY DEF StreamInv
<1>2. CASE Refuse
  <2>1. UNCHANGED <<token, log>>
    BY <1>2 DEF Refuse
  <2>2. /\ InitWrites(writes') = InitWrites(writes)
        /\ \A a \in AttemptId : Written(a)' => Written(a)
    BY <1>2, <2>1, NoteKeepsChain DEF Refuse
  <2>3. "UNKNOWN_TRIGGER" \in Outcomes \ {"unsent"}
    BY DEF Outcomes, Errors
  <2>4. TurnInv'
    BY <1>1, <1>2, <2>1, <2>3, TurnEnds DEF Refuse, Begun
  <2>5. ChainInv'
    BY <1>2, <2>2, ChainStands DEF Refuse
  <2>6. SealInv'
    BY <2>1, <2>2, UnchangedStands, SealStands
  <2> QED  BY <2>4, <2>5, <2>6
<1>3. ASSUME NEW n \in 1 .. MaxAttempts, Issue(n),
             UNCHANGED <<writes, log, outcome>>,
             \/ turn.pc = "ready" /\ n = 1
             \/ turn.pc = "backoff" /\ n = turn.attempt + 1
      PROVE  TurnInv' /\ ChainInv' /\ SealInv'
  <2> DEFINE new == <<turn.trigger, n>>
  <2>1. TurnInv' /\ turn.trigger \in Trigger /\ ~Begun(new)
    BY <1>1, <1>3, IssueIsNew
  <2>2. ChainInv'
    BY <1>3, ChainStands
  <2>3. new \in AttemptId /\ ~token[new].sealed /\ ~Written(new)
    BY <2>1 DEF AttemptId, SealInv
  <2>4. token'[new] = [NoToken EXCEPT !.pc = "handling", !.seq = seq, !.observed = state]
    BY <1>3, <2>3 DEF Issue
  <2>5. ~token'[new].sealed
    BY <2>4 DEF NoToken
  <2>6. ASSUME NEW b \in AttemptId, b # new PROVE TokenStands(b)
    <3>1. token'[b] = token[b] \/ token'[b] = Invalidated(token[b], "superseded")
      BY <1>3, <2>6 DEF Issue
    <3>2. CASE token'[b] = token[b]
      BY <3>2 DEF TokenStands, Begun
    <3>3. CASE token'[b] = Invalidated(token[b], "superseded")
      BY <1>1, <3>3, InvalidatedStands DEF FenceReasons
    <3> QED  BY <3>1, <3>2, <3>3
  <2> HIDE DEF new
  <2>7. \A a \in AttemptId : Written(a)' <=> Written(a)
    BY <1>3 DEF Written
  <2>8. SealInv'
    BY <2>3, <2>5, <2>6, <2>7 DEF SealInv, TokenStands
  <2> QED  BY <2>1, <2>2, <2>8
<1>4. CASE FirstAttempt
  <2>1. 1 \in 1 .. MaxAttempts
    BY MaxAttemptsAssumption
  <2> QED  BY <1>3, <1>4, <2>1 DEF FirstAttempt
<1>5. CASE Retry
  <2>1. turn.attempt + 1 \in 1 .. MaxAttempts
    BY <1>5, MaxAttemptsAssumption DEF StreamInv, TypeOK, Retry, Turns
  <2> QED  BY <1>3, <1>5, <2>1 DEF Retry
<1> QED  BY <1>2, <1>4, <1>5 DEF Proceed

LEMMA FailureKeepsFence ==
  ASSUME FenceInv, NEW a \in AttemptId, Begun(a), NEW code \in Errors,
         Failure(a, code), InitWrites(writes') = InitWrites(writes),
         \A b \in AttemptId : Written(b)' => Written(b)
  PROVE  TurnInv' /\ ChainInv' /\ SealInv'
<1> USE DEF FenceInv
<1>1. TypeOK
  BY DEF StreamInv
<1>2. \A b \in AttemptId : TokenStands(b)
  BY <1>1, PhaseStands DEF Failure, AttemptFails, Recovering
<1>3. NoneBegins
  BY <1>2 DEF TokenStands, NoneBegins
<1>4. TurnInv' /\ (turn.pc = "initializing" => turn' = turn)
  BY <1>1, <1>3, TurnCaught, TurnWaits
     DEF Failure, AttemptFails, Recovering, NoneBegins
<1>5. ChainInv'
  BY <1>4, ChainStands
<1>6. SealInv'
  BY <1>2, SealStands
<1> QED  BY <1>4, <1>5, <1>6

LEMMA SealKeepsFence ==
  ASSUME FenceInv, NEW a \in AttemptId, Begun(a), Committable(a), NEW to \in State,
         NEW chain \in Seq(Writes), InitWrites(chain) = InitWrites(writes),
         \A b \in AttemptId : (\E x \in Chain(chain) : x.event.by = b)
                               => \E x \in Chain(writes) : x.event.by = b,
         Seal(a, to, chain), UNCHANGED log
  PROVE  TurnInv' /\ ChainInv' /\ SealInv'
<1> USE DEF FenceInv
<1>1. TypeOK
  BY DEF StreamInv
<1> DEFINE x == Write(Transition(seq + 1, state, to, a), seq)
<1>2. x \in Writes /\ x.event.by = a
  <2>1. Transition(seq + 1, state, to, a) \in Events
    BY <1>1, EventTypes, AuthorTypes DEF TypeOK
  <2> QED  BY <1>1, <2>1 DEF TypeOK, Write, Writes, Transition
<1>3. writes' = Append(chain, x) /\ UNCHANGED <<turn, outcome>>
  BY DEF Seal
<1> HIDE DEF x
<1>4. Chain(writes') = Chain(chain) \cup {x} /\ InitWrites(writes') = InitWrites(writes)
  BY <1>2, <1>3, ChainGrows, InitWritesGrow, IdsDiffer
<1>5. /\ token'[a].sealed /\ token'[a].invalidatedBy = token[a].invalidatedBy
      /\ Begun(a)'
      /\ \A b \in AttemptId \ {a} : token'[b] = token[b]
  <2>1. token[a] \in Tokens /\ token \in [AttemptId -> Tokens]
    BY <1>1 DEF TypeOK
  <2>2. token'[a] = [token[a] EXCEPT !.sealed = TRUE, !.pc = "writing"]
    BY <2>1 DEF Seal
  <2>3. \A b \in AttemptId \ {a} : token'[b] = token[b]
    BY <2>1 DEF Seal
  <2> QED  BY <2>1, <2>2, <2>3 DEF Tokens, Begun
<1>6. \A b \in AttemptId : Begun(b)' => Begun(b)
  BY <1>5 DEF Begun
<1>7. TurnInv'
  BY <1>3, <1>6, TurnWaits
<1>8. ChainInv'
  BY <1>3, <1>4, ChainStands
<1>9. \A b \in AttemptId \ {a} : Written(b)' => Written(b)
  BY <1>2, <1>4 DEF Written
<1>10. SealInv'
  BY <1>5, <1>9 DEF SealInv, Committable, Begun
<1> QED  BY <1>7, <1>8, <1>10

LEMMA HandlerReturnsKeepsFence ==
  ASSUME FenceInv, NEW a \in AttemptId, HandlerReturns(a)
  PROVE  TurnInv' /\ ChainInv' /\ SealInv'
<1> USE DEF FenceInv
<1>1. Begun(a) /\ UNCHANGED log
  BY DEF HandlerReturns, HandlerFails, Fenced, Commit, CommitWarned, CommitRejected,
         Begun
<1>2. {"HANDLER_FAILED", "COMMIT_FENCED", "CONSTRAINT_VIOLATED"} \subseteq Errors
  BY DEF Errors
<1>3. UNCHANGED writes => /\ InitWrites(writes') = InitWrites(writes)
                          /\ \A b \in AttemptId : Written(b)' => Written(b)
  BY <1>1 DEF Written
<1>4. CASE HandlerFails(a)
  BY <1>1, <1>2, <1>3, <1>4, FailureKeepsFence DEF HandlerFails
<1>5. CASE Fenced(a)
  BY <1>1, <1>2, <1>3, <1>5, FailureKeepsFence DEF Fenced, Failure
<1>6. ASSUME NEW to \in State, Commit(a, to)
      PROVE  TurnInv' /\ ChainInv' /\ SealInv'
  <2>1. writes \in Seq(Writes)
    BY DEF StreamInv, TypeOK
  <2> QED  BY <1>1, <1>6, <2>1, SealKeepsFence DEF Commit
<1>7. ASSUME NEW to \in State, CommitWarned(a, to)
      PROVE  TurnInv' /\ ChainInv' /\ SealInv'
  <2> DEFINE x     == Write(Note(seq, state, NoteId(notes + 1)), seq)
             chain == Append(writes, x)
  <2>1. Seal(a, to, chain) /\ Committable(a) /\ notes < MaxNotes
    BY <1>7 DEF CommitWarned
  <2>2. x \in Writes /\ x.event.by \notin AttemptId /\ x.event.by # InitId
    BY <2>1, NoteWrite
  <2> HIDE DEF x
  <2>3. /\ chain \in Seq(Writes) /\ Chain(chain) = Chain(writes) \cup {x}
        /\ InitWrites(chain) = InitWrites(writes)
    BY <2>2, ChainGrows, InitWritesGrow DEF StreamInv, TypeOK
  <2>4. \A b \in AttemptId : (\E y \in Chain(chain) : y.event.by = b)
                              => \E y \in Chain(writes) : y.event.by = b
    BY <2>2, <2>3
  <2> HIDE DEF chain
  <2> QED  BY <1>1, <2>1, <2>3, <2>4, SealKeepsFence
<1>8. CASE CommitRejected(a)
  BY <1>1, <1>2, <1>8, NoteKeepsChain, FailureKeepsFence DEF CommitRejected
<1> QED  BY <1>4, <1>5, <1>6, <1>7, <1>8 DEF HandlerReturns

LEMMA TimeoutKeepsFence ==
  ASSUME FenceInv, Timeout
  PROVE  TurnInv' /\ ChainInv' /\ SealInv'
<1> USE DEF FenceInv
<1>1. TypeOK
  BY DEF StreamInv
<1>2. ASSUME NEW b \in AttemptId PROVE TokenStands(b)
  <2>1. token'[b] = token[b] \/ token'[b] = Invalidated(token[b], "timeout")
    BY <1>1 DEF Timeout, TypeOK
  <2>2. CASE token'[b] = token[b]
    BY <2>2 DEF TokenStands, Begun
  <2>3. CASE token'[b] = Invalidated(token[b], "timeout")
    BY <1>1, <2>3, InvalidatedStands DEF FenceReasons
  <2> QED  BY <2>1, <2>2, <2>3
<1>3. NoneBegins
  BY <1>2 DEF TokenStands, NoneBegins
<1>4. "HANDLER_TIMEOUT" \in Errors /\ LoopCatches(Current, "HANDLER_TIMEOUT")
  BY DEF Errors, Timeout
<1>5. TurnInv' /\ (turn.pc = "initializing" => turn' = turn)
  BY <1>1, <1>3, <1>4, TurnCaught
<1>6. UNCHANGED <<writes, log>>
  BY DEF Timeout
<1>7. ChainInv'
  BY <1>5, <1>6, ChainStands
<1>8. SealInv'
  BY <1>2, <1>6, SealStands DEF Written
<1> QED  BY <1>5, <1>7, <1>8

LEMMA StoreKeepsFence ==
  ASSUME FenceInv, StoreAnswers
  PROVE  TurnInv' /\ ChainInv' /\ SealInv'
<1> USE DEF FenceInv
<1>1. /\ AppendInFlight /\ UNCHANGED <<token, turn, outcome>>
      /\ \E r \in {"ok", "conflict", "failed"} : Answer(r)
      /\ log' = log \/ log' = Append(log, Head(writes).event)
  BY DEF StoreAnswers, StoreAppend, AppendFails
<1>2. TurnInv'
  BY <1>1, TurnWaits DEF Begun
<1>3. ChainInv'
  BY <1>1, InitWritesAnswered, ChainStands DEF StreamInv, TypeOK
<1>4. SealInv'
  BY <1>1, AnsweredWrite, UnchangedStands, SealStands
<1> QED  BY <1>2, <1>3, <1>4

LEMMA SettleKeepsFence ==
  ASSUME FenceInv, WriteSettles
  PROVE  TurnInv' /\ ChainInv' /\ SealInv'
<1> USE DEF FenceInv
<1>1. TypeOK
  BY DEF StreamInv
<1>2. AppendAnswered /\ writes' = Tail(writes) /\ UNCHANGED log
  BY DEF WriteSettles, CommitLands, CommitConflicts, CommitUnstored, InitLands,
         InitFails, NoteSettles, Answered
<1>3. /\ \A a \in AttemptId : Written(a)' => Written(a)
      /\ \A a \in AttemptId : a = AnsweredEvent.by => Begun(a)
  BY <1>2, SettledWrite DEF SealInv
<1>4. ASSUME \A b \in AttemptId : TokenStands(b)
      PROVE  SealInv' /\ \A b \in AttemptId : Begun(b)' => Begun(b)
  BY <1>3, <1>4, SealStands DEF TokenStands
<1>5. ASSUME turn.pc = "initializing" => turn'.pc = "initializing"
      PROVE  ChainInv'
  BY <1>1, <1>2, <1>5, ChainSettles
<1>6. CASE CommitLands
  <2>1. \A b \in AttemptId : TokenStands(b)
    BY <1>1, <1>3, <1>6, PhaseStands DEF CommitLands, IsCommit
  <2>2. "committed" \in Outcomes \ {"unsent"}
    BY DEF Outcomes
  <2>3. TurnInv'
    BY <1>1, <1>4, <1>6, <2>1, <2>2, TurnEnds, TurnWaits DEF CommitLands, Resolve
  <2>4. turn.pc = "initializing" => turn'.pc = "initializing"
    BY <1>6 DEF CommitLands, Resolve, Awaiting
  <2> QED  BY <1>4, <1>5, <2>1, <2>3, <2>4
<1>7. ASSUME NEW code \in Errors, AttemptFails(AnsweredEvent.by, code), IsCommit
      PROVE  TurnInv' /\ ChainInv' /\ SealInv'
  <2>1. \A b \in AttemptId : TokenStands(b)
    BY <1>1, <1>3, <1>7, PhaseStands DEF AttemptFails, IsCommit
  <2>2. TurnInv' /\ (turn.pc = "initializing" => turn' = turn)
    BY <1>1, <1>4, <1>7, <2>1, TurnCaught DEF AttemptFails, NoneBegins
  <2> QED  BY <1>4, <1>5, <2>1, <2>2
<1>8. {"STORE_CONFLICT", "STORE_UNAVAILABLE"} \subseteq Errors
  BY DEF Errors, StoreErrors
<1>9. CASE CommitConflicts
  BY <1>7, <1>8, <1>9 DEF CommitConflicts
<1>10. CASE CommitUnstored
  BY <1>7, <1>8, <1>10 DEF CommitUnstored
<1>11. AnsweredEvent.by = InitId => turn.pc = "initializing"
  BY <1>1, <1>2, InitWritesShrink
     DEF ChainInv, AnsweredEvent, AppendAnswered, TypeOK
<1>12. AnsweredEvent.by = InitId => ChainInv'
  BY <1>1, <1>2, ChainSettles
<1>13. CASE InitLands
  <2>1. AnsweredEvent.by = InitId /\ turn.pc = "initializing" /\ UNCHANGED <<outcome, token>>
    BY <1>11, <1>13 DEF InitLands
  <2>2. "ready" \in TurnPhases \ {"idle"} /\ turn' = [turn EXCEPT !.pc = "ready"]
    BY <1>13 DEF InitLands, TurnPhases
  <2>3. TurnInv'
    BY <1>1, <2>1, <2>2, TurnProceeds
  <2>4. SealInv'
    BY <1>4, <2>1, UnchangedStands
  <2> QED  BY <1>12, <2>1, <2>3, <2>4
<1>14. CASE InitFails
  <2>1. AnsweredEvent.by = InitId /\ UNCHANGED token
    BY <1>14 DEF InitFails
  <2>2. AnsweredError \in Outcomes \ {"unsent"}
    BY DEF AnsweredError, Outcomes, Errors, StoreErrors
  <2>3. TurnInv'
    BY <1>1, <1>14, <2>1, <2>2, TurnEnds DEF InitFails, Begun
  <2>4. SealInv'
    BY <1>4, <2>1, UnchangedStands
  <2> QED  BY <1>12, <2>1, <2>3, <2>4
<1>15. CASE NoteSettles
  <2>1. UNCHANGED <<token, turn, outcome>>
    BY <1>15 DEF NoteSettles
  <2> QED  BY <1>4, <1>5, <2>1, TurnWaits, UnchangedStands
<1> QED  BY <1>6, <1>9, <1>10, <1>13, <1>14, <1>15 DEF WriteSettles

LEMMA ForeignKeepsFence ==
  ASSUME FenceInv,
         ForeignForget \/ \E to \in State : ForeignCommit(to)
  PROVE  TurnInv' /\ ChainInv' /\ SealInv'
<1> USE DEF FenceInv
<1>1. UNCHANGED <<writes, token, turn, outcome>>
  BY DEF ForeignForget, ForeignCommit
<1>2. TurnInv' /\ ChainInv'
  BY <1>1, TurnWaits, ChainStands DEF Begun
<1>3. CASE ForeignForget
  <2>1. Len(log') = 0
    BY <1>3, EmptySeq DEF ForeignForget
  <2>2. \A a \in AttemptId : Written(a)' => Written(a)
    BY <1>1, <2>1 DEF Written
  <2> QED  BY <1>1, <1>2, <2>2, UnchangedStands, SealStands
<1>4. ASSUME NEW to \in State, ForeignCommit(to)
      PROVE  \A a \in AttemptId : Written(a)' => Written(a)
  <2> DEFINE from == IF log = <<>> THEN None ELSE Replay(log).state
             e    == Transition(LatestSeq(log) + 1, from, to, ForeignId(foreign + 1))
  <2>1. log' = Append(log, e) /\ e.by = ForeignId(foreign + 1) /\ foreign + 1 \in Nat
    BY <1>4, BoundsAssumption DEF ForeignCommit, Transition, StreamInv, TypeOK
  <2> HIDE DEF e
  <2>2. log \in Seq(Events)
    BY DEF StreamInv, TypeOK
  <2>3. /\ Len(log) \in Nat /\ Len(log') = Len(log) + 1
        /\ \A i \in 1 .. Len(log) : log'[i] = log[i]
        /\ log'[Len(log) + 1] = e
    BY <2>1, <2>2, LenProperties, AppendProperties
  <2>4. 1 .. Len(log') = (1 .. Len(log)) \cup {Len(log) + 1}
    BY <2>3
  <2> QED  BY <1>1, <2>1, <2>3, <2>4, IdsDiffer DEF Written
<1> QED  BY <1>1, <1>2, <1>3, <1>4, UnchangedStands, SealStands

LEMMA StepKeepsFence == FenceInv /\ [Next]_vars => FenceInv'
<1> SUFFICES ASSUME FenceInv, [Next]_vars PROVE FenceInv'
  OBVIOUS
<1>1. StreamInv'
  BY StepKeepsStream DEF FenceInv
<1>2. ASSUME RecordBeside PROVE TurnInv' /\ ChainInv' /\ SealInv'
  <2>1. UNCHANGED <<token, turn, outcome, log>>
    BY <1>2 DEF RecordBeside
  <2>2. /\ InitWrites(writes') = InitWrites(writes)
        /\ \A a \in AttemptId : Written(a)' => Written(a)
    BY <1>2, <2>1, NoteKeepsChain DEF RecordBeside, FenceInv
  <2> QED  BY <2>1, <2>2, TurnWaits, ChainStands, UnchangedStands, SealStands
              DEF FenceInv, Begun
<1>3. ASSUME UNCHANGED vars PROVE TurnInv' /\ ChainInv' /\ SealInv'
  <2>1. UNCHANGED <<token, turn, outcome, log, writes>>
    BY <1>3 DEF vars
  <2> QED  BY <2>1, TurnWaits, ChainStands, UnchangedStands, SealStands
              DEF FenceInv, Begun, Written
<1>4. TurnInv' /\ ChainInv' /\ SealInv'
  BY <1>2, <1>3, BeginKeepsFence, ReconcileKeepsFence, ProceedKeepsFence,
     HandlerReturnsKeepsFence, TimeoutKeepsFence, StoreKeepsFence,
     SettleKeepsFence, ForeignKeepsFence DEF Next, Rest
<1> QED  BY <1>1, <1>4 DEF FenceInv

(***************************************************************************)
(* The fence holds: an attempt whose token was invalidated before it was   *)
(* sealed never writes, however late its handler returns (src/fence.ts).   *)
(***************************************************************************)
THEOREM FenceAlwaysHolds == Spec => []FenceHolds
<1>1. FenceInv => FenceHolds
  <2> SUFFICES ASSUME FenceInv, NEW a \in AttemptId, token[a].invalidatedBy # None
               PROVE  /\ \A i \in 1 .. Len(log) : log[i].by # a
                      /\ \A i \in 1 .. Len(writes) : writes[i].event.by # a
    BY DEF FenceHolds
  <2>1. ~Written(a)
    BY DEF FenceInv, SealInv
  <2> QED  BY <2>1 DEF Written, Chain
<1> QED  BY <1>1, InitFence, StepKeepsFence, PTL DEF Spec

-----------------------------------------------------------------------------
(***************************************************************************)
(* What attempts decide on, and what the record holds, is in the durable   *)
(* stream: DecidedOnLatest and RecordIsDurable of Dispatch.  A key that    *)
(* nobody deletes is an OptimisticKey: what Dispatch does to its log,      *)
(* tokens and answers are steps of that module.  What a sender is told is  *)
(* true: AnswersAreTrue and FailureIsReported.  For any triggers, states,  *)
(* settings and bounds.                                                    *)
(***************************************************************************)

(***************************************************************************)
(* The strengthening of both: whatever still waits to be written, adopted  *)
(* or answered already agrees with the log.  It is about keys that nobody  *)
(* deletes; Holding and HasCommit say that the log has an event, and that  *)
(* it has a commit n that entered state s.                                 *)
(***************************************************************************)
Holding(e) == \E k \in Commits(log) : log[k] = e

HasCommit(n, s) == \E k \in Commits(log) : log[k].seq = n /\ log[k].to = s

\* What an attempt commits follows the commit its handler was given.
DecidedBy(e, t) == e.seq = t.seq + 1 /\ e.from = t.observed

\* A record that answers for its key holds a commit of the log.
RecordAgrees ==
  /\ hydration = "done" => HasCommit(seq, state)
  /\ hydration # "done" => seq = 0

\* Attempts and retries run on a hydrated record, initialization on no other.
PhaseAgrees ==
  /\ turn.pc \in {"hydrating", "hydrated", "initializing"} <=> hydration = "running"
  /\ turn.pc \in {"reloading", "reloaded", "ready", "attempting", "backoff"}
       => hydration = "done"
  /\ stale => hydration = "done"

\* What a load has read is in the log, and a key once there stays there.
LoadAgrees ==
  turn.pc \in {"hydrated", "reloaded"} =>
    /\ \A k \in Commits(loaded) : Holding(loaded[k])
    /\ turn.pc = "reloaded" => Commits(loaded) # {}

\* An attempt was given the state of the commit its token names.
TokenAgrees(a) ==
  Begun(a) => hydration = "done" /\ HasCommit(token[a].seq, token[a].observed)

\* What waits on the write chain was decided on what its author was given,
\* and what was answered with success is in the log.
WriteAgrees(x) ==
  /\ x.event.by \in AttemptId =>
       /\ x.event.type = "transition"
       /\ DecidedBy(x.event, token[x.event.by])
  /\ x.event.by = InitId =>
       x.event.type = "transition" /\ x.event.seq = 0 /\ x.event.to = state
  /\ x.event.by \notin AttemptId \cup {InitId} => x.event.type = "note"
  /\ x.result = "ok" /\ x.event.type = "transition" => Holding(x.event)

LogAgrees ==
  /\ Chained(log)
  /\ \A k \in Commits(log) :
       log[k].by \in AttemptId => DecidedBy(log[k], token[log[k].by])

AnswerAgrees == \A t \in Trigger : outcome[t] = "committed" => Committed(t)

Agreement ==
  /\ RecordAgrees /\ PhaseAgrees /\ LoadAgrees /\ LogAgrees /\ AnswerAgrees
  /\ \A a \in AttemptId : TokenAgrees(a)
  /\ \A x \in Chain(writes) : WriteAgrees(x)

DecisionInv == FenceInv /\ (NeverDeleted => Agreement)

-----------------------------------------------------------------------------
(* What a step leaves as it was, and what follows from that.               *)

Frozen ==
  \A a \in AttemptId : Begun(a) =>
    Begun(a)' /\ token'[a].seq = token[a].seq /\ token'[a].observed = token[a].observed

LogGrows ==
  \A k \in Commits(log) : k \in Commits(log') /\ log'[k] = log[k]

LEMMA StandingIsFrozen ==
  (\A a \in AttemptId : TokenStands(a)) => Frozen
  BY DEF TokenStands, Frozen

LEMMA UnchangedGrows ==
  UNCHANGED log => LogGrows
  BY DEF LogGrows

LEMMA AppendedGrows ==
  ASSUME StreamInv, NEW e \in Events, log' = Append(log, e)
  PROVE  /\ LogGrows
         /\ e.type = "transition" => Holding(e)'
         /\ \A k \in Commits(log') : k \notin Commits(log) =>
              log'[k] = e /\ e.type = "transition"
<1>1. log \in Seq(Events) /\ Len(log) \in Nat
  BY LenProperties DEF StreamInv, TypeOK
<1>2. /\ \A i \in 1 .. Len(log) : log'[i] = log[i]
      /\ log'[Len(log) + 1] = e
      /\ e.type = "transition" => Commits(log') = Commits(log) \cup {Len(log) + 1}
      /\ e.type # "transition" => Commits(log') = Commits(log)
  BY <1>1, CommitsOfAppend
<1>3. Commits(log) \subseteq 1 .. Len(log)
  BY DEF Commits
<1>4. LogGrows
  BY <1>2, <1>3 DEF LogGrows
<1>5. e.type = "transition" => Holding(e)'
  BY <1>2 DEF Holding
<1>6. \A k \in Commits(log') : k \notin Commits(log) =>
        log'[k] = e /\ e.type = "transition"
  BY <1>2
<1> QED  BY <1>4, <1>5, <1>6

LEMMA HoldingGrows ==
  ASSUME LogGrows
  PROVE  /\ \A e : Holding(e) => Holding(e)'
         /\ \A n, s : HasCommit(n, s) => \E k \in Commits(log') :
                                          log'[k].seq = n /\ log'[k].to = s
         /\ \A t : Committed(t) => Committed(t)'
<1>1. \A e : Holding(e) => Holding(e)'
  BY DEF LogGrows, Holding
<1>2. \A n, s : HasCommit(n, s) => \E k \in Commits(log') :
                                   log'[k].seq = n /\ log'[k].to = s
  BY DEF LogGrows, HasCommit
<1>3. \A t : Committed(t) => Committed(t)'
  BY DEF LogGrows, Committed
<1> QED  BY <1>1, <1>2, <1>3

\* A sequence names one commit of the log.
LEMMA OneState ==
  ASSUME StreamInv, NEW n, NEW r, NEW s, HasCommit(n, r), HasCommit(n, s)
  PROVE  r = s
<1>1. \A i, j \in Commits(log) : log[i].seq = log[j].seq => i = j
  BY SeqNamesACommit, EventTypes DEF StreamInv, TypeOK
<1> QED  BY <1>1 DEF HasCommit

LEMMA HeldIsCommit ==
  \A e : Holding(e) => HasCommit(e.seq, e.to)
  BY DEF Holding, HasCommit

LEMMA TokensStay ==
  ASSUME Frozen, LogGrows, \A a \in AttemptId : TokenAgrees(a),
         hydration = "done" => hydration' = "done",
         NEW a \in AttemptId, Begun(a)
  PROVE  TokenAgrees(a)'
<1>1. HasCommit(token[a].seq, token[a].observed) /\ hydration' = "done"
  BY DEF TokenAgrees
<1>2. token'[a].seq = token[a].seq /\ token'[a].observed = token[a].observed
  BY DEF Frozen
<1>3. \E k \in Commits(log') : /\ log'[k].seq = token[a].seq
                              /\ log'[k].to = token[a].observed
  BY <1>1, HoldingGrows
<1>4. HasCommit(token[a].seq, token[a].observed)'
  BY <1>2, <1>3 DEF HasCommit
<1> QED  BY <1>1, <1>4 DEF TokenAgrees

LEMMA WriteStays ==
  ASSUME FenceInv, Frozen, LogGrows, NEW x \in Chain(writes), WriteAgrees(x),
         state' = state \/ turn.pc # "initializing"
  PROVE  WriteAgrees(x)'
<1>1. x.event.by \in AttemptId => Begun(x.event.by)
  BY DEF FenceInv, SealInv, Written
<1>2. x.event.by = InitId => turn.pc = "initializing"
  BY DEF FenceInv, ChainInv, InitWrites, WritesOf, Chain
<1>3. x.event.by \in AttemptId /\ DecidedBy(x.event, token[x.event.by])
        => DecidedBy(x.event, token'[x.event.by])
  BY <1>1 DEF Frozen, DecidedBy
<1>4. Holding(x.event) => Holding(x.event)'
  BY HoldingGrows
<1> QED  BY <1>2, <1>3, <1>4 DEF WriteAgrees

LEMMA LogStays ==
  ASSUME FenceInv, Frozen, LogAgrees, UNCHANGED log
  PROVE  LogAgrees'
<1>1. \A k \in Commits(log) : log[k].by \in AttemptId => Begun(log[k].by)
  BY DEF FenceInv, SealInv, Written, Commits
<1> QED  BY <1>1 DEF LogAgrees, Frozen, DecidedBy

LEMMA AnswersStay ==
  ASSUME AnswerAgrees, LogGrows,
         \A t \in Trigger : outcome'[t] = "committed" =>
           outcome[t] = "committed" \/ Committed(t)'
  PROVE  AnswerAgrees'
  BY HoldingGrows DEF AnswerAgrees

LEMMA RecordStays ==
  ASSUME RecordAgrees, LogGrows, UNCHANGED <<state, seq>>,
         hydration' = "done" <=> hydration = "done"
  PROVE  RecordAgrees'
<1>1. HasCommit(seq, state) => HasCommit(seq, state)'
  BY HoldingGrows DEF HasCommit
<1> QED  BY <1>1 DEF RecordAgrees

LEMMA LoadStays ==
  ASSUME LoadAgrees, LogGrows, UNCHANGED loaded,
         turn'.pc \in {"hydrated", "reloaded"} => turn'.pc = turn.pc
  PROVE  LoadAgrees'
  BY HoldingGrows DEF LoadAgrees

(***************************************************************************)
(* What is left to show of a step: where the record, the phase, the load   *)
(* and the log end up, and whose token or write is new.                    *)
(***************************************************************************)
NewAnswersAreHeld ==
  \A t \in Trigger : outcome'[t] = "committed" =>
    outcome[t] = "committed" \/ Committed(t)'

NewTokensAgree ==
  \A a \in AttemptId : Begun(a)' => Begun(a) \/ TokenAgrees(a)'

NewWritesAgree ==
  \A x \in Chain(writes') : x \in Chain(writes) \/ WriteAgrees(x)'

LEMMA AgreementStays ==
  ASSUME FenceInv, Agreement, Frozen, LogGrows,
         hydration = "done" => hydration' = "done",
         state' = state \/ turn.pc # "initializing",
         RecordAgrees', PhaseAgrees', LoadAgrees', LogAgrees',
         NewAnswersAreHeld, NewTokensAgree, NewWritesAgree
  PROVE  Agreement'
<1>1. AnswerAgrees'
  BY AnswersStay DEF Agreement, NewAnswersAreHeld
<1>2. ASSUME NEW a \in AttemptId PROVE TokenAgrees(a)'
  <2>1. CASE Begun(a)
    BY <2>1, TokensStay DEF Agreement
  <2>2. CASE ~Begun(a)
    BY <2>2 DEF NewTokensAgree, TokenAgrees
  <2> QED  BY <2>1, <2>2
<1>3. ASSUME NEW x \in Chain(writes') PROVE WriteAgrees(x)'
  BY <1>3, WriteStays DEF Agreement, NewWritesAgree
<1> QED  BY <1>1, <1>2, <1>3 DEF Agreement

\* Steps that touch neither the log nor what the record is.
LEMMA QuietStep ==
  ASSUME FenceInv, Agreement, Frozen, UNCHANGED <<log, state, seq>>,
         hydration' = "done" <=> hydration = "done",
         PhaseAgrees', LoadAgrees',
         NewAnswersAreHeld, NewTokensAgree, NewWritesAgree
  PROVE  Agreement'
<1>1. LogGrows
  BY UnchangedGrows
<1>2. RecordAgrees' /\ LogAgrees'
  BY <1>1, RecordStays, LogStays DEF Agreement
<1> QED  BY <1>1, <1>2, AgreementStays

LEMMA InitDecision == Init => DecisionInv
<1> SUFFICES ASSUME Init PROVE DecisionInv
  OBVIOUS
<1>1. Commits(log) = {} /\ Chain(writes) = {} /\ turn.pc = "idle"
  BY EmptySeq DEF Init, Commits, Chain, NoTurn
<1>2. \A a \in AttemptId : ~Begun(a)
  BY DEF Init, Begun, NoToken
<1>3. RecordAgrees /\ PhaseAgrees /\ LoadAgrees /\ LogAgrees /\ AnswerAgrees
  BY <1>1 DEF Init, RecordAgrees, PhaseAgrees, LoadAgrees, LogAgrees, Chained,
              AnswerAgrees
<1>4. Agreement
  BY <1>1, <1>2, <1>3 DEF Agreement, TokenAgrees
<1> QED  BY <1>4, InitFence DEF DecisionInv

\* The turn is over, or the loop caught a failure.
LEMMA EndAgrees ==
  ASSUME TypeOK, PhaseAgrees, NEW result, result # "committed", EndTurn(result),
         hydration' # "running", stale' => hydration' = "done"
  PROVE  PhaseAgrees' /\ LoadAgrees' /\ NewAnswersAreHeld
<1>1. turn'.pc = "idle"
  BY DEF EndTurn, NoTurn
<1>2. NewAnswersAreHeld
  BY DEF EndTurn, TypeOK, NewAnswersAreHeld
<1> QED  BY <1>1, <1>2 DEF PhaseAgrees, LoadAgrees

LEMMA CatchAgrees ==
  ASSUME FenceInv, Agreement, NEW a, NEW code \in Errors, LoopCatches(a, code),
         UNCHANGED <<log, loaded, hydration>>, stale' => hydration = "done"
  PROVE  PhaseAgrees' /\ LoadAgrees' /\ NewAnswersAreHeld
<1>1. TypeOK /\ PhaseAgrees /\ LoadAgrees /\ code # "committed"
  BY DEF FenceInv, StreamInv, Agreement, Errors, StoreErrors
<1>2. CASE UNCHANGED <<turn, outcome>>
  <2>1. LoadAgrees'
    BY <1>1, <1>2, LoadStays, UnchangedGrows
  <2> QED  BY <1>1, <1>2, <2>1 DEF PhaseAgrees, NewAnswersAreHeld
<1>3. CASE Awaiting(a) /\ EndTurn(code)
  BY <1>1, <1>3, EndAgrees DEF Awaiting, PhaseAgrees
<1>4. CASE /\ Awaiting(a) /\ UNCHANGED outcome
           /\ turn' = [turn EXCEPT !.pc = "backoff"]
  <2>1. turn.pc = "attempting" /\ turn'.pc = "backoff"
    BY <1>1, <1>4 DEF Awaiting, TypeOK, Turns
  <2> QED  BY <1>1, <1>4, <2>1 DEF PhaseAgrees, LoadAgrees, NewAnswersAreHeld
<1> QED  BY <1>2, <1>3, <1>4 DEF LoopCatches

-----------------------------------------------------------------------------
(* Each step keeps the agreement.                                          *)

LEMMA BeginKeepsAgreement ==
  ASSUME FenceInv, Agreement, NEW t \in Trigger, Begin(t)
  PROVE  Agreement'
<1>1. /\ UNCHANGED <<log, state, seq, stale, writes, token, loaded>>
      /\ turn.pc = "idle" /\ hydration # "running" /\ (stale => hydration = "done")
  BY DEF Begin, Agreement, PhaseAgrees
<1>2. Frozen /\ NewTokensAgree /\ NewWritesAgree
  BY <1>1, StandingIsFrozen, UnchangedStands DEF NewTokensAgree, NewWritesAgree, Begun
<1>3. /\ hydration \in {"none", "running", "done"} \cup StoreErrors
      /\ outcome \in [Trigger -> Outcomes] /\ "committed" \notin StoreErrors
  BY DEF FenceInv, StreamInv, TypeOK, StoreErrors
<1>4. hydration' = "done" <=> hydration = "done"
  BY DEF Begin
<1>5. NewAnswersAreHeld
  BY <1>3 DEF Begin, NewAnswersAreHeld
<1>6. PhaseAgrees' /\ LoadAgrees'
  <2>1. CASE UNCHANGED <<turn, hydration>>
    BY <1>1, <2>1 DEF PhaseAgrees, LoadAgrees
  <2>2. CASE /\ ~(~stale /\ hydration \in StoreErrors)
             /\ turn'.pc = IF stale THEN "reloading"
                            ELSE IF hydration = "none" THEN "hydrating" ELSE "ready"
             /\ hydration' = IF ~stale /\ hydration = "none" THEN "running"
                                                            ELSE hydration
    BY <1>1, <1>3, <2>2 DEF PhaseAgrees, LoadAgrees
  <2> QED  BY <2>1, <2>2 DEF Begin
<1> QED  BY <1>1, <1>2, <1>4, <1>5, <1>6, QuietStep

\* What a load has read and adopts is in the log.
LEMMA AdoptedIsThere ==
  ASSUME FenceInv, LoadAgrees, turn.pc \in {"hydrated", "reloaded"},
         LatestSeq(loaded) # EMPTY_SEQ, Adopt, UNCHANGED log
  PROVE  HasCommit(seq, state)'
<1>1. loaded \in Seq(Events) /\ \A e \in Events : e.seq \in Nat
  BY EventTypes DEF FenceInv, StreamInv, TypeOK
<1> DEFINE last == loaded[LastCommit(loaded)]
<1>2. LastCommit(loaded) \in Commits(loaded) /\ LatestSeq(loaded) = last.seq
  BY <1>1, LatestSeqIsThere
<1>3. seq' = last.seq /\ state' = last.to
  BY <1>2 DEF Adopt, Replay
<1>4. \E k \in Commits(log) : log[k] = last
  BY <1>2 DEF LoadAgrees, Holding
<1> QED  BY <1>3, <1>4 DEF HasCommit

LEMMA ReconcileKeepsAgreement ==
  ASSUME FenceInv, Agreement, Reconcile
  PROVE  Agreement'
<1> USE DEF Agreement
<1>1. /\ UNCHANGED <<token, log>> /\ LogGrows /\ Frozen /\ NewTokensAgree
      /\ TypeOK
  <2>1. UNCHANGED <<token, log>>
    BY DEF Reconcile, StoreLoad, LoadFails, Hydrate, Reload
  <2> QED  BY <2>1, UnchangedGrows, StandingIsFrozen, UnchangedStands
              DEF NewTokensAgree, Begun, FenceInv, StreamInv
<1>2. LogAgrees'
  BY <1>1, LogStays
<1>3. CASE StoreLoad
  <2>1. /\ UNCHANGED <<state, seq, hydration, stale, writes, outcome>>
        /\ loaded' = log
        /\ turn'.pc = IF turn.pc = "hydrating" THEN "hydrated" ELSE "reloaded"
        /\ turn.pc \in {"hydrating", "reloading"}
    BY <1>1, <1>3 DEF StoreLoad, record, TypeOK, Turns
  <2>2. PhaseAgrees'
    BY <2>1 DEF PhaseAgrees
  <2>3. turn.pc = "reloading" => Commits(log) # {}
    BY DEF PhaseAgrees, RecordAgrees, HasCommit
  <2>4. LoadAgrees'
    BY <1>1, <2>1, <2>3 DEF LoadAgrees, Holding
  <2> QED  BY <1>1, <2>1, <2>2, <2>4, QuietStep DEF NewAnswersAreHeld, NewWritesAgree
<1>4. CASE LoadFails
  <2>1. /\ UNCHANGED <<state, seq, stale, writes>> /\ EndTurn("STORE_UNAVAILABLE")
        /\ hydration' # "running"
        /\ hydration' = "done" <=> hydration = "done"
        /\ stale' => hydration' = "done"
    BY <1>4 DEF LoadFails, PhaseAgrees
  <2>2. PhaseAgrees' /\ LoadAgrees' /\ NewAnswersAreHeld
    BY <1>1, <2>1, EndAgrees
  <2> QED  BY <1>1, <2>1, <2>2, QuietStep DEF NewWritesAgree
<1>5. CASE Hydrate /\ LatestSeq(loaded) = EMPTY_SEQ
  <2> DEFINE first == Write(Transition(0, None, state, InitId), EMPTY_SEQ)
  <2>1. /\ UNCHANGED <<state, seq, hydration, stale, outcome>>
        /\ turn.pc = "hydrated" /\ turn'.pc = "initializing"
        /\ writes' = Append(writes, first)
    BY <1>1, <1>5 DEF Hydrate, TypeOK, Turns
  <2>2. /\ first \in Writes
        /\ first.event.by = InitId /\ first.event.type = "transition"
        /\ first.event.seq = 0 /\ first.event.to = state /\ first.result = "queued"
    <3>1. Transition(0, None, state, InitId) \in Events
      BY <1>1, EventTypes, AuthorTypes DEF TypeOK
    <3> QED  BY <3>1 DEF Write, Writes, Transition, EMPTY_SEQ
  <2> HIDE DEF first
  <2>3. NewWritesAgree
    <3>1. Chain(writes') = Chain(writes) \cup {first}
      BY <1>1, <2>1, <2>2, ChainGrows DEF TypeOK
    <3>2. ASSUME NEW x, x = first PROVE WriteAgrees(x)'
      BY <2>1, <2>2, <3>2, IdsDiffer DEF WriteAgrees
    <3> QED  BY <3>1, <3>2 DEF NewWritesAgree
  <2>4. PhaseAgrees' /\ LoadAgrees'
    BY <2>1 DEF PhaseAgrees, LoadAgrees
  <2> QED  BY <1>1, <2>1, <2>3, <2>4, QuietStep DEF NewAnswersAreHeld
<1>6. ASSUME Adopt, LatestSeq(loaded) # EMPTY_SEQ, hydration' = "done",
             turn.pc \in {"hydrated", "reloaded"}, turn'.pc = "ready",
             UNCHANGED <<writes, outcome>>
      PROVE  Agreement'
  <2>1. RecordAgrees'
    BY <1>1, <1>6, AdoptedIsThere DEF RecordAgrees
  <2>2. PhaseAgrees' /\ LoadAgrees'
    BY <1>6 DEF PhaseAgrees, LoadAgrees
  <2> QED  BY <1>1, <1>2, <1>6, <2>1, <2>2, AgreementStays
              DEF NewAnswersAreHeld, NewWritesAgree
<1>7. CASE Hydrate /\ LatestSeq(loaded) # EMPTY_SEQ
  BY <1>1, <1>6, <1>7 DEF Hydrate, TypeOK, Turns
<1>8. CASE Reload
  <2>1. LatestSeq(loaded) # EMPTY_SEQ
    <3>1. Commits(loaded) # {} /\ loaded \in Seq(Events)
      BY <1>1, <1>8 DEF Reload, LoadAgrees, TypeOK
    <3> QED  BY <3>1, ReplayTypes
  <2>2. hydration = "done"
    BY <1>8 DEF Reload, PhaseAgrees
  <2> QED  BY <1>1, <1>6, <1>8, <2>1, <2>2 DEF Reload, TypeOK, Turns
<1> QED  BY <1>3, <1>4, <1>5, <1>7, <1>8 DEF Reconcile

\* A recorded note asks nothing of the log.
LEMMA NoteAgrees ==
  ASSUME FenceInv, notes < MaxNotes,
         NEW x, x = Write(Note(seq, state, NoteId(notes + 1)), seq)
  PROVE  WriteAgrees(x)'
<1>1. /\ x.event.by \notin AttemptId \cup {InitId} /\ x.event.type = "note"
  BY NoteWrite DEF FenceInv
<1> QED  BY <1>1 DEF WriteAgrees

LEMMA RecordedAgrees ==
  ASSUME FenceInv, Record(Note(seq, state, NoteId(notes + 1)))
  PROVE  NewWritesAgree
<1> DEFINE note == Write(Note(seq, state, NoteId(notes + 1)), seq)
<1>1. writes' = Append(writes, note) /\ notes < MaxNotes
  BY DEF Record
<1>2. note \in Writes
  BY <1>1, NoteWrite DEF FenceInv
<1>3. \A x : x = note => WriteAgrees(x)'
  BY <1>1, NoteAgrees
<1> HIDE DEF note
<1>4. Chain(writes') = Chain(writes) \cup {note}
  BY <1>1, <1>2, ChainGrows DEF FenceInv, StreamInv, TypeOK
<1> QED  BY <1>3, <1>4 DEF NewWritesAgree

LEMMA ProceedKeepsAgreement ==
  ASSUME FenceInv, Agreement, Proceed
  PROVE  Agreement'
<1> USE DEF Agreement
<1>1. TypeOK /\ UNCHANGED <<log, state, seq, hydration, stale, loaded>>
  BY DEF Proceed, Refuse, FirstAttempt, Retry, record, FenceInv, StreamInv
<1>2. CASE Refuse
  <2>1. Frozen /\ NewTokensAgree
    BY <1>2, StandingIsFrozen, UnchangedStands DEF Refuse, NewTokensAgree, Begun
  <2>2. NewWritesAgree
    BY <1>2, RecordedAgrees DEF Refuse
  <2>3. PhaseAgrees' /\ LoadAgrees' /\ NewAnswersAreHeld
    BY <1>1, <1>2, EndAgrees DEF Refuse, PhaseAgrees
  <2> QED  BY <1>1, <2>1, <2>2, <2>3, QuietStep
<1>3. ASSUME NEW n \in 1 .. MaxAttempts, Issue(n), UNCHANGED <<writes, outcome>>,
             \/ turn.pc = "ready" /\ n = 1
             \/ turn.pc = "backoff" /\ n = turn.attempt + 1
      PROVE  Agreement'
  <2> DEFINE new == <<turn.trigger, n>>
  <2>1. turn.trigger \in Trigger /\ ~Begun(new)
    BY <1>1, <1>3, IssueIsNew DEF FenceInv
  <2>2. new \in AttemptId
    BY <2>1 DEF AttemptId
  <2>3. token'[new] = [NoToken EXCEPT !.pc = "handling", !.seq = seq, !.observed = state]
    BY <1>3, <2>2 DEF Issue
  <2>4. token'[new].seq = seq /\ token'[new].observed = state
    BY <2>3 DEF NoToken
  <2>5. hydration = "done" /\ HasCommit(seq, state)
    BY <1>3 DEF PhaseAgrees, RecordAgrees
  <2>6. ASSUME NEW b \in AttemptId, b # new PROVE TokenStands(b)
    <3>1. token'[b] = token[b] \/ token'[b] = Invalidated(token[b], "superseded")
      BY <1>3, <2>6 DEF Issue
    <3>2. CASE token'[b] = token[b]
      BY <3>2 DEF TokenStands, Begun
    <3>3. CASE token'[b] = Invalidated(token[b], "superseded")
      BY <1>1, <3>3, InvalidatedStands DEF FenceReasons
    <3> QED  BY <3>1, <3>2, <3>3
  <2>7. turn'.pc = "attempting"
    BY <1>1, <1>3 DEF Issue, TypeOK, Turns
  <2>8. NewTokensAgree
    <3> SUFFICES ASSUME NEW b \in AttemptId, Begun(b)', ~Begun(b)
                 PROVE  TokenAgrees(b)'
      BY DEF NewTokensAgree
    <3>1. b = new
      BY <2>6 DEF TokenStands
    <3>2. token'[b].seq = seq /\ token'[b].observed = state
      BY <2>4, <3>1
    <3> HIDE DEF new
    <3> QED  BY <1>1, <2>5, <3>2 DEF TokenAgrees, HasCommit
  <2> HIDE DEF new
  <2>9. Frozen
    BY <2>1, <2>6 DEF Frozen, TokenStands
  <2>10. PhaseAgrees' /\ LoadAgrees'
    BY <1>1, <2>5, <2>7 DEF PhaseAgrees, LoadAgrees
  <2> QED  BY <1>1, <1>3, <2>8, <2>9, <2>10, QuietStep
              DEF NewAnswersAreHeld, NewWritesAgree
<1>4. CASE FirstAttempt
  <2>1. 1 \in 1 .. MaxAttempts
    BY MaxAttemptsAssumption
  <2> QED  BY <1>3, <1>4, <2>1 DEF FirstAttempt
<1>5. CASE Retry
  <2>1. turn.attempt + 1 \in 1 .. MaxAttempts
    BY <1>5, MaxAttemptsAssumption DEF FenceInv, StreamInv, TypeOK, Retry, Turns
  <2> QED  BY <1>3, <1>5, <2>1 DEF Retry
<1> QED  BY <1>2, <1>4, <1>5 DEF Proceed

LEMMA FailureKeepsAgreement ==
  ASSUME FenceInv, Agreement, NEW a \in AttemptId, Begun(a), NEW code \in Errors,
         Failure(a, code), UNCHANGED <<log, loaded, state, seq, hydration>>,
         stale' => hydration = "done", NewWritesAgree
  PROVE  Agreement'
<1>1. \A b \in AttemptId : TokenStands(b)
  BY PhaseStands DEF Failure, AttemptFails, Recovering, FenceInv, StreamInv
<1>2. Frozen /\ NewTokensAgree
  BY <1>1, StandingIsFrozen DEF NewTokensAgree, TokenStands
<1>3. PhaseAgrees' /\ LoadAgrees' /\ NewAnswersAreHeld
  <2>1. CASE AttemptFails(a, code)
    BY <2>1, CatchAgrees DEF AttemptFails
  <2>2. CASE Recovering(a)
    <3>1. LoadAgrees'
      BY <2>2, LoadStays, UnchangedGrows DEF Recovering, Agreement
    <3> QED  BY <2>2, <3>1 DEF Recovering, Agreement, PhaseAgrees, NewAnswersAreHeld
  <2> QED  BY <2>1, <2>2 DEF Failure
<1> QED  BY <1>2, <1>3, QuietStep

(***************************************************************************)
(* A commit that passes the fence is decided on the record's latest state: *)
(* its token names the record's sequence, and one commit has it.           *)
(***************************************************************************)
LEMMA SealKeepsAgreement ==
  ASSUME FenceInv, Agreement, NEW a \in AttemptId, Begun(a), Committable(a),
         NEW to \in State, NEW chain \in Seq(Writes), Seal(a, to, chain),
         \A x \in Chain(chain) : x \in Chain(writes) \/ WriteAgrees(x)',
         UNCHANGED <<log, loaded, state, seq, hydration, stale>>
  PROVE  Agreement'
<1> USE DEF Agreement
<1>1. TypeOK /\ UNCHANGED <<turn, outcome>>
  BY DEF FenceInv, StreamInv, Seal
<1>2. /\ token'[a].seq = token[a].seq /\ token'[a].observed = token[a].observed
      /\ Begun(a)'
      /\ \A b \in AttemptId \ {a} : token'[b] = token[b]
  <2>1. token[a] \in Tokens /\ token \in [AttemptId -> Tokens]
    BY <1>1 DEF TypeOK
  <2>2. token'[a] = [token[a] EXCEPT !.sealed = TRUE, !.pc = "writing"]
    BY <2>1 DEF Seal
  <2>3. \A b \in AttemptId \ {a} : token'[b] = token[b]
    BY <2>1 DEF Seal
  <2> QED  BY <2>1, <2>2, <2>3 DEF Tokens, Begun
<1>3. Frozen /\ NewTokensAgree
  BY <1>2 DEF Frozen, NewTokensAgree, Begun
<1>4. token[a].seq = seq /\ token[a].observed = state
  <2>1. HasCommit(seq, state) /\ HasCommit(token[a].seq, token[a].observed)
    BY DEF TokenAgrees, RecordAgrees
  <2>2. token[a].seq = seq
    BY DEF Committable
  <2> QED  BY <2>1, <2>2, OneState DEF FenceInv
<1> DEFINE write == Write(Transition(seq + 1, state, to, a), seq)
<1>5. /\ write \in Writes /\ write.event.by = a /\ write.event.type = "transition"
      /\ write.event.seq = seq + 1 /\ write.event.from = state
      /\ write.result = "queued"
  <2>1. Transition(seq + 1, state, to, a) \in Events
    BY <1>1, EventTypes, AuthorTypes DEF TypeOK
  <2> QED  BY <1>1, <2>1 DEF TypeOK, Write, Writes, Transition
<1>6. writes' = Append(chain, write)
  BY DEF Seal
<1> HIDE DEF write
<1>7. ASSUME NEW x, x = write PROVE WriteAgrees(x)'
  BY <1>2, <1>4, <1>5, <1>7, IdsDiffer DEF WriteAgrees, DecidedBy
<1>8. NewWritesAgree
  BY <1>5, <1>6, <1>7, ChainGrows DEF NewWritesAgree
<1>9. PhaseAgrees' /\ LoadAgrees'
  <2>1. LoadAgrees'
    BY <1>1, LoadStays, UnchangedGrows
  <2> QED  BY <1>1, <2>1 DEF PhaseAgrees
<1> QED  BY <1>1, <1>3, <1>8, <1>9, QuietStep DEF NewAnswersAreHeld

LEMMA HandlerReturnsKeepsAgreement ==
  ASSUME FenceInv, Agreement, NEW a \in AttemptId, HandlerReturns(a)
  PROVE  Agreement'
<1>1. Begun(a) /\ UNCHANGED <<log, loaded, state, seq, hydration, stale>>
  BY DEF HandlerReturns, HandlerFails, Fenced, Commit, CommitWarned, CommitRejected,
         Begun, record
<1>2. stale' => hydration = "done"
  BY <1>1 DEF Agreement, PhaseAgrees
<1>3. {"HANDLER_FAILED", "COMMIT_FENCED", "CONSTRAINT_VIOLATED"} \subseteq Errors
  BY DEF Errors
<1>4. UNCHANGED writes => NewWritesAgree
  BY DEF NewWritesAgree
<1>5. CASE HandlerFails(a)
  BY <1>1, <1>2, <1>3, <1>4, <1>5, FailureKeepsAgreement DEF HandlerFails
<1>6. CASE Fenced(a)
  BY <1>1, <1>2, <1>3, <1>4, <1>6, FailureKeepsAgreement DEF Fenced, Failure
<1>7. ASSUME NEW to \in State, Commit(a, to) PROVE Agreement'
  <2>1. writes \in Seq(Writes)
    BY DEF FenceInv, StreamInv, TypeOK
  <2> QED  BY <1>1, <1>7, <2>1, SealKeepsAgreement DEF Commit
<1>8. ASSUME NEW to \in State, CommitWarned(a, to) PROVE Agreement'
  <2> DEFINE note  == Write(Note(seq, state, NoteId(notes + 1)), seq)
             chain == Append(writes, note)
  <2>1. Seal(a, to, chain) /\ Committable(a) /\ notes < MaxNotes
    BY <1>8 DEF CommitWarned
  <2>2. note \in Writes /\ writes \in Seq(Writes)
    BY <2>1, NoteWrite DEF FenceInv, StreamInv, TypeOK
  <2>3. \A x : x = note => WriteAgrees(x)'
    BY <2>1, NoteAgrees
  <2> HIDE DEF note
  <2>4. chain \in Seq(Writes) /\ Chain(chain) = Chain(writes) \cup {note}
    BY <2>2, ChainGrows
  <2>5. \A x \in Chain(chain) : x \in Chain(writes) \/ WriteAgrees(x)'
    BY <2>3, <2>4
  <2> HIDE DEF chain
  <2> QED  BY <1>1, <2>1, <2>4, <2>5, SealKeepsAgreement
<1>9. CASE CommitRejected(a)
  BY <1>1, <1>2, <1>3, <1>9, RecordedAgrees, FailureKeepsAgreement DEF CommitRejected
<1> QED  BY <1>5, <1>6, <1>7, <1>8, <1>9 DEF HandlerReturns

LEMMA TimeoutKeepsAgreement ==
  ASSUME FenceInv, Agreement, Timeout
  PROVE  Agreement'
<1>1. TypeOK /\ UNCHANGED <<log, loaded, state, seq, hydration, stale, writes>>
  BY DEF Timeout, record, FenceInv, StreamInv
<1>2. ASSUME NEW b \in AttemptId PROVE TokenStands(b)
  <2>1. token'[b] = token[b] \/ token'[b] = Invalidated(token[b], "timeout")
    BY <1>1 DEF Timeout, TypeOK
  <2>2. CASE token'[b] = token[b]
    BY <2>2 DEF TokenStands, Begun
  <2>3. CASE token'[b] = Invalidated(token[b], "timeout")
    BY <1>1, <2>3, InvalidatedStands DEF FenceReasons
  <2> QED  BY <2>1, <2>2, <2>3
<1>3. Frozen /\ NewTokensAgree /\ NewWritesAgree
  BY <1>1, <1>2, StandingIsFrozen DEF NewTokensAgree, NewWritesAgree, TokenStands
<1>4. PhaseAgrees' /\ LoadAgrees' /\ NewAnswersAreHeld
  <2>1. LoopCatches(Current, "HANDLER_TIMEOUT") /\ "HANDLER_TIMEOUT" \in Errors
    BY DEF Timeout, Errors
  <2> QED  BY <1>1, <2>1, CatchAgrees DEF Agreement, PhaseAgrees
<1> QED  BY <1>1, <1>3, <1>4, QuietStep

\* An event on top of the log: a write whose condition held, or a foreign one.
LEMMA AppendedAgrees ==
  ASSUME FenceInv, Agreement, UNCHANGED token,
         NEW e \in Events, log' = Append(log, e),
         e.type = "transition" =>
           /\ e.seq = LatestSeq(log) + 1
           /\ \A k \in Commits(log) : log[k].seq = LatestSeq(log) => e.from = log[k].to
           /\ e.by \in AttemptId => DecidedBy(e, token[e.by])
  PROVE  LogAgrees'
<1>1. /\ log \in Seq(Events) /\ Contiguous(log) /\ Chained(log)
      /\ \A x \in Events : x.seq \in Nat
  BY EventTypes DEF FenceInv, StreamInv, TypeOK, Agreement, LogAgrees
<1>2. Chained(log')
  BY <1>1, ChainedAppend
<1>3. /\ LogGrows
      /\ \A k \in Commits(log') : k \notin Commits(log) =>
           log'[k] = e /\ e.type = "transition"
  BY AppendedGrows DEF FenceInv
<1>4. ASSUME NEW k \in Commits(log'), log'[k].by \in AttemptId
      PROVE  DecidedBy(log'[k], token[log'[k].by])
  <2>1. CASE k \in Commits(log)
    BY <1>3, <1>4, <2>1 DEF LogGrows, Agreement, LogAgrees
  <2>2. CASE k \notin Commits(log)
    BY <1>3, <1>4, <2>2
  <2> QED  BY <2>1, <2>2
<1> QED  BY <1>2, <1>4 DEF LogAgrees, DecidedBy

LEMMA StoreKeepsAgreement ==
  ASSUME FenceInv, Agreement, StoreAnswers
  PROVE  Agreement'
<1> USE DEF Agreement
<1>1. /\ AppendInFlight
      /\ UNCHANGED <<token, turn, outcome, loaded, state, seq, hydration, stale>>
  BY DEF StoreAnswers, StoreAppend, AppendFails, record
<1>2. PICK r \in {"ok", "conflict", "failed"} :
        /\ Answer(r)
        /\ \/ log' = log /\ r # "ok"
           \/ log' = Append(log, Head(writes).event) /\ ConditionHolds
  BY DEF StoreAnswers, StoreAppend, AppendFails
<1> DEFINE head == Head(writes)
           answered == [head EXCEPT !.result = r]
<1>3. head \in Writes /\ head \in Chain(writes) /\ WriteAgrees(head) /\ Follows(head)
  BY <1>1, ChainShrinks DEF FenceInv, StreamInv, TypeOK, AppendInFlight
<1>4. /\ answered.event = head.event /\ answered.result = r
      /\ Chain(writes') \subseteq Chain(writes) \cup {answered}
  BY <1>1, <1>2, <1>3, ChainAnswered DEF Writes, FenceInv, StreamInv, TypeOK
<1> HIDE DEF answered
<1>5. /\ LogGrows /\ LogAgrees'
      /\ \A e : r = "ok" /\ e = head.event /\ e.type = "transition" => Holding(e)'
  <2>1. CASE log' = log /\ r # "ok"
    BY <1>1, <2>1, UnchangedGrows, LogStays, UnchangedStands, StandingIsFrozen
  <2>2. CASE log' = Append(log, head.event) /\ ConditionHolds
    <3>1. LatestSeq(log) = head.expected /\ log \in Seq(Events) /\ head.event \in Events
      BY <1>3, <2>2 DEF ConditionHolds, FenceInv, StreamInv, TypeOK, Writes
    <3>2. /\ LogGrows
          /\ \A e : e = head.event /\ e.type = "transition" => Holding(e)'
      BY <2>2, <3>1, AppendedGrows DEF FenceInv
    <3>3. ASSUME head.event.type = "transition"
          PROVE  /\ head.event.seq = LatestSeq(log) + 1
                 /\ \A k \in Commits(log) :
                      log[k].seq = LatestSeq(log) => head.event.from = log[k].to
                 /\ head.event.by \in AttemptId =>
                      DecidedBy(head.event, token[head.event.by])
      <4>1. head.event.seq = LatestSeq(log) + 1 /\ LatestSeq(log) \in Nat \cup {EMPTY_SEQ}
        BY <1>3, <3>1, <3>3, ReplayTypes DEF Follows
      <4>2. CASE head.event.by \in AttemptId
        <5>1. Begun(head.event.by)
          BY <1>3, <4>2 DEF FenceInv, SealInv, Written
        <5>2. /\ DecidedBy(head.event, token[head.event.by])
              /\ HasCommit(token[head.event.by].seq, token[head.event.by].observed)
          BY <1>3, <4>2, <5>1 DEF WriteAgrees, TokenAgrees
        <5>3. token[head.event.by].seq = LatestSeq(log)
          <6>1. token[head.event.by].seq \in Nat
            BY <4>2 DEF FenceInv, StreamInv, TypeOK, Tokens
          <6> QED  BY <4>1, <5>2, <6>1 DEF DecidedBy, EMPTY_SEQ
        <5>4. ASSUME NEW k \in Commits(log), log[k].seq = LatestSeq(log)
              PROVE  head.event.from = log[k].to
          <6>1. HasCommit(token[head.event.by].seq, log[k].to)
            BY <5>3, <5>4 DEF HasCommit
          <6> QED  BY <5>2, <6>1, OneState DEF DecidedBy, FenceInv
        <5> QED  BY <4>1, <5>2, <5>4
      <4>3. CASE head.event.by \notin AttemptId
        <5>1. head.event.seq = 0
          BY <1>3, <3>3, <4>3 DEF WriteAgrees
        <5>2. Commits(log) = {}
          BY <3>1, <4>1, <5>1, ReplayTypes DEF EMPTY_SEQ
        <5> QED  BY <4>1, <4>3, <5>2
      <4> QED  BY <4>2, <4>3
    <3>4. LogAgrees'
      BY <1>1, <2>2, <3>1, <3>3, AppendedAgrees
    <3> QED  BY <3>2, <3>4
  <2> QED  BY <1>2, <2>1, <2>2
<1>6. Frozen /\ NewTokensAgree
  BY <1>1, UnchangedStands, StandingIsFrozen DEF NewTokensAgree, Begun
<1>7. NewWritesAgree
  <2> SUFFICES ASSUME NEW x, x = answered PROVE WriteAgrees(x)'
    BY <1>4 DEF NewWritesAgree
  <2>1. x.event = head.event /\ x.result = r
    BY <1>4
  <2> QED  BY <1>1, <1>3, <1>5, <2>1 DEF WriteAgrees, DecidedBy
<1>8. RecordAgrees' /\ PhaseAgrees' /\ LoadAgrees'
  BY <1>1, <1>5, RecordStays, LoadStays DEF PhaseAgrees
<1> QED  BY <1>1, <1>5, <1>6, <1>7, <1>8, AgreementStays DEF NewAnswersAreHeld

LEMMA ForeignKeepsAgreement ==
  ASSUME FenceInv, Agreement, NEW to \in State, ForeignCommit(to)
  PROVE  Agreement'
<1> USE DEF Agreement
<1>1. /\ TypeOK /\ foreign + 1 \in Nat
      /\ UNCHANGED <<token, turn, outcome, loaded, writes, state, seq, hydration, stale>>
  BY BoundsAssumption DEF ForeignCommit, record, FenceInv, StreamInv, TypeOK
<1> DEFINE from == IF log = <<>> THEN None ELSE Replay(log).state
           e    == Transition(LatestSeq(log) + 1, from, to, ForeignId(foreign + 1))
<1>2. log' = Append(log, e)
  BY DEF ForeignCommit
<1>3. log \in Seq(Events) /\ Contiguous(log) /\ \A x \in Events : x.seq \in Nat
  BY EventTypes DEF FenceInv, StreamInv, TypeOK
<1>4. log # <<>> => Commits(log) # {}
  BY <1>3, SeqNamesACommit
<1>5. from \in State \cup {None} /\ LatestSeq(log) + 1 \in Nat
  BY <1>3, <1>4, ReplayTypes DEF EMPTY_SEQ
<1>6. ASSUME NEW k \in Commits(log), log[k].seq = LatestSeq(log)
      PROVE  from = log[k].to
  <2>1. log # <<>>
    BY <1>6 DEF Commits
  <2>2. LastCommit(log) \in Commits(log) /\ LatestSeq(log) = log[LastCommit(log)].seq
    BY <1>3, <1>6, LatestSeqIsThere
  <2>3. k = LastCommit(log)
    BY <1>3, <1>6, <2>2, SeqNamesACommit
  <2> QED  BY <2>1, <2>3 DEF Replay
<1> HIDE DEF from
<1>7. /\ e \in Events /\ e.seq = LatestSeq(log) + 1 /\ e.from = from
      /\ e.by \notin AttemptId
  <2>1. ForeignId(foreign + 1) \in Authors /\ ForeignId(foreign + 1) \notin AttemptId
    BY <1>1, AuthorTypes, IdsDiffer
  <2>2. e \in Events
    BY <1>5, <2>1, EventTypes
  <2> QED  BY <2>1, <2>2 DEF Transition
<1> HIDE DEF e
<1>8. LogAgrees'
  BY <1>1, <1>2, <1>6, <1>7, AppendedAgrees
<1>9. LogGrows
  BY <1>2, <1>7, AppendedGrows DEF FenceInv
<1>10. Frozen /\ NewTokensAgree
  BY <1>1, UnchangedStands, StandingIsFrozen DEF NewTokensAgree, Begun
<1>11. RecordAgrees' /\ PhaseAgrees' /\ LoadAgrees'
  BY <1>1, <1>9, RecordStays, LoadStays DEF PhaseAgrees
<1> QED  BY <1>1, <1>8, <1>9, <1>10, <1>11, AgreementStays
            DEF NewAnswersAreHeld, NewWritesAgree

\* The head of the write chain is answered and taken off it.
LEMMA SettleKeepsAgreement ==
  ASSUME FenceInv, Agreement, WriteSettles
  PROVE  Agreement'
<1> USE DEF Agreement
<1>1. TypeOK /\ AppendAnswered /\ writes' = Tail(writes) /\ UNCHANGED <<log, loaded>>
  BY DEF WriteSettles, CommitLands, CommitConflicts, CommitUnstored, InitLands,
         InitFails, NoteSettles, Answered, FenceInv, StreamInv
<1>2. /\ Head(writes) \in Chain(writes) /\ NewWritesAgree
      /\ WriteAgrees(Head(writes)) /\ AnsweredEvent = Head(writes).event
  BY <1>1, ChainShrinks DEF TypeOK, AppendAnswered, NewWritesAgree, AnsweredEvent
<1>3. IsCommit => /\ Begun(AnsweredEvent.by) /\ hydration = "done"
                  /\ turn.pc # "initializing"
  BY <1>1, SettledWrite
     DEF FenceInv, SealInv, IsCommit, TokenAgrees, PhaseAgrees
<1>4. AnsweredEvent.by = InitId => hydration = "running" /\ turn.pc = "initializing"
  BY <1>1, InitWritesShrink
     DEF FenceInv, ChainInv, AnsweredEvent, AppendAnswered, TypeOK, PhaseAgrees
<1>5. LogGrows
  BY <1>1, UnchangedGrows
<1>6. UNCHANGED token => Frozen /\ NewTokensAgree
  BY UnchangedStands, StandingIsFrozen DEF NewTokensAgree, Begun
<1>7. CASE CommitLands
  <2>1. /\ IsCommit /\ Head(writes).result = "ok" /\ UNCHANGED <<hydration, stale>>
        /\ seq' = AnsweredEvent.seq /\ state' = AnsweredEvent.to
        /\ token' = [token EXCEPT ![AnsweredEvent.by].pc = "over"]
        /\ Resolve(AnsweredEvent.by)
    BY <1>7 DEF CommitLands, Answered
  <2>2. \A b \in AttemptId : TokenStands(b)
    BY <1>1, <1>3, <2>1, PhaseStands DEF IsCommit
  <2>3. Frozen /\ NewTokensAgree
    BY <2>2, StandingIsFrozen DEF NewTokensAgree, TokenStands
  <2>4. PICK k \in Commits(log) : log[k] = AnsweredEvent
    BY <1>2, <2>1 DEF WriteAgrees, Holding, IsCommit
  <2>5. RecordAgrees'
    BY <1>1, <1>3, <2>1, <2>4 DEF RecordAgrees, HasCommit
  <2>6. PhaseAgrees' /\ LoadAgrees' /\ NewAnswersAreHeld
    <3>1. CASE UNCHANGED <<turn, outcome>>
      <4>1. LoadAgrees'
        BY <1>1, <1>5, <3>1, LoadStays
      <4> QED  BY <2>1, <3>1, <4>1 DEF PhaseAgrees, NewAnswersAreHeld
    <3>2. CASE Awaiting(AnsweredEvent.by) /\ EndTurn("committed")
      <4>1. turn'.pc = "idle"
        BY <3>2 DEF EndTurn, NoTurn
      <4>2. AnsweredEvent.by[1] = turn.trigger
        BY <3>2 DEF Awaiting
      <4>3. Committed(turn.trigger)
        BY <2>1, <2>4, <4>2 DEF Committed, IsCommit
      <4>4. ASSUME NEW t \in Trigger, outcome'[t] = "committed",
                   outcome[t] # "committed"
            PROVE  Committed(t)'
        <5>1. t = turn.trigger
          BY <1>1, <3>2, <4>4 DEF EndTurn, TypeOK
        <5> QED  BY <1>1, <4>3, <5>1 DEF Committed
      <4> QED  BY <1>3, <2>1, <4>1, <4>4 DEF PhaseAgrees, LoadAgrees, NewAnswersAreHeld
    <3> QED  BY <2>1, <3>1, <3>2 DEF Resolve
  <2>7. LogAgrees'
    BY <1>1, <2>3, LogStays
  <2> QED  BY <1>2, <1>3, <1>5, <2>1, <2>3, <2>5, <2>6, <2>7, AgreementStays
<1>8. ASSUME NEW code \in Errors, AttemptFails(AnsweredEvent.by, code), IsCommit,
             UNCHANGED <<state, seq, hydration>>
      PROVE  Agreement'
  <2>1. AnsweredEvent.by \in AttemptId /\ Failure(AnsweredEvent.by, code)
    BY <1>8 DEF IsCommit, Failure
  <2> QED  BY <1>1, <1>2, <1>3, <1>8, <2>1, FailureKeepsAgreement
<1>9. {"STORE_CONFLICT", "STORE_UNAVAILABLE"} \subseteq Errors
  BY DEF Errors, StoreErrors
<1>10. CASE CommitConflicts
  BY <1>8, <1>9, <1>10 DEF CommitConflicts
<1>11. CASE CommitUnstored
  BY <1>8, <1>9, <1>11 DEF CommitUnstored, record
<1>12. CASE InitLands
  <2>1. /\ AnsweredEvent.by = InitId /\ Head(writes).result = "ok"
        /\ hydration' = "done" /\ turn'.pc = "ready"
        /\ UNCHANGED <<state, seq, stale, token, outcome>>
    BY <1>1, <1>12 DEF InitLands, Answered, TypeOK, Turns
  <2>2. /\ Holding(AnsweredEvent) /\ AnsweredEvent.seq = 0 /\ AnsweredEvent.to = state
    BY <1>2, <2>1 DEF WriteAgrees
  <2>3. seq = 0
    BY <1>4, <2>1 DEF RecordAgrees
  <2>4. RecordAgrees'
    BY <1>1, <2>1, <2>2, <2>3, HeldIsCommit DEF RecordAgrees, HasCommit
  <2>5. PhaseAgrees' /\ LoadAgrees'
    BY <2>1 DEF PhaseAgrees, LoadAgrees
  <2>6. LogAgrees'
    BY <1>1, <1>6, <2>1, LogStays
  <2> QED  BY <1>2, <1>5, <1>6, <2>1, <2>4, <2>5, <2>6, AgreementStays
              DEF NewAnswersAreHeld
<1>13. CASE InitFails
  <2>1. /\ AnsweredEvent.by = InitId /\ EndTurn(AnsweredError)
        /\ hydration' = AnsweredError /\ UNCHANGED <<state, seq, stale, token>>
    BY <1>13 DEF InitFails
  <2>2. AnsweredError \notin {"committed", "running", "done"}
    BY DEF AnsweredError
  <2>3. ~stale
    BY <1>4, <2>1 DEF PhaseAgrees
  <2>4. PhaseAgrees' /\ LoadAgrees' /\ NewAnswersAreHeld
    BY <1>1, <2>1, <2>2, <2>3, EndAgrees
  <2> QED  BY <1>1, <1>2, <1>4, <1>6, <2>1, <2>2, <2>4, QuietStep
<1>14. CASE NoteSettles
  <2>1. UNCHANGED <<token, turn, outcome, state, seq, hydration, stale>>
    BY <1>14 DEF NoteSettles, record
  <2>2. LoadAgrees'
    BY <1>1, <1>5, <2>1, LoadStays
  <2> QED  BY <1>1, <1>2, <1>6, <2>1, <2>2, QuietStep DEF PhaseAgrees, NewAnswersAreHeld
<1> QED  BY <1>7, <1>10, <1>11, <1>12, <1>13, <1>14 DEF WriteSettles

LEMMA StepKeepsDecision == DecisionInv /\ [Next]_vars => DecisionInv'
<1> SUFFICES ASSUME DecisionInv, [Next]_vars, NeverDeleted' PROVE Agreement'
  BY StepKeepsFence DEF DecisionInv
<1>1. setting' = setting
  BY DEF Next, Begin, Reconcile, StoreLoad, LoadFails, Hydrate, Reload, Proceed, Refuse,
         FirstAttempt, Retry, HandlerReturns, HandlerFails, Fenced, Commit,
         CommitWarned, CommitRejected, Timeout, StoreAnswers, StoreAppend,
         AppendFails, WriteSettles, CommitLands, CommitConflicts, CommitUnstored,
         InitLands, InitFails, NoteSettles, RecordBeside, ForeignCommit,
         ForeignForget, Rest, vars, bounds
<1>2. FenceInv /\ Agreement /\ NeverDeleted
  BY <1>1 DEF NeverDeleted, DecisionInv
<1>3. ASSUME UNCHANGED <<log, loaded, state, seq, hydration, stale, token, turn, outcome>>,
             NewWritesAgree
      PROVE  Agreement'
  <2>1. Frozen /\ NewTokensAgree
    BY <1>3, UnchangedStands, StandingIsFrozen DEF NewTokensAgree, Begun
  <2>2. PhaseAgrees' /\ LoadAgrees' /\ NewAnswersAreHeld
    BY <1>2, <1>3, LoadStays, UnchangedGrows
       DEF Agreement, PhaseAgrees, NewAnswersAreHeld
  <2> QED  BY <1>2, <1>3, <2>1, <2>2, QuietStep
<1>4. ASSUME RecordBeside PROVE Agreement'
  BY <1>2, <1>3, <1>4, RecordedAgrees DEF RecordBeside
<1>5. ASSUME UNCHANGED vars PROVE Agreement'
  <2>1. UNCHANGED writes /\ UNCHANGED <<log, loaded, state, seq, hydration, stale, token,
                                        turn, outcome>>
    BY <1>5 DEF vars, record
  <2> QED  BY <1>3, <2>1 DEF NewWritesAgree
<1>6. ~ForeignForget
  BY <1>2 DEF ForeignForget, NeverDeleted
<1> QED  BY <1>2, <1>4, <1>5, <1>6, BeginKeepsAgreement, ReconcileKeepsAgreement,
            ProceedKeepsAgreement, HandlerReturnsKeepsAgreement, TimeoutKeepsAgreement,
            StoreKeepsAgreement, SettleKeepsAgreement, ForeignKeepsAgreement
         DEF Next, Rest

-----------------------------------------------------------------------------
(***************************************************************************)
(* No lost update: commits are numbered without a gap or a repetition, and *)
(* unless the key is deleted each leaves the state the one before it       *)
(* entered, which is what its handler was given (src/dispatch.ts commits   *)
(* through src/fence.ts and a conditional append).                         *)
(***************************************************************************)
THEOREM DecisionsAreOnLatest == Spec => []DecidedOnLatest
<1>1. DecisionInv => DecidedOnLatest
  BY DEF DecisionInv, FenceInv, StreamInv, Agreement, LogAgrees, DecidedBy,
         DecidedOnLatest
<1> QED  BY <1>1, InitDecision, StepKeepsDecision, PTL DEF Spec

(***************************************************************************)
(* A record that answers for its key holds a commit of the durable stream, *)
(* whatever abandoned attempts and late answers do to it                   *)
(* (src/instance.ts applies a commit only once its append was answered).   *)
(***************************************************************************)
THEOREM RecordIsAlwaysDurable == Spec => []RecordIsDurable
<1>1. DecisionInv => RecordIsDurable
  BY DEF DecisionInv, Agreement, RecordAgrees, HasCommit, RecordIsDurable
<1> QED  BY <1>1, InitDecision, StepKeepsDecision, PTL DEF Spec

-----------------------------------------------------------------------------
(* The commits of a log as a list.                                         *)

Entry(e) == [to |-> e.to, by |-> e.by]

Entries == [to: State, by: Authors]

\* Sequences of commits have no gap, so each up to the latest is taken: by
\* the first event that is not below it.
LEMMA EverySeqIsTaken ==
  ASSUME NEW s \in Seq(Events), Contiguous(s), NEW n \in 0 .. LatestSeq(s)
  PROVE  \E k \in Commits(s) : s[k].seq = n
<1>1. /\ Len(s) \in Nat /\ \A k \in 1 .. Len(s) : s[k] \in Events /\ s[k].seq \in Nat
      /\ \A e \in Events : e.seq \in Nat
  BY LenProperties, ElementOfSeq, EventTypes
<1>2. /\ Commits(s) # {} /\ LastCommit(s) \in Commits(s)
      /\ s[LastCommit(s)].seq = LatestSeq(s) /\ LatestSeq(s) \in Int
  BY <1>1, LatestSeqIsThere DEF EMPTY_SEQ
<1> DEFINE Above == {k \in 1 .. Len(s) : s[k].seq >= n}
<1>3. LastCommit(s) \in Above
  BY <1>2 DEF Commits
<1>4. PICK k \in Above : \A j \in Above : k <= j
  <2>1. Above \subseteq Nat /\ Above # {}
    BY <1>1, <1>3
  <2> HIDE DEF Above
  <2> QED  BY <2>1, LeastOfNaturals
<1>5. CASE k = 1
  <2>1. s[k].type = "transition" /\ s[k].seq = 0
    BY <1>1, <1>4, <1>5 DEF Contiguous, EMPTY_SEQ
  <2> QED  BY <1>4, <2>1 DEF Commits
<1>6. CASE k # 1
  <2>1. k - 1 \in 1 .. Len(s) /\ k - 1 \notin Above
    BY <1>1, <1>4, <1>6
  <2>2. s[k].seq = IF s[k].type = "transition" THEN s[k - 1].seq + 1
                                               ELSE s[k - 1].seq
    BY <1>1, <1>4, <1>6 DEF Contiguous
  <2>3. s[k].type = "transition" /\ s[k].seq = n
    BY <1>1, <1>4, <2>1, <2>2
  <2> QED  BY <1>4, <2>3 DEF Commits
<1> QED  BY <1>5, <1>6

LEMMA CommitsListed ==
  ASSUME NEW s \in Seq(Events), Contiguous(s)
  PROVE  /\ CommitsOf(s) \in Seq(Entries)
         /\ Len(CommitsOf(s)) = LatestSeq(s) + 1
         /\ \A k \in Commits(s) : /\ s[k].seq + 1 \in 1 .. LatestSeq(s) + 1
                                  /\ CommitsOf(s)[s[k].seq + 1] = Entry(s[k])
<1>1. /\ Len(s) \in Nat /\ \A k \in 1 .. Len(s) : s[k] \in Events /\ s[k].seq \in Nat
      /\ \A e \in Events : e.seq \in Nat
  BY LenProperties, ElementOfSeq, EventTypes
<1>2. LatestSeq(s) \in Int /\ LatestSeq(s) + 1 \in Nat
  BY ReplayTypes DEF EMPTY_SEQ
<1>3. /\ \A i, j \in Commits(s) : s[i].seq = s[j].seq => i = j
      /\ \A k \in Commits(s) : s[k].seq <= LatestSeq(s)
  BY <1>1, SeqNamesACommit DEF Commits
<1>4. ASSUME NEW n \in 1 .. LatestSeq(s) + 1
      PROVE  /\ CommitAt(s, n - 1) \in Commits(s)
             /\ s[CommitAt(s, n - 1)].seq = n - 1
  <2>1. n - 1 \in 0 .. LatestSeq(s)
    BY <1>2
  <2>2. \E k \in Commits(s) : s[k].seq = n - 1
    BY <2>1, EverySeqIsTaken
  <2> QED  BY <2>2 DEF CommitAt
<1>5. ASSUME NEW n \in 1 .. LatestSeq(s) + 1
      PROVE  Entry(s[CommitAt(s, n - 1)]) \in Entries
  <2>1. s[CommitAt(s, n - 1)] \in Events
    BY <1>1, <1>4 DEF Commits
  <2> QED  BY <2>1 DEF Entry, Entries, Events
<1>6. CommitsOf(s) = [n \in 1 .. LatestSeq(s) + 1 |-> Entry(s[CommitAt(s, n - 1)])]
  BY DEF CommitsOf, Entry
<1>7. CommitsOf(s) \in [1 .. LatestSeq(s) + 1 -> Entries]
  BY <1>5, <1>6
<1>8. CommitsOf(s) \in Seq(Entries) /\ Len(CommitsOf(s)) = LatestSeq(s) + 1
  BY <1>2, <1>7
<1>9. ASSUME NEW k \in Commits(s)
      PROVE  /\ s[k].seq + 1 \in 1 .. LatestSeq(s) + 1
             /\ CommitsOf(s)[s[k].seq + 1] = Entry(s[k])
  <2>1. s[k].seq \in Nat /\ s[k].seq + 1 \in 1 .. LatestSeq(s) + 1
    BY <1>1, <1>2, <1>3 DEF Commits
  <2>2. CommitAt(s, s[k].seq) = k
    <3>1. (s[k].seq + 1) - 1 = s[k].seq
      BY <2>1
    <3> QED  BY <1>3, <1>4, <2>1, <3>1
  <2>3. CommitsOf(s)[s[k].seq + 1] = Entry(s[CommitAt(s, (s[k].seq + 1) - 1)])
    BY <1>6, <2>1
  <2>4. (s[k].seq + 1) - 1 = s[k].seq
    BY <2>1
  <2> QED  BY <2>1, <2>2, <2>3, <2>4
<1> QED  BY <1>8, <1>9

\* A note is not in the list.
LEMMA NoteUnlisted ==
  ASSUME NEW s \in Seq(Events), NEW e \in Events, e.type # "transition",
         Contiguous(s), Contiguous(Append(s, e))
  PROVE  CommitsOf(Append(s, e)) = CommitsOf(s)
<1> DEFINE grown == Append(s, e)
<1>1. /\ grown \in Seq(Events) /\ Commits(grown) = Commits(s)
      /\ \A k \in Commits(s) : grown[k] = s[k]
  BY CommitsOfAppend, AppendProperties DEF Commits
<1> HIDE DEF grown
<1>2. LatestSeq(grown) = LatestSeq(s)
  <2>1. LastCommit(grown) = LastCommit(s)
    BY <1>1 DEF LastCommit
  <2>2. Commits(s) # {} => LastCommit(s) \in Commits(s)
    BY LastCommitIsLast
  <2> QED  BY <1>1, <2>1, <2>2 DEF LatestSeq
<1>3. ASSUME NEW n \in 1 .. LatestSeq(s) + 1
      PROVE  CommitsOf(grown)[n] = CommitsOf(s)[n]
  <2>1. n - 1 \in 0 .. LatestSeq(s) /\ n \in Int
    <3>1. LatestSeq(s) \in Int
      BY ReplayTypes DEF EMPTY_SEQ
    <3> QED  BY <3>1
  <2>2. PICK k \in Commits(s) : s[k].seq = n - 1
    BY <2>1, EverySeqIsTaken
  <2>3. s[k].seq + 1 = n /\ grown[k] = s[k]
    BY <1>1, <2>2
  <2> QED  BY <1>1, <2>2, <2>3, CommitsListed DEF grown
<1>4. /\ CommitsOf(s) \in Seq(Entries) /\ CommitsOf(grown) \in Seq(Entries)
      /\ Len(CommitsOf(s)) = LatestSeq(s) + 1
      /\ Len(CommitsOf(grown)) = LatestSeq(s) + 1
  BY <1>1, <1>2, CommitsListed DEF grown
<1>5. CommitsOf(grown) = CommitsOf(s)
  BY <1>3, <1>4, SeqEqual
<1> QED  BY <1>5 DEF grown

\* A commit is the next entry of the list.
LEMMA CommitListed ==
  ASSUME NEW s \in Seq(Events), NEW e \in Events, e.type = "transition",
         Contiguous(s), e.seq = LatestSeq(s) + 1
  PROVE  CommitsOf(Append(s, e)) = Append(CommitsOf(s), Entry(e))
<1> DEFINE grown == Append(s, e)
           list  == Append(CommitsOf(s), Entry(e))
<1>1. /\ Len(s) \in Nat /\ \A k \in 1 .. Len(s) : s[k].seq \in Nat
      /\ \A x \in Events : x.seq \in Nat
  BY LenProperties, ElementOfSeq, EventTypes
<1>2. /\ grown \in Seq(Events) /\ Commits(grown) = Commits(s) \cup {Len(s) + 1}
      /\ \A k \in Commits(s) : grown[k] = s[k]
      /\ grown[Len(s) + 1] = e
  BY CommitsOfAppend, AppendProperties DEF Commits
<1>3. Contiguous(grown)
  BY <1>1, ContiguousAppend
<1>4. LatestSeq(s) \in Int /\ LatestSeq(s) + 1 \in Nat
  BY ReplayTypes DEF EMPTY_SEQ
<1>5. LatestSeq(grown) = e.seq
  <2>1. LastCommit(grown) \in Commits(grown) /\ Len(s) + 1 <= LastCommit(grown)
    BY <1>2, LastCommitIsLast
  <2>2. LastCommit(grown) = Len(s) + 1
    BY <1>1, <1>2, <2>1 DEF Commits
  <2> QED  BY <1>2, <2>2 DEF LatestSeq
<1>6. Entry(e) \in Entries
  BY DEF Entry, Entries, Events
<1>7. /\ list \in Seq(Entries) /\ Len(list) = LatestSeq(s) + 2
      /\ \A n \in 1 .. LatestSeq(s) + 1 : list[n] = CommitsOf(s)[n]
      /\ list[LatestSeq(s) + 2] = Entry(e)
  BY <1>4, <1>6, CommitsListed, AppendProperties
<1> HIDE DEF grown, list
<1>8. CommitsOf(grown) \in Seq(Entries) /\ Len(CommitsOf(grown)) = LatestSeq(s) + 2
  BY <1>2, <1>3, <1>4, <1>5, CommitsListed
<1>9. \A k \in Commits(grown) : CommitsOf(grown)[grown[k].seq + 1] = Entry(grown[k])
  BY <1>2, <1>3, CommitsListed
<1>10. ASSUME NEW n \in 1 .. LatestSeq(s) + 2
      PROVE  CommitsOf(grown)[n] = list[n]
  <2>1. CASE n = LatestSeq(s) + 2
    <3>1. Len(s) + 1 \in Commits(grown) /\ grown[Len(s) + 1] = e /\ e.seq + 1 = n
      BY <1>2, <1>4, <2>1
    <3>2. CommitsOf(grown)[n] = Entry(e)
      BY <1>9, <3>1
    <3> QED  BY <1>7, <2>1, <3>2
  <2>2. CASE n \in 1 .. LatestSeq(s) + 1
    <3>0. n - 1 \in 0 .. LatestSeq(s)
      BY <1>4, <2>2
    <3>1. PICK k \in Commits(s) : s[k].seq = n - 1
      BY <3>0, EverySeqIsTaken
    <3>2. s[k].seq + 1 = n /\ grown[k] = s[k] /\ k \in Commits(grown)
      BY <1>2, <3>1
    <3>3. CommitsOf(grown)[n] = Entry(s[k])
      BY <1>9, <3>2
    <3>4. CommitsOf(s)[n] = Entry(s[k])
      BY <3>1, <3>2, CommitsListed
    <3> QED  BY <1>7, <2>2, <3>3, <3>4
  <2> QED  BY <1>4, <2>1, <2>2
<1> QED  BY <1>7, <1>8, <1>10, SeqEqual DEF grown, list

-----------------------------------------------------------------------------
(* What a step does to the list, to what attempts have seen and to what    *)
(* senders were told.                                                      *)

Told == [t \in Trigger |-> IF outcome[t] \in Errors THEN "failed" ELSE outcome[t]]

Seen == [a \in AttemptId |-> IF token[a].pc = "none" THEN 0 ELSE token[a].seq + 1]

\* No attempt begins, and those that have keep their tokens' sequences.
SeenStays == NoneBegins /\ Frozen

LEMMA SeenUnchanged == SeenStays => Seen' = Seen
<1> SUFFICES ASSUME SeenStays PROVE Seen' = Seen
  OBVIOUS
<1>1. ASSUME NEW a \in AttemptId
      PROVE  (IF token'[a].pc = "none" THEN 0 ELSE token'[a].seq + 1)
               = IF token[a].pc = "none" THEN 0 ELSE token[a].seq + 1
  BY DEF SeenStays, NoneBegins, Frozen, Begun
<1> QED  BY <1>1 DEF Seen

AbstractStep == [Abstract!Next]_(Abstract!vars)

LEMMA Stutters ==
  ASSUME SeenStays, UNCHANGED outcome, CommitsOf(log)' = CommitsOf(log)
  PROVE  AbstractStep
<1>1. Seen' = Seen /\ Told' = Told
  BY SeenUnchanged DEF Told
<1> QED  BY <1>1 DEF AbstractStep, Abstract!vars, Seen, Told

LEMMA SenderIsTold ==
  ASSUME TypeOK, SeenStays, UNCHANGED log, NEW t \in Trigger, NEW result,
         outcome' = [outcome EXCEPT ![t] = result],
         \/ result \in Errors /\ outcome[t] \in {"unsent", "pending"}
         \/ result = "pending" /\ outcome[t] = "unsent"
         \/ /\ result = "committed" /\ outcome[t] = "pending"
            /\ Contiguous(log) /\ Committed(t)
  PROVE  AbstractStep
<1>1. Seen' = Seen /\ CommitsOf(log)' = CommitsOf(log)
  BY SeenUnchanged
<1>2. {"unsent", "pending", "committed"} \cap Errors = {}
  BY DEF Errors, StoreErrors
<1>3. /\ Told' = [Told EXCEPT ![t] = IF result \in Errors THEN "failed" ELSE result]
      /\ Told[t] = IF outcome[t] \in Errors THEN "failed" ELSE outcome[t]
  BY DEF Told, TypeOK
<1>4. CASE result \in Errors /\ outcome[t] \in {"unsent", "pending"}
  <2>1. Abstract!Deny(t)
    BY <1>1, <1>2, <1>3, <1>4 DEF Abstract!Deny, Seen, Told
  <2> QED  BY <2>1 DEF AbstractStep, Abstract!Next
<1>5. CASE result = "pending" /\ outcome[t] = "unsent"
  <2>1. Abstract!Ask(t)
    BY <1>1, <1>2, <1>3, <1>5 DEF Abstract!Ask, Seen, Told
  <2> QED  BY <2>1 DEF AbstractStep, Abstract!Next
<1>6. CASE /\ result = "committed" /\ outcome[t] = "pending"
           /\ Contiguous(log) /\ Committed(t)
  <2>1. PICK k \in Commits(log) : log[k].by \in AttemptId /\ log[k].by[1] = t
    BY <1>6 DEF Committed
  <2>2. log \in Seq(Events)
    BY DEF TypeOK
  <2>3. /\ log[k].seq + 1 \in 1 .. Len(CommitsOf(log))
        /\ CommitsOf(log)[log[k].seq + 1] = Entry(log[k])
    BY <1>6, <2>2, CommitsListed
  <2>4. \E i \in 1 .. Len(CommitsOf(log)) :
          CommitsOf(log)[i].by \in AttemptId /\ CommitsOf(log)[i].by[1] = t
    BY <2>1, <2>3 DEF Entry
  <2>5. Told[t] = "pending" /\ Told' = [Told EXCEPT ![t] = "committed"]
    BY <1>2, <1>3, <1>6
  <2>6. Abstract!Confirm(t)
    BY <1>1, <2>4, <2>5 DEF Abstract!Confirm, Seen, Told
  <2> QED  BY <2>6 DEF AbstractStep, Abstract!Next
<1> QED  BY <1>4, <1>5, <1>6

LEMMA StandingIsSeen == (\A a \in AttemptId : TokenStands(a)) => SeenStays
  BY StandingIsFrozen DEF SeenStays, NoneBegins, TokenStands

LEMMA UnchangedIsSeen == UNCHANGED token => SeenStays
  BY UnchangedStands, StandingIsSeen

LEMMA TurnTells ==
  ASSUME FenceInv, turn.pc # "idle", SeenStays, UNCHANGED log,
         NEW result, EndTurn(result),
         result \in Errors \/ (result = "committed" /\ Committed(turn.trigger))
  PROVE  AbstractStep
<1>1. /\ TypeOK /\ Contiguous(log)
      /\ turn.trigger \in Trigger /\ outcome[turn.trigger] = "pending"
      /\ outcome' = [outcome EXCEPT ![turn.trigger] = result]
  BY DEF FenceInv, StreamInv, TurnInv, EndTurn
<1> QED  BY <1>1, SenderIsTold

LEMMA CatchTells ==
  ASSUME FenceInv, SeenStays, UNCHANGED log,
         NEW a, NEW code \in Errors, LoopCatches(a, code)
  PROVE  AbstractStep
<1>1. CASE UNCHANGED outcome
  BY <1>1, Stutters
<1>2. CASE Awaiting(a) /\ EndTurn(code)
  BY <1>2, TurnTells DEF Awaiting
<1> QED  BY <1>1, <1>2 DEF LoopCatches

\* An event that the authority appends is a commit of the key, or a note.
LEMMA AppendIsCommit ==
  ASSUME FenceInv, UNCHANGED <<token, outcome>>, Contiguous(log'),
         NEW e \in Events, log' = Append(log, e),
         e.type = "transition" =>
           /\ e.seq = LatestSeq(log) + 1
           /\ IF e.by \in AttemptId
                THEN Begun(e.by) /\ token[e.by].seq + 1 = e.seq
                ELSE e.by \in {InitId} \cup {ForeignId(n) : n \in 1 .. MaxForeign}
  PROVE  AbstractStep
<1>1. log \in Seq(Events) /\ Contiguous(log)
  BY DEF FenceInv, StreamInv, TypeOK
<1>2. SeenStays /\ Seen' = Seen /\ Told' = Told
  BY UnchangedIsSeen, SeenUnchanged DEF Told
<1>3. CASE e.type # "transition"
  <2>1. CommitsOf(log') = CommitsOf(log)
    BY <1>1, <1>3, NoteUnlisted
  <2> QED  BY <1>2, <2>1, Stutters
<1>4. CASE e.type = "transition"
  <2>1. CommitsOf(log') = Append(CommitsOf(log), [to |-> e.to, by |-> e.by])
    BY <1>1, <1>4, CommitListed DEF Entry
  <2>2. e.to \in State /\ e.seq = LatestSeq(log) + 1
    BY <1>4, EventTypes
  <2>3. CASE e.by \in AttemptId
    <3>1. Len(CommitsOf(log)) = LatestSeq(log) + 1 /\ LatestSeq(log) + 1 \in Nat
      BY <1>1, CommitsListed, ReplayTypes DEF EMPTY_SEQ
    <3>2. token[e.by].seq \in Nat
      BY <2>3 DEF FenceInv, StreamInv, TypeOK, Tokens
    <3>3. Seen[e.by] = e.seq /\ e.seq # 0
      BY <1>4, <2>3, <3>2 DEF Seen, Begun
    <3>4. Abstract!Commit(e.by, e.to)
      BY <1>2, <2>1, <2>2, <2>3, <3>1, <3>3 DEF Abstract!Commit, Seen, Told
    <3> QED  BY <2>2, <2>3, <3>4 DEF AbstractStep, Abstract!Next
  <2>4. CASE e.by \notin AttemptId
    <3>1. e.by \in {InitId} \cup {ForeignId(n) : n \in 1 .. MaxForeign}
      BY <1>4, <2>4
    <3>2. Abstract!CommitBy(e.by, e.to)
      BY <1>2, <2>1, <2>4 DEF Abstract!CommitBy, Seen, Told
    <3> QED  BY <2>2, <3>1, <3>2 DEF AbstractStep, Abstract!Next
  <2> QED  BY <2>3, <2>4
<1> QED  BY <1>3, <1>4

\* A handler starts on a version that is in the list.
LEMMA IssueReads ==
  ASSUME FenceInv, Agreement, NEW next \in 1 .. MaxAttempts, Issue(next),
         UNCHANGED <<log, outcome>>,
         \/ turn.pc = "ready" /\ next = 1
         \/ turn.pc = "backoff" /\ next = turn.attempt + 1
  PROVE  AbstractStep
<1>1. TypeOK /\ log \in Seq(Events) /\ Contiguous(log)
  BY DEF FenceInv, StreamInv, TypeOK
<1>2. turn.trigger \in Trigger /\ ~Begun(<<turn.trigger, next>>)
  BY <1>1, IssueIsNew DEF FenceInv
<1>3. PICK new \in AttemptId : new = <<turn.trigger, next>>
  BY <1>2 DEF AttemptId
<1>4. token'[new].pc = "handling" /\ token'[new].seq = seq
  <2>1. token'[new] = [NoToken EXCEPT !.pc = "handling", !.seq = seq, !.observed = state]
    BY <1>3 DEF Issue
  <2> QED  BY <2>1 DEF NoToken
<1>5. ASSUME NEW b \in AttemptId, b # new PROVE TokenStands(b)
  <2>1. token'[b] = token[b] \/ token'[b] = Invalidated(token[b], "superseded")
    BY <1>3, <1>5 DEF Issue
  <2>2. CASE token'[b] = token[b]
    BY <2>2 DEF TokenStands, Begun
  <2>3. CASE token'[b] = Invalidated(token[b], "superseded")
    BY <1>1, <2>3, InvalidatedStands DEF FenceReasons
  <2> QED  BY <2>1, <2>2, <2>3
<1>6. seq + 1 \in 1 .. Len(CommitsOf(log))
  <2>1. HasCommit(seq, state)
    BY DEF Agreement, PhaseAgrees, RecordAgrees
  <2>2. PICK k \in Commits(log) : log[k].seq = seq
    BY <2>1 DEF HasCommit
  <2> QED  BY <1>1, <2>2, CommitsListed
<1>7. Seen[new] = 0 /\ Seen' = [Seen EXCEPT ![new] = seq + 1]
  <2>1. ASSUME NEW b \in AttemptId, b # new
        PROVE  (IF token'[b].pc = "none" THEN 0 ELSE token'[b].seq + 1)
                 = IF token[b].pc = "none" THEN 0 ELSE token[b].seq + 1
    BY <1>5, <2>1 DEF TokenStands, Begun
  <2>2. \A b \in AttemptId : Seen'[b] = IF b = new THEN seq + 1 ELSE Seen[b]
    BY <1>4, <2>1 DEF Seen
  <2>3. Seen[new] = 0
    BY <1>2, <1>3 DEF Seen, Begun
  <2> QED  BY <2>2, <2>3 DEF Seen
<1>8. Told' = Told
  BY DEF Told
<1>9. Abstract!Read(new)
  BY <1>6, <1>7, <1>8 DEF Abstract!Read, Seen, Told
<1> QED  BY <1>3, <1>9 DEF AbstractStep, Abstract!Next

-----------------------------------------------------------------------------
(* Each step is a step of the abstract key.                                *)

LEMMA BeginIsAbstract ==
  ASSUME FenceInv, NEW t \in Trigger, Begin(t)
  PROVE  AbstractStep
<1>1. /\ TypeOK /\ UNCHANGED <<log, token>> /\ outcome[t] = "unsent"
      /\ \E result \in Errors \cup {"pending"} :
           outcome' = [outcome EXCEPT ![t] = result]
  BY DEF FenceInv, StreamInv, Begin, Errors
<1> QED  BY <1>1, UnchangedIsSeen, SenderIsTold

LEMMA ReconcileIsAbstract ==
  ASSUME FenceInv, Reconcile
  PROVE  AbstractStep
<1>1. UNCHANGED <<log, token>> /\ SeenStays
  BY UnchangedIsSeen DEF Reconcile, StoreLoad, LoadFails, Hydrate, Reload
<1>2. CASE LoadFails
  BY <1>1, <1>2, TurnTells DEF LoadFails, Errors, StoreErrors
<1>3. CASE UNCHANGED outcome
  BY <1>1, <1>3, Stutters
<1> QED  BY <1>2, <1>3 DEF Reconcile, StoreLoad, Hydrate, Reload

LEMMA ProceedIsAbstract ==
  ASSUME FenceInv, Agreement, Proceed
  PROVE  AbstractStep
<1>1. CASE Refuse
  BY <1>1, UnchangedIsSeen, TurnTells DEF Refuse, Errors
<1>2. CASE FirstAttempt
  <2>1. 1 \in 1 .. MaxAttempts
    BY MaxAttemptsAssumption
  <2> QED  BY <1>2, <2>1, IssueReads DEF FirstAttempt
<1>3. CASE Retry
  <2>1. turn.attempt + 1 \in 1 .. MaxAttempts
    BY <1>3, MaxAttemptsAssumption DEF FenceInv, StreamInv, TypeOK, Retry, Turns
  <2> QED  BY <1>3, <2>1, IssueReads DEF Retry
<1> QED  BY <1>1, <1>2, <1>3 DEF Proceed

LEMMA FailureIsAbstract ==
  ASSUME FenceInv, NEW a \in AttemptId, Begun(a), NEW code \in Errors,
         Failure(a, code), UNCHANGED log
  PROVE  AbstractStep
<1>1. SeenStays
  BY PhaseStands, StandingIsSeen
     DEF Failure, AttemptFails, Recovering, FenceInv, StreamInv
<1>2. CASE AttemptFails(a, code)
  BY <1>1, <1>2, CatchTells DEF AttemptFails
<1>3. CASE Recovering(a)
  BY <1>1, <1>3, Stutters DEF Recovering
<1> QED  BY <1>2, <1>3 DEF Failure

LEMMA SealIsAbstract ==
  ASSUME FenceInv, NEW a \in AttemptId, Begun(a),
         NEW to \in State, NEW chain, Seal(a, to, chain), UNCHANGED log
  PROVE  AbstractStep
<1>1. SeenStays
  <2>1. \A b \in AttemptId : token[b] \in Tokens
    BY DEF FenceInv, StreamInv, TypeOK
  <2>2. \A b \in AttemptId :
          token'[b] = IF b = a THEN [token[a] EXCEPT !.sealed = TRUE, !.pc = "writing"]
                               ELSE token[b]
    BY DEF FenceInv, StreamInv, TypeOK, Seal
  <2>3. /\ token'[a].pc = "writing" /\ token'[a].seq = token[a].seq
        /\ token'[a].observed = token[a].observed
    BY <2>1, <2>2 DEF Tokens
  <2> QED  BY <2>2, <2>3 DEF SeenStays, NoneBegins, Frozen, Begun
<1> QED  BY <1>1, Stutters DEF Seal

LEMMA HandlerReturnsIsAbstract ==
  ASSUME FenceInv, NEW a \in AttemptId, HandlerReturns(a)
  PROVE  AbstractStep
<1>1. Begun(a) /\ UNCHANGED log
  BY DEF HandlerReturns, HandlerFails, Fenced, Commit, CommitWarned, CommitRejected,
         Begun
<1>2. {"HANDLER_FAILED", "COMMIT_FENCED", "CONSTRAINT_VIOLATED"} \subseteq Errors
  BY DEF Errors
<1>3. CASE HandlerFails(a)
  BY <1>1, <1>2, <1>3, FailureIsAbstract DEF HandlerFails
<1>4. CASE Fenced(a)
  BY <1>1, <1>2, <1>4, FailureIsAbstract DEF Fenced, Failure
<1>5. ASSUME NEW to \in State, Commit(a, to) \/ CommitWarned(a, to) PROVE AbstractStep
  BY <1>1, <1>5, SealIsAbstract DEF Commit, CommitWarned
<1>6. CASE CommitRejected(a)
  BY <1>1, <1>2, <1>6, FailureIsAbstract DEF CommitRejected
<1> QED  BY <1>3, <1>4, <1>5, <1>6 DEF HandlerReturns

LEMMA TimeoutIsAbstract ==
  ASSUME FenceInv, Timeout
  PROVE  AbstractStep
<1>1. TypeOK /\ UNCHANGED log
  BY DEF Timeout, FenceInv, StreamInv
<1>2. ASSUME NEW b \in AttemptId PROVE TokenStands(b)
  <2>1. token'[b] = token[b] \/ token'[b] = Invalidated(token[b], "timeout")
    BY <1>1 DEF Timeout, TypeOK
  <2>2. CASE token'[b] = token[b]
    BY <2>2 DEF TokenStands, Begun
  <2>3. CASE token'[b] = Invalidated(token[b], "timeout")
    BY <1>1, <2>3, InvalidatedStands DEF FenceReasons
  <2> QED  BY <2>1, <2>2, <2>3
<1> QED  BY <1>1, <1>2, StandingIsSeen, CatchTells DEF Timeout, Errors

LEMMA StoreIsAbstract ==
  ASSUME FenceInv, Agreement, Contiguous(log'), StoreAnswers
  PROVE  AbstractStep
<1>1. AppendInFlight /\ UNCHANGED <<token, outcome>>
  BY DEF StoreAnswers, StoreAppend, AppendFails
<1>2. CASE UNCHANGED log
  BY <1>1, <1>2, UnchangedIsSeen, Stutters
<1>3. CASE log' = Append(log, Head(writes).event) /\ ConditionHolds
  <2> DEFINE head == Head(writes)
             e == head.event
  <2>1. head \in Writes /\ head \in Chain(writes)
    BY <1>1, ChainShrinks DEF FenceInv, StreamInv, TypeOK, AppendInFlight
  <2>2. /\ WriteAgrees(head) /\ Follows(head) /\ e \in Events
        /\ LatestSeq(log) = head.expected
    BY <1>3, <2>1 DEF FenceInv, StreamInv, Agreement, ConditionHolds, Writes
  <2>3. ASSUME e.type = "transition"
        PROVE  /\ e.seq = LatestSeq(log) + 1
               /\ IF e.by \in AttemptId
                    THEN Begun(e.by) /\ token[e.by].seq + 1 = e.seq
                    ELSE e.by \in {InitId} \cup {ForeignId(n) : n \in 1 .. MaxForeign}
    <3>1. e.by \in AttemptId => Begun(e.by)
      BY <2>1 DEF FenceInv, SealInv, Written
    <3> QED  BY <2>2, <2>3, <3>1 DEF WriteAgrees, Follows, DecidedBy
  <2>4. PICK x \in Events : x = e
    BY <2>2
  <2> QED  BY <1>1, <1>3, <2>3, <2>4, AppendIsCommit
<1> QED  BY <1>2, <1>3 DEF StoreAnswers, StoreAppend, AppendFails

LEMMA ForeignIsAbstract ==
  ASSUME FenceInv, Contiguous(log'), NEW to \in State, ForeignCommit(to)
  PROVE  AbstractStep
<1>1. UNCHANGED <<token, outcome>> /\ foreign + 1 \in 1 .. MaxForeign
  BY BoundsAssumption DEF ForeignCommit, FenceInv, StreamInv, TypeOK
<1> DEFINE from == IF log = <<>> THEN None ELSE Replay(log).state
<1>2. from \in State \cup {None} /\ LatestSeq(log) + 1 \in Nat
  <2>1. log \in Seq(Events) /\ Contiguous(log) /\ \A x \in Events : x.seq \in Nat
    BY EventTypes DEF FenceInv, StreamInv, TypeOK
  <2>2. log # <<>> => Commits(log) # {}
    BY <2>1, SeqNamesACommit
  <2> QED  BY <2>1, <2>2, ReplayTypes DEF EMPTY_SEQ
<1>3. log' = Append(log, Transition(LatestSeq(log) + 1, from, to, ForeignId(foreign + 1)))
  BY DEF ForeignCommit
<1> HIDE DEF from
<1>4. /\ ForeignId(foreign + 1) \in Authors /\ ForeignId(foreign + 1) \notin AttemptId
      /\ ForeignId(foreign + 1) \in {ForeignId(n) : n \in 1 .. MaxForeign}
  BY <1>1, AuthorTypes, IdsDiffer
<1>5. PICK e \in Events :
        e = Transition(LatestSeq(log) + 1, from, to, ForeignId(foreign + 1))
  BY <1>2, <1>4, EventTypes
<1>6. e.seq = LatestSeq(log) + 1 /\ e.by = ForeignId(foreign + 1)
  BY <1>5 DEF Transition
<1> QED  BY <1>1, <1>3, <1>4, <1>5, <1>6, AppendIsCommit

LEMMA SettleIsAbstract ==
  ASSUME FenceInv, Agreement, WriteSettles
  PROVE  AbstractStep
<1>1. TypeOK /\ AppendAnswered /\ UNCHANGED log
  BY DEF WriteSettles, CommitLands, CommitConflicts, CommitUnstored, InitLands,
         InitFails, NoteSettles, Answered, FenceInv, StreamInv
<1>2. /\ Head(writes) \in Chain(writes) /\ WriteAgrees(Head(writes))
      /\ AnsweredEvent = Head(writes).event
  BY <1>1, ChainShrinks DEF TypeOK, AppendAnswered, AnsweredEvent, Agreement
<1>3. IsCommit => Begun(AnsweredEvent.by)
  BY <1>2 DEF FenceInv, SealInv, Written, IsCommit
<1>4. CASE CommitLands
  <2>1. /\ IsCommit /\ Head(writes).result = "ok" /\ Resolve(AnsweredEvent.by)
        /\ token' = [token EXCEPT ![AnsweredEvent.by].pc = "over"]
    BY <1>4 DEF CommitLands, Answered
  <2>2. SeenStays
    BY <1>1, <1>3, <2>1, PhaseStands, StandingIsSeen DEF IsCommit
  <2>3. CASE UNCHANGED outcome
    BY <1>1, <2>2, <2>3, Stutters
  <2>4. CASE Awaiting(AnsweredEvent.by) /\ EndTurn("committed")
    <3>1. Holding(AnsweredEvent)
      BY <1>2, <2>1 DEF WriteAgrees, IsCommit
    <3>2. Committed(turn.trigger) /\ turn.pc # "idle"
      BY <2>1, <2>4, <3>1 DEF Holding, Committed, IsCommit, Awaiting
    <3> QED  BY <1>1, <2>2, <2>4, <3>2, TurnTells
  <2> QED  BY <2>1, <2>3, <2>4 DEF Resolve
<1>5. ASSUME NEW code \in Errors, AttemptFails(AnsweredEvent.by, code), IsCommit
      PROVE  AbstractStep
  <2>1. PICK a \in AttemptId : a = AnsweredEvent.by
    BY <1>5 DEF IsCommit
  <2> QED  BY <1>1, <1>3, <1>5, <2>1, FailureIsAbstract DEF Failure
<1>6. {"STORE_CONFLICT", "STORE_UNAVAILABLE"} \subseteq Errors
  BY DEF Errors, StoreErrors
<1>7. CASE CommitConflicts \/ CommitUnstored
  BY <1>5, <1>6, <1>7 DEF CommitConflicts, CommitUnstored
<1>8. CASE InitFails
  <2>1. EndTurn(AnsweredError) /\ AnsweredError \in Errors /\ UNCHANGED token
    BY <1>6, <1>8 DEF InitFails, AnsweredError
  <2>2. turn.pc # "idle"
    BY <1>1, <1>8, InitWritesShrink
       DEF InitFails, FenceInv, ChainInv, AnsweredEvent, AppendAnswered, TypeOK
  <2> QED  BY <1>1, <2>1, <2>2, UnchangedIsSeen, TurnTells
<1>9. CASE InitLands \/ NoteSettles
  BY <1>1, <1>9, UnchangedIsSeen, Stutters DEF InitLands, NoteSettles
<1> QED  BY <1>4, <1>7, <1>8, <1>9 DEF WriteSettles

LEMMA InitIsAbstract == Init => Abstract!Init
<1> SUFFICES ASSUME Init PROVE Abstract!Init
  OBVIOUS
<1>1. log = <<>> /\ <<>> \in Seq(Events) /\ Contiguous(log) /\ Commits(log) = {}
  BY EmptySeq DEF Init, Contiguous, Commits
<1>2. CommitsOf(log) = <<>>
  <2>1. LatestSeq(log) + 1 = 0
    BY <1>1 DEF LatestSeq, EMPTY_SEQ
  <2>2. CommitsOf(log) \in Seq(Entries) /\ Len(CommitsOf(log)) = 0
    BY <1>1, <2>1, CommitsListed
  <2> QED  BY <2>2, EmptySeq
<1>3. "unsent" \notin Errors
  BY DEF Errors, StoreErrors
<1> QED  BY <1>2, <1>3 DEF Init, NoToken, Abstract!Init

LEMMA StepIsAbstract ==
  ASSUME DecisionInv, DecisionInv', NeverDeleted, [Next]_vars
  PROVE  AbstractStep
<1>1. FenceInv /\ Agreement /\ Contiguous(log')
  BY DEF DecisionInv, FenceInv, StreamInv
<1>2. UNCHANGED <<log, token, outcome>> => AbstractStep
  BY UnchangedIsSeen, Stutters
<1>3. ASSUME RecordBeside \/ UNCHANGED vars PROVE AbstractStep
  BY <1>2, <1>3 DEF RecordBeside, vars
<1>4. ~ForeignForget
  BY DEF ForeignForget, NeverDeleted
<1> QED  BY <1>1, <1>3, <1>4, BeginIsAbstract, ReconcileIsAbstract,
            ProceedIsAbstract, HandlerReturnsIsAbstract, TimeoutIsAbstract,
            StoreIsAbstract, SettleIsAbstract, ForeignIsAbstract
         DEF Next, Rest

(***************************************************************************)
(* A key that nobody deletes is an optimistic key: every commit was        *)
(* decided on the commit right before it, and a sender is told "committed" *)
(* only of a commit that is there (src/dispatch.ts, src/fence.ts and       *)
(* src/instance.ts over a store with conditional appends).                 *)
(***************************************************************************)
THEOREM KeyIsOptimistic == Spec /\ []NeverDeleted => ImplementsOptimisticKey
<1>1. DecisionInv /\ DecisionInv' /\ NeverDeleted /\ [Next]_vars
        => [Abstract!Next]_(Abstract!vars)
  BY StepIsAbstract DEF AbstractStep
<1> QED  BY <1>1, InitIsAbstract, InitDecision, StepKeepsDecision, PTL
         DEF Spec, ImplementsOptimisticKey, Abstract!Spec

-----------------------------------------------------------------------------
(* What a sender is told: AnswersAreTrue and FailureIsReported.            *)

(***************************************************************************)
(* The strengthening of both: who writes is awaited by the turn or was     *)
(* raced by a timeout, and what an attempt has in the log was acknowledged *)
(* to its sender, was raced, or waits on the chain to be acknowledged.     *)
(***************************************************************************)
Excused(a) == setting.timeouts /\ token[a].racedBy # None

Acknowledged(a) ==
  \E i \in 1 .. Len(writes) : writes[i].event.by = a /\ writes[i].result = "ok"

\* An attempt the turn does not wait for may not seal its token any more.
LiveAttempt(a) ==
  /\ token[a].pc \in {"handling", "recovering"} =>
       /\ ~token[a].sealed
       /\ token[a].invalidatedBy = None => Awaiting(a)
  /\ token[a].pc = "writing" => token[a].sealed /\ (Awaiting(a) \/ Excused(a))

\* An attempt has one write at most, and waits for it.
WriterInv ==
  /\ \A a \in AttemptId : \A i, j \in WritesOf(writes, a) : i = j
  /\ \A x \in Chain(writes) : x.event.by \in AttemptId =>
       x.event.type = "transition" /\ token[x.event.by].pc = "writing"

InLog(a) == \E k \in 1 .. Len(log) : log[k].by = a

Accounted(a) == outcome[a[1]] = "committed" \/ Excused(a) \/ Acknowledged(a)

AnswerInv ==
  /\ FenceInv
  /\ \A a \in AttemptId : LiveAttempt(a)
  /\ WriterInv
  /\ ~setting.lostAnswers => \A a \in AttemptId : InLog(a) => Accounted(a)

LEMMA InitAnswer == Init => AnswerInv
<1> SUFFICES ASSUME Init PROVE AnswerInv
  OBVIOUS
<1>1. Len(log) = 0 /\ Len(writes) = 0
  BY EmptySeq DEF Init
<1>2. \A a \in AttemptId : token[a].pc = "none"
  BY DEF Init, NoToken
<1>3. WriterInv
  BY <1>1 DEF WriterInv, WritesOf, Chain
<1> QED  BY <1>1, <1>2, <1>3, InitFence DEF AnswerInv, LiveAttempt, InLog

-----------------------------------------------------------------------------
(* What a step has to show.                                                *)

\* A sender that was told of its commit is told nothing else.
CommittedStays ==
  \A t \in Trigger : outcome[t] = "committed" => outcome'[t] = "committed"

RacedStays ==
  \A a \in AttemptId :
    Begun(a) /\ token[a].racedBy # None => token'[a].racedBy # None

LEMMA ExcuseStays ==
  ASSUME RacedStays, UNCHANGED setting
  PROVE  \A a \in AttemptId : Begun(a) /\ Excused(a) => Excused(a)'
  BY DEF RacedStays, Excused

\* An attempt whose token is left alone, or only invalidated, and the turn.
LEMMA LiveStays ==
  ASSUME UNCHANGED setting, RacedStays, NEW a \in AttemptId, LiveAttempt(a),
         token'[a].pc = token[a].pc, token'[a].sealed = token[a].sealed,
         token'[a].invalidatedBy = None => token[a].invalidatedBy = None,
         Awaiting(a) => Awaiting(a)'
  PROVE  LiveAttempt(a)'
  BY ExcuseStays DEF LiveAttempt, Begun

LEMMA TurnEndsOnce ==
  ASSUME FenceInv, NEW result, EndTurn(result), turn.pc # "idle"
  PROVE  CommittedStays
<1>1. outcome[turn.trigger] = "pending" /\ outcome \in [Trigger -> Outcomes]
  BY DEF FenceInv, TurnInv, StreamInv, TypeOK
<1> QED  BY <1>1 DEF EndTurn, CommittedStays

LEMMA CatchEndsOnce ==
  ASSUME FenceInv, NEW a, NEW code, LoopCatches(a, code)
  PROVE  /\ CommittedStays
         /\ ~Awaiting(a) => UNCHANGED turn
<1>1. CASE UNCHANGED outcome
  BY <1>1 DEF CommittedStays, LoopCatches
<1>2. CASE Awaiting(a) /\ EndTurn(code)
  BY <1>2, TurnEndsOnce DEF Awaiting
<1> QED  BY <1>1, <1>2 DEF LoopCatches

LEMMA TokensUnchanged ==
  UNCHANGED token => RacedStays /\ \A a \in AttemptId : token'[a] = token[a]
  BY DEF RacedStays

LEMMA AttemptsMove ==
  ASSUME AnswerInv, FenceInv', UNCHANGED setting, RacedStays, CommittedStays,
         \A b \in AttemptId :
           LiveAttempt(b)' \/ (token'[b] = token[b] /\ (Awaiting(b) => UNCHANGED turn)),
         WriterInv',
         ~setting.lostAnswers =>
           \A b \in AttemptId : InLog(b)' => InLog(b) \/ Accounted(b)',
         \A b \in AttemptId : Acknowledged(b) => Accounted(b)'
  PROVE  AnswerInv'
<1>1. ASSUME NEW b \in AttemptId PROVE LiveAttempt(b)'
  <2>1. Awaiting(b) /\ UNCHANGED turn => Awaiting(b)'
    BY DEF Awaiting
  <2> QED  BY <2>1, LiveStays DEF AnswerInv
<1>2. ASSUME ~setting.lostAnswers, NEW b \in AttemptId, InLog(b)'
      PROVE  Accounted(b)'
  <2> SUFFICES ASSUME InLog(b) PROVE Accounted(b)'
    BY <1>2
  <2>1. Accounted(b)
    BY <1>2 DEF AnswerInv
  <2>2. Begun(b)
    BY DEF InLog, AnswerInv, FenceInv, SealInv, Written
  <2> QED  BY <2>1, <2>2, ExcuseStays, IdsDiffer DEF Accounted, CommittedStays
<1> QED  BY <1>1, <1>2 DEF AnswerInv

\* Steps that leave the tokens and the log alone.
LEMMA AttemptsWait ==
  ASSUME AnswerInv, FenceInv', UNCHANGED <<setting, token, log>>, CommittedStays,
         turn.pc # "attempting" \/ UNCHANGED turn,
         WriterInv',
         \A a \in AttemptId : Acknowledged(a) => Acknowledged(a)'
  PROVE  AnswerInv'
<1>1. RacedStays /\ \A a \in AttemptId : token'[a] = token[a]
  BY TokensUnchanged
<1>2. \A a \in AttemptId : Awaiting(a) => UNCHANGED turn
  BY DEF Awaiting
<1> QED  BY <1>1, <1>2, AttemptsMove DEF Accounted, InLog

LEMMA WritersStay ==
  ASSUME WriterInv, UNCHANGED writes,
         \A a \in AttemptId : token[a].pc = "writing" => token'[a].pc = "writing"
  PROVE  WriterInv'
  BY DEF WriterInv

\* A write of no attempt comes to the chain.
LEMMA OtherWriteAppended ==
  ASSUME StreamInv, WriterInv, NEW x \in Writes, NEW w, w = Append(writes, x),
         x.event.by \notin AttemptId
  PROVE  /\ w \in Seq(Writes) /\ Chain(w) = Chain(writes) \cup {x}
         /\ \A a \in AttemptId : WritesOf(w, a) = WritesOf(writes, a)
         /\ \A i \in 1 .. Len(writes) : i \in 1 .. Len(w) /\ w[i] = writes[i]
<1>1. writes \in Seq(Writes) /\ Len(writes) \in Nat
  BY LenProperties DEF StreamInv, TypeOK
<1>2. /\ Len(w) = Len(writes) + 1 /\ \A i \in 1 .. Len(writes) : w[i] = writes[i]
  BY <1>1, AppendProperties
<1>3. w \in Seq(Writes) /\ Chain(w) = Chain(writes) \cup {x}
  BY <1>1, ChainGrows
<1>4. ASSUME NEW a \in AttemptId PROVE WritesOf(w, a) = WritesOf(writes, a)
  <2>1. x.event.by # a
    OBVIOUS
  <2>2. WritesOf(Append(writes, x), a) =
          WritesOf(writes, a) \cup (IF x.event.by = a THEN {Len(writes) + 1} ELSE {})
    BY <1>1, WritesGrow
  <2> QED  BY <2>1, <2>2
<1> QED  BY <1>1, <1>2, <1>3, <1>4

\* The note of a refusal or a violation.
LEMMA RecordedKeepsWriters ==
  ASSUME StreamInv, WriterInv, Record(Note(seq, state, NoteId(notes + 1))),
         \A a \in AttemptId : token[a].pc = "writing" => token'[a].pc = "writing"
  PROVE  WriterInv' /\ \A a \in AttemptId : Acknowledged(a) => Acknowledged(a)'
<1> DEFINE note == Write(Note(seq, state, NoteId(notes + 1)), seq)
<1>1. writes' = Append(writes, note) /\ notes < MaxNotes
  BY DEF Record
<1>2. note \in Writes /\ note.event.by \notin AttemptId
  BY <1>1, NoteWrite
<1> HIDE DEF note
<1>3. /\ Chain(writes') = Chain(writes) \cup {note}
      /\ \A a \in AttemptId : WritesOf(writes', a) = WritesOf(writes, a)
      /\ \A i \in 1 .. Len(writes) : i \in 1 .. Len(writes') /\ writes'[i] = writes[i]
  BY <1>1, <1>2, OtherWriteAppended
<1> QED  BY <1>2, <1>3 DEF WriterInv, Acknowledged

\* The attempt's phase is all that changes of the tokens.
LEMMA PhaseChanges ==
  ASSUME TypeOK, NEW a \in AttemptId, NEW pc, token' = [token EXCEPT ![a].pc = pc]
  PROVE  /\ token'[a].pc = pc /\ token'[a].sealed = token[a].sealed
         /\ token'[a].invalidatedBy = token[a].invalidatedBy
         /\ \A b \in AttemptId \ {a} : token'[b] = token[b]
         /\ RacedStays
<1>1. token[a] \in Tokens /\ token \in [AttemptId -> Tokens]
  BY DEF TypeOK
<1>2. token'[a] = [token[a] EXCEPT !.pc = pc]
  BY <1>1
<1>3. /\ token'[a].pc = pc /\ token'[a].sealed = token[a].sealed
      /\ token'[a].invalidatedBy = token[a].invalidatedBy
      /\ token'[a].racedBy = token[a].racedBy
  BY <1>1, <1>2 DEF Tokens
<1>4. \A b \in AttemptId \ {a} : token'[b] = token[b]
  BY <1>1
<1> QED  BY <1>3, <1>4 DEF RacedStays

\* An attempt a changes phase, or is over, and nobody else does.
LEMMA OneAttemptMoves ==
  ASSUME AnswerInv, FenceInv', UNCHANGED setting, NEW a \in AttemptId,
         RacedStays, CommittedStays, LiveAttempt(a)',
         \A b \in AttemptId \ {a} : token'[b] = token[b],
         ~Awaiting(a) => UNCHANGED turn,
         WriterInv', UNCHANGED log,
         \A b \in AttemptId : Acknowledged(b) => Accounted(b)'
  PROVE  AnswerInv'
<1>1. ASSUME NEW b \in AttemptId \ {a}, Awaiting(b) PROVE UNCHANGED turn
  BY <1>1 DEF Awaiting
<1> QED  BY <1>1, AttemptsMove DEF InLog

LEMMA FailureKeepsAnswers ==
  ASSUME AnswerInv, FenceInv', UNCHANGED <<setting, log>>, NEW a \in AttemptId,
         token[a].pc \in {"handling", "recovering"}, NEW code, Failure(a, code),
         UNCHANGED writes \/ Record(Note(seq, state, NoteId(notes + 1)))
  PROVE  AnswerInv'
<1> USE DEF AnswerInv
<1>1. TypeOK /\ StreamInv
  BY DEF FenceInv, StreamInv
<1>2. PICK pc \in {"over", "recovering"} :
        /\ token' = [token EXCEPT ![a].pc = pc]
        /\ pc = "over" => LoopCatches(a, code)
        /\ pc = "recovering" => UNCHANGED <<turn, outcome>>
  BY DEF Failure, AttemptFails, Recovering
<1>3. /\ token'[a].pc = pc /\ token'[a].sealed = token[a].sealed
      /\ token'[a].invalidatedBy = token[a].invalidatedBy
      /\ \A b \in AttemptId \ {a} : token'[b] = token[b]
      /\ RacedStays
  BY <1>1, <1>2, PhaseChanges
<1>4. CommittedStays /\ (~Awaiting(a) => UNCHANGED turn)
  BY <1>2, CatchEndsOnce DEF CommittedStays
<1>5. LiveAttempt(a)'
  BY <1>2, <1>3 DEF LiveAttempt, Awaiting
<1>6. \A b \in AttemptId : token[b].pc = "writing" => token'[b].pc = "writing"
  BY <1>3
<1>7. WriterInv' /\ \A b \in AttemptId : Acknowledged(b) => Acknowledged(b)'
  BY <1>1, <1>6, WritersStay, RecordedKeepsWriters DEF Acknowledged
<1> QED  BY <1>3, <1>4, <1>5, <1>7, OneAttemptMoves DEF Accounted, InLog

LEMMA SealKeepsAnswers ==
  ASSUME AnswerInv, FenceInv', UNCHANGED <<setting, log>>, NEW a \in AttemptId,
         token[a].pc \in {"handling", "recovering"}, Committable(a),
         NEW to \in State, NEW chain \in Seq(Writes), Seal(a, to, chain),
         \A x \in Chain(chain) : x \in Chain(writes) \/ x.event.by \notin AttemptId,
         \A b \in AttemptId : WritesOf(chain, b) = WritesOf(writes, b),
         \A i \in 1 .. Len(writes) : i \in 1 .. Len(chain) /\ chain[i] = writes[i]
  PROVE  AnswerInv'
<1> USE DEF AnswerInv
<1>1. TypeOK /\ UNCHANGED <<turn, outcome>>
  BY DEF FenceInv, StreamInv, Seal
<1>2. /\ token'[a].pc = "writing" /\ token'[a].sealed
      /\ \A b \in AttemptId \ {a} : token'[b] = token[b]
      /\ RacedStays
  <2>1. token[a] \in Tokens /\ token \in [AttemptId -> Tokens]
    BY <1>1 DEF TypeOK
  <2>2. token'[a] = [token[a] EXCEPT !.sealed = TRUE, !.pc = "writing"]
    BY <2>1 DEF Seal
  <2>3. /\ token'[a].pc = "writing" /\ token'[a].sealed
        /\ token'[a].racedBy = token[a].racedBy
    BY <2>1, <2>2 DEF Tokens
  <2>4. \A b \in AttemptId \ {a} : token'[b] = token[b]
    BY <2>1 DEF Seal
  <2> QED  BY <2>3, <2>4 DEF RacedStays
<1>3. LiveAttempt(a)'
  BY <1>1, <1>2 DEF LiveAttempt, Committable, Awaiting
<1> DEFINE write == Write(Transition(seq + 1, state, to, a), seq)
<1>4. write \in Writes /\ write.event.by = a /\ write.event.type = "transition"
  <2>1. Transition(seq + 1, state, to, a) \in Events
    BY <1>1, EventTypes, AuthorTypes DEF TypeOK
  <2> QED  BY <1>1, <2>1 DEF TypeOK, Write, Writes, Transition
<1>5. writes' = Append(chain, write)
  BY DEF Seal
<1> HIDE DEF write
<1>6. /\ Chain(writes') = Chain(chain) \cup {write}
      /\ \A b \in AttemptId : WritesOf(writes', b) =
           WritesOf(writes, b) \cup (IF write.event.by = b THEN {Len(chain) + 1} ELSE {})
      /\ Len(chain) \in Nat /\ Len(writes') = Len(chain) + 1
      /\ \A i \in 1 .. Len(chain) : writes'[i] = chain[i]
  BY <1>4, <1>5, ChainGrows, WritesGrow, AppendProperties, LenProperties
<1>7. WritesOf(writes, a) = {}
  BY DEF WriterInv, WritesOf, Chain
<1>8. WriterInv'
  <2>1. \A b \in AttemptId : \A i, j \in WritesOf(writes', b) : i = j
    BY <1>4, <1>6, <1>7 DEF WriterInv
  <2>2. ASSUME NEW x \in Chain(writes'), x.event.by \in AttemptId
        PROVE  x.event.type = "transition" /\ token'[x.event.by].pc = "writing"
    <3>1. CASE x = write
      BY <1>2, <1>4, <3>1
    <3>2. CASE x \in Chain(writes)
      BY <1>2, <2>2, <3>2 DEF WriterInv
    <3> QED  BY <1>6, <2>2, <3>1, <3>2
  <2> QED  BY <2>1, <2>2 DEF WriterInv
<1>9. \A b \in AttemptId : Acknowledged(b) => Acknowledged(b)'
  BY <1>6 DEF Acknowledged
<1>10. CommittedStays
  BY <1>1 DEF CommittedStays
<1> QED  BY <1>1, <1>2, <1>3, <1>8, <1>9, <1>10, OneAttemptMoves DEF Accounted, InLog

LEMMA HandlerReturnsKeepsAnswers ==
  ASSUME AnswerInv, FenceInv', UNCHANGED setting, NEW a \in AttemptId, HandlerReturns(a)
  PROVE  AnswerInv'
<1>1. token[a].pc \in {"handling", "recovering"} /\ UNCHANGED log
  BY DEF HandlerReturns, HandlerFails, Fenced, Commit, CommitWarned, CommitRejected
<1>2. StreamInv /\ WriterInv /\ writes \in Seq(Writes)
  BY DEF AnswerInv, FenceInv, StreamInv, TypeOK
<1>3. CASE HandlerFails(a)
  BY <1>1, <1>3, FailureKeepsAnswers DEF HandlerFails
<1>4. CASE Fenced(a)
  BY <1>1, <1>4, FailureKeepsAnswers DEF Fenced, Failure
<1>5. CASE CommitRejected(a)
  BY <1>1, <1>5, FailureKeepsAnswers DEF CommitRejected
<1>6. ASSUME NEW to \in State, Commit(a, to) PROVE AnswerInv'
  <2>1. \A i \in 1 .. Len(writes) : i \in 1 .. Len(writes) /\ writes[i] = writes[i]
    OBVIOUS
  <2> QED  BY <1>1, <1>2, <1>6, <2>1, SealKeepsAnswers DEF Commit
<1>7. ASSUME NEW to \in State, CommitWarned(a, to) PROVE AnswerInv'
  <2> DEFINE note  == Write(Note(seq, state, NoteId(notes + 1)), seq)
             chain == Append(writes, note)
  <2>1. Seal(a, to, chain) /\ Committable(a) /\ notes < MaxNotes
    BY <1>7 DEF CommitWarned
  <2>2. note \in Writes /\ note.event.by \notin AttemptId
    BY <1>2, <2>1, NoteWrite
  <2> HIDE DEF note
  <2>3. /\ chain \in Seq(Writes) /\ Chain(chain) = Chain(writes) \cup {note}
        /\ \A b \in AttemptId : WritesOf(chain, b) = WritesOf(writes, b)
        /\ \A i \in 1 .. Len(writes) : i \in 1 .. Len(chain) /\ chain[i] = writes[i]
    BY <1>2, <2>2, OtherWriteAppended
  <2>4. \A x \in Chain(chain) : x \in Chain(writes) \/ x.event.by \notin AttemptId
    BY <2>2, <2>3
  <2> HIDE DEF chain
  <2> QED  BY <1>1, <2>1, <2>3, <2>4, SealKeepsAnswers
<1> QED  BY <1>3, <1>4, <1>5, <1>6, <1>7 DEF HandlerReturns

LEMMA BeginKeepsAnswers ==
  ASSUME AnswerInv, FenceInv', UNCHANGED setting, NEW t \in Trigger, Begin(t)
  PROVE  AnswerInv'
<1>1. /\ UNCHANGED <<writes, token, log>> /\ turn.pc = "idle"
      /\ outcome \in [Trigger -> Outcomes] /\ outcome[t] = "unsent"
  BY DEF Begin, AnswerInv, FenceInv, StreamInv, TypeOK
<1>2. CommittedStays
  BY <1>1 DEF Begin, CommittedStays
<1>3. WriterInv' /\ \A a \in AttemptId : Acknowledged(a) => Acknowledged(a)'
  BY <1>1, WritersStay DEF AnswerInv, Acknowledged
<1> QED  BY <1>1, <1>2, <1>3, AttemptsWait

LEMMA ReconcileKeepsAnswers ==
  ASSUME AnswerInv, FenceInv', UNCHANGED setting, Reconcile
  PROVE  AnswerInv'
<1>1. UNCHANGED <<token, log>> /\ turn.pc \notin {"idle", "attempting"}
  BY DEF Reconcile, StoreLoad, LoadFails, Hydrate, Reload
<1>2. CommittedStays
  BY <1>1, TurnEndsOnce
     DEF Reconcile, StoreLoad, LoadFails, Hydrate, Reload, CommittedStays, AnswerInv
<1>3. CASE UNCHANGED writes
  <2>1. WriterInv' /\ \A a \in AttemptId : Acknowledged(a) => Acknowledged(a)'
    BY <1>1, <1>3, WritersStay DEF AnswerInv, Acknowledged
  <2> QED  BY <1>1, <1>2, <2>1, AttemptsWait
<1>4. CASE ~UNCHANGED writes
  <2> DEFINE first == Write(Transition(0, None, state, InitId), EMPTY_SEQ)
  <2>1. writes' = Append(writes, first)
    BY <1>4 DEF Reconcile, StoreLoad, LoadFails, Hydrate, Reload
  <2>2. first \in Writes /\ first.event.by \notin AttemptId
    <3>1. Transition(0, None, state, InitId) \in Events
      BY EventTypes, AuthorTypes DEF AnswerInv, FenceInv, StreamInv, TypeOK
    <3> QED  BY <3>1, IdsDiffer DEF Write, Writes, Transition, EMPTY_SEQ
  <2> HIDE DEF first
  <2>3. /\ Chain(writes') = Chain(writes) \cup {first}
        /\ \A a \in AttemptId : WritesOf(writes', a) = WritesOf(writes, a)
        /\ \A i \in 1 .. Len(writes) : i \in 1 .. Len(writes') /\ writes'[i] = writes[i]
    BY <2>1, <2>2, OtherWriteAppended DEF AnswerInv, FenceInv
  <2>4. WriterInv' /\ \A a \in AttemptId : Acknowledged(a) => Acknowledged(a)'
    BY <1>1, <2>2, <2>3 DEF AnswerInv, WriterInv, Acknowledged
  <2> QED  BY <1>1, <1>2, <2>4, AttemptsWait
<1> QED  BY <1>3, <1>4

LEMMA InvalidationIsSeen ==
  ASSUME TypeOK, NEW b \in AttemptId, NEW reason \in FenceReasons
  PROVE  LET t == Invalidated(token[b], reason)
         IN  /\ t.pc = token[b].pc /\ t.sealed = token[b].sealed
             /\ t.invalidatedBy = None => token[b].invalidatedBy = None
             /\ token[b].racedBy # None => t.racedBy # None
             /\ IF token[b].sealed THEN t.racedBy # None ELSE t.invalidatedBy # None
<1>1. token[b] \in Tokens /\ reason # None
  BY ReasonsAssumption DEF TypeOK
<1> QED  BY <1>1 DEF Invalidated, Tokens

LEMMA IssueKeepsAnswers ==
  ASSUME AnswerInv, FenceInv', UNCHANGED <<setting, writes, log, outcome>>,
         NEW n \in 1 .. MaxAttempts, Issue(n),
         \/ turn.pc = "ready" /\ n = 1
         \/ turn.pc = "backoff" /\ n = turn.attempt + 1
  PROVE  AnswerInv'
<1> USE DEF AnswerInv
<1> DEFINE new == <<turn.trigger, n>>
<1>1. TypeOK /\ TurnInv /\ \A b \in AttemptId : ~Awaiting(b)
  BY DEF FenceInv, StreamInv, Awaiting
<1>2. turn.trigger \in Trigger /\ ~Begun(new)
  BY <1>1, IssueIsNew
<1>3. new \in AttemptId
  BY <1>2 DEF AttemptId
<1>4. token'[new] = [NoToken EXCEPT !.pc = "handling", !.seq = seq, !.observed = state]
  BY <1>3 DEF Issue
<1>5. ASSUME NEW b \in AttemptId, b = new PROVE LiveAttempt(b)'
  <2>1. token'[b].pc = "handling" /\ ~token'[b].sealed
    BY <1>4, <1>5 DEF NoToken
  <2>2. /\ turn'.pc = "attempting" /\ turn'.trigger = turn.trigger
        /\ turn'.attempt = n
    BY <1>1 DEF Issue, TypeOK, Turns
  <2> QED  BY <1>5, <2>1, <2>2 DEF LiveAttempt, Awaiting
<1>6. ASSUME NEW b \in AttemptId, b # new
      PROVE  /\ token'[b].pc = token[b].pc /\ token'[b].sealed = token[b].sealed
             /\ token'[b].invalidatedBy = None => token[b].invalidatedBy = None
             /\ token[b].racedBy # None => token'[b].racedBy # None
  <2>1. token'[b] = token[b] \/ token'[b] = Invalidated(token[b], "superseded")
    BY <1>6 DEF Issue
  <2> QED  BY <1>1, <2>1, InvalidationIsSeen DEF FenceReasons
<1> HIDE DEF new
<1>7. RacedStays
  BY <1>2, <1>6 DEF RacedStays
<1>8. ASSUME NEW b \in AttemptId PROVE LiveAttempt(b)'
  <2>1. CASE b = new
    BY <1>5, <2>1
  <2>2. CASE b # new
    BY <1>1, <1>6, <1>7, <2>2, LiveStays
  <2> QED  BY <2>1, <2>2
<1>9. WriterInv'
  <2>1. \A b \in AttemptId : token[b].pc = "writing" => token'[b].pc = "writing"
    BY <1>2, <1>6 DEF Begun
  <2> QED  BY <2>1, WritersStay
<1>10. CommittedStays /\ \A b \in AttemptId : Acknowledged(b) => Accounted(b)'
  BY DEF CommittedStays, Acknowledged, Accounted
<1> QED  BY <1>7, <1>8, <1>9, <1>10, AttemptsMove DEF InLog

LEMMA ProceedKeepsAnswers ==
  ASSUME AnswerInv, FenceInv', UNCHANGED setting, Proceed
  PROVE  AnswerInv'
<1>1. CASE Refuse
  <2>1. /\ UNCHANGED <<token, log>> /\ turn.pc = "ready" /\ StreamInv /\ WriterInv
        /\ FenceInv
    BY <1>1 DEF Refuse, AnswerInv, FenceInv
  <2>2. CommittedStays
    BY <1>1, <2>1, TurnEndsOnce DEF Refuse
  <2>3. WriterInv' /\ \A a \in AttemptId : Acknowledged(a) => Acknowledged(a)'
    BY <1>1, <2>1, RecordedKeepsWriters DEF Refuse
  <2> QED  BY <2>1, <2>2, <2>3, AttemptsWait
<1>2. CASE FirstAttempt
  <2>1. 1 \in 1 .. MaxAttempts
    BY MaxAttemptsAssumption
  <2> QED  BY <1>2, <2>1, IssueKeepsAnswers DEF FirstAttempt
<1>3. CASE Retry
  <2>1. turn.attempt + 1 \in 1 .. MaxAttempts
    BY <1>3, MaxAttemptsAssumption
       DEF AnswerInv, FenceInv, StreamInv, TypeOK, Retry, Turns
  <2> QED  BY <1>3, <2>1, IssueKeepsAnswers DEF Retry
<1> QED  BY <1>1, <1>2, <1>3 DEF Proceed

(***************************************************************************)
(* A timeout either ends the attempt's right to write or is noticed by the *)
(* attempt whose write it crosses.                                         *)
(***************************************************************************)
LEMMA TimeoutKeepsAnswers ==
  ASSUME AnswerInv, FenceInv', UNCHANGED setting, Timeout
  PROVE  AnswerInv'
<1> USE DEF AnswerInv
<1>1. TypeOK /\ UNCHANGED <<writes, log>> /\ setting.timeouts
  BY DEF Timeout, FenceInv, StreamInv
<1>2. ASSUME NEW b \in AttemptId
      PROVE  token'[b] = IF b = Current THEN Invalidated(token[b], "timeout")
                                        ELSE token[b]
  BY <1>1 DEF Timeout, TypeOK
<1>3. ASSUME NEW b \in AttemptId
      PROVE  /\ token'[b].pc = token[b].pc
             /\ token[b].racedBy # None => token'[b].racedBy # None
             /\ b = Current => /\ token'[b].sealed = token[b].sealed
                               /\ token'[b].sealed => token'[b].racedBy # None
                               /\ ~token'[b].sealed => token'[b].invalidatedBy # None
  BY <1>1, <1>2, InvalidationIsSeen DEF FenceReasons
<1>4. RacedStays
  BY <1>3 DEF RacedStays
<1>5. CommittedStays
  BY CatchEndsOnce DEF Timeout
<1>6. ASSUME NEW b \in AttemptId
      PROVE  LiveAttempt(b)' \/ (token'[b] = token[b] /\ (Awaiting(b) => UNCHANGED turn))
  <2>1. CASE b = Current
    BY <1>1, <1>3, <2>1 DEF LiveAttempt, Excused
  <2>2. CASE b # Current
    BY <1>2, <2>2 DEF Awaiting, Current
  <2> QED  BY <2>1, <2>2
<1>7. WriterInv'
  BY <1>1, <1>3, WritersStay
<1>8. \A b \in AttemptId : Acknowledged(b) => Accounted(b)'
  BY <1>1 DEF Acknowledged, Accounted
<1> QED  BY <1>1, <1>4, <1>5, <1>6, <1>7, <1>8, AttemptsMove DEF InLog

\* The head of the chain is answered, and the log has it only if it is there.
LEMMA StoreKeepsAnswers ==
  ASSUME AnswerInv, FenceInv', UNCHANGED setting, StoreAnswers
  PROVE  AnswerInv'
<1> USE DEF AnswerInv
<1>1. /\ AppendInFlight /\ UNCHANGED <<token, turn, outcome>>
      /\ writes \in Seq(Writes) /\ log \in Seq(Events)
  BY DEF StoreAnswers, StoreAppend, AppendFails, FenceInv, StreamInv, TypeOK
<1>2. PICK r \in {"ok", "conflict", "failed"} :
        /\ Answer(r)
        /\ \/ log' = log
           \/ log' = Append(log, Head(writes).event) /\ (r = "ok" \/ setting.lostAnswers)
  BY DEF StoreAnswers, StoreAppend, AppendFails
<1> DEFINE head == Head(writes)
           answered == [head EXCEPT !.result = r]
<1>3. /\ head \in Writes /\ head \in Chain(writes) /\ head = writes[1]
      /\ head.result = "queued" /\ head.event \in Events
      /\ Len(writes) \in Nat /\ Len(writes) >= 1
  <2>1. writes # <<>> /\ head.result = "queued"
    BY <1>1 DEF AppendInFlight
  <2>2. head \in Writes /\ head \in Chain(writes)
    BY <1>1, <2>1, ChainShrinks
  <2>3. head = writes[1] /\ Len(writes) \in Nat /\ Len(writes) >= 1
    BY <1>1, <2>1, HeadTailProperties, LenProperties, EmptySeq
  <2>4. head.event \in Events
    BY <2>2 DEF Writes
  <2> QED  BY <2>1, <2>2, <2>3, <2>4
<1>4. /\ answered.event = head.event /\ answered.result = r
      /\ Chain(writes') \subseteq Chain(writes) \cup {answered}
  BY <1>1, <1>2, <1>3, ChainAnswered DEF Writes
<1>5. /\ Len(writes') = Len(writes)
      /\ \A i \in 1 .. Len(writes) : writes'[i] = IF i = 1 THEN answered ELSE writes[i]
  <2>1. answered \in Writes /\ writes' = [writes EXCEPT ![1] = answered]
    BY <1>2, <1>3 DEF Answer, Writes
  <2> HIDE DEF answered
  <2> QED  BY <1>1, <1>3, <2>1, ExceptSeq
<1> HIDE DEF answered
<1>6. WriterInv'
  <2>1. \A a \in AttemptId : WritesOf(writes', a) = WritesOf(writes, a)
    BY <1>1, <1>2, WritesAnswered
  <2> QED  BY <1>1, <1>3, <1>4, <2>1 DEF WriterInv
<1>7. ASSUME NEW a \in AttemptId, Acknowledged(a) PROVE Acknowledged(a)'
  <2>1. PICK i \in 1 .. Len(writes) : writes[i].event.by = a /\ writes[i].result = "ok"
    BY <1>7 DEF Acknowledged
  <2>2. i # 1
    BY <1>3, <2>1
  <2> QED  BY <1>5, <2>1, <2>2 DEF Acknowledged
<1>8. ASSUME ~setting.lostAnswers, NEW a \in AttemptId, InLog(a)', ~InLog(a)
      PROVE  Acknowledged(a)'
  <2>1. log' = Append(log, head.event) /\ r = "ok"
    BY <1>2, <1>8 DEF InLog
  <2>2. /\ Len(log) \in Nat /\ Len(log') = Len(log) + 1
        /\ \A k \in 1 .. Len(log) : log'[k] = log[k]
        /\ log'[Len(log) + 1] = head.event
    BY <1>1, <1>3, <2>1, LenProperties, CommitsOfAppend
  <2>3. head.event.by = a
    BY <1>8, <2>2 DEF InLog
  <2>4. 1 \in 1 .. Len(writes') /\ writes'[1] = answered
    BY <1>3, <1>5
  <2> QED  BY <1>4, <2>1, <2>3, <2>4 DEF Acknowledged
<1>9. RacedStays /\ CommittedStays /\ \A a \in AttemptId : token'[a] = token[a]
  BY <1>1, TokensUnchanged DEF CommittedStays
<1> QED  BY <1>1, <1>6, <1>7, <1>8, <1>9, AttemptsMove DEF Accounted

\* The head of the chain goes: only what it acknowledged is affected.
LEMMA HeadGoes ==
  ASSUME StreamInv, WriterInv, AppendAnswered, writes' = Tail(writes)
  PROVE  /\ Chain(writes') \subseteq Chain(writes)
         /\ \A a \in AttemptId : \A i, j \in WritesOf(writes', a) : i = j
         /\ \A a \in AttemptId : Acknowledged(a) =>
              \/ Acknowledged(a)'
              \/ AnsweredEvent.by = a /\ Head(writes).result = "ok"
         /\ AnsweredEvent.by \in AttemptId =>
              /\ AnsweredEvent.type = "transition"
              /\ token[AnsweredEvent.by].pc = "writing"
              /\ \A x \in Chain(writes') : x.event.by # AnsweredEvent.by
         /\ AnsweredEvent.by \in AttemptId /\ Head(writes).result # "ok" =>
              ~Acknowledged(AnsweredEvent.by)
<1>1. writes \in Seq(Writes) /\ writes # <<>>
  BY DEF StreamInv, TypeOK, AppendAnswered
<1>2. /\ Len(writes) \in Nat /\ Len(writes) >= 1 /\ Len(writes') = Len(writes) - 1
      /\ \A i \in 1 .. Len(writes') : writes'[i] = writes[i + 1]
      /\ Head(writes) = writes[1]
  BY <1>1, HeadTailProperties, LenProperties, EmptySeq
<1>3. /\ Chain(writes') \subseteq Chain(writes) /\ Head(writes) \in Chain(writes)
  BY <1>1, ChainShrinks
<1>4. ASSUME NEW a \in AttemptId, NEW i \in WritesOf(writes', a)
      PROVE  i + 1 \in WritesOf(writes, a) /\ i \in Nat \ {0}
  BY <1>1, <1>4, WritesShrink
<1>5. ASSUME NEW a \in AttemptId, NEW i \in WritesOf(writes', a),
             NEW j \in WritesOf(writes', a)
      PROVE  i = j
  <2>1. i + 1 = j + 1 /\ i \in Nat /\ j \in Nat
    BY <1>4, <1>5 DEF WriterInv
  <2> QED  BY <2>1
<1>6. ASSUME NEW a \in AttemptId, Acknowledged(a)
      PROVE  \/ Acknowledged(a)'
             \/ AnsweredEvent.by = a /\ Head(writes).result = "ok"
  <2>1. PICK i \in 1 .. Len(writes) : writes[i].event.by = a /\ writes[i].result = "ok"
    BY <1>6 DEF Acknowledged
  <2>2. CASE i = 1
    BY <1>2, <2>1, <2>2 DEF AnsweredEvent
  <2>3. CASE i # 1
    <3>1. i - 1 \in 1 .. Len(writes') /\ writes'[i - 1] = writes[i]
      BY <1>2, <2>3
    <3> QED  BY <2>1, <3>1 DEF Acknowledged
  <2> QED  BY <2>2, <2>3
<1>7. ASSUME NEW a \in AttemptId, a = AnsweredEvent.by
      PROVE  /\ \A i \in WritesOf(writes, a) : i = 1
             /\ AnsweredEvent.type = "transition" /\ token[a].pc = "writing"
  <2>1. 1 \in WritesOf(writes, a)
    BY <1>1, <1>7, WritesShrink DEF AnsweredEvent
  <2> QED  BY <1>3, <1>7, <2>1 DEF WriterInv, AnsweredEvent
<1>8. ASSUME NEW a \in AttemptId, a = AnsweredEvent.by, NEW x \in Chain(writes')
      PROVE  x.event.by # a
  <2>1. PICK i \in 1 .. Len(writes') : x = writes'[i]
    BY DEF Chain
  <2>2. i + 1 \in 1 .. Len(writes) /\ i + 1 # 1 /\ x = writes[i + 1]
    BY <1>2, <2>1
  <2> QED  BY <1>7, <1>8, <2>2 DEF WritesOf
<1>9. ASSUME NEW a \in AttemptId, a = AnsweredEvent.by, Head(writes).result # "ok"
      PROVE  ~Acknowledged(a)
  BY <1>2, <1>7, <1>9 DEF Acknowledged, WritesOf
<1> QED  BY <1>3, <1>5, <1>6, <1>7, <1>8, <1>9

LEMMA SettleKeepsAnswers ==
  ASSUME AnswerInv, FenceInv', UNCHANGED setting, WriteSettles
  PROVE  AnswerInv'
<1> USE DEF AnswerInv
<1>1. /\ TypeOK /\ StreamInv /\ TurnInv /\ AppendAnswered
      /\ writes' = Tail(writes) /\ UNCHANGED log
  BY DEF WriteSettles, CommitLands, CommitConflicts, CommitUnstored, InitLands,
         InitFails, NoteSettles, Answered, FenceInv, StreamInv
<1> DEFINE by == AnsweredEvent.by
<1>2. /\ Chain(writes') \subseteq Chain(writes)
      /\ \A a \in AttemptId : \A i, j \in WritesOf(writes', a) : i = j
      /\ \A a \in AttemptId : Acknowledged(a) =>
           Acknowledged(a)' \/ (by = a /\ Head(writes).result = "ok")
      /\ by \in AttemptId =>
           /\ AnsweredEvent.type = "transition" /\ token[by].pc = "writing"
           /\ \A x \in Chain(writes') : x.event.by # by
      /\ by \in AttemptId /\ Head(writes).result # "ok" => ~Acknowledged(by)
  BY <1>1, HeadGoes
<1>3. by = InitId => turn.pc = "initializing" /\ by \notin AttemptId
  BY <1>1, InitWritesShrink, IdsDiffer
     DEF FenceInv, ChainInv, AnsweredEvent, AppendAnswered, TypeOK
<1>4. ASSUME by \notin AttemptId, UNCHANGED token, CommittedStays,
             turn.pc # "attempting" \/ UNCHANGED turn
      PROVE  AnswerInv'
  <2>1. WriterInv' /\ \A a \in AttemptId : Acknowledged(a) => Acknowledged(a)'
    BY <1>2, <1>4 DEF WriterInv
  <2> QED  BY <1>1, <1>4, <2>1, AttemptsWait
<1>5. ASSUME NEW a \in AttemptId, a = by, token' = [token EXCEPT ![a].pc = "over"],
             CommittedStays, ~Awaiting(a) => UNCHANGED turn,
             Head(writes).result = "ok" => Accounted(a)'
      PROVE  AnswerInv'
  <2>1. /\ token'[a].pc = "over" /\ RacedStays
        /\ \A b \in AttemptId \ {a} : token'[b] = token[b]
    BY <1>1, <1>5, PhaseChanges
  <2>2. LiveAttempt(a)'
    BY <2>1 DEF LiveAttempt
  <2>3. WriterInv'
    <3>1. ASSUME NEW x \in Chain(writes'), x.event.by \in AttemptId
          PROVE  x.event.type = "transition" /\ token'[x.event.by].pc = "writing"
      BY <1>2, <1>5, <2>1, <3>1 DEF WriterInv
    <3> QED  BY <1>2, <3>1 DEF WriterInv
  <2>4. \A b \in AttemptId : Acknowledged(b) => Accounted(b)'
    BY <1>2, <1>5 DEF Accounted
  <2> QED  BY <1>1, <1>5, <2>1, <2>2, <2>3, <2>4, OneAttemptMoves
<1>6. CASE CommitLands
  <2>1. /\ IsCommit /\ token' = [token EXCEPT ![by].pc = "over"] /\ Resolve(by)
    BY <1>6 DEF CommitLands
  <2>2. Awaiting(by) \/ Excused(by)
    BY <1>2, <2>1 DEF LiveAttempt, IsCommit
  <2>3. CASE Awaiting(by) /\ EndTurn("committed")
    <3>1. by[1] = turn.trigger /\ turn.pc # "idle" /\ turn.trigger \in Trigger
      BY <1>1, <2>3 DEF Awaiting, TurnInv
    <3>2. outcome'[turn.trigger] = "committed"
      BY <1>1, <2>3, <3>1 DEF EndTurn, TypeOK
    <3>3. CommittedStays
      BY <2>3, <3>1, TurnEndsOnce
    <3>4. ASSUME NEW a \in AttemptId, a = by PROVE Accounted(a)'
      BY <3>1, <3>2, <3>4 DEF Accounted
    <3> QED  BY <1>5, <2>1, <2>3, <3>3, <3>4 DEF IsCommit
  <2>4. CASE ~Awaiting(by) /\ UNCHANGED <<turn, outcome>>
    <3>1. ASSUME NEW a \in AttemptId, a = by PROVE Accounted(a)'
      <4>1. RacedStays /\ Begun(a) /\ Excused(a)
        BY <1>1, <1>2, <2>1, <2>2, <2>4, <3>1, PhaseChanges DEF Begun
      <4> QED  BY <4>1, ExcuseStays DEF Accounted
    <3> QED  BY <1>5, <2>1, <2>4, <3>1 DEF IsCommit, CommittedStays
  <2> QED  BY <2>1, <2>3, <2>4 DEF Resolve
<1>7. ASSUME IsCommit, NEW code, AttemptFails(by, code), Head(writes).result # "ok"
      PROVE  AnswerInv'
  <2>1. CommittedStays /\ (~Awaiting(by) => UNCHANGED turn)
    BY <1>7, CatchEndsOnce DEF AttemptFails
  <2> QED  BY <1>5, <1>7, <2>1 DEF IsCommit, AttemptFails
<1>8. CASE CommitConflicts
  BY <1>7, <1>8 DEF CommitConflicts, Answered
<1>9. CASE CommitUnstored
  BY <1>7, <1>9 DEF CommitUnstored, Answered
<1>10. CASE InitLands
  BY <1>3, <1>4, <1>10 DEF InitLands, CommittedStays
<1>11. CASE InitFails
  <2>1. by = InitId /\ UNCHANGED token /\ EndTurn(AnsweredError)
    BY <1>11 DEF InitFails
  <2> QED  BY <1>3, <1>4, <2>1, TurnEndsOnce
<1>12. CASE NoteSettles
  BY <1>2, <1>4, <1>12 DEF NoteSettles, CommittedStays
<1> QED  BY <1>6, <1>8, <1>9, <1>10, <1>11, <1>12 DEF WriteSettles

LEMMA ForeignKeepsAnswers ==
  ASSUME AnswerInv, FenceInv', UNCHANGED setting,
         ForeignForget \/ \E to \in State : ForeignCommit(to)
  PROVE  AnswerInv'
<1> USE DEF AnswerInv
<1>1. UNCHANGED <<writes, token, turn, outcome>>
  BY DEF ForeignForget, ForeignCommit
<1>2. ASSUME NEW a \in AttemptId, InLog(a)' PROVE InLog(a)
  <2>1. CASE ForeignForget
    BY <1>2, <2>1, EmptySeq DEF InLog, ForeignForget
  <2>2. ASSUME NEW to \in State, ForeignCommit(to) PROVE InLog(a)
    <3> DEFINE from == IF log = <<>> THEN None ELSE Replay(log).state
               e    == Transition(LatestSeq(log) + 1, from, to, ForeignId(foreign + 1))
    <3>1. /\ log' = Append(log, e) /\ e.by = ForeignId(foreign + 1)
          /\ foreign + 1 \in Nat /\ log \in Seq(Events)
      BY <2>2, BoundsAssumption
         DEF ForeignCommit, Transition, FenceInv, StreamInv, TypeOK
    <3> HIDE DEF e
    <3>2. /\ Len(log) \in Nat /\ Len(log') = Len(log) + 1
          /\ \A i \in 1 .. Len(log) : log'[i] = log[i]
          /\ log'[Len(log) + 1] = e
      BY <3>1, LenProperties, AppendProperties
    <3>3. e.by # a
      BY <3>1, IdsDiffer
    <3>4. PICK k \in 1 .. Len(log') : log'[k].by = a
      BY <1>2 DEF InLog
    <3>5. k \in 1 .. Len(log)
      BY <3>2, <3>3, <3>4
    <3> QED  BY <3>2, <3>4, <3>5 DEF InLog
  <2> QED  BY <2>1, <2>2
<1>3. RacedStays /\ CommittedStays /\ \A a \in AttemptId : token'[a] = token[a]
  BY <1>1, TokensUnchanged DEF CommittedStays
<1>4. WriterInv' /\ \A a \in AttemptId : Acknowledged(a) => Accounted(a)'
  BY <1>1, WritersStay DEF Acknowledged, Accounted
<1> QED  BY <1>1, <1>2, <1>3, <1>4, AttemptsMove

LEMMA SettingStays == [Next]_vars => UNCHANGED setting
  BY DEF Next, Begin, Reconcile, StoreLoad, LoadFails, Hydrate, Reload, Proceed, Refuse,
         FirstAttempt, Retry, HandlerReturns, HandlerFails, Fenced, Commit,
         CommitWarned, CommitRejected, Timeout, StoreAnswers, StoreAppend,
         AppendFails, WriteSettles, CommitLands, CommitConflicts, CommitUnstored,
         InitLands, InitFails, NoteSettles, RecordBeside, ForeignCommit,
         ForeignForget, Rest, vars, bounds

LEMMA StepKeepsAnswers == AnswerInv /\ [Next]_vars => AnswerInv'
<1> SUFFICES ASSUME AnswerInv, [Next]_vars PROVE AnswerInv'
  OBVIOUS
<1>1. FenceInv' /\ UNCHANGED setting /\ StreamInv /\ WriterInv
  BY StepKeepsFence, SettingStays DEF AnswerInv, FenceInv
<1>2. ASSUME UNCHANGED <<token, log, turn, outcome>>, WriterInv',
             \A a \in AttemptId : Acknowledged(a) => Acknowledged(a)'
      PROVE  AnswerInv'
  BY <1>1, <1>2, AttemptsWait DEF CommittedStays
<1>3. CASE RecordBeside
  BY <1>1, <1>2, <1>3, RecordedKeepsWriters DEF RecordBeside
<1>4. CASE UNCHANGED vars
  BY <1>1, <1>2, <1>4, WritersStay DEF vars, Acknowledged
<1> QED  BY <1>1, <1>3, <1>4, BeginKeepsAnswers, ReconcileKeepsAnswers,
            ProceedKeepsAnswers, HandlerReturnsKeepsAnswers, TimeoutKeepsAnswers,
            StoreKeepsAnswers, SettleKeepsAnswers, ForeignKeepsAnswers DEF Next, Rest

-----------------------------------------------------------------------------
\* A sender told of an error: the log has nothing of it, or it was raced.
LEMMA ErrorsAreRaced ==
  ASSUME AnswerInv, ~setting.lostAnswers, NEW t \in Trigger, outcome[t] \in Errors,
         NEW i \in Commits(log), log[i].by \in AttemptId, log[i].by[1] = t
  PROVE  Excused(log[i].by)
<1> DEFINE a == log[i].by
<1>1. InLog(a)
  BY DEF InLog, Commits
<1>2. outcome[t] \notin {"committed", "pending"}
  BY DEF Errors, StoreErrors
<1>3. Acknowledged(a) => Awaiting(a) \/ Excused(a)
  BY DEF AnswerInv, Acknowledged, WriterInv, LiveAttempt, Chain
<1>4. ~Awaiting(a)
  BY <1>2 DEF Awaiting, AnswerInv, FenceInv, TurnInv
<1> QED  BY <1>1, <1>2, <1>3, <1>4 DEF AnswerInv, Accounted

(***************************************************************************)
(* What a sender is told is true: a send() that resolved has committed,    *)
(* and one that rejected has not, where no timeout can cross a commit and  *)
(* a store answers for what it did (src/dispatch.ts, docs/errors.md).      *)
(***************************************************************************)
THEOREM AnswersAreAlwaysTrue == Spec => []AnswersAreTrue
<1>1. ASSUME AnswerInv, DecisionInv PROVE AnswersAreTrue
  <2> SUFFICES ASSUME NEW t \in Trigger
               PROVE  /\ outcome[t] = "committed" /\ NeverDeleted => Committed(t)
                      /\ outcome[t] \in Errors /\ ~setting.timeouts
                         /\ ~setting.lostAnswers => ~Committed(t)
    BY DEF AnswersAreTrue
  <2>1. outcome[t] = "committed" /\ NeverDeleted => Committed(t)
    BY <1>1 DEF DecisionInv, Agreement, AnswerAgrees
  <2>2. outcome[t] \in Errors /\ ~setting.timeouts /\ ~setting.lostAnswers
          => ~Committed(t)
    BY <1>1, ErrorsAreRaced DEF Committed, Excused
  <2> QED  BY <2>1, <2>2
<1> QED  BY <1>1, InitAnswer, StepKeepsAnswers, InitDecision, StepKeepsDecision, PTL
         DEF Spec

(***************************************************************************)
(* A sender told of an error although its trigger has committed was raced, *)
(* and the token of that attempt says so, which is what commit.raced       *)
(* reports, as long as a failed append is not in the log.                  *)
(***************************************************************************)
THEOREM FailureIsAlwaysReported ==
  Spec => [](~setting.lostAnswers => FailureIsReported)
<1>1. ASSUME AnswerInv PROVE ~setting.lostAnswers => FailureIsReported
  BY <1>1, ErrorsAreRaced DEF FailureIsReported, Excused
<1> QED  BY <1>1, InitAnswer, StepKeepsAnswers, PTL DEF Spec

=============================================================================
