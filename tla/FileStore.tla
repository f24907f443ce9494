----------------------------- MODULE FileStore -----------------------------
(***************************************************************************)
(* The durable store (src/stores/file.ts): an append log and a snapshot    *)
(* file per key, compaction, retention, and the death of the process       *)
(* between two file operations.                                            *)
(*                                                                         *)
(* Every operation of the store is synchronous, so operations do not       *)
(* interleave; what can come between two file operations of one of them is *)
(* the end of the process.  A step of the model is one file operation with *)
(* the memory updates around it, and `op` says how far an operation is.    *)
(* Files survive a crash; the sequence cache and the byte table do not.    *)
(*                                                                         *)
(* A file is reduced to its lines.  What was not written whole is a        *)
(* fragment at the end, and a line written onto a fragment is corrupt.     *)
(***************************************************************************)
EXTENDS EventLog, FiniteSets, SequencesExt

CONSTANTS
  Key,
  State,       \* the states a commit may enter
  Retentions,  \* the configurations: [policy, perLogBytes, totalBytes]
  Failures,    \* where a file operation may stop half way
  MaxSeq,      \* bound: the last sequence of a key
  MaxLines,    \* bound: how many lines a log has when it is appended to
  MaxCrashes,  \* bound: how many failures happen
  Nothing,     \* no file, no commit, no entry
  Half         \* a snapshot file that was not written whole

Fragment == [type |-> "fragment"]
Corrupt == [type |-> "corrupt"]

\* The lines of a log file, and what a snapshot file holds.
Line ==
  [type : {"transition"}, seq : Nat, from : {Nothing}, to : State, by : {Nothing}]
    \cup [type : {"note"}, seq : Nat, from : {Nothing}, to : {Nothing}, by : {Nothing}]
    \cup {Fragment, Corrupt}
Snapshots == [seq : Nat, state : State]

ASSUME BoundsAssumption ==
  MaxSeq \in Nat /\ MaxLines \in Nat /\ MaxCrashes \in Nat
ASSUME RetentionAssumption ==
  \A r \in Retentions : /\ r.policy \in {"none", "reject", "compact"}
                        /\ r.perLogBytes \in Nat
                        /\ r.totalBytes \in Nat \cup {Nothing}
                        /\ r.policy # "none" => r.totalBytes \in Nat
ASSUME FailuresAssumption ==
  Failures \subseteq {"torn line", "short write", "half snapshot", "half log",
                      "half forget"}

ASSUME NothingAssumption ==
  /\ Nothing \notin Int \cup Seq(Line) \cup Snapshots
  /\ Half \notin Snapshots \cup {Nothing}
ASSUME KeyAssumption == IsFiniteSet(Key)

VARIABLES
  retention,  \* the configuration, fixed when the store is built
  log,        \* each key's log file
  snap,       \* each key's snapshot file: [seq, state], or Half of one
  cached,     \* #seq: the sequence of each key, once it is known
  counted,    \* #bytes: bytes per log, or Nothing before it is seeded
  snapBytes,  \* #snapshotBytes
  total,      \* #total
  op,         \* the operation in progress
  acked,      \* the last commit of each key that append() has resolved for
  crashes     \* how many failures happened

files == <<log, snap>>
table == <<counted, snapBytes, total>>
vars == <<retention, files, cached, table, op, acked, crashes>>

Idle == [pc |-> "idle"]

\* Bytes, in units of a fragment.
LineSize == 2
FragmentSize == 1
SnapshotSize == 3

IsTorn(file) ==
  file # Nothing /\ file # <<>> /\ file[Len(file)] = Fragment

Mutant_Repaired(file) == file

\* The truncation at the end of #readLog, down to the last newline.
Repaired(file) == IF IsTorn(file) THEN SubSeq(file, 1, Len(file) - 1) ELSE file

\* The whole lines of a log file.
Lines(file) == IF file = Nothing THEN <<>> ELSE Repaired(file)

IsCorrupt(file) ==
  \E i \in 1 .. Len(Lines(file)) : Lines(file)[i] = Corrupt

LogSize(file) ==
  LET corrupt == {i \in 1 .. Len(Lines(file)) : Lines(file)[i] = Corrupt}
  IN  LineSize * Len(Lines(file)) + FragmentSize * Cardinality(corrupt)
        + IF IsTorn(file) THEN FragmentSize ELSE 0

SnapSize(file) == IF file = Nothing THEN 0 ELSE SnapshotSize

\* appendFileSync: a line after a fragment becomes one with it.
Written(file, line) ==
  IF file = Nothing THEN <<line>>
  ELSE IF IsTorn(file)
         THEN Append(Repaired(file), IF line = Fragment THEN Fragment
                                                        ELSE Corrupt)
         ELSE Append(file, line)

\* filter(): the lines that are among those to keep, in their order.
Only(lines, keep) ==
  FoldLeft(LAMBDA kept, line : IF line \in keep THEN Append(kept, line) ELSE kept,
           <<>>, lines)

SnapSeq(file) == IF file = Nothing THEN EMPTY_SEQ ELSE file.seq

\* replay() of a log onto a snapshot: the last commit the files hold.
Held(file, snapshot) ==
  IF LatestSeq(Lines(file)) > SnapSeq(snapshot) THEN Replay(Lines(file))
                                                ELSE snapshot

Readable(k) == ~IsCorrupt(log[k]) /\ snap[k] # Half

CommitLine(seq, state) == Transition(seq, Nothing, state, Nothing)
NoteLine(seq) == Note(seq, Nothing, Nothing)

Init ==
  /\ retention \in Retentions
  /\ log = [k \in Key |-> Nothing]
  /\ snap = [k \in Key |-> Nothing]
  /\ cached = [k \in Key |-> Nothing]
  /\ counted = Nothing
  /\ snapBytes = [k \in Key |-> 0]
  /\ total = 0
  /\ op = Idle
  /\ acked = [k \in Key |-> Nothing]
  /\ crashes = 0

-----------------------------------------------------------------------------
(* The sequence cache and the byte table.                                  *)

Mutant_CurrentSeq(k) ==
  IF cached[k] # Nothing THEN cached[k] ELSE LatestSeq(Lines(log[k]))

\* #currentSeq needs no file when the sequence is cached, and both otherwise.
KnowsSeq(k) == cached[k] # Nothing \/ Readable(k)

\* The sequence of the log, or of the snapshot that replaced it.
CurrentSeq(k) ==
  IF cached[k] # Nothing THEN cached[k]
  ELSE LET held == Held(log[k], snap[k])
       IN  IF held = Nothing THEN EMPTY_SEQ ELSE held.seq

\* The log of k once #currentSeq has answered: read, if it was, and repaired.
Consulted(k) == IF cached[k] # Nothing THEN log[k] ELSE Repaired(log[k])

\* #seeded: sizes as they are on disk, of the keys that have a log.
Sizes(files_) == [k \in {x \in Key : files_[x] # Nothing} |-> LogSize(files_[k])]

SnapSizes(files_) ==
  [k \in Key |-> IF files_[k] # Nothing THEN SnapSize(snap[k]) ELSE 0]

Sum(f) == FoldFunction(LAMBDA x, y : x + y, 0, f)

Seed(files_) ==
  /\ counted' = Sizes(files_)
  /\ snapBytes' = SnapSizes(files_)
  /\ total' = Sum(Sizes(files_)) + Sum(SnapSizes(files_))

\* A call that asks for the table: `usage`, refuseIfFull, compact.
SeedOnce(files_) ==
  IF counted = Nothing THEN Seed(files_) ELSE UNCHANGED table

IsCounted(k) == counted # Nothing /\ k \in DOMAIN counted

\* #account: a line was written to k's log, which had been as in `read`.
Account(k, read) ==
  IF counted # Nothing
    THEN /\ counted' = [x \in DOMAIN counted \cup {k} |->
              IF x # k THEN counted[x]
              ELSE LineSize + IF IsCounted(k) THEN counted[k] ELSE 0]
         /\ total' = total + LineSize
         /\ UNCHANGED snapBytes
    ELSE IF retention.totalBytes = Nothing THEN UNCHANGED table
    ELSE /\ counted' = Sizes(log')
         /\ snapBytes' = SnapSizes(IF retention.policy = "reject" THEN read
                                                                 ELSE log')
         /\ total' = Sum(counted') + Sum(snapBytes')

Mutant_AccountSnapshot(k, file) ==
  UNCHANGED table

\* #accountSnapshot: the snapshot file of k is `file` now.
AccountSnapshot(k, file) ==
  IF counted = Nothing
    THEN UNCHANGED table
    ELSE /\ total' = total + SnapSize(file) - snapBytes[k]
         /\ snapBytes' = [snapBytes EXCEPT ![k] = SnapSize(file)]
         /\ UNCHANGED counted

\* #refuseIfFull: a key the table does not know, and no room for its line.
IsRefused(k, files_) ==
  LET known == IF counted = Nothing THEN Sizes(files_) ELSE counted
      bytes == IF counted = Nothing
                 THEN Sum(Sizes(files_)) + Sum(SnapSizes(files_)) ELSE total
  IN  /\ retention.policy = "reject"
      /\ k \notin DOMAIN known
      /\ bytes + LineSize > retention.totalBytes

-----------------------------------------------------------------------------
(* append(), load() and snapshot().                                        *)

\* load(): the torn tail of the log is cut off, and the sequence of a key
\* that holds anything is cached.  A file that cannot be parsed throws.
Load(k) ==
  /\ op = Idle
  /\ log' = [log EXCEPT ![k] = Repaired(@)]
  /\ cached' = [cached EXCEPT ![k] =
       IF Readable(k) /\ (Lines(log[k]) # <<>> \/ snap[k] # Nothing)
         THEN CurrentSeq(k) ELSE @]
  /\ UNCHANGED <<retention, snap, table, op, acked, crashes>>

\* append() with another sequence than the key's: the caller has a conflict.
AppendConflicts(k) ==
  /\ op = Idle
  /\ KnowsSeq(k)
  /\ log' = [log EXCEPT ![k] = Consulted(k)]
  /\ cached' = [cached EXCEPT ![k] = CurrentSeq(k)]
  /\ UNCHANGED <<retention, snap, table, op, acked, crashes>>

\* The lines a writer at the key's sequence may append.
NextLines(k) ==
  {CommitLine(CurrentSeq(k) + 1, s) : s \in IF CurrentSeq(k) < MaxSeq THEN State ELSE {}}
    \cup {NoteLine(n) : n \in {CurrentSeq(k)} \cap Nat}

MayAppend(k) ==
  /\ op = Idle
  /\ KnowsSeq(k)
  /\ Len(Lines(log[k])) < MaxLines

StoreFull(k) ==
  LET read == [log EXCEPT ![k] = Consulted(k)]
  IN  /\ MayAppend(k)
      /\ IsRefused(k, read)
      /\ log' = read
      /\ cached' = [cached EXCEPT ![k] = CurrentSeq(k)]
      /\ SeedOnce(read)
      /\ UNCHANGED <<retention, snap, op, acked, crashes>>

\* The line is written whole.  Under "reject" the table was seeded before it.
AppendLine(k, line) ==
  LET read == [log EXCEPT ![k] = Consulted(k)]
  IN  /\ MayAppend(k)
      /\ ~IsRefused(k, read)
      /\ log' = [log EXCEPT ![k] = Written(Consulted(k), line)]
      /\ Account(k, read)
      /\ cached' = [cached EXCEPT ![k] =
                      IF line.type = "transition" THEN line.seq ELSE CurrentSeq(k)]
      /\ op' = [pc |-> "appended", key |-> k, line |-> line]
      /\ UNCHANGED <<retention, snap, acked, crashes>>

MayFail(failure) == failure \in Failures /\ crashes < MaxCrashes

\* The process ends: what was in memory is gone.
Die ==
  /\ cached' = [k \in Key |-> Nothing]
  /\ counted' = Nothing
  /\ snapBytes' = [k \in Key |-> 0]
  /\ total' = 0
  /\ op' = Idle
  /\ crashes' = crashes + 1

\* The disk is full: the call throws, and the process goes on.
Throw ==
  /\ op' = Idle
  /\ crashes' = crashes + 1
  /\ UNCHANGED <<cached, table>>

\* appendFileSync stops in the middle of the line.
AppendTears(k) ==
  LET read == [log EXCEPT ![k] = Consulted(k)]
  IN  /\ MayAppend(k)
      /\ ~IsRefused(k, read)
      /\ log' = [log EXCEPT ![k] = Written(Consulted(k), Fragment)]
      /\ \/ MayFail("torn line") /\ Die
         \/ /\ MayFail("short write")
            /\ op' = Idle
            /\ crashes' = crashes + 1
            /\ cached' = [cached EXCEPT ![k] = CurrentSeq(k)]
            /\ IF retention.policy = "reject" THEN SeedOnce(read)
                                              ELSE UNCHANGED table
      /\ UNCHANGED <<retention, snap, acked>>

LogBytes(k) == IF IsCounted(k) THEN counted[k] ELSE LogSize(log[k])

IsOversized(k) ==
  retention.perLogBytes # 0 /\ LogBytes(k) > retention.perLogBytes

\* append() resolves: its writer may rely on the commit from now on.
Resolved(line) ==
  acked' = [acked EXCEPT ![op.key] =
              IF line.type = "transition"
                THEN [seq |-> line.seq, state |-> line.to] ELSE @]

AppendReturns ==
  /\ op.pc = "appended"
  /\ ~IsOversized(op.key)
  /\ Resolved(op.line)
  /\ op' = Idle
  /\ UNCHANGED <<retention, files, cached, table, crashes>>

\* snapshot(), which an eviction calls with a commit of the resident record.
\* Written under a temporary name and renamed: there is nothing in between.
Snapshot(k) ==
  /\ op = Idle
  /\ snap[k] # Half
  /\ \E i \in Commits(Lines(log[k])) :
       LET line == Lines(log[k])[i]
       IN  /\ line.seq > SnapSeq(snap[k])
           /\ snap' = [snap EXCEPT ![k] = [seq |-> line.seq,
                                           state |-> line.to]]
  /\ AccountSnapshot(k, snap'[k])
  /\ UNCHANGED <<retention, log, cached, op, acked, crashes>>

-----------------------------------------------------------------------------
(* Compaction: one log behind an append, or the largest ones in a sweep.   *)

\* compact(): the sizes are taken once, before anything is folded.
SweepBegins ==
  /\ op = Idle
  /\ retention.policy = "compact"
  /\ SeedOnce(log)
  /\ op' = [pc |-> "sweep", left |-> counted']
  /\ UNCHANGED <<retention, files, cached, acked, crashes>>

Without(f, k) == [x \in DOMAIN f \ {k} |-> f[x]]

\* The log to fold now: the oversized one, or the largest one left.
Folds(k) ==
  \/ op.pc = "appended" /\ k = op.key /\ IsOversized(k)
  \/ /\ op.pc = "sweep"
     /\ total > retention.totalBytes
     /\ k \in DOMAIN op.left
     /\ \A x \in DOMAIN op.left : op.left[x] <= op.left[k]

SizeToFold(k) == IF op.pc = "sweep" THEN op.left[k] ELSE LogBytes(k)

AfterFold(k) == IF op.pc = "sweep" THEN [op EXCEPT !.left = Without(@, k)]
                                   ELSE Idle

\* A log whose key has no state yet, or that cannot be read, is not folded.
FoldSkips(k) ==
  /\ Folds(k)
  /\ log' = [log EXCEPT ![k] = Repaired(@)]
  /\ \/ /\ Readable(k)
        /\ Held(log[k], snap[k]) = Nothing
        /\ op' = AfterFold(k)
        /\ IF op.pc = "sweep" THEN UNCHANGED acked ELSE Resolved(op.line)
     \/ ~Readable(k) /\ op' = Idle /\ UNCHANGED acked
  /\ UNCHANGED <<retention, snap, cached, table, crashes>>

\* The first half of #compactLog: the snapshot, written in place.
FoldSnapshot(k) ==
  /\ Folds(k)
  /\ Readable(k)
  /\ Held(log[k], snap[k]) # Nothing
  /\ log' = [log EXCEPT ![k] = Repaired(@)]
  /\ \/ /\ snap' = [snap EXCEPT ![k] = [seq |-> Held(log[k], snap[k]).seq,
                                        state |-> Held(log[k], snap[k]).state]]
        /\ AccountSnapshot(k, snap'[k])
        /\ op' = [pc |-> "rewrite", key |-> k, size |-> SizeToFold(k),
                  caller |-> op]
        /\ UNCHANGED <<cached, crashes>>
     \/ /\ MayFail("half snapshot")
        /\ snap' = [snap EXCEPT ![k] = Half]
        /\ Die \/ Throw
  /\ UNCHANGED <<retention, acked>>

Mutant_Kept(k) ==
  Only(Lines(log[k]), {line \in ToSet(Lines(log[k])) : line.seq > snap[k].seq})

\* What the snapshot does not account for.
Kept(k) ==
  Only(Lines(log[k]), {line \in ToSet(Lines(log[k])) :
                         line.seq > snap[k].seq \/ line.type # "transition"})

\* The second half: the log without what the snapshot covers, in place.
FoldLog ==
  /\ op.pc = "rewrite"
  /\ log' = [log EXCEPT ![op.key] = Kept(op.key)]
  /\ IF counted = Nothing
       THEN UNCHANGED table
       ELSE /\ total' = total + LogSize(log'[op.key]) - op.size
            /\ counted' = [counted EXCEPT ![op.key] = LogSize(log'[op.key])]
            /\ UNCHANGED snapBytes
  /\ IF op.caller.pc = "sweep"
       THEN /\ op' = [op.caller EXCEPT !.left = Without(@, op.key)]
            /\ UNCHANGED acked
       ELSE op' = Idle /\ Resolved(op.caller.line)
  /\ UNCHANGED <<retention, snap, cached, crashes>>

\* The log was truncated and the process ended before it was written again.
FoldLogTears ==
  /\ op.pc = "rewrite"
  /\ MayFail("half log")
  /\ \E n \in 0 .. Len(Kept(op.key)) :
       LET whole == SubSeq(Kept(op.key), 1, n)
       IN  \/ log' = [log EXCEPT ![op.key] = whole]
           \/ log' = [log EXCEPT ![op.key] = Append(whole, Fragment)]
  /\ Die
  /\ UNCHANGED <<retention, snap, acked>>

SweepEnds ==
  /\ op.pc = "sweep"
  /\ total <= retention.totalBytes \/ DOMAIN op.left = {}
  /\ op' = Idle
  /\ UNCHANGED <<retention, files, cached, table, acked, crashes>>

-----------------------------------------------------------------------------
(* forget(), `usage`, and a process that ends between file operations.     *)

\* forget() removes the log first.
ForgetLog(k) ==
  /\ op = Idle
  /\ log' = [log EXCEPT ![k] = Nothing]
  /\ acked' = [acked EXCEPT ![k] = Nothing]
  /\ op' = [pc |-> "forget", key |-> k]
  /\ UNCHANGED <<retention, snap, cached, table, crashes>>

Mutant_ForgetSnapshot ==
  /\ op.pc = "forget"
  /\ snap' = [snap EXCEPT ![op.key] = Nothing]
  /\ IF counted = Nothing
       THEN UNCHANGED table
       ELSE /\ total' = total - snapBytes[op.key]
                          - IF IsCounted(op.key) THEN counted[op.key] ELSE 0
            /\ counted' = Without(counted, op.key)
            /\ snapBytes' = [snapBytes EXCEPT ![op.key] = 0]
  /\ op' = Idle
  /\ UNCHANGED <<retention, log, cached, acked, crashes>>

\* The rest of forget(): the snapshot file, the cache and the table.
ForgetSnapshot ==
  /\ op.pc = "forget"
  /\ snap' = [snap EXCEPT ![op.key] = Nothing]
  /\ cached' = [cached EXCEPT ![op.key] = Nothing]
  /\ IF counted = Nothing
       THEN UNCHANGED table
       ELSE /\ total' = total - snapBytes[op.key]
                          - IF IsCounted(op.key) THEN counted[op.key] ELSE 0
            /\ counted' = Without(counted, op.key)
            /\ snapBytes' = [snapBytes EXCEPT ![op.key] = 0]
  /\ op' = Idle
  /\ UNCHANGED <<retention, log, acked, crashes>>

Usage ==
  /\ op = Idle
  /\ counted = Nothing
  /\ Seed(log)
  /\ UNCHANGED <<retention, files, cached, op, acked, crashes>>

Crash ==
  /\ crashes < MaxCrashes
  /\ op.pc = "forget" => "half forget" \in Failures
  /\ Die
  /\ UNCHANGED <<retention, files, acked>>

Next ==
  \/ \E k \in Key :
       \/ Load(k)
       \/ AppendConflicts(k)
       \/ StoreFull(k)
       \/ \E line \in NextLines(k) : AppendLine(k, line)
       \/ AppendTears(k)
       \/ Snapshot(k)
       \/ FoldSkips(k)
       \/ FoldSnapshot(k)
       \/ ForgetLog(k)
  \/ AppendReturns
  \/ SweepBegins
  \/ FoldLog
  \/ FoldLogTears
  \/ SweepEnds
  \/ ForgetSnapshot
  \/ Usage
  \/ Crash

Spec == Init /\ [][Next]_vars

-----------------------------------------------------------------------------

(***************************************************************************)
(* An append() that resolved is never lost: whatever crashes, compactions, *)
(* snapshots and repairs come after it, a process that starts now reads    *)
(* the commit or one that follows it.                                      *)
(***************************************************************************)
AckedIsDurable ==
  \A k \in Key : acked[k] # Nothing =>
    /\ Readable(k)
    /\ LET held == Held(log[k], snap[k])
       IN  /\ held # Nothing
           /\ held.seq >= acked[k].seq
           /\ held.seq = acked[k].seq => held.state = acked[k].state

(***************************************************************************)
(* A conditional append is decided on the sequence the files hold: the     *)
(* cached one is never behind or ahead of them, compaction, deletion and   *)
(* re-creation of the key included.                                        *)
(***************************************************************************)
CacheIsCurrent ==
  op.pc # "forget" =>
    \A k \in Key : cached[k] # Nothing =>
      LET held == Held(log[k], snap[k])
      IN  cached[k] = IF held = Nothing THEN EMPTY_SEQ ELSE held.seq

(***************************************************************************)
(* The budget is measured against what is on disk: the running total,      *)
(* moved by appends, folds, snapshots and deletions and never recounted,   *)
(* is at least the bytes of whole lines and snapshots, and exceeds them by *)
(* no more than the fragments that failures left behind.                   *)
(***************************************************************************)
BytesOnDisk ==
  Sum([k \in Key |-> LineSize * Len(Lines(log[k])) + SnapSize(snap[k])])

BudgetCoversDisk ==
  counted # Nothing /\ op = Idle =>
    total - BytesOnDisk \in 0 .. FragmentSize * crashes

(***************************************************************************)
(* Refusals and violations are the only record of themselves: no step but  *)
(* the deletion of the key, or a crash, takes one out of the log.          *)
(***************************************************************************)
Notes(file) ==
  Only(Lines(file), {line \in ToSet(Lines(file)) : line.type = "note"})

IsPrefixOf(s, t) == Len(s) <= Len(t) /\ s = SubSeq(t, 1, Len(s))

NotesSurvive ==
  [][\A k \in Key : crashes' = crashes /\ log'[k] # Nothing
       => IsPrefixOf(Notes(log[k]), Notes(log'[k]))]_vars

(***************************************************************************)
(* FileStore implements DurableKeys: a key's last commit is what replay()   *)
(* makes of its files.  A key whose files cannot be read, or that came     *)
(* back after it was deleted, is nothing the abstract store can be.        *)
(***************************************************************************)
LastCommitOf(k) ==
  IF op.pc = "forget" /\ op.key = k THEN Nothing
  ELSE IF Readable(k) THEN Held(log[k], snap[k])
                      ELSE Half

Promise == INSTANCE DurableKeys WITH
  current <- [k \in Key |-> LastCommitOf(k)]

\* Commits are numbered in a row, kept, and confirmed only when they are.
ImplementsDurableKeys == Promise!Spec

=============================================================================
