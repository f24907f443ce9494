-------------------------- MODULE FileStoreProofs --------------------------
(***************************************************************************)
(* Proofs about FileStore, for any keys, states, configurations and sizes, *)
(* with processes that end in any append, fold or between two operations:  *)
(* what the files hold (FilesInv), and what the table says they hold       *)
(* (BooksInv).                                                             *)
(***************************************************************************)
EXTENDS FileStore, DataProofs, FiniteSetTheorems

WholeLine == {x \in Line : x # Fragment /\ x # Corrupt}

\* What a crash leaves: whole lines, and at most the last one half written.
Sound(file) ==
  \/ file = Nothing
  \/ /\ file \in Seq(Line)
     /\ \A i \in 1 .. Len(file) :
          file[i] \in WholeLine \/ (file[i] = Fragment /\ i = Len(file))

Ascending(lines) ==
  \A i, j \in Commits(lines) : i < j => lines[i].seq < lines[j].seq

HeldSeq(file, snapshot) ==
  IF Held(file, snapshot) = Nothing THEN EMPTY_SEQ ELSE Held(file, snapshot).seq

\* The files of a key are sound, what is cached of it is what they hold, and
\* what was acknowledged is in them.
Fits(file, s, c, a) ==
  /\ Sound(file) /\ Ascending(Lines(file))
  /\ s \in {Nothing} \cup Snapshots
  /\ c \in {Nothing} \cup Int
  /\ a \in {Nothing} \cup Snapshots
  /\ c # Nothing => ~IsTorn(file) /\ c = HeldSeq(file, s)
  /\ a # Nothing =>
       /\ Held(file, s) # Nothing
       /\ Held(file, s).seq >= a.seq
       /\ Held(file, s).seq = a.seq => Held(file, s).state = a.state

-----------------------------------------------------------------------------
(* Lines of a log file.                                                    *)

LEMMA LineTypes ==
  /\ \A x \in WholeLine : x \in Line /\ x.seq \in Nat
       /\ (x.type = "transition" => x.to \in State)
  /\ Fragment \notin WholeLine /\ Corrupt \notin WholeLine /\ Fragment # Corrupt
  /\ Fragment.type = "fragment" /\ Corrupt.type = "corrupt"
  /\ Fragment \in Line
  /\ \A x \in WholeLine : x.type \in {"transition", "note"}
BY DEF WholeLine, Line, Fragment, Corrupt

\* The lines of a sound file, and what the truncation of its tail leaves.
LEMMA RepairedFits ==
  ASSUME NEW file, Sound(file)
  PROVE  /\ Lines(file) \in Seq(WholeLine)
         /\ Sound(Repaired(file)) /\ ~IsTorn(Repaired(file))
         /\ Lines(Repaired(file)) = Lines(file)
         /\ file # Nothing => Repaired(file) = Lines(file)
         /\ Repaired(file) = Nothing <=> file = Nothing
         /\ ~IsTorn(file) => Repaired(file) = file
         /\ ~IsCorrupt(file)
<1>1. CASE file = Nothing
  <2>1. ~IsTorn(file) /\ Repaired(file) = file /\ Lines(file) = <<>>
    BY <1>1 DEF IsTorn, Repaired, Lines
  <2>2. <<>> \in Seq(WholeLine) /\ Len(<<>>) = 0
    OBVIOUS
  <2> QED  BY <1>1, <2>1, <2>2 DEF Sound, IsCorrupt
<1>2. CASE file # Nothing
  <2> DEFINE n == Len(file)
             r == Repaired(file)
  <2>0. file \in Seq(Line) /\ n \in Nat
        /\ \A i \in 1 .. n : file[i] \in WholeLine \/ (file[i] = Fragment /\ i = n)
    BY <1>2 DEF Sound
  <2>1. r \in Seq(WholeLine)
    <3>1. CASE IsTorn(file)
      <4>1. n # 0 /\ r = SubSeq(file, 1, n - 1)
        BY <2>0, <3>1, EmptySeq DEF IsTorn, Repaired
      <4>2. \A i \in 1 .. n - 1 : file[i] \in WholeLine
        BY <2>0
      <4>3. 1 \in Int /\ n - 1 \in Int
        BY <2>0
      <4> QED  BY <4>1, <4>2, <4>3, SubSeqProperties
    <3>2. CASE ~IsTorn(file)
      <4>1. r = file
        BY <3>2 DEF Repaired
      <4>2. n # 0 => file[n] # Fragment
        BY <1>2, <3>2 DEF IsTorn
      <4>3. \A i \in 1 .. n : file[i] \in WholeLine
        BY <2>0, <4>2
      <4> QED  BY <2>0, <4>1, <4>3, SeqDef
    <3> QED  BY <3>1, <3>2
  <2> HIDE DEF r
  <2>2. Len(r) \in Nat /\ \A i \in 1 .. Len(r) : r[i] \in WholeLine
    BY <2>1
  <2>3. ~IsTorn(r) /\ Repaired(r) = r
    <3>1. r # <<>> => r[Len(r)] \in WholeLine
      <4>1. r # <<>> => Len(r) # 0
        BY <2>1, EmptySeq
      <4> QED  BY <2>2, <4>1
    <3>2. ~IsTorn(r)
      BY <3>1, LineTypes DEF IsTorn
    <3> QED  BY <3>2 DEF Repaired
  <2>4. r # Nothing /\ r \in Seq(Line)
    <3>1. r \in Seq(Line)
      BY <2>1, <2>2, LineTypes, SeqDef
    <3> QED  BY <3>1, NothingAssumption
  <2>5. Lines(file) = r /\ Lines(r) = r
    BY <1>2, <2>3, <2>4 DEF Lines, r
  <2>6. Sound(r)
    BY <2>2, <2>4 DEF Sound
  <2>7. ~IsTorn(file) => r = file
    BY DEF Repaired, r
  <2>8. ~IsCorrupt(file)
    BY <2>2, <2>5, LineTypes DEF IsCorrupt
  <2> QED  BY <1>2, <2>1, <2>3, <2>4, <2>5, <2>6, <2>7, <2>8 DEF r
<1> QED  BY <1>1, <1>2

\* A line is appended to a file that is not torn.
LEMMA WrittenWhole ==
  ASSUME NEW file, Sound(file), ~IsTorn(file), NEW x \in WholeLine
  PROVE  /\ Lines(Written(file, x)) = Append(Lines(file), x)
         /\ Sound(Written(file, x)) /\ ~IsTorn(Written(file, x))
         /\ Written(file, x) # Nothing
<1> DEFINE l == Lines(file)
           w == Written(file, x)
<1>1. l \in Seq(WholeLine) /\ w = Append(l, x)
  <2>1. l \in Seq(WholeLine)
    BY RepairedFits
  <2>2. CASE file = Nothing
    BY <2>2 DEF Lines, Written
  <2>3. CASE file # Nothing
    BY <2>3, RepairedFits DEF Written
  <2> QED  BY <2>1, <2>2, <2>3
<1> HIDE DEF w, l
<1>2. /\ w \in Seq(WholeLine) /\ Len(w) = Len(l) + 1 /\ Len(l) \in Nat
      /\ w[Len(w)] = x /\ \A i \in 1 .. Len(w) : w[i] \in WholeLine
  BY <1>1, AppendProperties
<1>3. w \in Seq(Line)
  BY <1>2, LineTypes, SeqDef
<1>4. ~IsTorn(w)
  BY <1>2, LineTypes DEF IsTorn
<1>5. w # Nothing
  BY <1>3, NothingAssumption
<1>6. Lines(w) = w
  BY <1>4, <1>5 DEF Lines, Repaired
<1> QED  BY <1>1, <1>2, <1>3, <1>4, <1>5, <1>6 DEF Sound, w, l

\* The process ends in the middle of a line.
LEMMA WrittenHalf ==
  ASSUME NEW l \in Seq(WholeLine)
  PROVE  /\ Lines(Append(l, Fragment)) = l /\ Sound(Append(l, Fragment))
         /\ Lines(l) = l /\ Sound(l) /\ ~IsTorn(l) /\ l # Nothing
         /\ Append(l, Fragment) # Nothing
<1> DEFINE w == Append(l, Fragment)
<1>1. Len(l) \in Nat /\ \A i \in 1 .. Len(l) : l[i] \in WholeLine
  OBVIOUS
<1>2. l \in Seq(Line)
  BY <1>1, LineTypes, SeqDef
<1>3. /\ w \in Seq(Line) /\ Len(w) = Len(l) + 1 /\ w[Len(l) + 1] = Fragment
      /\ \A i \in 1 .. Len(l) : w[i] = l[i]
  BY <1>2, LineTypes, AppendProperties
<1>4. SubSeq(w, 1, Len(w) - 1) = l
  <2>1. /\ SubSeq(w, 1, Len(l)) \in Seq(Line) /\ Len(SubSeq(w, 1, Len(l))) = Len(l)
        /\ \A i \in 1 .. Len(l) : SubSeq(w, 1, Len(l))[i] = w[i]
    BY <1>1, <1>3, SubSeqProperties
  <2> HIDE DEF w
  <2> QED  BY <1>1, <1>2, <1>3, <2>1, SeqEqual
<1> HIDE DEF w
<1>5. l # <<>> => l[Len(l)] \in WholeLine
  <2>1. l # <<>> => Len(l) # 0
    BY EmptySeq
  <2> QED  BY <1>1, <2>1
<1>6. ~IsTorn(l) /\ l # Nothing /\ w # Nothing
  BY <1>2, <1>3, <1>5, LineTypes, NothingAssumption DEF IsTorn
<1>7. w # <<>>
  BY <1>1, <1>3
<1>8. IsTorn(w)
  BY <1>3, <1>6, <1>7 DEF IsTorn
<1>9. Lines(w) = l /\ Lines(l) = l
  BY <1>4, <1>6, <1>8 DEF Lines, Repaired
<1> QED  BY <1>1, <1>2, <1>3, <1>6, <1>9 DEF Sound, w
-----------------------------------------------------------------------------
(* What the files of a key hold.                                           *)

LEMMA HeldIs ==
  ASSUME NEW file, Sound(file), NEW s \in {Nothing} \cup Snapshots
  PROVE  /\ Held(file, s) \in {Nothing} \cup Snapshots
         /\ HeldSeq(file, s) \in Int /\ HeldSeq(file, s) >= EMPTY_SEQ
         /\ LatestSeq(Lines(file)) \in Int
         /\ LatestSeq(Lines(file)) <= HeldSeq(file, s)
         /\ SnapSeq(s) \in Int
         /\ Held(file, s) # Nothing =>
              HeldSeq(file, s) = Held(file, s).seq /\ HeldSeq(file, s) \in Nat
<1> DEFINE l == Lines(file)
<1>1. l \in Seq(WholeLine) /\ \A x \in WholeLine : x.seq \in Nat
  BY RepairedFits, LineTypes
<1>2. /\ LatestSeq(l) \in Int /\ LatestSeq(l) >= EMPTY_SEQ
      /\ LatestSeq(l) = EMPTY_SEQ <=> Commits(l) = {}
      /\ Commits(l) # {} =>
           /\ LastCommit(l) \in Commits(l)
           /\ l[LastCommit(l)] \in WholeLine
           /\ LatestSeq(l) = l[LastCommit(l)].seq
  <2> HIDE DEF l
  <2> QED  BY <1>1, LatestSeqIsThere
<1> HIDE DEF l
<1>3. SnapSeq(s) \in Int /\ SnapSeq(s) >= EMPTY_SEQ /\ (s # Nothing => s.seq \in Nat)
  BY DEF SnapSeq, Snapshots, EMPTY_SEQ
<1>4. CASE LatestSeq(l) > SnapSeq(s)
  <2>1. Held(file, s) = [seq |-> LatestSeq(l), state |-> l[LastCommit(l)].to]
    BY <1>4 DEF Held, Replay, l
  <2>2. LatestSeq(l) # EMPTY_SEQ
    BY <1>2, <1>3, <1>4 DEF EMPTY_SEQ
  <2>3. l[LastCommit(l)].to \in State /\ LatestSeq(l) \in Nat
    BY <1>1, <1>2, <2>2, LineTypes DEF Commits
  <2>4. Held(file, s) \in Snapshots
    BY <2>1, <2>3 DEF Snapshots
  <2> QED  BY <1>2, <1>3, <1>4, <2>1, <2>3, <2>4, NothingAssumption
           DEF HeldSeq, l, EMPTY_SEQ
<1>5. CASE ~(LatestSeq(l) > SnapSeq(s))
  <2>1. Held(file, s) = s
    BY <1>5 DEF Held, l
  <2>2. HeldSeq(file, s) = SnapSeq(s)
    BY <2>1 DEF HeldSeq, SnapSeq
  <2> QED  BY <1>2, <1>3, <1>5, <2>1, <2>2 DEF l, EMPTY_SEQ, SnapSeq
<1> QED  BY <1>4, <1>5

\* The last commit of an ascending log has the greatest sequence.
LEMMA LatestIsGreatest ==
  ASSUME NEW l \in Seq(WholeLine), Ascending(l), NEW i \in Commits(l)
  PROVE  /\ l[i].seq \in Nat /\ l[i].to \in State
         /\ l[i].seq <= LatestSeq(l)
         /\ l[i].seq = LatestSeq(l) => i = LastCommit(l)
<1>1. \A x \in WholeLine : x.seq \in Nat
  BY LineTypes
<1>2. LastCommit(l) \in Commits(l) /\ LatestSeq(l) = l[LastCommit(l)].seq
  BY <1>1, LatestSeqIsThere
<1>3. i <= LastCommit(l)
  BY LastCommitIsLast
<1>4. i \in 1 .. Len(l) /\ LastCommit(l) \in 1 .. Len(l) /\ Len(l) \in Nat
      /\ l[i] \in WholeLine /\ l[i].type = "transition"
      /\ l[LastCommit(l)] \in WholeLine
  BY <1>2 DEF Commits
<1>5. l[i].seq \in Nat /\ l[i].to \in State /\ l[LastCommit(l)].seq \in Nat
  BY <1>4, LineTypes
<1>6. i < LastCommit(l) => l[i].seq < l[LastCommit(l)].seq
  BY <1>2 DEF Ascending
<1> QED  BY <1>2, <1>3, <1>4, <1>5, <1>6

\* Two files with the same lines hold the same.
LEMMA SameLinesHeld ==
  ASSUME NEW f, NEW g, Lines(f) = Lines(g), NEW s
  PROVE  Held(f, s) = Held(g, s) /\ HeldSeq(f, s) = HeldSeq(g, s)
BY DEF Held, HeldSeq

-----------------------------------------------------------------------------
(* What the file operations make of what fits.                             *)

LEMMA RepairKeeps ==
  ASSUME NEW f, NEW s, NEW c, NEW a, Fits(f, s, c, a)
  PROVE  /\ Fits(Repaired(f), s, c, a) /\ Fits(Repaired(f), s, HeldSeq(f, s), a)
         /\ Held(Repaired(f), s) = Held(f, s)
         /\ HeldSeq(Repaired(f), s) = HeldSeq(f, s)
         /\ c # Nothing => Repaired(f) = f /\ c = HeldSeq(f, s)
<1>1. /\ Sound(f) /\ Sound(Repaired(f)) /\ ~IsTorn(Repaired(f))
      /\ Lines(Repaired(f)) = Lines(f) /\ (~IsTorn(f) => Repaired(f) = f)
  BY RepairedFits DEF Fits
<1>2. Held(Repaired(f), s) = Held(f, s) /\ HeldSeq(Repaired(f), s) = HeldSeq(f, s)
  BY <1>1, SameLinesHeld
<1>3. HeldSeq(f, s) \in Int
  BY HeldIs DEF Fits
<1> QED  BY <1>1, <1>2, <1>3 DEF Fits

LEMMA ForgottenCacheFits ==
  ASSUME NEW f, NEW s, NEW c, NEW a, Fits(f, s, c, a)
  PROVE  Fits(f, s, Nothing, a)
BY DEF Fits

LEMMA EmptyFits == Fits(Nothing, Nothing, Nothing, Nothing)
<1>1. Lines(Nothing) = <<>> /\ Commits(<<>>) = {}
  BY DEF Lines, Commits
<1> QED  BY <1>1 DEF Fits, Sound, Ascending

\* A commit right behind the one the files hold.
LEMMA CommitFits ==
  ASSUME NEW f, NEW s, NEW c, NEW a, Fits(f, s, c, a),
         NEW x \in WholeLine, x.type = "transition", x.seq = HeldSeq(f, s) + 1
  PROVE  /\ Fits(Written(Repaired(f), x), s, x.seq, a)
         /\ Held(Written(Repaired(f), x), s) = [seq |-> x.seq, state |-> x.to]
         /\ x.seq \in Nat /\ x.to \in State
<1> DEFINE l == Lines(f)
           g == Written(Repaired(f), x)
<1>1. /\ l \in Seq(WholeLine) /\ Sound(Repaired(f)) /\ ~IsTorn(Repaired(f))
      /\ Lines(Repaired(f)) = l
  BY RepairedFits DEF Fits
<1>2. Lines(g) = Append(l, x) /\ Sound(g) /\ ~IsTorn(g) /\ g # Nothing
  BY <1>1, WrittenWhole
<1>3. /\ LatestSeq(l) \in Int /\ LatestSeq(l) <= HeldSeq(f, s) /\ HeldSeq(f, s) \in Int
      /\ SnapSeq(s) \in Int /\ SnapSeq(s) <= HeldSeq(f, s)
  <2>1. SnapSeq(s) <= HeldSeq(f, s)
    BY HeldIs DEF Fits, Held, HeldSeq, SnapSeq, Snapshots, EMPTY_SEQ, Replay
  <2> QED  BY <2>1, HeldIs DEF Fits
<1>4. x.seq \in Nat /\ x.to \in State /\ \A y \in WholeLine : y.seq \in Nat
  BY LineTypes
<1> HIDE DEF l, g
<1> DEFINE m == Append(l, x)
           n == Len(l) + 1
<1>5. /\ m \in Seq(WholeLine) /\ Len(l) \in Nat
      /\ Commits(m) = Commits(l) \cup {n}
      /\ m[n] = x /\ \A i \in 1 .. Len(l) : m[i] = l[i]
  <2>1. m \in Seq(WholeLine)
    BY <1>1, AppendProperties
  <2> QED  BY <1>1, <2>1, CommitsOfAppend, LenProperties
<1> HIDE DEF m
<1>6. \A i \in Commits(l) : /\ i \in 1 .. Len(l) /\ i < n /\ m[i].seq < x.seq
                            /\ m[i].seq \in Nat /\ m[i] = l[i]
  <2> SUFFICES ASSUME NEW i \in Commits(l)
               PROVE  /\ i \in 1 .. Len(l) /\ i < n /\ m[i].seq < x.seq
                      /\ m[i].seq \in Nat /\ m[i] = l[i]
    OBVIOUS
  <2>1. i \in 1 .. Len(l)
    BY DEF Commits
  <2>2. l[i].seq <= LatestSeq(l) /\ l[i].seq \in Nat
    BY <1>1, LatestIsGreatest DEF Fits, l
  <2> QED  BY <1>3, <1>4, <1>5, <2>1, <2>2
<1>7. Ascending(m)
  <2>1. Ascending(l)
    BY DEF Fits, l
  <2> QED  BY <1>5, <1>6, <2>1 DEF Ascending
<1>8. LatestSeq(m) = x.seq /\ LastCommit(m) = n
  <2>1. LastCommit(m) \in Commits(m) /\ \A j \in Commits(m) : j <= LastCommit(m)
    BY <1>5, LastCommitIsLast
  <2>2. LastCommit(m) = n
    BY <1>5, <1>6, <2>1
  <2> QED  BY <1>5, <2>2 DEF LatestSeq
<1>9. Held(g, s) = [seq |-> x.seq, state |-> x.to]
  BY <1>2, <1>3, <1>4, <1>5, <1>8 DEF Held, Replay, m
<1>10. Held(g, s) \in Snapshots /\ Held(g, s) # Nothing
  BY <1>4, <1>9, NothingAssumption DEF Snapshots
<1>11. HeldSeq(g, s) = x.seq
  BY <1>9, <1>10 DEF HeldSeq
<1>12. a # Nothing => Held(g, s).seq > a.seq /\ a.seq \in Int
  <2>1. a # Nothing => HeldSeq(f, s) >= a.seq /\ a.seq \in Nat
    BY DEF Fits, HeldSeq, Snapshots
  <2> QED  BY <1>3, <1>9, <2>1
<1>13. Fits(g, s, x.seq, a)
  BY <1>2, <1>4, <1>7, <1>9, <1>10, <1>11, <1>12 DEF Fits, m
<1> QED  BY <1>4, <1>9, <1>13 DEF g

\* A line, or part of one, that is no commit.
LEMMA NoteFits ==
  ASSUME NEW f, NEW s, NEW c, NEW a, Fits(f, s, c, a), NEW g, Sound(g),
         NEW x \in WholeLine, x.type # "transition",
         Lines(g) = Append(Lines(f), x) \/ Lines(g) = Lines(f)
  PROVE  /\ Fits(g, s, Nothing, a) /\ (~IsTorn(g) => Fits(g, s, HeldSeq(f, s), a))
         /\ Held(g, s) = Held(f, s)
<1> DEFINE l == Lines(f)
           m == Append(l, x)
<1>1. CASE Lines(g) = l
  <2>1. Held(g, s) = Held(f, s) /\ HeldSeq(g, s) = HeldSeq(f, s)
    BY <1>1, SameLinesHeld
  <2>2. HeldSeq(f, s) \in Int
    BY HeldIs DEF Fits
  <2> QED  BY <1>1, <2>1, <2>2 DEF Fits
<1>2. CASE Lines(g) = m
  <2>1. l \in Seq(WholeLine) /\ Ascending(l)
    BY RepairedFits DEF Fits
  <2> HIDE DEF l
  <2>2. /\ Commits(m) = Commits(l) /\ Len(l) \in Nat
        /\ \A i \in 1 .. Len(l) : m[i] = l[i]
    BY <2>1, CommitsOfAppend, LenProperties
  <2>3. \A i \in Commits(l) : m[i] = l[i]
    BY <2>2 DEF Commits
  <2> HIDE DEF m
  <2>4. LatestSeq(m) = LatestSeq(l) /\ (Commits(l) # {} => Replay(m) = Replay(l))
    <3>1. LastCommit(m) = LastCommit(l)
      BY <2>2 DEF LastCommit
    <3>2. Commits(l) # {} => LastCommit(l) \in Commits(l)
      BY <2>1, LastCommitIsLast
    <3> QED  BY <2>2, <2>3, <3>1, <3>2 DEF LatestSeq, Replay
  <2>5. Ascending(m)
    BY <2>1, <2>2, <2>3 DEF Ascending
  <2>6. s \in {Nothing} \cup Snapshots
    BY DEF Fits
  <2>7. LatestSeq(l) > SnapSeq(s) => Commits(l) # {}
    BY <2>6 DEF LatestSeq, SnapSeq, Snapshots, EMPTY_SEQ
  <2>8. Held(g, s) = Held(f, s)
    BY <1>2, <2>4, <2>7 DEF Held, l
  <2>9. HeldSeq(g, s) = HeldSeq(f, s) /\ HeldSeq(f, s) \in Int
    BY <2>8, HeldIs DEF HeldSeq, Fits
  <2> QED  BY <1>2, <2>5, <2>8, <2>9 DEF Fits
<1> QED  BY <1>1, <1>2
\* The writer is told of the commit that the files hold.
LEMMA AckFits ==
  ASSUME NEW f, NEW s, NEW c, NEW a, Fits(f, s, c, a), Held(f, s) # Nothing
  PROVE  Fits(f, s, c, Held(f, s))
<1>1. Held(f, s) \in Snapshots
  BY HeldIs DEF Fits
<1>2. Held(f, s).seq \in Int
  BY <1>1 DEF Snapshots
<1> QED  BY <1>1, <1>2 DEF Fits

\* A snapshot of a commit of the log.
LEMMA SnapshotFits ==
  ASSUME NEW f, NEW s, NEW c, NEW a, Fits(f, s, c, a),
         NEW i \in Commits(Lines(f)), Lines(f)[i].seq > SnapSeq(s),
         NEW t, t = [seq |-> Lines(f)[i].seq, state |-> Lines(f)[i].to]
  PROVE  Fits(f, t, c, a) /\ Held(f, t) = Held(f, s)
<1> DEFINE l == Lines(f)
<1>1. l \in Seq(WholeLine) /\ Ascending(l)
  BY RepairedFits DEF Fits
<1>2. /\ l[i].seq \in Nat /\ l[i].to \in State
      /\ l[i].seq <= LatestSeq(l)
      /\ l[i].seq = LatestSeq(l) => i = LastCommit(l)
  <2> HIDE DEF l
  <2> QED  BY <1>1, LatestIsGreatest DEF l
<1>3. t \in Snapshots /\ t # Nothing /\ SnapSeq(t) = l[i].seq
  BY <1>2, NothingAssumption DEF SnapSeq, Snapshots
<1>4. LatestSeq(l) \in Int /\ SnapSeq(s) \in Int
  BY HeldIs DEF Fits
<1>5. Held(f, t) = Held(f, s)
  <2>1. Held(f, s) = Replay(l)
    BY <1>2, <1>4 DEF Held
  <2>2. CASE LatestSeq(l) > l[i].seq
    BY <1>3, <2>1, <2>2 DEF Held
  <2>3. CASE LatestSeq(l) = l[i].seq
    BY <1>2, <1>3, <2>1, <2>3 DEF Held, Replay
  <2> QED  BY <1>2, <1>4, <2>2, <2>3
<1>6. HeldSeq(f, t) = HeldSeq(f, s)
  BY <1>5 DEF HeldSeq
<1> QED  BY <1>3, <1>5, <1>6 DEF Fits

\* A snapshot of all that a key holds.
LEMMA FoldFits ==
  ASSUME NEW f, NEW s, NEW c, NEW a, Fits(f, s, c, a), Held(f, s) # Nothing
  PROVE  /\ Fits(f, Held(f, s), c, a) /\ Held(f, Held(f, s)) = Held(f, s)
         /\ LatestSeq(Lines(f)) <= Held(f, s).seq
         /\ Held(f, s) = [seq |-> Held(f, s).seq, state |-> Held(f, s).state]
<1> DEFINE h == Held(f, s)
<1>1. h \in Snapshots /\ HeldSeq(f, s) = h.seq /\ LatestSeq(Lines(f)) <= h.seq
      /\ LatestSeq(Lines(f)) \in Int
  BY HeldIs DEF Fits
<1> HIDE DEF h
<1>2. SnapSeq(h) = h.seq /\ h.seq \in Int
  BY <1>1, NothingAssumption DEF SnapSeq, Snapshots
<1>3. Held(f, h) = h
  BY <1>1, <1>2 DEF Held
<1>4. HeldSeq(f, h) = HeldSeq(f, s)
  BY <1>3 DEF HeldSeq, h
<1>5. h = [seq |-> h.seq, state |-> h.state]
  BY <1>1 DEF Snapshots
<1> QED  BY <1>1, <1>3, <1>4, <1>5 DEF Fits, h

\* The log without what the snapshot covers, or the beginning of it.
LEMMA RewriteFits ==
  ASSUME NEW f, NEW s, NEW c, NEW a, Fits(f, s, c, a),
         s # Nothing, LatestSeq(Lines(f)) <= s.seq,
         NEW g, Sound(g), Commits(Lines(g)) = {}
  PROVE  /\ Fits(g, s, Nothing, a) /\ (~IsTorn(g) => Fits(g, s, c, a))
         /\ Held(f, s) = s /\ Held(g, s) = s
<1>1. s \in Snapshots
  BY DEF Fits
<1>2. SnapSeq(s) = s.seq /\ s.seq \in Nat
  BY <1>1 DEF SnapSeq, Snapshots
<1>3. Held(f, s) = s
  <2>1. LatestSeq(Lines(f)) \in Int
    BY HeldIs DEF Fits
  <2> QED  BY <1>2, <2>1 DEF Held
<1>4. Held(g, s) = s
  BY <1>2 DEF Held, LatestSeq, EMPTY_SEQ
<1>5. HeldSeq(f, s) = HeldSeq(g, s)
  BY <1>3, <1>4 DEF HeldSeq
<1>6. Ascending(Lines(g))
  BY DEF Ascending
<1> QED  BY <1>3, <1>4, <1>5, <1>6 DEF Fits

-----------------------------------------------------------------------------
(* What filter() leaves of a log.                                          *)

\* The next line is kept or not.
Grown(kept, line, keep) == IF line \in keep THEN Append(kept, line) ELSE kept

\* What is kept of the first lines, one after the other.
IsFilter(m, lines, keep) ==
  /\ m[0] = <<>>
  /\ \A i \in 1 .. Len(lines) : m[i] = Grown(m[i - 1], lines[i], keep)
  /\ Only(lines, keep) = m[Len(lines)]

LEMMA Filters ==
  ASSUME NEW S, NEW lines \in Seq(S), NEW keep
  PROVE  \E m : IsFilter(m, lines, keep)
<1> DEFINE last == Len(lines)
           Next1(g, s) == IF s = {} THEN <<>>
                          ELSE Grown(g[s \ {Max(s)}], lines[Max(s)], keep)
           IsFoldOn(g, D) == g = [s \in SUBSET D |-> Next1(g, s)]
           IsFold(g, n) == IsFoldOn(g, 1 .. n)
<1>0. last \in Nat
  OBVIOUS
<1>1. \A n \in 0 .. last : \E g : IsFold(g, n)
  <2> DEFINE Good == {n \in 0 .. last : \E g : IsFold(g, n)}
  <2>1. 0 \in Good
    <3> DEFINE g0 == [s \in SUBSET (1 .. 0) |-> <<>>]
    <3>1. SUBSET (1 .. 0) = {{}}
      OBVIOUS
    <3>2. \A s \in SUBSET (1 .. 0) : Next1(g0, s) = <<>>
      BY <3>1
    <3>3. IsFold(g0, 0)
      BY <3>2
    <3> QED  BY <1>0, <3>3
  <2>2. ASSUME NEW n \in 0 .. last - 1, n \in Good
        PROVE  n + 1 \in Good
    <3>1. PICK g : IsFold(g, n)
      BY <2>2
    <3> DEFINE h == [s \in SUBSET (1 .. n + 1) |->
                       IF n + 1 \in s
                         THEN Grown(g[s \ {n + 1}], lines[n + 1], keep)
                         ELSE g[s]]
    <3>2. ASSUME NEW s \in SUBSET (1 .. n + 1)
          PROVE  h[s] = Next1(h, s)
      <4>1. CASE n + 1 \in s
        <5>1. Max(s) = n + 1
          BY <2>2, <4>1, GreatestOfInterval
        <5>2. s \ {n + 1} \in SUBSET (1 .. n) /\ s \ {n + 1} \in SUBSET (1 .. n + 1)
          BY <2>2
        <5>3. h[s \ {n + 1}] = g[s \ {n + 1}]
          BY <5>2
        <5> QED  BY <4>1, <5>1, <5>3
      <4>2. CASE n + 1 \notin s
        <5>1. s \in SUBSET (1 .. n)
          BY <2>2, <4>2
        <5>2. h[s] = Next1(g, s)
          BY <3>1, <4>2, <5>1
        <5>3. CASE s # {}
          <6>1. s \ {Max(s)} \in SUBSET (1 .. n) /\ s \ {Max(s)} \in SUBSET (1 .. n + 1)
                /\ n + 1 \notin s \ {Max(s)}
            BY <5>1, <4>2
          <6>2. h[s \ {Max(s)}] = g[s \ {Max(s)}]
            BY <6>1
          <6> QED  BY <5>2, <5>3, <6>2
        <5> QED  BY <5>2, <5>3
      <4> QED  BY <4>1, <4>2
    <3>3. IsFold(h, n + 1)
      BY <3>2
    <3>4. n + 1 \in 0 .. last
      BY <1>0, <2>2
    <3> QED  BY <3>3, <3>4
  <2> HIDE DEF Good
  <2>3. \A n \in 0 .. last : n \in Good
    BY <1>0, <2>1, <2>2, UpTo
  <2> QED  BY <2>3 DEF Good
<1> DEFINE G == CHOOSE g : IsFoldOn(g, DOMAIN lines)
<1>2. G = [s \in SUBSET (1 .. last) |-> Next1(G, s)]
  <2>1. DOMAIN lines = 1 .. last
    OBVIOUS
  <2>2. \E g : IsFoldOn(g, DOMAIN lines)
    <3> HIDE DEF IsFoldOn
    <3>1. PICK g : IsFoldOn(g, 1 .. last)
      <4>1. last \in 0 .. last
        BY <1>0
      <4> HIDE DEF last
      <4> QED  BY <1>1, <4>1
    <3>2. IsFoldOn(g, DOMAIN lines)
      BY <2>1, <3>1
    <3> QED  BY <3>2
  <2> HIDE DEF IsFoldOn
  <2>3. IsFoldOn(G, DOMAIN lines)
    BY <2>2
  <2> QED  BY <2>1, <2>3 DEF IsFoldOn
<1>3. Only(lines, keep) = G[1 .. last]
  <2>1. Only(lines, keep) = G[DOMAIN lines]
    BY DEF Only, FoldLeft, MapThenFoldSet, Grown
  <2> QED  BY <2>1
<1> HIDE DEF G
<1>4. G[1 .. 0] = <<>>
  BY <1>0, <1>2
<1>5. ASSUME NEW i \in 1 .. last
      PROVE  G[1 .. i] = Grown(G[1 .. i - 1], lines[i], keep)
  <2>1. 1 .. i \in SUBSET (1 .. last) /\ 1 .. i - 1 \in SUBSET (1 .. last)
        /\ i \in 1 .. i
    BY <1>0
  <2>2. Max(1 .. i) = i
    BY <1>0 DEF Max
  <2>3. (1 .. i) \ {i} = 1 .. i - 1
    BY <1>0
  <2> QED  BY <1>2, <2>1, <2>2, <2>3
<1> DEFINE m == [i \in 0 .. last |-> G[1 .. i]]
<1>6. m[0] = <<>> /\ m[last] = G[1 .. last]
  BY <1>0, <1>4
<1>7. \A i \in 1 .. last : m[i] = Grown(m[i - 1], lines[i], keep)
  BY <1>0, <1>5
<1> HIDE DEF m
<1> QED  BY <1>3, <1>6, <1>7 DEF IsFilter
LEMMA OnlyTyped ==
  ASSUME NEW S, NEW lines \in Seq(S), NEW keep
  PROVE  Only(lines, keep) \in Seq(S \cap keep)
<1> DEFINE last == Len(lines)
           T == S \cap keep
<1>1. PICK m : IsFilter(m, lines, keep)
  BY Filters
<1> DEFINE Good == {n \in 0 .. last : m[n] \in Seq(T)}
<1>2. last \in Nat /\ \A i \in 1 .. last : lines[i] \in S
  OBVIOUS
<1>3. 0 \in Good
  <2>1. 0 \in 0 .. last /\ <<>> \in Seq(T)
    BY <1>2
  <2>2. m[0] = <<>>
    BY <1>1 DEF IsFilter
  <2> HIDE DEF T
  <2> QED  BY <2>1, <2>2
<1>4. ASSUME NEW n \in 0 .. last - 1, n \in Good PROVE n + 1 \in Good
  <2>1. n + 1 \in 1 .. last /\ (n + 1) - 1 = n
    BY <1>2
  <2>2. m[n + 1] = Grown(m[n], lines[n + 1], keep)
    BY <1>1, <2>1 DEF IsFilter
  <2>3. lines[n + 1] \in keep => lines[n + 1] \in T
    BY <1>2, <2>1
  <2>4. m[n] \in Seq(T)
    BY <1>4
  <2> HIDE DEF T
  <2>5. m[n + 1] \in Seq(T)
    BY <2>2, <2>3, <2>4, AppendProperties DEF Grown
  <2> QED  BY <2>1, <2>5
<1> HIDE DEF Good, last
<1>5. last \in Good
  <2>1. \A n \in 0 .. last : n \in Good
    BY <1>2, <1>3, <1>4, UpTo
  <2> QED  BY <1>2, <2>1
<1>6. Only(lines, keep) = m[last]
  BY <1>1 DEF IsFilter, last
<1> QED  BY <1>5, <1>6 DEF Good

\* What a fold writes has no commit that the snapshot covers.
LEMMA KeptIsNotes ==
  ASSUME NEW k, Sound(log[k]), Ascending(Lines(log[k])),
         snap[k] \in Snapshots, LatestSeq(Lines(log[k])) <= snap[k].seq
  PROVE  /\ Kept(k) \in Seq(WholeLine) /\ Commits(Kept(k)) = {}
         /\ \A n \in 0 .. Len(Kept(k)) :
              /\ SubSeq(Kept(k), 1, n) \in Seq(WholeLine)
              /\ Commits(SubSeq(Kept(k), 1, n)) = {}
<1> DEFINE l == Lines(log[k])
           keep == {line \in ToSet(l) : line.seq > snap[k].seq \/ line.type # "transition"}
           Plain == {x \in WholeLine : x.type # "transition"}
<1>1. l \in Seq(WholeLine) /\ Ascending(l)
  BY RepairedFits
<1>2. LatestSeq(l) \in Int /\ snap[k].seq \in Nat
  BY HeldIs DEF Snapshots
<1>3. ASSUME NEW x \in WholeLine \cap keep PROVE x \in Plain
  <2>1. PICK i \in DOMAIN l : x = l[i]
    BY <1>3 DEF ToSet
  <2>2. CASE x.type = "transition"
    <3>1. i \in Commits(l)
      BY <1>1, <2>1, <2>2 DEF Commits
    <3>2. l[i].seq <= LatestSeq(l) /\ l[i].seq \in Nat
      <4> HIDE DEF l
      <4> QED  BY <1>1, <3>1, LatestIsGreatest
    <3>3. l[i].seq > snap[k].seq
      BY <1>3, <2>1, <2>2
    <3> QED  BY <1>2, <3>2, <3>3
  <2> QED  BY <2>2
<1>4. Kept(k) = Only(l, keep)
  BY DEF Kept
<1> HIDE DEF l, keep
<1>5. Kept(k) \in Seq(WholeLine \cap keep)
  BY <1>1, <1>4, OnlyTyped
<1> DEFINE w == Kept(k)
<1>6. Len(w) \in Nat /\ \A i \in 1 .. Len(w) : w[i] \in Plain
  <2>1. Len(w) \in Nat /\ \A i \in 1 .. Len(w) : w[i] \in WholeLine \cap keep
    BY <1>5
  <2> QED  BY <1>3, <2>1
<1>7. w \in Seq(Plain)
  <2>1. w \in Seq(WholeLine)
    BY <1>5, SeqDef
  <2> HIDE DEF w, Plain
  <2> QED  BY <1>6, <2>1, SeqDef
<1> HIDE DEF w
<1>8. \A q \in Seq(Plain) : q \in Seq(WholeLine) /\ Commits(q) = {}
  <2> SUFFICES ASSUME NEW q \in Seq(Plain)
               PROVE  q \in Seq(WholeLine) /\ Commits(q) = {}
    OBVIOUS
  <2>1. Len(q) \in Nat /\ \A i \in 1 .. Len(q) : q[i] \in Plain
    OBVIOUS
  <2>2. q \in Seq(WholeLine)
    BY <2>1, SeqDef
  <2> QED  BY <2>1, <2>2 DEF Commits
<1>9. \A n \in 0 .. Len(w) : SubSeq(w, 1, n) \in Seq(Plain)
  <2> SUFFICES ASSUME NEW n \in 0 .. Len(w) PROVE SubSeq(w, 1, n) \in Seq(Plain)
    OBVIOUS
  <2>1. n \in Int /\ 1 \in Int /\ \A i \in 1 .. n : w[i] \in Plain
    BY <1>6
  <2> HIDE DEF Plain
  <2> QED  BY <2>1, SubSeqProperties
<1> QED  BY <1>7, <1>8, <1>9 DEF w

-----------------------------------------------------------------------------
(* The invariant.                                                          *)

\* A failure ends the process, in an append or in the rewriting of a log, and
\* a deletion is not cut in half.
Dies == Failures \subseteq {"torn line", "half log"}

\* The first half of a deletion of k is done.
Forgetting(k) == op.pc = "forget" /\ op.key = k

IsAppended(o) ==
  /\ o.pc = "appended"
  /\ o = [pc |-> "appended", key |-> o.key, line |-> o.line]
  /\ o.key \in Key
  /\ o.line \in WholeLine

IsSweep(o) ==
  /\ o.pc = "sweep"
  /\ o = [pc |-> "sweep", left |-> o.left]

\* The commit of an append that has not resolved is the one its key holds.
IsNews(o) ==
  o.pc = "appended" /\ o.line.type = "transition" =>
    Held(log[o.key], snap[o.key]) = [seq |-> o.line.seq, state |-> o.line.to]

IsRewrite(o) ==
  /\ o.pc = "rewrite"
  /\ o = [pc |-> "rewrite", key |-> o.key, size |-> o.size, caller |-> o.caller]
  /\ o.key \in Key
  /\ \/ IsAppended(o.caller) /\ o.caller.key = o.key
     \/ IsSweep(o.caller)
  /\ IsNews(o.caller)
  /\ snap[o.key] # Nothing
  /\ LatestSeq(Lines(log[o.key])) <= snap[o.key].seq

IsForget(o) ==
  /\ o.pc = "forget"
  /\ o = [pc |-> "forget", key |-> o.key]
  /\ o.key \in Key

OpFits ==
  \/ op = Idle
  \/ IsAppended(op) /\ IsNews(op)
  \/ IsSweep(op)
  \/ IsRewrite(op)
  \/ IsForget(op)

KeyFits(k) ==
  IF Forgetting(k)
    THEN /\ log[k] = Nothing
         /\ acked[k] = Nothing
         /\ snap[k] \in {Nothing} \cup Snapshots
         /\ cached[k] \in {Nothing} \cup Int
    ELSE Fits(log[k], snap[k], cached[k], acked[k])

Tables ==
  /\ log \in [Key -> {Nothing} \cup Seq(Line)]
  /\ snap \in [Key -> {Nothing} \cup Snapshots]
  /\ cached \in [Key -> {Nothing} \cup Int]
  /\ acked \in [Key -> {Nothing} \cup Snapshots]

FilesInv ==
  /\ Tables
  /\ OpFits
  /\ \A k \in Key : KeyFits(k)
-----------------------------------------------------------------------------
(* Every step keeps it, and is a step of DurableKeys.                      *)

LEMMA FilesInit == Init => FilesInv
<1> SUFFICES ASSUME Init PROVE FilesInv
  OBVIOUS
<1>1. Tables
  BY DEF Init, Tables
<1>2. OpFits
  BY DEF Init, OpFits
<1>3. ASSUME NEW k \in Key PROVE KeyFits(k)
  BY EmptyFits DEF Init, KeyFits, Forgetting, Idle
<1> QED  BY <1>1, <1>2, <1>3 DEF FilesInv

\* A key that is not being deleted can be read, and what is cached is current.
LEMMA NowFits ==
  ASSUME FilesInv, NEW k \in Key, ~Forgetting(k)
  PROVE  /\ Fits(log[k], snap[k], cached[k], acked[k])
         /\ Readable(k)
         /\ CurrentSeq(k) = HeldSeq(log[k], snap[k])
         /\ Consulted(k) = Repaired(log[k])
         /\ LastCommitOf(k) = Held(log[k], snap[k])
<1>1. Fits(log[k], snap[k], cached[k], acked[k])
  BY DEF FilesInv, KeyFits
<1>2. ~IsCorrupt(log[k]) /\ snap[k] # Half
  BY <1>1, RepairedFits, NothingAssumption DEF Fits
<1>3. cached[k] # Nothing => Repaired(log[k]) = log[k] /\ cached[k] = HeldSeq(log[k], snap[k])
  BY <1>1, RepairKeeps
<1> QED  BY <1>1, <1>2, <1>3
         DEF Readable, CurrentSeq, Consulted, LastCommitOf, Forgetting, HeldSeq

\* The phases of an operation exclude each other.
LEMMA Phases ==
  ASSUME OpFits
  PROVE  /\ op.pc \in {"idle", "appended", "sweep", "rewrite", "forget"}
         /\ op.pc = "idle" <=> op = Idle
         /\ op.pc = "appended" => IsAppended(op) /\ IsNews(op)
         /\ op.pc = "sweep" => IsSweep(op)
         /\ op.pc = "rewrite" => IsRewrite(op)
         /\ op.pc = "forget" => IsForget(op)
BY DEF OpFits, Idle, IsAppended, IsSweep, IsRewrite, IsForget

\* What a step does to the one key it is about, as DurableKeys sees it.
Moves(k) ==
  \/ /\ Held(log'[k], snap'[k]) = Held(log[k], snap[k])
     /\ acked'[k] \in {acked[k], Held(log[k], snap[k])}
  \/ /\ \E s \in State : Held(log'[k], snap'[k]) =
                           [seq |-> HeldSeq(log[k], snap[k]) + 1, state |-> s]
     /\ acked'[k] = acked[k]

LEMMA StepFits ==
  ASSUME FilesInv, Tables', OpFits', op.pc # "forget", op'.pc # "forget",
         NEW k \in Key, Moves(k), Fits(log'[k], snap'[k], cached'[k], acked'[k]),
         \A j \in Key \ {k} : /\ log'[j] = log[j] /\ snap'[j] = snap[j]
                              /\ cached'[j] \in {cached[j], Nothing}
                              /\ acked'[j] = acked[j]
  PROVE  FilesInv' /\ Promise!Next
<1>1. ASSUME NEW j \in Key PROVE ~Forgetting(j) /\ ~Forgetting(j)'
  BY DEF Forgetting
<1>2. ASSUME NEW j \in Key PROVE KeyFits(j)'
  <2>1. CASE j = k
    BY <1>1, <2>1 DEF KeyFits
  <2>2. CASE j # k
    <3>1. Fits(log[j], snap[j], cached[j], acked[j])
      BY <1>1, NowFits
    <3>2. Fits(log[j], snap[j], cached'[j], acked[j])
      BY <2>2, <3>1, ForgottenCacheFits
    <3> QED  BY <1>1, <2>2, <3>2 DEF KeyFits
  <2> QED  BY <2>1, <2>2
<1>3. FilesInv'
  BY <1>2 DEF FilesInv
<1>4. ASSUME NEW j \in Key
      PROVE  LastCommitOf(j) = Held(log[j], snap[j])
             /\ LastCommitOf(j)' = Held(log'[j], snap'[j])
  <2>1. LastCommitOf(j) = Held(log[j], snap[j])
    BY <1>1, NowFits
  <2>2. Fits(log'[j], snap'[j], cached'[j], acked'[j])
    BY <1>1, <1>2 DEF KeyFits
  <2>3. ~IsCorrupt(log'[j]) /\ snap'[j] # Half
    BY <2>2, RepairedFits, NothingAssumption DEF Fits
  <2>4. LastCommitOf(j)' = Held(log'[j], snap'[j])
    BY <1>1, <2>3 DEF LastCommitOf, Forgetting, Readable
  <2> QED  BY <2>1, <2>4
<1>5. ASSUME NEW j \in Key
      PROVE  Promise!Stays(j) \/ Promise!Commits(j) \/ Promise!Acknowledges(j)
  <2>1. CASE j # k
    BY <1>4, <1>5, <2>1 DEF Promise!Stays
  <2>2. CASE j = k
    <3>1. LastCommitOf(k) = Held(log[k], snap[k])
          /\ LastCommitOf(k)' = Held(log'[k], snap'[k])
      BY <1>4
    <3>2. CASE Held(log'[k], snap'[k]) = Held(log[k], snap[k])
               /\ acked'[k] \in {acked[k], Held(log[k], snap[k])}
      BY <2>2, <3>1, <3>2 DEF Promise!Stays, Promise!Acknowledges
    <3>3. ASSUME NEW s \in State, acked'[k] = acked[k],
                 Held(log'[k], snap'[k]) = [seq |-> HeldSeq(log[k], snap[k]) + 1, state |-> s]
          PROVE  Promise!Commits(j)
      <4>1. HeldSeq(log[k], snap[k]) + 1 =
              IF Held(log[k], snap[k]) = Nothing THEN 0 ELSE Held(log[k], snap[k]).seq + 1
        BY DEF HeldSeq, EMPTY_SEQ
      <4> QED  BY <2>2, <3>1, <3>3, <4>1 DEF Promise!Commits, Promise!NextSeq
    <3> QED  BY <3>2, <3>3 DEF Moves
  <2> QED  BY <2>1, <2>2
<1> QED  BY <1>3, <1>5 DEF Promise!Next

LEMMA ReadsFit ==
  ASSUME Dies, FilesInv, NEW k \in Key,
         Load(k) \/ AppendConflicts(k) \/ StoreFull(k)
  PROVE  FilesInv' /\ Promise!Next
<1>0. op = Idle /\ op' = Idle /\ Tables
  BY DEF Load, AppendConflicts, StoreFull, MayAppend, FilesInv
<1>1. ~Forgetting(k) /\ op.pc # "forget" /\ op'.pc # "forget" /\ OpFits'
  BY <1>0 DEF Forgetting, Idle, OpFits
<1> DEFINE f == Repaired(log[k])
           n == HeldSeq(log[k], snap[k])
<1>2. /\ Fits(log[k], snap[k], cached[k], acked[k])
      /\ CurrentSeq(k) = n /\ Consulted(k) = f
  BY <1>1, NowFits
<1>3. /\ Fits(f, snap[k], cached[k], acked[k]) /\ Fits(f, snap[k], n, acked[k])
      /\ Held(f, snap[k]) = Held(log[k], snap[k])
  BY <1>2, RepairKeeps
<1>4. /\ log' = [log EXCEPT ![k] = f]
      /\ \E c \in {n, cached[k]} : cached' = [cached EXCEPT ![k] = c]
      /\ UNCHANGED <<snap, acked>>
  BY <1>2 DEF Load, AppendConflicts, StoreFull
<1> HIDE DEF f, n
<1>5. PICK c \in {n, cached[k]} : cached' = [cached EXCEPT ![k] = c]
  BY <1>4
<1>6. f \in {Nothing} \cup Seq(Line) /\ c \in {Nothing} \cup Int
  BY <1>3, <1>5 DEF Fits, Sound
<1>7. Tables'
  BY <1>0, <1>4, <1>5, <1>6 DEF Tables
<1>8. /\ log'[k] = f /\ cached'[k] = c
      /\ \A j \in Key \ {k} : log'[j] = log[j] /\ cached'[j] = cached[j]
  BY <1>0, <1>4, <1>5 DEF Tables
<1>9. Fits(log'[k], snap'[k], cached'[k], acked'[k]) /\ Moves(k)
  BY <1>3, <1>4, <1>5, <1>8 DEF Moves
<1> QED  BY <1>1, <1>4, <1>7, <1>8, <1>9, StepFits

LEMMA AppendFits ==
  ASSUME FilesInv, NEW k \in Key, NEW line \in NextLines(k), AppendLine(k, line)
  PROVE  FilesInv' /\ Promise!Next
<1>0. op = Idle /\ Tables
  BY DEF AppendLine, MayAppend, FilesInv
<1>1. ~Forgetting(k) /\ op.pc # "forget"
  BY <1>0 DEF Forgetting, Idle
<1> DEFINE f == Repaired(log[k])
           n == HeldSeq(log[k], snap[k])
           g == Written(f, line)
           c == IF line.type = "transition" THEN line.seq ELSE n
<1>2. /\ Fits(log[k], snap[k], cached[k], acked[k])
      /\ CurrentSeq(k) = n /\ Consulted(k) = f
  BY <1>1, NowFits
<1>3. /\ log' = [log EXCEPT ![k] = g] /\ cached' = [cached EXCEPT ![k] = c]
      /\ op' = [pc |-> "appended", key |-> k, line |-> line]
      /\ UNCHANGED <<snap, acked>>
  BY <1>2 DEF AppendLine
<1>4. /\ n \in Int /\ n >= EMPTY_SEQ /\ Sound(f) /\ ~IsTorn(f)
      /\ Lines(f) = Lines(log[k])
  BY <1>2, HeldIs, RepairedFits DEF Fits
<1>5. \/ \E s \in State : line = CommitLine(n + 1, s)
      \/ n \in Nat /\ line = NoteLine(n)
  BY <1>2 DEF NextLines
<1>6. /\ line \in WholeLine
      /\ line.type = "transition" => line.seq = n + 1 /\ line.to \in State
  <2>1. n + 1 \in Nat
    BY <1>4 DEF EMPTY_SEQ
  <2> HIDE DEF n
  <2>2. ASSUME NEW s \in State, line = CommitLine(n + 1, s)
        PROVE  line \in WholeLine /\ line.seq = n + 1 /\ line.to \in State
    BY <2>1, <2>2 DEF CommitLine, Transition, WholeLine, Line, Fragment, Corrupt
  <2>3. ASSUME n \in Nat, line = NoteLine(n)
        PROVE  line \in WholeLine /\ line.type # "transition"
    BY <2>3 DEF NoteLine, Note, WholeLine, Line, Fragment, Corrupt
  <2> QED  BY <1>5, <2>2, <2>3
<1>7. /\ Fits(g, snap[k], c, acked[k])
      /\ IF line.type = "transition"
           THEN Held(g, snap[k]) = [seq |-> n + 1, state |-> line.to]
           ELSE Held(g, snap[k]) = Held(log[k], snap[k])
  <2>1. CASE line.type = "transition"
    BY <1>2, <1>6, <2>1, CommitFits
  <2>2. CASE line.type # "transition"
    <3>1. Lines(g) = Append(Lines(log[k]), line) /\ Sound(g) /\ ~IsTorn(g)
      BY <1>4, <1>6, WrittenWhole
    <3> QED  BY <1>2, <1>6, <2>2, <3>1, NoteFits
  <2> QED  BY <2>1, <2>2
<1> HIDE DEF g, f
<1>8. g \in {Nothing} \cup Seq(Line) /\ c \in {Nothing} \cup Int
  BY <1>7 DEF Fits, Sound
<1> HIDE DEF c
<1>9. Tables'
  BY <1>0, <1>3, <1>8 DEF Tables
<1>10. /\ log'[k] = g /\ cached'[k] = c
       /\ \A j \in Key \ {k} : log'[j] = log[j] /\ cached'[j] = cached[j]
  BY <1>0, <1>3 DEF Tables
<1>11. OpFits' /\ op'.pc # "forget"
  <2>1. IsAppended(op') /\ op'.key = k /\ op'.line = line /\ op'.pc = "appended"
    BY <1>3, <1>6 DEF IsAppended
  <2>2. IsNews(op)'
    BY <1>3, <1>6, <1>7, <1>10, <2>1 DEF IsNews
  <2> QED  BY <2>1, <2>2 DEF OpFits, IsAppended
<1>12. Moves(k)
  BY <1>3, <1>6, <1>7, <1>10 DEF Moves, n
<1> QED  BY <1>1, <1>3, <1>7, <1>9, <1>10, <1>11, <1>12, StepFits
LEMMA TearFits ==
  ASSUME Dies, FilesInv, NEW k \in Key, AppendTears(k)
  PROVE  FilesInv' /\ Promise!Next
<1>0. op = Idle /\ Tables
  BY DEF AppendTears, MayAppend, FilesInv
<1>1. ~Forgetting(k) /\ op.pc # "forget"
  BY <1>0 DEF Forgetting, Idle
<1> DEFINE f == Repaired(log[k])
           g == Written(f, Fragment)
<1>2. /\ Fits(log[k], snap[k], cached[k], acked[k])
      /\ Consulted(k) = f
  BY <1>1, NowFits
<1>3. /\ log' = [log EXCEPT ![k] = g] /\ cached' = [j \in Key |-> Nothing]
      /\ op' = Idle /\ UNCHANGED <<snap, acked>>
  BY <1>2 DEF AppendTears, MayFail, Dies, Die
<1>4. Sound(f) /\ ~IsTorn(f) /\ Lines(f) = Lines(log[k]) /\ Lines(f) \in Seq(WholeLine)
  BY <1>2, RepairedFits DEF Fits
<1>5. g = Append(Lines(f), Fragment)
  <2>1. f # Nothing => f = Lines(f)
    BY <1>4, RepairedFits
  <2>2. f = Nothing => Lines(f) = <<>> /\ g = Append(<<>>, Fragment)
    BY DEF Lines, Written
  <2>3. f # Nothing => g = Append(f, Fragment)
    BY <1>4 DEF Written
  <2> QED  BY <2>1, <2>2, <2>3
<1>6. Lines(g) = Lines(log[k]) /\ Sound(g)
  BY <1>4, <1>5, WrittenHalf
<1>7. Fits(g, snap[k], Nothing, acked[k]) /\ Held(g, snap[k]) = Held(log[k], snap[k])
  <2>1. Held(g, snap[k]) = Held(log[k], snap[k])
    BY <1>6, SameLinesHeld
  <2> QED  BY <1>2, <1>6, <2>1 DEF Fits
<1> HIDE DEF g
<1>8. g \in {Nothing} \cup Seq(Line)
  BY <1>7 DEF Fits, Sound
<1>9. Tables'
  BY <1>0, <1>3, <1>8 DEF Tables
<1>10. log'[k] = g /\ \A j \in Key \ {k} : log'[j] = log[j]
  BY <1>0, <1>3 DEF Tables
<1>11. OpFits' /\ op'.pc # "forget"
  BY <1>3 DEF OpFits, Idle
<1>12. Moves(k)
  BY <1>3, <1>7, <1>10 DEF Moves
<1> QED  BY <1>1, <1>3, <1>7, <1>9, <1>10, <1>11, <1>12, StepFits

\* The files stay as they are, and the writer of an append may be told.
LEMMA ReturnFits ==
  ASSUME FilesInv, AppendReturns
  PROVE  FilesInv' /\ Promise!Next
<1> DEFINE k == op.key
<1>1. IsAppended(op) /\ IsNews(op) /\ k \in Key /\ Tables
  <2>1. op.pc = "appended"
    BY DEF AppendReturns
  <2> QED  BY <2>1, Phases DEF FilesInv, IsAppended
<1>2. ~Forgetting(k) /\ op.pc # "forget"
  BY <1>1 DEF Forgetting, IsAppended
<1>3. Fits(log[k], snap[k], cached[k], acked[k])
  BY <1>1, <1>2, NowFits
<1>4. UNCHANGED <<log, snap, cached>> /\ op' = Idle
  BY DEF AppendReturns, files
<1>5. Resolved(op.line)
  BY DEF AppendReturns
<1> DEFINE h == Held(log[k], snap[k])
<1>6. acked'[k] \in {acked[k], h} /\ (\A j \in Key \ {k} : acked'[j] = acked[j])
      /\ acked' \in [Key -> {Nothing} \cup Snapshots]
      /\ Fits(log[k], snap[k], cached[k], acked'[k])
  <2>1. CASE op.line.type = "transition"
    <3>1. h = [seq |-> op.line.seq, state |-> op.line.to]
      BY <1>1, <2>1 DEF IsNews, IsAppended
    <3>2. h # Nothing /\ h \in Snapshots
      <4>1. op.line.seq \in Nat /\ op.line.to \in State
        BY <1>1, <2>1, LineTypes DEF IsAppended
      <4> QED  BY <3>1, <4>1, NothingAssumption DEF Snapshots
    <3>3. acked' = [acked EXCEPT ![k] = h]
      BY <1>5, <2>1, <3>1 DEF Resolved
    <3>4. Fits(log[k], snap[k], cached[k], h)
      BY <1>3, <3>2, AckFits
    <3> QED  BY <1>1, <3>2, <3>3, <3>4 DEF Tables
  <2>2. CASE op.line.type # "transition"
    <3>1. acked' = acked
      BY <1>1, <1>5, <2>2 DEF Resolved, Tables
    <3> QED  BY <1>1, <1>3, <3>1 DEF Tables
  <2> QED  BY <2>1, <2>2
<1>7. Tables' /\ OpFits' /\ op'.pc # "forget"
  BY <1>1, <1>4, <1>6 DEF Tables, OpFits, Idle
<1>8. Moves(k)
  BY <1>4, <1>6 DEF Moves
<1> HIDE DEF k
<1> QED  BY <1>1, <1>2, <1>4, <1>6, <1>7, <1>8, StepFits

LEMMA EvictionFits ==
  ASSUME FilesInv, NEW k \in Key, Snapshot(k)
  PROVE  FilesInv' /\ Promise!Next
<1>1. op = Idle /\ op' = Idle /\ Tables /\ UNCHANGED <<log, cached, acked>>
  BY DEF Snapshot, FilesInv
<1>2. ~Forgetting(k) /\ op.pc # "forget" /\ op'.pc # "forget" /\ OpFits'
  BY <1>1 DEF Forgetting, Idle, OpFits
<1>3. Fits(log[k], snap[k], cached[k], acked[k])
  BY <1>2, NowFits
<1>4. PICK i \in Commits(Lines(log[k])) :
        /\ Lines(log[k])[i].seq > SnapSeq(snap[k])
        /\ snap' = [snap EXCEPT ![k] = [seq |-> Lines(log[k])[i].seq,
                                        state |-> Lines(log[k])[i].to]]
  BY DEF Snapshot
<1> DEFINE t == [seq |-> Lines(log[k])[i].seq, state |-> Lines(log[k])[i].to]
<1>5. Fits(log[k], t, cached[k], acked[k]) /\ Held(log[k], t) = Held(log[k], snap[k])
  BY <1>3, <1>4, SnapshotFits
<1> HIDE DEF t
<1>6. snap' = [snap EXCEPT ![k] = t]
  BY <1>4 DEF t
<1>7. Tables'
  BY <1>1, <1>5, <1>6 DEF Tables, Fits
<1>8. snap'[k] = t /\ \A j \in Key \ {k} : snap'[j] = snap[j]
  BY <1>1, <1>6 DEF Tables
<1>9. Moves(k)
  BY <1>1, <1>5, <1>8 DEF Moves
<1> QED  BY <1>1, <1>2, <1>5, <1>7, <1>8, <1>9, StepFits

\* Nothing happens to the files or to what is known of them.
LEMMA RestFits ==
  ASSUME FilesInv, UNCHANGED <<log, snap, acked>>, OpFits', op'.pc # "forget",
         op.pc # "forget",
         cached' = cached \/ cached' = [k \in Key |-> Nothing]
  PROVE  FilesInv' /\ Promise!Next
<1>0. Tables
  BY DEF FilesInv
<1>1. Tables' /\ \A j \in Key : cached'[j] \in {cached[j], Nothing}
  BY <1>0 DEF Tables
<1>2. CASE Key = {}
  <2>1. FilesInv'
    BY <1>1, <1>2 DEF FilesInv
  <2> QED  BY <1>2, <2>1 DEF Promise!Next
<1>3. ASSUME NEW k \in Key PROVE FilesInv' /\ Promise!Next
  <2>1. Fits(log[k], snap[k], cached[k], acked[k])
    BY NowFits DEF Forgetting
  <2>2. Fits(log[k], snap[k], cached'[k], acked[k])
    BY <1>1, <2>1, ForgottenCacheFits
  <2>3. Moves(k)
    BY DEF Moves
  <2> QED  BY <1>1, <2>2, <2>3, StepFits
<1> QED  BY <1>2, <1>3

LEMMA SkipFits ==
  ASSUME FilesInv, NEW k \in Key, FoldSkips(k)
  PROVE  FilesInv' /\ Promise!Next
<1>1. \/ op.pc = "appended" /\ op.key = k /\ IsAppended(op) /\ IsNews(op)
      \/ op.pc = "sweep" /\ IsSweep(op)
  BY Phases DEF FoldSkips, Folds, FilesInv
<1>2. ~Forgetting(k) /\ op.pc # "forget" /\ Tables
  BY <1>1 DEF Forgetting, FilesInv
<1>3. Fits(log[k], snap[k], cached[k], acked[k]) /\ Readable(k)
  BY <1>2, NowFits
<1> DEFINE f == Repaired(log[k])
<1>4. /\ Fits(f, snap[k], cached[k], acked[k])
      /\ Held(f, snap[k]) = Held(log[k], snap[k])
  BY <1>3, RepairKeeps
<1>5. /\ log' = [log EXCEPT ![k] = f] /\ UNCHANGED <<snap, cached>>
      /\ Held(log[k], snap[k]) = Nothing /\ op' = AfterFold(k)
      /\ IF op.pc = "sweep" THEN UNCHANGED acked ELSE Resolved(op.line)
  BY <1>3 DEF FoldSkips
<1>6. UNCHANGED acked
  <2>1. CASE op.pc = "sweep"
    BY <1>5, <2>1
  <2>2. CASE op.pc = "appended"
    <3>1. op.line \in WholeLine
      BY <1>1, <2>2 DEF IsAppended
    <3>2. op.line.type # "transition"
      <4> SUFFICES ASSUME op.line.type = "transition" PROVE FALSE
        OBVIOUS
      <4>1. Nothing = [seq |-> op.line.seq, state |-> op.line.to]
        BY <1>1, <1>5, <2>2 DEF IsNews
      <4>2. op.line.seq \in Nat /\ op.line.to \in State
        BY <3>1, LineTypes
      <4> QED  BY <4>1, <4>2, NothingAssumption DEF Snapshots
    <3> QED  BY <1>1, <1>2, <1>5, <2>2, <3>2 DEF Resolved, Tables
  <2> QED  BY <1>1, <2>1, <2>2
<1>7. OpFits' /\ op'.pc # "forget"
  <2>1. CASE op.pc = "sweep"
    <3>1. op' = [op EXCEPT !.left = Without(op.left, k)] /\ IsSweep(op)
      BY <1>1, <1>5, <2>1 DEF AfterFold
    <3>2. op' = [pc |-> "sweep", left |-> Without(op.left, k)]
      BY <3>1 DEF IsSweep
    <3> QED  BY <3>2 DEF OpFits, IsSweep
  <2>2. CASE op.pc = "appended"
    BY <1>5, <2>2 DEF AfterFold, OpFits, Idle
  <2> QED  BY <1>1, <2>1, <2>2
<1> HIDE DEF f
<1>8. f \in {Nothing} \cup Seq(Line)
  BY <1>4 DEF Fits, Sound
<1>9. Tables'
  BY <1>2, <1>5, <1>6, <1>8 DEF Tables
<1>10. log'[k] = f /\ \A j \in Key \ {k} : log'[j] = log[j]
  BY <1>2, <1>5 DEF Tables
<1>11. Moves(k)
  BY <1>4, <1>5, <1>6, <1>10 DEF Moves
<1> QED  BY <1>2, <1>4, <1>5, <1>6, <1>7, <1>9, <1>10, <1>11, StepFits

LEMMA FoldSnapshotFits ==
  ASSUME Dies, FilesInv, NEW k \in Key, FoldSnapshot(k)
  PROVE  FilesInv' /\ Promise!Next
<1>1. \/ op.pc = "appended" /\ op.key = k /\ IsAppended(op) /\ IsNews(op)
      \/ op.pc = "sweep" /\ IsSweep(op) /\ IsNews(op)
  BY Phases DEF FoldSnapshot, Folds, FilesInv, IsNews
<1>2. ~Forgetting(k) /\ op.pc # "forget" /\ Tables
  BY <1>1 DEF Forgetting, FilesInv
<1>3. Fits(log[k], snap[k], cached[k], acked[k])
  BY <1>2, NowFits
<1> DEFINE f == Repaired(log[k])
           h == Held(log[k], snap[k])
<1>4. /\ Fits(f, snap[k], cached[k], acked[k]) /\ Held(f, snap[k]) = h
  BY <1>3, RepairKeeps
<1>5. h # Nothing /\ UNCHANGED <<cached, acked>>
      /\ log' = [log EXCEPT ![k] = f]
      /\ snap' = [snap EXCEPT ![k] = [seq |-> h.seq, state |-> h.state]]
      /\ op' = [pc |-> "rewrite", key |-> k, size |-> SizeToFold(k), caller |-> op]
  BY DEF FoldSnapshot, MayFail, Dies
<1>6. /\ Fits(f, h, cached[k], acked[k]) /\ Held(f, h) = h
      /\ LatestSeq(Lines(f)) <= h.seq
      /\ h = [seq |-> h.seq, state |-> h.state]
  BY <1>4, <1>5, FoldFits
<1> HIDE DEF f
<1>7. f \in {Nothing} \cup Seq(Line) /\ h \in {Nothing} \cup Snapshots
  BY <1>6 DEF Fits, Sound
<1>8. snap' = [snap EXCEPT ![k] = h]
  BY <1>5, <1>6
<1>9. Tables'
  BY <1>2, <1>5, <1>7, <1>8 DEF Tables
<1>10. /\ log'[k] = f /\ snap'[k] = h
       /\ \A j \in Key \ {k} : log'[j] = log[j] /\ snap'[j] = snap[j]
  BY <1>2, <1>5, <1>8 DEF Tables
<1>11. OpFits' /\ op'.pc # "forget"
  <2>1. op'.pc = "rewrite" /\ op'.key = k /\ op'.caller = op
        /\ op' = [pc |-> "rewrite", key |-> k, size |-> op'.size, caller |-> op]
    BY <1>5
  <2>2. op.pc = "appended" /\ op.line.type = "transition" =>
          Held(log'[op.key], snap'[op.key]) = [seq |-> op.line.seq, state |-> op.line.to]
    BY <1>1, <1>6, <1>10 DEF IsNews, h
  <2>3. IsNews(op.caller)'
    BY <2>1, <2>2 DEF IsNews
  <2>4. IsRewrite(op)'
    BY <1>1, <1>5, <1>6, <1>10, <2>1, <2>3 DEF IsRewrite
  <2> QED  BY <2>1, <2>4 DEF OpFits
<1>12. Moves(k)
  BY <1>5, <1>6, <1>10 DEF Moves
<1> HIDE DEF h
<1> QED  BY <1>2, <1>5, <1>6, <1>9, <1>10, <1>11, <1>12, StepFits
\* append() resolves behind a fold of its log.
LEMMA NewsFit ==
  ASSUME Tables, NEW k \in Key, NEW line \in WholeLine,
         NEW f, NEW s, NEW c, Fits(f, s, c, acked[k]),
         line.type = "transition" => Held(f, s) = [seq |-> line.seq, state |-> line.to],
         acked' = [acked EXCEPT ![k] = IF line.type = "transition"
                                         THEN [seq |-> line.seq, state |-> line.to] ELSE @]
  PROVE  /\ acked'[k] \in {acked[k], Held(f, s)}
         /\ \A j \in Key \ {k} : acked'[j] = acked[j]
         /\ acked' \in [Key -> {Nothing} \cup Snapshots]
         /\ Fits(f, s, c, acked'[k])
<1> DEFINE h == Held(f, s)
<1>1. CASE line.type = "transition"
  <2>1. line.seq \in Nat /\ line.to \in State
    BY <1>1, LineTypes
  <2>2. h = [seq |-> line.seq, state |-> line.to]
    BY <1>1
  <2>3. h # Nothing /\ h \in Snapshots
    BY <2>1, <2>2, NothingAssumption DEF Snapshots
  <2>4. acked' = [acked EXCEPT ![k] = h]
    BY <1>1, <2>2
  <2>5. Fits(f, s, c, h)
    BY <2>3, AckFits
  <2> HIDE DEF h
  <2> QED  BY <2>3, <2>4, <2>5 DEF Tables, h
<1>2. CASE line.type # "transition"
  <2>1. acked' = acked
    BY <1>2 DEF Tables
  <2> QED  BY <2>1 DEF Tables
<1> QED  BY <1>1, <1>2

LEMMA FoldLogFits ==
  ASSUME FilesInv, FoldLog
  PROVE  FilesInv' /\ Promise!Next
<1> DEFINE k == op.key
           g == Kept(k)
           s == snap[k]
<1>1. IsRewrite(op) /\ k \in Key /\ Tables
  <2>1. op.pc = "rewrite"
    BY DEF FoldLog
  <2> QED  BY <2>1, Phases DEF FilesInv, IsRewrite
<1>2. ~Forgetting(k) /\ op.pc # "forget"
  BY <1>1 DEF Forgetting, IsRewrite
<1>3. Fits(log[k], s, cached[k], acked[k])
  BY <1>1, <1>2, NowFits
<1>4. s # Nothing /\ s \in Snapshots /\ LatestSeq(Lines(log[k])) <= s.seq
  BY <1>1, <1>3 DEF IsRewrite, Fits
<1>5. g \in Seq(WholeLine) /\ Commits(g) = {}
  BY <1>3, <1>4, KeptIsNotes DEF Fits
<1>6. Lines(g) = g /\ Sound(g) /\ ~IsTorn(g)
  BY <1>5, WrittenHalf
<1>7. Fits(g, s, cached[k], acked[k]) /\ Held(g, s) = s /\ Held(log[k], s) = s
  BY <1>3, <1>4, <1>5, <1>6, RewriteFits
<1>8. /\ log' = [log EXCEPT ![k] = g] /\ UNCHANGED <<snap, cached>>
      /\ IF op.caller.pc = "sweep"
           THEN /\ op' = [op.caller EXCEPT !.left = Without(@, k)]
                /\ UNCHANGED acked
           ELSE op' = Idle /\ Resolved(op.caller.line)
  BY DEF FoldLog
<1>9. /\ op.caller.pc = "sweep" => IsSweep(op.caller)
      /\ op.caller.pc # "sweep" => IsAppended(op.caller) /\ op.caller.key = k
      /\ IsNews(op.caller)
  BY <1>1 DEF IsRewrite, IsSweep, IsAppended
<1> HIDE DEF g
<1>10. OpFits' /\ op'.pc # "forget"
  <2>1. CASE op.caller.pc = "sweep"
    <3>1. op' = [op.caller EXCEPT !.left = Without(op.caller.left, k)] /\ IsSweep(op.caller)
      BY <1>8, <1>9, <2>1
    <3>2. op' = [pc |-> "sweep", left |-> Without(op.caller.left, k)]
      BY <3>1 DEF IsSweep
    <3> QED  BY <3>2 DEF OpFits, IsSweep
  <2>2. CASE op.caller.pc # "sweep"
    BY <1>8, <2>2 DEF OpFits, Idle
  <2> QED  BY <2>1, <2>2
<1>11. /\ acked'[k] \in {acked[k], Held(g, s)}
       /\ \A j \in Key \ {k} : acked'[j] = acked[j]
       /\ acked' \in [Key -> {Nothing} \cup Snapshots]
       /\ Fits(g, s, cached[k], acked'[k])
  <2>1. CASE op.caller.pc = "sweep"
    BY <1>1, <1>7, <1>8, <2>1 DEF Tables
  <2>2. CASE op.caller.pc # "sweep"
    <3> DEFINE line == op.caller.line
    <3>1. line \in WholeLine /\ Resolved(line)
      BY <1>8, <1>9, <2>2 DEF IsAppended
    <3>2. line.type = "transition" => Held(g, s) = [seq |-> line.seq, state |-> line.to]
      BY <1>7, <1>9, <2>2 DEF IsNews, IsAppended
    <3>3. acked' = [acked EXCEPT ![k] = IF line.type = "transition"
                                          THEN [seq |-> line.seq, state |-> line.to] ELSE @]
      BY <3>1 DEF Resolved
    <3> HIDE DEF line, k, s
    <3> QED  BY <1>1, <1>7, <3>1, <3>2, <3>3, NewsFit
  <2> QED  BY <2>1, <2>2
<1>12. g \in {Nothing} \cup Seq(Line)
  BY <1>7 DEF Fits, Sound
<1>13. Tables'
  BY <1>1, <1>8, <1>11, <1>12 DEF Tables
<1>14. log'[k] = g /\ \A j \in Key \ {k} : log'[j] = log[j]
  BY <1>1, <1>8 DEF Tables
<1>15. Moves(k)
  BY <1>7, <1>8, <1>11, <1>14 DEF Moves
<1>16. Fits(log'[k], snap'[k], cached'[k], acked'[k])
  BY <1>8, <1>11, <1>14
<1> HIDE DEF k, s
<1> QED  BY <1>1, <1>2, <1>8, <1>10, <1>11, <1>13, <1>14, <1>15, <1>16, StepFits

LEMMA FoldLogTearsFits ==
  ASSUME FilesInv, FoldLogTears
  PROVE  FilesInv' /\ Promise!Next
<1> DEFINE k == op.key
           s == snap[k]
<1>1. IsRewrite(op) /\ k \in Key /\ Tables
  <2>1. op.pc = "rewrite"
    BY DEF FoldLogTears
  <2> QED  BY <2>1, Phases DEF FilesInv, IsRewrite
<1>2. ~Forgetting(k) /\ op.pc # "forget"
  BY <1>1 DEF Forgetting, IsRewrite
<1>3. Fits(log[k], s, cached[k], acked[k])
  BY <1>1, <1>2, NowFits
<1>4. s # Nothing /\ s \in Snapshots /\ LatestSeq(Lines(log[k])) <= s.seq
  BY <1>1, <1>3 DEF IsRewrite, Fits
<1>5. PICK n \in 0 .. Len(Kept(k)) :
        \/ log' = [log EXCEPT ![k] = SubSeq(Kept(k), 1, n)]
        \/ log' = [log EXCEPT ![k] = Append(SubSeq(Kept(k), 1, n), Fragment)]
  BY DEF FoldLogTears
<1> DEFINE w == SubSeq(Kept(k), 1, n)
<1>6. w \in Seq(WholeLine) /\ Commits(w) = {}
  BY <1>3, <1>4, KeptIsNotes DEF Fits
<1> HIDE DEF w
<1>7. PICK g \in {w, Append(w, Fragment)} : log' = [log EXCEPT ![k] = g]
  BY <1>5 DEF w
<1>8. Lines(g) = w /\ Sound(g)
  BY <1>6, <1>7, WrittenHalf
<1>9. Fits(g, s, Nothing, acked[k]) /\ Held(g, s) = s /\ Held(log[k], s) = s
  BY <1>3, <1>4, <1>6, <1>8, RewriteFits
<1>10. /\ UNCHANGED <<snap, acked>> /\ op' = Idle
       /\ cached' = [j \in Key |-> Nothing]
  BY DEF FoldLogTears, Die
<1>11. g \in {Nothing} \cup Seq(Line)
  BY <1>8 DEF Sound
<1>12. Tables' /\ OpFits' /\ op'.pc # "forget"
  BY <1>1, <1>7, <1>10, <1>11 DEF Tables, OpFits, Idle
<1>13. log'[k] = g /\ \A j \in Key \ {k} : log'[j] = log[j]
  BY <1>1, <1>7 DEF Tables
<1>14. Moves(k)
  BY <1>9, <1>10, <1>13 DEF Moves
<1>15. Fits(log'[k], snap'[k], cached'[k], acked'[k])
  BY <1>1, <1>9, <1>10, <1>13
<1> HIDE DEF k, s
<1> QED  BY <1>1, <1>2, <1>10, <1>12, <1>13, <1>14, <1>15, StepFits

LEMMA ForgetLogFits ==
  ASSUME FilesInv, NEW k \in Key, ForgetLog(k)
  PROVE  FilesInv' /\ Promise!Next
<1>1. /\ op = Idle /\ op' = [pc |-> "forget", key |-> k] /\ UNCHANGED <<snap, cached>>
      /\ log' = [log EXCEPT ![k] = Nothing] /\ acked' = [acked EXCEPT ![k] = Nothing]
      /\ Tables
  BY DEF ForgetLog, FilesInv
<1>2. \A j \in Key : ~Forgetting(j) /\ (Forgetting(j)' <=> j = k)
  BY <1>1 DEF Forgetting, Idle
<1>3. /\ log'[k] = Nothing /\ acked'[k] = Nothing
      /\ \A j \in Key \ {k} : log'[j] = log[j] /\ acked'[j] = acked[j]
  BY <1>1 DEF Tables
<1>4. Tables'
  BY <1>1 DEF Tables
<1>5. ASSUME NEW j \in Key PROVE KeyFits(j)'
  <2>1. Fits(log[j], snap[j], cached[j], acked[j])
    BY <1>2, NowFits
  <2> QED  BY <1>1, <1>2, <1>3, <2>1 DEF KeyFits, Tables
<1>6. OpFits'
  BY <1>1 DEF OpFits, IsForget
<1>7. FilesInv'
  BY <1>4, <1>5, <1>6 DEF FilesInv
<1>8. ASSUME NEW j \in Key
      PROVE  Promise!Stays(j) \/ Promise!Forgets(j)
  <2>1. CASE j = k
    <3>1. LastCommitOf(j)' = Nothing
      BY <1>1, <2>1 DEF LastCommitOf
    <3> QED  BY <1>3, <2>1, <3>1 DEF Promise!Forgets
  <2>2. CASE j # k
    <3>1. LastCommitOf(j)' = LastCommitOf(j)
      BY <1>1, <1>2, <1>3, <2>2 DEF LastCommitOf, Forgetting, Readable
    <3> QED  BY <1>3, <1>8, <2>2, <3>1 DEF Promise!Stays
  <2> QED  BY <2>1, <2>2
<1> QED  BY <1>7, <1>8 DEF Promise!Next

LEMMA ForgetSnapshotFits ==
  ASSUME FilesInv, ForgetSnapshot
  PROVE  FilesInv' /\ Promise!Next
<1> DEFINE k == op.key
<1>1. /\ op.pc = "forget" /\ k \in Key /\ op' = Idle /\ UNCHANGED <<log, acked>>
      /\ snap' = [snap EXCEPT ![k] = Nothing] /\ cached' = [cached EXCEPT ![k] = Nothing]
      /\ Tables
  <2>1. op.pc = "forget" /\ Tables /\ OpFits
    BY DEF ForgetSnapshot, FilesInv
  <2>2. k \in Key
    BY <2>1, Phases DEF IsForget
  <2> QED  BY <2>1, <2>2 DEF ForgetSnapshot
<1>2. \A j \in Key : ~Forgetting(j)' /\ (Forgetting(j) <=> j = k)
  BY <1>1 DEF Forgetting, Idle
<1>3. log[k] = Nothing /\ acked[k] = Nothing
  BY <1>1, <1>2 DEF FilesInv, KeyFits
<1>4. /\ snap'[k] = Nothing /\ cached'[k] = Nothing
      /\ \A j \in Key \ {k} : snap'[j] = snap[j] /\ cached'[j] = cached[j]
  BY <1>1 DEF Tables
<1>5. Tables' /\ OpFits'
  BY <1>1 DEF Tables, OpFits
<1>6. ASSUME NEW j \in Key PROVE KeyFits(j)'
  <2>1. CASE j = k
    BY <1>1, <1>2, <1>3, <1>4, <2>1, EmptyFits DEF KeyFits
  <2>2. CASE j # k
    <3>1. Fits(log[j], snap[j], cached[j], acked[j])
      BY <1>2, <2>2, NowFits
    <3> QED  BY <1>1, <1>2, <1>4, <2>2, <3>1 DEF KeyFits
  <2> QED  BY <2>1, <2>2
<1>7. FilesInv'
  BY <1>5, <1>6 DEF FilesInv
<1>8. ASSUME NEW j \in Key PROVE Promise!Stays(j)
  <2>1. LastCommitOf(j)' = LastCommitOf(j)
    <3>1. CASE j = k
      <4>1. LastCommitOf(j) = Nothing
        BY <1>1, <3>1 DEF LastCommitOf
      <4>2. Lines(Nothing) = <<>> /\ Commits(<<>>) = {}
        BY DEF Lines, Commits
      <4>3. Held(Nothing, Nothing) = Nothing
        BY <4>2 DEF Held, LatestSeq, SnapSeq, EMPTY_SEQ
      <4>4. ~IsCorrupt(Nothing)
        BY <4>2 DEF IsCorrupt
      <4>5. LastCommitOf(j)' = Nothing
        BY <1>1, <1>2, <1>3, <1>4, <3>1, <4>3, <4>4, NothingAssumption
           DEF LastCommitOf, Forgetting, Readable
      <4> QED  BY <4>1, <4>5
    <3>2. CASE j # k
      BY <1>1, <1>2, <1>4, <3>2 DEF LastCommitOf, Forgetting, Readable
    <3> QED  BY <3>1, <3>2
  <2> QED  BY <1>1, <1>8, <2>1 DEF Promise!Stays
<1> QED  BY <1>7, <1>8 DEF Promise!Next

LEMMA FilesStep ==
  ASSUME Dies, FilesInv, Next
  PROVE  FilesInv' /\ Promise!Next
<1>1. ASSUME NEW k \in Key,
             \/ Load(k) \/ AppendConflicts(k) \/ StoreFull(k)
             \/ \E line \in NextLines(k) : AppendLine(k, line)
             \/ AppendTears(k) \/ Snapshot(k) \/ FoldSkips(k) \/ FoldSnapshot(k)
             \/ ForgetLog(k)
      PROVE  FilesInv' /\ Promise!Next
  BY <1>1, ReadsFit, AppendFits, TearFits, EvictionFits, SkipFits, FoldSnapshotFits,
     ForgetLogFits
<1>2. CASE SweepBegins
  <2>1. op = Idle /\ op' = [pc |-> "sweep", left |-> counted']
        /\ UNCHANGED <<log, snap, cached, acked>>
    BY <1>2 DEF SweepBegins, files
  <2>2. OpFits' /\ op.pc # "forget" /\ op'.pc # "forget"
    BY <2>1 DEF OpFits, IsSweep, Idle
  <2> QED  BY <2>1, <2>2, RestFits
<1>3. CASE SweepEnds \/ Usage
  <2>1. op.pc # "forget" /\ op' = Idle /\ UNCHANGED <<log, snap, cached, acked>>
    BY <1>3 DEF SweepEnds, Usage, files, Idle
  <2>2. OpFits' /\ op'.pc # "forget"
    BY <2>1 DEF OpFits, Idle
  <2> QED  BY <2>1, <2>2, RestFits
<1>4. CASE Crash
  <2>1. op.pc # "forget" /\ op' = Idle /\ UNCHANGED <<log, snap, acked>>
        /\ cached' = [j \in Key |-> Nothing]
    BY <1>4 DEF Crash, Die, Dies, files
  <2>2. OpFits' /\ op'.pc # "forget"
    BY <2>1 DEF OpFits, Idle
  <2> QED  BY <2>1, <2>2, RestFits
<1> QED  BY <1>1, <1>2, <1>3, <1>4, ReturnFits, FoldLogFits, FoldLogTearsFits,
         ForgetSnapshotFits DEF Next

LEMMA FilesHold == ASSUME Dies PROVE Spec => []FilesInv
<1>1. FilesInv /\ [Next]_vars => FilesInv'
  <2>1. ASSUME FilesInv, Next PROVE FilesInv'
    BY <2>1, FilesStep
  <2>2. ASSUME FilesInv, UNCHANGED vars PROVE FilesInv'
    BY <2>2 DEF vars, files, table, FilesInv, Tables, OpFits, KeyFits, Forgetting,
       IsAppended, IsNews, IsSweep, IsRewrite, IsForget
  <2> QED  BY <2>1, <2>2
<1> QED  BY <1>1, FilesInit, PTL DEF Spec

(***************************************************************************)
(* An append() that resolved is never lost: for any keys, configurations   *)
(* and sizes, and whatever appends, folds, snapshots, sweeps and crashes   *)
(* come after it, a process that starts now reads the commit or a later    *)
(* one, as long as no failure stops half way in a snapshot or a deletion,  *)
(* and none lets the process go on.                                        *)
(***************************************************************************)
THEOREM AcknowledgedIsDurable ==
  ASSUME Dies
  PROVE  Spec => []AckedIsDurable
<1>1. ASSUME FilesInv PROVE AckedIsDurable
  <2> SUFFICES ASSUME NEW k \in Key, acked[k] # Nothing
               PROVE  /\ Readable(k)
                      /\ Held(log[k], snap[k]) # Nothing
                      /\ Held(log[k], snap[k]).seq >= acked[k].seq
                      /\ Held(log[k], snap[k]).seq = acked[k].seq =>
                           Held(log[k], snap[k]).state = acked[k].state
    BY DEF AckedIsDurable
  <2>1. ~Forgetting(k)
    BY <1>1 DEF FilesInv, KeyFits
  <2>2. Fits(log[k], snap[k], cached[k], acked[k]) /\ Readable(k)
    BY <1>1, <2>1, NowFits
  <2> QED  BY <2>2 DEF Fits
<1> QED  BY <1>1, FilesHold, PTL

(***************************************************************************)
(* The cached sequence is the one the files hold, so the condition of an   *)
(* append is decided on what is on disk.                                   *)
(***************************************************************************)
THEOREM CacheIsAlwaysCurrent ==
  ASSUME Dies
  PROVE  Spec => []CacheIsCurrent
<1>1. ASSUME FilesInv PROVE CacheIsCurrent
  <2> SUFFICES ASSUME op.pc # "forget", NEW k \in Key, cached[k] # Nothing
               PROVE  cached[k] = HeldSeq(log[k], snap[k])
    BY DEF CacheIsCurrent, HeldSeq
  <2>1. Fits(log[k], snap[k], cached[k], acked[k])
    BY <1>1, NowFits DEF Forgetting
  <2> QED  BY <2>1 DEF Fits
<1> QED  BY <1>1, FilesHold, PTL

(***************************************************************************)
(* The store implements DurableKeys: every file operation, and every crash *)
(* between two of them, leaves each key as it is, adds the next commit to  *)
(* it, confirms the last one, or deletes it.                               *)
(***************************************************************************)
THEOREM KeysAreDurable ==
  ASSUME Dies
  PROVE  Spec => ImplementsDurableKeys
<1>1. Init => Promise!Init
  <2> SUFFICES ASSUME Init, NEW k \in Key
               PROVE  LastCommitOf(k) = Nothing /\ acked[k] = Nothing
    BY DEF Promise!Init
  <2>1. FilesInv /\ ~Forgetting(k)
    BY FilesInit DEF Init, Forgetting, Idle
  <2>2. LastCommitOf(k) = Held(log[k], snap[k])
    BY <2>1, NowFits
  <2>3. Lines(Nothing) = <<>> /\ Commits(<<>>) = {}
    BY DEF Lines, Commits
  <2>4. Held(Nothing, Nothing) = Nothing
    BY <2>3 DEF Held, LatestSeq, SnapSeq, EMPTY_SEQ
  <2> QED  BY <2>2, <2>4 DEF Init
<1>2. FilesInv /\ [Next]_vars => [Promise!Next]_(Promise!vars)
  <2>1. ASSUME FilesInv, Next PROVE Promise!Next
    BY <2>1, FilesStep
  <2>2. ASSUME UNCHANGED vars PROVE UNCHANGED Promise!vars
    BY <2>2 DEF vars, files, table, Promise!vars, LastCommitOf, Readable
  <2> QED  BY <2>1, <2>2
<1> QED  BY <1>1, <1>2, FilesHold, PTL DEF Spec, Promise!Spec, ImplementsDurableKeys

-----------------------------------------------------------------------------
(* The byte table agrees with the files.                                   *)

\* The key that is half deleted.
Leaving == {k \in Key : Forgetting(k)}

\* A key without a log has no snapshot.
Homes(gone, files_, snaps) ==
  \A k \in Key \ gone : files_[k] = Nothing => snaps[k] = Nothing

\* What the table says of a key: its lines and its snapshot, and at most one
\* fragment, which is counted for as long as it is there.
Entered(k, c, b, file, snapshot) ==
  IF k \in DOMAIN c
    THEN /\ file # Nothing
         /\ c[k] - LineSize * Len(Lines(file)) \in {0, FragmentSize}
         /\ IsTorn(file) => c[k] # LineSize * Len(Lines(file))
         /\ b[k] = SnapSize(snapshot)
    ELSE file = Nothing /\ b[k] = 0

\* The keys with a fragment, and those with a fragment in their count.
Torn(gone, files_) == {k \in Key \ gone : IsTorn(files_[k])}
Swollen(gone, c, files_) ==
  {k \in (Key \ gone) \cap DOMAIN c : c[k] # LineSize * Len(Lines(files_[k]))}

Books(gone, c, b, t, n, files_, snaps) ==
  /\ DOMAIN c \subseteq Key
  /\ c \in [DOMAIN c -> Nat]
  /\ b \in [Key -> Nat]
  /\ t = Sum(c) + Sum(b)
  /\ \A k \in Key \ gone : Entered(k, c, b, files_[k], snaps[k])
  /\ Cardinality(Swollen(gone, c, files_)) <= n

\* The sizes a sweep took at its start are those of the table.
SweepAgrees(o) ==
  o.pc = "sweep" /\ counted # Nothing =>
    /\ DOMAIN o.left \subseteq DOMAIN counted
    /\ \A k \in DOMAIN o.left : o.left[k] = counted[k]

RewriteAgrees(o) ==
  o.pc = "rewrite" =>
    /\ counted # Nothing => o.size = counted[o.key]
    /\ SweepAgrees(o.caller)

BooksInv ==
  /\ crashes \in Nat
  /\ Homes(Leaving, log, snap)
  /\ Cardinality(Torn(Leaving, log)) <= crashes
  /\ counted # Nothing => Books(Leaving, counted, snapBytes, total, crashes, log, snap)
  /\ SweepAgrees(op)
  /\ RewriteAgrees(op)
\* A file that a crash left has no corrupt line.
LEMMA SizeIs ==
  ASSUME NEW file, Sound(file)
  PROVE  /\ Len(Lines(file)) \in Nat
         /\ LogSize(file) = LineSize * Len(Lines(file))
                              + IF IsTorn(file) THEN FragmentSize ELSE 0
         /\ LogSize(file) \in Nat
         /\ LogSize(file) - LineSize * Len(Lines(file)) \in {0, FragmentSize}
         /\ LogSize(file) # LineSize * Len(Lines(file)) <=> IsTorn(file)
<1> DEFINE corrupt == {i \in 1 .. Len(Lines(file)) : Lines(file)[i] = Corrupt}
           n == Len(Lines(file))
<1>1. n \in Nat /\ corrupt = {}
  BY RepairedFits DEF IsCorrupt
<1>2. Cardinality(corrupt) = 0
  BY <1>1, FS_EmptySet
<1>3. LogSize(file) = LineSize * n + FragmentSize * Cardinality(corrupt)
                        + IF IsTorn(file) THEN FragmentSize ELSE 0
  BY DEF LogSize
<1> HIDE DEF n, corrupt
<1>4. LogSize(file) = LineSize * n + IF IsTorn(file) THEN FragmentSize ELSE 0
  BY <1>1, <1>2, <1>3 DEF LineSize, FragmentSize
<1>5. LogSize(file) \in Nat /\ LogSize(file) - LineSize * n \in {0, FragmentSize}
      /\ (LogSize(file) # LineSize * n <=> IsTorn(file))
  BY <1>1, <1>4 DEF LineSize, FragmentSize
<1> QED  BY <1>1, <1>4, <1>5 DEF n

\* What the table has of a key, and nothing of a key it has not.
Weight(c) == [k \in Key |-> IF k \in DOMAIN c THEN c[k] ELSE 0]

LEMMA SumOfKeys ==
  ASSUME NEW b \in [Key -> Nat]
  PROVE  Sum(b) = Total(b) /\ Sum(b) \in Nat
<1>1. Sum(b) = Total(b)
  BY DEF Sum, Total
<1>2. PICK g : Sums(g, Key, b) /\ Total(b) = g[Key]
  BY KeyAssumption, SumsExist
<1>3. g[Key] \in Nat
  BY <1>2 DEF Sums
<1> QED  BY <1>1, <1>2, <1>3

LEMMA SumOfTable ==
  ASSUME NEW c, DOMAIN c \subseteq Key, c \in [DOMAIN c -> Nat]
  PROVE  /\ Weight(c) \in [Key -> Nat] /\ Sum(c) = Total(Weight(c))
         /\ Sum(c) \in Nat
<1>1. Weight(c) \in [Key -> Nat]
  BY DEF Weight
<1>2. Sum(c) = Total(c)
  BY DEF Sum, Total
<1> DEFINE D == DOMAIN c
<1>3. D \in SUBSET Key /\ c \in [D -> Nat]
  OBVIOUS
<1>4. Total(c) = Total([k \in Key |-> IF k \in D THEN c[k] ELSE 0])
  <2> HIDE DEF D
  <2> QED  BY <1>3, KeyAssumption, SumOfSome
<1>5. Total(Weight(c)) \in Nat
  BY <1>1, SumOfKeys
<1> QED  BY <1>1, <1>2, <1>4, <1>5 DEF Weight

\* One key moves the total by the difference.
LEMMA TotalMoves ==
  ASSUME NEW a \in [Key -> Nat], NEW b \in [Key -> Nat], NEW k \in Key,
         \A j \in Key \ {k} : b[j] = a[j]
  PROVE  Total(b) = Total(a) + b[k] - a[k] /\ Total(a) \in Nat
<1>1. b = [a EXCEPT ![k] = b[k]]
  OBVIOUS
<1>2. b[k] \in Nat
  OBVIOUS
<1>3. Total([a EXCEPT ![k] = b[k]]) = Total(a) + b[k] - a[k] /\ Total(a) \in Nat
  BY <1>2, KeyAssumption, SumChanges
<1> QED  BY <1>1, <1>3

\* The counts as they are on disk.
LEMMA SeededBooks ==
  ASSUME NEW f, NEW s, NEW n \in Nat, \A k \in Key : Sound(f[k]),
         Homes({}, f, s), Cardinality(Torn({}, f)) <= n,
         NEW b, b = [k \in Key |-> IF f[k] # Nothing THEN SnapSize(s[k]) ELSE 0]
  PROVE  Books({}, Sizes(f), b, Sum(Sizes(f)) + Sum(b), n, f, s)
<1> DEFINE c == Sizes(f)
           logged == {x \in Key : f[x] # Nothing}
<1>1. DOMAIN c = logged /\ \A k \in logged : c[k] = LogSize(f[k])
  BY DEF Sizes
<1>2. c = [k \in logged |-> LogSize(f[k])]
  BY DEF Sizes
<1>3. \A k \in logged : LogSize(f[k]) \in Nat
  BY SizeIs
<1>4. c \in [DOMAIN c -> Nat]
  BY <1>1, <1>2, <1>3
<1> HIDE DEF c
<1>5. b \in [Key -> Nat] /\ \A k \in Key : b[k] = IF f[k] # Nothing THEN SnapSize(s[k]) ELSE 0
  BY DEF SnapSize, SnapshotSize
<1>6. ASSUME NEW k \in Key PROVE Entered(k, c, b, f[k], s[k])
  <2>1. CASE k \in logged
    <3>1. /\ c[k] = LogSize(f[k])
          /\ LogSize(f[k]) - LineSize * Len(Lines(f[k])) \in {0, FragmentSize}
          /\ LogSize(f[k]) # LineSize * Len(Lines(f[k])) <=> IsTorn(f[k])
      BY <1>1, <2>1, SizeIs
    <3> QED  BY <1>1, <1>5, <2>1, <3>1 DEF Entered
  <2>2. CASE k \notin logged
    BY <1>1, <1>5, <2>2 DEF Entered
  <2> QED  BY <2>1, <2>2
<1>7. Swollen({}, c, f) = Torn({}, f)
  <2>1. ASSUME NEW k \in Key
        PROVE  k \in logged /\ c[k] # LineSize * Len(Lines(f[k])) <=> IsTorn(f[k])
    <3>1. CASE k \in logged
      <4>1. c[k] = LogSize(f[k])
            /\ (LogSize(f[k]) # LineSize * Len(Lines(f[k])) <=> IsTorn(f[k]))
        BY <1>1, <3>1, SizeIs
      <4> QED  BY <3>1, <4>1
    <3>2. CASE k \notin logged
      BY <3>2 DEF IsTorn
    <3> QED  BY <3>1, <3>2
  <2> QED  BY <1>1, <2>1 DEF Swollen, Torn
<1> HIDE DEF logged
<1>8. DOMAIN c \subseteq Key
  BY <1>1 DEF logged
<1>9. Books({}, c, b, Sum(c) + Sum(b), n, f, s)
  BY <1>4, <1>5, <1>6, <1>7, <1>8 DEF Books
<1> QED  BY <1>9 DEF c

\* Something happens to one key, and the total moves by the difference.
LEMMA Rebooked ==
  ASSUME BooksInv, counted # Nothing, NEW k \in Key,
         Leaving \in SUBSET {k}, Leaving' \in SUBSET {k},
         DOMAIN counted' \subseteq Key, counted' \in [DOMAIN counted' -> Nat],
         snapBytes' \in [Key -> Nat],
         \A j \in Key \ {k} : /\ j \in DOMAIN counted' <=> j \in DOMAIN counted
                              /\ j \in DOMAIN counted => counted'[j] = counted[j]
                              /\ snapBytes'[j] = snapBytes[j]
                              /\ log'[j] = log[j] /\ snap'[j] = snap[j],
         total' = total + Weight(counted')[k] - Weight(counted)[k]
                        + snapBytes'[k] - snapBytes[k],
         k \in Leaving' \/ Entered(k, counted', snapBytes', log'[k], snap'[k]),
         k \in Swollen(Leaving', counted', log') => k \in Swollen(Leaving, counted, log)
  PROVE  Books(Leaving', counted', snapBytes', total', crashes, log', snap')
<1>1. /\ DOMAIN counted \subseteq Key /\ counted \in [DOMAIN counted -> Nat] /\ snapBytes \in [Key -> Nat]
      /\ total = Sum(counted) + Sum(snapBytes)
      /\ \A j \in Key \ Leaving : Entered(j, counted, snapBytes, log[j], snap[j])
      /\ Cardinality(Swollen(Leaving, counted, log)) <= crashes
  BY DEF Books, BooksInv
<1>2. Weight(counted) \in [Key -> Nat] /\ Weight(counted') \in [Key -> Nat]
      /\ Sum(counted) = Total(Weight(counted)) /\ Sum(counted') = Total(Weight(counted'))
  BY <1>1, SumOfTable
<1>3. \A j \in Key \ {k} : Weight(counted')[j] = Weight(counted)[j]
  BY DEF Weight
<1>4. Sum(counted') = Sum(counted) + Weight(counted')[k] - Weight(counted)[k] /\ Sum(counted) \in Nat
  BY <1>2, <1>3, TotalMoves
<1>5. Sum(snapBytes') = Sum(snapBytes) + snapBytes'[k] - snapBytes[k] /\ Sum(snapBytes) \in Nat
  BY <1>1, TotalMoves, SumOfKeys
<1>6. total' = Sum(counted') + Sum(snapBytes')
  <2>1. Weight(counted')[k] \in Nat /\ Weight(counted)[k] \in Nat /\ snapBytes'[k] \in Nat /\ snapBytes[k] \in Nat
    BY <1>1, <1>2
  <2> QED  BY <1>1, <1>4, <1>5, <2>1
<1>7. ASSUME NEW j \in Key \ Leaving' PROVE Entered(j, counted', snapBytes', log'[j], snap'[j])
  <2>1. CASE j = k
    BY <1>7, <2>1
  <2>2. CASE j # k
    <3>1. Entered(j, counted, snapBytes, log[j], snap[j])
      BY <1>1, <2>2
    <3> QED  BY <2>2, <3>1 DEF Entered
  <2> QED  BY <2>1, <2>2
<1>8. Cardinality(Swollen(Leaving', counted', log')) <= crashes
  <2> DEFINE sw == Swollen(Leaving, counted, log)
             sw2 == Swollen(Leaving', counted', log')
  <2>1. sw2 \subseteq sw
    <3>1. ASSUME NEW j \in sw2, j # k PROVE j \in sw
      BY <3>1 DEF Swollen
    <3> QED  BY <3>1
  <2>2. sw \subseteq Key
    BY DEF Swollen
  <2> HIDE DEF sw, sw2
  <2>3. Cardinality(sw2) <= Cardinality(sw) /\ Cardinality(sw) \in Nat
        /\ Cardinality(sw2) \in Nat
    <3>1. IsFiniteSet(sw)
      BY <2>2, KeyAssumption, FS_Subset
    <3> QED  BY <2>1, <3>1, FS_Subset, FS_CardinalityType
  <2>4. Cardinality(sw) <= crashes /\ crashes \in Nat
    BY <1>1 DEF sw, BooksInv
  <2>5. Cardinality(sw2) <= crashes
    BY <2>3, <2>4
  <2> QED  BY <2>5 DEF sw2
<1> QED  BY <1>6, <1>7, <1>8 DEF Books
-----------------------------------------------------------------------------
(* Every step keeps the books.                                             *)

LEMMA NobodyLeaves ==
  /\ op.pc # "forget" => Leaving = {}
  /\ op'.pc # "forget" => Leaving' = {}
BY DEF Leaving, Forgetting

LEMMA SoundFiles ==
  ASSUME FilesInv, FilesInv', NEW k \in Key
  PROVE  Sound(log[k]) /\ Sound(log'[k])
<1>1. Sound(log[k])
  BY DEF FilesInv, KeyFits, Fits, Sound
<1>2. Sound(log'[k])
  BY DEF FilesInv, KeyFits, Fits, Sound
<1> QED  BY <1>1, <1>2

\* A step that leaves no new fragment.
LEMMA NoNewFragment ==
  ASSUME BooksInv, Torn(Leaving', log') \subseteq Torn(Leaving, log)
  PROVE  Cardinality(Torn(Leaving', log')) <= crashes
<1> DEFINE old == Torn(Leaving, log)
           new == Torn(Leaving', log')
<1>1. new \subseteq old /\ old \in SUBSET Key
  BY DEF Torn
<1>2. Cardinality(old) <= crashes /\ crashes \in Nat
  BY DEF BooksInv
<1> HIDE DEF old, new
<1>3. Cardinality(new) <= Cardinality(old) /\ Cardinality(old) \in Nat
      /\ Cardinality(new) \in Nat
  BY <1>1, KeyAssumption, FS_Subset, FS_CardinalityType
<1>4. Cardinality(new) <= crashes
  BY <1>2, <1>3
<1> QED  BY <1>4 DEF new

\* A step that is about one key, and leaves no new fragment.
LEMMA BooksMove ==
  ASSUME BooksInv, NEW k \in Key, Leaving \in SUBSET {k}, Leaving' \in SUBSET {k},
         \A j \in Key \ {k} : log'[j] = log[j] /\ snap'[j] = snap[j],
         crashes' = crashes,
         k \in Leaving' \/ log'[k] # Nothing \/ snap'[k] = Nothing,
         k \in Torn(Leaving', log') => k \in Torn(Leaving, log),
         counted' # Nothing =>
           Books(Leaving', counted', snapBytes', total', crashes, log', snap'),
         SweepAgrees(op)', RewriteAgrees(op)'
  PROVE  BooksInv'
<1>1. Homes(Leaving', log', snap')
  BY DEF BooksInv, Homes
<1>2. Torn(Leaving', log') \subseteq Torn(Leaving, log)
  <2>1. ASSUME NEW j \in Torn(Leaving', log'), j # k PROVE j \in Torn(Leaving, log)
    BY <2>1 DEF Torn
  <2> QED  BY <2>1
<1>3. Cardinality(Torn(Leaving', log')) <= crashes
  BY <1>2, NoNewFragment
<1> QED  BY <1>1, <1>3 DEF BooksInv

\* Nothing happens to the files or to the table.
LEMMA RestBooks ==
  ASSUME BooksInv, UNCHANGED <<log, snap, table, crashes>>, op.pc # "forget",
         op'.pc # "forget", SweepAgrees(op)', RewriteAgrees(op)'
  PROVE  BooksInv'
<1>1. Leaving = {} /\ Leaving' = {}
  BY NobodyLeaves
<1> QED  BY <1>1 DEF BooksInv, table

\* A log was read, and its fragment cut off.
LEMMA ReadBooks ==
  ASSUME BooksInv, FilesInv, FilesInv', NEW k \in Key,
         log' = [log EXCEPT ![k] = Repaired(log[k])],
         UNCHANGED <<snap, table, crashes>>, op.pc # "forget", op'.pc # "forget",
         SweepAgrees(op)', RewriteAgrees(op)'
  PROVE  BooksInv'
<1>1. Leaving = {} /\ Leaving' = {} /\ Tables
  BY NobodyLeaves DEF FilesInv
<1>2. log'[k] = Repaired(log[k]) /\ \A j \in Key \ {k} : log'[j] = log[j]
  BY <1>1 DEF Tables
<1>3. /\ Lines(log'[k]) = Lines(log[k]) /\ ~IsTorn(log'[k])
      /\ log'[k] = Nothing <=> log[k] = Nothing
  BY <1>2, SoundFiles, RepairedFits
<1>4. log'[k] # Nothing \/ snap'[k] = Nothing
  BY <1>1, <1>3 DEF BooksInv, Homes
<1>5. k \notin Torn(Leaving', log')
  BY <1>3 DEF Torn
<1>6. ASSUME counted' # Nothing
      PROVE  Books(Leaving', counted', snapBytes', total', crashes, log', snap')
  <2>1. /\ Books({}, counted, snapBytes, total, crashes, log, snap) /\ counted # Nothing
        /\ counted' = counted /\ snapBytes' = snapBytes /\ total' = total /\ snap' = snap
    BY <1>1, <1>6 DEF BooksInv, table
  <2>2. /\ DOMAIN counted \subseteq Key /\ counted \in [DOMAIN counted -> Nat]
        /\ snapBytes \in [Key -> Nat] /\ total \in Int
        /\ Entered(k, counted, snapBytes, log[k], snap[k])
    <3>1. Sum(counted) \in Int /\ Sum(snapBytes) \in Int
      BY <2>1, SumOfTable, SumOfKeys DEF Books
    <3> QED  BY <2>1, <3>1 DEF Books
  <2>3. Entered(k, counted', snapBytes', log'[k], snap'[k])
    BY <1>3, <2>1, <2>2 DEF Entered
  <2>4. k \in Swollen({}, counted', log') => k \in Swollen({}, counted, log)
    BY <1>3, <2>1 DEF Swollen
  <2>5. total' = total + Weight(counted')[k] - Weight(counted)[k]
                   + snapBytes'[k] - snapBytes[k]
    <3>1. Weight(counted)[k] \in Int /\ snapBytes[k] \in Int
      BY <2>2, SumOfTable
    <3> QED  BY <2>1, <2>2, <3>1
  <2> QED  BY <1>1, <1>2, <2>1, <2>2, <2>3, <2>4, <2>5, Rebooked
<1> QED  BY <1>1, <1>2, <1>4, <1>5, <1>6, BooksMove
\* The table is filled from the files as a read has left them.
LEMMA SeedFits ==
  ASSUME BooksInv, FilesInv, FilesInv', op.pc # "forget", op'.pc # "forget",
         UNCHANGED <<snap, crashes>>, Seed(log'),
         \A k \in Key : /\ IsTorn(log'[k]) => IsTorn(log[k])
                        /\ log'[k] = Nothing <=> log[k] = Nothing,
         SweepAgrees(op)', RewriteAgrees(op)'
  PROVE  BooksInv'
<1>1. Leaving = {} /\ Leaving' = {} /\ crashes \in Nat
  BY NobodyLeaves DEF BooksInv
<1>2. Homes({}, log', snap)
  BY <1>1 DEF BooksInv, Homes
<1>3. Cardinality(Torn({}, log')) <= crashes
  <2>1. Torn({}, log') \subseteq Torn({}, log)
    BY DEF Torn
  <2> QED  BY <1>1, <2>1, NoNewFragment
<1>4. \A k \in Key : Sound(log'[k])
  BY SoundFiles
<1>5. Books({}, counted', snapBytes', total', crashes, log', snap)
  <2> DEFINE b == [k \in Key |-> IF log'[k] # Nothing THEN SnapSize(snap[k]) ELSE 0]
  <2>1. Books({}, Sizes(log'), b, Sum(Sizes(log')) + Sum(b), crashes, log', snap)
    <3> HIDE DEF b
    <3>1. b = [k \in Key |-> IF log'[k] # Nothing THEN SnapSize(snap[k]) ELSE 0]
      BY DEF b
    <3> QED  BY <1>1, <1>2, <1>3, <1>4, <3>1, SeededBooks
  <2>2. counted' = Sizes(log') /\ snapBytes' = b /\ total' = Sum(Sizes(log')) + Sum(b)
    BY DEF Seed, SnapSizes
  <2> QED  BY <2>1, <2>2
<1> QED  BY <1>1, <1>2, <1>3, <1>5 DEF BooksInv

\* The process ends, and leaves a fragment in one log at most.
LEMMA DeadBooks ==
  ASSUME BooksInv, NEW k \in Key, op.pc # "forget", Die, snap' = snap,
         log'[k] # Nothing, \A j \in Key \ {k} : log'[j] = log[j]
  PROVE  BooksInv'
<1>1. op' = Idle /\ counted' = Nothing /\ crashes' = crashes + 1 /\ crashes \in Nat
  BY DEF Die, BooksInv
<1>2. Leaving = {} /\ Leaving' = {}
  BY <1>1, NobodyLeaves DEF Idle
<1>3. Homes({}, log', snap')
  BY <1>2 DEF BooksInv, Homes
<1>4. Cardinality(Torn({}, log')) <= crashes + 1
  <2> DEFINE old == Torn({}, log)
             new == Torn({}, log')
  <2>1. new \subseteq old \cup {k} /\ old \in SUBSET Key
    BY DEF Torn
  <2>2. Cardinality(old) <= crashes
    BY <1>2 DEF BooksInv
  <2> HIDE DEF old, new
  <2>3. IsFiniteSet(old) /\ Cardinality(old) \in Nat
    BY <2>1, KeyAssumption, FS_Subset, FS_CardinalityType
  <2>4. /\ IsFiniteSet(old \cup {k})
        /\ Cardinality(old \cup {k}) \in {Cardinality(old), Cardinality(old) + 1}
    BY <2>3, FS_AddElement
  <2>5. Cardinality(new) <= Cardinality(old \cup {k}) /\ Cardinality(new) \in Nat
    BY <2>1, <2>4, FS_Subset, FS_CardinalityType
  <2>6. Cardinality(new) <= crashes + 1
    BY <1>1, <2>2, <2>3, <2>4, <2>5
  <2> QED  BY <2>6 DEF new
<1>5. SweepAgrees(op)' /\ RewriteAgrees(op)'
  BY <1>1 DEF SweepAgrees, RewriteAgrees, Idle
<1> QED  BY <1>1, <1>2, <1>3, <1>4, <1>5 DEF BooksInv

LEMMA ReadsKeepBooks ==
  ASSUME FilesInv, FilesInv', BooksInv, NEW k \in Key,
         Load(k) \/ AppendConflicts(k) \/ StoreFull(k)
  PROVE  BooksInv'
<1>1. op = Idle /\ op' = Idle /\ UNCHANGED <<snap, crashes>> /\ Tables
  BY DEF Load, AppendConflicts, StoreFull, MayAppend, FilesInv
<1>2. op.pc # "forget" /\ op'.pc # "forget" /\ SweepAgrees(op)' /\ RewriteAgrees(op)'
      /\ ~Forgetting(k)
  BY <1>1 DEF Idle, SweepAgrees, RewriteAgrees, Forgetting
<1>3. Consulted(k) = Repaired(log[k])
  BY <1>2, NowFits
<1>4. log' = [log EXCEPT ![k] = Repaired(log[k])]
  BY <1>3 DEF Load, AppendConflicts, StoreFull
<1>5. CASE UNCHANGED table
  BY <1>1, <1>2, <1>4, <1>5, ReadBooks
<1>6. CASE Seed(log')
  <2>1. \A j \in Key : /\ IsTorn(log'[j]) => IsTorn(log[j])
                       /\ log'[j] = Nothing <=> log[j] = Nothing
    <3> SUFFICES ASSUME NEW j \in Key
                 PROVE  /\ IsTorn(log'[j]) => IsTorn(log[j])
                        /\ log'[j] = Nothing <=> log[j] = Nothing
      OBVIOUS
    <3>1. CASE j = k
      <4>1. log'[k] = Repaired(log[k])
        BY <1>1, <1>4 DEF Tables
      <4> QED  BY <3>1, <4>1, SoundFiles, RepairedFits
    <3>2. CASE j # k
      BY <1>1, <1>4, <3>2 DEF Tables
    <3> QED  BY <3>1, <3>2
  <2> QED  BY <1>1, <1>2, <1>6, <2>1, SeedFits
<1>7. UNCHANGED table \/ Seed(log')
  <2>1. CASE Load(k) \/ AppendConflicts(k)
    BY <2>1 DEF Load, AppendConflicts
  <2>2. CASE StoreFull(k)
    <3>1. log' = [log EXCEPT ![k] = Consulted(k)] /\ SeedOnce([log EXCEPT ![k] = Consulted(k)])
      BY <2>2 DEF StoreFull
    <3>2. SeedOnce(log')
      BY <3>1
    <3> QED  BY <3>2 DEF SeedOnce
  <2> QED  BY <2>1, <2>2
<1> QED  BY <1>5, <1>6, <1>7
LEMMA AppendKeepsBooks ==
  ASSUME FilesInv, FilesInv', BooksInv, NEW k \in Key, NEW line \in NextLines(k),
         AppendLine(k, line)
  PROVE  BooksInv'
<1>1. /\ op = Idle /\ UNCHANGED <<retention, snap, crashes>> /\ Tables
      /\ op' = [pc |-> "appended", key |-> k, line |-> line]
  BY DEF AppendLine, MayAppend, FilesInv
<1>2. /\ op.pc # "forget" /\ op'.pc # "forget" /\ ~Forgetting(k)
      /\ SweepAgrees(op)' /\ RewriteAgrees(op)'
  BY <1>1 DEF Idle, SweepAgrees, RewriteAgrees, Forgetting
<1>3. Leaving = {} /\ Leaving' = {}
  BY <1>2, NobodyLeaves
<1> DEFINE read == Repaired(log[k])
<1>4. Consulted(k) = read
  BY <1>2, NowFits
<1>5. line \in WholeLine
  BY <1>1 DEF FilesInv, OpFits, Idle, IsAppended, IsSweep, IsRewrite, IsForget
<1>6. Sound(log[k]) /\ Sound(read) /\ ~IsTorn(read) /\ Lines(read) = Lines(log[k])
      /\ (read = Nothing <=> log[k] = Nothing) /\ Lines(log[k]) \in Seq(WholeLine)
  BY SoundFiles, RepairedFits
<1>7. log' = [log EXCEPT ![k] = Written(read, line)]
  BY <1>4 DEF AppendLine
<1>8. log'[k] = Written(read, line) /\ \A j \in Key \ {k} : log'[j] = log[j]
  BY <1>1, <1>7 DEF Tables
<1> DEFINE n == Len(Lines(log[k]))
           m == Len(Lines(log'[k]))
<1>9. /\ n \in Nat /\ m = n + 1 /\ ~IsTorn(log'[k]) /\ log'[k] # Nothing
  <2>1. /\ Lines(log'[k]) = Append(Lines(read), line)
        /\ ~IsTorn(log'[k]) /\ log'[k] # Nothing
    BY <1>5, <1>6, <1>8, WrittenWhole
  <2> QED  BY <1>6, <2>1, <1>5, AppendProperties
<1>10. k \notin Torn(Leaving', log')
  BY <1>9 DEF Torn
<1>11. log[k] = Nothing => snap[k] = Nothing /\ n = 0
  BY <1>3 DEF BooksInv, Homes, Lines
<1>12. Account(k, [log EXCEPT ![k] = read])
  BY <1>4 DEF AppendLine
<1>13. CASE counted # Nothing
  <2>1. /\ counted' = [x \in DOMAIN counted \cup {k} |->
                IF x # k THEN counted[x]
                ELSE LineSize + IF IsCounted(k) THEN counted[k] ELSE 0]
        /\ total' = total + LineSize /\ snapBytes' = snapBytes
    BY <1>12, <1>13 DEF Account
  <2>2. /\ DOMAIN counted \subseteq Key /\ counted \in [DOMAIN counted -> Nat]
        /\ snapBytes \in [Key -> Nat] /\ total \in Int
        /\ Entered(k, counted, snapBytes, log[k], snap[k])
    <3>1. Books({}, counted, snapBytes, total, crashes, log, snap)
      BY <1>3, <1>13 DEF BooksInv
    <3>2. Sum(counted) \in Int /\ Sum(snapBytes) \in Int
      BY <3>1, SumOfTable, SumOfKeys DEF Books
    <3> QED  BY <3>1, <3>2 DEF Books
  <2> DEFINE w == IF k \in DOMAIN counted THEN counted[k] ELSE 0
  <2>3. w \in Nat /\ (IsCounted(k) <=> k \in DOMAIN counted)
    BY <1>13, <2>2 DEF IsCounted
  <2>4. /\ DOMAIN counted' = DOMAIN counted \cup {k} /\ counted'[k] = LineSize + w
        /\ \A j \in Key \ {k} : /\ j \in DOMAIN counted' <=> j \in DOMAIN counted
                                /\ j \in DOMAIN counted => counted'[j] = counted[j]
    BY <2>1, <2>3
  <2>5. counted' \in [DOMAIN counted' -> Nat]
    <3>1. \A x \in DOMAIN counted \cup {k} : counted'[x] \in Nat
      BY <2>2, <2>3, <2>4 DEF LineSize
    <3> QED  BY <2>1, <2>4, <3>1
  <2>6. Weight(counted')[k] = LineSize + w /\ Weight(counted)[k] = w
    BY <2>4 DEF Weight
  <2>7. total' = total + Weight(counted')[k] - Weight(counted)[k]
                   + snapBytes'[k] - snapBytes[k]
    <3>1. snapBytes[k] \in Int
      BY <2>2
    <3> QED  BY <2>1, <2>2, <2>3, <2>6, <3>1 DEF LineSize
  <2>8. w - LineSize * n \in {0, FragmentSize} /\ snapBytes[k] = SnapSize(snap[k])
    <3>1. CASE k \in DOMAIN counted
      <4>1. w = counted[k]
        BY <3>1
      <4>2. counted[k] - LineSize * n \in {0, FragmentSize} /\ snapBytes[k] = SnapSize(snap[k])
        BY <2>2, <3>1 DEF Entered
      <4> HIDE DEF w, n
      <4> QED  BY <4>1, <4>2
    <3>2. CASE k \notin DOMAIN counted
      <4>1. log[k] = Nothing /\ snapBytes[k] = 0
        BY <2>2, <3>2 DEF Entered
      <4>2. w = 0 /\ n = 0 /\ SnapSize(snap[k]) = 0
        BY <1>11, <3>2, <4>1 DEF SnapSize
      <4> HIDE DEF w, n
      <4> QED  BY <4>1, <4>2 DEF LineSize
    <3> QED  BY <3>1, <3>2
  <2> HIDE DEF n, m, w
  <2>9. counted'[k] - LineSize * m = w - LineSize * n
        /\ (counted'[k] # LineSize * m <=> w # LineSize * n)
    BY <1>9, <2>3, <2>4 DEF LineSize
  <2>10. Entered(k, counted', snapBytes', log'[k], snap'[k])
    BY <1>1, <1>9, <2>1, <2>4, <2>8, <2>9 DEF Entered, m
  <2>11. k \in Swollen({}, counted', log') => k \in Swollen({}, counted, log)
    <3>1. ASSUME k \in Swollen({}, counted', log')
          PROVE  k \in DOMAIN counted
      <4>1. w # LineSize * n
        BY <2>9, <3>1 DEF Swollen, m
      <4>2. log[k] # Nothing
        <5>1. CASE log[k] = Nothing
          <6>1. k \notin DOMAIN counted
            BY <2>2, <5>1 DEF Entered
          <6>2. w = 0 /\ n = 0
            BY <1>11, <5>1, <6>1 DEF w
          <6> QED  BY <4>1, <6>2 DEF LineSize
        <5> QED  BY <5>1
      <4> QED  BY <2>2, <4>2 DEF Entered
    <3> QED  BY <2>9, <3>1 DEF Swollen, m, n, w
  <2>12. Books(Leaving', counted', snapBytes', total', crashes, log', snap')
    <3>1. snapBytes' \in [Key -> Nat] /\ DOMAIN counted' \subseteq Key
          /\ \A j \in Key \ {k} : snapBytes'[j] = snapBytes[j] /\ snap'[j] = snap[j]
      BY <1>1, <2>1, <2>2, <2>4
    <3> QED  BY <1>3, <1>8, <1>13, <2>4, <2>5, <2>7, <2>10, <2>11, <3>1, Rebooked
  <2> QED  BY <1>1, <1>2, <1>3, <1>8, <1>9, <1>10, <2>12, BooksMove
<1>14. CASE counted = Nothing /\ retention.totalBytes = Nothing
  <2>1. counted' = Nothing
    BY <1>12, <1>14 DEF Account, table
  <2> QED  BY <1>1, <1>2, <1>3, <1>8, <1>9, <1>10, <2>1, BooksMove
<1>15. CASE counted = Nothing /\ retention.totalBytes # Nothing
  <2> DEFINE files_ == IF retention.policy = "reject" THEN [log EXCEPT ![k] = read] ELSE log'
             b == [j \in Key |-> IF log'[j] # Nothing THEN SnapSize(snap[j]) ELSE 0]
  <2>1. counted' = Sizes(log') /\ snapBytes' = SnapSizes(files_)
        /\ total' = Sum(counted') + Sum(snapBytes')
    BY <1>12, <1>15 DEF Account
  <2>2. SnapSizes(files_) = b
    <3>1. ASSUME NEW j \in Key
          PROVE  (IF files_[j] # Nothing THEN SnapSize(snap[j]) ELSE 0)
                   = IF log'[j] # Nothing THEN SnapSize(snap[j]) ELSE 0
      <4>1. CASE j = k
        <5>1. log[k] = Nothing => SnapSize(snap[k]) = 0
          BY <1>11 DEF SnapSize
        <5>2. files_[k] = IF retention.policy = "reject" THEN read ELSE log'[k]
          BY <1>1 DEF Tables
        <5> QED  BY <1>6, <1>9, <4>1, <5>1, <5>2
      <4>2. CASE j # k
        BY <1>1, <1>8, <4>2 DEF Tables
      <4> QED  BY <4>1, <4>2
    <3> QED  BY <3>1 DEF SnapSizes
  <2>3. /\ \A j \in Key : Sound(log'[j])
        /\ Homes({}, log', snap)
        /\ crashes \in Nat
    BY <1>3, <1>8, <1>9, SoundFiles DEF BooksInv, Homes
  <2>4. Cardinality(Torn({}, log')) <= crashes
    <3>1. Torn({}, log') \subseteq Torn({}, log)
      BY <1>3, <1>8, <1>10 DEF Torn
    <3> QED  BY <1>3, <3>1, NoNewFragment
  <2>5. Books({}, counted', snapBytes', total', crashes, log', snap')
    <3> HIDE DEF b
    <3>1. b = [j \in Key |-> IF log'[j] # Nothing THEN SnapSize(snap[j]) ELSE 0]
      BY DEF b
    <3>2. Books({}, Sizes(log'), b, Sum(Sizes(log')) + Sum(b), crashes, log', snap)
      BY <2>3, <2>4, <3>1, SeededBooks
    <3> QED  BY <1>1, <2>1, <2>2, <3>2
  <2> QED  BY <1>1, <1>2, <1>3, <1>8, <1>9, <1>10, <2>5, BooksMove
<1> QED  BY <1>13, <1>14, <1>15
\* What the table holds is numbers, and the entry of a key is right.
LEMMA BookTypes ==
  ASSUME BooksInv, counted # Nothing, NEW k \in Key
  PROVE  /\ DOMAIN counted \subseteq Key /\ counted \in [DOMAIN counted -> Nat]
         /\ snapBytes \in [Key -> Nat] /\ total \in Int
         /\ Weight(counted)[k] \in Nat /\ snapBytes[k] \in Nat
         /\ Weight(counted)[k] = IF k \in DOMAIN counted THEN counted[k] ELSE 0
         /\ k \notin Leaving => Entered(k, counted, snapBytes, log[k], snap[k])
<1>1. Books(Leaving, counted, snapBytes, total, crashes, log, snap)
  BY DEF BooksInv
<1>2. Sum(counted) \in Int /\ Sum(snapBytes) \in Int /\ Weight(counted) \in [Key -> Nat]
  BY <1>1, SumOfTable, SumOfKeys DEF Books
<1> QED  BY <1>1, <1>2 DEF Books, Weight

LEMMA TearKeepsBooks ==
  ASSUME Dies, FilesInv, FilesInv', BooksInv, NEW k \in Key, AppendTears(k)
  PROVE  BooksInv'
<1>1. op = Idle /\ Die /\ snap' = snap /\ Tables
  BY DEF AppendTears, MayAppend, MayFail, Dies, FilesInv
<1>2. op.pc # "forget" /\ ~Forgetting(k)
  BY <1>1 DEF Idle, Forgetting
<1>3. Consulted(k) = Repaired(log[k])
  BY <1>2, NowFits
<1> DEFINE g == Written(Repaired(log[k]), Fragment)
<1>4. log' = [log EXCEPT ![k] = g]
  BY <1>3 DEF AppendTears
<1>5. log'[k] = g /\ \A j \in Key \ {k} : log'[j] = log[j]
  BY <1>1, <1>4 DEF Tables
<1>6. g # Nothing
  <2> DEFINE r == Repaired(log[k])
  <2>1. /\ Lines(log[k]) \in Seq(WholeLine) /\ ~IsTorn(r)
        /\ r = Nothing \/ r = Lines(log[k])
    BY SoundFiles, RepairedFits
  <2>2. \E l \in Seq(WholeLine) : g = Append(l, Fragment)
    <3>1. CASE r = Nothing
      <4>1. <<>> \in Seq(WholeLine) /\ Append(<<>>, Fragment) = <<Fragment>>
        OBVIOUS
      <4> QED  BY <3>1, <4>1 DEF Written
    <3>2. CASE r # Nothing
      BY <2>1, <3>2 DEF Written
    <3> QED  BY <3>1, <3>2
  <2> QED  BY <2>2, WrittenHalf
<1> HIDE DEF g
<1> QED  BY <1>1, <1>2, <1>5, <1>6, DeadBooks

\* A snapshot is written for a key that has a log, which may be read first.
LEMMA SnapshotBooks ==
  ASSUME FilesInv, FilesInv', BooksInv, NEW k \in Key,
         op.pc # "forget", op'.pc # "forget", crashes' = crashes, log[k] # Nothing,
         log' = log \/ log' = [log EXCEPT ![k] = Repaired(log[k])],
         \A j \in Key \ {k} : snap'[j] = snap[j],
         AccountSnapshot(k, snap'[k]),
         SweepAgrees(op)', RewriteAgrees(op)'
  PROVE  BooksInv'
<1>1. Leaving = {} /\ Leaving' = {} /\ Tables
  BY NobodyLeaves DEF FilesInv
<1>2. (log'[k] = log[k] \/ log'[k] = Repaired(log[k]))
      /\ \A j \in Key \ {k} : log'[j] = log[j]
  BY <1>1 DEF Tables
<1>3. /\ Lines(log'[k]) = Lines(log[k]) /\ log'[k] # Nothing
      /\ IsTorn(log'[k]) => IsTorn(log[k])
  BY <1>2, SoundFiles, RepairedFits
<1>4. k \in Torn(Leaving', log') => k \in Torn(Leaving, log)
  BY <1>1, <1>3 DEF Torn
<1>5. counted' = counted
  BY DEF AccountSnapshot, table
<1>6. ASSUME counted # Nothing
      PROVE  Books(Leaving', counted', snapBytes', total', crashes, log', snap')
  <2> DEFINE size == SnapSize(snap'[k])
  <2>1. /\ snapBytes' = [snapBytes EXCEPT ![k] = size]
        /\ total' = total + size - snapBytes[k]
    BY <1>6 DEF AccountSnapshot
  <2>2. size \in Nat
    BY DEF SnapSize, SnapshotSize
  <2>3. /\ DOMAIN counted \subseteq Key /\ counted \in [DOMAIN counted -> Nat]
        /\ snapBytes \in [Key -> Nat] /\ total \in Int
        /\ Weight(counted)[k] \in Nat /\ snapBytes[k] \in Nat
        /\ Entered(k, counted, snapBytes, log[k], snap[k])
    BY <1>1, <1>6, BookTypes
  <2> HIDE DEF size
  <2>4. /\ snapBytes' \in [Key -> Nat] /\ snapBytes'[k] = size
        /\ \A j \in Key \ {k} : snapBytes'[j] = snapBytes[j]
    BY <2>1, <2>2, <2>3
  <2>5. Entered(k, counted', snapBytes', log'[k], snap'[k])
    BY <1>3, <1>5, <2>3, <2>4 DEF Entered, size
  <2>6. k \in Swollen({}, counted', log') => k \in Swollen({}, counted, log)
    BY <1>3, <1>5 DEF Swollen
  <2>7. total' = total + Weight(counted')[k] - Weight(counted)[k]
                   + snapBytes'[k] - snapBytes[k]
    BY <1>5, <2>1, <2>2, <2>3, <2>4
  <2> QED  BY <1>1, <1>2, <1>5, <1>6, <2>3, <2>4, <2>5, <2>6, <2>7, Rebooked
<1> QED  BY <1>1, <1>2, <1>3, <1>4, <1>5, <1>6, BooksMove

LEMMA EvictionKeepsBooks ==
  ASSUME FilesInv, FilesInv', BooksInv, NEW k \in Key, Snapshot(k)
  PROVE  BooksInv'
<1>1. /\ op = Idle /\ op' = Idle /\ log' = log /\ crashes' = crashes /\ Tables
      /\ AccountSnapshot(k, snap'[k])
  BY DEF Snapshot, FilesInv
<1>2. op.pc # "forget" /\ op'.pc # "forget" /\ SweepAgrees(op)' /\ RewriteAgrees(op)'
  BY <1>1 DEF Idle, SweepAgrees, RewriteAgrees
<1>3. log[k] # Nothing
  <2>1. Commits(Lines(log[k])) # {}
    BY DEF Snapshot
  <2>2. Commits(<<>>) = {} /\ Lines(Nothing) = <<>>
    BY DEF Commits, Lines
  <2> QED  BY <2>1, <2>2
<1>4. \A j \in Key \ {k} : snap'[j] = snap[j]
  BY <1>1 DEF Snapshot, Tables
<1> QED  BY <1>1, <1>2, <1>3, <1>4, SnapshotBooks

\* What a sweep still has to look at is of the size the table says.
LEMMA SweepGoesOn ==
  ASSUME NEW o, o.pc = "sweep", o = [pc |-> "sweep", left |-> o.left], SweepAgrees(o),
         NEW k, op' = [o EXCEPT !.left = Without(o.left, k)],
         counted' # Nothing =>
           /\ counted # Nothing /\ DOMAIN counted \subseteq DOMAIN counted'
           /\ \A j \in DOMAIN counted \ {k} : counted'[j] = counted[j]
  PROVE  SweepAgrees(op)' /\ RewriteAgrees(op)' /\ op'.pc # "forget"
<1>1. op' = [pc |-> "sweep", left |-> Without(o.left, k)]
  OBVIOUS
<1>2. /\ op'.pc = "sweep" /\ DOMAIN op'.left = DOMAIN o.left \ {k}
      /\ \A j \in DOMAIN o.left \ {k} : op'.left[j] = o.left[j]
  BY <1>1 DEF Without
<1> QED  BY <1>2 DEF SweepAgrees, RewriteAgrees
LEMMA SkipKeepsBooks ==
  ASSUME FilesInv, FilesInv', BooksInv, NEW k \in Key, FoldSkips(k)
  PROVE  BooksInv'
<1>1. /\ log' = [log EXCEPT ![k] = Repaired(log[k])] /\ UNCHANGED <<snap, table, crashes>>
      /\ (op' = Idle \/ op' = AfterFold(k))
  <2>1. log' = [log EXCEPT ![k] = Repaired(log[k])] /\ UNCHANGED <<snap, table, crashes>>
    BY DEF FoldSkips
  <2>2. op' = Idle \/ op' = AfterFold(k)
    BY DEF FoldSkips
  <2> QED  BY <2>1, <2>2
<1>2. op.pc = "appended" \/ op.pc = "sweep"
  BY DEF FoldSkips, Folds
<1>3. SweepAgrees(op)' /\ RewriteAgrees(op)' /\ op'.pc # "forget"
  <2>1. CASE op.pc = "sweep" /\ op' = AfterFold(k)
    <3>1. op = [pc |-> "sweep", left |-> op.left] /\ SweepAgrees(op)
      BY <2>1, Phases DEF FilesInv, IsSweep, BooksInv
    <3>2. op' = [op EXCEPT !.left = Without(op.left, k)]
      BY <2>1 DEF AfterFold
    <3>3. counted' = counted
      BY <1>1 DEF table
    <3> QED  BY <2>1, <3>1, <3>2, <3>3, SweepGoesOn
  <2>2. CASE op' = Idle
    BY <2>2 DEF SweepAgrees, RewriteAgrees, Idle
  <2> QED  BY <1>1, <2>1, <2>2 DEF AfterFold
<1>4. op.pc # "forget"
  BY <1>2
<1> QED  BY <1>1, <1>3, <1>4, ReadBooks

LEMMA FoldSnapshotKeepsBooks ==
  ASSUME Dies, FilesInv, FilesInv', BooksInv, NEW k \in Key, FoldSnapshot(k)
  PROVE  BooksInv'
<1>1. /\ log' = [log EXCEPT ![k] = Repaired(log[k])]
      /\ (op.pc = "appended" /\ k = op.key) \/ (op.pc = "sweep" /\ k \in DOMAIN op.left)
      /\ Held(log[k], snap[k]) # Nothing
  BY DEF FoldSnapshot, Folds
<1>2. /\ snap' = [snap EXCEPT ![k] = [seq |-> Held(log[k], snap[k]).seq,
                                      state |-> Held(log[k], snap[k]).state]]
      /\ AccountSnapshot(k, snap'[k])
      /\ op' = [pc |-> "rewrite", key |-> k, size |-> SizeToFold(k), caller |-> op]
      /\ crashes' = crashes
  BY DEF FoldSnapshot, MayFail, Dies
<1>3. op.pc # "forget" /\ op'.pc # "forget" /\ Leaving = {}
  BY <1>1, <1>2, NobodyLeaves
<1>4. log[k] # Nothing
  <2> SUFFICES ASSUME log[k] = Nothing PROVE FALSE
    OBVIOUS
  <2>1. snap[k] = Nothing
    BY <1>3 DEF BooksInv, Homes
  <2>2. Lines(Nothing) = <<>> /\ Commits(<<>>) = {}
    BY DEF Lines, Commits
  <2>3. Held(Nothing, Nothing) = Nothing
    BY <2>2 DEF Held, LatestSeq, SnapSeq, EMPTY_SEQ
  <2> QED  BY <1>1, <2>1, <2>3
<1>5. counted' = counted
  BY <1>2 DEF AccountSnapshot, table
<1>6. SweepAgrees(op)'
  BY <1>2 DEF SweepAgrees
<1>7. RewriteAgrees(op)'
  <2>1. SweepAgrees(op)
    BY DEF BooksInv
  <2>2. counted # Nothing => SizeToFold(k) = counted[k]
    <3> SUFFICES ASSUME counted # Nothing PROVE SizeToFold(k) = counted[k]
      OBVIOUS
    <3>1. CASE op.pc = "sweep"
      BY <1>1, <2>1, <3>1 DEF SweepAgrees, SizeToFold
    <3>2. CASE op.pc # "sweep"
      <4>1. k \in DOMAIN counted
        BY <1>3, <1>4, BookTypes DEF Entered
      <4> QED  BY <3>2, <4>1 DEF SizeToFold, LogBytes, IsCounted
    <3> QED  BY <3>1, <3>2
  <2>3. op'.size = SizeToFold(k) /\ op'.key = k /\ op'.caller = op
    BY <1>2
  <2>4. SweepAgrees(op.caller)'
    <3>1. op.pc = "sweep" /\ counted' # Nothing =>
            /\ DOMAIN op.left \subseteq DOMAIN counted'
            /\ \A j \in DOMAIN op.left : op.left[j] = counted'[j]
      BY <1>5, <2>1 DEF SweepAgrees
    <3> QED  BY <2>3, <3>1 DEF SweepAgrees
  <2> QED  BY <1>5, <2>2, <2>3, <2>4 DEF RewriteAgrees
<1>8. \A j \in Key \ {k} : snap'[j] = snap[j]
  BY <1>2 DEF FilesInv, Tables
<1> QED  BY <1>1, <1>2, <1>3, <1>4, <1>6, <1>7, <1>8, SnapshotBooks

\* A log that is being rewritten is there, and what is kept of it too.
LEMMA RewriteIsThere ==
  ASSUME FilesInv, BooksInv, op.pc = "rewrite"
  PROVE  /\ op.key \in Key /\ IsRewrite(op) /\ Leaving = {} /\ log[op.key] # Nothing
         /\ Kept(op.key) \in Seq(WholeLine)
         /\ \A n \in 0 .. Len(Kept(op.key)) :
              SubSeq(Kept(op.key), 1, n) \in Seq(WholeLine)
<1>1. IsRewrite(op) /\ op.key \in Key /\ Leaving = {}
  BY Phases, NobodyLeaves DEF FilesInv, IsRewrite
<1>2. snap[op.key] # Nothing /\ LatestSeq(Lines(log[op.key])) <= snap[op.key].seq
  BY <1>1 DEF IsRewrite
<1>3. log[op.key] # Nothing
  BY <1>1, <1>2 DEF BooksInv, Homes
<1>4. ~Forgetting(op.key)
  BY DEF Forgetting
<1>5. Fits(log[op.key], snap[op.key], cached[op.key], acked[op.key])
  BY <1>1, <1>4, NowFits
<1>6. Sound(log[op.key]) /\ Ascending(Lines(log[op.key])) /\ snap[op.key] \in Snapshots
  BY <1>2, <1>5 DEF Fits
<1> DEFINE k == op.key
<1>7. /\ Kept(k) \in Seq(WholeLine)
      /\ \A n \in 0 .. Len(Kept(k)) : SubSeq(Kept(k), 1, n) \in Seq(WholeLine)
  <2> HIDE DEF k
  <2>1. Sound(log[k]) /\ Ascending(Lines(log[k])) /\ snap[k] \in Snapshots
        /\ LatestSeq(Lines(log[k])) <= snap[k].seq
    BY <1>2, <1>6 DEF k
  <2> QED  BY <2>1, KeptIsNotes
<1> QED  BY <1>1, <1>3, <1>7

LEMMA FoldLogKeepsBooks ==
  ASSUME FilesInv, FilesInv', BooksInv, FoldLog
  PROVE  BooksInv'
<1> DEFINE k == op.key
<1>1. /\ op.pc = "rewrite" /\ log' = [log EXCEPT ![k] = Kept(k)]
      /\ UNCHANGED <<snap, crashes>>
  BY DEF FoldLog
<1>2. /\ k \in Key /\ IsRewrite(op) /\ Leaving = {} /\ log[k] # Nothing
      /\ Kept(k) \in Seq(WholeLine)
  BY <1>1, RewriteIsThere
<1>3. log'[k] = Kept(k) /\ \A j \in Key \ {k} : log'[j] = log[j]
  BY <1>1, <1>2 DEF FilesInv, Tables
<1>4. ~IsTorn(log'[k]) /\ log'[k] # Nothing
  BY <1>2, <1>3, WrittenHalf
<1> DEFINE size == LogSize(log'[k])
<1>5. IF counted = Nothing
        THEN UNCHANGED table
        ELSE /\ total' = total + size - op.size
             /\ counted' = [counted EXCEPT ![k] = size]
             /\ UNCHANGED snapBytes
  BY DEF FoldLog
<1>6. /\ size \in Nat /\ size - LineSize * Len(Lines(log'[k])) \in {0, FragmentSize}
      /\ size = LineSize * Len(Lines(log'[k]))
  BY <1>2, <1>4, SoundFiles, SizeIs
<1> HIDE DEF size
<1>7. /\ counted # Nothing => op.size = counted[k]
      /\ SweepAgrees(op.caller)
  BY <1>1 DEF BooksInv, RewriteAgrees
<1>8. ASSUME counted # Nothing
      PROVE  /\ k \in DOMAIN counted
             /\ DOMAIN counted \subseteq Key /\ counted \in [DOMAIN counted -> Nat]
             /\ snapBytes \in [Key -> Nat] /\ total \in Int
             /\ Weight(counted)[k] = counted[k] /\ snapBytes[k] \in Nat
             /\ Entered(k, counted, snapBytes, log[k], snap[k])
  <2>1. Entered(k, counted, snapBytes, log[k], snap[k])
    BY <1>2, <1>8, BookTypes
  <2>2. k \in DOMAIN counted
    BY <1>2, <2>1 DEF Entered
  <2> HIDE DEF k
  <2> QED  BY <1>2, <1>8, <2>1, <2>2, BookTypes
<1>9. counted # Nothing =>
        /\ DOMAIN counted' = DOMAIN counted /\ counted'[k] = size
        /\ \A j \in DOMAIN counted \ {k} : counted'[j] = counted[j]
  BY <1>5, <1>8
<1>10. SweepAgrees(op)' /\ RewriteAgrees(op)' /\ op'.pc # "forget"
  <2>1. CASE op.caller.pc = "sweep"
    <3>1. op' = [op.caller EXCEPT !.left = Without(op.caller.left, k)]
      BY <2>1 DEF FoldLog
    <3>2. op.caller = [pc |-> "sweep", left |-> op.caller.left]
      BY <1>2, <2>1 DEF IsRewrite, IsSweep, IsAppended
    <3>3. counted = Nothing => counted' = Nothing
      BY <1>5 DEF table
    <3> HIDE DEF k
    <3> QED  BY <1>7, <1>9, <2>1, <3>1, <3>2, <3>3, SweepGoesOn
  <2>2. CASE op.caller.pc # "sweep"
    <3>1. op' = Idle
      BY <2>2 DEF FoldLog
    <3> QED  BY <3>1 DEF SweepAgrees, RewriteAgrees, Idle
  <2> QED  BY <2>1, <2>2
<1>11. Leaving' = {}
  BY <1>10, NobodyLeaves
<1>12. ASSUME counted # Nothing
       PROVE  Books(Leaving', counted', snapBytes', total', crashes, log', snap')
  <2>1. snapBytes' = snapBytes /\ total' = total + size - counted[k]
    BY <1>5, <1>7, <1>12
  <2>2. counted' \in [DOMAIN counted' -> Nat]
    BY <1>5, <1>6, <1>8, <1>12
  <2>3. Entered(k, counted', snapBytes', log'[k], snap'[k])
    BY <1>1, <1>4, <1>6, <1>8, <1>9, <1>12, <2>1 DEF Entered
  <2>4. k \notin Swollen({}, counted', log')
    BY <1>6, <1>9, <1>12 DEF Swollen
  <2>5. Weight(counted')[k] = size
    BY <1>2, <1>8, <1>9, <1>12 DEF Weight
  <2>6. counted[k] \in Nat
    BY <1>8, <1>12
  <2>7. total' = total + Weight(counted')[k] - Weight(counted)[k]
                   + snapBytes'[k] - snapBytes[k]
    BY <1>6, <1>8, <1>12, <2>1, <2>5, <2>6
  <2>8. \A j \in Key \ {k} : /\ j \in DOMAIN counted' <=> j \in DOMAIN counted
                             /\ j \in DOMAIN counted => counted'[j] = counted[j]
    BY <1>9, <1>12
  <2> HIDE DEF k
  <2> QED  BY <1>1, <1>2, <1>3, <1>8, <1>9, <1>11, <1>12, <2>1, <2>2, <2>3, <2>4, <2>7,
              <2>8, Rebooked
<1>13. k \notin Torn(Leaving', log')
  BY <1>4 DEF Torn
<1>14. counted' # Nothing => counted # Nothing
  BY <1>5 DEF table
<1> HIDE DEF k
<1> QED  BY <1>1, <1>2, <1>3, <1>4, <1>10, <1>11, <1>12, <1>13, <1>14, BooksMove

LEMMA FoldLogTearsKeepsBooks ==
  ASSUME FilesInv, BooksInv, FoldLogTears
  PROVE  BooksInv'
<1> DEFINE k == op.key
<1>1. op.pc = "rewrite" /\ Die /\ snap' = snap
  BY DEF FoldLogTears
<1>2. k \in Key /\ \A n \in 0 .. Len(Kept(k)) : SubSeq(Kept(k), 1, n) \in Seq(WholeLine)
  BY <1>1, RewriteIsThere
<1>3. \E l \in Seq(WholeLine) : \/ log' = [log EXCEPT ![k] = l]
                                \/ log' = [log EXCEPT ![k] = Append(l, Fragment)]
  BY <1>2 DEF FoldLogTears
<1>4. log'[k] # Nothing /\ \A j \in Key \ {k} : log'[j] = log[j]
  <2>1. PICK l \in Seq(WholeLine) : \/ log' = [log EXCEPT ![k] = l]
                                    \/ log' = [log EXCEPT ![k] = Append(l, Fragment)]
    BY <1>3
  <2>2. l # Nothing /\ Append(l, Fragment) # Nothing
    BY WrittenHalf
  <2> QED  BY <1>2, <2>1, <2>2 DEF FilesInv, Tables
<1> HIDE DEF k
<1> QED  BY <1>1, <1>2, <1>4, DeadBooks

LEMMA ForgetLogKeepsBooks ==
  ASSUME FilesInv, BooksInv, NEW k \in Key, ForgetLog(k)
  PROVE  BooksInv'
<1>1. /\ op = Idle /\ op' = [pc |-> "forget", key |-> k]
      /\ log' = [log EXCEPT ![k] = Nothing] /\ UNCHANGED <<snap, table, crashes>>
  BY DEF ForgetLog
<1>2. Leaving = {} /\ Leaving' = {k}
  BY <1>1 DEF Leaving, Forgetting, Idle
<1>3. \A j \in Key \ {k} : log'[j] = log[j] /\ snap'[j] = snap[j]
  BY <1>1 DEF FilesInv, Tables
<1>4. SweepAgrees(op)' /\ RewriteAgrees(op)'
  BY <1>1 DEF SweepAgrees, RewriteAgrees
<1>5. k \notin Torn(Leaving', log') /\ k \notin Swollen(Leaving', counted', log')
  BY <1>2 DEF Torn, Swollen
<1>6. ASSUME counted # Nothing
      PROVE  Books(Leaving', counted', snapBytes', total', crashes, log', snap')
  <2>1. counted' = counted /\ snapBytes' = snapBytes /\ total' = total
    BY <1>1 DEF table
  <2>2. /\ DOMAIN counted \subseteq Key /\ counted \in [DOMAIN counted -> Nat]
        /\ snapBytes \in [Key -> Nat] /\ total \in Int
        /\ Weight(counted)[k] \in Nat /\ snapBytes[k] \in Nat
    BY <1>6, BookTypes
  <2>3. total' = total + Weight(counted')[k] - Weight(counted)[k]
                   + snapBytes'[k] - snapBytes[k]
    BY <2>1, <2>2
  <2> QED  BY <1>2, <1>3, <1>5, <1>6, <2>1, <2>2, <2>3, Rebooked
<1>7. counted' = counted
  BY <1>1 DEF table
<1> QED  BY <1>1, <1>2, <1>3, <1>4, <1>5, <1>6, <1>7, BooksMove

LEMMA ForgetSnapshotKeepsBooks ==
  ASSUME FilesInv, BooksInv, ForgetSnapshot
  PROVE  BooksInv'
<1> DEFINE k == op.key
<1>1. /\ op.pc = "forget" /\ op' = Idle /\ snap' = [snap EXCEPT ![k] = Nothing]
      /\ UNCHANGED <<log, crashes>>
  BY DEF ForgetSnapshot
<1>2. k \in Key /\ Leaving = {k} /\ Leaving' = {} /\ log[k] = Nothing
  <2>1. k \in Key
    BY <1>1, Phases DEF FilesInv, IsForget
  <2>2. Leaving = {k} /\ Forgetting(k)
    BY <1>1, <2>1 DEF Leaving, Forgetting
  <2>3. Leaving' = {}
    BY <1>1, NobodyLeaves DEF Idle
  <2> QED  BY <2>1, <2>2, <2>3 DEF FilesInv, KeyFits
<1>3. snap'[k] = Nothing /\ \A j \in Key \ {k} : log'[j] = log[j] /\ snap'[j] = snap[j]
  BY <1>1, <1>2 DEF FilesInv, Tables
<1>4. SweepAgrees(op)' /\ RewriteAgrees(op)'
  BY <1>1 DEF SweepAgrees, RewriteAgrees, Idle
<1>5. k \notin Torn(Leaving', log')
  BY <1>1, <1>2 DEF Torn, IsTorn
<1>6. IF counted = Nothing
        THEN UNCHANGED table
        ELSE /\ total' = total - snapBytes[k] - IF IsCounted(k) THEN counted[k] ELSE 0
             /\ counted' = Without(counted, k)
             /\ snapBytes' = [snapBytes EXCEPT ![k] = 0]
  BY DEF ForgetSnapshot
<1>7. ASSUME counted # Nothing
      PROVE  Books(Leaving', counted', snapBytes', total', crashes, log', snap')
  <2> HIDE DEF k
  <2>1. /\ DOMAIN counted \subseteq Key /\ counted \in [DOMAIN counted -> Nat]
        /\ snapBytes \in [Key -> Nat] /\ total \in Int
        /\ Weight(counted)[k] \in Nat /\ snapBytes[k] \in Nat
        /\ Weight(counted)[k] = IF k \in DOMAIN counted THEN counted[k] ELSE 0
    BY <1>2, <1>7, BookTypes
  <2>2. total' = total - snapBytes[k] - Weight(counted)[k]
    BY <1>6, <1>7, <2>1 DEF IsCounted
  <2>3. /\ DOMAIN counted' = DOMAIN counted \ {k}
        /\ \A j \in DOMAIN counted \ {k} : counted'[j] = counted[j]
        /\ counted' \in [DOMAIN counted' -> Nat]
    BY <1>6, <1>7, <2>1 DEF Without
  <2>4. /\ snapBytes' \in [Key -> Nat] /\ snapBytes'[k] = 0
        /\ \A j \in Key \ {k} : snapBytes'[j] = snapBytes[j]
    BY <1>2, <1>6, <1>7, <2>1
  <2>5. Weight(counted')[k] = 0
    BY <1>2, <2>3 DEF Weight
  <2>6. total' = total + Weight(counted')[k] - Weight(counted)[k]
                   + snapBytes'[k] - snapBytes[k]
    BY <2>1, <2>2, <2>4, <2>5
  <2>7. Entered(k, counted', snapBytes', log'[k], snap'[k])
    BY <1>1, <1>2, <2>3, <2>4 DEF Entered
  <2>8. k \notin Swollen(Leaving', counted', log')
    BY <2>3 DEF Swollen
  <2> QED  BY <1>2, <1>3, <1>7, <2>1, <2>3, <2>4, <2>6, <2>7, <2>8, Rebooked
<1>8. counted' # Nothing => counted # Nothing
  BY <1>6 DEF table
<1> HIDE DEF k
<1> QED  BY <1>1, <1>2, <1>3, <1>4, <1>5, <1>7, <1>8, BooksMove

LEMMA RestKeepsBooks ==
  ASSUME FilesInv, FilesInv', BooksInv, AppendReturns \/ SweepBegins \/ SweepEnds \/ Usage
  PROVE  BooksInv'
<1>1. CASE AppendReturns \/ SweepEnds
  <2>1. /\ op' = Idle /\ UNCHANGED <<log, snap, table, crashes>>
        /\ op.pc # "forget"
    BY <1>1 DEF AppendReturns, SweepEnds, files
  <2>2. op'.pc # "forget" /\ SweepAgrees(op)' /\ RewriteAgrees(op)'
    BY <2>1 DEF SweepAgrees, RewriteAgrees, Idle
  <2> QED  BY <2>1, <2>2, RestBooks
<1>2. CASE SweepBegins
  <2>1. /\ op = Idle /\ op' = [pc |-> "sweep", left |-> counted']
        /\ UNCHANGED <<log, snap, crashes>> /\ SeedOnce(log)
    BY <1>2 DEF SweepBegins, files
  <2>2. op.pc # "forget" /\ op'.pc # "forget" /\ SweepAgrees(op)' /\ RewriteAgrees(op)'
    BY <2>1 DEF SweepAgrees, RewriteAgrees, Idle
  <2>3. CASE counted = Nothing
    <3>1. log' = log /\ snap' = snap /\ crashes' = crashes /\ Seed(log')
      BY <2>1, <2>3 DEF SeedOnce
    <3> QED  BY <2>2, <3>1, SeedFits
  <2>4. CASE counted # Nothing
    <3>1. UNCHANGED <<log, snap, table, crashes>>
      BY <2>1, <2>4 DEF SeedOnce
    <3> QED  BY <2>2, <3>1, RestBooks
  <2> QED  BY <2>3, <2>4
<1>3. CASE Usage
  <2>1. /\ op = Idle /\ op' = Idle /\ Seed(log)
        /\ UNCHANGED <<log, snap, crashes>>
    BY <1>3 DEF Usage, files
  <2>2. op.pc # "forget" /\ op'.pc # "forget" /\ SweepAgrees(op)' /\ RewriteAgrees(op)'
    BY <2>1 DEF SweepAgrees, RewriteAgrees, Idle
  <2>3. log' = log /\ snap' = snap /\ crashes' = crashes /\ Seed(log')
    BY <2>1
  <2> QED  BY <2>2, <2>3, SeedFits
<1> QED  BY <1>1, <1>2, <1>3

LEMMA CrashKeepsBooks ==
  ASSUME Dies, BooksInv, Crash
  PROVE  BooksInv'
<1>1. /\ op' = Idle /\ counted' = Nothing /\ crashes' = crashes + 1 /\ crashes \in Nat
      /\ log' = log /\ snap' = snap /\ op.pc # "forget"
  BY DEF Crash, Die, Dies, BooksInv, files
<1>2. Leaving = {} /\ Leaving' = {}
  BY <1>1, NobodyLeaves DEF Idle
<1>3. Cardinality(Torn({}, log)) <= crashes + 1
  <2> DEFINE n == Cardinality(Torn({}, log))
  <2>1. n \in Nat
    <3>1. Torn({}, log) \in SUBSET Key
      BY DEF Torn
    <3> QED  BY <3>1, KeyAssumption, FS_Subset, FS_CardinalityType
  <2>2. n <= crashes
    BY <1>2 DEF BooksInv
  <2> HIDE DEF n
  <2>3. n <= crashes + 1
    BY <1>1, <2>1, <2>2
  <2> QED  BY <2>3 DEF n
<1>4. SweepAgrees(op)' /\ RewriteAgrees(op)'
  BY <1>1 DEF SweepAgrees, RewriteAgrees, Idle
<1>5. Homes({}, log, snap)
  BY <1>2 DEF BooksInv
<1> QED  BY <1>1, <1>2, <1>3, <1>4, <1>5 DEF BooksInv

LEMMA BooksInit == Init => BooksInv
<1> SUFFICES ASSUME Init PROVE BooksInv
  OBVIOUS
<1>1. /\ op = Idle /\ counted = Nothing /\ crashes = 0
      /\ \A k \in Key : log[k] = Nothing /\ snap[k] = Nothing
  BY DEF Init
<1>2. Torn(Leaving, log) = {}
  BY <1>1 DEF Torn, IsTorn
<1>3. Cardinality(Torn(Leaving, log)) <= crashes
  BY <1>1, <1>2, FS_EmptySet
<1>4. Homes(Leaving, log, snap) /\ SweepAgrees(op) /\ RewriteAgrees(op)
  BY <1>1 DEF Homes, SweepAgrees, RewriteAgrees, Idle
<1> QED  BY <1>1, <1>3, <1>4 DEF BooksInv

LEMMA BooksHold == ASSUME Dies PROVE Spec => []BooksInv
<1>1. ASSUME FilesInv, FilesInv', BooksInv, Next PROVE BooksInv'
  <2>1. ASSUME NEW k \in Key,
               \/ Load(k) \/ AppendConflicts(k) \/ StoreFull(k)
               \/ \E line \in NextLines(k) : AppendLine(k, line)
               \/ AppendTears(k) \/ Snapshot(k) \/ FoldSkips(k) \/ FoldSnapshot(k)
               \/ ForgetLog(k)
        PROVE  BooksInv'
    BY <1>1, <2>1, ReadsKeepBooks, AppendKeepsBooks, TearKeepsBooks, EvictionKeepsBooks,
       SkipKeepsBooks, FoldSnapshotKeepsBooks, ForgetLogKeepsBooks
  <2>2. CASE AppendReturns \/ SweepBegins \/ SweepEnds \/ Usage
    BY <1>1, <2>2, RestKeepsBooks
  <2>3. CASE FoldLog \/ FoldLogTears \/ ForgetSnapshot \/ Crash
    BY <1>1, <2>3, FoldLogKeepsBooks, FoldLogTearsKeepsBooks, ForgetSnapshotKeepsBooks,
       CrashKeepsBooks
  <2> QED  BY <1>1, <2>1, <2>2, <2>3 DEF Next
<1>2. ASSUME BooksInv, UNCHANGED vars PROVE BooksInv'
  <2>1. UNCHANGED <<op, log, snap, counted, snapBytes, total, crashes>>
    BY <1>2 DEF vars, files, table
  <2>2. Leaving' = Leaving
    BY <2>1 DEF Leaving, Forgetting
  <2> QED  BY <1>2, <2>1, <2>2 DEF BooksInv, SweepAgrees, RewriteAgrees
<1>3. FilesInv /\ FilesInv' /\ BooksInv /\ [Next]_vars => BooksInv'
  BY <1>1, <1>2
<1> QED  BY <1>3, BooksInit, FilesHold, PTL DEF Spec

(***************************************************************************)
(* The running total is never less than what is on disk, and more by no    *)
(* more than a fragment for each failure: for any keys and configurations, *)
(* after any appends, folds, snapshots, sweeps, deletions and crashes, so  *)
(* a budget that is kept by the total is kept on disk.                     *)
(***************************************************************************)
THEOREM BudgetAlwaysCoversDisk ==
  ASSUME Dies
  PROVE  Spec => []BudgetCoversDisk
<1>1. ASSUME FilesInv, BooksInv PROVE BudgetCoversDisk
  <2> SUFFICES ASSUME counted # Nothing, op = Idle
               PROVE  total - BytesOnDisk \in 0 .. FragmentSize * crashes
    BY DEF BudgetCoversDisk
  <2> DEFINE w == Weight(counted)
             disk == [k \in Key |-> LineSize * Len(Lines(log[k])) + SnapSize(snap[k])]
             more == Swollen({}, counted, log)
  <2>1. Leaving = {}
    BY NobodyLeaves DEF Idle
  <2>2. Books({}, counted, snapBytes, total, crashes, log, snap) /\ Homes({}, log, snap)
        /\ crashes \in Nat
    BY <1>1, <2>1 DEF BooksInv
  <2>3. /\ w \in [Key -> Nat] /\ snapBytes \in [Key -> Nat]
        /\ total = Total(w) + Total(snapBytes)
    BY <2>2, SumOfTable, SumOfKeys DEF Books
  <2>4. \A k \in Key : Len(Lines(log[k])) \in Nat
    <3>1. \A k \in Key : Sound(log[k])
      BY <1>1 DEF FilesInv, KeyFits, Fits, Sound
    <3> QED  BY <3>1, SizeIs
  <2>5. disk \in [Key -> Nat]
    BY <2>4 DEF LineSize, SnapSize, SnapshotSize
  <2>6. ASSUME NEW k \in Key
        PROVE  w[k] + snapBytes[k] = disk[k] + IF k \in more THEN 1 ELSE 0
    <3> DEFINE n == Len(Lines(log[k]))
    <3>1. Entered(k, counted, snapBytes, log[k], snap[k]) /\ n \in Nat
      BY <2>2, <2>4 DEF Books
    <3>2. w[k] = IF k \in DOMAIN counted THEN counted[k] ELSE 0
      BY DEF Weight
    <3>3. disk[k] = 2 * n + SnapSize(snap[k])
      BY DEF LineSize
    <3>4. SnapSize(snap[k]) \in Nat
      BY DEF SnapSize, SnapshotSize
    <3>5. CASE k \in DOMAIN counted
      <4>1. counted[k] - 2 * n \in {0, 1} /\ snapBytes[k] = SnapSize(snap[k])
            /\ counted[k] \in Nat
        BY <2>2, <3>1, <3>5 DEF Entered, Books, LineSize, FragmentSize
      <4>2. k \in more <=> counted[k] # 2 * n
        BY <3>5 DEF Swollen, LineSize
      <4> HIDE DEF n, w, disk, more
      <4> QED  BY <3>1, <3>2, <3>3, <3>4, <3>5, <4>1, <4>2
    <3>6. CASE k \notin DOMAIN counted
      <4>1. log[k] = Nothing /\ snap[k] = Nothing /\ snapBytes[k] = 0
        BY <2>2, <3>1, <3>6 DEF Entered, Homes
      <4>2. n = 0 /\ SnapSize(snap[k]) = 0
        BY <4>1 DEF Lines, SnapSize
      <4>3. k \notin more
        BY <3>6 DEF Swollen
      <4> HIDE DEF n, w, disk, more
      <4> QED  BY <3>2, <3>3, <3>6, <4>1, <4>2, <4>3
    <3> QED  BY <3>5, <3>6
  <2>7. more \in SUBSET Key /\ Cardinality(more) <= crashes
    BY <2>2 DEF Swollen, Books
  <2>8. BytesOnDisk = Total(disk)
    BY DEF BytesOnDisk, Sum, Total
  <2> HIDE DEF w, disk, more
  <2>9. /\ Total(w) + Total(snapBytes) = Total(disk) + Cardinality(more)
        /\ Total(disk) \in Nat /\ Cardinality(more) \in Nat
    BY <2>3, <2>5, <2>6, <2>7, KeyAssumption, SumOfBoth
  <2> QED  BY <2>2, <2>3, <2>7, <2>8, <2>9 DEF FragmentSize
<1> QED  BY <1>1, FilesHold, BooksHold, PTL

-----------------------------------------------------------------------------
(* What is kept of a log keeps its notes.                                  *)

\* The same lines kept the same way, up to a line, are the same so far.
LEMMA SameSoFar ==
  ASSUME NEW S, NEW l1 \in Seq(S), NEW keep1, NEW m1, IsFilter(m1, l1, keep1),
         NEW l2 \in Seq(S), NEW keep2, NEW m2, IsFilter(m2, l2, keep2),
         NEW n \in 0 .. Len(l1), n <= Len(l2),
         \A i \in 1 .. n : l1[i] = l2[i] /\ (l1[i] \in keep1 <=> l2[i] \in keep2)
  PROVE  m1[n] = m2[n]
<1> DEFINE Good == {i \in 0 .. n : m1[i] = m2[i]}
<1>0. n \in Nat /\ Len(l1) \in Nat /\ Len(l2) \in Nat /\ n <= Len(l1)
  OBVIOUS
<1>1. 0 \in Good
  BY <1>0 DEF IsFilter
<1>2. ASSUME NEW i \in 0 .. n - 1, i \in Good PROVE i + 1 \in Good
  <2>1. i + 1 \in 1 .. n /\ i + 1 \in 1 .. Len(l1) /\ i + 1 \in 1 .. Len(l2)
        /\ (i + 1) - 1 = i /\ m1[i] = m2[i]
    BY <1>0, <1>2
  <2>2. /\ m1[i + 1] = Grown(m1[i], l1[i + 1], keep1)
        /\ m2[i + 1] = Grown(m2[i], l2[i + 1], keep2)
    BY <2>1 DEF IsFilter
  <2>3. m1[i + 1] = m2[i + 1]
    BY <2>1, <2>2 DEF Grown
  <2> QED  BY <1>0, <2>1, <2>3
<1> HIDE DEF Good
<1>3. \A i \in 0 .. n : i \in Good
  BY <1>0, <1>1, <1>2, UpTo
<1> QED  BY <1>0, <1>3 DEF Good

\* A filter is decided line by line.
LEMMA OnlySame ==
  ASSUME NEW S, NEW lines \in Seq(S), NEW keep1, NEW keep2,
         \A i \in 1 .. Len(lines) : lines[i] \in keep1 <=> lines[i] \in keep2
  PROVE  Only(lines, keep1) = Only(lines, keep2)
<1>1. PICK m1 : IsFilter(m1, lines, keep1)
  BY Filters
<1>2. PICK m2 : IsFilter(m2, lines, keep2)
  BY Filters
<1>3. Len(lines) \in 0 .. Len(lines) /\ Len(lines) <= Len(lines)
  OBVIOUS
<1>4. m1[Len(lines)] = m2[Len(lines)]
  BY <1>1, <1>2, <1>3, SameSoFar
<1> QED  BY <1>1, <1>2, <1>4 DEF IsFilter

\* One more line, at the end.
LEMMA OnlyAppended ==
  ASSUME NEW S, NEW lines \in Seq(S), NEW x \in S, NEW keep1, NEW keep2,
         \A i \in 1 .. Len(lines) : lines[i] \in keep1 <=> lines[i] \in keep2
  PROVE  Only(Append(lines, x), keep2) = Grown(Only(lines, keep1), x, keep2)
<1> DEFINE more == Append(lines, x)
           n == Len(lines)
<1>1. /\ more \in Seq(S) /\ Len(more) = n + 1 /\ more[n + 1] = x
      /\ \A i \in 1 .. n : more[i] = lines[i]
      /\ n \in Nat
  BY AppendProperties
<1> HIDE DEF more
<1>2. PICK m1 : IsFilter(m1, lines, keep1)
  BY Filters
<1>3. PICK m2 : IsFilter(m2, more, keep2)
  BY <1>1, Filters
<1>4. m1[n] = m2[n]
  <2>1. n \in 0 .. Len(lines) /\ n <= Len(more)
        /\ \A i \in 1 .. n : lines[i] = more[i] /\ (lines[i] \in keep1 <=> more[i] \in keep2)
    BY <1>1
  <2> HIDE DEF n
  <2> QED  BY <1>1, <1>2, <1>3, <2>1, SameSoFar
<1>5. m2[n + 1] = Grown(m2[n], x, keep2)
  <2>1. n + 1 \in 1 .. Len(more) /\ (n + 1) - 1 = n
    BY <1>1
  <2> QED  BY <1>1, <1>3, <2>1 DEF IsFilter
<1>6. Only(lines, keep1) = m1[n] /\ Only(more, keep2) = m2[n + 1]
  BY <1>1, <1>2, <1>3 DEF IsFilter
<1> QED  BY <1>4, <1>5, <1>6 DEF more

\* A filter that every line passes.
LEMMA OnlyAll ==
  ASSUME NEW S, NEW lines \in Seq(S), NEW keep, \A i \in 1 .. Len(lines) : lines[i] \in keep
  PROVE  Only(lines, keep) = lines
<1> DEFINE last == Len(lines)
<1>1. PICK m : IsFilter(m, lines, keep)
  BY Filters
<1> DEFINE Good == {n \in 0 .. last : m[n] = SubSeq(lines, 1, n)}
<1>2. last \in Nat
  OBVIOUS
<1>3. 0 \in Good
  <2>1. SubSeq(lines, 1, 0) = <<>>
    OBVIOUS
  <2>2. m[0] = <<>> /\ 0 \in 0 .. last
    BY <1>1, <1>2 DEF IsFilter
  <2> HIDE DEF last
  <2> QED  BY <2>1, <2>2
<1>4. ASSUME NEW n \in 0 .. last - 1, n \in Good PROVE n + 1 \in Good
  <2>1. n + 1 \in 1 .. last /\ (n + 1) - 1 = n /\ n \in Nat /\ m[n] = SubSeq(lines, 1, n)
    BY <1>2, <1>4
  <2>2. m[n + 1] = Append(SubSeq(lines, 1, n), lines[n + 1])
    BY <1>1, <2>1 DEF IsFilter, Grown
  <2>3. Append(SubSeq(lines, 1, n), lines[n + 1]) = SubSeq(lines, 1, n + 1)
    BY <2>1
  <2>4. n + 1 \in 0 .. last
    BY <1>2, <2>1
  <2> HIDE DEF last
  <2> QED  BY <2>2, <2>3, <2>4
<1> HIDE DEF Good
<1>5. last \in Good
  <2>1. \A n \in 0 .. last : n \in Good
    <3> HIDE DEF last
    <3> QED  BY <1>2, <1>3, <1>4, UpTo
  <2> QED  BY <1>2, <2>1
<1>6. SubSeq(lines, 1, last) = lines
  OBVIOUS
<1> QED  BY <1>1, <1>5, <1>6 DEF IsFilter, Good

\* Nothing is lost when nothing, or one line, is added to what is kept.
LEMMA PrefixOfMore ==
  ASSUME NEW S, NEW s \in Seq(S), NEW x \in S
  PROVE  IsPrefixOf(s, s) /\ IsPrefixOf(s, Append(s, x))
<1>1. Len(s) \in Nat /\ SubSeq(s, 1, Len(s)) = s
  OBVIOUS
<1>2. Len(Append(s, x)) = Len(s) + 1
  OBVIOUS
<1>3. SubSeq(Append(s, x), 1, Len(s)) = s
  OBVIOUS
<1> QED  BY <1>1, <1>2, <1>3 DEF IsPrefixOf

NotesAmong(lines) == {line \in ToSet(lines) : line.type = "note"}

\* The notes of a log are lines of it, and of its lines alone.
LEMMA NotesAre ==
  ASSUME NEW file, Sound(file)
  PROVE  /\ Notes(file) = Only(Lines(file), NotesAmong(Lines(file)))
         /\ Notes(file) \in Seq(WholeLine)
         /\ Lines(file) \in Seq(WholeLine)
         /\ \A i \in 1 .. Len(Lines(file)) :
              Lines(file)[i] \in NotesAmong(Lines(file)) <=> Lines(file)[i].type = "note"
<1> DEFINE l == Lines(file)
<1>1. l \in Seq(WholeLine)
  BY RepairedFits
<1>2. Notes(file) = Only(l, NotesAmong(l))
  BY DEF Notes, NotesAmong
<1> HIDE DEF l
<1>3. Notes(file) \in Seq(WholeLine)
  <2>1. Notes(file) \in Seq(WholeLine \cap NotesAmong(l))
    BY <1>1, <1>2, OnlyTyped
  <2>2. \A i \in 1 .. Len(Notes(file)) : Notes(file)[i] \in WholeLine
    BY <2>1
  <2> QED  BY <2>1, <2>2, SeqDef
<1>4. \A i \in 1 .. Len(l) : l[i] \in NotesAmong(l) <=> l[i].type = "note"
  BY <1>1 DEF NotesAmong, ToSet
<1> QED  BY <1>1, <1>2, <1>3, <1>4 DEF l

LEMMA AppendKeepsNotes ==
  ASSUME NEW file, Sound(file), NEW g, Sound(g), NEW line \in WholeLine,
         Lines(g) = Append(Lines(file), line)
  PROVE  IsPrefixOf(Notes(file), Notes(g))
<1> DEFINE l == Lines(file)
           l2 == Lines(g)
<1>1. /\ Notes(file) = Only(l, NotesAmong(l)) /\ Notes(file) \in Seq(WholeLine)
      /\ l \in Seq(WholeLine)
      /\ \A i \in 1 .. Len(l) : l[i] \in NotesAmong(l) <=> l[i].type = "note"
  BY NotesAre
<1>2. /\ Notes(g) = Only(l2, NotesAmong(l2))
      /\ \A i \in 1 .. Len(l2) : l2[i] \in NotesAmong(l2) <=> l2[i].type = "note"
  BY NotesAre
<1>3. Len(l2) = Len(l) + 1 /\ Len(l) \in Nat /\ \A i \in 1 .. Len(l) : l2[i] = l[i]
  <2>1. l2 = Append(l, line)
    OBVIOUS
  <2> HIDE DEF l, l2
  <2> QED  BY <1>1, <2>1, AppendProperties
<1>4. l2 = Append(l, line)
  OBVIOUS
<1> HIDE DEF l, l2
<1>5. \A i \in 1 .. Len(l) : l[i] \in NotesAmong(l) <=> l[i] \in NotesAmong(l2)
  <2>1. \A i \in 1 .. Len(l) : i \in 1 .. Len(l2)
    BY <1>3
  <2> QED  BY <1>1, <1>2, <1>3, <2>1
<1>6. Notes(g) = Grown(Notes(file), line, NotesAmong(l2))
  BY <1>1, <1>2, <1>4, <1>5, OnlyAppended
<1> QED  BY <1>1, <1>6, PrefixOfMore DEF Grown

\* The rewritten log is the notes of the one before it.
LEMMA RewriteKeepsNotes ==
  ASSUME NEW k, Sound(log[k]), Ascending(Lines(log[k])),
         snap[k] \in Snapshots, LatestSeq(Lines(log[k])) <= snap[k].seq
  PROVE  IsPrefixOf(Notes(log[k]), Notes(Kept(k)))
<1> DEFINE l == Lines(log[k])
           keep == {line \in ToSet(l) : line.seq > snap[k].seq \/ line.type # "transition"}
           g == Kept(k)
<1>1. /\ Notes(log[k]) = Only(l, NotesAmong(l)) /\ l \in Seq(WholeLine)
      /\ Notes(log[k]) \in Seq(WholeLine)
      /\ \A i \in 1 .. Len(l) : l[i] \in NotesAmong(l) <=> l[i].type = "note"
  BY NotesAre
<1>2. g = Only(l, keep)
  BY DEF Kept
<1>3. LatestSeq(l) \in Int /\ snap[k].seq \in Nat /\ LatestSeq(l) <= snap[k].seq
      /\ Ascending(l)
  <2>1. LatestSeq(l) \in Int
    BY <1>1, HeldIs
  <2> QED  BY <2>1 DEF Snapshots
<1>4. g \in Seq(WholeLine) /\ Commits(g) = {}
  BY KeptIsNotes
<1> HIDE DEF l, g
<1>5. ASSUME NEW i \in 1 .. Len(l)
      PROVE  l[i] \in NotesAmong(l) <=> l[i] \in keep
  <2>1. l[i] \in WholeLine /\ i \in DOMAIN l /\ l[i] \in ToSet(l)
    BY <1>1 DEF ToSet
  <2>2. l[i].type \in {"transition", "note"} /\ l[i].seq \in Nat
    BY <2>1, LineTypes
  <2>3. l[i].type = "transition" => l[i].seq <= LatestSeq(l)
    <3>1. l[i].type = "transition" => i \in Commits(l)
      BY <1>1, <2>1 DEF Commits
    <3> QED  BY <1>1, <1>3, <3>1, LatestIsGreatest
  <2>4. l[i].type = "transition" => ~(l[i].seq > snap[k].seq)
    BY <1>3, <2>2, <2>3
  <2> QED  BY <1>1, <2>1, <2>2, <2>4
<1>6. g = Notes(log[k])
  <2> HIDE DEF keep
  <2> QED  BY <1>1, <1>2, <1>5, OnlySame
<1>7. Sound(g) /\ Lines(g) = g
  BY <1>4, WrittenHalf
<1>8. Notes(g) = g
  <2>1. /\ Notes(g) = Only(g, NotesAmong(g))
        /\ \A i \in 1 .. Len(g) : g[i] \in NotesAmong(g) <=> g[i].type = "note"
    BY <1>7, NotesAre
  <2>2. ASSUME NEW i \in 1 .. Len(g) PROVE g[i].type = "note"
    <3>1. g[i] \in WholeLine /\ i \notin Commits(g)
      BY <1>4
    <3> QED  BY <3>1, LineTypes DEF Commits
  <2> QED  BY <1>4, <2>1, <2>2, OnlyAll
<1>9. IsPrefixOf(g, g)
  <2>1. Len(g) \in Nat /\ SubSeq(g, 1, Len(g)) = g
    BY <1>4
  <2> QED  BY <2>1 DEF IsPrefixOf
<1> QED  BY <1>6, <1>8, <1>9 DEF g

LEMMA SameLinesNotes ==
  ASSUME NEW file, Sound(file), NEW g, Lines(g) = Lines(file)
  PROVE  IsPrefixOf(Notes(file), Notes(g))
<1>1. Notes(g) = Notes(file) /\ Notes(file) \in Seq(WholeLine)
  BY NotesAre DEF Notes
<1>2. Len(Notes(file)) \in Nat /\ SubSeq(Notes(file), 1, Len(Notes(file))) = Notes(file)
  BY <1>1
<1> QED  BY <1>1, <1>2 DEF IsPrefixOf

LEMMA StepKeepsNotes ==
  ASSUME Dies, FilesInv, crashes \in Nat, Next, NEW j \in Key,
         crashes' = crashes, log'[j] # Nothing
  PROVE  IsPrefixOf(Notes(log[j]), Notes(log'[j]))
<1>0. Tables /\ (\A k \in Key : Sound(log[k]))
  BY DEF FilesInv, KeyFits, Fits, Sound
<1>1. CASE log'[j] = log[j]
  BY <1>0, <1>1, SameLinesNotes
<1>2. CASE \E k \in Key : log' = [log EXCEPT ![k] = Repaired(log[k])]
                            \/ log' = [log EXCEPT ![k] = Consulted(k)]
  <2>1. PICK k \in Key : log' = [log EXCEPT ![k] = Repaired(log[k])]
                           \/ log' = [log EXCEPT ![k] = Consulted(k)]
    BY <1>2
  <2>2. log'[j] = log[j] \/ log'[j] = Repaired(log[j])
    BY <1>0, <2>1 DEF Tables, Consulted
  <2>3. Lines(log'[j]) = Lines(log[j])
    BY <1>0, <2>2, RepairedFits
  <2> QED  BY <1>0, <2>3, SameLinesNotes
<1>3. ASSUME NEW k \in Key, NEW line \in NextLines(k), AppendLine(k, line)
      PROVE  IsPrefixOf(Notes(log[j]), Notes(log'[j]))
  <2>1. log' = [log EXCEPT ![k] = Written(Consulted(k), line)]
    BY <1>3 DEF AppendLine
  <2>2. CASE j = k
    <3>1. line \in WholeLine /\ ~Forgetting(k)
      <4>1. ~Forgetting(k)
        BY <1>3 DEF AppendLine, MayAppend, Forgetting, Idle
      <4>2. CurrentSeq(k) \in Int /\ CurrentSeq(k) >= EMPTY_SEQ
        BY <4>1, NowFits, HeldIs DEF Fits
      <4>3. CurrentSeq(k) + 1 \in Nat
        BY <4>2 DEF EMPTY_SEQ
      <4>4. \/ \E s \in State : line = CommitLine(CurrentSeq(k) + 1, s)
            \/ CurrentSeq(k) \in Nat /\ line = NoteLine(CurrentSeq(k))
        BY <1>3 DEF NextLines
      <4>5. ASSUME NEW n \in Nat, NEW s \in State
            PROVE  CommitLine(n, s) \in WholeLine /\ NoteLine(n) \in WholeLine
        BY DEF CommitLine, NoteLine, Transition, Note, WholeLine, Line, Fragment, Corrupt
      <4>6. ASSUME NEW n \in Nat PROVE NoteLine(n) \in WholeLine
        BY DEF NoteLine, Note, WholeLine, Line, Fragment, Corrupt
      <4> QED  BY <4>1, <4>3, <4>4, <4>5, <4>6
    <3> DEFINE f == Repaired(log[k])
    <3>2. Consulted(k) = f /\ Sound(f) /\ ~IsTorn(f) /\ Lines(f) = Lines(log[k])
      BY <1>0, <3>1, NowFits, RepairedFits
    <3> HIDE DEF f
    <3>3. Lines(Written(f, line)) = Append(Lines(f), line) /\ Sound(Written(f, line))
      BY <3>1, <3>2, WrittenWhole
    <3>4. log'[j] = Written(f, line)
      BY <1>0, <2>1, <2>2, <3>2 DEF Tables
    <3> QED  BY <1>0, <2>2, <3>1, <3>2, <3>3, <3>4, AppendKeepsNotes
  <2>3. CASE j # k
    BY <1>0, <1>1, <2>1, <2>3 DEF Tables
  <2> QED  BY <2>2, <2>3
<1>4. CASE FoldLog
  <2> DEFINE k == op.key
  <2>1. log' = [log EXCEPT ![k] = Kept(k)] /\ op.pc = "rewrite"
    BY <1>4 DEF FoldLog
  <2>2. CASE j = k
    <3>1. IsRewrite(op) /\ ~Forgetting(k)
      BY <2>1, Phases DEF FilesInv, Forgetting
    <3>2. Fits(log[k], snap[k], cached[k], acked[k])
      BY <2>2, <3>1, NowFits
    <3>3. /\ Sound(log[k]) /\ Ascending(Lines(log[k]))
          /\ snap[k] \in Snapshots /\ LatestSeq(Lines(log[k])) <= snap[k].seq
      BY <3>1, <3>2 DEF Fits, IsRewrite
    <3>4. log'[j] = Kept(k)
      BY <1>0, <2>1, <2>2 DEF Tables
    <3> HIDE DEF k
    <3> QED  BY <2>2, <3>3, <3>4, RewriteKeepsNotes
  <2>3. CASE j # k
    BY <1>0, <1>1, <2>1, <2>3 DEF Tables
  <2> QED  BY <2>2, <2>3
<1>5. ASSUME NEW k \in Key, ForgetLog(k)
      PROVE  IsPrefixOf(Notes(log[j]), Notes(log'[j]))
  <2>1. log' = [log EXCEPT ![k] = Nothing]
    BY <1>5 DEF ForgetLog
  <2> QED  BY <1>0, <1>1, <2>1 DEF Tables
<1>6. ASSUME NEW k \in Key, AppendTears(k)
      PROVE  FALSE
  <2>1. crashes' = crashes + 1
    BY <1>6 DEF AppendTears, Die
  <2> QED  BY <2>1
<1>7. ~FoldLogTears
  <2>1. FoldLogTears => crashes' = crashes + 1
    BY DEF FoldLogTears, Die
  <2> QED  BY <2>1
<1>8. ASSUME NEW k \in Key, FoldSnapshot(k)
      PROVE  log' = [log EXCEPT ![k] = Repaired(log[k])]
  BY <1>8 DEF FoldSnapshot
<1>9. ASSUME NEW k \in Key, Load(k) \/ FoldSkips(k)
      PROVE  log' = [log EXCEPT ![k] = Repaired(log[k])]
  BY <1>9 DEF Load, FoldSkips
<1>10. ASSUME NEW k \in Key, AppendConflicts(k) \/ StoreFull(k)
       PROVE  log' = [log EXCEPT ![k] = Consulted(k)]
  BY <1>10 DEF AppendConflicts, StoreFull
<1>11. ASSUME (\E k \in Key : Snapshot(k)) \/ AppendReturns \/ SweepBegins \/ SweepEnds
                \/ ForgetSnapshot \/ Usage \/ Crash
       PROVE  log' = log
  BY <1>11 DEF Snapshot, AppendReturns, SweepBegins, SweepEnds, ForgetSnapshot, Usage, Crash,
     files
<1> QED  BY <1>1, <1>2, <1>3, <1>4, <1>5, <1>6, <1>7, <1>8, <1>9, <1>10, <1>11 DEF Next

(***************************************************************************)
(* Refusals and violations stay in the log: no append, fold, sweep,        *)
(* snapshot or repair takes a note out of it, or puts one before another.  *)
(* Only the deletion of its key does, or the end of the process in the     *)
(* middle of a fold.                                                       *)
(***************************************************************************)
THEOREM NotesAreKept ==
  ASSUME Dies
  PROVE  Spec => NotesSurvive
<1>1. FilesInv /\ BooksInv /\ [Next]_vars =>
        [\A k \in Key : crashes' = crashes /\ log'[k] # Nothing
           => IsPrefixOf(Notes(log[k]), Notes(log'[k]))]_vars
  BY StepKeepsNotes DEF BooksInv
<1> QED  BY <1>1, FilesHold, BooksHold, PTL DEF Spec, NotesSurvive

=============================================================================
