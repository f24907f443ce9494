---------------------------- MODULE InboxProofs ----------------------------
(***************************************************************************)
(* Proofs about Inbox, for any set of triggers and any capacities.         *)
(***************************************************************************)
EXTENDS Inbox, SequenceTheorems, FiniteSetTheorems, TLAPS

LEMMA TopAndBelow ==
  ASSUME NEW S, NEW s \in Seq(S), s # <<>>
  PROVE  /\ Len(s) \in Nat /\ Len(s) >= 1
         /\ s[Len(s)] \in S
         /\ SubSeq(s, 1, Len(s) - 1) \in Seq(S)
         /\ Len(SubSeq(s, 1, Len(s) - 1)) = Len(s) - 1
         /\ \A i \in 1 .. Len(s) - 1 : SubSeq(s, 1, Len(s) - 1)[i] = s[i]
<1>1. Len(s) \in Nat /\ Len(s) >= 1
  BY EmptySeq
<1>2. \A i \in 1 .. Len(s) : s[i] \in S
  OBVIOUS
<1>3. \A i \in 1 .. Len(s) - 1 : s[i] \in S
  BY <1>1, <1>2
<1> DEFINE n == Len(s) - 1
<1>4. /\ SubSeq(s, 1, n) \in Seq(S)
      /\ Len(SubSeq(s, 1, n)) = IF 1 <= n THEN n - 1 + 1 ELSE 0
      /\ \A i \in 1 .. n - 1 + 1 : SubSeq(s, 1, n)[i] = s[1 + i - 1]
  BY <1>1, <1>3, SubSeqProperties
<1>5. n \in Nat
  BY <1>1
<1> HIDE DEF n
<1>6. Len(SubSeq(s, 1, n)) = n
  BY <1>4, <1>5
<1>7. \A i \in 1 .. n : SubSeq(s, 1, n)[i] = s[i]
  BY <1>4, <1>5
<1> QED  BY <1>1, <1>2, <1>4, <1>6, <1>7 DEF n

LEMMA TopIsFrame ==
  ASSUME stack \in Seq(Frames), stack # <<>>
  PROVE  /\ Top \in Frames
         /\ Below \in Seq(Frames)
  BY TopAndBelow DEF Top, Below

(***************************************************************************)
(* Type correctness: every variable of the inbox keeps its type.           *)
(***************************************************************************)
THEOREM TypeCorrect == Spec => []TypeOK
<1>1. Init => TypeOK
  <2>1. /\ <<>> \in Seq(Trigger)
        /\ <<>> \in Seq(Frames)
    BY EmptySeq
  <2> SUFFICES ASSUME Init PROVE TypeOK
    OBVIOUS
  <2>2. /\ config \in Configs /\ queue \in Seq(Trigger) /\ stack \in Seq(Frames)
        /\ current \in Trigger \cup {None} /\ started \in Seq(Trigger)
        /\ recorded \in SUBSET Trigger
    BY <2>1 DEF Init
  <2>3. running \in BOOLEAN /\ calls \in Nat
    BY DEF Init
  <2>4. outcome \in [Trigger -> Outcomes] /\ calledAt \in [Trigger -> Nat]
    BY DEF Init, Outcomes
  <2> QED  BY <2>2, <2>3, <2>4 DEF TypeOK
<1>2. TypeOK /\ [Next]_vars => TypeOK'
  <2> SUFFICES ASSUME TypeOK, [Next]_vars
               PROVE  TypeOK'
    OBVIOUS
  <2> USE DEF TypeOK
  <2>1. ASSUME NEW t \in Trigger, Enqueue(t)
        PROVE  TypeOK'
    <3>1. /\ config' = config /\ running' = running /\ current' = current
          /\ recorded' = recorded /\ started' = started
          /\ calls' \in Nat
          /\ calledAt' \in [Trigger -> Nat]
          /\ outcome' \in [Trigger -> Outcomes]
      BY <2>1 DEF Enqueue, Outcomes
    <3>2. CASE Accept(t)
      <4>1. Frame("starting", t, None) \in Frames
        BY DEF Frame, Frames
      <4> QED  BY <3>1, <3>2, <4>1, AppendProperties DEF Accept
    <3>3. CASE Overflow(t)
      <4>1. ASSUME NEW v \in Trigger
            PROVE  Frame("refusing", t, v) \in Frames
        BY DEF Frame, Frames
      <4>2. queue # <<>> => Head(queue) \in Trigger /\ Tail(queue) \in Seq(Trigger)
        BY HeadTailProperties
      <4>3. PICK v \in Trigger :
                stack' = Append(stack, Frame("refusing", t, v))
        BY <3>3, <4>2 DEF Overflow
      <4>4. stack' \in Seq(Frames)
        BY <4>1, <4>3, AppendProperties
      <4>5. queue' \in Seq(Trigger)
        BY <3>3, <4>2 DEF Overflow
      <4> QED  BY <3>1, <4>4, <4>5
    <3> QED  BY <2>1, <3>2, <3>3 DEF Enqueue
  <2>2. CASE Refuse
    <3>1. Top \in Frames /\ Below \in Seq(Frames)
      BY <2>2, TopIsFrame DEF Refuse, At
    <3>2. Top.trigger \in Trigger /\ Top.victim \in Trigger
      BY <2>2, <3>1 DEF Refuse, At, Frames
    <3>3. Frame("starting", Top.trigger, None) \in Frames
      BY <3>2 DEF Frame, Frames
    <3>4. /\ Append(queue, Top.trigger) \in Seq(Trigger)
          /\ Append(Below, Frame("starting", Top.trigger, None)) \in Seq(Frames)
      BY <3>1, <3>2, <3>3, AppendProperties
    <3>7. queue' \in Seq(Trigger) /\ stack' \in Seq(Frames)
      BY <2>2, <3>1, <3>4 DEF Refuse
    <3>5. outcome' \in [Trigger -> Outcomes]
      BY <2>2 DEF Refuse, RefusalCode, Outcomes, Refusals
    <3>6. recorded' \in SUBSET Trigger
      BY <2>2, <3>2 DEF Refuse
    <3> QED  BY <2>2, <3>5, <3>6, <3>7 DEF Refuse, history
  <2>3. CASE Start
    <3>1. Below \in Seq(Frames)
      BY <2>3, TopIsFrame DEF Start, At
    <3>2. Frame("draining", None, None) \in Frames
      BY DEF Frame, Frames
    <3>3. stack' \in Seq(Frames)
      BY <2>3, <3>1, <3>2, AppendProperties DEF Start
    <3> QED  BY <2>3, <3>3 DEF Start, history
  <2>4. CASE Drain
    <3>1. Below \in Seq(Frames)
      BY <2>4, TopIsFrame DEF Drain, At
    <3>2. CASE queue # <<>>
      <4>1. Head(queue) \in Trigger /\ Tail(queue) \in Seq(Trigger)
        BY <3>2, HeadTailProperties
      <4>2. Append(started, Head(queue)) \in Seq(Trigger)
        BY <4>1, AppendProperties
      <4> QED  BY <2>4, <3>1, <3>2, <4>1, <4>2 DEF Drain, history
    <3>3. CASE queue = <<>>
      BY <2>4, <3>1, <3>3 DEF Drain, history
    <3> QED  BY <3>2, <3>3
  <2>5. ASSUME NEW result \in {"resolved", "rejected"}, Settle(result)
        PROVE  TypeOK'
    <3>1. <<Frame("draining", None, None)>> \in Seq(Frames)
      BY DEF Frame, Frames
    <3> QED  BY <2>5, <3>1 DEF Settle, Outcomes, history
  <2>6. CASE Rest
    BY <2>6 DEF Rest, vars
  <2>7. CASE UNCHANGED vars
    BY <2>7 DEF vars
  <2> QED  BY <2>1, <2>2, <2>3, <2>4, <2>5, <2>6, <2>7 DEF Next
<1> QED  BY <1>1, <1>2, PTL DEF Spec

-----------------------------------------------------------------------------
(***************************************************************************)
(* Nobody is stranded, telemetry sinks calling send() included.            *)
(***************************************************************************)

IsStarting(f) == f.pc = "starting"

\* A call that will push its trigger once its report returns.
WillPush(f) == f.pc = "refusing" /\ f.victim # f.trigger

Sent == {t \in Trigger : outcome[t] # "unsent"}

SentFrames == {f \in Frames : f.pc = "draining" \/ f.trigger \in Sent}

\* Every trigger on the move was sent: a newcomer is not in the line yet.
SentInv ==
  /\ queue \in Seq(Sent)
  /\ started \in Seq(Sent)
  /\ stack \in Seq(SentFrames)

\* The drain loop, if there is one, is the newest call or has a turn running.
DrainInv ==
  /\ current # None => running
  /\ running => current # None \/ At("draining")
  /\ \A i \in 1 .. Len(stack) : stack[i].pc = "draining" =>
       /\ i = Len(stack)
       /\ running
       /\ current = None
       /\ queue # <<>> \/ i = 1

\* Without one, whatever waits was pushed by a call that will start it, and
\* such a call finds its trigger, or one that a nested call owes the queue.
StartInv ==
  ~running =>
    /\ queue # <<>> => \E i \in 1 .. Len(stack) : IsStarting(stack[i])
    /\ \A i \in 1 .. Len(stack) : IsStarting(stack[i]) =>
         queue # <<>> \/ \E j \in 1 .. Len(stack) : i < j /\ WillPush(stack[j])

NobodyStrandedInv == TypeOK /\ SentInv /\ DrainInv /\ StartInv

\* The positions of the stack after a call is pushed, popped or replaced.
LEMMA StackTop ==
  ASSUME TypeOK, stack # <<>>
  PROVE  /\ Len(stack) \in Nat /\ Len(stack) >= 1
         /\ Top = stack[Len(stack)]
         /\ Top \in Frames
  BY TopAndBelow DEF TypeOK, Top

LEMMA Pushed ==
  ASSUME TypeOK, NEW f \in Frames, stack' = Append(stack, f)
  PROVE  /\ Len(stack) \in Nat
         /\ Len(stack') = Len(stack) + 1
         /\ stack' # <<>>
         /\ stack'[Len(stack) + 1] = f
         /\ \A i \in 1 .. Len(stack) : stack'[i] = stack[i]
         /\ Top' = f
  BY AppendProperties DEF TypeOK, Top

LEMMA Popped ==
  ASSUME TypeOK, stack # <<>>, stack' = Below
  PROVE  /\ Len(stack) \in Nat /\ Len(stack) >= 1
         /\ Len(stack') = Len(stack) - 1
         /\ stack' \in Seq(Frames)
         /\ \A i \in 1 .. Len(stack) - 1 : stack'[i] = stack[i]
  BY TopAndBelow DEF TypeOK, Below

LEMMA Replaced ==
  ASSUME TypeOK, stack # <<>>, NEW f \in Frames, stack' = Append(Below, f)
  PROVE  /\ Len(stack) \in Nat /\ Len(stack) >= 1
         /\ Len(stack') = Len(stack)
         /\ stack' # <<>>
         /\ stack'[Len(stack)] = f
         /\ \A i \in 1 .. Len(stack) - 1 : stack'[i] = stack[i]
         /\ Top' = f
<1>1. /\ Below \in Seq(Frames)
      /\ Len(stack) \in Nat /\ Len(stack) >= 1
      /\ Len(Below) = Len(stack) - 1
      /\ \A i \in 1 .. Len(stack) - 1 : Below[i] = stack[i]
  BY TopAndBelow DEF TypeOK, Below
<1>2. /\ Len(stack') = Len(Below) + 1
      /\ stack' # <<>>
      /\ stack'[Len(Below) + 1] = f
      /\ \A i \in 1 .. Len(Below) : stack'[i] = Below[i]
  BY <1>1, AppendProperties
<1>3. Len(Below) + 1 = Len(stack)
  BY <1>1
<1> QED  BY <1>1, <1>2, <1>3 DEF Top

LEMMA QueueFacts ==
  ASSUME TypeOK
  PROVE  /\ Len(queue) \in Nat
         /\ queue # <<>> <=> Len(queue) >= 1
         /\ queue # <<>> => /\ Head(queue) \in Trigger
                            /\ Len(Tail(queue)) = Len(queue) - 1
  BY EmptySeq, HeadTailProperties DEF TypeOK

\* What was sent stays sent.
LEMMA SentGrows ==
  ASSUME SentInv, Sent \subseteq Sent'
  PROVE  /\ queue \in Seq(Sent')
         /\ started \in Seq(Sent')
         /\ SentFrames \subseteq SentFrames'
         /\ stack \in Seq(SentFrames')
<1>1. SentFrames \subseteq SentFrames'
  BY DEF SentFrames
<1> QED  BY <1>1, SeqMonotonic DEF SentInv

LEMMA SentInductive ==
  ASSUME TypeOK, SentInv, [Next]_vars
  PROVE  SentInv'
<1>0. /\ stack # <<>> => Top \in SentFrames /\ Below \in Seq(SentFrames)
      /\ queue # <<>> => Head(queue) \in Sent /\ Tail(queue) \in Seq(Sent)
  BY TopAndBelow, HeadTailProperties DEF SentInv, Top, Below
<1>1. ASSUME NEW t \in Trigger, Enqueue(t)
      PROVE  SentInv'
  <2>1. Sent \subseteq Sent' /\ t \in Sent'
    BY <1>1 DEF Enqueue, Sent, TypeOK
  <2>2. PICK f \in SentFrames' : stack' = Append(stack, f)
    <3>1. CASE Accept(t)
      <4>1. Frame("starting", t, None) \in SentFrames'
        BY <2>1 DEF Frame, Frames, SentFrames
      <4> QED  BY <3>1, <4>1 DEF Accept
    <3>2. CASE Overflow(t)
      <4>1. PICK v \in Trigger : stack' = Append(stack, Frame("refusing", t, v))
        BY <1>0, <3>2 DEF Overflow, Sent
      <4>2. Frame("refusing", t, v) \in SentFrames'
        BY <2>1 DEF Frame, Frames, SentFrames
      <4> QED  BY <4>1, <4>2
    <3> QED  BY <1>1, <3>1, <3>2 DEF Enqueue
  <2>3. stack' \in Seq(SentFrames')
    BY <2>1, <2>2, SentGrows, AppendProperties
  <2>4. queue' \in Seq(Sent')
    <3>1. CASE queue' = queue
      BY <2>1, <3>1, SentGrows
    <3>2. CASE queue' = Append(queue, t)
      BY <2>1, <3>2, SentGrows, AppendProperties
    <3>3. CASE queue # <<>> /\ queue' = Tail(queue)
      BY <1>0, <2>1, <3>3, SeqMonotonic
    <3> QED  BY <1>1, <3>1, <3>2, <3>3 DEF Enqueue, Accept, Overflow
  <2>5. started' \in Seq(Sent')
    BY <1>1, <2>1, SentGrows DEF Enqueue
  <2> QED  BY <2>3, <2>4, <2>5 DEF SentInv
<1>2. CASE Refuse
  <2>1. Sent \subseteq Sent'
    BY <1>2 DEF Refuse, RefusalCode, Sent, TypeOK
  <2>2. /\ Below \in Seq(SentFrames')
        /\ Top \in SentFrames
        /\ Top.trigger \in Sent'
    BY <1>0, <1>2, <2>1, SentGrows, SeqMonotonic DEF Refuse, At, SentFrames
  <2>3. started' \in Seq(Sent')
    BY <1>2, <2>1, SentGrows DEF Refuse
  <2>4. Frame("starting", Top.trigger, None) \in SentFrames'
    BY <2>2 DEF Frame, Frames, SentFrames, Sent
  <2>5. /\ queue' \in {queue, Append(queue, Top.trigger)}
        /\ stack' \in {Below, Append(Below, Frame("starting", Top.trigger, None))}
    BY <1>2 DEF Refuse
  <2>6. stack' \in Seq(SentFrames')
    BY <2>2, <2>4, <2>5, AppendProperties
  <2>7. queue \in Seq(Sent')
    BY <2>1, SentGrows
  <2>8. queue' \in Seq(Sent')
    BY <2>2, <2>5, <2>7, AppendProperties
  <2> QED  BY <2>3, <2>6, <2>8 DEF SentInv
<1>3. CASE Start
  <2>1. Sent' = Sent /\ SentFrames' = SentFrames
    BY <1>3 DEF Start, Sent, SentFrames
  <2>2. Frame("draining", None, None) \in SentFrames
    BY DEF Frame, Frames, SentFrames
  <2>3. Below \in Seq(SentFrames)
    BY <1>0, <1>3 DEF Start, At
  <2>4. stack' \in {Below, Append(Below, Frame("draining", None, None))}
    BY <1>3 DEF Start
  <2>5. stack' \in Seq(SentFrames)
    BY <2>2, <2>3, <2>4, AppendProperties
  <2> QED  BY <1>3, <2>1, <2>5 DEF Start, SentInv
<1>4. CASE Drain
  <2>1. Sent' = Sent /\ SentFrames' = SentFrames
    BY <1>4 DEF Drain, Sent, SentFrames
  <2>2. stack' \in Seq(SentFrames)
    BY <1>0, <1>4 DEF Drain, At
  <2>3. CASE queue # <<>>
    <3>1. Append(started, Head(queue)) \in Seq(Sent)
      BY <1>0, <2>3, AppendProperties DEF SentInv
    <3> QED  BY <1>0, <1>4, <2>1, <2>2, <2>3, <3>1 DEF Drain, SentInv
  <2>4. CASE queue = <<>>
    BY <1>4, <2>1, <2>2, <2>4 DEF Drain, SentInv
  <2> QED  BY <2>3, <2>4
<1>5. ASSUME NEW result \in {"resolved", "rejected"}, Settle(result)
      PROVE  SentInv'
  <2>1. Sent \subseteq Sent'
    BY <1>5 DEF Settle, Sent, TypeOK
  <2>2. <<Frame("draining", None, None)>> \in Seq(SentFrames')
    BY DEF Frame, Frames, SentFrames
  <2> QED  BY <1>5, <2>1, <2>2, SentGrows DEF Settle, SentInv
<1>6. CASE Rest
  BY <1>6 DEF Rest, vars, SentInv, Sent, SentFrames
<1>7. CASE UNCHANGED vars
  BY <1>7 DEF vars, SentInv, Sent, SentFrames
<1> QED  BY <1>1, <1>2, <1>3, <1>4, <1>5, <1>6, <1>7 DEF Next

\* What a call that was not there yet does to the stack.
LEMMA EnqueuePushes ==
  ASSUME TypeOK, SentInv, NEW t \in Trigger, Enqueue(t)
  PROVE  \/ /\ HasRoom
            /\ queue' = Append(queue, t)
            /\ stack' = Append(stack, Frame("starting", t, None))
         \/ /\ ~HasRoom
            /\ \/ /\ queue # <<>> /\ queue' = Tail(queue)
                  /\ Head(queue) \in Trigger /\ Head(queue) # t
                  /\ stack' = Append(stack, Frame("refusing", t, Head(queue)))
               \/ /\ queue' = queue
                  /\ stack' = Append(stack, Frame("refusing", t, t))
<1>1. outcome[t] = "unsent"
  BY DEF Enqueue
<1>2. queue # <<>> => Head(queue) \in Sent
  BY HeadTailProperties DEF SentInv
<1> QED  BY <1>1, <1>2 DEF Enqueue, Accept, Overflow, Sent

LEMMA DrainInductive ==
  ASSUME NobodyStrandedInv, [Next]_vars
  PROVE  DrainInv' /\ StartInv'
<1> USE DEF NobodyStrandedInv
<1> DEFINE n == Len(stack)
<1>0. n \in Nat /\ Len(queue) \in Nat
  BY QueueFacts DEF TypeOK
<1>1. ASSUME NEW t \in Trigger, Enqueue(t)
      PROVE  DrainInv' /\ StartInv'
  <2>1. running' = running /\ current' = current /\ MayCall
    BY <1>1 DEF Enqueue
  <2>2. /\ \A i \in 1 .. n : stack[i].pc # "draining"
        /\ ~At("draining")
    BY <2>1, StackTop DEF MayCall, At, DrainInv
  <2>3. running => current # None
    BY <2>2 DEF DrainInv
  <2>4. PICK f \in Frames : f.pc # "draining" /\ stack' = Append(stack, f)
    BY <1>1, EnqueuePushes DEF Frame, Frames
  <2>5. DrainInv'
    BY <2>1, <2>2, <2>3, <2>4, Pushed DEF DrainInv
  <2>6. ASSUME ~running
        PROVE  /\ queue' # <<>> => \E i \in 1 .. Len(stack') : IsStarting(stack'[i])
               /\ \A i \in 1 .. Len(stack') : IsStarting(stack'[i]) =>
                    queue' # <<>> \/ \E j \in 1 .. Len(stack') :
                                         i < j /\ WillPush(stack'[j])
    <3>1. CASE /\ queue' = Append(queue, t)
               /\ stack' = Append(stack, Frame("starting", t, None))
      <4>1. Frame("starting", t, None) \in Frames
        BY DEF Frame, Frames
      <4>2. queue' # <<>>
        <5>1. queue \in Seq(Trigger) /\ t \in Trigger
          BY <1>1 DEF TypeOK
        <5>2. Append(queue, t) # <<>>
          BY <5>1, AppendProperties
        <5> QED  BY <3>1, <5>2
      <4>3. Len(stack') = n + 1 /\ IsStarting(stack'[n + 1])
        BY <3>1, <4>1, Pushed DEF IsStarting, Frame
      <4> HIDE DEF n
      <4> QED  BY <1>0, <4>2, <4>3
    <3>2. ASSUME ~HasRoom
          PROVE  queue # <<>> /\ \E i \in 1 .. n : IsStarting(stack[i])
      BY <2>6, <3>2 DEF HasRoom, Idle, StartInv
    <3>3. CASE /\ ~HasRoom
               /\ Head(queue) \in Trigger /\ Head(queue) # t
               /\ stack' = Append(stack, Frame("refusing", t, Head(queue)))
      <4>1. Frame("refusing", t, Head(queue)) \in Frames
        BY <1>1, <3>3 DEF Frame, Frames
      <4>2. /\ Len(stack') = n + 1
            /\ WillPush(stack'[n + 1]) /\ ~IsStarting(stack'[n + 1])
        BY <3>3, <4>1, Pushed DEF WillPush, IsStarting, Frame
      <4>3. \A i \in 1 .. n : stack'[i] = stack[i]
        BY <3>3, <4>1, Pushed
      <4> HIDE DEF n
      <4>4. PICK i \in 1 .. n : IsStarting(stack[i])
        BY <3>2, <3>3
      <4>5. i \in 1 .. n + 1 /\ IsStarting(stack'[i])
        BY <1>0, <4>3, <4>4
      <4>6. ASSUME NEW k \in 1 .. n + 1, IsStarting(stack'[k])
            PROVE  n + 1 \in 1 .. n + 1 /\ k < n + 1
        <5>1. k # n + 1
          BY <4>2, <4>6
        <5> QED  BY <1>0, <5>1
      <4> QED  BY <4>2, <4>5, <4>6
    <3>4. CASE /\ ~HasRoom
               /\ queue' = queue
               /\ stack' = Append(stack, Frame("refusing", t, t))
      <4>1. Frame("refusing", t, t) \in Frames
        BY <1>1 DEF Frame, Frames
      <4>2. Len(stack') = n + 1 /\ \A i \in 1 .. n : stack'[i] = stack[i]
        BY <3>4, <4>1, Pushed
      <4> HIDE DEF n
      <4>3. PICK i \in 1 .. n : IsStarting(stack[i])
        BY <3>2, <3>4
      <4>4. i \in 1 .. n + 1 /\ IsStarting(stack'[i])
        BY <1>0, <4>2, <4>3
      <4> QED  BY <3>2, <3>4, <4>2, <4>4
    <3> QED  BY <1>1, <3>1, <3>3, <3>4, EnqueuePushes
  <2> QED  BY <2>1, <2>5, <2>6 DEF StartInv
<1>2. CASE Refuse
  <2>1. /\ running' = running /\ current' = current
        /\ stack # <<>> /\ Top.pc = "refusing"
    BY <1>2 DEF Refuse, At
  <2>2. n >= 1 /\ stack[n].pc = "refusing" /\ Top = stack[n]
    BY <2>1, StackTop
  <2>3. \A i \in 1 .. n : stack[i].pc # "draining"
    BY <2>2 DEF DrainInv
  <2>4. running => current # None
    BY <2>1 DEF DrainInv, At
  <2>5. CASE Top.victim = Top.trigger
    <3>1. queue' = queue /\ stack' = Below
      BY <1>2, <2>5 DEF Refuse
    <3>2. Len(stack') = n - 1 /\ \A i \in 1 .. n - 1 : stack'[i] = stack[i]
      BY <2>1, <3>1, Popped
    <3>3. ~IsStarting(stack[n]) /\ ~WillPush(stack[n])
      BY <2>2, <2>5 DEF IsStarting, WillPush
    <3> HIDE DEF n
    <3>4. \A i \in 1 .. n - 1 : i \in 1 .. n /\ stack'[i].pc # "draining"
      BY <1>0, <2>3, <3>2
    <3>5. DrainInv'
      BY <2>1, <2>4, <3>2, <3>4 DEF DrainInv
    <3>6. \A i \in 1 .. n : i # n => i \in 1 .. n - 1
      BY <1>0
    <3>7. StartInv'
      BY <2>1, <3>1, <3>2, <3>3, <3>4, <3>6 DEF StartInv, n
    <3> QED  BY <3>5, <3>7
  <2>6. CASE Top.victim # Top.trigger
    <3>1. /\ queue' = Append(queue, Top.trigger)
          /\ stack' = Append(Below, Frame("starting", Top.trigger, None))
      BY <1>2, <2>6 DEF Refuse
    <3>2. Top.trigger \in Trigger
      BY <2>1, StackTop DEF Frames
    <3>3. Frame("starting", Top.trigger, None) \in Frames
      BY <3>2 DEF Frame, Frames
    <3>4. /\ Len(stack') = n
          /\ stack'[n] = Frame("starting", Top.trigger, None)
          /\ \A i \in 1 .. n - 1 : stack'[i] = stack[i]
      BY <2>1, <3>1, <3>3, Replaced
    <3>5. queue' # <<>>
      <4>1. queue \in Seq(Trigger)
        BY DEF TypeOK
      <4>2. Append(queue, Top.trigger) # <<>>
        BY <3>2, <4>1, AppendProperties
      <4> QED  BY <3>1, <4>2
    <3>6. stack'[n].pc = "starting"
      BY <3>4 DEF Frame
    <3> HIDE DEF n
    <3>7. \A i \in 1 .. n : stack'[i].pc # "draining"
      <4>1. \A i \in 1 .. n : i = n \/ i \in 1 .. n - 1
        BY <1>0
      <4> QED  BY <2>3, <3>4, <3>6, <4>1
    <3>8. DrainInv'
      BY <2>1, <2>4, <3>4, <3>7 DEF DrainInv
    <3>9. n \in 1 .. n
      BY <1>0, <2>2
    <3>10. StartInv'
      BY <3>4, <3>5, <3>6, <3>9 DEF StartInv, IsStarting
    <3> QED  BY <3>8, <3>10
  <2> QED  BY <2>5, <2>6
<1>3. CASE Start
  <2>1. /\ running' /\ current' = current /\ queue' = queue
        /\ stack # <<>> /\ Top.pc = "starting"
    BY <1>3 DEF Start, At
  <2>2. n >= 1 /\ stack[n].pc = "starting"
    BY <2>1, StackTop
  <2>3. \A i \in 1 .. n : stack[i].pc # "draining"
    BY <2>2 DEF DrainInv
  <2>4. StartInv'
    BY <2>1 DEF StartInv
  <2>5. CASE running
    <3>1. Len(stack') = n - 1 /\ \A i \in 1 .. n - 1 : stack'[i] = stack[i]
      BY <1>3, <2>1, <2>5, Popped DEF Start
    <3>2. current # None
      BY <2>1, <2>5 DEF DrainInv, At
    <3> HIDE DEF n
    <3>3. \A i \in 1 .. n - 1 : stack'[i].pc # "draining"
      BY <1>0, <2>3, <3>1
    <3> QED  BY <2>1, <2>4, <3>1, <3>2, <3>3 DEF DrainInv
  <2>6. CASE ~running
    <3>1. stack' = Append(Below, Frame("draining", None, None))
      BY <1>3, <2>6 DEF Start
    <3>2. Frame("draining", None, None) \in Frames
      BY DEF Frame, Frames
    <3>3. /\ Len(stack') = n /\ stack' # <<>>
          /\ Top' = Frame("draining", None, None)
          /\ \A i \in 1 .. n - 1 : stack'[i] = stack[i]
      BY <2>1, <3>1, <3>2, Replaced
    <3>4. current = None
      BY <2>6 DEF DrainInv
    <3>5. queue # <<>>
      BY <1>0, <2>2, <2>6 DEF StartInv, IsStarting
    <3> HIDE DEF n
    <3>6. \A i \in 1 .. n : stack'[i].pc = "draining" => i = n
      <4>1. \A i \in 1 .. n : i = n \/ i \in 1 .. n - 1
        BY <1>0
      <4> QED  BY <2>3, <3>3, <4>1
    <3>7. At("draining")'
      BY <3>3 DEF At, Frame
    <3> QED  BY <2>1, <2>4, <3>3, <3>4, <3>5, <3>6, <3>7 DEF DrainInv
  <2> QED  BY <2>5, <2>6
<1>4. CASE Drain
  <2>1. stack # <<>> /\ Top.pc = "draining" /\ stack' = Below
    BY <1>4 DEF Drain, At
  <2>2. n >= 1 /\ stack[n].pc = "draining"
    BY <2>1, StackTop
  <2>3. Len(stack') = n - 1 /\ \A i \in 1 .. n - 1 : stack'[i] = stack[i]
    BY <2>1, Popped
  <2>4. /\ running /\ current = None
        /\ queue # <<>> \/ n = 1
        /\ \A i \in 1 .. n : stack[i].pc = "draining" => i = n
    <3>1. n \in 1 .. n
      BY <1>0, <2>2
    <3> HIDE DEF n
    <3>2. \A i \in 1 .. n : stack[i].pc = "draining" =>
            /\ i = n /\ running /\ current = None
            /\ queue # <<>> \/ i = 1
      BY DEF DrainInv, n
    <3> QED  BY <2>2, <3>1, <3>2
  <2> HIDE DEF n
  <2>5. \A i \in 1 .. n - 1 : i \in 1 .. n /\ i # n
    BY <1>0
  <2>6. \A i \in 1 .. n - 1 : stack'[i].pc # "draining"
    BY <2>3, <2>4, <2>5
  <2>7. CASE queue # <<>>
    <3>1. running' = running /\ current' = Head(queue)
      BY <1>4, <2>7 DEF Drain
    <3>2. current' # None
      BY <2>7, <3>1, QueueFacts, NoneAssumption
    <3> QED  BY <2>3, <2>4, <2>6, <3>1, <3>2 DEF DrainInv, StartInv
  <2>8. CASE queue = <<>>
    <3>1. ~running' /\ current' = current /\ queue' = queue
      BY <1>4, <2>8 DEF Drain
    <3>2. \A i \in 1 .. Len(stack') : FALSE
      BY <2>3, <2>4, <2>8
    <3> QED  BY <2>4, <2>8, <3>1, <3>2 DEF DrainInv, StartInv
  <2> QED  BY <2>7, <2>8
<1>5. ASSUME NEW result \in {"resolved", "rejected"}, Settle(result)
      PROVE  DrainInv' /\ StartInv'
  <2>1. /\ running' /\ current' = None
        /\ stack' = <<Frame("draining", None, None)>>
    BY <1>5 DEF Settle, DrainInv
  <2>2. Len(stack') = 1 /\ stack'[1] = Frame("draining", None, None)
    BY <2>1
  <2>3. At("draining")'
    BY <2>1, <2>2 DEF At, Top, Frame
  <2> QED  BY <2>1, <2>2, <2>3 DEF DrainInv, StartInv
<1>6. CASE Rest
  BY <1>6 DEF Rest, vars, DrainInv, StartInv, At, Top
<1>7. CASE UNCHANGED vars
  BY <1>7 DEF vars, DrainInv, StartInv, At, Top
<1> QED  BY <1>1, <1>2, <1>3, <1>4, <1>5, <1>6, <1>7 DEF Next

THEOREM NobodyStranded == Spec => []NobodyStrandedInv
<1>1. Init => SentInv /\ DrainInv /\ StartInv
  <2> SUFFICES ASSUME Init PROVE SentInv /\ DrainInv /\ StartInv
    OBVIOUS
  <2>1. SentInv
    BY EmptySeq DEF Init, SentInv
  <2>2. ~running /\ current = None /\ queue = <<>> /\ stack = <<>>
    BY DEF Init
  <2> QED  BY <2>1, <2>2 DEF DrainInv, StartInv
<1>2. NobodyStrandedInv /\ TypeOK' /\ [Next]_vars => NobodyStrandedInv'
  BY SentInductive, DrainInductive DEF NobodyStrandedInv
<1>3. TypeOK /\ SentInv /\ DrainInv /\ StartInv <=> NobodyStrandedInv
  BY DEF NobodyStrandedInv
<1> QED  BY <1>1, <1>2, <1>3, TypeCorrect, PTL DEF Spec

(***************************************************************************)
(* Between two synchronous stretches an inbox that is not running is empty *)
(* and a running one has a turn in hand, however the telemetry sinks call  *)
(* send() inside the reports: no trigger waits on a drain nobody started.  *)
(***************************************************************************)
THEOREM NobodyIsStranded == Spec => []NoStrandedTrigger
<1>1. NobodyStrandedInv => NoStrandedTrigger
  <2> SUFFICES ASSUME NobodyStrandedInv, stack = <<>>
               PROVE  /\ running <=> current # None
                      /\ ~running => queue = <<>>
    BY DEF NoStrandedTrigger
  <2>1. running <=> current # None
    BY DEF NobodyStrandedInv, DrainInv, At
  <2>2. \A i \in 1 .. Len(stack) : FALSE
    OBVIOUS
  <2>3. ~running => queue = <<>>
    BY <2>2 DEF NobodyStrandedInv, StartInv
  <2> QED  BY <2>1, <2>3
<1> QED  BY <1>1, NobodyStranded, PTL

(***************************************************************************)
(* "The first shift always finds something": a call about to start the     *)
(* drain has a trigger to start it with, nested refusals included.         *)
(***************************************************************************)
THEOREM TheFirstShiftFindsWork == Spec => []FirstShiftFindsWork
<1>1. NobodyStrandedInv => FirstShiftFindsWork
  <2> SUFFICES ASSUME NobodyStrandedInv, At("starting"), ~running
               PROVE  queue # <<>>
    BY DEF FirstShiftFindsWork
  <2>1. Len(stack) \in Nat /\ Len(stack) >= 1 /\ stack[Len(stack)].pc = "starting"
    BY StackTop DEF NobodyStrandedInv, At
  <2>2. \A j \in 1 .. Len(stack) : ~(Len(stack) < j)
    BY <2>1
  <2>3. Len(stack) \in 1 .. Len(stack)
    BY <2>1
  <2> QED  BY <2>1, <2>2, <2>3 DEF NobodyStrandedInv, StartInv, IsStarting
<1> QED  BY <1>1, NobodyStranded, PTL

-----------------------------------------------------------------------------
(***************************************************************************)
(* Capacity and order, with telemetry sinks that only observe: a call is   *)
(* then never made inside another.                                         *)
(***************************************************************************)

CapacityInv ==
  /\ Len(stack) <= 1
  /\ stack = <<>> => Len(queue) <= config.capacity
  /\ At("refusing") =>
       /\ running
       /\ IF Top.victim = Top.trigger THEN Len(queue) <= config.capacity
                                      ELSE Len(queue) + 1 <= config.capacity
  /\ At("starting") =>
       IF running THEN Len(queue) <= config.capacity ELSE Len(queue) = 1
  /\ At("draining") => Len(queue) <= config.capacity \/ Len(queue) = 1

\* The triggers of a sequence were called in its order.
Ordered(at, s) == \A i, j \in 1 .. Len(s) : i < j => at[s[i]] < at[s[j]]

\* Every trigger of a sequence was called before t.
AllBefore(at, s, t) == \A i \in 1 .. Len(s) : at[s[i]] < at[t]

\* The line, from those that started over those that wait to the newcomer
\* that is not pushed yet, is in the order of the calls.
OrderInv ==
  /\ \A t \in Trigger : calledAt[t] <= calls
  /\ Ordered(calledAt, started)
  /\ Ordered(calledAt, queue)
  /\ \A i \in 1 .. Len(queue) : AllBefore(calledAt, started, queue[i])
  /\ At("refusing") => /\ AllBefore(calledAt, started, Top.trigger)
                       /\ AllBefore(calledAt, queue, Top.trigger)

LEMMA NoCallInside ==
  ASSUME TypeOK, CapacityInv, stack # <<>>
  PROVE  Len(stack) = 1 /\ Below = <<>>
<1>1. Len(stack) = 1
  <2>1. Len(stack) \in Nat /\ Len(stack) >= 1
    BY StackTop
  <2>2. Len(stack) <= 1
    BY DEF CapacityInv
  <2> QED  BY <2>1, <2>2
<1>2. Below \in Seq(Frames) /\ Len(Below) = Len(stack) - 1
  BY TopAndBelow DEF TypeOK, Below
<1>3. Len(Below) = 0
  BY <1>1, <1>2
<1> QED  BY <1>1, <1>2, <1>3, EmptySeq

LEMMA CapacityInductive ==
  ASSUME SinksMaySend = FALSE, NobodyStrandedInv, CapacityInv, [Next]_vars
  PROVE  CapacityInv'
<1>0. /\ config.capacity \in Nat /\ Len(queue) \in Nat
      /\ queue \in Seq(Trigger)
  <2>1. config \in Configs /\ queue \in Seq(Trigger)
    BY DEF NobodyStrandedInv, TypeOK
  <2>2. config.capacity \in Capacities
    BY <2>1 DEF Configs
  <2>3. config.capacity \in Nat
    BY <2>2, CapacitiesAssumption
  <2>4. Len(queue) \in Nat
    BY <2>1
  <2> QED  BY <2>1, <2>3, <2>4
<1>1. ASSUME NEW t \in Trigger, Enqueue(t)
      PROVE  CapacityInv'
  <2>1. /\ stack = <<>> /\ config' = config /\ running' = running
    BY <1>1 DEF Enqueue, MayCall
  <2>2. ~running => queue = <<>>
    BY <2>1 DEF NobodyStrandedInv, StartInv
  <2>3. Len(queue) <= config.capacity
    BY <2>1 DEF CapacityInv
  <2>4. CASE /\ HasRoom
             /\ queue' = Append(queue, t)
             /\ stack' = Append(stack, Frame("starting", t, None))
    <3>1. Len(queue') = Len(queue) + 1
      BY <1>0, <2>4
    <3>2. /\ stack' # <<>> /\ Len(stack') = 1
          /\ Top'.pc = "starting"
      BY <2>1, <2>4 DEF Top, Frame
    <3>3. IF running THEN Len(queue') <= config.capacity ELSE Len(queue') = 1
      BY <1>0, <2>2, <2>4, <3>1 DEF HasRoom, Idle
    <3> QED  BY <2>1, <3>2, <3>3 DEF CapacityInv, At
  <2>5. ASSUME ~HasRoom
        PROVE  running
    BY <2>2, <2>5 DEF HasRoom, Idle
  <2>6. CASE /\ ~HasRoom
             /\ queue # <<>> /\ queue' = Tail(queue) /\ Head(queue) # t
             /\ stack' = Append(stack, Frame("refusing", t, Head(queue)))
    <3>1. Len(queue') = Len(queue) - 1
      BY <1>0, <2>6
    <3>2. /\ stack' # <<>> /\ Len(stack') = 1
          /\ Top'.pc = "refusing" /\ Top'.victim # Top'.trigger
      BY <2>1, <2>6 DEF Top, Frame
    <3>3. Len(queue') + 1 <= config.capacity
      BY <1>0, <2>3, <3>1
    <3> QED  BY <2>1, <2>5, <2>6, <3>2, <3>3 DEF CapacityInv, At
  <2>7. CASE /\ ~HasRoom
             /\ queue' = queue
             /\ stack' = Append(stack, Frame("refusing", t, t))
    <3>1. /\ stack' # <<>> /\ Len(stack') = 1
          /\ Top'.pc = "refusing" /\ Top'.victim = Top'.trigger
      BY <2>1, <2>7 DEF Top, Frame
    <3> QED  BY <2>1, <2>3, <2>5, <2>7, <3>1 DEF CapacityInv, At
  <2>8. TypeOK /\ SentInv
    BY DEF NobodyStrandedInv
  <2> QED  BY <1>1, <2>4, <2>6, <2>7, <2>8, EnqueuePushes
<1>2. ASSUME stack # <<>>
      PROVE  Len(stack) = 1 /\ Below = <<>>
  BY <1>2, NoCallInside DEF NobodyStrandedInv
<1>3. CASE Refuse
  <2>1. /\ Below = <<>> /\ config' = config /\ running' = running
        /\ At("refusing")
    BY <1>2, <1>3 DEF Refuse, At
  <2>2. CASE Top.victim = Top.trigger
    BY <1>3, <2>1, <2>2 DEF Refuse, CapacityInv, At
  <2>3. CASE Top.victim # Top.trigger
    <3>1. queue' = Append(queue, Top.trigger)
      BY <1>3, <2>3 DEF Refuse
    <3>2. Len(queue') = Len(queue) + 1
      BY <1>0, <3>1
    <3>3. stack' = <<Frame("starting", Top.trigger, None)>>
      BY <1>3, <2>1, <2>3 DEF Refuse
    <3>4. stack' # <<>> /\ Len(stack') = 1 /\ Top'.pc = "starting"
      BY <3>3 DEF Top, Frame
    <3>5. running' /\ Len(queue') <= config.capacity
      BY <2>1, <2>3, <3>2 DEF CapacityInv
    <3> QED  BY <2>1, <3>4, <3>5 DEF CapacityInv, At
  <2> QED  BY <2>2, <2>3
<1>4. CASE Start
  <2>1. /\ Below = <<>> /\ config' = config /\ queue' = queue
        /\ At("starting")
    BY <1>2, <1>4 DEF Start, At
  <2>2. CASE running
    BY <1>4, <2>1, <2>2 DEF Start, CapacityInv, At
  <2>3. CASE ~running
    <3>1. stack' = <<Frame("draining", None, None)>>
      BY <1>4, <2>1, <2>3 DEF Start
    <3>2. stack' # <<>> /\ Len(stack') = 1 /\ Top'.pc = "draining"
      BY <3>1 DEF Top, Frame
    <3> QED  BY <2>1, <2>3, <3>2 DEF CapacityInv, At
  <2> QED  BY <2>2, <2>3
<1>5. CASE Drain
  <2>1. /\ stack' = <<>> /\ config' = config /\ At("draining")
    BY <1>2, <1>5 DEF Drain, At
  <2>2. Len(queue) <= config.capacity \/ Len(queue) = 1
    BY <2>1 DEF CapacityInv
  <2>3. CASE queue # <<>>
    <3>1. Len(queue') = Len(queue) - 1
      BY <1>0, <1>5, <2>3 DEF Drain
    <3> QED  BY <1>0, <2>1, <2>2, <3>1 DEF CapacityInv, At
  <2>4. CASE queue = <<>>
    <3>1. Len(queue') = 0
      BY <1>5, <2>4 DEF Drain
    <3> QED  BY <1>0, <2>1, <3>1 DEF CapacityInv, At
  <2> QED  BY <2>3, <2>4
<1>6. ASSUME NEW result \in {"resolved", "rejected"}, Settle(result)
      PROVE  CapacityInv'
  <2>1. /\ stack = <<>> /\ config' = config /\ queue' = queue
        /\ stack' = <<Frame("draining", None, None)>>
    BY <1>6 DEF Settle
  <2>2. stack' # <<>> /\ Len(stack') = 1 /\ Top'.pc = "draining"
    BY <2>1 DEF Top, Frame
  <2> QED  BY <2>1, <2>2 DEF CapacityInv, At
<1>7. CASE Rest
  BY <1>7 DEF Rest, vars, CapacityInv, At, Top
<1>8. CASE UNCHANGED vars
  BY <1>8 DEF vars, CapacityInv, At, Top
<1> QED  BY <1>1, <1>3, <1>4, <1>5, <1>6, <1>7, <1>8 DEF Next

(***************************************************************************)
(* Capacity bounds the backlog between two synchronous stretches, for any  *)
(* capacity and policy, as long as no telemetry sink calls send().         *)
(***************************************************************************)
THEOREM CapacityIsKept ==
  ASSUME SinksMaySend = FALSE
  PROVE  Spec => []CapacityBound
<1>1. Init => CapacityInv
  <2> SUFFICES ASSUME Init PROVE CapacityInv
    OBVIOUS
  <2>1. config.capacity \in Nat /\ stack = <<>> /\ queue = <<>>
    BY CapacitiesAssumption DEF Init, Configs
  <2> QED  BY <2>1 DEF CapacityInv, At
<1>2. NobodyStrandedInv /\ CapacityInv /\ [Next]_vars => CapacityInv'
  BY CapacityInductive
<1>3. CapacityInv => CapacityBound
  BY DEF CapacityInv, CapacityBound
<1> QED  BY <1>1, <1>2, <1>3, NobodyStranded, PTL DEF Spec

-----------------------------------------------------------------------------

\* Appending keeps a sequence ordered when the new trigger was called last.
LEMMA OrderedAppend ==
  ASSUME NEW S, NEW at \in [S -> Nat], NEW s \in Seq(S), NEW t \in S,
         Ordered(at, s), AllBefore(at, s, t)
  PROVE  Ordered(at, Append(s, t))
<1> DEFINE n == Len(s)
<1>1. n \in Nat
  OBVIOUS
<1>2. /\ Len(Append(s, t)) = n + 1
      /\ Append(s, t)[n + 1] = t
      /\ \A i \in 1 .. n : Append(s, t)[i] = s[i]
  BY AppendProperties
<1> HIDE DEF n
<1>3. ASSUME NEW i \in 1 .. n + 1, NEW j \in 1 .. n + 1, i < j
      PROVE  at[Append(s, t)[i]] < at[Append(s, t)[j]]
  <2>1. i \in 1 .. n /\ (j \in 1 .. n \/ j = n + 1)
    BY <1>1, <1>3
  <2>2. CASE j \in 1 .. n
    BY <1>2, <1>3, <2>1, <2>2 DEF Ordered, n
  <2>3. CASE j = n + 1
    BY <1>2, <2>1, <2>3 DEF AllBefore, n
  <2> QED  BY <2>1, <2>2, <2>3
<1> QED  BY <1>2, <1>3 DEF Ordered

\* The first of an ordered sequence goes: what is left is ordered, and comes
\* after it.
LEMMA OrderedTail ==
  ASSUME NEW S, NEW at \in [S -> Nat], NEW s \in Seq(S), s # <<>>, Ordered(at, s)
  PROVE  /\ Tail(s) \in Seq(S)
         /\ Ordered(at, Tail(s))
         /\ s[1] = Head(s) /\ 1 \in 1 .. Len(s)
         /\ \A j \in 1 .. Len(Tail(s)) : /\ j + 1 \in 1 .. Len(s)
                                         /\ Tail(s)[j] = s[j + 1]
                                         /\ at[Head(s)] < at[Tail(s)[j]]
<1> DEFINE n == Len(s)
<1>1. n \in Nat /\ n >= 1
  BY EmptySeq
<1>2. /\ Tail(s) \in Seq(S) /\ Len(Tail(s)) = n - 1 /\ Head(s) = s[1]
      /\ \A j \in 1 .. Len(Tail(s)) : Tail(s)[j] = s[j + 1]
  BY HeadTailProperties
<1> HIDE DEF n
<1>3. \A j \in 1 .. n - 1 : j \in Nat /\ 1 < j + 1 /\ j + 1 \in 1 .. n
  BY <1>1
<1>4. 1 \in 1 .. n
  BY <1>1
<1>5. \A j \in 1 .. n - 1 : at[s[1]] < at[s[j + 1]]
  BY <1>3, <1>4 DEF Ordered, n
<1>6. \A i, j \in 1 .. n - 1 : i < j => at[s[i + 1]] < at[s[j + 1]]
  <2>1. \A i, j \in 1 .. n - 1 : i < j => i + 1 < j + 1
    BY <1>1
  <2> QED  BY <1>3, <2>1 DEF Ordered, n
<1>7. Ordered(at, Tail(s))
  BY <1>2, <1>6 DEF Ordered
<1> QED  BY <1>2, <1>3, <1>4, <1>5, <1>7 DEF n

\* A call gives its own trigger a position and moves no other.
LEMMA PositionsStay ==
  ASSUME TypeOK, SentInv, NEW t \in Trigger, Enqueue(t)
  PROVE  /\ calledAt' \in [Trigger -> Nat]
         /\ calledAt'[t] = calls + 1
         /\ \A u \in Trigger : u # t => calledAt'[u] = calledAt[u]
         /\ \A i \in 1 .. Len(queue) : queue[i] \in Trigger /\ queue[i] # t
         /\ \A i \in 1 .. Len(started) : started[i] \in Trigger /\ started[i] # t
<1>1. t \notin Sent /\ Sent \subseteq Trigger
  BY DEF Enqueue, Sent
<1>2. /\ \A i \in 1 .. Len(queue) : queue[i] \in Sent
      /\ \A i \in 1 .. Len(started) : started[i] \in Sent
  BY DEF SentInv
<1>3. /\ calledAt' \in [Trigger -> Nat] /\ calledAt'[t] = calls + 1
      /\ \A u \in Trigger : u # t => calledAt'[u] = calledAt[u]
  BY DEF Enqueue, TypeOK
<1> QED  BY <1>1, <1>2, <1>3

LEMMA OrderInductive ==
  ASSUME SinksMaySend = FALSE, NobodyStrandedInv, CapacityInv, OrderInv,
         TypeOK', [Next]_vars
  PROVE  OrderInv'
<1>0. /\ TypeOK /\ SentInv
      /\ calls \in Nat /\ calledAt \in [Trigger -> Nat]
      /\ queue \in Seq(Trigger) /\ started \in Seq(Trigger)
      /\ \A i \in 1 .. Len(queue) : queue[i] \in Trigger
      /\ \A i \in 1 .. Len(started) : started[i] \in Trigger
  BY DEF NobodyStrandedInv, TypeOK
<1>1. ASSUME NEW t \in Trigger, Enqueue(t)
      PROVE  OrderInv'
  <2>1. /\ calledAt' \in [Trigger -> Nat]
        /\ calledAt'[t] = calls + 1
        /\ \A u \in Trigger : u # t => calledAt'[u] = calledAt[u]
        /\ \A i \in 1 .. Len(queue) : queue[i] \in Trigger /\ queue[i] # t
        /\ \A i \in 1 .. Len(started) : started[i] \in Trigger /\ started[i] # t
    BY <1>0, <1>1, PositionsStay
  <2>2. /\ stack = <<>> /\ started' = started /\ calls' = calls + 1
    BY <1>1 DEF Enqueue, MayCall
  <2>3. \A u \in Trigger : calledAt'[u] <= calls'
    <3>1. \A u \in Trigger : calledAt[u] \in Nat /\ calledAt[u] <= calls
      BY <1>0 DEF OrderInv
    <3>2. \A u \in Trigger : u # t => calledAt'[u] <= calls + 1
      BY <1>0, <2>1, <3>1
    <3>3. calledAt'[t] <= calls + 1
      BY <1>0, <2>1
    <3> QED  BY <2>2, <3>2, <3>3
  <2>4. Ordered(calledAt', started) /\ Ordered(calledAt', queue)
    BY <2>1 DEF OrderInv, Ordered
  <2>5. AllBefore(calledAt', started, t) /\ AllBefore(calledAt', queue, t)
    <3>1. \A u \in Trigger : u # t => calledAt'[u] \in Nat /\ calledAt'[u] <= calls
      BY <1>0, <2>1 DEF OrderInv
    <3>2. \A u \in Trigger : u # t => calledAt'[u] < calledAt'[t]
      BY <1>0, <2>1, <3>1
    <3> QED  BY <2>1, <3>2 DEF AllBefore
  <2>6. \A i \in 1 .. Len(queue) : AllBefore(calledAt', started, queue[i])
    BY <2>1 DEF OrderInv, AllBefore
  <2>7. CASE /\ queue' = Append(queue, t)
             /\ stack' = Append(stack, Frame("starting", t, None))
    <3>1. Ordered(calledAt', queue')
      BY <1>0, <2>1, <2>4, <2>5, <2>7, OrderedAppend
    <3>2. \A i \in 1 .. Len(queue') : AllBefore(calledAt', started, queue'[i])
      <4> DEFINE n == Len(queue)
      <4>1. /\ n \in Nat
            /\ Len(queue') = n + 1
            /\ queue'[n + 1] = t
            /\ \A i \in 1 .. n : queue'[i] = queue[i]
        BY <1>0, <2>7, AppendProperties
      <4> HIDE DEF n
      <4>2. \A i \in 1 .. n + 1 : i \in 1 .. n \/ i = n + 1
        BY <4>1
      <4> QED  BY <2>5, <2>6, <4>1, <4>2 DEF n
    <3>3. ~At("refusing")'
      BY <2>2, <2>7 DEF At, Top, Frame
    <3> QED  BY <2>2, <2>3, <2>4, <3>1, <3>2, <3>3 DEF OrderInv
  <2>8. CASE /\ queue # <<>> /\ queue' = Tail(queue)
             /\ stack' = Append(stack, Frame("refusing", t, Head(queue)))
    <3>1. /\ Ordered(calledAt', queue')
          /\ \A j \in 1 .. Len(queue') : /\ j + 1 \in 1 .. Len(queue)
                                         /\ queue'[j] = queue[j + 1]
      BY <1>0, <2>1, <2>4, <2>8, OrderedTail
    <3>2. \A i \in 1 .. Len(queue') : AllBefore(calledAt', started, queue'[i])
      BY <2>6, <3>1
    <3>3. AllBefore(calledAt', queue', t)
      BY <2>5, <3>1 DEF AllBefore
    <3>4. Top'.trigger = t
      BY <2>2, <2>8 DEF Top, Frame
    <3> QED  BY <2>2, <2>3, <2>4, <2>5, <3>1, <3>2, <3>3, <3>4 DEF OrderInv
  <2>9. CASE /\ queue' = queue
             /\ stack' = Append(stack, Frame("refusing", t, t))
    <3>1. Top'.trigger = t
      BY <2>2, <2>9 DEF Top, Frame
    <3> QED  BY <2>2, <2>3, <2>4, <2>5, <2>6, <2>9, <3>1 DEF OrderInv
  <2> QED  BY <1>0, <1>1, <2>7, <2>8, <2>9, EnqueuePushes
<1>2. ASSUME stack # <<>>
      PROVE  Below = <<>> /\ Top \in Frames
  BY <1>0, <1>2, NoCallInside, StackTop
<1>3. CASE Refuse
  <2>1. /\ At("refusing") /\ Below = <<>>
        /\ started' = started /\ calls' = calls /\ calledAt' = calledAt
    BY <1>2, <1>3 DEF Refuse, At, history
  <2>2. CASE Top.victim = Top.trigger
    <3>1. queue' = queue /\ ~At("refusing")'
      BY <1>3, <2>1, <2>2 DEF Refuse, At
    <3> QED  BY <2>1, <3>1 DEF OrderInv
  <2>3. CASE Top.victim # Top.trigger
    <3>1. /\ queue' = Append(queue, Top.trigger)
          /\ stack' = <<Frame("starting", Top.trigger, None)>>
      BY <1>3, <2>1, <2>3 DEF Refuse
    <3>2. Top.trigger \in Trigger
      BY <1>2, <2>1 DEF At, Frames
    <3>3. /\ AllBefore(calledAt, started, Top.trigger)
          /\ AllBefore(calledAt, queue, Top.trigger)
      BY <2>1 DEF OrderInv
    <3>4. Ordered(calledAt, queue')
      BY <1>0, <3>1, <3>2, <3>3, OrderedAppend DEF OrderInv
    <3>5. \A i \in 1 .. Len(queue') : AllBefore(calledAt, started, queue'[i])
      <4> DEFINE n == Len(queue)
      <4>1. /\ n \in Nat
            /\ Len(queue') = n + 1
            /\ queue'[n + 1] = Top.trigger
            /\ \A i \in 1 .. n : queue'[i] = queue[i]
        BY <1>0, <3>1, <3>2, AppendProperties
      <4> HIDE DEF n
      <4>2. \A i \in 1 .. n + 1 : i \in 1 .. n \/ i = n + 1
        BY <4>1
      <4> QED  BY <3>3, <4>1, <4>2 DEF OrderInv, n
    <3>6. ~At("refusing")'
      BY <3>1 DEF At, Top, Frame
    <3> QED  BY <2>1, <3>4, <3>5, <3>6 DEF OrderInv
  <2> QED  BY <2>2, <2>3
<1>4. CASE Start
  <2>1. /\ At("starting") /\ Below = <<>> /\ queue' = queue
        /\ started' = started /\ calls' = calls /\ calledAt' = calledAt
    BY <1>2, <1>4 DEF Start, At, history
  <2>2. stack' = <<>> \/ stack' = <<Frame("draining", None, None)>>
    BY <1>4, <2>1 DEF Start
  <2>3. ~At("refusing")'
    BY <2>2 DEF At, Top, Frame
  <2> QED  BY <2>1, <2>3 DEF OrderInv
<1>5. CASE Drain
  <2>1. /\ stack' = <<>> /\ calls' = calls /\ calledAt' = calledAt
    BY <1>2, <1>5 DEF Drain, At, history
  <2>2. ~At("refusing")'
    BY <2>1 DEF At
  <2>3. CASE queue # <<>>
    <3>1. queue' = Tail(queue) /\ started' = Append(started, Head(queue))
      BY <1>5, <2>3 DEF Drain
    <3>2. /\ Ordered(calledAt, queue')
          /\ queue[1] = Head(queue) /\ 1 \in 1 .. Len(queue)
          /\ \A j \in 1 .. Len(queue') : /\ j + 1 \in 1 .. Len(queue)
                                         /\ queue'[j] = queue[j + 1]
                                         /\ calledAt[Head(queue)] < calledAt[queue'[j]]
      BY <1>0, <2>3, <3>1, OrderedTail DEF OrderInv
    <3>3. Head(queue) \in Trigger /\ AllBefore(calledAt, started, Head(queue))
      BY <1>0, <3>2 DEF OrderInv
    <3>4. Ordered(calledAt, started')
      BY <1>0, <3>1, <3>3, OrderedAppend DEF OrderInv
    <3>5. \A j \in 1 .. Len(queue') : AllBefore(calledAt, started', queue'[j])
      <4> DEFINE n == Len(started)
      <4>1. /\ n \in Nat
            /\ Len(started') = n + 1
            /\ started'[n + 1] = Head(queue)
            /\ \A i \in 1 .. n : started'[i] = started[i]
        BY <1>0, <3>1, <3>3, AppendProperties
      <4> HIDE DEF n
      <4>2. \A i \in 1 .. n + 1 : i \in 1 .. n \/ i = n + 1
        BY <4>1
      <4>3. \A j \in 1 .. Len(queue') : \A i \in 1 .. n :
              calledAt[started[i]] < calledAt[queue'[j]]
        BY <3>2 DEF OrderInv, AllBefore, n
      <4> QED  BY <3>2, <4>1, <4>2, <4>3 DEF AllBefore
    <3> QED  BY <2>1, <2>2, <3>2, <3>4, <3>5 DEF OrderInv
  <2>4. CASE queue = <<>>
    BY <1>5, <2>1, <2>2, <2>4 DEF Drain, OrderInv
  <2> QED  BY <2>3, <2>4
<1>6. ASSUME NEW result \in {"resolved", "rejected"}, Settle(result)
      PROVE  OrderInv'
  <2>1. /\ queue' = queue /\ started' = started
        /\ calls' = calls /\ calledAt' = calledAt
        /\ stack' = <<Frame("draining", None, None)>>
    BY <1>6 DEF Settle, history
  <2>2. ~At("refusing")'
    BY <2>1 DEF At, Top, Frame
  <2> QED  BY <2>1, <2>2 DEF OrderInv
<1>7. CASE Rest
  BY <1>7 DEF Rest, vars, OrderInv, At, Top
<1>8. CASE UNCHANGED vars
  BY <1>8 DEF vars, OrderInv, At, Top
<1> QED  BY <1>1, <1>3, <1>4, <1>5, <1>6, <1>7, <1>8 DEF Next

(***************************************************************************)
(* FIFO order is call order, whatever is refused in between, as long as no *)
(* telemetry sink calls send().                                            *)
(***************************************************************************)
THEOREM CallOrderIsKept ==
  ASSUME SinksMaySend = FALSE
  PROVE  Spec => []HandledInCallOrder
<1>1. Init => CapacityInv /\ OrderInv
  <2> SUFFICES ASSUME Init PROVE CapacityInv /\ OrderInv
    OBVIOUS
  <2>1. /\ config.capacity \in Nat /\ stack = <<>> /\ queue = <<>>
        /\ started = <<>> /\ calls = 0 /\ \A t \in Trigger : calledAt[t] = 0
    BY CapacitiesAssumption DEF Init, Configs
  <2> QED  BY <2>1 DEF CapacityInv, OrderInv, Ordered, AllBefore, At
<1>2. NobodyStrandedInv /\ CapacityInv /\ [Next]_vars => CapacityInv'
  BY CapacityInductive
<1>3. NobodyStrandedInv /\ CapacityInv /\ OrderInv /\ TypeOK' /\ [Next]_vars
        => OrderInv'
  BY OrderInductive
<1>4. OrderInv => HandledInCallOrder
  BY DEF OrderInv, Ordered, HandledInCallOrder
<1> QED  BY <1>1, <1>2, <1>3, <1>4, NobodyStranded, TypeCorrect, PTL DEF Spec

-----------------------------------------------------------------------------
(* How many entries of a sequence are in a set.                            *)

At1(s, M) == {i \in 1 .. Len(s) : s[i] \in M}

Count(s, M) == Cardinality(At1(s, M))

LEMMA CountType ==
  ASSUME NEW S, NEW s \in Seq(S), NEW M
  PROVE  /\ IsFiniteSet(At1(s, M)) /\ Count(s, M) \in Nat
         /\ Count(s, M) = 0 <=> \A i \in 1 .. Len(s) : s[i] \notin M
<1>1. IsFiniteSet(1 .. Len(s))
  BY LenProperties, FS_Interval
<1>2. IsFiniteSet(At1(s, M))
  BY <1>1, FS_Subset DEF At1
<1>3. Count(s, M) \in Nat /\ (Count(s, M) = 0 <=> At1(s, M) = {})
  BY <1>2, FS_CardinalityType, FS_EmptySet DEF Count
<1> QED  BY <1>2, <1>3 DEF At1

LEMMA CountAppend ==
  ASSUME NEW S, NEW s \in Seq(S), NEW x \in S, NEW M
  PROVE  Count(Append(s, x), M) = Count(s, M) + IF x \in M THEN 1 ELSE 0
<1>1. /\ Len(s) \in Nat /\ Len(Append(s, x)) = Len(s) + 1
      /\ \A i \in 1 .. Len(s) : Append(s, x)[i] = s[i]
      /\ Append(s, x)[Len(s) + 1] = x
  BY LenProperties, AppendProperties
<1>2. IsFiniteSet(At1(s, M)) /\ Count(s, M) \in Nat
  BY CountType
<1>3. At1(Append(s, x), M) = IF x \in M THEN At1(s, M) \cup {Len(s) + 1}
                                       ELSE At1(s, M)
  BY <1>1 DEF At1
<1>4. Len(s) + 1 \notin At1(s, M)
  BY <1>1 DEF At1
<1>5. Cardinality(At1(s, M) \cup {Len(s) + 1}) = Cardinality(At1(s, M)) + 1
  BY <1>2, <1>4, FS_AddElement
<1>6. CASE x \in M
  BY <1>3, <1>5, <1>6 DEF Count
<1>7. CASE x \notin M
  <2>1. Count(Append(s, x), M) = Count(s, M)
    BY <1>3, <1>7 DEF Count
  <2> QED  BY <1>2, <1>7, <2>1
<1> QED  BY <1>6, <1>7

LEMMA CountTail ==
  ASSUME NEW S, NEW s \in Seq(S), s # <<>>, NEW M
  PROVE  Count(s, M) = Count(Tail(s), M) + IF Head(s) \in M THEN 1 ELSE 0
<1> DEFINE whole == At1(s, M)
           rest  == At1(Tail(s), M)
<1>1. /\ Len(s) \in Nat /\ Len(s) >= 1 /\ Tail(s) \in Seq(S)
      /\ Len(Tail(s)) = Len(s) - 1 /\ Head(s) = s[1]
      /\ \A i \in 1 .. Len(s) - 1 : Tail(s)[i] = s[i + 1]
  BY EmptySeq, LenProperties, HeadTailProperties
<1>2. /\ IsFiniteSet(whole) /\ IsFiniteSet(rest)
      /\ Cardinality(rest) \in Nat /\ Cardinality(whole) \in Nat
  BY <1>1, CountType DEF Count
<1>3. Cardinality(whole \ {1}) = Cardinality(rest)
  <2> DEFINE back == [i \in whole \ {1} |-> i - 1]
  <2>1. \A i \in whole \ {1} : i \in Nat /\ i - 1 \in rest
    BY <1>1 DEF At1
  <2>2. \A j \in rest : j \in Nat /\ j + 1 \in whole \ {1}
    BY <1>1 DEF At1
  <2> HIDE DEF whole, rest
  <2>3. back \in [whole \ {1} -> rest]
    BY <2>1
  <2>4. \A i, j \in whole \ {1} : back[i] = back[j] => i = j
    BY <2>1
  <2>5. \A j \in rest : \E i \in whole \ {1} : back[i] = j
    <3> SUFFICES ASSUME NEW j \in rest PROVE back[j + 1] = j
      BY <2>2
    <3> QED  BY <2>2
  <2> HIDE DEF back
  <2>6. back \in Bijection(whole \ {1}, rest)
    BY <2>3, <2>4, <2>5 DEF Bijection, Injection, Surjection, IsInjective
  <2>7. IsFiniteSet(whole \ {1})
    BY <1>2, FS_RemoveElement
  <2> QED  BY <2>6, <2>7, FS_Bijection DEF ExistsBijection
<1>4. 1 \in whole <=> Head(s) \in M
  BY <1>1 DEF At1
<1>5. Cardinality(whole \ {1}) = IF Head(s) \in M THEN Cardinality(whole) - 1
                                                 ELSE Cardinality(whole)
  BY <1>2, <1>4, FS_RemoveElement
<1> HIDE DEF whole, rest
<1>6. Cardinality(whole) = Cardinality(rest) + IF Head(s) \in M THEN 1 ELSE 0
  BY <1>2, <1>3, <1>5
<1> QED  BY <1>6 DEF Count, whole, rest

LEMMA TopOnBelow ==
  ASSUME TypeOK, stack # <<>>
  PROVE  /\ Below \in Seq(Frames) /\ Top \in Frames
         /\ stack = Append(Below, Top)
<1>1. /\ Below \in Seq(Frames) /\ Top \in Frames /\ stack \in Seq(Frames)
      /\ Len(stack) \in Nat /\ Len(stack) >= 1 /\ Len(Below) = Len(stack) - 1
      /\ \A i \in 1 .. Len(stack) - 1 : Below[i] = stack[i]
      /\ Top = stack[Len(stack)]
  BY TopAndBelow DEF TypeOK, Below, Top
<1>2. /\ Append(Below, Top) \in Seq(Frames) /\ Len(Append(Below, Top)) = Len(stack)
      /\ \A i \in 1 .. Len(stack) - 1 : Append(Below, Top)[i] = stack[i]
      /\ Append(Below, Top)[Len(stack)] = Top
  BY <1>1, AppendProperties
<1>3. \A i \in 1 .. Len(stack) : Append(Below, Top)[i] = stack[i]
  BY <1>1, <1>2
<1> QED  BY <1>1, <1>2, <1>3, SeqEqual

-----------------------------------------------------------------------------
(* Who is answered: every sender in one place until it is.                 *)

\* The calls in progress that hold a trigger's answer.
Holding(t) == {f \in Frames : HeldBy(f, t)}

LEMMA PlacesCounted ==
  ASSUME TypeOK, NEW t \in Trigger
  PROVE  /\ Count(queue, {t}) \in Nat /\ Count(stack, Holding(t)) \in Nat
         /\ Places(t) = Count(queue, {t}) + Count(stack, Holding(t))
                       + IF current = t THEN 1 ELSE 0
<1>1. queue \in Seq(Trigger) /\ stack \in Seq(Frames)
  BY DEF TypeOK
<1>2. Count(queue, {t}) \in Nat /\ Count(stack, Holding(t)) \in Nat
  BY <1>1, CountType
<1>3. {i \in 1 .. Len(queue) : queue[i] = t} = At1(queue, {t})
  BY DEF At1
<1>4. \A i \in 1 .. Len(stack) : stack[i] \in Frames
  BY <1>1
<1>5. {i \in 1 .. Len(stack) : HeldBy(stack[i], t)} = At1(stack, Holding(t))
  BY <1>4 DEF At1, Holding
<1> QED  BY <1>2, <1>3, <1>5 DEF Places, Count

LEMMA PlacesCountedNext ==
  ASSUME TypeOK', NEW t \in Trigger
  PROVE  Places(t)' = Count(queue', {t}) + Count(stack', Holding(t))
                        + IF current' = t THEN 1 ELSE 0
<1>1. stack' \in Seq(Frames)
  BY DEF TypeOK
<1>2. {i \in 1 .. Len(queue') : queue'[i] = t} = At1(queue', {t})
  BY DEF At1
<1>3. \A i \in 1 .. Len(stack') : stack'[i] \in Frames
  BY <1>1
<1>4. {i \in 1 .. Len(stack') : HeldBy(stack'[i], t)} = At1(stack', Holding(t))
  BY <1>3 DEF At1, Holding
<1> QED  BY <1>2, <1>4 DEF Places, Count

\* What each change of the stack does to the count of a trigger's holders.
LEMMA HoldersPushed ==
  ASSUME TypeOK, NEW f \in Frames, stack' = Append(stack, f), NEW t \in Trigger
  PROVE  Count(stack', Holding(t)) =
           Count(stack, Holding(t)) + IF HeldBy(f, t) THEN 1 ELSE 0
<1>1. f \in Holding(t) <=> HeldBy(f, t)
  BY DEF Holding
<1> HIDE DEF Holding
<1>2. Count(Append(stack, f), Holding(t)) =
        Count(stack, Holding(t)) + IF f \in Holding(t) THEN 1 ELSE 0
  BY CountAppend DEF TypeOK
<1> QED  BY <1>1, <1>2

LEMMA HoldersPopped ==
  ASSUME TypeOK, stack # <<>>, NEW t \in Trigger
  PROVE  /\ Count(Below, Holding(t)) \in Nat
         /\ Count(stack, Holding(t)) =
              Count(Below, Holding(t)) + IF HeldBy(Top, t) THEN 1 ELSE 0
<1>1. /\ Below \in Seq(Frames) /\ Top \in Frames
      /\ stack = Append(Below, Top)
  BY TopOnBelow
<1>2. Top \in Holding(t) <=> HeldBy(Top, t)
  BY <1>1 DEF Holding
<1> HIDE DEF Holding
<1>3. Count(Append(Below, Top), Holding(t)) =
        Count(Below, Holding(t)) + IF Top \in Holding(t) THEN 1 ELSE 0
  BY <1>1, CountAppend
<1> QED  BY <1>1, <1>2, <1>3, CountType

LEMMA HoldersReplaced ==
  ASSUME TypeOK, stack # <<>>, NEW f \in Frames, stack' = Append(Below, f),
         NEW t \in Trigger
  PROVE  Count(stack', Holding(t)) =
           Count(Below, Holding(t)) + IF HeldBy(f, t) THEN 1 ELSE 0
<1>1. f \in Holding(t) <=> HeldBy(f, t)
  BY DEF Holding
<1>2. Below \in Seq(Frames)
  BY TopOnBelow
<1> HIDE DEF Holding
<1>3. Count(Append(Below, f), Holding(t)) =
        Count(Below, Holding(t)) + IF f \in Holding(t) THEN 1 ELSE 0
  BY <1>2, CountAppend
<1> QED  BY <1>1, <1>3

\* The same for the queue.
LEMMA WaitingPushed ==
  ASSUME TypeOK, NEW u \in Trigger, queue' = Append(queue, u), NEW t \in Trigger
  PROVE  Count(queue', {t}) = Count(queue, {t}) + IF t = u THEN 1 ELSE 0
BY CountAppend DEF TypeOK

LEMMA WaitingShifted ==
  ASSUME TypeOK, queue # <<>>, queue' = Tail(queue), NEW t \in Trigger
  PROVE  /\ Count(queue', {t}) \in Nat
         /\ Count(queue, {t}) = Count(queue', {t}) + IF t = Head(queue) THEN 1 ELSE 0
<1>1. queue \in Seq(Trigger) /\ Tail(queue) \in Seq(Trigger)
  BY HeadTailProperties DEF TypeOK
<1>2. Count(Tail(queue), {t}) \in Nat
  BY <1>1, CountType
<1>3. Count(queue, {t}) = Count(Tail(queue), {t})
                            + IF Head(queue) \in {t} THEN 1 ELSE 0
  BY <1>1, CountTail
<1> QED  BY <1>2, <1>3

LEMMA AccountedInductive ==
  ASSUME NobodyStrandedInv, TypeOK', EverySenderAccountedFor, [Next]_vars
  PROVE  EverySenderAccountedFor'
<1> SUFFICES ASSUME NEW u \in Trigger
             PROVE  Places(u)' = IF outcome'[u] = "pending" THEN 1 ELSE 0
  BY DEF EverySenderAccountedFor
<1> DEFINE q == Count(queue, {u})
           h == Count(stack, Holding(u))
           one(P) == IF P THEN 1 ELSE 0
<1>0. TypeOK /\ SentInv /\ DrainInv
  BY DEF NobodyStrandedInv
<1>1. q \in Nat /\ h \in Nat
  BY <1>0, PlacesCounted
<1>2. q + h + one(current = u) = one(outcome[u] = "pending")
  BY <1>0, PlacesCounted DEF EverySenderAccountedFor
<1>3. Places(u)' = Count(queue', {u}) + Count(stack', Holding(u))
                     + one(current' = u)
  BY PlacesCountedNext
<1> SUFFICES Count(queue', {u}) + Count(stack', Holding(u)) + one(current' = u)
               = one(outcome'[u] = "pending")
  BY <1>3
<1>4. outcome \in [Trigger -> Outcomes] /\ None \notin Trigger
  BY <1>0, NoneAssumption DEF TypeOK
<1> HIDE DEF q, h
<1>5. ASSUME NEW t \in Trigger, Enqueue(t)
      PROVE  Count(queue', {u}) + Count(stack', Holding(u)) + one(current' = u)
               = one(outcome'[u] = "pending")
  <2>1. /\ outcome[t] = "unsent" /\ current' = current
        /\ outcome'[t] = "pending" /\ (u # t => outcome'[u] = outcome[u])
    BY <1>4, <1>5 DEF Enqueue
  <2>2. CASE queue' = Append(queue, t)
             /\ stack' = Append(stack, Frame("starting", t, None))
    <3>1. Frame("starting", t, None) \in Frames
          /\ ~HeldBy(Frame("starting", t, None), u)
      BY DEF Frame, Frames, HeldBy
    <3>2. Count(stack', Holding(u)) = h
      BY <1>0, <1>1, <2>2, <3>1, HoldersPushed DEF h
    <3>3. Count(queue', {u}) = q + one(u = t)
      BY <1>0, <2>2, WaitingPushed DEF q
    <3> QED  BY <1>1, <1>2, <2>1, <3>2, <3>3
  <2>3. CASE /\ queue # <<>> /\ queue' = Tail(queue)
             /\ Head(queue) \in Trigger /\ Head(queue) # t
             /\ stack' = Append(stack, Frame("refusing", t, Head(queue)))
    <3>1. /\ Frame("refusing", t, Head(queue)) \in Frames
          /\ HeldBy(Frame("refusing", t, Head(queue)), u)
               <=> u = t \/ u = Head(queue)
      BY <2>3 DEF Frame, Frames, HeldBy
    <3>2. Count(stack', Holding(u)) = h + one(u = t \/ u = Head(queue))
      BY <1>0, <1>1, <2>3, <3>1, HoldersPushed DEF h
    <3>3. /\ Count(queue', {u}) \in Nat
          /\ q = Count(queue', {u}) + one(u = Head(queue))
      BY <1>0, <2>3, WaitingShifted DEF q
    <3>4. CASE u = t
      BY <1>1, <1>2, <2>1, <2>3, <3>2, <3>3, <3>4
    <3>5. CASE u # t
      <4>1. outcome'[u] = outcome[u] /\ current' = current
        BY <2>1, <3>5
      <4>2. Count(queue', {u}) + Count(stack', Holding(u)) = q + h
        <5>1. CASE u = Head(queue)
          BY <1>1, <3>2, <3>3, <5>1
        <5>2. CASE u # Head(queue)
          BY <1>1, <3>2, <3>3, <3>5, <5>2
        <5> QED  BY <5>1, <5>2
      <4> QED  BY <1>2, <4>1, <4>2
    <3> QED  BY <3>4, <3>5
  <2>4. CASE queue' = queue /\ stack' = Append(stack, Frame("refusing", t, t))
    <3>1. /\ Frame("refusing", t, t) \in Frames
          /\ HeldBy(Frame("refusing", t, t), u) <=> u = t
      BY DEF Frame, Frames, HeldBy
    <3>2. Count(stack', Holding(u)) = h + one(u = t)
      BY <1>0, <1>1, <2>4, <3>1, HoldersPushed DEF h
    <3>3. Count(queue', {u}) = q
      BY <2>4 DEF q
    <3> QED  BY <1>1, <1>2, <2>1, <3>2, <3>3
  <2> QED  BY <1>0, <1>5, <2>2, <2>3, <2>4, EnqueuePushes
<1>6. CASE Refuse
  <2>1. /\ stack # <<>> /\ Top.pc = "refusing" /\ current' = current
        /\ outcome' = [outcome EXCEPT ![Top.victim] = RefusalCode]
    BY <1>6 DEF Refuse, At
  <2>2. Top.trigger \in Trigger /\ Top.victim \in Trigger
    BY <1>0, <2>1, TopOnBelow DEF Frames
  <2>3. outcome'[Top.victim] # "pending"
        /\ (u # Top.victim => outcome'[u] = outcome[u])
    BY <1>4, <2>1, <2>2 DEF RefusalCode
  <2>4. /\ Count(Below, Holding(u)) \in Nat
        /\ h = Count(Below, Holding(u)) + one(u = Top.victim \/ u = Top.trigger)
    BY <1>0, <2>1, HoldersPopped DEF h, HeldBy
  <2>5. CASE Top.victim = Top.trigger /\ stack' = Below /\ queue' = queue
    <3>1. Count(stack', Holding(u)) = Count(Below, Holding(u))
      BY <2>5
    <3>2. Count(queue', {u}) = q
      BY <2>5 DEF q
    <3> QED  BY <1>1, <1>2, <2>1, <2>3, <2>4, <2>5, <3>1, <3>2
  <2>6. CASE /\ Top.victim # Top.trigger /\ queue' = Append(queue, Top.trigger)
             /\ stack' = Append(Below, Frame("starting", Top.trigger, None))
    <3>1. Frame("starting", Top.trigger, None) \in Frames
          /\ ~HeldBy(Frame("starting", Top.trigger, None), u)
      BY <2>2 DEF Frame, Frames, HeldBy
    <3>2. Count(stack', Holding(u)) = Count(Below, Holding(u))
      BY <1>0, <2>1, <2>4, <2>6, <3>1, HoldersReplaced
    <3>3. Count(queue', {u}) = q + one(u = Top.trigger)
      BY <1>0, <2>2, <2>6, WaitingPushed DEF q
    <3> QED  BY <1>1, <1>2, <2>1, <2>3, <2>4, <2>6, <3>2, <3>3
  <2> QED  BY <1>6, <2>5, <2>6 DEF Refuse
<1>7. CASE Start
  <2>1. /\ stack # <<>> /\ Top.pc = "starting"
        /\ queue' = queue /\ current' = current /\ outcome' = outcome
    BY <1>7 DEF Start, At
  <2>2. /\ Count(Below, Holding(u)) \in Nat
        /\ h = Count(Below, Holding(u))
    BY <1>0, <2>1, HoldersPopped DEF h, HeldBy
  <2>3. Frame("draining", None, None) \in Frames
        /\ ~HeldBy(Frame("draining", None, None), u)
    BY DEF Frame, Frames, HeldBy
  <2>4. Count(stack', Holding(u)) = h
    <3>1. CASE stack' = Below
      BY <2>2, <3>1
    <3>2. CASE stack' = Append(Below, Frame("draining", None, None))
      BY <1>0, <2>1, <2>2, <2>3, <3>2, HoldersReplaced
    <3> QED  BY <1>7, <3>1, <3>2 DEF Start
  <2> QED  BY <1>2, <2>1, <2>4 DEF q
<1>8. CASE Drain
  <2>1. /\ stack # <<>> /\ Top.pc = "draining" /\ stack' = Below
        /\ outcome' = outcome
    BY <1>8 DEF Drain, At
  <2>2. Count(stack', Holding(u)) = h
    BY <1>0, <2>1, HoldersPopped DEF h, HeldBy
  <2>3. current = None
    BY <1>0, <2>1, StackTop DEF DrainInv
  <2>4. CASE queue = <<>>
    BY <1>2, <1>8, <2>1, <2>2, <2>4 DEF Drain, q
  <2>5. CASE queue # <<>>
    <3>1. current' = Head(queue) /\ queue' = Tail(queue)
      BY <1>8, <2>5 DEF Drain
    <3>2. /\ Count(queue', {u}) \in Nat
          /\ q = Count(queue', {u}) + one(u = Head(queue))
      BY <1>0, <2>5, <3>1, WaitingShifted DEF q
    <3> QED  BY <1>1, <1>2, <1>4, <2>1, <2>2, <2>3, <3>1, <3>2
  <2> QED  BY <2>4, <2>5
<1>9. ASSUME NEW result \in {"resolved", "rejected"}, Settle(result)
      PROVE  Count(queue', {u}) + Count(stack', Holding(u)) + one(current' = u)
               = one(outcome'[u] = "pending")
  <2>1. /\ stack = <<>> /\ current # None /\ current' = None /\ queue' = queue
        /\ outcome' = [outcome EXCEPT ![current] = result]
        /\ stack' = <<Frame("draining", None, None)>>
    BY <1>9 DEF Settle
  <2>2. current \in Trigger
    BY <1>0, <2>1 DEF TypeOK
  <2>3. outcome'[current] # "pending" /\ (u # current => outcome'[u] = outcome[u])
    BY <1>4, <2>1, <2>2
  <2>4. Frame("draining", None, None) \in Frames
        /\ ~HeldBy(Frame("draining", None, None), u)
    BY DEF Frame, Frames, HeldBy
  <2>5. stack' = Append(stack, Frame("draining", None, None))
    BY <2>1
  <2>6. Count(stack', Holding(u)) = h
    BY <1>0, <1>1, <2>4, <2>5, HoldersPushed DEF h
  <2> QED  BY <1>1, <1>2, <1>4, <2>1, <2>3, <2>6 DEF q
<1>10. CASE UNCHANGED vars
  BY <1>2, <1>10 DEF vars, q, h
<1> QED  BY <1>5, <1>6, <1>7, <1>8, <1>9, <1>10 DEF Next, Rest

(***************************************************************************)
(* "Every policy refuses exactly one trigger and tells its sender": a      *)
(* sender is unanswered exactly as long as its trigger is in one place,    *)
(* the queue, the drain loop's hand or a call in progress, whatever the    *)
(* capacity, the policy and the calls that telemetry sinks make inside.    *)
(***************************************************************************)
THEOREM EverySenderIsAccountedFor == Spec => []EverySenderAccountedFor
<1>1. Init /\ TypeOK => EverySenderAccountedFor
  <2> SUFFICES ASSUME Init, TypeOK, NEW t \in Trigger
               PROVE  Places(t) = 0 /\ outcome[t] = "unsent"
    BY DEF EverySenderAccountedFor
  <2>1. /\ queue = <<>> /\ stack = <<>> /\ current # t
        /\ outcome[t] = "unsent"
    BY NoneAssumption DEF Init
  <2>2. /\ \A i \in 1 .. Len(queue) : queue[i] \notin {t}
        /\ \A i \in 1 .. Len(stack) : stack[i] \notin Holding(t)
    BY <2>1
  <2>3. queue \in Seq(Trigger) /\ stack \in Seq(Frames)
    BY DEF TypeOK
  <2>4. Count(queue, {t}) = 0
    BY <2>2, <2>3, CountType
  <2>5. Count(stack, Holding(t)) = 0
    BY <2>2, <2>3, CountType
  <2> QED  BY <2>1, <2>4, <2>5, PlacesCounted
<1>2. NobodyStrandedInv /\ TypeOK' /\ EverySenderAccountedFor /\ [Next]_vars
        => EverySenderAccountedFor'
  BY AccountedInductive
<1> QED  BY <1>1, <1>2, TypeCorrect, NobodyStranded, PTL DEF Spec

-----------------------------------------------------------------------------
(* How the line moves: Inbox implements BoundedTurns step by step.         *)

\* Taking an end off a line by its position, as BoundedTurns states it.
LEMMA LastLeaves ==
  ASSUME NEW S, NEW s \in Seq(S), NEW x \in S
  PROVE  \E i \in 1 .. Len(Append(s, x)) :
           /\ Append(s, x)[i] = x
           /\ s = SubSeq(Append(s, x), 1, i - 1)
                    \o SubSeq(Append(s, x), i + 1, Len(Append(s, x)))
<1> DEFINE line == Append(s, x)
<1>1. /\ line \in Seq(S) /\ Len(s) \in Nat /\ Len(line) = Len(s) + 1
      /\ \A i \in 1 .. Len(s) : line[i] = s[i]
      /\ line[Len(s) + 1] = x
  BY LenProperties, AppendProperties
<1> DEFINE n == Len(s)
<1>2. /\ SubSeq(line, 1, n) \in Seq(S)
      /\ Len(SubSeq(line, 1, n)) = n
      /\ \A i \in 1 .. n : SubSeq(line, 1, n)[i] = line[i]
  <2>1. n \in Nat /\ \A i \in 1 .. n : line[i] \in S
    BY <1>1
  <2>2. /\ SubSeq(line, 1, n) \in Seq(S)
        /\ Len(SubSeq(line, 1, n)) = IF 1 <= n THEN n - 1 + 1 ELSE 0
        /\ \A i \in 1 .. n - 1 + 1 : SubSeq(line, 1, n)[i] = line[1 + i - 1]
    BY <2>1, SubSeqProperties
  <2> HIDE DEF n
  <2>3. Len(SubSeq(line, 1, n)) = n
    BY <2>1, <2>2
  <2>4. ASSUME NEW i \in 1 .. n PROVE SubSeq(line, 1, n)[i] = line[i]
    <3>1. i \in 1 .. n - 1 + 1 /\ 1 + i - 1 = i
      BY <2>1
    <3> QED  BY <2>2, <3>1
  <2> QED  BY <2>2, <2>3, <2>4
<1>3. SubSeq(line, 1, n) = s
  BY <1>1, <1>2, SeqEqual
<1>4. SubSeq(line, n + 2, n + 1) = <<>>
  BY <1>1, SubSeqEmpty
<1>5. SubSeq(line, 1, n) \o SubSeq(line, n + 2, n + 1) = s
  BY <1>3, <1>4, ConcatEmptySeq
<1> HIDE DEF n, line
<1>6. n \in Nat /\ Len(line) = n + 1 /\ line[n + 1] = x
  BY <1>1 DEF n
<1>7. (n + 1) - 1 = n /\ (n + 1) + 1 = n + 2 /\ n + 1 \in 1 .. Len(line)
  BY <1>6
<1>8. \E i \in 1 .. Len(line) :
        line[i] = x /\ s = SubSeq(line, 1, i - 1) \o SubSeq(line, i + 1, Len(line))
  BY <1>5, <1>6, <1>7
<1> QED  BY <1>8 DEF line

LEMMA FirstLeaves ==
  ASSUME NEW S, NEW s \in Seq(S), s # <<>>
  PROVE  \E i \in 1 .. Len(s) :
           /\ s[i] = Head(s)
           /\ Tail(s) = SubSeq(s, 1, i - 1) \o SubSeq(s, i + 1, Len(s))
<1>1. Len(s) \in Nat /\ Len(s) >= 1 /\ s[1] = Head(s) /\ Tail(s) \in Seq(S)
  BY EmptySeq, HeadTailProperties
<1>2. SubSeq(s, 1, 0) = <<>>
  BY SubSeqEmpty
<1>3. Tail(s) = SubSeq(s, 2, Len(s))
  BY TailIsSubSeq
<1>4. Tail(s) = SubSeq(s, 1, 0) \o SubSeq(s, 2, Len(s))
  BY <1>1, <1>2, <1>3, ConcatEmptySeq
<1>5. 1 - 1 = 0 /\ 1 + 1 = 2 /\ 1 \in 1 .. Len(s)
  BY <1>1
<1> QED  BY <1>1, <1>4, <1>5

\* The line as BoundedTurns sees it, by what the call in progress holds.
Line == HeldVictim \o queue \o HeldNewcomer

LEMMA NothingHeld ==
  ASSUME TypeOK, ~At("refusing")
  PROVE  Line = queue
<1>1. HeldVictim = <<>> /\ HeldNewcomer = <<>> /\ queue \in Seq(Trigger)
  BY DEF HeldVictim, HeldNewcomer, TypeOK
<1> QED  BY <1>1, ConcatEmptySeq DEF Line

LEMMA NewcomerHeld ==
  ASSUME TypeOK, At("refusing"), Top.victim = Top.trigger
  PROVE  Line = Append(queue, Top.trigger)
<1>1. HeldVictim = <<>> /\ HeldNewcomer = <<Top.trigger>> /\ queue \in Seq(Trigger)
  BY DEF HeldVictim, HeldNewcomer, TypeOK
<1>2. Top.trigger \in Trigger
  BY TopOnBelow DEF At, Frames
<1>3. Line = queue \o <<Top.trigger>>
  BY <1>1, ConcatEmptySeq DEF Line
<1> QED  BY <1>1, <1>2, <1>3, AppendIsConcat

\* One trigger made way: it still heads the line.
LEMMA VictimHeld ==
  ASSUME NEW v \in Trigger, NEW t \in Trigger, NEW q \in Seq(Trigger)
  PROVE  /\ <<v>> \o q \o <<t>> \in Seq(Trigger)
         /\ <<v>> \o q \o <<t>> # <<>>
         /\ Len(<<v>> \o q \o <<t>>) = Len(q) + 2
         /\ Head(<<v>> \o q \o <<t>>) = v
         /\ Tail(<<v>> \o q \o <<t>>) = Append(q, t)
<1> DEFINE w == <<v>> \o q
           l == w \o <<t>>
           r == Append(q, t)
<1>1. /\ <<v>> \in Seq(Trigger) /\ Len(<<v>>) = 1 /\ <<v>>[1] = v
      /\ <<t>> \in Seq(Trigger) /\ Len(<<t>>) = 1 /\ <<t>>[1] = t
  OBVIOUS
<1>2. Len(q) \in Nat
  OBVIOUS
<1>3. /\ w \in Seq(Trigger) /\ Len(w) = Len(q) + 1
      /\ w[1] = v /\ \A i \in 1 .. Len(q) : w[i + 1] = q[i]
  <2>1. /\ w \in Seq(Trigger) /\ Len(w) = 1 + Len(q)
        /\ \A i \in 1 .. 1 + Len(q) : w[i] = IF i <= 1 THEN <<v>>[i] ELSE q[i - 1]
    BY <1>1, ConcatProperties
  <2> HIDE DEF w
  <2>2. w[1] = v
    BY <1>1, <1>2, <2>1
  <2>3. ASSUME NEW i \in 1 .. Len(q) PROVE w[i + 1] = q[i]
    BY <1>2, <2>1
  <2> QED  BY <1>2, <2>1, <2>2, <2>3
<1> HIDE DEF w
<1>4. /\ l \in Seq(Trigger) /\ Len(l) = Len(q) + 2
      /\ l[1] = v /\ \A i \in 1 .. Len(q) : l[i + 1] = q[i]
      /\ l[Len(q) + 2] = t
  <2>1. l = Append(w, t)
    BY <1>3, AppendIsConcat
  <2> QED  BY <1>2, <1>3, <2>1, AppendProperties
<1>5. /\ r \in Seq(Trigger) /\ Len(r) = Len(q) + 1
      /\ \A i \in 1 .. Len(q) : r[i] = q[i]
      /\ r[Len(q) + 1] = t
  BY AppendProperties
<1> HIDE DEF l, r
<1>6. l # <<>>
  BY <1>2, <1>4, EmptySeq
<1>7. /\ Tail(l) \in Seq(Trigger) /\ Len(Tail(l)) = Len(q) + 1
      /\ \A i \in 1 .. Len(q) + 1 : Tail(l)[i] = l[i + 1]
  BY <1>2, <1>4, <1>6, HeadTailProperties
<1>8. ASSUME NEW i \in 1 .. Len(q) + 1 PROVE Tail(l)[i] = r[i]
  <2>1. CASE i \in 1 .. Len(q)
    BY <1>4, <1>5, <1>7, <2>1
  <2>2. CASE i = Len(q) + 1
    <3>1. i \in 1 .. Len(q) + 1 /\ i + 1 = Len(q) + 2
      BY <1>2, <2>2
    <3> QED  BY <1>4, <1>5, <1>7, <2>2, <3>1
  <2>3. i \in 1 .. Len(q) \/ i = Len(q) + 1
    BY <1>2
  <2> QED  BY <2>1, <2>2, <2>3
<1>9. Tail(l) = r
  BY <1>5, <1>7, <1>8, SeqEqual
<1>10. Head(l) = v
  BY <1>4
<1> QED  BY <1>4, <1>6, <1>9, <1>10 DEF l, r, w

\* Nobody is refused before the line is full: the longest-waiting trigger has
\* left the queue by then, the newcomer has not entered it.
CrowdedInv ==
  At("refusing") =>
    IF Top.victim = Top.trigger THEN Len(queue) >= config.capacity
                                ELSE Len(queue) + 1 >= config.capacity

TurnsInv == NobodyStrandedInv /\ CapacityInv /\ CrowdedInv

LEMMA CrowdedInductive ==
  ASSUME SinksMaySend = FALSE, TurnsInv, [Next]_vars
  PROVE  CrowdedInv'
<1>0. /\ TypeOK /\ SentInv /\ config.capacity \in Nat /\ Len(queue) \in Nat
  BY CapacitiesAssumption, QueueFacts
     DEF TurnsInv, NobodyStrandedInv, TypeOK, Configs
<1>1. ASSUME NEW t \in Trigger, Enqueue(t)
      PROVE  CrowdedInv'
  <2>1. stack = <<>> /\ config' = config
    BY <1>1 DEF Enqueue, MayCall
  <2>2. ~HasRoom => Len(queue) >= config.capacity
    BY <1>0 DEF HasRoom
  <2>3. CASE stack' = Append(stack, Frame("starting", t, None))
    <3>1. Top'.pc = "starting"
      BY <2>1, <2>3 DEF Top, Frame
    <3> QED  BY <3>1 DEF CrowdedInv, At
  <2>4. CASE /\ ~HasRoom /\ queue # <<>> /\ queue' = Tail(queue) /\ Head(queue) # t
             /\ stack' = Append(stack, Frame("refusing", t, Head(queue)))
    <3>1. Top'.victim # Top'.trigger
      BY <2>1, <2>4 DEF Top, Frame
    <3>2. Len(queue') = Len(queue) - 1
      BY <1>0, <2>4, QueueFacts
    <3> QED  BY <1>0, <2>1, <2>2, <2>4, <3>1, <3>2 DEF CrowdedInv
  <2>5. CASE /\ ~HasRoom /\ queue' = queue
             /\ stack' = Append(stack, Frame("refusing", t, t))
    <3>1. Top'.victim = Top'.trigger
      BY <2>1, <2>5 DEF Top, Frame
    <3> QED  BY <2>1, <2>2, <2>5, <3>1 DEF CrowdedInv
  <2> QED  BY <1>0, <1>1, <2>3, <2>4, <2>5, EnqueuePushes
<1>2. stack # <<>> => Below = <<>>
  BY <1>0, NoCallInside DEF TurnsInv
<1>3. ASSUME Refuse \/ Start \/ Drain
      PROVE  CrowdedInv'
  <2>1. stack # <<>> /\ Below = <<>>
    BY <1>2, <1>3 DEF Refuse, Start, Drain, At
  <2>2. \/ stack' = <<>>
        \/ \E f \in Frames \cup {Frame("starting", Top.trigger, None)} :
             f.pc # "refusing" /\ stack' = <<f>>
    <3>1. Frame("draining", None, None) \in Frames
      BY DEF Frame, Frames
    <3> QED  BY <1>3, <2>1, <3>1 DEF Refuse, Start, Drain, Frame
  <2>3. ~At("refusing")'
    BY <2>2 DEF At, Top
  <2> QED  BY <2>3 DEF CrowdedInv
<1>4. ASSUME NEW result \in {"resolved", "rejected"}, Settle(result)
      PROVE  CrowdedInv'
  <2>1. Top'.pc = "draining"
    BY <1>4 DEF Settle, Top, Frame
  <2> QED  BY <2>1 DEF CrowdedInv, At
<1>5. CASE UNCHANGED vars
  BY <1>5 DEF vars, CrowdedInv, TurnsInv, At, Top
<1> QED  BY <1>1, <1>3, <1>4, <1>5 DEF Next, Rest

\* A step of BoundedTurns, in the words of the inbox.
TurnsStep == [Turns!Next]_(Turns!vars)

LEMMA StepTakesTurns ==
  ASSUME SinksMaySend = FALSE, TurnsInv, TypeOK', [Next]_vars
  PROVE  TurnsStep
<1>0. /\ TypeOK /\ SentInv /\ DrainInv /\ CapacityInv /\ CrowdedInv
      /\ config.capacity \in Nat /\ Len(queue) \in Nat /\ queue \in Seq(Trigger)
  BY CapacitiesAssumption, QueueFacts
     DEF TurnsInv, NobodyStrandedInv, TypeOK, Configs
<1>1. /\ queue' \in Seq(Trigger)
      /\ ~At("refusing")' => Line' = queue'
  <2>1. queue' \in Seq(Trigger)
    BY DEF TypeOK
  <2>2. ~At("refusing")' => HeldVictim' = <<>> /\ HeldNewcomer' = <<>>
    BY DEF HeldVictim, HeldNewcomer
  <2> QED  BY <2>1, <2>2, ConcatEmptySeq DEF Line
<1>2. ASSUME UNCHANGED <<config, current, outcome, Line>>
      PROVE  TurnsStep
  BY <1>2 DEF TurnsStep, Turns!vars, Line
<1>3. ASSUME NEW t \in Trigger, Enqueue(t)
      PROVE  TurnsStep
  <2>1. /\ stack = <<>> /\ outcome[t] = "unsent"
        /\ outcome' = [outcome EXCEPT ![t] = "pending"]
        /\ UNCHANGED <<config, current>>
    BY <1>3 DEF Enqueue, MayCall
  <2>2. Line = queue
    BY <1>0, <2>1, NothingHeld DEF At
  <2>3. Line' = Append(queue, t)
    <3>1. CASE /\ queue' = Append(queue, t)
               /\ stack' = Append(stack, Frame("starting", t, None))
      <4>1. Top'.pc = "starting"
        BY <2>1, <3>1 DEF Top, Frame
      <4> QED  BY <1>1, <3>1, <4>1 DEF At
    <3>2. CASE /\ queue # <<>> /\ queue' = Tail(queue) /\ Head(queue) # t
               /\ stack' = Append(stack, Frame("refusing", t, Head(queue)))
      <4>1. /\ stack' # <<>> /\ Top'.pc = "refusing"
            /\ Top'.trigger = t /\ Top'.victim = Head(queue)
        BY <2>1, <3>2 DEF Top, Frame
      <4>2. Line' = <<Head(queue)>> \o Tail(queue) \o <<t>>
        BY <3>2, <4>1 DEF Line, HeldVictim, HeldNewcomer, At
      <4>3. /\ queue = <<Head(queue)>> \o Tail(queue)
        <5>1. Len(queue) >= 1 /\ SubSeq(queue, 1, Len(queue)) = queue
          BY <1>0, <3>2, QueueFacts, SubSeqFull
        <5>2. SubSeq(queue, 1, Len(queue)) = <<queue[1]>> \o SubSeq(queue, 1 + 1, Len(queue))
          BY <1>0, <5>1, SubSeqRecursiveFirst
        <5>3. Tail(queue) = SubSeq(queue, 2, Len(queue)) /\ Head(queue) = queue[1]
          BY <1>0, <3>2, TailIsSubSeq
        <5> QED  BY <5>1, <5>2, <5>3
      <4> QED  BY <1>0, <4>2, <4>3, AppendIsConcat
    <3>3. CASE queue' = queue /\ stack' = Append(stack, Frame("refusing", t, t))
      <4>1. /\ stack' # <<>> /\ Top'.pc = "refusing"
            /\ Top'.trigger = t /\ Top'.victim = t
        BY <2>1, <3>3 DEF Top, Frame
      <4>2. Line' = <<>> \o queue \o <<t>>
        BY <3>3, <4>1 DEF Line, HeldVictim, HeldNewcomer, At
      <4> QED  BY <1>0, <4>2, ConcatEmptySeq, AppendIsConcat
    <3> QED  BY <1>0, <1>3, <3>1, <3>2, <3>3, EnqueuePushes
  <2>4. Turns!Submit(t)
    BY <2>1, <2>2, <2>3 DEF Turns!Submit, Line
  <2> QED  BY <2>4 DEF TurnsStep, Turns!Next
<1>4. stack # <<>> => Below = <<>>
  BY <1>0, NoCallInside
<1>5. CASE Refuse
  <2>1. /\ stack # <<>> /\ Below = <<>> /\ At("refusing")
        /\ outcome' = [outcome EXCEPT ![Top.victim] = RefusalCode]
        /\ UNCHANGED <<config, current>>
    BY <1>4, <1>5 DEF Refuse, At
  <2>2. Top.trigger \in Trigger /\ Top.victim \in Trigger
    BY <1>0, <2>1, TopOnBelow DEF At, Frames
  <2>3. current # None
    BY <1>0, <2>1 DEF CapacityInv, DrainInv, At
  <2>4. RefusalCode \in Turns!Refusals
    BY DEF RefusalCode, Turns!Refusals
  <2>5. /\ Len(Line) > config.capacity
        /\ \E i \in 1 .. Len(Line) :
             /\ Line[i] = Top.victim
             /\ Line' = SubSeq(Line, 1, i - 1) \o SubSeq(Line, i + 1, Len(Line))
    <3>1. CASE Top.victim = Top.trigger
      <4>1. stack' = <<>> /\ queue' = queue
        BY <1>5, <2>1, <3>1 DEF Refuse
      <4>2. Line' = queue
        BY <1>1, <4>1 DEF At
      <4>3. Line = Append(queue, Top.trigger)
        BY <1>0, <2>1, <3>1, NewcomerHeld
      <4>4. Len(Line) > config.capacity
        BY <1>0, <2>1, <2>2, <3>1, <4>3, AppendProperties DEF CrowdedInv
      <4>5. \E i \in 1 .. Len(Line) :
              /\ Line[i] = Top.trigger
              /\ queue = SubSeq(Line, 1, i - 1) \o SubSeq(Line, i + 1, Len(Line))
        <5>1. \E i \in 1 .. Len(Append(queue, Top.trigger)) :
                /\ Append(queue, Top.trigger)[i] = Top.trigger
                /\ queue = SubSeq(Append(queue, Top.trigger), 1, i - 1)
                            \o SubSeq(Append(queue, Top.trigger), i + 1,
                                      Len(Append(queue, Top.trigger)))
          BY <1>0, <2>2, LastLeaves
        <5> QED  BY <4>3, <5>1
      <4> QED  BY <3>1, <4>2, <4>4, <4>5
    <3>2. CASE Top.victim # Top.trigger
      <4>1. /\ stack' = <<Frame("starting", Top.trigger, None)>>
            /\ queue' = Append(queue, Top.trigger)
        BY <1>5, <2>1, <3>2 DEF Refuse
      <4>2. Line' = Append(queue, Top.trigger)
        <5>1. Top'.pc = "starting"
          BY <4>1 DEF Top, Frame
        <5> QED  BY <1>1, <4>1, <5>1 DEF At
      <4>3. Line = <<Top.victim>> \o queue \o <<Top.trigger>>
        BY <2>1, <3>2 DEF Line, HeldVictim, HeldNewcomer
      <4>4. /\ Line \in Seq(Trigger) /\ Line # <<>> /\ Len(Line) = Len(queue) + 2
            /\ Head(Line) = Top.victim /\ Tail(Line) = Line'
        BY <1>0, <2>2, <4>2, <4>3, VictimHeld
      <4>5. Len(Line) > config.capacity
        BY <1>0, <2>1, <3>2, <4>4 DEF CrowdedInv
      <4> QED  BY <4>4, <4>5, FirstLeaves
    <3> QED  BY <3>1, <3>2
  <2>6. Turns!Refuse(Top.victim)
    BY <2>1, <2>3, <2>4, <2>5 DEF Turns!Refuse, Line
  <2> QED  BY <2>2, <2>6 DEF TurnsStep, Turns!Next
<1>6. CASE Start
  <2>1. /\ stack # <<>> /\ Below = <<>> /\ ~At("refusing")
        /\ UNCHANGED <<config, queue, current, outcome>>
    BY <1>4, <1>6 DEF Start, At
  <2>2. ~At("refusing")'
    BY <1>6, <2>1 DEF Start, At, Top, Frame
  <2> QED  BY <1>0, <1>1, <1>2, <2>1, <2>2, NothingHeld
<1>7. CASE Drain
  <2>1. /\ stack # <<>> /\ stack' = <<>> /\ ~At("refusing") /\ ~At("refusing")'
        /\ UNCHANGED <<config, outcome>>
    BY <1>4, <1>7 DEF Drain, At
  <2>2. current = None
    BY <1>0, <1>7, StackTop DEF DrainInv, Drain, At
  <2>3. Line = queue /\ Line' = queue'
    BY <1>0, <1>1, <2>1, NothingHeld
  <2>4. CASE queue = <<>>
    BY <1>2, <1>7, <2>1, <2>3, <2>4 DEF Drain
  <2>5. CASE queue # <<>>
    <3>1. Turns!Begin
      BY <1>7, <2>1, <2>2, <2>3, <2>5 DEF Drain, Turns!Begin, Line
    <3> QED  BY <3>1 DEF TurnsStep, Turns!Next
  <2> QED  BY <2>4, <2>5
<1>8. ASSUME NEW result \in {"resolved", "rejected"}, Settle(result)
      PROVE  TurnsStep
  <2>1. /\ stack = <<>> /\ current # None /\ current' = None
        /\ outcome' = [outcome EXCEPT ![current] = result]
        /\ UNCHANGED <<config, queue>>
    BY <1>8 DEF Settle
  <2>2. ~At("refusing") /\ ~At("refusing")'
    BY <1>8, <2>1 DEF Settle, At, Top, Frame
  <2>3. Line' = Line
    BY <1>0, <1>1, <2>1, <2>2, NothingHeld
  <2>4. Turns!Finish
    BY <2>1, <2>3 DEF Turns!Finish, Turns!Results, Line
  <2> QED  BY <2>4 DEF TurnsStep, Turns!Next
<1>9. CASE UNCHANGED vars
  <2>1. Line' = Line
    BY <1>9 DEF vars, Line, HeldVictim, HeldNewcomer, At, Top
  <2> QED  BY <1>2, <1>9, <2>1 DEF vars
<1> QED  BY <1>3, <1>5, <1>6, <1>7, <1>8, <1>9 DEF Next, Rest

(***************************************************************************)
(* As long as no telemetry sink calls send(), the inbox is the line that   *)
(* BoundedTurns describes, for any capacities and policies: triggers have  *)
(* their turn one at a time from the front of the line, and one is refused *)
(* only while another has the turn and more than `capacity` stand in line. *)
(***************************************************************************)
THEOREM TurnsAreBounded ==
  ASSUME SinksMaySend = FALSE
  PROVE  Spec => Turns!Init /\ [][Turns!Next]_(Turns!vars)
<1>1. Init => CapacityInv /\ CrowdedInv
  <2> SUFFICES ASSUME Init PROVE CapacityInv /\ CrowdedInv
    OBVIOUS
  <2>1. config.capacity \in Nat /\ stack = <<>> /\ queue = <<>>
    BY CapacitiesAssumption DEF Init, Configs
  <2> QED  BY <2>1 DEF CapacityInv, CrowdedInv, At
<1>2. Init /\ TypeOK => Turns!Init
  <2> SUFFICES ASSUME Init, TypeOK PROVE Turns!Init
    OBVIOUS
  <2>1. ~At("refusing") /\ queue = <<>> /\ config.capacity \in Capacities
    BY DEF Init, At, Configs
  <2>2. Line = <<>>
    BY <2>1, NothingHeld
  <2> QED  BY <2>1, <2>2 DEF Init, Turns!Init, Line
<1>3. NobodyStrandedInv /\ CapacityInv /\ CrowdedInv /\ [Next]_vars
        => CapacityInv' /\ CrowdedInv'
  BY CapacityInductive, CrowdedInductive DEF TurnsInv
<1>4. NobodyStrandedInv /\ CapacityInv /\ CrowdedInv /\ TypeOK' /\ [Next]_vars
        => [Turns!Next]_(Turns!vars)
  BY StepTakesTurns DEF TurnsInv, TurnsStep
<1> QED  BY <1>1, <1>2, <1>3, <1>4, TypeCorrect, NobodyStranded, PTL DEF Spec

=============================================================================
