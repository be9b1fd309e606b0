---------------------------- MODULE Fifo_proofs ----------------------------
(***************************************************************************)
(* Proofs about FifoHistory for every length, every set of elements and threads   *)
(* and every number of pushed elements.                                    *)
(***************************************************************************)
EXTENDS FifoHistory, TLAPS

\* What the loop of Push leaves of a queue: its newest elements, at most
\* Length of them, in their order.
LEMMA DropOldestKeepsEnd ==
    ASSUME NEW q \in Seq(Payload)
    PROVE  /\ DropOldest(q) \in Seq(Payload)
           /\ Len(DropOldest(q)) <= Len(q)
           /\ Length > 0 => Len(DropOldest(q)) <= Length
           /\ Len(DropOldest(q)) < Len(q) =>
                  Length > 0 /\ Len(DropOldest(q)) = Length
           /\ \A i \in 1..Len(DropOldest(q)) :
                  DropOldest(q)[i] = q[Len(q) - Len(DropOldest(q)) + i]
<1>1. CASE Length > 0 /\ Len(q) > Length
  <2> DEFINE from == Len(q) - Length + 1
             s == SubSeq(q, from, Len(q))
  <2>1. DropOldest(q) = s
    BY <1>1 DEF DropOldest
  <2>2. from \in 1..Len(q)
    BY <1>1, FifoAssumption
  <2>3. s \in Seq(Payload) /\ Len(s) = Length /\ \A i \in 1..Length : s[i] = q[from + i - 1]
    BY <1>1, <2>2, FifoAssumption
  <2> HIDE DEF s
  <2>4. \A i \in 1..Length : s[i] = q[Len(q) - Length + i]
    BY <1>1, <2>3, FifoAssumption
  <2> QED
    BY <1>1, <2>1, <2>3, <2>4, FifoAssumption
<1>2. CASE ~(Length > 0 /\ Len(q) > Length)
  <2>1. DropOldest(q) = q
    BY <1>2 DEF DropOldest
  <2> QED
    BY <1>2, <2>1, FifoAssumption
<1> QED
  BY <1>1, <1>2

-----------------------------------------------------------------------------
(* The inductive invariant.  NoLostWakeup needs nothing else, the type of  *)
(* last needs the window of QueueIsNewest, and the window needs the types. *)

IInv == TypeOK /\ QueueIsNewest /\ NoLostWakeup

LEMMA InitIInv == HistoryInit => IInv
<1> SUFFICES ASSUME HistoryInit
             PROVE  IInv
  OBVIOUS
<1>1. queue = <<>> /\ sent = <<>> /\ got = <<>> /\ last = 0 /\ pushed = 0
  BY DEF HistoryInit, Init
<1>2. TypeOK
  <2>1. queue \in Seq(Payload) /\ sent \in Seq(Payload) /\ got \in Seq(Payload)
    BY <1>1
  <2>2. last \in Nat
    BY <1>1
  <2> QED
    BY <1>1, <2>1, <2>2 DEF HistoryInit, Init, TypeOK, FifoTypeOK
<1>3. QueueIsNewest
  <2>1. Len(queue) = 0 /\ Len(sent) = 0
    BY <1>1
  <2> QED
    BY <1>1, <2>1, FifoAssumption DEF QueueIsNewest, Size, Removed, TotalMessagesPushed
<1>4. NoLostWakeup
  BY DEF HistoryInit, Init, NoLostWakeup
<1> QED
  BY <1>2, <1>3, <1>4 DEF IInv

\* Push moves the window forward.
LEMMA PushIInv ==
    ASSUME IInv, NEW p \in Payload, Pushes(p)
    PROVE  IInv'
<1> DEFINE q == Append(queue, p)
           d == DropOldest(q)
<1>1. queue \in Seq(Payload) /\ sent \in Seq(Payload) /\ got \in Seq(Payload) /\ last \in Nat
      /\ shutdown \in BOOLEAN /\ pushed = Len(sent)
  BY DEF IInv, TypeOK, FifoTypeOK, QueueIsNewest, TotalMessagesPushed
<1>2. /\ queue' = d /\ sent' = Append(sent, p) /\ pushed' = pushed + 1 /\ waiting' = {}
      /\ UNCHANGED <<shutdown, last, got>>
  BY DEF Pushes, Push, NotifyAll
<1>3. /\ q \in Seq(Payload)
      /\ Len(q) = Len(queue) + 1
      /\ \A i \in 1..Len(queue) : q[i] = queue[i]
      /\ q[Len(queue) + 1] = p
  BY <1>1
<1>4. /\ sent' \in Seq(Payload)
      /\ Len(sent') = Len(sent) + 1
      /\ \A i \in 1..Len(sent) : sent'[i] = sent[i]
      /\ sent'[Len(sent) + 1] = p
  BY <1>1, <1>2
<1> HIDE DEF q
<1>5. /\ d \in Seq(Payload)
      /\ Len(d) <= Len(q)
      /\ Length > 0 => Len(d) <= Length
      /\ Len(d) < Len(q) => Length > 0 /\ Len(d) = Length
      /\ \A i \in 1..Len(d) : d[i] = q[Len(q) - Len(d) + i]
  BY <1>3, DropOldestKeepsEnd
<1> HIDE DEF d
<1>6. /\ Len(sent) - Len(queue) >= last
      /\ \A i \in 1..Len(queue) : queue[i] = sent[Len(sent) - Len(queue) + i]
      /\ Len(sent) - Len(queue) > last => Length > 0 /\ Len(queue) = Length
  BY DEF IInv, QueueIsNewest, Removed, Size, TotalMessagesPushed
<1>7. TypeOK'
  BY <1>1, <1>2, <1>4, <1>5 DEF TypeOK, FifoTypeOK
<1>8. QueueIsNewest'
  <2>0. pushed' = Len(sent')
    BY <1>1, <1>2, <1>4
  <2>1. Len(sent') - Len(d) >= last
    BY <1>1, <1>3, <1>4, <1>5, <1>6
  <2>2. ASSUME NEW i \in 1..Len(d)
        PROVE  d[i] = sent'[Len(sent') - Len(d) + i]
    <3> DEFINE j == Len(q) - Len(d) + i
    <3>1. j \in 1..Len(q) /\ d[i] = q[j]
      BY <1>3, <1>5
    <3>2. Len(sent') - Len(d) + i = Len(sent) - Len(queue) + j
      BY <1>1, <1>3, <1>4, <1>5
    <3>3. Len(sent) - Len(queue) >= 0
      BY <1>1, <1>6
    <3> HIDE DEF j
    <3>4. CASE j = Len(queue) + 1
      BY <1>1, <1>3, <1>4, <3>1, <3>2, <3>4
    <3>5. CASE j \in 1..Len(queue)
      <4>1. q[j] = sent[Len(sent) - Len(queue) + j]
        BY <1>3, <1>6, <3>5
      <4>2. Len(sent) - Len(queue) + j \in 1..Len(sent)
        BY <1>1, <3>3, <3>5
      <4> QED
        BY <1>4, <3>1, <3>2, <4>1, <4>2
    <3> QED
      BY <1>1, <1>3, <3>1, <3>4, <3>5
  <2>3. Len(sent') - Len(d) > last => Length > 0 /\ Len(d) = Length
    BY <1>1, <1>3, <1>4, <1>5, <1>6, FifoAssumption
  <2> QED
    BY <1>2, <1>5, <2>0, <2>1, <2>2, <2>3 DEF QueueIsNewest, Removed, Size, TotalMessagesPushed
<1>9. NoLostWakeup'
  BY <1>2 DEF NoLostWakeup
<1> QED
  BY <1>7, <1>8, <1>9 DEF IInv

\* Popping the front element moves the window over it.
LEMMA PopTakesIInv ==
    ASSUME IInv, NEW t \in Threads, PopTakes(t),
           last' = Removed + 1, got' = Append(got, Head(queue)), UNCHANGED sent
    PROVE  IInv'
<1>1. queue \in Seq(Payload) /\ queue # <<>> /\ sent \in Seq(Payload) /\ got \in Seq(Payload) /\ last \in Nat
      /\ Len(sent) \in Nat /\ pushed = Len(sent)
  BY DEF IInv, TypeOK, FifoTypeOK, PopTakes, QueueIsNewest, TotalMessagesPushed
<1>2. /\ queue' = Tail(queue) /\ sent' = sent
      /\ last' = Len(sent) - Len(queue) + 1
      /\ got' = Append(got, Head(queue))
      /\ UNCHANGED <<shutdown, waiting, pushed>>
  BY <1>1 DEF PopTakes, Removed, Size, TotalMessagesPushed
<1>3. /\ Tail(queue) \in Seq(Payload)
      /\ Len(queue) \in Nat \ {0}
      /\ Len(Tail(queue)) = Len(queue) - 1
      /\ \A i \in 1..(Len(queue) - 1) : Tail(queue)[i] = queue[i + 1]
      /\ Head(queue) \in Payload
  BY <1>1
<1>4. /\ Len(sent) - Len(queue) >= last
      /\ \A i \in 1..Len(queue) : queue[i] = sent[Len(sent) - Len(queue) + i]
      /\ Length > 0 => Len(queue) <= Length
  BY DEF IInv, QueueIsNewest, Removed, Size, TotalMessagesPushed
<1>5. TypeOK'
  <2>1. last' \in Nat
    BY <1>1, <1>2, <1>3, <1>4
  <2>2. got' \in Seq(Payload)
    BY <1>1, <1>2, <1>3
  <2> QED
    BY <1>1, <1>2, <1>3, <2>1, <2>2 DEF IInv, TypeOK, FifoTypeOK
<1>6. QueueIsNewest'
  <2> DEFINE r == Len(sent') - Len(queue')
  <2>1. r = last'
    BY <1>1, <1>2, <1>3
  <2>2. ASSUME NEW i \in 1..Len(queue')
        PROVE  queue'[i] = sent'[r + i]
    <3>1. i + 1 \in 1..Len(queue) /\ queue'[i] = queue[i + 1]
      BY <1>2, <1>3
    <3>2. r + i = Len(sent) - Len(queue) + (i + 1)
      BY <1>1, <1>2, <1>3
    <3> HIDE DEF r
    <3> QED
      BY <1>2, <1>4, <3>1, <3>2
  <2>3. Length > 0 => Len(queue') <= Length
    BY <1>2, <1>3, <1>4, FifoAssumption
  <2>4. last' \in Nat
    BY <1>5 DEF TypeOK
  <2>5. pushed' = Len(sent')
    BY <1>1, <1>2
  <2> QED
    BY <2>1, <2>2, <2>3, <2>4, <2>5 DEF QueueIsNewest, Removed, Size, TotalMessagesPushed
<1>7. NoLostWakeup'
  BY <1>1, <1>2 DEF IInv, NoLostWakeup
<1> QED
  BY <1>5, <1>6, <1>7 DEF IInv

LEMMA NextIInv == IInv /\ [Next]_vars => IInv'
<1> SUFFICES ASSUME IInv, [Next]_vars
             PROVE  IInv'
  OBVIOUS
<1>1. ASSUME NEW p \in Payload, Pushes(p)
      PROVE  IInv'
  BY <1>1, PushIInv
<1>2. ASSUME NEW t \in Threads, Pops(t)
      PROVE  IInv'
  <2> USE DEF IInv, TypeOK, FifoTypeOK, QueueIsNewest, NoLostWakeup, Removed, Size, TotalMessagesPushed
  <2>1. CASE PopWaits(t) /\ UNCHANGED <<sent, last, got>>
    BY <2>1 DEF PopWaits
  <2>2. CASE PopFails(t) /\ UNCHANGED <<sent, last, got>>
    BY <2>2 DEF PopFails, state
  <2>3. CASE PopTakes(t) /\ last' = Removed + 1 /\ got' = Append(got, Head(queue)) /\ UNCHANGED sent
    BY <2>3, PopTakesIInv
  <2> QED
    BY <1>2, <2>1, <2>2, <2>3 DEF Pops
<1> USE DEF IInv, TypeOK, FifoTypeOK, QueueIsNewest, NoLostWakeup, Removed, Size, TotalMessagesPushed
<1>3. ASSUME NEW t \in Threads, Wakes(t)
      PROVE  IInv'
  BY <1>3 DEF Wakes, WakesUp
<1>4. CASE ShutsDown
  BY <1>4 DEF ShutsDown, Shutdown, NotifyAll
<1>5. ASSUME UNCHANGED vars
      PROVE  IInv'
  BY <1>5 DEF vars, state
<1> QED
  BY <1>1, <1>2, <1>3, <1>4, <1>5 DEF Next

THEOREM Invariance == Spec => []IInv
BY InitIInv, NextIInv, PTL DEF Spec

\* Every state of the fifo is well typed.
THEOREM TypeCorrect == Spec => []TypeOK
<1>1. IInv => TypeOK
  BY DEF IInv
<1> QED
  BY <1>1, Invariance, PTL

\* Push and Pop keep the queue the newest part of what was pushed, and lose
\* only the oldest elements of a full fifo.
THEOREM LosesOnlyOldest == Spec => []QueueIsNewest
<1>1. IInv => QueueIsNewest
  BY DEF IInv
<1> QED
  BY <1>1, Invariance, PTL

\* No thread sleeps in Pop while there is an element to pop or the fifo is
\* shut down.
THEOREM Wakeups == Spec => []NoLostWakeup
<1>1. IInv => NoLostWakeup
  BY DEF IInv
<1> QED
  BY <1>1, Invariance, PTL

-----------------------------------------------------------------------------
(* Refinement. *)

\* The front element is the one that the channel delivers next.
LEMMA FrontIsOldest ==
    ASSUME IInv, queue # <<>>
    PROVE  /\ Channel!Oldest = Removed + 1
           /\ Channel!Oldest <= Len(sent)
           /\ Head(queue) = sent[Channel!Oldest]
<1>1. queue \in Seq(Payload) /\ sent \in Seq(Payload) /\ last \in Nat /\ pushed = Len(sent)
  BY DEF IInv, TypeOK, FifoTypeOK, QueueIsNewest, TotalMessagesPushed
<1>2. Len(queue) \in Nat \ {0} /\ Len(sent) \in Nat /\ Head(queue) = queue[1]
  BY <1>1
<1>3. /\ Len(sent) - Len(queue) >= last
      /\ \A i \in 1..Len(queue) : queue[i] = sent[Len(sent) - Len(queue) + i]
      /\ Length > 0 => Len(queue) <= Length
      /\ Len(sent) - Len(queue) > last => Length > 0 /\ Len(queue) = Length
  BY DEF IInv, QueueIsNewest, Removed, Size, TotalMessagesPushed
<1>4. Channel!Oldest = Len(sent) - Len(queue) + 1
  <2>1. CASE Length > 0 /\ Len(sent) - Length > last
    <3>1. Len(sent) - Len(queue) > last
      BY <1>1, <1>2, <1>3, <2>1, FifoAssumption
    <3>2. Len(queue) = Length
      BY <1>3, <3>1
    <3> QED
      BY <2>1, <3>2 DEF Channel!Oldest
  <2>2. CASE ~(Length > 0 /\ Len(sent) - Length > last)
    <3>1. Len(sent) - Len(queue) = last
      BY <1>1, <1>2, <1>3, <2>2, FifoAssumption
    <3> QED
      BY <2>2, <3>1 DEF Channel!Oldest
  <2> QED
    BY <2>1, <2>2
<1> QED
  BY <1>1, <1>2, <1>3, <1>4 DEF Removed, Size, TotalMessagesPushed

\* The fifo with its buffer, its waiting threads and its shutdown flag behaves
\* like the channel without a buffer, so its users may think of the channel.
THEOREM Refinement == Spec => ImplementsChannel
<1>1. HistoryInit => Channel!Init
  BY DEF HistoryInit, Init, Channel!Init
<1>2. IInv /\ [Next]_vars => [Channel!Next]_(Channel!chan)
  <2> SUFFICES ASSUME IInv, [Next]_vars
               PROVE  [Channel!Next]_(Channel!chan)
    OBVIOUS
  <2> USE DEF Channel!Next, Channel!chan
  <2>1. ASSUME NEW p \in Payload, Pushes(p)
        PROVE  Channel!Next
    BY <2>1 DEF Pushes, Push, Channel!Send
  <2>2. ASSUME NEW t \in Threads, Pops(t)
        PROVE  Channel!Next \/ UNCHANGED Channel!chan
    <3>1. CASE (PopWaits(t) \/ PopFails(t)) /\ UNCHANGED <<sent, last, got>>
      BY <3>1 DEF PopWaits, PopFails, state
    <3>2. CASE PopTakes(t) /\ last' = Removed + 1 /\ got' = Append(got, Head(queue)) /\ UNCHANGED sent
      BY <3>2, FrontIsOldest DEF PopTakes, Channel!Receive
    <3> QED
      BY <2>2, <3>1, <3>2 DEF Pops
  <2>3. ASSUME NEW t \in Threads, Wakes(t)
        PROVE  UNCHANGED Channel!chan
    BY <2>3 DEF Wakes, WakesUp
  <2>4. CASE ShutsDown
    BY <2>4 DEF ShutsDown, Shutdown, Channel!Close
  <2>5. ASSUME UNCHANGED vars
        PROVE  UNCHANGED Channel!chan
    BY <2>5 DEF vars, state
  <2> QED
    BY <2>1, <2>2, <2>3, <2>4, <2>5 DEF Next
<1> QED
  BY <1>1, <1>2, Invariance, PTL DEF Spec, ImplementsChannel, Channel!Spec
=============================================================================
