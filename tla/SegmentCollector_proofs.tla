----------------------- MODULE SegmentCollector_proofs -----------------------
(***************************************************************************)
(* Proofs about SegmentCollector for any number of segments, any layers    *)
(* and ranges, and any network whose disturbances are shorter than a       *)
(* revolution.                                                             *)
(***************************************************************************)
EXTENDS SegmentCollector, TLAPS

\* Two numbers less than a revolution apart, the later one not at a smaller
\* index, are of one revolution.
LEMMA SameRevolution ==
    ASSUME NEW a \in Nat, NEW b \in Nat, a < b, b < a + N, a % N <= b % N
    PROVE  a \div N = b \div N
<1> DEFINE p == a \div N
           q == b \div N
<1>1. N \in Nat /\ N > 0
  BY CollectorAssumption
<1>2. p \in Int /\ q \in Int /\ a % N \in 0..(N - 1) /\ b % N \in 0..(N - 1)
  BY <1>1
<1>3. a = (N * p) + (a % N) /\ b = (N * q) + (b % N)
  BY <1>1
<1> HIDE DEF p, q
<1>4. N * (q - p) = N * q - N * p
  BY <1>1, <1>2
<1>5. N * (q - p) < N /\ N * (q - p) > -N
  BY <1>1, <1>2, <1>3, <1>4
<1>6. ~(q - p >= 1)
  BY <1>1, <1>2, <1>5
<1>7. ~(q - p <= -1)
  BY <1>1, <1>2, <1>5
<1>8. p = q
  BY <1>2, <1>6, <1>7
<1> QED
  BY <1>8 DEF p, q

\* The counter fits the int that it is converted to.
LEMMA CounterIsInt ==
    ASSUME NEW k \in Nat
    PROVE  TelegramCnt(k) \in -CounterLimit..(CounterLimit - 1)
<1> DEFINE n == 2 * CounterLimit
           r == (k + CounterLimit) % n
<1>1. CounterLimit \in Nat /\ n \in Nat /\ n > 0
  BY CollectorAssumption
<1>2. r \in 0..(n - 1)
  BY <1>1
<1> HIDE DEF r
<1>3. r - CounterLimit \in -CounterLimit..(CounterLimit - 1)
  BY <1>1, <1>2
<1> QED
  BY <1>3 DEF TelegramCnt, r, n

\* Positive counters of telegrams less than a revolution apart differ as their
\* numbers do, also after the 64 bit counter has left the range of an int.
LEMMA CounterOrders ==
    ASSUME NEW a \in Nat, NEW b \in Nat, a - b < CounterLimit, b - a < CounterLimit,
           TelegramCnt(a) > 0, TelegramCnt(b) > 0
    PROVE  TelegramCnt(a) - TelegramCnt(b) = a - b
<1> DEFINE c == 2 * CounterLimit
           p == (a + CounterLimit) \div c
           q == (b + CounterLimit) \div c
           r == (a + CounterLimit) % c
           t == (b + CounterLimit) % c
<1>1. c \in Nat /\ c > 0 /\ CounterLimit \in Nat /\ a + CounterLimit \in Nat /\ b + CounterLimit \in Nat
  BY CollectorAssumption
<1>2. c = 2 * CounterLimit /\ TelegramCnt(a) = r - CounterLimit /\ TelegramCnt(b) = t - CounterLimit
  BY DEF TelegramCnt
<1> HIDE DEF c
<1>3. p \in Int /\ q \in Int /\ r \in 0..(c - 1) /\ t \in 0..(c - 1)
  BY <1>1
<1>4. a + CounterLimit = (c * p) + r /\ b + CounterLimit = (c * q) + t
  BY <1>1
<1> HIDE DEF p, q, r, t
<1>5. c * (p - q) = c * p - c * q /\ c * p \in Int /\ c * q \in Int
  BY <1>1, <1>3
<1>6. c * (p - q) < c /\ c * (p - q) > -c
  BY <1>1, <1>2, <1>3, <1>4, <1>5
<1>7. ~(p - q >= 1) /\ ~(p - q <= -1)
  BY <1>1, <1>3, <1>6
<1>8. p = q
  BY <1>3, <1>7
<1> QED
  BY <1>1, <1>2, <1>3, <1>4, <1>8

-----------------------------------------------------------------------------

\* The telegrams of a sequence ascend and are of one revolution.
OfOneRevolution(ts) ==
    /\ \A i, j \in DOMAIN ts : i < j => ts[i].number < ts[j].number
    /\ \A i, j \in DOMAIN ts : (ts[i].number - 1) \div N = (ts[j].number - 1) \div N

LastOf(ts) == ts[Len(ts)].number

\* What the collector holds: the last telegram is its counter, and not older
\* than a late telegram may be.
Collected ==
    /\ newest \in Nat
    /\ collector = [telegrams |-> collector.telegrams, telegram_cnt |-> collector.telegram_cnt]
    /\ collector.telegrams \in Seq(Telegram)
    /\ OfOneRevolution(collector.telegrams)
    /\ collector.telegrams # <<>> =>
           /\ collector.telegram_cnt = TelegramCnt(LastOf(collector.telegrams))
           /\ LastOf(collector.telegrams) <= newest
           /\ newest <= LastOf(collector.telegrams) + MaxDelay

\* A telegram of the same revolution is appended to ascending ones.
LEMMA AppendKeepsRevolution ==
    ASSUME NEW ts \in Seq(Telegram), NEW t \in Telegram, OfOneRevolution(ts),
           ts # <<>> => LastOf(ts) < t.number
                        /\ (LastOf(ts) - 1) \div N = (t.number - 1) \div N
    PROVE  /\ OfOneRevolution(Append(ts, t)) /\ Append(ts, t) \in Seq(Telegram)
           /\ Append(ts, t) # <<>> /\ LastOf(Append(ts, t)) = t.number
<1> DEFINE a == Append(ts, t)
<1>1. /\ a \in Seq(Telegram) /\ Len(ts) \in Nat /\ Len(a) = Len(ts) + 1
      /\ DOMAIN ts = 1..Len(ts) /\ DOMAIN a = 1..(Len(ts) + 1)
      /\ a[Len(ts) + 1] = t /\ \A i \in 1..Len(ts) : a[i] = ts[i] /\ ts[i] \in Telegram
  OBVIOUS
<1> HIDE DEF a
<1>2. \A u \in Telegram : u.number \in Nat
  BY CollectorAssumption DEF Telegram
<1>3. ASSUME NEW i \in DOMAIN ts
      PROVE  ts[i].number < t.number /\ (ts[i].number - 1) \div N = (t.number - 1) \div N
  <2>1. Len(ts) \in DOMAIN ts /\ ts # <<>> /\ i <= Len(ts) /\ i \in Nat
    BY <1>1, <1>3
  <2>2. ts[i].number <= LastOf(ts) /\ (ts[i].number - 1) \div N = (LastOf(ts) - 1) \div N
    <3>1. CASE i = Len(ts)
      BY <1>1, <1>2, <2>1, <3>1 DEF LastOf
    <3>2. CASE i < Len(ts)
      BY <1>1, <1>2, <2>1, <3>2 DEF LastOf, OfOneRevolution
    <3> QED
      BY <1>1, <2>1, <3>1, <3>2
  <2>3. LastOf(ts) \in Nat /\ ts[i].number \in Nat /\ t.number \in Nat
    BY <1>1, <1>2, <2>1 DEF LastOf
  <2> QED
    BY <2>1, <2>2, <2>3
<1>4. \A i \in DOMAIN a : (i \in DOMAIN ts /\ a[i] = ts[i]) \/ (i = Len(ts) + 1 /\ a[i] = t)
  BY <1>1
<1>5. \A i, j \in DOMAIN a : i < j => a[i].number < a[j].number
  <2> SUFFICES ASSUME NEW i \in DOMAIN a, NEW j \in DOMAIN a, i < j
               PROVE  a[i].number < a[j].number
    OBVIOUS
  <2>1. i \in DOMAIN ts /\ a[i] = ts[i]
    BY <1>1
  <2> QED
    BY <1>3, <1>4, <2>1 DEF OfOneRevolution
<1>6. \A i, j \in DOMAIN a : (a[i].number - 1) \div N = (a[j].number - 1) \div N
  BY <1>3, <1>4 DEF OfOneRevolution
<1> QED
  BY <1>1, <1>5, <1>6 DEF OfOneRevolution, LastOf, a

\* What the collector holds stays of one revolution, and so does the cloud.
LEMMA CollectedStays ==
    ASSUME ShortDisturbance,
           Collected, Receive
    PROVE  Collected' /\ OneRevolution'
<1>1. PICK t \in Telegram :
          /\ t.number >= newest - MaxDelay
          /\ t.number <= newest + MaxGap + 1
          /\ newest' = IF t.number > newest THEN t.number ELSE newest
          /\ HandleMsgPackData(t)
  BY DEF Receive
<1> DEFINE ts == collector.telegrams
           k == t.number
<1>2. /\ k \in 1..MaxTelegrams /\ k \in Nat /\ k >= 1
      /\ newest \in Nat /\ MaxDelay \in Nat /\ MaxGap \in Nat /\ N \in Nat /\ N > 0
      /\ MaxTelegrams \in Nat
      /\ MaxGap + MaxDelay + 1 < N /\ N <= CounterLimit /\ CounterLimit \in Nat
  BY CollectorAssumption DEF Telegram, Collected, ShortDisturbance
<1>3. newest' \in Nat /\ k <= newest' /\ newest' <= k + MaxDelay
  BY <1>1, <1>2
<1>4. \A u \in Telegram : u.number \in Nat /\ u.number >= 1
  BY CollectorAssumption DEF Telegram
<1>5. frame' \in {<<>>, ts}
  BY <1>1 DEF HandleMsgPackData, StartsCollection, AppendsSegment, ResetsCollector, Publishes
<1>6. OneRevolution'
  BY <1>5 DEF OneRevolution, Collected, OfOneRevolution
<1>7. CASE StartsCollection(t)
  <2>1. collector' = [telegrams |-> Append(<<>>, t), telegram_cnt |-> TelegramCnt(k)]
    BY <1>2, <1>7 DEF StartsCollection, appendLidarPoints, SegmentPointsCollector
  <2>2. OfOneRevolution(<<>>) /\ <<>> \in Seq(Telegram)
    BY DEF OfOneRevolution
  <2>3. /\ OfOneRevolution(Append(<<>>, t)) /\ Append(<<>>, t) \in Seq(Telegram)
        /\ LastOf(Append(<<>>, t)) = k
    BY <2>2, AppendKeepsRevolution
  <2> QED
    BY <1>3, <1>6, <2>1, <2>3 DEF Collected
<1>8. CASE AppendsSegment(t)
  <2>1. collector' = [telegrams |-> Append(ts, t), telegram_cnt |-> TelegramCnt(k)]
    BY <1>2, <1>8 DEF AppendsSegment, appendLidarPoints
  <2>2. ts \in Seq(Telegram) /\ OfOneRevolution(ts)
    BY DEF Collected
  <2>3. ts # <<>>
    <3>1. LayersOf(ts) # {}
      BY <1>8 DEF AppendsSegment, Restarts, NothingCollected
    <3> QED
      BY <3>1 DEF LayersOf, Members
  <2>4. /\ LastOf(ts) \in Nat /\ LastOf(ts) >= 1 /\ LastOf(ts) < k
        /\ newest <= LastOf(ts) + MaxDelay
    <3>1. Len(ts) \in DOMAIN ts /\ ts[Len(ts)] \in Telegram
      BY <2>2, <2>3
    <3>2. /\ collector.telegram_cnt = TelegramCnt(LastOf(ts))
          /\ newest <= LastOf(ts) + MaxDelay /\ LastOf(ts) <= newest
      BY <2>3 DEF Collected
    <3>3. LastOf(ts) \in Nat /\ LastOf(ts) >= 1
      BY <1>4, <3>1 DEF LastOf
    <3>4. ~(TelegramCnt(LastOf(ts)) <= 0) /\ TelegramCnt(k) > TelegramCnt(LastOf(ts))
      BY <1>8, <3>2 DEF AppendsSegment, Restarts, NothingCollected
    <3>5. TelegramCnt(LastOf(ts)) \in Int /\ TelegramCnt(k) \in Int
      BY <1>2, <3>3, CounterIsInt
    <3>6. TelegramCnt(LastOf(ts)) > 0 /\ TelegramCnt(k) > 0
      BY <3>4, <3>5
    <3>7. k - LastOf(ts) < CounterLimit /\ LastOf(ts) - k < CounterLimit
      BY <1>1, <1>2, <3>2, <3>3
    <3>8. TelegramCnt(k) - TelegramCnt(LastOf(ts)) = k - LastOf(ts)
      BY <1>2, <3>3, <3>6, <3>7, CounterOrders
    <3> QED
      BY <1>2, <3>2, <3>3, <3>4, <3>5, <3>8
  <2>5. (LastOf(ts) - 1) % N <= (k - 1) % N
    <3>1. lastSegmentIdx = (LastOf(ts) - 1) % N
      BY <2>3 DEF lastSegmentIdx, Segment, LastOf
    <3>2. ~(lastSegmentIdx > (k - 1) % N)
      BY <1>8 DEF AppendsSegment, Restarts, Segment
    <3>3. (LastOf(ts) - 1) % N \in Nat /\ (k - 1) % N \in Nat
      BY <1>2, <2>4
    <3> QED
      BY <3>1, <3>2, <3>3
  <2>6. (LastOf(ts) - 1) \div N = (k - 1) \div N
    <3> DEFINE a == LastOf(ts) - 1
               b == k - 1
    <3>1. a \in Nat /\ b \in Nat /\ a < b /\ b < a + N
      BY <1>1, <1>2, <2>4
    <3>2. a % N <= b % N
      BY <2>5
    <3> HIDE DEF a, b
    <3>3. a \div N = b \div N
      BY <3>1, <3>2, SameRevolution
    <3> QED
      BY <3>3 DEF a, b
  <2>7. /\ OfOneRevolution(Append(ts, t)) /\ Append(ts, t) \in Seq(Telegram)
        /\ LastOf(Append(ts, t)) = k
    BY <2>2, <2>4, <2>6, AppendKeepsRevolution
  <2> QED
    BY <1>3, <1>6, <2>1, <2>7 DEF Collected
<1>9. CASE ResetsCollector(t)
  <2>1. collector' = [telegrams |-> <<>>, telegram_cnt |-> TelegramCnt(k)]
    BY <1>2, <1>9 DEF ResetsCollector, SegmentPointsCollector
  <2>2. OfOneRevolution(<<>>) /\ <<>> \in Seq(Telegram)
    BY DEF OfOneRevolution
  <2> QED
    BY <1>3, <1>6, <2>1, <2>2 DEF Collected
<1> QED
  BY <1>1, <1>7, <1>8, <1>9 DEF HandleMsgPackData

\* If losses and delays together are shorter than a revolution, no cloud mixes
\* telegrams of two revolutions, whatever is lost, doubled or late.
THEOREM CloudsAreOfOneRevolution ==
    ASSUME ShortDisturbance
    PROVE  Spec => []OneRevolution
<1>1. Init => Collected /\ OneRevolution
  BY CollectorAssumption DEF Init, Collected, OneRevolution, OfOneRevolution, SegmentPointsCollector
<1>2. Collected /\ OneRevolution /\ [Next]_vars => Collected' /\ OneRevolution'
  <2> SUFFICES ASSUME Collected, OneRevolution, [Next]_vars
               PROVE  Collected' /\ OneRevolution'
    OBVIOUS
  <2>1. CASE UNCHANGED vars
    BY <2>1 DEF vars, Collected, OneRevolution, OfOneRevolution, LastOf
  <2>2. CASE Next
    BY <2>2, CollectedStays DEF Next
  <2> QED
    BY <2>1, <2>2
<1> QED
  BY <1>1, <1>2, PTL DEF Spec

-----------------------------------------------------------------------------
(* Types. *)

\* A cloud has no segment twice, so that it has no more than a revolution.
Counted ==
    collector.telegrams # <<>> =>
        Len(collector.telegrams) <= Segment(LastOf(collector.telegrams)) + 1

LEMMA SegmentInRevolution ==
    ASSUME NEW k \in Nat, k >= 1
    PROVE  Segment(k) \in 0..(N - 1)
BY CollectorAssumption DEF Segment

\* Of two telegrams of one revolution the newer has the higher index.
LEMMA SegmentsAscend ==
    ASSUME NEW a \in Nat, NEW b \in Nat, a >= 1, a < b, (a - 1) \div N = (b - 1) \div N
    PROVE  Segment(a) < Segment(b)
<1> DEFINE p == (a - 1) \div N
<1>1. N \in Nat /\ N > 0 /\ a - 1 \in Nat /\ b - 1 \in Nat
  BY CollectorAssumption
<1>2. a - 1 = (N * p) + ((a - 1) % N) /\ b - 1 = (N * ((b - 1) \div N)) + ((b - 1) % N)
  BY <1>1
<1>3. p \in Int /\ (a - 1) % N \in Int /\ (b - 1) % N \in Int
  BY <1>1
<1>4. b - 1 = (N * p) + ((b - 1) % N)
  BY <1>2
<1> HIDE DEF p
<1>5. N * p \in Int
  BY <1>1, <1>3
<1>6. (a - 1) % N < (b - 1) % N
  BY <1>1, <1>2, <1>3, <1>4, <1>5
<1> QED
  BY <1>6 DEF Segment

LEMMA StreakTyped ==
    ASSUME TypeOK, NEW t \in Telegram
    PROVE  Streak(t) \in 0..(2 * N)
<1>1. N \in Nat /\ N > 0 /\ MaxTelegrams \in Nat
  BY CollectorAssumption
<1> QED
  BY <1>1 DEF TypeOK, Streak

IInv == TypeOK /\ Collected /\ Counted

LEMMA LastIsOfCollector ==
    ASSUME Collected, NEW k \in Numbers(collector.telegrams)
    PROVE  k \in Nat /\ k >= 1 /\ k <= newest
<1> DEFINE ts == collector.telegrams
<1>1. PICK i \in DOMAIN ts : k = ts[i].number
  BY DEF Numbers, Members
<1>2. ts \in Seq(Telegram) /\ ts # <<>> /\ DOMAIN ts = 1..Len(ts) /\ Len(ts) \in Nat /\ Len(ts) \in DOMAIN ts
  BY <1>1 DEF Collected
<1>3. \A u \in Telegram : u.number \in Nat /\ u.number >= 1
  BY CollectorAssumption DEF Telegram
<1>4. ts[i] \in Telegram /\ ts[Len(ts)] \in Telegram
  BY <1>1, <1>2
<1>5. ts[i].number <= ts[Len(ts)].number
  <2>1. CASE i = Len(ts)
    BY <1>3, <1>4, <2>1
  <2>2. CASE i < Len(ts)
    BY <1>1, <1>2, <1>3, <1>4, <2>2 DEF Collected, OfOneRevolution
  <2> QED
    BY <1>1, <1>2, <2>1, <2>2
<1>6. ts[Len(ts)].number <= newest /\ newest \in Nat
  BY <1>2 DEF Collected, LastOf
<1> QED
  BY <1>1, <1>3, <1>4, <1>5, <1>6

\* The count of a collection goes up by one, and its last index by one at least.
LEMMA CountedStays ==
    ASSUME ShortDisturbance, Collected, Counted, Collected',
           NEW t \in Telegram, HandleMsgPackData(t)
    PROVE  Counted'
<1> DEFINE ts == collector.telegrams
<1>1. /\ t.number \in Nat /\ t.number >= 1 /\ \A u \in Telegram : u.number \in Nat /\ u.number >= 1
  BY CollectorAssumption DEF Telegram
<1>2. Segment(t.number) \in 0..(N - 1)
  BY <1>1, SegmentInRevolution
<1>3. ts \in Seq(Telegram)
  BY DEF Collected
<1>4. CASE StartsCollection(t)
  <2>1. collector'.telegrams = <<t>>
    BY <1>4 DEF StartsCollection, appendLidarPoints, SegmentPointsCollector
  <2> QED
    BY <1>2, <2>1 DEF Counted, LastOf
<1>5. CASE AppendsSegment(t)
  <2>1. collector'.telegrams = Append(ts, t)
    BY <1>5 DEF AppendsSegment, appendLidarPoints
  <2>2. LastOf(collector'.telegrams) = t.number /\ Len(collector'.telegrams) = Len(ts) + 1
    BY <1>3, <2>1 DEF LastOf
  <2>3. CASE ts = <<>>
    BY <1>2, <2>2, <2>3 DEF Counted
  <2>4. CASE ts # <<>>
    <3>1. Len(ts) \in Nat /\ Len(ts) >= 1 /\ ts[Len(ts)] \in Telegram
      BY <1>3, <2>4
    <3>2. LastOf(ts) \in Nat /\ LastOf(ts) >= 1
      BY <1>1, <3>1 DEF LastOf
    <3>3. /\ Len(ts) \in DOMAIN Append(ts, t) /\ Len(ts) + 1 \in DOMAIN Append(ts, t)
          /\ Append(ts, t)[Len(ts)].number = LastOf(ts) /\ Append(ts, t)[Len(ts) + 1].number = t.number
      BY <1>3, <3>1 DEF LastOf
    <3>4. OfOneRevolution(Append(ts, t))
      BY <2>1 DEF Collected
    <3>5. LastOf(ts) < t.number /\ (LastOf(ts) - 1) \div N = (t.number - 1) \div N
      BY <3>1, <3>3, <3>4 DEF OfOneRevolution
    <3>6. Segment(LastOf(ts)) < Segment(t.number)
      BY <1>1, <3>2, <3>5, SegmentsAscend
    <3>7. Segment(LastOf(ts)) \in 0..(N - 1)
      BY <3>2, SegmentInRevolution
    <3>8. Len(ts) <= Segment(LastOf(ts)) + 1
      BY <2>4 DEF Counted
    <3>9. N \in Nat
      BY CollectorAssumption
    <3> QED
      BY <1>2, <2>2, <3>1, <3>6, <3>7, <3>8, <3>9 DEF Counted
  <2> QED
    BY <2>3, <2>4
<1>6. CASE ResetsCollector(t)
  <2>1. collector'.telegrams = <<>>
    BY <1>6 DEF ResetsCollector, SegmentPointsCollector
  <2> QED
    BY <2>1 DEF Counted
<1> QED
  BY <1>4, <1>5, <1>6 DEF HandleMsgPackData

LEMMA CollectorInvariant ==
    ASSUME ShortDisturbance, N - 1 <= MaxTelegrams
    PROVE  Spec => []IInv
<1>0. N \in Nat /\ N > 0 /\ MaxTelegrams \in Nat /\ CounterLimit \in Nat /\ CounterLimit > 0 /\ MaxGap \in Nat
      /\ MaxDelay \in Nat
  BY CollectorAssumption
<1>1. Init => IInv
  <2> SUFFICES ASSUME Init
               PROVE  IInv
    OBVIOUS
  <2>1. Collected
    BY CollectorAssumption DEF Init, Collected, OfOneRevolution, SegmentPointsCollector
  <2>2. collector.telegrams = <<>> /\ collector.telegram_cnt = 0 /\ Len(collector.telegrams) = 0
    BY DEF Init, SegmentPointsCollector
  <2>3. newest \in 0..MaxTelegrams
    BY <1>0 DEF Init
  <2>4. TypeOK
    BY <1>0, <2>1, <2>2, <2>3 DEF Init, TypeOK, Collected
  <2> QED
    BY <2>1, <2>2, <2>4 DEF IInv, Counted
<1>2. IInv /\ [Next]_vars => IInv'
  <2> SUFFICES ASSUME IInv, [Next]_vars
               PROVE  IInv'
    OBVIOUS
  <2>1. CASE UNCHANGED vars
    BY <2>1 DEF vars, IInv, TypeOK, Collected, Counted, OfOneRevolution, LastOf
  <2>2. CASE Receive
    <3>1. TypeOK /\ Collected /\ Counted
      BY DEF IInv
    <3>2. Collected'
      BY <2>2, <3>1, CollectedStays
    <3>3. PICK t \in Telegram :
              /\ t.number <= newest + MaxGap + 1
              /\ newest' = IF t.number > newest THEN t.number ELSE newest
              /\ streak' = Streak(t)
              /\ HandleMsgPackData(t)
              /\ shown' = {k \in shown \cup Numbers(frame') : k >= newest' - N}
              /\ UNCHANGED <<required, span>>
      BY <2>2 DEF Receive
    <3>4. Counted'
      BY <3>1, <3>2, <3>3, CountedStays
    <3>5. t.number \in 1..MaxTelegrams
      BY DEF Telegram
    <3>6. newest' \in 0..MaxTelegrams /\ newest <= newest'
      BY <1>0, <3>1, <3>3, <3>5 DEF TypeOK
    <3>7. streak' \in 0..(2 * N)
      BY <3>1, <3>3, StreakTyped
    <3>8. collector'.telegram_cnt \in -CounterLimit..(CounterLimit - 1)
      <4>1. TelegramCnt(t.number) \in -CounterLimit..(CounterLimit - 1)
        BY <1>0, <3>5, CounterIsInt
      <4>2. collector'.telegram_cnt = TelegramCnt(t.number)
        BY <3>1, <3>3 DEF HandleMsgPackData, StartsCollection, AppendsSegment, ResetsCollector, appendLidarPoints,
                          SegmentPointsCollector
      <4> QED
        BY <4>1, <4>2
    <3>9. Len(collector'.telegrams) <= N
      <4> DEFINE ts == collector'.telegrams
      <4>1. CASE ts = <<>>
        BY <1>0, <4>1
      <4>2. CASE ts # <<>>
        <5>1. ts \in Seq(Telegram) /\ Len(ts) \in Nat /\ ts[Len(ts)] \in Telegram
          BY <3>2, <4>2 DEF Collected
        <5>2. LastOf(ts) \in Nat /\ LastOf(ts) >= 1
          BY <1>0, <5>1 DEF LastOf, Telegram
        <5>3. Segment(LastOf(ts)) \in 0..(N - 1)
          BY <5>2, SegmentInRevolution
        <5>4. Len(ts) <= Segment(LastOf(ts)) + 1
          BY <3>4, <4>2 DEF Counted
        <5> QED
          BY <1>0, <5>1, <5>3, <5>4
      <4> QED
        BY <4>1, <4>2
    <3>10. frame' \in {<<>>, collector.telegrams}
      BY <3>3 DEF HandleMsgPackData, StartsCollection, AppendsSegment, ResetsCollector, Publishes
    <3>11. frame' \in Seq(Telegram)
      <4>1. <<>> \in Seq(Telegram) /\ collector.telegrams \in Seq(Telegram)
        BY <3>1 DEF Collected
      <4> QED
        BY <3>10, <4>1
    <3>12. \A k \in Numbers(frame') : k \in Nat /\ k <= newest
      <4>1. Numbers(<<>>) = {}
        BY DEF Numbers, Members
      <4> QED
        BY <3>1, <3>10, <4>1, LastIsOfCollector
    <3>13. shown' \subseteq (newest' - N)..newest'
      <4>1. newest \in Int /\ newest' \in Int
        BY <1>0, <3>1, <3>6 DEF TypeOK
      <4>2. ASSUME NEW k \in shown'
            PROVE  k \in Int /\ k >= newest' - N /\ k <= newest'
        <5>1. k \in shown \cup Numbers(frame') /\ k >= newest' - N
          BY <3>3
        <5>2. k \in Int /\ k <= newest
          BY <1>0, <3>1, <3>12, <4>1, <5>1 DEF TypeOK
        <5> QED
          BY <3>6, <4>1, <5>1, <5>2
      <4> QED
        BY <1>0, <4>1, <4>2
    <3>14. TypeOK'
      BY <3>1, <3>2, <3>3, <3>6, <3>7, <3>8, <3>9, <3>11, <3>13 DEF TypeOK, Collected
    <3> QED
      BY <3>2, <3>4, <3>14 DEF IInv
  <2> QED
    BY <2>1, <2>2 DEF Next
<1> QED
  BY <1>1, <1>2, PTL DEF Spec

\* Every state of the collector has its type; in particular it never holds more
\* segments than a revolution has (SegmentPointsCollector, HandleMsgPackData).
THEOREM TypeCorrect ==
    ASSUME ShortDisturbance, N - 1 <= MaxTelegrams
    PROVE  Spec => []TypeOK
<1>1. IInv => TypeOK
  BY DEF IInv
<1> QED
  BY <1>1, CollectorInvariant, PTL

-----------------------------------------------------------------------------
(* The order of the clouds. *)

Rev(k) == (k - 1) \div N

FirstNumber == collector.telegrams[1].number

\* Telegram k is of a later revolution than n, or of the same after segment a.
AfterSegment(k, n, a) == Rev(n) < Rev(k) \/ (Rev(n) = Rev(k) /\ Segment(k) > a)

\* What was shown is behind: when the cloud went out its revolution had reached
\* segment b, so that what comes late is behind segment a, and the collector
\* holds telegrams of a later revolution or of segments after a.
ShownIsBehind ==
    /\ shown \subseteq Nat \ {0}
    /\ \A n \in shown, a, b \in required :
           b - a > MaxDelay =>
               /\ (N * Rev(n)) + 1 + b <= newest
               /\ collector.telegrams # <<>> => AfterSegment(FirstNumber, n, a)

LEMMA RevAndSegment ==
    ASSUME NEW k \in Nat, k >= 1
    PROVE  Rev(k) \in Int /\ Segment(k) \in 0..(N - 1) /\ k = (N * Rev(k)) + Segment(k) + 1
<1>1. N \in Nat /\ N > 0 /\ k - 1 \in Nat
  BY CollectorAssumption
<1>2. k - 1 = (N * ((k - 1) \div N)) + ((k - 1) % N) /\ (k - 1) % N \in 0..(N - 1) /\ (k - 1) \div N \in Int
  BY <1>1
<1>3. N * ((k - 1) \div N) \in Int
  BY <1>1, <1>2
<1> QED
  BY <1>1, <1>2, <1>3 DEF Rev, Segment

\* Multiples of the revolution keep the order of the revolutions.
LEMMA RevTimesN ==
    ASSUME NEW p \in Int, NEW q \in Int, p < q
    PROVE  N * p \in Int /\ N * q \in Int /\ (N * p) + N <= N * q
<1>1. N \in Nat /\ N > 0
  BY CollectorAssumption
<1>2. N * (q - p) = N * q - N * p
  BY <1>1
<1>3. N * (q - p) >= N
  BY <1>1
<1>4. N * p \in Int /\ N * q \in Int
  BY <1>1
<1> QED
  BY <1>1, <1>2, <1>3, <1>4

\* Telegrams of an earlier revolution have smaller numbers.
LEMMA RevOrder ==
    ASSUME NEW n \in Nat, NEW k \in Nat, n >= 1, k >= 1, Rev(n) < Rev(k)
    PROVE  n < k
<1>1. /\ Rev(n) \in Int /\ Segment(n) \in 0..(N - 1) /\ n = (N * Rev(n)) + Segment(n) + 1
      /\ Rev(k) \in Int /\ Segment(k) \in 0..(N - 1) /\ k = (N * Rev(k)) + Segment(k) + 1
  BY RevAndSegment
<1>2. N * Rev(n) \in Int /\ N * Rev(k) \in Int /\ (N * Rev(n)) + N <= N * Rev(k)
  BY <1>1, RevTimesN
<1> QED
  BY <1>1, <1>2, CollectorAssumption

LEMMA PastSegment ==
    ASSUME NEW n \in Nat, NEW k \in Nat, n >= 1, k >= 1, NEW a \in Nat, k > (N * Rev(n)) + a + 1
    PROVE  AfterSegment(k, n, a)
<1>1. /\ Rev(n) \in Int /\ Rev(k) \in Int
      /\ Segment(k) \in 0..(N - 1) /\ k = (N * Rev(k)) + Segment(k) + 1
  BY RevAndSegment
<1>2. N * Rev(n) \in Int /\ N * Rev(k) \in Int /\ N \in Nat
  BY <1>1, CollectorAssumption
<1>3. ~(Rev(k) < Rev(n))
  <2> SUFFICES ASSUME Rev(k) < Rev(n)
               PROVE  FALSE
    OBVIOUS
  <2>1. (N * Rev(k)) + N <= N * Rev(n)
    BY <1>1, RevTimesN
  <2> QED
    BY <1>1, <1>2, <2>1
<1>4. Rev(n) = Rev(k) => Segment(k) > a
  BY <1>1, <1>2
<1> QED
  BY <1>1, <1>3, <1>4 DEF AfterSegment

\* The telegrams of the collector are of the revolution of its first one.
LEMMA CollectorFacts ==
    ASSUME Collected, NEW k \in Numbers(collector.telegrams)
    PROVE  /\ k \in Nat /\ k >= 1 /\ k <= newest /\ collector.telegrams # <<>>
           /\ FirstNumber \in Nat /\ FirstNumber >= 1 /\ FirstNumber <= k
           /\ Rev(k) = Rev(FirstNumber)
<1> DEFINE ts == collector.telegrams
<1>1. k \in Nat /\ k >= 1 /\ k <= newest
  BY LastIsOfCollector
<1>2. PICK i \in DOMAIN ts : k = ts[i].number
  BY DEF Numbers, Members
<1>3. ts \in Seq(Telegram) /\ ts # <<>> /\ DOMAIN ts = 1..Len(ts) /\ Len(ts) \in Nat /\ 1 \in DOMAIN ts
  BY <1>2 DEF Collected
<1>4. ts[1] \in Telegram
  BY <1>3
<1>5. FirstNumber \in Nat /\ FirstNumber >= 1
  BY <1>4, CollectorAssumption DEF Telegram, FirstNumber
<1>6. FirstNumber <= k
  <2>1. CASE i = 1
    BY <1>1, <1>2, <2>1 DEF FirstNumber
  <2>2. CASE 1 < i
    BY <1>1, <1>2, <1>3, <1>5, <2>2 DEF Collected, OfOneRevolution, FirstNumber
  <2> QED
    BY <1>2, <1>3, <2>1, <2>2
<1>7. Rev(k) = Rev(FirstNumber)
  BY <1>2, <1>3 DEF Collected, OfOneRevolution, FirstNumber, Rev
<1> QED
  BY <1>1, <1>3, <1>5, <1>6, <1>7

\* A cloud has a telegram of every segment that is required.
LEMMA CloudCovers ==
    ASSUME NEW t, HandleMsgPackData(t), Numbers(frame') # {}
    PROVE  /\ frame' = collector.telegrams
           /\ \A r \in required : \E u \in Numbers(collector.telegrams) : Segment(u) = r
<1>1. Numbers(<<>>) = {}
  BY DEF Numbers, Members
<1>2. Complete /\ frame' = collector.telegrams
  BY <1>1 DEF HandleMsgPackData, StartsCollection, AppendsSegment, ResetsCollector, Publishes
<1>3. PICK l : l \in LayersOf(collector.telegrams)
  BY <1>2 DEF Complete, NothingCollected
<1>4. required \subseteq CoveredIn(collector.telegrams, l)
  BY <1>2, <1>3 DEF Complete, allSegmentsCovered
<1>5. \A r \in CoveredIn(collector.telegrams, l) : \E u \in Numbers(collector.telegrams) : Segment(u) = r
  BY DEF CoveredIn, Numbers
<1> QED
  BY <1>2, <1>4, <1>5

\* What is published comes after all that was shown.
LEMMA PublishedAfterShown ==
    ASSUME WideRange, TypeOK, Collected, ShownIsBehind, NEW t, HandleMsgPackData(t),
           NEW k \in Numbers(frame'), NEW n \in shown
    PROVE  n < k
<1>1. /\ frame' = collector.telegrams
      /\ \A r \in required : \E u \in Numbers(collector.telegrams) : Segment(u) = r
  BY CloudCovers
<1>2. required \in Ranges /\ required \subseteq 0..(N - 1)
  BY CollectorAssumption DEF TypeOK
<1>3. PICK a \in required, b \in required : b - a > MaxDelay
  BY <1>2 DEF WideRange
<1>4. PICK u \in Numbers(collector.telegrams) : Segment(u) = a
  BY <1>1
<1>5. /\ u \in Nat /\ u >= 1 /\ FirstNumber \in Nat /\ FirstNumber >= 1 /\ FirstNumber <= u
      /\ Rev(u) = Rev(FirstNumber) /\ collector.telegrams # <<>>
  BY CollectorFacts
<1>6. /\ Rev(u) \in Int /\ u = (N * Rev(u)) + Segment(u) + 1
      /\ FirstNumber = (N * Rev(FirstNumber)) + Segment(FirstNumber) + 1
      /\ Segment(FirstNumber) \in 0..(N - 1) /\ Segment(u) \in 0..(N - 1)
  BY <1>5, RevAndSegment
<1>7. N * Rev(u) \in Int
  BY <1>6, CollectorAssumption
<1>8. ~(Segment(FirstNumber) > a)
  BY <1>4, <1>5, <1>6, <1>7
<1>9. AfterSegment(FirstNumber, n, a)
  BY <1>3, <1>5 DEF ShownIsBehind
<1>10. k \in Nat /\ k >= 1 /\ Rev(k) = Rev(FirstNumber)
  BY <1>1, CollectorFacts
<1>11. Rev(n) < Rev(k)
  BY <1>8, <1>9, <1>10 DEF AfterSegment
<1>12. n \in Nat /\ n >= 1
  BY DEF ShownIsBehind
<1> QED
  BY <1>10, <1>11, <1>12, RevOrder

\* The order of what was shown stays when a telegram comes.
LEMMA BehindStays ==
    ASSUME WideRange, TypeOK, Collected, Collected', ShownIsBehind, Receive
    PROVE  ShownIsBehind'
<1>1. PICK t \in Telegram :
          /\ t.number >= newest - MaxDelay
          /\ newest' = IF t.number > newest THEN t.number ELSE newest
          /\ HandleMsgPackData(t)
          /\ shown' = {k \in shown \cup Numbers(frame') : k >= newest' - N}
          /\ UNCHANGED <<required, span>>
  BY DEF Receive
<1> DEFINE ts == collector.telegrams
           k == t.number
<1>2. /\ k \in Nat /\ k >= 1 /\ newest \in Nat /\ MaxDelay \in Nat /\ N \in Nat /\ N > 0
      /\ required \subseteq 0..(N - 1) /\ required' = required
  BY <1>1, CollectorAssumption, SMTT(30) DEF Telegram, Collected, TypeOK
<1>3. newest' \in Nat /\ newest <= newest'
  BY <1>1, <1>2
<1>4. ASSUME NEW n \in Numbers(frame')
      PROVE  n \in Nat /\ n >= 1 /\ \A b \in required : (N * Rev(n)) + 1 + b <= newest
  <2>1. /\ frame' = ts
        /\ \A r \in required : \E u \in Numbers(ts) : Segment(u) = r
    BY <1>1, <1>4, CloudCovers
  <2>2. n \in Nat /\ n >= 1 /\ Rev(n) = Rev(FirstNumber)
    BY <2>1, CollectorFacts
  <2>3. ASSUME NEW b \in required
        PROVE  (N * Rev(n)) + 1 + b <= newest
    <3>1. PICK u \in Numbers(ts) : Segment(u) = b
      BY <2>1
    <3>2. u \in Nat /\ u >= 1 /\ u <= newest /\ Rev(u) = Rev(n)
      BY <2>2, CollectorFacts
    <3>3. u = (N * Rev(u)) + b + 1 /\ Rev(u) \in Int
      BY <3>1, <3>2, RevAndSegment
    <3>4. N * Rev(u) \in Int
      BY <1>2, <3>3
    <3> QED
      BY <1>2, <3>2, <3>3, <3>4
  <2> QED
    BY <2>2, <2>3
<1>5. shown' \subseteq Nat \ {0}
  <2> SUFFICES ASSUME NEW n \in shown'
               PROVE  n \in Nat /\ n >= 1
    OBVIOUS
  <2>1. CASE n \in Numbers(frame')
    BY <1>4, <2>1
  <2>2. CASE n \in shown
    BY <2>2 DEF ShownIsBehind
  <2> QED
    BY <1>1, <2>1, <2>2
<1>6. ASSUME NEW n \in shown', NEW a \in required, NEW b \in required, b - a > MaxDelay
      PROVE  (N * Rev(n)) + 1 + b <= newest
  BY <1>1, <1>4, <1>6 DEF ShownIsBehind
<1>7. ASSUME NEW n \in shown', NEW a \in required, NEW b \in required, b - a > MaxDelay
      PROVE  (N * Rev(n)) + 1 + b <= newest'
  <2>1. n \in Nat /\ n >= 1
    BY <1>5
  <2>2. N * Rev(n) \in Int
    BY <1>2, <2>1, RevAndSegment
  <2> QED
    BY <1>2, <1>3, <1>6, <1>7, <2>2
<1>8. ASSUME NEW n \in shown', NEW a \in required, NEW b \in required, b - a > MaxDelay,
             collector'.telegrams # <<>>
      PROVE  AfterSegment(collector'.telegrams[1].number, n, a)
  <2>1. CASE StartsCollection(t)
    <3>1. collector'.telegrams[1].number = k
      BY <2>1 DEF StartsCollection, appendLidarPoints, SegmentPointsCollector
    <3>2. n \in Nat /\ n >= 1
      BY <1>5
    <3>3. N * Rev(n) \in Int
      BY <1>2, <3>2, RevAndSegment
    <3>4. k > (N * Rev(n)) + a + 1 /\ a \in Nat
      BY <1>1, <1>2, <1>6, <1>8, <3>3, SMTT(30)
    <3> QED
      BY <1>2, <3>1, <3>2, <3>4, PastSegment
  <2>2. CASE AppendsSegment(t)
    <3>1. collector'.telegrams = Append(ts, t) /\ frame' = <<>>
      BY <2>2 DEF AppendsSegment, appendLidarPoints
    <3>2. ts # <<>> /\ ts \in Seq(Telegram)
      <4>1. LayersOf(ts) # {}
        BY <2>2 DEF AppendsSegment, Restarts, NothingCollected
      <4> QED
        BY <4>1 DEF LayersOf, Members, Collected
    <3>3. collector'.telegrams[1] = ts[1]
      BY <3>1, <3>2
    <3>4. n \in shown
      BY <1>1, <3>1 DEF Numbers, Members
    <3> QED
      BY <1>8, <3>2, <3>3, <3>4 DEF ShownIsBehind, FirstNumber
  <2>3. CASE ResetsCollector(t)
    BY <1>8, <2>3 DEF ResetsCollector, SegmentPointsCollector
  <2> QED
    BY <1>1, <2>1, <2>2, <2>3 DEF HandleMsgPackData
<1> QED
  BY <1>2, <1>5, <1>7, <1>8 DEF ShownIsBehind, FirstNumber

\* No telegram is in two clouds and the clouds go forward in time, whatever is
\* lost, doubled or late, if the azimuth range is wider than a telegram is late
\* (HandleMsgPackData publishes and restarts).
THEOREM CloudsAscend ==
    ASSUME ShortDisturbance, N - 1 <= MaxTelegrams, WideRange
    PROVE  Spec => FramesAscend
<1>1. Init => ShownIsBehind
  BY DEF Init, ShownIsBehind
<1>2. IInv /\ IInv' /\ ShownIsBehind /\ [Next]_vars => ShownIsBehind'
  <2> SUFFICES ASSUME IInv, IInv', ShownIsBehind, [Next]_vars
               PROVE  ShownIsBehind'
    OBVIOUS
  <2>1. CASE UNCHANGED vars
    BY <2>1 DEF vars, ShownIsBehind, FirstNumber
  <2>2. CASE Next
    BY <2>2, BehindStays DEF Next, IInv
  <2> QED
    BY <2>1, <2>2
<1>3. IInv /\ ShownIsBehind /\ [Next]_vars => [\A k \in Numbers(frame'), n \in shown : n < k]_vars
  <2> SUFFICES ASSUME IInv, ShownIsBehind, Next,
                      NEW k \in Numbers(frame'), NEW n \in shown
               PROVE  n < k
    OBVIOUS
  <2>1. PICK t \in Telegram : HandleMsgPackData(t)
    BY DEF Next, Receive
  <2> QED
    BY <2>1, PublishedAfterShown DEF IInv
<1> QED
  BY <1>1, <1>2, <1>3, CollectorInvariant, PTL DEF Spec, FramesAscend

-----------------------------------------------------------------------------
(* Undisturbed revolutions. *)

FirstOfRevolution == newest - Segment(newest)

\* The telegrams of the revolution so far, all with all layers.
RevolutionSoFar == [i \in 1..(Segment(newest) + 1) |-> [number |-> FirstOfRevolution + i - 1, layers |-> Layers]]

InCollector == collector = [telegrams |-> RevolutionSoFar, telegram_cnt |-> TelegramCnt(newest)]

AlreadyShown ==
    /\ required \subseteq 0..(Segment(newest) - 1)
    /\ {k \in FirstOfRevolution..newest : Segment(k) \in required} \subseteq shown

\* A revolution that arrives complete and in order is in the collector, or what
\* is required of it has been shown.
InOrder ==
    /\ streak > 0 => newest >= 1
    /\ (streak > Segment(newest) /\ \A k \in FirstOfRevolution..newest : TelegramCnt(k) > 0) =>
           InCollector \/ AlreadyShown


\* The remainder is what is left of a number after multiples of N.
LEMMA RevUnique ==
    ASSUME NEW k \in Nat, k >= 1, NEW q \in Int, NEW r \in 0..(N - 1), k = (N * q) + r + 1
    PROVE  Rev(k) = q /\ Segment(k) = r
<1>1. /\ Rev(k) \in Int /\ Segment(k) \in 0..(N - 1) /\ k = (N * Rev(k)) + Segment(k) + 1
  BY RevAndSegment
<1>2. N \in Nat /\ N > 0 /\ N * q \in Int /\ N * Rev(k) \in Int
  BY <1>1, CollectorAssumption
<1>3. ~(q < Rev(k))
  <2> SUFFICES ASSUME q < Rev(k)
               PROVE  FALSE
    OBVIOUS
  <2>1. (N * q) + N <= N * Rev(k)
    BY <1>1, RevTimesN
  <2> QED
    BY <1>1, <1>2, <2>1
<1>4. ~(Rev(k) < q)
  <2> SUFFICES ASSUME Rev(k) < q
               PROVE  FALSE
    OBVIOUS
  <2>1. (N * Rev(k)) + N <= N * q
    BY <1>1, RevTimesN
  <2> QED
    BY <1>1, <1>2, <2>1
<1>5. Rev(k) = q
  BY <1>1, <1>3, <1>4
<1> QED
  BY <1>1, <1>2, <1>5

\* The next telegram is of the next segment, or of the first one.
LEMMA NextSegment ==
    ASSUME NEW k \in Nat, k >= 1
    PROVE  /\ Segment(k) = N - 1 => Segment(k + 1) = 0
           /\ Segment(k) # N - 1 => (Segment(k) < N - 1 /\ Segment(k + 1) = Segment(k) + 1)
<1>1. /\ Rev(k) \in Int /\ Segment(k) \in 0..(N - 1) /\ k = (N * Rev(k)) + Segment(k) + 1
  BY RevAndSegment
<1>2. N \in Nat /\ N > 0 /\ N * Rev(k) \in Int /\ k + 1 \in Nat /\ k + 1 >= 1
  BY <1>1, CollectorAssumption
<1>3. CASE Segment(k) = N - 1
  <2>1. N * (Rev(k) + 1) = (N * Rev(k)) + N /\ Rev(k) + 1 \in Int
    BY <1>1, <1>2
  <2>2. k + 1 = (N * (Rev(k) + 1)) + 0 + 1 /\ 0 \in 0..(N - 1)
    BY <1>1, <1>2, <1>3, <2>1
  <2>3. Segment(k + 1) = 0
    BY <1>2, <2>1, <2>2, RevUnique
  <2> QED
    BY <1>3, <2>3
<1>4. CASE Segment(k) # N - 1
  <2>1. k + 1 = (N * Rev(k)) + (Segment(k) + 1) + 1 /\ Segment(k) + 1 \in 0..(N - 1)
    BY <1>1, <1>2, <1>4
  <2>2. Segment(k + 1) = Segment(k) + 1
    BY <1>1, <1>2, <2>1, RevUnique
  <2>3. Segment(k) \in 0..(N - 1) /\ N \in Nat
    BY <1>1, <1>2
  <2>4. Segment(k) < N - 1
    BY <1>4, <2>3
  <2> QED
    BY <1>4, <2>2, <2>4
<1> QED
  BY <1>3, <1>4

\* The segments of a revolution are counted from its first telegram.
LEMMA SegmentsOfRevolution ==
    ASSUME NEW k \in Nat, k >= 1
    PROVE  /\ k - Segment(k) >= 1
           /\ \A j \in (k - Segment(k))..k : j \in Nat /\ j >= 1 /\ Segment(j) = j - (k - Segment(k))
<1>1. /\ Rev(k) \in Int /\ Segment(k) \in 0..(N - 1) /\ k = (N * Rev(k)) + Segment(k) + 1
  BY RevAndSegment
<1>2. N \in Nat /\ N > 0 /\ N * Rev(k) \in Int
  BY <1>1, CollectorAssumption
<1>3. N * Rev(k) >= 0
  <2>1. ~(Rev(k) < 0)
    <3> SUFFICES ASSUME Rev(k) < 0
                 PROVE  FALSE
      OBVIOUS
    <3>1. (N * Rev(k)) + N <= N * 0
      BY <1>1, RevTimesN
    <3> QED
      BY <1>1, <1>2, <3>1
  <2> QED
    BY <1>1, <1>2, <2>1
<1>4. ASSUME NEW j \in (k - Segment(k))..k
      PROVE  j \in Nat /\ j >= 1 /\ Segment(j) = j - (k - Segment(k))
  <2>1. j \in Nat /\ j >= 1 /\ j - (k - Segment(k)) \in 0..(N - 1)
    BY <1>1, <1>2, <1>3
  <2>2. j = (N * Rev(k)) + (j - (k - Segment(k))) + 1
    BY <1>1, <1>2, <2>1
  <2> QED
    BY <1>1, <2>1, <2>2, RevUnique
<1> QED
  BY <1>1, <1>2, <1>3, <1>4


\* What the collector holds of a revolution that came complete and in order.
LEMMA SoFarFacts ==
    ASSUME newest \in Nat, newest >= 1, collector.telegrams = RevolutionSoFar
    PROVE  /\ LayersOf(collector.telegrams) = Layers
           /\ \A l \in Layers : CoveredIn(collector.telegrams, l) = 0..Segment(newest)
           /\ Numbers(collector.telegrams) = FirstOfRevolution..newest
           /\ lastSegmentIdx = Segment(newest)
<1> DEFINE ts == collector.telegrams
           f == FirstOfRevolution
           g == Segment(newest)
           Full(j) == [number |-> j, layers |-> Layers]
<1>1. /\ g \in 0..(N - 1) /\ f = newest - g /\ f >= 1 /\ N \in Nat
      /\ \A j \in f..newest : j \in Nat /\ j >= 1 /\ Segment(j) = j - f
  BY RevAndSegment, SegmentsOfRevolution, CollectorAssumption DEF FirstOfRevolution
<1>2. ts = [i \in 1..(g + 1) |-> Full(f + i - 1)]
  BY DEF RevolutionSoFar
<1> HIDE DEF f, g, ts
<1>3. Members(ts) = {Full(j) : j \in f..newest}
  <2>1. ASSUME NEW j \in f..newest
        PROVE  j - f + 1 \in DOMAIN ts /\ ts[j - f + 1] = Full(j)
    <3>1. j - f + 1 \in 1..(g + 1) /\ f + (j - f + 1) - 1 = j
      BY <1>1
    <3> QED
      BY <1>2, <3>1
  <2>2. ASSUME NEW i \in DOMAIN ts
        PROVE  \E j \in f..newest : ts[i] = Full(j)
    <3>1. i \in 1..(g + 1) /\ f + i - 1 \in f..newest
      BY <1>1, <1>2
    <3> QED
      BY <1>2, <3>1
  <2> QED
    BY <2>1, <2>2 DEF Members
<1>4. \A j : Full(j).number = j /\ Full(j).layers = Layers
  OBVIOUS
<1> HIDE DEF Full
<1>5. Numbers(ts) = f..newest
  BY <1>3, <1>4 DEF Numbers
<1>6. newest \in f..newest
  BY <1>1
<1>7. LayersOf(ts) = Layers
  BY <1>3, <1>6, <1>4 DEF LayersOf
<1>8. ASSUME NEW l \in Layers
      PROVE  CoveredIn(ts, l) = 0..g
  <2>1. CoveredIn(ts, l) = {Segment(j) : j \in f..newest}
    <3>1. \A u \in Members(ts) : l \in u.layers
      BY <1>3, <1>4
    <3>2. {u \in Members(ts) : l \in u.layers} = Members(ts)
      BY <3>1
    <3>3. CoveredIn(ts, l) = {Segment(u.number) : u \in Members(ts)}
      BY <3>2 DEF CoveredIn
    <3> QED
      BY <1>3, <1>4, <3>3
  <2>2. \A r \in 0..g : f + r \in f..newest /\ Segment(f + r) = r
    BY <1>1
  <2>3. \A j \in f..newest : Segment(j) \in 0..g
    BY <1>1
  <2> QED
    BY <2>1, <2>2, <2>3
<1>9. lastSegmentIdx = g
  <2>1. Len(ts) = g + 1 /\ ts[g + 1] = Full(newest) /\ ts # <<>>
    <3>1. g + 1 \in Nat /\ g + 1 \in 1..(g + 1) /\ f + (g + 1) - 1 = newest /\ g + 1 > 0
      BY <1>1
    <3>2. DOMAIN ts = 1..(g + 1) /\ ts[g + 1] = Full(newest)
      BY <1>2, <3>1
    <3>3. Len(ts) = g + 1
      BY <1>2, <3>1
    <3> QED
      BY <3>1, <3>2, <3>3
  <2> QED
    BY <1>4, <2>1 DEF lastSegmentIdx, ts, g
<1> QED
  BY <1>5, <1>7, <1>8, <1>9 DEF ts, f, g

\* The next telegram that is published or collected; what of the cloud stays in
\* the history.
LEMMA ShownGrows ==
    ASSUME NEW j \in Int, j \in shown \/ (Complete /\ j \in Numbers(collector.telegrams)),
           NEW t, HandleMsgPackData(t), j >= newest' - N,
           shown' = {k \in shown \cup Numbers(frame') : k >= newest' - N}
    PROVE  j \in shown'
<1>1. CASE Complete
  <2>1. Restarts(t)
    BY <1>1 DEF Restarts
  <2>2. frame' = collector.telegrams
    BY <1>1, <2>1 DEF HandleMsgPackData, StartsCollection, AppendsSegment, ResetsCollector, Publishes
  <2> QED
    BY <2>2
<1> QED
  BY <1>1


\* A streak of two or more goes on with the next number.
LEMMA StreakFacts ==
    ASSUME TypeOK, NEW t \in Telegram, streak' = Streak(t), streak' > 0,
           newest' = IF t.number > newest THEN t.number ELSE newest
    PROVE  /\ t = [number |-> t.number, layers |-> Layers] /\ t.number \in Nat /\ t.number >= 1
           /\ t.number > newest /\ newest' = t.number /\ newest \in Nat /\ streak \in 0..(2 * N)
           /\ \/ streak' = 1
              \/ t.number = newest + 1 /\ (streak' = streak + 1 \/ (streak = 2 * N /\ streak' = streak))
<1>1. newest \in Nat /\ t.number \in Nat /\ t.number >= 1 /\ streak \in 0..(2 * N)
  BY CollectorAssumption DEF TypeOK, Telegram
<1>2. t.layers = Layers /\ t.number > newest
  BY <1>1 DEF Streak
<1>3. t = [number |-> t.number, layers |-> t.layers]
  BY DEF Telegram
<1>4. \/ t.number > newest + 1 /\ streak' = 1
      \/ ~(t.number > newest + 1) /\ (streak' = streak + 1 \/ (streak = 2 * N /\ streak' = streak))
  BY <1>2 DEF Streak
<1> QED
  BY <1>1, <1>2, <1>3, <1>4

\* The first telegram of a revolution starts a collection.
LEMMA FirstRestarts ==
    ASSUME ShortDisturbance, Collected, NEW t \in Telegram, HandleMsgPackData(t),
           t.number > newest, t.number <= newest + MaxGap + 1, Segment(t.number) = 0
    PROVE  StartsCollection(t)
<1> DEFINE ts == collector.telegrams
           k == t.number
<1>1. /\ k \in Nat /\ k >= 1 /\ newest \in Nat /\ N \in Nat /\ MaxGap \in Nat /\ MaxDelay \in Nat
      /\ MaxGap + MaxDelay + 1 < N
  BY CollectorAssumption DEF Telegram, Collected, ShortDisturbance
<1>2. CASE LayersOf(ts) = {}
  BY <1>2 DEF HandleMsgPackData, AppendsSegment, ResetsCollector, Restarts, NothingCollected
<1>3. CASE LayersOf(ts) # {}
  <2>1. ts # <<>>
    BY <1>3 DEF LayersOf, Members
  <2> DEFINE m == LastOf(ts)
  <2>2. m <= newest /\ newest <= m + MaxDelay /\ ts \in Seq(Telegram)
    BY <2>1 DEF Collected
  <2>3. ts[Len(ts)] \in Telegram
    BY <2>1, <2>2
  <2>4. m \in Nat /\ m >= 1
    BY <2>3, CollectorAssumption DEF LastOf, Telegram
  <2>5. lastSegmentIdx = Segment(m)
    BY <2>1 DEF lastSegmentIdx, LastOf
  <2> HIDE DEF m
  <2>6. /\ Rev(m) \in Int /\ Segment(m) \in 0..(N - 1) /\ m = (N * Rev(m)) + Segment(m) + 1
        /\ Rev(k) \in Int /\ k = (N * Rev(k)) + 1
    BY <1>1, <2>4, RevAndSegment
  <2>7. N * Rev(m) \in Int /\ N * Rev(k) \in Int
    BY <1>1, <2>6
  <2>8. m < k /\ k < m + N
    BY <1>1, <2>2, <2>4
  <2>9. Segment(m) # 0
    <3> SUFFICES ASSUME Segment(m) = 0
                 PROVE  FALSE
      OBVIOUS
    <3>1. N * Rev(m) < N * Rev(k) /\ N * Rev(k) < (N * Rev(m)) + N
      BY <1>1, <2>6, <2>7, <2>8
    <3>2. ~(Rev(k) < Rev(m))
      BY <1>1, <2>6, <2>7, <3>1, RevTimesN
    <3>3. ~(Rev(m) < Rev(k))
      BY <1>1, <2>6, <2>7, <3>1, RevTimesN
    <3>4. Rev(k) = Rev(m)
      BY <2>6, <3>2, <3>3
    <3> QED
      BY <2>7, <3>1, <3>4
  <2>10. lastSegmentIdx > Segment(k)
    BY <2>5, <2>6, <2>9, <1>1
  <2> QED
    BY <2>10 DEF HandleMsgPackData, AppendsSegment, ResetsCollector, Restarts
<1> QED
  BY <1>2, <1>3


\* The telegrams of a revolution are not older than what the history keeps.
LEMMA RevolutionInHistory ==
    ASSUME newest \in Nat, newest >= 1, newest' = newest + 1
    PROVE  \A j \in FirstOfRevolution..newest : j \in Nat /\ j >= newest' - N
<1>1. Segment(newest) \in 0..(N - 1) /\ N \in Nat
  BY RevAndSegment, CollectorAssumption
<1>2. \A j \in FirstOfRevolution..newest : j \in Nat
  BY SegmentsOfRevolution DEF FirstOfRevolution
<1> QED
  BY <1>1, <1>2 DEF FirstOfRevolution

\* The next telegram of a revolution in order is collected, or the cloud has
\* all that is required and goes out.
LEMMA InOrderContinues ==
    ASSUME ShortDisturbance, TypeOK, newest >= 1, InCollector \/ AlreadyShown,
           NEW t \in Telegram, HandleMsgPackData(t), t = [number |-> newest + 1, layers |-> Layers],
           newest' = newest + 1, required' = required,
           shown' = {k \in shown \cup Numbers(frame') : k >= newest' - N},
           Segment(newest + 1) # 0, TelegramCnt(newest) > 0, TelegramCnt(newest + 1) > 0
    PROVE  InCollector' \/ AlreadyShown'
<1> DEFINE g == Segment(newest)
           f == FirstOfRevolution
           ts == collector.telegrams
<1>1. /\ newest \in Nat /\ N \in Nat /\ CounterLimit \in Nat /\ N <= CounterLimit /\ N > 1
  BY CollectorAssumption DEF TypeOK, ShortDisturbance
<1>2. g \in 0..(N - 1) /\ g < N - 1 /\ Segment(newest + 1) = g + 1
  BY <1>1, RevAndSegment, NextSegment
<1>3. FirstOfRevolution' = f /\ f \in Int /\ f = newest - g /\ Segment(newest)' = g + 1
  <2>1. Segment(newest)' = g + 1
    BY <1>2 DEF Segment
  <2> QED
    BY <1>1, <1>2, <2>1 DEF FirstOfRevolution
<1>4. \A j \in f..newest : j \in Nat /\ j >= newest' - N
  BY <1>1, RevolutionInHistory
<1>5. \A j \in f..newest : Segment(j) \in required /\ (j \in shown \/ (Complete /\ j \in Numbers(ts)))
          => j \in shown'
  BY <1>4, ShownGrows
<1>6. ASSUME required \subseteq 0..g,
             \A j \in f..newest : Segment(j) \in required => j \in shown \/ (Complete /\ j \in Numbers(ts))
      PROVE  AlreadyShown'
  <2>1. required' \subseteq 0..(Segment(newest)' - 1)
    BY <1>2, <1>3, <1>6
  <2>2. ASSUME NEW j \in f..(newest + 1), Segment(j) \in required
        PROVE  j \in shown'
    <3>1. j # newest + 1
      BY <1>2, <1>6, <2>2
    <3>2. j \in f..newest
      BY <1>1, <1>3, <3>1
    <3> QED
      BY <1>5, <1>6, <2>2, <3>2
  <2>3. {j \in f..(newest + 1) : Segment(j) \in required} \subseteq shown'
    BY <2>2
  <2> QED
    BY <1>3, <2>1, <2>3 DEF AlreadyShown, Segment
<1>7. CASE AlreadyShown
  <2>1. required \subseteq 0..g
    BY <1>2, <1>7 DEF AlreadyShown
  <2>2. \A j \in f..newest : Segment(j) \in required => j \in shown
    BY <1>7 DEF AlreadyShown
  <2> QED
    BY <1>6, <2>1, <2>2
<1>8. CASE InCollector
  <2>1. ts = RevolutionSoFar /\ collector.telegram_cnt = TelegramCnt(newest)
    BY <1>8 DEF InCollector
  <2>2. /\ LayersOf(ts) = Layers /\ \A l \in Layers : CoveredIn(ts, l) = 0..g
        /\ Numbers(ts) = f..newest /\ lastSegmentIdx = g
    BY <1>1, <2>1, SoFarFacts
  <2>3. Layers # {}
    BY CollectorAssumption
  <2>4. CASE Complete
    <3>1. required \subseteq 0..g
      BY <2>2, <2>3, <2>4 DEF Complete, allSegmentsCovered
    <3>2. \A j \in f..newest : Segment(j) \in required => j \in shown \/ (Complete /\ j \in Numbers(ts))
      BY <2>2, <2>4
    <3> QED
      BY <1>6, <3>1, <3>2
  <2>5. CASE ~Complete
    <3>1. TelegramCnt(newest) \in Int /\ TelegramCnt(newest + 1) \in Int
      BY <1>1, CounterIsInt
    <3>2. TelegramCnt(newest + 1) - TelegramCnt(newest) = newest + 1 - newest
      BY <1>1, CounterOrders
    <3>3. TelegramCnt(newest + 1) > TelegramCnt(newest)
      BY <1>1, <3>1, <3>2
    <3>4. ~NothingCollected
      BY <2>1, <2>2, <2>3, <3>1 DEF NothingCollected
    <3>5. ~Restarts(t)
      <4>1. ~(lastSegmentIdx > Segment(t.number))
        BY <1>2, <2>2
      <4> QED
        BY <2>5, <3>4, <4>1 DEF Restarts
    <3>6. ~(TelegramCnt(t.number) <= collector.telegram_cnt)
      BY <2>1, <3>1, <3>3
    <3>7. collector' = [telegrams |-> Append(ts, t), telegram_cnt |-> TelegramCnt(newest + 1)]
      BY <3>5, <3>6 DEF HandleMsgPackData, StartsCollection, ResetsCollector, AppendsSegment, appendLidarPoints
    <3>8. Append(ts, t) = [i \in 1..(g + 2) |-> [number |-> f + i - 1, layers |-> Layers]]
      <4> DEFINE a == [i \in 1..(g + 1) |-> [number |-> f + i - 1, layers |-> Layers]]
      <4>1. ts = a
        BY <2>1 DEF RevolutionSoFar
      <4>2. /\ g + 1 \in Nat /\ t = [number |-> f + (g + 2) - 1, layers |-> Layers]
            /\ 1..(g + 2) = 1..((g + 1) + 1) /\ (g + 1) + 1 = g + 2
        BY <1>1, <1>2, <1>3
      <4>3. Len(a) = g + 1 /\ DOMAIN a = 1..(g + 1)
        BY <4>2
      <4>4. Append(a, t) = [i \in 1..(Len(a) + 1) |-> IF i <= Len(a) THEN a[i] ELSE t]
        BY <4>2, <4>3
      <4> HIDE DEF f, g
      <4>5. \A i \in 1..(g + 2) : (IF i <= g + 1 THEN a[i] ELSE t) = [number |-> f + i - 1, layers |-> Layers]
        BY <4>2
      <4> QED
        BY <4>1, <4>2, <4>3, <4>4, <4>5
    <3>9. RevolutionSoFar' = Append(ts, t)
      <4>1. (g + 1) + 1 = g + 2
        BY <1>2
      <4> QED
        BY <1>3, <3>8, <4>1 DEF RevolutionSoFar
    <3>10. TelegramCnt(newest)' = TelegramCnt(newest + 1)
      BY DEF TelegramCnt
    <3> QED
      BY <3>7, <3>9, <3>10 DEF InCollector
  <2> QED
    BY <2>4, <2>5
<1> QED
  BY <1>7, <1>8


LEMMA InOrderStays ==
    ASSUME ShortDisturbance, TypeOK, Collected, InOrder, Receive
    PROVE  InOrder'
<1>1. PICK t \in Telegram :
          /\ t.number <= newest + MaxGap + 1
          /\ newest' = IF t.number > newest THEN t.number ELSE newest
          /\ streak' = Streak(t)
          /\ HandleMsgPackData(t)
          /\ shown' = {k \in shown \cup Numbers(frame') : k >= newest' - N}
          /\ UNCHANGED <<required, span>>
  BY DEF Receive
<1> DEFINE k == t.number
<1>2. N \in Nat /\ N > 1
  BY CollectorAssumption DEF ShortDisturbance
<1>3. streak' > 0 =>
          /\ t = [number |-> k, layers |-> Layers] /\ k \in Nat /\ k >= 1
          /\ k > newest /\ newest' = k /\ newest \in Nat /\ streak \in 0..(2 * N)
          /\ \/ streak' = 1
             \/ k = newest + 1 /\ (streak' = streak + 1 \/ (streak = 2 * N /\ streak' = streak))
  BY <1>1, StreakFacts
<1> DEFINE IntPositive == \A j \in (k - Segment(k))..k : TelegramCnt(j) > 0
<1>4. ASSUME k \in Nat, k >= 1, newest' = k, streak' > Segment(k), IntPositive,
             t = [number |-> k, layers |-> Layers],
             k > newest, newest \in Nat, streak \in 0..(2 * N),
             \/ streak' = 1
             \/ k = newest + 1 /\ (streak' = streak + 1 \/ (streak = 2 * N /\ streak' = streak))
      PROVE  InCollector' \/ AlreadyShown'
  <2>1. CASE Segment(k) = 0
    <3>1. StartsCollection(t)
      BY <1>1, <1>4, <2>1, FirstRestarts
    <3>2. collector' = [telegrams |-> <<t>>, telegram_cnt |-> TelegramCnt(k)]
      BY <3>1 DEF StartsCollection, appendLidarPoints, SegmentPointsCollector
    <3>3. RevolutionSoFar' = <<t>>
      <4>1. Segment(newest)' = 0 /\ FirstOfRevolution' = k
        BY <1>4, <2>1 DEF FirstOfRevolution, Segment
      <4>2. RevolutionSoFar' = [i \in 1..(0 + 1) |-> [number |-> k + i - 1, layers |-> Layers]]
        BY <4>1 DEF RevolutionSoFar
      <4>3. \A i \in 1..1 : i = 1 /\ k + i - 1 = k
        BY <1>4
      <4> QED
        BY <1>4, <4>2, <4>3
    <3>4. TelegramCnt(newest)' = TelegramCnt(k)
      BY <1>4 DEF TelegramCnt
    <3> QED
      BY <3>2, <3>3, <3>4 DEF InCollector
  <2>2. CASE Segment(k) # 0
    <3>1. Segment(k) \in 0..(N - 1) /\ Segment(k) >= 1
      BY <1>4, <2>2, RevAndSegment
    <3>2. k = newest + 1 /\ streak > 0 /\ (streak' = streak + 1 \/ (streak = 2 * N /\ streak' = streak))
      BY <1>2, <1>4, <3>1
    <3>3. newest >= 1
      BY <3>2 DEF InOrder
    <3>4. Segment(k) = Segment(newest) + 1 /\ Segment(newest) \in 0..(N - 1)
      BY <1>4, <2>2, <3>2, <3>3, NextSegment, RevAndSegment
    <3>5. streak > Segment(newest)
      BY <1>2, <1>4, <3>2, <3>4
    <3>6. FirstOfRevolution = k - Segment(k)
      BY <1>4, <3>2, <3>4 DEF FirstOfRevolution
    <3>7. \A j \in FirstOfRevolution..newest : TelegramCnt(j) > 0
      <4>1. FirstOfRevolution \in Int
        BY <1>4, <3>4 DEF FirstOfRevolution
      <4>2. \A j \in FirstOfRevolution..newest : j \in (k - Segment(k))..k
        BY <1>4, <3>2, <3>6, <4>1
      <4> QED
        BY <1>4, <4>2
    <3>8. InCollector \/ AlreadyShown
      BY <3>5, <3>7 DEF InOrder
    <3>9. TelegramCnt(newest) > 0 /\ TelegramCnt(newest + 1) > 0
      <4>1. newest \in FirstOfRevolution..newest /\ k \in (k - Segment(k))..k
        BY <1>4, <3>1, <3>4 DEF FirstOfRevolution
      <4> QED
        BY <1>4, <3>2, <3>7, <4>1
    <3> QED
      BY <1>1, <1>4, <2>2, <3>2, <3>3, <3>8, <3>9, InOrderContinues
  <2> QED
    BY <2>1, <2>2
<1>5. streak' > 0 => newest' >= 1
  BY <1>3
<1>6. ASSUME (streak > Segment(newest))', (\A j \in FirstOfRevolution..newest : TelegramCnt(j) > 0)'
      PROVE  InCollector' \/ AlreadyShown'
  <2>1. streak' \in Int /\ streak' > 0 /\ newest' = k
    <3>1. streak' \in 0..(2 * N)
      BY <1>1, StreakTyped
    <3>2. CASE streak' > 0
      BY <1>3, <3>1, <3>2
    <3>3. CASE streak' = 0
      <4>1. newest' \in Int
        BY <1>1, CollectorAssumption DEF TypeOK, Telegram
      <4>2. newest' - 1 \in Int /\ N > 0
        BY <1>2, <4>1
      <4>3. (newest' - 1) % N \in 0..(N - 1)
        BY <1>2, <4>2
      <4> QED
        BY <1>2, <1>6, <3>3, <4>3 DEF Segment
    <3> QED
      BY <1>2, <3>1, <3>2, <3>3
  <2>2. streak' > Segment(k) /\ IntPositive
    BY <1>6, <2>1 DEF Segment, FirstOfRevolution, TelegramCnt
  <2> QED
    BY <1>3, <1>4, <2>1, <2>2
<1> QED
  BY <1>5, <1>6 DEF InOrder

\* A revolution that came in order is out when the next one begins.
LEMMA RevolutionIsShown ==
    ASSUME ShortDisturbance, SpansInReach, TypeOK, Collected, InOrder, Receive
    PROVE  UndisturbedPublished'
<1>1. PICK t \in Telegram :
          /\ t.number <= newest + MaxGap + 1
          /\ newest' = IF t.number > newest THEN t.number ELSE newest
          /\ streak' = Streak(t)
          /\ HandleMsgPackData(t)
          /\ shown' = {k \in shown \cup Numbers(frame') : k >= newest' - N}
          /\ UNCHANGED <<required, span>>
  BY DEF Receive
<1>2. N \in Nat /\ N > 1 /\ required \subseteq 0..(N - 1) /\ span \in Spans /\ Layers # {}
  BY CollectorAssumption DEF ShortDisturbance, TypeOK
<1> SUFFICES ASSUME streak' > N, Segment(newest') = 0,
                    \A k \in (newest' - N)..(newest' - 1) : TelegramCnt(k) > 0,
                    NEW j \in (newest' - N)..(newest' - 1), Segment(j) \in required
             PROVE  j \in shown'
  BY <1>1 DEF UndisturbedPublished, ShownOf, Revolution, Segment, TelegramCnt
<1>3. streak' \in 0..(2 * N)
  BY <1>1, StreakTyped
<1>4. /\ t.number = newest + 1 /\ newest' = newest + 1 /\ newest \in Nat /\ streak \in 0..(2 * N)
      /\ streak' = streak + 1 \/ (streak = 2 * N /\ streak' = streak)
  <2>1. streak' > 0 /\ streak' # 1
    BY <1>2, <1>3
  <2> QED
    BY <1>1, <2>1, StreakFacts
<1>5. streak >= N /\ streak > 0
  BY <1>2, <1>4
<1>6. newest >= 1
  BY <1>5 DEF InOrder
<1>7. Segment(newest) = N - 1
  BY <1>2, <1>4, <1>6, NextSegment, RevAndSegment
<1>8. FirstOfRevolution = newest' - N /\ newest' - 1 = newest
  BY <1>2, <1>4, <1>7 DEF FirstOfRevolution
<1>9. j \in Int /\ j >= newest' - N
  BY <1>2, <1>4
<1>10. InCollector \/ AlreadyShown
  <2>1. streak > Segment(newest)
    BY <1>2, <1>4, <1>5, <1>7
  <2>2. \A k \in FirstOfRevolution..newest : TelegramCnt(k) > 0
    BY <1>8
  <2> QED
    BY <2>1, <2>2 DEF InOrder
<1>11. CASE AlreadyShown
  <2>1. j \in shown
    BY <1>8, <1>11 DEF AlreadyShown
  <2> QED
    BY <1>1, <1>9, <2>1
<1>12. CASE InCollector
  <2>1. collector.telegrams = RevolutionSoFar /\ collector.telegram_cnt = TelegramCnt(newest)
    BY <1>12 DEF InCollector
  <2>2. /\ LayersOf(collector.telegrams) = Layers
        /\ \A l \in Layers : CoveredIn(collector.telegrams, l) = 0..Segment(newest)
        /\ Numbers(collector.telegrams) = FirstOfRevolution..newest
    BY <1>4, <1>6, <2>1, SoFarFacts
  <2>3. TelegramCnt(newest) > 0 /\ TelegramCnt(newest) \in Int
    <3>1. newest \in (newest' - N)..(newest' - 1)
      BY <1>2, <1>4
    <3> QED
      BY <1>4, <3>1, CounterIsInt
  <2>4. ~NothingCollected
    BY <1>2, <2>1, <2>2, <2>3 DEF NothingCollected
  <2>5. allSegmentsCovered(collector.telegrams)
    <3>1. \E l, m \in Layers : m - l >= span
      BY <1>2 DEF SpansInReach
    <3> QED
      BY <1>2, <1>7, <2>2, <3>1 DEF allSegmentsCovered
  <2>6. Complete
    BY <2>4, <2>5 DEF Complete
  <2>7. j \in Numbers(collector.telegrams)
    BY <1>8, <2>2
  <2> QED
    BY <1>1, <1>9, <2>6, <2>7, ShownGrows
<1> QED
  BY <1>10, <1>11, <1>12

\* A revolution that arrives complete and in order is published when the next
\* telegram comes, whatever was lost, doubled or late before it, unless its int
\* counters were not positive (HandleMsgPackData, allSegmentsCovered).
THEOREM UndisturbedIsPublished ==
    ASSUME ShortDisturbance, N - 1 <= MaxTelegrams, SpansInReach
    PROVE  Spec => []UndisturbedPublished
<1>1. Init => InOrder /\ UndisturbedPublished
  <2> SUFFICES ASSUME Init
               PROVE  InOrder /\ UndisturbedPublished
    OBVIOUS
  <2>1. streak = 0 /\ newest \in Int /\ N \in Nat /\ N > 0
    BY CollectorAssumption DEF Init
  <2>2. Segment(newest) \in 0..(N - 1)
    <3>1. newest - 1 \in Int
      BY <2>1
    <3> QED
      BY <2>1, <3>1 DEF Segment
  <2>3. ~(streak > Segment(newest)) /\ ~(streak > N) /\ ~(streak > 0)
    BY <2>1, <2>2
  <2> QED
    BY <2>3 DEF InOrder, UndisturbedPublished
<1>2. IInv /\ InOrder /\ UndisturbedPublished /\ [Next]_vars => InOrder' /\ UndisturbedPublished'
  <2> SUFFICES ASSUME IInv, InOrder, UndisturbedPublished, [Next]_vars
               PROVE  InOrder' /\ UndisturbedPublished'
    OBVIOUS
  <2>1. CASE UNCHANGED vars
    <3>1. InOrder'
      BY <2>1 DEF vars, InOrder, InCollector, AlreadyShown, FirstOfRevolution, RevolutionSoFar, Segment,
                  TelegramCnt
    <3>2. UndisturbedPublished'
      BY <2>1 DEF vars, UndisturbedPublished, ShownOf, Revolution, Segment, TelegramCnt
    <3> QED
      BY <3>1, <3>2
  <2>2. CASE Next
    BY <2>2, InOrderStays, RevolutionIsShown DEF Next, IInv
  <2> QED
    BY <2>1, <2>2
<1> QED
  BY <1>1, <1>2, CollectorInvariant, PTL DEF Spec

=============================================================================
