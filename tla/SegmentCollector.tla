-------------------------- MODULE SegmentCollector --------------------------
(***************************************************************************)
(* How RosMsgpackPublisher collects the segments of multiScan and picoScan *)
(* to fullframe clouds                                                     *)
(* (driver/src/sick_scansegment_xd/ros_msgpack_publisher.cpp).             *)
(*                                                                         *)
(* The lidar numbers its telegrams 1, 2, ... and sends N segments per      *)
(* revolution.  They come by udp: some are lost, doubled or late.  A       *)
(* telegram is its number and the layers it has points of.  What a segment *)
(* covers is its index: the azimuth histogram of the collector counts the  *)
(* degrees, here whole segments.  Echos, points and the clouds of single   *)
(* segments are left out.                                                  *)
(***************************************************************************)
EXTENDS Integers, Sequences

CONSTANTS N,             \* segments of a revolution, 12 for a multiScan
          Ranges,        \* the segments all_segments_min_deg..all_segments_max_deg
                         \* may ask for
          Layers,        \* elevations of the lidar, as integers
          Spans,         \* elevations the LFPlayerFilter may ask for, 0 without it
          CounterLimit,  \* 2^31: telegramCnt is an int, the lidar counts in 64 bits
          MaxGap,        \* bounds of this model: telegrams lost in a row
          MaxDelay,      \* how many newer telegrams a late one comes after
          MaxTelegrams   \* telegrams sent

ASSUME CollectorAssumption ==
    /\ N \in Nat \ {0}
    /\ Ranges \subseteq (SUBSET (0..(N - 1)) \ {{}}) /\ Spans \subseteq Nat
    /\ Layers \subseteq Int /\ Layers # {}
    /\ CounterLimit \in Nat \ {0}
    /\ MaxGap \in Nat /\ MaxDelay \in Nat /\ MaxTelegrams \in Nat

VARIABLES required,   \* one of Ranges
          span,       \* one of Spans
          newest,     \* the highest number received
          collector,  \* m_points_collector
          frame,      \* the telegrams of the fullframe cloud that was published
                      \* when the last telegram came, empty for none
          shown,      \* history: numbers in fullframe clouds, the newest N + 1
          streak      \* history: complete telegrams received without a gap,
                      \* newest the last of them; 2 * N for more

vars == <<required, span, newest, collector, frame, shown, streak>>

-----------------------------------------------------------------------------

Telegram == [number : 1..MaxTelegrams, layers : SUBSET Layers]

Segment(k) == (k - 1) % N
\* The conversion of the counter to an int.
TelegramCnt(k) == ((k + CounterLimit) % (2 * CounterLimit)) - CounterLimit

SegmentPointsCollector(cnt) == [telegrams |-> <<>>, telegram_cnt |-> cnt]

\* Fault: the counter stays the one of the first telegram.
AppendUncounted(c, t) == [c EXCEPT !.telegrams = Append(@, t)]

appendLidarPoints(c, t) ==
    [telegrams |-> Append(c.telegrams, t), telegram_cnt |-> TelegramCnt(t.number)]

Members(ts) == {ts[i] : i \in DOMAIN ts}
Numbers(ts) == {t.number : t \in Members(ts)}
CoveredIn(ts, l) == {Segment(t.number) : t \in {u \in Members(ts) : l \in u.layers}}
LayersOf(ts) == UNION {t.layers : t \in Members(ts)}

\* Every elevation that was met covers the azimuth range, and the elevations
\* span what is configured.
allSegmentsCovered(ts) ==
    /\ \A l \in LayersOf(ts) : required \subseteq CoveredIn(ts, l)
    /\ \E l, m \in LayersOf(ts) : m - l >= span

\* total_point_count or telegram_cnt of the collector is not positive.
NothingCollected == LayersOf(collector.telegrams) = {} \/ collector.telegram_cnt <= 0

lastSegmentIdx ==
    LET ts == collector.telegrams
    IN  IF ts = <<>> THEN -1 ELSE Segment(ts[Len(ts)].number)

-----------------------------------------------------------------------------
(* HandleMsgPackData. *)

Complete == ~NothingCollected /\ allSegmentsCovered(collector.telegrams)

\* Fault: a new collection starts only when the first segment comes.
RestartsAtZero(t) == NothingCollected \/ Complete \/ Segment(t.number) = 0

Restarts(t) == NothingCollected \/ Complete \/ lastSegmentIdx > Segment(t.number)

\* Fault: the fullframe goes out only when the segment index wraps.
PublishesAtWrap(t) ==
    frame' = IF Complete /\ lastSegmentIdx > Segment(t.number) THEN collector.telegrams ELSE <<>>

\* The fullframe goes out when a telegram comes after it.
Publishes(t) == frame' = IF Complete THEN collector.telegrams ELSE <<>>

\* Fault: only a new revolution removes the points of the last one.
StartsAtWrap(t) ==
    /\ Restarts(t)
    /\ Publishes(t)
    /\ collector' = IF lastSegmentIdx > Segment(t.number)
                     THEN appendLidarPoints(SegmentPointsCollector(TelegramCnt(t.number)), t)
                     ELSE appendLidarPoints(collector, t)

StartsCollection(t) ==
    /\ Restarts(t)
    /\ Publishes(t)
    /\ collector' = appendLidarPoints(SegmentPointsCollector(TelegramCnt(t.number)), t)

AppendsSegment(t) ==
    /\ ~Restarts(t) /\ TelegramCnt(t.number) > collector.telegram_cnt
    /\ collector' = appendLidarPoints(collector, t)
    /\ frame' = <<>>

\* A telegram that is not newer empties the collector and is not collected.
ResetsCollector(t) ==
    /\ ~Restarts(t) /\ TelegramCnt(t.number) <= collector.telegram_cnt
    /\ collector' = SegmentPointsCollector(TelegramCnt(t.number))
    /\ frame' = <<>>

HandleMsgPackData(t) == StartsCollection(t) \/ AppendsSegment(t) \/ ResetsCollector(t)

-----------------------------------------------------------------------------
(* The lidar and the network: at most MaxGap telegrams are lost in a row,  *)
(* and a late or doubled one comes after at most MaxDelay newer ones.      *)
(* ShortDisturbance is the condition under which OneRevolution holds.      *)

Init ==
    /\ required \in Ranges /\ span \in Spans
    /\ newest \in 0..(N - 1)
    /\ collector = SegmentPointsCollector(0)
    /\ frame = <<>> /\ shown = {}
    /\ streak = 0

Streak(t) ==
    IF t.layers # Layers \/ t.number <= newest THEN 0
    ELSE IF t.number > newest + 1 THEN 1
    ELSE IF streak = 2 * N THEN streak ELSE streak + 1

Receive ==
    \E t \in Telegram :
        /\ t.number >= newest - MaxDelay
        /\ t.number <= newest + MaxGap + 1
        /\ newest' = IF t.number > newest THEN t.number ELSE newest
        /\ streak' = Streak(t)
        /\ HandleMsgPackData(t)
        /\ shown' = {k \in shown \cup Numbers(frame') : k >= newest' - N}
        /\ UNCHANGED <<required, span>>

Next == Receive

Spec == Init /\ [][Next]_vars

-----------------------------------------------------------------------------
(* What the properties depend on. *)

\* Losses and delays together are shorter than a revolution, and a revolution
\* is shorter than the range of the int counter.
ShortDisturbance == MaxGap + MaxDelay + 1 < N /\ N <= CounterLimit

\* A late telegram is not older than the azimuth range is wide.  With a
\* narrower range the same segment may fill two clouds.
WideRange == \A R \in Ranges : \E a, b \in R : b - a > MaxDelay

\* The lidar has elevations as far apart as the filter asks for.
SpansInReach == \A s \in Spans : \E l, m \in Layers : m - l >= s

-----------------------------------------------------------------------------
(* Properties. *)

TypeOK ==
    /\ required \in Ranges /\ span \in Spans
    /\ newest \in 0..MaxTelegrams
    /\ collector.telegrams \in Seq(Telegram)
    /\ collector.telegram_cnt \in -CounterLimit..(CounterLimit - 1)
    /\ Len(collector.telegrams) <= N
    /\ frame \in Seq(Telegram) /\ shown \subseteq (newest - N)..newest
    /\ streak \in 0..(2 * N)

\* As long as losses and delays together are shorter than a revolution
\* (ShortDisturbance), lost, doubled and late telegrams do not mix two
\* revolutions in a cloud: its telegrams ascend and are of one revolution.
\* A longer outage, such as a fifo that overflows, can join the begin of one
\* revolution with the end of a later one.
OneRevolution ==
    /\ \A i, j \in DOMAIN frame : i < j => frame[i].number < frame[j].number
    /\ \A i, j \in DOMAIN frame : (frame[i].number - 1) \div N = (frame[j].number - 1) \div N

\* No telegram is in two clouds, and the clouds go forward in time.
FramesAscend == [][\A k \in Numbers(frame'), n \in shown : n < k]_vars

Revolution == (newest - N)..(newest - 1)
ShownOf(revolution) == {k \in revolution : Segment(k) \in required} \subseteq shown

\* A revolution that arrived complete and in order, whatever came before it, is
\* published when the next telegram comes, unless the int counter was negative.
UndisturbedPublished ==
    streak > N /\ Segment(newest) = 0 /\ (\A k \in Revolution : TelegramCnt(k) > 0)
        => ShownOf(Revolution)

=============================================================================
