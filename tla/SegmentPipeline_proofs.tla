----------------------- MODULE SegmentPipeline_proofs -----------------------
(***************************************************************************)
(* Proofs about SegmentPipeline, with and without the imu receiver, for    *)
(* fifos of any length and any number of datagrams and passes.             *)
(***************************************************************************)
EXTENDS SegmentPipeline, TLAPS

-----------------------------------------------------------------------------
(* Types. *)

\* What the fifos do to their queues and counters.
LEMMA FifoSteps ==
    ASSUME NEW p
    PROVE  /\ Udp!FifoTypeOK /\ p \in Datagram /\ Udp!Push(p) => Udp!FifoTypeOK'
           /\ Out!FifoTypeOK /\ p \in Datagram /\ Out!Push(p) => Out!FifoTypeOK'
           /\ Udp!FifoTypeOK /\ Udp!PopTakes("converter") =>
                  Udp!FifoTypeOK' /\ Head(udpQueue) \in Datagram
           /\ Out!FifoTypeOK /\ Out!PopTakes("exporter") =>
                  Out!FifoTypeOK' /\ Head(outQueue) \in Datagram
<1>1. ASSUME Udp!FifoTypeOK, p \in Datagram, Udp!Push(p)
      PROVE  Udp!FifoTypeOK'
  <2> DEFINE q == Append(udpQueue, p)
  <2>1. q \in Seq(Datagram)
    BY <1>1 DEF Udp!FifoTypeOK
  <2> HIDE DEF q
  <2>2. CASE UdpLength > 0 /\ Len(q) > UdpLength
    <3>1. Len(q) - UdpLength + 1 \in 1..Len(q)
      BY <2>1, <2>2, PipelineAssumption
    <3>2. SubSeq(q, Len(q) - UdpLength + 1, Len(q)) \in Seq(Datagram)
      BY <2>1, <3>1
    <3>3. udpQueue' = SubSeq(q, Len(q) - UdpLength + 1, Len(q))
      BY <1>1, <2>2 DEF Udp!Push, Udp!DropOldest, q
    <3> QED
      BY <1>1, <3>2, <3>3 DEF Udp!Push, Udp!NotifyAll, Udp!FifoTypeOK
  <2>3. CASE ~(UdpLength > 0 /\ Len(q) > UdpLength)
    BY <1>1, <2>1, <2>3 DEF Udp!Push, Udp!DropOldest, Udp!NotifyAll, Udp!FifoTypeOK, q
  <2> QED
    BY <2>2, <2>3
<1>2. ASSUME Out!FifoTypeOK, p \in Datagram, Out!Push(p)
      PROVE  Out!FifoTypeOK'
  <2> DEFINE q == Append(outQueue, p)
  <2>1. q \in Seq(Datagram)
    BY <1>2 DEF Out!FifoTypeOK
  <2> HIDE DEF q
  <2>2. CASE OutLength > 0 /\ Len(q) > OutLength
    <3>1. Len(q) - OutLength + 1 \in 1..Len(q)
      BY <2>1, <2>2, PipelineAssumption
    <3>2. SubSeq(q, Len(q) - OutLength + 1, Len(q)) \in Seq(Datagram)
      BY <2>1, <3>1
    <3>3. outQueue' = SubSeq(q, Len(q) - OutLength + 1, Len(q))
      BY <1>2, <2>2 DEF Out!Push, Out!DropOldest, q
    <3> QED
      BY <1>2, <3>2, <3>3 DEF Out!Push, Out!NotifyAll, Out!FifoTypeOK
  <2>3. CASE ~(OutLength > 0 /\ Len(q) > OutLength)
    BY <1>2, <2>1, <2>3 DEF Out!Push, Out!DropOldest, Out!NotifyAll, Out!FifoTypeOK, q
  <2> QED
    BY <2>2, <2>3
<1>3. ASSUME Udp!FifoTypeOK, Udp!PopTakes("converter")
      PROVE  Udp!FifoTypeOK' /\ Head(udpQueue) \in Datagram
  BY <1>3 DEF Udp!FifoTypeOK, Udp!PopTakes
<1>4. ASSUME Out!FifoTypeOK, Out!PopTakes("exporter")
      PROVE  Out!FifoTypeOK' /\ Head(outQueue) \in Datagram
  BY <1>4 DEF Out!FifoTypeOK, Out!PopTakes
<1> QED
  BY <1>1, <1>2, <1>3, <1>4

\* The other calls of the fifos keep the types.
LEMMA FifosTyped ==
    /\ Udp!FifoTypeOK /\ (\/ UNCHANGED udpVars \/ Udp!Shutdown \/ Udp!PopWaits("converter")
                          \/ Udp!PopFails("converter") \/ Udp!WakesUp("converter"))
           => Udp!FifoTypeOK'
    /\ Out!FifoTypeOK /\ (\/ UNCHANGED outVars \/ Out!Shutdown \/ Out!PopWaits("exporter")
                          \/ Out!PopFails("exporter") \/ Out!WakesUp("exporter"))
           => Out!FifoTypeOK'
<1>1. ASSUME Udp!FifoTypeOK, UNCHANGED udpVars \/ Udp!PopFails("converter")
      PROVE  Udp!FifoTypeOK'
  BY <1>1 DEF udpVars, Udp!FifoTypeOK, Udp!PopFails, Udp!state
<1>2. ASSUME Udp!FifoTypeOK,
             Udp!Shutdown \/ Udp!PopWaits("converter") \/ Udp!WakesUp("converter")
      PROVE  Udp!FifoTypeOK'
  BY <1>2 DEF Udp!FifoTypeOK, Udp!Shutdown, Udp!NotifyAll, Udp!PopWaits, Udp!WakesUp
<1>3. ASSUME Out!FifoTypeOK, UNCHANGED outVars \/ Out!PopFails("exporter")
      PROVE  Out!FifoTypeOK'
  BY <1>3 DEF outVars, Out!FifoTypeOK, Out!PopFails, Out!state
<1>4. ASSUME Out!FifoTypeOK,
             Out!Shutdown \/ Out!PopWaits("exporter") \/ Out!WakesUp("exporter")
      PROVE  Out!FifoTypeOK'
  BY <1>4 DEF Out!FifoTypeOK, Out!Shutdown, Out!NotifyAll, Out!PopWaits, Out!WakesUp
<1> QED
  BY <1>1, <1>2, <1>3, <1>4

\* Where the main thread is and what it knows.
ControlTyped ==
    /\ main \in {"top", "startConverter", "startReceiver", "startExporter", "startImu",
                 "connect", "monitor", "removeListener", "stopImu", "joinImu", "stopReceiver",
                 "joinReceiver", "shutdownUdp", "shutdownOut", "stopExporter", "joinExporter",
                 "stopConverter", "joinConverter", "closeReceiver", "finished"}
    /\ epoch \in 0..MaxEpochs
    /\ rosOk \in BOOLEAN /\ connected \in BOOLEAN /\ quiet \in BOOLEAN /\ registered \in BOOLEAN
    /\ alive \subseteq {"udp", "out"}

\* Where the workers are.
PlacesTyped ==
    /\ pc \in [Workers -> {"none", "begin", "head", "recv", "chunk", "push", "pop",
                           "parse", "listeners", "notify", "exit"}]
    /\ pc["converter"] \in {"none", "head", "pop", "parse", "exit"}
    /\ pc["exporter"] \in {"none", "begin", "head", "pop", "listeners", "notify", "exit"}
    /\ \A r \in Receivers : pc[r] \in {"none", "head", "recv", "chunk", "push", "exit"}
    /\ run \in [Workers -> BOOLEAN]

\* What a worker holds where it pushes or notifies: a receiver what its counter
\* says, the other two a datagram.
Held ==
    /\ item \in [Workers -> Datagram \cup {Nothing}]
    /\ counter \in [Receivers -> 0..MaxDatagrams]
    /\ exported \in Seq(Datagram)
    /\ \A r \in Receivers : pc[r] = "push" =>
           counter[r] < MaxDatagrams /\ item[r] = [src |-> r, cnt |-> counter[r]]
    /\ pc["converter"] = "parse" => item["converter"] \in Datagram
    /\ pc["exporter"] \in {"listeners", "notify"} => item["exporter"] \in Datagram

Typed == ControlTyped /\ PlacesTyped /\ Held /\ Udp!FifoTypeOK /\ Out!FifoTypeOK

\* The workers, and which of them are receivers.
LEMMA WorkerNames ==
    /\ Receivers \subseteq Workers /\ "converter" \in Workers \ Receivers
    /\ "exporter" \in Workers \ Receivers /\ "converter" # "exporter"
    /\ "scan" \in Receivers /\ (Imu <=> "imu" \in Receivers)
    /\ Receivers \subseteq {"scan", "imu"}
BY PipelineAssumption DEF Workers, Receivers

\* A receiver keeps the types: it holds the datagram that its counter numbers.
LEMMA ReceiverTyped ==
    ASSUME Typed, NEW r \in Receivers, Receiver(r) \/ Receive(r)
    PROVE  Typed'
<1> USE WorkerNames DEF Typed, control, udpVars, outVars, fifos, workers, history, GoTo, Hold, Loop
<1>1. CASE ReceiverTestsFlag(r)
  <2>1. ControlTyped'
    BY <1>1 DEF ControlTyped, ReceiverTestsFlag
  <2>2. PlacesTyped'
    BY <1>1 DEF PlacesTyped, ReceiverTestsFlag
  <2>3. Held'
    BY <1>1 DEF Held, PlacesTyped, ReceiverTestsFlag
  <2>4. Udp!FifoTypeOK'
    BY <1>1, FifosTyped DEF ReceiverTestsFlag
  <2>5. Out!FifoTypeOK'
    BY <1>1, FifosTyped DEF ReceiverTestsFlag
  <2> QED
    BY <2>1, <2>2, <2>3, <2>4, <2>5 DEF Typed
<1>2. CASE ReceiveBad(r)
  <2>1. ControlTyped'
    BY <1>2 DEF ControlTyped, ReceiveBad
  <2>2. PlacesTyped'
    BY <1>2 DEF PlacesTyped, ReceiveBad
  <2>3. Held'
    BY <1>2 DEF Held, PlacesTyped, ReceiveBad
  <2>4. Udp!FifoTypeOK'
    BY <1>2, FifosTyped DEF ReceiveBad
  <2>5. Out!FifoTypeOK'
    BY <1>2, FifosTyped DEF ReceiveBad
  <2> QED
    BY <2>1, <2>2, <2>3, <2>4, <2>5 DEF Typed
<1>3. CASE ReceivePart(r)
  <2>1. ControlTyped'
    BY <1>3 DEF ControlTyped, ReceivePart
  <2>2. PlacesTyped'
    BY <1>3 DEF PlacesTyped, ReceivePart
  <2>3. Held'
    BY <1>3 DEF Held, PlacesTyped, ReceivePart
  <2>4. Udp!FifoTypeOK'
    BY <1>3, FifosTyped DEF ReceivePart
  <2>5. Out!FifoTypeOK'
    BY <1>3, FifosTyped DEF ReceivePart
  <2> QED
    BY <2>1, <2>2, <2>3, <2>4, <2>5 DEF Typed
<1>4. CASE ReceiveGood(r)
  <2>1. ControlTyped'
    BY <1>4 DEF ControlTyped, ReceiveGood, Received, Datagram
  <2>2. PlacesTyped'
    BY <1>4 DEF PlacesTyped, ReceiveGood, Received, Datagram
  <2>3. Held'
    <3>1. counter[r] \in 0..MaxDatagrams /\ counter[r] < MaxDatagrams
      BY <1>4, PipelineAssumption DEF ReceiveGood, Received, Held, Receivers
    <3>2. [src |-> r, cnt |-> counter[r]] \in Datagram
      BY <3>1 DEF Datagram
    <3> QED
      BY <1>4, <3>1, <3>2 DEF Held, PlacesTyped, ReceiveGood
  <2>4. Udp!FifoTypeOK'
    BY <1>4, FifosTyped DEF ReceiveGood, Received, Datagram
  <2>5. Out!FifoTypeOK'
    BY <1>4, FifosTyped DEF ReceiveGood, Received, Datagram
  <2> QED
    BY <2>1, <2>2, <2>3, <2>4, <2>5 DEF Typed
<1>5. CASE ReceiverPushes(r)
  <2>1. ControlTyped'
    BY <1>5 DEF ControlTyped, ReceiverPushes
  <2>2. PlacesTyped'
    BY <1>5 DEF PlacesTyped, ReceiverPushes
  <2>3. Held'
    <3>1. counter[r] \in 0..MaxDatagrams /\ counter[r] < MaxDatagrams
      BY <1>5 DEF ReceiverPushes, Held
    <3>2. counter[r] + 1 \in 0..MaxDatagrams
      BY <3>1, PipelineAssumption
    <3>3. counter' = [counter EXCEPT ![r] = counter[r] + 1]
      BY <1>5 DEF ReceiverPushes
    <3>4. counter' \in [Receivers -> 0..MaxDatagrams]
      BY <3>2, <3>3 DEF Held
    <3>5. item' \in [Workers -> Datagram \cup {Nothing}]
      BY <1>5 DEF Held, ReceiverPushes
    <3> QED
      BY <1>5, <3>3, <3>4, <3>5 DEF Held, PlacesTyped, ReceiverPushes
  <2>4. Udp!FifoTypeOK'
    <3>1. Udp!Push(item[r]) /\ item[r] = [src |-> r, cnt |-> counter[r]]
      BY <1>5 DEF Held, ReceiverPushes
    <3>2. counter[r] \in 0..MaxDatagrams
      BY DEF Held
    <3>3. item[r] \in Datagram
      BY <3>1, <3>2 DEF Datagram
    <3> QED
      BY <3>1, <3>3, FifoSteps
  <2>5. Out!FifoTypeOK'
    BY <1>5, FifosTyped, FifoSteps, <2>3 DEF Held, PlacesTyped, ReceiverPushes
  <2> QED
    BY <2>1, <2>2, <2>3, <2>4, <2>5 DEF Typed
<1> QED
  BY <1>1, <1>2, <1>3, <1>4, <1>5 DEF Receiver, Receive

\* The converter takes and passes on datagrams.
LEMMA ConverterTyped ==
    ASSUME Typed, Converter
    PROVE  Typed'
<1> USE WorkerNames DEF Typed, control, udpVars, outVars, fifos, workers, history, GoTo, Hold, Loop
<1>1. CASE ConverterTestsFlag
  <2>1. ControlTyped'
    BY <1>1 DEF ControlTyped, ConverterTestsFlag
  <2>2. PlacesTyped'
    BY <1>1 DEF PlacesTyped, ConverterTestsFlag
  <2>3. Held'
    BY <1>1 DEF Held, PlacesTyped, ConverterTestsFlag
  <2>4. Udp!FifoTypeOK'
    BY <1>1, FifosTyped DEF ConverterTestsFlag
  <2>5. Out!FifoTypeOK'
    BY <1>1, FifosTyped DEF ConverterTestsFlag
  <2> QED
    BY <2>1, <2>2, <2>3, <2>4, <2>5 DEF Typed
<1>2. CASE ConverterPops
  <2>1. ControlTyped'
    BY <1>2 DEF ControlTyped, ConverterPops
  <2>2. PlacesTyped'
    BY <1>2 DEF PlacesTyped, ConverterPops
  <2>3. Held'
    BY <1>2, FifosTyped, FifoSteps DEF Held, PlacesTyped, ConverterPops
  <2>4. Udp!FifoTypeOK'
    BY <1>2, FifosTyped, FifoSteps, <2>3 DEF Held, PlacesTyped, ConverterPops
  <2>5. Out!FifoTypeOK'
    BY <1>2, FifosTyped, FifoSteps, <2>3 DEF Held, PlacesTyped, ConverterPops
  <2> QED
    BY <2>1, <2>2, <2>3, <2>4, <2>5 DEF Typed
<1>3. CASE ConverterPushes
  <2>1. ControlTyped'
    BY <1>3 DEF ControlTyped, ConverterPushes
  <2>2. PlacesTyped'
    BY <1>3 DEF PlacesTyped, ConverterPushes
  <2>3. Held'
    BY <1>3, FifosTyped, FifoSteps DEF Held, PlacesTyped, ConverterPushes
  <2>4. Udp!FifoTypeOK'
    BY <1>3, FifosTyped, FifoSteps, <2>3 DEF Held, PlacesTyped, ConverterPushes
  <2>5. Out!FifoTypeOK'
    BY <1>3, FifosTyped, FifoSteps, <2>3 DEF Held, PlacesTyped, ConverterPushes
  <2> QED
    BY <2>1, <2>2, <2>3, <2>4, <2>5 DEF Typed
<1> QED
  BY <1>1, <1>2, <1>3 DEF Converter

\* The exporter takes and shows datagrams.
LEMMA ExporterTyped ==
    ASSUME Typed, Exporter
    PROVE  Typed'
<1> USE WorkerNames DEF Typed, control, udpVars, outVars, fifos, workers, history, GoTo, Hold, Loop
<1>1. CASE ExporterBegins
  <2>1. ControlTyped'
    BY <1>1 DEF ControlTyped, ExporterBegins
  <2>2. PlacesTyped'
    BY <1>1 DEF PlacesTyped, ExporterBegins
  <2>3. Held'
    BY <1>1 DEF Held, PlacesTyped, ExporterBegins
  <2>4. Udp!FifoTypeOK'
    BY <1>1, FifosTyped DEF ExporterBegins
  <2>5. Out!FifoTypeOK'
    BY <1>1, FifosTyped DEF ExporterBegins
  <2> QED
    BY <2>1, <2>2, <2>3, <2>4, <2>5 DEF Typed
<1>2. CASE ExporterTestsFlag
  <2>1. ControlTyped'
    BY <1>2 DEF ControlTyped, ExporterTestsFlag
  <2>2. PlacesTyped'
    BY <1>2 DEF PlacesTyped, ExporterTestsFlag
  <2>3. Held'
    BY <1>2 DEF Held, PlacesTyped, ExporterTestsFlag
  <2>4. Udp!FifoTypeOK'
    BY <1>2, FifosTyped DEF ExporterTestsFlag
  <2>5. Out!FifoTypeOK'
    BY <1>2, FifosTyped DEF ExporterTestsFlag
  <2> QED
    BY <2>1, <2>2, <2>3, <2>4, <2>5 DEF Typed
<1>3. CASE ExporterPops
  <2>1. ControlTyped'
    BY <1>3 DEF ControlTyped, ExporterPops
  <2>2. PlacesTyped'
    BY <1>3 DEF PlacesTyped, ExporterPops
  <2>3. Held'
    BY <1>3, FifosTyped, FifoSteps DEF Held, PlacesTyped, ExporterPops
  <2>4. Udp!FifoTypeOK'
    BY <1>3, FifosTyped, FifoSteps, <2>3 DEF Held, PlacesTyped, ExporterPops
  <2>5. Out!FifoTypeOK'
    BY <1>3, FifosTyped, FifoSteps, <2>3 DEF Held, PlacesTyped, ExporterPops
  <2> QED
    BY <2>1, <2>2, <2>3, <2>4, <2>5 DEF Typed
<1>4. CASE ExporterCopiesListeners
  <2>1. ControlTyped'
    BY <1>4 DEF ControlTyped, ExporterCopiesListeners
  <2>2. PlacesTyped'
    BY <1>4 DEF PlacesTyped, ExporterCopiesListeners
  <2>3. Held'
    BY <1>4 DEF Held, PlacesTyped, ExporterCopiesListeners
  <2>4. Udp!FifoTypeOK'
    BY <1>4, FifosTyped DEF ExporterCopiesListeners
  <2>5. Out!FifoTypeOK'
    BY <1>4, FifosTyped DEF ExporterCopiesListeners
  <2> QED
    BY <2>1, <2>2, <2>3, <2>4, <2>5 DEF Typed
<1>5. CASE ExporterNotifies
  <2>1. ControlTyped'
    BY <1>5 DEF ControlTyped, ExporterNotifies
  <2>2. PlacesTyped'
    BY <1>5 DEF PlacesTyped, ExporterNotifies
  <2>3. Held'
    BY <1>5 DEF Held, PlacesTyped, ExporterNotifies
  <2>4. Udp!FifoTypeOK'
    BY <1>5, FifosTyped DEF ExporterNotifies
  <2>5. Out!FifoTypeOK'
    BY <1>5, FifosTyped DEF ExporterNotifies
  <2> QED
    BY <2>1, <2>2, <2>3, <2>4, <2>5 DEF Typed
<1> QED
  BY <1>1, <1>2, <1>3, <1>4, <1>5 DEF Exporter

\* The main thread keeps the types; a new pass begins with nothing.
LEMMA MainTyped ==
    ASSUME Typed, Main
    PROVE  Typed'
<1> USE WorkerNames DEF Typed, control, udpVars, outVars, fifos, workers, history,
        MainGoes, MainStarts, MainJoins, ClearFlag, ConverterCloses
<1>1. CASE MainBegins
  <2>1. ControlTyped'
    <3>1. epoch' \in 0..MaxEpochs
      <4>1. epoch \in 0..MaxEpochs
        BY DEF ControlTyped
      <4>2. epoch' = epoch \/ (epoch < MaxEpochs /\ epoch' = epoch + 1)
        BY <1>1 DEF MainBegins
      <4> QED
        BY <4>1, <4>2, PipelineAssumption
    <3>2. /\ main' \in {"startConverter", "finished"} /\ quiet' = FALSE
          /\ (registered' = TRUE \/ registered' = registered)
          /\ (alive' = {"udp", "out"} \/ alive' = alive)
          /\ UNCHANGED <<rosOk, connected>>
      BY <1>1 DEF MainBegins
    <3> QED
      BY <3>1, <3>2 DEF ControlTyped
  <2>2. PlacesTyped'
    BY <1>1 DEF PlacesTyped, MainBegins
  <2>3. Held'
    <3>1. /\ pc' = [w \in Workers |-> "none"] /\ item' = [w \in Workers |-> Nothing]
          /\ counter' = [r \in Receivers |-> 0] /\ exported' = <<>>
      BY <1>1 DEF MainBegins
    <3>2. 0 \in 0..MaxDatagrams /\ <<>> \in Seq(Datagram)
      BY PipelineAssumption
    <3> QED
      BY <3>1, <3>2 DEF Held
  <2>4. Udp!FifoTypeOK'
    <3>1. udpQueue' = <<>> /\ udpShutdown' = FALSE /\ udpWaiting' = {} /\ udpPushed' = 0
      BY <1>1 DEF MainBegins
    <3>2. <<>> \in Seq(Datagram)
      OBVIOUS
    <3> QED
      BY <3>1, <3>2 DEF Udp!FifoTypeOK
  <2>5. Out!FifoTypeOK'
    <3>1. outQueue' = <<>> /\ outShutdown' = FALSE /\ outWaiting' = {} /\ outPushed' = 0
      BY <1>1 DEF MainBegins
    <3>2. <<>> \in Seq(Datagram)
      OBVIOUS
    <3> QED
      BY <3>1, <3>2 DEF Out!FifoTypeOK
  <2> QED
    BY <2>1, <2>2, <2>3, <2>4, <2>5 DEF Typed
<1>2. CASE MainStartsAll
  <2>1. ControlTyped'
    BY <1>2 DEF ControlTyped, MainStartsAll
  <2>2. PlacesTyped'
    BY <1>2 DEF PlacesTyped, MainStartsAll
  <2>3. Held'
    BY <1>2 DEF Held, PlacesTyped, MainStartsAll
  <2>4. Udp!FifoTypeOK'
    BY <1>2, FifosTyped DEF MainStartsAll
  <2>5. Out!FifoTypeOK'
    BY <1>2, FifosTyped DEF MainStartsAll
  <2> QED
    BY <2>1, <2>2, <2>3, <2>4, <2>5 DEF Typed
<1>3. CASE MainConnects
  <2>1. ControlTyped'
    BY <1>3 DEF ControlTyped, MainConnects
  <2>2. PlacesTyped'
    BY <1>3 DEF PlacesTyped, MainConnects
  <2>3. Held'
    BY <1>3 DEF Held, PlacesTyped, MainConnects
  <2>4. Udp!FifoTypeOK'
    BY <1>3, FifosTyped DEF MainConnects
  <2>5. Out!FifoTypeOK'
    BY <1>3, FifosTyped DEF MainConnects
  <2> QED
    BY <2>1, <2>2, <2>3, <2>4, <2>5 DEF Typed
<1>4. CASE MainStopsMonitoring
  <2>1. ControlTyped'
    BY <1>4 DEF ControlTyped, MainStopsMonitoring
  <2>2. PlacesTyped'
    BY <1>4 DEF PlacesTyped, MainStopsMonitoring
  <2>3. Held'
    BY <1>4 DEF Held, PlacesTyped, MainStopsMonitoring
  <2>4. Udp!FifoTypeOK'
    BY <1>4, FifosTyped DEF MainStopsMonitoring
  <2>5. Out!FifoTypeOK'
    BY <1>4, FifosTyped DEF MainStopsMonitoring
  <2> QED
    BY <2>1, <2>2, <2>3, <2>4, <2>5 DEF Typed
<1>5. CASE MainRemovesListener
  <2>1. ControlTyped'
    BY <1>5 DEF ControlTyped, MainRemovesListener
  <2>2. PlacesTyped'
    BY <1>5 DEF PlacesTyped, MainRemovesListener
  <2>3. Held'
    BY <1>5 DEF Held, PlacesTyped, MainRemovesListener
  <2>4. Udp!FifoTypeOK'
    BY <1>5, FifosTyped DEF MainRemovesListener
  <2>5. Out!FifoTypeOK'
    BY <1>5, FifosTyped DEF MainRemovesListener
  <2> QED
    BY <2>1, <2>2, <2>3, <2>4, <2>5 DEF Typed
<1>6. CASE MainStopsReceivers
  <2>1. ControlTyped'
    BY <1>6 DEF ControlTyped, MainStopsReceivers
  <2>2. PlacesTyped'
    BY <1>6 DEF PlacesTyped, MainStopsReceivers
  <2>3. Held'
    BY <1>6 DEF Held, PlacesTyped, MainStopsReceivers
  <2>4. Udp!FifoTypeOK'
    BY <1>6, FifosTyped DEF MainStopsReceivers
  <2>5. Out!FifoTypeOK'
    BY <1>6, FifosTyped DEF MainStopsReceivers
  <2> QED
    BY <2>1, <2>2, <2>3, <2>4, <2>5 DEF Typed
<1>7. CASE MainShutsDownUdp
  <2>1. ControlTyped'
    BY <1>7 DEF ControlTyped, MainShutsDownUdp
  <2>2. PlacesTyped'
    BY <1>7 DEF PlacesTyped, MainShutsDownUdp
  <2>3. Held'
    BY <1>7 DEF Held, PlacesTyped, MainShutsDownUdp
  <2>4. Udp!FifoTypeOK'
    BY <1>7, FifosTyped DEF MainShutsDownUdp
  <2>5. Out!FifoTypeOK'
    BY <1>7, FifosTyped DEF MainShutsDownUdp
  <2> QED
    BY <2>1, <2>2, <2>3, <2>4, <2>5 DEF Typed
<1>8. CASE MainShutsDownOut
  <2>1. ControlTyped'
    BY <1>8 DEF ControlTyped, MainShutsDownOut
  <2>2. PlacesTyped'
    BY <1>8 DEF PlacesTyped, MainShutsDownOut
  <2>3. Held'
    BY <1>8 DEF Held, PlacesTyped, MainShutsDownOut
  <2>4. Udp!FifoTypeOK'
    BY <1>8, FifosTyped DEF MainShutsDownOut
  <2>5. Out!FifoTypeOK'
    BY <1>8, FifosTyped DEF MainShutsDownOut
  <2> QED
    BY <2>1, <2>2, <2>3, <2>4, <2>5 DEF Typed
<1>9. CASE MainCloses
  <2>1. ControlTyped'
    BY <1>9 DEF ControlTyped, MainCloses
  <2>2. PlacesTyped'
    BY <1>9 DEF PlacesTyped, MainCloses
  <2>3. Held'
    BY <1>9 DEF Held, PlacesTyped, MainCloses
  <2>4. Udp!FifoTypeOK'
    BY <1>9, FifosTyped DEF MainCloses
  <2>5. Out!FifoTypeOK'
    BY <1>9, FifosTyped DEF MainCloses
  <2> QED
    BY <2>1, <2>2, <2>3, <2>4, <2>5 DEF Typed
<1>10. CASE MainClosesReceiver
  <2>1. ControlTyped'
    BY <1>10 DEF ControlTyped, MainClosesReceiver
  <2>2. PlacesTyped'
    BY <1>10 DEF PlacesTyped, MainClosesReceiver
  <2>3. Held'
    BY <1>10 DEF Held, PlacesTyped, MainClosesReceiver
  <2>4. Udp!FifoTypeOK'
    BY <1>10, FifosTyped DEF MainClosesReceiver
  <2>5. Out!FifoTypeOK'
    BY <1>10, FifosTyped DEF MainClosesReceiver
  <2> QED
    BY <2>1, <2>2, <2>3, <2>4, <2>5 DEF Typed
<1> QED
  BY <1>1, <1>2, <1>3, <1>4, <1>5, <1>6, <1>7, <1>8, <1>9, <1>10 DEF Main

\* The environment keeps the types.
LEMMA EnvironmentTyped ==
    ASSUME Typed, RosShutdown \/ Silence \/ SpuriousWakeup \/ Finished \/ UNCHANGED vars
    PROVE  Typed'
<1> USE WorkerNames DEF Typed, control, udpVars, outVars, fifos, workers, history
<1>1. CASE RosShutdown
  <2>1. ControlTyped'
    BY <1>1 DEF ControlTyped, RosShutdown
  <2>2. PlacesTyped'
    BY <1>1 DEF PlacesTyped, RosShutdown
  <2>3. Held'
    BY <1>1 DEF Held, PlacesTyped, RosShutdown
  <2>4. Udp!FifoTypeOK'
    BY <1>1, FifosTyped DEF RosShutdown
  <2>5. Out!FifoTypeOK'
    BY <1>1, FifosTyped DEF RosShutdown
  <2> QED
    BY <2>1, <2>2, <2>3, <2>4, <2>5 DEF Typed
<1>2. CASE Silence
  <2>1. ControlTyped'
    BY <1>2 DEF ControlTyped, Silence
  <2>2. PlacesTyped'
    BY <1>2 DEF PlacesTyped, Silence
  <2>3. Held'
    BY <1>2 DEF Held, PlacesTyped, Silence
  <2>4. Udp!FifoTypeOK'
    BY <1>2, FifosTyped DEF Silence
  <2>5. Out!FifoTypeOK'
    BY <1>2, FifosTyped DEF Silence
  <2> QED
    BY <2>1, <2>2, <2>3, <2>4, <2>5 DEF Typed
<1>3. CASE SpuriousWakeup
  <2>1. ControlTyped'
    BY <1>3 DEF ControlTyped, SpuriousWakeup
  <2>2. PlacesTyped'
    BY <1>3 DEF PlacesTyped, SpuriousWakeup
  <2>3. Held'
    BY <1>3 DEF Held, PlacesTyped, SpuriousWakeup
  <2>4. Udp!FifoTypeOK'
    BY <1>3, FifosTyped DEF SpuriousWakeup
  <2>5. Out!FifoTypeOK'
    BY <1>3, FifosTyped DEF SpuriousWakeup
  <2> QED
    BY <2>1, <2>2, <2>3, <2>4, <2>5 DEF Typed
<1>4. CASE UNCHANGED vars
  <2>1. ControlTyped'
    BY <1>4 DEF ControlTyped, vars
  <2>2. PlacesTyped'
    BY <1>4 DEF PlacesTyped, vars
  <2>3. Held'
    BY <1>4 DEF Held, PlacesTyped, vars
  <2>4. Udp!FifoTypeOK'
    BY <1>4, FifosTyped DEF vars
  <2>5. Out!FifoTypeOK'
    BY <1>4, FifosTyped DEF vars
  <2> QED
    BY <2>1, <2>2, <2>3, <2>4, <2>5 DEF Typed
<1> QED
  BY <1>1, <1>2, <1>3, <1>4 DEF Finished

\* The types and what the workers hold, in every instance.
LEMMA TypedAlways == Spec => []Typed
<1>1. Init => Typed
  <2> SUFFICES ASSUME Init
               PROVE  Typed
    OBVIOUS
  <2>1. ControlTyped
    <3>1. epoch \in 0..MaxEpochs
      BY PipelineAssumption DEF Init
    <3> QED
      BY <3>1 DEF Init, ControlTyped
  <2>2. PlacesTyped
    BY WorkerNames DEF Init, PlacesTyped
  <2>3. 0 \in 0..MaxDatagrams /\ <<>> \in Seq(Datagram)
    BY PipelineAssumption
  <2>4. Held
    BY <2>3, WorkerNames DEF Init, Held
  <2>5. Udp!FifoTypeOK
    BY <2>3 DEF Init, Udp!Init, Udp!FifoTypeOK
  <2>6. Out!FifoTypeOK
    BY <2>3 DEF Init, Out!Init, Out!FifoTypeOK
  <2> QED
    BY <2>1, <2>2, <2>4, <2>5, <2>6 DEF Typed
<1>2. Typed /\ [Next]_vars => Typed'
  BY ReceiverTyped, ConverterTyped, ExporterTyped, MainTyped, EnvironmentTyped DEF Next
<1> QED
  BY <1>1, <1>2, PTL DEF Spec

\* Every variable has its type, in every instance.
THEOREM TypeCorrect == Spec => []TypeOK
<1>1. Typed => TypeOK
  BY DEF Typed, TypeOK, ControlTyped, PlacesTyped, Held
<1> QED
  BY <1>1, TypedAlways, PTL

-----------------------------------------------------------------------------
(* Teardown. *)

Runs(w) == pc[w] \notin {"none", "exit"}

\* Where the main thread is while a worker may run: the receivers are joined
\* first, then the exporter and the converter.
WhileImuRuns == {"connect", "monitor", "removeListener", "stopImu", "joinImu"}
WhileScanRuns == WhileImuRuns \cup {"startExporter", "startImu", "stopReceiver", "joinReceiver"}
WhileExporterRuns ==
    (WhileScanRuns \ {"startExporter"})
        \cup {"shutdownUdp", "shutdownOut", "stopExporter", "joinExporter"}
WhileConverterRuns ==
    WhileExporterRuns \cup {"startReceiver", "startExporter", "stopConverter", "joinConverter"}

Lifetimes ==
    /\ "imu" \in Receivers /\ Runs("imu") => main \in WhileImuRuns
    /\ Runs("scan") => main \in WhileScanRuns
    /\ Runs("exporter") => main \in WhileExporterRuns
    /\ Runs("converter") => main \in WhileConverterRuns
    /\ main \in WhileConverterRuns \cup {"startConverter"} => "out" \in alive
    /\ main \in WhileConverterRuns \cup {"startConverter", "closeReceiver"} => "udp" \in alive

\* A worker that does not run does not start by itself.
LEMMA WorkersKeepLifetimes ==
    ASSUME PlacesTyped, Lifetimes, UNCHANGED <<main, alive>>,
           \A w \in Workers : Runs(w)' => Runs(w)
    PROVE  Lifetimes'
BY WorkerNames DEF Lifetimes

\* The steps of the workers.
LEMMA WorkerLifetimes ==
    ASSUME PlacesTyped, Lifetimes,
           Converter \/ Exporter \/ \E r \in Receivers : Receiver(r) \/ Receive(r)
    PROVE  Lifetimes'
<1> USE DEF control, workers, history, GoTo, Hold, Loop
<1>1. ASSUME NEW r \in Receivers, Receiver(r) \/ Receive(r)
      PROVE  Lifetimes'
  <2>1. UNCHANGED <<main, alive>> /\ Runs(r) /\ \E l : pc' = [pc EXCEPT ![r] = l]
    BY <1>1 DEF Receiver, Receive, ReceiverTestsFlag, ReceiverPushes, ReceiveBad,
                ReceivePart, ReceiveGood, Runs
  <2>2. \A w \in Workers : Runs(w)' => Runs(w)
    BY <2>1, WorkerNames DEF PlacesTyped, Runs
  <2> QED
    BY <2>1, <2>2, WorkersKeepLifetimes
<1>2. CASE Converter
  <2>1. /\ UNCHANGED <<main, alive>> /\ Runs("converter")
        /\ UNCHANGED pc \/ \E l : pc' = [pc EXCEPT !["converter"] = l]
    BY <1>2 DEF Converter, ConverterTestsFlag, ConverterPops, ConverterPushes, Runs
  <2>2. \A w \in Workers : Runs(w)' => Runs(w)
    BY <2>1, WorkerNames DEF PlacesTyped, Runs
  <2> QED
    BY <2>1, <2>2, WorkersKeepLifetimes
<1>3. CASE Exporter
  <2>1. /\ UNCHANGED <<main, alive>> /\ Runs("exporter")
        /\ UNCHANGED pc \/ \E l : pc' = [pc EXCEPT !["exporter"] = l]
    BY <1>3 DEF Exporter, ExporterBegins, ExporterTestsFlag, ExporterPops,
                ExporterCopiesListeners, ExporterNotifies, Runs
  <2>2. \A w \in Workers : Runs(w)' => Runs(w)
    BY <2>1, WorkerNames DEF PlacesTyped, Runs
  <2> QED
    BY <2>1, <2>2, WorkersKeepLifetimes
<1> QED
  BY <1>1, <1>2, <1>3

\* The main thread starts and joins the workers.
LEMMA MainLifetimes ==
    ASSUME ControlTyped, PlacesTyped, Lifetimes, Main
    PROVE  Lifetimes'
<1> USE WorkerNames DEF PlacesTyped, Lifetimes, Runs, WhileImuRuns, WhileScanRuns,
        WhileExporterRuns, WhileConverterRuns, control, workers, Joinable,
        MainGoes, MainStarts, MainJoins, ClearFlag, ConverterCloses
<1>1. CASE MainBegins
  BY <1>1 DEF MainBegins
<1>2. CASE MainStartsAll
  <2>1. CASE MainStarts("converter", "startConverter", "startReceiver")
    BY <2>1
  <2>2. CASE MainStarts("scan", "startReceiver", "startExporter")
    BY <2>2
  <2>3. CASE MainStarts("exporter", "startExporter", "startImu")
    BY <2>3
  <2>4. CASE Imu /\ MainStarts("imu", "startImu", "connect")
    BY <2>4
  <2>5. CASE MainGoes("startImu", "connect") /\ UNCHANGED <<control, workers>>
    BY <2>5
  <2> QED
    BY <1>2, <2>1, <2>2, <2>3, <2>4, <2>5 DEF MainStartsAll
<1>3. CASE MainConnects
  BY <1>3 DEF MainConnects
<1>4. CASE MainStopsMonitoring
  BY <1>4 DEF MainStopsMonitoring
<1>5. CASE MainRemovesListener
  BY <1>5 DEF MainRemovesListener
<1>6. CASE MainStopsReceivers
  BY <1>6 DEF MainStopsReceivers
<1>7. CASE MainShutsDownUdp
  BY <1>7 DEF MainShutsDownUdp
<1>8. CASE MainShutsDownOut
  BY <1>8 DEF MainShutsDownOut
<1>9. CASE MainCloses
  BY <1>9 DEF MainCloses
<1>10. CASE MainClosesReceiver
  BY <1>10 DEF MainClosesReceiver
<1> QED
  BY <1>1, <1>2, <1>3, <1>4, <1>5, <1>6, <1>7, <1>8,
     <1>9, <1>10 DEF Main

\* Nothing is deleted that a thread still uses.
THEOREM TeardownIsSafe == Spec => []NoUseAfterDelete
<1>1. Init => Lifetimes
  BY WorkerNames DEF Init, Lifetimes, Runs, WhileImuRuns, WhileScanRuns, WhileExporterRuns,
                     WhileConverterRuns
<1>2. Typed /\ Lifetimes /\ [Next]_vars => Lifetimes'
  <2> SUFFICES ASSUME Typed, Lifetimes, [Next]_vars
               PROVE  Lifetimes'
    OBVIOUS
  <2>1. CASE RosShutdown \/ Silence \/ SpuriousWakeup \/ Finished \/ UNCHANGED vars
    <3>1. UNCHANGED <<main, alive, pc>>
      BY <2>1 DEF RosShutdown, Silence, SpuriousWakeup, Finished, vars, control, workers
    <3> QED
      BY <3>1 DEF Lifetimes, Runs
  <2> QED
    BY <2>1, WorkerLifetimes, MainLifetimes DEF Next, Typed
<1>3. Typed /\ Lifetimes => NoUseAfterDelete
  <2> SUFFICES ASSUME Typed, Lifetimes
               PROVE  NoUseAfterDelete
    OBVIOUS
  <2> USE WorkerNames DEF Lifetimes, Runs, WhileImuRuns, WhileScanRuns, WhileExporterRuns,
          WhileConverterRuns
  <2>1. "out" \notin alive => pc["converter"] # "parse" /\ pc["exporter"] # "pop"
    OBVIOUS
  <2>2. "udp" \notin alive => pc["converter"] # "pop" /\ \A r \in Receivers : pc[r] # "push"
    OBVIOUS
  <2>3. main = "top" => \A w \in Workers : Joinable(w)
    BY DEF Joinable, Workers
  <2> QED
    BY <2>1, <2>2, <2>3 DEF NoUseAfterDelete
<1> QED
  BY <1>1, <1>2, <1>3, TypedAlways, PTL DEF Spec

-----------------------------------------------------------------------------
(* Order.  A datagram goes through five stages, from the udp fifo (5) to   *)
(* the listener (1).                                                       *)

Elements(q) == {q[i] : i \in DOMAIN q}

Earlier(d, e) == d.src = e.src => d.cnt < e.cnt

Ascends(q) == \A i, j \in DOMAIN q : i < j => Earlier(q[i], q[j])

At(s, d) ==
    \/ s = 1 /\ d \in Elements(exported)
    \/ s = 2 /\ pc["exporter"] \in {"listeners", "notify"} /\ d = item["exporter"]
    \/ s = 3 /\ d \in Elements(outQueue)
    \/ s = 4 /\ pc["converter"] = "parse" /\ d = item["converter"]
    \/ s = 5 /\ d \in Elements(udpQueue)

\* What is further on is older, and the receivers count on.
StagesInOrder ==
    /\ \A s, t \in 1..5 : \A d, e : At(s, d) /\ At(t, e) /\ s < t => Earlier(d, e)
    /\ \A s \in 1..5 : \A d : At(s, d) => d.cnt < counter[d.src]

QueuesAscend == Ascends(exported) /\ Ascends(outQueue) /\ Ascends(udpQueue)

\* What is in a stage is a datagram.
LEMMA AtIsDatagram ==
    ASSUME Typed, NEW s \in 1..5, NEW d, At(s, d)
    PROVE  d \in Datagram /\ d.src \in Receivers /\ d.cnt \in 0..MaxDatagrams
<1>1. exported \in Seq(Datagram) /\ udpQueue \in Seq(Datagram) /\ outQueue \in Seq(Datagram)
  BY DEF Typed, Held, Udp!FifoTypeOK, Out!FifoTypeOK
<1>2. d \in Datagram
  BY <1>1 DEF At, Elements, Typed, Held
<1> QED
  BY <1>2 DEF Datagram

\* An append to a sequence of datagrams, and the end that is left of one.
LEMMA AppendAscends ==
    ASSUME NEW q \in Seq(Datagram), NEW d \in Datagram, Ascends(q),
           \A e \in Elements(q) : Earlier(e, d)
    PROVE  /\ Append(q, d) \in Seq(Datagram) /\ Ascends(Append(q, d))
           /\ Elements(Append(q, d)) \subseteq Elements(q) \cup {d}
<1> DEFINE a == Append(q, d)
<1>1. /\ a \in Seq(Datagram) /\ Len(q) \in Nat
      /\ DOMAIN q = 1..Len(q) /\ DOMAIN a = 1..(Len(q) + 1)
      /\ a[Len(q) + 1] = d /\ \A i \in 1..Len(q) : a[i] = q[i]
  OBVIOUS
<1> HIDE DEF a
<1>2. \A i \in DOMAIN a : (i \in DOMAIN q /\ a[i] = q[i]) \/ (i = Len(q) + 1 /\ a[i] = d)
  BY <1>1
<1>3. Ascends(a)
  <2> SUFFICES ASSUME NEW i \in DOMAIN a, NEW j \in DOMAIN a, i < j
               PROVE  Earlier(a[i], a[j])
    BY DEF Ascends
  <2>1. i \in DOMAIN q /\ a[i] = q[i]
    BY <1>1
  <2>2. CASE j \in DOMAIN q
    BY <1>1, <2>1, <2>2 DEF Ascends
  <2>3. CASE j \notin DOMAIN q
    BY <1>2, <2>1, <2>3 DEF Elements
  <2> QED
    BY <2>2, <2>3
<1>4. Elements(a) \subseteq Elements(q) \cup {d}
  BY <1>2 DEF Elements
<1> QED
  BY <1>1, <1>3, <1>4 DEF a

\* The end of an ascending queue, which the loop of Push leaves, ascends.
LEMMA EndAscends ==
    ASSUME NEW q \in Seq(Datagram), NEW n \in 1..Len(q), Ascends(q)
    PROVE  /\ Ascends(SubSeq(q, n, Len(q)))
           /\ Elements(SubSeq(q, n, Len(q))) \subseteq Elements(q)
<1> DEFINE s == SubSeq(q, n, Len(q))
<1>1. /\ Len(q) \in Nat /\ DOMAIN q = 1..Len(q) /\ DOMAIN s = 1..(Len(q) - n + 1)
      /\ \A i \in DOMAIN s : s[i] = q[n + i - 1]
  OBVIOUS
<1> HIDE DEF s
<1>2. \A i \in DOMAIN s : i \in Nat /\ n + i - 1 \in DOMAIN q
  BY <1>1
<1>3. \A i, j \in DOMAIN s : i < j => n + i - 1 < n + j - 1
  BY <1>2
<1> QED
  BY <1>1, <1>2, <1>3 DEF Ascends, Elements, s

\* A push: the queue ascends, with the new datagram and without the dropped ones.
LEMMA PushAscends ==
    ASSUME NEW p \in Datagram
    PROVE  /\ Udp!FifoTypeOK /\ Udp!Push(p) /\ Ascends(udpQueue)
                /\ (\A e \in Elements(udpQueue) : Earlier(e, p))
              => Ascends(udpQueue') /\ Elements(udpQueue') \subseteq Elements(udpQueue) \cup {p}
           /\ Out!FifoTypeOK /\ Out!Push(p) /\ Ascends(outQueue)
                /\ (\A e \in Elements(outQueue) : Earlier(e, p))
              => Ascends(outQueue') /\ Elements(outQueue') \subseteq Elements(outQueue) \cup {p}
<1>1. ASSUME Udp!FifoTypeOK, Udp!Push(p), Ascends(udpQueue),
             \A e \in Elements(udpQueue) : Earlier(e, p)
      PROVE  Ascends(udpQueue') /\ Elements(udpQueue') \subseteq Elements(udpQueue) \cup {p}
  <2> DEFINE q == Append(udpQueue, p)
  <2>1. q \in Seq(Datagram) /\ Ascends(q) /\ Elements(q) \subseteq Elements(udpQueue) \cup {p}
    BY <1>1, AppendAscends DEF Udp!FifoTypeOK
  <2> HIDE DEF q
  <2>2. CASE UdpLength > 0 /\ Len(q) > UdpLength
    <3>1. Len(q) - UdpLength + 1 \in 1..Len(q)
      BY <2>1, <2>2, PipelineAssumption
    <3>2. udpQueue' = SubSeq(q, Len(q) - UdpLength + 1, Len(q))
      BY <1>1, <2>2 DEF Udp!Push, Udp!DropOldest, q
    <3> QED
      BY <2>1, <3>1, <3>2, EndAscends
  <2>3. CASE ~(UdpLength > 0 /\ Len(q) > UdpLength)
    BY <1>1, <2>1, <2>3 DEF Udp!Push, Udp!DropOldest, q
  <2> QED
    BY <2>2, <2>3
<1>2. ASSUME Out!FifoTypeOK, Out!Push(p), Ascends(outQueue),
             \A e \in Elements(outQueue) : Earlier(e, p)
      PROVE  Ascends(outQueue') /\ Elements(outQueue') \subseteq Elements(outQueue) \cup {p}
  <2> DEFINE q == Append(outQueue, p)
  <2>1. q \in Seq(Datagram) /\ Ascends(q) /\ Elements(q) \subseteq Elements(outQueue) \cup {p}
    BY <1>2, AppendAscends DEF Out!FifoTypeOK
  <2> HIDE DEF q
  <2>2. CASE OutLength > 0 /\ Len(q) > OutLength
    <3>1. Len(q) - OutLength + 1 \in 1..Len(q)
      BY <2>1, <2>2, PipelineAssumption
    <3>2. outQueue' = SubSeq(q, Len(q) - OutLength + 1, Len(q))
      BY <1>2, <2>2 DEF Out!Push, Out!DropOldest, q
    <3> QED
      BY <2>1, <3>1, <3>2, EndAscends
  <2>3. CASE ~(OutLength > 0 /\ Len(q) > OutLength)
    BY <1>2, <2>1, <2>3 DEF Out!Push, Out!DropOldest, q
  <2> QED
    BY <2>2, <2>3
<1> QED
  BY <1>1, <1>2

\* A pop takes the oldest datagram.
LEMMA TailAscends ==
    ASSUME NEW q \in Seq(Datagram), q # <<>>, Ascends(q)
    PROVE  /\ Ascends(Tail(q)) /\ Elements(Tail(q)) \subseteq Elements(q)
           /\ Head(q) \in Elements(q)
           /\ \A e \in Elements(Tail(q)) : Earlier(Head(q), e)
<1>1. /\ 1 \in DOMAIN q /\ Head(q) = q[1]
      /\ \A i \in DOMAIN Tail(q) :
             i \in Nat /\ 1 < i + 1 /\ i + 1 \in DOMAIN q /\ Tail(q)[i] = q[i + 1]
  OBVIOUS
<1>2. \A i, j \in DOMAIN Tail(q) : i < j => i + 1 < j + 1
  BY <1>1
<1> QED
  BY <1>1, <1>2 DEF Ascends, Elements

\* Datagrams that stay where they are, or leave the pipeline, keep the order.
LEMMA OrderStays ==
    ASSUME Typed, StagesInOrder, UNCHANGED counter,
           \A s \in 1..5 : \A d : At(s, d)' => At(s, d)
    PROVE  StagesInOrder'
BY DEF StagesInOrder

\* So does the oldest datagram of a stage that goes on to the next one.
LEMMA OrderMoves ==
    ASSUME Typed, StagesInOrder, UNCHANGED counter, NEW k \in 1..4, NEW m, At(k + 1, m),
           \A s \in 1..5 : \A d : At(s, d)' => At(s, d) \/ (s = k /\ d = m),
           \A e : At(k + 1, e)' => Earlier(m, e)
    PROVE  StagesInOrder'
<1>1. ASSUME NEW s \in 1..5, NEW t \in 1..5, NEW d, NEW e, At(s, d)', At(t, e)', s < t
      PROVE  Earlier(d, e)
  <2>1. CASE At(s, d) /\ At(t, e)
    BY <1>1, <2>1 DEF StagesInOrder
  <2>2. CASE s = k /\ d = m
    <3>1. At(t, e)
      BY <1>1, <2>2
    <3>2. CASE t = k + 1
      BY <1>1, <2>2, <3>2
    <3>3. CASE t # k + 1
      <4>1. k + 1 \in 1..5 /\ k + 1 < t
        BY <1>1, <2>2, <3>3
      <4> QED
        BY <2>2, <3>1, <4>1 DEF StagesInOrder
    <3> QED
      BY <3>2, <3>3
  <2>3. CASE t = k /\ e = m
    <3>1. At(s, d)
      BY <1>1, <2>3
    <3>2. k + 1 \in 1..5 /\ s < k + 1
      BY <1>1, <2>3
    <3> QED
      BY <2>3, <3>1, <3>2 DEF StagesInOrder
  <2> QED
    BY <1>1, <2>1, <2>2, <2>3
<1>2. ASSUME NEW s \in 1..5, NEW d, At(s, d)'
      PROVE  d.cnt < counter[d.src]
  <2>1. k + 1 \in 1..5
    OBVIOUS
  <2> QED
    BY <1>2, <2>1 DEF StagesInOrder
<1> QED
  BY <1>1, <1>2 DEF StagesInOrder, Earlier

InOrder == StagesInOrder /\ QueuesAscend

\* Steps that move no datagram.
LEMMA OrderKept ==
    ASSUME Typed, InOrder, UNCHANGED <<counter, exported, udpQueue, outQueue>>,
           pc'["converter"] = "parse" =>
               pc["converter"] = "parse" /\ item'["converter"] = item["converter"],
           pc'["exporter"] \in {"listeners", "notify"} =>
               /\ pc["exporter"] \in {"listeners", "notify"}
               /\ item'["exporter"] = item["exporter"]
    PROVE  InOrder'
<1>1. \A s \in 1..5 : \A d : At(s, d)' => At(s, d)
  BY DEF At, Elements
<1>2. StagesInOrder'
  BY <1>1, OrderStays DEF InOrder
<1> QED
  BY <1>2 DEF InOrder, QueuesAscend, Ascends

\* The steps of the receivers.
LEMMA ReceiverInOrder ==
    ASSUME Typed, InOrder, NEW r \in Receivers, Receiver(r) \/ Receive(r)
    PROVE  InOrder'
<1> USE WorkerNames DEF PlacesTyped, Held, control, udpVars, outVars, fifos, workers, history,
        GoTo, Hold, Loop
<1>0. PlacesTyped /\ Held
  BY DEF Typed
<1>1. CASE ReceiverTestsFlag(r)
  BY <1>0, <1>1, OrderKept DEF ReceiverTestsFlag
<1>2. CASE ReceiveBad(r)
  BY <1>0, <1>2, OrderKept DEF ReceiveBad
<1>3. CASE ReceivePart(r)
  BY <1>0, <1>3, OrderKept DEF ReceivePart
<1>4. CASE ReceiveGood(r)
  BY <1>0, <1>4, OrderKept DEF ReceiveGood
<1>5. CASE ReceiverPushes(r)
  <2> DEFINE m == item[r]
  <2>1. /\ Udp!Push(m) /\ m = [src |-> r, cnt |-> counter[r]]
        /\ counter' = [counter EXCEPT ![r] = counter[r] + 1]
        /\ item' = [item EXCEPT ![r] = Nothing] /\ pc' = [pc EXCEPT ![r] = "head"]
        /\ UNCHANGED <<exported, outQueue>>
    BY <1>0, <1>5 DEF ReceiverPushes
  <2>2. m \in Datagram /\ m.src = r /\ m.cnt = counter[r] /\ counter[r] \in Nat
    BY <1>0, <2>1 DEF Datagram
  <2>3. \A d : \A s \in 1..5 : At(s, d) => Earlier(d, m) /\ d.src \in Receivers /\ d.cnt \in Nat
    BY <2>2, AtIsDatagram DEF InOrder, StagesInOrder, Earlier
  <2>4. Ascends(udpQueue') /\ Elements(udpQueue') \subseteq Elements(udpQueue) \cup {m}
    <3>1. Udp!FifoTypeOK /\ Ascends(udpQueue)
      BY DEF Typed, InOrder, QueuesAscend
    <3>2. \A e \in Elements(udpQueue) : Earlier(e, m)
      BY <2>3 DEF At
    <3> QED
      BY <2>1, <2>2, <3>1, <3>2, PushAscends
  <2>5. \A s \in 1..5 : \A d : At(s, d)' => At(s, d) \/ (s = 5 /\ d = m)
    <3>1. /\ pc'["converter"] = pc["converter"] /\ item'["converter"] = item["converter"]
          /\ pc'["exporter"] = pc["exporter"] /\ item'["exporter"] = item["exporter"]
      BY <1>0, <2>1
    <3> QED
      BY <2>1, <2>4, <3>1 DEF At, Elements
  <2>6. \A d : \A s \in 1..5 : At(s, d) => d.cnt < counter'[d.src]
    <3> SUFFICES ASSUME NEW d, NEW s \in 1..5, At(s, d)
                 PROVE  d.cnt < counter'[d.src]
      OBVIOUS
    <3>1. d.cnt < counter[d.src] /\ d.src \in Receivers /\ d.cnt \in Nat
      BY <2>3 DEF InOrder, StagesInOrder
    <3>2. CASE d.src = r
      BY <1>0, <2>1, <2>2, <3>1, <3>2
    <3>3. CASE d.src # r
      BY <1>0, <2>1, <3>1, <3>3
    <3> QED
      BY <3>2, <3>3
  <2>7. m.cnt < counter'[m.src]
    BY <1>0, <2>1, <2>2
  <2>8. StagesInOrder'
    <3>1. ASSUME NEW s \in 1..5, NEW t \in 1..5, NEW d, NEW e, At(s, d)', At(t, e)', s < t
          PROVE  Earlier(d, e)
      <4>1. At(s, d)
        BY <2>5, <3>1
      <4>2. CASE At(t, e)
        BY <3>1, <4>1, <4>2 DEF InOrder, StagesInOrder
      <4>3. CASE e = m
        BY <2>3, <4>1, <4>3
      <4> QED
        BY <2>5, <3>1, <4>2, <4>3
    <3>2. ASSUME NEW s \in 1..5, NEW d, At(s, d)'
          PROVE  d.cnt < counter'[d.src]
      BY <2>5, <2>6, <2>7, <3>2
    <3> QED
      BY <3>1, <3>2 DEF StagesInOrder, Earlier
  <2>9. QueuesAscend'
    BY <2>1, <2>4 DEF InOrder, QueuesAscend, Ascends
  <2> QED
    BY <2>8, <2>9 DEF InOrder
<1> QED
  BY <1>1, <1>2, <1>3, <1>4, <1>5 DEF Receiver, Receive

\* The converter takes the oldest datagram of the udp fifo and passes it on or
\* drops it.
LEMMA ConverterInOrder ==
    ASSUME Typed, InOrder, Converter
    PROVE  InOrder'
<1> USE WorkerNames DEF PlacesTyped, Held, control, udpVars, outVars, fifos, workers, history,
        GoTo, Hold, Loop
<1>0. PlacesTyped /\ Held
  BY DEF Typed
<1>1. CASE ConverterTestsFlag
  BY <1>0, <1>1, OrderKept DEF ConverterTestsFlag
<1>2. CASE ConverterPops
  <2>1. CASE /\ Udp!PopWaits("converter") \/ Udp!PopFails("converter")
             /\ UNCHANGED workers \/ GoTo("converter", "head")
    <3>1. UNCHANGED <<udpQueue, outQueue, counter, exported, item>>
      BY <1>2, <2>1 DEF ConverterPops, Udp!PopWaits, Udp!PopFails, Udp!state
    <3>2. pc' = pc \/ pc' = [pc EXCEPT !["converter"] = "head"]
      BY <2>1
    <3> QED
      BY <1>0, <3>1, <3>2, OrderKept
  <2>2. CASE Udp!PopTakes("converter") /\ Hold("converter", "parse", Head(udpQueue))
    <3> DEFINE m == Head(udpQueue)
    <3>1. /\ udpQueue # <<>> /\ udpQueue' = Tail(udpQueue) /\ pc["converter"] = "pop"
          /\ pc' = [pc EXCEPT !["converter"] = "parse"]
          /\ item' = [item EXCEPT !["converter"] = m]
          /\ UNCHANGED <<outQueue, counter, exported>>
      BY <1>2, <2>2 DEF ConverterPops, Udp!PopTakes
    <3>2. udpQueue \in Seq(Datagram) /\ Ascends(udpQueue)
      BY DEF Typed, Udp!FifoTypeOK, InOrder, QueuesAscend
    <3>3. /\ Ascends(udpQueue') /\ Elements(udpQueue') \subseteq Elements(udpQueue)
          /\ m \in Elements(udpQueue) /\ \A e \in Elements(udpQueue') : Earlier(m, e)
      BY <3>1, <3>2, TailAscends
    <3>4. /\ pc'["exporter"] = pc["exporter"] /\ item'["exporter"] = item["exporter"]
          /\ pc'["converter"] = "parse" /\ item'["converter"] = m
      BY <1>0, <3>1
    <3> HIDE DEF m
    <3>5. \A s \in 1..5 : \A d : At(s, d)' => At(s, d) \/ (s = 4 /\ d = m)
      BY <3>1, <3>3, <3>4 DEF At, Elements
    <3>6. At(5, m) /\ \A e : At(5, e)' => Earlier(m, e)
      BY <3>3 DEF At, Elements
    <3>7. StagesInOrder'
      <4>1. 4 \in 1..4 /\ 4 + 1 = 5
        OBVIOUS
      <4> QED
        BY <3>1, <3>5, <3>6, <4>1, OrderMoves DEF InOrder
    <3> QED
      BY <3>1, <3>3, <3>7 DEF InOrder, QueuesAscend, Ascends
  <2> QED
    BY <1>2, <2>1, <2>2 DEF ConverterPops
<1>3. CASE ConverterPushes
  <2> DEFINE m == item["converter"]
  <2>1. /\ pc["converter"] = "parse" /\ pc' = [pc EXCEPT !["converter"] = "head"]
        /\ item' = [item EXCEPT !["converter"] = Nothing]
        /\ UNCHANGED <<udpQueue, counter, exported>>
        /\ Out!Push(m) \/ UNCHANGED outQueue
    BY <1>3 DEF ConverterPushes
  <2>2. /\ pc'["exporter"] = pc["exporter"] /\ item'["exporter"] = item["exporter"]
        /\ pc'["converter"] = "head"
    BY <1>0, <2>1
  <2>3. CASE UNCHANGED outQueue
    BY <2>1, <2>2, <2>3, OrderKept
  <2>4. CASE Out!Push(m)
    <3>1. m \in Datagram /\ Out!FifoTypeOK /\ Ascends(outQueue)
      BY <1>0, <2>1 DEF Typed, InOrder, QueuesAscend
    <3>2. At(4, m)
      BY <2>1 DEF At
    <3>3. \A e \in Elements(outQueue) : Earlier(e, m)
      BY <3>2 DEF InOrder, StagesInOrder, At
    <3>4. Ascends(outQueue') /\ Elements(outQueue') \subseteq Elements(outQueue) \cup {m}
      BY <2>4, <3>1, <3>3, PushAscends
    <3> HIDE DEF m
    <3>5. \A s \in 1..5 : \A d : At(s, d)' => At(s, d) \/ (s = 3 /\ d = m)
      BY <2>1, <2>2, <3>4 DEF At, Elements
    <3>6. \A e : At(4, e)' => Earlier(m, e)
      BY <2>2 DEF At
    <3>7. StagesInOrder'
      <4>1. 3 \in 1..4 /\ 3 + 1 = 4
        OBVIOUS
      <4> QED
        BY <2>1, <3>2, <3>5, <3>6, <4>1, OrderMoves DEF InOrder
    <3> QED
      BY <2>1, <3>4, <3>7 DEF InOrder, QueuesAscend, Ascends
  <2> QED
    BY <2>1, <2>3, <2>4
<1> QED
  BY <1>1, <1>2, <1>3 DEF Converter

\* The exporter takes the oldest result and shows it to the listener.
LEMMA ExporterInOrder ==
    ASSUME Typed, InOrder, Exporter
    PROVE  InOrder'
<1> USE WorkerNames DEF PlacesTyped, Held, control, udpVars, outVars, fifos, workers, history,
        GoTo, Hold, Loop
<1>0. PlacesTyped /\ Held
  BY DEF Typed
<1>1. CASE ExporterBegins
  BY <1>0, <1>1, OrderKept DEF ExporterBegins
<1>2. CASE ExporterTestsFlag
  BY <1>0, <1>2, OrderKept DEF ExporterTestsFlag
<1>3. CASE ExporterPops
  <2>1. CASE /\ Out!PopWaits("exporter") \/ Out!PopFails("exporter")
             /\ UNCHANGED workers \/ GoTo("exporter", "head")
    <3>1. UNCHANGED <<udpQueue, outQueue, counter, exported, item>>
      BY <1>3, <2>1 DEF ExporterPops, Out!PopWaits, Out!PopFails, Out!state
    <3>2. pc' = pc \/ pc' = [pc EXCEPT !["exporter"] = "head"]
      BY <2>1
    <3> QED
      BY <1>0, <3>1, <3>2, OrderKept
  <2>2. CASE Out!PopTakes("exporter") /\ Hold("exporter", "listeners", Head(outQueue))
    <3> DEFINE m == Head(outQueue)
    <3>1. /\ outQueue # <<>> /\ outQueue' = Tail(outQueue) /\ pc["exporter"] = "pop"
          /\ pc' = [pc EXCEPT !["exporter"] = "listeners"]
          /\ item' = [item EXCEPT !["exporter"] = m]
          /\ UNCHANGED <<udpQueue, counter, exported>>
      BY <1>3, <2>2 DEF ExporterPops, Out!PopTakes
    <3>2. outQueue \in Seq(Datagram) /\ Ascends(outQueue)
      BY DEF Typed, Out!FifoTypeOK, InOrder, QueuesAscend
    <3>3. /\ Ascends(outQueue') /\ Elements(outQueue') \subseteq Elements(outQueue)
          /\ m \in Elements(outQueue) /\ \A e \in Elements(outQueue') : Earlier(m, e)
      BY <3>1, <3>2, TailAscends
    <3>4. /\ pc'["converter"] = pc["converter"] /\ item'["converter"] = item["converter"]
          /\ pc'["exporter"] = "listeners" /\ item'["exporter"] = m
      BY <1>0, <3>1
    <3> HIDE DEF m
    <3>5. \A s \in 1..5 : \A d : At(s, d)' => At(s, d) \/ (s = 2 /\ d = m)
      BY <3>1, <3>3, <3>4 DEF At, Elements
    <3>6. At(3, m) /\ \A e : At(3, e)' => Earlier(m, e)
      BY <3>3 DEF At, Elements
    <3>7. StagesInOrder'
      <4>1. 2 \in 1..4 /\ 2 + 1 = 3
        OBVIOUS
      <4> QED
        BY <3>1, <3>5, <3>6, <4>1, OrderMoves DEF InOrder
    <3> QED
      BY <3>1, <3>3, <3>7 DEF InOrder, QueuesAscend, Ascends
  <2> QED
    BY <1>3, <2>1, <2>2 DEF ExporterPops
<1>4. CASE ExporterCopiesListeners
  BY <1>0, <1>4, OrderKept DEF ExporterCopiesListeners
<1>5. CASE ExporterNotifies
  <2> DEFINE m == item["exporter"]
  <2>1. /\ pc["exporter"] = "notify" /\ pc' = [pc EXCEPT !["exporter"] = "head"]
        /\ item' = [item EXCEPT !["exporter"] = Nothing]
        /\ UNCHANGED <<udpQueue, outQueue, counter>>
        /\ exported' = Append(exported, m)
    BY <1>5 DEF ExporterNotifies
  <2>2. /\ pc'["converter"] = pc["converter"] /\ item'["converter"] = item["converter"]
        /\ pc'["exporter"] = "head"
    BY <1>0, <2>1
  <2>3. m \in Datagram /\ exported \in Seq(Datagram) /\ Ascends(exported)
    BY <1>0, <2>1 DEF InOrder, QueuesAscend
  <2>4. At(2, m)
    BY <2>1 DEF At
  <2>5. \A e \in Elements(exported) : Earlier(e, m)
    BY <2>4 DEF InOrder, StagesInOrder, At
  <2>6. Ascends(exported') /\ Elements(exported') \subseteq Elements(exported) \cup {m}
    BY <2>1, <2>3, <2>5, AppendAscends
  <2> HIDE DEF m
  <2>7. \A s \in 1..5 : \A d : At(s, d)' => At(s, d) \/ (s = 1 /\ d = m)
    BY <2>1, <2>2, <2>6 DEF At, Elements
  <2>8. \A e : At(2, e)' => Earlier(m, e)
    BY <2>2 DEF At
  <2>9. StagesInOrder'
    <3>1. 1 \in 1..4 /\ 1 + 1 = 2
      OBVIOUS
    <3> QED
      BY <2>1, <2>4, <2>7, <2>8, <3>1, OrderMoves DEF InOrder
  <2> QED
    BY <2>1, <2>6, <2>9 DEF InOrder, QueuesAscend, Ascends
<1> QED
  BY <1>1, <1>2, <1>3, <1>4, <1>5 DEF Exporter

\* The main thread empties the pipeline at once or leaves it alone.
LEMMA MainInOrder ==
    ASSUME Typed, InOrder, Main
    PROVE  InOrder'
<1> USE WorkerNames DEF PlacesTyped, Held, control, udpVars, outVars, fifos, workers, history,
        MainGoes, MainStarts, MainJoins, ClearFlag, ConverterCloses
<1>0. PlacesTyped /\ Held
  BY DEF Typed
<1>1. CASE MainBegins
  <2>1. /\ pc' = [w \in Workers |-> "none"]
        /\ exported' = <<>> /\ udpQueue' = <<>> /\ outQueue' = <<>>
    BY <1>1 DEF MainBegins
  <2>2. \A s, d : ~At(s, d)'
    BY <2>1 DEF At, Elements
  <2>3. Ascends(<<>>)
    BY DEF Ascends
  <2>4. QueuesAscend'
    BY <2>1, <2>3 DEF QueuesAscend, Ascends
  <2>5. StagesInOrder'
    BY <2>2 DEF StagesInOrder
  <2> QED
    BY <2>4, <2>5 DEF InOrder
<1>2. CASE MainStartsAll
  BY <1>0, <1>2, OrderKept DEF MainStartsAll
<1>3. CASE MainConnects
  BY <1>0, <1>3, OrderKept DEF MainConnects
<1>4. CASE MainStopsMonitoring
  BY <1>0, <1>4, OrderKept DEF MainStopsMonitoring
<1>5. CASE MainRemovesListener
  BY <1>0, <1>5, OrderKept DEF MainRemovesListener
<1>6. CASE MainStopsReceivers
  BY <1>0, <1>6, OrderKept DEF MainStopsReceivers
<1>7. CASE MainShutsDownUdp
  BY <1>0, <1>7, OrderKept DEF MainShutsDownUdp, Udp!Shutdown
<1>8. CASE MainShutsDownOut
  BY <1>0, <1>8, OrderKept DEF MainShutsDownOut, Out!Shutdown
<1>9. CASE MainCloses
  BY <1>0, <1>9, OrderKept DEF MainCloses, Out!Shutdown
<1>10. CASE MainClosesReceiver
  BY <1>0, <1>10, OrderKept DEF MainClosesReceiver, Udp!Shutdown
<1> QED
  BY <1>1, <1>2, <1>3, <1>4, <1>5, <1>6, <1>7, <1>8,
     <1>9, <1>10 DEF Main

\* Through both fifos and all losses the listener gets the datagrams of a
\* receiver in the order in which they were received, and none of them twice.
THEOREM ExportsAreOrdered == Spec => []ExportedInOrder
<1>1. Init => InOrder
  <2> SUFFICES ASSUME Init
               PROVE  InOrder
    OBVIOUS
  <2>1. \A s, d : ~At(s, d)
    BY WorkerNames DEF Init, Udp!Init, Out!Init, At, Elements
  <2>2. QueuesAscend
    BY DEF Init, Udp!Init, Out!Init, QueuesAscend, Ascends
  <2> QED
    BY <2>1, <2>2 DEF InOrder, StagesInOrder
<1>2. Typed /\ InOrder /\ [Next]_vars => InOrder'
  <2> SUFFICES ASSUME Typed, InOrder, [Next]_vars
               PROVE  InOrder'
    OBVIOUS
  <2>1. CASE RosShutdown \/ Silence \/ SpuriousWakeup \/ Finished \/ UNCHANGED vars
    <3>1. UNCHANGED <<pc, item, counter, exported, udpQueue, outQueue>>
      BY <2>1 DEF RosShutdown, Silence, SpuriousWakeup, Finished, vars, control, workers,
                  history, fifos, udpVars, outVars, Udp!WakesUp, Out!WakesUp
    <3> QED
      BY <3>1, OrderKept
  <2> QED
    BY <2>1, ReceiverInOrder, ConverterInOrder, ExporterInOrder, MainInOrder DEF Next
<1>3. Typed /\ InOrder => ExportedInOrder
  BY DEF InOrder, QueuesAscend, Ascends, Earlier, ExportedInOrder
<1> QED
  BY <1>1, <1>2, <1>3, TypedAlways, PTL DEF Spec

=============================================================================
