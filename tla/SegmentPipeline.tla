--------------------------- MODULE SegmentPipeline ---------------------------
(***************************************************************************)
(* The threads of sick_scansegment_xd (multiScan, picoScan) and their life *)
(* cycle: MsgPackThreads::runThreadCb creates the receivers, the converter *)
(* and the exporter, starts their threads, monitors them and tears them    *)
(* down in a fixed order before it starts over.                            *)
(*                                                                         *)
(*   receivers --udp fifo--> converter --output fifo--> exporter --> ROS   *)
(*                                                                         *)
(* The receivers of scan and imu data share the udp fifo.  The parsers are *)
(* reduced to whether they succeed, SOPAS to whether it is connected.      *)
(***************************************************************************)
EXTENDS Integers, Sequences

CONSTANTS Imu,            \* imu_enable in the compact format
          UdpLength,      \* udp_input_fifolength
          OutLength,      \* msgpack_output_fifolength
          FewMessages,    \* no udp timeout up to this many messages (10 in the code)
          MaxDatagrams,   \* bound of this model: good datagrams per epoch
          MaxEpochs       \* bound of this model: passes of the outer loop

ASSUME PipelineAssumption ==
    /\ Imu \in BOOLEAN
    /\ UdpLength \in Int /\ OutLength \in Int
    /\ FewMessages \in Nat /\ MaxDatagrams \in Nat /\ MaxEpochs \in Nat

Receivers == IF Imu THEN {"scan", "imu"} ELSE {"scan"}
Workers == Receivers \cup {"converter", "exporter"}

\* A datagram with a valid checksum, numbered by its receiver.
Datagram == [src : Receivers, cnt : 0..MaxDatagrams]
Nothing == [src |-> "none", cnt |-> 0]

VARIABLES
    main,       \* where runThreadCb is
    epoch,      \* passes of its outer loop
    rosOk,      \* m_run_scansegment_thread && rosOk()
    connected,  \* sopas_tcp->isConnected()
    quiet,      \* SecondsSinceLastPush() exceeds the udp timeout
    alive,      \* the fifos that exist: the converter and the scan receiver own one each
    registered, \* the publisher is in the listener list of the exporter
    pc,         \* where each worker thread is
    run,        \* m_run_receiver_thread, m_run_converter_thread, m_run_exporter_thread
    item,       \* the datagram a worker holds between two critical sections
    counter,    \* udp_recv_counter of each receiver
    exported,   \* history: what the listener was given in this epoch
    \* the two fifos
    udpQueue, udpShutdown, udpWaiting, udpPushed,
    outQueue, outShutdown, outWaiting, outPushed

udpVars == <<udpQueue, udpShutdown, udpWaiting, udpPushed>>
outVars == <<outQueue, outShutdown, outWaiting, outPushed>>
fifos == <<udpVars, outVars>>
control == <<epoch, rosOk, connected, registered, alive>>
workers == <<pc, run, item>>
history == <<counter, exported>>
vars == <<main, control, quiet, workers, history, fifos>>

Udp == INSTANCE Fifo WITH
    Payload <- Datagram, Length <- UdpLength, Threads <- {"converter"},
    queue <- udpQueue, shutdown <- udpShutdown, waiting <- udpWaiting, pushed <- udpPushed

Out == INSTANCE Fifo WITH
    Payload <- Datagram, Length <- OutLength, Threads <- {"exporter"},
    queue <- outQueue, shutdown <- outShutdown, waiting <- outWaiting, pushed <- outPushed

Init ==
    /\ main = "top"
    /\ epoch = 0
    /\ rosOk = TRUE
    /\ connected = FALSE
    /\ quiet = FALSE
    /\ registered = FALSE
    /\ alive = {}
    /\ pc = [w \in Workers |-> "none"]
    /\ run = [w \in Workers |-> FALSE]
    /\ item = [w \in Workers |-> Nothing]
    /\ counter = [r \in Receivers |-> 0]
    /\ exported = <<>>
    /\ Udp!Init
    /\ Out!Init

\* The worker w goes on at l; Loop also ends the scope of the datagram it held.
GoTo(w, l) == pc' = [pc EXCEPT ![w] = l] /\ UNCHANGED <<run, item>>

Loop(w) ==
    /\ pc' = [pc EXCEPT ![w] = "head"]
    /\ item' = [item EXCEPT ![w] = Nothing]
    /\ UNCHANGED run

Hold(w, l, d) ==
    /\ pc' = [pc EXCEPT ![w] = l]
    /\ item' = [item EXCEPT ![w] = d]
    /\ UNCHANGED run

-----------------------------------------------------------------------------
(* UdpReceiver::Run.  recv() blocks: its timeout is only looked at after a *)
(* datagram, and a datagram without the start sequence keeps the thread in *)
(* recv() (a step that changes nothing).                                   *)

ReceiverTestsFlag(r) ==
    /\ pc[r] = "head"
    /\ GoTo(r, IF run[r] THEN "recv" ELSE "exit")
    /\ UNCHANGED <<main, control, quiet, history, fifos>>

\* Datagrams received by all receivers, the quantity the model bounds.
Received == counter["scan"] + IF Imu THEN counter["imu"] ELSE 0

\* A datagram with a wrong length or checksum is skipped.
ReceiveBad(r) ==
    /\ pc[r] \in {"recv", "chunk"}
    /\ GoTo(r, "head")
    /\ UNCHANGED <<main, control, quiet, history, fifos>>

\* A compact datagram that needs another one; the flag is tested before the
\* next blocking recv().
ReceivePart(r) ==
    /\ pc[r] = "recv"
    /\ GoTo(r, IF run[r] THEN "chunk" ELSE "head")
    /\ UNCHANGED <<main, control, quiet, history, fifos>>

\* A complete datagram.  One that took several is dropped after the flag was
\* cleared.
ReceiveGood(r) ==
    /\ pc[r] = "recv" \/ (pc[r] = "chunk" /\ run[r])
    /\ Received < MaxDatagrams
    /\ Hold(r, "push", [src |-> r, cnt |-> counter[r]])
    /\ UNCHANGED <<main, control, quiet, history, fifos>>

\* Fault: the counter is not advanced after a push.
ReceiverPushesSameCounter(r) ==
    /\ pc[r] = "push"
    /\ Udp!Push(item[r])
    /\ quiet' = FALSE
    /\ Loop(r)
    /\ UNCHANGED <<main, control, history, outVars>>

ReceiverPushes(r) ==
    /\ pc[r] = "push"
    /\ Udp!Push(item[r])
    /\ quiet' = FALSE
    /\ counter' = [counter EXCEPT ![r] = @ + 1]
    /\ Loop(r)
    /\ UNCHANGED <<main, control, exported, outVars>>

Receive(r) == ReceiveBad(r) \/ ReceivePart(r) \/ ReceiveGood(r)
Receiver(r) == ReceiverTestsFlag(r) \/ ReceiverPushes(r)

-----------------------------------------------------------------------------
(* MsgPackConverter::Run. *)

ConverterTestsFlag ==
    /\ pc["converter"] = "head"
    /\ GoTo("converter", IF run["converter"] THEN "pop" ELSE "exit")
    /\ UNCHANGED <<main, control, quiet, history, fifos>>

\* Pop of the udp fifo waits, fails or takes the front element.
ConverterPops ==
    /\ pc["converter"] = "pop"
    /\ \/ /\ Udp!PopWaits("converter")
          /\ UNCHANGED workers
       \/ /\ Udp!PopFails("converter")
          /\ GoTo("converter", "head")
       \/ /\ Udp!PopTakes("converter")
          /\ Hold("converter", "parse", Head(udpQueue))
    /\ UNCHANGED <<main, control, quiet, history, outVars>>

\* Fault: the empty result of a parser that failed is pushed.
ConverterPushesNothing ==
    /\ pc["converter"] = "parse"
    /\ Out!Push(item["converter"]) \/ Out!Push(Nothing)
    /\ Loop("converter")
    /\ UNCHANGED <<main, control, quiet, history, udpVars>>

\* Parsing succeeds, and the result is pushed, or it fails.
ConverterPushes ==
    /\ pc["converter"] = "parse"
    /\ Out!Push(item["converter"]) \/ UNCHANGED outVars
    /\ Loop("converter")
    /\ UNCHANGED <<main, control, quiet, history, udpVars>>

Converter == ConverterTestsFlag \/ ConverterPops \/ ConverterPushes

-----------------------------------------------------------------------------
(* MsgPackExporter::Run and RunCb. *)

\* Run sets the flag again, now in the thread itself.
ExporterBegins ==
    /\ pc["exporter"] = "begin"
    /\ run' = [run EXCEPT !["exporter"] = TRUE]
    /\ pc' = [pc EXCEPT !["exporter"] = "head"]
    /\ UNCHANGED <<main, control, quiet, item, history, fifos>>

ExporterTestsFlag ==
    /\ pc["exporter"] = "head"
    /\ GoTo("exporter", IF run["exporter"] THEN "pop" ELSE "exit")
    /\ UNCHANGED <<main, control, quiet, history, fifos>>

ExporterPops ==
    /\ pc["exporter"] = "pop"
    /\ \/ /\ Out!PopWaits("exporter")
          /\ UNCHANGED workers
       \/ /\ Out!PopFails("exporter")
          /\ GoTo("exporter", "head")
       \/ /\ Out!PopTakes("exporter")
          /\ Hold("exporter", "listeners", Head(outQueue))
    /\ UNCHANGED <<main, control, quiet, history, udpVars>>

\* The listener list is copied under its mutex, then used without it.
ExporterCopiesListeners ==
    /\ pc["exporter"] = "listeners"
    /\ IF run["exporter"] /\ registered THEN GoTo("exporter", "notify") ELSE Loop("exporter")
    /\ UNCHANGED <<main, control, quiet, history, fifos>>

ExporterNotifies ==
    /\ pc["exporter"] = "notify"
    /\ exported' = Append(exported, item["exporter"])
    /\ Loop("exporter")
    /\ UNCHANGED <<main, control, quiet, counter, fifos>>

Exporter ==
    \/ ExporterBegins \/ ExporterTestsFlag \/ ExporterPops
    \/ ExporterCopiesListeners \/ ExporterNotifies
-----------------------------------------------------------------------------
(* MsgPackThreads::runThreadCb.  A worker that exited or was never started *)
(* can be joined.                                                          *)

Joinable(w) == pc[w] \in {"none", "exit"}

MainGoes(from, to) == main = from /\ main' = to

\* The outer loop: new receivers, converter, exporter and fifos, or the end.
MainBegins ==
    /\ main = "top"
    /\ IF rosOk
       THEN /\ epoch < MaxEpochs
            /\ epoch' = epoch + 1
            /\ main' = "startConverter"
            /\ registered' = TRUE
            /\ alive' = {"udp", "out"}
       ELSE /\ main' = "finished"
            /\ UNCHANGED <<epoch, registered, alive>>
    /\ quiet' = FALSE
    /\ pc' = [w \in Workers |-> "none"]
    /\ run' = [w \in Workers |-> FALSE]
    /\ item' = [w \in Workers |-> Nothing]
    /\ counter' = [r \in Receivers |-> 0]
    /\ exported' = <<>>
    /\ udpQueue' = <<>> /\ udpShutdown' = FALSE /\ udpWaiting' = {} /\ udpPushed' = 0
    /\ outQueue' = <<>> /\ outShutdown' = FALSE /\ outWaiting' = {} /\ outPushed' = 0
    /\ UNCHANGED <<rosOk, connected>>

\* Start of a worker: the flag is set before the thread exists.
MainStarts(w, from, to) ==
    /\ MainGoes(from, to)
    /\ run' = [run EXCEPT ![w] = TRUE]
    /\ pc' = [pc EXCEPT ![w] = IF w = "exporter" THEN "begin" ELSE "head"]
    /\ UNCHANGED <<control, quiet, item, history, fifos>>

MainStartsAll ==
    \/ MainStarts("converter", "startConverter", "startReceiver")
    \/ MainStarts("scan", "startReceiver", "startExporter")
    \/ MainStarts("exporter", "startExporter", "startImu")
    \/ Imu /\ MainStarts("imu", "startImu", "connect")
    \/ /\ ~Imu /\ MainGoes("startImu", "connect")
       /\ UNCHANGED <<control, quiet, workers, history, fifos>>

\* The SOPAS connection is made, or not.
MainConnects ==
    /\ MainGoes("connect", "monitor")
    /\ connected' \in BOOLEAN
    /\ UNCHANGED <<epoch, rosOk, registered, alive, quiet, workers, history, fifos>>

UdpTimeout == Udp!TotalMessagesPushed > FewMessages /\ quiet

\* The monitoring loop ends: shutdown, no SOPAS connection or udp timeout.
MainStopsMonitoring ==
    /\ ~rosOk \/ ~connected \/ UdpTimeout
    /\ MainGoes("monitor", "removeListener")
    /\ UNCHANGED <<control, quiet, workers, history, fifos>>

MainRemovesListener ==
    /\ MainGoes("removeListener", IF Imu THEN "stopImu" ELSE "stopReceiver")
    /\ registered' = FALSE
    /\ UNCHANGED <<epoch, rosOk, connected, alive, quiet, workers, history, fifos>>

\* Stop and Close clear the flag of a worker before they join it.
ClearFlag(w, from, to) ==
    /\ MainGoes(from, to)
    /\ run' = [run EXCEPT ![w] = FALSE]
    /\ UNCHANGED <<control, quiet, pc, item, history>>

MainJoins(w, from, to) ==
    /\ MainGoes(from, to)
    /\ Joinable(w)
    /\ UNCHANGED <<control, quiet, workers, history, fifos>>

\* The scan and imu receivers; the imu receiver does not own the fifo.
MainStopsReceivers ==
    \/ Imu /\ ClearFlag("imu", "stopImu", "joinImu") /\ UNCHANGED fifos
    \/ Imu /\ MainJoins("imu", "joinImu", "stopReceiver")
    \/ ClearFlag("scan", "stopReceiver", "joinReceiver") /\ UNCHANGED fifos
    \/ MainJoins("scan", "joinReceiver", "shutdownUdp")

MainShutsDownUdp ==
    /\ MainGoes("shutdownUdp", "shutdownOut")
    /\ Udp!Shutdown
    /\ UNCHANGED <<control, quiet, workers, history, outVars>>

\* Fault: the output fifo is not shut down before the exporter is joined.
MainForgetsShutdownOut ==
    /\ MainGoes("shutdownOut", "stopExporter")
    /\ UNCHANGED <<control, quiet, workers, history, fifos>>

\* SOPAS is stopped and the exporter's fifo is shut down.
MainShutsDownOut ==
    /\ MainGoes("shutdownOut", "stopExporter")
    /\ Out!Shutdown
    /\ UNCHANGED <<control, quiet, workers, history, udpVars>>

\* MsgPackConverter::Close deletes the output fifo after the join.
ConverterCloses(from, to) ==
    /\ MainGoes(from, to)
    /\ Joinable("converter")
    /\ alive' = alive \ {"out"}
    /\ UNCHANGED <<epoch, rosOk, connected, registered, quiet, workers, history, fifos>>

\* Fault: the converter, which owns the output fifo, is closed first.
MainClosesConverterFirst ==
    \/ /\ ClearFlag("converter", "stopExporter", "joinExporter")
       /\ Out!Shutdown
       /\ UNCHANGED udpVars
    \/ ConverterCloses("joinExporter", "stopConverter")
    \/ ClearFlag("exporter", "stopConverter", "joinConverter") /\ UNCHANGED fifos
    \/ MainJoins("exporter", "joinConverter", "closeReceiver")

\* MsgPackExporter::Close, then MsgPackConverter::Close, which shuts down the
\* output fifo again.
MainCloses ==
    \/ ClearFlag("exporter", "stopExporter", "joinExporter") /\ UNCHANGED fifos
    \/ MainJoins("exporter", "joinExporter", "stopConverter")
    \/ /\ ClearFlag("converter", "stopConverter", "joinConverter")
       /\ Out!Shutdown
       /\ UNCHANGED udpVars
    \/ ConverterCloses("joinConverter", "closeReceiver")

\* UdpReceiver::Close of the scan receiver deletes the udp fifo.
MainClosesReceiver ==
    /\ MainGoes("closeReceiver", "top")
    /\ Joinable("scan")
    /\ run' = [run EXCEPT !["scan"] = FALSE]
    /\ Udp!Shutdown
    /\ alive' = alive \ {"udp"}
    /\ UNCHANGED <<epoch, rosOk, connected, registered, quiet, pc, item, history, outVars>>

Main ==
    \/ MainBegins \/ MainStartsAll \/ MainConnects \/ MainStopsMonitoring
    \/ MainRemovesListener \/ MainStopsReceivers \/ MainShutsDownUdp
    \/ MainShutsDownOut \/ MainCloses \/ MainClosesReceiver

-----------------------------------------------------------------------------
(* The environment, and the specification. *)

\* rosOk() becomes FALSE (signal, ros shutdown).
RosShutdown ==
    /\ rosOk /\ rosOk' = FALSE
    /\ UNCHANGED <<main, epoch, connected, registered, alive, quiet, workers, history, fifos>>

\* No datagram was pushed for udp_timeout_ms.
Silence ==
    /\ main = "monitor" /\ ~quiet /\ quiet' = TRUE
    /\ UNCHANGED <<main, control, workers, history, fifos>>

SpuriousWakeup ==
    /\ \/ Udp!WakesUp("converter") /\ UNCHANGED outVars
       \/ Out!WakesUp("exporter") /\ UNCHANGED udpVars
    /\ UNCHANGED <<main, control, quiet, workers, history>>

Finished == main = "finished" /\ UNCHANGED vars

Next ==
    \/ Main \/ Converter \/ Exporter
    \/ \E r \in Receivers : Receiver(r) \/ Receive(r)
    \/ RosShutdown \/ Silence \/ SpuriousWakeup \/ Finished

Spec == Init /\ [][Next]_vars

\* The operating system runs every thread that can run.
ThreadFairness ==
    /\ WF_vars(Main) /\ WF_vars(Converter) /\ WF_vars(Exporter)
    /\ \A r \in Receivers : WF_vars(Receiver(r))

\* The lidar keeps sending on every port.
SendingSpec == Spec /\ ThreadFairness /\ \A r \in Receivers : WF_vars(Receive(r))

-----------------------------------------------------------------------------
(* Properties. *)

TypeOK ==
    /\ main \in {"top", "startConverter", "startReceiver", "startExporter", "startImu",
                 "connect", "monitor", "removeListener", "stopImu", "joinImu", "stopReceiver",
                 "joinReceiver", "shutdownUdp", "shutdownOut", "stopExporter", "joinExporter",
                 "stopConverter", "joinConverter", "closeReceiver", "finished"}
    /\ epoch \in 0..MaxEpochs
    /\ {rosOk, connected, quiet, registered} \subseteq BOOLEAN
    /\ alive \subseteq {"udp", "out"}
    /\ pc \in [Workers -> {"none", "begin", "head", "recv", "chunk", "push", "pop",
                           "parse", "listeners", "notify", "exit"}]
    /\ run \in [Workers -> BOOLEAN]
    /\ item \in [Workers -> Datagram \cup {Nothing}]
    /\ counter \in [Receivers -> 0..MaxDatagrams]
    /\ exported \in Seq(Datagram)
    /\ Udp!FifoTypeOK /\ Out!FifoTypeOK

\* Teardown deletes nothing that a thread still uses: the output fifo outlives
\* the last push of the converter and the last pop of the exporter, the udp
\* fifo those of the receivers and the converter, and the objects of a pass
\* their threads.
NoUseAfterDelete ==
    /\ "out" \notin alive => pc["converter"] # "parse" /\ pc["exporter"] # "pop"
    /\ "udp" \notin alive => pc["converter"] # "pop" /\ \A r \in Receivers : pc[r] # "push"
    /\ main = "top" => \A w \in Workers : Joinable(w)

\* The listener gets the datagrams of a receiver in the order in which they
\* were received and none of them twice, through both fifos and all losses.
ExportedInOrder ==
    \A i, j \in DOMAIN exported :
        i < j /\ exported[i].src = exported[j].src => exported[i].cnt < exported[j].cnt

\* While the pipeline is monitored, whatever is in a fifo is worked off.
PipelineDrains ==
    main = "monitor" /\ (udpQueue # <<>> \/ outQueue # <<>>)
        ~> (udpQueue = <<>> /\ outQueue = <<>>) \/ main # "monitor"

\* Teardown ends, and with it every worker, if the exporter thread had begun
\* and the lidar keeps sending.
TeardownEnds ==
    main = "removeListener" /\ pc["exporter"] # "begin" ~> main = "top"
=============================================================================
