# A TLA+ model of sick_scan_xd

sick_scan_xd is the driver for SICK lidars, radars and the multiScan/picoScan
family. This directory holds TLA+ modules for the concurrent core and the
start-up of the driver, configurations for TLC and proofs for TLAPS. All paths below are
relative to the root of the repository.

    tlc -workers 2 -config MCFifo.cfg MCFifo     model-check one run
    tlapm Fifo_proofs.tla                        check the proofs

`PROJECT.json` lists the components, the runs, the lines each definition
translates (`map`), the hazards found in the code and the findings.

## 1. Inventory

### Two drivers in one repository

- **sick_scan_common and below**: lidars that speak SOPAS (CoLa-A/B) over one
  TCP connection that carries both answers to commands and scan data.

      lidar --TCP--> Tcp read thread --callback--> CoLa framing --recvQueue--> loopOnce (scan data)
                                                                        `----> SOPAS clients (answers)

- **sick_scansegment_xd**: multiScan and picoScan, which send UDP datagrams
  and use SOPAS only to be configured.

      lidar --UDP--> UdpReceiver(s) --fifo--> MsgPackConverter --fifo--> MsgPackExporter --> RosMsgpackPublisher

### Components

| component | state | operations | hard behaviour | correct when | model |
|---|---|---|---|---|---|
| `Fifo<T>` (include/sick_scansegment_xd/fifo.h) | queue, shutdown flag, condition, counter | Push, Pop, Shutdown, Size | blocked consumers, overflow | only the oldest elements are lost, no lost wakeup | `Fifo`, `FifoHistory` |
| UdpReceiver | run flag, sockets, chunk being assembled, counter | Init, Start, Stop, Close, Run | recv blocks without a timeout | datagrams counted and pushed once, in order | `SegmentPipeline` |
| MsgPackConverter | run flag, output fifo, validator | Start, Close, Run | owns a fifo others use | no use after delete | `SegmentPipeline` |
| MsgPackExporter | run flag, listeners | Start, Close, Add/RemoveExportListener, Run | sets its own run flag, copied listeners | listeners notified in order, Close returns | `SegmentPipeline` |
| MsgPackThreads | run flag, the objects above | start, stop, runThreadCb | teardown order, restart | teardown ends, reconnect after timeouts | `SegmentPipeline` |
| RosMsgpackPublisher | segment collector | HandleMsgPackData | segments of several scans; lost, doubled and late segments; counter wrap | a fullframe cloud is of one revolution if what was lost or late is shorter than one, each complete revolution is published | `SegmentCollector` |
| MsgPackValidator | histograms of received segments | update, validate | none: counts in one thread | reports missing segments | not modelled |
| msgpack/compact parser, config, udp_poster | none between calls | parse | none | decoding | not modelled |
| `Queue<T>` (include/sick_scan/template_queue.h) | queue, condition | push, waitForIncomingObject, pop by keyword | wait and pop are two critical sections | nothing lost or taken twice | `SopasExchange` |
| SOPAS exchange (sick_scan_common.cpp, sick_scan_common_tcp.cpp) | sopasSendMutex, timeouts | sendSOPASCommand, sendSopasAndCheckAnswer, convertSendSOPASCommand, get_datagram | answers and scan data interleaved, shared keywords, late answers, errors | each command gets its own answer, no scan data lost but what a command draws | `SopasExchange` |
| CoLa framing (sick_scan_common_tcp.cpp 305-592) | receive buffer | readCallbackFunction, findFrameInReceiveBuffer | partial frames, wrong checksums, half a frame left by a lost connection | frames in, frames out | `FrameReceiver` |
| Tcp (tcp/tcp.cpp), SickThread | socket, read thread and its flag, time of last message | open, close, read thread | close against reader, lost connection, reconnect | one reader, data in order, close returns | `TcpConnection` |
| SickScanCommonNw | m_state | connect, disconnect, isConnected | state stale after a loss | | `TcpConnection` |
| SickScanMonitor | last run state | checkState, checkStateReinitOnError | timeouts | a lost connection is reinitialised | `TcpConnection` |
| sick_generic_laser | s_runState, s_scanner, s_isInitialized, the signal flag, the laser thread | startGenericLaser, main loop, stopScannerAndExit, joinGenericLaser | signals, services and the API against the main loop, without a lock | what was stopped has ended, closing returns | `LaserSession`, `TcpConnection`, `StartUp` |
| SickScanCommon: start-up (init_cmdTables, init_scanner) | command chain, access level and dialect of the lidar, static TiM240 dialect | checkColaTypeAndSwitchToConfigured, command chain, configuration, start sequence, rebootScanner | failures between dozens of commands, restarts of the lidar, wrong dialect, 19 scanner types | runs only with a configured lidar, each write at the right access level, comes to run | `StartUp`, `LidarCommands` |
| SickCallbackHandler, SickWaitForMessageHandler | listener lists, messages | add, remove, notify, waitForNext | notification of copied lists | no message lost to a registered listener, no destroyed handler written to | `ApiListeners` |
| C API (sick_scan_xd_api) | handles, callbacks | create, init, register, wait, close | user threads against driver threads | as its documentation says | `ApiListeners` (register, wait, release), `LaserSession` (init, close), `SopasExchange` (SendSOPAS) |
| SoftwarePLL | fifo of samples, divergence counter, 32 bit ticks | updatePLL, getCorrectedTimeStamp | wrap around, restart | | not modelled |
| services, radar, imu, field monitoring, parsers, transforms, markers | parameters | decoding and conversion | little concurrency of their own | | not modelled |
| LDMRS, SopasBase, tinyxml, msgpack11, roswrap, tools, demos | | | third-party or unused | | not modelled |

## 2. Plan

Done, in this order:

1. `Fifo`, `FifoHistory` with the abstract specification `LossyChannel`.
2. `SegmentPipeline`, which composes two instances of `Fifo` with the threads
   around them.
3. `SopasExchange`.
4. `TcpConnection`.
5. `LidarCommands`, `StartUp`.
6. `FrameReceiver`: the framing of the byte stream, over lost connections.
7. `ApiListeners`: the listener registry and WaitNext under the C API.
8. `LaserSession`: starting and stopping the driver from another thread.
9. `SegmentCollector`: fullframe clouds from lossy segments.
10. Proofs about `Fifo`, `SegmentPipeline`, `SegmentCollector`, `FrameReceiver`,
    `SopasExchange`, `TcpConnection` and `StartUp`, each in a module `<M>_proofs`,
    and about `ApiListeners` and `LaserSession` in `Api_proofs`.

What could follow: a composition of `TcpConnection`, `FrameReceiver` and
`SopasExchange` over a reconnect (datagrams of the old connection stay in
recvQueue), and PointCloudMonitor as a third thread of `LaserSession`.

## 3. The modules

### Fifo, FifoHistory, LossyChannel

One action per method of `Fifo<T>`, each of which holds m_mutex. `Pop` is split
at the wait on the condition, where it releases the mutex: `PopWaits` enters
the wait, `PopTakes` and `PopFails` return. `waiting` is the set of threads in
the wait. A woken thread evaluates the loop condition again, which is what a
new call of Pop does, so it needs no state of its own; `WakesUp` is a spurious
wakeup. The loop of `Push` that drops elements from a full fifo is `DropOldest`.
A length that is not positive means no limit.

`FifoHistory` adds threads that call the methods in any order, and records what
went in and out. `LossyChannel` says what a user of the fifo may rely on,
without a queue: the receiver gets the messages in the order sent and misses
only those that are older than the newest `Capacity`. The refinement maps
`open` to `~shutdown`.

### SegmentPipeline

The worker threads (`scan`, `imu`, `converter`, `exporter`) and `runThreadCb`,
called main here. `pc[w]` is where a worker is, `run[w]` its flag
(m_run_receiver_thread and so on), `item[w]` the datagram it holds. `main`
names the step of runThreadCb. The two fifos are instances of `Fifo`; `alive`
is the set of fifos that were not deleted.

- A receiver tests its flag, blocks in recv and gets a good datagram, a part of
  a message (multi-packet) or a bad datagram. A datagram without the start
  sequence keeps it in recv and changes nothing. recv has no timeout, so the
  flag is only seen after a datagram: the receiver's step out of recv is the
  environment's (`Receive`) and not subject to the thread's fairness.
- The converter's parser either succeeds and pushes, or drops the datagram.
- The exporter sets its flag itself when its thread begins (`ExporterBegins`).
- Main starts converter, receiver, exporter and imu receiver in that order, then
  monitors until shutdown, a lost SOPAS connection, or an udp timeout, then
  tears everything down in the order of lines 380-411 and begins again.
- SOPAS is assumed to be configured, and is connected or not once per pass.
  UdpReceiver::Init is retried until it succeeds (206-239), which changes no
  state of the model: an epoch begins with its receivers initialised.

### SegmentCollector

A telegram is its number and the elevations it has points of; the lidar sends
`N` per revolution, so that its number gives the segment it covers
(`Segment`). `collector` is m_points_collector. HandleMsgPackData has three
branches, each an action: the telegram starts a new collection, and the fullframe
goes out if the old one was complete (`StartsCollection`); it is appended
(`AppendsSegment`); or it is not newer than the collector and empties it
(`ResetsCollector`). `allSegmentsCovered` is the test of the azimuth histogram,
`span` the elevation range that an LFPlayerFilter leaves. `TelegramCnt` is the
conversion of the 64 bit counter to the int `telegramCnt`; `CounterLimit` stands
for 2^31. `Receive` is the network: it loses up to `MaxGap` telegrams in a row
and delivers late or doubled ones after up to `MaxDelay` newer ones.

### FrameReceiver

`buffer` is the used part of m_receiveBuffer, `wire` what the TCP connection has
not delivered yet. `ReadCallback` appends a chunk of any size, `TakesFrame` is
one round of the loop in readCallbackFunction with findFrameInReceiveBuffer of
either dialect, `Reconnect` drops the wire and keeps the buffer, as
SickScanCommonTcp does. The frames have their real structure (start byte or
magic word, length, payload, checksum or end byte) with small widths:
`MagicLength` bytes of magic word and a length of one byte stand for four of
each, `Capacity` for the 480000 bytes of the buffer, `ChunkMax` for the 8192
bytes recv returns at most.

### SopasExchange

`queue` is recvQueue. Clients send a request, wait for a datagram with their
keyword (`Waits`, `blocked`), pop it (`Takes`) in a second critical section or,
if somebody else took it, wait in pop (`PopBlocks`, `popBlocked`). A locked
client (`Locked`: services and the driver itself, sendSopasAndCheckAnswer) holds
sopasSendMutex, checks the reply and reads again up to `MaxRetries` times
(100 in the code). An unlocked client (`Unlocked`: SickScanApiSendSOPAS over
convertSendSOPASCommand) returns what it read. The scanner thread waits for
scan data. A datagram is its kind, keyword and the number of the request it
answers; the number is in no message and only tells right from wrong answers.
`Matches` is findFirstByKeyword, including the exception for sFA errors, which
match every keyword.

The keywords the scanner thread looks for (`ScanKeys`) and those of the commands
(`Keys`) may overlap, as they do in the code: loopOnce waits for LIDoutputstate
and LMDscandata (sick_scan_common.cpp:4339), and so do the service that switches
LIDoutputstate (sick_scan_services.cpp:332), the stop sequence and whatever is
sent by the ColaMsg service. Such a command draws scan data in the place of the
scanner thread, drops them as a mismatch ("Problably we received some scan data
message. Ignore and try again", 1141) and reads again, and the scanner thread may
take its answer. The history `drawn` holds the scan data that clients took, with
the keyword they had asked for.

The wait for a datagram is restarted with its full timeout by every notification
that brings no match (template_queue.h:46). `TimesOut` may therefore strike
whenever a client is blocked, but is forced only when nothing wakes it any more
(weak fairness of an action that every push disables). After `MaxData` numbered scan
datagrams the stream ends, or, in a behaviour with `stream`, goes on for ever with
datagrams that have no number, up to `MaxQueued` at a time. A wait that reports a
timeout although an object has just arrived (the wait_for return value is not
checked against the predicate) is the same as a timeout just before the push.
Timeouts race with answers in every mode; `abandoned` remembers that a command was
given up while its answer was still to come or to be read. The answer to the start
of the imu data, which is not checked (CMD_START_IMU_DATA), is left out.

A behaviour has a `mode`, the set of things that go wrong in it: the device
answers sFA (`errors`) or not at all (`losses`), the scan data never end
(`stream`), or the program uses the API (`api`). Each property says in which
modes it holds.

### TcpConnection

Sockets and read threads are numbered by their connection; `readThread` is
m_readThread, 0 for null. A reader goes through the points of
readThreadFunction and readInputData at which it reads or writes something the
main thread also uses: the flag (`head`), isOpen (`open`), poll, recv, the test
of the flag after it (`check`), callback, time stamp, closeSocket in two steps
(`close`, `forget`), and the evaluation of the result. The flag a reader tests
after poll is the one of the thread m_readThread points to (`ToldToStop`), which
after a reconnect is another thread's. ThreadEntry sets the flag, possibly
after close() cleared it.

Main connects, initialises, runs, is told by the monitor to reinitialise, or
leaves. close() is `CloseSignals`, `CloseSocket`, `StopSignals`, `CloseJoins`.
A first initialisation that fails deletes the scanner (`InitFails` to
`signal`), a later one only disconnects, which skips close() when the reader has
already closed the socket. Not modelled: write(), interruption of poll by a
signal, an open that fails to create a socket, and a stop by another thread.

`Prompt` says that the sleeps between disconnect and connect
(sick_scan_common_tcp.cpp:240-245 and the destructor and constructor of the
scanner) outlast the few last steps of a reader that lost its connection.
Without it a reader that was not joined (because closeTcpConnection saw a closed
socket) can find the new socket open and read from it next to the new reader.
The run assumes it.

### LidarCommands, StartUp

`LidarCommands` is the data of the start-up: the parameters of the 19 SOPAS
scanner types, and the sequences of commands that init_cmdTables and
init_scanner put together from the scanner type and the launch file. A command
is its name; an item of a sequence also says whether init_scanner gives up when
the command fails, and whether it belongs to the chain, the configuration or the
start sequence. Commands with a value for which there are variants (tracking
mode, encoder mode, operational mode) are represented by one of them. Two of the
options are traits of the lidar and not of the launch file: a radar with one
dimension (`RMS1`), and a lidar whose LMPscancfg SopasToLMPscancfg cannot parse, so
that the command with the angles is empty and the loop passes over it
(`LMPscancfg_unread`, sick_scan_common.cpp:2632-2672). Frequency and resolution
(`ScanCfg`) are written for LMS_1XX, LMS_1XXX, LMS_5XX and MRS_1XXX only; the other
types without a list get a warning and a read, and keep their own (3460-3466).
What `Configured` asks for is what the driver sends to the type: a setting that it
does not write is not in it.

`StartUp` is the thread that sends them. `pc` is where it is: `connect` (a new
scanner object, or reinit on the one it has), `probe` and `probeOther` (the
device state in one dialect and the other), `switch` and `switchTiM240`
(switchColaProtocol), `send` (`todo` is what is left), `rebootLogin` and
`reboot` (rebootScanner), `ready` (polls after CMD_RUN), `run`, `exit`. An
exchange is one step: the details are those of `SopasExchange`. It succeeds or
fails with an empty reply; sendSopasAndCheckAnswer has no third result, which is
why the loop over both dialects in the chain (maxCmdLoop) never comes to its
second round and is not modelled. Answers that come too late are left out here.

The lidar is external. Its model is what the driver's order of commands and its
comments presuppose: writes need a login, CMD_RUN ends it ("leave user level",
"re-enter authorized client level"), login and subscriptions end with the
connection, settings and dialect with the power (the dialect then is that of the
EEPROM), a TiM240 is deaf after a command in the wrong dialect until the next
connection, and some types do not know some commands (`Unsupported`, each from a
comment next to the code that avoids it). An LRS4000 cannot switch its dialect,
so it starts in the configured one.

### ApiListeners

A message of the lidar passes two lists, each with a mutex of its own: that of the
driver (`internal`), which holds the converting callback of the API (`export`)
and the one of the wait handlers (`wait`), and that of the API (`listeners`)
with the clients' callbacks. `Notify` and the publisher's further steps
copy a list under its mutex and then call one entry at a time, so a list may
change between two calls. A list is a bag: registering twice means two calls.

A wait handler lies on the stack of the client that called WaitNext: it is
enlisted in a static list, gets a copy of the message, and is taken off the list
before the call returns. The publisher walks over that list under its mutex.
`handlers` names a handler by its client. The histories `fresh`, `settled` and
`due` say who is owed a message. Deregistering one callback takes the converting
callback off the list of the driver; `Alone` restricts what is owed to the
times in which no other callback of the kind is deregistered, which is what the
code keeps; without it `NobodyMissed` is what the documentation says.

### LaserSession

The laser thread (mainGenericLaserInternal) and a thread of the program that
starts and stops the driver share s_scanner, s_isInitialized, s_runState,
s_status_code and the flag of the signal handler without a lock. Every write is
a step: `laser` and `program` name the next one. `BeginsStart`, `StartGenericLaser`
are startGenericLaser, which resets the globals; `BeginsStop` to `joinGenericLaser`
are stopScannerAndExit. SickScanApiClose and signals set the flag
first (`close`), the service SickScanExit does not (`service`): then only
s_runState stops the main loop, and a stop that comes before the loop has set it to
run is overwritten. What an initialisation does is in `StartUp`, and what a
reconnect does in `TcpConnection`: here it succeeds, fails or is repeated. The
specification is `SessionSpec`: `Api_proofs` extends this module and
`ApiListeners`, whose names differ therefore.

## 4. The runs

| run | module, configuration | instance | checks |
|---|---|---|---|
| fifo | MCFifo | 2 payloads, 2 consumers, length 2, 5 pushes | `TypeOK`, `QueueIsNewest`, `NoLostWakeup`, `ImplementsChannel`, `EveryElementLeaves` |
| pipeline_safety | MCSegmentPipeline | scan and imu, fifos of length 1, 2 datagrams each, 1 epoch | `TypeOK`, `NoUseAfterDelete`, `ExportedInOrder` in all interleavings of 4 workers and main |
| pipeline_restart | MCSegmentPipeline, MCPipelineRestart | scan, fifos of length 1, 3 datagrams, 2 epochs, a lidar that keeps sending | `PipelineDrains`, `TeardownEnds` |
| segment_collector | MCSegmentCollector | 5 segments, 3 azimuth ranges, 2 layers, with and without elevation filter, counter wrap at 14, gaps of 2, delays of 1, 40 telegrams | `TypeOK`, `OneRevolution`, `UndisturbedPublished`, `FramesAscend` |
| tcp_connection | MCTcpConnection | 2 connections, 2 datagrams each | `TypeOK`, `DeliveredInOrder`, `NoReaderSurvives`, `OpenIsRead`, `CloseReturns`, `LostIsReinitialised` |
| frame_receiver | MCFrameReceiver | both dialects, 3 payloads each, buffer of 14 bytes, chunks up to 5, 4 frames, 2 lost connections | `TypeOK`, `NothingLost`, `OneFrameDamaged` |
| sopas | MCSopasExchange | 2 locked clients, 1 of the API, 2 keywords, of which the scanner shares one, 2 requests, 2 scan datagrams and an endless stream of which 2 are queued, 1 retry; modes {losses}, {stream}, {errors, losses} and {api} | `TypeOK`, `ScanDataComplete`, `ReplyToTheCommand`, `NoLostWakeup`, `CommandReturns`, `ScanDataTaken` |
| sopas_api | MCSopasExchange, MCSopasApi | 1 locked client, 1 of the API, 1 keyword, mode {api} | a finding: `RepliesMatch` |
| startup | MCStartUp | 19 scanner types, both dialects, no options / its options / a new address / an unreadable scan configuration, 2 faults, 2 polls | `TypeOK`, `NothingRefused`, `RunningMeansConfigured`, `DataOnlyWhenConfigured`, `DriverRuns` |
| api_listeners | MCApiListeners | 2 clients, 2 callbacks, 2 kinds, 2 equal entries, `Alone` | `TypeOK`, `NoDestroyedHandler`, `NobodyMissed` |
| api_register | MCApiListeners, MCApiRegister | the same, not `Alone` | a finding: `NobodyMissed` |
| laser_session | MCLaserSession | both ways to stop, 3 sessions | `SessionTypeOK`, `StoppedMeansEnded`, `CloseReturns` |

Why the bounds are enough. A fifo of length 1 or 2 overflows after as many
pushes, and 3 to 5 pushes make it overflow, drain and overflow again. Two epochs
show what is left over from the first in the second. Two requests with the same
keyword are the least for an answer to be mistaken; a further read is one
retry. A queue of two has a datagram of the stream behind one that is being taken,
and each of them wakes whoever waits. Two connections are the least for a
reconnect; two datagrams on each show an order. Two
faults in the start-up are a fault and another one during the recovery from it;
the 45 polls of the device state become two, a busy answer and the last one.
Five segments are the fewest for which a gap of 2 and a delay of 1 are shorter
than a revolution with a segment to spare; 40 telegrams are eight revolutions and
take the counter, which wraps at 28, through a positive, a negative and again a
positive half. Four frames and two losses show a frame that begins with half
another, the frame after it, and the same on top of a buffer that was already
damaged; the payloads hold a length, a magic word and a whole frame, so that
a search that starts at the wrong byte finds one. Two equal entries are
the least for a removal to leave one. Three sessions let a thread, and the next
one, start on globals which the one before left behind.

The bounds are guards of the
actions that count and have names (`MaxDatagrams`, `MaxEpochs`, `MaxRequests`,
`MaxData`, `MaxQueued`, `MaxRetries`, `MaxConnects`, `MaxPushed`, `MaxFaults`, `MaxPolls`,
`MaxTelegrams`, `MaxFrames`, `MaxLosses`, `MaxEntries`, `MaxSessions`);
`Registered` is a bound too: the second kind is only waited for. `FewMessages` is 10 in the
code (no udp timeout up to that many messages), `MaxRetries` 100. The clients and
callbacks of `ApiListeners` are symmetric, and the run with symmetry has no
liveness property.

Deadlock is checked except where the system or its model may stop: in `sopas` a
client and the scanner thread can block in pop for ever after another thread took
what they were woken for (see below); a driver that runs, or ended, has nothing more to do in `StartUp`; and
`FrameReceiver`, `SegmentCollector` and `LaserSession` stop when their bounds
are used up.

Fairness. Every thread that can run is run by the operating system: weak
fairness of main and of each worker, per thread (threads do not share a step).
Waiting for a mutex that is released again and again is the one place where
weak fairness is less than one would like: no property depends on a client
getting the mutex. The lidar need not send: receiving is fair only in
`SendingSpec`. A SOPAS wait that nothing wakes any more ends, but no fairness makes
the timeout strike between two datagrams of a stream; and the device deals with
requests, which may mean that it ignores them. Time passes in `TcpConnection`.
`StartUp` has one thread, which goes on (`WF_vars(Driver)`); faults are bounded,
so that the thread eventually gets its answers. In `LaserSession` the laser thread
goes on except while it is initialising again without a stop: the lidar may be
gone for good. The program need not stop the driver, but a stop that has begun
goes on. No liveness is claimed of WaitNext.

### Findings

- **sopas_api**: convertSendSOPASCommand does not take sopasSendMutex: the API and
  a service that use the same keyword can get each other's reply.
- **api_register**: deregistering one of two callbacks of a kind also takes the
  converting callback of the API off the driver's list, so the other one is not
  called any more, although the documentation promises it.

Further divergences that the modelling showed, which no run of its own checks:

- Scansegment: after "udp receive timeout, stop and reconnect..." the teardown
  joins a receiver that sits in a recv without timeout, so as long as the lidar is
  silent nothing reconnects. `MsgPackExporter::Run` sets m_run_exporter_thread,
  which a Close that came first has cleared, and join then waits for ever
  (`TeardownEnds` therefore excludes an exporter that has not begun).
- SOPAS: a client that was woken for a datagram may find it taken by the scanner
  thread, if it was an sFA or has a keyword that both wait for, and pop has no
  timeout, whatever USAGE.md:418 says. With a lost answer and scan data that never
  end the timeout is restarted by each of them and does not strike either: the
  command waits for ever and holds sopasSendMutex, so that no other command is
  sent. `CommandReturns` therefore excludes errors, shared keywords, and the mode
  with both losses and stream; without these conditions TLC finds it violated. An
  answer that missed its timeout is returned as the reply to the next command with
  the same keyword (`ReplyToTheCommand` therefore ends with the first command that is
  given up before its answer came). A command with a keyword of the scanner costs scan
  data, as the comments at sick_scan_common.cpp:1123 and 1141 expect.
- Connection: isConnected() stays true after the reader closed a lost socket,
  although its comment promises a connection and a reader.
- Start-up: `setNewIPAddr` is never set, so the new IP address that USAGE.md:455
  promises is never written; the driver shortens the chain to the login and
  ends. In CoLa-B, rebootScanner compares the answer to its login with the text
  of CoLa-A, fails, and does not send the reboot (cfg/SickScan.cfg:88). Every
  reinitialisation appends the encoder commands to the chain once more.
- Framing: the loop variables over a payload have 16 bits, so a frame longer than
  65536 bytes never ends the loop; after a wrong checksum or length CoLa-B throws
  away the whole buffer, good frames included.
- API: with two callbacks registered the converting callback is in the driver's
  list twice, and each of them is called twice per message. A client that waits
  for polar clouds is woken by a cartesian one, as both kinds share a handler class.
  Release leaves the entries of its handle in the lists of the driver and in those
  of diagnostic and log messages.
- Fullframe clouds: `OneRevolution` needs losses and delays that are together
  shorter than a revolution; a longer outage, such as an overflow of the fifo
  before the publisher, mixes revolutions. After 2^31 telegrams (about 103 days at 240 per
  second) the int counter is negative and no fullframe cloud is published for as
  long again (`UndisturbedPublished` excludes it). With a range of one or two
  segments a late telegram can publish older points after newer ones.
- Sessions: a stop by SickScanExit during the initialisation is overwritten and
  its join hangs (`CloseReturns` is about `close` only). startGenericLaser
  returns true without a start if the last thread ended by itself and was not
  joined. Two threads that close at once, and stopScanData against the
  delete of the scanner, are races that the model leaves out.

## 5. Proofs

Every theorem holds for all values of the constants that satisfy the assumptions
named in the module. The proofs are in a module of their own per component. The assumptions in the
last column are operators; where they speak of constants that a run gives values,
the MC module asserts that they hold there (`TheoremsApply`).

| module | theorems | assumes besides the types of the constants |
|---|---|---|
| `Fifo_proofs` | `TypeCorrect`, `LosesOnlyOldest`, `Wakeups`, `Refinement` (implements `LossyChannel`) | |
| `SegmentPipeline_proofs` | `TypeCorrect`, `TeardownIsSafe`, `ExportsAreOrdered` | |
| `SegmentCollector_proofs` | `CloudsAreOfOneRevolution`, `TypeCorrect`, `CloudsAscend`, `UndisturbedIsPublished` | `ShortDisturbance`; `N - 1 <= MaxTelegrams` (not for the first); `WideRange` (for `CloudsAscend`), `SpansInReach` (for `UndisturbedIsPublished`) |
| `FrameReceiver_proofs` | `TypeCorrect`, `NothingIsLost`, `OnlyOneFrameIsDamaged` | `BufferSuffices` (not for `TypeCorrect`) |
| `SopasExchange_proofs` | `TypeCorrect`, `NobodySleeps`, `DataIsComplete`, `CommandsGetTheirReplies` | |
| `TcpConnection_proofs` | `TypeCorrect`, `ReadersAreJoined`, `OpenSocketsAreRead`, `DeliveriesAreOrdered` | `Prompt` (not for `TypeCorrect`) |
| `Api_proofs` (`ApiListeners`) | `TypeCorrect`, `HandlersAreSafe`, `NobodyIsMissed` | `Alone` (for `NobodyIsMissed`) |
| `Api_proofs` (`LaserSession`) | `SessionTypeCorrect`, `StopEndsEverything` | |
| `StartUp_proofs` | `TypeCorrect`, `NothingIsRefused`, `RunningIsConfigured`, `DataAreConfigured` | no NAV_350 with initialize_scanner 0 (for `DataAreConfigured`) |

The arguments:

- **Fifo**: `IInv == TypeOK /\ QueueIsNewest /\ NoLostWakeup`. Type correctness
  alone is not inductive: that the number of the last element popped is a number
  needs `Removed >= 0`, hence the window that `QueueIsNewest` describes. The
  heart is the lemma `DropOldestKeepsEnd`: what `Push` leaves of the queue is an end
  of it. So the queue is always an end of what was sent, and its front the oldest
  message the channel would deliver (`FrontIsOldest`), which makes every pop a
  receive of the channel.
- **SegmentPipeline**: `Lifetimes` ties the fifos that are alive and the threads
  that are not joined to the step of runThreadCb that main is at; a thread that
  can touch a fifo is one main has not joined. For the order, a datagram is at one
  of five stages on its way (`At`): with the receiver, in the udp fifo, with the
  converter, in the output fifo, with the exporter. `StagesInOrder` says that what
  is further along is older, `QueuesAscend` that each fifo ascends; the lemma
  `OrderMoves` covers a datagram that goes one stage further.
- **SegmentCollector**: `Collected` says that the telegrams of the collector ascend
  and are of one revolution, that the counter is the last one's, and that it is
  not older than a late telegram may be. The code compares counters and segment
  indices only; two numbers less than `N` apart with ascending remainders have the
  same quotient (`SameRevolution`), so what the code appends is of the revolution
  it has collected. Hence each segment has a higher index than the one before
  (`Counted`), and a collection has at most `N` of them. For `CloudsAscend`,
  `ShownIsBehind` says that a revolution that was shown had reached the far end of
  the azimuth range: with a range wider than `MaxDelay` (`WideRange`) what still
  comes late is behind the near end, and cannot complete the revolution again.
  For `UndisturbedIsPublished`, `InOrder` follows a revolution that arrives
  complete: it is in the collector from its first segment on (`InCollector`), or all
  that the range asks for has gone out already (`AlreadyShown`). `SpansInReach`
  says that the layers of the lidar can satisfy the elevation filter; without it
  there is never a fullframe cloud. `ShortDisturbance` also has a revolution
  shorter than the int counter, which is negative half of the time.
- **FrameReceiver**: the stream is a sum of frames. While the connection is clean
  (CoLa-A, or CoLa-B with an empty buffer at its start) what the buffer and the wire
  hold is what an older connection left, then the frames that were not
  delivered (`ToCome`), and when the loop of the read callback has ended the buffer
  holds less than the first of them (`Exhausted`). So the frame that
  findFrameInReceiveBuffer takes is the next one: in CoLa-A because a payload has
  neither start nor end byte, in CoLa-B because the first magic word is at the start
  and the length byte behind it says where the frame ends, whatever the payload
  contains. `Exhausted` is also why nothing is dropped for want of space:
  `BufferSuffices` asks for room for one chunk behind the longest part of a frame,
  and in CoLa-A behind the parts that `MaxLosses` connections in a row can leave
  (`PartsLeft`). The code has 480000 bytes and chunks of 8192
  (sick_scan_common_tcp.h:177, tcp.cpp:266). `TypeCorrect` needs no such
  assumption: a full buffer drops or is emptied. The recursive functions of the
  model (`Frames`) are reasoned about by well-founded induction over their length
  (`LeastNumber`).
- **SopasExchange**: `NobodySleeps` follows from the queue alone: a push that finds a
  sleeper wakes it. For `DataIsComplete`, `DataInOrder` says that the numbered data in
  the queue ascend and are those after the last one the scanner took, without those
  that clients drew (`Gone`); each take is the first match in the queue, so the
  scanner passes over no scan data (`ScannerPassesOver`), and a client draws some only
  under a keyword of the scanner. `CommandsGetTheirReplies` needs `Exclusive`: without
  the API, and until a command is abandoned, the requests the device still has, and
  the answers and errors in the queue, are those of the owner of the mutex, or of
  nobody, and only one of them; so what the owner reads is its own or scan data,
  whether or not the scanner thread takes the answer first (`RepliedIsOwn`).
- **TcpConnection**: under `Prompt` there is one reader at a time (`SoleReader`): when
  main connects, the old one has ended, because close() joined it (`LastClose`)
  or because it closed the socket itself and the sleep outlasted its last steps.
  `ReaderKept` gives `NoReaderSurvives` and `OpenIsRead`. `InOrder` splits into
  what was sent, held by the reader, in the inbox, and delivered.
- **ApiListeners**: `HandlersListed` and `WalkListed` keep the static list and the
  walk over it within the handlers that exist. For `NobodyIsMissed`, callbacks that
  are owed messages are listed in both lists (`SettledListed`, `FreshListed`), and
  whoever is due and not served yet is in what is left of the publisher's copies
  (`CallbacksLeft`, `WaitersLeft`) or has a message (`WaitersHeard`).
- **LaserSession**: `SessionIInv == SessionTypeOK /\ EndIsReported /\ StartsWithinBound`. A laser
  thread that has ended has deleted its scanner, and a stop has set EXIT or sees
  to it when the thread did not (`EndIsReported`).
- **StartUp**: first about sequences of commands, for every scanner type and any
  options: whatever is put together, no command of the chain or the configuration
  changes the dialect or starts data (`ChainQuiet`, `ConfigurationHarmless`), every
  login and the chain are followed by a CMD_RUN that must succeed, and what must be
  written is written before the data start (`InitItems`). `OnCourse` is the
  strengthening: as long as the connection lasts, each mandatory setting is
  applied or still to be sent, data flow or their start is still to be sent, and a
  lidar at the user level has a CMD_RUN ahead of it. `ChainKept` says that the
  chain of an object that is initialised again has lost nothing. When nothing is
  left to send, `RunningMeansConfigured` follows. For `NothingIsRefused` the
  sequences are followed once more: behind every CMD_RUN comes a login or nothing
  that needs one, and the one command that a type may not know is the tracking mode
  of a radar that is asked for its type before, whose answer replaces it
  (`Acceptable`, kept by `Smooth` as the sequence is sent).

Every safety invariant that a passing run checks is stated by one of these
theorems. Only model-checked are the liveness properties (fairness and ENABLED are
outside the prover's reach) and the two findings, which TLC refutes.

## 6. What is not modelled

- Decoding of telegrams (parsers, generic parser, radar, IMU, field monitoring),
  conversion to messages, angle compensation and transforms: functions of one
  telegram, most of them on floating-point numbers, without state that is
  shared between threads.
- MsgPackValidator counts cells per telegram in one thread, and SoftwarePLL is a
  regression over floating-point ticks: what could go wrong with them is
  numeric.
- The SOPAS codecs, SopasBase (unused), LDMRS (an external library), tinyxml,
  msgpack11, the ROS emulation, simulators, tools, launch files and demos:
  third-party, generated or unused. They are most of the lines of the repository,
  which is why the map covers a small share of them.
- Values of parameters and of commands; PointCloudMonitor; write() on the socket;
  the composition of connection, framing and receive queue over a reconnect.

Hazards without a property are listed with their reason in `PROJECT.json`.
