---------------------------- MODULE TcpConnection ----------------------------
(***************************************************************************)
(* The TCP connection to a lidar: class Tcp with its read thread           *)
(* (driver/src/tcp/tcp.cpp, SickThread.hpp), SickScanCommonNw on top of it *)
(* and the thread that initialises the scanner, runs its loop, monitors    *)
(* the messages and initialises it again after a timeout.                  *)
(*                                                                         *)
(* A socket is numbered by its connection, 0 stands for -1.  So is the     *)
(* SickThread that Tcp::open creates for it; m_readThread points to the    *)
(* latest one, which need not be the thread that evaluates it.             *)
(***************************************************************************)
EXTENDS Integers, Sequences

CONSTANTS Prompt,        \* the sleep between close and connect outlasts the
                         \* last steps of a read thread that lost its connection
          MaxConnects,   \* bounds of this model: connections made
          MaxData        \* and datagrams sent over each of them

ASSUME TcpAssumption == Prompt \in BOOLEAN /\ MaxConnects \in Nat /\ MaxData \in Nat

Readers == 1..MaxConnects

VARIABLES main,        \* where the main thread is
          runState,    \* s_runState: scanner_init or scanner_run
          leaving,     \* rosOk() is FALSE ("asked"), the scanner is deleted ("now")
          state,       \* m_state
          socket,      \* m_connectionSocket
          readThread,  \* m_readThread
          lastMsg,     \* m_last_tcp_msg_received_nsec: none, recent or old
          connects,    \* connections made so far
          pc,          \* where each read thread is
          shouldRun,   \* m_threadShouldRun of each SickThread
          result,      \* what readInputData has read: data, lost, error
          datum,       \* the datagram a read thread holds
          peer,        \* the lidar's end of each connection: up or closed
          inbox,       \* datagrams sent and not read yet, per connection
          fed,         \* datagrams sent, per connection
          delivered    \* history: datagrams given to the read callback

mainVars == <<main, runState, leaving, state, connects>>
shared == <<socket, readThread, lastMsg, shouldRun>>
local == <<pc, result, datum>>
lidar == <<peer, inbox, fed>>
vars == <<mainVars, shared, local, lidar, delivered>>

Init ==
    /\ main = "connect" /\ runState = "scanner_init" /\ leaving = "no" /\ state = "CONSTRUCTED" /\ connects = 0
    /\ socket = 0 /\ readThread = 0 /\ lastMsg = "none"
    /\ shouldRun = [r \in Readers |-> TRUE]
    /\ pc = [r \in Readers |-> "none"]
    /\ result = [r \in Readers |-> "none"]
    /\ datum = [r \in Readers |-> 0]
    /\ peer = [c \in Readers |-> "up"]
    /\ inbox = [c \in Readers |-> <<>>]
    /\ fed = [c \in Readers |-> 0]
    /\ delivered = <<>>

isOpen == socket # 0

Running(r) == pc[r] \notin {"none", "exit"}

\* What a read thread has left to do after it closed the socket.
LastSteps == {"result", "head", "open"}

-----------------------------------------------------------------------------
(* The read thread. *)

ReaderGoes(r, from, to) == pc[r] = from /\ pc' = [pc EXCEPT ![r] = to]

Reads(r, what) == result' = [result EXCEPT ![r] = what]

\* thread_entry sets the flag that close() may just have cleared.
ReaderStarts(r) ==
    /\ ReaderGoes(r, "start", "head")
    /\ shouldRun' = [shouldRun EXCEPT ![r] = TRUE]
    /\ UNCHANGED <<mainVars, socket, readThread, lastMsg, result, datum, lidar, delivered>>

\* Fault: the flag is not tested.
ReaderIgnoresFlag(r) ==
    /\ ReaderGoes(r, "head", "open")
    /\ UNCHANGED <<mainVars, shared, result, datum, lidar, delivered>>

ReaderTestsFlag(r) ==
    /\ ReaderGoes(r, "head", IF shouldRun[r] THEN "open" ELSE "exit")
    /\ UNCHANGED <<mainVars, shared, result, datum, lidar, delivered>>

ReaderTestsOpen(r) ==
    /\ IF isOpen
       THEN ReaderGoes(r, "open", "poll") /\ UNCHANGED result
       ELSE ReaderGoes(r, "open", "result") /\ Reads(r, "error")
    /\ UNCHANGED <<mainVars, shared, datum, lidar, delivered>>

\* The reader is told to stop, by the flag of the thread m_readThread points to.
ToldToStop == IF readThread = 0 THEN TRUE ELSE ~shouldRun[readThread]

\* poll() returns when there is something to read or the socket was closed.
Readable == isOpen => inbox[socket] # <<>> \/ peer[socket] = "closed"

\* poll() times out and is repeated unless the reader is told to stop.  An
\* interruption by a signal is left out.
ReaderPolls(r) ==
    /\ \/ /\ Readable
          /\ ReaderGoes(r, "poll", "recv") /\ UNCHANGED result
       \/ /\ ToldToStop
          /\ ReaderGoes(r, "poll", "close") /\ Reads(r, "lost")
    /\ UNCHANGED <<mainVars, shared, datum, lidar, delivered>>

\* recv() on the socket as it is now.  Another reader may have emptied it.
ReaderReceives(r) ==
    /\ ReaderGoes(r, "recv", "check")
    /\ \/ /\ isOpen /\ inbox[socket] # <<>>
          /\ Reads(r, "data")
          /\ datum' = [datum EXCEPT ![r] = Head(inbox[socket])]
          /\ inbox' = [inbox EXCEPT ![socket] = Tail(@)]
       \/ /\ isOpen /\ inbox[socket] = <<>> /\ peer[socket] = "closed"
          /\ Reads(r, "lost") \/ Reads(r, "error")
          /\ UNCHANGED <<datum, inbox>>
       \/ /\ ~isOpen
          /\ Reads(r, "error")
          /\ UNCHANGED <<datum, inbox>>
    /\ UNCHANGED <<mainVars, shared, peer, fed, delivered>>

\* What was read is dropped when the thread was told to stop.
ReaderChecks(r) ==
    /\ ReaderGoes(r, "check",
          IF ~ToldToStop /\ result[r] = "data" THEN "callback" ELSE "close")
    /\ IF ToldToStop THEN Reads(r, "lost") ELSE UNCHANGED result
    /\ UNCHANGED <<mainVars, shared, datum, lidar, delivered>>

ReaderCallsBack(r) ==
    /\ ReaderGoes(r, "callback", "stamp")
    /\ delivered' = Append(delivered, datum[r])
    /\ UNCHANGED <<mainVars, shared, result, datum, lidar>>

\* Fault: the time of the message is not noted.
ReaderForgetsStamp(r) ==
    /\ ReaderGoes(r, "stamp", "head")
    /\ UNCHANGED <<mainVars, shared, result, datum, lidar, delivered>>

ReaderStamps(r) ==
    /\ ReaderGoes(r, "stamp", "head")
    /\ lastMsg' = "recent"
    /\ UNCHANGED <<mainVars, socket, readThread, shouldRun, result, datum, lidar, delivered>>

\* Fault: a reader that lost the connection leaves the socket open.
ReaderKeepsSocket(r) ==
    /\ ReaderGoes(r, "close", "result")
    /\ UNCHANGED <<mainVars, shared, result, datum, lidar, delivered>>

\* closeSocket: the descriptor is closed first and forgotten later.
ReaderCloses(r) ==
    /\ \/ /\ ReaderGoes(r, "close", IF isOpen THEN "forget" ELSE "result")
          /\ UNCHANGED socket
       \/ ReaderGoes(r, "forget", "result") /\ socket' = 0
    /\ UNCHANGED <<mainVars, readThread, lastMsg, shouldRun, result, datum, lidar, delivered>>

\* readThreadFunction: only an error ends a thread that should run.
ReaderEnds(r) ==
    /\ ReaderGoes(r, "result", IF result[r] = "error" /\ ~ToldToStop THEN "exit" ELSE "head")
    /\ UNCHANGED <<mainVars, shared, result, datum, lidar, delivered>>

Reader(r) ==
    \/ ReaderStarts(r) \/ ReaderTestsFlag(r) \/ ReaderTestsOpen(r) \/ ReaderPolls(r)
    \/ ReaderReceives(r) \/ ReaderChecks(r) \/ ReaderCallsBack(r) \/ ReaderStamps(r)
    \/ ReaderCloses(r) \/ ReaderEnds(r)

-----------------------------------------------------------------------------
(* The main thread. *)

MainGoes(from, to) == main = from /\ main' = to

\* Tcp::open fails to connect: it calls close(), which joins m_readThread.
ConnectFails ==
    /\ MainGoes("connect", "signal")
    /\ lastMsg' = "none"
    /\ UNCHANGED <<runState, leaving, state, connects, socket, readThread, shouldRun, local, lidar, delivered>>

\* Tcp::open connects and starts a new read thread; the old one is forgotten.
Connects ==
    /\ MainGoes("connect", "init")
    /\ connects < MaxConnects
    /\ Prompt => \A r \in Readers : pc[r] \notin LastSteps
    /\ connects' = connects + 1
    /\ state' = "CONNECTED"
    /\ socket' = connects + 1
    /\ readThread' = connects + 1
    /\ lastMsg' = "none"
    /\ pc' = [pc EXCEPT ![connects + 1] = "start"]
    /\ UNCHANGED <<runState, leaving, shouldRun, result, datum, lidar, delivered>>

\* init_scanner succeeds: the lidar answered the start commands.
InitSucceeds ==
    /\ MainGoes("init", IF leaving = "no" THEN "run" ELSE "destroy")
    /\ \E i \in DOMAIN delivered : delivered[i][1] = connects
    /\ runState' = "scanner_run"
    /\ UNCHANGED <<leaving, state, connects, shared, local, lidar, delivered>>

\* It fails.  The first initialisation is repeated with a new scanner object,
\* a later one by SickScanMonitor with the old one, until rosOk() is FALSE.
InitFails ==
    /\ MainGoes("init",
          IF leaving # "no" THEN "destroy"
          ELSE IF runState = "scanner_init" THEN "signal" ELSE "disconnect")
    /\ UNCHANGED <<runState, leaving, state, connects, shared, local, lidar, delivered>>

\* loopOnce, then checkState: without any message there is no timeout.
MonitorEnds ==
    /\ \/ lastMsg = "old" /\ MainGoes("run", "disconnect")
       \/ leaving # "no" /\ MainGoes("run", "destroy")
    /\ UNCHANGED <<runState, leaving, state, connects, shared, local, lidar, delivered>>

\* closeTcpConnection calls close() only if the socket is open.
Disconnects ==
    /\ MainGoes("disconnect", IF isOpen THEN "signal" ELSE "closed")
    /\ UNCHANGED <<runState, leaving, state, connects, shared, local, lidar, delivered>>

\* The destructors of the scanner call close() in any case.
Destroys ==
    /\ MainGoes("destroy", "signal")
    /\ leaving' = "now"
    /\ UNCHANGED <<runState, state, connects, shared, local, lidar, delivered>>

\* Fault: m_readThread is not tested for null.
SetFlagUntested == shouldRun' =
    [r \in Readers \cup {readThread} |-> r # readThread /\ shouldRun[r]]

SetFlag == shouldRun' =
    [r \in Readers |-> shouldRun[r] /\ r # readThread]

\* Tcp::close, without m_socketMutex: the flag is cleared,
CloseSignals ==
    /\ MainGoes("signal", "closeSocket")
    /\ SetFlag
    /\ UNCHANGED <<runState, leaving, state, connects, socket, readThread, lastMsg, local, lidar, delivered>>

\* the descriptor closed and forgotten,
CloseSocket ==
    /\ \/ /\ MainGoes("closeSocket", IF isOpen THEN "forget" ELSE "stop")
          /\ UNCHANGED socket
       \/ MainGoes("forget", "stop") /\ socket' = 0
    /\ UNCHANGED <<runState, leaving, state, connects, readThread, lastMsg, shouldRun, local, lidar, delivered>>

\* the flag cleared once more,
StopSignals ==
    /\ MainGoes("stop", "join")
    /\ SetFlag
    /\ UNCHANGED <<runState, leaving, state, connects, socket, readThread, lastMsg, local, lidar, delivered>>

\* Fault: the read thread is not joined.
CloseForgetsJoin ==
    /\ MainGoes("join", "closed")
    /\ readThread' = 0
    /\ lastMsg' = "none"
    /\ UNCHANGED <<runState, leaving, state, connects, socket, shouldRun, local, lidar, delivered>>

\* and the read thread joined and deleted.
CloseJoins ==
    /\ MainGoes("join", "closed")
    /\ \A r \in Readers : r = readThread => pc[r] = "exit"
    /\ readThread' = 0
    /\ lastMsg' = "none"
    /\ UNCHANGED <<runState, leaving, state, connects, socket, shouldRun, local, lidar, delivered>>

\* The scanner is deleted, or connects again after a sleep.  A failed connect
\* comes here directly: init_scanner would send its commands in vain.
Closed ==
    /\ MainGoes("closed", IF leaving = "now" THEN "finished" ELSE "connect")
    /\ state' = "CONSTRUCTED"
    /\ UNCHANGED <<runState, leaving, connects, shared, local, lidar, delivered>>

Main ==
    \/ ConnectFails \/ Connects \/ InitSucceeds \/ InitFails \/ MonitorEnds
    \/ Disconnects \/ Destroys
    \/ CloseSignals \/ CloseSocket \/ StopSignals \/ CloseJoins \/ Closed

-----------------------------------------------------------------------------
(* The environment. *)

\* The lidar answers the start commands of the connection and sends data, as
\* long as the driver may see it.
Sends(c) ==
    /\ socket = c /\ peer[c] = "up" /\ fed[c] < MaxData
    /\ fed' = [fed EXCEPT ![c] = @ + 1]
    /\ inbox' = [inbox EXCEPT ![c] = Append(@, <<c, fed[c] + 1>>)]
    /\ UNCHANGED <<mainVars, shared, local, peer, delivered>>

Loses(c) ==
    /\ socket = c /\ peer[c] = "up"
    /\ peer' = [peer EXCEPT ![c] = "closed"]
    /\ UNCHANGED <<mainVars, shared, local, inbox, fed, delivered>>

\* The read timeout passes without a message.
TimePasses ==
    /\ lastMsg = "recent" /\ lastMsg' = "old"
    /\ UNCHANGED <<mainVars, socket, readThread, shouldRun, local, lidar, delivered>>

RosShutdown ==
    /\ leaving = "no" /\ leaving' = "asked"
    /\ UNCHANGED <<main, runState, state, connects, shared, local, lidar, delivered>>

Finished == main = "finished" /\ UNCHANGED vars

Next ==
    \/ Main \/ TimePasses \/ RosShutdown \/ Finished
    \/ \E r \in Readers : Reader(r) \/ Sends(r) \/ Loses(r)

Spec == Init /\ [][Next]_vars

\* The operating system runs the threads, and time passes.
Fairness == WF_vars(Main) /\ WF_vars(TimePasses) /\ \A r \in Readers : WF_vars(Reader(r))

FairSpec == Spec /\ Fairness

-----------------------------------------------------------------------------
(* Properties. *)

TypeOK ==
    /\ main \in {"connect", "init", "run", "disconnect", "destroy", "signal", "closeSocket",
                 "forget", "stop", "join", "closed", "finished"}
    /\ runState \in {"scanner_init", "scanner_run"}
    /\ leaving \in {"no", "asked", "now"}
    /\ state \in {"CONSTRUCTED", "CONNECTED"}
    /\ {socket, readThread, connects} \subseteq 0..MaxConnects
    /\ lastMsg \in {"none", "recent", "old"}
    /\ pc \in [Readers -> {"none", "start", "head", "open", "poll", "recv", "check", "callback",
                           "stamp", "close", "forget", "result", "exit"}]
    /\ shouldRun \in [Readers -> BOOLEAN]
    /\ result \in [Readers -> {"none", "data", "lost", "error"}]
    /\ peer \in [Readers -> {"up", "closed"}]
    /\ fed \in [Readers -> 0..MaxData]

\* The callback gets the datagrams in the order in which the lidar sent them,
\* over all connections, and none of them twice.
DeliveredInOrder ==
    \A i, j \in DOMAIN delivered :
        i < j => \/ delivered[i][1] < delivered[j][1]
                 \/ delivered[i][1] = delivered[j][1] /\ delivered[i][2] < delivered[j][2]

\* When the scanner is deleted no read thread is left that could use it.
NoReaderSurvives == main = "finished" => \A r \in Readers : ~Running(r)

\* "otherwise the driver can terminate with broken pipe in next call to
\* Tcp::write()" (tcp.cpp:319): a socket that is open has a reader looking at
\* it, so that no command is written to a connection known to be lost.
OpenIsRead ==
    isOpen /\ main \in {"init", "run"} => Running(socket)

\* close() returns: the read thread ends, even if it sets its flag again after
\* close() has cleared it.
CloseReturns == main = "join" ~> main # "join"

\* "If no messages arrive [...], the TCP/IP connection is closed" and reopened
\* (USAGE.md:382): a lost connection does not leave the scanner in its loop.
LostIsReinitialised ==
    main = "run" /\ peer[connects] = "closed" ~> main # "run"
=============================================================================
