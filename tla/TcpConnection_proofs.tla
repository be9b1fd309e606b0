------------------------ MODULE TcpConnection_proofs ------------------------
(***************************************************************************)
(* Proofs about TcpConnection for any number of connections and datagrams. *)
(***************************************************************************)
EXTENDS TcpConnection, TLAPS

\* A step of a read thread keeps the types.
LEMMA ReaderTyped ==
    ASSUME TypeOK, NEW r \in Readers, Reader(r)
    PROVE  TypeOK'
<1> USE TcpAssumption DEF TypeOK, mainVars, shared, local, lidar, ReaderGoes, Reads
<1>1. CASE ReaderStarts(r)
  BY <1>1 DEF ReaderStarts
<1>2. CASE ReaderTestsFlag(r)
  BY <1>2 DEF ReaderTestsFlag
<1>3. CASE ReaderTestsOpen(r)
  BY <1>3 DEF ReaderTestsOpen
<1>4. CASE ReaderPolls(r)
  BY <1>4 DEF ReaderPolls
<1>5. CASE ReaderReceives(r)
  BY <1>5 DEF ReaderReceives
<1>6. CASE ReaderChecks(r)
  BY <1>6 DEF ReaderChecks
<1>7. CASE ReaderCallsBack(r)
  BY <1>7 DEF ReaderCallsBack
<1>8. CASE ReaderStamps(r)
  BY <1>8 DEF ReaderStamps
<1>9. CASE ReaderCloses(r)
  BY <1>9 DEF ReaderCloses
<1>10. CASE ReaderEnds(r)
  BY <1>10 DEF ReaderEnds
<1> QED
  BY <1>1, <1>2, <1>3, <1>4, <1>5, <1>6, <1>7, <1>8,
     <1>9, <1>10 DEF Reader

\* A step of the main thread keeps the types.
LEMMA MainTyped ==
    ASSUME TypeOK, Main
    PROVE  TypeOK'
<1> USE TcpAssumption DEF TypeOK, mainVars, shared, local, lidar, MainGoes, Readers
<1>1. CASE ConnectFails
  BY <1>1 DEF ConnectFails
<1>2. CASE Connects
  BY <1>2 DEF Connects
<1>3. CASE InitSucceeds
  BY <1>3 DEF InitSucceeds
<1>4. CASE InitFails
  BY <1>4 DEF InitFails
<1>5. CASE MonitorEnds
  BY <1>5 DEF MonitorEnds
<1>6. CASE Disconnects
  BY <1>6 DEF Disconnects
<1>7. CASE Destroys
  BY <1>7 DEF Destroys
<1>8. CASE CloseSignals
  BY <1>8 DEF CloseSignals, SetFlag
<1>9. CASE CloseSocket
  BY <1>9 DEF CloseSocket
<1>10. CASE StopSignals
  BY <1>10 DEF StopSignals, SetFlag
<1>11. CASE CloseJoins
  BY <1>11 DEF CloseJoins
<1>12. CASE Closed
  BY <1>12 DEF Closed
<1> QED
  BY <1>1, <1>2, <1>3, <1>4, <1>5, <1>6, <1>7, <1>8,
     <1>9, <1>10, <1>11, <1>12 DEF Main

\* A step of the lidar, the clock or ROS keeps the types.
LEMMA EnvironmentTyped ==
    ASSUME TypeOK,
           TimePasses \/ RosShutdown \/ Finished \/ UNCHANGED vars
             \/ \E c \in Readers : Sends(c) \/ Loses(c)
    PROVE  TypeOK'
<1> USE TcpAssumption DEF TypeOK, mainVars, shared, local, lidar
<1>1. CASE TimePasses
  BY <1>1 DEF TimePasses
<1>2. CASE RosShutdown
  BY <1>2 DEF RosShutdown
<1>3. ASSUME NEW c \in Readers, Sends(c) \/ Loses(c)
      PROVE  TypeOK'
  <2>1. CASE Sends(c)
    <3>1. fed[c] \in 0..MaxData /\ fed[c] < MaxData
      BY <2>1 DEF Sends
    <3>2. fed[c] + 1 \in 0..MaxData
      BY <3>1
    <3>3. fed' \in [Readers -> 0..MaxData]
      BY <2>1, <3>2 DEF Sends
    <3> QED
      BY <2>1, <3>3 DEF Sends
  <2>2. CASE Loses(c)
    BY <2>2 DEF Loses
  <2> QED
    BY <1>3, <2>1, <2>2
<1>4. CASE UNCHANGED vars
  BY <1>4 DEF vars
<1> QED
  BY <1>1, <1>2, <1>3, <1>4 DEF Finished

\* Every variable has its type, for any number of connections and datagrams.
THEOREM TypeCorrect == Spec => []TypeOK
<1>1. Init => TypeOK
  BY TcpAssumption DEF Init, TypeOK
<1>2. TypeOK /\ [Next]_vars => TypeOK'
  BY ReaderTyped, MainTyped, EnvironmentTyped DEF Next
<1> QED
  BY <1>1, <1>2, PTL DEF Spec

-----------------------------------------------------------------------------

\* Only the thread m_readThread points to runs; once the socket is closed it
\* has no more than its last steps to do, until close() has joined it.
SoleReader ==
    /\ \A r \in Readers : Running(r) => r = readThread
    /\ socket = 0 /\ main \notin {"stop", "join"} =>
           \A r \in Readers : pc[r] \in LastSteps \cup {"none", "exit"}
    /\ main \in {"stop", "join", "closed", "connect", "finished"} => socket = 0

\* A scanner that is being deleted has called close().
LastClose ==
    /\ main = "finished" => leaving = "now"
    /\ leaving = "now" =>
           /\ main \in {"signal", "closeSocket", "forget", "stop", "join", "closed", "finished"}
           /\ main \in {"closed", "finished"} => \A r \in Readers : ~Running(r)

\* While the driver uses the connection its read thread is not told to stop,
\* and evaluates an error only after it has closed the socket.
InUse == main \in {"init", "run", "disconnect", "destroy"}

ReaderKept ==
    /\ readThread \in {0, connects}
    /\ isOpen => socket = readThread
    /\ \A r \in Readers : r > connects => shouldRun[r]
    /\ \A r \in Readers : pc[r] = "result" => socket = 0
    /\ InUse => readThread = connects /\ connects # 0 /\ shouldRun[connects]
    /\ InUse /\ isOpen => Running(socket)

\* A step of a read thread lets no second one run.
LEMMA SoleReaderReader ==
    ASSUME TypeOK, SoleReader, NEW r \in Readers, Reader(r)
    PROVE  SoleReader'
<1> USE DEF TypeOK, mainVars, shared, local, lidar, Running, LastSteps, isOpen,
        SoleReader, ReaderGoes, Reads
<1>1. CASE ReaderStarts(r)
  BY <1>1 DEF ReaderStarts
<1>2. CASE ReaderTestsFlag(r)
  BY <1>2 DEF ReaderTestsFlag
<1>3. CASE ReaderTestsOpen(r)
  BY <1>3 DEF ReaderTestsOpen
<1>4. CASE ReaderPolls(r)
  BY <1>4 DEF ReaderPolls
<1>5. CASE ReaderReceives(r)
  BY <1>5 DEF ReaderReceives
<1>6. CASE ReaderChecks(r)
  BY <1>6 DEF ReaderChecks
<1>7. CASE ReaderCallsBack(r)
  BY <1>7 DEF ReaderCallsBack
<1>8. CASE ReaderStamps(r)
  BY <1>8 DEF ReaderStamps
<1>9. CASE ReaderCloses(r)
  BY <1>9 DEF ReaderCloses
<1>10. CASE ReaderEnds(r)
  BY <1>10 DEF ReaderEnds
<1> QED
  BY <1>1, <1>2, <1>3, <1>4, <1>5, <1>6, <1>7, <1>8,
     <1>9, <1>10 DEF Reader

\* The main thread starts a read thread when no other one runs: this is
\* where the sleep before the next connect is needed.
LEMMA SoleReaderMain ==
    ASSUME Prompt, TypeOK, SoleReader, Main
    PROVE  SoleReader'
<1> USE TcpAssumption DEF TypeOK, mainVars, shared, local, lidar, Running, LastSteps,
        isOpen, SoleReader, MainGoes, Readers
<1>1. CASE ConnectFails
  BY <1>1 DEF ConnectFails
<1>2. CASE Connects
  BY <1>2 DEF Connects
<1>3. CASE InitSucceeds
  BY <1>3 DEF InitSucceeds
<1>4. CASE InitFails
  BY <1>4 DEF InitFails
<1>5. CASE MonitorEnds
  BY <1>5 DEF MonitorEnds
<1>6. CASE Disconnects
  BY <1>6 DEF Disconnects
<1>7. CASE Destroys
  BY <1>7 DEF Destroys
<1>8. CASE CloseSignals
  BY <1>8 DEF CloseSignals, SetFlag
<1>9. CASE CloseSocket
  BY <1>9 DEF CloseSocket
<1>10. CASE StopSignals
  BY <1>10 DEF StopSignals, SetFlag
<1>11. CASE CloseJoins
  BY <1>11 DEF CloseJoins
<1>12. CASE Closed
  BY <1>12 DEF Closed
<1> QED
  BY <1>1, <1>2, <1>3, <1>4, <1>5, <1>6, <1>7, <1>8,
     <1>9, <1>10, <1>11, <1>12 DEF Main

\* The environment starts no read thread.
LEMMA SoleReaderEnvironment ==
    ASSUME TypeOK, SoleReader,
           TimePasses \/ RosShutdown \/ Finished \/ UNCHANGED vars
             \/ \E c \in Readers : Sends(c) \/ Loses(c)
    PROVE  SoleReader'
<1> USE TcpAssumption DEF TypeOK, mainVars, shared, local, lidar, Running, LastSteps,
        isOpen, SoleReader
<1>1. CASE TimePasses
  BY <1>1 DEF TimePasses
<1>2. CASE RosShutdown
  BY <1>2 DEF RosShutdown
<1>3. ASSUME NEW c \in Readers, Sends(c) \/ Loses(c)
      PROVE  SoleReader'
  BY <1>3 DEF Sends, Loses
<1>4. CASE UNCHANGED vars
  BY <1>4 DEF vars
<1> QED
  BY <1>1, <1>2, <1>3, <1>4 DEF Finished

\* A read thread does not start another one behind the last close.
LEMMA LastCloseReader ==
    ASSUME TypeOK, SoleReader, LastClose, NEW r \in Readers, Reader(r)
    PROVE  LastClose'
<1> USE DEF TypeOK, mainVars, shared, local, lidar, Running, LastSteps, isOpen,
        SoleReader, LastClose, ReaderGoes, Reads
<1>1. CASE ReaderStarts(r)
  BY <1>1 DEF ReaderStarts
<1>2. CASE ReaderTestsFlag(r)
  BY <1>2 DEF ReaderTestsFlag
<1>3. CASE ReaderTestsOpen(r)
  BY <1>3 DEF ReaderTestsOpen
<1>4. CASE ReaderPolls(r)
  BY <1>4 DEF ReaderPolls
<1>5. CASE ReaderReceives(r)
  BY <1>5 DEF ReaderReceives
<1>6. CASE ReaderChecks(r)
  BY <1>6 DEF ReaderChecks
<1>7. CASE ReaderCallsBack(r)
  BY <1>7 DEF ReaderCallsBack
<1>8. CASE ReaderStamps(r)
  BY <1>8 DEF ReaderStamps
<1>9. CASE ReaderCloses(r)
  BY <1>9 DEF ReaderCloses
<1>10. CASE ReaderEnds(r)
  BY <1>10 DEF ReaderEnds
<1> QED
  BY <1>1, <1>2, <1>3, <1>4, <1>5, <1>6, <1>7, <1>8,
     <1>9, <1>10 DEF Reader

\* The main thread leaves only through the close of the destructors.
LEMMA LastCloseMain ==
    ASSUME TypeOK, SoleReader, LastClose, Main
    PROVE  LastClose'
<1> USE TcpAssumption DEF TypeOK, mainVars, shared, local, lidar, Running, LastSteps,
        isOpen, SoleReader, LastClose, MainGoes, Readers
<1>1. CASE ConnectFails
  BY <1>1 DEF ConnectFails
<1>2. CASE Connects
  BY <1>2 DEF Connects
<1>3. CASE InitSucceeds
  BY <1>3 DEF InitSucceeds
<1>4. CASE InitFails
  BY <1>4 DEF InitFails
<1>5. CASE MonitorEnds
  BY <1>5 DEF MonitorEnds
<1>6. CASE Disconnects
  BY <1>6 DEF Disconnects
<1>7. CASE Destroys
  BY <1>7 DEF Destroys
<1>8. CASE CloseSignals
  BY <1>8 DEF CloseSignals, SetFlag
<1>9. CASE CloseSocket
  BY <1>9 DEF CloseSocket
<1>10. CASE StopSignals
  BY <1>10 DEF StopSignals, SetFlag
<1>11. CASE CloseJoins
  BY <1>11 DEF CloseJoins
<1>12. CASE Closed
  BY <1>12 DEF Closed
<1> QED
  BY <1>1, <1>2, <1>3, <1>4, <1>5, <1>6, <1>7, <1>8,
     <1>9, <1>10, <1>11, <1>12 DEF Main

\* The environment cannot leave in its place.
LEMMA LastCloseEnvironment ==
    ASSUME TypeOK, SoleReader, LastClose,
           TimePasses \/ RosShutdown \/ Finished \/ UNCHANGED vars
             \/ \E c \in Readers : Sends(c) \/ Loses(c)
    PROVE  LastClose'
<1> USE TcpAssumption DEF TypeOK, mainVars, shared, local, lidar, Running, LastSteps,
        isOpen, SoleReader, LastClose
<1>1. CASE TimePasses
  BY <1>1 DEF TimePasses
<1>2. CASE RosShutdown
  BY <1>2 DEF RosShutdown
<1>3. ASSUME NEW c \in Readers, Sends(c) \/ Loses(c)
      PROVE  LastClose'
  BY <1>3 DEF Sends, Loses
<1>4. CASE UNCHANGED vars
  BY <1>4 DEF vars
<1> QED
  BY <1>1, <1>2, <1>3, <1>4 DEF Finished

\* A read thread gives up a connection in use only after closing its socket.
LEMMA ReaderKeptReader ==
    ASSUME TypeOK, SoleReader, ReaderKept, NEW r \in Readers, Reader(r)
    PROVE  ReaderKept'
<1> USE DEF TypeOK, mainVars, shared, local, lidar, Running, LastSteps, isOpen,
        SoleReader, ReaderKept, InUse, ToldToStop, ReaderGoes, Reads
<1>1. CASE ReaderStarts(r)
  BY <1>1 DEF ReaderStarts
<1>2. CASE ReaderTestsFlag(r)
  BY <1>2 DEF ReaderTestsFlag
<1>3. CASE ReaderTestsOpen(r)
  BY <1>3 DEF ReaderTestsOpen
<1>4. CASE ReaderPolls(r)
  BY <1>4 DEF ReaderPolls
<1>5. CASE ReaderReceives(r)
  BY <1>5 DEF ReaderReceives
<1>6. CASE ReaderChecks(r)
  BY <1>6 DEF ReaderChecks
<1>7. CASE ReaderCallsBack(r)
  BY <1>7 DEF ReaderCallsBack
<1>8. CASE ReaderStamps(r)
  BY <1>8 DEF ReaderStamps
<1>9. CASE ReaderCloses(r)
  BY <1>9 DEF ReaderCloses
<1>10. CASE ReaderEnds(r)
  BY <1>10 DEF ReaderEnds
<1> QED
  BY <1>1, <1>2, <1>3, <1>4, <1>5, <1>6, <1>7, <1>8,
     <1>9, <1>10 DEF Reader

\* The main thread clears the flag of a read thread only in close().
LEMMA ReaderKeptMain ==
    ASSUME Prompt, TypeOK, SoleReader, ReaderKept, Main
    PROVE  ReaderKept'
<1> USE TcpAssumption DEF TypeOK, mainVars, shared, local, lidar, Running, LastSteps,
        isOpen, SoleReader, ReaderKept, InUse, ToldToStop, MainGoes, Readers
<1>1. CASE ConnectFails
  BY <1>1 DEF ConnectFails
<1>2. CASE Connects
  BY <1>2 DEF Connects
<1>3. CASE InitSucceeds
  BY <1>3 DEF InitSucceeds
<1>4. CASE InitFails
  BY <1>4 DEF InitFails
<1>5. CASE MonitorEnds
  BY <1>5 DEF MonitorEnds
<1>6. CASE Disconnects
  BY <1>6 DEF Disconnects
<1>7. CASE Destroys
  BY <1>7 DEF Destroys
<1>8. CASE CloseSignals
  BY <1>8 DEF CloseSignals, SetFlag
<1>9. CASE CloseSocket
  BY <1>9 DEF CloseSocket
<1>10. CASE StopSignals
  BY <1>10 DEF StopSignals, SetFlag
<1>11. CASE CloseJoins
  BY <1>11 DEF CloseJoins
<1>12. CASE Closed
  BY <1>12 DEF Closed
<1> QED
  BY <1>1, <1>2, <1>3, <1>4, <1>5, <1>6, <1>7, <1>8,
     <1>9, <1>10, <1>11, <1>12 DEF Main

\* The environment does not touch the flag.
LEMMA ReaderKeptEnvironment ==
    ASSUME TypeOK, SoleReader, ReaderKept,
           TimePasses \/ RosShutdown \/ Finished \/ UNCHANGED vars
             \/ \E c \in Readers : Sends(c) \/ Loses(c)
    PROVE  ReaderKept'
<1> USE TcpAssumption DEF TypeOK, mainVars, shared, local, lidar, Running, LastSteps,
        isOpen, SoleReader, ReaderKept, InUse, ToldToStop
<1>1. CASE TimePasses
  BY <1>1 DEF TimePasses
<1>2. CASE RosShutdown
  BY <1>2 DEF RosShutdown
<1>3. ASSUME NEW c \in Readers, Sends(c) \/ Loses(c)
      PROVE  ReaderKept'
  BY <1>3 DEF Sends, Loses
<1>4. CASE UNCHANGED vars
  BY <1>4 DEF vars
<1> QED
  BY <1>1, <1>2, <1>3, <1>4 DEF Finished

\* The invariant of the read threads, if the sleep before a connect outlasts
\* the last steps of the old read thread.
LEMMA ReadersInvariant ==
    ASSUME Prompt
    PROVE  Spec => [](TypeOK /\ SoleReader /\ LastClose /\ ReaderKept)
<1> DEFINE Inv == TypeOK /\ SoleReader /\ LastClose /\ ReaderKept
<1>1. Init => Inv
  BY TcpAssumption DEF Init, TypeOK, SoleReader, LastClose, ReaderKept, InUse, Running, isOpen
<1>2. Inv /\ [Next]_vars => Inv'
  <2> SUFFICES ASSUME Inv, [Next]_vars
               PROVE  Inv'
    OBVIOUS
  <2>1. TypeOK'
    BY ReaderTyped, MainTyped, EnvironmentTyped DEF Next
  <2>2. SoleReader'
    BY SoleReaderReader, SoleReaderMain, SoleReaderEnvironment DEF Next
  <2>3. LastClose'
    BY LastCloseReader, LastCloseMain, LastCloseEnvironment DEF Next
  <2>4. ReaderKept'
    BY ReaderKeptReader, ReaderKeptMain, ReaderKeptEnvironment DEF Next
  <2> QED
    BY <2>1, <2>2, <2>3, <2>4
<1> QED
  BY <1>1, <1>2, PTL DEF Spec

\* The destructors of the scanner have joined every read thread that could
\* still use it.
THEOREM ReadersAreJoined ==
    ASSUME Prompt
    PROVE  Spec => []NoReaderSurvives
<1>1. LastClose => NoReaderSurvives
  BY DEF LastClose, NoReaderSurvives
<1> QED
  BY <1>1, ReadersInvariant, PTL

\* A socket the driver may write to has a read thread that would notice its loss.
THEOREM OpenSocketsAreRead ==
    ASSUME Prompt
    PROVE  Spec => []OpenIsRead
<1>1. ReaderKept => OpenIsRead
  BY DEF ReaderKept, OpenIsRead, InUse
<1> QED
  BY <1>1, ReadersInvariant, PTL

-----------------------------------------------------------------------------

\* A read thread holds a datagram from recv() until the callback has it.
Holds(r) == pc[r] = "callback" \/ (pc[r] = "check" /\ result[r] = "data")

Data == Readers \X Nat

\* The datagrams of a connection are delivered, then held by its reader, then
\* in its inbox, in the order in which the lidar sent them.
DataKept ==
    /\ inbox \in [Readers -> Seq(Data)]
    /\ delivered \in Seq(Data)
    /\ datum \in [Readers -> {0} \cup Data]

HeldKept ==
    \A r \in Readers : Holds(r) =>
        /\ datum[r] \in Data /\ datum[r][1] = r /\ datum[r][2] <= fed[r]
        /\ \A j \in DOMAIN inbox[r] : datum[r][2] < inbox[r][j][2]
        /\ \A i \in DOMAIN delivered :
               delivered[i][1] = r => delivered[i][2] < datum[r][2]

InboxKept ==
    \A c \in Readers :
        /\ \A i \in DOMAIN inbox[c] :
               inbox[c][i][1] = c /\ inbox[c][i][2] <= fed[c]
        /\ \A i, j \in DOMAIN inbox[c] :
               i < j => inbox[c][i][2] < inbox[c][j][2]

DeliveredKept ==
    \A i \in DOMAIN delivered :
        /\ delivered[i][1] <= connects
        /\ delivered[i][2] <= fed[delivered[i][1]]
        /\ \A j \in DOMAIN inbox[delivered[i][1]] :
               delivered[i][2] < inbox[delivered[i][1]][j][2]

InOrder == DataKept /\ HeldKept /\ InboxKept /\ DeliveredKept /\ DeliveredInOrder

\* The elements of a sequence after an append.
LEMMA AppendElements ==
    ASSUME NEW S, NEW q \in Seq(S), NEW e \in S
    PROVE  /\ Append(q, e) \in Seq(S)
           /\ \A i \in DOMAIN q : i \in DOMAIN Append(q, e) /\ Append(q, e)[i] = q[i]
           /\ \A i \in DOMAIN Append(q, e) \ DOMAIN q :
                  Append(q, e)[i] = e /\ \A k \in DOMAIN Append(q, e) : i >= k
<1>1. Len(q) \in Nat /\ DOMAIN q = 1..Len(q) /\ DOMAIN Append(q, e) = 1..(Len(q) + 1)
  OBVIOUS
<1> QED
  BY <1>1

\* The elements of a sequence after its head is taken.
LEMMA TailElements ==
    ASSUME NEW S, NEW q \in Seq(S), q # <<>>
    PROVE  /\ Head(q) \in S /\ Head(q) = q[1] /\ Tail(q) \in Seq(S) /\ 1 \in DOMAIN q
           /\ \A i \in DOMAIN Tail(q) :
                  i \in Nat /\ 1 < i + 1 /\ i + 1 \in DOMAIN q /\ Tail(q)[i] = q[i + 1]
OBVIOUS

\* A step that leaves the datagrams alone keeps their order.
LEMMA OthersKeepOrder ==
    ASSUME TypeOK, InOrder, connects' \in Nat, connects' >= connects,
           UNCHANGED <<inbox, fed, datum, delivered>>,
           \A r \in Readers : Holds(r)' => Holds(r)
    PROVE  InOrder'
<1> USE DEF InOrder
<1>1. DataKept' /\ InboxKept' /\ DeliveredInOrder'
  BY DEF DataKept, InboxKept, DeliveredInOrder
<1>2. HeldKept'
  BY DEF HeldKept
<1>3. DeliveredKept'
  <2> SUFFICES ASSUME NEW i \in DOMAIN delivered
               PROVE  delivered[i][1] <= connects'
    BY DEF DeliveredKept
  <2>1. delivered[i][1] \in Nat /\ delivered[i][1] <= connects
    BY DEF DataKept, Data, DeliveredKept, Readers
  <2>2. connects \in Nat
    BY TcpAssumption DEF TypeOK
  <2> QED
    BY <2>1, <2>2
<1> QED
  BY <1>1, <1>2, <1>3

\* A read thread takes the next datagram of its connection and hands it on
\* after all earlier ones.
LEMMA InOrderReader ==
    ASSUME TypeOK, SoleReader, ReaderKept, InOrder, NEW r \in Readers, Reader(r)
    PROVE  InOrder'
<1> USE DEF mainVars, shared, local, lidar, ReaderGoes, Reads
<1>0. /\ connects \in Nat /\ inbox \in [Readers -> Seq(Data)] /\ delivered \in Seq(Data)
      /\ datum \in [Readers -> {0} \cup Data] /\ fed \in [Readers -> Nat]
  <2>1. connects \in Nat /\ fed \in [Readers -> Nat]
    BY TcpAssumption DEF TypeOK
  <2> QED
    BY <2>1 DEF InOrder, DataKept
<1>1. CASE ReaderStarts(r)
  <2>1. UNCHANGED <<inbox, fed, datum, delivered, connects>>
    BY <1>1 DEF ReaderStarts
  <2>2. \A s \in Readers : Holds(s)' => Holds(s)
    BY <1>1 DEF ReaderStarts, Holds, TypeOK
  <2> QED
    BY <1>0, <2>1, <2>2, OthersKeepOrder
<1>2. CASE ReaderTestsFlag(r)
  <2>1. UNCHANGED <<inbox, fed, datum, delivered, connects>>
    BY <1>2 DEF ReaderTestsFlag
  <2>2. \A s \in Readers : Holds(s)' => Holds(s)
    BY <1>2 DEF ReaderTestsFlag, Holds, TypeOK
  <2> QED
    BY <1>0, <2>1, <2>2, OthersKeepOrder
<1>3. CASE ReaderTestsOpen(r)
  <2>1. UNCHANGED <<inbox, fed, datum, delivered, connects>>
    BY <1>3 DEF ReaderTestsOpen
  <2>2. \A s \in Readers : Holds(s)' => Holds(s)
    BY <1>3 DEF ReaderTestsOpen, Holds, TypeOK
  <2> QED
    BY <1>0, <2>1, <2>2, OthersKeepOrder
<1>4. CASE ReaderPolls(r)
  <2>1. UNCHANGED <<inbox, fed, datum, delivered, connects>>
    BY <1>4 DEF ReaderPolls
  <2>2. \A s \in Readers : Holds(s)' => Holds(s)
    BY <1>4 DEF ReaderPolls, Holds, TypeOK
  <2> QED
    BY <1>0, <2>1, <2>2, OthersKeepOrder
<1>6. CASE ReaderChecks(r)
  <2>1. UNCHANGED <<inbox, fed, datum, delivered, connects>>
    BY <1>6 DEF ReaderChecks
  <2>2. \A s \in Readers : Holds(s)' => Holds(s)
    BY <1>6 DEF ReaderChecks, Holds, TypeOK
  <2> QED
    BY <1>0, <2>1, <2>2, OthersKeepOrder
<1>8. CASE ReaderStamps(r)
  <2>1. UNCHANGED <<inbox, fed, datum, delivered, connects>>
    BY <1>8 DEF ReaderStamps
  <2>2. \A s \in Readers : Holds(s)' => Holds(s)
    BY <1>8 DEF ReaderStamps, Holds, TypeOK
  <2> QED
    BY <1>0, <2>1, <2>2, OthersKeepOrder
<1>9. CASE ReaderCloses(r)
  <2>1. UNCHANGED <<inbox, fed, datum, delivered, connects>>
    BY <1>9 DEF ReaderCloses
  <2>2. \A s \in Readers : Holds(s)' => Holds(s)
    BY <1>9 DEF ReaderCloses, Holds, TypeOK
  <2> QED
    BY <1>0, <2>1, <2>2, OthersKeepOrder
<1>10. CASE ReaderEnds(r)
  <2>1. UNCHANGED <<inbox, fed, datum, delivered, connects>>
    BY <1>10 DEF ReaderEnds
  <2>2. \A s \in Readers : Holds(s)' => Holds(s)
    BY <1>10 DEF ReaderEnds, Holds, TypeOK
  <2> QED
    BY <1>0, <2>1, <2>2, OthersKeepOrder
<1>5. CASE ReaderReceives(r)
  <2>1. CASE ~(isOpen /\ inbox[socket] # <<>>)
    <3>1. /\ UNCHANGED <<inbox, fed, datum, delivered, connects>>
          /\ pc' = [pc EXCEPT ![r] = "check"]
          /\ \/ result' = [result EXCEPT ![r] = "lost"]
             \/ result' = [result EXCEPT ![r] = "error"]
      BY <1>5, <2>1 DEF ReaderReceives
    <3>2. \A s \in Readers : Holds(s)' => Holds(s)
      BY <3>1 DEF Holds, TypeOK
    <3> QED
      BY <1>0, <3>1, <3>2, OthersKeepOrder
  <2>2. CASE isOpen /\ inbox[socket] # <<>>
    <3>1. r = socket
      BY <1>5, <2>2 DEF ReaderReceives, SoleReader, ReaderKept, Running
    <3>2. /\ inbox[r] # <<>>
          /\ datum' = [datum EXCEPT ![r] = Head(inbox[r])]
          /\ inbox' = [inbox EXCEPT ![r] = Tail(inbox[r])]
          /\ UNCHANGED <<fed, delivered, connects>>
          /\ pc' = [pc EXCEPT ![r] = "check"]
          /\ result' = [result EXCEPT ![r] = "data"]
      BY <1>5, <2>2, <3>1 DEF ReaderReceives
    <3> DEFINE q == inbox[r]
    <3>3. /\ q \in Seq(Data) /\ Head(q) \in Data /\ Head(q) = q[1] /\ 1 \in DOMAIN q
          /\ Tail(q) \in Seq(Data)
          /\ \A i \in DOMAIN Tail(q) :
                 i \in Nat /\ 1 < i + 1 /\ i + 1 \in DOMAIN q /\ Tail(q)[i] = q[i + 1]
      BY <1>0, <3>2, TailElements
    <3>4. /\ inbox'[r] = Tail(q) /\ datum'[r] = q[1]
          /\ \A s \in Readers \ {r} : inbox'[s] = inbox[s]
                                      /\ (Holds(s)' <=> Holds(s)) /\ datum'[s] = datum[s]
      BY <1>0, <3>2, <3>3 DEF Holds
    <3> HIDE DEF q
    <3>5. DataKept'
      BY <1>0, <3>2, <3>3 DEF DataKept, q
    <3>10. /\ \A i \in DOMAIN q : q[i][1] = r /\ q[i][2] <= fed[r]
           /\ \A i, j \in DOMAIN q : i < j => q[i][2] < q[j][2]
      BY DEF InboxKept, InOrder, q
    <3>6. InboxKept'
      <4> SUFFICES ASSUME NEW c \in Readers
                   PROVE  /\ \A i \in DOMAIN inbox'[c] :
                                 inbox'[c][i][1] = c /\ inbox'[c][i][2] <= fed[c]
                          /\ \A i, j \in DOMAIN inbox'[c] :
                                 i < j => inbox'[c][i][2] < inbox'[c][j][2]
        BY <3>2 DEF InboxKept
      <4>1. CASE c = r
        <5>1. \A i, j \in DOMAIN Tail(q) : i < j => Tail(q)[i][2] < Tail(q)[j][2]
          BY <3>3, <3>10
        <5>2. \A i \in DOMAIN Tail(q) : Tail(q)[i][1] = r /\ Tail(q)[i][2] <= fed[r]
          BY <3>3, <3>10
        <5> QED
          BY <3>4, <4>1, <5>1, <5>2
      <4>2. CASE c # r
        BY <3>4, <4>2 DEF InboxKept, InOrder
      <4> QED
        BY <4>1, <4>2
    <3>7. DeliveredKept'
      <4> SUFFICES ASSUME NEW i \in DOMAIN delivered
                   PROVE  \A j \in DOMAIN inbox'[delivered[i][1]] :
                              delivered[i][2] < inbox'[delivered[i][1]][j][2]
        BY <3>2 DEF DeliveredKept, InOrder
      <4>1. /\ delivered[i][1] \in Readers
            /\ \A j \in DOMAIN inbox[delivered[i][1]] :
                   delivered[i][2] < inbox[delivered[i][1]][j][2]
        BY <1>0 DEF DeliveredKept, InOrder, Data
      <4>2. CASE delivered[i][1] = r
        <5>1. \A j \in DOMAIN q : delivered[i][2] < q[j][2]
          BY <4>1, <4>2 DEF q
        <5> QED
          BY <3>3, <3>4, <4>2, <5>1, SMTT(30)
      <4>3. CASE delivered[i][1] # r
        BY <3>4, <4>1, <4>3
      <4> QED
        BY <4>2, <4>3
    <3>8. HeldKept'
      <4> SUFFICES ASSUME NEW s \in Readers, Holds(s)'
                   PROVE  /\ datum'[s] \in Data /\ datum'[s][1] = s /\ datum'[s][2] <= fed[s]
                          /\ \A j \in DOMAIN inbox'[s] : datum'[s][2] < inbox'[s][j][2]
                          /\ \A i \in DOMAIN delivered :
                                 delivered[i][1] = s => delivered[i][2] < datum'[s][2]
        BY <3>2 DEF HeldKept
      <4>1. CASE s = r
        <5>1. \A j \in DOMAIN Tail(q) : q[1][2] < Tail(q)[j][2]
          BY <3>3, <3>10
        <5>2. \A i \in DOMAIN delivered : delivered[i][1] = r => delivered[i][2] < q[1][2]
          BY <3>3 DEF DeliveredKept, InOrder, q
        <5>3. q[1] \in Data /\ q[1][1] = r /\ q[1][2] <= fed[r]
          BY <3>3, <3>10
        <5> QED
          BY <3>4, <4>1, <5>1, <5>2, <5>3
      <4>2. CASE s # r
        BY <3>4, <4>2 DEF HeldKept, InOrder
      <4> QED
        BY <4>1, <4>2
    <3>9. DeliveredInOrder'
      BY <3>2 DEF DeliveredInOrder, InOrder
    <3> QED
      BY <3>5, <3>6, <3>7, <3>8, <3>9 DEF InOrder
  <2> QED
    BY <2>1, <2>2
<1>7. CASE ReaderCallsBack(r)
  <2> DEFINE n == Len(delivered) + 1
  <2>1. Holds(r) /\ r = readThread /\ r = connects
    <3>1. pc[r] = "callback" /\ r # 0
      BY <1>7, TcpAssumption DEF ReaderCallsBack, Readers
    <3>2. r = readThread
      BY <3>1 DEF SoleReader, Running
    <3>3. r = connects
      BY <3>1, <3>2 DEF ReaderKept
    <3>4. Holds(r)
      BY <3>1 DEF Holds
    <3> QED
      BY <3>2, <3>3, <3>4
  <2>2. /\ delivered' = Append(delivered, datum[r])
        /\ pc' = [pc EXCEPT ![r] = "stamp"]
        /\ UNCHANGED <<inbox, fed, datum, result, connects>>
    BY <1>7 DEF ReaderCallsBack
  <2>3. /\ datum[r] \in Data /\ datum[r][1] = r /\ datum[r][2] <= fed[r]
        /\ \A j \in DOMAIN inbox[r] : datum[r][2] < inbox[r][j][2]
        /\ \A i \in DOMAIN delivered :
               delivered[i][1] = r => delivered[i][2] < datum[r][2]
    BY <2>1 DEF HeldKept, InOrder
  <2>4. /\ delivered' \in Seq(Data) /\ Len(delivered) \in Nat
        /\ DOMAIN delivered = 1..Len(delivered) /\ DOMAIN delivered' = 1..n
        /\ delivered'[n] = datum[r]
        /\ \A i \in 1..Len(delivered) : delivered'[i] = delivered[i] /\ delivered[i] \in Data
    <3>1. delivered \in Seq(Data) /\ datum[r] \in Data /\ delivered' = Append(delivered, datum[r])
      BY <1>0, <2>2, <2>3
    <3> QED
      BY <3>1
  <2>5. \A i \in 1..Len(delivered) : delivered[i][1] <= r /\ delivered[i][1] \in Nat
    BY <2>1, <2>4 DEF DeliveredKept, InOrder, Data, Readers
  <2>6. DataKept'
    BY <1>0, <2>2, <2>4 DEF DataKept
  <2>7. InboxKept'
    BY <2>2 DEF InboxKept, InOrder
  <2>8. HeldKept'
    <3>1. \A s \in Readers : ~Holds(s)'
      <4>1. \A s \in Readers : Holds(s) => s = r
        BY <2>1 DEF Holds, SoleReader, Running
      <4> QED
        BY <2>2, <4>1 DEF Holds, TypeOK
    <3> QED
      BY <3>1 DEF HeldKept
  <2>9. DeliveredKept'
    <3> SUFFICES ASSUME NEW i \in 1..n
                 PROVE  /\ delivered'[i][1] <= connects
                        /\ delivered'[i][2] <= fed[delivered'[i][1]]
                        /\ \A j \in DOMAIN inbox[delivered'[i][1]] :
                               delivered'[i][2] < inbox[delivered'[i][1]][j][2]
      BY <2>2, <2>4 DEF DeliveredKept
    <3>1. CASE i = n
      BY <2>1, <2>3, <2>4, <3>1 DEF Readers
    <3>2. CASE i # n
      <4>1. i \in DOMAIN delivered /\ delivered'[i] = delivered[i]
        BY <2>4, <3>2
      <4> QED
        BY <4>1 DEF DeliveredKept, InOrder
    <3> QED
      BY <3>1, <3>2
  <2>10. DeliveredInOrder'
    <3> SUFFICES ASSUME NEW i \in 1..n, NEW j \in 1..n, i < j
                 PROVE  \/ delivered'[i][1] < delivered'[j][1]
                        \/ delivered'[i][1] = delivered'[j][1] /\ delivered'[i][2] < delivered'[j][2]
      BY <2>4 DEF DeliveredInOrder
    <3>1. i \in 1..Len(delivered)
      BY <2>4
    <3>2. CASE j = n
      BY <2>3, <2>4, <2>5, <3>1, <3>2 DEF Readers
    <3>3. CASE j # n
      <4>1. j \in 1..Len(delivered)
        BY <2>4, <3>3
      <4> QED
        BY <2>4, <3>1, <4>1, SMTT(30) DEF DeliveredInOrder, InOrder
    <3> QED
      BY <3>2, <3>3
  <2> QED
    BY <2>6, <2>7, <2>8, <2>9, <2>10 DEF InOrder
<1> QED
  BY <1>1, <1>2, <1>3, <1>4, <1>5, <1>6, <1>7, <1>8,
     <1>9, <1>10 DEF Reader

\* The main thread moves to a later connection and touches no datagram.
LEMMA InOrderMain ==
    ASSUME TypeOK, InOrder, Main
    PROVE  InOrder'
<1> USE DEF mainVars, shared, local, lidar, MainGoes
<1>0. connects \in Nat /\ connects + 1 \in Nat /\ connects + 1 >= connects
  BY TcpAssumption DEF TypeOK
<1>1. CASE ConnectFails
  <2>1. UNCHANGED <<inbox, fed, datum, delivered>> /\ connects' \in {connects, connects + 1}
    BY <1>1 DEF ConnectFails
  <2>2. \A s \in Readers : Holds(s)' => Holds(s)
    BY <1>1 DEF ConnectFails, Holds, TypeOK
  <2> QED
    BY <1>0, <2>1, <2>2, OthersKeepOrder
<1>2. CASE Connects
  <2>1. UNCHANGED <<inbox, fed, datum, delivered>> /\ connects' \in {connects, connects + 1}
    BY <1>2 DEF Connects
  <2>2. \A s \in Readers : Holds(s)' => Holds(s)
    BY <1>2 DEF Connects, Holds, TypeOK
  <2> QED
    BY <1>0, <2>1, <2>2, OthersKeepOrder
<1>3. CASE InitSucceeds
  <2>1. UNCHANGED <<inbox, fed, datum, delivered>> /\ connects' \in {connects, connects + 1}
    BY <1>3 DEF InitSucceeds
  <2>2. \A s \in Readers : Holds(s)' => Holds(s)
    BY <1>3 DEF InitSucceeds, Holds, TypeOK
  <2> QED
    BY <1>0, <2>1, <2>2, OthersKeepOrder
<1>4. CASE InitFails
  <2>1. UNCHANGED <<inbox, fed, datum, delivered>> /\ connects' \in {connects, connects + 1}
    BY <1>4 DEF InitFails
  <2>2. \A s \in Readers : Holds(s)' => Holds(s)
    BY <1>4 DEF InitFails, Holds, TypeOK
  <2> QED
    BY <1>0, <2>1, <2>2, OthersKeepOrder
<1>5. CASE MonitorEnds
  <2>1. UNCHANGED <<inbox, fed, datum, delivered>> /\ connects' \in {connects, connects + 1}
    BY <1>5 DEF MonitorEnds
  <2>2. \A s \in Readers : Holds(s)' => Holds(s)
    BY <1>5 DEF MonitorEnds, Holds, TypeOK
  <2> QED
    BY <1>0, <2>1, <2>2, OthersKeepOrder
<1>6. CASE Disconnects
  <2>1. UNCHANGED <<inbox, fed, datum, delivered>> /\ connects' \in {connects, connects + 1}
    BY <1>6 DEF Disconnects
  <2>2. \A s \in Readers : Holds(s)' => Holds(s)
    BY <1>6 DEF Disconnects, Holds, TypeOK
  <2> QED
    BY <1>0, <2>1, <2>2, OthersKeepOrder
<1>7. CASE Destroys
  <2>1. UNCHANGED <<inbox, fed, datum, delivered>> /\ connects' \in {connects, connects + 1}
    BY <1>7 DEF Destroys
  <2>2. \A s \in Readers : Holds(s)' => Holds(s)
    BY <1>7 DEF Destroys, Holds, TypeOK
  <2> QED
    BY <1>0, <2>1, <2>2, OthersKeepOrder
<1>8. CASE CloseSignals
  <2>1. UNCHANGED <<inbox, fed, datum, delivered>> /\ connects' \in {connects, connects + 1}
    BY <1>8 DEF CloseSignals
  <2>2. \A s \in Readers : Holds(s)' => Holds(s)
    BY <1>8 DEF CloseSignals, Holds, TypeOK
  <2> QED
    BY <1>0, <2>1, <2>2, OthersKeepOrder
<1>9. CASE CloseSocket
  <2>1. UNCHANGED <<inbox, fed, datum, delivered>> /\ connects' \in {connects, connects + 1}
    BY <1>9 DEF CloseSocket
  <2>2. \A s \in Readers : Holds(s)' => Holds(s)
    BY <1>9 DEF CloseSocket, Holds, TypeOK
  <2> QED
    BY <1>0, <2>1, <2>2, OthersKeepOrder
<1>10. CASE StopSignals
  <2>1. UNCHANGED <<inbox, fed, datum, delivered>> /\ connects' \in {connects, connects + 1}
    BY <1>10 DEF StopSignals
  <2>2. \A s \in Readers : Holds(s)' => Holds(s)
    BY <1>10 DEF StopSignals, Holds, TypeOK
  <2> QED
    BY <1>0, <2>1, <2>2, OthersKeepOrder
<1>11. CASE CloseJoins
  <2>1. UNCHANGED <<inbox, fed, datum, delivered>> /\ connects' \in {connects, connects + 1}
    BY <1>11 DEF CloseJoins
  <2>2. \A s \in Readers : Holds(s)' => Holds(s)
    BY <1>11 DEF CloseJoins, Holds, TypeOK
  <2> QED
    BY <1>0, <2>1, <2>2, OthersKeepOrder
<1>12. CASE Closed
  <2>1. UNCHANGED <<inbox, fed, datum, delivered>> /\ connects' \in {connects, connects + 1}
    BY <1>12 DEF Closed
  <2>2. \A s \in Readers : Holds(s)' => Holds(s)
    BY <1>12 DEF Closed, Holds, TypeOK
  <2> QED
    BY <1>0, <2>1, <2>2, OthersKeepOrder
<1> QED
  BY <1>1, <1>2, <1>3, <1>4, <1>5, <1>6, <1>7, <1>8,
     <1>9, <1>10, <1>11, <1>12 DEF Main

\* The lidar sends a datagram after all earlier ones of the connection.
LEMMA InOrderSends ==
    ASSUME TypeOK, InOrder, NEW c \in Readers, Sends(c)
    PROVE  InOrder'
<1> DEFINE q == inbox[c]
           n == fed[c] + 1
<1>0. /\ inbox \in [Readers -> Seq(Data)] /\ fed \in [Readers -> Nat]
  BY TcpAssumption DEF TypeOK, InOrder, DataKept
<1>1. /\ inbox' = [inbox EXCEPT ![c] = Append(q, <<c, n>>)]
      /\ fed' = [fed EXCEPT ![c] = n]
      /\ UNCHANGED <<connects, pc, result, datum, delivered>>
  BY DEF Sends, mainVars, local
<1>2. q \in Seq(Data) /\ n \in Nat /\ <<c, n>> \in Data /\ fed[c] \in Nat /\ fed[c] < n
  BY <1>0 DEF Data
<1>3. /\ inbox'[c] \in Seq(Data)
      /\ \A i \in DOMAIN q : i \in DOMAIN inbox'[c] /\ inbox'[c][i] = q[i]
      /\ \A i \in DOMAIN inbox'[c] \ DOMAIN q :
             inbox'[c][i] = <<c, n>> /\ \A k \in DOMAIN inbox'[c] : i >= k
      /\ fed'[c] = n
      /\ \A d \in Readers \ {c} : inbox'[d] = inbox[d] /\ fed'[d] = fed[d]
  <2>1. inbox'[c] = Append(q, <<c, n>>)
    BY <1>0, <1>1
  <2> QED
    BY <1>0, <1>1, <1>2, <2>1, AppendElements
<1>9. DOMAIN inbox'[c] \subseteq Nat
  BY <1>3
<1> HIDE DEF q, n
<1>4. /\ \A i \in DOMAIN q : q[i][1] = c /\ q[i][2] <= fed[c] /\ q[i][2] \in Nat
      /\ \A i, j \in DOMAIN q : i < j => q[i][2] < q[j][2]
  BY <1>2 DEF InOrder, InboxKept, Data, q
<1>5. DataKept'
  BY <1>0, <1>1, <1>2, <1>3 DEF InOrder, DataKept, q, n
<1>6. InboxKept'
  <2> SUFFICES ASSUME NEW d \in Readers
               PROVE  /\ \A i \in DOMAIN inbox'[d] :
                             inbox'[d][i][1] = d /\ inbox'[d][i][2] <= fed'[d]
                      /\ \A i, j \in DOMAIN inbox'[d] :
                             i < j => inbox'[d][i][2] < inbox'[d][j][2]
    BY DEF InboxKept
  <2>1. CASE d # c
    BY <1>3, <2>1 DEF InOrder, InboxKept
  <2>2. CASE d = c
    <3>2. \A i \in DOMAIN inbox'[c] : inbox'[c][i][1] = c /\ inbox'[c][i][2] <= n
      <4> SUFFICES ASSUME NEW i \in DOMAIN inbox'[c]
                   PROVE  inbox'[c][i][1] = c /\ inbox'[c][i][2] <= n
        OBVIOUS
      <4>1. CASE i \in DOMAIN q
        BY <1>2, <1>3, <1>4, <4>1
      <4>2. CASE i \notin DOMAIN q
        BY <1>2, <1>3, <4>2
      <4> QED
        BY <4>1, <4>2
    <3>3. \A i, j \in DOMAIN inbox'[c] : i < j => inbox'[c][i][2] < inbox'[c][j][2]
      <4> SUFFICES ASSUME NEW i \in DOMAIN inbox'[c], NEW j \in DOMAIN inbox'[c], i < j
                   PROVE  inbox'[c][i][2] < inbox'[c][j][2]
        OBVIOUS
      <4>1. i \in DOMAIN q /\ inbox'[c][i] = q[i]
        BY <1>3, <1>9
      <4>2. CASE j \in DOMAIN q
        BY <1>3, <1>4, <4>1, <4>2
      <4>3. CASE j \notin DOMAIN q
        <5>1. inbox'[c][j] = <<c, n>>
          BY <1>3, <4>3
        <5> QED
          BY <1>2, <1>4, <4>1, <5>1
      <4> QED
        BY <4>2, <4>3
    <3> QED
      BY <1>3, <2>2, <3>2, <3>3
  <2> QED
    BY <2>1, <2>2
<1>7. HeldKept'
  <2> SUFFICES ASSUME NEW r \in Readers, Holds(r)
               PROVE  /\ datum[r] \in Data /\ datum[r][1] = r /\ datum[r][2] <= fed'[r]
                      /\ \A j \in DOMAIN inbox'[r] : datum[r][2] < inbox'[r][j][2]
                      /\ \A i \in DOMAIN delivered :
                             delivered[i][1] = r => delivered[i][2] < datum[r][2]
    BY <1>1 DEF HeldKept, Holds
  <2>1. /\ datum[r] \in Data /\ datum[r][1] = r /\ datum[r][2] <= fed[r] /\ datum[r][2] \in Nat
        /\ \A j \in DOMAIN inbox[r] : datum[r][2] < inbox[r][j][2]
        /\ \A i \in DOMAIN delivered : delivered[i][1] = r => delivered[i][2] < datum[r][2]
    BY DEF InOrder, HeldKept, Data
  <2>2. CASE r # c
    BY <1>3, <2>1, <2>2
  <2>3. CASE r = c
    <3>1. \A j \in DOMAIN inbox'[c] : datum[c][2] < inbox'[c][j][2]
      <4> SUFFICES ASSUME NEW j \in DOMAIN inbox'[c]
                   PROVE  datum[c][2] < inbox'[c][j][2]
        OBVIOUS
      <4>1. CASE j \in DOMAIN q
        BY <1>3, <2>1, <2>3, <4>1 DEF q
      <4>2. CASE j \notin DOMAIN q
        <5>1. inbox'[c][j] = <<c, n>>
          BY <1>3, <4>2
        <5> QED
          BY <1>2, <2>1, <2>3, <5>1
      <4> QED
        BY <4>1, <4>2
    <3>2. fed[c] <= fed'[c] /\ fed'[c] \in Nat
      BY <1>2, <1>3
    <3> QED
      BY <1>2, <2>1, <2>3, <3>1, <3>2
  <2> QED
    BY <2>2, <2>3
<1>8. DeliveredKept'
  <2> SUFFICES ASSUME NEW i \in DOMAIN delivered
               PROVE  /\ delivered[i][1] <= connects
                      /\ delivered[i][2] <= fed'[delivered[i][1]]
                      /\ \A j \in DOMAIN inbox'[delivered[i][1]] :
                             delivered[i][2] < inbox'[delivered[i][1]][j][2]
    BY <1>1 DEF DeliveredKept
  <2>1. /\ delivered[i] \in Data /\ delivered[i][1] \in Readers /\ delivered[i][2] \in Nat
        /\ delivered[i][1] <= connects /\ delivered[i][2] <= fed[delivered[i][1]]
        /\ \A j \in DOMAIN inbox[delivered[i][1]] :
               delivered[i][2] < inbox[delivered[i][1]][j][2]
    BY DEF InOrder, DeliveredKept, DataKept, Data
  <2>2. CASE delivered[i][1] # c
    BY <1>3, <2>1, <2>2
  <2>3. CASE delivered[i][1] = c
    <3>1. \A j \in DOMAIN inbox'[c] : delivered[i][2] < inbox'[c][j][2]
      <4> SUFFICES ASSUME NEW j \in DOMAIN inbox'[c]
                   PROVE  delivered[i][2] < inbox'[c][j][2]
        OBVIOUS
      <4>1. CASE j \in DOMAIN q
        BY <1>3, <2>1, <2>3, <4>1 DEF q
      <4>2. CASE j \notin DOMAIN q
        <5>1. inbox'[c][j] = <<c, n>>
          BY <1>3, <4>2
        <5> QED
          BY <1>2, <2>1, <2>3, <5>1
      <4> QED
        BY <4>1, <4>2
    <3>2. fed[c] <= fed'[c] /\ fed'[c] \in Nat
      BY <1>2, <1>3
    <3> QED
      BY <1>2, <2>1, <2>3, <3>1, <3>2
  <2> QED
    BY <2>2, <2>3
<1> QED
  BY <1>1, <1>5, <1>6, <1>7, <1>8 DEF InOrder, DeliveredInOrder

\* Neither a loss nor the clock disturbs the order.
LEMMA InOrderEnvironment ==
    ASSUME TypeOK, InOrder,
           TimePasses \/ RosShutdown \/ Finished \/ UNCHANGED vars
             \/ \E c \in Readers : Sends(c) \/ Loses(c)
    PROVE  InOrder'
<1> USE DEF mainVars, shared, local, lidar
<1>0. connects \in Nat
  BY TcpAssumption DEF TypeOK
<1>1. CASE TimePasses
  BY <1>0, <1>1, OthersKeepOrder DEF TimePasses, Holds
<1>2. CASE RosShutdown
  BY <1>0, <1>2, OthersKeepOrder DEF RosShutdown, Holds
<1>3. CASE UNCHANGED vars
  BY <1>0, <1>3, OthersKeepOrder DEF vars, Holds
<1>4. ASSUME NEW c \in Readers, Loses(c)
      PROVE  InOrder'
  BY <1>0, <1>4, OthersKeepOrder DEF Loses, Holds
<1> QED
  BY <1>1, <1>2, <1>3, <1>4, InOrderSends DEF Finished

\* Over all connections the callback gets the datagrams in the order in which
\* the lidar sent them and none of them twice: the reader of a lost connection
\* has ended before the next connection delivers.
THEOREM DeliveriesAreOrdered ==
    ASSUME Prompt
    PROVE  Spec => []DeliveredInOrder
<1>1. Init => InOrder
  BY TcpAssumption DEF Init, InOrder, DataKept, HeldKept, InboxKept, DeliveredKept,
                       DeliveredInOrder, Holds
<1>2. TypeOK /\ SoleReader /\ ReaderKept /\ InOrder /\ [Next]_vars => InOrder'
  BY InOrderReader, InOrderMain, InOrderEnvironment DEF Next
<1>3. InOrder => DeliveredInOrder
  BY DEF InOrder
<1> QED
  BY <1>1, <1>2, <1>3, ReadersInvariant, PTL DEF Spec

=============================================================================
