---------------------------- MODULE FrameReceiver ----------------------------
(***************************************************************************)
(* How SickScanCommonTcp cuts the bytes of a TCP connection into datagrams *)
(* (driver/src/sick_scan_common_tcp.cpp): the read callback appends a      *)
(* chunk to m_receiveBuffer and takes frames out of it until none is       *)
(* complete.  A lost connection leaves the buffer as it is.                *)
(*                                                                         *)
(* A CoLa-A frame is <STX> payload <ETX>.  A CoLa-B frame is a magic word  *)
(* of STX bytes, the length of the payload, the payload and the XOR of its *)
(* bytes.  The length is one byte here, the magic word MagicLength bytes;  *)
(* the code has 4 of each.                                                 *)
(***************************************************************************)
EXTENDS Naturals, Sequences, FiniteSets

CONSTANTS Dialects,      \* dialects to choose from: "A", "B"
          PayloadsA, PayloadsB,   \* what the lidar may send
          MagicLength,   \* bytes of the magic word
          Capacity,      \* sizeof(m_receiveBuffer)
          ChunkMax,      \* the most recv() returns, 8192 in Tcp::readInputData
          MaxFrames,     \* bounds of this model: frames sent on a connection
          MaxLosses      \* and connections lost

STX == 2
ETX == 3
Byte == 0..15

ASSUME FrameAssumption ==
    /\ Dialects \subseteq {"A", "B"}
    /\ \A p \in PayloadsA : p \in Seq(Byte \ {STX, ETX})
    /\ \A p \in PayloadsB : p \in Seq(Byte) /\ Len(p) \in Byte
    /\ MagicLength \in Nat \ {0}
    /\ Capacity \in Nat /\ ChunkMax \in Nat \ {0} /\ MaxFrames \in Nat /\ MaxLosses \in Nat

VARIABLES dialect,    \* getProtocolType()
          buffer,     \* the first m_numberOfBytesInReceiveBuffer bytes
          reading,    \* the read callback is in its loop
          wire,       \* bytes of the connection that were not read yet
          losses,     \* connections lost so far
          recvQueue,  \* the frames this connection has given to recvQueue
          sent,       \* history: payloads the lidar has sent on it
          stale       \* history: what was left in the buffer when the
                      \* connection was made

vars == <<dialect, buffer, reading, wire, losses, recvQueue, sent, stale>>

-----------------------------------------------------------------------------
(* The frames of the lidar. *)

\* The bits of an XOR are the parities of the bits.
Bit(b, n) == (n \div 2^b) % 2
XorBit(b, s) == Cardinality({i \in DOMAIN s : Bit(b, s[i]) = 1}) % 2
Xor(s) == XorBit(0, s) + 2 * XorBit(1, s) + 4 * XorBit(2, s) + 8 * XorBit(3, s)

Magic == [i \in 1..MagicLength |-> STX]
Overhead == MagicLength + 2

Frame(p) ==
    IF dialect = "A" THEN <<STX>> \o p \o <<ETX>>
    ELSE Magic \o <<Len(p)>> \o p \o <<Xor(p)>>

Frames(ps) ==
    LET f[n \in 0..Len(ps)] == IF n = 0 THEN <<>> ELSE f[n - 1] \o Frame(ps[n])
    IN  f[Len(ps)]

-----------------------------------------------------------------------------
(* findFrameInReceiveBuffer: what it leaves in the buffer, and the length  *)
(* of the frame at its start, 0 for none.                                  *)

Found(b, n) == [buffer |-> b, size |-> n]
NoFrame(b) == Found(b, 0)

From(b, i) == SubSeq(b, i, Len(b))
Least(S) == CHOOSE i \in S : \A j \in S : i <= j

\* What is in front of the first start mark goes.
FrameA(b) ==
    LET ends == {i \in 2..Len(b) : b[i] = ETX}
    IN  IF ends = {} THEN NoFrame(b) ELSE Found(b, Least(ends))

\* Fault: the last start mark counts.
FindALast(b) ==
    LET starts == {i \in 1..Len(b) : b[i] = STX}
    IN  IF starts = {} THEN NoFrame(<<>>) ELSE FrameA(From(b, CHOOSE i \in starts : \A j \in starts : j <= i))

FindA(b) ==
    LET starts == {i \in 1..Len(b) : b[i] = STX}
    IN  IF starts = {} THEN NoFrame(<<>>) ELSE FrameA(From(b, Least(starts)))

FrameB(b) ==
    LET length == b[MagicLength + 1]
        size == length + Overhead
    IN  IF Len(b) < Overhead THEN NoFrame(b)
        ELSE IF length > Capacity - Overhead THEN NoFrame(<<>>)
        ELSE IF size > Len(b) THEN NoFrame(b)
        ELSE IF Xor(SubSeq(b, MagicLength + 2, size - 1)) # b[size] THEN NoFrame(<<>>)
        ELSE Found(b, size)

\* Fault: the buffer is searched too short for a magic word at its end.
StartsShort(b) == {i \in 1..(Len(b) - MagicLength) : SubSeq(b, i, i + MagicLength - 1) = Magic}

Starts(b) == {i \in 1..(Len(b) - MagicLength + 1) : SubSeq(b, i, i + MagicLength - 1) = Magic}

FindB(b) ==
    IF Len(b) < MagicLength THEN NoFrame(b)
    ELSE IF Starts(b) = {} THEN NoFrame(<<>>)
    ELSE FrameB(From(b, Least(Starts(b))))

findFrameInReceiveBuffer == IF dialect = "A" THEN FindA(buffer) ELSE FindB(buffer)

-----------------------------------------------------------------------------

Init ==
    /\ dialect \in Dialects
    /\ buffer = <<>> /\ reading = FALSE /\ recvQueue = <<>>
    /\ wire = <<>> /\ losses = 0 /\ sent = <<>> /\ stale = <<>>

LidarSends ==
    /\ Len(sent) < MaxFrames
    /\ \E p \in IF dialect = "A" THEN PayloadsA ELSE PayloadsB :
           sent' = Append(sent, p) /\ wire' = wire \o Frame(p)
    /\ UNCHANGED <<dialect, buffer, reading, losses, recvQueue, stale>>

\* Fault: the chunk is appended whatever the buffer can hold.
ReadsUnbounded ==
    /\ ~reading
    /\ \E n \in 1..ChunkMax :
           /\ n <= Len(wire)
           /\ wire' = From(wire, n + 1)
           /\ buffer' = buffer \o SubSeq(wire, 1, n)
           /\ reading' = (Capacity > Len(buffer))
    /\ UNCHANGED <<dialect, losses, recvQueue, sent, stale>>

\* The read callback gets a chunk; what the buffer cannot hold is dropped, and
\* a buffer that can hold nothing is emptied.
ReadCallback ==
    /\ ~reading
    /\ \E n \in 1..ChunkMax :
           /\ n <= Len(wire)
           /\ wire' = From(wire, n + 1)
           /\ LET space == Capacity - Len(buffer)
                  chunk == SubSeq(wire, 1, IF n <= space THEN n ELSE space)
              IN  /\ buffer' = IF space = 0 THEN <<>> ELSE buffer \o chunk
                  /\ reading' = (space # 0)
    /\ UNCHANGED <<dialect, losses, recvQueue, sent, stale>>

\* One turn of the loop: processFrame pushes the frame, the rest moves to the
\* front of the buffer.  The loop ends when there is no frame.
TakesFrame ==
    /\ reading
    /\ LET found == findFrameInReceiveBuffer
       IN  /\ buffer' = From(found.buffer, found.size + 1)
           /\ IF found.size = 0
              THEN reading' = FALSE /\ UNCHANGED recvQueue
              ELSE /\ recvQueue' = Append(recvQueue, SubSeq(found.buffer, 1, found.size))
                   /\ UNCHANGED reading
    /\ UNCHANGED <<dialect, wire, losses, sent, stale>>

\* The connection is lost and made again: close_device and init_device do not
\* touch the buffer.  The lidar starts with a whole frame.
Reconnect ==
    /\ ~reading /\ losses < MaxLosses
    /\ losses' = losses + 1
    /\ wire' = <<>> /\ sent' = <<>> /\ recvQueue' = <<>>
    /\ stale' = buffer
    /\ UNCHANGED <<dialect, buffer, reading>>

Next == LidarSends \/ ReadCallback \/ TakesFrame \/ Reconnect

Spec == Init /\ [][Next]_vars

-----------------------------------------------------------------------------
(* Properties. *)

TypeOK ==
    /\ dialect \in Dialects /\ reading \in BOOLEAN
    /\ Len(buffer) <= Capacity /\ \A i \in DOMAIN buffer : buffer[i] \in Byte
    /\ losses \in 0..MaxLosses

\* However the stream is cut into chunks, a connection that began with an empty
\* buffer gives recvQueue the frames the lidar has sent, in their order, and
\* what is not delivered yet is in the buffer or on the wire.
NothingLost ==
    stale = <<>> =>
        LET n == Len(recvQueue)
        IN  /\ n <= Len(sent)
            /\ \A i \in 1..n : recvQueue[i] = Frame(sent[i])
            /\ buffer \o wire = Frames(SubSeq(sent, n + 1, Len(sent)))

\* Half a CoLa-A frame of an earlier connection damages the first frame of the
\* next one and no other: <STX> of the first frame does not start a new one.
OneFrameDamaged ==
    dialect = "A" =>
        \A i \in DOMAIN recvQueue :
            recvQueue[i] = (IF i = 1 THEN stale ELSE <<>>) \o Frame(sent[i])

=============================================================================
