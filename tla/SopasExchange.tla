---------------------------- MODULE SopasExchange ----------------------------
(***************************************************************************)
(* SOPAS commands and scan data over one TCP connection.  The read thread  *)
(* pushes every datagram into recvQueue (include/sick_scan/template_queue.h)*)
(* and the threads take the datagrams whose keyword they expect:           *)
(*                                                                         *)
(*   - the scanner thread, SickScanCommon::loopOnce, takes scan data;      *)
(*   - a locked client, sendSopasAndCheckAnswer, holds sopasSendMutex,     *)
(*     checks the answer and reads again if it does not match;             *)
(*   - an unlocked client, convertSendSOPASCommand of the API, takes what  *)
(*     it gets.                                                            *)
(*                                                                         *)
(* The keywords of the scanner thread and of the commands overlap: a       *)
(* service sends "sEN LIDoutputstate 1", and whoever waits for that keyword *)
(* takes the answer to it as well as the data sent under it.               *)
(*                                                                         *)
(* Waiting for a datagram and taking it are two critical sections, and     *)
(* only the first has a timeout.  It starts anew after every datagram that *)
(* does not match: it may strike while a thread is blocked, and strikes    *)
(* for certain only when no more datagrams come.  Clock and lengths are    *)
(* abstracted, and a keyword stands for all that begin with it.            *)
(***************************************************************************)
EXTENDS Integers, Sequences, FiniteSets

CONSTANTS Locked, Unlocked,  \* the clients
          Keys,              \* the keywords of the commands
          ScanKeys,          \* those of the scanner thread, commands may share them
          Modes,             \* what may go wrong: sets of Faults
          MaxRequests,       \* bounds of this model: requests sent,
          MaxData,           \* scan datagrams that are numbered,
          MaxQueued,         \* length of the queue up to which more of them come,
          MaxRetries         \* and further reads of a locked client (100 in the code)

\* The device answers "sFA" or not at all, the scan data never end, or the program
\* uses the API.
Faults == {"errors", "losses", "stream", "api"}

Clients == Locked \cup Unlocked
Threads == Clients \cup {"scanner"}
NoKey == "none"
NoMutex == "free"

ASSUME ExchangeAssumption ==
    /\ Locked \cap Unlocked = {} /\ "scanner" \notin Clients /\ NoMutex \notin Clients
    /\ NoKey \notin Keys \cup ScanKeys
    /\ Modes \subseteq SUBSET Faults
    /\ MaxRequests \in Nat /\ MaxData \in Nat /\ MaxQueued \in Nat /\ MaxRetries \in Nat

\* A request, and a datagram: id is the request that an answer or an error is
\* for, or the number of a scan datagram, and 0 for those after MaxData.
Request == [key : Keys \cup {NoKey}, id : 0..MaxRequests]
NoRequest == [key |-> NoKey, id |-> 0]
Datagram == [kind : {"answer", "error", "data", "none"},
             key : Keys \cup ScanKeys \cup {NoKey}, id : 0..(MaxRequests + MaxData)]
NoDatagram == [kind |-> "none", key |-> NoKey, id |-> 0]

VARIABLES mode,       \* what goes wrong in this behaviour
          queue,      \* recvQueue
          pc,         \* where each thread is
          mutex,      \* owner of sopasSendMutex
          req,        \* the request of each client
          reply,      \* the datagram each client read last
          tries,      \* how often a locked client read again
          device,     \* the requests the device has not dealt with
          requests,   \* history: how many requests were sent,
          received,   \* how many numbered scan datagrams were received,
          lastData,   \* the last one the scanner took,
          drawn,      \* those that clients took, with the keyword they asked for,
          accepted,   \* the answers clients returned, with the request,
          abandoned   \* a client gave up before the answer to it was read

client == <<mutex, req, reply, tries>>
history == <<requests, received, lastData, drawn, accepted, abandoned>>
vars == <<mode, queue, pc, client, device, history>>

Init ==
    /\ mode \in Modes
    /\ queue = <<>>
    /\ pc = [t \in Threads |-> "idle"]
    /\ mutex = NoMutex
    /\ req = [c \in Clients |-> NoRequest]
    /\ reply = [c \in Clients |-> NoDatagram]
    /\ tries = [c \in Clients |-> 0]
    /\ device = <<>>
    /\ requests = 0 /\ received = 0 /\ lastData = 0
    /\ drawn = {} /\ accepted = {} /\ abandoned = FALSE

-----------------------------------------------------------------------------
(* recvQueue. *)

KeysOf(t) == IF t = "scanner" THEN ScanKeys ELSE {req[t].key}

\* findFirstByKeyword: an "sFA" datagram matches whatever is looked for.
Matches(d, keys) == d.key \in keys \/ d.kind = "error"

Found(t) == \E i \in DOMAIN queue : Matches(queue[i], KeysOf(t))

\* Fault: the last match is taken.
LastMatch(t) ==
    CHOOSE i \in DOMAIN queue :
        /\ Matches(queue[i], KeysOf(t))
        /\ \A j \in DOMAIN queue : Matches(queue[j], KeysOf(t)) => j <= i

FirstMatch(t) ==
    CHOOSE i \in DOMAIN queue :
        /\ Matches(queue[i], KeysOf(t))
        /\ \A j \in 1..(i - 1) : ~Matches(queue[j], KeysOf(t))

\* Fault: the front datagram is erased instead of the one found.
WithoutFront(i) == Tail(queue)

Without(i) == SubSeq(queue, 1, i - 1) \o SubSeq(queue, i + 1, Len(queue))

\* Fault: notify_one, which wakes one of the waiting threads.
NotifyOne ==
    LET waiting == {t \in Threads : pc[t] \in {"blocked", "popBlocked"}} IN
    IF waiting = {} THEN pc
    ELSE [pc EXCEPT ![CHOOSE t \in waiting : TRUE] = IF @ = "blocked" THEN "wait" ELSE "pop"]

\* notify_all: every waiting thread looks at the queue again.
NotifyAll ==
    [t \in Threads |->
        CASE pc[t] = "blocked" -> "wait"
          [] pc[t] = "popBlocked" -> "pop"
          [] OTHER -> pc[t]]

Push(d) == queue' = Append(queue, d) /\ pc' = NotifyAll

\* waitForIncomingObject, up to the wait.
Waits(t) ==
    /\ pc[t] = "wait"
    /\ pc' = [pc EXCEPT ![t] = IF Found(t) THEN "pop" ELSE "blocked"]
    /\ UNCHANGED <<queue, client, device, history>>

\* pop, when another thread was faster: no timeout ends this wait.
PopBlocks(t) ==
    /\ pc[t] = "pop" /\ ~Found(t)
    /\ pc' = [pc EXCEPT ![t] = "popBlocked"]
    /\ UNCHANGED <<queue, client, device, history>>

-----------------------------------------------------------------------------
(* The clients. *)

\* A client returns: nothing, or the reply it accepts.
Returns(c) ==
    /\ pc' = [pc EXCEPT ![c] = "idle"]
    /\ mutex' = IF mutex = c THEN NoMutex ELSE mutex
    /\ req' = [req EXCEPT ![c] = NoRequest]
    /\ reply' = [reply EXCEPT ![c] = NoDatagram]
    /\ tries' = [tries EXCEPT ![c] = 0]

Numbered(d) == d.kind = "data" /\ d.id # 0

\* The reply to the request of c is still to come or to be read.
Outstanding(c) ==
    \/ \E i \in DOMAIN device : device[i].id = req[c].id
    \/ \E i \in DOMAIN queue : queue[i].kind # "data" /\ queue[i].id = req[c].id

GivesUp(c) ==
    /\ Returns(c)
    /\ abandoned' = (abandoned \/ Outstanding(c))

\* Fault: sopasSendMutex is not taken.
SendsUnlocked(c, k) ==
    /\ pc[c] = "idle"
    /\ c \in Unlocked => "api" \in mode
    /\ UNCHANGED mutex
    /\ requests < MaxRequests
    /\ requests' = requests + 1
    /\ req' = [req EXCEPT ![c] = [key |-> k, id |-> requests + 1]]
    /\ device' = Append(device, [key |-> k, id |-> requests + 1])
    /\ pc' = [pc EXCEPT ![c] = "wait"]
    /\ UNCHANGED <<queue, reply, tries, received, lastData, drawn, accepted, abandoned>>

\* sendSOPASCommand, up to the read of the answer.
Sends(c, k) ==
    /\ pc[c] = "idle"
    /\ c \in Unlocked => "api" \in mode
    /\ IF c \in Locked THEN mutex = NoMutex /\ mutex' = c ELSE UNCHANGED mutex
    /\ requests < MaxRequests
    /\ requests' = requests + 1
    /\ req' = [req EXCEPT ![c] = [key |-> k, id |-> requests + 1]]
    /\ device' = Append(device, [key |-> k, id |-> requests + 1])
    /\ pc' = [pc EXCEPT ![c] = "wait"]
    /\ UNCHANGED <<queue, reply, tries, received, lastData, drawn, accepted, abandoned>>

\* pop by a client.
Takes(c) ==
    /\ pc[c] = "pop" /\ Found(c)
    /\ queue' = Without(FirstMatch(c))
    /\ reply' = [reply EXCEPT ![c] = queue[FirstMatch(c)]]
    /\ drawn' = drawn \cup {[key |-> req[c].key, id |-> d.id] :
                               d \in {e \in {queue[FirstMatch(c)]} : Numbered(e)}}
    /\ pc' = [pc EXCEPT ![c] = "check"]
    /\ UNCHANGED <<mutex, req, tries, device, requests, received, lastData, accepted, abandoned>>

\* The wait ends without a datagram, a full timeout after it began or after the last
\* datagram came.  The first read of a command fails it, a later one leaves an empty
\* reply to be checked.
TimesOut(c) ==
    /\ pc[c] = "blocked"
    /\ IF tries[c] = 0
       THEN GivesUp(c)
       ELSE /\ reply' = [reply EXCEPT ![c] = NoDatagram]
            /\ pc' = [pc EXCEPT ![c] = "check"]
            /\ UNCHANGED <<mutex, req, tries, abandoned>>
    /\ UNCHANGED <<queue, device, requests, received, lastData, drawn, accepted>>

\* The pattern a locked client expects is that of any answer to the keyword, never
\* that of data.  (The start of the imu data, whose answer is not checked, is left out.)
Accepts(c) ==
    c \in Locked => reply[c].kind = "answer" /\ reply[c].key = req[c].key

\* The reply is returned.
Succeeds(c) ==
    /\ pc[c] = "check" /\ Accepts(c)
    /\ accepted' = accepted \cup {[client |-> c, req |-> req[c], reply |-> reply[c]]}
    /\ Returns(c)
    /\ UNCHANGED <<queue, device, requests, received, lastData, drawn, abandoned>>

\* Fault: one read too many.
MismatchesOnceMore(c) ==
    /\ pc[c] = "check" /\ ~Accepts(c)
    /\ \/ /\ tries[c] <= MaxRetries
          /\ tries' = [tries EXCEPT ![c] = @ + 1]
          /\ pc' = [pc EXCEPT ![c] = "wait"]
          /\ UNCHANGED <<mutex, req, reply, abandoned>>
       \/ GivesUp(c)
    /\ UNCHANGED <<queue, device, requests, received, lastData, drawn, accepted>>

\* Something else was read, scan data or an error, and is gone: read again, unless it
\* took too long.
Mismatches(c) ==
    /\ pc[c] = "check" /\ ~Accepts(c)
    /\ \/ /\ tries[c] < MaxRetries
          /\ tries' = [tries EXCEPT ![c] = @ + 1]
          /\ pc' = [pc EXCEPT ![c] = "wait"]
          /\ UNCHANGED <<mutex, req, reply, abandoned>>
       \/ GivesUp(c)
    /\ UNCHANGED <<queue, device, requests, received, lastData, drawn, accepted>>

Client(c) ==
    Waits(c) \/ PopBlocks(c) \/ Takes(c) \/ Succeeds(c) \/ Mismatches(c)

-----------------------------------------------------------------------------
(* The scanner thread: get_datagram in loopOnce. *)

ScannerBegins ==
    /\ pc["scanner"] = "idle"
    /\ pc' = [pc EXCEPT !["scanner"] = "wait"]
    /\ UNCHANGED <<queue, client, device, history>>

ScannerTakes ==
    /\ pc["scanner"] = "pop" /\ Found("scanner")
    /\ LET i == FirstMatch("scanner") IN
       /\ queue' = Without(i)
       /\ lastData' = IF Numbered(queue[i]) THEN queue[i].id ELSE lastData
    /\ pc' = [pc EXCEPT !["scanner"] = "idle"]
    /\ UNCHANGED <<client, device, requests, received, drawn, accepted, abandoned>>

ScannerTimesOut ==
    /\ pc["scanner"] = "blocked"
    /\ pc' = [pc EXCEPT !["scanner"] = "idle"]
    /\ UNCHANGED <<queue, client, device, history>>

Scanner == ScannerBegins \/ Waits("scanner") \/ PopBlocks("scanner") \/ ScannerTakes

-----------------------------------------------------------------------------
(* The device, and the read thread that pushes what it sends. *)

Answers ==
    /\ device # <<>>
    /\ device' = Tail(device)
    /\ \/ Push([kind |-> "answer", key |-> Head(device).key, id |-> Head(device).id])
       \/ "errors" \in mode /\ Push([kind |-> "error", key |-> NoKey, id |-> Head(device).id])
    /\ UNCHANGED <<client, history>>

Ignores ==
    /\ "losses" \in mode /\ device # <<>>
    /\ device' = Tail(device)
    /\ UNCHANGED <<queue, pc, client, history>>

SendsData(k) ==
    /\ \/ /\ received < MaxData
          /\ received' = received + 1
          /\ Push([kind |-> "data", key |-> k, id |-> received + 1])
       \/ /\ "stream" \in mode /\ received = MaxData /\ Len(queue) < MaxQueued
          /\ Push([kind |-> "data", key |-> k, id |-> 0])
          /\ UNCHANGED received
    /\ UNCHANGED <<client, device, requests, lastData, drawn, accepted, abandoned>>

Steps ==
    \/ \E c \in Clients : Client(c) \/ TimesOut(c) \/ \E k \in Keys : Sends(c, k)
    \/ Scanner \/ ScannerTimesOut
    \/ Answers \/ Ignores
    \/ \E k \in ScanKeys : SendsData(k)

Next == Steps /\ UNCHANGED mode

Spec == Init /\ [][Next]_vars

\* Threads are scheduled, a wait that nothing interrupts ends, and the device deals
\* with its requests.  A thread that is woken again and again is not always blocked:
\* its timeout need not strike.
Fairness ==
    /\ \A c \in Clients : WF_vars(Client(c) /\ UNCHANGED mode) /\ WF_vars(TimesOut(c) /\ UNCHANGED mode)
    /\ WF_vars(Scanner /\ UNCHANGED mode)
    /\ WF_vars((Answers \/ Ignores) /\ UNCHANGED mode)

FairSpec == Spec /\ Fairness

-----------------------------------------------------------------------------
(* Properties. *)

TypeOK ==
    /\ mode \in Modes
    /\ queue \in Seq(Datagram)
    /\ pc \in [Threads -> {"idle", "wait", "blocked", "pop", "popBlocked", "check"}]
    /\ mutex \in Locked \cup {NoMutex}
    /\ req \in [Clients -> Request]
    /\ reply \in [Clients -> Datagram]
    /\ tries \in [Clients -> 0..MaxRetries]
    /\ device \in Seq(Request)
    /\ requests \in 0..MaxRequests /\ received \in 0..MaxData /\ lastData \in 0..MaxData
    /\ drawn \subseteq [key : Keys, id : 1..MaxData]
    /\ accepted \subseteq [client : Clients, req : Request, reply : Datagram]
    /\ abandoned \in BOOLEAN

\* The scanner gets the scan data in the order received and misses none but those that
\* a client drew who asked for a keyword of the scanner: what neither of them took is
\* still queued, while commands read from the same queue, time out and read again.
ScanDataComplete ==
    LET Data == {i \in DOMAIN queue : Numbered(queue[i])} IN
    /\ {queue[i].id : i \in Data} = ((lastData + 1)..received) \ {d.id : d \in drawn}
    /\ \A i, j \in Data : i < j => queue[i].id < queue[j].id
    /\ \A d \in drawn : d.key \in ScanKeys

\* "reply if not NULL, will be filled with the reply package to the command"
\* (sick_scan_common.h:388): a command returns the answer to itself,
RepliesMatch == \A a \in accepted : a.reply.id = a.req.id

\* as long as the API is not used and no command was given up before its answer came,
\* whatever the scanner thread takes and whichever scan data a command draws.
ReplyToTheCommand == "api" \notin mode /\ ~abandoned => RepliesMatch

\* No thread sleeps while the queue has a datagram for it.
NoLostWakeup == \A t \in Threads : pc[t] \in {"blocked", "popBlocked"} => ~Found(t)

\* "If SOPAS commands are not responded within 120 seconds (default), the TCP
\* socket is closed" (USAGE.md:418): a command returns when it is answered, however
\* many scan data come, and when it is not, as soon as they stop.  Not if another
\* thread may take the datagram a client was woken for: the scanner one with a keyword
\* they share or an error, the API any.
CommandReturns ==
    mode \cap {"errors", "api"} = {} /\ ~({"losses", "stream"} \subseteq mode) =>
        \A c \in Clients : \A k \in Keys \ ScanKeys :
            (pc[c] # "idle" /\ req[c].key = k) ~> (pc[c] = "idle")

\* The scanner takes every scan datagram that no client draws.
ScanDataTaken ==
    \A n \in 1..MaxData : (received >= n) ~> (lastData >= n \/ n \in {d.id : d \in drawn})
=============================================================================
