----------------------- MODULE SopasExchange_proofs -----------------------
(***************************************************************************)
(* Proofs about SopasExchange for any number of clients, commands, scan    *)
(* datagrams and retries.                                                  *)
(***************************************************************************)
EXTENDS SopasExchange, FiniteSetTheorems, TLAPS

(* The operations of the queue. *)

\* A set of positions that is not empty has a first one: the intervals below
\* its members are ordered by inclusion.
LEMMA First ==
    ASSUME NEW n \in Nat, NEW T \in SUBSET (1..n), T # {}
    PROVE  \E l \in T : \A m \in 1..(l - 1) : m \notin T
<1> DEFINE B == {1..(l - 1) : l \in T}
           R == StrictSubsetOrdering(1..n)
<1>1. IsWellFoundedOn(R, SUBSET (1..n))
  <2>1. IsFiniteSet(1..n)
    BY FS_Interval, n \in Int, 1 \in Int
  <2>2. FiniteSubsetsOf(1..n) = SUBSET (1..n)
    BY <2>1, FS_FiniteSubsetsOfFinite
  <2> QED
    BY <2>2, FS_StrictSubsetOrderingWellFounded
<1>2. B \subseteq SUBSET (1..n) /\ B # {}
  <2>1. ASSUME NEW l \in T
        PROVE  1..(l - 1) \in SUBSET (1..n)
    OBVIOUS
  <2>2. B \subseteq SUBSET (1..n)
    BY <2>1
  <2>3. PICK l \in T : TRUE
    OBVIOUS
  <2>4. 1..(l - 1) \in B
    OBVIOUS
  <2> QED
    BY <2>2, <2>4
<1>3. \E b \in B : \A a \in B : <<a, b>> \notin R
  <2> HIDE DEF B, R
  <2> QED
    BY <1>1, <1>2, WFMin
<1>4. PICK l \in T : \A a \in B : <<a, 1..(l - 1)>> \notin R
  BY <1>3
<1>5. ASSUME NEW m \in 1..(l - 1), m \in T
      PROVE  FALSE
  <2>1. 1..(m - 1) \in B /\ 1..(l - 1) \in B
    BY <1>5
  <2>2. 1..(m - 1) \subseteq 1..(l - 1) /\ m \in 1..(l - 1) /\ m \notin 1..(m - 1)
    BY <1>5
  <2>3. <<1..(m - 1), 1..(l - 1)>> \in R
    BY <1>2, <2>1, <2>2 DEF StrictSubsetOrdering
  <2> QED
    BY <1>4, <2>1, <2>3
<1> QED
  BY <1>5

\* findFirstByKeyword finds the first datagram that matches.
LEMMA FirstMatchMatches ==
    ASSUME queue \in Seq(Datagram), NEW t \in Threads, Found(t)
    PROVE  /\ FirstMatch(t) \in DOMAIN queue
           /\ Matches(queue[FirstMatch(t)], KeysOf(t))
           /\ \A j \in 1..(FirstMatch(t) - 1) : ~Matches(queue[j], KeysOf(t))
<1> DEFINE T == {i \in 1..Len(queue) : Matches(queue[i], KeysOf(t))}
<1>1. Len(queue) \in Nat /\ DOMAIN queue = 1..Len(queue)
  OBVIOUS
<1>2. T # {}
  BY <1>1 DEF Found
<1>3. PICK l \in T : \A m \in 1..(l - 1) : m \notin T
  BY <1>1, <1>2, First
<1>4. l \in DOMAIN queue /\ Matches(queue[l], KeysOf(t)) /\ \A j \in 1..(l - 1) : ~Matches(queue[j], KeysOf(t))
  BY <1>1, <1>3
<1> QED
  BY <1>4 DEF FirstMatch

\* What is left of the queue keeps its order.
LEMMA WithoutOne ==
    ASSUME queue \in Seq(Datagram), NEW i \in DOMAIN queue
    PROVE  /\ Without(i) \in Seq(Datagram)
           /\ Len(Without(i)) = Len(queue) - 1
           /\ \A j \in 1..(Len(queue) - 1) : Without(i)[j] = queue[IF j < i THEN j ELSE j + 1]
<1> DEFINE a == SubSeq(queue, 1, i - 1)
           b == SubSeq(queue, i + 1, Len(queue))
<1>1. a \in Seq(Datagram) /\ Len(a) = i - 1 /\ \A j \in 1..(i - 1) : a[j] = queue[j]
  OBVIOUS
<1>2. b \in Seq(Datagram) /\ Len(b) = Len(queue) - i /\ \A j \in 1..(Len(queue) - i) : b[j] = queue[i + j]
  OBVIOUS
<1> HIDE DEF a, b
<1>3. (a \o b) \in Seq(Datagram) /\ Len(a \o b) = Len(queue) - 1
  BY <1>1, <1>2
<1>4. \A j \in 1..(Len(queue) - 1) : (a \o b)[j] = queue[IF j < i THEN j ELSE j + 1]
  <2> SUFFICES ASSUME NEW j \in 1..(Len(queue) - 1)
               PROVE  (a \o b)[j] = queue[IF j < i THEN j ELSE j + 1]
    OBVIOUS
  <2>1. CASE j < i
    <3>1. (a \o b)[j] = a[j]
      BY <1>1, <1>2, <2>1
    <3> QED
      BY <1>1, <2>1, <3>1
  <2>2. CASE ~(j < i)
    <3>1. (a \o b)[j] = b[j - (i - 1)]
      BY <1>1, <1>2, <2>2
    <3>2. j - (i - 1) \in 1..(Len(queue) - i) /\ i + (j - (i - 1)) = j + 1
      BY <2>2
    <3> QED
      BY <1>2, <2>2, <3>1, <3>2
  <2> QED
    BY <2>1, <2>2
<1> QED
  BY <1>3, <1>4 DEF Without, a, b

\* Taking a datagram adds none.
LEMMA WithoutAddsNone ==
    ASSUME queue \in Seq(Datagram), NEW i \in DOMAIN queue
    PROVE  \A j \in 1..Len(Without(i)) : \E k \in 1..Len(queue) : Without(i)[j] = queue[k]
<1> SUFFICES ASSUME NEW j \in 1..Len(Without(i))
             PROVE  \E k \in 1..Len(queue) : Without(i)[j] = queue[k]
  OBVIOUS
<1>1. Len(Without(i)) = Len(queue) - 1 /\ Len(queue) \in Nat /\ j \in 1..(Len(queue) - 1)
  BY WithoutOne
<1>2. Without(i)[j] = queue[IF j < i THEN j ELSE j + 1]
  BY <1>1, WithoutOne
<1>3. (IF j < i THEN j ELSE j + 1) \in 1..Len(queue)
  BY <1>1
<1> QED
  BY <1>2, <1>3

-----------------------------------------------------------------------------
(* Types. *)

\* What kinds of datagrams are queued.
Shape(d) ==
    \/ d.kind = "data" /\ d.key \in ScanKeys /\ d.id \in 0..MaxData
    \/ d.kind = "answer" /\ d.key \in Keys
    \/ d.kind = "error" /\ d.key = NoKey

Typed ==
    /\ TypeOK
    /\ \A i \in 1..Len(queue) : Shape(queue[i])
    /\ \A i \in 1..Len(device) : device[i].key \in Keys
    /\ \A c \in Clients : pc[c] # "idle" => req[c].key \in Keys

\* A thread that the read thread wakes was blocked.
LEMMA NotifyAllWakes ==
    ASSUME TypeOK
    PROVE  /\ NotifyAll \in [Threads -> {"idle", "wait", "pop", "check"}]
           /\ \A t \in Threads : NotifyAll[t] = "idle" <=> pc[t] = "idle"
           /\ \A t \in Threads : NotifyAll[t] = "check" <=> pc[t] = "check"
           /\ \A t \in Threads : NotifyAll[t] = "pop" <=> pc[t] \in {"pop", "popBlocked"}
  BY DEF TypeOK, NotifyAll

LEMMA InitTyped == Init => Typed
<1> SUFFICES ASSUME Init
             PROVE  Typed
  OBVIOUS
<1>1. Len(queue) = 0 /\ Len(device) = 0 /\ queue \in Seq(Datagram) /\ device \in Seq(Request)
  BY DEF Init
<1>2. NoRequest \in Request /\ NoDatagram \in Datagram
  BY ExchangeAssumption DEF NoRequest, NoDatagram, Request, Datagram
<1>3. TypeOK
  <2>1. abandoned \in BOOLEAN
    BY DEF Init
  <2>2. drawn \subseteq [key : Keys, id : 1..MaxData]
    BY DEF Init
  <2> QED
    BY <1>1, <1>2, <2>1, <2>2, ExchangeAssumption DEF Init, TypeOK
<1>4. \A c \in Clients : pc[c] = "idle"
  BY DEF Init, Threads
<1> QED
  BY <1>1, <1>3, <1>4 DEF Typed

\* Returning leaves the client without a request.
LEMMA ReturnsTyped ==
    ASSUME Typed, NEW c \in Clients, Returns(c), UNCHANGED <<mode, queue, device, requests, received, lastData, drawn>>,
           accepted' \subseteq [client : Clients, req : Request, reply : Datagram], abandoned' \in BOOLEAN
    PROVE  Typed'
<1>1. NoRequest \in Request /\ NoDatagram \in Datagram
  BY ExchangeAssumption DEF NoRequest, NoDatagram, Request, Datagram
<1>2. c \in Threads
  BY DEF Threads
<1>3. /\ pc' = [pc EXCEPT ![c] = "idle"]
      /\ mutex' \in {mutex, NoMutex}
      /\ req' = [req EXCEPT ![c] = NoRequest]
      /\ reply' = [reply EXCEPT ![c] = NoDatagram]
      /\ tries' = [tries EXCEPT ![c] = 0]
  BY DEF Returns
<1>4. TypeOK'
  BY <1>1, <1>2, <1>3, ExchangeAssumption DEF Typed, TypeOK
<1>5. \A d \in Clients : pc'[d] # "idle" => req'[d].key \in Keys
  BY <1>2, <1>3 DEF Typed, TypeOK, Threads
<1> QED
  BY <1>4, <1>5 DEF Typed, Shape

LEMMA TypedInvariant == Spec => []Typed
<1>1. Typed /\ [Next]_vars => Typed'
  <2> SUFFICES ASSUME Typed, [Next]_vars
               PROVE  Typed'
    OBVIOUS
  <2>0. UNCHANGED mode
    BY DEF Next, vars
  <2> USE ExchangeAssumption DEF client, history
  <2>1. ASSUME NEW t \in Threads, Waits(t)
        PROVE  Typed'
    BY <2>1, <2>0 DEF Waits, Typed, TypeOK, Threads, Shape
  <2>2. ASSUME NEW t \in Threads, PopBlocks(t)
        PROVE  Typed'
    BY <2>2, <2>0 DEF PopBlocks, Typed, TypeOK, Threads, Shape
  <2>3. ASSUME NEW c \in Clients, Takes(c)
        PROVE  Typed'
    <3> DEFINE i == FirstMatch(c)
    <3>1. i \in 1..Len(queue)
      BY <2>3, FirstMatchMatches DEF Takes, Typed, TypeOK, Threads
    <3>2. /\ queue' \in Seq(Datagram)
          /\ \A j \in 1..Len(queue') : \E k \in 1..Len(queue) : queue'[j] = queue[k]
      <4>1. queue \in Seq(Datagram) /\ queue' = Without(i)
        BY <2>3 DEF Takes, Typed, TypeOK
      <4> HIDE DEF i
      <4>2. i \in DOMAIN queue
        BY <3>1, <4>1
      <4>3. Without(i) \in Seq(Datagram)
        BY <4>1, <4>2, WithoutOne
      <4>4. \A j \in 1..Len(Without(i)) : \E k \in 1..Len(queue) : Without(i)[j] = queue[k]
        BY <4>1, <4>2, WithoutAddsNone
      <4> QED
        BY <4>1, <4>3, <4>4
    <3>3. queue[i] \in Datagram
      BY <3>1 DEF Typed, TypeOK
    <3>4. /\ reply' = [reply EXCEPT ![c] = queue[i]]
          /\ pc' = [pc EXCEPT ![c] = "check"] /\ pc[c] = "pop"
          /\ UNCHANGED <<mutex, req, tries, device, requests, received, lastData, accepted, abandoned>>
      BY <2>3 DEF Takes
    <3>8. drawn' \subseteq [key : Keys, id : 1..MaxData]
      <4>1. req[c].key \in Keys
        BY <3>4 DEF Typed
      <4>2. Numbered(queue[i]) => queue[i].id \in 1..MaxData
        BY <3>1 DEF Typed, Shape, Numbered
      <4>3. \A e \in {queue[i]} : Numbered(e) => [key |-> req[c].key, id |-> e.id] \in [key : Keys, id : 1..MaxData]
        BY <4>1, <4>2
      <4>4. drawn' = drawn \cup {[key |-> req[c].key, id |-> d.id] : d \in {e \in {queue[i]} : Numbered(e)}}
        BY <2>3 DEF Takes
      <4> HIDE DEF i
      <4> QED
        BY <4>3, <4>4 DEF Typed, TypeOK
    <3>5. TypeOK'
      BY <2>0, <3>2, <3>3, <3>4, <3>8 DEF Typed, TypeOK, Threads
    <3>6. \A j \in 1..Len(queue') : Shape(queue'[j])
      BY <3>2 DEF Typed
    <3>7. \A d \in Clients : pc'[d] # "idle" => req'[d].key \in Keys
      BY <3>4 DEF Typed, TypeOK, Threads
    <3> QED
      BY <3>4, <3>5, <3>6, <3>7 DEF Typed, Shape
  <2>4. ASSUME NEW c \in Clients, Succeeds(c)
        PROVE  Typed'
    <3>1. Returns(c) /\ UNCHANGED <<queue, device, requests, received, lastData, drawn, abandoned>>
      BY <2>4 DEF Succeeds
    <3>2. accepted' \subseteq [client : Clients, req : Request, reply : Datagram]
      BY <2>4 DEF Succeeds, Typed, TypeOK
    <3> QED
      BY <2>0, <3>1, <3>2, ReturnsTyped DEF Typed, TypeOK
  <2>5. ASSUME NEW c \in Clients, Mismatches(c)
        PROVE  Typed'
    <3>1. UNCHANGED <<queue, device, requests, received, lastData, drawn, accepted>>
      BY <2>5 DEF Mismatches
    <3>2. CASE GivesUp(c)
      BY <2>0, <3>1, <3>2, ReturnsTyped DEF GivesUp, Typed, TypeOK
    <3>3. CASE ~GivesUp(c)
      <4>1. /\ tries' = [tries EXCEPT ![c] = tries[c] + 1] /\ tries[c] < MaxRetries
            /\ pc' = [pc EXCEPT ![c] = "wait"] /\ pc[c] = "check"
            /\ UNCHANGED <<mutex, req, reply, abandoned>>
        BY <2>5, <3>3 DEF Mismatches
      <4>2. tries[c] + 1 \in 0..MaxRetries
        BY <4>1 DEF Typed, TypeOK
      <4>3. TypeOK'
        BY <2>0, <3>1, <4>1, <4>2 DEF Typed, TypeOK, Threads
      <4>4. \A d \in Clients : pc'[d] # "idle" => req'[d].key \in Keys
        BY <4>1 DEF Typed, TypeOK, Threads
      <4> QED
        BY <3>1, <4>3, <4>4 DEF Typed, Shape
    <3> QED
      BY <3>2, <3>3
  <2>6. ASSUME NEW c \in Clients, TimesOut(c)
        PROVE  Typed'
    <3>1. UNCHANGED <<queue, device, requests, received, lastData, drawn, accepted>>
      BY <2>6 DEF TimesOut
    <3>2. CASE GivesUp(c)
      BY <2>0, <3>1, <3>2, ReturnsTyped DEF GivesUp, Typed, TypeOK
    <3>3. CASE ~GivesUp(c)
      <4>1. NoDatagram \in Datagram
        BY DEF NoDatagram, Datagram
      <4>2. /\ reply' = [reply EXCEPT ![c] = NoDatagram]
            /\ pc' = [pc EXCEPT ![c] = "check"] /\ pc[c] = "blocked"
            /\ UNCHANGED <<mutex, req, tries, abandoned>>
        BY <2>6, <3>3 DEF TimesOut
      <4>3. TypeOK'
        BY <2>0, <3>1, <4>1, <4>2 DEF Typed, TypeOK, Threads
      <4>4. \A d \in Clients : pc'[d] # "idle" => req'[d].key \in Keys
        BY <4>2 DEF Typed, TypeOK, Threads
      <4> QED
        BY <4>3, <4>4, <3>1 DEF Typed, Shape
    <3> QED
      BY <3>2, <3>3
  <2>7. ASSUME NEW c \in Clients, NEW k \in Keys, Sends(c, k)
        PROVE  Typed'
    <3> DEFINE r == [key |-> k, id |-> requests + 1]
    <3>1. r \in Request /\ r.key \in Keys /\ requests' \in 0..MaxRequests
      BY <2>7 DEF Sends, Request, Typed, TypeOK
    <3>2. /\ req' = [req EXCEPT ![c] = r] /\ device' = Append(device, r)
          /\ pc' = [pc EXCEPT ![c] = "wait"] /\ mutex' \in Locked \cup {NoMutex}
          /\ UNCHANGED <<queue, reply, tries, received, lastData, drawn, accepted, abandoned>>
      BY <2>7 DEF Sends, Typed, TypeOK
    <3> HIDE DEF r
    <3>3. device' \in Seq(Request) /\ \A i \in 1..Len(device') : device'[i].key \in Keys
      BY <3>1, <3>2 DEF Typed, TypeOK
    <3>4. TypeOK'
      BY <2>0, <3>1, <3>2, <3>3 DEF Typed, TypeOK, Threads
    <3>5. \A d \in Clients : pc'[d] # "idle" => req'[d].key \in Keys
      BY <3>1, <3>2 DEF Typed, TypeOK, Threads
    <3> QED
      BY <3>2, <3>3, <3>4, <3>5 DEF Typed, Shape
  <2>8. ASSUME ScannerBegins
        PROVE  Typed'
    BY <2>8, <2>0 DEF ScannerBegins, Typed, TypeOK, Threads, Shape
  <2>9. ASSUME ScannerTakes
        PROVE  Typed'
    <3> DEFINE i == FirstMatch("scanner")
    <3>1. i \in 1..Len(queue)
      BY <2>9, FirstMatchMatches DEF ScannerTakes, Typed, TypeOK, Threads
    <3>2. /\ queue' \in Seq(Datagram)
          /\ \A j \in 1..Len(queue') : \E k \in 1..Len(queue) : queue'[j] = queue[k]
      <4>1. queue \in Seq(Datagram) /\ queue' = Without(i)
        BY <2>9 DEF ScannerTakes, Typed, TypeOK
      <4> HIDE DEF i
      <4>2. i \in DOMAIN queue
        BY <3>1, <4>1
      <4>3. Without(i) \in Seq(Datagram)
        BY <4>1, <4>2, WithoutOne
      <4>4. \A j \in 1..Len(Without(i)) : \E k \in 1..Len(queue) : Without(i)[j] = queue[k]
        BY <4>1, <4>2, WithoutAddsNone
      <4> QED
        BY <4>1, <4>3, <4>4
    <3>3. lastData' \in 0..MaxData
      BY <2>9, <3>1 DEF ScannerTakes, Numbered, Typed, TypeOK, Shape
    <3>4. /\ pc' = [pc EXCEPT !["scanner"] = "idle"]
          /\ UNCHANGED <<mutex, req, reply, tries, device, requests, received, drawn, accepted, abandoned>>
      BY <2>9 DEF ScannerTakes
    <3>5. TypeOK'
      BY <2>0, <3>2, <3>3, <3>4 DEF Typed, TypeOK, Threads
    <3>6. \A j \in 1..Len(queue') : Shape(queue'[j])
      BY <3>2 DEF Typed
    <3>7. \A d \in Clients : pc'[d] # "idle" => req'[d].key \in Keys
      BY <3>4 DEF Typed, TypeOK, Threads
    <3> QED
      BY <3>4, <3>5, <3>6, <3>7 DEF Typed, Shape
  <2>10. ASSUME ScannerTimesOut
        PROVE  Typed'
    BY <2>10, <2>0 DEF ScannerTimesOut, Typed, TypeOK, Threads, Shape
  <2>11. ASSUME Answers
        PROVE  Typed'
    <3>1. PICK d \in {[kind |-> "answer", key |-> Head(device).key, id |-> Head(device).id],
                      [kind |-> "error", key |-> NoKey, id |-> Head(device).id]} : Push(d)
      BY <2>11 DEF Answers
    <3>2. Head(device) \in Request /\ Head(device).key \in Keys
      <4>1. Head(device) = device[1] /\ 1 \in 1..Len(device)
        BY <2>11 DEF Answers, Typed, TypeOK
      <4> QED
        BY <4>1 DEF Typed, TypeOK
    <3>3. d \in Datagram /\ Shape(d)
      BY <3>1, <3>2 DEF Datagram, Request, Shape
    <3>4. /\ device' \in Seq(Request) /\ \A i \in 1..Len(device') : device'[i].key \in Keys
          /\ received' \in 0..MaxData
          /\ UNCHANGED <<mutex, req, reply, tries, requests, lastData, drawn, accepted, abandoned>>
      BY <2>11 DEF Answers, Typed, TypeOK
    <3>5. queue' = Append(queue, d) /\ pc' = NotifyAll
      BY <3>1 DEF Push
    <3>6. queue' \in Seq(Datagram) /\ \A i \in 1..Len(queue') : Shape(queue'[i])
      BY <3>3, <3>5 DEF Typed, TypeOK
    <3>7. TypeOK'
      BY <2>0, <3>4, <3>5, <3>6, NotifyAllWakes DEF Typed, TypeOK
    <3>8. \A x \in Clients : pc'[x] # "idle" => req'[x].key \in Keys
      BY <3>4, <3>5, NotifyAllWakes DEF Typed, Threads
    <3> QED
      BY <3>4, <3>6, <3>7, <3>8 DEF Typed
  <2>12. ASSUME Ignores
        PROVE  Typed'
    <3>1. device' \in Seq(Request) /\ \A i \in 1..Len(device') : device'[i].key \in Keys
      BY <2>12 DEF Ignores, Typed, TypeOK
    <3> QED
      BY <2>12, <2>0, <3>1 DEF Ignores, Typed, TypeOK, Shape
  <2>13. ASSUME NEW k \in ScanKeys, SendsData(k)
        PROVE  Typed'
    <3>1. PICK n \in 0..MaxData : Push([kind |-> "data", key |-> k, id |-> n])
      <4>1. 0 \in 0..MaxData /\ (received < MaxData => received + 1 \in 0..MaxData)
        BY ExchangeAssumption DEF Typed, TypeOK
      <4> QED
        BY <2>13, <4>1 DEF SendsData
    <3> DEFINE d == [kind |-> "data", key |-> k, id |-> n]
    <3>3. d \in Datagram /\ Shape(d)
      BY ExchangeAssumption DEF Datagram, Shape
    <3>4. /\ device' = device /\ received' \in 0..MaxData
          /\ UNCHANGED <<mutex, req, reply, tries, requests, lastData, drawn, accepted, abandoned>>
      BY <2>13 DEF SendsData, Typed, TypeOK
    <3>2. Push(d)
      BY <3>1
    <3> HIDE DEF d
    <3>5. queue' = Append(queue, d) /\ pc' = NotifyAll
      BY <3>2 DEF Push
    <3>6. queue' \in Seq(Datagram) /\ \A i \in 1..Len(queue') : Shape(queue'[i])
      BY <3>3, <3>5 DEF Typed, TypeOK
    <3>7. TypeOK'
      BY <2>0, <3>4, <3>5, <3>6, NotifyAllWakes DEF Typed, TypeOK
    <3>8. \A x \in Clients : pc'[x] # "idle" => req'[x].key \in Keys
      BY <3>4, <3>5, NotifyAllWakes DEF Typed, Threads
    <3> QED
      BY <3>4, <3>6, <3>7, <3>8 DEF Typed
  <2>14. CASE UNCHANGED vars
    BY <2>14 DEF vars, Typed, TypeOK, Shape
  <2> QED
    BY <2>1, <2>2, <2>3, <2>4, <2>5, <2>6, <2>7, <2>8, <2>9, <2>10, <2>11, <2>12, <2>13,
       <2>14 DEF Next, Steps, Client, Scanner, Threads
<1> QED
  BY <1>1, InitTyped, PTL DEF Spec

\* Every variable has its type.
THEOREM TypeCorrect == Spec => []TypeOK
<1>1. Typed => TypeOK
  BY DEF Typed
<1> QED
  BY <1>1, TypedInvariant, PTL

-----------------------------------------------------------------------------
(* Waking up. *)

\* Taking a datagram adds nothing: who found nothing before finds nothing.
LEMMA TakingFindsNothingNew ==
    ASSUME queue \in Seq(Datagram), NEW i \in DOMAIN queue, queue' = Without(i), UNCHANGED req,
           NEW t \in Threads, ~Found(t)
    PROVE  ~Found(t)'
<1>1. \A j \in 1..Len(queue') : \E k \in 1..Len(queue) : queue'[j] = queue[k]
  BY WithoutAddsNone
<1>2. \A k \in 1..Len(queue) : ~Matches(queue[k], KeysOf(t))
  BY DEF Found
<1>3. queue' \in Seq(Datagram) /\ KeysOf(t)' = KeysOf(t)
  BY WithoutOne DEF KeysOf
<1>4. \A j \in 1..Len(queue') : ~Matches(queue'[j], KeysOf(t))
  BY <1>1, <1>2
<1> QED
  BY <1>3, <1>4 DEF Found, Matches

\* No thread sleeps while the queue has a datagram for it, whoever was faster.
THEOREM NobodySleeps == Spec => []NoLostWakeup
<1>1. Init => NoLostWakeup
  BY DEF Init, NoLostWakeup
<1>2. Typed /\ NoLostWakeup /\ [Next]_vars => NoLostWakeup'
  <2> SUFFICES ASSUME Typed, NoLostWakeup, [Next]_vars
               PROVE  NoLostWakeup'
    OBVIOUS
  <2> USE DEF client, history
  <2>1. ASSUME NEW t \in Threads, Waits(t)
        PROVE  NoLostWakeup'
    BY <2>1 DEF Waits, Typed, TypeOK, NoLostWakeup, Found, KeysOf, Threads
  <2>2. ASSUME NEW t \in Threads, PopBlocks(t)
        PROVE  NoLostWakeup'
    BY <2>2 DEF PopBlocks, Typed, TypeOK, NoLostWakeup, Found, KeysOf, Threads
  <2>3. ASSUME NEW c \in Clients, Takes(c)
        PROVE  NoLostWakeup'
    <3>1. FirstMatch(c) \in DOMAIN queue /\ queue \in Seq(Datagram)
      BY <2>3, FirstMatchMatches DEF Takes, Typed, TypeOK, Threads
    <3>2. queue' = Without(FirstMatch(c)) /\ UNCHANGED req
      BY <2>3 DEF Takes
    <3>3. \A t \in Threads : pc'[t] \in {"blocked", "popBlocked"} => pc[t] = pc'[t]
      BY <2>3 DEF Takes, Typed, TypeOK
    <3> QED
      BY <3>1, <3>2, <3>3, TakingFindsNothingNew DEF NoLostWakeup
  <2>4. ASSUME NEW c \in Clients, Succeeds(c)
        PROVE  NoLostWakeup'
    BY <2>4 DEF Succeeds, Typed, TypeOK, NoLostWakeup, Found, KeysOf, Threads, GivesUp, Returns,
       Matches
  <2>5. ASSUME NEW c \in Clients, Mismatches(c)
        PROVE  NoLostWakeup'
    BY <2>5, ZenonT(60) DEF Mismatches, Typed, TypeOK, NoLostWakeup, Found, KeysOf, Threads, GivesUp, Returns,
       Matches
  <2>6. ASSUME NEW c \in Clients, TimesOut(c)
        PROVE  NoLostWakeup'
    BY <2>6, ZenonT(60) DEF TimesOut, Typed, TypeOK, NoLostWakeup, Found, KeysOf, Threads, GivesUp, Returns,
       Matches
  <2>7. ASSUME NEW c \in Clients, NEW k \in Keys, Sends(c, k)
        PROVE  NoLostWakeup'
    BY <2>7 DEF Sends, Typed, TypeOK, NoLostWakeup, Found, KeysOf, Threads
  <2>8. ASSUME ScannerBegins
        PROVE  NoLostWakeup'
    BY <2>8 DEF ScannerBegins, Typed, TypeOK, NoLostWakeup, Found, KeysOf, Threads
  <2>9. ASSUME ScannerTakes
        PROVE  NoLostWakeup'
    <3>1. FirstMatch("scanner") \in DOMAIN queue /\ queue \in Seq(Datagram)
      BY <2>9, FirstMatchMatches DEF ScannerTakes, Typed, TypeOK, Threads
    <3>2. queue' = Without(FirstMatch("scanner")) /\ UNCHANGED req
      BY <2>9 DEF ScannerTakes
    <3>3. \A t \in Threads : pc'[t] \in {"blocked", "popBlocked"} => pc[t] = pc'[t]
      BY <2>9 DEF ScannerTakes, Typed, TypeOK
    <3> QED
      BY <3>1, <3>2, <3>3, TakingFindsNothingNew DEF NoLostWakeup
  <2>10. ASSUME ScannerTimesOut
        PROVE  NoLostWakeup'
    BY <2>10 DEF ScannerTimesOut, Typed, TypeOK, NoLostWakeup, Found, KeysOf, Threads
  <2>11. ASSUME Answers
        PROVE  NoLostWakeup'
    <3>1. pc' = NotifyAll
      BY <2>11 DEF Answers, Push
    <3> QED
      BY <3>1, NotifyAllWakes DEF Typed, NoLostWakeup
  <2>12. ASSUME Ignores
        PROVE  NoLostWakeup'
    BY <2>12 DEF Ignores, Typed, TypeOK, NoLostWakeup, Found, KeysOf, Threads
  <2>13. ASSUME NEW k \in ScanKeys, SendsData(k)
        PROVE  NoLostWakeup'
    <3>1. pc' = NotifyAll
      BY <2>13 DEF SendsData, Push
    <3> QED
      BY <3>1, NotifyAllWakes DEF Typed, NoLostWakeup
  <2>14. CASE UNCHANGED vars
    BY <2>14 DEF vars, NoLostWakeup, Found, KeysOf
  <2> QED
    BY <2>1, <2>2, <2>3, <2>4, <2>5, <2>6, <2>7, <2>8, <2>9, <2>10, <2>11, <2>12, <2>13,
       <2>14 DEF Next, Steps, Client, Scanner, Threads
<1> QED
  BY <1>1, <1>2, TypedInvariant, PTL DEF Spec

-----------------------------------------------------------------------------
(* The scan data. *)

Drawn == {d.id : d \in drawn}

IsData(i) == i \in 1..Len(queue) /\ Numbered(queue[i])

\* The scanner is beyond it, or a client drew it.
Gone(n) == n <= lastData \/ n \in Drawn

\* What nobody has taken is queued, in the order received.
DataInOrder ==
    /\ lastData <= received /\ Drawn \subseteq 1..received
    /\ \A d \in drawn : d.key \in ScanKeys
    /\ \A i \in 1..Len(queue) : IsData(i) => queue[i].id \in 1..received /\ ~Gone(queue[i].id)
    /\ \A n \in 1..received : ~Gone(n) => \E i \in 1..Len(queue) : IsData(i) /\ queue[i].id = n
    /\ \A i, j \in 1..Len(queue) : IsData(i) /\ IsData(j) /\ i < j => queue[i].id < queue[j].id

\* A position of the new queue comes from one of the old queue.
LEMMA Positions ==
    ASSUME queue \in Seq(Datagram), NEW i \in 1..Len(queue), queue' = Without(i)
    PROVE  /\ \A j \in 1..Len(queue') :
                  LET k == IF j < i THEN j ELSE j + 1
                  IN  k \in 1..Len(queue) /\ k # i /\ queue'[j] = queue[k]
           /\ \A k \in 1..Len(queue) : k # i =>
                  LET j == IF k < i THEN k ELSE k - 1
                  IN  j \in 1..Len(queue') /\ queue'[j] = queue[k]
<1>1. /\ Len(queue) \in Nat /\ Len(queue') = Len(queue) - 1
      /\ \A j \in 1..(Len(queue) - 1) : queue'[j] = queue[IF j < i THEN j ELSE j + 1]
  BY WithoutOne
<1>2. ASSUME NEW j \in 1..Len(queue')
      PROVE  LET k == IF j < i THEN j ELSE j + 1
             IN  k \in 1..Len(queue) /\ k # i /\ queue'[j] = queue[k]
  BY <1>1
<1>3. ASSUME NEW k \in 1..Len(queue), k # i
      PROVE  LET j == IF k < i THEN k ELSE k - 1
             IN  j \in 1..Len(queue') /\ queue'[j] = queue[k]
  <2>1. CASE k < i
    BY <1>1, <1>3, <2>1
  <2>2. CASE ~(k < i)
    <3>1. k - 1 \in 1..(Len(queue) - 1) /\ ~(k - 1 < i) /\ (k - 1) + 1 = k
      BY <1>1, <1>3, <2>2
    <3> QED
      BY <1>1, <2>2, <3>1
  <2> QED
    BY <2>1, <2>2
<1> QED
  BY <1>2, <1>3

\* The numbers are numbers.
LEMMA Numbers ==
    ASSUME Typed
    PROVE  /\ queue \in Seq(Datagram) /\ Len(queue) \in Nat /\ received \in Nat /\ lastData \in Nat
           /\ \A k \in 1..Len(queue) : queue[k].id \in Int
<1>1. queue \in Seq(Datagram) /\ received \in Nat /\ lastData \in Nat
  BY ExchangeAssumption DEF Typed, TypeOK
<1>2. \A d \in Datagram : d.id \in Int
  BY ExchangeAssumption DEF Datagram
<1> QED
  BY <1>1, <1>2

\* One datagram is taken, and gone if it is scan data.
LEMMA TakingKeepsOrder ==
    ASSUME Typed, DataInOrder, NEW i \in 1..Len(queue), queue' = Without(i), UNCHANGED received,
           lastData' <= received, Drawn' \subseteq 1..received, \A d \in drawn' : d.key \in ScanKeys,
           \A n \in 1..received : Gone(n)' <=> (Gone(n) \/ (IsData(i) /\ n = queue[i].id))
    PROVE  DataInOrder'
<1>1. /\ queue \in Seq(Datagram) /\ Len(queue) \in Nat
      /\ \A k \in 1..Len(queue) : queue[k].id \in Int
  BY Numbers
<1>2. \A j \in 1..Len(queue') :
          LET k == IF j < i THEN j ELSE j + 1
          IN  k \in 1..Len(queue) /\ k # i /\ queue'[j] = queue[k]
  BY <1>1, Positions
<1>3. \A k \in 1..Len(queue) : k # i =>
          LET j == IF k < i THEN k ELSE k - 1
          IN  j \in 1..Len(queue') /\ queue'[j] = queue[k]
  BY <1>1, Positions
<1>4. \A k \in 1..Len(queue) : IsData(k) /\ IsData(i) /\ k # i => queue[k].id # queue[i].id
  <2>1. \A k \in 1..Len(queue) : k # i => k < i \/ i < k
    BY <1>1
  <2> QED
    BY <1>1, <2>1 DEF DataInOrder
<1>5. ASSUME NEW j \in 1..Len(queue'), IsData(j)'
      PROVE  (queue[j].id \in 1..received /\ ~Gone(queue[j].id))'
  <2> DEFINE k == IF j < i THEN j ELSE j + 1
  <2>1. k \in 1..Len(queue) /\ k # i /\ queue'[j] = queue[k]
    BY <1>2
  <2> HIDE DEF k
  <2>2. IsData(k)
    BY <1>5, <2>1 DEF IsData, Numbered
  <2>3. queue[k].id \in 1..received /\ ~Gone(queue[k].id)
    BY <2>1, <2>2 DEF DataInOrder
  <2>4. ~(IsData(i) /\ queue[k].id = queue[i].id)
    BY <1>4, <2>1, <2>2
  <2> DEFINE n == queue[k].id
  <2>5. n \in 1..received /\ ~Gone(n) /\ ~(IsData(i) /\ n = queue[i].id)
    BY <2>3, <2>4
  <2>6. queue'[j].id = n
    BY <2>1
  <2>7. ~(n <= lastData' \/ n \in Drawn')
    <3> HIDE DEF n
    <3> QED
      BY <2>5 DEF Gone
  <2> QED
    BY <2>5, <2>6, <2>7 DEF Gone
<1>8. ASSUME NEW n \in 1..received, ~Gone(n)'
      PROVE  \E j \in 1..Len(queue') : IsData(j)' /\ queue'[j].id = n
  <2>1. ~Gone(n) /\ ~(IsData(i) /\ n = queue[i].id)
    BY <1>8
  <2>2. PICK k \in 1..Len(queue) : IsData(k) /\ queue[k].id = n
    BY <2>1 DEF DataInOrder
  <2>3. k # i
    BY <2>1, <2>2
  <2> DEFINE j == IF k < i THEN k ELSE k - 1
  <2>4. j \in 1..Len(queue') /\ queue'[j] = queue[k]
    BY <1>3, <2>3
  <2> HIDE DEF j
  <2> QED
    BY <2>2, <2>4 DEF IsData, Numbered
<1>9. ASSUME NEW j \in 1..Len(queue'), NEW l \in 1..Len(queue'), IsData(j)', IsData(l)', j < l
      PROVE  queue'[j].id < queue'[l].id
  <2> DEFINE k == IF j < i THEN j ELSE j + 1
             m == IF l < i THEN l ELSE l + 1
  <2>1. k \in 1..Len(queue) /\ queue'[j] = queue[k] /\ m \in 1..Len(queue) /\ queue'[l] = queue[m]
    BY <1>2
  <2>2. k < m
    BY <1>1, <1>9
  <2> HIDE DEF k, m
  <2> QED
    BY <1>9, <2>1, <2>2 DEF IsData, Numbered, DataInOrder
<1> QED
  BY <1>5, <1>8, <1>9 DEF DataInOrder

\* The scanner takes the first scan datagram: those it passes over were drawn.
LEMMA ScannerPassesOver ==
    ASSUME Typed, DataInOrder, NEW i \in 1..Len(queue), UNCHANGED drawn,
           lastData' = IF IsData(i) THEN queue[i].id ELSE lastData,
           IsData(i) => \A j \in 1..(i - 1) : ~IsData(j)
    PROVE  /\ lastData' <= received
           /\ \A n \in 1..received : Gone(n)' <=> (Gone(n) \/ (IsData(i) /\ n = queue[i].id))
<1>1. /\ Len(queue) \in Nat /\ received \in Nat /\ lastData \in Nat
      /\ \A k \in 1..Len(queue) : queue[k].id \in Int
  BY Numbers
<1>2. CASE ~IsData(i)
  BY <1>2 DEF Gone, Drawn, DataInOrder
<1>3. CASE IsData(i)
  <2>1. lastData' = queue[i].id /\ queue[i].id \in 1..received /\ ~Gone(queue[i].id)
    BY <1>3 DEF DataInOrder
  <2>2. lastData < queue[i].id
    BY <1>1, <2>1 DEF Gone
  <2>3. ASSUME NEW n \in 1..received, n < queue[i].id
        PROVE  Gone(n)
    <3>1. SUFFICES ASSUME ~Gone(n)
                   PROVE  FALSE
      OBVIOUS
    <3>2. PICK k \in 1..Len(queue) : IsData(k) /\ queue[k].id = n
      BY <3>1 DEF DataInOrder
    <3>3. ~(k < i)
      BY <1>1, <1>3, <3>2
    <3>4. k # i
      BY <2>1, <2>3, <3>2
    <3>5. i < k
      BY <1>1, <3>3, <3>4
    <3>6. queue[i].id < queue[k].id
      BY <1>3, <3>2, <3>5 DEF DataInOrder
    <3> QED
      BY <1>1, <2>3, <3>2, <3>6
  <2>4. ASSUME NEW n \in 1..received
        PROVE  Gone(n)' <=> (Gone(n) \/ n = queue[i].id)
    <3>1. Gone(n)' <=> (n <= queue[i].id \/ n \in Drawn)
      BY <2>1 DEF Gone, Drawn
    <3>2. n \in Drawn => Gone(n)
      BY DEF Gone
    <3>3. Gone(n) => n <= queue[i].id \/ n \in Drawn
      BY <1>1, <2>1, <2>2 DEF Gone
    <3>4. n <= queue[i].id => n < queue[i].id \/ n = queue[i].id
      BY <1>1, <2>1
    <3>5. n = queue[i].id => n <= queue[i].id
      BY <2>1
    <3> QED
      BY <2>3, <3>1, <3>2, <3>3, <3>4, <3>5
  <2> QED
    BY <1>1, <1>3, <2>1, <2>4
<1> QED
  BY <1>2, <1>3

\* A datagram that is not scan data, or the next one, comes to the end.
LEMMA PushKeepsOrder ==
    ASSUME Typed, DataInOrder, NEW d \in Datagram, queue' = Append(queue, d),
           UNCHANGED <<lastData, drawn>>,
           received' = IF Numbered(d) THEN received + 1 ELSE received,
           Numbered(d) => d.id = received + 1
    PROVE  DataInOrder'
<1>1. /\ queue \in Seq(Datagram) /\ Len(queue) \in Nat /\ received \in Nat /\ lastData \in Nat
      /\ \A k \in 1..Len(queue) : queue[k].id \in Int
  BY Numbers
<1>2. /\ Len(queue') = Len(queue) + 1 /\ queue'[Len(queue) + 1] = d
      /\ \A k \in 1..Len(queue) : queue'[k] = queue[k]
  BY <1>1
<1>3. \A k \in 1..Len(queue') : k \in 1..Len(queue) \/ k = Len(queue) + 1
  BY <1>1, <1>2
<1>4. \A k \in 1..Len(queue) : IsData(k)' <=> IsData(k)
  BY <1>1, <1>2 DEF IsData, Numbered
<1>5. /\ lastData <= received /\ Drawn \subseteq 1..received
      /\ \A k \in 1..Len(queue) : IsData(k) => queue[k].id \in 1..received /\ ~Gone(queue[k].id)
  BY DEF DataInOrder
<1>6. lastData' <= received' /\ Drawn' \subseteq 1..received' /\ received <= received' /\ received' \in Nat
  BY <1>1, <1>5 DEF Drawn
<1>7. ASSUME NEW k \in 1..Len(queue'), IsData(k)'
      PROVE  (queue[k].id \in 1..received /\ ~Gone(queue[k].id))'
  <2>1. CASE k \in 1..Len(queue)
    BY <1>1, <1>2, <1>4, <1>5, <1>6, <1>7, <2>1 DEF Gone, Drawn
  <2>2. CASE k = Len(queue) + 1
    <3>1. Numbered(d) /\ queue'[k].id = received + 1 /\ received' = received + 1
      BY <1>2, <1>7, <2>2 DEF IsData, Numbered
    <3>2. received + 1 \in 1..received' /\ ~(received + 1 <= lastData) /\ received + 1 \notin Drawn
      BY <1>1, <1>5, <3>1
    <3> QED
      BY <3>1, <3>2 DEF Gone, Drawn
  <2> QED
    BY <1>3, <2>1, <2>2
<1>8. ASSUME NEW n \in 1..received', ~Gone(n)'
      PROVE  \E k \in 1..Len(queue') : IsData(k)' /\ queue'[k].id = n
  <2>1. CASE n \notin 1..received
    <3>1. Numbered(d) /\ d.id = n
      BY <1>1, <2>1
    <3>2. Len(queue) + 1 \in 1..Len(queue')
      BY <1>1, <1>2
    <3> QED
      BY <1>2, <3>1, <3>2 DEF IsData, Numbered
  <2>2. CASE n \in 1..received
    <3>1. ~Gone(n)
      BY <1>8 DEF Gone, Drawn
    <3>2. PICK k \in 1..Len(queue) : IsData(k) /\ queue[k].id = n
      BY <2>2, <3>1 DEF DataInOrder
    <3>3. k \in 1..Len(queue')
      BY <1>1, <1>2
    <3> QED
      BY <1>2, <1>4, <3>2, <3>3
  <2> QED
    BY <2>1, <2>2
<1>9. ASSUME NEW k \in 1..Len(queue'), NEW m \in 1..Len(queue'), IsData(k)', IsData(m)', k < m
      PROVE  queue'[k].id < queue'[m].id
  <2>1. k \in 1..Len(queue)
    BY <1>1, <1>2, <1>3, <1>9
  <2>2. CASE m \in 1..Len(queue)
    BY <1>2, <1>4, <1>9, <2>1, <2>2 DEF DataInOrder
  <2>3. CASE m = Len(queue) + 1
    <3>1. queue'[m].id = received + 1
      BY <1>2, <1>9, <2>3 DEF IsData, Numbered
    <3>2. queue'[k].id \in 1..received
      BY <1>2, <1>4, <1>5, <1>9, <2>1
    <3> QED
      BY <1>1, <3>1, <3>2
  <2> QED
    BY <1>3, <2>2, <2>3
<1>10. \A e \in drawn' : e.key \in ScanKeys
  BY DEF DataInOrder
<1> QED
  BY <1>6, <1>7, <1>8, <1>9, <1>10 DEF DataInOrder

LEMMA DataInvariant == Spec => []DataInOrder
<1>1. Init => DataInOrder
  BY DEF Init, DataInOrder, IsData, Drawn, Gone
<1>2. Typed /\ DataInOrder /\ [Next]_vars => DataInOrder'
  <2> SUFFICES ASSUME Typed, DataInOrder, [Next]_vars
               PROVE  DataInOrder'
    OBVIOUS
  <2> USE DEF client, history
  <2>0. UNCHANGED <<queue, received, lastData, drawn>> => DataInOrder'
    BY DEF DataInOrder, IsData, Numbered, Drawn, Gone
  <2>1. ASSUME NEW t \in Threads, Waits(t)
        PROVE  DataInOrder'
    BY <2>0, <2>1 DEF Waits
  <2>2. ASSUME NEW t \in Threads, PopBlocks(t)
        PROVE  DataInOrder'
    BY <2>0, <2>2 DEF PopBlocks
  <2>3. ASSUME NEW c \in Clients, Takes(c)
        PROVE  DataInOrder'
    <3> DEFINE i == FirstMatch(c)
    <3>1. i \in 1..Len(queue) /\ Matches(queue[i], KeysOf(c))
      BY <2>3, FirstMatchMatches DEF Takes, Typed, TypeOK, Threads
    <3>2. /\ queue' = Without(i) /\ UNCHANGED <<received, lastData>>
          /\ drawn' = drawn \cup {[key |-> req[c].key, id |-> d.id] : d \in {e \in {queue[i]} : Numbered(e)}}
      BY <2>3 DEF Takes
    <3> HIDE DEF i
    <3>3. IsData(i) <=> Numbered(queue[i])
      BY <3>1 DEF IsData
    <3>4. Drawn' = Drawn \cup {n \in {queue[i].id} : IsData(i)}
      <4>1. CASE IsData(i)
        <5>1. drawn' = drawn \cup {[key |-> req[c].key, id |-> queue[i].id]}
          BY <3>2, <3>3, <4>1
        <5> DEFINE x == [key |-> req[c].key, id |-> queue[i].id]
        <5>2. x.id = queue[i].id /\ drawn' = drawn \cup {x}
          BY <5>1
        <5> HIDE DEF x
        <5>3. Drawn' = {d.id : d \in drawn \cup {x}}
          BY <5>2 DEF Drawn
        <5>4. Drawn' = Drawn \cup {x.id}
          BY <5>3 DEF Drawn
        <5> QED
          BY <4>1, <5>2, <5>4
      <4>2. CASE ~IsData(i)
        <5>1. drawn' = drawn
          BY <3>2, <3>3, <4>2
        <5> QED
          BY <4>2, <5>1 DEF Drawn
      <4> QED
        BY <4>1, <4>2
    <3>5. Drawn' \subseteq 1..received
      BY <3>1, <3>4 DEF DataInOrder
    <3>6. \A n \in 1..received : Gone(n)' <=> (Gone(n) \/ (IsData(i) /\ n = queue[i].id))
      BY <3>2, <3>4 DEF Gone
    <3>7. IsData(i) => req[c].key \in ScanKeys
      <4>1. c # "scanner"
        BY ExchangeAssumption
      <4> QED
        BY <3>1, <4>1 DEF Matches, KeysOf, IsData, Numbered, Typed, Shape
    <3>8. \A d \in drawn' : d.key \in ScanKeys
      <4>1. \A d \in drawn : d.key \in ScanKeys
        BY DEF DataInOrder
      <4> QED
        BY <3>2, <3>3, <3>7, <4>1
    <3>9. lastData' <= received
      BY <3>2 DEF DataInOrder
    <3> QED
      BY <3>1, <3>2, <3>5, <3>6, <3>8, <3>9, TakingKeepsOrder
  <2>4. ASSUME NEW c \in Clients, Succeeds(c)
        PROVE  DataInOrder'
    BY <2>0, <2>4 DEF Succeeds
  <2>5. ASSUME NEW c \in Clients, Mismatches(c)
        PROVE  DataInOrder'
    BY <2>0, <2>5 DEF Mismatches
  <2>6. ASSUME NEW c \in Clients, TimesOut(c)
        PROVE  DataInOrder'
    BY <2>0, <2>6 DEF TimesOut
  <2>7. ASSUME NEW c \in Clients, NEW k \in Keys, Sends(c, k)
        PROVE  DataInOrder'
    BY <2>0, <2>7 DEF Sends
  <2>8. ASSUME ScannerBegins
        PROVE  DataInOrder'
    BY <2>0, <2>8 DEF ScannerBegins
  <2>9. ASSUME ScannerTakes
        PROVE  DataInOrder'
    <3> DEFINE i == FirstMatch("scanner")
    <3>1. /\ i \in 1..Len(queue)
          /\ \A j \in 1..(i - 1) : ~Matches(queue[j], KeysOf("scanner"))
      BY <2>9, FirstMatchMatches DEF ScannerTakes, Typed, TypeOK, Threads
    <3>2. queue' = Without(i) /\ UNCHANGED <<received, drawn>>
          /\ lastData' = IF Numbered(queue[i]) THEN queue[i].id ELSE lastData
      BY <2>9 DEF ScannerTakes
    <3> HIDE DEF i
    <3>3. \A j \in 1..(i - 1) : ~IsData(j)
      BY <3>1 DEF Matches, IsData, Numbered, Typed, Shape, KeysOf
    <3>4. lastData' = IF IsData(i) THEN queue[i].id ELSE lastData
      BY <3>1, <3>2 DEF IsData
    <3>5. /\ lastData' <= received
          /\ \A n \in 1..received : Gone(n)' <=> (Gone(n) \/ (IsData(i) /\ n = queue[i].id))
      BY <3>1, <3>2, <3>3, <3>4, ScannerPassesOver
    <3>6. Drawn' \subseteq 1..received /\ \A d \in drawn' : d.key \in ScanKeys
      BY <3>2 DEF DataInOrder, Drawn
    <3> QED
      BY <3>1, <3>2, <3>5, <3>6, TakingKeepsOrder
  <2>10. ASSUME ScannerTimesOut
        PROVE  DataInOrder'
    BY <2>0, <2>10 DEF ScannerTimesOut
  <2>11. ASSUME Answers
        PROVE  DataInOrder'
    <3>1. PICK d \in {[kind |-> "answer", key |-> Head(device).key, id |-> Head(device).id],
                      [kind |-> "error", key |-> NoKey, id |-> Head(device).id]} : Push(d)
      BY <2>11 DEF Answers
    <3>2. Head(device) \in Request
      BY <2>11 DEF Answers, Typed, TypeOK
    <3>3. d \in Datagram /\ ~Numbered(d)
      BY <3>1, <3>2, ExchangeAssumption DEF Datagram, Request, Numbered
    <3>4. queue' = Append(queue, d) /\ UNCHANGED <<received, lastData, drawn>>
      BY <2>11, <3>1 DEF Push, Answers
    <3> QED
      BY <3>3, <3>4, PushKeepsOrder
  <2>12. ASSUME Ignores
        PROVE  DataInOrder'
    BY <2>0, <2>12 DEF Ignores
  <2>13. ASSUME NEW k \in ScanKeys, SendsData(k)
        PROVE  DataInOrder'
    <3>1. PICK n \in {0, received + 1} :
              /\ Push([kind |-> "data", key |-> k, id |-> n]) /\ n \in 0..MaxData
              /\ received' = IF n = 0 THEN received ELSE received + 1
      <4>1. received \in Nat /\ received + 1 # 0
        BY Numbers
      <4> QED
        BY <2>13, <4>1, ExchangeAssumption DEF SendsData, Typed, TypeOK
    <3> DEFINE d == [kind |-> "data", key |-> k, id |-> n]
    <3>2. d \in Datagram /\ (Numbered(d) <=> n # 0) /\ d.id = n
      BY <3>1, ExchangeAssumption DEF Datagram, Numbered
    <3>3. queue' = Append(queue, d) /\ UNCHANGED <<lastData, drawn>>
      BY <2>13, <3>1 DEF SendsData, Push
    <3> HIDE DEF d
    <3>4. received' = (IF Numbered(d) THEN received + 1 ELSE received) /\ (Numbered(d) => d.id = received + 1)
      BY <3>1, <3>2
    <3> QED
      BY <3>2, <3>3, <3>4, PushKeepsOrder
  <2>14. CASE UNCHANGED vars
    BY <2>0, <2>14 DEF vars
  <2> QED
    BY <2>1, <2>2, <2>3, <2>4, <2>5, <2>6, <2>7, <2>8, <2>9, <2>10, <2>11, <2>12, <2>13,
       <2>14 DEF Next, Steps, Client, Scanner, Threads
<1> QED
  BY <1>1, <1>2, TypedInvariant, PTL DEF Spec

\* The scanner misses no scan datagram but those that a client drew under a keyword
\* they share, and gets none twice or out of order, while any number of clients read
\* from the same queue.
THEOREM DataIsComplete == Spec => []ScanDataComplete
<1>1. Typed /\ DataInOrder => ScanDataComplete
  <2> SUFFICES ASSUME Typed, DataInOrder
               PROVE  ScanDataComplete
    OBVIOUS
  <2> DEFINE Data == {i \in DOMAIN queue : Numbered(queue[i])}
  <2>1. \A i : i \in Data <=> IsData(i)
    BY DEF Typed, TypeOK, IsData
  <2>2. {queue[i].id : i \in Data} = ((lastData + 1)..received) \ Drawn
    <3>1. \A n : n \in 1..received /\ ~Gone(n) <=> n \in ((lastData + 1)..received) \ Drawn
      <4>1. received \in Nat /\ lastData \in Nat
        BY Numbers
      <4>2. \A n : n \in 1..received /\ ~(n <= lastData) <=> n \in (lastData + 1)..received
        BY <4>1
      <4> QED
        BY <4>2 DEF Gone
    <3>2. ASSUME NEW i \in Data
          PROVE  queue[i].id \in ((lastData + 1)..received) \ Drawn
      <4>1. IsData(i) /\ i \in 1..Len(queue)
        BY <2>1, <3>2 DEF IsData
      <4>2. queue[i].id \in 1..received /\ ~Gone(queue[i].id)
        BY <4>1 DEF DataInOrder
      <4> QED
        BY <3>1, <4>2
    <3>3. ASSUME NEW n \in ((lastData + 1)..received) \ Drawn
          PROVE  \E i \in Data : queue[i].id = n
      <4>1. n \in 1..received /\ ~Gone(n)
        BY <3>1
      <4>2. \E i \in 1..Len(queue) : IsData(i) /\ queue[i].id = n
        BY <4>1 DEF DataInOrder
      <4> QED
        BY <2>1, <4>2
    <3> HIDE DEF Data
    <3> QED
      BY <3>2, <3>3
  <2>3. \A i, j \in Data : i < j => queue[i].id < queue[j].id
    BY <2>1 DEF DataInOrder, IsData
  <2>4. \A d \in drawn : d.key \in ScanKeys
    BY DEF DataInOrder
  <2> QED
    BY <2>2, <2>3, <2>4 DEF ScanDataComplete, Drawn
<1> QED
  BY <1>1, TypedInvariant, DataInvariant, PTL

-----------------------------------------------------------------------------
(* Replies. *)

\* The conditions under which a command gets its own reply.
Guarded == "api" \notin mode /\ ~abandoned

\* sopasSendMutex makes the exchanges exclusive, and what is on its way, in the
\* device or in the queue, belongs to the one that is going on.
ClientsExclude == \A c \in Clients : pc[c] # "idle" => mutex = c

DeviceHasOne ==
    \A i \in 1..Len(device) :
        /\ i = 1 /\ mutex \in Clients /\ pc[mutex] # "idle"
        /\ device[i].id = req[mutex].id /\ device[i].key = req[mutex].key

IsReply(i) == i \in 1..Len(queue) /\ queue[i].kind # "data"

\* A client has read the reply to its request, which may also be an error.
Replied(c) == pc[c] = "check" /\ reply[c].kind \in {"answer", "error"}

QueueHasOne ==
    /\ \A i \in 1..Len(queue) :
           IsReply(i) =>
               /\ Len(device) = 0 /\ mutex \in Clients /\ pc[mutex] # "idle" /\ ~Replied(mutex)
               /\ queue[i].id = req[mutex].id
    /\ \A i, j \in 1..Len(queue) : IsReply(i) /\ IsReply(j) => i = j

RepliedIsOwn ==
    \A c \in Clients : Replied(c) => Len(device) = 0 /\ reply[c].id = req[c].id

Exclusive == ClientsExclude /\ DeviceHasOne /\ QueueHasOne /\ RepliedIsOwn /\ RepliesMatch

\* A client returns when nothing of its exchange is left.
LEMMA ReturnsExclusive ==
    ASSUME Typed, Exclusive, NEW c \in Clients, Returns(c), pc[c] # "idle",
           Len(device) = 0, \A i \in 1..Len(queue) : ~IsReply(i),
           UNCHANGED <<queue, device>>, RepliesMatch'
    PROVE  Exclusive'
<1>1. c \in Threads /\ Clients \subseteq Threads
  BY DEF Threads
<1>2. mutex = c
  BY DEF Exclusive, ClientsExclude
<1>3. \A d \in Clients : pc'[d] = "idle"
  BY <1>1, <1>2 DEF Exclusive, ClientsExclude, Returns, Typed, TypeOK
<1>4. ClientsExclude' /\ RepliedIsOwn'
  BY <1>3 DEF ClientsExclude, RepliedIsOwn, Replied
<1>5. DeviceHasOne'
  BY DEF DeviceHasOne, Typed, TypeOK
<1>6. QueueHasOne'
  BY DEF QueueHasOne, IsReply
<1> QED
  BY <1>4, <1>5, <1>6 DEF Exclusive

\* A client that gives up has no reply to wait for, or the command is abandoned.
LEMMA GivingUpExclusive ==
    ASSUME Typed, Exclusive, NEW c \in Clients, GivesUp(c), ~abandoned', pc[c] # "idle",
           UNCHANGED <<queue, device, accepted>>
    PROVE  Exclusive'
<1>1. Returns(c) /\ ~Outstanding(c)
  BY DEF GivesUp
<1>2. mutex = c
  BY DEF Exclusive, ClientsExclude
<1>3. Len(device) = 0
  <2>1. \A i \in 1..Len(device) : FALSE
    BY <1>1, <1>2 DEF Outstanding, Exclusive, DeviceHasOne, Typed, TypeOK
  <2> QED
    BY <2>1 DEF Typed, TypeOK
<1>4. \A i \in 1..Len(queue) : ~IsReply(i)
  BY <1>1, <1>2 DEF Outstanding, Exclusive, QueueHasOne, IsReply, Typed, TypeOK
<1>5. RepliesMatch'
  BY DEF Exclusive, RepliesMatch
<1> QED
  BY <1>1, <1>3, <1>4, <1>5, ReturnsExclusive

\* Whatever is taken, at most one reply is left, whose client still waits for it.
LEMMA TakingLeavesOne ==
    ASSUME Typed, QueueHasOne, NEW i \in 1..Len(queue), queue' = Without(i),
           UNCHANGED <<mutex, req, device>>,
           \A k \in 1..Len(queue) : IsReply(k) /\ k # i => pc'[mutex] # "idle" /\ ~Replied(mutex)'
    PROVE  QueueHasOne'
<1> DEFINE old(j) == IF j < i THEN j ELSE j + 1
<1>1. queue \in Seq(Datagram)
  BY DEF Typed, TypeOK
<1>2. \A j \in 1..Len(queue') :
          LET k == IF j < i THEN j ELSE j + 1
          IN  k \in 1..Len(queue) /\ k # i /\ queue'[j] = queue[k]
  BY <1>1, Positions
<1>3. \A j \in 1..Len(queue') : old(j) \in 1..Len(queue) /\ old(j) # i /\ queue'[j] = queue[old(j)]
  BY <1>2
<1>4. \A j, l \in 1..Len(queue') : old(j) = old(l) => j = l
  BY <1>1
<1> HIDE DEF old
<1>5. \A j \in 1..Len(queue') : IsReply(j)' => IsReply(old(j))
  BY <1>3 DEF IsReply
<1>6. ASSUME NEW j \in 1..Len(queue'), IsReply(j)'
      PROVE  /\ Len(device') = 0 /\ mutex' \in Clients /\ pc'[mutex'] # "idle" /\ ~Replied(mutex)'
             /\ queue'[j].id = req'[mutex'].id
  <2>1. IsReply(old(j)) /\ old(j) \in 1..Len(queue) /\ old(j) # i /\ queue'[j] = queue[old(j)]
    BY <1>3, <1>5, <1>6
  <2>2. Len(device) = 0 /\ mutex \in Clients /\ queue[old(j)].id = req[mutex].id
    BY <2>1 DEF QueueHasOne
  <2>3. pc'[mutex] # "idle" /\ ~Replied(mutex)'
    BY <2>1
  <2> QED
    BY <2>1, <2>2, <2>3
<1>7. \A j, l \in 1..Len(queue') : IsReply(j)' /\ IsReply(l)' => j = l
  BY <1>3, <1>4, <1>5 DEF QueueHasOne
<1> QED
  BY <1>6, <1>7 DEF QueueHasOne

LEMMA ExclusiveInvariant == Spec => [](Guarded => Exclusive)
<1>1. Init => Exclusive
  <2> SUFFICES ASSUME Init
               PROVE  Exclusive
    OBVIOUS
  <2>1. Len(device) = 0 /\ Len(queue) = 0 /\ accepted = {} /\ \A c \in Clients : pc[c] = "idle"
    BY DEF Init, Threads
  <2> QED
    BY <2>1 DEF Exclusive, ClientsExclude, DeviceHasOne, QueueHasOne, RepliedIsOwn, RepliesMatch, IsReply, Replied
<1>2. [Next]_vars /\ Guarded' => Guarded
  <2>1. [Next]_vars => UNCHANGED mode
    BY DEF Next, vars
  <2> SUFFICES ASSUME [Next]_vars
               PROVE  abandoned => abandoned'
    BY <2>1 DEF Guarded
  <2>2. ASSUME NEW c \in Clients, Client(c) \/ TimesOut(c) \/ \E k \in Keys : Sends(c, k)
        PROVE  abandoned => abandoned'
    BY <2>2 DEF Client, Waits, PopBlocks, Takes, Succeeds, Mismatches, TimesOut, GivesUp, Sends, history
  <2>3. CASE Scanner \/ ScannerTimesOut
    BY <2>3 DEF Scanner, Waits, PopBlocks, ScannerBegins, ScannerTakes, ScannerTimesOut, history
  <2>4. CASE Answers \/ Ignores \/ \E k \in ScanKeys : SendsData(k)
    BY <2>4 DEF Answers, Ignores, SendsData, history
  <2>5. CASE UNCHANGED vars
    BY <2>5 DEF vars, history
  <2> QED
    BY <2>2, <2>3, <2>4, <2>5 DEF Next, Steps
<1>3. Typed /\ (Guarded => Exclusive) /\ [Next]_vars => (Guarded => Exclusive)'
  <2> SUFFICES ASSUME Typed, Exclusive, Guarded, Guarded', [Next]_vars
               PROVE  Exclusive'
    BY <1>2
  <2> USE DEF client, history
  <2>0. Clients \subseteq Threads /\ "scanner" \notin Clients /\ NoMutex \notin Clients /\ ~abandoned'
    BY ExchangeAssumption DEF Threads, Guarded
  <2>16. /\ \A d \in Clients : (pc'[d] = "idle" <=> pc[d] = "idle") /\ (pc'[d] = "check" <=> pc[d] = "check")
         /\ UNCHANGED <<queue, mutex, req, reply, device, accepted>>
         => Exclusive'
    BY DEF Exclusive, ClientsExclude, DeviceHasOne, QueueHasOne, RepliedIsOwn, RepliesMatch, IsReply, Replied
  <2>1. ASSUME NEW t \in Threads, Waits(t)
        PROVE  Exclusive'
    BY <2>0, <2>1, <2>16 DEF Waits, Typed, TypeOK
  <2>2. ASSUME NEW t \in Threads, PopBlocks(t)
        PROVE  Exclusive'
    BY <2>0, <2>2, <2>16 DEF PopBlocks, Typed, TypeOK
  <2>3. ASSUME NEW c \in Clients, Takes(c)
        PROVE  Exclusive'
    <3> DEFINE i == FirstMatch(c)
    <3>1. i \in 1..Len(queue) /\ queue \in Seq(Datagram)
      BY <2>3, <2>0, FirstMatchMatches DEF Takes, Typed, TypeOK
    <3>2. /\ queue' = Without(i) /\ reply' = [reply EXCEPT ![c] = queue[i]]
          /\ pc' = [pc EXCEPT ![c] = "check"] /\ pc[c] = "pop"
          /\ UNCHANGED <<mutex, req, device, accepted>>
      BY <2>3 DEF Takes
    <3> HIDE DEF i
    <3>3. mutex = c
      BY <3>2 DEF Exclusive, ClientsExclude
    <3>4. /\ pc'[c] = "check" /\ reply'[c] = queue[i]
          /\ \A d \in Clients : d # c => pc'[d] = pc[d] /\ reply'[d] = reply[d]
      BY <2>0, <3>2 DEF Typed, TypeOK
    <3>5. Replied(c)' <=> IsReply(i)
      <4>1. queue[i].kind \in {"data", "answer", "error"}
        BY <3>1 DEF Typed, Shape
      <4> QED
        BY <3>1, <3>4, <4>1 DEF Replied, IsReply
    <3>6. QueueHasOne'
      <4>1. ASSUME NEW k \in 1..Len(queue), IsReply(k), k # i
            PROVE  pc'[mutex] # "idle" /\ ~Replied(mutex)'
        BY <3>1, <3>2, <3>3, <3>4, <3>5, <4>1 DEF Exclusive, QueueHasOne
      <4> QED
        BY <3>1, <3>2, <4>1, TakingLeavesOne DEF Exclusive
    <3>7. ClientsExclude' /\ DeviceHasOne'
      BY <3>2, <3>3, <3>4 DEF Exclusive, ClientsExclude, DeviceHasOne
    <3>8. RepliedIsOwn'
      <4>1. IsReply(i) => Len(device) = 0 /\ queue[i].id = req[c].id
        BY <3>1, <3>3 DEF Exclusive, QueueHasOne
      <4>2. \A d \in Clients : d # c => ~Replied(d)'
        BY <3>2, <3>3, <3>4 DEF Exclusive, ClientsExclude, Replied
      <4> QED
        BY <3>2, <3>4, <3>5, <4>1, <4>2 DEF RepliedIsOwn
    <3> QED
      BY <3>2, <3>6, <3>7, <3>8 DEF Exclusive, RepliesMatch
  <2>4. ASSUME NEW c \in Clients, Succeeds(c)
        PROVE  Exclusive'
    <3>1. /\ pc[c] = "check" /\ Accepts(c) /\ Returns(c) /\ UNCHANGED <<queue, device>>
          /\ accepted' = accepted \cup {[client |-> c, req |-> req[c], reply |-> reply[c]]}
      BY <2>4 DEF Succeeds
    <3>2. mutex = c
      BY <3>1 DEF Exclusive, ClientsExclude
    <3>3. c \in Locked
      BY <3>2, <2>0 DEF Typed, TypeOK
    <3>4. Replied(c) /\ Len(device) = 0 /\ reply[c].id = req[c].id
      BY <3>1, <3>3 DEF Accepts, Exclusive, RepliedIsOwn, Replied
    <3>5. \A i \in 1..Len(queue) : ~IsReply(i)
      BY <3>2, <3>4 DEF Exclusive, QueueHasOne
    <3>6. RepliesMatch'
      BY <3>1, <3>4 DEF Exclusive, RepliesMatch
    <3> QED
      BY <3>1, <3>4, <3>5, <3>6, ReturnsExclusive
  <2>5. ASSUME NEW c \in Clients, Mismatches(c)
        PROVE  Exclusive'
    <3>1. pc[c] = "check" /\ UNCHANGED <<queue, device, accepted>>
      BY <2>5 DEF Mismatches
    <3>2. CASE GivesUp(c)
      BY <2>0, <3>1, <3>2, GivingUpExclusive
    <3>3. CASE ~GivesUp(c)
      <4>1. pc' = [pc EXCEPT ![c] = "wait"] /\ UNCHANGED <<mutex, req, reply>>
        BY <2>5, <3>3 DEF Mismatches
      <4>2. \A d \in Clients : (pc'[d] = "idle" <=> pc[d] = "idle") /\ (Replied(d)' => Replied(d))
        BY <2>0, <3>1, <4>1 DEF Typed, TypeOK, Replied
      <4>3. ClientsExclude' /\ DeviceHasOne' /\ RepliedIsOwn'
        BY <3>1, <4>1, <4>2 DEF Exclusive, ClientsExclude, DeviceHasOne, RepliedIsOwn
      <4>4. QueueHasOne'
        BY <3>1, <4>1, <4>2 DEF Exclusive, QueueHasOne, IsReply
      <4> QED
        BY <3>1, <4>3, <4>4 DEF Exclusive, RepliesMatch
    <3> QED
      BY <3>2, <3>3
  <2>6. ASSUME NEW c \in Clients, TimesOut(c)
        PROVE  Exclusive'
    <3>1. pc[c] = "blocked" /\ UNCHANGED <<queue, device, accepted>>
      BY <2>6 DEF TimesOut
    <3>2. CASE GivesUp(c)
      BY <2>0, <3>1, <3>2, GivingUpExclusive
    <3>3. CASE ~GivesUp(c)
      <4>1. /\ reply' = [reply EXCEPT ![c] = NoDatagram]
            /\ pc' = [pc EXCEPT ![c] = "check"] /\ UNCHANGED <<mutex, req>>
        BY <2>6, <3>3 DEF TimesOut
      <4>2. NoDatagram.kind \notin {"answer", "error"}
        BY DEF NoDatagram
      <4>3. \A d \in Clients : /\ pc'[d] = "idle" <=> pc[d] = "idle"
                               /\ Replied(d)' => Replied(d) /\ reply'[d] = reply[d]
        BY <2>0, <3>1, <4>1, <4>2 DEF Typed, TypeOK, Replied
      <4>4. ClientsExclude' /\ DeviceHasOne' /\ RepliedIsOwn'
        BY <3>1, <4>1, <4>3 DEF Exclusive, ClientsExclude, DeviceHasOne, RepliedIsOwn
      <4>5. QueueHasOne'
        BY <3>1, <4>1, <4>3 DEF Exclusive, QueueHasOne, IsReply
      <4> QED
        BY <3>1, <4>4, <4>5 DEF Exclusive, RepliesMatch
    <3> QED
      BY <3>2, <3>3
  <2>7. ASSUME NEW c \in Clients, NEW k \in Keys, Sends(c, k)
        PROVE  Exclusive'
    <3> DEFINE r == [key |-> k, id |-> requests + 1]
    <3>1. c \in Locked /\ mutex = NoMutex /\ mutex' = c
      BY <2>7 DEF Sends, Guarded, Clients
    <3>2. /\ req' = [req EXCEPT ![c] = r] /\ device' = Append(device, r)
          /\ pc' = [pc EXCEPT ![c] = "wait"] /\ UNCHANGED <<queue, reply, accepted>>
      BY <2>7 DEF Sends
    <3> HIDE DEF r
    <3>3. Len(device) = 0
      <4>1. \A i \in 1..Len(device) : FALSE
        BY <2>0, <3>1 DEF Exclusive, DeviceHasOne
      <4> QED
        BY <4>1 DEF Typed, TypeOK
    <3>4. Len(device') = 1 /\ device'[1] = r
      BY <3>2, <3>3 DEF Typed, TypeOK
    <3>5. \A i \in 1..Len(queue) : ~IsReply(i)
      BY <2>0, <3>1 DEF Exclusive, QueueHasOne
    <3>6. \A d \in Clients : pc[d] = "idle"
      BY <2>0, <3>1 DEF Exclusive, ClientsExclude
    <3>7. pc'[c] = "wait" /\ req'[c] = r /\ \A d \in Clients : d # c => pc'[d] = "idle"
      BY <2>0, <3>2, <3>6 DEF Typed, TypeOK
    <3>8. ClientsExclude' /\ DeviceHasOne' /\ RepliedIsOwn'
      BY <3>1, <3>4, <3>7 DEF ClientsExclude, DeviceHasOne, RepliedIsOwn, Replied
    <3>9. QueueHasOne'
      <4>1. \A i \in 1..Len(queue') : ~IsReply(i)'
        BY <3>2, <3>5 DEF IsReply
      <4> QED
        BY <4>1 DEF QueueHasOne
    <3> QED
      BY <3>2, <3>8, <3>9 DEF Exclusive, RepliesMatch
  <2>8. ASSUME ScannerBegins
        PROVE  Exclusive'
    BY <2>0, <2>8, <2>16 DEF ScannerBegins, Typed, TypeOK
  <2>9. ASSUME ScannerTakes
        PROVE  Exclusive'
    <3> DEFINE i == FirstMatch("scanner")
    <3>1. i \in 1..Len(queue)
      BY <2>9, FirstMatchMatches DEF ScannerTakes, Typed, TypeOK, Threads
    <3>2. queue' = Without(i) /\ UNCHANGED <<mutex, req, reply, device, accepted>>
      BY <2>9 DEF ScannerTakes
    <3>3. \A d \in Clients : pc'[d] = pc[d]
      BY <2>9, <2>0 DEF ScannerTakes, Typed, TypeOK
    <3> HIDE DEF i
    <3>4. QueueHasOne'
      <4>1. ASSUME NEW k \in 1..Len(queue), IsReply(k), k # i
            PROVE  pc'[mutex] # "idle" /\ ~Replied(mutex)'
        BY <3>2, <3>3, <4>1 DEF Exclusive, QueueHasOne, Replied
      <4> QED
        BY <3>1, <3>2, <4>1, TakingLeavesOne DEF Exclusive
    <3> QED
      BY <3>2, <3>3, <3>4 DEF Exclusive, ClientsExclude, DeviceHasOne, RepliedIsOwn, RepliesMatch, Replied
  <2>10. ASSUME ScannerTimesOut
        PROVE  Exclusive'
    BY <2>0, <2>10, <2>16 DEF ScannerTimesOut, Typed, TypeOK
  <2>11. ASSUME Answers
        PROVE  Exclusive'
    <3>1. PICK d \in {[kind |-> "answer", key |-> Head(device).key, id |-> Head(device).id],
                      [kind |-> "error", key |-> NoKey, id |-> Head(device).id]} : Push(d)
      BY <2>11 DEF Answers
    <3>2. /\ Len(device) \in Nat /\ 1 \in 1..Len(device) /\ Head(device) = device[1]
          /\ device' = Tail(device) /\ UNCHANGED <<mutex, req, reply, accepted>>
      BY <2>11 DEF Answers, Typed, TypeOK
    <3>3. /\ mutex \in Clients /\ pc[mutex] # "idle" /\ Head(device).id = req[mutex].id
      BY <3>2 DEF Exclusive, DeviceHasOne
    <3>4. Len(device) = 1
      <4>1. Len(device) \in 1..Len(device)
        BY <3>2
      <4> QED
        BY <4>1 DEF Exclusive, DeviceHasOne
    <3>5. Len(device') = 0
      BY <3>2, <3>4 DEF Typed, TypeOK
    <3>6. ~Replied(mutex)
      BY <3>3, <3>4 DEF Exclusive, RepliedIsOwn
    <3>7. \A i \in 1..Len(queue) : ~IsReply(i)
      BY <3>4 DEF Exclusive, QueueHasOne
    <3>8. queue' = Append(queue, d) /\ pc' = NotifyAll
      BY <3>1 DEF Push
    <3>9. \A t \in Clients : (pc'[t] = "idle" <=> pc[t] = "idle") /\ (pc'[t] = "check" <=> pc[t] = "check")
      BY <2>0, <3>8, NotifyAllWakes DEF Typed
    <3>10. /\ Len(queue') = Len(queue) + 1 /\ queue'[Len(queue) + 1] = d
           /\ \A i \in 1..Len(queue) : queue'[i] = queue[i]
      BY <3>8 DEF Typed, TypeOK
    <3>11. \A i \in 1..Len(queue') : IsReply(i)' => i = Len(queue) + 1
      <4>1. Len(queue) \in Nat
        BY DEF Typed, TypeOK
      <4>2. \A i \in 1..Len(queue') : i \in 1..Len(queue) \/ i = Len(queue) + 1
        BY <3>10, <4>1
      <4> QED
        BY <3>7, <3>10, <4>2 DEF IsReply
    <3>12. d.id = req[mutex].id
      BY <3>1, <3>3
    <3>13. QueueHasOne'
      BY <3>2, <3>3, <3>5, <3>6, <3>9, <3>10, <3>11, <3>12 DEF QueueHasOne, Replied
    <3>14. ClientsExclude' /\ DeviceHasOne' /\ RepliedIsOwn'
      BY <3>2, <3>5, <3>9 DEF Exclusive, ClientsExclude, DeviceHasOne, RepliedIsOwn, Replied
    <3> QED
      BY <3>2, <3>13, <3>14 DEF Exclusive, RepliesMatch
  <2>12. ASSUME Ignores
        PROVE  Exclusive'
    <3>1. /\ Len(device) \in Nat /\ 1 \in 1..Len(device)
          /\ device' = Tail(device) /\ UNCHANGED <<queue, pc, mutex, req, reply, accepted>>
      BY <2>12 DEF Ignores, Typed, TypeOK
    <3>2. Len(device) = 1
      <4>1. Len(device) \in 1..Len(device)
        BY <3>1
      <4> QED
        BY <4>1 DEF Exclusive, DeviceHasOne
    <3>3. Len(device') = 0
      BY <3>1, <3>2 DEF Typed, TypeOK
    <3> QED
      BY <3>1, <3>3 DEF Exclusive, ClientsExclude, DeviceHasOne, QueueHasOne, RepliedIsOwn, RepliesMatch, IsReply, Replied
  <2>13. ASSUME NEW k \in ScanKeys, SendsData(k)
        PROVE  Exclusive'
    <3>1. /\ \E n \in {0, received + 1} : queue' = Append(queue, [kind |-> "data", key |-> k, id |-> n])
          /\ pc' = NotifyAll /\ UNCHANGED <<mutex, req, reply, device, accepted>>
      BY <2>13 DEF SendsData, Push
    <3>2. PICK d \in {[kind |-> "data", key |-> k, id |-> n] : n \in {0, received + 1}} : queue' = Append(queue, d)
      BY <3>1
    <3>3. \A t \in Clients : (pc'[t] = "idle" <=> pc[t] = "idle") /\ (pc'[t] = "check" <=> pc[t] = "check")
      BY <2>0, <3>1, NotifyAllWakes DEF Typed
    <3>4. /\ Len(queue') = Len(queue) + 1 /\ queue'[Len(queue) + 1] = d /\ d.kind = "data"
          /\ \A i \in 1..Len(queue) : queue'[i] = queue[i]
      BY <3>2 DEF Typed, TypeOK
    <3>5. \A i \in 1..Len(queue') : IsReply(i)' => IsReply(i)
      <4>1. \A i \in 1..Len(queue') : i \in 1..Len(queue) \/ i = Len(queue) + 1
        BY <3>4 DEF Typed, TypeOK
      <4> QED
        BY <3>4, <4>1 DEF IsReply
    <3>6. QueueHasOne'
      BY <3>1, <3>3, <3>4, <3>5 DEF Exclusive, QueueHasOne, IsReply, Replied
    <3> QED
      BY <3>1, <3>3, <3>6 DEF Exclusive, ClientsExclude, DeviceHasOne, RepliedIsOwn, RepliesMatch, Replied
  <2>14. CASE UNCHANGED vars
    BY <2>14, <2>16 DEF vars
  <2> QED
    BY <2>1, <2>2, <2>3, <2>4, <2>5, <2>6, <2>7, <2>8, <2>9, <2>10, <2>11, <2>12, <2>13,
       <2>14 DEF Next, Steps, Client, Scanner, Threads
<1> QED
  BY <1>1, <1>3, TypedInvariant, PTL DEF Spec

\* A command gets the reply to itself, or fails, whatever is lost, refused or read by
\* the scanner thread and whichever scan data it draws: as long as no command was given
\* up before its answer came and the API, which sends without sopasSendMutex, is not used.
THEOREM CommandsGetTheirReplies == Spec => []ReplyToTheCommand
<1>1. (Guarded => Exclusive) => ReplyToTheCommand
  BY DEF Guarded, Exclusive, ReplyToTheCommand
<1> QED
  BY <1>1, ExclusiveInvariant, PTL
=============================================================================
