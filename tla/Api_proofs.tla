---------------------------- MODULE Api_proofs ----------------------------
(***************************************************************************)
(* Proofs about the API: ApiListeners for every set of clients, callbacks  *)
(* and kinds of messages, and LaserSession, the life of the driver that    *)
(* SickScanApiInitByCli starts and SickScanApiClose ends.                  *)
(***************************************************************************)
EXTENDS ApiListeners, LaserSession, TLAPS

\* The types, with what a call is about while it lasts.
Typed ==
    /\ TypeOK
    /\ \A c \in Clients : pc[c] \notin {"idle", "release"} => kind[c] \in Kinds
    /\ \A c \in Clients : pc[c] = "register" => arg[c] \in Callbacks
    /\ pub # "idle" => topic \in Kinds

LEMMA InitTyped == Init => Typed
  BY ApiAssumption DEF Init, Typed, TypeOK, Empty, Internal, ClientPc

LEMMA TypedInvariant == Spec => []Typed
<1>1. Typed /\ [Next]_vars => Typed'
  <2> SUFFICES ASSUME Typed, [Next]_vars
               PROVE  Typed'
    OBVIOUS
  <2> USE ApiAssumption
  <2>1. ASSUME NEW c \in Clients, RegisterInternal(c)
        PROVE  Typed'
    <3>1. kind[c] \in Kinds /\ arg[c] \in Callbacks
      BY <2>1 DEF RegisterInternal, Returns, Typed
    <3>2. settled' \in [Kinds -> SUBSET Callbacks]
      BY <2>1, <3>1 DEF RegisterInternal, Typed, TypeOK
    <3>3. internal' \in [Kinds -> [Internal -> Nat]]
      BY <2>1, <3>1 DEF RegisterInternal, Added, Typed, TypeOK, Internal
    <3>4. UNCHANGED <<listeners, handlers, message, publisher, due>> /\ fresh' \subseteq Clients
      BY <2>1 DEF RegisterInternal, Typed, TypeOK
    <3>5. /\ pc' = [pc EXCEPT ![c] = "idle"]
          /\ kind' = [kind EXCEPT ![c] = None] /\ arg' = [arg EXCEPT ![c] = None]
      BY <2>1 DEF RegisterInternal, Returns
    <3>6. TypeOK'
      BY <3>2, <3>3, <3>4, <3>5 DEF publisher, Typed, TypeOK, ClientPc
    <3>7. \A d \in Clients : /\ pc'[d] \notin {"idle", "release"} => kind'[d] \in Kinds
                             /\ pc'[d] = "register" => arg'[d] \in Callbacks
      BY <3>5 DEF Typed, TypeOK
    <3>8. pub' # "idle" => topic' \in Kinds
      BY <3>4 DEF publisher, Typed
    <3> QED
      BY <3>6, <3>7, <3>8 DEF Typed
  <2>2. ASSUME NEW c \in Clients, DeregisterInternal(c)
        PROVE  Typed'
    BY <2>2 DEF DeregisterInternal, Returns, Removed, lists, client, publisher, owed, Typed,
       TypeOK, ClientPc, Internal, Empty
  <2>3. ASSUME NEW c \in Clients, NEW k \in Kinds, ReleaseClears(c, k)
        PROVE  Typed'
    <3>1. /\ listeners' = [listeners EXCEPT ![k] = Empty(Callbacks)]
          /\ UNCHANGED <<internal, handlers, message, publisher, owed, due>>
      BY <2>3 DEF ReleaseClears
    <3>2. \/ pc' = pc /\ UNCHANGED <<kind, arg>>
          \/ /\ pc' = [pc EXCEPT ![c] = "idle"]
             /\ kind' = [kind EXCEPT ![c] = None] /\ arg' = [arg EXCEPT ![c] = None]
      BY <2>3 DEF ReleaseClears, Goes, Returns, Typed, TypeOK
    <3>3. listeners' \in [Kinds -> [Callbacks -> Nat]]
      BY <3>1 DEF Empty, Typed, TypeOK
    <3>4. UNCHANGED <<internal, handlers, message, pub, topic, calls, users, walk, fresh, settled, due>>
      BY <3>1 DEF publisher, owed
    <3>5. CASE UNCHANGED <<pc, kind, arg>>
      BY <3>3, <3>4, <3>5 DEF Typed, TypeOK
    <3>6. CASE /\ pc' = [pc EXCEPT ![c] = "idle"]
               /\ kind' = [kind EXCEPT ![c] = None] /\ arg' = [arg EXCEPT ![c] = None]
      <4>1. TypeOK'
        BY <3>3, <3>4, <3>6 DEF Typed, TypeOK, ClientPc
      <4>2. \A d \in Clients : pc'[d] \notin {"idle", "release"} => kind'[d] \in Kinds
        BY <3>6 DEF Typed, TypeOK
      <4>3. \A d \in Clients : pc'[d] = "register" => arg'[d] \in Callbacks
        BY <3>6 DEF Typed, TypeOK
      <4> QED
        BY <3>4, <4>1, <4>2, <4>3 DEF Typed
    <3> QED
      BY <3>2, <3>5, <3>6
  <2>4. ASSUME NEW c \in Clients, WaitRegisters(c)
        PROVE  Typed'
    BY <2>4, SMTT(30) DEF WaitRegisters, Goes, Added, lists, client, publisher, owed, Typed, TypeOK,
       ClientPc, Internal, Empty
  <2>5. ASSUME NEW c \in Clients, WaitEnlists(c)
        PROVE  Typed'
    BY <2>5 DEF WaitEnlists, Goes, lists, client, publisher, owed, Typed, TypeOK, ClientPc,
       Internal, Empty
  <2>6. ASSUME NEW c \in Clients, WaitBegins(c)
        PROVE  Typed'
    BY <2>6 DEF WaitBegins, Goes, lists, client, publisher, owed, Typed, TypeOK, ClientPc,
       Internal, Empty
  <2>7. ASSUME NEW c \in Clients, WaitEnds(c)
        PROVE  Typed'
    BY <2>7 DEF WaitEnds, Goes, lists, client, publisher, owed, Typed, TypeOK, ClientPc,
       Internal, Empty
  <2>8. ASSUME NEW c \in Clients, WaitDelists(c)
        PROVE  Typed'
    BY <2>8 DEF WaitDelists, Returns, lists, client, publisher, owed, Typed, TypeOK, ClientPc,
       Internal, Empty
  <2>9. ASSUME NEW c \in Clients, NEW k \in Kinds, NEW cb \in Callbacks, Register(c, k, cb)
        PROVE  Typed'
    BY <2>9 DEF Register, Calls, Added, lists, client, publisher, owed, Typed, TypeOK,
       ClientPc, Internal, Empty
  <2>10. ASSUME NEW c \in Clients, NEW k \in Kinds, NEW cb \in Callbacks, Deregister(c, k, cb)
        PROVE  Typed'
    BY <2>10 DEF Deregister, Calls, Removed, Unsettles, lists, client, publisher, owed, Typed,
       TypeOK, ClientPc, Internal, Empty
  <2>11. ASSUME NEW c \in Clients, NEW k \in Kinds, WaitNext(c, k)
        PROVE  Typed'
    BY <2>11 DEF WaitNext, Calls, lists, client, publisher, owed, Typed, TypeOK, ClientPc,
       Internal, Empty
  <2>12. ASSUME NEW c \in Clients, Release(c)
        PROVE  Typed'
    BY <2>12 DEF Release, Calls, Unsettles, lists, client, publisher, owed, Typed, TypeOK,
       ClientPc, Internal, Empty
  <2>13. ASSUME CallExport
        PROVE  Typed'
    BY <2>13 DEF CallExport, PubGoes, lists, client, publisher, owed, Typed, TypeOK, ClientPc,
       Internal, Empty
  <2>14. ASSUME ExportReturns
        PROVE  Typed'
    BY <2>14 DEF ExportReturns, PubGoes, lists, client, publisher, owed, Typed, TypeOK,
       ClientPc, Internal, Empty
  <2>15. ASSUME CallWait
        PROVE  Typed'
    BY <2>15 DEF CallWait, PubGoes, lists, client, publisher, owed, Typed, TypeOK, ClientPc,
       Internal, Empty
  <2>16. ASSUME WalkReturns
        PROVE  Typed'
    BY <2>16 DEF WalkReturns, PubGoes, lists, client, publisher, owed, Typed, TypeOK,
       ClientPc, Internal, Empty
  <2>17. ASSUME Published
        PROVE  Typed'
    BY <2>17 DEF Published, PubGoes, lists, client, publisher, owed, Typed, TypeOK, ClientPc,
       Internal, Empty
  <2>18. ASSUME NEW cb \in Callbacks, CallUser(cb)
        PROVE  Typed'
    BY <2>18 DEF CallUser, PubGoes, lists, client, publisher, owed, Typed, TypeOK, ClientPc,
       Internal, Empty
  <2>19. ASSUME NEW c \in Clients, Deliver(c)
        PROVE  Typed'
    BY <2>19 DEF Deliver, PubGoes, lists, client, publisher, owed, Typed, TypeOK, ClientPc,
       Internal, Empty
  <2>20. ASSUME NEW k \in Kinds, Notify(k)
        PROVE  Typed'
    BY <2>20 DEF Notify, PubGoes, lists, client, publisher, owed, Typed, TypeOK, ClientPc,
       Internal, Empty
  <2>21. CASE UNCHANGED vars
    BY <2>21 DEF vars, lists, client, publisher, owed, Typed, TypeOK
  <2> QED
    BY <2>1, <2>2, <2>3, <2>4, <2>5, <2>6, <2>7, <2>8, <2>9, <2>10, <2>11, <2>12, <2>13,
       <2>14, <2>15, <2>16, <2>17, <2>18, <2>19, <2>20, <2>21, ApiAssumption DEF Next,
       ClientCalls, ClientProceeds, PublisherProceeds
<1> QED
  BY <1>1, InitTyped, PTL DEF Spec

\* Every variable has its type.
THEOREM TypeCorrect == Spec => []TypeOK
<1>1. Typed => TypeOK
  BY DEF Typed
<1> QED
  BY <1>1, TypedInvariant, PTL

-----------------------------------------------------------------------------
(* The wait handlers. *)

\* The static list holds the handlers that exist, and only those.
HandlersListed == \A c \in Clients : c \in handlers <=> HandlerExists(c)

\* The publisher walks over handlers that stay in the list.
WalkListed == pub = "walk" => walk \subseteq handlers

LEMMA HandlersInvariant == Spec => [](HandlersListed /\ WalkListed)
<1> DEFINE Inv == HandlersListed /\ WalkListed
<1>1. Init => Inv
  BY DEF Init, HandlersListed, WalkListed, HandlerExists
<1>2. Typed /\ Inv /\ [Next]_vars => Inv'
  <2> SUFFICES ASSUME Typed, Inv, [Next]_vars
               PROVE  Inv'
    OBVIOUS
  <2> USE DEF lists, client, publisher, owed, Typed, TypeOK, HandlersListed,
          WalkListed, HandlerExists, HandlersLocked
  <2>1. ASSUME NEW c \in Clients, RegisterInternal(c)
        PROVE  Inv'
    BY <2>1 DEF RegisterInternal, Returns, Added
  <2>2. ASSUME NEW c \in Clients, DeregisterInternal(c)
        PROVE  Inv'
    BY <2>2 DEF DeregisterInternal, Returns, Removed
  <2>3. ASSUME NEW c \in Clients, NEW k \in Kinds, ReleaseClears(c, k)
        PROVE  Inv'
    BY <2>3 DEF ReleaseClears, Returns, Goes
  <2>4. ASSUME NEW c \in Clients, WaitRegisters(c)
        PROVE  Inv'
    BY <2>4 DEF WaitRegisters, Goes, Added
  <2>5. ASSUME NEW c \in Clients, WaitEnlists(c)
        PROVE  Inv'
    BY <2>5 DEF WaitEnlists, Goes
  <2>6. ASSUME NEW c \in Clients, WaitBegins(c)
        PROVE  Inv'
    BY <2>6 DEF WaitBegins, Goes
  <2>7. ASSUME NEW c \in Clients, WaitEnds(c)
        PROVE  Inv'
    BY <2>7 DEF WaitEnds, Goes
  <2>8. ASSUME NEW c \in Clients, WaitDelists(c)
        PROVE  Inv'
    BY <2>8 DEF WaitDelists, Returns
  <2>9. ASSUME NEW c \in Clients, NEW k \in Kinds, NEW cb \in Callbacks, Register(c, k, cb)
        PROVE  Inv'
    BY <2>9 DEF Register, Calls, Added
  <2>10. ASSUME NEW c \in Clients, NEW k \in Kinds, NEW cb \in Callbacks, Deregister(c, k, cb)
        PROVE  Inv'
    BY <2>10 DEF Deregister, Calls, Removed, Unsettles
  <2>11. ASSUME NEW c \in Clients, NEW k \in Kinds, WaitNext(c, k)
        PROVE  Inv'
    BY <2>11 DEF WaitNext, Calls
  <2>12. ASSUME NEW c \in Clients, Release(c)
        PROVE  Inv'
    BY <2>12 DEF Release, Calls, Unsettles
  <2>13. ASSUME CallExport
        PROVE  Inv'
    BY <2>13 DEF CallExport, PubGoes
  <2>14. ASSUME ExportReturns
        PROVE  Inv'
    BY <2>14 DEF ExportReturns, PubGoes
  <2>15. ASSUME CallWait
        PROVE  Inv'
    BY <2>15 DEF CallWait, PubGoes
  <2>16. ASSUME WalkReturns
        PROVE  Inv'
    BY <2>16 DEF WalkReturns, PubGoes
  <2>17. ASSUME Published
        PROVE  Inv'
    BY <2>17 DEF Published, PubGoes
  <2>18. ASSUME NEW cb \in Callbacks, CallUser(cb)
        PROVE  Inv'
    BY <2>18 DEF CallUser, PubGoes
  <2>19. ASSUME NEW c \in Clients, Deliver(c)
        PROVE  Inv'
    BY <2>19 DEF Deliver, PubGoes
  <2>20. ASSUME NEW k \in Kinds, Notify(k)
        PROVE  Inv'
    BY <2>20 DEF Notify, PubGoes
  <2>21. CASE UNCHANGED vars
    BY <2>21 DEF vars
  <2> QED
    BY <2>1, <2>2, <2>3, <2>4, <2>5, <2>6, <2>7, <2>8, <2>9, <2>10, <2>11, <2>12, <2>13,
       <2>14, <2>15, <2>16, <2>17, <2>18, <2>19, <2>20, <2>21, ApiAssumption DEF Next,
       ClientCalls, ClientProceeds, PublisherProceeds
<1> QED
  BY <1>1, <1>2, TypedInvariant, PTL DEF Spec

\* The publisher never writes into a handler that its client has destroyed.
THEOREM HandlersAreSafe == Spec => []NoDestroyedHandler
<1>1. Typed /\ HandlersListed /\ WalkListed => NoDestroyedHandler
  BY DEF Typed, TypeOK, HandlersListed, WalkListed, NoDestroyedHandler
<1> QED
  BY <1>1, TypedInvariant, HandlersInvariant, PTL

-----------------------------------------------------------------------------
(* Who is owed a message. *)

\* A settled callback is in the list of the API and heard of by the driver, and
\* nobody is removing it.
SettledListed ==
    \A k \in Kinds : \A cb \in settled[k] :
        /\ listeners[k][cb] > 0 /\ internal[k]["export"] > 0
        /\ \A d \in Clients : ~Against(d, k, cb)

\* The same of a callback that is being registered, up to the second list.
FreshListed ==
    \A c \in fresh :
        /\ pc[c] = "register" /\ listeners[kind[c]][arg[c]] > 0
        /\ \A d \in Clients : ~Against(d, kind[c], arg[c])

\* Nobody removes the callback of the wait handlers.
WaitersHeard ==
    \A c \in Clients : pc[c] \in {"enlist", "enlisted", "waiting"} => internal[kind[c]]["wait"] > 0

LEMMA RegistrationInvariant ==
    ASSUME Alone
    PROVE  Spec => [](SettledListed /\ FreshListed /\ WaitersHeard)
<1> DEFINE Inv == SettledListed /\ FreshListed /\ WaitersHeard
<1>1. Init => Inv
  BY DEF Init, SettledListed, FreshListed, WaitersHeard
<1>2. Typed /\ Inv /\ [Next]_vars => Inv'
  <2> SUFFICES ASSUME Typed, Inv, [Next]_vars
               PROVE  Inv'
    OBVIOUS
  <2> USE DEF lists, client, publisher, owed, Typed, TypeOK, Internal, Empty,
          SettledListed, FreshListed, WaitersHeard, Against
  <2>1. ASSUME NEW c \in Clients, RegisterInternal(c)
        PROVE  Inv'
    BY <2>1 DEF RegisterInternal, Returns, Added
  <2>2. ASSUME NEW c \in Clients, DeregisterInternal(c)
        PROVE  Inv'
    BY <2>2 DEF DeregisterInternal, Returns, Removed
  <2>3. ASSUME NEW c \in Clients, NEW k \in Kinds, ReleaseClears(c, k)
        PROVE  Inv'
    BY <2>3 DEF ReleaseClears, Returns, Goes
  <2>4. ASSUME NEW c \in Clients, WaitRegisters(c)
        PROVE  Inv'
    BY <2>4 DEF WaitRegisters, Goes, Added
  <2>5. ASSUME NEW c \in Clients, WaitEnlists(c)
        PROVE  Inv'
    BY <2>5 DEF WaitEnlists, Goes
  <2>6. ASSUME NEW c \in Clients, WaitBegins(c)
        PROVE  Inv'
    BY <2>6 DEF WaitBegins, Goes
  <2>7. ASSUME NEW c \in Clients, WaitEnds(c)
        PROVE  Inv'
    BY <2>7 DEF WaitEnds, Goes
  <2>8. ASSUME NEW c \in Clients, WaitDelists(c)
        PROVE  Inv'
    BY <2>8 DEF WaitDelists, Returns
  <2>9. ASSUME NEW c \in Clients, NEW k \in Kinds, NEW cb \in Callbacks, Register(c, k, cb)
        PROVE  Inv'
    BY <2>9 DEF Register, Calls, Added
  <2>10. ASSUME NEW c \in Clients, NEW k \in Kinds, NEW cb \in Callbacks, Deregister(c, k, cb)
        PROVE  Inv'
    BY <2>10 DEF Deregister, Calls, Removed, Unsettles
  <2>11. ASSUME NEW c \in Clients, NEW k \in Kinds, WaitNext(c, k)
        PROVE  Inv'
    BY <2>11 DEF WaitNext, Calls
  <2>12. ASSUME NEW c \in Clients, Release(c)
        PROVE  Inv'
    BY <2>12 DEF Release, Calls, Unsettles
  <2>13. ASSUME CallExport
        PROVE  Inv'
    BY <2>13 DEF CallExport, PubGoes
  <2>14. ASSUME ExportReturns
        PROVE  Inv'
    BY <2>14 DEF ExportReturns, PubGoes
  <2>15. ASSUME CallWait
        PROVE  Inv'
    BY <2>15 DEF CallWait, PubGoes
  <2>16. ASSUME WalkReturns
        PROVE  Inv'
    BY <2>16 DEF WalkReturns, PubGoes
  <2>17. ASSUME Published
        PROVE  Inv'
    BY <2>17 DEF Published, PubGoes
  <2>18. ASSUME NEW cb \in Callbacks, CallUser(cb)
        PROVE  Inv'
    BY <2>18 DEF CallUser, PubGoes
  <2>19. ASSUME NEW c \in Clients, Deliver(c)
        PROVE  Inv'
    BY <2>19 DEF Deliver, PubGoes
  <2>20. ASSUME NEW k \in Kinds, Notify(k)
        PROVE  Inv'
    BY <2>20 DEF Notify, PubGoes
  <2>21. CASE UNCHANGED vars
    BY <2>21 DEF vars
  <2> QED
    BY <2>1, <2>2, <2>3, <2>4, <2>5, <2>6, <2>7, <2>8, <2>9, <2>10, <2>11, <2>12, <2>13,
       <2>14, <2>15, <2>16, <2>17, <2>18, <2>19, <2>20, <2>21, ApiAssumption DEF Next,
       ClientCalls, ClientProceeds, PublisherProceeds
<1> QED
  BY <1>1, <1>2, TypedInvariant, PTL DEF Spec

\* A callback that is owed the message is still to be called.
CallbacksLeft ==
    \A cb \in due \cap Callbacks :
        /\ pub # "idle" /\ cb \in settled[topic]
        /\ IF pub = "users" THEN users[cb] > 0 ELSE calls["export"] > 0

\* A client that is owed the message has it or will be walked over.
WaitersLeft ==
    \A c \in due \cap Clients :
        /\ pub # "idle" /\ pc[c] = "waiting"
        /\ message[c] # None \/ IF pub = "walk" THEN c \in walk ELSE calls["wait"] > 0

LEMMA DebtsInvariant ==
    ASSUME Alone
    PROVE  Spec => [](CallbacksLeft /\ WaitersLeft)
<1> DEFINE Regs == SettledListed /\ FreshListed /\ WaitersHeard
           Inv == CallbacksLeft /\ WaitersLeft
<1>1. Init => Inv
  BY DEF Init, CallbacksLeft, WaitersLeft
<1>2. Typed /\ HandlersListed /\ Regs /\ Inv /\ [Next]_vars => Inv'
  <2> SUFFICES ASSUME Typed, HandlersListed, Regs, Inv, [Next]_vars
               PROVE  Inv'
    OBVIOUS
  <2> USE DEF lists, client, publisher, owed, Typed, TypeOK, Internal, Empty,
          CallbacksLeft, WaitersLeft
  <2>1. ASSUME NEW c \in Clients, RegisterInternal(c)
        PROVE  Inv'
    BY <2>1 DEF RegisterInternal, Returns, Added
  <2>2. ASSUME NEW c \in Clients, DeregisterInternal(c)
        PROVE  Inv'
    BY <2>2 DEF DeregisterInternal, Returns, Removed
  <2>3. ASSUME NEW c \in Clients, NEW k \in Kinds, ReleaseClears(c, k)
        PROVE  Inv'
    BY <2>3 DEF ReleaseClears, Returns, Goes
  <2>4. ASSUME NEW c \in Clients, WaitRegisters(c)
        PROVE  Inv'
    BY <2>4 DEF WaitRegisters, Goes, Added
  <2>5. ASSUME NEW c \in Clients, WaitEnlists(c)
        PROVE  Inv'
    BY <2>5 DEF WaitEnlists, Goes
  <2>6. ASSUME NEW c \in Clients, WaitBegins(c)
        PROVE  Inv'
    BY <2>6 DEF WaitBegins, Goes
  <2>7. ASSUME NEW c \in Clients, WaitEnds(c)
        PROVE  Inv'
    BY <2>7 DEF WaitEnds, Goes
  <2>8. ASSUME NEW c \in Clients, WaitDelists(c)
        PROVE  Inv'
    BY <2>8 DEF WaitDelists, Returns
  <2>9. ASSUME NEW c \in Clients, NEW k \in Kinds, NEW cb \in Callbacks, Register(c, k, cb)
        PROVE  Inv'
    BY <2>9 DEF Register, Calls, Added
  <2>10. ASSUME NEW c \in Clients, NEW k \in Kinds, NEW cb \in Callbacks, Deregister(c, k, cb)
        PROVE  Inv'
    BY <2>10 DEF Deregister, Calls, Removed, Unsettles
  <2>11. ASSUME NEW c \in Clients, NEW k \in Kinds, WaitNext(c, k)
        PROVE  Inv'
    BY <2>11 DEF WaitNext, Calls
  <2>12. ASSUME NEW c \in Clients, Release(c)
        PROVE  Inv'
    BY <2>12 DEF Release, Calls, Unsettles
  <2>13. ASSUME CallExport
        PROVE  Inv'
    BY <2>13 DEF CallExport, PubGoes, SettledListed, WaitersHeard
  <2>14. ASSUME ExportReturns
        PROVE  Inv'
    BY <2>14 DEF ExportReturns, PubGoes
  <2>15. ASSUME CallWait
        PROVE  Inv'
    BY <2>15 DEF CallWait, PubGoes, HandlersListed, HandlerExists
  <2>16. ASSUME WalkReturns
        PROVE  Inv'
    BY <2>16 DEF WalkReturns, PubGoes
  <2>17. ASSUME Published
        PROVE  Inv'
    BY <2>17 DEF Published, PubGoes
  <2>18. ASSUME NEW cb \in Callbacks, CallUser(cb)
        PROVE  Inv'
    BY <2>18 DEF CallUser, PubGoes
  <2>19. ASSUME NEW c \in Clients, Deliver(c)
        PROVE  Inv'
    BY <2>19, ApiAssumption DEF Deliver, PubGoes
  <2>20. ASSUME NEW k \in Kinds, Notify(k)
        PROVE  Inv'
    BY <2>20, ApiAssumption DEF Notify, PubGoes, SettledListed, WaitersHeard
  <2>21. CASE UNCHANGED vars
    BY <2>21 DEF vars
  <2> QED
    BY <2>1, <2>2, <2>3, <2>4, <2>5, <2>6, <2>7, <2>8, <2>9, <2>10, <2>11, <2>12, <2>13,
       <2>14, <2>15, <2>16, <2>17, <2>18, <2>19, <2>20, <2>21, ApiAssumption DEF Next,
       ClientCalls, ClientProceeds, PublisherProceeds
<1> QED
  BY <1>1, <1>2, TypedInvariant, HandlersInvariant, RegistrationInvariant, PTL DEF Spec

\* If callbacks are not deregistered next to each other, no client misses a
\* message that it is owed, whatever registers, waits and times out meanwhile.
THEOREM NobodyIsMissed ==
    ASSUME Alone
    PROVE  Spec => []NobodyMissed
<1>1. Typed /\ CallbacksLeft /\ WaitersLeft => NobodyMissed
  BY DEF Typed, TypeOK, CallbacksLeft, WaitersLeft, NobodyMissed, Empty, Internal
<1> QED
  BY <1>1, TypedInvariant, DebtsInvariant, PTL

-----------------------------------------------------------------------------
(***************************************************************************)
(* The life of the driver under the API, for any number of laser threads,  *)
(* one after the other, and both ways to stop them.                        *)
(***************************************************************************)

\* What the thread that stops the driver may rely on: a laser thread that has
\* ended has deleted the scanner, and it has reported its end before.
EndIsReported ==
    /\ laser = "destroy" => status = "EXIT"
    /\ laser = "none" => ~scanner /\ (sessions > 0 => status = "EXIT")
    /\ program = "stopped" => laser = "none" /\ ~laserThread

\* The bound of the model was tested before the start.
StartsWithinBound == program = "start" => sessions < MaxSessions

SessionIInv == SessionTypeOK /\ EndIsReported /\ StartsWithinBound

LEMMA InitSession ==
    ASSUME SessionInit
    PROVE  SessionIInv
<1>1. SessionTypeOK
  <2>1. sessions \in 0..MaxSessions
    BY SessionAssumption DEF SessionInit
  <2> QED
    BY <2>1 DEF SessionInit, SessionTypeOK
<1>2. EndIsReported
  BY DEF SessionInit, EndIsReported
<1> QED
  BY <1>1, <1>2 DEF SessionIInv, SessionInit, StartsWithinBound

\* No step of the laser thread deletes or reports anything after its end.
LEMMA LaserThreadSession ==
    ASSUME SessionIInv, LaserThread
    PROVE  SessionIInv'
<1> USE DEF SessionIInv, SessionTypeOK, EndIsReported, StartsWithinBound, LaserGoes,
        launch, programs, lasers, shared
<1>0. UNCHANGED <<changeIP, monitoring, program, stop, sessions>>
  BY DEF LaserThread
<1>1. CASE TestsRun
  BY <1>0, <1>1 DEF TestsRun
<1>2. CASE BeginsInit
  BY <1>0, <1>2 DEF BeginsInit
<1>3. CASE DeletesOld
  BY <1>0, <1>3 DEF DeletesOld
<1>4. CASE MakesScanner
  BY <1>0, <1>4 DEF MakesScanner
<1>5. CASE Initialises
  BY <1>0, <1>5 DEF Initialises
<1>6. CASE SetsInitialized
  BY <1>0, <1>6 DEF SetsInitialized
<1>7. CASE SetsRun
  BY <1>0, <1>7 DEF SetsRun
<1>8. CASE SetsStatus
  BY <1>0, <1>8 DEF SetsStatus
<1>9. CASE LoopsOnce
  BY <1>0, <1>9 DEF LoopsOnce
<1>10. CASE Reinitialises
  BY <1>0, <1>10 DEF Reinitialises
<1>11. CASE Reports
  BY <1>0, <1>11 DEF Reports
<1>12. CASE Interrupts
  BY <1>0, <1>12 DEF Interrupts
<1>13. CASE Leaves
  BY <1>0, <1>13 DEF Leaves
<1>14. CASE Ends
  BY <1>0, <1>14 DEF Ends
<1> QED
  BY <1>1, <1>2, <1>3, <1>4, <1>5, <1>6, <1>7, <1>8, <1>9, <1>10, <1>11, <1>12, <1>13, <1>14
     DEF LaserThread

\* Whatever the laser thread does meanwhile, a stop returns after its end.
LEMMA ProgramSession ==
    ASSUME SessionIInv,
           BeginsStart \/ StartGenericLaser \/ BeginsStop \/ Stopping
    PROVE  SessionIInv'
<1> USE SessionAssumption DEF SessionIInv, SessionTypeOK, EndIsReported, StartsWithinBound,
        Free, launch, programs, lasers, shared
<1>1. CASE BeginsStart
  BY <1>1 DEF BeginsStart
<1>2. CASE StartGenericLaser
  <2>1. CASE laserThread
    BY <1>2, <2>1 DEF StartGenericLaser
  <2>2. CASE ~laserThread
    <3>1. sessions' \in 0..MaxSessions /\ sessions' > 0
      BY <1>2, <2>2 DEF StartGenericLaser
    <3>2. /\ laser' = "head" /\ laserThread' /\ program' = "started" /\ stop' = stop
          /\ status' = "INIT" /\ runState' = "init"
          /\ {changeIP', monitoring', laserThread', exitCode', scanner', isInitialized',
              shutdownSignalReceived'} \subseteq BOOLEAN
      BY <1>2, <2>2 DEF StartGenericLaser
    <3> QED
      BY <3>1, <3>2
  <2> QED
    BY <2>1, <2>2
<1>3. CASE BeginsStop
  BY <1>3 DEF BeginsStop
<1>4. CASE TestsScanner
  BY <1>4 DEF TestsScanner
<1>5. CASE Finalizes
  BY <1>5 DEF Finalizes
<1>6. CASE SetsExit
  BY <1>6 DEF SetsExit
<1>7. CASE joinGenericLaser
  BY <1>7 DEF joinGenericLaser
<1> QED
  BY <1>1, <1>2, <1>3, <1>4, <1>5, <1>6, <1>7 DEF Stopping

LEMMA SessionInvariant == SessionSpec => []SessionIInv
<1>1. SessionIInv /\ [SessionNext]_sessionVars => SessionIInv'
  <2> SUFFICES ASSUME SessionIInv, [SessionNext]_sessionVars
               PROVE  SessionIInv'
    OBVIOUS
  <2>1. CASE UNCHANGED sessionVars
    BY <2>1 DEF sessionVars, launch, lasers, shared, programs, SessionIInv, SessionTypeOK,
       EndIsReported, StartsWithinBound
  <2> QED
    BY <2>1, LaserThreadSession, ProgramSession DEF SessionNext
<1> QED
  BY <1>1, InitSession, PTL DEF SessionSpec

-----------------------------------------------------------------------------

\* The globals keep their types, and a laser thread that runs can be joined.
THEOREM SessionTypeCorrect == SessionSpec => []SessionTypeOK
<1>1. SessionIInv => SessionTypeOK
  BY DEF SessionIInv
<1> QED
  BY <1>1, SessionInvariant, PTL

\* stopScannerAndExit: when it returns nothing of the driver is left, whatever
\* the laser thread was doing when it was called.
THEOREM StopEndsEverything == SessionSpec => []StoppedMeansEnded
<1>1. SessionIInv => StoppedMeansEnded
  BY DEF SessionIInv, EndIsReported, StoppedMeansEnded
<1> QED
  BY <1>1, SessionInvariant, PTL
=============================================================================
