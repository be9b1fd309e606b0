---------------------------- MODULE ApiListeners ----------------------------
(***************************************************************************)
(* How the C API hands messages to its clients: the callbacks registered   *)
(* by SickScanApiRegister...Msg and the calls of SickScanApiWaitNext...Msg *)
(* (driver/src/sick_scan_xd_api/api_impl.cpp) on the listener lists and    *)
(* the wait handlers of sick_generic_callback.h.                           *)
(*                                                                         *)
(* A message passes two lists.  The driver notifies its own list for the   *)
(* node, which holds the converting callback of the API ("export") and     *)
(* the callback of the wait handlers ("wait"); "export" notifies the       *)
(* clients' callbacks in the list of the API.  The lists have a mutex      *)
(* each, and are copied before their callbacks are called.                 *)
(*                                                                         *)
(* A list is a bag here: the order of the calls is not distinguished.      *)
(* There is one handle, since a process runs one lidar.                    *)
(***************************************************************************)
EXTENDS Naturals, FiniteSets

CONSTANTS Clients,      \* threads that call the API
          Callbacks,    \* the clients' callback functions
          Kinds,        \* message types whose WaitFor...MessageHandler is one
                        \* class: cartesian and polar pointclouds
          Registered,   \* bound of this model: the kinds callbacks are
                        \* registered for
          None,         \* no message, no kind, no callback
          Alone,        \* whether a callback is owed messages only while no
                        \* other callback of its kind is deregistered
          MaxEntries    \* bound of this model: equal entries of a list

ASSUME ApiAssumption ==
    /\ None \notin Kinds \cup Callbacks \cup Clients /\ Callbacks \cap Clients = {}
    /\ Registered \subseteq Kinds /\ Alone \in BOOLEAN
    /\ MaxEntries \in Nat

Internal == {"export", "wait"}

VARIABLES listeners,   \* s_callback_handler_..._messages of the API
          internal,    \* s_..._callback_handler of the driver
          handlers,    \* s_wait_for_message_handler_list, a handler is named
                       \* by the client on whose stack it lies
          message,     \* m_message of each handler, None unless m_message_valid
          pc, kind, arg,                 \* the call each client is in
          pub,         \* where the thread that publishes is
          topic,       \* the kind of its message
          calls,       \* its copy of the internal list: what is left to call
          users,       \* its copy of the list of the API
          walk,        \* handlers left in messageCallback
          fresh,       \* history: clients in a registration that no removal
                       \* has met
          settled,     \* history: callbacks of each kind that are owed messages
          due          \* history: callbacks and waiting clients that are owed
                       \* the message being published

lists == <<listeners, internal>>
client == <<pc, kind, arg>>
publisher == <<pub, topic, calls, users, walk>>
owed == <<fresh, settled>>
vars == <<lists, handlers, message, client, publisher, owed, due>>

Empty(S) == [e \in S |-> 0]

\* push_back and the loop of erase: all entries that are equal go.
Added(list, k, e) == [list EXCEPT ![k][e] = @ + 1]
Removed(list, k, e) == [list EXCEPT ![k][e] = 0]

Init ==
    /\ listeners = [k \in Kinds |-> Empty(Callbacks)]
    /\ internal = [k \in Kinds |-> Empty(Internal)]
    /\ handlers = {} /\ message = [c \in Clients |-> None]
    /\ pc = [c \in Clients |-> "idle"]
    /\ kind = [c \in Clients |-> None] /\ arg = [c \in Clients |-> None]
    /\ pub = "idle" /\ topic = None
    /\ calls = Empty(Internal) /\ users = Empty(Callbacks) /\ walk = {}
    /\ fresh = {} /\ settled = [k \in Kinds |-> {}] /\ due = {}

\* s_wait_for_message_handler_mutex is held while messageCallback walks.
HandlersLocked == pub = "walk"

Goes(c, from, to) == pc[c] = from /\ pc' = [pc EXCEPT ![c] = to] /\ UNCHANGED <<kind, arg>>
Returns(c, from) ==
    /\ pc[c] = from
    /\ pc' = [pc EXCEPT ![c] = "idle"]
    /\ kind' = [kind EXCEPT ![c] = None]
    /\ arg' = [arg EXCEPT ![c] = None]

Calls(c, to, k, cb) ==
    /\ pc[c] = "idle"
    /\ pc' = [pc EXCEPT ![c] = to]
    /\ kind' = [kind EXCEPT ![c] = k]
    /\ arg' = [arg EXCEPT ![c] = cb]

-----------------------------------------------------------------------------
(* What the history variables record: a callback is settled once its       *)
(* registration has returned, and until a removal begins.  A removal that  *)
(* overlaps the registration keeps it from being settled.                  *)

\* The removals that count against callback cb of kind k.
Against(c, k, cb) ==
    \/ pc[c] = "deregister" /\ kind[c] = k /\ (arg[c] = cb \/ Alone)
    \/ pc[c] = "release"

Unsettles(K, CB) ==
    /\ fresh' = {c \in fresh : ~(kind[c] \in K /\ arg[c] \in CB)}
    /\ settled' = [k \in Kinds |-> IF k \in K THEN settled[k] \ CB ELSE settled[k]]
    /\ due' = IF topic \in K THEN due \ CB ELSE due

-----------------------------------------------------------------------------
(* Registration: two lists, two critical sections. *)

Register(c, k, cb) ==
    /\ listeners[k][cb] < MaxEntries /\ internal[k]["export"] < MaxEntries
    /\ Calls(c, "register", k, cb)
    /\ listeners' = Added(listeners, k, cb)
    /\ fresh' = IF \E d \in Clients : Against(d, k, cb) THEN fresh ELSE fresh \cup {c}
    /\ UNCHANGED <<internal, handlers, message, publisher, settled, due>>

RegisterInternal(c) ==
    /\ Returns(c, "register")
    /\ internal' = Added(internal, kind[c], "export")
    /\ fresh' = fresh \ {c}
    /\ settled' = [settled EXCEPT ![kind[c]] = IF c \in fresh THEN @ \cup {arg[c]} ELSE @]
    /\ UNCHANGED <<listeners, handlers, message, publisher, due>>

\* Whoever deregisters removes every "export" of the kind.
Deregister(c, k, cb) ==
    /\ Calls(c, "deregister", k, cb)
    /\ listeners' = Removed(listeners, k, cb)
    /\ Unsettles({k}, IF Alone THEN Callbacks ELSE {cb})
    /\ UNCHANGED <<internal, handlers, message, publisher>>

DeregisterInternal(c) ==
    /\ Returns(c, "deregister")
    /\ internal' = Removed(internal, kind[c], "export")
    /\ UNCHANGED <<listeners, handlers, message, publisher, owed, due>>

\* SickScanApiRelease clears the lists of the API one after the other, and
\* leaves those of the driver as they are.
Release(c) ==
    /\ Calls(c, "release", None, None)
    /\ Unsettles(Kinds, Callbacks)
    /\ UNCHANGED <<lists, handlers, message, publisher>>

ReleaseClears(c, k) ==
    /\ IF \E l \in Kinds \ {k} : listeners[l] # Empty(Callbacks)
       THEN Goes(c, "release", "release")
       ELSE Returns(c, "release")
    /\ listeners' = [listeners EXCEPT ![k] = Empty(Callbacks)]
    /\ UNCHANGED <<internal, handlers, message, publisher, owed, due>>

-----------------------------------------------------------------------------
(* SickScanApiWaitNext...Msg. *)

\* Fault: any callback of the kind counts as the one of the wait handlers.
WaitNextTestsAny(c, k) ==
    /\ Calls(c, IF internal[k] # Empty(Internal) THEN "enlist" ELSE "addwait", k, None)
    /\ UNCHANGED <<lists, handlers, message, publisher, owed, due>>

\* is...ListenerRegistered, then the call of add...Listener.
WaitNext(c, k) ==
    /\ Calls(c, IF internal[k]["wait"] > 0 THEN "enlist" ELSE "addwait", k, None)
    /\ UNCHANGED <<lists, handlers, message, publisher, owed, due>>

\* Another client may have added the callback in the meantime.
WaitRegisters(c) ==
    /\ Goes(c, "addwait", "enlist")
    /\ internal' = Added(internal, kind[c], "wait")
    /\ UNCHANGED <<listeners, handlers, message, publisher, owed, due>>

\* The handler is constructed on the stack and added to the static list.
WaitEnlists(c) ==
    /\ ~HandlersLocked
    /\ Goes(c, "enlist", "enlisted")
    /\ handlers' = handlers \cup {c}
    /\ UNCHANGED <<lists, message, publisher, owed, due>>

\* waitForNextMessage drops what was received before it is called.
WaitBegins(c) ==
    /\ Goes(c, "enlisted", "waiting")
    /\ message' = [message EXCEPT ![c] = None]
    /\ UNCHANGED <<lists, handlers, publisher, owed, due>>

\* Woken by a message or by the timeout; the answer to the client depends on
\* m_message_valid and on the fields of the pointcloud.
WaitEnds(c) ==
    /\ Goes(c, "waiting", "delist")
    /\ due' = due \ {c}
    /\ UNCHANGED <<lists, handlers, message, publisher, owed>>

\* removeWaitForMessageHandlerHandler, then the handler is destroyed.
\* Fault: the list is changed without its mutex.
WaitDelistsUnlocked(c) ==
    /\ Returns(c, "delist")
    /\ handlers' = handlers \ {c} /\ message' = [message EXCEPT ![c] = None]
    /\ UNCHANGED <<lists, publisher, owed, due>>

WaitDelists(c) ==
    /\ ~HandlersLocked
    /\ Returns(c, "delist")
    /\ handlers' = handlers \ {c} /\ message' = [message EXCEPT ![c] = None]
    /\ UNCHANGED <<lists, publisher, owed, due>>

-----------------------------------------------------------------------------
(* The thread of the scanner publishes a message. *)

PubGoes(from, to) == pub = from /\ pub' = to

\* notifyListener of the driver copies its list.
Notify(k) ==
    /\ PubGoes("idle", "internal")
    /\ topic' = k /\ calls' = internal[k]
    /\ due' = settled[k] \cup {c \in Clients : pc[c] = "waiting" /\ kind[c] = k}
    /\ UNCHANGED <<lists, handlers, message, client, users, walk, owed>>

\* cartesian_pointcloud_callback and its like copy the list of the API.
CallExport ==
    /\ PubGoes("internal", "users")
    /\ calls["export"] > 0 /\ calls' = [calls EXCEPT !["export"] = @ - 1]
    /\ users' = listeners[topic]
    /\ UNCHANGED <<lists, handlers, message, client, topic, walk, owed, due>>

\* Fault: a callback is called that is not in the list.
CallUserUnlisted(cb) ==
    /\ PubGoes("users", "users")
    /\ users' = [users EXCEPT ![cb] = @ - 1]
    /\ due' = due \ {cb}
    /\ UNCHANGED <<lists, handlers, message, client, topic, calls, walk, owed>>

CallUser(cb) ==
    /\ PubGoes("users", "users")
    /\ users[cb] > 0 /\ users' = [users EXCEPT ![cb] = @ - 1]
    /\ due' = due \ {cb}
    /\ UNCHANGED <<lists, handlers, message, client, topic, calls, walk, owed>>

ExportReturns ==
    /\ PubGoes("users", "internal")
    /\ users = Empty(Callbacks)
    /\ UNCHANGED <<lists, handlers, message, client, topic, calls, users, walk, owed, due>>

\* messageCallback locks the list and walks over the handlers of all kinds.
CallWait ==
    /\ PubGoes("internal", "walk")
    /\ calls["wait"] > 0 /\ calls' = [calls EXCEPT !["wait"] = @ - 1]
    /\ walk' = handlers
    /\ UNCHANGED <<lists, handlers, message, client, topic, users, owed, due>>

Deliver(c) ==
    /\ PubGoes("walk", "walk")
    /\ c \in walk /\ walk' = walk \ {c}
    /\ message' = [message EXCEPT ![c] = topic]
    /\ UNCHANGED <<lists, handlers, client, topic, calls, users, owed, due>>

WalkReturns ==
    /\ PubGoes("walk", "internal")
    /\ walk = {}
    /\ UNCHANGED <<lists, handlers, message, client, topic, calls, users, walk, owed, due>>

Published ==
    /\ PubGoes("internal", "idle")
    /\ calls = Empty(Internal)
    /\ topic' = None
    /\ due' = {}
    /\ UNCHANGED <<lists, handlers, message, client, calls, users, walk, owed>>

-----------------------------------------------------------------------------

ClientProceeds(c) ==
    \/ RegisterInternal(c) \/ DeregisterInternal(c) \/ \E k \in Kinds : ReleaseClears(c, k)
    \/ WaitRegisters(c) \/ WaitEnlists(c) \/ WaitBegins(c) \/ WaitEnds(c) \/ WaitDelists(c)

ClientCalls(c) ==
    \/ \E k \in Registered, cb \in Callbacks : Register(c, k, cb) \/ Deregister(c, k, cb)
    \/ \E k \in Kinds : WaitNext(c, k)
    \/ Release(c)

PublisherProceeds ==
    \/ CallExport \/ ExportReturns \/ CallWait \/ WalkReturns \/ Published
    \/ \E cb \in Callbacks : CallUser(cb)
    \/ \E c \in Clients : Deliver(c)

Next ==
    \/ \E c \in Clients : ClientCalls(c) \/ ClientProceeds(c)
    \/ PublisherProceeds
    \/ \E k \in Kinds : Notify(k)

Spec == Init /\ [][Next]_vars

-----------------------------------------------------------------------------
(* Properties. *)

ClientPc == {"idle", "register", "deregister", "release", "addwait", "enlist", "enlisted", "waiting", "delist"}

TypeOK ==
    /\ listeners \in [Kinds -> [Callbacks -> Nat]]
    /\ internal \in [Kinds -> [Internal -> Nat]]
    /\ handlers \subseteq Clients
    /\ message \in [Clients -> Kinds \cup {None}]
    /\ pc \in [Clients -> ClientPc]
    /\ kind \in [Clients -> Kinds \cup {None}]
    /\ arg \in [Clients -> Callbacks \cup {None}]
    /\ pub \in {"idle", "internal", "users", "walk"} /\ topic \in Kinds \cup {None}
    /\ calls \in [Internal -> Nat] /\ users \in [Callbacks -> Nat]
    /\ walk \subseteq Clients
    /\ fresh \subseteq Clients /\ settled \in [Kinds -> SUBSET Callbacks] /\ due \subseteq Callbacks \cup Clients

\* The handler of a call lies on the stack of the client until the call returns.
HandlerExists(c) == pc[c] \in {"enlisted", "waiting", "delist"}

\* The publisher never writes a message into a handler that is destroyed: the
\* list holds only handlers that exist, and those it walks over stay in it.
NoDestroyedHandler ==
    /\ \A c \in handlers : HandlerExists(c)
    /\ pub = "walk" => walk \subseteq handlers

\* At the end of a publication, every callback that is owed the message was
\* called, and every client that was waiting for this kind when it began, and
\* has not timed out, has a message.  This is what the code keeps if Alone,
\* and what the documentation of the API says if not.
NobodyMissed ==
    pub = "internal" /\ calls = Empty(Internal) =>
        \A d \in due : d \in Clients /\ message[d] # None

=============================================================================
