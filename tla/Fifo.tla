-------------------------------- MODULE Fifo --------------------------------
(***************************************************************************)
(* sick_scansegment_xd::Fifo<T> (include/sick_scansegment_xd/fifo.h), the  *)
(* queue between the threads of the scan segment pipeline.  Every method   *)
(* runs under m_mutex and is one action; Pop is split at m_cond.wait,      *)
(* where the mutex is released.  A thread woken from the wait evaluates    *)
(* the loop condition again, which is what a new call of Pop does.         *)
(*                                                                         *)
(* The module is used as it is by the pipeline, and with its history by    *)
(* FifoHistory.                                                            *)
(***************************************************************************)
EXTENDS Integers, Sequences

CONSTANTS Payload,    \* the elements
          Length,     \* m_fifo_length, unlimited if not positive
          Threads     \* the threads that call Pop

ASSUME FifoAssumption == Length \in Int

VARIABLES queue,      \* m_queue
          shutdown,   \* m_shutdown
          waiting,    \* the threads blocked in m_cond.wait
          pushed      \* m_num_messages_received

state == <<queue, shutdown, waiting, pushed>>

Init ==
    /\ queue = <<>>
    /\ shutdown = FALSE
    /\ waiting = {}
    /\ pushed = 0

Size == Len(queue)

TotalMessagesPushed == pushed

\* How many elements left the queue, popped or dropped.
Removed == TotalMessagesPushed - Size

\* Fault: a full fifo refuses the new element instead of dropping the oldest.
DropNewest(q) ==
    IF Length > 0 /\ Len(q) > Length THEN SubSeq(q, 1, Length) ELSE q

\* Fault: one element too many is kept.
DropTooLate(q) ==
    IF Length > 0 /\ Len(q) > Length + 1 THEN Tail(q) ELSE q

\* The loop of Push: elements are removed from the front while there are
\* more than m_fifo_length of them.
DropOldest(q) ==
    IF Length > 0 /\ Len(q) > Length
    THEN SubSeq(q, Len(q) - Length + 1, Len(q))
    ELSE q

\* Fault: notify_all is forgotten.
NotifyNobody == UNCHANGED waiting

NotifyAll == waiting' = {}

-----------------------------------------------------------------------------
(* The methods. *)

\* Fault: the message is not counted.
PushUncounted(p) ==
    /\ queue' = DropOldest(Append(queue, p))
    /\ NotifyAll
    /\ UNCHANGED <<shutdown, pushed>>

Push(p) ==
    /\ queue' = DropOldest(Append(queue, p))
    /\ pushed' = pushed + 1
    /\ NotifyAll
    /\ UNCHANGED shutdown

\* Pop finds the fifo empty and waits.
PopWaits(t) ==
    /\ t \notin waiting
    /\ ~shutdown
    /\ queue = <<>>
    /\ waiting' = waiting \cup {t}
    /\ UNCHANGED <<queue, shutdown, pushed>>

\* Pop returns false, whatever is still in the queue.
PopFails(t) ==
    /\ t \notin waiting
    /\ shutdown
    /\ UNCHANGED state

\* Fault: elements are delivered after the shutdown.
PopIgnoresShutdown(t) ==
    /\ t \notin waiting
    /\ queue # <<>>
    /\ queue' = Tail(queue)
    /\ UNCHANGED <<shutdown, waiting, pushed>>

\* Pop returns true and the front element.
PopTakes(t) ==
    /\ t \notin waiting
    /\ ~shutdown
    /\ queue # <<>>
    /\ queue' = Tail(queue)
    /\ UNCHANGED <<shutdown, waiting, pushed>>

\* The wait may return without a notification.
WakesUp(t) ==
    /\ t \in waiting
    /\ waiting' = waiting \ {t}
    /\ UNCHANGED <<queue, shutdown, pushed>>

Shutdown ==
    /\ shutdown' = TRUE
    /\ NotifyAll
    /\ UNCHANGED <<queue, pushed>>

-----------------------------------------------------------------------------

FifoTypeOK ==
    /\ queue \in Seq(Payload)
    /\ shutdown \in BOOLEAN
    /\ waiting \subseteq Threads
    /\ pushed \in Nat

\* No wakeup is lost: a thread sleeps in Pop only while there is nothing to
\* pop and the fifo is not shut down, whatever the order of the Push, Pop and
\* Shutdown calls of the other threads.
NoLostWakeup == waiting # {} => queue = <<>> /\ ~shutdown
=============================================================================
