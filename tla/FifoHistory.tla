----------------------------- MODULE FifoHistory -----------------------------
(***************************************************************************)
(* A Fifo with threads that push and pop in any order, and the history of  *)
(* what went in and out.  The history is only written: it restricts no     *)
(* action of Fifo.                                                         *)
(***************************************************************************)
EXTENDS Fifo

CONSTANT MaxPushed    \* bound of this model: elements pushed in a behaviour

ASSUME HistoryAssumption == MaxPushed \in Nat

VARIABLES sent,       \* the elements pushed, in order
          last,       \* number of the last element popped, 0 before the first
          got         \* the elements popped, in order

vars == <<state, sent, last, got>>

HistoryInit == Init /\ sent = <<>> /\ last = 0 /\ got = <<>>

Pushes(p) ==
    /\ TotalMessagesPushed < MaxPushed
    /\ Push(p)
    /\ sent' = Append(sent, p)
    /\ UNCHANGED <<last, got>>

Pops(t) ==
    \/ (PopWaits(t) \/ PopFails(t)) /\ UNCHANGED <<sent, last, got>>
    \/ /\ PopTakes(t)
       /\ last' = Removed + 1
       /\ got' = Append(got, Head(queue))
       /\ UNCHANGED sent

Wakes(t) == WakesUp(t) /\ UNCHANGED <<sent, last, got>>

ShutsDown == Shutdown /\ UNCHANGED <<sent, last, got>>

Next ==
    \/ \E p \in Payload : Pushes(p)
    \/ \E t \in Threads : Pops(t) \/ Wakes(t)
    \/ ShutsDown

Spec == HistoryInit /\ [][Next]_vars

\* The threads of the pipeline call Pop in a loop and are not starved.
FairSpec == Spec /\ \A t \in Threads : WF_vars(Pops(t))

-----------------------------------------------------------------------------
(* Properties. *)

TypeOK ==
    /\ FifoTypeOK
    /\ sent \in Seq(Payload)
    /\ last \in Nat
    /\ got \in Seq(Payload)

\* A full fifo loses its oldest elements and nothing else: what is queued is
\* the end of what was pushed, in the same order, and if the last element
\* popped is not the one before the front then the fifo is full.
QueueIsNewest ==
    /\ TotalMessagesPushed = Len(sent)
    /\ Removed >= last
    /\ \A i \in 1..Size : queue[i] = sent[Removed + i]
    /\ Length > 0 => Size <= Length
    /\ Removed > last => Length > 0 /\ Size = Length

\* The fifo implements the channel without a buffer.
Channel == INSTANCE LossyChannel WITH Capacity <- Length, open <- ~shutdown

ImplementsChannel == Channel!Spec

\* Every element pushed is popped or dropped, unless the fifo is shut down:
\* no consumer is left sleeping on a backlog.
EveryElementLeaves ==
    \A n \in 1..MaxPushed : (TotalMessagesPushed >= n) ~> (Removed >= n \/ shutdown)
=============================================================================
