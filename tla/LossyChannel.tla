---------------------------- MODULE LossyChannel ----------------------------
(***************************************************************************)
(* What a Fifo of the scan segment pipeline promises to its users: a       *)
(* channel without a buffer.  Messages are numbered in the order in which  *)
(* they were sent.  A receiver gets the oldest message it did not get yet, *)
(* except that only the newest Capacity messages are still available; a    *)
(* Capacity that is not positive means that nothing is ever lost.  A       *)
(* closed channel delivers nothing.                                        *)
(***************************************************************************)
EXTENDS Integers, Sequences

CONSTANTS Payload,   \* the messages
          Capacity   \* an integer: how many of the newest messages are available

VARIABLES sent,      \* all messages sent, in order
          last,      \* number of the last message delivered, 0 before the first
          got,       \* all messages delivered, in order
          open       \* FALSE after the channel was closed

chan == <<sent, last, got, open>>

\* The number of the next message to deliver.
Oldest ==
    IF Capacity > 0 /\ Len(sent) - Capacity > last
    THEN Len(sent) - Capacity + 1
    ELSE last + 1

Init == sent = <<>> /\ last = 0 /\ got = <<>> /\ open = TRUE

Send(p) == sent' = Append(sent, p) /\ UNCHANGED <<last, got, open>>

Receive ==
    /\ open
    /\ Oldest <= Len(sent)
    /\ got' = Append(got, sent[Oldest])
    /\ last' = Oldest
    /\ UNCHANGED <<sent, open>>

Close == open' = FALSE /\ UNCHANGED <<sent, last, got>>

Next == (\E p \in Payload : Send(p)) \/ Receive \/ Close

Spec == Init /\ [][Next]_chan
=============================================================================
