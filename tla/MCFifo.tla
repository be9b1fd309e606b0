------------------------------- MODULE MCFifo -------------------------------
(* The elements of two receivers and two consumers on a fifo of length 2. *)
EXTENDS FifoHistory

CONSTANTS scan, imu,   \* an element of either receiver
          c1, c2       \* two threads that pop

MCPayload == {scan, imu}
MCThreads == {c1, c2}
MCLength == 2
=============================================================================
