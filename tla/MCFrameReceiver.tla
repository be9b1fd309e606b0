--------------------------- MODULE MCFrameReceiver ---------------------------
(* Payloads that hold a length, a magic word and a frame of their own. *)
EXTENDS FrameReceiver

TextPayloads == {<<>>, <<5>>, <<6, 5>>}
BinaryPayloads == {<<1>>, <<2, 2, 9>>, <<2, 2, 15>>}

\* What the theorems of FrameReceiver_proofs assume holds here: a chunk fits
\* behind the longest part of a frame and what lost connections left.
ASSUME TheoremsApply ==
    /\ \A p \in PayloadsA : (MaxLosses + 1) * (Len(p) + 1) + ChunkMax <= Capacity
    /\ \A p \in PayloadsB : Len(p) + Overhead - 1 + ChunkMax <= Capacity
=============================================================================
