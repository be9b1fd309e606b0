-------------------------- MODULE MCSegmentPipeline --------------------------
(* Scan and imu receiver, fifos of length 1. *)
EXTENDS SegmentPipeline
=============================================================================
