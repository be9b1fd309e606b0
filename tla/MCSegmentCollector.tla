------------------------- MODULE MCSegmentCollector -------------------------
(* The azimuth range asks for all segments, for all but the last or for     *)
(* those around the start of a revolution.                                  *)
EXTENDS SegmentCollector

SomeRanges == {0..(N - 1), 0..(N - 2), (0..(N - 1)) \ {2}}

\* What the theorems of SegmentCollector_proofs assume holds here.
ASSUME TheoremsApply == ShortDisturbance /\ WideRange /\ SpansInReach /\ N - 1 <= MaxTelegrams
=============================================================================
