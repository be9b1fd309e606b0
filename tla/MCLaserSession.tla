--------------------------- MODULE MCLaserSession ---------------------------
(* Three laser threads, one after the other. *)
EXTENDS LaserSession
=============================================================================
