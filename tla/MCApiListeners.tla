--------------------------- MODULE MCApiListeners ---------------------------
(* Two clients and two callbacks on cartesian and polar pointclouds. *)
EXTENDS ApiListeners, TLC

Symmetry == Permutations(Clients) \cup Permutations(Callbacks)
=============================================================================
