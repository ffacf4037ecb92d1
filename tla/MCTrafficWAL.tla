---------------------------- MODULE MCTrafficWAL ----------------------------
(* Small instances of TrafficWAL. *)
EXTENDS TrafficWAL, TLC

Symmetry == Permutations(Chunk) \cup Permutations(Slot)
=============================================================================
