-------------------------- MODULE MCAccessPipeline --------------------------
(* Small instances of AccessPipeline. *)
EXTENDS AccessPipeline, TLC

Symmetry == Permutations(Conn) \cup Permutations(Slot)
=============================================================================
