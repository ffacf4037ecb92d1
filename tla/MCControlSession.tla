-------------------------- MODULE MCControlSession --------------------------
(* ControlSession on small instances. *)
EXTENDS ControlSession
=============================================================================
