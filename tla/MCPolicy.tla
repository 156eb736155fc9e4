------------------------------ MODULE MCPolicy ------------------------------
(* Small instances of CommandPolicy. *)
EXTENDS CommandPolicy
=============================================================================
