------------------------------ MODULE MCAccess ------------------------------
(* A small instance of AgentAccess. *)
EXTENDS AgentAccess
=============================================================================
