------------------------------- MODULE MCSsh -------------------------------
(* Small instances of SshPool: h1 and h2 are ports 22 and 2222 of one machine. *)
EXTENDS SshPool

CONSTANTS h1, h2

Ports == [h \in Hosts |-> IF h = h2 THEN {h1} ELSE {}]
=============================================================================
