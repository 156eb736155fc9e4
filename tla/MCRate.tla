------------------------------- MODULE MCRate -------------------------------
(* Small instances of RateLimit. *)
EXTENDS RateLimit

BothEntries == {"api", "mcp"}
=============================================================================
