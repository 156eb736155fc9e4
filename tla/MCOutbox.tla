------------------------------ MODULE MCOutbox ------------------------------
(* A small instance of Outbox. *)
EXTENDS Outbox

AllLegacy == {"fallback", "parallel", "off"}
NgOnOff   == BOOLEAN
=============================================================================
