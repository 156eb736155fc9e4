------------------------------ MODULE MCAudit ------------------------------
(* Small instances of AuditTrail. *)
EXTENDS AuditTrail, TLC

\* Two old entries with the same time.
OldEntries == {[n |-> 1, ts |-> 1, id |-> "i1"], [n |-> 2, ts |-> 1, id |-> "i2"]}
IdSet == {"i1", "i2", "i3"}
=============================================================================
