------------------------------ MODULE MCAdmin ------------------------------
(* Small instances of AdminAuth. *)
EXTENDS AdminAuth
=============================================================================
