------------------------------ MODULE MCStore ------------------------------
(* Small instances of YamlStore. *)
EXTENDS YamlStore, TLC

Alike == Permutations(Handlers)
=============================================================================
