---------------------------- MODULE MCConfigStore ---------------------------
(* Small instances of ConfigStore. *)
EXTENDS ConfigStore, TLC

Symmetric == Permutations(Req) \cup Permutations(Folders) \cup Permutations(Conns)
=============================================================================
