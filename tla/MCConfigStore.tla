---------------------------- MODULE MCConfigStore ----------------------------
(***************************************************************************)
(* Three requests of any kind for one agent and one group.                 *)
(***************************************************************************)
EXTENDS ConfigStore, TLC

Interchangeable == Permutations(Requests)
=============================================================================
