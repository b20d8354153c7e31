---------------------------- MODULE MCWorkspace ----------------------------
(***************************************************************************)
(* Workspace for model checking: which slot a handler takes is immaterial. *)
(* Settings, rules and ids are chosen with CHOOSE and have no symmetry.    *)
(***************************************************************************)
EXTENDS Workspace, TLC

Symmetry == Permutations(Slot)
=============================================================================
