---------------------------- MODULE MCKeepAwake ----------------------------
(***************************************************************************)
(* A small instance of KeepAwake: three Tasks that overlap.                *)
(***************************************************************************)
EXTENDS KeepAwake, TLC

Symmetry == Permutations(Task)
=============================================================================
