------------------------------ MODULE MCSchema ------------------------------
(***************************************************************************)
(* Schema, with two processes that run jobs, and rows of one key.          *)
(***************************************************************************)
EXTENDS Schema, TLC

Symmetry == Permutations(Procs)
=============================================================================
