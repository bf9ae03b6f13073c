------------------------------ MODULE MCObjects ------------------------------
(***************************************************************************)
(* Objects, with two processes and two rows.                               *)
(***************************************************************************)
EXTENDS Objects, TLC

Symmetry == Permutations(Procs)
=============================================================================
