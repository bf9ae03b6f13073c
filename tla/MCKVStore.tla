----------------------------- MODULE MCKVStore -----------------------------
(***************************************************************************)
(* Small instances of KVStore for TLC.                                     *)
(***************************************************************************)
EXTENDS KVStore, TLC

\* Callers are interchangeable.  Keys are not: they are sorted.
Symmetry == Permutations(Procs)
=============================================================================
