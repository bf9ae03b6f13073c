--------------------------- MODULE MCKVSingleton ---------------------------
(***************************************************************************)
(* Small instances of KVSingleton for TLC.                                 *)
(***************************************************************************)
EXTENDS KVSingleton, TLC

\* Threads are interchangeable.
Symmetry == Permutations(Threads)
=============================================================================
