----------------------------- MODULE MCCursors -----------------------------
(***************************************************************************)
(* Small instances of Cursors for TLC.                                     *)
(***************************************************************************)
EXTENDS Cursors, TLC

\* Threads are interchangeable, and so are tasks and workers.
Symmetry ==
    Permutations(Threads) \cup Permutations(Tasks) \cup Permutations(Workers)
=============================================================================
