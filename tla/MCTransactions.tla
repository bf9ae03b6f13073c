--------------------------- MODULE MCTransactions ---------------------------
(***************************************************************************)
(* Small instances of Transactions for TLC.                                *)
(***************************************************************************)
EXTENDS Transactions, TLC

MCWrites == [by : Procs, op : 1 .. MaxOps, kind : Kinds, row : 1 .. MaxRows]

\* Threads are interchangeable, and so are tasks and workers.
Symmetry ==
    Permutations(Threads) \cup Permutations(Tasks) \cup Permutations(Workers)
=============================================================================
