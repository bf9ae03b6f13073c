------------------------------ MODULE MCTasks ------------------------------
(***************************************************************************)
(* A small instance of Tasks for TLC: two tasks that are there at first,   *)
(* in loops of their own, and one started by the first.                    *)
(***************************************************************************)
EXTENDS Tasks, TLC

CONSTANTS t1, t2, t3, L1, L2

MCLoopOf == (t1 :> L1) @@ (t2 :> L1) @@ (t3 :> L2)
MCWrites == [by : Tasks, n : 1 .. MaxOps]
=============================================================================
