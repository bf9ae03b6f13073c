---------------------------- MODULE MCAlgorithms ----------------------------
(***************************************************************************)
(* What one process computes, in one call or in a chain of calls: a        *)
(* behaviour finds a bound (PrefixBound), builds a query set (Queries),    *)
(* walks over a table (Pages), puts models in order (Toposort), makes many *)
(* rows at once (BulkCreate), or opens and uses a key-value store that     *)
(* fixes its key type (KVKeys).                                            *)
(***************************************************************************)
EXTENDS PrefixBound, Pages, Toposort, BulkCreate, KVKeys

VARIABLE part       \* what the behaviour is about
allVars == <<prefixVars, queryVars, walkVars, sortVars, bulkVars, keyVars, part>>

\* The parts a behaviour is not about are idle.
PrefixInit == IF part = "prefix" THEN StartBound ELSE prefix = <<>> /\ i = 0 /\ upper = NoBound /\ returned = FALSE
QueryInit ==
    IF part = "walk" THEN StartWalk
    ELSE /\ NotWalking
         /\ IF part = "query" THEN StartQuery
            ELSE rows = [k \in Pks |-> Null] /\ qs = NoClauses /\ means = <<>> /\ flaws = {} /\ calls = MaxCalls
SortInit == IF part = "sort" THEN StartSort ELSE NotSorting
BulkInit == IF part = "bulk" THEN StartBulk ELSE NotCreating

AlgorithmsInit ==
    /\ part \in {"prefix", "query", "walk", "sort", "bulk", "keys"}
    /\ PrefixInit /\ QueryInit /\ SortInit /\ BulkInit /\ StartKeys

PrefixQuery == part = "prefix" /\ FindBound /\ UNCHANGED <<queryVars, walkVars, sortVars, bulkVars, keyVars>>
Query ==
    /\ part = "query" /\ BuildQuery
    /\ UNCHANGED <<prefixVars, walkVars, sortVars, bulkVars, keyVars>>
Walk ==
    /\ part = "walk"
    /\ CountRows \/ OffsetPage \/ CursorPage \/ WriteMeanwhile
    /\ UNCHANGED <<prefixVars, sortVars, bulkVars, keyVars>>
SortModels == part = "sort" /\ Sort /\ UNCHANGED <<prefixVars, queryVars, walkVars, bulkVars, keyVars>>
CreateMany == part = "bulk" /\ Bulk /\ UNCHANGED <<prefixVars, queryVars, walkVars, sortVars, keyVars>>
UseStore == part = "keys" /\ UseKeys /\ UNCHANGED <<prefixVars, queryVars, walkVars, sortVars, bulkVars>>

AlgorithmsNext ==
    /\ PrefixQuery \/ Query \/ Walk \/ SortModels \/ CreateMany \/ UseStore
    /\ UNCHANGED part

AlgorithmsSpec == AlgorithmsInit /\ [][AlgorithmsNext]_allVars
=============================================================================
