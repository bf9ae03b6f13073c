----------------------------- MODULE BulkCreate -----------------------------
(***************************************************************************)
(* Model.bulk_create of src/obele/orm/model.py: items are grouped by the   *)
(* columns they give, inserted in chunks of several rows, and the rows     *)
(* that RETURNING gives back are put in the order of the items.            *)
(***************************************************************************)
EXTENDS Integers, Sequences, FiniteSets, SequencesExt

CONSTANTS
    Signatures,     \* what columns an item may give
    ChunkSize,      \* rows in one statement: 900 by the number of columns
    MaxItems        \* bound: items

ASSUME BulkAssumption == ChunkSize \in Nat \ {0} /\ MaxItems \in Nat

VARIABLES
    items,      \* the signature of each item; a row is known by its item's number
    grouped,    \* how many items are in groups
    groups,     \* the numbers of the items still to be inserted, group by group
    inserted,   \* the rows in the table, in the order of their keys
    indexed,    \* the rows returned, with the numbers they are paired with
    created,    \* the list bulk_create returns
    bulk        \* "none", "grouping", "inserting", "returned" or "raised"

bulkVars == <<items, grouped, groups, inserted, indexed, created, bulk>>

NotCreating ==
    /\ items = <<>> /\ grouped = 0 /\ groups = <<>> /\ inserted = <<>> /\ indexed = <<>>
    /\ created = <<>>
    /\ bulk = "none"

StartBulk ==
    /\ items \in BoundedSeq(Signatures, MaxItems)
    /\ grouped = 0 /\ groups = <<>> /\ inserted = <<>> /\ indexed = <<>> /\ created = <<>>
    /\ bulk = "grouping"

\* _bulk_rows: an item joins the group of its signature, or begins it.
Signature(group) == items[group[1]]
GroupItem ==
    /\ bulk = "grouping" /\ grouped < Len(items)
    /\ LET n == grouped + 1
       IN  \/ \E g \in DOMAIN groups :
                /\ Signature(groups[g]) = items[n]
                /\ groups' = [groups EXCEPT ![g] = Append(@, n)]
           \/ /\ \A g \in DOMAIN groups : Signature(groups[g]) # items[n]
              /\ groups' = Append(groups, <<n>>)
    /\ grouped' = grouped + 1
    /\ UNCHANGED <<items, inserted, indexed, created, bulk>>

\* The values of all items are valid, or some are not and none is inserted.
Validate ==
    /\ bulk = "grouping" /\ grouped = Len(items)
    /\ bulk' \in {"inserting", "raised"}
    /\ UNCHANGED <<items, grouped, groups, inserted, indexed, created>>

Size(group) == IF Len(group) < ChunkSize THEN Len(group) ELSE ChunkSize

\* Faulty: the rows of every chunk are paired with the first items of all.
PairedFromStart(chunk, rows) == [k \in DOMAIN chunk |-> <<k, rows[k]>>]

\* zip(chunk, returned)
Paired(chunk, rows) == [k \in DOMAIN chunk |-> <<chunk[k], rows[k]>>]

\* One statement, in the block of them all; it returns its rows as inserted.
InsertChunk ==
    /\ bulk = "inserting" /\ groups # <<>>
    /\ LET group == Head(groups)
           chunk == SubSeq(group, 1, Size(group))
           rest == SubSeq(group, Size(group) + 1, Len(group))
       IN  /\ inserted' = inserted \o chunk
           /\ indexed' = indexed \o Paired(chunk, chunk)
           /\ groups' = (IF rest = <<>> THEN <<>> ELSE <<rest>>) \o Tail(groups)
    /\ UNCHANGED <<items, grouped, created, bulk>>

\* A row is refused: the block is rolled back.
ChunkFails ==
    /\ bulk = "inserting" /\ groups # <<>>
    /\ inserted' = <<>> /\ bulk' = "raised"
    /\ UNCHANGED <<items, grouped, groups, indexed, created>>

\* Where a stable sort by number puts the i-th pair.
Place(i) ==
    Cardinality({j \in DOMAIN indexed :
        \/ indexed[j][1] < indexed[i][1]
        \/ indexed[j][1] = indexed[i][1] /\ j <= i})

ReturnBulk ==
    /\ bulk = "inserting" /\ groups = <<>>
    /\ created' = [n \in DOMAIN indexed |-> indexed[CHOOSE i \in DOMAIN indexed : Place(i) = n][2]]
    /\ bulk' = "returned"
    /\ UNCHANGED <<items, grouped, groups, inserted, indexed>>

Bulk == GroupItem \/ Validate \/ InsertChunk \/ ChunkFails \/ ReturnBulk

BulkSpec == StartBulk /\ [][Bulk]_bulkVars

\* Whatever columns the items give and however many statements they take, there
\* is one row and one instance of each, and the instance of each item stands at
\* its place; when any is refused there is none
\* (src/obele/orm/model.py:821-822: the list "matches the input order").
BulkMatchesItems ==
    /\ bulk = "returned" =>
        /\ created = [n \in DOMAIN items |-> n]
        /\ Len(inserted) = Len(items) /\ Range(inserted) = DOMAIN items
    /\ bulk = "raised" => inserted = <<>>
=============================================================================
