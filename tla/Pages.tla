------------------------------- MODULE Pages -------------------------------
(***************************************************************************)
(* Walks over a table by pages, while other processes insert, change and   *)
(* delete rows: paginate(), which counts, in a statement of its own, and   *)
(* then skips, and cursor_paginate(), which goes on after the last row it  *)
(* has seen.  A row may come or go between any two statements, those of    *)
(* one call included.                                                      *)
(***************************************************************************)
EXTENDS Queries

CONSTANTS
    MaxWrites,  \* bound: rows inserted, changed or deleted during a walk
    MaxSeen     \* bound: rows shown in a walk, which may have no end

VARIABLES
    walk,       \* "offset", "cursor" or "none"
    ended,      \* whether it has
    field,      \* the field of its order
    size,       \* per_page
    next,       \* the number of its next page, or the cursor it goes on from
    total,      \* the rows counted for its next page; Null before that
    seen,       \* the rows on its pages, as they were then
    stayed,     \* history: the keys whose rows have been as they are from its beginning
    moved,      \* history: a row came, changed or went at a place passed already
    alike,      \* history: two rows had one value in the field, or a row had none
    outgrown,   \* history: when the last page was read, more rows were there than counted
    writes

walkVars ==
    <<walk, ended, field, size, next, total, seen, stayed, moved, alike, outgrown, writes>>

NotWalking ==
    /\ walk = "none" /\ ended = FALSE /\ field = "pk" /\ size = 1 /\ next = Null /\ total = Null
    /\ seen = <<>> /\ stayed = {}
    /\ moved = FALSE /\ alike = FALSE /\ outgrown = FALSE /\ writes = 0

Present(table) == Range(AllKeys(table))
RowOf(table, k) == [pk |-> k, name |-> table[k].name]
Alike(table, f) ==
    \E k, l \in Present(table) :
        RowOf(table, k)[f] = Null \/ (k # l /\ RowOf(table, k)[f] = RowOf(table, l)[f])

Walked == [NoClauses EXCEPT !.order = <<[field |-> field, desc |-> FALSE]>>]

\* Some of the rows are there, the others may come later.
StartWalk ==
    /\ rows \in {[k \in Pks |-> IF k \in gone THEN Null ELSE [name |-> names[k], posts |-> <<>>]] :
                    gone \in SUBSET Pks, names \in {<<0, 1, Null>>, <<1, 0, 2>>}}
    /\ qs = NoClauses /\ means = AllKeys(rows) /\ flaws = {} /\ calls = MaxCalls
    /\ \/ walk = "offset" /\ next = 1
       \/ walk = "cursor" /\ next = Null
    /\ field \in {"pk", "name"} /\ size \in 1 .. 2
    /\ stayed = Present(rows)
    /\ alike = Alike(rows, field)
    /\ ended = FALSE /\ total = Null /\ seen = <<>>
    /\ moved = FALSE /\ outgrown = FALSE /\ writes = 0

Show(keys) == seen' = seen \o [i \in DOMAIN keys |-> RowOf(rows, keys[i])]

Going == walk # "none" /\ ~ended /\ Len(seen) < MaxSeen

\* Faulty: pages are counted from 0.
SkippedFromZero(page) == page * size

Skipped(page) == (page - 1) * size

\* paginate_queryset, with page and per_page positive: its count() ...
CountRows ==
    /\ Going /\ walk = "offset" /\ total = Null
    /\ total' = Count(Walked)
    /\ UNCHANGED <<queryVars, walk, ended, field, size, next, seen, stayed, moved, alike, outgrown, writes>>

\* ... and the page, whose has_next goes by that count.
OffsetPage ==
    /\ Going /\ walk = "offset" /\ total # Null
    /\ \E items \in {Result(rows, [Walked EXCEPT !.offset = Skipped(next), !.limit = size])} : Show(items)
    /\ ended' = (next >= Max({1, (total + size - 1) \div size}))
    /\ next' = next + 1
    /\ total' = Null
    /\ outgrown' = (Count(Walked) > total)
    /\ UNCHANGED <<queryVars, walk, field, size, stayed, moved, alike, writes>>

\* Faulty: the row of the cursor is on the next page again.
AfterOrAt(cursor) ==
    IF cursor = Null THEN <<>> ELSE <<Q(<<Atom(field, "gte", cursor)>>, FALSE)>>

\* Without a cursor, from the beginning: also when the last row had no value.
After(cursor) ==
    IF cursor = Null THEN <<>> ELSE <<Q(<<Atom(field, "gt", cursor)>>, FALSE)>>

\* cursor_paginate_queryset: a row more than the page tells whether there is a next.
CursorPage ==
    /\ Going /\ walk = "cursor"
    /\ \E more \in {Result(rows, [Walked EXCEPT !.where = After(next), !.limit = size + 1])} :
       LET items == SubSeq(more, 1, Min({size, Len(more)}))
       IN  /\ Show(items)
           /\ ended' = (Len(more) <= size)
           /\ next' = IF items = <<>> THEN Null ELSE RowOf(rows, items[Len(items)])[field]
    /\ UNCHANGED <<queryVars, walk, field, size, total, stayed, moved, alike, outgrown, writes>>

\* The place of a row is not behind the last one shown.
Passed(row) ==
    /\ seen # <<>>
    /\ LET reached == seen[Len(seen)]
       IN  \/ row.pk = reached.pk
           \/ Precedes(Append(Walked.order, [field |-> "pk", desc |-> FALSE]), row, reached)

Names == Vals \cup {Null}

Insert ==
    \E k \in Pks, name \in Names :
        /\ rows[k] = Null
        /\ rows' = [rows EXCEPT ![k] = [name |-> name, posts |-> <<>>]]
        /\ moved' = (moved \/ Passed([pk |-> k, name |-> name]))
        /\ UNCHANGED stayed

Change ==
    \E k \in Present(rows), name \in Names :
        /\ rows[k].name # name
        /\ rows' = [rows EXCEPT ![k].name = name]
        /\ moved' = (moved \/ Passed(RowOf(rows, k)) \/ Passed([pk |-> k, name |-> name]))
        /\ stayed' = stayed \ {k}

Delete ==
    \E k \in Present(rows) :
        /\ rows' = [rows EXCEPT ![k] = Null]
        /\ moved' = (moved \/ Passed(RowOf(rows, k)))
        /\ stayed' = stayed \ {k}

WriteMeanwhile ==
    /\ Going
    /\ writes < MaxWrites
    /\ writes' = writes + 1
    /\ Insert \/ Change \/ Delete
    /\ alike' = (alike \/ Alike(rows', field))
    /\ means' = AllKeys(rows')
    /\ UNCHANGED <<qs, flaws, calls, walk, ended, field, size, next, total, seen, outgrown>>

-----------------------------------------------------------------------------
(***************************************************************************)
(* Properties.                                                             *)
(***************************************************************************)
Shown == {seen[i].pk : i \in DOMAIN seen}

\* Of the rows that stay as they are, none is left behind.
NoGap == \A k \in stayed : Passed(RowOf(rows, k)) => k \in Shown

\* paginate() shows no row twice and leaves none behind that stays, as long as no row
\* comes, changes or goes at a place already passed, whatever happens beyond it, also
\* between the count and the page.  A walk that ends, because has_next says so, has
\* then shown every row that stayed, unless rows were added after the last count.
OffsetWalkExact ==
    walk = "offset" /\ ~moved =>
        /\ \A i, j \in DOMAIN seen : i # j => seen[i].pk # seen[j].pk
        /\ NoGap
        /\ ended /\ ~outgrown => stayed \subseteq Shown

\* cursor_paginate() goes up in its field from row to row and leaves none behind that
\* stays, and when it ends has shown every row that stayed, whatever comes, changes
\* and goes: when the field has a value in every row and no value twice.  So a row is
\* shown a second time only with another value of the field.
CursorWalkExact ==
    walk = "cursor" /\ ~alike =>
        /\ \A i, j \in DOMAIN seen : i < j => Before(seen[i][field], seen[j][field])
        /\ NoGap
        /\ ended => stayed \subseteq Shown
=============================================================================
