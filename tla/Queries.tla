------------------------------ MODULE Queries ------------------------------
(***************************************************************************)
(* Query sets.  A chain of calls builds a SELECT out of clauses: conditions *)
(* joined by AND, ORDER BY, LIMIT, OFFSET, a join over a reverse relation, *)
(* and set operations; the calls that end a chain change clauses before    *)
(* they run it.  Beside the query set is the list that the same calls,     *)
(* read one after the other, make of the table ("means"), and the calls    *)
(* after which the two may differ ("flaws").                               *)
(*                                                                         *)
(* A row has a key, a nullable name, and posts, of which only the titles   *)
(* matter.  Where the order leaves a choice, rows come in the order of the *)
(* keys in both, as SQLite scans a table; a compound SELECT does not.      *)
(***************************************************************************)
EXTENDS Integers, Sequences, FiniteSets, SequencesExt, FiniteSetsExt

CONSTANTS
    Null,       \* NULL, None; a clause that is not there
    MaxCalls    \* bound: calls in a chain

Pks == 1 .. 3
Vals == 0 .. 2

VARIABLES
    rows,       \* the table: of each key, the row or Null
    qs,         \* the query set
    means,      \* the keys its calls mean
    flaws,      \* what has been called that may make a difference
    calls

queryVars == <<rows, qs, means, flaws, calls>>

NoClauses ==
    [where |-> <<>>, order |-> <<>>, limit |-> Null, offset |-> Null, joined |-> FALSE,
     distinct |-> FALSE, compound |-> <<>>]

AllKeys(table) == SelectSeq([k \in Pks |-> k], LAMBDA k : table[k] # Null)

StartQuery ==
    /\ rows \in {[k \in Pks |-> [name |-> names[k], posts |-> IF k = 1 THEN titles ELSE <<>>]] :
                    names \in {<<0, 1, Null>>, <<1, 0, 0>>}, titles \in {<<>>, <<0, 0>>, <<0, 1>>}}
    /\ qs = NoClauses
    /\ means = AllKeys(rows)
    /\ flaws = {}
    /\ calls = 0

-----------------------------------------------------------------------------
(***************************************************************************)
(* Conditions, in SQL's three truth values.                                *)
(***************************************************************************)
False == 0
Unknown == 1
True == 2
And(x, y) == Min({x, y})
Or(x, y) == Max({x, y})
Not(x) == 2 - x
Known(b) == IF b THEN True ELSE False

\* A condition field__lookup = value on a tuple t: None makes "exact" and "ne" IS
\* NULL and IS NOT NULL, and "in" of nothing is 0=1.
Atom(col, lookup, val) == [col |-> col, lookup |-> lookup, val |-> val]
Condition(a, t) ==
    LET v == t[a.col]
    IN  CASE a.lookup = "in_nothing" -> False
          [] a.val = Null /\ a.lookup = "exact" -> Known(v = Null)
          [] a.val = Null /\ a.lookup = "ne" -> Known(v # Null)
          [] OTHER -> IF v = Null THEN Unknown
                      ELSE Known(CASE a.lookup = "exact" -> v = a.val
                                   [] a.lookup = "ne" -> v # a.val
                                   [] a.lookup = "gt" -> v > a.val
                                   [] a.lookup = "gte" -> v >= a.val)

\* A Q object: one condition or two, joined by OR, negated or not.
Q(kids, negated) == [kids |-> kids, negated |-> negated]
Disjuncts(q, t) == [i \in DOMAIN q.kids |-> Condition(q.kids[i], t)]
Compiled(q, t) ==
    LET v == Max(Range(Disjuncts(q, t)))
    IN  IF q.negated THEN Not(v) ELSE v
Invert(q) == [q EXCEPT !.negated = ~@]
OpenOr(q) == Len(q.kids) > 1 /\ ~q.negated

\* The fragments are joined by AND without parentheses: AND binds before the OR
\* that is open in a fragment.  So far: the disjuncts that are complete, and the
\* conjunction that the next fragment goes on with.
Where(where, t) ==
    LET Add(sofar, q) ==
            IF OpenOr(q)
            THEN LET d == Disjuncts(q, t)
                 IN  <<Or(sofar[1], And(sofar[2], d[1])), d[2]>>
            ELSE <<sofar[1], And(sofar[2], Compiled(q, t))>>
        all == FoldLeft(Add, <<False, True>>, where)
    IN  Or(all[1], all[2])

-----------------------------------------------------------------------------
(***************************************************************************)
(* The SELECT.                                                             *)
(***************************************************************************)
\* FROM, with a LEFT JOIN of the posts or without.
Tuples(table, joined) ==
    FlattenSeq([i \in DOMAIN AllKeys(table) |->
        LET k == AllKeys(table)[i]
            titles == IF joined /\ table[k].posts # <<>> THEN table[k].posts ELSE <<Null>>
        IN  [j \in DOMAIN titles |-> [pk |-> k, name |-> table[k].name, title |-> titles[j]]]])

\* NULL is before every value.
Before(x, y) == x # y /\ (x = Null \/ (y # Null /\ x < y))
\* order: fields, each descending or not; the first that tells two rows apart.
Precedes(order, s, t) ==
    \E i \in DOMAIN order :
        /\ \A j \in 1 .. i - 1 : s[order[j].field] = t[order[j].field]
        /\ IF order[i].desc THEN Before(t[order[i].field], s[order[i].field])
           ELSE Before(s[order[i].field], t[order[i].field])

\* A stable sort.
Sorted(order, ts) ==
    LET numbered == [i \in DOMAIN ts |-> [place |-> i, tuple |-> ts[i]]]
        sorted == SortSeq(numbered, LAMBDA a, b :
                        \/ Precedes(order, a.tuple, b.tuple)
                        \/ a.place < b.place /\ ~Precedes(order, b.tuple, a.tuple))
    IN  [i \in DOMAIN sorted |-> sorted[i].tuple]

Distinct(ks) ==
    FoldLeft(LAMBDA sofar, k : IF k \in Range(sofar) THEN sofar ELSE Append(sofar, k), <<>>, ks)
Selected(q, ks) == IF q.distinct /\ q.compound = <<>> THEN Distinct(ks) ELSE ks

PksOf(ts) == [i \in DOMAIN ts |-> ts[i].pk]
Matching(table, q) == SelectSeq(Tuples(table, q.joined), LAMBDA t : Where(q.where, t) = True)

\* Of each key, how often it is in a list; and the list that has them in order.
Copies(ks) == [k \in Pks |-> Len(SelectSeq(ks, LAMBDA x : x = k))]
Listing(copies) == FlattenSeq([k \in Pks |-> [i \in 1 .. copies[k] |-> k]])
Rows(table, ks) == [i \in DOMAIN ks |-> [pk |-> ks[i], name |-> table[ks[i]].name]]

\* Only UNION ALL keeps a row twice.
Combined(op, s, t) ==
    [k \in Pks |->
        CASE op \in {"", "UNION ALL"} -> s[k] + t[k]
          [] op = "UNION" -> Min({1, s[k] + t[k]})
          [] op = "INTERSECT" -> Min({1, s[k] * t[k]})
          [] op = "EXCEPT" -> IF t[k] = 0 THEN Min({1, s[k]}) ELSE 0]

\* A compound SELECT has no parentheses either: from left to right.
PartCopies(table, part) ==
    [k \in Pks |->
        LET found == SelectSeq(Matching(table, part), LAMBDA t : t.pk = k)
        IN  Min({Len(found), IF part.distinct THEN 1 ELSE Len(found)})]
Compound(table, parts) ==
    FoldLeft(LAMBDA sofar, part : Combined(part.op, sofar, PartCopies(table, part)),
             [k \in Pks |-> 0], parts)

\* LIMIT and OFFSET.
Window(ks, limit, offset) ==
    LET from == IF offset = Null THEN 0 ELSE offset
        upto == IF limit = Null THEN Len(ks) ELSE Min({Len(ks), from + limit})
    IN  SubSeq(ks, from + 1, upto)

Result(table, q) ==
    LET ts == IF q.compound = <<>> THEN Matching(table, q)
              ELSE Rows(table, Listing(Compound(table, q.compound)))
    IN  Window(Selected(q, PksOf(Sorted(q.order, ts))), q.limit, q.offset)

-----------------------------------------------------------------------------
(***************************************************************************)
(* Calls that build.                                                       *)
(***************************************************************************)
Windowed(q) == q.limit # Null \/ q.offset # Null

\* The order of the rows is known.
Settled(q) == q.compound = <<>> \/ \E j \in DOMAIN q.order : q.order[j].field = "pk"

\* Does q hold for the row k?  Of its posts, for some of them; an exclusion, for
\* none.
Holds(q, k) ==
    LET ts == {t \in Range(Tuples(rows, TRUE)) : t.pk = k}
    IN  IF q.negated THEN \A t \in ts : Compiled(q, t) = True
        ELSE \E t \in ts : Compiled(q, t) = True
OnPosts(q) == \E i \in DOMAIN q.kids : q.kids[i].col = "title"
Repeats(q) == q.joined /\ ~q.distinct /\ \E k \in Pks : Len(rows[k].posts) > 1

Call(q, list, flaw) ==
    /\ calls < MaxCalls
    /\ calls' = calls + 1
    /\ qs' = q
    /\ means' = list
    /\ flaws' = flaws \cup {f \in DOMAIN flaw : flaw[f]}
    /\ UNCHANGED rows

\* The condition that a call adds.
Add(q) ==
    /\ qs.compound = <<>>
    /\ LET whole == Append(qs.where, q)
           new == [qs EXCEPT !.where = whole, !.joined = @ \/ OnPosts(q)]
       IN  Call(new, SelectSeq(means, LAMBDA k : Holds(q, k)),
                ("or" :> (Len(whole) > 1 /\ \E i \in DOMAIN whole : OpenOr(whole[i])))
                @@ ("window" :> Windowed(qs))
                @@ ("posts" :> (Repeats(new) \/ (OnPosts(q) /\ (qs.joined \/ q.negated)))))

Filter(q) == Add(q)
Exclude(q) == Add(Invert(q))

\* order_by adds to the order there is.
OrderBy(field, desc) ==
    LET order == Append(qs.order, [field |-> field, desc |-> desc])
        full == Rows(rows, means)
    IN  Call([qs EXCEPT !.order = order], PksOf(Sorted(order, full)), ("window" :> Windowed(qs)))

\* Faulty: the offset of the slice before is forgotten.
SliceFromStart(from, upto) ==
    Call([qs EXCEPT !.offset = IF from > 0 THEN from ELSE @,
                    !.limit = IF upto = Null THEN @ ELSE Max({0, upto - from})],
         SubSeq(means, from + 1, IF upto = Null THEN Len(means) ELSE Min({upto, Len(means)})),
         ("window" :> (~Settled(qs) \/ (qs.limit # Null /\ IF upto = Null THEN from > 0 ELSE upto > qs.limit))))

\* qs[from:upto]; the limit of a slice before is forgotten.
Slice(from, upto) ==
    Call([qs EXCEPT !.offset = IF from > 0 THEN from + (IF @ = Null THEN 0 ELSE @) ELSE @,
                    !.limit = IF upto = Null THEN @ ELSE Max({0, upto - from})],
         SubSeq(means, from + 1, IF upto = Null THEN Len(means) ELSE Min({upto, Len(means)})),
         ("window" :> (~Settled(qs) \/ (qs.limit # Null /\ IF upto = Null THEN from > 0 ELSE upto > qs.limit))))

Limit(n) ==
    Call([qs EXCEPT !.limit = n], SubSeq(means, 1, Min({n, Len(means)})),
         ("window" :> (~Settled(qs) \/ (qs.limit # Null /\ n > qs.limit))))

Offset(n) ==
    Call([qs EXCEPT !.offset = n], SubSeq(means, n + 1, Len(means)),
         ("window" :> (~Settled(qs) \/ Windowed(qs))))

\* SELECT DISTINCT; a compound does not hear of it.
MakeDistinct ==
    Call([qs EXCEPT !.distinct = TRUE], Distinct(means),
         ("window" :> (Windowed(qs) /\ Repeats(qs)))
         @@ ("compound" :> (qs.compound # <<>> /\ Distinct(means) # means)))

Part(op, q) == [op |-> op, where |-> q.where, joined |-> q.joined, distinct |-> q.distinct]
Parts(op, q) ==
    IF q.compound = <<>> THEN <<Part(op, q)>> ELSE <<[q.compound[1] EXCEPT !.op = op]>> \o Tail(q.compound)

\* union (with all or without), intersection, difference; an operand with an order or
\* a window is refused by SQLite.  One that is compound itself is not kept together.
SetOperation(op, other, list) ==
    /\ qs.order = <<>> /\ ~Windowed(qs)
    /\ Call([NoClauses EXCEPT !.compound = Parts("", qs) \o Parts(op, other)],
            Listing(Combined(op, Copies(means), Copies(list))),
            ("compound" :> (other.compound # <<>>)))

NameIs(v) == Q(<<Atom("name", "exact", v)>>, FALSE)
Named(v) == [NoClauses EXCEPT !.where = <<NameIs(v)>>]
NamedKeys(v) == SelectSeq(AllKeys(rows), LAMBDA k : rows[k].name = v)
NamedBoth == [NoClauses EXCEPT !.compound = Parts("", Named(0)) \o Parts("UNION", Named(1))]

\* What the chains are built of.
Qs == {NameIs(0), NameIs(Null),
       Q(<<Atom("name", "ne", 0)>>, FALSE), Q(<<Atom("name", "in_nothing", Null)>>, FALSE),
       Q(<<Atom("pk", "gt", 1)>>, FALSE), Q(<<Atom("title", "exact", 0)>>, FALSE),
       Q(<<Atom("name", "exact", 1), Atom("pk", "exact", 2)>>, FALSE)}

BuildQuery ==
    \/ \E q \in Qs : Filter(q) \/ Exclude(q)
    \/ \E field \in {"pk", "name"}, desc \in BOOLEAN : OrderBy(field, desc)
    \/ \E from \in 0 .. 2, upto \in {1, 2, Null} : Slice(from, upto)
    \/ \E n \in 0 .. 2 : Limit(n)
    \/ Offset(1)
    \/ MakeDistinct
    \/ \E op \in {"UNION", "UNION ALL", "INTERSECT", "EXCEPT"} :
        \/ SetOperation(op, Named(0), NamedKeys(0))
        \/ SetOperation(op, NamedBoth, NamedKeys(0) \o NamedKeys(1))

-----------------------------------------------------------------------------
(***************************************************************************)
(* Calls that end a chain.                                                 *)
(***************************************************************************)
HeadOr(ks) == IF ks = <<>> THEN Null ELSE Head(ks)


FirstRow(q) == HeadOr(Result(rows, [q EXCEPT !.limit = 1]))

\* Every order turned round, or the keys'.
Reversed(q) ==
    [q EXCEPT !.order = IF @ = <<>> THEN <<[field |-> "pk", desc |-> TRUE]>>
                        ELSE [i \in DOMAIN @ |-> [@[i] EXCEPT !.desc = ~@]]]
LastRow(q) == FirstRow(Reversed(q))
At(q, n) == HeadOr(Result(rows, [q EXCEPT !.limit = 1, !.offset = n + (IF @ = Null THEN 0 ELSE @)]))
Get(q) == Result(rows, [q EXCEPT !.limit = 2])      \* an error unless it is one row
Latest(q, field) == FirstRow([q EXCEPT !.order = Append(@, [field |-> field, desc |-> TRUE])])
Count(q) == Len(Result(rows, q))
Exists(q) == Result(rows, q) # <<>>

Bare(k) == [pk |-> k, name |-> rows[k].name]

\* Faulty: of the fragments, the last.
DeletedByLast(q) ==
    {k \in Range(AllKeys(rows)) : q.where # <<>> => Compiled(q.where[Len(q.where)], Bare(k)) = True}

\* UPDATE and DELETE name the table and join the fragments to a WHERE of their own;
\* the order, the window and DISTINCT are left out, joins and compounds refused.
Deleted(q) == {k \in Range(AllKeys(rows)) : Where(q.where, Bare(k)) = True}

-----------------------------------------------------------------------------
(***************************************************************************)
(* Properties.                                                             *)
(***************************************************************************)
\* A query set yields, and count() and exists() tell, what its calls mean, read one
\* after the other, whatever their number and order: except after an OR beside
\* another condition, a condition, order, wider limit or further offset on a
\* window, a nested set operation, a window on a compound that is not ordered, and
\* conditions over several posts.
MeansWhatItSays ==
    flaws = {} =>
        /\ IF Settled(qs) THEN Result(rows, qs) = means ELSE Range(Result(rows, qs)) = Range(means)
        /\ Count(qs) = Len(means)
        /\ Exists(qs) <=> means # <<>>

TerminalsYield(all) ==
    LET full == Rows(rows, all)
        Tied == \E i, j \in DOMAIN all :
                    i < j /\ qs.order # <<>> /\ ~Precedes(qs.order, full[i], full[j])
    IN  ~Windowed(qs) =>
            /\ FirstRow(qs) = HeadOr(all)
            /\ \A n \in 0 .. 3 : At(qs, n) = IF n < Len(all) THEN all[n + 1] ELSE Null
            /\ ~Tied => LastRow(qs) = HeadOr(Reverse(all))
            /\ qs.order = <<>> => Latest(qs, "pk") = HeadOr(Reverse(all))
            /\ Len(Get(qs)) = 1 <=> Len(all) = 1


\* update() and delete(), which end a chain too, reach the rows that its conditions,
\* taken one by one, leave in the list: neither more nor fewer when none of the calls
\* took a window, and with a window, of which they do not hear, at least those of it.
DeletesWhatIsMeant ==
    flaws = {} /\ qs.compound = <<>> /\ ~qs.joined =>
        /\ Range(means) \subseteq Deleted(qs)
        /\ ~Windowed(qs) => Deleted(qs) = Range(means)
=============================================================================
