------------------------------ MODULE Objects ------------------------------
(***************************************************************************)
(* Model instances and the rows they stand for.  An object is loaded from  *)
(* a row, or made and inserted; it remembers what it was loaded with, and  *)
(* save() sends only what has changed.  Between two calls anything may     *)
(* happen to the row: other processes write, upserts and bulk updates go   *)
(* around the objects, the block the object was saved in is rolled back.   *)
(* One statement is atomic, so that a call is one step, except             *)
(* get_or_create, which looks and then creates.                            *)
(*                                                                         *)
(* The model has a soft-delete flag (SoftDeleteMixin), and receivers of    *)
(* pre_ and post_ signals may raise.                                       *)
(***************************************************************************)
EXTENDS Integers, FiniteSets

CONSTANTS
    Procs,      \* threads; each holds one object at a time
    None,       \* no row, no key, a value that has not been loaded
    MaxKey,     \* bound: primary keys
    MaxOps,     \* bound: calls, of all processes
    Ops         \* the calls that are made

\* "name" is what get_or_create looks for; "note" is nullable, and what defer()
\* leaves out; "deleted" is is_deleted.
Fields == {"name", "note", "deleted"}
Vals == {0, 1}
Keys == 1 .. MaxKey

\* A field that has not been loaded, or is NULL, is None.
Values == [Fields -> Vals \cup {None}]
Row == [v : Values, born : Nat]
Object ==
    [pk : Keys \cup {None}, persisted : BOOLEAN, v : Values, snap : Values,
     loaded : SUBSET Fields, born : Nat \cup {None}, touched : SUBSET Fields,
     estranged : BOOLEAN]

Operations ==
    {"new", "load", "assign", "refresh", "save", "soft_delete", "delete",
     "get_or_create", "upsert", "bulk_update", "block"}

ASSUME NoneAssumption == None \notin Nat \cup Procs \cup Row \cup Object
ASSUME BoundsAssumption == MaxKey \in Nat \ {0} /\ MaxOps \in Nat
ASSUME OpsAssumption == Ops \subseteq Operations

\* A row has the values of its fields and (history) its birth, the number of the
\* call that made it.  An object has its key, the flag _persisted, its values and
\* their snapshot, and (history) the fields it has loaded, the birth of its row, the
\* fields set since it was last loaded or saved, and whether somebody else has
\* written its row since.
VARIABLES
    rows,       \* the table, as the process whose block is open sees it
    before,     \* the table without that block
    block,      \* the process whose block is open; it holds the write lock
    obj,        \* the object each process holds, or None
    found,      \* within get_or_create, when there is no such row: whether the open
                \* block is its "own" or an "outer" one
    ops,        \* calls so far
    last        \* the call that has just been made, and by whom

vars == <<rows, before, block, obj, found, ops, last>>

Call(p, o) ==
    /\ o \in Ops /\ ops < MaxOps
    /\ found[p] = None
    /\ ops' = ops + 1
    /\ last' = [by |-> p, op |-> o]

\* The values of an object made with a name: the other fields have defaults.
Given(n) == [name |-> n, note |-> 0, deleted |-> 0]

Init ==
    /\ rows \in {[k \in Keys |-> IF k \in old THEN [v |-> Given(0), born |-> 0] ELSE None] :
                    old \in SUBSET Keys}
    /\ before = rows
    /\ block = None
    /\ obj = [p \in Procs |-> None]
    /\ found = [p \in Procs |-> None]
    /\ ops = 0
    /\ last = [by |-> None, op |-> "none"]

-----------------------------------------------------------------------------
(***************************************************************************)
(* The table.                                                              *)
(***************************************************************************)
View(p) == IF block \in {None, p} THEN rows ELSE before

\* A write waits until no block of another is open; outside a block it is
\* committed at once.
MayWrite(p) == block \in {None, p}
Put(table) ==
    /\ rows' = table
    /\ before' = IF block = None THEN table ELSE before

\* The rowid of a row without a key: one more than the largest.
NextKey(k) ==
    /\ \A j \in Keys : rows[j] # None => j < k
    /\ k # 1 => rows[k - 1] # None

\* SoftDeleteMixin._queryset.
Shown(row) == row # None /\ row.v["deleted"] = 0
Matching(p, n) == {k \in Keys : Shown(View(p)[k]) /\ View(p)[k].v["name"] = n}

\* Whoever holds an object of row k, apart from p, no longer knows the row.
Estrange(os, p, k) ==
    [q \in Procs |-> IF q # p /\ os[q] # None /\ os[q].pk = k /\ os[q].persisted
                     THEN [os[q] EXCEPT !.estranged = TRUE] ELSE os[q]]

\* When a block ends, the rows it has changed change for those who saw the others.
Overtake(os, ps) ==
    [q \in Procs |-> IF q \in ps /\ os[q] # None /\ os[q].pk # None
                        /\ rows[os[q].pk] # before[os[q].pk]
                     THEN [os[q] EXCEPT !.estranged = TRUE] ELSE os[q]]

-----------------------------------------------------------------------------
(***************************************************************************)
(* Objects.                                                                *)
(***************************************************************************)
Unsnapped == [f \in Fields |-> None]
NewObject(v) ==
    [pk |-> None, persisted |-> FALSE, v |-> v, snap |-> Unsnapped, loaded |-> Fields,
     born |-> None, touched |-> Fields, estranged |-> FALSE]

\* defer() leaves fields None, in the snapshot too.
FromRow(p, k, without) ==
    LET v == [f \in Fields |-> IF f \in without THEN None ELSE View(p)[k].v[f]]
    IN  [pk |-> k, persisted |-> TRUE, v |-> v, snap |-> v, loaded |-> Fields \ without,
         born |-> View(p)[k].born, touched |-> {}, estranged |-> FALSE]

Dirty(o) == IF o.persisted THEN {f \in Fields : o.v[f] # o.snap[f]} ELSE Fields

\* Faulty: what is saved later is compared with what it was at first.
SnapshotOnce(o) ==
    [o EXCEPT !.snap = IF @ = Unsnapped THEN o.v ELSE @, !.touched = {}]

TakeSnapshot(o) == [o EXCEPT !.snap = o.v, !.touched = {}]

\* A field is set, by the program or by SoftDeleteMixin.
Set(o, f, x) ==
    [o EXCEPT !.v[f] = x, !.loaded = @ \cup {f}, !.touched = @ \cup {f}]

\* Faulty: an UPDATE of all fields.
UpdateAll(row, o) == [row EXCEPT !.v = o.v]

\* UPDATE of the dirty fields.
Update(row, o) == [row EXCEPT !.v = [f \in Fields |-> IF f \in Dirty(o) THEN o.v[f] ELSE row.v[f]]]

-----------------------------------------------------------------------------
(***************************************************************************)
(* Actions: loading and changing objects.                                  *)
(***************************************************************************)
\* A process lets go of the object it has only when it takes another one.
New(p) ==
    /\ Call(p, "new")
    /\ \E n \in Vals, k \in Keys \cup {None} :
        obj' = [obj EXCEPT ![p] = [NewObject(Given(n)) EXCEPT !.pk = k]]
    /\ UNCHANGED <<rows, before, block, found>>

\* get_by_pk, get, all: also in the middle of another's block, which is not seen.
Load(p) ==
    /\ Call(p, "load")
    /\ \E k \in Keys, without \in {{}, {"note"}} :
        /\ Shown(View(p)[k])
        /\ obj' = [obj EXCEPT ![p] = FromRow(p, k, without)]
    /\ UNCHANGED <<rows, before, block, found>>

\* Setting a deferred field gives it a value of its own.
Assign(p) ==
    /\ obj[p] # None
    /\ Call(p, "assign")
    /\ \E f \in Fields \ {"deleted"}, x \in Vals :
        obj' = [obj EXCEPT ![p] = Set(obj[p], f, x)]
    /\ UNCHANGED <<rows, before, block, found>>

\* refresh() keeps _persisted as it is, and reads the row whether it is deleted
\* or not.
Refresh(p) ==
    /\ obj[p] # None /\ obj[p].pk # None /\ View(p)[obj[p].pk] # None
    /\ Call(p, "refresh")
    /\ obj' = [obj EXCEPT ![p] =
                [FromRow(p, obj[p].pk, {}) EXCEPT !.persisted = obj[p].persisted]]
    /\ UNCHANGED <<rows, before, block, found>>

-----------------------------------------------------------------------------
(***************************************************************************)
(* Actions: saving.  "pre" and "post": a receiver of the signal before or  *)
(* after the write raises.  The caller sees an error either way.           *)
(***************************************************************************)
Signals == {"none", "pre", "post"}

\* _insert; a key of its own choice is refused when it is taken.
Inserted(p, o) ==
    \E k \in Keys :
        LET row == [v |-> o.v, born |-> ops'] IN
        /\ IF o.pk = None THEN NextKey(k) ELSE k = o.pk
        /\ \/ /\ rows[k] = None
              /\ Put([rows EXCEPT ![k] = row])
              /\ obj' = [obj EXCEPT ![p] = [TakeSnapshot(o) EXCEPT !.pk = k, !.persisted = TRUE,
                                              !.born = ops', !.estranged = FALSE]]
           \/ /\ rows[k] # None
              /\ obj' = [obj EXCEPT ![p] = o]
              /\ UNCHANGED <<rows, before>>

\* _update: nothing happens, and nobody is told, when the row is gone.
Updated(p, o) ==
    /\ IF rows[o.pk] = None
       THEN UNCHANGED <<rows, before>>
       ELSE Put([rows EXCEPT ![o.pk] = Update(@, o)])
    /\ obj' = [(IF Dirty(o) = {} THEN obj ELSE Estrange(obj, p, o.pk))
                EXCEPT ![p] = TakeSnapshot(o)]

\* save() of the object as o has it; _validate_all refuses a name that is None.
SaveAs(p, o, signal) ==
    /\ o.v["name"] # None
    /\ \/ /\ signal = "pre"
          /\ obj' = [obj EXCEPT ![p] = o]
          /\ UNCHANGED <<rows, before>>
       \/ /\ signal # "pre"
          /\ MayWrite(p)
          /\ IF o.persisted /\ o.pk # None THEN Updated(p, o) ELSE Inserted(p, o)

Save(p) ==
    /\ obj[p] # None
    /\ Call(p, "save")
    /\ \E signal \in Signals : SaveAs(p, obj[p], signal)
    /\ UNCHANGED <<block, found>>

\* SoftDeleteMixin: delete() and restore() set the flag on the object, then save.
SoftDelete(p) ==
    /\ obj[p] # None
    /\ Call(p, "soft_delete")
    /\ \E flag \in Vals, signal \in Signals :
        /\ flag = 1 => obj[p].pk # None
        /\ SaveAs(p, Set(obj[p], "deleted", flag), signal)
    /\ UNCHANGED <<block, found>>

\* Faulty: the object is left as it was.
DeleteRowOnly(p) ==
    /\ obj[p] # None /\ obj[p].pk # None
    /\ Call(p, "delete")
    /\ MayWrite(p)
    /\ Put([rows EXCEPT ![obj[p].pk] = None])
    /\ obj' = Estrange(obj, p, obj[p].pk)
    /\ UNCHANGED <<block, found>>

\* Model.delete; after it the object is as one never saved.
HardDelete(p) ==
    /\ obj[p] # None /\ obj[p].pk # None
    /\ Call(p, "delete")
    /\ \/ UNCHANGED <<rows, before, obj>>   \* pre_delete raises
       \/ /\ MayWrite(p)
          /\ Put([rows EXCEPT ![obj[p].pk] = None])
          /\ obj' = [Estrange(obj, p, obj[p].pk) EXCEPT ![p].pk = None, ![p].persisted = FALSE]
    /\ UNCHANGED <<block, found>>

-----------------------------------------------------------------------------
(***************************************************************************)
(* Actions: calls that go around the objects.                              *)
(***************************************************************************)
\* Faulty: the lookup is made before the block is opened.
LookupOutside(p) ==
    /\ Call(p, "get_or_create")
    /\ \E n \in Vals :
        /\ Matching(p, n) = {}
        /\ obj' = [obj EXCEPT ![p] = NewObject(Given(n))]
    /\ found' = [found EXCEPT ![p] = "own"]
    /\ UNCHANGED <<rows, before, block>>

\* get_or_create and update_or_create open a block, or a savepoint of the open
\* one, and look.  One that is found is changed in that block, or only returned;
\* two that are found are an error.
Lookup(p) ==
    /\ MayWrite(p)
    /\ Call(p, "get_or_create")
    /\ \E n \in Vals :
        \/ /\ Matching(p, n) = {}
           /\ obj' = [obj EXCEPT ![p] = NewObject(Given(n))]
           /\ found' = [found EXCEPT ![p] = IF block = p THEN "outer" ELSE "own"]
           /\ block' = p
           /\ UNCHANGED <<rows, before>>
        \/ \E k \in Keys :
           /\ Matching(p, n) = {k}
           /\ LET o == FromRow(p, k, {})
              IN  \/ obj' = [obj EXCEPT ![p] = o] /\ UNCHANGED <<rows, before>>
                  \/ \E x \in Vals : Updated(p, Set(o, "note", x))
           /\ UNCHANGED <<block, found>>

\* It then creates, and its own block ends.  When a receiver raises, the block is
\* rolled back and the caller never sees the object.
Create(p) ==
    /\ found[p] # None
    /\ MayWrite(p)
    /\ found' = [found EXCEPT ![p] = None]
    /\ last' = [by |-> p, op |-> "create"]
    /\ \/ \E k \in Keys :
          /\ NextKey(k)
          /\ rows' = [rows EXCEPT ![k] = [v |-> obj[p].v, born |-> ops]]
          /\ obj' = [obj EXCEPT ![p] = [TakeSnapshot(obj[p]) EXCEPT
                                          !.pk = k, !.persisted = TRUE, !.born = ops]]
       \/ /\ obj' = [obj EXCEPT ![p] = None]
          /\ UNCHANGED rows
    /\ before' = IF found[p] = "outer" THEN before ELSE rows'
    /\ block' = IF found[p] = "outer" THEN p ELSE None
    /\ UNCHANGED ops

\* upsert of a row with a key.  All fields are written, those not given with
\* their defaults, or the fields the caller names; with none, DO NOTHING, the row
\* that is there is looked up, and is not found when it is marked deleted.
Upsert(p) ==
    /\ MayWrite(p)
    /\ Call(p, "upsert")
    /\ \E k \in Keys, n \in Vals, fs \in {{}, {"name"}, Fields} :
        IF rows[k] # None /\ fs = {}
        THEN /\ obj' = IF Shown(rows[k]) THEN [obj EXCEPT ![p] = FromRow(p, k, {})] ELSE obj
             /\ UNCHANGED <<rows, before>>
        ELSE LET row == IF rows[k] = None THEN [v |-> Given(n), born |-> ops']
                        ELSE [rows[k] EXCEPT !.v = [f \in Fields |-> IF f \in fs THEN Given(n)[f] ELSE @[f]]]
             IN  /\ Put([rows EXCEPT ![k] = row])
                 /\ obj' = [Estrange(obj, p, k) EXCEPT ![p] =
                             [NewObject(row.v) EXCEPT !.pk = k, !.persisted = TRUE, !.snap = row.v,
                                                      !.born = row.born, !.touched = {}]]
    /\ UNCHANGED <<block, found>>

\* bulk_update of some fields, whether they are dirty or not; the snapshot is of
\* all of them, so that the other changes are never sent.
BulkUpdate(p) ==
    /\ obj[p] # None /\ obj[p].pk # None
    /\ MayWrite(p)
    /\ Call(p, "bulk_update")
    /\ \E fs \in {{"name"}, {"note"}, Fields} :
        LET o == obj[p]
            k == o.pk
        IN  /\ IF rows[k] = None THEN UNCHANGED <<rows, before>>
               ELSE Put([rows EXCEPT ![k].v = [f \in Fields |-> IF f \in fs THEN o.v[f] ELSE @[f]]])
            /\ obj' = [Estrange(obj, p, k) EXCEPT ![p] =
                        [TakeSnapshot(o) EXCEPT !.loaded = @ \cup fs,
                            !.estranged = @ \/ (o.persisted /\ ~(Dirty(o) \subseteq fs))]]
    /\ UNCHANGED <<block, found>>

-----------------------------------------------------------------------------
(***************************************************************************)
(* Actions: blocks.                                                        *)
(***************************************************************************)
Begin(p) ==
    /\ block = None
    /\ Call(p, "block")
    /\ block' = p
    /\ UNCHANGED <<rows, before, obj, found>>

Commit(p) ==
    /\ block = p
    /\ Call(p, "block")
    /\ before' = rows
    /\ block' = None
    /\ obj' = Overtake(obj, Procs \ {p})
    /\ UNCHANGED <<rows, found>>

\* The rows go back; nothing tells the objects.
Rollback(p) ==
    /\ block = p
    /\ Call(p, "block")
    /\ rows' = before
    /\ block' = None
    /\ obj' = Overtake(obj, {p})
    /\ UNCHANGED <<before, found>>

\* The bound is reached.
Finished ==
    /\ ops = MaxOps
    /\ UNCHANGED vars

Next ==
    \/ Finished
    \/ \E p \in Procs :
        \/ New(p) \/ Load(p) \/ Assign(p) \/ Refresh(p)
        \/ Save(p) \/ SoftDelete(p) \/ HardDelete(p)
        \/ Lookup(p) \/ Create(p) \/ Upsert(p) \/ BulkUpdate(p)
        \/ Begin(p) \/ Commit(p) \/ Rollback(p)

Spec == Init /\ [][Next]_vars

-----------------------------------------------------------------------------
(***************************************************************************)
(* Properties.                                                             *)
(***************************************************************************)
\* An object that dirty_fields calls clean shows the row as it is: its key is the
\* row's, the row is the one it was loaded from, and every field it has loaded
\* has the row's value.  Only an object whose row somebody else has written, or
\* whose block was rolled back, or that bulk_update has marked clean without
\* sending its other changes, may differ from its row.
CleanMatchesRow ==
    \A p \in Procs :
        LET o == obj[p]
        IN  o # None /\ found[p] = None /\ ~o.estranged /\ o.persisted /\ Dirty(o) = {} =>
                /\ View(p)[o.pk] # None
                /\ View(p)[o.pk].born = o.born
                /\ \A f \in o.loaded : View(p)[o.pk].v[f] = o.v[f]

\* What a save() or a soft delete writes over in a row that is there are fields
\* that were set on the object since it was loaded or saved: changes that others
\* have made to the other fields survive, however stale the object is.
UnchangedFieldsKept ==
    [][ \A p \in Procs, k \in Keys :
          /\ last'.by = p /\ last'.op \in {"save", "soft_delete"} /\ ops' # ops
          /\ rows[k] # None /\ rows'[k] # None
          => \A f \in Fields : rows'[k].v[f] # rows[k].v[f] =>
                f \in obj[p].touched \/ (f = "deleted" /\ last'.op = "soft_delete") ]_vars

\* A save never writes a row that was born for another object, though keys are
\* used again, unless the object's own row was removed by somebody else or went
\* with a block.
SavesHitOwnRow ==
    [][ \A p \in Procs, k \in Keys :
          /\ last'.by = p /\ last'.op \in {"save", "soft_delete"} /\ ops' # ops
          /\ rows[k] # None /\ rows'[k] # rows[k]
          => obj[p].estranged \/ obj[p].born = rows[k].born ]_vars

\* get_or_create never adds a second row with a name that a shown row has,
\* whatever others do between its lookup and its insert.
CreatesOnlyIfAbsent ==
    last.op = "create" /\ obj[last.by] # None =>
        Cardinality({k \in Keys : Shown(View(last.by)[k])
                        /\ View(last.by)[k].v["name"] = obj[last.by].v["name"]}) = 1
=============================================================================
