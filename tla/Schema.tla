------------------------------- MODULE Schema -------------------------------
(***************************************************************************)
(* The tables of two models and a search index, as migrate(), create_all(), *)
(* drop_all(), the command line and SearchIndex change them: a job is a    *)
(* list of statements, each committed at once unless the job has opened a  *)
(* block.  Jobs of several processes interleave between statements, may be *)
(* killed between any two, and the application reads and writes meanwhile. *)
(*                                                                         *)
(* "posts" refers to "users" (post k to user k) and is deleted with it.    *)
(* The models are newer than the tables: the column "old" of users is the  *)
(* field "new" now, or is dropped.  The index is over users.name.          *)
(***************************************************************************)
EXTENDS Integers, Sequences, Functions

CONSTANTS
    Procs,      \* processes that run jobs
    None,       \* no table, no block, no job
    Pks,        \* primary keys
    MaxJobs,    \* bound: jobs that are started
    MaxWrites   \* bound: writes of the application

Tables == {"users", "posts"}
Old == [users |-> "users__old", posts |-> "posts__old"]
Names == Tables \cup {Old[t] : t \in Tables}
Vals == {0, 1}
Default == 0
Triggers == {"ai", "ad", "au"}

\* The columns of the models, and of the tables of the release before.
Fields == [users |-> {"name", "new"}, posts |-> {"name"}]
OldCols == [users |-> {"name", "old"}, posts |-> {"name"}]

\* The tables there can be under the name of the model's.
TableOf(t) ==
    UNION {[cols : {C}, rows : UNION {[K -> [C -> Vals]] : K \in SUBSET Pks}, idx : BOOLEAN, ref : Names] :
           C \in {Fields[t], OldCols[t]}}

ASSUME NoneAssumption ==
    /\ None \notin Procs \cup Names
    /\ \A t \in Tables : None \notin Fields[t] \cup OldCols[t] \cup TableOf(t)
    /\ \A words \in SUBSET (Pks \X Vals) : None # words
ASSUME BoundsAssumption == MaxJobs \in Nat /\ MaxWrites \in Nat

VARIABLES
    fk,         \* PRAGMA foreign_keys
    db,         \* the database, as the process whose block is open sees it
    before,     \* the database without that block
    block,      \* the process whose block is open
    todo,       \* the statements each process has left to run
    job,        \* each process's job, and whether no other ran beside it
    result,     \* how the process's last job ended, if none has been started since
    clash,      \* history: create() and drop() of the index have run side by side
    jobs, writes

vars == <<fk, db, before, block, todo, job, result, clash, jobs, writes>>

\* db.missed is history: a row of users has been changed, or was there, without
\* the index being told.
Table(cols) == [cols |-> cols, rows |-> <<>>, idx |-> FALSE, ref |-> "users"]
OldDb(indexed) ==
    [tables |-> [n \in Names |->
        IF n \in Tables
        THEN [Table(OldCols[n]) EXCEPT !.rows = [k \in Pks |-> [c \in OldCols[n] |-> 1]], !.idx = TRUE]
        ELSE None],
     fts |-> IF indexed THEN {<<k, 1>> : k \in Pks} ELSE None,
     trig |-> [x \in Triggers |-> IF indexed THEN "users" ELSE None],
     missed |-> FALSE]
EmptyDb ==
    [tables |-> [n \in Names |-> None], fts |-> None, trig |-> [x \in Triggers |-> None],
     missed |-> FALSE]

NoJob == [kind |-> "none", alone |-> TRUE]

Init ==
    /\ fk \in BOOLEAN
    /\ db \in {OldDb(TRUE), EmptyDb}
    /\ before = db
    /\ block = None
    /\ todo = [p \in Procs |-> <<>>]
    /\ job = [p \in Procs |-> NoJob]
    /\ result = [p \in Procs |-> "none"]
    /\ clash = FALSE
    /\ jobs = 0 /\ writes = 0

Committed == IF block = None THEN db ELSE before
View(p) == IF block \in {None, p} THEN db ELSE before

-----------------------------------------------------------------------------
(***************************************************************************)
(* SQLite: what a statement does to a database d.                          *)
(***************************************************************************)
Exists(d, n) == d.tables[n] # None
Rows(d, n) == IF Exists(d, n) THEN d.tables[n].rows ELSE <<>>
Keys(d, n) == DOMAIN Rows(d, n)
Cols(d, n) == IF Exists(d, n) THEN d.tables[n].cols ELSE {}
Without(f, ks) == [k \in DOMAIN f \ ks |-> f[k]]

\* ON DELETE CASCADE: the posts of the rows ks of the table n.
Cascade(d, n, ks) ==
    IF fk /\ Exists(d, "posts") /\ d.tables["posts"].ref = n
    THEN [d EXCEPT !.tables["posts"].rows = Without(@, ks)] ELSE d

\* Indexes and triggers go with the table.  The DELETE that DROP TABLE implies
\* fires no triggers, but it cascades.
DropTable(d, n) ==
    IF ~Exists(d, n) THEN d
    ELSE [Cascade(d, n, Keys(d, n)) EXCEPT
            !.tables[n] = None,
            !.trig = [x \in Triggers |-> IF @[x] = n THEN None ELSE @[x]],
            !.missed = @ \/ (n = "users" /\ d.fts # None /\ Keys(d, n) # {})]

\* References and triggers follow the table that is renamed.
Rename(d, t) ==
    LET moved == [d EXCEPT !.tables[Old[t]] = d.tables[t], !.tables[t] = None,
                           !.trig = [x \in Triggers |-> IF @[x] = t THEN Old[t] ELSE @[x]]]
    IN  IF Exists(moved, "posts") /\ moved.tables["posts"].ref = t
        THEN [moved EXCEPT !.tables["posts"].ref = Old[t]] ELSE moved

\* The name of an index is its table's and column's: the index of a renamed
\* table still has it.
IndexTaken(d, t) ==
    \E n \in {t, Old[t]} : Exists(d, n) /\ d.tables[n].idx

\* Rows that are copied without their keys: as many others.
Numbered(ks) == CHOOSE ns \in SUBSET Pks : ExistsBijection(ns, ks)

\* look.plan: for each field, the column it is copied from, or None for the default.
\* The key is a column like the others, and has no default but a new number.
Copied(d, t, look) ==
    IF look.seen = {} THEN [k \in Numbered(Keys(d, Old[t])) |-> [f \in Fields[t] |-> Default]]
    ELSE [k \in Keys(d, Old[t]) |->
            [f \in Fields[t] |-> IF look.plan[f] = None THEN Default
                                  ELSE Rows(d, Old[t])[k][look.plan[f]]]]
CopyRows(d, t, look) ==
    [d EXCEPT !.tables[t].rows = Copied(d, t, look),
              !.missed = @ \/ (t = "users" /\ look.seen = {} /\ d.fts # None /\ Keys(d, Old[t]) # {})]
CanCopy(d, t, plan) ==
    /\ \A f \in Fields[t] : plan[f] # None => plan[f] \in d.tables[Old[t]].cols
    /\ t = "posts" /\ fk => Keys(d, Old[t]) \subseteq Keys(d, "users")

-----------------------------------------------------------------------------
(***************************************************************************)
(* Jobs.                                                                   *)
(***************************************************************************)
Stmt(op, t) == [op |-> op, t |-> t]

CreateTable(t) == <<Stmt("create", t), Stmt("index", t)>>

\* Faulty: the indexes are made while the old table still has theirs.
IndexEarly(t, look) ==
    <<Stmt("begin", t), Stmt("drop", Old[t]), Stmt("rename", t), Stmt("create_new", t),
      [op |-> "copy", t |-> t, look |-> look], Stmt("index", t), Stmt("drop", Old[t]),
      [op |-> "commit", t |-> t, look |-> look]>>

\* Faulty: every statement is committed at once.
RebuildUnprotected(t, look) ==
    <<Stmt("drop", Old[t]), Stmt("rename", t), Stmt("create_new", t),
      [op |-> "copy", t |-> t, look |-> look], Stmt("drop", Old[t]), Stmt("index", t)>>

\* The statements of Model.migrate.
Rebuild(t, look) ==
    <<Stmt("begin", t), Stmt("drop", Old[t]), Stmt("rename", t), Stmt("create_new", t),
      [op |-> "copy", t |-> t, look |-> look], Stmt("drop", Old[t]), Stmt("index", t),
      [op |-> "commit", t |-> t, look |-> look]>>

\* Faulty: rename_fields is not heard.
SourceByName(t, f, renamed) == f

\* The column a field is taken from.
Source(t, f, renamed) == IF renamed /\ f = "new" THEN "old" ELSE f

\* What a migration knows of its table: the columns that it has seen, and what it
\* makes of them.
LookAt(d, t, renamed) ==
    [plan |-> [f \in Fields[t] |-> IF Source(t, f, renamed) \in Cols(d, t)
                                   THEN Source(t, f, renamed) ELSE None],
     renamed |-> renamed, seen |-> Cols(d, t)]

MigrateJob(t, renamed, given) == [op |-> "plan", t |-> t, renamed |-> renamed, given |-> given]

\* _toposort_models puts users before posts.
Order == <<"users", "posts">>
CreateAll == CreateTable("users") \o CreateTable("posts")
DropAll == <<Stmt("drop", "posts"), Stmt("drop", "users")>>
CreateIndex == <<Stmt("fts", "users"), Stmt("ai", "users"), Stmt("ad", "users"), Stmt("au", "users")>>

\* Faulty: the index goes before its triggers.
DropIndexFirst == <<Stmt("drop_fts", "users"), Stmt("drop_ai", "users"), Stmt("drop_ad", "users"), Stmt("drop_au", "users")>>

DropIndex == <<Stmt("drop_ai", "users"), Stmt("drop_ad", "users"), Stmt("drop_au", "users"), Stmt("drop_fts", "users")>>

Start(p, kind, stmts) ==
    /\ todo[p] = <<>>
    /\ jobs < MaxJobs
    /\ jobs' = jobs + 1
    /\ todo' = [todo EXCEPT ![p] = stmts]
    /\ LET beside == {q \in Procs : todo[q] # <<>>}
       IN  /\ job' = [q \in Procs |->
                        CASE q = p -> [kind |-> kind, alone |-> beside = {}]
                          [] q \in beside -> [job[q] EXCEPT !.alone = FALSE]
                          [] OTHER -> NoJob]
           /\ clash' = (clash \/ \E q \in beside : {kind, job[q].kind} = {"fts", "drop_fts"})
    /\ result' = [q \in Procs |-> "none"]
    /\ UNCHANGED <<fk, db, before, block, writes>>

\* The fields of a model may have no defaults, and be not nullable ("given" is FALSE).
StartMigrate(p) ==
    \E t \in Tables, renamed \in BOOLEAN, given \in BOOLEAN :
        Start(p, "migrate", <<MigrateJob(t, renamed, given)>>)

\* The command line: all models, targets of references first.
StartCli(p) ==
    \E renamed \in BOOLEAN :
        Start(p, "cli", [i \in DOMAIN Order |-> MigrateJob(Order[i], renamed, TRUE)])

StartCreateAll(p) == Start(p, "create_all", CreateAll)
StartDropAll(p) == Start(p, "drop_all", DropAll)
StartIndex(p) == Start(p, "fts", CreateIndex)
StartDropIndex(p) == Start(p, "drop_fts", DropIndex)
StartRebuild(p) == Start(p, "rebuild", <<Stmt("rebuild", "users")>>)

-----------------------------------------------------------------------------
(***************************************************************************)
(* Statements.                                                             *)
(***************************************************************************)
Due(p, ops) ==
    /\ todo[p] # <<>> /\ Head(todo[p]).op \in ops
    /\ block \in {None, p}
    /\ UNCHANGED <<fk, jobs, writes, job, clash>>

\* The statement of p has made d of the database.
Done(p, d) ==
    /\ db' = d
    /\ before' = IF block = p THEN before ELSE d
    /\ todo' = [todo EXCEPT ![p] = Tail(@)]
    /\ result' = [result EXCEPT ![p] = IF Len(todo[p]) = 1 THEN "done" ELSE "none"]
    /\ UNCHANGED block

\* It raises, or the process is killed: its block is rolled back.
Raises(p) ==
    /\ todo' = [todo EXCEPT ![p] = <<>>]
    /\ result' = [result EXCEPT ![p] = "failed"]
    /\ db' = IF block = p THEN before ELSE db
    /\ block' = IF block = p THEN None ELSE block
    /\ UNCHANGED before

\* migrate() looks twice before its block: whether the table is there ...
Plan(p) ==
    /\ todo[p] # <<>> /\ Head(todo[p]).op = "plan"
    /\ LET t == Head(todo[p]).t
           Then(stmts) ==
               /\ todo' = [todo EXCEPT ![p] = stmts \o Tail(@)]
               /\ UNCHANGED <<db, before, block, result>>
       IN  IF Exists(View(p), t) THEN Then(<<[Head(todo[p]) EXCEPT !.op = "look"]>>)
           ELSE Then(CreateTable(t)) \/ Raises(p)   \* create_if_missing
    /\ UNCHANGED <<fk, jobs, writes, job, clash>>

\* ... and, in a statement of its own, which columns it has: none, when it is gone by
\* now.  A column that is new must have a default; that of a reference has none.
LookAtColumns(p) ==
    /\ todo[p] # <<>> /\ Head(todo[p]).op = "look"
    /\ LET s == Head(todo[p])
           look == LookAt(View(p), s.t, s.renamed)
           new == {f \in Fields[s.t] : look.plan[f] = None}
       IN  IF (new # {} /\ ~s.given) \/ (look.seen = {} /\ s.t = "posts") THEN Raises(p)
           ELSE /\ todo' = [todo EXCEPT ![p] = Rebuild(s.t, look) \o Tail(@)]
                /\ UNCHANGED <<db, before, block, result>>
    /\ UNCHANGED <<fk, jobs, writes, job, clash>>

Begin(p) ==
    /\ Due(p, {"begin"})
    /\ block' = p
    /\ todo' = [todo EXCEPT ![p] = Tail(@)]
    /\ UNCHANGED <<db, before, result>>

Commit(p) ==
    /\ Due(p, {"commit"})
    /\ block' = None
    /\ before' = db
    /\ todo' = [todo EXCEPT ![p] = Tail(@)]
    /\ result' = [result EXCEPT ![p] = IF Len(todo[p]) = 1 THEN "done" ELSE "none"]
    /\ UNCHANGED db

\* CREATE TABLE, with IF NOT EXISTS unless it is migrate()'s.
Create(p) ==
    /\ Due(p, {"create", "create_new"})
    /\ LET t == Head(todo[p]).t
       IN  IF ~Exists(db, t) THEN Done(p, [db EXCEPT !.tables[t] = Table(Fields[t])])
           ELSE IF Head(todo[p]).op = "create" THEN Done(p, db) ELSE Raises(p)

Index(p) ==
    /\ Due(p, {"index"})
    /\ LET t == Head(todo[p]).t
       IN  IF ~Exists(db, t) THEN Raises(p)
           ELSE IF IndexTaken(db, t) THEN Done(p, db)
           ELSE Done(p, [db EXCEPT !.tables[t].idx = TRUE])

Drop(p) ==
    /\ Due(p, {"drop"})
    /\ Done(p, DropTable(db, Head(todo[p]).t))

RenameTable(p) ==
    /\ Due(p, {"rename"})
    /\ LET t == Head(todo[p]).t
       IN  IF Exists(db, t) /\ ~Exists(db, Old[t]) THEN Done(p, Rename(db, t)) ELSE Raises(p)

Copy(p) ==
    /\ Due(p, {"copy"})
    /\ LET s == Head(todo[p])
       IN  IF CanCopy(db, s.t, s.look.plan)
           THEN Done(p, CopyRows(db, s.t, s.look))
           ELSE Raises(p)

\* CREATE VIRTUAL TABLE IF NOT EXISTS: rows that are there are not indexed.
CreateFts(p) ==
    /\ Due(p, {"fts"})
    /\ Done(p, IF db.fts = None
               THEN [db EXCEPT !.fts = {}, !.missed = Keys(db, "users") # {}]
               ELSE db)

CreateTrigger(p) ==
    /\ Due(p, Triggers)
    /\ LET x == Head(todo[p]).op
       IN  IF ~Exists(db, "users") THEN Raises(p)
           ELSE Done(p, [db EXCEPT !.trig[x] = IF @ = None THEN "users" ELSE @])

DropTrigger(p) ==
    /\ Due(p, {"drop_ai", "drop_ad", "drop_au"})
    /\ LET x == CASE Head(todo[p]).op = "drop_ai" -> "ai"
                  [] Head(todo[p]).op = "drop_ad" -> "ad"
                  [] OTHER -> "au"
       IN  Done(p, [db EXCEPT !.trig[x] = None])

DropFts(p) ==
    /\ Due(p, {"drop_fts"})
    /\ Done(p, [db EXCEPT !.fts = None, !.missed = FALSE])

\* rebuild()
Reindex(p) ==
    /\ Due(p, {"rebuild"})
    /\ IF db.fts = None \/ ~Exists(db, "users") THEN Raises(p)
       ELSE Done(p, [db EXCEPT !.fts = {<<k, Rows(db, "users")[k]["name"]>> : k \in Keys(db, "users")},
                               !.missed = FALSE])

\* The process is killed, or a statement fails for a reason outside the model.
Killed(p) ==
    /\ todo[p] # <<>>
    /\ Raises(p)
    /\ UNCHANGED <<fk, jobs, writes, job, clash>>

-----------------------------------------------------------------------------
(***************************************************************************)
(* The application.                                                        *)
(***************************************************************************)
Write(d) ==
    /\ block = None
    /\ writes < MaxWrites
    /\ writes' = writes + 1
    /\ db' = d /\ before' = d
    /\ UNCHANGED <<fk, block, todo, job, result, clash, jobs>>

Armed(d, x) == d.trig[x] = "users"

\* Faulty: the old words of a row stay in the index.
FiredNoRemoval(d, x, gone, new) ==
    IF ~Armed(d, x) THEN [d EXCEPT !.missed = @ \/ d.fts # None]
    ELSE [d EXCEPT !.fts = @ \cup new]

\* The trigger x takes the words gone out of the index and puts the words new in.
Fired(d, x, gone, new) ==
    IF ~Armed(d, x) THEN [d EXCEPT !.missed = @ \/ d.fts # None]
    ELSE [d EXCEPT !.fts = (@ \ gone) \cup new]

\* A trigger without an index, or one that takes out what is not there, fails;
\* the latter at times only leaves the index damaged.
CanFire(d, x, gone) == Armed(d, x) => d.fts # None /\ gone \subseteq d.fts

InsertUser(k, v) ==
    /\ Exists(db, "users") /\ k \notin Keys(db, "users")
    /\ CanFire(db, "ai", {})
    /\ LET row == [c \in db.tables["users"].cols |-> v]
       IN  Write(Fired([db EXCEPT !.tables["users"].rows = [j \in DOMAIN @ \cup {k} |-> IF j = k THEN row ELSE @[j]]],
                       "ai", {}, {<<k, v>>}))

UpdateUser(k, v) ==
    /\ Exists(db, "users") /\ k \in Keys(db, "users")
    /\ LET old == Rows(db, "users")[k]["name"]
           d == [db EXCEPT !.tables["users"].rows[k]["name"] = v]
       IN  /\ CanFire(db, "au", {<<k, old>>})
           /\ Write(Fired(d, "au", {<<k, old>>}, {<<k, v>>}))

DeleteUser(k) ==
    /\ Exists(db, "users") /\ k \in Keys(db, "users")
    /\ LET old == Rows(db, "users")[k]["name"]
           d == [Cascade(db, "users", {k}) EXCEPT !.tables["users"].rows = Without(@, {k})]
       IN  /\ CanFire(db, "ad", {<<k, old>>})
           /\ Write(Fired(d, "ad", {<<k, old>>}, {}))

\* With foreign keys on, a post whose reference leads nowhere is refused.
InsertPost(k) ==
    /\ Exists(db, "posts") /\ k \notin Keys(db, "posts")
    /\ fk => k \in Keys(db, db.tables["posts"].ref)
    /\ LET row == [c \in Fields["posts"] |-> 1]
       IN  Write([db EXCEPT !.tables["posts"].rows = [j \in DOMAIN @ \cup {k} |-> IF j = k THEN row ELSE @[j]]])

\* The bounds are reached, or the application has nothing it can do.
Finished ==
    /\ jobs = MaxJobs /\ \A p \in Procs : todo[p] = <<>>
    /\ UNCHANGED vars

Next ==
    \/ Finished
    \/ \E p \in Procs :
        \/ StartMigrate(p) \/ StartCli(p) \/ StartCreateAll(p) \/ StartDropAll(p)
        \/ StartIndex(p) \/ StartDropIndex(p) \/ StartRebuild(p)
        \/ Plan(p) \/ LookAtColumns(p) \/ Begin(p) \/ Commit(p)
        \/ Create(p) \/ Index(p) \/ Drop(p) \/ RenameTable(p) \/ Copy(p)
        \/ CreateFts(p) \/ CreateTrigger(p) \/ DropTrigger(p) \/ DropFts(p) \/ Reindex(p)
        \/ Killed(p)
    \/ \E k \in Pks :
        \/ \E v \in Vals : InsertUser(k, v) \/ UpdateUser(k, v)
        \/ DeleteUser(k) \/ InsertPost(k)

Spec == Init /\ [][Next]_vars

-----------------------------------------------------------------------------
(***************************************************************************)
(* Properties.                                                             *)
(***************************************************************************)
\* Wherever a migration is killed or fails, others find every table under its own
\* name: migrate() is one block.
NoHalfMigration ==
    \A t \in Tables : ~Exists(Committed, Old[t])

\* The migration that p is about to commit, and what its table was before.
Committing(p) ==
    block = p /\ todo[p] # <<>> /\ Head(todo[p]).op = "commit" /\ db' = db /\ block' = None
Kept(t, f, source) ==
    \A k \in Keys(db, t) :
        Rows(db, t)[k][f] = IF source \in before.tables[t].cols THEN Rows(before, t)[k][source]
                            ELSE Default

\* A migration keeps every row of its table, and in each field the values of the
\* column that has its name, or that it was said to be renamed from; a field that
\* has neither gets its default.  So it is, but for three cases.  Another process has
\* changed the columns between the look at them and the block: then only rows and
\* columns that keep their names are safe.  It has dropped the table between the two
\* looks, and made it again before the block: then nothing is.  And a rename from a
\* column that is no longer there gives the field its default, although the table has
\* a column of its name, as it has after the same migration was run before.
\* Another table loses rows only when it refers to the one that is migrated and
\* foreign keys are on.
MigrateKeepsRows ==
    [][ \A p \in Procs :
          Committing(p) =>
            LET s == Head(todo[p])
                cols == before.tables[s.t].cols
                other == CHOOSE u \in Tables : u # s.t
            IN  /\ Exists(before, s.t)
                /\ s.look.seen # {} => Keys(db, s.t) = Keys(before, s.t) /\ Kept(s.t, "name", "name")
                /\ s.t = "users" /\ s.look.seen = cols /\ (s.look.renamed => "old" \in cols) =>
                        Kept(s.t, "new", IF s.look.renamed THEN "old" ELSE "new")
                /\ Rows(db, other) # Rows(before, other) => fk /\ s.t = "users"
      ]_vars

\* When all models have been migrated, with no other job beside, and no failure,
\* each table has the columns and indexes of its model, and each reference leads
\* to a table.  After create_all() so do tables and indexes.
SchemaSynced ==
    \A p \in Procs :
        result[p] = "done" /\ job[p].alone /\ job[p].kind \in {"cli", "create_all"} =>
            \A t \in Tables :
                /\ Exists(Committed, t)
                /\ Committed.tables[t].idx
                /\ job[p].kind = "cli" => /\ Committed.tables[t].cols = Fields[t]
                                          /\ Exists(Committed, Committed.tables["posts"].ref)

\* Search finds the rows that have the word, and search_count() counts them,
\* unless a change has been missed: the index was made over rows that were there,
\* or the table was written while a trigger was missing, as after a migration, or a
\* migration has numbered the rows anew.
SearchAgrees ==
    LET d == Committed
    IN  d.fts # None /\ ~d.missed /\ Exists(d, "users") =>
            d.fts = {<<k, Rows(d, "users")[k]["name"]>> : k \in Keys(d, "users")}

\* No trigger is left without its index, where it would fail every write to the
\* table: not even by a drop() that is killed half way, only when create() and
\* drop() run at the same time.
TriggersHaveIndex ==
    (\E x \in Triggers : Committed.trig[x] # None) /\ Committed.fts = None => clash
=============================================================================
