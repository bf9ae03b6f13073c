------------------------------- MODULE SQLite -------------------------------
(***************************************************************************)
(* What the code relies on from SQLite, and does not implement: several    *)
(* connections to one database file in WAL mode, opened by sqlite3.connect *)
(* with isolation_level=None (so BEGIN, COMMIT and SAVEPOINT are sent by   *)
(* the code and nothing is implicit).  Written from how                    *)
(* obele/orm/database.py uses it:                                          *)
(*                                                                         *)
(*  - a statement outside BEGIN commits by itself;                         *)
(*  - readers see the database as of their first statement;                *)
(*  - at most one connection may write at a time, from BEGIN IMMEDIATE or  *)
(*    the first write of a BEGIN DEFERRED up to COMMIT or ROLLBACK, and a  *)
(*    deferred reader whose snapshot is stale may not write at all;        *)
(*  - SAVEPOINT, RELEASE and ROLLBACK TO work on a stack of marks searched *)
(*    by name, latest first.                                               *)
(*                                                                         *)
(* The database is the set of writes committed so far.  A write is a value *)
(* the application chose, so it can say who issued it.                     *)
(***************************************************************************)
EXTENDS Naturals, Sequences

CONSTANTS
    Conns,      \* connections that can ever be opened
    Writes      \* the writes the application can issue

VARIABLES
    db,         \* the committed writes
    tx          \* per connection: where it stands in a transaction

sqlVars == <<db, tx>>

(***************************************************************************)
(* at:    "closed"; "idle" (autocommit); "begun" (BEGIN DEFERRED ran);     *)
(*        "reading" (the snapshot is pinned); "writing" (holds SQLite's    *)
(*        write lock)                                                      *)
(* base:  the snapshot the transaction reads                               *)
(* own:   its uncommitted writes                                           *)
(* saves: its open savepoints, each with the writes present at the time    *)
(***************************************************************************)
Save   == [name : Nat, own : SUBSET Writes]
TxType == [at    : {"closed", "idle", "begun", "reading", "writing"},
           base  : SUBSET Writes,
           own   : SUBSET Writes,
           saves : Seq(Save)]

Transaction(at, base, own, saves) ==
    [at |-> at, base |-> base, own |-> own, saves |-> saves]
NoTx(at) == Transaction(at, {}, {}, <<>>)

InTransaction(c) == tx[c].at \in {"begun", "reading", "writing"}

\* The write lock of the database file is free for c.
CanLock(c) == \A d \in Conns \ {c} : tx[d].at # "writing"

\* What a transaction on c would leave in the database if it committed now.
View(c) == tx[c].base \cup tx[c].own

SqlInit == db = {} /\ tx = [c \in Conns |-> NoTx("closed")]

Become(c, t) == tx' = [tx EXCEPT ![c] = t]

(***************************************************************************)
(* Statements: each is the effect on db and tx of one call on c that       *)
(* succeeds.                                                               *)
(***************************************************************************)
SqlBegin(c, mode) ==
    /\ tx[c].at = "idle"
    /\ \/ /\ mode = "IMMEDIATE"
          /\ CanLock(c)
          /\ Become(c, Transaction("writing", db, {}, <<>>))
       \/ /\ mode = "DEFERRED"
          /\ Become(c, NoTx("begun"))
    /\ UNCHANGED db

\* BEGIN raises: c is in a transaction already, or the lock was not freed
\* within busy_timeout.
SqlBeginRaises(c, mode) ==
    \/ InTransaction(c)
    \/ tx[c].at = "idle" /\ mode = "IMMEDIATE" /\ ~CanLock(c)

SqlRead(c) ==
    /\ tx[c].at = "begun"
    /\ Become(c, Transaction("reading", db, {}, tx[c].saves))
    /\ UNCHANGED db

\* A write outside a transaction.
SqlAutoWrite(c, w) ==
    /\ tx[c].at = "idle"
    /\ CanLock(c)
    /\ db' = db \cup {w}
    /\ UNCHANGED tx

\* A write inside one, which takes the write lock if it has not got it; a
\* transaction that has already read must have read the present database.
SqlTxnWrite(c, w) ==
    /\ InTransaction(c)
    /\ tx[c].at # "writing" => CanLock(c)
    /\ tx[c].at = "reading" => tx[c].base = db
    /\ Become(c, Transaction("writing",
                             IF tx[c].at = "begun" THEN db ELSE tx[c].base,
                             tx[c].own \cup {w},
                             tx[c].saves))
    /\ UNCHANGED db

SqlWrite(c, w) == SqlAutoWrite(c, w) \/ SqlTxnWrite(c, w)

SqlSavepoint(c, n) ==
    /\ InTransaction(c)
    /\ Become(c, Transaction(tx[c].at, tx[c].base, tx[c].own,
                             Append(tx[c].saves, [name |-> n, own |-> tx[c].own])))
    /\ UNCHANGED db

\* i is the position of the latest savepoint of c called n.
Latest(c, n, i) ==
    /\ i \in DOMAIN tx[c].saves
    /\ tx[c].saves[i].name = n
    /\ \A j \in DOMAIN tx[c].saves : j > i => tx[c].saves[j].name # n

\* RELEASE drops the savepoint and those opened after it, and keeps the writes.
SqlRelease(c, n) ==
    \E i \in DOMAIN tx[c].saves :
        /\ Latest(c, n, i)
        /\ Become(c, Transaction(tx[c].at, tx[c].base, tx[c].own,
                                 SubSeq(tx[c].saves, 1, i - 1)))
        /\ UNCHANGED db

\* ROLLBACK TO restores the writes and keeps the savepoint; the RELEASE that
\* follows it in the code then drops it.
SqlRollbackToAndRelease(c, n) ==
    \E i \in DOMAIN tx[c].saves :
        /\ Latest(c, n, i)
        /\ Become(c, Transaction(tx[c].at, tx[c].base, tx[c].saves[i].own,
                                 SubSeq(tx[c].saves, 1, i - 1)))
        /\ UNCHANGED db

SqlCommit(c) ==
    /\ InTransaction(c)
    /\ db' = IF tx[c].at = "writing" THEN View(c) ELSE db
    /\ Become(c, NoTx("idle"))

SqlRollback(c) ==
    /\ InTransaction(c)
    /\ Become(c, NoTx("idle"))
    /\ UNCHANGED db
=============================================================================
