---------------------------- MODULE Transactions ----------------------------
(***************************************************************************)
(* The write side of obele/orm/database.py for one binding and one event   *)
(* loop: Transaction (sync and async), execute, executemany and            *)
(* execute_script outside a transaction, the process-wide write lock, the  *)
(* event loop's gate, the pool of transaction connections and the          *)
(* connections cached per thread.                                          *)
(*                                                                         *)
(* A process is a thread that uses the sync API or a task that uses the    *)
(* async one.  The async API runs the sync code on a worker thread of the  *)
(* executor, so a task's autocommit write uses the connection cached by    *)
(* whichever worker picked it up.  Writes inside a block, by any helper,   *)
(* go to the connection pinned in the context variable _txn: conn[p].      *)
(*                                                                         *)
(* A statement that raises leaves db and tx as they were; the block it is  *)
(* in may then end either way, because the application may catch the       *)
(* exception.  Such a statement is therefore no step of its own.           *)
(***************************************************************************)
EXTENDS SQLite, FiniteSets, SequencesExt

CONSTANTS
    Threads,    \* threads using the sync API
    Tasks,      \* tasks of one event loop using the async API
    Workers,    \* worker threads of the loop's executor
    None,       \* nobody, no connection
    Calls,      \* the kinds of root operation the processes perform
    Faults,     \* what may go wrong beyond busy timeouts and statement errors
    MaxOps,     \* bound: root operations per process
    MaxRows,    \* bound: writes per operation; also the rows of an executemany
    MaxDepth,   \* bound: nesting of blocks
    MaxSaves    \* bound: savepoints opened in one root block

Procs == Threads \cup Tasks
\* "helper": a function of the library that opens a sync transaction of its own
\* (get_or_create, increment, migrate...), run by awrite for its async twin.
Kinds == {"txn", "helper", "execute", "many", "script"}
Modes == {"IMMEDIATE", "DEFERRED"}

ASSUME ProcsAssumption ==
    /\ Threads \cap Tasks = {}
    /\ Threads \cap Workers = {}
    /\ Conns \subseteq Nat
    /\ None \notin Procs \cup Workers \cup Conns
ASSUME CallsAssumption == Calls \subseteq Kinds
ASSUME WritesAssumption ==
    Writes = [by : Procs, op : 1 .. MaxOps, kind : Kinds, row : 1 .. MaxRows]
ASSUME BoundsAssumption ==
    {MaxOps, MaxRows, MaxDepth, MaxSaves} \subseteq Nat
\* "commit": COMMIT is refused and leaves the transaction open (a deferred
\* foreign key).  "overflow": binding a parameter of executemany raises an
\* error that is no sqlite3.Error (an integer of more than 64 bits).
ASSUME FaultsAssumption == Faults \subseteq {"commit", "overflow"}

VARIABLES
    writeLock,  \* Database._write_lock: its holder
    gate,       \* Database._async_lock: its holder
    gateQueue,  \* the tasks waiting for it, first come first served
    pool,       \* binding.txn_pool, used from its end
    threadConn, \* Database._local.conns: the cached connection of each thread
    conn,       \* the connection each process is using
    pc,         \* where each process stands
    op,         \* what it is doing: the call, and the mode of its BEGIN
    blocks,     \* the with-blocks it is in: savepoint numbers, 0 for the root
    savepoints, \* _TxnState.savepoints
    outcome,    \* how the innermost block was left, while _finish is due
    ops,        \* root operations it has started
    rows        \* writes it has issued in the current one

lockVars  == <<writeLock, gate, gateQueue>>
connVars  == <<pool, threadConn, conn>>
blockVars == <<blocks, savepoints, outcome>>
callVars  == <<op, ops, rows>>
vars      == <<sqlVars, lockVars, connVars, pc, blockVars, callVars>>

PoolLimit == 2

PcType == {"idle", "queued", "want", "checkout", "begin", "open", "finish",
           "cleanup", "exec", "rows", "unlock", "ungate"}

TypeOK ==
    /\ db \subseteq Writes
    /\ tx \in [Conns -> TxType]
    /\ writeLock \in Procs \cup {None}
    /\ gate \in Tasks \cup {None}
    /\ gateQueue \in Seq(Tasks)
    /\ pool \in Seq(Conns)
    /\ threadConn \in [Threads \cup Workers -> Conns \cup {None}]
    /\ conn \in [Procs -> Conns \cup {None}]
    /\ pc \in [Procs -> PcType]
    /\ op \in [Procs -> [kind : Kinds, mode : Modes]]
    /\ blocks \in [Procs -> Seq(Nat)]
    /\ savepoints \in [Procs -> Nat]
    /\ outcome \in [Procs -> {"none", "success", "failure"}]
    /\ ops \in [Procs -> 0 .. MaxOps]
    /\ rows \in [Procs -> 0 .. MaxRows]

Init ==
    /\ SqlInit
    /\ writeLock = None
    /\ gate = None
    /\ gateQueue = <<>>
    /\ pool = <<>>
    /\ threadConn = [t \in Threads \cup Workers |-> None]
    /\ conn = [p \in Procs |-> None]
    /\ pc = [p \in Procs |-> "idle"]
    /\ op = [p \in Procs |-> [kind |-> "txn", mode |-> "IMMEDIATE"]]
    /\ blocks = [p \in Procs |-> <<>>]
    /\ savepoints = [p \in Procs |-> 0]
    /\ outcome = [p \in Procs |-> "none"]
    /\ ops = [p \in Procs |-> 0]
    /\ rows = [p \in Procs |-> 0]

-----------------------------------------------------------------------------
\* p's operation is a root block.
IsTxn(p) == op[p].kind \in {"txn", "helper"}

\* An async block: the gate alone protects it.
GateOnly(p) == p \in Tasks /\ op[p].kind = "txn"

Goto(p, l) == pc' = [pc EXCEPT ![p] = l]

\* The next write of p: a fresh value, labelled with the call that issues it.
NextWrite(p) == [by |-> p, op |-> ops[p], kind |-> op[p].kind, row |-> rows[p] + 1]

IssueRow(p) ==
    /\ rows[p] < MaxRows
    /\ rows' = [rows EXCEPT ![p] = @ + 1]

(***************************************************************************)
(* Connections.                                                            *)
(***************************************************************************)
\* sqlite3.connect: c is open from now on, in autocommit mode.  Connections are
\* numbered in the order they are opened.
NewConnection(c) ==
    /\ tx[c].at = "closed"
    /\ \A d \in Conns : d < c => tx[d].at # "closed"
    /\ Become(c, NoTx("idle"))

\* _release_txn_conn: back to the pool whatever its state, closed once full.
ReleaseTxnConn(c) ==
    IF Len(pool) < PoolLimit
    THEN pool' = Append(pool, c) /\ UNCHANGED tx
    ELSE Become(c, NoTx("closed")) /\ UNCHANGED pool

\* The threads on which p's calls may run.
ThreadsOf(p) == IF p \in Tasks THEN Workers ELSE {p}

\* _connection() outside a transaction, on thread t: cached, else opened.
CachedConnection(t, c) ==
    \/ /\ c = threadConn[t]
       /\ UNCHANGED <<threadConn, tx>>
    \/ /\ threadConn[t] = None
       /\ NewConnection(c)
       /\ threadConn' = [threadConn EXCEPT ![t] = c]

-----------------------------------------------------------------------------
(***************************************************************************)
(* Entry: a thread queues for the write lock; a task for the gate, and     *)
(* for all but an async block for the write lock as well.                  *)
(***************************************************************************)
Request(p, kind, mode) ==
    /\ pc[p] = "idle"
    /\ ops[p] < MaxOps
    /\ kind = "helper" => p \in Tasks
    /\ kind # "txn" => mode = "IMMEDIATE"
    /\ ops' = [ops EXCEPT ![p] = @ + 1]
    /\ rows' = [rows EXCEPT ![p] = 0]
    /\ op' = [op EXCEPT ![p] = [kind |-> kind, mode |-> mode]]
    /\ \/ /\ p \in Threads
          /\ Goto(p, "want")
          /\ UNCHANGED gateQueue
       \/ /\ p \in Tasks
          /\ Goto(p, "queued")
          /\ gateQueue' = Append(gateQueue, p)
    /\ UNCHANGED <<sqlVars, writeLock, gate, connVars, blockVars>>

\* Faulty: does not look whether the gate is held.
EnterGateUnchecked(p) ==
    /\ pc[p] = "queued"
    /\ gateQueue # <<>> /\ Head(gateQueue) = p
    /\ gate' = p
    /\ gateQueue' = Tail(gateQueue)
    /\ Goto(p, IF GateOnly(p) THEN "checkout" ELSE "want")
    /\ UNCHANGED <<sqlVars, writeLock, connVars, blockVars, callVars>>

\* Lock.acquire of asyncio: in order of arrival.
EnterGate(p) ==
    /\ pc[p] = "queued"
    /\ gate = None
    /\ gateQueue # <<>> /\ Head(gateQueue) = p
    /\ gate' = p
    /\ gateQueue' = Tail(gateQueue)
    /\ Goto(p, IF GateOnly(p) THEN "checkout" ELSE "want")
    /\ UNCHANGED <<sqlVars, writeLock, connVars, blockVars, callVars>>

\* The write lock, taken by a sync root block.
LockForBlock(p) ==
    /\ pc[p] = "want"
    /\ IsTxn(p)
    /\ writeLock = None
    /\ writeLock' = p
    /\ Goto(p, "checkout")
    /\ UNCHANGED <<sqlVars, gate, gateQueue, connVars, blockVars, callVars>>

\* The write lock, taken by a write outside a block, which then picks the
\* connection of the thread it runs on.
LockForWrite(p) ==
    /\ pc[p] = "want"
    /\ ~IsTxn(p)
    /\ writeLock = None
    /\ writeLock' = p
    /\ \E t \in ThreadsOf(p), c \in Conns :
        /\ CachedConnection(t, c)
        /\ conn' = [conn EXCEPT ![p] = c]
    /\ Goto(p, IF op[p].kind = "many" THEN "begin" ELSE "exec")
    /\ UNCHANGED <<db, gate, gateQueue, pool, blockVars, callVars>>

-----------------------------------------------------------------------------
(***************************************************************************)
(* Root blocks.                                                            *)
(***************************************************************************)
\* Where a process goes once it no longer uses its connection.
Leave(p) == Goto(p, IF GateOnly(p) THEN "ungate" ELSE "unlock")

\* Faulty: looks at the pool's last connection without taking it out.
CheckoutPeeks(p) ==
    /\ pc[p] = "checkout"
    /\ \E c \in Conns :
        /\ conn' = [conn EXCEPT ![p] = c]
        /\ IF pool # <<>> THEN c = Last(pool) /\ UNCHANGED tx ELSE NewConnection(c)
    /\ Goto(p, "begin")
    /\ UNCHANGED <<db, lockVars, pool, threadConn, blockVars, callVars>>

\* Faulty: never looks into the pool.
CheckoutAlwaysOpens(p) ==
    /\ pc[p] = "checkout"
    /\ \E c \in Conns : conn' = [conn EXCEPT ![p] = c] /\ NewConnection(c)
    /\ Goto(p, "begin")
    /\ UNCHANGED <<db, lockVars, pool, threadConn, blockVars, callVars>>

\* _checkout_txn_conn: the pool's last connection, else a new one.
Checkout(p) ==
    /\ pc[p] = "checkout"
    /\ \E c \in Conns :
        /\ conn' = [conn EXCEPT ![p] = c]
        /\ IF pool # <<>>
           THEN c = Last(pool) /\ pool' = Front(pool) /\ UNCHANGED tx
           ELSE NewConnection(c) /\ UNCHANGED pool
    /\ Goto(p, "begin")
    /\ UNCHANGED <<db, lockVars, threadConn, blockVars, callVars>>

\* _new_connection raises, for a root block or for a write outside one: the call
\* ends without a connection, and gives up what it had taken.
ConnectFails(p) ==
    /\ \/ pc[p] = "checkout" /\ pool = <<>> /\ UNCHANGED writeLock
       \/ /\ pc[p] = "want" /\ ~IsTxn(p)
          /\ \E t \in ThreadsOf(p) : threadConn[t] = None
          /\ writeLock = None /\ writeLock' = p
    /\ Leave(p)
    /\ UNCHANGED <<sqlVars, gate, gateQueue, connVars, blockVars, callVars>>

\* BEGIN of a root block (which then installs its state in _txn), or of an
\* executemany.
Begin(p) ==
    /\ pc[p] = "begin"
    /\ SqlBegin(conn[p], op[p].mode)
    /\ IF IsTxn(p)
       THEN /\ blocks' = [blocks EXCEPT ![p] = <<0>>]
            /\ savepoints' = [savepoints EXCEPT ![p] = 0]
            /\ Goto(p, "open")
       ELSE Goto(p, "rows") /\ UNCHANGED <<blocks, savepoints>>
    /\ UNCHANGED <<lockVars, connVars, outcome, callVars>>

\* Faulty: forgets the lock on the error path.
BeginFailsKeepsLock(p) ==
    /\ pc[p] = "begin"
    /\ SqlBeginRaises(conn[p], op[p].mode)
    /\ IF IsTxn(p) THEN ReleaseTxnConn(conn[p]) ELSE UNCHANGED <<tx, pool>>
    /\ conn' = [conn EXCEPT ![p] = None]
    /\ Goto(p, "idle")
    /\ UNCHANGED <<db, lockVars, threadConn, blockVars, callVars>>

\* Faulty: tries again for ever.
BeginFailsRetries(p) ==
    /\ pc[p] = "begin"
    /\ SqlBeginRaises(conn[p], op[p].mode)
    /\ UNCHANGED vars

\* BEGIN raises: a root block returns its connection and gives up.
BeginFails(p) ==
    /\ pc[p] = "begin"
    /\ SqlBeginRaises(conn[p], op[p].mode)
    /\ IF IsTxn(p) THEN ReleaseTxnConn(conn[p]) ELSE UNCHANGED <<tx, pool>>
    /\ conn' = [conn EXCEPT ![p] = None]
    /\ Leave(p)
    /\ UNCHANGED <<db, lockVars, threadConn, blockVars, callVars>>

(***************************************************************************)
(* Inside a block.                                                         *)
(***************************************************************************)
\* A write by any helper, sync or async: execute with _txn set.
Write(p) ==
    /\ pc[p] = "open"
    /\ IssueRow(p)
    /\ SqlTxnWrite(conn[p], NextWrite(p))
    /\ UNCHANGED <<lockVars, connVars, pc, blockVars, op, ops>>

\* The first read of a DEFERRED block: it fixes what the block sees.
Read(p) ==
    /\ pc[p] = "open"
    /\ SqlRead(conn[p])
    /\ UNCHANGED <<lockVars, connVars, pc, blockVars, callVars>>

\* Faulty: names the savepoint before counting it.
NestCountsLate(p) ==
    /\ pc[p] = "open"
    /\ Len(blocks[p]) < MaxDepth
    /\ savepoints[p] < MaxSaves
    /\ savepoints' = [savepoints EXCEPT ![p] = @ + 1]
    /\ SqlSavepoint(conn[p], savepoints[p])
    /\ blocks' = [blocks EXCEPT ![p] = Append(@, savepoints'[p])]
    /\ UNCHANGED <<lockVars, connVars, pc, outcome, callVars>>

\* _begin_nested: the counter is never reset inside the root block.
Nest(p) ==
    /\ pc[p] = "open"
    /\ Len(blocks[p]) < MaxDepth
    /\ savepoints[p] < MaxSaves
    /\ savepoints' = [savepoints EXCEPT ![p] = @ + 1]
    /\ SqlSavepoint(conn[p], savepoints'[p])
    /\ blocks' = [blocks EXCEPT ![p] = Append(@, savepoints'[p])]
    /\ UNCHANGED <<lockVars, connVars, pc, outcome, callVars>>

\* Control leaves the innermost block: normally, or with an exception.  A task
\* then hands _finish to a worker thread.
EndBlock(p) ==
    /\ pc[p] = "open"
    /\ \E o \in {"success", "failure"} : outcome' = [outcome EXCEPT ![p] = o]
    /\ Goto(p, "finish")
    /\ UNCHANGED <<sqlVars, lockVars, connVars, blocks, savepoints, callVars>>

\* Faulty: releases the savepoint of a failed block without rolling back to it.
FinishNestedOnlyReleases(p) ==
    /\ pc[p] = "finish"
    /\ Last(blocks[p]) # 0
    /\ SqlRelease(conn[p], Last(blocks[p]))
    /\ blocks' = [blocks EXCEPT ![p] = Front(@)]
    /\ outcome' = [outcome EXCEPT ![p] = "none"]
    /\ Goto(p, "open")
    /\ UNCHANGED <<lockVars, connVars, savepoints, callVars>>

\* _finish of a nested block: it releases its savepoint, after rolling back to
\* it when an exception left the block.
FinishNested(p) ==
    /\ pc[p] = "finish"
    /\ Last(blocks[p]) # 0
    /\ \/ outcome[p] = "success" /\ SqlRelease(conn[p], Last(blocks[p]))
       \/ outcome[p] = "failure" /\ SqlRollbackToAndRelease(conn[p], Last(blocks[p]))
    /\ blocks' = [blocks EXCEPT ![p] = Front(@)]
    /\ outcome' = [outcome EXCEPT ![p] = "none"]
    /\ Goto(p, "open")
    /\ UNCHANGED <<lockVars, connVars, savepoints, callVars>>

\* _finish of a root block: COMMIT, or ROLLBACK when an exception left it.
FinishRoot(p) ==
    /\ pc[p] = "finish"
    /\ Last(blocks[p]) = 0
    /\ \/ outcome[p] = "success" /\ SqlCommit(conn[p])
       \/ outcome[p] = "failure" /\ SqlRollback(conn[p])
    /\ outcome' = [outcome EXCEPT ![p] = "none"]
    /\ Goto(p, "cleanup")
    /\ UNCHANGED <<lockVars, connVars, blocks, savepoints, callVars>>

\* COMMIT raises and the transaction stays open.  _finish has no ROLLBACK for it.
CommitRefused(p) ==
    /\ "commit" \in Faults
    /\ pc[p] = "finish"
    /\ Last(blocks[p]) = 0
    /\ outcome[p] = "success"
    /\ tx[conn[p]].own # {}
    /\ outcome' = [outcome EXCEPT ![p] = "none"]
    /\ Goto(p, "cleanup")
    /\ UNCHANGED <<sqlVars, lockVars, connVars, blocks, savepoints, callVars>>

\* Faulty: forgets the connection before returning it.
CleanupClearsFirst(p) ==
    /\ pc[p] = "cleanup"
    /\ conn' = [conn EXCEPT ![p] = None]
    /\ ReleaseTxnConn(conn'[p])
    /\ blocks' = [blocks EXCEPT ![p] = <<>>]
    /\ Leave(p)
    /\ UNCHANGED <<db, lockVars, threadConn, savepoints, outcome, callVars>>

\* _cleanup_root: _txn is reset and the connection goes back to the pool.
Cleanup(p) ==
    /\ pc[p] = "cleanup"
    /\ ReleaseTxnConn(conn[p])
    /\ conn' = [conn EXCEPT ![p] = None]
    /\ blocks' = [blocks EXCEPT ![p] = <<>>]
    /\ Leave(p)
    /\ UNCHANGED <<db, lockVars, threadConn, savepoints, outcome, callVars>>

-----------------------------------------------------------------------------
(***************************************************************************)
(* Writes outside a block, with the write lock held.                       *)
(***************************************************************************)
\* Back to the caller of the write: the cursor is read, the lock released.
DoneWriting(p) == conn' = [conn EXCEPT ![p] = None] /\ Goto(p, "unlock")

\* execute.
AutoWrite(p) ==
    /\ pc[p] = "exec"
    /\ op[p].kind = "execute"
    /\ IssueRow(p)
    /\ SqlWrite(conn[p], NextWrite(p))
    /\ DoneWriting(p)
    /\ UNCHANGED <<lockVars, pool, threadConn, blockVars, op, ops>>

\* A statement of execute_script, committed as it comes: what a script has done
\* stays when a later statement fails.  executescript commits a pending
\* transaction before the first.
Script(p) ==
    /\ pc[p] = "exec"
    /\ op[p].kind = "script"
    /\ CanLock(conn[p])
    /\ IssueRow(p)
    /\ db' = db \cup View(conn[p]) \cup {NextWrite(p)}
    /\ Become(conn[p], NoTx("idle"))
    /\ DoneWriting(p) \/ UNCHANGED <<conn, pc>>
    /\ UNCHANGED <<lockVars, pool, threadConn, blockVars, op, ops>>

\* The statement raises: a constraint, or busy_timeout.
WriteFails(p) ==
    /\ pc[p] = "exec"
    /\ DoneWriting(p)
    /\ UNCHANGED <<sqlVars, lockVars, pool, threadConn, blockVars, callVars>>

\* executemany: one row after another in a transaction of its own.
ManyRow(p) ==
    /\ pc[p] = "rows"
    /\ IssueRow(p)
    /\ SqlTxnWrite(conn[p], NextWrite(p))
    /\ UNCHANGED <<lockVars, connVars, pc, blockVars, op, ops>>

ManyCommit(p) ==
    /\ pc[p] = "rows"
    /\ rows[p] = MaxRows
    /\ SqlCommit(conn[p])
    /\ DoneWriting(p)
    /\ UNCHANGED <<lockVars, pool, threadConn, blockVars, callVars>>

\* Faulty: no ROLLBACK.
ManyFailsStaysOpen(p) ==
    /\ pc[p] = "rows"
    /\ DoneWriting(p)
    /\ UNCHANGED <<sqlVars, lockVars, pool, threadConn, blockVars, callVars>>

\* Faulty: commits the rows sent so far.
ManyFailsCommits(p) ==
    /\ pc[p] = "rows"
    /\ SqlCommit(conn[p])
    /\ DoneWriting(p)
    /\ UNCHANGED <<lockVars, pool, threadConn, blockVars, callVars>>

\* A row, or the COMMIT, raises a sqlite3.Error.
ManyFails(p) ==
    /\ pc[p] = "rows"
    /\ SqlRollback(conn[p])
    /\ DoneWriting(p)
    /\ UNCHANGED <<lockVars, pool, threadConn, blockVars, callVars>>

\* A row raises something else, which "except sqlite3.Error" lets through.
ManyOverflows(p) ==
    /\ "overflow" \in Faults
    /\ pc[p] = "rows"
    /\ rows[p] < MaxRows
    /\ DoneWriting(p)
    /\ UNCHANGED <<sqlVars, lockVars, pool, threadConn, blockVars, callVars>>

-----------------------------------------------------------------------------
(***************************************************************************)
(* Exit: the write lock first, then the gate.                              *)
(***************************************************************************)
Unlock(p) ==
    /\ pc[p] = "unlock"
    /\ writeLock' = None
    /\ Goto(p, IF p \in Tasks THEN "ungate" ELSE "idle")
    /\ UNCHANGED <<sqlVars, gate, gateQueue, connVars, blockVars, callVars>>

Ungate(p) ==
    /\ pc[p] = "ungate"
    /\ gate' = None
    /\ Goto(p, "idle")
    /\ UNCHANGED <<sqlVars, writeLock, gateQueue, connVars, blockVars, callVars>>

-----------------------------------------------------------------------------
\* Everything p does once it has asked for something.
Step(p) ==
    \/ EnterGate(p) \/ LockForBlock(p) \/ LockForWrite(p) \/ Checkout(p) \/ ConnectFails(p)
    \/ Begin(p) \/ BeginFails(p)
    \/ Write(p) \/ Read(p) \/ Nest(p) \/ EndBlock(p)
    \/ FinishNested(p) \/ FinishRoot(p) \/ CommitRefused(p) \/ Cleanup(p)
    \/ AutoWrite(p) \/ Script(p) \/ WriteFails(p)
    \/ ManyRow(p) \/ ManyCommit(p) \/ ManyFails(p) \/ ManyOverflows(p)
    \/ Unlock(p) \/ Ungate(p)

\* Every process has used up its operations.
Finished ==
    /\ \A p \in Procs : pc[p] = "idle" /\ ops[p] = MaxOps
    /\ UNCHANGED vars

Next ==
    \/ \E p \in Procs : Step(p)
    \/ \E p \in Procs, kind \in Calls, mode \in Modes : Request(p, kind, mode)
    \/ Finished

Spec == Init /\ [][Next]_vars

\* Locks are handed over, blocks end and busy_timeout runs out; nobody is made
\* to start an operation.
FairSpec == Spec /\ \A p \in Procs : WF_vars(Step(p))

-----------------------------------------------------------------------------
(***************************************************************************)
(* Properties.                                                             *)
(***************************************************************************)
HoldsWriteLock(p) ==
    \/ p \in Threads /\ pc[p] \notin {"idle", "want"}
    \/ p \in Tasks /\ ~GateOnly(p) /\ pc[p] \notin {"idle", "queued", "want", "ungate"}

HoldsGate(p) == p \in Tasks /\ pc[p] \notin {"idle", "queued"}

\* Each lock's owner is exactly the process whose position says so: no path
\* through __enter__, __exit__ or an error leaves a lock behind or releases
\* somebody else's.
LocksMatch ==
    \A p \in Procs :
        /\ HoldsWriteLock(p) <=> writeLock = p
        /\ HoldsGate(p) <=> gate = p

UsesConn(p) == pc[p] \in {"begin", "open", "finish", "cleanup", "exec", "rows"}

\* Where a process is while a transaction of its own is open.
Inside(p) == pc[p] \in {"open", "finish", "rows"}

\* Where a process can stand, given what it is and what it is doing.
PcMatchesCall ==
    \A p \in Procs :
        /\ pc[p] # "idle" => ops[p] # 0
        /\ p \in Threads => pc[p] \notin {"queued", "ungate"}
        /\ GateOnly(p) => pc[p] \notin {"want", "unlock"}
        /\ IsTxn(p) => pc[p] \notin {"exec", "rows"}
        /\ ~IsTxn(p) => pc[p] \notin {"checkout", "open", "finish", "cleanup"}
        /\ UsesConn(p) <=> conn[p] # None

\* A connection serves one process at a time: what a process is using is used
\* by no other, lies in the pool only if nobody uses it, and is never both a
\* transaction connection and a thread's own.
ConnectionsNotShared ==
    /\ \A p, q \in Procs : p # q /\ conn[p] # None => conn[p] # conn[q]
    /\ \A i, j \in 1 .. Len(pool) : i # j => pool[i] # pool[j]
    /\ \A p \in Procs, i \in 1 .. Len(pool) : conn[p] # pool[i]
    /\ \A t \in Threads \cup Workers :
        threadConn[t] # None =>
            /\ \A i \in 1 .. Len(pool) : pool[i] # threadConn[t]
            /\ \A p \in Procs : IsTxn(p) => conn[p] # threadConn[t]
            /\ \A u \in Threads \cup Workers : u # t => threadConn[u] # threadConn[t]

\* Whenever a transaction is open, some process is inside the block or the
\* executemany it belongs to: nothing is left open behind everyone's back.
NoTransactionLeftOpen ==
    \A c \in Conns :
        InTransaction(c) => \E p \in Procs : conn[p] = c /\ Inside(p)

OtherDomain(p) == IF p \in Tasks THEN Threads ELSE Tasks

\* A process that is about to send BEGIN or a write of its own finds SQLite's
\* write lock free, or held by a live block of the other domain: threads never
\* contend with threads at the SQLite level, nor tasks with tasks
\* (the module docstring's "Concurrency guarantees").
WritersNeverContend ==
    \A p \in Procs, c \in Conns :
        pc[p] \in {"begin", "exec"} /\ conn[p] # c /\ tx[c].at = "writing" =>
            \E q \in OtherDomain(p) : conn[q] = c /\ Inside(q)

\* The with-blocks a process is in and the savepoints open on its connection
\* are the same stack, so that RELEASE and ROLLBACK TO always name the
\* innermost one.
SavepointsMatchBlocks ==
    \A p \in Procs : pc[p] \in {"open", "finish"} =>
        LET saves == tx[conn[p]].saves
        IN  blocks[p] = <<0>> \o [i \in 1 .. Len(saves) |-> saves[i].name]

\* The rows of one executemany are in the database together or not at all
\* ("`executemany()` is atomic even without an explicit transaction").
BatchesAtomic ==
    \A w \in db : w.kind = "many" =>
        \A i \in 1 .. MaxRows : [w EXCEPT !.row = i] \in db

\* Two transaction connections are enough: those in use and those pooled never
\* exceed the pool's limit, so that returning one never has to close it.
PoolSuffices ==
    Cardinality({p \in Procs : IsTxn(p) /\ conn[p] # None}) + Len(pool) <= PoolLimit

\* Every operation ends: it gets its locks and gives them back, whether its
\* statements succeed or not.
OperationsEnd == \A p \in Procs : pc[p] # "idle" ~> pc[p] = "idle"

-----------------------------------------------------------------------------
(***************************************************************************)
(* The promise of AtomicBlocks, kept by the connection a process uses.     *)
(***************************************************************************)
Marks(c) == [i \in 1 .. Len(tx[c].saves) |-> tx[c].saves[i].own]

Block(p) ==
    IF Inside(p) /\ InTransaction(conn[p])
    THEN Append(Marks(conn[p]), tx[conn[p]].own)
    ELSE <<>>

\* Writes that were issued, or whose operation has come and gone.
Issued == {w \in Writes :
    \/ w.op < ops[w.by]
    \/ w.op = ops[w.by] /\ w.kind = op[w.by].kind /\ w.row <= rows[w.by]}

Abstract == INSTANCE AtomicBlocks WITH
    block <- [p \in Procs |-> Block(p)], issued <- Issued

\* Every step of the locks, connections, savepoints and statements is a step of
\* whole blocks or none at all.
ImplementsAtomicBlocks == Abstract!Spec
=============================================================================
