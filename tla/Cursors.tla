------------------------------ MODULE Cursors ------------------------------
(***************************************************************************)
(* Statements that outlive the call that started them, outside any block:  *)
(*                                                                         *)
(*  - iterator() and aiterator() keep a SELECT running on the connection   *)
(*    of the thread it was started on, from one chunk to the next;         *)
(*  - execute() of a statement with RETURNING gives the caller a cursor    *)
(*    whose rows are still to be fetched, and the write lock is released   *)
(*    before that.  The async twin fetches them before it returns.         *)
(*                                                                         *)
(* Every thread, workers included, has one connection of its own, which is *)
(* known here by the thread.  Of SQLite this needs: a connection with a    *)
(* running statement stays at its snapshot, and may not write once that is *)
(* stale; an autocommit write commits when no other write statement runs   *)
(* on its connection; a running write statement holds SQLite's write lock. *)
(***************************************************************************)
EXTENDS Naturals, FiniteSets

CONSTANTS
    Threads,    \* threads using the sync API
    Tasks,      \* tasks of one event loop using the async API
    Workers,    \* worker threads of the loop's executor
    None,       \* nobody
    Kinds,      \* what the processes do
    MaxOps      \* bound: writes per process

Procs == Threads \cup Tasks
Owners == Threads \cup Workers
Writes == [by : Procs, n : 1 .. MaxOps]

ASSUME ProcsAssumption ==
    /\ Threads \cap Tasks = {}
    /\ Threads \cap Workers = {}
    /\ None \notin Procs \cup Workers
ASSUME KindsAssumption == Kinds \subseteq {"write", "returning", "stream"}
ASSUME BoundsAssumption == MaxOps \in Nat

VARIABLES
    db,         \* the committed writes
    live,       \* the running statements of each connection
    snap,       \* what the connection sees while it has any, pending apart
    pending,    \* its uncommitted writes
    writeLock,  \* Database._write_lock: its holder
    gate,       \* Database._async_lock: its holder
    pc,         \* where each process stands
    kind,       \* the write it is making
    thread,     \* the thread its call runs on
    ops,        \* writes it has started
    acked       \* writes that returned to it without an error

sqlVars == <<db, live, snap, pending>>
vars == <<sqlVars, writeLock, gate, pc, kind, thread, ops, acked>>

\* A running statement, its owner, and what the database held when it began.
Statement == [by : Procs, kind : {"returning", "stream"}, base : SUBSET Writes]

TypeOK ==
    /\ db \subseteq Writes
    /\ live \in [Owners -> SUBSET Statement]
    /\ snap \in [Owners -> SUBSET Writes]
    /\ pending \in [Owners -> SUBSET Writes]
    /\ writeLock \in Procs \cup {None}
    /\ gate \in Tasks \cup {None}
    /\ pc \in [Procs -> {"idle", "queued", "want", "exec", "unlock", "drain", "ungate"}]
    /\ kind \in [Procs -> {"write", "returning"}]
    /\ thread \in [Procs -> Owners \cup {None}]
    /\ ops \in [Procs -> 0 .. MaxOps]
    /\ acked \in [Procs -> SUBSET Writes]

Init ==
    /\ db = {}
    /\ live = [t \in Owners |-> {}]
    /\ snap = [t \in Owners |-> {}]
    /\ pending = [t \in Owners |-> {}]
    /\ writeLock = None
    /\ gate = None
    /\ pc = [p \in Procs |-> "idle"]
    /\ kind = [p \in Procs |-> "write"]
    /\ thread = [p \in Procs |-> None]
    /\ ops = [p \in Procs |-> 0]
    /\ acked = [p \in Procs |-> {}]

-----------------------------------------------------------------------------
(***************************************************************************)
(* SQLite.                                                                 *)
(***************************************************************************)
Writing(t) == \E s \in live[t] : s.kind = "returning"

\* What a statement started now on t's connection reads.
Visible(t) == IF live[t] = {} THEN db ELSE snap[t] \cup pending[t]

\* t's connection may write: nobody else is writing, and what it sees is not
\* out of date.
CanWrite(t) ==
    /\ \A u \in Owners \ {t} : ~Writing(u)
    /\ live[t] # {} => snap[t] = db

\* A write that is complete: it commits unless a RETURNING is still running
\* on the connection, which then sees its own commit.
WriteDone(t, w) ==
    IF Writing(t)
    THEN pending' = [pending EXCEPT ![t] = @ \cup {w}] /\ UNCHANGED <<db, live, snap>>
    ELSE /\ db' = db \cup {w}
         /\ snap' = [snap EXCEPT ![t] = IF live[t] = {} THEN {} ELSE db']
         /\ UNCHANGED <<live, pending>>

\* A statement is started on t's connection for p and stays.
Start(t, p, k) ==
    /\ live' = [live EXCEPT ![t] = @ \cup {[by |-> p, kind |-> k, base |-> Visible(t)]}]
    /\ snap' = [snap EXCEPT ![t] = IF live[t] = {} THEN db ELSE @]

\* p's statement of kind k on t is read to its end, or dropped.
Finish(t, p, k) ==
    LET rest == {s \in live[t] : s.by # p \/ s.kind # k}
        commits == \A s \in rest : s.kind # "returning"
        now == IF commits THEN db \cup pending[t] ELSE db
    IN  /\ live' = [live EXCEPT ![t] = rest]
        /\ db' = now
        /\ pending' = [pending EXCEPT ![t] = IF commits THEN {} ELSE @]
        /\ snap' = [snap EXCEPT ![t] =
                      IF rest = {} THEN {} ELSE IF Writing(t) /\ commits THEN now ELSE @]

Running(p, k, t) == \E s \in live[t] : s.by = p /\ s.kind = k
Has(p, k) == \E t \in Owners : Running(p, k, t)

-----------------------------------------------------------------------------
(***************************************************************************)
(* Writes outside a block.                                                 *)
(***************************************************************************)
\* Faulty: whichever connection is at hand, not the thread's own.
AnyThread(p) == IF p \in Tasks THEN Workers ELSE Threads

\* Where a call of p may run: on its own thread, or on any worker that is free.
ThreadsOf(p) == IF p \in Tasks THEN Workers ELSE {p}
Free(t) == \A q \in Procs : thread[q] # t

Goto(p, l) == pc' = [pc EXCEPT ![p] = l]

\* A process holds on to one cursor of each kind at most.
Request(p, k) ==
    /\ pc[p] = "idle"
    /\ ops[p] < MaxOps
    /\ k = "returning" => ~Has(p, k)
    /\ ops' = [ops EXCEPT ![p] = @ + 1]
    /\ kind' = [kind EXCEPT ![p] = k]
    /\ Goto(p, IF p \in Tasks THEN "queued" ELSE "want")
    /\ UNCHANGED <<sqlVars, writeLock, gate, thread, acked>>

\* awrite: the gate first, then a worker.
EnterGate(p) ==
    /\ pc[p] = "queued"
    /\ gate = None
    /\ gate' = p
    /\ Goto(p, "want")
    /\ UNCHANGED <<sqlVars, writeLock, kind, thread, ops, acked>>

\* execute: the write lock, then the connection of the thread.
Lock(p) ==
    /\ pc[p] = "want"
    /\ writeLock = None
    /\ writeLock' = p
    /\ \E t \in ThreadsOf(p) : Free(t) /\ thread' = [thread EXCEPT ![p] = t]
    /\ Goto(p, "exec")
    /\ UNCHANGED <<sqlVars, gate, kind, ops, acked>>

Execute(p) ==
    /\ pc[p] = "exec"
    /\ CanWrite(thread[p])
    /\ LET t == thread[p]
           w == [by |-> p, n |-> ops[p]]
       IN  /\ \/ kind[p] = "write" /\ WriteDone(t, w)
              \/ /\ kind[p] = "returning"
                 /\ Start(t, p, "returning")
                 /\ pending' = [pending EXCEPT ![t] = @ \cup {w}]
                 /\ UNCHANGED db
           /\ acked' = [acked EXCEPT ![p] = @ \cup {w}]
    /\ Goto(p, "unlock")
    /\ UNCHANGED <<writeLock, gate, kind, thread, ops>>

\* The statement raises: a constraint, or SQLite's write lock.
ExecuteFails(p) ==
    /\ pc[p] = "exec"
    /\ Goto(p, "unlock")
    /\ UNCHANGED <<sqlVars, writeLock, gate, kind, thread, ops, acked>>

\* The cursor is returned and the write lock released.
Unlock(p) ==
    /\ pc[p] = "unlock"
    /\ writeLock' = None
    /\ \/ p \in Threads /\ Goto(p, "idle") /\ thread' = [thread EXCEPT ![p] = None]
       \/ p \in Tasks /\ Goto(p, "drain") /\ UNCHANGED thread
    /\ UNCHANGED <<sqlVars, gate, kind, ops, acked>>

\* Faulty: hands the task a cursor with its rows still to be fetched.
DrainNothing(p) ==
    /\ pc[p] = "drain"
    /\ thread' = [thread EXCEPT ![p] = None]
    /\ Goto(p, "ungate")
    /\ UNCHANGED <<sqlVars, writeLock, gate, kind, ops, acked>>

\* _execute_result: the rows are fetched on the worker, behind the gate.
Drain(p) ==
    /\ pc[p] = "drain"
    /\ \/ Running(p, "returning", thread[p]) /\ Finish(thread[p], p, "returning")
       \/ ~Running(p, "returning", thread[p]) /\ UNCHANGED sqlVars
    /\ thread' = [thread EXCEPT ![p] = None]
    /\ Goto(p, "ungate")
    /\ UNCHANGED <<writeLock, gate, kind, ops, acked>>

Ungate(p) ==
    /\ pc[p] = "ungate"
    /\ gate' = None
    /\ Goto(p, "idle")
    /\ UNCHANGED <<sqlVars, writeLock, kind, thread, ops, acked>>

-----------------------------------------------------------------------------
(***************************************************************************)
(* Cursors in the hands of the application.                                *)
(***************************************************************************)
appUnchanged == UNCHANGED <<writeLock, gate, pc, kind, thread, ops, acked>>

\* iterator() and aiterator(): the first chunk.  It takes no lock.
OpenStream(p) ==
    /\ "stream" \in Kinds
    /\ pc[p] = "idle"
    /\ ~Has(p, "stream")
    /\ \E t \in ThreadsOf(p) : Free(t) /\ Start(t, p, "stream")
    /\ UNCHANGED <<db, pending>>
    /\ appUnchanged

\* The last chunk, or the loop is left.
CloseStream(p) ==
    /\ pc[p] = "idle"
    /\ \E t \in Owners : Running(p, "stream", t) /\ Finish(t, p, "stream")
    /\ appUnchanged

\* A thread fetches the rows of its RETURNING, or drops the cursor.
Fetch(p) ==
    /\ pc[p] = "idle"
    /\ \E t \in Owners : Running(p, "returning", t) /\ Finish(t, p, "returning")
    /\ appUnchanged

-----------------------------------------------------------------------------
Finished ==
    /\ \A p \in Procs : pc[p] = "idle" /\ ops[p] = MaxOps
    /\ UNCHANGED vars

Next ==
    \/ \E p \in Procs :
        \/ \E k \in Kinds \ {"stream"} : Request(p, k)
        \/ EnterGate(p) \/ Lock(p) \/ Execute(p) \/ ExecuteFails(p)
        \/ Unlock(p) \/ Drain(p) \/ Ungate(p)
        \/ OpenStream(p) \/ CloseStream(p) \/ Fetch(p)
    \/ Finished

Spec == Init /\ [][Next]_vars

-----------------------------------------------------------------------------
(***************************************************************************)
(* Properties.                                                             *)
(***************************************************************************)
\* A process that holds the write lock of the library, and is about to write,
\* is not refused by SQLite: no statement of another process of its domain
\* stands in its way (the module docstring's "Concurrency guarantees").
WritersNeverContend == \A p \in Procs : pc[p] = "exec" => CanWrite(thread[p])

\* What a thread has written, as far as its calls returned, is what it reads
\* back, whatever cursors it or others have open.
ThreadsReadOwnWrites == \A p \in Threads : acked[p] \subseteq Visible(p)

\* While a thread loops over an iterator, its connection sees what was there
\* when the loop began and what the thread itself has written since: no commit
\* of another process appears between two chunks.
StreamsSeeOneState ==
    \A p \in Threads : \A s \in live[p] :
        s.kind = "stream" => \A w \in Visible(p) \ s.base : w.by = p

\* What a task's write call reported as done is committed as soon as the call
\* has returned to the task: nothing of it hangs on a statement still running.
TaskWritesCommitted == \A p \in Tasks : pc[p] = "idle" => acked[p] \subseteq db
=============================================================================
