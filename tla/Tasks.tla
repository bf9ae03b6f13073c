------------------------------- MODULE Tasks -------------------------------
(***************************************************************************)
(* Tasks, their contexts, and the gates of their event loops: the async    *)
(* side of src/obele/orm/database.py where Transactions stops.  Tasks are  *)
(* cancelled while a worker thread runs a call for them, which goes on;    *)
(* they start other tasks, which inherit the block they are started in and *)
(* may outlive it; and several loops run in several threads, each asking   *)
(* for a gate of its own.                                                  *)
(*                                                                         *)
(* A call that a worker runs is one step, so that at most one connection   *)
(* is on its way to the pool, which is never full.  Root blocks are        *)
(* IMMEDIATE.                                                              *)
(***************************************************************************)
EXTENDS SQLite, FiniteSets, SequencesExt

CONSTANTS
    Tasks, Loops, None,
    LoopOf,         \* the loop each task runs in
    First,          \* the tasks that are there at first; others are started by them
    MaxOps,         \* bound: writes and blocks
    MaxDepth,       \* bound: nesting of the blocks of a task
    MaxCancels      \* bound: cancellations

\* One more than the gates that tasks can wait for or hold at a time.
Gates == 1 .. Cardinality(Tasks) + 1

ASSUME TasksAssumption ==
    /\ LoopOf \in [Tasks -> Loops] /\ First \subseteq Tasks
    /\ Conns \subseteq Nat /\ Writes = [by : Tasks, n : 1 .. MaxOps]
    /\ {MaxOps, MaxDepth, MaxCancels} \subseteq Nat
    /\ None \notin Tasks \cup Loops \cup Nat \cup {"begin", "write", "savepoint", "finish"}

VARIABLES
    asyncLock,  \* _async_lock and _async_lock_loop
    holder,     \* the task that holds each gate
    pool,       \* binding.txn_pool
    loose,      \* connections whose transaction was begun by a SAVEPOINT
    states,     \* every _TxnState: its connection and counter of savepoints, and
                \* (history) the writes that share the fate of its root block
    txn,        \* _txn: in each context, the number of a state or None
    blocks,     \* the blocks each task is in: state, savepoint (0: the root), and
                \* (history) the writes that share the fate of that savepoint
    at,         \* "absent", "idle", "waiting" for a gate, or "running" a call
    call,       \* the call: "begin", "write", "savepoint" or "finish"
    gate,       \* the gate it waits for, or holds during the call
    failed,     \* whether the block it is leaving is left with an exception
    orphans,    \* calls that are still running for tasks that have been cancelled
    ops, cancels

\* History.
VARIABLES
    promised,   \* writes whose call, and whose blocks, have all ended without an error
    undone,     \* writes in a block that was left with an exception
    mixed,      \* states whose savepoints were moved by two contexts at once, or
                \* by a call nobody waited for: nothing is expected of their blocks
    replaced    \* loops that lost their gate while a task held it or waited for it

lockVars == <<asyncLock, holder, replaced>>
connVars == <<sqlVars, pool, loose, states>>
contextVars == <<txn, blocks>>
taskVars == <<at, call, gate, failed>>
historyVars == <<promised, undone, mixed>>
vars == <<connVars, lockVars, contextVars, taskVars, orphans, ops, cancels, historyVars>>

Init ==
    /\ SqlInit
    /\ asyncLock = [gate |-> None, loop |-> None]
    /\ holder = [g \in Gates |-> None]
    /\ pool = <<>> /\ loose = {} /\ states = <<>>
    /\ txn = [t \in Tasks |-> None] /\ blocks = [t \in Tasks |-> <<>>]
    /\ at = [t \in Tasks |-> IF t \in First THEN "idle" ELSE "absent"]
    /\ call = [t \in Tasks |-> None] /\ gate = [t \in Tasks |-> None]
    /\ failed = [t \in Tasks |-> FALSE]
    /\ orphans = {}
    /\ ops = [t \in Tasks |-> 0] /\ cancels = 0
    /\ promised = {} /\ undone = {} /\ mixed = {} /\ replaced = {}

-----------------------------------------------------------------------------
(***************************************************************************)
(* Gates.                                                                  *)
(***************************************************************************)
\* A gate nobody refers to any more, whoever held it, is the next new one.
Unused(g) == asyncLock.gate # g /\ \A t \in Tasks : gate[t] # g

\* _get_async_lock(): the gate there is, if it is of this loop, else a new one.
LookUp(l, g) ==
    IF asyncLock.loop = l
    THEN g = asyncLock.gate /\ UNCHANGED <<asyncLock, replaced>>
    ELSE /\ Unused(g) /\ \A h \in Gates : Unused(h) => g <= h
         /\ asyncLock' = [gate |-> g, loop |-> l]
         /\ replaced' = replaced \cup {k \in Loops : asyncLock.loop = k /\
                            (holder[asyncLock.gate] # None \/ \E t \in Tasks : gate[t] = asyncLock.gate)}

\* Lock.release(): whoever holds it; it raises when nobody does.
Opened(g) == holder' = [holder EXCEPT ![g] = None]

Idle(t) ==
    /\ at' = [at EXCEPT ![t] = "idle"]
    /\ call' = [call EXCEPT ![t] = None]
    /\ gate' = [gate EXCEPT ![t] = None]
    /\ failed' = [failed EXCEPT ![t] = FALSE]

\* awrite(), and __aenter__ of a root block: get the gate, then wait for it.
Request(t, c) ==
    /\ at[t] = "idle" /\ txn[t] = None /\ MapThenSumSet(LAMBDA u : ops[u], Tasks) < MaxOps
    /\ \E g \in Gates :
        /\ LookUp(LoopOf[t], g)
        /\ IF asyncLock.loop = LoopOf[t] THEN UNCHANGED holder ELSE Opened(g)
        /\ gate' = [gate EXCEPT ![t] = g]
    /\ at' = [at EXCEPT ![t] = "waiting"]
    /\ call' = [call EXCEPT ![t] = c]
    /\ ops' = [ops EXCEPT ![t] = @ + 1]
    /\ UNCHANGED <<connVars, contextVars, failed, orphans, cancels, historyVars>>

Acquire(t) ==
    /\ at[t] = "waiting" /\ holder[gate[t]] = None
    /\ holder' = [holder EXCEPT ![gate[t]] = t]
    /\ at' = [at EXCEPT ![t] = "running"]
    /\ UNCHANGED <<connVars, asyncLock, replaced, contextVars, call, gate, failed, orphans, ops,
                   cancels, historyVars>>

-----------------------------------------------------------------------------
(***************************************************************************)
(* Blocks.                                                                 *)
(***************************************************************************)
\* The state of the root block that is open on a connection.
Current(c) ==
    {s \in DOMAIN states : states[s].conn = c /\
        \E t \in Tasks : blocks[t] # <<>> /\ blocks[t][1].state = s /\ blocks[t][1].save = 0}
NestedBy(T, s) == \E t \in T : \E i \in DOMAIN blocks[t] : blocks[t][i].state = s /\ blocks[t][i].save > 0

\* What t writes now in state s has the fate of t's innermost block.
Clear(t, s) == s \in Current(states[s].conn) /\ ~NestedBy(Tasks \ {t}, s)

\* The states whose blocks t disturbs when it moves a savepoint of s, or ends it:
\* another's on the same connection, and s when it has ended or is shared.
Disturbed(t, s) == (Current(states[s].conn) \cup {s}) \ (IF Clear(t, s) THEN {s} ELSE {})

\* The writes w join the innermost block of t that is left once the first k are.
Joined(t, s, k, w) ==
    IF k > 0 /\ blocks[t][k].save > 0
    THEN /\ blocks' = [blocks EXCEPT ![t] =
                        [SubSeq(@, 1, k) EXCEPT ![k].writes = blocks[t][k].writes \cup w]]
         /\ UNCHANGED states
    ELSE /\ blocks' = [blocks EXCEPT ![t] = SubSeq(@, 1, k)]
         /\ states' = [states EXCEPT ![s].writes = @ \cup w]

\* A block of s is over, with an exception or without, and its writes with it.
Kept(s, w)   == promised' = IF s \in mixed' THEN promised ELSE promised \cup w
Undone(s, w) == undone' = IF s \in mixed' THEN undone ELSE undone \cup w

-----------------------------------------------------------------------------
(***************************************************************************)
(* What a worker does to a connection: each call succeeds, or raises and   *)
(* leaves everything as it is.                                             *)
(***************************************************************************)
\* _checkout_txn_conn(): the last of the pool, or a new one.
Checkout(c) ==
    IF pool # <<>> THEN c = Last(pool)
    ELSE tx[c].at = "closed" /\ \A d \in Conns : d < c => tx[d].at # "closed"

Rest == IF pool = <<>> THEN pool ELSE Front(pool)
CanBegin(c) == ~InTransaction(c) /\ CanLock(c)

\* _begin_root(): back to the pool when BEGIN raises.
BeginRoot(c) ==
    /\ Checkout(c)
    /\ tx' = [tx EXCEPT ![c] = CASE CanBegin(c) -> Transaction("writing", db, {}, <<>>)
                                 [] InTransaction(c) -> @
                                 [] OTHER -> NoTx("idle")]
    /\ pool' = IF CanBegin(c) THEN Rest ELSE Append(Rest, c)
    /\ UNCHANGED <<db, loose>>

\* _begin_nested(): SAVEPOINT outside of a transaction begins one.
BeginNested(s) ==
    LET c == states[s].conn
        n == states[s].saves + 1
    IN  /\ states' = [states EXCEPT ![s].saves = n]
        /\ IF InTransaction(c) THEN SqlSavepoint(c, n) /\ UNCHANGED loose
           ELSE /\ Become(c, Transaction("begun", {}, {}, <<[name |-> n, own |-> {}]>>))
                /\ loose' = loose \cup {c}
                /\ UNCHANGED db
        /\ UNCHANGED pool

\* execute(): on the connection of the block its context is in, or of its thread.
CanWrite(s) ==
    IF s = None THEN \A c \in Conns : tx[c].at # "writing"
    ELSE tx[states[s].conn].at = "writing" \/ CanLock(states[s].conn)

Write(s, w) ==
    IF ~CanWrite(s) THEN UNCHANGED sqlVars
    ELSE IF s = None THEN db' = db \cup {w} /\ UNCHANGED tx
    ELSE SqlWrite(states[s].conn, w)

\* Only releases the savepoint.
FinishNestedOnlyReleases(s, n, fails) ==
    LET c == states[s].conn
    IN  IF \A i \in DOMAIN tx[c].saves : ~Latest(c, n, i) THEN UNCHANGED <<sqlVars, loose>>
        ELSE SqlRelease(c, n) /\ UNCHANGED loose

\* _finish() of a nested block.  The first savepoint of a loose transaction ends it.
FinishNested(s, n, fails) ==
    LET c == states[s].conn
    IN  IF \A i \in DOMAIN tx[c].saves : ~Latest(c, n, i) THEN UNCHANGED <<sqlVars, loose>>
        ELSE IF c \in loose /\ Latest(c, n, 1)
        THEN /\ IF fails THEN SqlRollback(c) ELSE SqlCommit(c)
             /\ loose' = loose \ {c}
        ELSE /\ IF fails THEN SqlRollbackToAndRelease(c, n) ELSE SqlRelease(c, n)
             /\ UNCHANGED loose

\* _finish() of a root block: nothing else ends its transaction.
FinishRoot(s, fails) ==
    /\ IF fails THEN SqlRollback(states[s].conn) ELSE SqlCommit(states[s].conn)
    /\ UNCHANGED loose

-----------------------------------------------------------------------------
(***************************************************************************)
(* The calls of a task, as their workers finish them.                      *)
(***************************************************************************)
Running(t, c) == at[t] = "running" /\ call[t] = c
Inner(t) == Last(blocks[t])

\* __aenter__ of a root block.
Begin(t) ==
    /\ Running(t, "begin")
    /\ \E c \in Conns :
        /\ BeginRoot(c)
        /\ IF CanBegin(c)
           THEN /\ states' = Append(states, [conn |-> c, saves |-> 0, writes |-> {}])
                /\ txn' = [txn EXCEPT ![t] = Len(states')]
                /\ blocks' = [blocks EXCEPT ![t] = <<[state |-> Len(states'), save |-> 0, writes |-> {}]>>]
                /\ UNCHANGED holder
           ELSE Opened(gate[t]) /\ UNCHANGED <<states, contextVars>>
    /\ Idle(t)
    /\ UNCHANGED <<asyncLock, replaced, orphans, ops, cancels, historyVars>>

\* __aenter__ of a nested block.
Nest(t) ==
    /\ Running(t, "savepoint")
    /\ BeginNested(txn[t])
    /\ blocks' = [blocks EXCEPT ![t] =
                    Append(@, [state |-> txn[t], save |-> states'[txn[t]].saves, writes |-> {}])]
    /\ mixed' = mixed \cup Disturbed(t, txn[t])
    /\ Idle(t)
    /\ UNCHANGED <<lockVars, txn, orphans, ops, cancels, promised, undone>>

\* aexecute(): through the gate, or in the block the context is in.
AWrite(t) ==
    LET s == txn[t]
        w == [by |-> t, n |-> ops[t]]
    IN  /\ Running(t, "write")
        /\ Write(s, w)
        /\ IF s # None /\ CanWrite(s) /\ Clear(t, s) THEN Joined(t, s, Len(blocks[t]), {w})
           ELSE UNCHANGED <<states, blocks>>
        /\ promised' = IF CanWrite(s) /\ (s = None \/ ~InTransaction(states[s].conn))
                       THEN promised \cup {w} ELSE promised
        /\ IF s = None THEN Opened(gate[t]) ELSE UNCHANGED holder
        /\ Idle(t)
        /\ UNCHANGED <<asyncLock, replaced, pool, loose, txn, orphans, ops, cancels, undone, mixed>>

\* __aexit__ of a nested block.
ExitNested(t) ==
    LET b == Inner(t)
    IN  /\ Running(t, "finish") /\ b.save > 0
        /\ FinishNested(b.state, b.save, failed[t])
        /\ mixed' = mixed \cup Disturbed(t, b.state)
        /\ IF failed[t]
           THEN /\ Undone(b.state, b.writes) /\ UNCHANGED states
                /\ blocks' = [blocks EXCEPT ![t] = Front(@)]
           ELSE Joined(t, b.state, Len(blocks[t]) - 1, b.writes) /\ UNCHANGED undone
        /\ Idle(t)
        /\ UNCHANGED <<lockVars, pool, txn, orphans, ops, cancels, promised>>

\* _cleanup_root(), and the gate, looked up again.
Cleanup(t) ==
    /\ pool' = Append(pool, states[Inner(t).state].conn)
    /\ txn' = [txn EXCEPT ![t] = None] /\ blocks' = [blocks EXCEPT ![t] = <<>>]
    /\ \E g \in Gates : LookUp(LoopOf[t], g) /\ Opened(g)
    /\ UNCHANGED states

\* __aexit__ of a root block.
ExitRoot(t) ==
    LET s == Inner(t).state
    IN  /\ Running(t, "finish") /\ Inner(t).save = 0
        /\ FinishRoot(s, failed[t])
        /\ mixed' = mixed \cup Disturbed(t, s)
        /\ IF failed[t] THEN Undone(s, states[s].writes) /\ UNCHANGED promised
           ELSE Kept(s, states[s].writes) /\ UNCHANGED undone
        /\ Cleanup(t)
        /\ Idle(t)
        /\ UNCHANGED <<orphans, ops, cancels>>

\* In a block, of its own or inherited: no gate.
Submit(t, c) ==
    /\ at[t] = "idle" /\ txn[t] # None /\ MapThenSumSet(LAMBDA u : ops[u], Tasks) < MaxOps
    /\ c = "savepoint" => Len(blocks[t]) < MaxDepth
    /\ at' = [at EXCEPT ![t] = "running"]
    /\ call' = [call EXCEPT ![t] = c]
    /\ ops' = [ops EXCEPT ![t] = @ + 1]
    /\ UNCHANGED <<connVars, lockVars, contextVars, gate, failed, orphans, cancels, historyVars>>

\* The body of its innermost block ends.
Leave(t) ==
    /\ at[t] = "idle" /\ blocks[t] # <<>>
    /\ at' = [at EXCEPT ![t] = "running"]
    /\ call' = [call EXCEPT ![t] = "finish"]
    /\ \E f \in BOOLEAN : failed' = [failed EXCEPT ![t] = f]
    /\ UNCHANGED <<connVars, lockVars, contextVars, gate, orphans, ops, cancels, historyVars>>

\* asyncio.create_task: u runs in a copy of t's context.
Spawn(t, u) ==
    /\ at[t] = "idle" /\ at[u] = "absent" /\ LoopOf[u] = LoopOf[t]
    /\ at' = [at EXCEPT ![u] = "idle"]
    /\ txn' = [txn EXCEPT ![u] = txn[t]]
    /\ UNCHANGED <<connVars, lockVars, blocks, call, gate, failed, orphans, ops, cancels, historyVars>>

-----------------------------------------------------------------------------
(***************************************************************************)
(* Cancellation: CancelledError is raised at the await; the call is taken  *)
(* back if no worker has started it, and goes on alone if one has.         *)
(***************************************************************************)
Orphan(t) ==
    [id |-> cancels, call |-> call[t], state |-> txn[t], write |-> [by |-> t, n |-> ops[t]],
     save |-> IF blocks[t] = <<>> THEN 0 ELSE Inner(t).save, fails |-> failed[t]]

Cancelled(t) ==
    /\ cancels < MaxCancels /\ cancels' = cancels + 1
    /\ Idle(t)
    /\ UNCHANGED <<sqlVars, loose, states, ops, historyVars>>

CancelWaiting(t) ==
    /\ at[t] = "waiting" /\ Cancelled(t)
    /\ UNCHANGED <<lockVars, pool, contextVars, orphans>>

\* "except Exception" does not see a CancelledError.
GateOpenedByWrites(t) == IF gate[t] # None /\ call[t] = "write" THEN Opened(gate[t]) ELSE UNCHANGED holder

\* The async with of awrite(), and the except clause of __aenter__.
GateOpened(t) == IF gate[t] # None THEN Opened(gate[t]) ELSE UNCHANGED holder

CancelCall(t) ==
    /\ at[t] = "running" /\ call[t] # "finish" /\ Cancelled(t)
    /\ orphans' \in {orphans, orphans \cup {Orphan(t)}}
    /\ GateOpened(t)
    /\ UNCHANGED <<asyncLock, replaced, pool, contextVars>>

\* The finally clause of __aexit__ cleans up behind a block that may still be open.
CancelFinish(t) ==
    /\ Running(t, "finish") /\ Cancelled(t)
    /\ orphans' \in {orphans, orphans \cup {Orphan(t)}}
    /\ IF Inner(t).save = 0 THEN Cleanup(t)
       ELSE blocks' = [blocks EXCEPT ![t] = Front(@)] /\ UNCHANGED <<lockVars, pool, txn>>

\* A worker finishes a call nobody waits for: a connection it begins a
\* transaction on is lost.
RunOrphan(o) ==
    LET s == o.state
    IN  /\ orphans' = orphans \ {o}
        /\ \/ /\ o.call = "begin"
              /\ \E c \in Conns : BeginRoot(c)
              /\ UNCHANGED <<states, mixed>>
           \/ /\ o.call = "write"
              /\ Write(s, o.write)
              /\ UNCHANGED <<pool, loose, states, mixed>>
           \/ /\ o.call = "savepoint"
              /\ BeginNested(s)
              /\ mixed' = mixed \cup (Current(states[s].conn) \ {s})
           \/ /\ o.call = "finish"
              /\ IF o.save > 0 THEN FinishNested(s, o.save, o.fails) ELSE FinishRoot(s, o.fails)
              /\ mixed' = mixed \cup Current(states[s].conn)
              /\ UNCHANGED <<pool, states>>
        /\ UNCHANGED <<lockVars, contextVars, taskVars, ops, cancels, promised, undone>>

\* A task of a loop that lost its gate may wait for ever.
Finished ==
    /\ orphans = {}
    /\ \A t \in Tasks :
        /\ at[t] # "running"
        /\ at[t] = "waiting" => LoopOf[t] \in replaced
        /\ blocks[t] = <<>>
    /\ UNCHANGED vars

Next ==
    \/ \E t \in Tasks :
        \/ \E c \in {"begin", "write"} : Request(t, c)
        \/ \E c \in {"savepoint", "write"} : Submit(t, c)
        \/ Acquire(t) \/ Begin(t) \/ Nest(t) \/ AWrite(t) \/ Leave(t) \/ ExitNested(t) \/ ExitRoot(t)
        \/ CancelWaiting(t) \/ CancelCall(t) \/ CancelFinish(t)
        \/ \E u \in Tasks : Spawn(t, u)
    \/ \E o \in orphans : RunOrphan(o)
    \/ Finished

Spec == Init /\ [][Next]_vars

-----------------------------------------------------------------------------
(***************************************************************************)
(* Properties.                                                             *)
(***************************************************************************)
\* A task is behind the gate of its loop: in a call that took it, or in its
\* root block.
Behind(t) ==
    \/ at[t] = "running" /\ gate[t] # None
    \/ blocks[t] # <<>> /\ blocks[t][1].save = 0

\* Whatever is cancelled, and whatever tasks a block starts, what a task was told
\* is true: the writes of blocks that ended without an error, and of calls made
\* outside any block, are in the database, and those of a block that was left
\* with an exception are not (Transaction._finish, _cleanup_root, execute).  The
\* exceptions are blocks in which two tasks, or a task and a call it no longer
\* waits for, moved savepoints at once.
BlocksWhole == promised \subseteq db /\ undone \cap db = {}

\* As long as no other loop has taken its gate away, at most one task of a loop is
\* behind it, and it is never left held by a task that has gone: every way out
\* of awrite(), __aenter__ and __aexit__ opens it, the cancelled ones included.
GatesSerialize ==
    \A l \in Loops \ replaced :
        /\ \A t, u \in Tasks : LoopOf[t] = l /\ LoopOf[u] = l /\ Behind(t) /\ Behind(u) => t = u
        /\ asyncLock.loop = l /\ holder[asyncLock.gate] # None => Behind(holder[asyncLock.gate])
=============================================================================
