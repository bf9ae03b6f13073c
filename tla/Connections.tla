----------------------------- MODULE Connections -----------------------------
(***************************************************************************)
(* Bindings and connections of src/obele/orm/database.py: the global       *)
(* binding that configure() replaces, the scopes of using(), the           *)
(* connections cached by thread, the pool of each binding, and what        *)
(* close(), close_all() and the end of a scope do to connections that      *)
(* others are using.                                                       *)
(*                                                                         *)
(* A process is a thread or a task: it has a context (its scope and its    *)
(* block).  A call of a task runs on a worker, and the cache is the        *)
(* worker's.  What is written, and who waits for whom, is in Transactions. *)
(***************************************************************************)
EXTENDS Naturals, Sequences, FiniteSets, SequencesExt

CONSTANTS
    Threads, Tasks, Workers,
    None,
    Calls,      \* what processes do, some of Operations
    InMemory,   \* the bindings whose path is a shared in-memory database
    PoolLimit,  \* idle connections a binding keeps for root blocks
    MaxBindings, MaxConns, MaxCalls

Operations ==
    {"execute", "block", "scope", "reenter", "inherit", "configure", "close", "close_all"}

ASSUME ConnectionsAssumption ==
    /\ Calls \subseteq Operations
    /\ PoolLimit \in Nat /\ MaxBindings \in Nat /\ MaxConns \in Nat /\ MaxCalls \in Nat
    /\ InMemory \subseteq 1 .. MaxBindings
    /\ Threads \cap Workers = {}

Procs == Threads \cup Tasks
Bindings == 1 .. MaxBindings
Conns == 1 .. MaxConns

\* Nobody and nothing: no thread or task, no binding, connection, block or
\* entry of a cache.
ASSUME NoneAssumption ==
    /\ None \notin Procs \cup Workers \cup Bindings \cup Conns
    /\ None \notin [conn : Conns, depth : Nat] \cup [generation : Nat, conn : Conns]

VARIABLES
    \* Database and its bindings
    global,      \* _global_binding
    generation,  \* _generation, bumped by close_all
    owned,       \* _Binding.owned, by binding
    pool,        \* _Binding.txn_pool, used as a stack
    anchor,      \* whether _Binding.anchor is an open connection
    cache,       \* _local.conns, by thread and binding
    \* connections
    home,        \* the binding a connection was opened for
    open,        \* the connections that are not closed
    rows,        \* the databases that hold what was written to them
    \* the context of each process
    scoped,      \* _scoped
    scopes,      \* the using() blocks it is in, with what _scoped was before
    txn,         \* _txn: the connection of its root block, and how many scopes deep it began
    \* the call each process is in
    at, thread, bind, conn,
    calls        \* calls it may still make

\* What the properties blame on whom: history, read by no action.
VARIABLES
    overtaken,   \* processes whose binding was closed during their call
    stray,       \* connections that were in use, or cached, when their binding was closed
    hidden,      \* connections that close() closed behind the back of their scope
    wrote        \* in-memory databases written to since they were last closed

databaseVars == <<global, generation, owned, pool, anchor, cache>>
contextVars == <<scoped, scopes, txn>>
callVars == <<at, thread, bind, conn>>
vars == <<databaseVars, home, open, rows, contextVars, callVars, calls,
          overtaken, stray, hidden, wrote>>

Init ==
    /\ global = None /\ generation = 0
    /\ owned = [b \in Bindings |-> {}]
    /\ pool = [b \in Bindings |-> <<>>]
    /\ anchor = [b \in Bindings |-> FALSE]
    /\ cache = [t \in Threads \cup Workers |-> [b \in Bindings |-> None]]
    /\ home = [c \in Conns |-> None] /\ open = {} /\ rows = {}
    /\ scoped = [p \in Procs |-> None]
    /\ scopes = [p \in Procs |-> <<>>]
    /\ txn = [p \in Procs |-> None]
    /\ at = [p \in Procs |-> "idle"]
    /\ thread = [p \in Procs |-> None]
    /\ bind = [p \in Procs |-> None]
    /\ conn = [p \in Procs |-> None]
    /\ calls = [p \in Procs |-> MaxCalls]
    /\ overtaken = {} /\ stray = {} /\ hidden = {} /\ wrote = {}

-----------------------------------------------------------------------------
(* Bindings *)

\* A binding is made by configure(), by using() or by the first call.
Made == {b \in Bindings : \E bb \in {global} \cup
             {scoped[p] : p \in Procs} \cup {home[c] : c \in Conns} \cup
             UNION {{s.binding : s \in ToSet(scopes[p])} : p \in Procs} :
                 bb # None /\ b <= bb}
IsNext(b) == b \in Bindings /\ b = Cardinality(Made) + 1

\* The global binding, or one whose scope somebody is in.
Live(b) == b = global \/ \E p \in Procs : \E s \in ToSet(scopes[p]) : s.binding = b

\* _binding(): the scope's, else the global one, which the first call makes.
BindingOf(p) == IF scoped[p] # None THEN scoped[p] ELSE global
Bound(p, b) ==
    IF BindingOf(p) = None
    THEN IsNext(b) /\ global' = b
    ELSE b = BindingOf(p) /\ UNCHANGED global

\* What an in-memory database holds is lost with the last connection to it.
Kept(written) ==
    {b \in written : b \in InMemory =>
        anchor'[b] \/ \E c \in open' : home[c] = b}

\* The connections of b that a call or a block has in its hands.
InUse(b) ==
    {conn[p] : p \in {q \in Procs : conn[q] # None /\ bind[q] = b}}
    \cup {txn[p].conn : p \in {q \in Procs : txn[q] # None /\ home[txn[q].conn] = b}}

\* _Binding.close_all: its connections are closed, in use or not, and forgotten.
CloseBinding(b) ==
    /\ open' = open \ (owned[b] \cup ToSet(pool[b]))
    /\ owned' = [owned EXCEPT ![b] = {}]
    /\ pool' = [pool EXCEPT ![b] = <<>>]
    /\ anchor' = [anchor EXCEPT ![b] = FALSE]
    /\ rows' = Kept(rows)
    /\ wrote' = wrote \ {b}
    /\ overtaken' = overtaken \cup {p \in Procs : at[p] # "idle" /\ bind[p] = b}
CloseNothing ==
    UNCHANGED <<open, owned, pool, anchor, rows, wrote, overtaken, stray>>

-----------------------------------------------------------------------------
(* Calls *)

\* A thread runs its own calls; one of a task goes to a worker that is free.
ThreadsOf(p) ==
    IF p \in Threads THEN {p} ELSE {w \in Workers : \A q \in Procs : thread[q] # w}

CanCall(p, op) == at[p] = "idle" /\ calls[p] > 0 /\ op \in Calls
Idle(p) ==
    /\ at' = [at EXCEPT ![p] = "idle"]
    /\ thread' = [thread EXCEPT ![p] = None]
    /\ bind' = [bind EXCEPT ![p] = None]
    /\ conn' = [conn EXCEPT ![p] = None]
Counted(p) == calls' = [calls EXCEPT ![p] = @ - 1]
Proceed(p, step, t, b, c) ==
    /\ at' = [at EXCEPT ![p] = step]
    /\ thread' = [thread EXCEPT ![p] = t]
    /\ bind' = [bind EXCEPT ![p] = b]
    /\ conn' = [conn EXCEPT ![p] = c]
    /\ overtaken' = overtaken \ {p}
    /\ Counted(p)
Goto(p, step) == at' = [at EXCEPT ![p] = step] /\ UNCHANGED <<thread, bind, conn, calls, overtaken>>

\* The entry of a thread's cache, unless it is of an earlier generation.
Cached(t, b) ==
    IF cache[t][b] # None /\ cache[t][b].generation = generation THEN cache[t][b].conn ELSE None

\* _connection(): the block's connection, the cached one, or a new one.
Execute(p) ==
    /\ CanCall(p, "execute")
    /\ \E t \in ThreadsOf(p) :
        \/ /\ txn[p] # None
           /\ Proceed(p, "use", t, home[txn[p].conn], txn[p].conn)
           /\ UNCHANGED global
        \/ /\ txn[p] = None
           /\ \E b \in Bindings :
               /\ Bound(p, b)
               /\ Proceed(p, IF Cached(t, b) # None THEN "use" ELSE "open", t, b, Cached(t, b))
    /\ UNCHANGED <<generation, owned, pool, anchor, cache, home, open, rows, contextVars,
                   stray, hidden, wrote>>

\* _checkout_txn_conn(): the connection last put into the pool, or a new one.
EnterBlock(p) ==
    /\ CanCall(p, "block") /\ txn[p] = None
    /\ \E t \in ThreadsOf(p), b \in Bindings :
        /\ Bound(p, b)
        /\ IF pool[b] # <<>>
           THEN /\ Proceed(p, "begin", t, b, Last(pool[b]))
                /\ pool' = [pool EXCEPT ![b] = Front(@)]
           ELSE /\ Proceed(p, "open for block", t, b, None)
                /\ UNCHANGED pool
    /\ UNCHANGED <<generation, owned, anchor, cache, home, open, rows, contextVars,
                   stray, hidden, wrote>>

\* _new_connection(): sqlite3.connect and the PRAGMAs, outside the lock ...
Open(p) ==
    /\ at[p] \in {"open", "open for block"}
    /\ \E c \in Conns :
        /\ home[c] = None /\ \A d \in 1 .. c - 1 : home[d] # None
        /\ home' = [home EXCEPT ![c] = bind[p]]
        /\ open' = open \cup {c}
        /\ conn' = [conn EXCEPT ![p] = c]
        /\ stray' = IF p \in overtaken \/ ~ Live(bind[p]) THEN stray \cup {c} ELSE stray
    /\ at' = [at EXCEPT ![p] = IF @ = "open" THEN "own" ELSE "own for block"]
    /\ UNCHANGED <<databaseVars, rows, contextVars, thread, bind, calls, overtaken, hidden, wrote>>

\* An in-memory database gets a connection of its own that nobody closes.
AnchoredNever(b) == anchor[b]
Anchored(b) == anchor[b] \/ b \in InMemory

\* ... and then under the lock the anchor and the list of owned connections.
Own(p) ==
    /\ at[p] \in {"own", "own for block"}
    /\ anchor' = [anchor EXCEPT ![bind[p]] = Anchored(bind[p])]
    /\ owned' = [owned EXCEPT ![bind[p]] = @ \cup {conn[p]}]
    /\ Goto(p, IF at[p] = "own" THEN "cache" ELSE "begin")
    /\ UNCHANGED <<global, generation, pool, cache, home, open, rows, contextVars, stray, hidden, wrote>>

\* sqlite3.connect, a PRAGMA or the connect of the anchor raises: the call ends,
\* and a connection that was opened goes with its last reference.
OpenFails(p) ==
    /\ at[p] \in {"open", "open for block", "own", "own for block"}
    /\ open' = open \ {conn[p]}
    /\ Idle(p)
    /\ UNCHANGED <<databaseVars, home, contextVars, calls, overtaken, stray, hidden, wrote>>
    /\ rows' = Kept(rows)

\* The connection is cached under the generation of this moment.
Cache(p) ==
    /\ at[p] = "cache"
    /\ cache' = [cache EXCEPT ![thread[p]][bind[p]] = [generation |-> generation, conn |-> conn[p]]]
    /\ Goto(p, "use")
    /\ UNCHANGED <<global, generation, owned, pool, anchor, home, open, rows, contextVars,
                   stray, hidden, wrote>>

\* What a committed write leaves; a closed connection raises instead.
Written(c) ==
    IF c \in open
    THEN rows' = rows \cup {home[c]} /\ wrote' = wrote \cup {home[c]}
    ELSE UNCHANGED <<rows, wrote>>

\* The statement.  In a block it is committed at the end of the block.
Use(p) ==
    /\ at[p] = "use"
    /\ IF txn[p] = None THEN Written(conn[p]) ELSE UNCHANGED <<rows, wrote>>
    /\ Idle(p)
    /\ UNCHANGED <<databaseVars, home, open, contextVars, calls, overtaken, stray, hidden>>

\* BEGIN on a closed connection raises, and the connection goes to the pool.
Begin(p) ==
    /\ at[p] = "begin"
    /\ IF conn[p] \in open
       THEN /\ txn' = [txn EXCEPT ![p] = [conn |-> conn[p], depth |-> Len(scopes[p])]]
            /\ Idle(p) /\ UNCHANGED <<calls, overtaken>>
       ELSE Goto(p, "release") /\ UNCHANGED txn
    /\ UNCHANGED <<databaseVars, home, open, rows, scoped, scopes, stray, hidden, wrote>>

\* _finish and the reset of _txn: COMMIT, which a closed connection refuses.
LeaveBlock(p) ==
    /\ at[p] = "idle" /\ txn[p] # None /\ txn[p].depth = Len(scopes[p])
    /\ \E t \in ThreadsOf(p) : thread' = [thread EXCEPT ![p] = t]
    /\ Written(txn[p].conn)
    /\ at' = [at EXCEPT ![p] = "release"]
    /\ bind' = [bind EXCEPT ![p] = home[txn[p].conn]]
    /\ conn' = [conn EXCEPT ![p] = txn[p].conn]
    /\ txn' = [txn EXCEPT ![p] = None]
    /\ UNCHANGED <<databaseVars, home, open, scoped, scopes, calls, overtaken, stray, hidden>>

\* The pool takes a connection back, or the binding gives it up.
HasRoom(b) == Len(pool[b]) < PoolLimit
DisownedNever(b, c) == owned[b]
Disowned(b, c) == owned[b] \ {c}

\* _release_txn_conn(): the pool of the binding of now, which need not be the
\* one the connection came from.
Release(p) ==
    /\ at[p] = "release"
    /\ LET b == BindingOf(p) IN
        IF HasRoom(b)
        THEN /\ pool' = [pool EXCEPT ![b] = Append(@, conn[p])]
             /\ Idle(p)
             /\ UNCHANGED owned
        ELSE /\ owned' = [owned EXCEPT ![b] = Disowned(b, conn[p])]
             /\ at' = [at EXCEPT ![p] = "shut"]
             /\ UNCHANGED <<pool, thread, bind, conn>>
    /\ UNCHANGED <<global, generation, anchor, cache, home, open, rows, contextVars, calls,
                   overtaken, stray, hidden, wrote>>

\* The pool was full: the connection is closed, outside the lock.
Shut(p) ==
    /\ at[p] = "shut"
    /\ open' = open \ {conn[p]}
    /\ Idle(p)
    /\ UNCHANGED <<databaseVars, home, contextVars, calls, overtaken, stray, hidden, wrote>>
    /\ rows' = Kept(rows)

-----------------------------------------------------------------------------
(* Scopes *)

\* with Database.using(...): a binding of its own, and _scoped is set to it.
EnterScope(p) ==
    /\ CanCall(p, "scope")
    /\ \E b \in Bindings :
        /\ IsNext(b)
        /\ scoped' = [scoped EXCEPT ![p] = b]
        /\ scopes' = [scopes EXCEPT ![p] = Append(@, [binding |-> b, outer |-> scoped[p]])]
    /\ Counted(p)
    /\ UNCHANGED <<databaseVars, home, open, rows, txn, callVars, overtaken, stray, hidden, wrote>>

\* The same DatabaseScope entered again after it has ended.
ReenterScope(p) ==
    /\ CanCall(p, "reenter")
    /\ \E b \in Made :
        /\ ~ Live(b) /\ \E c \in Conns : home[c] = b /\ c \in stray
        /\ scoped' = [scoped EXCEPT ![p] = b]
        /\ scopes' = [scopes EXCEPT ![p] = Append(@, [binding |-> b, outer |-> scoped[p]])]
    /\ Counted(p)
    /\ UNCHANGED <<databaseVars, home, open, rows, txn, callVars, overtaken, stray, hidden, wrote>>

\* A task starts inside a scope: its context is a copy.
InheritScope(p) ==
    /\ CanCall(p, "inherit") /\ p \in Tasks /\ calls[p] = MaxCalls
    /\ \E q \in Procs : scoped[q] # None /\ scoped' = [scoped EXCEPT ![p] = scoped[q]]
    /\ Counted(p)
    /\ UNCHANGED <<databaseVars, home, open, rows, scopes, txn, callVars, overtaken, stray, hidden, wrote>>

\* The end of a scope: _scoped is reset ...
LeaveScope(p) ==
    /\ at[p] = "idle" /\ scopes[p] # <<>> /\ (txn[p] # None => txn[p].depth < Len(scopes[p]))
    /\ \E t \in ThreadsOf(p) : thread' = [thread EXCEPT ![p] = t]
    /\ scoped' = [scoped EXCEPT ![p] = Last(scopes[p]).outer]
    /\ bind' = [bind EXCEPT ![p] = Last(scopes[p]).binding]
    /\ at' = [at EXCEPT ![p] = "leave scope"]
    /\ UNCHANGED <<databaseVars, home, open, rows, scopes, txn, conn, calls, overtaken, stray, hidden, wrote>>

\* ... and its connections are closed.  Caches keep them, under a key and a
\* generation that stay what they are.
EndScope(p) ==
    /\ at[p] = "leave scope"
    /\ CloseBinding(bind[p])
    /\ stray' = stray \cup InUse(bind[p]) \cup
           {cache[t][bind[p]].conn : t \in {u \in Threads \cup Workers : cache[u][bind[p]] # None}}
    /\ scopes' = [scopes EXCEPT ![p] = Front(@)]
    /\ Idle(p)
    /\ UNCHANGED <<global, generation, cache, home, scoped, txn, calls, hidden>>

-----------------------------------------------------------------------------
(* Closing *)

GenerationKept == generation
NextGeneration == generation + 1

NoEntries == [b \in Bindings |-> None]

\* close_all(): the connections of the global binding, whoever uses them; the
\* generation tells every thread to open its own again.
CloseAll(p) ==
    /\ CanCall(p, "close_all")
    /\ \E t \in ThreadsOf(p) : cache' = [cache EXCEPT ![t] = NoEntries]
    /\ generation' = NextGeneration
    /\ IF global = None THEN CloseNothing
       ELSE CloseBinding(global) /\ stray' = stray \cup InUse(global)
    /\ Counted(p)
    /\ UNCHANGED <<global, home, contextVars, callVars, hidden>>

\* configure(): close_all and a new global binding, under the lock.
Configure(p) ==
    /\ CanCall(p, "configure")
    /\ \E t \in ThreadsOf(p) : cache' = [cache EXCEPT ![t] = NoEntries]
    /\ generation' = NextGeneration
    /\ IF global = None THEN CloseNothing
       ELSE CloseBinding(global) /\ stray' = stray \cup InUse(global)
    /\ \E b \in Bindings : IsNext(b) /\ global' = b
    /\ Counted(p)
    /\ UNCHANGED <<home, contextVars, callVars, hidden>>

\* close(): every connection the thread has cached, of whatever binding; they
\* are taken off the lists of the global binding and of the caller's scope.
Close(p) ==
    /\ CanCall(p, "close")
    /\ \E t \in ThreadsOf(p) :
        LET closed == {cache[t][b].conn : b \in {bb \in Bindings : cache[t][bb] # None}}
            seen == {global, scoped[p]} IN
        /\ open' = open \ closed
        /\ owned' = [b \in Bindings |-> IF b \in seen THEN owned[b] \ closed ELSE owned[b]]
        /\ cache' = [cache EXCEPT ![t] = NoEntries]
        /\ hidden' = hidden \cup {c \in closed : home[c] \notin seen}
    /\ Counted(p)
    /\ UNCHANGED <<global, generation, pool, anchor, home, contextVars, callVars,
                   overtaken, stray, wrote>>
    /\ rows' = Kept(rows)

-----------------------------------------------------------------------------
Next ==
    \E p \in Procs :
        \/ Execute(p) \/ EnterBlock(p) \/ Open(p) \/ Own(p) \/ OpenFails(p) \/ Cache(p)
        \/ Use(p) \/ Begin(p) \/ LeaveBlock(p) \/ Release(p) \/ Shut(p)
        \/ EnterScope(p) \/ ReenterScope(p) \/ InheritScope(p) \/ LeaveScope(p) \/ EndScope(p)
        \/ CloseAll(p) \/ Configure(p) \/ Close(p)

Spec == Init /\ [][Next]_vars

-----------------------------------------------------------------------------
(* Properties *)

\* The binding that _binding() named when the block of p began.
ScopeInside(p) == txn[p] # None /\ txn[p].depth < Len(scopes[p])
BlockBinding(p) ==
    LET outer == scopes[p][txn[p].depth + 1].outer IN IF outer # None THEN outer ELSE global

\* What _connection() and _checkout_txn_conn() return is open, and a connection
\* to the database that _binding() names: whoever reconfigures, closes or
\* leaves scopes, whatever the caches and pools held before, and for every
\* statement of a block as for its BEGIN.  Inside a scope entered inside a block
\* it is the block's database, not the one _binding() names: the scope has no
\* effect on statements until the block ends.  Excused are only connections
\* that were in use, or being opened, when their binding was closed, and those
\* of a scope that is entered again.
GivenIsOpen ==
    \A p \in Procs :
        at[p] \in {"use", "begin"} /\ conn[p] \notin stray =>
            /\ conn[p] \in open
            /\ home[conn[p]] = IF ScopeInside(p) THEN BlockBinding(p) ELSE BindingOf(p)

\* The connections a live binding lists (what status() counts and closing it
\* will close) are its open ones: none is left behind open when a pool is full,
\* a thread closes its own or the configuration changes, and none is counted
\* that is closed.  Excused are connections that were being opened when
\* their binding was closed, and those of another scope that close() finds in
\* the thread's cache.
ConnectionsAccounted ==
    /\ \A c \in open \ stray :
        \/ Live(home[c]) /\ c \in owned[home[c]]
        \/ \E p \in Procs : conn[p] = c /\ at[p] \in {"own", "own for block", "shut"}
    /\ \A b \in Bindings : Live(b) => owned[b] \ (stray \cup hidden) \subseteq open

\* What is committed to an in-memory database stays until its binding is
\* closed, however many of its connections threads and blocks close meanwhile:
\* the anchor keeps it.
MemoryKept == wrote \subseteq rows
=============================================================================
