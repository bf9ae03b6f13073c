------------------------------ MODULE KVStore ------------------------------
(***************************************************************************)
(* One namespace of a KVStore, used by several callers.                    *)
(*                                                                         *)
(* A caller is a thread, or a task whose call runs on a worker.  Every     *)
(* method is the SQL statements it sends: a single one, a block of several *)
(* (BEGIN IMMEDIATE keeps other writers out until it ends), or, for        *)
(* lookups, a SELECT that may be followed by a DELETE of its own.  A clock *)
(* reading is taken where the method takes it, which is before it waits    *)
(* for the write lock.                                                     *)
(***************************************************************************)
EXTENDS Naturals

CONSTANTS
    Procs,      \* callers
    Keys,       \* keys, as numbers: they are sorted
    Vals,       \* the values callers store
    None,       \* NULL, no value, nobody
    Text,       \* a value that is no number
    TTLs,       \* the times to live they give
    Ops,        \* the operations they perform
    MaxOps,     \* bound: calls per caller
    MaxTime     \* bound of the clock

Lookups == {"get", "get_many", "items"}
Statements == {"set", "delete", "expire", "purge"}
Blocks == {"pop", "popitem", "setdefault", "increment", "swap"}
Values == Nat \cup {Text, None}

\* A call: what it is to do, to which keys, and when it read the clock.
Asked ==
    [op : Lookups \cup Statements \cup Blocks, keys : SUBSET Keys, val : Values, want : Values,
     ttl : Nat \cup {None}, since : Nat]

ASSUME KeysAssumption == Keys \subseteq Nat
ASSUME NoneAssumption == None \notin Nat \cup Procs \cup {Text} \cup Asked /\ Text \notin Nat
ASSUME OpsAssumption == Ops \subseteq Lookups \cup Statements \cup Blocks
ASSUME DataAssumption == Vals \subseteq Nat \cup {Text} /\ TTLs \subseteq Nat
ASSUME BoundsAssumption == MaxOps \in Nat /\ MaxTime \in Nat

VARIABLES
    rows,       \* the table, as committed
    draft,      \* the table as the open block sees it
    writer,     \* the caller inside a block
    clock,      \* time.time()
    pc,         \* where each caller stands
    call,       \* what it is doing, and when it read the clock
    found,      \* the rows a lookup has fetched
    target,     \* the key a block has decided to write, if any
    value,      \* the value it stores or returns; Text if it has raised
    answer,     \* what the last modifying call returned
    ops         \* calls made

table == <<rows, draft, writer>>
vars == <<table, clock, pc, call, found, target, value, answer, ops>>

Empty == [k \in Keys |-> None]

NoCall == [op |-> "get", keys |-> {}, val |-> None, want |-> None, ttl |-> None, since |-> 0]

\* What the namespace holds already may expire while the callers are at work.
Init ==
    /\ rows \in [Keys -> [val : Vals, exp : TTLs \cup {None}] \cup {None}]
    /\ draft = Empty
    /\ writer = None
    /\ clock = 0
    /\ pc = [p \in Procs |-> "idle"]
    /\ call = [p \in Procs |-> NoCall]
    /\ found = [p \in Procs |-> Empty]
    /\ target = [p \in Procs |-> {}]
    /\ value = [p \in Procs |-> None]
    /\ answer = [p \in Procs |-> [how |-> "done", keys |-> {}, val |-> None]]
    /\ ops = [p \in Procs |-> 0]

-----------------------------------------------------------------------------
(***************************************************************************)
(* The statements, as functions of a table.                                *)
(***************************************************************************)
\* Faulty: the deadline itself still counts.
LiveToTheEnd(row, t) == row # None /\ (row.exp = None \/ row.exp >= t)

Live(row, t) == row # None /\ (row.exp = None \/ row.exp > t)

After(t, ttl) == IF ttl = None THEN None ELSE t + ttl

Upsert(tab, K, v, exp) == [k \in Keys |-> IF k \in K THEN [val |-> v, exp |-> exp] ELSE tab[k]]
Without(tab, K) == [k \in Keys |-> IF k \in K THEN None ELSE tab[k]]

\* Rows that purge_expired deletes, with a clock reading of t.
Purged(tab, t) == {k \in Keys : tab[k] # None /\ ~Live(tab[k], t)}

\* The rows a statement touches, and the table it leaves.
Touched(c) ==
    CASE c.op = "set"    -> c.keys
      [] c.op = "delete" -> {k \in c.keys : rows[k] # None}
      [] c.op = "expire" -> {k \in c.keys : Live(rows[k], c.since)}
      [] c.op = "purge"  -> Purged(rows, c.since)

Changed(c) ==
    CASE c.op = "set"    -> Upsert(rows, c.keys, c.val, After(c.since, c.ttl))
      [] c.op = "expire" -> [k \in Keys |-> IF k \in Touched(c)
                                            THEN [rows[k] EXCEPT !.exp = After(c.since, c.ttl)]
                                            ELSE rows[k]]
      [] c.op \in {"delete", "purge"} -> Without(rows, Touched(c))

-----------------------------------------------------------------------------
(***************************************************************************)
(* Calls.  The clock is read first: by set and set_many (ttl), expire,     *)
(* persist, purge_expired and the queries that give all live entries.      *)
(***************************************************************************)
OneKey == {{k} : k \in Keys}
SomeKeys == SUBSET Keys \ {{}}

Calls(op) ==
    LET With(K, V, W, T) == [op : {op}, keys : K, val : V, want : W, ttl : T, since : {clock}]
    IN  CASE op = "set"        -> With(SomeKeys, Vals, {None}, TTLs \cup {None})
          [] op = "delete"     -> With(SomeKeys, {None}, {None}, {None})
          [] op = "expire"     -> With(OneKey, {None}, {None}, TTLs \cup {None})
          [] op = "purge"      -> With({Keys}, {None}, {None}, {None})
          [] op = "pop"        -> With(OneKey, {None}, {None, 0}, {None})
          [] op = "popitem"    -> With({Keys}, {None}, {None, 0}, {None})
          [] op = "setdefault" -> With(OneKey, Vals, {None}, {None})
          [] op = "increment"  -> With(OneKey, {1}, {None}, {None})
          [] op = "swap"       -> With(OneKey, Vals, Vals, TTLs \cup {None})
          [] op = "get"        -> With(OneKey, {None}, {None}, {None})
          [] op = "get_many"   -> With(SomeKeys, {None}, {None}, {None})
          [] op = "items"      -> With({Keys}, {None}, {None}, {None})

Goto(p, l) == pc' = [pc EXCEPT ![p] = l]

Request(p) ==
    /\ pc[p] = "idle"
    /\ ops[p] < MaxOps
    /\ \E op \in Ops : \E c \in Calls(op) : call' = [call EXCEPT ![p] = c]
    /\ ops' = [ops EXCEPT ![p] = @ + 1]
    /\ found' = [found EXCEPT ![p] = Empty]
    /\ Goto(p, "called")
    /\ UNCHANGED <<table, clock, target, value, answer>>

\* A modifying call returns, or raises.
Return(p, how, K, v) ==
    /\ Goto(p, "idle")
    /\ answer' = [answer EXCEPT ![p] = [how |-> how, keys |-> K, val |-> v]]
    /\ target' = [target EXCEPT ![p] = {}]
    /\ value' = [value EXCEPT ![p] = None]
    /\ call' = [call EXCEPT ![p] = NoCall]
    /\ UNCHANGED <<clock, found, ops>>

\* set, set_many, delete, delete_many, clear, prefix_delete, expire, persist and
\* purge_expired: one statement, or one transaction of executemany.
Statement(p) ==
    /\ pc[p] = "called"
    /\ call[p].op \in Statements
    /\ writer = None
    /\ rows' = Changed(call[p])
    /\ Return(p, "done", IF call[p].op = "set" THEN {} ELSE Touched(call[p]), None)
    /\ UNCHANGED <<draft, writer>>

\* The statement, or BEGIN, raises: the database is locked.
CallFails(p) ==
    /\ pc[p] = "called"
    /\ call[p].op \in Statements \cup Blocks
    /\ Return(p, "error", {}, None)
    /\ UNCHANGED table

-----------------------------------------------------------------------------
(***************************************************************************)
(* Lookups.                                                                *)
(***************************************************************************)
\* keys, values, items, len, range, prefix, scan: the clock reading is in the
\* query.
Snapshot(p) ==
    /\ pc[p] = "called"
    /\ call[p].op = "items"
    /\ found' = [found EXCEPT ![p] =
                   [k \in Keys |-> IF Live(rows[k], call[p].since) THEN rows[k] ELSE None]]
    /\ Goto(p, "idle")
    /\ UNCHANGED <<table, clock, call, target, value, answer, ops>>

\* _live_row and get_many fetch whatever rows there are.
Fetch(p) ==
    /\ pc[p] = "called"
    /\ call[p].op \in {"get", "get_many"}
    /\ found' = [found EXCEPT ![p] = [k \in Keys |-> IF k \in call[p].keys THEN rows[k] ELSE None]]
    /\ Goto(p, "fetched")
    /\ UNCHANGED <<table, clock, call, target, value, answer, ops>>

\* They look at the clock after that.
Check(p) ==
    /\ pc[p] = "fetched"
    /\ found' = [found EXCEPT ![p] = [k \in Keys |-> IF Live(@[k], clock) THEN @[k] ELSE None]]
    /\ Goto(p, IF call[p].op = "get" /\ found'[p] # found[p] THEN "lazy" ELSE "idle")
    /\ UNCHANGED <<table, clock, call, target, value, answer, ops>>

\* The expired row that was fetched is deleted, by its key.
LazyDelete(p) ==
    /\ pc[p] = "lazy"
    /\ writer = None
    /\ rows' = Without(rows, call[p].keys)
    /\ Goto(p, "idle")
    /\ UNCHANGED <<draft, writer, clock, call, found, target, value, answer, ops>>

LazyFails(p) ==
    /\ pc[p] = "lazy"
    /\ Goto(p, "idle")
    /\ UNCHANGED <<table, clock, call, found, target, value, answer, ops>>

-----------------------------------------------------------------------------
(***************************************************************************)
(* Blocks: pop, popitem, setdefault, increment, compare_and_swap.          *)
(***************************************************************************)
\* Faulty: BEGIN DEFERRED does not keep the other writers out.
BeginDeferred(p) ==
    /\ pc[p] = "called"
    /\ call[p].op \in Blocks
    /\ writer' = p
    /\ draft' = rows
    /\ Goto(p, "decide")
    /\ UNCHANGED <<rows, clock, call, found, target, value, answer, ops>>

Begin(p) ==
    /\ pc[p] = "called"
    /\ call[p].op \in Blocks
    /\ writer = None
    /\ writer' = p
    /\ draft' = rows
    /\ Goto(p, "decide")
    /\ UNCHANGED <<rows, clock, call, found, target, value, answer, ops>>

\* The key has been chosen and looked up: the block goes on at l, holding v.
\* An expired row is deleted inside the block.
Decided(p, k, v, l) ==
    /\ value' = [value EXCEPT ![p] = v]
    /\ target' = [target EXCEPT ![p] = IF l = "store" THEN {k} ELSE {}]
    /\ draft' = IF Live(draft[k], clock) THEN draft ELSE Without(draft, {k})
    /\ Goto(p, l)

Pop(p) ==
    /\ call[p].op = "pop"
    /\ \E k \in call[p].keys :
        IF Live(draft[k], clock) THEN Decided(p, k, draft[k].val, "store")
        ELSE Decided(p, k, None, IF call[p].want = None THEN "rollback" ELSE "commit")

\* The first or the last of the live keys.
PopItem(p) ==
    LET here == {k \in Keys : Live(draft[k], clock)}
        last == call[p].want # None
    IN  /\ call[p].op = "popitem"
        /\ \/ /\ here = {}
              /\ Goto(p, "rollback")
              /\ UNCHANGED <<target, value, draft>>
           \/ \E k \in here :
               /\ \A j \in here : IF last THEN j <= k ELSE j >= k
               /\ Decided(p, k, draft[k].val, "store")

SetDefault(p) ==
    /\ call[p].op = "setdefault"
    /\ \E k \in call[p].keys :
        IF Live(draft[k], clock) THEN Decided(p, k, draft[k].val, "commit")
        ELSE Decided(p, k, call[p].val, "store")

Increment(p) ==
    /\ call[p].op = "increment"
    /\ \E k \in call[p].keys :
        IF ~Live(draft[k], clock) THEN Decided(p, k, call[p].val, "store")
        ELSE IF draft[k].val = Text THEN Decided(p, k, Text, "rollback")
        ELSE Decided(p, k, draft[k].val + call[p].val, "store")

Swap(p) ==
    /\ call[p].op = "swap"
    /\ \E k \in call[p].keys :
        IF Live(draft[k], clock) /\ draft[k].val = call[p].want
        THEN Decided(p, k, call[p].val, "store")
        ELSE Decided(p, k, None, "commit")

Decide(p) ==
    /\ pc[p] = "decide"
    /\ Pop(p) \/ PopItem(p) \/ SetDefault(p) \/ Increment(p) \/ Swap(p)
    /\ UNCHANGED <<rows, writer, clock, call, found, answer, ops>>

\* self.delete, or self.set, which reads the clock again for the deadline.
Store(p) ==
    /\ pc[p] = "store"
    /\ draft' = IF call[p].op \in {"pop", "popitem"} THEN Without(draft, target[p])
                ELSE Upsert(draft, target[p], value[p], After(clock, call[p].ttl))
    /\ Goto(p, "commit")
    /\ UNCHANGED <<rows, writer, clock, call, found, target, value, answer, ops>>

\* A statement of the block raises.
BlockFails(p) ==
    /\ pc[p] \in {"decide", "store"}
    /\ Goto(p, "rollback")
    /\ value' = [value EXCEPT ![p] = Text]
    /\ UNCHANGED <<table, clock, call, found, target, answer, ops>>

Commit(p) ==
    /\ pc[p] = "commit"
    /\ rows' = draft
    /\ writer' = None
    /\ draft' = Empty
    /\ Return(p, "done", target[p], value[p])

\* A KeyError, or another exception.
Rollback(p) ==
    /\ pc[p] = "rollback"
    /\ writer' = None
    /\ draft' = Empty
    /\ Return(p, IF value[p] = None THEN "missing" ELSE "error", {}, None)
    /\ UNCHANGED rows

Tick ==
    /\ clock < MaxTime
    /\ clock' = clock + 1
    /\ UNCHANGED <<table, pc, call, found, target, value, answer, ops>>

Finished ==
    /\ \A p \in Procs : pc[p] = "idle" /\ ops[p] = MaxOps
    /\ clock = MaxTime
    /\ UNCHANGED vars

Next ==
    \/ Tick \/ Finished
    \/ \E p \in Procs :
        \/ Request(p) \/ Statement(p) \/ CallFails(p)
        \/ Snapshot(p) \/ Fetch(p) \/ Check(p) \/ LazyDelete(p) \/ LazyFails(p)
        \/ Begin(p) \/ Decide(p) \/ Store(p) \/ BlockFails(p) \/ Commit(p) \/ Rollback(p)

Spec == Init /\ [][Next]_vars

-----------------------------------------------------------------------------
(***************************************************************************)
(* Properties.                                                             *)
(***************************************************************************)
Calling(p) == pc[p] # "idle"

\* Every call takes effect at one moment, on what had not expired at some moment
\* since it was made, and answers accordingly; nothing else changes what anybody
\* sees.
Abstract == INSTANCE ExpiringMap WITH
    map <- rows,
    asked <- [p \in Procs |-> IF Calling(p) THEN call[p] ELSE None]
ImplementsExpiringMap == Abstract!Spec

\* A live entry goes away when its deadline passes or a call that is to remove,
\* replace or expire it takes effect, and for no other reason: cleaning up, be it
\* by purge_expired or by a lookup, takes nothing that is alive
\* (architecture.md:431: "a direct lookup lazily deletes an expired match").
RemovalsAreAsked ==
    [][\A k \in Keys :
        Live(rows[k], clock) /\ ~Live(rows[k], clock)' =>
            \/ rows'[k] = rows[k]
            \/ \E p \in Procs : /\ Calling(p) /\ pc'[p] = "idle"
                                /\ k \in call[p].keys
                                /\ call[p].op \in {"set", "delete", "expire", "pop", "popitem", "swap"}
      ]_vars

\* No lookup returns an entry that had expired when it was called.
ReadsExcludeExpired ==
    \A p \in Procs : pc[p] = "idle" /\ call[p].op \in Lookups =>
        \A k \in Keys :
            found[p][k] # None /\ found[p][k].exp # None => found[p][k].exp > call[p].since
=============================================================================
