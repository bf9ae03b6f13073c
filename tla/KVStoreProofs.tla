---------------------------- MODULE KVStoreProofs ----------------------------
(***************************************************************************)
(* A namespace of a KVStore is a map with deadlines: what its blocks are   *)
(* about to commit was decided by a clock reading of their own call, and   *)
(* nobody writes in between.                                               *)
(***************************************************************************)
EXTENDS KVStore, TLAPS

(***************************************************************************)
(* The inductive invariant.                                                *)
(***************************************************************************)
Entry == [val : Nat \cup {Text}, exp : Nat \cup {None}]
Map == [Keys -> Entry \cup {None}]
Places == {"idle", "called", "fetched", "lazy", "decide", "store", "commit", "rollback"}

\* What goes with what in a call.
Sensible(c) ==
    /\ c \in Asked
    /\ c.op \in {"set", "setdefault", "swap", "increment"} => c.val \in Nat \cup {Text}
    /\ c.op = "increment" => c.val \in Nat
    /\ c.op \in {"setdefault", "increment"} => c.ttl = None

Typed ==
    /\ rows \in Map /\ draft \in Map
    /\ writer \in Procs \cup {None}
    /\ clock \in Nat
    /\ pc \in [Procs -> Places]
    /\ call \in [Procs -> Asked]
    /\ found \in [Procs -> Map]
    /\ target \in [Procs -> SUBSET Keys]
    /\ value \in [Procs -> Values]

\* A block that looked at the table at time t has chosen to write v under k, or
\* to remove what is there.
Storing(c, k, t, v) ==
    \/ c.op = "pop" /\ k \in c.keys /\ Live(rows[k], t) /\ v = rows[k].val
    \/ /\ c.op = "popitem" /\ Live(rows[k], t) /\ v = rows[k].val
       /\ \/ \A j \in Keys : Live(rows[j], t) => j <= k
          \/ \A j \in Keys : Live(rows[j], t) => j >= k
    \/ c.op = "setdefault" /\ k \in c.keys /\ ~Live(rows[k], t) /\ v = c.val
    \/ /\ c.op = "increment" /\ k \in c.keys
       /\ IF Live(rows[k], t) THEN rows[k].val # Text /\ v = rows[k].val + c.val ELSE v = c.val
    \/ /\ c.op = "swap" /\ k \in c.keys /\ v = c.val
       /\ Live(rows[k], t) /\ rows[k].val = c.want

\* Or to leave the table and to answer v.
Telling(c, k, t, v) ==
    /\ k \in c.keys
    /\ \/ c.op = "pop" /\ ~Live(rows[k], t) /\ c.want # None /\ v = None
       \/ c.op = "setdefault" /\ Live(rows[k], t) /\ v = rows[k].val
       \/ c.op = "swap" /\ ~(Live(rows[k], t) /\ rows[k].val = c.want) /\ v = None

ToStore(c, K, v, tab) ==
    \E t \in c.since .. clock, k \in Keys :
        K = {k} /\ Storing(c, k, t, v) /\ tab \in {rows, Without(rows, {k})}

ToCommit(c, K, v, tab) ==
    \E t \in c.since .. clock, k \in Keys :
        \/ /\ K = {k} /\ Storing(c, k, t, v)
           /\ IF c.op \in {"pop", "popitem"} THEN tab = Without(rows, {k})
              ELSE \E u \in t .. clock : tab = Upsert(rows, {k}, v, After(u, c.ttl))
        \/ /\ K = {} /\ Telling(c, k, t, v)
           /\ tab = IF Live(rows[k], t) THEN rows ELSE Without(rows, {k})

\* A block is given up without an exception of a statement only when there is
\* nothing to pop.
ToGiveUp(c) ==
    \E t \in c.since .. clock :
        \/ c.op = "pop" /\ c.want = None /\ \E k \in c.keys : ~Live(rows[k], t)
        \/ c.op = "popitem" /\ \A k \in Keys : ~Live(rows[k], t)

Inside == {"decide", "store", "commit", "rollback"}

\* No deadline has passed at time t.
NotExpired(tab, t) == \A k \in Keys : tab[k] # None /\ tab[k].exp # None => tab[k].exp > t

Standing(p) ==
    /\ Sensible(call[p]) /\ call[p].since <= clock
    /\ pc[p] \in Inside <=> writer = p
    /\ pc[p] \in Inside => call[p].op \in Blocks
    /\ pc[p] = "fetched" => call[p].op \in {"get", "get_many"}
    /\ pc[p] = "lazy" => call[p].op = "get"
    /\ pc[p] \in Inside \cup {"called"} => found[p] = Empty
    /\ pc[p] \in {"idle", "lazy"} => NotExpired(found[p], call[p].since)
    /\ pc[p] \notin {"store", "commit", "rollback"} => target[p] = {} /\ value[p] = None
    /\ pc[p] = "decide" => draft = rows
    /\ pc[p] = "store" => ToStore(call[p], target[p], value[p], draft)
    /\ pc[p] = "commit" => ToCommit(call[p], target[p], value[p], draft)
    /\ pc[p] = "rollback" /\ value[p] = None => ToGiveUp(call[p])

Inv == Typed /\ \A p \in Procs : Standing(p)

(***************************************************************************)
(* Lemmas about tables and calls.                                          *)
(***************************************************************************)
LEMMA NoneApart ==
    /\ None \notin Nat /\ None \notin Procs /\ None # Text /\ None \notin Asked /\ Text \notin Nat
    /\ Inside = {"decide", "store", "commit", "rollback"}
BY NoneAssumption DEF Inside

LEMMA WithoutType == ASSUME NEW tab \in Map, NEW K PROVE Without(tab, K) \in Map
BY DEF Without, Map

LEMMA UpsertType ==
    ASSUME NEW tab \in Map, NEW K, NEW v \in Nat \cup {Text}, NEW exp \in Nat \cup {None}
    PROVE  Upsert(tab, K, v, exp) \in Map
BY DEF Upsert, Map, Entry

LEMMA AfterType ==
    ASSUME NEW t \in Nat, NEW ttl \in Nat \cup {None} PROVE After(t, ttl) \in Nat \cup {None}
BY DEF After

LEMMA EmptyType == Empty \in Map /\ \A t : NotExpired(Empty, t)
BY DEF Empty, Map, NotExpired

\* An entry that is there, and one that is live.
LEMMA EntryType ==
    ASSUME NEW tab \in Map, NEW k \in Keys, tab[k] # None
    PROVE  tab[k] \in Entry /\ tab[k].val \in Nat \cup {Text} /\ tab[k].exp \in Nat \cup {None}
BY DEF Map, Entry

LEMMA NoCallIsSensible == Sensible(NoCall) /\ NoCall.since = 0 /\ NoCall.op = "get"
BY DEF Sensible, NoCall, Asked, Lookups, Values

LEMMA CallsAreSensible ==
    ASSUME NEW op \in Ops, NEW c \in Calls(op), clock \in Nat
    PROVE  Sensible(c) /\ c.since = clock /\ c.op = op
<1> DEFINE With(K, V, W, T) == [op : {op}, keys : K, val : V, want : W, ttl : T, since : {clock}]
           Plain(K, T) == With(K, {None}, {None}, T)
<1>1. /\ Vals \subseteq Values /\ Vals \subseteq Nat \cup {Text} /\ 0 \in Values /\ 1 \in Nat
      /\ None \in Values /\ TTLs \cup {None} \subseteq Nat \cup {None} /\ Nat \subseteq Values
      /\ OneKey \subseteq SUBSET Keys /\ SomeKeys \subseteq SUBSET Keys /\ Keys \in SUBSET Keys
  BY DataAssumption DEF Values, OneKey, SomeKeys
<1>2. op \in {"get", "get_many", "items", "set", "delete", "expire", "purge",
              "pop", "popitem", "setdefault", "increment", "swap"}
  BY OpsAssumption DEF Lookups, Statements, Blocks
<1>3. op \in Lookups \cup Statements \cup Blocks
  BY OpsAssumption
<1>4. /\ op = "set"        => c \in With(SomeKeys, Vals, {None}, TTLs \cup {None})
      /\ op = "delete"     => c \in With(SomeKeys, {None}, {None}, {None})
      /\ op = "expire"     => c \in With(OneKey, {None}, {None}, TTLs \cup {None})
      /\ op = "purge"      => c \in With({Keys}, {None}, {None}, {None})
      /\ op = "pop"        => c \in With(OneKey, {None}, {None, 0}, {None})
      /\ op = "popitem"    => c \in With({Keys}, {None}, {None, 0}, {None})
      /\ op = "setdefault" => c \in With(OneKey, Vals, {None}, {None})
      /\ op = "increment"  => c \in With(OneKey, {1}, {None}, {None})
      /\ op = "swap"       => c \in With(OneKey, Vals, Vals, TTLs \cup {None})
      /\ op = "get"        => c \in With(OneKey, {None}, {None}, {None})
      /\ op = "get_many"   => c \in With(SomeKeys, {None}, {None}, {None})
      /\ op = "items"      => c \in With({Keys}, {None}, {None}, {None})
  BY DEF Calls
<1> HIDE DEF With
<1>5. \A K, V, W, T : c \in With(K, V, W, T) =>
        /\ c = [op |-> c.op, keys |-> c.keys, val |-> c.val, want |-> c.want, ttl |-> c.ttl,
                since |-> c.since]
        /\ c.op = op /\ c.keys \in K /\ c.val \in V /\ c.want \in W /\ c.ttl \in T
        /\ c.since = clock
  BY DEF With
<1>6. \A K \in SUBSET (SUBSET Keys), V \in SUBSET Values, W \in SUBSET Values,
         T \in SUBSET (Nat \cup {None}) :
        c \in With(K, V, W, T) => c \in Asked
  BY <1>3, <1>5 DEF Asked
<1>7. c.op = op /\ c.since = clock /\ c \in Asked
  <2>1. /\ SomeKeys \in SUBSET (SUBSET Keys) /\ OneKey \in SUBSET (SUBSET Keys)
        /\ {Keys} \in SUBSET (SUBSET Keys)
        /\ Vals \in SUBSET Values /\ {None} \in SUBSET Values /\ {None, 0} \in SUBSET Values
        /\ {1} \in SUBSET Values
        /\ TTLs \cup {None} \in SUBSET (Nat \cup {None}) /\ {None} \in SUBSET (Nat \cup {None})
    BY <1>1
  <2>2. CASE op \in {"get", "get_many", "items", "set"}
    BY <2>1, <2>2, <1>4, <1>5, <1>6
  <2>3. CASE op \in {"delete", "expire", "purge", "pop"}
    BY <2>1, <2>3, <1>4, <1>5, <1>6
  <2>4. CASE op \in {"popitem", "setdefault", "increment", "swap"}
    BY <2>1, <2>4, <1>4, <1>5, <1>6
  <2> QED
    BY <1>2, <2>2, <2>3, <2>4
<1>8. op \in {"set", "setdefault", "swap"} => c.val \in Nat \cup {Text}
  BY <1>1, <1>4, <1>5
<1>9. op = "increment" => c.val \in Nat
  BY <1>1, <1>4, <1>5
<1>10. op \in {"setdefault", "increment"} => c.ttl = None
  BY <1>4, <1>5
<1> QED
  BY <1>7, <1>8, <1>9, <1>10 DEF Sensible

(***************************************************************************)
(* A caller's step leaves the others as they stand.                        *)
(***************************************************************************)
Elsewhere(p) == \A q \in Procs \ {p} :
    /\ pc'[q] = pc[q] /\ call'[q] = call[q] /\ found'[q] = found[q]
    /\ target'[q] = target[q] /\ value'[q] = value[q]

LEMMA OneStands ==
    ASSUME Inv, NEW q \in Procs,
           pc'[q] = pc[q], call'[q] = call[q], found'[q] = found[q],
           target'[q] = target[q], value'[q] = value[q],
           clock' \in Nat, clock <= clock', pc[q] \in Inside <=> writer' = q,
           pc[q] \in Inside => rows' = rows /\ draft' = draft
    PROVE  Standing(q)'
<1>1. Standing(q) /\ clock \in Nat /\ call[q].since \in Nat
  BY DEF Inv, Typed, Standing, Sensible, Asked
<1>2. call[q].since .. clock \subseteq call[q].since .. clock'
  BY <1>1
<1>3. \A t \in call[q].since .. clock : t .. clock \subseteq t .. clock'
  BY <1>1
<1>4. ASSUME pc[q] \in Inside
      PROVE  /\ \A c, k, t, v : /\ Storing(c, k, t, v)' <=> Storing(c, k, t, v)
                                /\ Telling(c, k, t, v)' <=> Telling(c, k, t, v)
             /\ \A K : Without(rows, K)' = Without(rows, K)
             /\ \A K, v, e : Upsert(rows, K, v, e)' = Upsert(rows, K, v, e)
  BY <1>4 DEF Storing, Telling, Live, Without, Upsert
<1>5. pc[q] = "store" => ToStore(call[q], target[q], value[q], draft)'
  <2> SUFFICES ASSUME pc[q] = "store" PROVE ToStore(call[q], target[q], value[q], draft)'
    OBVIOUS
  <2>1. PICK t \in call[q].since .. clock, k \in Keys :
          /\ target[q] = {k} /\ Storing(call[q], k, t, value[q])
          /\ draft \in {rows, Without(rows, {k})}
    BY <1>1 DEF Standing, ToStore
  <2> QED
    BY <2>1, <1>2, <1>4 DEF ToStore, Inside
<1>6. pc[q] = "commit" => ToCommit(call[q], target[q], value[q], draft)'
  <2> SUFFICES ASSUME pc[q] = "commit" PROVE ToCommit(call[q], target[q], value[q], draft)'
    OBVIOUS
  <2>1. PICK t \in call[q].since .. clock, k \in Keys :
        \/ /\ target[q] = {k} /\ Storing(call[q], k, t, value[q])
           /\ IF call[q].op \in {"pop", "popitem"} THEN draft = Without(rows, {k})
              ELSE \E u \in t .. clock : draft = Upsert(rows, {k}, value[q], After(u, call[q].ttl))
        \/ /\ target[q] = {} /\ Telling(call[q], k, t, value[q])
           /\ draft = IF Live(rows[k], t) THEN rows ELSE Without(rows, {k})
    BY <1>1 DEF Standing, ToCommit
  <2>2. Inside = {"decide", "store", "commit", "rollback"} /\ pc[q] \in Inside
    BY NoneApart
  <2>3. t \in call[q].since .. clock' /\ \A u \in t .. clock : u \in t .. clock'
    BY <1>2, <1>3
  <2>4. CASE /\ target[q] = {k} /\ Storing(call[q], k, t, value[q])
             /\ IF call[q].op \in {"pop", "popitem"} THEN draft = Without(rows, {k})
                ELSE \E u \in t .. clock : draft = Upsert(rows, {k}, value[q], After(u, call[q].ttl))
    BY <2>2, <2>3, <2>4, <1>4 DEF ToCommit
  <2>5. CASE /\ target[q] = {} /\ Telling(call[q], k, t, value[q])
             /\ draft = IF Live(rows[k], t) THEN rows ELSE Without(rows, {k})
    BY <2>2, <2>3, <2>5, <1>4 DEF ToCommit
  <2> QED
    BY <2>1, <2>4, <2>5
<1>7. pc[q] = "rollback" /\ value[q] = None => ToGiveUp(call[q])'
  BY <1>1, <1>2 DEF Standing, ToGiveUp, Inside
<1>8. Sensible(call[q])' /\ call[q].since <= clock'
  BY <1>1 DEF Standing, Sensible
<1> QED
  BY <1>1, <1>5, <1>6, <1>7, <1>8 DEF Standing, NotExpired, Inside

LEMMA OthersStand ==
    ASSUME Inv, NEW p \in Procs, Elsewhere(p), clock' = clock,
           writer' = writer \/ (writer \in {None, p} /\ writer' \in {None, p}),
           writer \in Procs \ {p} => rows' = rows /\ draft' = draft
    PROVE  \A q \in Procs \ {p} : Standing(q)'
<1> SUFFICES ASSUME NEW q \in Procs \ {p} PROVE Standing(q)'
  OBVIOUS
<1>1. clock' \in Nat /\ clock <= clock'
  BY DEF Inv, Typed
<1>2. pc[q] \in Inside <=> writer = q
  BY DEF Inv, Standing
<1>3. writer' = q <=> writer = q
  BY NoneApart
<1>4. pc[q] \in Inside => rows' = rows /\ draft' = draft
  BY <1>2
<1> QED
  BY <1>1, <1>2, <1>3, <1>4, OneStands DEF Elsewhere

(***************************************************************************)
(* The invariant is inductive.                                             *)
(***************************************************************************)
LEMMA InvInit == Init => Inv
<1> SUFFICES ASSUME Init PROVE Inv
  OBVIOUS
<1>1. rows \in Map
  BY DataAssumption DEF Init, Map, Entry
<1>2. NoCall \in Asked
  BY NoCallIsSensible DEF Sensible
<1>3. Typed
  BY <1>1, <1>2, EmptyType DEF Init, Typed, Places, Values
<1>4. ASSUME NEW p \in Procs PROVE Standing(p)
  <2>1. pc[p] = "idle" /\ call[p] = NoCall /\ found[p] = Empty /\ target[p] = {} /\ value[p] = None
    BY DEF Init
  <2>2. writer # p /\ clock = 0
    BY NoneApart DEF Init
  <2> QED
    BY <2>1, <2>2, NoCallIsSensible, EmptyType DEF Standing, Inside
<1> QED
  BY <1>3, <1>4 DEF Inv

\* What a step needs to show.
LEMMA Together ==
    ASSUME Inv, NEW p \in Procs, Typed', Elsewhere(p), clock' = clock,
           writer' = writer \/ (writer \in {None, p} /\ writer' \in {None, p}),
           writer \in Procs \ {p} => rows' = rows /\ draft' = draft,
           Standing(p)'
    PROVE  Inv'
BY OthersStand DEF Inv

LEMMA TickKeeps == ASSUME Inv, Tick PROVE Inv'
<1>1. clock \in Nat /\ clock' = clock + 1
  BY DEF Inv, Typed, Tick
<1>2. Typed'
  BY <1>1 DEF Inv, Typed, Tick, table
<1>3. ASSUME NEW q \in Procs PROVE Standing(q)'
  <2>1. pc[q] \in Inside <=> writer' = q
    BY DEF Inv, Standing, Tick, table
  <2> QED
    BY <1>1, <2>1, OneStands DEF Tick, table
<1> QED
  BY <1>2, <1>3 DEF Inv

LEMMA RequestKeeps == ASSUME Inv, NEW p \in Procs, Request(p) PROVE Inv'
<1>0. PICK op \in Ops : \E c \in Calls(op) : call' = [call EXCEPT ![p] = c]
  BY DEF Request
<1>1. PICK c \in Calls(op) : call' = [call EXCEPT ![p] = c]
  BY <1>0
<1>2. /\ Typed /\ Standing(p) /\ clock \in Nat
      /\ pc[p] = "idle" /\ pc' = [pc EXCEPT ![p] = "called"]
      /\ found' = [found EXCEPT ![p] = Empty]
      /\ UNCHANGED <<rows, draft, writer, clock, target, value>>
  BY DEF Inv, Typed, Request, Goto, table
<1>3. Sensible(c) /\ c.since = clock /\ c \in Asked
  BY <1>2, CallsAreSensible DEF Sensible
<1>4. Typed'
  BY <1>1, <1>2, <1>3, EmptyType DEF Typed, Places
<1>5. Elsewhere(p)
  BY <1>1, <1>2 DEF Elsewhere, Typed
<1>6. pc'[p] = "called" /\ call'[p] = c /\ found'[p] = Empty /\ clock <= clock
  BY <1>1, <1>2 DEF Typed
<1>7. Standing(p)'
  BY <1>2, <1>3, <1>6 DEF Standing, Inside, Sensible
<1> QED
  BY <1>2, <1>4, <1>5, <1>7, Together

\* A modifying call returns.
LEMMA ReturnKeeps ==
    ASSUME Inv, NEW p \in Procs, NEW how, NEW K, NEW v, Return(p, how, K, v),
           pc[p] \in {"called", "commit", "rollback"},
           rows' \in Map, draft' \in Map, writer' \in {writer, None}, writer' # p,
           writer \notin {None, p} => UNCHANGED table
    PROVE  Inv'
<1>1. /\ Typed /\ Standing(p)
      /\ pc' = [pc EXCEPT ![p] = "idle"]
      /\ target' = [target EXCEPT ![p] = {}]
      /\ value' = [value EXCEPT ![p] = None]
      /\ call' = [call EXCEPT ![p] = NoCall]
      /\ UNCHANGED <<clock, found>>
  BY DEF Inv, Return, Goto
<1>2. NoCall \in Asked
  BY NoCallIsSensible DEF Sensible
<1>3. Typed'
  BY <1>1, <1>2 DEF Typed, Places, Values
<1>4. Elsewhere(p)
  BY <1>1 DEF Elsewhere, Typed
<1>5. found[p] = Empty
  BY <1>1 DEF Standing, Inside
<1>6. /\ pc'[p] = "idle" /\ call'[p] = NoCall /\ found'[p] = Empty /\ target'[p] = {}
      /\ value'[p] = None
  BY <1>1, <1>5 DEF Typed
<1>7. clock' \in Nat /\ 0 <= clock'
  BY <1>3 DEF Typed
<1>8. Standing(p)'
  BY <1>6, <1>7, NoCallIsSensible, EmptyType DEF Standing, Inside, Sensible, NotExpired
<1>9. writer' = writer \/ (writer \in {None, p} /\ writer' \in {None, p})
  BY DEF table
<1>10. writer \in Procs \ {p} => rows' = rows /\ draft' = draft
  BY NoneApart DEF table
<1> QED
  BY <1>1, <1>3, <1>4, <1>8, <1>9, <1>10, Together

LEMMA ChangedType ==
    ASSUME Typed, NEW c, Sensible(c), c.op \in Statements
    PROVE  Changed(c) \in Map
<1>1. c.since \in Nat /\ c.ttl \in Nat \cup {None} /\ rows \in Map
  BY DEF Sensible, Asked, Typed
<1>2. After(c.since, c.ttl) \in Nat \cup {None}
  BY <1>1, AfterType
<1>3. CASE c.op = "set"
  BY <1>1, <1>2, <1>3, UpsertType DEF Changed, Sensible
<1>4. CASE c.op = "expire"
  <2>1. Changed(c) = [k \in Keys |-> IF k \in Touched(c)
                                     THEN [rows[k] EXCEPT !.exp = After(c.since, c.ttl)]
                                     ELSE rows[k]]
    BY <1>4 DEF Changed
  <2>2. ASSUME NEW k \in Keys, k \in Touched(c)
        PROVE  [rows[k] EXCEPT !.exp = After(c.since, c.ttl)] \in Entry
    <3>1. rows[k] \in Entry
      BY <2>2, <1>1, <1>4, EntryType DEF Touched, Live
    <3> QED
      BY <3>1, <1>2 DEF Entry
  <2> QED
    BY <2>1, <2>2, <1>1 DEF Map
<1>5. CASE c.op \in {"delete", "purge"}
  BY <1>1, <1>5, WithoutType DEF Changed
<1> QED
  BY <1>3, <1>4, <1>5 DEF Statements

LEMMA StatementKeeps == ASSUME Inv, NEW p \in Procs, Statement(p) PROVE Inv'
<1>1. Typed /\ Sensible(call[p])
  BY DEF Inv, Standing
<1>2. rows' \in Map
  BY <1>1, ChangedType DEF Statement
<1>3. \E how, K, v : Return(p, how, K, v)
  BY DEF Statement
<1>4. writer = None /\ pc[p] = "called" /\ draft' = draft /\ writer' = writer
  BY DEF Statement
<1> QED
  BY <1>1, <1>2, <1>3, <1>4, ReturnKeeps, NoneApart DEF Typed

LEMMA CallFailsKeeps == ASSUME Inv, NEW p \in Procs, CallFails(p) PROVE Inv'
<1>1. Typed /\ Standing(p) /\ pc[p] = "called" /\ UNCHANGED table
  BY DEF Inv, CallFails
<1>2. Return(p, "error", {}, None)
  BY DEF CallFails
<1>3. writer # p
  BY <1>1, NoneApart DEF Standing
<1> QED
  BY <1>1, <1>2, <1>3, ReturnKeeps DEF Typed, table

LEMMA CommitKeeps == ASSUME Inv, NEW p \in Procs, Commit(p) PROVE Inv'
<1>1. /\ Typed /\ pc[p] = "commit" /\ rows' = draft /\ writer' = None /\ draft' = Empty
  BY DEF Inv, Commit
<1>2. Return(p, "done", target[p], value[p])
  BY DEF Commit
<1>3. writer = p
  BY <1>1, NoneApart DEF Inv, Standing
<1> QED
  BY <1>1, <1>2, <1>3, ReturnKeeps, EmptyType, NoneApart DEF Typed

LEMMA RollbackKeeps == ASSUME Inv, NEW p \in Procs, Rollback(p) PROVE Inv'
<1>1. /\ Typed /\ pc[p] = "rollback" /\ rows' = rows /\ writer' = None /\ draft' = Empty
  BY DEF Inv, Rollback
<1>2. \E how : Return(p, how, {}, None)
  BY DEF Rollback
<1>3. writer = p
  BY <1>1, NoneApart DEF Inv, Standing
<1> QED
  BY <1>1, <1>2, <1>3, ReturnKeeps, EmptyType, NoneApart DEF Typed

\* Steps of a lookup: only what has been fetched changes, and perhaps a row that
\* nobody has a block on.
LEMMA LookingKeeps ==
    ASSUME Inv, NEW p \in Procs, pc[p] \in {"called", "fetched", "lazy"},
           NEW l \in {"idle", "fetched", "lazy"}, Goto(p, l),
           NEW seen \in Map, found' = [found EXCEPT ![p] = seen],
           l \in {"idle", "lazy"} => NotExpired(seen, call[p].since),
           l = "fetched" => call[p].op \in {"get", "get_many"},
           l = "lazy" => call[p].op = "get",
           rows' \in Map, writer \in Procs => rows' = rows,
           UNCHANGED <<draft, writer, clock, call, target, value>>
    PROVE  Inv'
<1>1. Typed /\ Standing(p) /\ pc' = [pc EXCEPT ![p] = l]
  BY DEF Inv, Goto
<1>2. Typed'
  BY <1>1 DEF Typed, Places
<1>3. Elsewhere(p)
  BY <1>1 DEF Elsewhere, Typed
<1>4. pc'[p] = l /\ found'[p] = seen
  BY <1>1 DEF Typed
<1>5. Standing(p)'
  BY <1>1, <1>4 DEF Standing, Inside, NotExpired, Sensible
<1> QED
  BY <1>2, <1>3, <1>5, Together

LEMMA SnapshotKeeps == ASSUME Inv, NEW p \in Procs, Snapshot(p) PROVE Inv'
<1> DEFINE seen == [k \in Keys |-> IF Live(rows[k], call[p].since) THEN rows[k] ELSE None]
<1>1. Typed /\ pc[p] = "called" /\ Goto(p, "idle") /\ found' = [found EXCEPT ![p] = seen]
  BY DEF Inv, Snapshot
<1>2. seen \in Map
  BY <1>1 DEF Typed, Map
<1>3. NotExpired(seen, call[p].since)
  BY DEF NotExpired, Live
<1>4. UNCHANGED <<rows, draft, writer, clock, call, target, value>>
  BY DEF Snapshot, table
<1> HIDE DEF seen
<1> QED
  BY <1>1, <1>2, <1>3, <1>4, LookingKeeps DEF Typed

LEMMA FetchKeeps == ASSUME Inv, NEW p \in Procs, Fetch(p) PROVE Inv'
<1> DEFINE seen == [k \in Keys |-> IF k \in call[p].keys THEN rows[k] ELSE None]
<1>1. Typed /\ pc[p] = "called" /\ Goto(p, "fetched") /\ found' = [found EXCEPT ![p] = seen]
  BY DEF Inv, Fetch
<1>2. seen \in Map
  BY <1>1 DEF Typed, Map
<1>3. UNCHANGED <<rows, draft, writer, clock, call, target, value>>
  BY DEF Fetch, table
<1>4. call[p].op \in {"get", "get_many"}
  BY DEF Fetch
<1> HIDE DEF seen
<1> QED
  BY <1>1, <1>2, <1>3, <1>4, LookingKeeps DEF Typed

LEMMA CheckKeeps == ASSUME Inv, NEW p \in Procs, Check(p) PROVE Inv'
<1> DEFINE seen == [k \in Keys |-> IF Live(found[p][k], clock) THEN found[p][k] ELSE None]
           l == IF call[p].op = "get" /\ found'[p] # found[p] THEN "lazy" ELSE "idle"
<1>1. /\ Typed /\ Standing(p) /\ pc[p] = "fetched" /\ Goto(p, l)
      /\ found' = [found EXCEPT ![p] = seen]
  BY DEF Inv, Check
<1>2. found[p] \in Map /\ clock \in Nat /\ call[p].since \in Nat /\ call[p].since <= clock
  BY <1>1 DEF Typed, Standing, Asked
<1>3. seen \in Map
  BY <1>2 DEF Map
<1>4. ASSUME NEW k \in Keys, seen[k] # None, seen[k].exp # None
      PROVE  seen[k].exp > call[p].since
  <2>1. Live(found[p][k], clock) /\ seen[k] = found[p][k]
    BY <1>4
  <2>2. seen[k].exp \in Nat
    BY <1>4, <1>3, EntryType
  <2> HIDE DEF seen
  <2> QED
    BY <2>1, <2>2, <1>2, <1>4 DEF Live
<1>5. NotExpired(seen, call[p].since)
  BY <1>4 DEF NotExpired
<1>6. UNCHANGED <<rows, draft, writer, clock, call, target, value>>
  BY DEF Check, table
<1>7. l \in {"idle", "lazy"} /\ (l = "lazy" => call[p].op = "get")
  OBVIOUS
<1> HIDE DEF seen, l
<1> QED
  BY <1>1, <1>3, <1>5, <1>6, <1>7, LookingKeeps DEF Typed

LEMMA LazyKeeps == ASSUME Inv, NEW p \in Procs, LazyDelete(p) \/ LazyFails(p) PROVE Inv'
<1>1. /\ Typed /\ Standing(p) /\ pc[p] = "lazy" /\ Goto(p, "idle")
      /\ UNCHANGED <<draft, writer, clock, call, found, target, value>>
  BY DEF Inv, LazyDelete, LazyFails, table
<1>2. found[p] \in Map /\ found' = [found EXCEPT ![p] = found[p]]
  BY <1>1 DEF Typed
<1>3. NotExpired(found[p], call[p].since)
  BY <1>1 DEF Standing
<1>4. rows' \in Map /\ (writer \in Procs => rows' = rows)
  BY <1>1, WithoutType, NoneApart DEF LazyDelete, LazyFails, table, Typed
<1> QED
  BY <1>1, <1>2, <1>3, <1>4, LookingKeeps

\* Steps of a block.
LEMMA InsideKeeps ==
    ASSUME Inv, NEW p \in Procs, writer' = p, writer = p \/ (writer = None /\ pc[p] = "called"),
           call[p].op \in Blocks, NEW l \in Inside, Goto(p, l),
           NEW K \in SUBSET Keys, target' = [target EXCEPT ![p] = K],
           NEW v \in Values, value' = [value EXCEPT ![p] = v],
           draft' \in Map, UNCHANGED <<rows, clock, call, found>>,
           l = "decide" => K = {} /\ v = None /\ draft' = rows,
           l = "store" => ToStore(call[p], K, v, draft'),
           l = "commit" => ToCommit(call[p], K, v, draft'),
           l = "rollback" /\ v = None => ToGiveUp(call[p])
    PROVE  Inv'
<1>1. Typed /\ Standing(p) /\ pc' = [pc EXCEPT ![p] = l]
  BY DEF Inv, Goto
<1>2. Typed'
  BY <1>1 DEF Typed, Places, Inside
<1>3. Elsewhere(p)
  BY <1>1 DEF Elsewhere, Typed
<1>4. pc'[p] = l /\ target'[p] = K /\ value'[p] = v
  BY <1>1 DEF Typed
<1>5. found[p] = Empty
  BY <1>1, NoneApart DEF Standing
<1>6. \A c, k, t, w : /\ Storing(c, k, t, w)' <=> Storing(c, k, t, w)
                      /\ Telling(c, k, t, w)' <=> Telling(c, k, t, w)
  BY DEF Storing, Telling, Live
<1>7. /\ l = "store" => ToStore(call[p], target[p], value[p], draft)'
      /\ l = "commit" => ToCommit(call[p], target[p], value[p], draft)'
      /\ l = "rollback" /\ v = None => ToGiveUp(call[p])'
  <2>1. /\ ToStore(call[p], K, v, draft') => ToStore(call[p], target[p], value[p], draft)'
        /\ ToCommit(call[p], K, v, draft') => ToCommit(call[p], target[p], value[p], draft)'
    <3>1. rows' = rows /\ clock' = clock /\ call' = call
      OBVIOUS
    <3>2. ToStore(call[p], K, v, draft') => ToStore(call[p], target[p], value[p], draft)'
      BY <3>1, <1>4, <1>6 DEF ToStore
    <3>3. ToCommit(call[p], K, v, draft') => ToCommit(call[p], target[p], value[p], draft)'
      <4> SUFFICES ASSUME ToCommit(call[p], K, v, draft')
                   PROVE  ToCommit(call[p], target[p], value[p], draft)'
        OBVIOUS
      <4> DEFINE Put(t, k) ==
                   /\ K = {k} /\ Storing(call[p], k, t, v)
                   /\ IF call[p].op \in {"pop", "popitem"} THEN draft' = Without(rows, {k})
                      ELSE \E u \in t .. clock : draft' = Upsert(rows, {k}, v, After(u, call[p].ttl))
                 Told(t, k) ==
                   /\ K = {} /\ Telling(call[p], k, t, v)
                   /\ draft' = IF Live(rows[k], t) THEN rows ELSE Without(rows, {k})
      <4>1. PICK t \in call[p].since .. clock, k \in Keys : Put(t, k) \/ Told(t, k)
        BY DEF ToCommit
      <4>2. t \in call'[p].since .. clock' /\ target'[p] = K /\ value'[p] = v
        BY <3>1, <1>4
      <4>3. CASE Put(t, k)
        <5>1. Storing(call[p], k, t, v)'
          BY <4>3, <1>6
        <5> QED
          BY <4>2, <4>3, <5>1, <3>1 DEF ToCommit
      <4>4. CASE Told(t, k)
        <5>1. Telling(call[p], k, t, v)'
          BY <4>4, <1>6
        <5> QED
          BY <4>2, <4>4, <5>1, <3>1 DEF ToCommit
      <4> QED
        BY <4>1, <4>3, <4>4
    <3> QED
      BY <3>2, <3>3
  <2>2. ToGiveUp(call[p]) => ToGiveUp(call[p])'
    BY DEF ToGiveUp
  <2> QED
    BY <2>1, <2>2
<1>8. Standing(p)'
  BY <1>1, <1>4, <1>5, <1>7 DEF Standing, Inside, Sensible
<1>9. writer \notin Procs \ {p}
  BY NoneApart
<1> QED
  BY <1>2, <1>3, <1>8, <1>9, Together

LEMMA BeginKeeps == ASSUME Inv, NEW p \in Procs, Begin(p) PROVE Inv'
<1>1. Typed /\ Standing(p) /\ pc[p] = "called" /\ writer = None /\ writer' = p /\ draft' = rows
  BY DEF Inv, Begin
<1>2. target[p] = {} /\ value[p] = None
  BY <1>1 DEF Standing
<1>3. target' = [target EXCEPT ![p] = {}] /\ value' = [value EXCEPT ![p] = None]
  BY <1>1, <1>2 DEF Begin, Typed
<1>4. call[p].op \in Blocks /\ Goto(p, "decide") /\ UNCHANGED <<rows, clock, call, found>>
  BY DEF Begin
<1> QED
  BY <1>1, <1>3, <1>4, InsideKeeps DEF Typed, Inside, Values

\* The block knows its key.
LEMMA DecidedKeeps ==
    ASSUME Inv, NEW p \in Procs, pc[p] = "decide", UNCHANGED <<rows, writer, clock, call, found>>,
           NEW k \in Keys, NEW v \in Values, NEW l \in {"store", "commit", "rollback"},
           Decided(p, k, v, l),
           l = "store" => Storing(call[p], k, clock, v),
           l = "commit" => Telling(call[p], k, clock, v),
           l = "rollback" /\ v = None => ToGiveUp(call[p])
    PROVE  Inv'
<1> DEFINE K == IF l = "store" THEN {k} ELSE {}
<1>1. Typed /\ Standing(p) /\ draft = rows /\ writer = p /\ call[p].op \in Blocks
  BY DEF Inv, Standing, Inside
<1>2. clock \in call[p].since .. clock
  BY <1>1 DEF Standing, Typed, Sensible, Asked
<1>3. /\ value' = [value EXCEPT ![p] = v] /\ target' = [target EXCEPT ![p] = K]
      /\ draft' = IF Live(rows[k], clock) THEN rows ELSE Without(rows, {k})
      /\ Goto(p, l)
  BY <1>1 DEF Decided
<1>4. draft' \in Map
  BY <1>1, <1>3, WithoutType DEF Typed
<1>5. l = "store" => ToStore(call[p], K, v, draft')
  BY <1>2, <1>3 DEF ToStore
<1>6. l = "commit" => ToCommit(call[p], K, v, draft')
  BY <1>2, <1>3 DEF ToCommit
<1>7. K \in SUBSET Keys
  OBVIOUS
<1> HIDE DEF K
<1> QED
  BY <1>1, <1>3, <1>4, <1>5, <1>6, <1>7, InsideKeeps DEF Inside

LEMMA DecideKeeps == ASSUME Inv, NEW p \in Procs, Decide(p) PROVE Inv'
<1> DEFINE c == call[p]
<1>1. /\ Typed /\ Standing(p) /\ pc[p] = "decide" /\ draft = rows /\ writer = p
      /\ c.op \in Blocks /\ UNCHANGED <<rows, writer, clock, call, found>>
  BY DEF Inv, Standing, Inside, Decide
<1>2. /\ c.keys \subseteq Keys /\ c.val \in Values /\ Sensible(c)
      /\ clock \in Nat /\ clock \in c.since .. clock
  BY <1>1 DEF Standing, Typed, Sensible, Asked
<1>3. \A k \in Keys : rows[k] # None => rows[k].val \in Nat \cup {Text} /\ rows[k].val \in Values
  BY <1>1, EntryType DEF Typed, Values
<1>4. \A k \in Keys : \A t : Live(rows[k], t) => rows[k] # None
  BY DEF Live
<1>5. None \in Values /\ Text \in Values /\ Nat \subseteq Values
  BY DEF Values
<1> HIDE DEF c
<1>6. CASE Pop(p)
  <2>1. c.op = "pop"
    BY <1>6 DEF Pop, c
  <2>2. PICK k \in c.keys :
          IF Live(rows[k], clock) THEN Decided(p, k, rows[k].val, "store")
          ELSE Decided(p, k, None, IF c.want = None THEN "rollback" ELSE "commit")
    BY <1>1, <1>6 DEF Pop, c
  <2>3. CASE Live(rows[k], clock)
    <3>1. Storing(c, k, clock, rows[k].val)
      BY <2>1, <2>3 DEF Storing
    <3> QED
      BY <2>2, <2>3, <3>1, <1>1, <1>2, <1>3, <1>4, DecidedKeeps DEF c
  <2>4. CASE ~Live(rows[k], clock) /\ c.want = None
    <3>1. ToGiveUp(c)
      BY <2>1, <2>4, <1>2 DEF ToGiveUp
    <3> QED
      BY <2>2, <2>4, <3>1, <1>1, <1>2, <1>5, DecidedKeeps DEF c
  <2>5. CASE ~Live(rows[k], clock) /\ c.want # None
    <3>1. Telling(c, k, clock, None)
      BY <2>1, <2>5 DEF Telling
    <3> QED
      BY <2>2, <2>5, <3>1, <1>1, <1>2, <1>5, DecidedKeeps DEF c
  <2> QED
    BY <2>3, <2>4, <2>5
<1>7. CASE PopItem(p)
  <2>1. c.op = "popitem"
    BY <1>7 DEF PopItem, c
  <2> DEFINE here == {k \in Keys : Live(rows[k], clock)}
  <2>2. CASE here = {} /\ Goto(p, "rollback") /\ UNCHANGED <<target, value, draft>>
    <3>1. ToGiveUp(c)
      BY <2>1, <2>2, <1>2 DEF ToGiveUp
    <3>2. /\ target' = [target EXCEPT ![p] = target[p]] /\ target[p] \in SUBSET Keys
          /\ value' = [value EXCEPT ![p] = value[p]] /\ value[p] \in Values
          /\ draft' \in Map
      BY <2>2, <1>1 DEF Typed
    <3> QED
      BY <2>2, <3>1, <3>2, <1>1, InsideKeeps, ZenonT(30) DEF Inside, c
  <2>3. ASSUME NEW k \in here, Decided(p, k, rows[k].val, "store"),
               (\A j \in here : j <= k) \/ (\A j \in here : j >= k)
        PROVE  Inv'
    <3>1. Storing(c, k, clock, rows[k].val)
      BY <2>1, <2>3 DEF Storing
    <3> QED
      BY <2>3, <3>1, <1>1, <1>3, <1>4, DecidedKeeps DEF c
  <2> QED
    BY <1>1, <1>7, <2>2, <2>3 DEF PopItem
<1>8. CASE SetDefault(p)
  <2>1. c.op = "setdefault"
    BY <1>8 DEF SetDefault, c
  <2>2. PICK k \in c.keys :
          IF Live(rows[k], clock) THEN Decided(p, k, rows[k].val, "commit")
          ELSE Decided(p, k, c.val, "store")
    BY <1>1, <1>8 DEF SetDefault, c
  <2>3. CASE Live(rows[k], clock)
    <3>1. Telling(c, k, clock, rows[k].val)
      BY <2>1, <2>3 DEF Telling
    <3> QED
      BY <2>2, <2>3, <3>1, <1>1, <1>2, <1>3, <1>4, DecidedKeeps DEF c
  <2>4. CASE ~Live(rows[k], clock)
    <3>1. Storing(c, k, clock, c.val)
      BY <2>1, <2>4 DEF Storing
    <3> QED
      BY <2>2, <2>4, <3>1, <1>1, <1>2, DecidedKeeps DEF c
  <2> QED
    BY <2>3, <2>4
<1>9. CASE Increment(p)
  <2>1. c.op = "increment" /\ c.val \in Nat
    BY <1>2, <1>9 DEF Increment, c, Sensible
  <2>2. PICK k \in c.keys :
          IF ~Live(rows[k], clock) THEN Decided(p, k, c.val, "store")
          ELSE IF rows[k].val = Text THEN Decided(p, k, Text, "rollback")
          ELSE Decided(p, k, rows[k].val + c.val, "store")
    BY <1>1, <1>9 DEF Increment, c
  <2>3. CASE ~Live(rows[k], clock)
    <3>1. Storing(c, k, clock, c.val)
      BY <2>1, <2>3 DEF Storing
    <3> QED
      BY <2>2, <2>3, <3>1, <1>1, <1>2, DecidedKeeps DEF c
  <2>4. CASE Live(rows[k], clock) /\ rows[k].val = Text
    BY <2>2, <2>4, <1>1, <1>2, <1>5, DecidedKeeps, NoneApart DEF c
  <2>5. CASE Live(rows[k], clock) /\ rows[k].val # Text
    <3>1. Storing(c, k, clock, rows[k].val + c.val)
      BY <2>1, <2>5 DEF Storing
    <3>2. rows[k].val + c.val \in Values
      BY <2>1, <2>5, <1>2, <1>3, <1>4, <1>5
    <3> QED
      BY <2>2, <2>5, <3>1, <3>2, <1>1, <1>2, DecidedKeeps DEF c
  <2> QED
    BY <2>3, <2>4, <2>5
<1>10. CASE Swap(p)
  <2>1. c.op = "swap"
    BY <1>10 DEF Swap, c
  <2>2. PICK k \in c.keys :
          IF Live(rows[k], clock) /\ rows[k].val = c.want
          THEN Decided(p, k, c.val, "store")
          ELSE Decided(p, k, None, "commit")
    BY <1>1, <1>10 DEF Swap, c
  <2>3. CASE Live(rows[k], clock) /\ rows[k].val = c.want
    <3>1. Storing(c, k, clock, c.val)
      BY <2>1, <2>3 DEF Storing
    <3> QED
      BY <2>2, <2>3, <3>1, <1>1, <1>2, DecidedKeeps DEF c
  <2>4. CASE ~(Live(rows[k], clock) /\ rows[k].val = c.want)
    <3>1. Telling(c, k, clock, None)
      BY <2>1, <2>4 DEF Telling
    <3> QED
      BY <2>2, <2>4, <3>1, <1>1, <1>2, <1>5, DecidedKeeps DEF c
  <2> QED
    BY <2>3, <2>4
<1> QED
  BY <1>6, <1>7, <1>8, <1>9, <1>10 DEF Decide

LEMMA StoreKeeps == ASSUME Inv, NEW p \in Procs, Store(p) PROVE Inv'
<1> DEFINE c == call[p]
           exp == After(clock, c.ttl)
<1>1. /\ Typed /\ Standing(p) /\ pc[p] = "store" /\ writer = p
      /\ c.op \in Blocks /\ Goto(p, "commit")
      /\ UNCHANGED <<rows, writer, clock, call, found, target, value>>
  BY DEF Inv, Standing, Inside, Store
<1>2. Sensible(c) /\ clock \in Nat /\ c.since \in Nat /\ c.ttl \in Nat \cup {None} /\ rows \in Map
  BY <1>1 DEF Standing, Typed, Sensible, Asked
<1> HIDE DEF c
<1>3. PICK t \in c.since .. clock, k \in Keys :
        target[p] = {k} /\ Storing(c, k, t, value[p]) /\ draft \in {rows, Without(rows, {k})}
  BY <1>1 DEF Standing, ToStore, c
<1>4. exp \in Nat \cup {None}
  BY <1>2, AfterType
<1>5. draft' = IF c.op \in {"pop", "popitem"} THEN Without(rows, {k})
               ELSE Upsert(rows, {k}, value[p], exp)
  <2>1. draft' = IF c.op \in {"pop", "popitem"} THEN Without(draft, {k})
                 ELSE Upsert(draft, {k}, value[p], exp)
    BY <1>3 DEF Store, c
  <2>2. /\ Without(draft, {k}) = Without(rows, {k})
        /\ Upsert(draft, {k}, value[p], exp) = Upsert(rows, {k}, value[p], exp)
    BY <1>3 DEF Without, Upsert
  <2> QED
    BY <2>1, <2>2
<1>6. c.op \notin {"pop", "popitem"} => value[p] \in Nat \cup {Text}
  <2>1. Live(rows[k], t) => rows[k].val \in Nat \cup {Text}
    BY <1>2, EntryType DEF Live
  <2> QED
    BY <2>1, <1>2, <1>3 DEF Storing, Sensible
<1>7. draft' \in Map
  BY <1>2, <1>4, <1>5, <1>6, WithoutType, UpsertType
<1>8. ToCommit(c, target[p], value[p], draft')
  <2>1. t \in c.since .. clock /\ clock \in t .. clock
    BY <1>2, <1>3
  <2>2. CASE c.op \in {"pop", "popitem"}
    BY <2>1, <2>2, <1>3, <1>5 DEF ToCommit
  <2>3. CASE c.op \notin {"pop", "popitem"}
    <3>1. \E u \in t .. clock : draft' = Upsert(rows, {k}, value[p], After(u, c.ttl))
      BY <2>1, <2>3, <1>5
    <3> QED
      BY <2>1, <2>3, <3>1, <1>3 DEF ToCommit
  <2> QED
    BY <2>2, <2>3
<1>9. /\ target' = [target EXCEPT ![p] = target[p]] /\ target[p] \in SUBSET Keys
      /\ value' = [value EXCEPT ![p] = value[p]] /\ value[p] \in Values
  BY <1>1 DEF Typed
<1> HIDE DEF exp
<1> QED
  BY <1>1, <1>7, <1>8, <1>9, InsideKeeps DEF Inside, c

LEMMA BlockFailsKeeps == ASSUME Inv, NEW p \in Procs, BlockFails(p) PROVE Inv'
<1>1. /\ Typed /\ Standing(p) /\ writer = p /\ call[p].op \in Blocks /\ Goto(p, "rollback")
      /\ value' = [value EXCEPT ![p] = Text]
      /\ UNCHANGED <<rows, draft, writer, clock, call, found, target>>
  BY DEF Inv, Standing, Inside, BlockFails, table
<1>2. target' = [target EXCEPT ![p] = target[p]] /\ target[p] \in SUBSET Keys /\ draft' \in Map
  BY <1>1 DEF Typed
<1> QED
  BY <1>1, <1>2, InsideKeeps, NoneApart DEF Inside, Values

LEMMA InvNext == Inv /\ [Next]_vars => Inv'
<1> SUFFICES ASSUME Inv, [Next]_vars PROVE Inv'
  OBVIOUS
<1>1. CASE UNCHANGED vars
  <2>1. UNCHANGED <<rows, draft, writer, clock, pc, call, found, target, value>>
    BY <1>1 DEF vars, table
  <2>2. Typed'
    BY <2>1 DEF Inv, Typed
  <2>3. ASSUME NEW q \in Procs PROVE Standing(q)'
    <3>1. (pc[q] \in Inside <=> writer' = q) /\ clock' \in Nat /\ clock <= clock'
      BY <2>1 DEF Inv, Standing, Typed
    <3> QED
      BY <2>1, <3>1, OneStands
  <2> QED
    BY <2>2, <2>3 DEF Inv
<1>2. CASE Tick
  BY <1>2, TickKeeps
<1>3. CASE Finished
  BY <1>1, <1>3 DEF Finished
<1>4. ASSUME NEW p \in Procs,
             \/ Request(p) \/ Statement(p) \/ CallFails(p)
             \/ Snapshot(p) \/ Fetch(p) \/ Check(p) \/ LazyDelete(p) \/ LazyFails(p)
             \/ Begin(p) \/ Decide(p) \/ Store(p) \/ BlockFails(p) \/ Commit(p) \/ Rollback(p)
      PROVE  Inv'
  BY <1>4, RequestKeeps, StatementKeeps, CallFailsKeeps, SnapshotKeeps, FetchKeeps, CheckKeeps,
     LazyKeeps, BeginKeeps, DecideKeeps, StoreKeeps, BlockFailsKeeps, CommitKeeps, RollbackKeeps
<1> QED
  BY <1>1, <1>2, <1>3, <1>4 DEF Next

LEMMA InvHolds == Spec => []Inv
BY InvInit, InvNext, PTL DEF Spec

\* No lookup returns an entry that had expired when it was called, however long
\* it takes, and whoever writes the row between its SELECT and its DELETE.
THEOREM LookupsSeeLiveEntries == Spec => []ReadsExcludeExpired
<1>1. Inv => ReadsExcludeExpired
  BY DEF Inv, Standing, ReadsExcludeExpired, NotExpired
<1> QED
  BY <1>1, InvHolds, PTL

(***************************************************************************)
(* The store implements the map.                                           *)
(***************************************************************************)
Waiting == [p \in Procs |-> IF Calling(p) THEN call[p] ELSE None]

\* How a step of a caller looks from outside: it asks, it goes on, it is told.
LEMMA Asks ==
    ASSUME Typed, NEW p \in Procs, NEW c, pc[p] = "idle", pc' = [pc EXCEPT ![p] = "called"],
           call' = [call EXCEPT ![p] = c]
    PROVE  Waiting' = [Waiting EXCEPT ![p] = c] /\ Waiting[p] = None
BY DEF Typed, Waiting, Calling

LEMMA GoesOn ==
    ASSUME Typed, NEW p \in Procs, NEW l, pc[p] # "idle", l # "idle",
           pc' = [pc EXCEPT ![p] = l], call' = call
    PROVE  Waiting' = Waiting
BY DEF Typed, Waiting, Calling

LEMMA IsTold ==
    ASSUME Typed, NEW p \in Procs, pc[p] # "idle", pc' = [pc EXCEPT ![p] = "idle"],
           \A q \in Procs \ {p} : call'[q] = call[q]
    PROVE  /\ Waiting' = [Waiting EXCEPT ![p] = None]
           /\ Waiting[p] = call[p] /\ Waiting[p] # None
<1>1. \A q \in Procs : pc'[q] = IF q = p THEN "idle" ELSE pc[q]
  BY DEF Typed
<1>2. Waiting' = [q \in Procs |-> IF pc'[q] # "idle" THEN call'[q] ELSE None]
  BY DEF Waiting, Calling
<1>3. Waiting = [q \in Procs |-> IF pc[q] # "idle" THEN call[q] ELSE None]
  BY DEF Waiting, Calling
<1>4. call[p] \in Asked
  BY DEF Typed
<1> QED
  BY <1>1, <1>2, <1>3, <1>4, NoneApart

\* The operators of both modules are the same.
LEMMA SameWords ==
    /\ \A k \in Keys : \A t : k \in Abstract!Alive(t) <=> Live(rows[k], t)
    /\ \A t : Abstract!Alive(t) \subseteq Keys
    /\ \A K : Abstract!Drop(K) = Without(rows, K)
    /\ \A K, v, d : Abstract!Put(K, v, d) = Upsert(rows, K, v, d)
    /\ \A t, ttl : Abstract!Deadline(t, ttl) = After(t, ttl)
BY DEF Abstract!Alive, Live, Abstract!Drop, Without, Abstract!Put, Upsert, Abstract!Deadline, After

LEMMA Told ==
    ASSUME Typed, NEW p \in Procs, pc[p] # "idle", NEW how, NEW K, NEW v, Return(p, how, K, v),
           NEW m, rows' = m
    PROVE  Abstract!Tell(p, m, how, K, v)
<1>1. /\ pc' = [pc EXCEPT ![p] = "idle"] /\ call' = [call EXCEPT ![p] = NoCall]
      /\ answer' = [answer EXCEPT ![p] = [how |-> how, keys |-> K, val |-> v]]
      /\ clock' = clock
  BY DEF Return, Goto
<1>2. \A q \in Procs \ {p} : call'[q] = call[q]
  BY <1>1 DEF Typed
<1>3. Waiting' = [Waiting EXCEPT ![p] = None]
  BY <1>1, <1>2, IsTold
<1> QED
  BY <1>1, <1>3 DEF Abstract!Tell, Waiting

LEMMA TakesEffect ==
    ASSUME Typed, NEW p \in Procs, pc[p] # "idle", NEW t \in call[p].since .. clock,
           LET c == call[p]
           IN  \/ c.op = "set" /\ Abstract!Set(p, c, t)
               \/ c.op = "delete" /\ Abstract!Delete(p, c)
               \/ c.op = "expire" /\ Abstract!Expire(p, c, t)
               \/ c.op = "purge" /\ Abstract!Purge(p, t)
               \/ c.op = "pop" /\ Abstract!Pop(p, c, t)
               \/ c.op = "popitem" /\ Abstract!PopItem(p, t)
               \/ c.op = "setdefault" /\ Abstract!SetDefault(p, c, t)
               \/ c.op = "increment" /\ Abstract!Increment(p, c, t)
               \/ c.op = "swap" /\ Abstract!Swap(p, c, t)
               \/ c.op \in {"get", "get_many", "items"} /\ Abstract!Look(p, c)
               \/ c.op \notin {"get", "get_many", "items"} /\ Abstract!Fail(p)
    PROVE  Abstract!Take(p)
<1>1. Waiting[p] = call[p] /\ Waiting[p] # None
  BY NoneApart DEF Typed, Waiting, Calling
<1>2. CASE call[p].op = "set" /\ Abstract!Set(p, call[p], t)
  BY <1>1, <1>2 DEF Abstract!Take, Abstract!Set, Abstract!Tell, Waiting
<1>3. CASE call[p].op = "delete" /\ Abstract!Delete(p, call[p])
  BY <1>1, <1>3 DEF Abstract!Take, Abstract!Delete, Abstract!Tell, Waiting
<1>4. CASE call[p].op = "expire" /\ Abstract!Expire(p, call[p], t)
  BY <1>1, <1>4 DEF Abstract!Take, Abstract!Expire, Abstract!Tell, Waiting
<1>5. CASE call[p].op = "purge" /\ Abstract!Purge(p, t)
  BY <1>1, <1>5 DEF Abstract!Take, Abstract!Purge, Abstract!Tell, Waiting
<1>6. CASE call[p].op = "pop" /\ Abstract!Pop(p, call[p], t)
  BY <1>1, <1>6 DEF Abstract!Take, Abstract!Pop, Abstract!Missing, Abstract!Tell, Waiting
<1>7. CASE call[p].op = "popitem" /\ Abstract!PopItem(p, t)
  BY <1>1, <1>7 DEF Abstract!Take, Abstract!PopItem, Abstract!Tell, Waiting
<1>8. CASE call[p].op = "setdefault" /\ Abstract!SetDefault(p, call[p], t)
  BY <1>1, <1>8 DEF Abstract!Take, Abstract!SetDefault, Abstract!Tell, Waiting
<1>9. CASE call[p].op = "increment" /\ Abstract!Increment(p, call[p], t)
  BY <1>1, <1>9 DEF Abstract!Take, Abstract!Increment, Abstract!Tell, Waiting
<1>10. CASE call[p].op = "swap" /\ Abstract!Swap(p, call[p], t)
  BY <1>1, <1>10 DEF Abstract!Take, Abstract!Swap, Abstract!Missing, Abstract!Tell, Waiting
<1>11. CASE call[p].op \in {"get", "get_many", "items"} /\ Abstract!Look(p, call[p])
  BY <1>1, <1>11 DEF Abstract!Take, Abstract!Look, Waiting
<1>12. CASE call[p].op \notin {"get", "get_many", "items"} /\ Abstract!Fail(p)
  BY <1>1, <1>12 DEF Abstract!Take, Waiting
<1> QED
  BY <1>2, <1>3, <1>4, <1>5, <1>6, <1>7, <1>8, <1>9, <1>10, <1>11, <1>12

LEMMA InTime ==
    ASSUME Inv, NEW p \in Procs
    PROVE  /\ call[p].since \in call[p].since .. clock /\ clock \in call[p].since .. clock
           /\ call[p].keys \subseteq Keys /\ call[p].since \in Nat /\ clock \in Nat
BY DEF Inv, Typed, Standing, Asked

LEMMA RequestAsks == ASSUME Inv, NEW p \in Procs, Request(p) PROVE Abstract!Ask(p)
<1>1. PICK op \in Ops : \E c \in Calls(op) : call' = [call EXCEPT ![p] = c]
  BY DEF Request
<1>2. PICK c \in Calls(op) : call' = [call EXCEPT ![p] = c]
  BY <1>1
<1>3. Typed /\ pc[p] = "idle" /\ pc' = [pc EXCEPT ![p] = "called"] /\ UNCHANGED <<rows, clock, answer>>
  BY DEF Inv, Request, Goto, table
<1>4. Waiting' = [Waiting EXCEPT ![p] = c] /\ Waiting[p] = None
  BY <1>2, <1>3, Asks
<1>5. Waiting'[p] = c
  BY <1>4 DEF Waiting
<1>6. c \in Asked /\ c.since = clock
  BY <1>3, CallsAreSensible DEF Sensible, Typed
<1>7. c \in Abstract!Call(clock)
  BY <1>6 DEF Asked, Abstract!Call, Lookups, Statements, Blocks, Values
<1> QED
  BY <1>3, <1>4, <1>5, <1>7 DEF Abstract!Ask, Waiting

LEMMA StatementTakes == ASSUME Inv, NEW p \in Procs, Statement(p) PROVE Abstract!Take(p)
<1> DEFINE c == call[p]
           t == call[p].since
<1>1. Typed /\ pc[p] # "idle" /\ c.op \in Statements /\ rows' = Changed(c)
  BY DEF Inv, Statement
<1>2. Return(p, "done", IF c.op = "set" THEN {} ELSE Touched(c), None)
  BY DEF Statement
<1>3. c.keys \subseteq Keys /\ t \in c.since .. clock
  BY InTime
<1>4. CASE c.op = "set"
  <2>1. rows' = Abstract!Put(c.keys, c.val, Abstract!Deadline(t, c.ttl))
    BY <1>1, <1>4, SameWords DEF Changed
  <2>2. Return(p, "done", {}, None)
    BY <1>2, <1>4
  <2>3. Abstract!Set(p, c, t)
    BY <1>1, <2>1, <2>2, Told DEF Abstract!Set
  <2> QED
    BY <1>1, <1>3, <1>4, <2>3, TakesEffect
<1>5. CASE c.op = "delete"
  <2>1. Touched(c) = {k \in c.keys : rows[k] # None}
    BY <1>5 DEF Touched
  <2>2. rows' = Abstract!Drop(Touched(c))
    BY <1>1, <1>5, SameWords DEF Changed
  <2>3. Return(p, "done", Touched(c), None)
    BY <1>2, <1>5
  <2>4. Abstract!Delete(p, c)
    BY <1>1, <2>1, <2>2, <2>3, Told DEF Abstract!Delete
  <2> QED
    BY <1>1, <1>3, <1>5, <2>4, TakesEffect
<1>6. CASE c.op = "expire"
  <2>1. Touched(c) = {k \in c.keys : Live(rows[k], t)}
    BY <1>6 DEF Touched
  <2>2. Touched(c) = c.keys \cap Abstract!Alive(t)
    BY <2>1, <1>3, SameWords
  <2>3. rows' = Abstract!Extend(Touched(c), Abstract!Deadline(t, c.ttl))
    BY <1>1, <1>6, SameWords DEF Changed, Abstract!Extend
  <2>4. Return(p, "done", Touched(c), None)
    BY <1>2, <1>6
  <2>5. Abstract!Expire(p, c, t)
    BY <1>1, <2>2, <2>3, <2>4, Told DEF Abstract!Expire
  <2> QED
    BY <1>1, <1>3, <1>6, <2>5, TakesEffect
<1>7. CASE c.op = "purge"
  <2>1. Touched(c) = {k \in Keys : rows[k] # None /\ ~Live(rows[k], t)}
    BY <1>7 DEF Touched, Purged
  <2>2. Touched(c) = {k \in Keys : rows[k] # None /\ k \notin Abstract!Alive(t)}
    BY <2>1, SameWords
  <2>3. rows' = Abstract!Drop(Touched(c))
    BY <1>1, <1>7, SameWords DEF Changed
  <2>4. Return(p, "done", Touched(c), None)
    BY <1>2, <1>7
  <2>5. Abstract!Purge(p, t)
    BY <1>1, <2>2, <2>3, <2>4, Told DEF Abstract!Purge
  <2> QED
    BY <1>1, <1>3, <1>7, <2>5, TakesEffect
<1> QED
  BY <1>1, <1>4, <1>5, <1>6, <1>7 DEF Statements

\* A call that raises has changed nothing.
LEMMA ErrorTakes ==
    ASSUME Inv, NEW p \in Procs, pc[p] # "idle", call[p].op \in Statements \cup Blocks,
           Return(p, "error", {}, None), UNCHANGED rows
    PROVE  Abstract!Take(p)
<1>1. Abstract!Fail(p)
  BY Told DEF Abstract!Fail, Inv
<1>2. call[p].op \notin {"get", "get_many", "items"}
  BY DEF Statements, Blocks
<1> QED
  BY <1>1, <1>2, InTime, TakesEffect DEF Inv

\* A lookup ends.
LEMMA LookTakes ==
    ASSUME Inv, NEW p \in Procs, pc[p] # "idle", call[p].op \in {"get", "get_many", "items"},
           Goto(p, "idle"), UNCHANGED <<clock, answer, call>>,
           rows' = rows \/ (call[p].op = "get" /\ rows' = Without(rows, call[p].keys))
    PROVE  Abstract!Take(p)
<1>1. Typed /\ pc' = [pc EXCEPT ![p] = "idle"]
  BY DEF Inv, Goto
<1>2. Waiting' = [Waiting EXCEPT ![p] = None]
  BY <1>1, IsTold
<1>3. Abstract!Look(p, call[p])
  BY <1>2, SameWords DEF Abstract!Look, Waiting
<1> QED
  BY <1>1, <1>3, InTime, TakesEffect

\* A block commits what it has decided.
LEMMA CommitTakes == ASSUME Inv, NEW p \in Procs, Commit(p) PROVE Abstract!Take(p)
<1> DEFINE c == call[p]
<1>1. /\ Typed /\ Standing(p) /\ Sensible(c) /\ pc[p] = "commit" /\ pc[p] # "idle" /\ rows' = draft
      /\ c.keys \subseteq Keys
  BY InTime DEF Inv, Standing, Commit
<1>2. PICK K, v : K = target[p] /\ v = value[p]
  OBVIOUS
<1>3. Return(p, "done", K, v)
  BY <1>2 DEF Commit, Return
<1>4. PICK t \in c.since .. clock, k \in Keys :
        \/ /\ K = {k} /\ Storing(c, k, t, v)
           /\ IF c.op \in {"pop", "popitem"} THEN rows' = Without(rows, {k})
              ELSE \E u \in t .. clock : rows' = Upsert(rows, {k}, v, After(u, c.ttl))
        \/ /\ K = {} /\ Telling(c, k, t, v)
           /\ rows' = IF Live(rows[k], t) THEN rows ELSE Without(rows, {k})
  BY <1>1, <1>2 DEF Standing, ToCommit
<1>5. (k \in Abstract!Alive(t) <=> Live(rows[k], t)) /\ {j \in Keys : Live(rows[j], t)} = Abstract!Alive(t)
  BY SameWords
<1>6. ASSUME K = {k}, Storing(c, k, t, v), rows' = Without(rows, {k}), c.op \in {"pop", "popitem"}
      PROVE  Abstract!Take(p)
  <2>1. Abstract!Tell(p, Abstract!Drop({k}), "done", {k}, v)
    BY <1>1, <1>3, <1>6, Told, SameWords
  <2>2. Live(rows[k], t) /\ v = rows[k].val
    BY <1>6 DEF Storing
  <2>3. Abstract!Tell(p, Abstract!Drop({k}), "done", {k}, rows[k].val)
    BY <2>1, <2>2 DEF Abstract!Tell
  <2>4. CASE c.op = "pop"
    <3>1. k \in c.keys
      BY <1>6, <2>4 DEF Storing
    <3>2. Abstract!Pop(p, c, t)
      BY <2>2, <2>3, <3>1, <1>5 DEF Abstract!Pop
    <3> QED
      BY <2>4, <3>2, <1>1, TakesEffect
  <2>5. CASE c.op = "popitem"
    <3>1. (\A j \in Abstract!Alive(t) : j <= k) \/ (\A j \in Abstract!Alive(t) : j >= k)
      BY <1>5, <1>6, <2>5 DEF Storing
    <3>2. Abstract!PopItem(p, t)
      BY <2>2, <2>3, <3>1, <1>5 DEF Abstract!PopItem
    <3> QED
      BY <2>5, <3>2, <1>1, TakesEffect
  <2> QED
    BY <1>6, <2>4, <2>5
<1>7. ASSUME K = {k}, Storing(c, k, t, v), NEW u \in t .. clock,
             rows' = Upsert(rows, {k}, v, After(u, c.ttl)), c.op \notin {"pop", "popitem"}
      PROVE  Abstract!Take(p)
  <2>1. Abstract!Tell(p, Abstract!Put({k}, v, Abstract!Deadline(u, c.ttl)), "done", {k}, v)
    BY <1>1, <1>3, <1>7, Told, SameWords
  <2>2. k \in c.keys /\ c.op \in {"setdefault", "increment", "swap"}
    BY <1>7 DEF Storing
  <2>3. c.ttl = None => Abstract!Deadline(u, c.ttl) = None
    BY SameWords DEF After
  <2>4. CASE c.op = "setdefault"
    <3>1. ~Live(rows[k], t) /\ v = c.val /\ c.ttl = None
      BY <1>1, <1>7, <2>4 DEF Storing, Sensible
    <3>2. Abstract!Tell(p, Abstract!Put({k}, c.val, None), "done", {k}, c.val)
      BY <2>1, <2>3, <3>1 DEF Abstract!Tell
    <3>3. Abstract!SetDefault(p, c, t)
      BY <2>2, <3>1, <3>2, <1>5 DEF Abstract!SetDefault
    <3> QED
      BY <2>4, <3>3, <1>1, TakesEffect
  <2>5. CASE c.op = "increment"
    <3>1. c.ttl = None /\ c.val \in Nat
      BY <1>1, <2>5 DEF Sensible
    <3>2. PICK base : base = IF Live(rows[k], t) THEN rows[k].val ELSE 0
      OBVIOUS
    <3>3. base # Text /\ v = base + c.val
      BY <1>7, <2>5, <3>1, <3>2, NoneApart DEF Storing
    <3>4. Abstract!Tell(p, Abstract!Put({k}, base + c.val, None), "done", {k}, base + c.val)
      BY <2>1, <2>3, <3>1, <3>3 DEF Abstract!Tell
    <3>5. Abstract!Increment(p, c, t)
      BY <2>2, <3>2, <3>3, <3>4, <1>5 DEF Abstract!Increment, Abstract!Tell
    <3> QED
      BY <2>5, <3>5, <1>1, TakesEffect
  <2>6. CASE c.op = "swap"
    <3>1. Live(rows[k], t) /\ rows[k].val = c.want /\ v = c.val
      BY <1>7, <2>6 DEF Storing
    <3>2. Abstract!Tell(p, Abstract!Put({k}, c.val, Abstract!Deadline(u, c.ttl)), "done", {k}, c.val)
      BY <2>1, <3>1 DEF Abstract!Tell
    <3>3. Abstract!Swap(p, c, t)
      BY <2>2, <3>1, <3>2, <1>5, <1>7 DEF Abstract!Swap
    <3> QED
      BY <2>6, <3>3, <1>1, TakesEffect
  <2> QED
    BY <2>2, <2>4, <2>5, <2>6
<1>8. ASSUME K = {}, Telling(c, k, t, v),
             rows' = IF Live(rows[k], t) THEN rows ELSE Without(rows, {k})
      PROVE  Abstract!Take(p)
  <2>1. k \in c.keys
    BY <1>8 DEF Telling
  <2>2. CASE Live(rows[k], t)
    <3>1. Abstract!Tell(p, rows, "done", {}, v)
      BY <1>1, <1>3, <1>8, <2>2, Told
    <3>2. CASE c.op = "setdefault"
      <4>1. v = rows[k].val
        BY <1>8, <3>2 DEF Telling
      <4>2. Abstract!SetDefault(p, c, t)
        BY <2>1, <2>2, <3>1, <4>1, <1>5 DEF Abstract!SetDefault, Abstract!Tell
      <4> QED
        BY <3>2, <4>2, <1>1, TakesEffect
    <3>3. CASE c.op = "swap"
      <4>1. v = None /\ rows[k].val # c.want
        BY <1>8, <2>2, <3>3 DEF Telling
      <4>2. Abstract!Swap(p, c, t)
        BY <2>1, <2>2, <3>1, <4>1, <1>5 DEF Abstract!Swap, Abstract!Tell
      <4> QED
        BY <3>3, <4>2, <1>1, TakesEffect
    <3> QED
      BY <1>8, <2>2, <3>2, <3>3 DEF Telling
  <2>3. CASE ~Live(rows[k], t)
    <3>1. v = None /\ c.op \in {"pop", "swap"} /\ (c.op = "pop" => c.want # None)
      BY <1>8, <2>3 DEF Telling
    <3>2. Abstract!Tell(p, Abstract!Drop({k}), "done", {}, None)
      BY <1>1, <1>3, <1>8, <2>3, <3>1, Told, SameWords
    <3>3. Abstract!Missing(p, k, "done")
      BY <3>2 DEF Abstract!Missing, Abstract!Tell
    <3>4. CASE c.op = "pop"
      <4>1. Abstract!Pop(p, c, t)
        BY <2>1, <2>3, <3>1, <3>3, <3>4, <1>5 DEF Abstract!Pop, Abstract!Missing
      <4> QED
        BY <3>4, <4>1, <1>1, TakesEffect
    <3>5. CASE c.op = "swap"
      <4>1. Abstract!Swap(p, c, t)
        BY <2>1, <2>3, <3>3, <1>5 DEF Abstract!Swap
      <4> QED
        BY <3>5, <4>1, <1>1, TakesEffect
    <3> QED
      BY <3>1, <3>4, <3>5
  <2> QED
    BY <2>2, <2>3
<1> QED
  BY <1>4, <1>6, <1>7, <1>8 DEF Storing

LEMMA RollbackTakes == ASSUME Inv, NEW p \in Procs, Rollback(p) PROVE Abstract!Take(p)
<1> DEFINE c == call[p]
<1>1. /\ Typed /\ Standing(p) /\ pc[p] = "rollback" /\ pc[p] # "idle" /\ rows' = rows
      /\ c.op \in Blocks /\ c.keys \subseteq Keys
  BY InTime DEF Inv, Standing, Rollback, Inside
<1>2. CASE value[p] # None
  <2>1. Return(p, "error", {}, None)
    BY <1>2 DEF Rollback
  <2> QED
    BY <2>1, <1>1, ErrorTakes
<1>3. CASE value[p] = None
  <2>1. Return(p, "missing", {}, None)
    BY <1>3 DEF Rollback
  <2>2. Abstract!Tell(p, rows, "missing", {}, None)
    BY <2>1, <1>1, Told
  <2>3. PICK t \in c.since .. clock :
          \/ c.op = "pop" /\ c.want = None /\ \E k \in c.keys : ~Live(rows[k], t)
          \/ c.op = "popitem" /\ \A k \in Keys : ~Live(rows[k], t)
    BY <1>1, <1>3 DEF Standing, ToGiveUp
  <2>4. ASSUME c.op = "pop", c.want = None, NEW k \in c.keys, ~Live(rows[k], t)
        PROVE  Abstract!Take(p)
    <3>1. k \notin Abstract!Alive(t)
      BY <1>1, <2>4, SameWords
    <3>2. Abstract!Missing(p, k, "missing")
      BY <2>2 DEF Abstract!Missing, Abstract!Tell
    <3>3. Abstract!Pop(p, c, t)
      BY <2>4, <3>1, <3>2 DEF Abstract!Pop, Abstract!Missing
    <3> QED
      BY <2>4, <3>3, <1>1, TakesEffect
  <2>5. ASSUME c.op = "popitem", \A k \in Keys : ~Live(rows[k], t)
        PROVE  Abstract!Take(p)
    <3>1. Abstract!Alive(t) = {}
      BY <2>5, SameWords
    <3>2. Abstract!PopItem(p, t)
      BY <2>2, <3>1 DEF Abstract!PopItem
    <3> QED
      BY <2>5, <3>2, <1>1, TakesEffect
  <2> QED
    BY <2>3, <2>4, <2>5
<1> QED
  BY <1>2, <1>3

\* Opening a block, deciding, writing to the draft, fetching: nobody sees it.
LEMMA HiddenSteps ==
    ASSUME Inv, NEW p \in Procs, NEW l \in Places \ {"idle"}, pc[p] # "idle", Goto(p, l),
           UNCHANGED <<rows, clock, call, answer>>
    PROVE  UNCHANGED Abstract!vars
<1>1. Waiting' = Waiting
  BY GoesOn DEF Goto, Inv
<1> QED
  BY <1>1 DEF Abstract!vars, Waiting

LEMMA LookupSteps ==
    ASSUME Inv, NEW p \in Procs,
           Snapshot(p) \/ Fetch(p) \/ Check(p) \/ LazyDelete(p) \/ LazyFails(p)
    PROVE  Abstract!Take(p) \/ UNCHANGED Abstract!vars
<1>1. CASE Snapshot(p)
  BY <1>1, LookTakes DEF Snapshot, table
<1>2. CASE Fetch(p)
  BY <1>2, HiddenSteps DEF Fetch, table, Places
<1>3. CASE Check(p)
  <2>1. /\ pc[p] = "fetched" /\ call[p].op \in {"get", "get_many"}
        /\ UNCHANGED <<rows, clock, call, answer>>
    BY <1>3 DEF Inv, Standing, Check, table
  <2>2. Goto(p, "lazy") \/ Goto(p, "idle")
    BY <1>3 DEF Check
  <2> QED
    BY <2>1, <2>2, LookTakes, HiddenSteps DEF Places
<1>4. CASE LazyDelete(p) \/ LazyFails(p)
  <2>1. /\ pc[p] = "lazy" /\ call[p].op = "get" /\ Goto(p, "idle") /\ UNCHANGED <<clock, call, answer>>
    BY <1>4 DEF Inv, Standing, LazyDelete, LazyFails
  <2>2. rows' = rows \/ rows' = Without(rows, call[p].keys)
    BY <1>4 DEF LazyDelete, LazyFails, table
  <2> QED
    BY <2>1, <2>2, LookTakes
<1> QED
  BY <1>1, <1>2, <1>3, <1>4

LEMMA BlockSteps ==
    ASSUME Inv, NEW p \in Procs, Begin(p) \/ Decide(p) \/ Store(p) \/ BlockFails(p)
    PROVE  UNCHANGED Abstract!vars
<1>1. pc[p] # "idle" /\ UNCHANGED <<rows, clock, call, answer>>
  BY DEF Begin, Decide, Store, BlockFails, table
<1>2. \E l \in {"decide", "store", "commit", "rollback"} : Goto(p, l)
  <2>1. CASE Begin(p) \/ Store(p) \/ BlockFails(p)
    BY <2>1 DEF Begin, Store, BlockFails
  <2>2. CASE Pop(p)
    <3>1. \E k, v : \E l \in {"store", "commit", "rollback"} : Decided(p, k, v, l)
      BY <2>2 DEF Pop
    <3> QED
      BY <3>1 DEF Decided
  <2>3. CASE PopItem(p)
    <3>1. Goto(p, "rollback") \/ \E k, v : Decided(p, k, v, "store")
      BY <2>3 DEF PopItem
    <3> QED
      BY <3>1 DEF Decided
  <2>4. CASE SetDefault(p) \/ Increment(p) \/ Swap(p)
    <3>1. \E k, v : \E l \in {"store", "commit", "rollback"} : Decided(p, k, v, l)
      BY <2>4 DEF SetDefault, Increment, Swap
    <3> QED
      BY <3>1 DEF Decided
  <2> QED
    BY <2>1, <2>2, <2>3, <2>4 DEF Decide
<1> QED
  BY <1>1, <1>2, HiddenSteps DEF Places

\* Every call of a KVStore takes effect at one moment between its call and its
\* return, as if it were alone: lookups that clean up, blocks of several
\* statements and clock readings made long before the write lock is had included,
\* for any number of callers, keys, values and calls.
THEOREM StoreIsAMap == Spec => ImplementsExpiringMap
<1>1. Init => Abstract!Init
  <2> SUFFICES ASSUME Init PROVE Abstract!Init
    OBVIOUS
  <2>1. Waiting = [p \in Procs |-> None]
    BY DEF Init, Waiting, Calling
  <2>2. rows \in [Keys -> Abstract!Entry \cup {None}]
    BY DataAssumption DEF Init, Abstract!Entry
  <2> QED
    BY <2>1, <2>2 DEF Abstract!Init, Init, Waiting
<1>2. Inv /\ [Next]_vars => [Abstract!Next]_(Abstract!vars)
  <2> SUFFICES ASSUME Inv, [Next]_vars PROVE Abstract!Next \/ UNCHANGED Abstract!vars
    OBVIOUS
  <2>1. CASE UNCHANGED vars \/ Finished
    <3>1. UNCHANGED <<rows, clock, answer, pc, call>>
      BY <2>1 DEF vars, table, Finished
    <3>2. Waiting' = Waiting
      BY <3>1 DEF Waiting, Calling
    <3> QED
      BY <3>1, <3>2 DEF Abstract!vars, Waiting
  <2>2. CASE Tick
    <3>1. clock' = clock + 1 /\ UNCHANGED <<rows, pc, call, answer>>
      BY <2>2 DEF Tick, table
    <3>2. Waiting' = Waiting
      BY <3>1 DEF Waiting, Calling
    <3>3. Abstract!Tick
      BY <3>1, <3>2 DEF Abstract!Tick, Waiting
    <3> QED
      BY <3>3 DEF Abstract!Next
  <2>3. ASSUME NEW p \in Procs, Request(p) PROVE Abstract!Next
    BY <2>3, RequestAsks DEF Abstract!Next
  <2>4. ASSUME NEW p \in Procs, Statement(p) \/ CallFails(p) \/ Commit(p) \/ Rollback(p)
        PROVE  Abstract!Next
    <3>1. CASE CallFails(p)
      BY <3>1, ErrorTakes DEF CallFails, table, Abstract!Next
    <3> QED
      BY <2>4, <3>1, StatementTakes, CommitTakes, RollbackTakes DEF Abstract!Next
  <2>5. ASSUME NEW p \in Procs,
               Snapshot(p) \/ Fetch(p) \/ Check(p) \/ LazyDelete(p) \/ LazyFails(p)
        PROVE  Abstract!Next \/ UNCHANGED Abstract!vars
    BY <2>5, LookupSteps DEF Abstract!Next
  <2>6. ASSUME NEW p \in Procs, Begin(p) \/ Decide(p) \/ Store(p) \/ BlockFails(p)
        PROVE  UNCHANGED Abstract!vars
    BY <2>6, BlockSteps
  <2> QED
    BY <2>1, <2>2, <2>3, <2>4, <2>5, <2>6 DEF Next
<1> QED
  BY <1>1, <1>2, InvHolds, PTL DEF Spec, ImplementsExpiringMap, Abstract!Spec
=============================================================================
