--------------------------- MODULE ConnectionsProofs ---------------------------
(***************************************************************************)
(* What bindings promise about connections: those handed out are open and  *)
(* of the right binding, those listed are the open ones, and an in-memory  *)
(* database lives as long as its binding.                                  *)
(***************************************************************************)
EXTENDS Connections, SequenceTheorems, TLAPS

(***************************************************************************)
(* Types.                                                                  *)
(***************************************************************************)
Caches == Threads \cup Workers
Entry == [generation : Nat, conn : Conns]
Block == [conn : Conns, depth : Nat]
Scope == [binding : Bindings, outer : Bindings \cup {None}]

DatabaseType ==
    /\ global \in Bindings \cup {None}
    /\ generation \in Nat
    /\ owned \in [Bindings -> SUBSET Conns]
    /\ pool \in [Bindings -> Seq(Conns)]
    /\ anchor \in [Bindings -> BOOLEAN]
    /\ cache \in [Caches -> [Bindings -> Entry \cup {None}]]
    /\ home \in [Conns -> Bindings \cup {None}]
    /\ open \subseteq Conns

ContextType ==
    /\ scoped \in [Procs -> Bindings \cup {None}]
    /\ scopes \in [Procs -> Seq(Scope)]
    /\ txn \in [Procs -> Block \cup {None}]
    /\ calls \in [Procs -> 0 .. MaxCalls]

Steps == {"idle", "use", "open", "open for block", "own", "own for block", "cache", "begin",
          "release", "shut", "leave scope"}

CallType ==
    /\ at \in [Procs -> Steps]
    /\ thread \in [Procs -> Caches \cup {None}]
    /\ bind \in [Procs -> Bindings \cup {None}]
    /\ conn \in [Procs -> Conns \cup {None}]

\* Where a process has a connection in its hands that is nowhere else.
Hand(p) == at[p] \in {"own", "own for block", "cache", "begin", "release", "shut"}

\* What a process has where, and that a thread serves one of them.
Placed(p) ==
    /\ at[p] = "idle" <=> bind[p] = None
    /\ at[p] # "idle" <=> thread[p] # None
    /\ conn[p] # None <=> Hand(p) \/ at[p] = "use"
    /\ at[p] \notin {"idle", "use", "leave scope"} => txn[p] = None
    /\ at[p] = "use" =>
        IF txn[p] # None
        THEN conn[p] = txn[p].conn /\ bind[p] = home[conn[p]]
        ELSE /\ cache[thread[p]][bind[p]] # None
             /\ conn[p] = cache[thread[p]][bind[p]].conn
    /\ at[p] = "leave scope" =>
        /\ scopes[p] # <<>>
        /\ bind[p] = Last(scopes[p]).binding
        /\ scoped[p] = Last(scopes[p]).outer

ThreadsServeOne ==
    /\ \A p \in Procs : thread[p] # None =>
        IF p \in Threads THEN thread[p] = p ELSE thread[p] \in Workers
    /\ \A p, q \in Procs : thread[p] = thread[q] /\ thread[p] # None => p = q

(***************************************************************************)
(* A connection is in one place: in the hands of a call, the connection of *)
(* a block, in a pool or in a thread's cache.                              *)
(***************************************************************************)
HandsApart ==
    \A p, q \in Procs : Hand(p) =>
        /\ Hand(q) /\ p # q => conn[p] # conn[q]
        /\ txn[q] # None => conn[p] # txn[q].conn
BlocksApart ==
    \A p, q \in Procs : txn[p] # None /\ txn[q] # None /\ p # q => txn[p].conn # txn[q].conn
PoolsApart ==
    /\ \A b, d \in Bindings : \A i \in 1 .. Len(pool[b]), j \in 1 .. Len(pool[d]) :
        pool[b][i] = pool[d][j] => b = d /\ i = j
    /\ \A b \in Bindings : \A i \in 1 .. Len(pool[b]) : \A p \in Procs :
        /\ Hand(p) => pool[b][i] # conn[p]
        /\ txn[p] # None => pool[b][i] # txn[p].conn
CachesApart ==
    \A t \in Caches, b \in Bindings : cache[t][b] # None =>
        /\ \A u \in Caches, d \in Bindings :
            cache[u][d] # None /\ cache[u][d].conn = cache[t][b].conn => u = t /\ d = b
        /\ \A d \in Bindings : \A i \in 1 .. Len(pool[d]) : pool[d][i] # cache[t][b].conn
        /\ \A p \in Procs :
            /\ Hand(p) => conn[p] # cache[t][b].conn
            /\ txn[p] # None => txn[p].conn # cache[t][b].conn

Apart == HandsApart /\ BlocksApart /\ PoolsApart /\ CachesApart

(***************************************************************************)
(* Where connections belong, and that they are open.                       *)
(***************************************************************************)
Good(c) == c \in open \cup stray

\* c serves binding b, or is known to be out of place.
Serves(c, b) == home[c] = b \/ (c \in stray /\ home[c] # None)

HandsServe ==
    \A p \in Procs :
        /\ Hand(p) => Good(conn[p]) /\ Serves(conn[p], bind[p])
        /\ at[p] \in {"own", "own for block", "cache"} => home[conn[p]] = bind[p]
        /\ at[p] = "use" => Good(conn[p])
        /\ txn[p] # None => Good(txn[p].conn) /\ home[txn[p].conn] # None
PoolsServe ==
    \A b \in Bindings : \A i \in 1 .. Len(pool[b]) : Good(pool[b][i]) /\ Serves(pool[b][i], b)
CachesServe ==
    \A t \in Caches, b \in Bindings : cache[t][b] # None =>
        /\ home[cache[t][b].conn] = b
        /\ cache[t][b].generation <= generation
        /\ cache[t][b].generation = generation => Good(cache[t][b].conn)

Serve == HandsServe /\ PoolsServe /\ CachesServe

(***************************************************************************)
(* The lists of bindings.                                                  *)
(***************************************************************************)
Unlisted(c) ==
    \E p \in Procs : conn[p] = c /\ at[p] \in {"own", "own for block", "shut"}

OpenListed ==
    \A c \in open : home[c] # None /\ (Unlisted(c) \/ c \in owned[home[c]])
OpenLive == \A c \in open \ stray : Live(home[c])
ListedOpen ==
    /\ \A b \in Bindings : \A c \in owned[b] :
        home[c] = b /\ (Good(c) \/ c \in hidden)
    /\ \A p \in Procs : at[p] \in {"own", "own for block", "shut"} =>
        conn[p] \in stray \/ conn[p] \notin owned[home[conn[p]]]

Listed == OpenListed /\ OpenLive /\ ListedOpen

(***************************************************************************)
(* The binding a block began in, which is the one its connection returns   *)
(* to: d is how many scopes deep the block began.                          *)
(***************************************************************************)
ScopeAt(p, d) == IF d = Len(scopes[p]) THEN scoped[p] ELSE scopes[p][d + 1].outer
Returns(p, d, b) == IF ScopeAt(p, d) # None THEN ScopeAt(p, d) = b ELSE global = b

BlocksReturn ==
    \A p \in Procs :
        /\ txn[p] # None =>
            LET d == txn[p].depth IN
            /\ d <= Len(scopes[p]) /\ (at[p] = "leave scope" => d < Len(scopes[p]))
            /\ ScopeAt(p, d) = None => global # None
            /\ txn[p].conn \in stray \/ Returns(p, d, home[txn[p].conn])
            /\ calls[p] # MaxCalls
        /\ at[p] \in {"open for block", "own for block", "begin", "release"} =>
            /\ calls[p] # MaxCalls
            /\ scoped[p] = None => global # None
        /\ at[p] = "open for block" =>
            p \in overtaken \/ Returns(p, Len(scopes[p]), bind[p])
        /\ at[p] \in {"own for block", "begin", "release"} =>
            conn[p] \in stray \/ Returns(p, Len(scopes[p]), home[conn[p]])

(***************************************************************************)
(* The binding of a call outside a block is the one _binding() names, as   *)
(* long as that one is not closed.                                         *)
(***************************************************************************)
Meant(p) ==
    txn[p] = None =>
        /\ at[p] = "open" => p \in overtaken \/ BindingOf(p) = bind[p]
        /\ at[p] \in {"own", "cache", "use"} => conn[p] \in stray \/ BindingOf(p) = bind[p]
CallsMeant == \A p \in Procs : Meant(p)

(***************************************************************************)
(* Memory.                                                                 *)
(***************************************************************************)
Anchors ==
    \A b \in InMemory : owned[b] # {} \/ b \in wrote => anchor[b]

Typed ==
    /\ DatabaseType /\ ContextType /\ CallType
    /\ \A p \in Procs : Placed(p)
    /\ ThreadsServeOne

Inv == Typed /\ Apart /\ Serve /\ Listed /\ BlocksReturn /\ CallsMeant /\ Anchors /\ MemoryKept

-----------------------------------------------------------------------------
(***************************************************************************)
(* Steps keep the types.                                                   *)
(***************************************************************************)
LEMMA PrefixTyped ==
    ASSUME NEW S, NEW s \in Seq(S), s # <<>>
    PROVE  /\ Front(s) \in Seq(S) /\ Len(Front(s)) = Len(s) - 1
           /\ Last(s) \in S /\ Last(s) = s[Len(s)]
           /\ Len(s) \in Nat \ {0}
           /\ \A i \in 1 .. Len(s) - 1 : Front(s)[i] = s[i]
<1>1. Len(s) \in Nat \ {0}
  BY EmptySeq, LenProperties
<1>2. \A i \in 1 .. Len(s) - 1 : s[i] \in S
  BY <1>1, ElementOfSeq
<1> DEFINE m == Len(s) - 1
<1>3. /\ SubSeq(s, 1, m) \in Seq(S) /\ Len(SubSeq(s, 1, m)) = m
      /\ \A i \in 1 .. m : SubSeq(s, 1, m)[i] = s[i]
  <2>1. m \in Nat /\ \A i \in 1 .. m : s[i] \in S
    BY <1>1, <1>2
  <2> HIDE DEF m
  <2>2. /\ SubSeq(s, 1, m) \in Seq(S)
        /\ Len(SubSeq(s, 1, m)) = IF 1 <= m THEN m - 1 + 1 ELSE 0
        /\ \A i \in 1 .. m - 1 + 1 : SubSeq(s, 1, m)[i] = s[1 + i - 1]
    BY <2>1, SubSeqProperties
  <2>3. Len(SubSeq(s, 1, m)) = m
    BY <2>1, <2>2
  <2>4. \A i \in 1 .. m : i \in 1 .. m - 1 + 1 /\ 1 + i - 1 = i
    BY <2>1
  <2> QED
    BY <2>2, <2>3, <2>4
<1>4. s[Len(s)] \in S
  BY <1>1, ElementOfSeq
<1> QED
  BY <1>1, <1>3, <1>4 DEF Front, Last

LEMMA ThreadsTyped ==
    ASSUME NEW p \in Procs, NEW t \in ThreadsOf(p)
    PROVE  t \in Caches /\ t # None
BY NoneAssumption DEF ThreadsOf, Caches, Procs

LEMMA BoundTyped ==
    ASSUME DatabaseType, ContextType, NEW p \in Procs, NEW b \in Bindings, Bound(p, b)
    PROVE  global' \in Bindings \cup {None}
BY DEF DatabaseType, ContextType, Bound

LEMMA CloseTyped ==
    ASSUME DatabaseType, NEW b \in Bindings, CloseBinding(b)
    PROVE  /\ owned' \in [Bindings -> SUBSET Conns]
           /\ pool' \in [Bindings -> Seq(Conns)]
           /\ anchor' \in [Bindings -> BOOLEAN]
           /\ open' \subseteq Conns
BY DEF DatabaseType, CloseBinding

LEMMA DatabaseNext ==
    ASSUME Typed, [Next]_vars
    PROVE  DatabaseType'
<1> DatabaseType /\ ContextType /\ CallType /\ \A p \in Procs : Placed(p)
  BY DEF Typed
<1> USE DEF DatabaseType
<1>1. ASSUME UNCHANGED <<databaseVars, home, open>> PROVE DatabaseType'
  BY <1>1 DEF databaseVars
<1>2. CASE UNCHANGED vars
  BY <1>1, <1>2 DEF vars
<1>3. ASSUME NEW p \in Procs,
             \/ Use(p) \/ Begin(p) \/ LeaveBlock(p)
             \/ EnterScope(p) \/ ReenterScope(p) \/ InheritScope(p) \/ LeaveScope(p)
      PROVE  DatabaseType'
  BY <1>1, <1>3 DEF Use, Begin, LeaveBlock, EnterScope, ReenterScope, InheritScope, LeaveScope
<1>4. ASSUME NEW p \in Procs, Execute(p) PROVE DatabaseType'
  BY <1>4, BoundTyped DEF Execute
<1>5. ASSUME NEW p \in Procs, EnterBlock(p) PROVE DatabaseType'
  <2>1. PICK b \in Bindings : Bound(p, b)
            /\ (pool' = pool \/ (pool[b] # <<>> /\ pool' = [pool EXCEPT ![b] = Front(@)]))
    BY <1>5 DEF EnterBlock
  <2>2. pool' \in [Bindings -> Seq(Conns)]
    <3>1. pool[b] \in Seq(Conns)
      OBVIOUS
    <3>2. pool[b] # <<>> => Front(pool[b]) \in Seq(Conns)
      BY <3>1, PrefixTyped
    <3> QED
      BY <2>1, <3>2
  <2>3. global' \in Bindings \cup {None}
    BY <2>1, BoundTyped
  <2> QED
    BY <1>5, <2>2, <2>3 DEF EnterBlock
<1>6. ASSUME NEW p \in Procs, Open(p) PROVE DatabaseType'
  <2>1. at[p] \in {"open", "open for block"} /\ Placed(p)
    BY <1>6 DEF Open
  <2>2. bind[p] \in Bindings
    BY <2>1 DEF Placed, CallType
  <2> QED
    BY <1>6, <2>2 DEF Open, databaseVars
<1>7. ASSUME NEW p \in Procs, Own(p) PROVE DatabaseType'
  <2>1. conn[p] \in Conns /\ bind[p] \in Bindings
    BY <1>7 DEF Own, Placed, Hand, CallType
  <2>2. Anchored(bind[p]) \in BOOLEAN
    BY <2>1 DEF Anchored
  <2> QED
    BY <1>7, <2>1, <2>2 DEF Own
<1>8. ASSUME NEW p \in Procs, Cache(p) PROVE DatabaseType'
  <2>1. conn[p] \in Conns /\ bind[p] \in Bindings /\ thread[p] \in Caches
    BY <1>8 DEF Cache, Placed, Hand, CallType
  <2>2. [generation |-> generation, conn |-> conn[p]] \in Entry
    BY <2>1 DEF Entry
  <2> QED
    BY <1>8, <2>1, <2>2 DEF Cache
<1>9. ASSUME NEW p \in Procs, Release(p) PROVE DatabaseType'
  <2>1. conn[p] \in Conns
    BY <1>9 DEF Release, Placed, Hand, CallType
  <2>2. ASSUME NEW b \in Bindings, pool' = [pool EXCEPT ![b] = Append(@, conn[p])]
        PROVE  pool' \in [Bindings -> Seq(Conns)]
    BY <2>1, <2>2, AppendProperties
  <2>3. ASSUME NEW b, pool' = [pool EXCEPT ![b] = Append(@, conn[p])]
        PROVE  pool' \in [Bindings -> Seq(Conns)]
    BY <2>2, <2>3
  <2>4. ASSUME NEW b, owned' = [owned EXCEPT ![b] = Disowned(b, conn[p])]
        PROVE  owned' \in [Bindings -> SUBSET Conns]
    BY <2>4 DEF Disowned
  <2> QED
    BY <1>9, <2>3, <2>4 DEF Release
<1>10. ASSUME NEW p \in Procs, Shut(p) \/ OpenFails(p) PROVE DatabaseType'
  BY <1>10 DEF Shut, OpenFails, databaseVars
<1>11. ASSUME NEW p \in Procs, EndScope(p) PROVE DatabaseType'
  <2>1. bind[p] \in Bindings
    BY <1>11, ZenonT(30) DEF EndScope, Placed, CallType
  <2> QED
    BY <1>11, <2>1, CloseTyped DEF EndScope
<1>12. ASSUME NEW t \in Caches, cache' = [cache EXCEPT ![t] = NoEntries]
       PROVE  cache' \in [Caches -> [Bindings -> Entry \cup {None}]]
  BY <1>12 DEF NoEntries
<1>13. ASSUME NEW p \in Procs, CloseAll(p) \/ Configure(p) PROVE DatabaseType'
  <2>1. generation' \in Nat /\ home' = home /\ global' \in Bindings \cup {None}
    BY <1>13 DEF CloseAll, Configure, NextGeneration
  <2>2. cache' \in [Caches -> [Bindings -> Entry \cup {None}]]
    BY <1>12, <1>13, ThreadsTyped DEF CloseAll, Configure
  <2> QED
    BY <1>13, <2>1, <2>2, CloseTyped DEF CloseAll, Configure, CloseNothing
<1>14. ASSUME NEW p \in Procs, Close(p) PROVE DatabaseType'
  <2>1. PICK t \in Caches : cache' = [cache EXCEPT ![t] = NoEntries]
    BY <1>14, ThreadsTyped DEF Close
  <2>2. cache' \in [Caches -> [Bindings -> Entry \cup {None}]]
    BY <1>12, <2>1
  <2>3. open' \subseteq open /\ owned' \in [Bindings -> SUBSET Conns]
    BY <1>14 DEF Close
  <2> QED
    BY <1>14, <2>2, <2>3 DEF Close
<1> QED
  BY <1>2, <1>3, <1>4, <1>5, <1>6, <1>7, <1>8, <1>9, <1>10, <1>11, <1>13, <1>14 DEF Next

\* A connection is closed that no list has: the pool was full, or it was never
\* configured.
Drops(p) == Shut(p) \/ OpenFails(p)

Moves(p) ==
    \/ Execute(p) \/ EnterBlock(p) \/ Open(p) \/ Own(p) \/ Cache(p) \/ Use(p)
    \/ Begin(p) \/ LeaveBlock(p) \/ Release(p) \/ Drops(p)
    \/ EnterScope(p) \/ ReenterScope(p) \/ InheritScope(p) \/ LeaveScope(p) \/ EndScope(p)
    \/ CloseAll(p) \/ Configure(p) \/ Close(p)

\* The calls, and the contexts, of the others.
OthersCall(p) ==
    \A q \in Procs : q # p =>
        at'[q] = at[q] /\ thread'[q] = thread[q] /\ bind'[q] = bind[q] /\ conn'[q] = conn[q]
OthersContext(p) ==
    \A q \in Procs : q # p =>
        scoped'[q] = scoped[q] /\ scopes'[q] = scopes[q] /\ txn'[q] = txn[q]

\* What p has in its call after a step of p.
Now(p, step, t, b, c) == at'[p] = step /\ thread'[p] = t /\ bind'[p] = b /\ conn'[p] = c

LEMMA IdleStep ==
    ASSUME CallType, NEW p \in Procs, Idle(p)
    PROVE  CallType' /\ OthersCall(p) /\ Now(p, "idle", None, None, None)
BY DEF CallType, Idle, OthersCall, Now, Steps

LEMMA ProceedStep ==
    ASSUME CallType, NEW p \in Procs, NEW step \in Steps, NEW t \in Caches \cup {None},
           NEW b \in Bindings \cup {None}, NEW c \in Conns \cup {None}, Proceed(p, step, t, b, c)
    PROVE  CallType' /\ OthersCall(p) /\ Now(p, step, t, b, c)
BY DEF CallType, Proceed, OthersCall, Now

LEMMA GotoStep ==
    ASSUME CallType, NEW p \in Procs, NEW step \in Steps, Goto(p, step)
    PROVE  CallType' /\ OthersCall(p) /\ Now(p, step, thread[p], bind[p], conn[p])
BY DEF CallType, Goto, OthersCall, Now

LEMMA CachedTyped ==
    ASSUME DatabaseType, NEW t \in Caches, NEW b \in Bindings
    PROVE  Cached(t, b) \in Conns \cup {None}
<1>1. cache[t][b] \in Entry \cup {None}
  BY DEF DatabaseType
<1>2. CASE cache[t][b] = None
  BY <1>2 DEF Cached
<1>3. CASE cache[t][b] \in Entry
  BY <1>3 DEF Cached, Entry
<1> QED
  BY <1>1, <1>2, <1>3

\* A call that begins has the connection of its block, a cached one or none.
LEMMA ExecuteStep ==
    ASSUME Typed, NEW p \in Procs, Execute(p)
    PROVE  /\ CallType' /\ OthersCall(p)
           /\ \E t \in ThreadsOf(p) :
                \/ /\ txn[p] # None /\ txn[p].conn \in Conns
                   /\ Now(p, "use", t, home[txn[p].conn], txn[p].conn)
                   /\ Proceed(p, "use", t, home[txn[p].conn], txn[p].conn)
                   /\ UNCHANGED global
                \/ /\ txn[p] = None
                   /\ \E b \in Bindings :
                       /\ Bound(p, b)
                       /\ Now(p, IF Cached(t, b) # None THEN "use" ELSE "open", t, b, Cached(t, b))
                       /\ Proceed(p, IF Cached(t, b) # None THEN "use" ELSE "open", t, b, Cached(t, b))
<1>0. DatabaseType /\ CallType /\ txn[p] \in Block \cup {None}
  BY DEF Typed, ContextType
<1>1. PICK t \in ThreadsOf(p) :
        \/ /\ txn[p] # None
           /\ Proceed(p, "use", t, home[txn[p].conn], txn[p].conn)
           /\ UNCHANGED global
        \/ /\ txn[p] = None
           /\ \E b \in Bindings :
               /\ Bound(p, b)
               /\ Proceed(p, IF Cached(t, b) # None THEN "use" ELSE "open", t, b, Cached(t, b))
  BY DEF Execute
<1>2. t \in Caches
  BY ThreadsTyped
<1>3. CASE txn[p] # None
  <2>1. txn[p].conn \in Conns
    BY <1>0, <1>3 DEF Block
  <2>2. home[txn[p].conn] \in Bindings \cup {None}
    BY <1>0, <2>1 DEF DatabaseType
  <2>3. Proceed(p, "use", t, home[txn[p].conn], txn[p].conn) /\ UNCHANGED global
    BY <1>1, <1>3
  <2>4. CallType' /\ OthersCall(p) /\ Now(p, "use", t, home[txn[p].conn], txn[p].conn)
    BY <1>0, <1>2, <2>1, <2>2, <2>3, ProceedStep DEF Steps
  <2> QED
    BY <1>3, <2>1, <2>3, <2>4
<1>4. CASE txn[p] = None
  <2>1. PICK b \in Bindings :
          /\ Bound(p, b)
          /\ Proceed(p, IF Cached(t, b) # None THEN "use" ELSE "open", t, b, Cached(t, b))
    BY <1>1, <1>4
  <2>2. Cached(t, b) \in Conns \cup {None}
    BY <1>0, <1>2, CachedTyped
  <2>3. /\ CallType' /\ OthersCall(p)
        /\ Now(p, IF Cached(t, b) # None THEN "use" ELSE "open", t, b, Cached(t, b))
    BY <1>0, <1>2, <2>1, <2>2, ProceedStep DEF Steps
  <2> QED
    BY <1>4, <2>1, <2>3
<1> QED
  BY <1>3, <1>4

\* A block that begins has the pool's last connection or none.
LEMMA EnterBlockStep ==
    ASSUME Typed, NEW p \in Procs, EnterBlock(p)
    PROVE  /\ CallType' /\ OthersCall(p)
           /\ \E t \in ThreadsOf(p), b \in Bindings :
                /\ Bound(p, b)
                /\ \/ /\ pool[b] # <<>> /\ Last(pool[b]) \in Conns
                      /\ Now(p, "begin", t, b, Last(pool[b]))
                      /\ Proceed(p, "begin", t, b, Last(pool[b]))
                      /\ pool' = [pool EXCEPT ![b] = Front(@)]
                   \/ /\ pool[b] = <<>>
                      /\ Now(p, "open for block", t, b, None)
                      /\ Proceed(p, "open for block", t, b, None)
                      /\ UNCHANGED pool
<1>0. DatabaseType /\ CallType
  BY DEF Typed
<1>1. PICK t \in ThreadsOf(p), b \in Bindings :
        /\ Bound(p, b)
        /\ IF pool[b] # <<>>
           THEN /\ Proceed(p, "begin", t, b, Last(pool[b]))
                /\ pool' = [pool EXCEPT ![b] = Front(@)]
           ELSE /\ Proceed(p, "open for block", t, b, None)
                /\ UNCHANGED pool
  BY DEF EnterBlock
<1>2. t \in Caches
  BY ThreadsTyped
<1>3. pool[b] \in Seq(Conns)
  BY <1>0 DEF DatabaseType
<1>4. CASE pool[b] # <<>>
  <2>1. Last(pool[b]) \in Conns
    BY <1>3, <1>4, PrefixTyped
  <2>2. Proceed(p, "begin", t, b, Last(pool[b]))
    BY <1>1, <1>4
  <2>3. CallType' /\ OthersCall(p) /\ Now(p, "begin", t, b, Last(pool[b]))
    BY <1>0, <1>2, <2>1, <2>2, ProceedStep DEF Steps
  <2> QED
    BY <1>1, <1>4, <2>1, <2>2, <2>3
<1>5. CASE pool[b] = <<>>
  <2>1. Proceed(p, "open for block", t, b, None)
    BY <1>1, <1>5
  <2>2. CallType' /\ OthersCall(p) /\ Now(p, "open for block", t, b, None)
    BY <1>0, <1>2, <2>1, ProceedStep DEF Steps
  <2> QED
    BY <1>1, <1>5, <2>1, <2>2
<1> QED
  BY <1>4, <1>5

\* A call that opens a connection has a binding; one that leaves or ends
\* a block or a scope has what it is about to lose.
LEMMA PlacedTyped ==
    ASSUME DatabaseType, ContextType, CallType, NEW p \in Procs, Placed(p)
    PROVE  /\ at[p] # "idle" => bind[p] \in Bindings /\ thread[p] \in Caches
           /\ Hand(p) \/ at[p] = "use" => conn[p] \in Conns
           /\ txn[p] # None => /\ txn[p] \in Block /\ txn[p].conn \in Conns /\ txn[p].depth \in Nat
                               /\ home[txn[p].conn] \in Bindings \cup {None}
           /\ scopes[p] \in Seq(Scope) /\ Len(scopes[p]) \in Nat
           /\ scopes[p] # <<>> => /\ Last(scopes[p]) \in Scope
                                  /\ Last(scopes[p]).binding \in Bindings
                                  /\ Last(scopes[p]).outer \in Bindings \cup {None}
                                  /\ Front(scopes[p]) \in Seq(Scope)
<1>1. at[p] # "idle" => bind[p] \in Bindings /\ thread[p] \in Caches
  BY DEF CallType, Placed
<1>2. Hand(p) \/ at[p] = "use" => conn[p] \in Conns
  BY DEF CallType, Placed
<1>3. txn[p] # None => txn[p] \in Block /\ txn[p].conn \in Conns /\ txn[p].depth \in Nat
  BY DEF ContextType, Block
<1>4. txn[p] # None => home[txn[p].conn] \in Bindings \cup {None}
  BY <1>3 DEF DatabaseType
<1>5. scopes[p] \in Seq(Scope)
  BY DEF ContextType
<1>6. Len(scopes[p]) \in Nat
  BY <1>5, LenProperties
<1>7. scopes[p] # <<>> => Last(scopes[p]) \in Scope /\ Front(scopes[p]) \in Seq(Scope)
  BY <1>5, PrefixTyped
<1>8. scopes[p] # <<>> => /\ Last(scopes[p]).binding \in Bindings
                          /\ Last(scopes[p]).outer \in Bindings \cup {None}
  BY <1>7 DEF Scope
<1> QED
  BY <1>1, <1>2, <1>3, <1>4, <1>5, <1>6, <1>7, <1>8

LEMMA CallNext ==
    ASSUME Typed, NEW p \in Procs, Moves(p)
    PROVE  CallType' /\ OthersCall(p)
<1>0. DatabaseType /\ ContextType /\ CallType /\ Placed(p)
  BY DEF Typed
<1>1. CASE EnterScope(p) \/ ReenterScope(p) \/ InheritScope(p) \/ CloseAll(p)
           \/ Configure(p) \/ Close(p)
  <2>1. UNCHANGED callVars
    BY <1>1 DEF EnterScope, ReenterScope, InheritScope, CloseAll, Configure, Close
  <2> QED
    BY <1>0, <2>1 DEF callVars, CallType, OthersCall
<1>2. CASE Use(p) \/ Drops(p) \/ EndScope(p)
  BY <1>0, <1>2, IdleStep DEF Use, Drops, Shut, OpenFails, EndScope
<1>3. CASE Own(p) \/ Cache(p) \/ Begin(p)
  <2>1. Idle(p) \/ Goto(p, "cache") \/ Goto(p, "begin") \/ Goto(p, "use") \/ Goto(p, "release")
    BY <1>3 DEF Own, Cache, Begin
  <2> QED
    BY <1>0, <2>1, IdleStep, GotoStep DEF Steps
<1>4. CASE Release(p)
  <2>1. Idle(p) \/ (at' = [at EXCEPT ![p] = "shut"] /\ UNCHANGED <<thread, bind, conn>>)
    BY <1>4 DEF Release
  <2> QED
    BY <1>0, <2>1, IdleStep DEF CallType, OthersCall, Steps
<1>5. CASE Open(p)
  <2>1. PICK c \in Conns : conn' = [conn EXCEPT ![p] = c]
    BY <1>5 DEF Open
  <2>2. at'= [at EXCEPT ![p] = IF @ = "open" THEN "own" ELSE "own for block"]
        /\ UNCHANGED <<thread, bind>>
    BY <1>5 DEF Open
  <2> QED
    BY <1>0, <2>1, <2>2 DEF CallType, OthersCall, Steps
<1>6. CASE LeaveBlock(p)
  <2>1. PICK t \in ThreadsOf(p) : thread' = [thread EXCEPT ![p] = t]
    BY <1>6 DEF LeaveBlock
  <2>2. txn[p].conn \in Conns /\ t \in Caches /\ home[txn[p].conn] \in Bindings \cup {None}
    BY <1>0, <1>6, PlacedTyped, ThreadsTyped DEF LeaveBlock
  <2>3. /\ at' = [at EXCEPT ![p] = "release"]
        /\ bind' = [bind EXCEPT ![p] = home[txn[p].conn]]
        /\ conn' = [conn EXCEPT ![p] = txn[p].conn]
    BY <1>6 DEF LeaveBlock
  <2> QED
    BY <1>0, <2>1, <2>2, <2>3 DEF CallType, OthersCall, Steps
<1>7. CASE LeaveScope(p)
  <2>1. PICK t \in ThreadsOf(p) : thread' = [thread EXCEPT ![p] = t]
    BY <1>7 DEF LeaveScope
  <2>2. t \in Caches /\ Last(scopes[p]).binding \in Bindings
    BY <1>0, <1>7, PlacedTyped, ThreadsTyped DEF LeaveScope
  <2>3. /\ at' = [at EXCEPT ![p] = "leave scope"]
        /\ bind' = [bind EXCEPT ![p] = Last(scopes[p]).binding]
        /\ UNCHANGED conn
    BY <1>7 DEF LeaveScope
  <2> QED
    BY <1>0, <2>1, <2>2, <2>3 DEF CallType, OthersCall, Steps
<1> QED
  BY <1>1, <1>2, <1>3, <1>4, <1>5, <1>6, <1>7, ExecuteStep, EnterBlockStep DEF Moves

\* Only its own step uses up a call of p.
OthersCount(p) == \A q \in Procs : q # p => calls'[q] = calls[q]

LEMMA CallsNext ==
    ASSUME Typed, NEW p \in Procs, Moves(p)
    PROVE  /\ calls' \in [Procs -> 0 .. MaxCalls] /\ OthersCount(p)
           /\ calls[p] # MaxCalls => calls'[p] # MaxCalls
           /\ calls' = calls \/ calls'[p] # MaxCalls
<1>0. calls \in [Procs -> 0 .. MaxCalls] /\ MaxCalls \in Nat
  BY ConnectionsAssumption DEF Typed, ContextType
<1> DEFINE Goal == /\ calls' \in [Procs -> 0 .. MaxCalls] /\ OthersCount(p)
                   /\ calls[p] # MaxCalls => calls'[p] # MaxCalls
                   /\ calls' = calls \/ calls'[p] # MaxCalls
<1>1. ASSUME calls' = calls PROVE Goal
  BY <1>0, <1>1 DEF OthersCount
<1>2. ASSUME calls[p] > 0, Counted(p) PROVE Goal
  <2>1. calls[p] \in 0 .. MaxCalls /\ calls[p] - 1 \in 0 .. MaxCalls /\ calls[p] - 1 # MaxCalls
    BY <1>0, <1>2
  <2>2. calls' = [calls EXCEPT ![p] = calls[p] - 1]
    BY <1>2 DEF Counted
  <2> QED
    BY <1>0, <2>1, <2>2 DEF OthersCount
<1>3. CASE \/ Execute(p) \/ EnterBlock(p) \/ EnterScope(p) \/ ReenterScope(p) \/ InheritScope(p)
           \/ CloseAll(p) \/ Configure(p) \/ Close(p)
  <2>1. calls[p] > 0
    BY <1>3 DEF Execute, EnterBlock, EnterScope, ReenterScope, InheritScope, CloseAll, Configure,
       Close, CanCall
  <2>2. Counted(p)
    BY <1>3 DEF Execute, EnterBlock, EnterScope, ReenterScope, InheritScope, CloseAll, Configure,
       Close, Proceed
  <2> QED
    BY <1>2, <2>1, <2>2
<1>4. CASE \/ Open(p) \/ Own(p) \/ Cache(p) \/ Use(p) \/ Begin(p) \/ LeaveBlock(p)
           \/ Release(p) \/ Drops(p) \/ LeaveScope(p) \/ EndScope(p)
  <2>1. calls' = calls
    BY <1>4 DEF Open, Own, Cache, Use, Begin, LeaveBlock, Release, Drops, Shut, OpenFails, LeaveScope,
       EndScope, Goto
  <2> QED
    BY <1>1, <2>1
<1> QED
  BY <1>3, <1>4 DEF Moves

LEMMA ContextNext ==
    ASSUME Typed, NEW p \in Procs, Moves(p)
    PROVE  ContextType' /\ OthersContext(p)
<1>0. /\ DatabaseType /\ ContextType /\ CallType /\ Placed(p)
      /\ calls' \in [Procs -> 0 .. MaxCalls]
  BY CallsNext DEF Typed
<1> USE DEF OthersContext
<1>1. CASE UNCHANGED contextVars
  BY <1>0, <1>1 DEF contextVars, ContextType
<1>2. CASE \/ Execute(p) \/ EnterBlock(p) \/ Open(p) \/ Own(p) \/ Cache(p) \/ Use(p)
           \/ Release(p) \/ Drops(p) \/ CloseAll(p) \/ Configure(p) \/ Close(p)
  BY <1>1, <1>2 DEF Execute, EnterBlock, Open, Own, Cache, Use, Release, Drops, Shut, OpenFails,
     CloseAll, Configure, Close
<1>3. CASE Begin(p)
  <2>1. Len(scopes[p]) \in Nat /\ conn[p] \in Conns
    BY <1>0, <1>3, PlacedTyped DEF Begin, Hand
  <2>2. [conn |-> conn[p], depth |-> Len(scopes[p])] \in Block
    BY <2>1 DEF Block
  <2>3. \/ txn' = [txn EXCEPT ![p] = [conn |-> conn[p], depth |-> Len(scopes[p])]]
        \/ UNCHANGED txn
    BY <1>3 DEF Begin
  <2>4. UNCHANGED <<scoped, scopes>>
    BY <1>3 DEF Begin
  <2> QED
    BY <1>0, <2>2, <2>3, <2>4 DEF ContextType
<1>4. CASE LeaveBlock(p)
  BY <1>0, <1>4 DEF LeaveBlock, ContextType
<1>5. CASE EnterScope(p) \/ ReenterScope(p)
  <2>1. PICK b \in Bindings :
          /\ scoped' = [scoped EXCEPT ![p] = b]
          /\ scopes' = [scopes EXCEPT ![p] = Append(@, [binding |-> b, outer |-> scoped[p]])]
    BY <1>5 DEF EnterScope, ReenterScope, Made
  <2>2. [binding |-> b, outer |-> scoped[p]] \in Scope /\ scopes[p] \in Seq(Scope)
    BY <1>0 DEF ContextType, Scope
  <2>3. Append(scopes[p], [binding |-> b, outer |-> scoped[p]]) \in Seq(Scope)
    BY <2>2, AppendProperties
  <2>4. UNCHANGED txn
    BY <1>5 DEF EnterScope, ReenterScope
  <2> QED
    BY <1>0, <2>1, <2>3, <2>4 DEF ContextType
<1>6. CASE InheritScope(p)
  BY <1>0, <1>6 DEF InheritScope, ContextType
<1>7. CASE LeaveScope(p)
  <2>1. Last(scopes[p]).outer \in Bindings \cup {None}
    BY <1>0, <1>7, PlacedTyped DEF LeaveScope
  <2> QED
    BY <1>0, <1>7, <2>1 DEF LeaveScope, ContextType
<1>8. CASE EndScope(p)
  <2>1. Front(scopes[p]) \in Seq(Scope)
    BY <1>0, <1>8, PlacedTyped DEF EndScope, Placed
  <2>2. scopes' = [scopes EXCEPT ![p] = Front(scopes[p])] /\ UNCHANGED <<scoped, txn>>
    BY <1>8 DEF EndScope
  <2> QED
    BY <1>0, <2>1, <2>2 DEF ContextType
<1> QED
  BY <1>2, <1>3, <1>4, <1>5, <1>6, <1>7, <1>8 DEF Moves

LEMMA ThreadIsFree ==
    ASSUME Typed, NEW p \in Procs, NEW q \in Procs, q # p, NEW t \in ThreadsOf(p)
    PROVE  thread[q] # t
<1>1. ThreadsServeOne
  BY DEF Typed
<1>2. CASE p \in Threads
  <2>1. t = p /\ p \notin Workers
    BY <1>2, ConnectionsAssumption DEF ThreadsOf
  <2>2. thread[q] # None => IF q \in Threads THEN thread[q] = q ELSE thread[q] \in Workers
    BY <1>1 DEF ThreadsServeOne
  <2>3. p # None
    BY NoneAssumption
  <2> QED
    BY <2>1, <2>2, <2>3
<1>3. CASE p \notin Threads
  BY <1>3 DEF ThreadsOf
<1> QED
  BY <1>2, <1>3

\* Steps keep the homes of connections, and the caches that others use.
HomesKept == \A c \in Conns : home[c] # None => home'[c] = home[c]
CachesKept(p) == \A q \in Procs : q # p /\ thread[q] # None => cache'[thread[q]] = cache[thread[q]]

LEMMA KeptNext ==
    ASSUME Typed, NEW p \in Procs, Moves(p)
    PROVE  HomesKept /\ CachesKept(p)
<1>0. DatabaseType /\ CallType /\ Placed(p) /\ ThreadsServeOne
  BY DEF Typed
<1>1. HomesKept
  <2>1. CASE Open(p)
    BY <1>0, <2>1 DEF Open, DatabaseType, HomesKept
  <2>2. CASE ~ Open(p)
    <3>1. home' = home
      BY <2>2 DEF Moves, Execute, EnterBlock, Own, Cache, Use, Begin, LeaveBlock,
         Release, Drops, Shut, OpenFails, EnterScope, ReenterScope, InheritScope, LeaveScope, EndScope, CloseAll,
         Configure, Close
    <3> QED
      BY <3>1 DEF HomesKept
  <2> QED
    BY <2>1, <2>2
<1>2. ASSUME NEW t \in ThreadsOf(p), NEW x, cache' = [cache EXCEPT ![t] = x] PROVE CachesKept(p)
  BY <1>0, <1>2, ThreadIsFree DEF CachesKept, DatabaseType, CallType
<1>3. CASE CloseAll(p) \/ Configure(p) \/ Close(p)
  BY <1>1, <1>2, <1>3 DEF CloseAll, Configure, Close
<1>4. CASE Cache(p)
  <2>1. thread[p] # None
    BY <1>0, <1>4 DEF Cache, Placed
  <2>2. \A q \in Procs : q # p => thread[q] # thread[p]
    BY <1>0, <2>1 DEF ThreadsServeOne
  <2>3. cache' = [cache EXCEPT ![thread[p]][bind[p]] = [generation |-> generation, conn |-> conn[p]]]
    BY <1>4 DEF Cache
  <2> QED
    BY <1>0, <1>1, <2>2, <2>3 DEF CachesKept, DatabaseType, CallType
<1>5. CASE ~ (CloseAll(p) \/ Configure(p) \/ Close(p) \/ Cache(p))
  <2>1. cache' = cache
    BY <1>5 DEF Moves, Execute, EnterBlock, Open, Own, Use, Begin, LeaveBlock, databaseVars,
       Release, Drops, Shut, OpenFails, EnterScope, ReenterScope, InheritScope, LeaveScope, EndScope
  <2> QED
    BY <1>1, <2>1 DEF CachesKept
<1> QED
  BY <1>1, <1>3, <1>4, <1>5

LEMMA ThreadsNext ==
    ASSUME Typed, NEW p \in Procs, Moves(p)
    PROVE  ThreadsServeOne'
<1>0. ThreadsServeOne /\ CallType /\ OthersCall(p)
  BY CallNext DEF Typed
<1>1. ASSUME thread'[p] = thread[p] \/ thread'[p] = None PROVE ThreadsServeOne'
  BY <1>0, <1>1 DEF ThreadsServeOne, OthersCall
<1>2. ASSUME NEW t \in ThreadsOf(p), thread'[p] = t PROVE ThreadsServeOne'
  <2>1. \A q \in Procs : q # p => thread'[q] # t
    BY <1>0, <1>2, ThreadIsFree DEF OthersCall
  <2>2. IF p \in Threads THEN t = p ELSE t \in Workers
    BY <1>2 DEF ThreadsOf
  <2> QED
    BY <1>0, <1>2, <2>1, <2>2 DEF ThreadsServeOne, OthersCall
<1>3. CASE Execute(p) \/ EnterBlock(p)
  BY <1>2, <1>3, ExecuteStep, EnterBlockStep DEF Now
<1>4. CASE LeaveBlock(p) \/ LeaveScope(p)
  <2>1. PICK t \in ThreadsOf(p) : thread' = [thread EXCEPT ![p] = t]
    BY <1>4 DEF LeaveBlock, LeaveScope
  <2> QED
    BY <1>0, <1>2, <2>1 DEF CallType
<1>5. CASE Use(p) \/ Drops(p) \/ EndScope(p)
  BY <1>0, <1>1, <1>5, IdleStep DEF Use, Drops, Shut, OpenFails, EndScope, Now
<1>6. CASE \/ Open(p) \/ Own(p) \/ Cache(p) \/ EnterScope(p) \/ ReenterScope(p) \/ InheritScope(p)
           \/ CloseAll(p) \/ Configure(p) \/ Close(p)
  BY <1>1, <1>6 DEF Open, Own, Cache, EnterScope, ReenterScope, InheritScope, CloseAll, Configure,
     Close, Goto, callVars
<1>7. CASE Begin(p) \/ Release(p)
  <2>1. Idle(p) \/ thread' = thread
    BY <1>7 DEF Begin, Release, Goto
  <2> QED
    BY <1>0, <1>1, <2>1, IdleStep DEF Now
<1> QED
  BY <1>3, <1>4, <1>5, <1>6, <1>7 DEF Moves

LEMMA PlacedNext ==
    ASSUME Typed, Serve, NEW p \in Procs, Moves(p)
    PROVE  \A q \in Procs : Placed(q)'
<1>0. /\ DatabaseType /\ ContextType /\ CallType /\ Placed(p)
      /\ CallType' /\ OthersCall(p) /\ OthersContext(p) /\ HomesKept /\ CachesKept(p)
  BY CallNext, ContextNext, KeptNext DEF Typed
<1>n. None \notin Conns \cup Bindings \cup Caches
  BY NoneAssumption DEF Procs, Caches
<1>1. ASSUME NEW q \in Procs, q # p PROVE Placed(q)'
  <2>1. Placed(q)
    BY DEF Typed
  <2>2. /\ at'[q] = at[q] /\ thread'[q] = thread[q] /\ bind'[q] = bind[q] /\ conn'[q] = conn[q]
        /\ scoped'[q] = scoped[q] /\ scopes'[q] = scopes[q] /\ txn'[q] = txn[q]
    BY <1>0, <1>1 DEF OthersCall, OthersContext
  <2>3. thread[q] # None => cache'[thread[q]] = cache[thread[q]]
    BY <1>0, <1>1 DEF CachesKept
  <2>4. txn[q] # None => txn[q].conn \in Conns /\ home[txn[q].conn] # None
    BY <1>0, <2>1, PlacedTyped DEF Serve, HandsServe
  <2>5. txn[q] # None => home'[txn[q].conn] = home[txn[q].conn]
    BY <1>0, <2>4 DEF HomesKept
  <2> QED
    BY <2>1, <2>2, <2>3, <2>5 DEF Placed, Hand
<1>2. Placed(p)'
  <2>a. /\ at[p] # "idle" => bind[p] \in Bindings /\ thread[p] \in Caches
        /\ Hand(p) \/ at[p] = "use" => conn[p] \in Conns
        /\ txn[p] # None => txn[p].conn \in Conns /\ home[txn[p].conn] \in Bindings
    BY <1>0, PlacedTyped DEF Serve, HandsServe
  <2>i. ASSUME Idle(p) PROVE Placed(p)'
    BY <1>0, <2>i, IdleStep DEF Now, Placed, Hand
  <2>1. CASE Execute(p)
    <3>1. cache' = cache /\ home' = home /\ txn' = txn
      BY <2>1 DEF Execute, contextVars
    <3>2. PICK t \in ThreadsOf(p) :
            \/ /\ txn[p] # None /\ Now(p, "use", t, home[txn[p].conn], txn[p].conn)
            \/ /\ txn[p] = None
               /\ \E b \in Bindings :
                   Now(p, IF Cached(t, b) # None THEN "use" ELSE "open", t, b, Cached(t, b))
      BY <2>1, ExecuteStep
    <3>3. t # None
      BY ThreadsTyped
    <3>4. CASE txn[p] # None
      BY <1>0, <1>n, <2>a, <3>1, <3>2, <3>3, <3>4 DEF Now, Placed, Hand
    <3>5. CASE txn[p] = None
      <4>1. PICK b \in Bindings :
              Now(p, IF Cached(t, b) # None THEN "use" ELSE "open", t, b, Cached(t, b))
        BY <3>2, <3>5
      <4>2. Cached(t, b) # None => cache[t][b] # None /\ Cached(t, b) = cache[t][b].conn
        BY DEF Cached
      <4> HIDE DEF Cached
      <4> QED
        BY <1>0, <1>n, <3>1, <3>3, <3>5, <4>1, <4>2 DEF Now, Placed, Hand
    <3> QED
      BY <3>4, <3>5
  <2>2. CASE EnterBlock(p)
    <3>1. txn'[p] = None
      BY <2>2 DEF EnterBlock, contextVars
    <3>2. PICK t \in ThreadsOf(p), b \in Bindings :
            \/ Last(pool[b]) \in Conns /\ Now(p, "begin", t, b, Last(pool[b]))
            \/ Now(p, "open for block", t, b, None)
      BY <2>2, EnterBlockStep
    <3>3. t # None
      BY ThreadsTyped
    <3> QED
      BY <1>n, <3>1, <3>2, <3>3 DEF Now, Placed, Hand
  <2>3. CASE Open(p)
    <3>1. PICK c \in Conns : conn' = [conn EXCEPT ![p] = c]
      BY <2>3 DEF Open
    <3>2. conn'[p] # None
      BY <1>0, <1>n, <3>1 DEF CallType
    <3>3. at[p] \in {"open", "open for block"} /\ at'[p] \in {"own", "own for block"}
      BY <1>0, <2>3 DEF Open, CallType
    <3>4. UNCHANGED <<thread, bind, txn>>
      BY <2>3 DEF Open, contextVars
    <3> QED
      BY <1>0, <3>2, <3>3, <3>4 DEF Placed, Hand
  <2>4. CASE Own(p)
    <3>1. UNCHANGED <<thread, bind, conn, txn>> /\ at'[p] \in {"cache", "begin"}
      BY <1>0, <2>4 DEF Own, Goto, contextVars, CallType
    <3>2. at[p] \in {"own", "own for block"}
      BY <2>4 DEF Own
    <3> QED
      BY <1>0, <3>1, <3>2 DEF Placed, Hand
  <2>5. CASE Cache(p)
    <3>1. UNCHANGED <<thread, bind, conn, txn>> /\ at'[p] = "use" /\ at[p] = "cache"
      BY <1>0, <2>5 DEF Cache, Goto, contextVars, CallType
    <3>2. thread[p] \in Caches /\ bind[p] \in Bindings
      BY <2>a, <3>1
    <3>3. cache'[thread[p]][bind[p]] = [generation |-> generation, conn |-> conn[p]]
      BY <1>0, <2>5, <3>2 DEF Cache, DatabaseType
    <3>4. [generation |-> generation, conn |-> conn[p]] \in Entry
      BY <1>0, <2>a, <3>1 DEF Entry, DatabaseType, Hand
    <3>5. [generation |-> generation, conn |-> conn[p]] # None
      BY <3>4, NoneAssumption DEF Entry
    <3> QED
      BY <1>0, <3>1, <3>3, <3>5 DEF Placed, Hand
  <2>6. CASE Use(p) \/ Drops(p) \/ EndScope(p)
    BY <2>6, <2>i DEF Use, Drops, Shut, OpenFails, EndScope
  <2>7. CASE Begin(p)
    <3>1. Idle(p) \/ (Goto(p, "release") /\ UNCHANGED txn)
      BY <2>7 DEF Begin
    <3>2. at[p] = "begin"
      BY <2>7 DEF Begin
    <3>3. ASSUME Goto(p, "release"), UNCHANGED txn PROVE Placed(p)'
      BY <1>0, <3>2, <3>3, GotoStep DEF Placed, Hand, Now, Steps
    <3> QED
      BY <2>i, <3>1, <3>3
  <2>8. CASE LeaveBlock(p)
    <3>1. PICK t \in ThreadsOf(p) : thread' = [thread EXCEPT ![p] = t]
      BY <2>8 DEF LeaveBlock
    <3>2. t # None
      BY ThreadsTyped
    <3>3. /\ at'[p] = "release" /\ bind'[p] = home[txn[p].conn] /\ conn'[p] = txn[p].conn
          /\ thread'[p] = t /\ txn'[p] = None /\ txn[p] # None
      BY <1>0, <2>8, <3>1 DEF LeaveBlock, CallType, ContextType
    <3> QED
      BY <1>n, <2>a, <3>2, <3>3 DEF Placed, Hand
  <2>9. CASE Release(p)
    <3>1. at[p] = "release" /\ UNCHANGED txn
      BY <2>9 DEF Release, contextVars
    <3>2. Idle(p) \/ (at' = [at EXCEPT ![p] = "shut"] /\ UNCHANGED <<thread, bind, conn>>)
      BY <2>9 DEF Release
    <3>3. ASSUME at' = [at EXCEPT ![p] = "shut"], UNCHANGED <<thread, bind, conn>>
          PROVE  Placed(p)'
      BY <1>0, <3>1, <3>3 DEF Placed, Hand, CallType
    <3> QED
      BY <2>i, <3>2, <3>3
  <2>10. CASE EnterScope(p) \/ ReenterScope(p) \/ InheritScope(p)
    <3>1. at[p] = "idle" /\ UNCHANGED callVars
      BY <2>10 DEF EnterScope, ReenterScope, InheritScope, CanCall
    <3> QED
      BY <1>0, <3>1 DEF Placed, Hand, callVars
  <2>11. CASE LeaveScope(p)
    <3>1. PICK t \in ThreadsOf(p) : thread' = [thread EXCEPT ![p] = t]
      BY <2>11 DEF LeaveScope
    <3>2. t # None /\ Last(scopes[p]).binding \in Bindings
      BY <1>0, <2>11, PlacedTyped, ThreadsTyped DEF LeaveScope
    <3>3. /\ at'[p] = "leave scope" /\ bind'[p] = Last(scopes[p]).binding
          /\ scoped'[p] = Last(scopes[p]).outer /\ scopes' = scopes /\ scopes[p] # <<>>
          /\ thread'[p] = t /\ conn' = conn /\ at[p] = "idle"
      BY <1>0, <2>11, <3>1 DEF LeaveScope, CallType, ContextType
    <3> QED
      BY <1>0, <1>n, <3>2, <3>3 DEF Placed, Hand
  <2>12. CASE CloseAll(p) \/ Configure(p) \/ Close(p)
    <3>1. at[p] = "idle" /\ UNCHANGED callVars
      BY <2>12 DEF CloseAll, Configure, Close, CanCall
    <3> QED
      BY <1>0, <3>1 DEF Placed, Hand, callVars
  <2> QED
    BY <2>1, <2>2, <2>3, <2>4, <2>5, <2>6, <2>7, <2>8, <2>9, <2>10, <2>11, <2>12 DEF Moves
<1> QED
  BY <1>1, <1>2

LEMMA TypedNext ==
    ASSUME Typed, Serve, NEW p \in Procs, Moves(p)
    PROVE  Typed'
<1>1. [Next]_vars
  BY DEF Next, Moves, Drops
<1> QED
  BY <1>1, DatabaseNext, ContextNext, CallNext, PlacedNext, ThreadsNext DEF Typed

-----------------------------------------------------------------------------
(***************************************************************************)
(* Steps keep connections apart: a step gives up some of the places of     *)
(* connections, and puts at most one connection into one new place, which  *)
(* is in no other.                                                         *)
(***************************************************************************)
HandsMove(c, kind, p) ==
    \A q \in Procs : Hand(q)' =>
        \/ Hand(q) /\ conn'[q] = conn[q] /\ conn[q] # c
        \/ kind = "hand" /\ q = p /\ conn'[q] = c
BlocksMove(c, kind, p) ==
    \A q \in Procs : txn'[q] # None =>
        \/ txn[q] # None /\ txn'[q].conn = txn[q].conn /\ txn[q].conn # c
        \/ kind = "block" /\ q = p /\ txn'[q].conn = c
PoolsMove(c, kind, b, n) ==
    \A d \in Bindings : \A i \in 1 .. Len(pool'[d]) :
        \/ i \in 1 .. Len(pool[d]) /\ pool'[d][i] = pool[d][i] /\ pool[d][i] # c
        \/ kind = "pool" /\ d = b /\ i = n /\ pool'[d][i] = c
CachesMove(c, kind, t, b) ==
    \A u \in Caches, d \in Bindings : cache'[u][d] # None =>
        \/ cache[u][d] # None /\ cache'[u][d].conn = cache[u][d].conn /\ cache[u][d].conn # c
        \/ kind = "cache" /\ u = t /\ d = b /\ cache'[u][d].conn = c

LEMMA OneMoves ==
    ASSUME Apart, NEW c, NEW kind, NEW p, NEW b, NEW n, NEW t,
           HandsMove(c, kind, p), BlocksMove(c, kind, p),
           PoolsMove(c, kind, b, n), CachesMove(c, kind, t, b)
    PROVE  Apart'
<1>1. HandsApart'
  BY DEF Apart, HandsApart, HandsMove, BlocksMove
<1>2. BlocksApart'
  BY DEF Apart, BlocksApart, BlocksMove
<1>3. PoolsApart'
  <2>1. \A d, e \in Bindings : \A i \in 1 .. Len(pool'[d]), j \in 1 .. Len(pool'[e]) :
          pool'[d][i] = pool'[e][j] => d = e /\ i = j
    BY DEF Apart, PoolsApart, PoolsMove
  <2>2. \A d \in Bindings : \A i \in 1 .. Len(pool'[d]) : \A q \in Procs :
          Hand(q)' => pool'[d][i] # conn'[q]
    BY DEF Apart, PoolsApart, PoolsMove, HandsMove
  <2>3. \A d \in Bindings : \A i \in 1 .. Len(pool'[d]) : \A q \in Procs :
          txn'[q] # None => pool'[d][i] # txn'[q].conn
    BY DEF Apart, PoolsApart, PoolsMove, BlocksMove
  <2> QED
    BY <2>1, <2>2, <2>3 DEF PoolsApart
<1>4. CachesApart'
  <2> SUFFICES ASSUME NEW u \in Caches, NEW d \in Bindings, cache'[u][d] # None
               PROVE  /\ \A v \in Caches, e \in Bindings :
                           cache'[v][e] # None /\ cache'[v][e].conn = cache'[u][d].conn
                               => v = u /\ e = d
                      /\ \A e \in Bindings : \A i \in 1 .. Len(pool'[e]) :
                           pool'[e][i] # cache'[u][d].conn
                      /\ \A q \in Procs : Hand(q)' => conn'[q] # cache'[u][d].conn
                      /\ \A q \in Procs : txn'[q] # None => txn'[q].conn # cache'[u][d].conn
    BY DEF CachesApart
  <2>1. \A v \in Caches, e \in Bindings :
          cache'[v][e] # None /\ cache'[v][e].conn = cache'[u][d].conn => v = u /\ e = d
    BY DEF Apart, CachesApart, CachesMove
  <2>2. \A e \in Bindings : \A i \in 1 .. Len(pool'[e]) : pool'[e][i] # cache'[u][d].conn
    BY DEF Apart, CachesApart, CachesMove, PoolsMove
  <2>3. \A q \in Procs : Hand(q)' => conn'[q] # cache'[u][d].conn
    BY DEF Apart, CachesApart, CachesMove, HandsMove
  <2>4. \A q \in Procs : txn'[q] # None => txn'[q].conn # cache'[u][d].conn
    BY DEF Apart, CachesApart, CachesMove, BlocksMove
  <2> QED
    BY <2>1, <2>2, <2>3, <2>4
<1> QED
  BY <1>1, <1>2, <1>3, <1>4 DEF Apart

\* What is in a place is a connection, and one that was opened.
LEMMA SlotsTyped ==
    ASSUME Typed, Serve
    PROVE  /\ \A q \in Procs : Hand(q) => conn[q] \in Conns /\ home[conn[q]] \in Bindings
           /\ \A q \in Procs : txn[q] # None => txn[q].conn \in Conns /\ home[txn[q].conn] \in Bindings
           /\ \A d \in Bindings : \A i \in 1 .. Len(pool[d]) :
                pool[d][i] \in Conns /\ home[pool[d][i]] \in Bindings
           /\ \A u \in Caches, d \in Bindings : cache[u][d] # None =>
                /\ cache[u][d] \in Entry /\ cache[u][d].conn \in Conns
                /\ home[cache[u][d].conn] \in Bindings
<1>0. /\ DatabaseType /\ ContextType /\ CallType /\ \A q \in Procs : Placed(q)
      /\ None \notin Bindings /\ home \in [Conns -> Bindings \cup {None}]
  BY NoneAssumption DEF Typed, DatabaseType
<1>1. ASSUME NEW q \in Procs, Hand(q) PROVE conn[q] \in Conns /\ home[conn[q]] \in Bindings
  <2>1. conn[q] \in Conns /\ bind[q] \in Bindings
    BY <1>0, <1>1, PlacedTyped DEF Hand
  <2>2. home[conn[q]] # None
    BY <1>0, <1>1, <2>1 DEF Serve, HandsServe, Serves
  <2> QED
    BY <1>0, <2>1, <2>2
<1>2. ASSUME NEW q \in Procs, txn[q] # None
      PROVE  txn[q].conn \in Conns /\ home[txn[q].conn] \in Bindings
  BY <1>0, <1>2, PlacedTyped DEF Serve, HandsServe
<1>3. ASSUME NEW d \in Bindings, NEW i \in 1 .. Len(pool[d])
      PROVE  pool[d][i] \in Conns /\ home[pool[d][i]] \in Bindings
  <2>1. pool[d] \in Seq(Conns)
    BY <1>0 DEF DatabaseType
  <2>2. pool[d][i] \in Conns
    BY <2>1, ElementOfSeq
  <2>3. home[pool[d][i]] # None
    BY <1>0 DEF Serve, PoolsServe, Serves
  <2> QED
    BY <1>0, <2>2, <2>3
<1>4. ASSUME NEW u \in Caches, NEW d \in Bindings, cache[u][d] # None
      PROVE  /\ cache[u][d] \in Entry /\ cache[u][d].conn \in Conns
             /\ home[cache[u][d].conn] \in Bindings
  <2>1. cache[u][d] \in Entry
    BY <1>0, <1>4 DEF DatabaseType
  <2> QED
    BY <1>4, <2>1 DEF Entry, Serve, CachesServe
<1> QED
  BY <1>1, <1>2, <1>3, <1>4

\* The places of the others are left alone, and so are pools or caches.
LEMMA Others ==
    ASSUME Typed, Serve, NEW p \in Procs, Moves(p)
    PROVE  /\ \A q \in Procs : q # p =>
                /\ Hand(q)' <=> Hand(q)
                /\ conn'[q] = conn[q] /\ txn'[q] = txn[q]
           /\ pool' = pool => PoolsMove(None, "none", None, None)
           /\ cache' = cache => CachesMove(None, "none", None, None)
<1>1. \A q \in Procs : q # p => (Hand(q)' <=> Hand(q)) /\ conn'[q] = conn[q] /\ txn'[q] = txn[q]
  BY CallNext, ContextNext DEF OthersCall, OthersContext, Hand
<1>n. None \notin Conns
  BY NoneAssumption
<1>2. ASSUME pool' = pool PROVE PoolsMove(None, "none", None, None)
  BY <1>n, <1>2, SlotsTyped DEF PoolsMove
<1>3. ASSUME cache' = cache PROVE CachesMove(None, "none", None, None)
  BY <1>n, <1>3, SlotsTyped DEF CachesMove
<1> QED
  BY <1>1, <1>2, <1>3

LEMMA NothingMoves ==
    ASSUME Typed, Serve, Apart, NEW p \in Procs, Moves(p),
           HandsMove(None, "none", p), BlocksMove(None, "none", p),
           PoolsMove(None, "none", None, None), CachesMove(None, "none", None, None)
    PROVE  Apart'
BY OneMoves

LEMMA ClosedPools ==
    ASSUME Typed, Serve, NEW b \in Bindings, pool' = [pool EXCEPT ![b] = <<>>]
    PROVE  PoolsMove(None, "none", None, None)
<1>1. pool \in [Bindings -> Seq(Conns)] /\ None \notin Conns
  BY NoneAssumption DEF Typed, DatabaseType
<1>2. Len(<<>>) = 0
  OBVIOUS
<1>3. \A i \in 1 .. Len(pool'[b]) : FALSE
  BY <1>1, <1>2
<1>4. \A d \in Bindings : d # b => pool'[d] = pool[d]
  BY <1>1
<1>5. \A d \in Bindings : \A i \in 1 .. Len(pool[d]) : pool[d][i] # None
  BY <1>1, SlotsTyped
<1> QED
  BY <1>3, <1>4, <1>5 DEF PoolsMove

LEMMA ForgottenCaches ==
    ASSUME Typed, Serve, NEW t \in Caches, cache' = [cache EXCEPT ![t] = NoEntries]
    PROVE  CachesMove(None, "none", None, None)
<1>1. cache \in [Caches -> [Bindings -> Entry \cup {None}]] /\ None \notin Conns
  BY NoneAssumption DEF Typed, DatabaseType
<1>2. \A d \in Bindings : cache'[t][d] = None
  BY <1>1 DEF NoEntries
<1>3. \A u \in Caches : u # t => cache'[u] = cache[u]
  BY <1>1
<1> QED
  BY <1>1, <1>2, <1>3, SlotsTyped DEF CachesMove

LEMMA ApartNext ==
    ASSUME Typed, Serve, Apart, NEW p \in Procs, Moves(p)
    PROVE  Apart'
<1>0. /\ DatabaseType /\ ContextType /\ CallType /\ Placed(p) /\ CallType'
      /\ None \notin Conns /\ None \notin Bindings
  BY CallNext, NoneAssumption DEF Typed
<1>h. ASSUME Hand(p)' => Hand(p) /\ conn'[p] = conn[p] PROVE HandsMove(None, "none", p)
  BY <1>0, <1>h, Others, SlotsTyped DEF HandsMove
<1>b. ASSUME txn'[p] = txn[p] PROVE BlocksMove(None, "none", p)
  BY <1>0, <1>b, Others, SlotsTyped DEF BlocksMove
<1>i. ASSUME Idle(p) PROVE HandsMove(None, "none", p)
  BY <1>0, <1>h, <1>i, IdleStep DEF Now, Hand
<1>1. CASE Execute(p)
  <2>1. at'[p] \in {"use", "open"}
    BY <1>1, ExecuteStep DEF Now
  <2>2. HandsMove(None, "none", p)
    BY <1>h, <2>1 DEF Hand
  <2>3. txn' = txn /\ pool' = pool /\ cache' = cache
    BY <1>1 DEF Execute, contextVars
  <2> QED
    BY <1>b, <2>2, <2>3, Others, NothingMoves
<1>2. CASE EnterBlock(p)
  <2>0. txn' = txn /\ cache' = cache
    BY <1>2 DEF EnterBlock, contextVars
  <2>1. PICK t \in ThreadsOf(p), b \in Bindings :
          \/ /\ pool[b] # <<>> /\ Last(pool[b]) \in Conns
             /\ Now(p, "begin", t, b, Last(pool[b]))
             /\ pool' = [pool EXCEPT ![b] = Front(@)]
          \/ /\ Now(p, "open for block", t, b, None)
             /\ UNCHANGED pool
    BY <1>2, EnterBlockStep
  <2>2. CASE Now(p, "open for block", t, b, None) /\ UNCHANGED pool
    <3>1. HandsMove(None, "none", p)
      BY <1>h, <2>2 DEF Now, Hand
    <3> QED
      BY <1>b, <2>0, <2>2, <3>1, Others, NothingMoves
  <2>3. CASE /\ pool[b] # <<>> /\ Last(pool[b]) \in Conns
             /\ Now(p, "begin", t, b, Last(pool[b]))
             /\ pool' = [pool EXCEPT ![b] = Front(@)]
    <3> DEFINE c == Last(pool[b])
               m == Len(pool[b])
    <3>1. pool[b] \in Seq(Conns) /\ pool \in [Bindings -> Seq(Conns)]
      BY <1>0 DEF DatabaseType
    <3>2. /\ m \in Nat \ {0} /\ c = pool[b][m]
          /\ Len(Front(pool[b])) = m - 1
          /\ \A i \in 1 .. m - 1 : Front(pool[b])[i] = pool[b][i]
      BY <2>3, <3>1, PrefixTyped
    <3>3. pool'[b] = Front(pool[b]) /\ \A d \in Bindings : d # b => pool'[d] = pool[d]
      BY <2>3, <3>1
    <3>4. Now(p, "begin", t, b, c)
      BY <2>3
    <3>5. m \in 1 .. m /\ \A i \in 1 .. m - 1 : i \in 1 .. m /\ i # m
      BY <3>2
    <3> HIDE DEF c, m
    <3>a. m \in 1 .. Len(pool[b]) /\ pool[b][m] = c
      BY <3>2, <3>5 DEF m
    <3>b. \A d \in Bindings : \A i \in 1 .. Len(pool[d]) : pool[d][i] = c => d = b /\ i = m
      BY <3>a DEF Apart, PoolsApart
    <3>c. \A q \in Procs : (Hand(q) => conn[q] # c) /\ (txn[q] # None => txn[q].conn # c)
      BY <3>a DEF Apart, PoolsApart
    <3>d. Len(pool[b]) = m
      BY DEF m
    <3>6. PoolsMove(c, "hand", None, None)
      <4> SUFFICES ASSUME NEW d \in Bindings, NEW i \in 1 .. Len(pool'[d])
                   PROVE  i \in 1 .. Len(pool[d]) /\ pool'[d][i] = pool[d][i] /\ pool[d][i] # c
        BY DEF PoolsMove
      <4>1. CASE d = b
        <5>1. i \in 1 .. m - 1
          BY <3>2, <3>3, <4>1
        <5>2. i \in 1 .. m /\ i # m /\ pool'[b][i] = pool[b][i]
          BY <3>2, <3>3, <3>5, <5>1
        <5> QED
          BY <3>b, <3>d, <4>1, <5>2
      <4>2. CASE d # b
        BY <3>3, <3>b, <4>2
      <4> QED
        BY <4>1, <4>2
    <3>7. HandsMove(c, "hand", p)
      BY <3>4, <3>c, Others DEF HandsMove, Now
    <3>8. BlocksMove(c, "hand", p)
      BY <2>0, <3>c DEF BlocksMove
    <3>9. CachesMove(c, "hand", None, None)
      BY <2>0, <3>a DEF CachesMove, Apart, CachesApart
    <3> QED
      BY <3>6, <3>7, <3>8, <3>9, OneMoves
  <2> QED
    BY <2>1, <2>2, <2>3
<1>3. CASE Open(p)
  <2>0. txn' = txn /\ cache' = cache /\ pool' = pool
    BY <1>3 DEF Open, databaseVars, contextVars
  <2>1. PICK c \in Conns : home[c] = None /\ conn' = [conn EXCEPT ![p] = c]
    BY <1>3 DEF Open
  <2>2. conn'[p] = c
    BY <1>0, <2>1 DEF CallType
  <2>3. HandsMove(c, "hand", p) /\ BlocksMove(c, "hand", p)
    BY <1>0, <2>0, <2>1, <2>2, Others, SlotsTyped DEF HandsMove, BlocksMove
  <2>4. PoolsMove(c, "hand", None, None) /\ CachesMove(c, "hand", None, None)
    BY <1>0, <2>0, <2>1, SlotsTyped DEF PoolsMove, CachesMove
  <2> QED
    BY <2>3, <2>4, OneMoves
<1>4. CASE Own(p)
  <2>1. txn' = txn /\ cache' = cache /\ pool' = pool /\ conn' = conn /\ Hand(p)
    BY <1>4 DEF Own, Goto, contextVars, Hand
  <2> QED
    BY <1>h, <1>b, <2>1, Others, NothingMoves
<1>5. CASE Cache(p)
  <2>0. /\ txn' = txn /\ pool' = pool /\ conn' = conn /\ at'[p] = "use" /\ Hand(p)
        /\ thread[p] \in Caches /\ bind[p] \in Bindings /\ conn[p] \in Conns
    BY <1>0, <1>5, PlacedTyped DEF Cache, Goto, contextVars, Hand, CallType
  <2>1. /\ cache'[thread[p]][bind[p]].conn = conn[p]
        /\ \A u \in Caches, d \in Bindings :
              u # thread[p] \/ d # bind[p] => cache'[u][d] = cache[u][d]
    BY <1>0, <1>5, <2>0 DEF Cache, DatabaseType
  <2>2. HandsMove(conn[p], "cache", p)
    BY <2>0, Others DEF HandsMove, Apart, HandsApart, Hand
  <2>3. BlocksMove(conn[p], "cache", p)
    BY <2>0 DEF BlocksMove, Apart, HandsApart
  <2>4. PoolsMove(conn[p], "cache", bind[p], None)
    BY <2>0 DEF PoolsMove, Apart, PoolsApart
  <2>5. CachesMove(conn[p], "cache", thread[p], bind[p])
    BY <2>0, <2>1 DEF CachesMove, Apart, CachesApart
  <2> QED
    BY <2>2, <2>3, <2>4, <2>5, OneMoves
<1>6. CASE Use(p)
  <2>1. txn' = txn /\ cache' = cache /\ pool' = pool /\ Idle(p)
    BY <1>6 DEF Use, databaseVars, contextVars
  <2> QED
    BY <1>i, <1>b, <2>1, Others, NothingMoves
<1>7. CASE Begin(p)
  <2>0. cache' = cache /\ pool' = pool /\ Hand(p) /\ conn[p] \in Conns
    BY <1>0, <1>7, PlacedTyped DEF Begin, databaseVars, Hand
  <2>1. CASE conn[p] \notin open
    <3>1. txn' = txn /\ conn' = conn
      BY <1>7, <2>1 DEF Begin, Goto
    <3> QED
      BY <1>h, <1>b, <2>0, <3>1, Others, NothingMoves
  <2>2. CASE conn[p] \in open
    <3>1. Idle(p) /\ txn' = [txn EXCEPT ![p] = [conn |-> conn[p], depth |-> Len(scopes[p])]]
      BY <1>7, <2>2 DEF Begin
    <3>2. txn'[p].conn = conn[p] /\ ~ Hand(p)'
      BY <1>0, <3>1, IdleStep DEF ContextType, Now, Hand
    <3>3. HandsMove(conn[p], "block", p)
      BY <2>0, <3>2, Others DEF HandsMove, Apart, HandsApart
    <3>4. BlocksMove(conn[p], "block", p)
      BY <2>0, <3>2, Others DEF BlocksMove, Apart, HandsApart
    <3>5. PoolsMove(conn[p], "block", None, None)
      BY <2>0 DEF PoolsMove, Apart, PoolsApart
    <3>6. CachesMove(conn[p], "block", None, None)
      BY <2>0 DEF CachesMove, Apart, CachesApart
    <3> QED
      BY <3>3, <3>4, <3>5, <3>6, OneMoves
  <2> QED
    BY <2>1, <2>2
<1>8. CASE LeaveBlock(p)
  <2>0. /\ cache' = cache /\ pool' = pool /\ txn[p] # None /\ txn'[p] = None
        /\ conn'[p] = txn[p].conn /\ ~ Hand(p)
    BY <1>0, <1>8 DEF LeaveBlock, databaseVars, Hand, ContextType, CallType
  <2> DEFINE c == txn[p].conn
  <2>1. conn'[p] = c /\ txn[p] # None /\ c = txn[p].conn
    BY <2>0
  <2> HIDE DEF c
  <2>2. HandsMove(c, "hand", p)
    BY <2>1, Others DEF HandsMove, Apart, HandsApart
  <2>3. BlocksMove(c, "hand", p)
    BY <2>0, <2>1, Others DEF BlocksMove, Apart, BlocksApart
  <2>4. PoolsMove(c, "hand", None, None)
    BY <2>0, <2>1 DEF PoolsMove, Apart, PoolsApart
  <2>5. CachesMove(c, "hand", None, None)
    BY <2>0, <2>1 DEF CachesMove, Apart, CachesApart
  <2> QED
    BY <2>2, <2>3, <2>4, <2>5, OneMoves
<1>9. CASE Release(p)
  <2>0. cache' = cache /\ txn' = txn /\ Hand(p) /\ conn[p] \in Conns
    BY <1>0, <1>9, PlacedTyped DEF Release, contextVars, Hand
  <2>1. CASE ~ HasRoom(BindingOf(p))
    <3>1. pool' = pool /\ conn' = conn
      BY <1>9, <2>1 DEF Release
    <3> QED
      BY <1>h, <1>b, <2>0, <3>1, Others, NothingMoves
  <2>2. CASE HasRoom(BindingOf(p))
    <3> DEFINE b == BindingOf(p)
               n == Len(pool[b]) + 1
    <3>1. Idle(p) /\ pool' = [pool EXCEPT ![b] = Append(@, conn[p])]
      BY <1>9, <2>2 DEF Release
    <3>2. ~ Hand(p)'
      BY <1>0, <3>1, IdleStep DEF Now, Hand
    <3> HIDE DEF b
    <3>3. \A d \in Bindings : d # b => pool'[d] = pool[d]
      BY <1>0, <3>1 DEF DatabaseType
    <3>4. PoolsMove(conn[p], "pool", b, n)
      <4> SUFFICES ASSUME NEW d \in Bindings, NEW i \in 1 .. Len(pool'[d])
                   PROVE  \/ i \in 1 .. Len(pool[d]) /\ pool'[d][i] = pool[d][i]
                             /\ pool[d][i] # conn[p]
                          \/ d = b /\ i = n /\ pool'[d][i] = conn[p]
        BY DEF PoolsMove
      <4>1. CASE d # b
        BY <2>0, <3>3, <4>1 DEF Apart, PoolsApart
      <4>2. CASE d = b
        <5>1. pool[b] \in Seq(Conns) /\ pool'[b] = Append(pool[b], conn[p])
          BY <1>0, <3>1, <4>2 DEF DatabaseType
        <5>2. /\ Len(pool'[b]) = n /\ Len(pool[b]) \in Nat
              /\ \A j \in 1 .. Len(pool[b]) : pool'[b][j] = pool[b][j]
              /\ pool'[b][n] = conn[p]
          BY <2>0, <5>1, AppendProperties, LenProperties
        <5>3. i \in 1 .. Len(pool[b]) \/ i = n
          BY <4>2, <5>2
        <5> QED
          BY <2>0, <4>2, <5>2, <5>3 DEF Apart, PoolsApart
      <4> QED
        BY <4>1, <4>2
    <3>5. HandsMove(conn[p], "pool", p)
      BY <2>0, <3>2, Others DEF HandsMove, Apart, HandsApart
    <3>6. BlocksMove(conn[p], "pool", p)
      BY <2>0 DEF BlocksMove, Apart, HandsApart
    <3>7. CachesMove(conn[p], "pool", None, b)
      BY <2>0 DEF CachesMove, Apart, CachesApart
    <3> QED
      BY <3>4, <3>5, <3>6, <3>7, OneMoves
  <2> QED
    BY <2>1, <2>2
<1>10. CASE Drops(p)
  <2>1. txn' = txn /\ cache' = cache /\ pool' = pool /\ Idle(p)
    BY <1>10 DEF Drops, Shut, OpenFails, databaseVars, contextVars
  <2> QED
    BY <1>i, <1>b, <2>1, Others, NothingMoves
<1>11. CASE EnterScope(p) \/ ReenterScope(p) \/ InheritScope(p)
  <2>1. txn' = txn /\ cache' = cache /\ pool' = pool /\ conn' = conn /\ at' = at
    BY <1>11 DEF EnterScope, ReenterScope, InheritScope, databaseVars, callVars
  <2>2. Hand(p)' => Hand(p)
    BY <2>1 DEF Hand
  <2> QED
    BY <1>h, <1>b, <2>1, <2>2, Others, NothingMoves
<1>12. CASE LeaveScope(p)
  <2>1. txn' = txn /\ cache' = cache /\ pool' = pool /\ at'[p] = "leave scope"
    BY <1>0, <1>12 DEF LeaveScope, databaseVars, CallType
  <2>2. ~ Hand(p)'
    BY <2>1 DEF Hand
  <2> QED
    BY <1>h, <1>b, <2>1, <2>2, Others, NothingMoves
<1>13. CASE EndScope(p)
  <2>1. txn' = txn /\ cache' = cache /\ Idle(p) /\ bind[p] \in Bindings
    BY <1>0, <1>13, PlacedTyped DEF EndScope
  <2>2. pool' = [pool EXCEPT ![bind[p]] = <<>>]
    BY <1>13 DEF EndScope, CloseBinding
  <2> QED
    BY <1>i, <1>b, <2>1, <2>2, ClosedPools, Others, NothingMoves
<1>14. CASE CloseAll(p) \/ Configure(p) \/ Close(p)
  <2>1. txn' = txn /\ conn' = conn /\ at' = at
    BY <1>14 DEF CloseAll, Configure, Close, contextVars, callVars
  <2>2. Hand(p)' => Hand(p)
    BY <2>1 DEF Hand
  <2>3. PICK t \in ThreadsOf(p) : cache' = [cache EXCEPT ![t] = NoEntries]
    BY <1>14 DEF CloseAll, Configure, Close
  <2>4. CachesMove(None, "none", None, None)
    BY <2>3, ThreadsTyped, ForgottenCaches
  <2>5. pool' = pool \/ (global # None /\ pool' = [pool EXCEPT ![global] = <<>>])
    BY <1>14 DEF CloseAll, Configure, Close, CloseNothing, CloseBinding
  <2>6. PoolsMove(None, "none", None, None)
    BY <1>0, <2>5, ClosedPools, Others DEF DatabaseType
  <2> QED
    BY <1>h, <1>b, <2>1, <2>2, <2>4, <2>6, NothingMoves
<1> QED
  BY <1>1, <1>2, <1>3, <1>4, <1>5, <1>6, <1>7, <1>8, <1>9, <1>10, <1>11, <1>12, <1>13, <1>14 DEF Moves

-----------------------------------------------------------------------------
(***************************************************************************)
(* Steps keep what is in place good: what they close, others have not got, *)
(* or it is known to be out of place from then on.                         *)
(***************************************************************************)
LEMMA InUseServes ==
    ASSUME Typed, Serve, NEW q \in Procs, at[q] = "use"
    PROVE  /\ conn[q] \in Conns /\ home[conn[q]] = bind[q] /\ bind[q] \in Bindings
           /\ txn[q] # None => conn[q] = txn[q].conn
           /\ txn[q] = None => /\ thread[q] \in Caches /\ cache[thread[q]][bind[q]] # None
                               /\ conn[q] = cache[thread[q]][bind[q]].conn
<1>1. Placed(q) /\ DatabaseType /\ ContextType /\ CallType
  BY DEF Typed
<1>2. conn[q] \in Conns /\ bind[q] \in Bindings /\ thread[q] \in Caches
  BY <1>1, PlacedTyped
<1> QED
  BY <1>1, <1>2 DEF Placed, Serve, CachesServe

\* A connection is not also in the pool of a binding.
LEMMA NotPooled ==
    ASSUME Typed, Serve, Apart, NEW b \in Bindings
    PROVE  /\ \A q \in Procs : Hand(q) \/ at[q] = "use" => conn[q] \notin ToSet(pool[b])
           /\ \A q \in Procs : txn[q] # None => txn[q].conn \notin ToSet(pool[b])
           /\ \A u \in Caches, d \in Bindings : cache[u][d] # None =>
                cache[u][d].conn \notin ToSet(pool[b])
           /\ \A d \in Bindings : \A i \in 1 .. Len(pool[d]) :
                d # b => pool[d][i] \notin ToSet(pool[b])
<1>1. pool[b] \in Seq(Conns)
  BY DEF Typed, DatabaseType
<1>2. \A c \in ToSet(pool[b]) : \E i \in 1 .. Len(pool[b]) : pool[b][i] = c
  BY <1>1 DEF ToSet
<1>3. \A q \in Procs : txn[q] # None => txn[q].conn \notin ToSet(pool[b])
  BY <1>2 DEF Apart, PoolsApart
<1>4. \A u \in Caches, d \in Bindings : cache[u][d] # None => cache[u][d].conn \notin ToSet(pool[b])
  BY <1>2 DEF Apart, CachesApart
<1>5. \A q \in Procs : Hand(q) => conn[q] \notin ToSet(pool[b])
  BY <1>2 DEF Apart, PoolsApart
<1>6. \A q \in Procs : at[q] = "use" => conn[q] \notin ToSet(pool[b])
  BY <1>3, <1>4, InUseServes
<1>7. \A d \in Bindings : \A i \in 1 .. Len(pool[d]) : d # b => pool[d][i] \notin ToSet(pool[b])
  BY <1>2 DEF Apart, PoolsApart
<1> QED
  BY <1>3, <1>4, <1>5, <1>6, <1>7

LEMMA StrayGrows ==
    ASSUME NEW p \in Procs, Moves(p)
    PROVE  stray \subseteq stray'
BY DEF Moves, Execute, EnterBlock, Open, Own, Cache, Use, Begin, LeaveBlock, Release, Drops, Shut, OpenFails,
   EnterScope, ReenterScope, InheritScope, LeaveScope, EndScope, CloseAll, Configure, Close,
   CloseNothing

\* The steps that close connections.
LEMMA OthersClose ==
    ASSUME NEW p \in Procs, Moves(p),
           ~ Drops(p), ~ EndScope(p), ~ CloseAll(p), ~ Configure(p), ~ Close(p)
    PROVE  open \subseteq open'
BY DEF Moves, Execute, EnterBlock, Open, Own, Cache, Use, Begin, LeaveBlock, Release,
   EnterScope, ReenterScope, InheritScope, LeaveScope

\* What a step closes, and does not leave as out of place, is in no hands, no
\* block, no pool and no cache that could give it out again.
Nowhere(c, p) ==
    /\ \A q \in Procs : Hand(q) /\ conn[q] = c => q = p /\ Drops(p)
    /\ \A q \in Procs : txn[q] # None => txn[q].conn # c
    /\ \A q \in Procs : at[q] = "use" => conn[q] # c
    /\ \A d \in Bindings : \A i \in 1 .. Len(pool[d]) : pool[d][i] = c => pool'[d] = <<>>
    /\ \A u \in Caches, d \in Bindings : cache[u][d] # None /\ cache[u][d].conn = c =>
        cache'[u][d] = None \/ cache[u][d].generation # generation'

LEMMA ClosedBindingNowhere ==
    ASSUME Typed, Serve, Apart, Listed, NEW p \in Procs, NEW b \in Bindings,
           CloseBinding(b), stray \cup InUse(b) \subseteq stray',
           \/ generation' = generation + 1
           \/ \A u \in Caches : cache[u][b] # None => cache[u][b].conn \in stray',
           NEW c \in Conns, Good(c), ~ Good(c)'
    PROVE  Nowhere(c, p)
<1>0. /\ DatabaseType /\ ContextType /\ CallType /\ None \notin Conns
      /\ \A q \in Procs : Placed(q)
  BY NoneAssumption DEF Typed
<1>1. c \notin stray /\ c \notin stray' /\ c \notin InUse(b) /\ c \in owned[b] \cup ToSet(pool[b])
  BY DEF Good, CloseBinding
<1>2. pool'[b] = <<>> /\ \A d \in Bindings : d # b => pool'[d] = pool[d]
  BY <1>0 DEF CloseBinding, DatabaseType
<1>3. CASE c \in ToSet(pool[b])
  BY <1>2, <1>3, NotPooled DEF Nowhere
<1>4. CASE c \in owned[b]
  <2>1. home[c] = b
    BY <1>4 DEF Listed, ListedOpen
  <2>2. \A q \in Procs : conn[q] = c => bind[q] # b
    BY <1>0, <1>1 DEF InUse
  <2>3. \A q \in Procs : txn[q] # None => txn[q].conn # c
    BY <1>1, <2>1 DEF InUse
  <2>4. \A q \in Procs : Hand(q) => conn[q] # c
    BY <1>1, <2>1, <2>2 DEF Serve, HandsServe, Serves
  <2>5. \A q \in Procs : at[q] = "use" => conn[q] # c
    BY <2>1, <2>2, InUseServes
  <2>6. \A d \in Bindings : \A i \in 1 .. Len(pool[d]) : pool[d][i] = c => d = b
    BY <1>1, <2>1 DEF Serve, PoolsServe, Serves
  <2>7. ASSUME NEW u \in Caches, NEW d \in Bindings, cache[u][d] # None, cache[u][d].conn = c
        PROVE  cache[u][d].generation # generation'
    <3>1. d = b /\ cache[u][d].generation <= generation
      BY <2>1, <2>7 DEF Serve, CachesServe
    <3>2. cache[u][d].generation \in Nat /\ generation \in Nat
      BY <1>0, <2>7, SlotsTyped DEF Entry, DatabaseType
    <3>3. generation' = generation + 1
      BY <1>1, <2>7, <3>1
    <3> QED
      BY <3>1, <3>2, <3>3
  <2> QED
    BY <1>2, <2>3, <2>4, <2>5, <2>6, <2>7 DEF Nowhere
<1> QED
  BY <1>1, <1>3, <1>4

LEMMA LostIsNowhere ==
    ASSUME Typed, Serve, Apart, Listed, NEW p \in Procs, Moves(p),
           NEW c \in Conns, Good(c), ~ Good(c)'
    PROVE  Nowhere(c, p)
<1>0. /\ DatabaseType /\ ContextType /\ CallType /\ Placed(p) /\ None \notin Conns
      /\ stray \subseteq stray'
  BY StrayGrows, NoneAssumption DEF Typed
<1>1. CASE Drops(p)
  <2>1. c = conn[p] /\ Hand(p)
    <3>1. open' = open \ {conn[p]} /\ at[p] \notin {"idle", "use"}
      BY <1>1 DEF Drops, Shut, OpenFails
    <3>2. c = conn[p]
      BY <1>0, <3>1 DEF Good
    <3> QED
      BY <1>0, <3>1, <3>2 DEF Placed
  <2>2. \A q \in Procs : Hand(q) /\ conn[q] = c => q = p
    BY <2>1 DEF Apart, HandsApart
  <2>3. \A q \in Procs : txn[q] # None => txn[q].conn # c
    BY <2>1 DEF Apart, HandsApart
  <2>4. \A d \in Bindings : \A i \in 1 .. Len(pool[d]) : pool[d][i] # c
    BY <2>1 DEF Apart, PoolsApart
  <2>5. \A u \in Caches, d \in Bindings : cache[u][d] # None => cache[u][d].conn # c
    BY <2>1 DEF Apart, CachesApart
  <2>6. \A q \in Procs : at[q] = "use" => conn[q] # c
    BY <2>3, <2>5, InUseServes
  <2> QED
    BY <1>1, <2>2, <2>3, <2>4, <2>5, <2>6 DEF Nowhere
<1>2. CASE EndScope(p)
  <2>1. CloseBinding(bind[p]) /\ bind[p] \in Bindings
    BY <1>0, <1>2, PlacedTyped DEF EndScope
  <2>2. /\ InUse(bind[p]) \subseteq stray'
        /\ \A u \in Caches : cache[u][bind[p]] # None => cache[u][bind[p]].conn \in stray'
    BY <1>2 DEF EndScope, Caches
  <2> QED
    BY <1>0, <2>1, <2>2, ClosedBindingNowhere
<1>3. CASE CloseAll(p) \/ Configure(p)
  <2>1. generation' = generation + 1
    BY <1>3 DEF CloseAll, Configure, NextGeneration
  <2>2. CASE global = None
    BY <1>0, <1>3, <2>2 DEF CloseAll, Configure, CloseNothing, Good
  <2>3. CASE global # None
    <3>1. CloseBinding(global) /\ InUse(global) \subseteq stray' /\ global \in Bindings
      BY <1>0, <1>3, <2>3 DEF CloseAll, Configure, DatabaseType
    <3> QED
      BY <1>0, <2>1, <3>1, ClosedBindingNowhere
  <2> QED
    BY <2>2, <2>3
<1>4. CASE Close(p)
  <2>1. PICK t \in ThreadsOf(p) :
          /\ open' = open \ {cache[t][b].conn : b \in {bb \in Bindings : cache[t][bb] # None}}
          /\ cache' = [cache EXCEPT ![t] = NoEntries]
    BY <1>4 DEF Close
  <2>2. t \in Caches
    BY ThreadsTyped
  <2>3. PICK b \in Bindings : cache[t][b] # None /\ cache[t][b].conn = c
    BY <1>0, <2>1 DEF Good
  <2>4. \A d \in Bindings : cache'[t][d] = None
    BY <1>0, <2>1, <2>2 DEF DatabaseType, NoEntries
  <2>5. \A u \in Caches, d \in Bindings : cache[u][d] # None /\ cache[u][d].conn = c =>
          cache'[u][d] = None
    BY <2>2, <2>3, <2>4 DEF Apart, CachesApart
  <2>6. \A q \in Procs : (Hand(q) => conn[q] # c) /\ (txn[q] # None => txn[q].conn # c)
    BY <2>2, <2>3 DEF Apart, CachesApart
  <2>7. \A d \in Bindings : \A i \in 1 .. Len(pool[d]) : pool[d][i] # c
    BY <2>2, <2>3 DEF Apart, CachesApart
  <2>8. ASSUME NEW q \in Procs, at[q] = "use", conn[q] = c PROVE FALSE
    <3>1. txn[q] = None
      BY <2>6, <2>8, InUseServes
    <3>2. thread[q] = t
      BY <2>2, <2>3, <2>8, <3>1, InUseServes DEF Apart, CachesApart
    <3>3. at[p] = "idle"
      BY <1>4 DEF Close, CanCall
    <3> QED
      BY <2>8, <3>2, <3>3, ThreadIsFree
  <2> QED
    BY <2>5, <2>6, <2>7, <2>8 DEF Nowhere
<1>5. CASE ~ Drops(p) /\ ~ EndScope(p) /\ ~ CloseAll(p) /\ ~ Configure(p) /\ ~ Close(p)
  BY <1>0, <1>5, OthersClose DEF Good
<1> QED
  BY <1>1, <1>2, <1>3, <1>4, <1>5

LEMMA ServesKept ==
    ASSUME Typed, NEW p \in Procs, Moves(p), NEW c \in Conns, NEW b \in Bindings, Serves(c, b)
    PROVE  Serves(c, b)' /\ home'[c] = home[c]
<1>1. stray \subseteq stray' /\ HomesKept
  BY StrayGrows, KeptNext
<1>2. home[c] # None
  BY NoneAssumption DEF Serves
<1>3. home'[c] = home[c]
  BY <1>1, <1>2 DEF HomesKept
<1> QED
  BY <1>1, <1>2, <1>3 DEF Serves

LEMMA HandsServeNext ==
    ASSUME Typed, Serve, Apart, Listed, NEW p \in Procs, Moves(p)
    PROVE  HandsServe'
<1>0. /\ DatabaseType /\ ContextType /\ CallType /\ CallType' /\ Placed(p) /\ None \notin Bindings
      /\ stray \subseteq stray' /\ HomesKept
      /\ \A q \in Procs : Placed(q)
  BY CallNext, KeptNext, StrayGrows, NoneAssumption DEF Typed
<1> DEFINE ServesNext(q) ==
      /\ Hand(q)' => Good(conn[q])' /\ Serves(conn[q], bind[q])'
      /\ at'[q] \in {"own", "own for block", "cache"} => home'[conn'[q]] = bind'[q]
      /\ at'[q] = "use" => Good(conn[q])'
      /\ txn'[q] # None => Good(txn[q].conn)' /\ home'[txn'[q].conn] # None
<1>u. ASSUME NEW q \in Procs, at[q] = "use" PROVE Good(conn[q]) /\ conn[q] \in Conns
  BY <1>u, InUseServes DEF Serve, HandsServe
<1>g. ASSUME NEW c \in Conns, Good(c), NEW q \in Procs,
             \/ txn[q] # None /\ txn[q].conn = c
             \/ at[q] = "use" /\ conn[q] = c
             \/ Hand(q) /\ conn[q] = c /\ ~ (q = p /\ Drops(p))
      PROVE  c \in open' \cup stray'
  <2>1. ASSUME ~ Good(c)' PROVE FALSE
    <3>1. Nowhere(c, p)
      BY <1>g, <2>1, LostIsNowhere
    <3> QED
      BY <1>g, <3>1 DEF Nowhere
  <2> QED
    BY <2>1 DEF Good
<1>b. ASSUME NEW q \in Procs, txn'[q] = txn[q], txn[q] # None
      PROVE  Good(txn[q].conn)' /\ home'[txn'[q].conn] # None
  <2>1. txn[q].conn \in Conns /\ home[txn[q].conn] \in Bindings /\ Good(txn[q].conn)
    BY <1>b, SlotsTyped DEF Serve, HandsServe
  <2>2. PICK c \in Conns : c = txn[q].conn
    BY <2>1
  <2>3. c \in open' \cup stray'
    BY <1>b, <1>g, <2>1, <2>2
  <2>4. home'[c] = home[c]
    BY <1>0, <2>1, <2>2 DEF HomesKept
  <2> QED
    BY <1>0, <1>b, <2>1, <2>2, <2>3, <2>4 DEF Good
<1>h. ASSUME NEW q \in Procs, Hand(q), ~ (q = p /\ Drops(p)), conn'[q] = conn[q], bind'[q] = bind[q]
      PROVE  /\ Good(conn[q])' /\ Serves(conn[q], bind[q])'
             /\ home[conn[q]] = bind[q] => home'[conn'[q]] = bind'[q]
  <2>1. conn[q] \in Conns /\ bind[q] \in Bindings /\ Good(conn[q]) /\ Serves(conn[q], bind[q])
    BY <1>0, <1>h, PlacedTyped DEF Serve, HandsServe, Hand
  <2>2. PICK c \in Conns, b \in Bindings : c = conn[q] /\ b = bind[q]
    BY <2>1
  <2>3. c \in open' \cup stray'
    BY <1>g, <1>h, <2>1, <2>2
  <2>4. Serves(c, b)' /\ home'[c] = home[c]
    BY <2>1, <2>2, ServesKept
  <2> QED
    BY <1>h, <2>2, <2>3, <2>4 DEF Good, Serves
<1>v. ASSUME NEW q \in Procs, at[q] = "use", conn'[q] = conn[q]
      PROVE  Good(conn[q])'
  <2>1. PICK c \in Conns : c = conn[q] /\ Good(c)
    BY <1>u, <1>v
  <2>2. c \in open' \cup stray'
    BY <1>g, <1>v, <2>1
  <2> QED
    BY <1>v, <2>1, <2>2 DEF Good
<1>1. ASSUME NEW q \in Procs, q # p PROVE ServesNext(q)
  <2>1. /\ at'[q] = at[q] /\ bind'[q] = bind[q] /\ conn'[q] = conn[q] /\ txn'[q] = txn[q]
    BY <1>1, CallNext, ContextNext DEF OthersCall, OthersContext
  <2>2. Hand(q)' <=> Hand(q)
    BY <2>1 DEF Hand
  <2>3. Hand(q)' => Good(conn[q])' /\ Serves(conn[q], bind[q])'
    BY <1>1, <1>h, <2>1, <2>2
  <2>4. at'[q] \in {"own", "own for block", "cache"} => home'[conn'[q]] = bind'[q]
    BY <1>1, <1>h, <2>1 DEF Hand, Serve, HandsServe
  <2>5. at'[q] = "use" => Good(conn[q])'
    BY <1>v, <2>1
  <2>6. txn'[q] # None => Good(txn[q].conn)' /\ home'[txn'[q].conn] # None
    BY <1>b, <2>1
  <2> QED
    BY <2>3, <2>4, <2>5, <2>6
<1>2. ServesNext(p)
  <2>i. ASSUME Idle(p) PROVE at'[p] = "idle" /\ ~ Hand(p)'
    BY <1>0, <2>i, IdleStep DEF Now, Hand
  <2>1. CASE Execute(p)
    <3>1. open' = open /\ stray' = stray /\ home' = home /\ txn' = txn
      BY <2>1 DEF Execute, contextVars
    <3>2. PICK t \in ThreadsOf(p) :
            \/ txn[p] # None /\ Now(p, "use", t, home[txn[p].conn], txn[p].conn)
            \/ /\ txn[p] = None
               /\ \E b \in Bindings :
                   Now(p, IF Cached(t, b) # None THEN "use" ELSE "open", t, b, Cached(t, b))
      BY <2>1, ExecuteStep
    <3>3. at'[p] \in {"use", "open"} /\ ~ Hand(p)'
      BY <3>2 DEF Now, Hand
    <3>4. txn[p] # None => Good(txn[p].conn) /\ home[txn[p].conn] # None
      BY DEF Serve, HandsServe
    <3>5. \A u \in Caches, b \in Bindings : Cached(u, b) # None => Good(Cached(u, b))
      BY DEF Cached, Serve, CachesServe
    <3>6. at'[p] = "use" => Good(conn'[p])
      BY <3>2, <3>4, <3>5, ThreadsTyped DEF Now
    <3> QED
      BY <3>1, <3>3, <3>4, <3>6 DEF Good
  <2>2. CASE EnterBlock(p)
    <3>1. open' = open /\ stray' = stray /\ home' = home /\ txn'[p] = None
      BY <2>2 DEF EnterBlock, contextVars
    <3>2. PICK t \in ThreadsOf(p), b \in Bindings :
            \/ pool[b] # <<>> /\ Last(pool[b]) \in Conns /\ Now(p, "begin", t, b, Last(pool[b]))
            \/ Now(p, "open for block", t, b, None)
      BY <2>2, EnterBlockStep
    <3>3. pool[b] # <<>> => Good(Last(pool[b])) /\ Serves(Last(pool[b]), b)
      <4>1. pool[b] \in Seq(Conns)
        BY <1>0 DEF DatabaseType
      <4>2. pool[b] # <<>> => Last(pool[b]) = pool[b][Len(pool[b])] /\ Len(pool[b]) \in Nat \ {0}
        BY <4>1, PrefixTyped
      <4>3. pool[b] # <<>> => Len(pool[b]) \in 1 .. Len(pool[b])
        BY <4>2
      <4> QED
        BY <4>2, <4>3 DEF Serve, PoolsServe
    <3>4. CASE Now(p, "open for block", t, b, None)
      BY <3>1, <3>4 DEF Now, Hand
    <3>5. CASE pool[b] # <<>> /\ Now(p, "begin", t, b, Last(pool[b]))
      BY <3>1, <3>3, <3>5 DEF Now, Hand, Good, Serves
    <3> QED
      BY <3>2, <3>4, <3>5
  <2>3. CASE Open(p)
    <3>1. PICK c \in Conns : /\ conn' = [conn EXCEPT ![p] = c] /\ open' = open \cup {c}
                             /\ home' = [home EXCEPT ![c] = bind[p]]
      BY <2>3 DEF Open
    <3>2. conn'[p] = c /\ home'[c] = bind[p] /\ c \in open' /\ bind' = bind /\ txn' = txn
      BY <1>0, <2>3, <3>1 DEF Open, CallType, DatabaseType, contextVars
    <3>3. txn[p] = None /\ at'[p] # "use"
      BY <1>0, <2>3 DEF Open, Placed, CallType
    <3> QED
      BY <3>2, <3>3 DEF Good, Serves
  <2>4. CASE Own(p) \/ Cache(p)
    <3>1. /\ open' = open /\ stray' = stray /\ home' = home /\ txn' = txn
          /\ conn' = conn /\ bind' = bind /\ at'[p] \in {"cache", "begin", "use"}
          /\ at[p] \in {"own", "own for block", "cache"}
      BY <1>0, <2>4 DEF Own, Cache, Goto, contextVars, CallType
    <3>2. txn[p] = None /\ Hand(p)
      BY <1>0, <3>1 DEF Placed, Hand
    <3>3. Good(conn[p]) /\ Serves(conn[p], bind[p]) /\ home[conn[p]] = bind[p]
      BY <3>1, <3>2 DEF Serve, HandsServe
    <3> QED
      BY <3>1, <3>2, <3>3 DEF Good, Serves
  <2>5. CASE Use(p) \/ Drops(p) \/ EndScope(p)
    <3>1. Idle(p) /\ txn' = txn
      BY <2>5 DEF Use, Drops, Shut, OpenFails, EndScope, contextVars
    <3> QED
      BY <1>b, <2>i, <3>1
  <2>6. CASE Begin(p)
    <3>1. /\ open' = open /\ stray' = stray /\ home' = home /\ Hand(p) /\ at[p] = "begin"
      BY <2>6 DEF Begin, Hand
    <3>2. txn[p] = None /\ Good(conn[p]) /\ Serves(conn[p], bind[p]) /\ bind[p] \in Bindings
      BY <1>0, <3>1, PlacedTyped DEF Placed, Serve, HandsServe
    <3>3. home[conn[p]] # None
      BY <1>0, <3>2 DEF Serves
    <3>4. CASE conn[p] \in open
      <4>1. Idle(p) /\ txn' = [txn EXCEPT ![p] = [conn |-> conn[p], depth |-> Len(scopes[p])]]
        BY <2>6, <3>4 DEF Begin
      <4>2. txn'[p].conn = conn[p]
        BY <1>0, <4>1 DEF ContextType
      <4> QED
        BY <2>i, <3>1, <3>2, <3>3, <4>1, <4>2 DEF Good
    <3>5. CASE conn[p] \notin open
      <4>1. Goto(p, "release") /\ txn' = txn
        BY <2>6, <3>5 DEF Begin
      <4>2. at'[p] = "release" /\ conn' = conn /\ bind' = bind
        BY <1>0, <4>1 DEF Goto, CallType
      <4> QED
        BY <3>1, <3>2, <4>1, <4>2 DEF Good, Serves
    <3> QED
      BY <3>4, <3>5
  <2>7. CASE LeaveBlock(p)
    <3>1. /\ open' = open /\ stray' = stray /\ home' = home /\ txn'[p] = None /\ txn[p] # None
          /\ at'[p] = "release" /\ conn'[p] = txn[p].conn /\ bind'[p] = home[txn[p].conn]
      BY <1>0, <2>7 DEF LeaveBlock, CallType, ContextType
    <3>2. Good(txn[p].conn)
      BY <3>1 DEF Serve, HandsServe
    <3> QED
      BY <3>1, <3>2 DEF Good, Serves
  <2>8. CASE Release(p)
    <3>1. at[p] = "release" /\ txn' = txn /\ Hand(p) /\ txn[p] = None /\ ~ Drops(p)
      BY <1>0, <2>8 DEF Release, contextVars, Hand, Placed, Drops, Shut, OpenFails
    <3>2. Idle(p) \/ (at' = [at EXCEPT ![p] = "shut"] /\ UNCHANGED <<thread, bind, conn>>)
      BY <2>8 DEF Release
    <3>3. ASSUME at' = [at EXCEPT ![p] = "shut"], UNCHANGED <<thread, bind, conn>>
          PROVE  ServesNext(p)
      <4>1. at'[p] = "shut"
        BY <1>0, <3>3 DEF CallType
      <4> QED
        BY <1>h, <3>1, <3>3, <4>1
    <3> QED
      BY <2>i, <3>1, <3>2, <3>3
  <2>9. CASE \/ EnterScope(p) \/ ReenterScope(p) \/ InheritScope(p) \/ LeaveScope(p)
             \/ CloseAll(p) \/ Configure(p) \/ Close(p)
    <3>1. at'[p] \in {"idle", "leave scope"} /\ txn' = txn
      BY <1>0, <2>9 DEF EnterScope, ReenterScope, InheritScope, LeaveScope, CloseAll, Configure,
         Close, CanCall, callVars, contextVars, CallType
    <3>2. ~ Hand(p)'
      BY <3>1 DEF Hand
    <3> QED
      BY <1>b, <3>1, <3>2
  <2> QED
    BY <2>1, <2>2, <2>3, <2>4, <2>5, <2>6, <2>7, <2>8, <2>9 DEF Moves
<1> QED
  BY <1>1, <1>2 DEF HandsServe

\* What pools and caches have after a step they had before, except for what is
\* released and what is cached.
LEMMA PoolsFrom ==
    ASSUME Typed, NEW p \in Procs, Moves(p), NEW d \in Bindings, NEW i \in 1 .. Len(pool'[d])
    PROVE  \/ i \in 1 .. Len(pool[d]) /\ pool'[d][i] = pool[d][i]
           \/ Release(p) /\ d = BindingOf(p) /\ pool'[d][i] = conn[p]
<1>0. /\ DatabaseType /\ CallType /\ Placed(p) /\ pool[d] \in Seq(Conns)
      /\ pool \in [Bindings -> Seq(Conns)]
  BY DEF Typed, DatabaseType
<1>1. CASE pool'[d] = pool[d]
  BY <1>1
<1>2. CASE pool'[d] = <<>>
  <2>1. Len(<<>>) = 0
    OBVIOUS
  <2> QED
    BY <1>2, <2>1
<1>3. CASE EnterBlock(p)
  <2>1. pool'[d] = pool[d] \/ (pool[d] # <<>> /\ pool'[d] = Front(pool[d]))
    BY <1>0, <1>3 DEF EnterBlock
  <2>2. CASE pool[d] # <<>> /\ pool'[d] = Front(pool[d])
    <3>1. /\ Len(Front(pool[d])) = Len(pool[d]) - 1 /\ Len(pool[d]) \in Nat
          /\ \A j \in 1 .. Len(pool[d]) - 1 : Front(pool[d])[j] = pool[d][j]
      BY <1>0, <2>2, PrefixTyped
    <3>2. i \in 1 .. Len(pool[d]) - 1
      BY <2>2, <3>1
    <3>3. i \in 1 .. Len(pool[d])
      BY <3>1, <3>2
    <3> QED
      BY <2>2, <3>1, <3>2, <3>3
  <2> QED
    BY <1>1, <2>1, <2>2
<1>4. CASE Release(p)
  <2>1. conn[p] \in Conns
    BY <1>0, <1>4 DEF Release, Placed, Hand, CallType
  <2>2. pool'[d] = pool[d] \/ (d = BindingOf(p) /\ pool'[d] = Append(pool[d], conn[p]))
    BY <1>0, <1>4 DEF Release
  <2>3. CASE d = BindingOf(p) /\ pool'[d] = Append(pool[d], conn[p])
    <3>1. /\ Len(pool'[d]) = Len(pool[d]) + 1 /\ Len(pool[d]) \in Nat
          /\ \A j \in 1 .. Len(pool[d]) : pool'[d][j] = pool[d][j]
          /\ pool'[d][Len(pool[d]) + 1] = conn[p]
      BY <1>0, <2>1, <2>3, AppendProperties, LenProperties
    <3>2. i \in 1 .. Len(pool[d]) \/ i = Len(pool[d]) + 1
      BY <3>1
    <3> QED
      BY <1>4, <2>3, <3>1, <3>2
  <2> QED
    BY <1>1, <2>2, <2>3
<1>5. CASE EndScope(p) \/ CloseAll(p) \/ Configure(p) \/ Close(p)
  <2>1. pool'[d] = pool[d] \/ pool'[d] = <<>>
    BY <1>0, <1>5 DEF EndScope, CloseAll, Configure, Close, CloseNothing, CloseBinding
  <2> QED
    BY <1>1, <1>2, <2>1
<1>6. CASE \/ Execute(p) \/ Open(p) \/ Own(p) \/ Cache(p) \/ Use(p) \/ Begin(p) \/ LeaveBlock(p)
           \/ Drops(p) \/ EnterScope(p) \/ ReenterScope(p) \/ InheritScope(p) \/ LeaveScope(p)
  <2>1. pool' = pool
    BY <1>6 DEF Execute, Open, Own, Cache, Use, Begin, LeaveBlock, Drops, Shut, OpenFails, EnterScope, ReenterScope,
       InheritScope, LeaveScope, databaseVars
  <2> QED
    BY <1>1, <2>1
<1> QED
  BY <1>3, <1>4, <1>5, <1>6 DEF Moves

LEMMA CachesFrom ==
    ASSUME Typed, NEW p \in Procs, Moves(p), NEW u \in Caches, NEW d \in Bindings,
           cache'[u][d] # None
    PROVE  \/ cache'[u][d] = cache[u][d]
           \/ /\ Cache(p) /\ u = thread[p] /\ d = bind[p]
              /\ cache'[u][d] = [generation |-> generation, conn |-> conn[p]]
<1>0. DatabaseType /\ CallType /\ Placed(p) /\ cache \in [Caches -> [Bindings -> Entry \cup {None}]]
  BY DEF Typed, DatabaseType
<1>1. CASE Cache(p)
  <2>1. thread[p] \in Caches /\ bind[p] \in Bindings
    BY <1>0, <1>1 DEF Cache, Placed, CallType
  <2> QED
    BY <1>0, <1>1, <2>1 DEF Cache
<1>2. CASE CloseAll(p) \/ Configure(p) \/ Close(p)
  <2>1. PICK t \in ThreadsOf(p) : cache' = [cache EXCEPT ![t] = NoEntries]
    BY <1>2 DEF CloseAll, Configure, Close
  <2>2. u # t
    BY <1>0, <2>1 DEF NoEntries
  <2> QED
    BY <1>0, <2>1, <2>2
<1>3. CASE ~ (CloseAll(p) \/ Configure(p) \/ Close(p) \/ Cache(p))
  BY <1>3 DEF Moves, Execute, EnterBlock, Open, Own, Use, Begin, LeaveBlock, databaseVars,
     Release, Drops, Shut, OpenFails, EnterScope, ReenterScope, InheritScope, LeaveScope, EndScope
<1> QED
  BY <1>1, <1>2, <1>3

\* A connection goes back to the pool of the binding it is of.
LEMMA ReleasedServes ==
    ASSUME Typed, Serve, BlocksReturn, NEW p \in Procs, at[p] \in {"own for block", "begin", "release"}
    PROVE  /\ BindingOf(p) \in Bindings /\ conn[p] \in Conns
           /\ Good(conn[p]) /\ Serves(conn[p], BindingOf(p))
<1>1. DatabaseType /\ ContextType /\ CallType /\ Placed(p) /\ Hand(p)
  BY DEF Typed, Hand
<1>2. conn[p] \in Conns /\ home[conn[p]] \in Bindings /\ Good(conn[p])
  BY <1>1, SlotsTyped DEF Serve, HandsServe
<1>3. BindingOf(p) \in Bindings
  BY <1>1 DEF BlocksReturn, BindingOf, DatabaseType, ContextType
<1>4. conn[p] \in stray \/ Returns(p, Len(scopes[p]), home[conn[p]])
  BY DEF BlocksReturn
<1>5. conn[p] \in stray \/ home[conn[p]] = BindingOf(p)
  BY <1>4 DEF Returns, ScopeAt, BindingOf
<1>6. None \notin Bindings
  BY NoneAssumption
<1> QED
  BY <1>2, <1>3, <1>5, <1>6 DEF Serves

LEMMA PoolsServeNext ==
    ASSUME Typed, Serve, Apart, Listed, BlocksReturn, NEW p \in Procs, Moves(p)
    PROVE  PoolsServe'
<1> SUFFICES ASSUME NEW d \in Bindings, NEW i \in 1 .. Len(pool'[d])
             PROVE  Good(pool[d][i])' /\ Serves(pool[d][i], d)'
  BY DEF PoolsServe
<1>1. CASE i \in 1 .. Len(pool[d]) /\ pool'[d][i] = pool[d][i]
  <2>1. PICK c \in Conns : c = pool[d][i]
    BY <1>1, SlotsTyped
  <2>2. Good(c) /\ Serves(c, d)
    BY <1>1, <2>1 DEF Serve, PoolsServe
  <2>3. ASSUME ~ Good(c)' PROVE FALSE
    <3>1. Nowhere(c, p)
      BY <2>2, <2>3, LostIsNowhere
    <3>2. pool'[d] = <<>>
      BY <1>1, <2>1, <3>1 DEF Nowhere
    <3>3. Len(<<>>) = 0
      OBVIOUS
    <3> QED
      BY <3>2, <3>3
  <2>4. Serves(c, d)'
    BY <2>2, ServesKept
  <2> QED
    BY <1>1, <2>1, <2>3, <2>4 DEF Good, Serves
<1>2. CASE Release(p) /\ d = BindingOf(p) /\ pool'[d][i] = conn[p]
  <2>1. /\ conn[p] \in Conns /\ Good(conn[p]) /\ Serves(conn[p], d)
    BY <1>2, ReleasedServes DEF Release
  <2>2. open' = open /\ stray' = stray /\ home' = home
    BY <1>2 DEF Release
  <2> QED
    BY <1>2, <2>1, <2>2 DEF Good, Serves
<1> QED
  BY <1>1, <1>2, PoolsFrom

LEMMA CachesServeNext ==
    ASSUME Typed, Serve, Apart, Listed, NEW p \in Procs, Moves(p)
    PROVE  CachesServe'
<1> SUFFICES ASSUME NEW u \in Caches, NEW d \in Bindings, cache'[u][d] # None
             PROVE  /\ home'[cache'[u][d].conn] = d
                    /\ cache'[u][d].generation <= generation'
                    /\ cache'[u][d].generation = generation' => Good(cache[u][d].conn)'
  BY DEF CachesServe
<1>0. DatabaseType /\ CallType /\ Placed(p) /\ HomesKept /\ None \notin Bindings /\ generation \in Nat
  BY KeptNext, NoneAssumption DEF Typed, DatabaseType
<1>1. CASE cache'[u][d] = cache[u][d]
  <2>1. PICK c \in Conns : c = cache[u][d].conn /\ cache[u][d].generation \in Nat
    BY <1>1, SlotsTyped DEF Entry
  <2>2. home[c] = d /\ cache[u][d].generation <= generation
    BY <1>1, <2>1 DEF Serve, CachesServe
  <2>3. home'[c] = d
    BY <1>0, <2>2 DEF HomesKept
  <2>4. generation' = generation \/ generation' = generation + 1
    BY DEF Moves, Execute, EnterBlock, Open, Own, Cache, Use, Begin, LeaveBlock, Release, Drops, Shut, OpenFails,
       EnterScope, ReenterScope, InheritScope, LeaveScope, EndScope, CloseAll, Configure, Close,
       databaseVars, NextGeneration
  <2>5. cache'[u][d].generation <= generation'
    BY <1>0, <1>1, <2>1, <2>2, <2>4
  <2>6. ASSUME cache'[u][d].generation = generation' PROVE c \in open' \cup stray'
    <3>1. cache[u][d].generation = generation
      BY <1>0, <1>1, <2>1, <2>2, <2>4, <2>6
    <3>2. Good(c)
      BY <1>1, <2>1, <3>1 DEF Serve, CachesServe
    <3>3. ASSUME ~ Good(c)' PROVE FALSE
      <4>1. Nowhere(c, p)
        BY <3>2, <3>3, LostIsNowhere
      <4> QED
        BY <1>1, <2>1, <2>6, <4>1 DEF Nowhere
    <3> QED
      BY <3>3 DEF Good
  <2> QED
    BY <1>1, <2>1, <2>3, <2>5, <2>6 DEF Good
<1>2. CASE /\ Cache(p) /\ u = thread[p] /\ d = bind[p]
           /\ cache'[u][d] = [generation |-> generation, conn |-> conn[p]]
  <2>1. open' = open /\ stray' = stray /\ home' = home /\ generation' = generation /\ at[p] = "cache"
    BY <1>2 DEF Cache
  <2>2. Good(conn[p]) /\ home[conn[p]] = bind[p]
    BY <2>1 DEF Serve, HandsServe, Hand
  <2> QED
    BY <1>0, <1>2, <2>1, <2>2 DEF Good
<1> QED
  BY <1>1, <1>2, CachesFrom

LEMMA ServeNext ==
    ASSUME Typed, Serve, Apart, Listed, BlocksReturn, NEW p \in Procs, Moves(p)
    PROVE  Serve'
BY HandsServeNext, PoolsServeNext, CachesServeNext DEF Serve

-----------------------------------------------------------------------------
(***************************************************************************)
(* Steps keep the lists of bindings.                                       *)
(***************************************************************************)
LEMMA InSequence ==
    ASSUME NEW S, NEW s \in Seq(S)
    PROVE  /\ \A x : x \in ToSet(s) <=> \E i \in 1 .. Len(s) : s[i] = x
           /\ \A x \in S : \A y \in ToSet(s) : y \in ToSet(Append(s, x))
           /\ s # <<>> => \A y \in ToSet(s) : y = Last(s) \/ y \in ToSet(Front(s))
<1>1. \A r \in Seq(S) : \A x : x \in ToSet(r) <=> \E i \in 1 .. Len(r) : r[i] = x
  BY DEF ToSet
<1>2. ASSUME NEW x \in S, NEW y \in ToSet(s) PROVE y \in ToSet(Append(s, x))
  <2>1. PICK i \in 1 .. Len(s) : s[i] = y
    BY <1>1
  <2>2. /\ Append(s, x) \in Seq(S) /\ Len(Append(s, x)) = Len(s) + 1 /\ Len(s) \in Nat
        /\ Append(s, x)[i] = s[i]
    BY AppendProperties, LenProperties
  <2>3. i \in 1 .. Len(Append(s, x))
    BY <2>2
  <2> QED
    BY <1>1, <2>1, <2>2, <2>3
<1>3. ASSUME s # <<>>, NEW y \in ToSet(s) PROVE y = Last(s) \/ y \in ToSet(Front(s))
  <2>1. PICK i \in 1 .. Len(s) : s[i] = y
    BY <1>1
  <2>2. /\ Front(s) \in Seq(S) /\ Len(Front(s)) = Len(s) - 1 /\ Last(s) = s[Len(s)]
        /\ Len(s) \in Nat \ {0} /\ \A j \in 1 .. Len(s) - 1 : Front(s)[j] = s[j]
    BY <1>3, PrefixTyped
  <2>3. i = Len(s) \/ i \in 1 .. Len(s) - 1
    BY <2>2
  <2>4. i \in 1 .. Len(s) - 1 => i \in 1 .. Len(Front(s)) /\ Front(s)[i] = y
    BY <2>1, <2>2
  <2> QED
    BY <1>1, <2>1, <2>2, <2>3, <2>4
<1> QED
  BY <1>1, <1>2, <1>3

\* A binding stops being live when its scope ends or it is replaced.
LEMMA LiveStays ==
    ASSUME Typed, NEW p \in Procs, Moves(p), NEW d \in Bindings, Live(d)
    PROVE  \/ Live(d)'
           \/ EndScope(p) /\ d = bind[p]
           \/ Configure(p) /\ d = global
<1>0. /\ DatabaseType /\ ContextType /\ CallType /\ Placed(p) /\ OthersContext(p)
      /\ None \notin Bindings
  BY ContextNext, NoneAssumption DEF Typed
<1>1. ASSUME global' = global \/ global = None, scopes' = scopes PROVE Live(d)'
  BY <1>0, <1>1 DEF Live
<1>2. CASE Execute(p) \/ EnterBlock(p)
  <2>1. scopes' = scopes
    BY <1>2 DEF Execute, EnterBlock, contextVars
  <2>2. global' = global \/ global = None
    BY <1>0, <1>2, ExecuteStep, EnterBlockStep DEF Bound, BindingOf
  <2> QED
    BY <1>1, <2>1, <2>2
<1>3. CASE \/ Open(p) \/ Own(p) \/ Cache(p) \/ Use(p) \/ Begin(p) \/ LeaveBlock(p) \/ Release(p)
           \/ Drops(p) \/ InheritScope(p) \/ LeaveScope(p) \/ CloseAll(p) \/ Close(p)
  <2>1. scopes' = scopes /\ global' = global
    BY <1>3 DEF Open, Own, Cache, Use, Begin, LeaveBlock, Release, Drops, Shut, OpenFails, InheritScope, LeaveScope,
       CloseAll, Close, contextVars, databaseVars
  <2> QED
    BY <1>1, <2>1
<1>4. CASE EnterScope(p) \/ ReenterScope(p)
  <2>1. PICK b \in Bindings :
          scopes' = [scopes EXCEPT ![p] = Append(@, [binding |-> b, outer |-> scoped[p]])]
    BY <1>4 DEF EnterScope, ReenterScope, Made
  <2>2. [binding |-> b, outer |-> scoped[p]] \in Scope /\ scopes[p] \in Seq(Scope)
    BY <1>0 DEF ContextType, Scope
  <2>3. \A s \in ToSet(scopes[p]) : s \in ToSet(scopes'[p])
    BY <1>0, <2>1, <2>2, InSequence DEF ContextType
  <2>4. \A q \in Procs : q # p => scopes'[q] = scopes[q]
    BY <1>0 DEF OthersContext
  <2>5. global' = global
    BY <1>4 DEF EnterScope, ReenterScope, databaseVars
  <2> QED
    BY <2>3, <2>4, <2>5 DEF Live
<1>5. CASE EndScope(p)
  <2>1. /\ scopes[p] \in Seq(Scope) /\ scopes[p] # <<>> /\ scopes'[p] = Front(scopes[p])
        /\ bind[p] = Last(scopes[p]).binding
    BY <1>0, <1>5 DEF EndScope, Placed, ContextType
  <2>2. \A s \in ToSet(scopes[p]) : s.binding # bind[p] => s \in ToSet(scopes'[p])
    BY <2>1, InSequence
  <2>3. \A q \in Procs : q # p => scopes'[q] = scopes[q]
    BY <1>0 DEF OthersContext
  <2>4. global' = global
    BY <1>5 DEF EndScope
  <2> QED
    BY <1>5, <2>2, <2>3, <2>4 DEF Live
<1>6. CASE Configure(p)
  <2>1. scopes' = scopes
    BY <1>6 DEF Configure, contextVars
  <2> QED
    BY <1>6, <2>1 DEF Live
<1> QED
  BY <1>2, <1>3, <1>4, <1>5, <1>6 DEF Moves

\* No open connection is left of a binding that was closed, but what is out of
\* place.
LEMMA ClosedGone ==
    ASSUME Typed, Serve, Listed, NEW b \in Bindings, CloseBinding(b),
           stray \cup InUse(b) \subseteq stray', NEW c \in open' \ stray'
    PROVE  home[c] # b
<1>0. /\ c \in open \ stray /\ c \notin owned[b] /\ c \in Conns /\ None \notin Conns
      /\ \A q \in Procs : Placed(q)
  BY NoneAssumption DEF CloseBinding, Typed, DatabaseType
<1>1. ASSUME home[c] = b PROVE FALSE
  <2>1. PICK q \in Procs : conn[q] = c /\ at[q] \in {"own", "own for block", "shut"}
    BY <1>0, <1>1 DEF Listed, OpenListed, Unlisted
  <2>2. Serves(c, bind[q])
    BY <2>1 DEF Serve, HandsServe, Hand
  <2>3. bind[q] = b
    BY <1>0, <1>1, <2>2 DEF Serves
  <2>4. c \in InUse(b)
    BY <1>0, <2>1, <2>3 DEF InUse
  <2> QED
    BY <2>4
<1> QED
  BY <1>1

\* What the steps that close a binding close, and on whom they blame it.
LEMMA ClosingSteps ==
    ASSUME Typed, NEW p \in Procs, EndScope(p) \/ CloseAll(p) \/ Configure(p)
    PROVE  \/ /\ ~ EndScope(p) /\ global = None /\ CloseNothing
           \/ \E b \in Bindings :
                /\ CloseBinding(b) /\ stray \cup InUse(b) \subseteq stray'
                /\ EndScope(p) => b = bind[p]
                /\ ~ EndScope(p) => b = global
<1>1. CASE EndScope(p)
  <2>1. bind[p] \in Bindings
    BY <1>1, PlacedTyped DEF EndScope, Typed
  <2> QED
    BY <1>1, <2>1 DEF EndScope
<1>2. CASE (CloseAll(p) \/ Configure(p)) /\ ~ EndScope(p)
  <2>1. global \in Bindings \cup {None}
    BY DEF Typed, DatabaseType
  <2> QED
    BY <1>2, <2>1 DEF CloseAll, Configure
<1> QED
  BY <1>1, <1>2

LEMMA OpenLiveNext ==
    ASSUME Typed, Serve, Listed, NEW p \in Procs, Moves(p)
    PROVE  OpenLive'
<1> SUFFICES ASSUME NEW c \in open' \ stray' PROVE Live(home[c])'
  BY DEF OpenLive
<1>0. /\ DatabaseType /\ ContextType /\ CallType /\ Placed(p) /\ None \notin Bindings
      /\ HomesKept /\ stray \subseteq stray'
  BY KeptNext, StrayGrows, NoneAssumption DEF Typed
<1>1. ASSUME c \in open PROVE Live(home[c])'
  <2>1. Live(home[c]) /\ home[c] # None /\ c \in Conns
    BY <1>0, <1>1 DEF Listed, OpenListed, OpenLive, DatabaseType
  <2>2. PICK d \in Bindings : d = home[c] /\ home'[c] = d
    BY <1>0, <2>1 DEF DatabaseType, HomesKept
  <2>3. CASE Live(d)'
    BY <2>2, <2>3
  <2>4. CASE (EndScope(p) /\ d = bind[p]) \/ (Configure(p) /\ d = global)
    <3>1. d # None
      BY <1>0
    <3>2. PICK b \in Bindings : CloseBinding(b) /\ stray \cup InUse(b) \subseteq stray' /\ b = d
      BY <2>4, <3>1, ClosingSteps DEF EndScope, Configure, CanCall
    <3> QED
      BY <2>2, <3>2, ClosedGone
  <2> QED
    BY <2>1, <2>2, <2>3, <2>4, LiveStays
<1>2. ASSUME c \notin open PROVE Live(home[c])'
  <2>1. Open(p)
    BY <1>2 DEF Moves, Execute, EnterBlock, Own, Cache, Use, Begin, LeaveBlock,
       Release, Drops, Shut, OpenFails, EnterScope, ReenterScope, InheritScope, LeaveScope, EndScope, CloseAll,
       Configure, Close, CloseBinding, CloseNothing
  <2>2. home'[c] = bind[p] /\ Live(bind[p])
    BY <1>0, <1>2, <2>1 DEF Open, DatabaseType
  <2>3. UNCHANGED <<global, scopes>>
    BY <2>1 DEF Open, databaseVars, contextVars
  <2> QED
    BY <2>2, <2>3 DEF Live
<1> QED
  BY <1>1, <1>2

LEMMA OwnedStays ==
    ASSUME Typed, NEW p \in Procs, Moves(p), NEW d \in Bindings, NEW c \in owned[d]
    PROVE  \/ c \in owned'[d] \/ c \notin open'
           \/ Release(p) /\ c = conn[p] /\ at'[p] = "shut" /\ conn' = conn
<1>0. DatabaseType /\ CallType /\ owned \in [Bindings -> SUBSET Conns]
  BY DEF Typed, DatabaseType
<1>1. CASE Own(p)
  BY <1>0, <1>1 DEF Own
<1>2. CASE Release(p)
  <2>1. owned' = owned \/ (/\ owned' = [owned EXCEPT ![BindingOf(p)] = Disowned(BindingOf(p), conn[p])]
                           /\ at' = [at EXCEPT ![p] = "shut"] /\ conn' = conn)
    BY <1>2 DEF Release
  <2>2. \A b : Disowned(b, conn[p]) = owned[b] \ {conn[p]}
    BY DEF Disowned
  <2> HIDE DEF Disowned
  <2> QED
    BY <1>0, <1>2, <2>1, <2>2 DEF CallType
<1>3. CASE EndScope(p) \/ CloseAll(p) \/ Configure(p)
  BY <1>0, <1>3, ClosingSteps DEF CloseBinding, CloseNothing
<1>4. CASE Close(p)
  <2>1. PICK closed : /\ open' = open \ closed
                      /\ \A b \in Bindings : owned'[b] = owned[b] \/ owned'[b] = owned[b] \ closed
    BY <1>4 DEF Close
  <2> QED
    BY <2>1
<1>5. CASE ~ (\/ Own(p) \/ Release(p) \/ EndScope(p) \/ CloseAll(p) \/ Configure(p) \/ Close(p))
  <2>1. owned' = owned
    BY <1>5 DEF Moves, Execute, EnterBlock, Open, Cache, Use, Begin, LeaveBlock, Drops, Shut, OpenFails,
       EnterScope, ReenterScope, InheritScope, LeaveScope, databaseVars
  <2> QED
    BY <2>1
<1> QED
  BY <1>1, <1>2, <1>3, <1>4, <1>5

LEMMA OwnedFrom ==
    ASSUME Typed, NEW p \in Procs, Moves(p), NEW d \in Bindings, NEW c \in owned'[d]
    PROVE  c \in owned[d] \/ (Own(p) /\ d = bind[p] /\ c = conn[p])
<1>0. owned \in [Bindings -> SUBSET Conns]
  BY DEF Typed, DatabaseType
<1>1. CASE Own(p)
  BY <1>0, <1>1 DEF Own
<1>2. CASE Release(p)
  BY <1>0, <1>2 DEF Release, Disowned
<1>3. CASE EndScope(p) \/ CloseAll(p) \/ Configure(p)
  BY <1>0, <1>3, ClosingSteps DEF CloseBinding, CloseNothing
<1>4. CASE Close(p)
  <2>1. \A b \in Bindings : owned'[b] \subseteq owned[b]
    BY <1>4 DEF Close
  <2> QED
    BY <2>1
<1>5. CASE ~ (\/ Own(p) \/ Release(p) \/ EndScope(p) \/ CloseAll(p) \/ Configure(p) \/ Close(p))
  <2>1. owned' = owned
    BY <1>5 DEF Moves, Execute, EnterBlock, Open, Cache, Use, Begin, LeaveBlock, Drops, Shut, OpenFails,
       EnterScope, ReenterScope, InheritScope, LeaveScope, databaseVars
  <2> QED
    BY <2>1
<1> QED
  BY <1>1, <1>2, <1>3, <1>4, <1>5

\* Only opening makes an open connection.
LEMMA OpenFrom ==
    ASSUME NEW p \in Procs, Moves(p), NEW c \in open'
    PROVE  c \in open \/ Open(p)
BY DEF Moves, Execute, EnterBlock, Own, Cache, Use, Begin, LeaveBlock,
   Release, Drops, Shut, OpenFails, EnterScope, ReenterScope, InheritScope, LeaveScope, EndScope, CloseAll,
   Configure, Close, CloseBinding, CloseNothing

LEMMA OpenListedNext ==
    ASSUME Typed, Serve, Listed, NEW p \in Procs, Moves(p)
    PROVE  OpenListed'
<1> SUFFICES ASSUME NEW c \in open'
             PROVE  home'[c] # None /\ (Unlisted(c)' \/ c \in owned'[home'[c]])
  BY DEF OpenListed
<1>0. /\ DatabaseType /\ CallType /\ CallType' /\ Placed(p) /\ None \notin Bindings
      /\ HomesKept /\ OthersCall(p) /\ c \in Conns
  BY KeptNext, CallNext, NoneAssumption, DatabaseNext DEF Typed, DatabaseType, Next, Moves, Drops
<1>1. CASE c \notin open
  <2>1. Open(p)
    BY <1>1, OpenFrom
  <2>2. /\ home'[c] = bind[p] /\ conn'[p] = c /\ bind[p] \in Bindings
        /\ at'[p] \in {"own", "own for block"}
    <3>1. bind[p] \in Bindings
      BY <1>0, <2>1 DEF Open, Placed, CallType
    <3>2. PICK e \in Conns : /\ home' = [home EXCEPT ![e] = bind[p]] /\ open' = open \cup {e}
                             /\ conn' = [conn EXCEPT ![p] = e]
      BY <2>1 DEF Open
    <3>3. c = e
      BY <1>1, <3>2
    <3>4. home'[c] = bind[p] /\ conn'[p] = c
      BY <1>0, <3>2, <3>3 DEF DatabaseType, CallType
    <3>5. at'[p] \in {"own", "own for block"}
      BY <1>0, <2>1 DEF Open, CallType
    <3> QED
      BY <3>1, <3>4, <3>5
  <2> QED
    BY <1>0, <2>2 DEF Unlisted
<1>2. CASE c \in open
  <2>1. home[c] # None /\ home'[c] = home[c] /\ home[c] \in Bindings
    BY <1>0, <1>2 DEF Listed, OpenListed, HomesKept, DatabaseType
  <2>2. ASSUME NEW q \in Procs, conn[q] = c, at[q] \in {"own", "own for block", "shut"}
        PROVE  Unlisted(c)' \/ c \in owned'[home[c]]
    <3>1. CASE q # p
      BY <1>0, <2>2, <3>1 DEF OthersCall, Unlisted
    <3>2. CASE q = p
      <4>1. Own(p) \/ Drops(p)
        BY <2>2, <3>2 DEF Moves, Execute, EnterBlock, Open, Cache, Use, Begin, LeaveBlock,
           Release, EnterScope, ReenterScope, InheritScope, LeaveScope, EndScope, CloseAll,
           Configure, Close, CanCall
      <4>2. ~ Drops(p)
        BY <2>2, <3>2 DEF Drops, Shut, OpenFails
      <4>3. home[c] = bind[p] /\ bind[p] \in Bindings
        BY <2>1, <2>2, <3>2, <4>1, <4>2 DEF Serve, HandsServe, Own
      <4>4. c \in owned'[bind[p]]
        <5>1. owned' = [owned EXCEPT ![bind[p]] = @ \cup {conn[p]}]
          BY <4>1, <4>2 DEF Own
        <5>2. conn[p] = c /\ owned \in [Bindings -> SUBSET Conns]
          BY <1>0, <2>2, <3>2 DEF DatabaseType
        <5> QED
          BY <4>3, <5>1, <5>2
      <4> QED
        BY <4>3, <4>4
    <3> QED
      BY <3>1, <3>2
  <2>3. ASSUME c \in owned[home[c]] PROVE Unlisted(c)' \/ c \in owned'[home[c]]
    <3>1. PICK d \in Bindings : d = home[c]
      BY <2>1
    <3>2. \/ c \in owned'[d]
          \/ c = conn[p] /\ at'[p] = "shut" /\ conn' = conn
      BY <2>3, <3>1, OwnedStays
    <3> QED
      BY <3>1, <3>2 DEF Unlisted
  <2> QED
    BY <1>2, <2>1, <2>2, <2>3 DEF Listed, OpenListed, Unlisted
<1> QED
  BY <1>1, <1>2

LEMMA ListedOpenNext ==
    ASSUME Typed, Serve, Apart, Listed, BlocksReturn, NEW p \in Procs, Moves(p)
    PROVE  ListedOpen'
<1>0. /\ DatabaseType /\ ContextType /\ CallType /\ CallType' /\ Placed(p) /\ None \notin Bindings
      /\ HomesKept /\ OthersCall(p) /\ stray \subseteq stray'
  BY KeptNext, CallNext, StrayGrows, NoneAssumption DEF Typed
<1>1. ASSUME NEW d \in Bindings, NEW c \in owned'[d]
      PROVE  home'[c] = d /\ (Good(c)' \/ c \in hidden')
  <2>1. CASE c \notin owned[d]
    <3>1. Own(p) /\ d = bind[p] /\ c = conn[p]
      BY <1>1, <2>1, OwnedFrom
    <3>2. home[c] = d /\ Good(c)
      BY <3>1 DEF Own, Serve, HandsServe, Hand
    <3>3. home' = home /\ open' = open /\ stray' = stray
      BY <3>1 DEF Own
    <3> QED
      BY <3>2, <3>3 DEF Good
  <2>2. CASE c \in owned[d]
    <3>1. home[c] = d /\ (Good(c) \/ c \in hidden) /\ c \in Conns
      BY <1>0, <2>2 DEF Listed, ListedOpen, DatabaseType
    <3>2. home'[c] = d
      BY <1>0, <3>1 DEF HomesKept
    <3>3. hidden \subseteq hidden'
      BY DEF Moves, Execute, EnterBlock, Open, Own, Cache, Use, Begin, LeaveBlock, Release, Drops, Shut, OpenFails,
         EnterScope, ReenterScope, InheritScope, LeaveScope, EndScope, CloseAll, Configure, Close
    <3>4. ASSUME Good(c), ~ Good(c)' PROVE c \in hidden'
      <4>1. c \in open \ open' /\ c \notin stray'
        BY <1>0, <3>4 DEF Good
      <4>2. CASE Drops(p)
        <5>1. c = conn[p] /\ at[p] \in {"own", "own for block", "shut"}
          <6>1. /\ open' = open \ {conn[p]}
                /\ at[p] \in {"open", "open for block", "own", "own for block", "shut"}
            BY <4>2 DEF Drops, Shut, OpenFails
          <6>2. c = conn[p]
            BY <4>1, <6>1
          <6> QED
            BY <1>0, <3>1, <6>1, <6>2, NoneAssumption DEF Placed, Hand
        <5> QED
          BY <1>0, <2>2, <3>1, <4>1, <5>1 DEF Listed, ListedOpen
      <4>3. CASE EndScope(p) \/ CloseAll(p) \/ Configure(p)
        <5>1. PICK b \in Bindings : CloseBinding(b)
          BY <4>1, <4>3, ClosingSteps DEF CloseNothing
        <5>2. d # b
          BY <1>0, <1>1, <5>1 DEF CloseBinding, DatabaseType
        <5>3. c \in owned[b] \cup ToSet(pool[b])
          BY <4>1, <5>1 DEF CloseBinding
        <5>4. c \notin owned[b]
          BY <3>1, <5>2 DEF Listed, ListedOpen
        <5>5. PICK i \in 1 .. Len(pool[b]) : pool[b][i] = c
          BY <1>0, <5>3, <5>4, InSequence DEF DatabaseType
        <5>6. Serves(c, b)
          BY <5>5 DEF Serve, PoolsServe
        <5> QED
          BY <1>0, <3>1, <4>1, <5>2, <5>6 DEF Serves
      <4>4. CASE Close(p)
        <5>1. PICK closed : /\ open' = open \ closed
                            /\ owned' = [b \in Bindings |-> IF b \in {global, scoped[p]}
                                                 THEN owned[b] \ closed ELSE owned[b]]
                            /\ hidden' = hidden \cup {e \in closed : home[e] \notin {global, scoped[p]}}
          BY <4>4 DEF Close
        <5>2. c \in closed /\ d \notin {global, scoped[p]}
          BY <1>1, <4>1, <5>1
        <5> QED
          BY <3>1, <5>1, <5>2
      <4>5. CASE ~ Drops(p) /\ ~ EndScope(p) /\ ~ CloseAll(p) /\ ~ Configure(p) /\ ~ Close(p)
        BY <4>1, <4>5, OthersClose
      <4> QED
        BY <4>2, <4>3, <4>4, <4>5
    <3> QED
      BY <3>1, <3>2, <3>3, <3>4
  <2> QED
    BY <2>1, <2>2
<1>2. ASSUME NEW q \in Procs, at'[q] \in {"own", "own for block", "shut"}
      PROVE  conn'[q] \in stray' \/ conn'[q] \notin owned'[home'[conn'[q]]]
  <2>1. CASE at[q] \in {"own", "own for block", "shut"} /\ conn'[q] = conn[q]
    <3>1. conn[q] \in Conns /\ home[conn[q]] \in Bindings /\ Hand(q)
      BY <2>1, SlotsTyped DEF Hand
    <3>2. PICK c \in Conns, d \in Bindings : c = conn[q] /\ d = home[c]
      BY <3>1
    <3>3. c \in stray \/ c \notin owned[d]
      BY <2>1, <3>2 DEF Listed, ListedOpen
    <3>4. home'[c] = d
      BY <1>0, <3>2 DEF HomesKept
    <3>5. ASSUME c \in owned'[d], c \notin owned[d] PROVE FALSE
      <4>1. Own(p) /\ c = conn[p]
        BY <3>5, OwnedFrom
      <4>2. Hand(p)
        BY <4>1 DEF Own, Hand
      <4>3. q = p
        BY <3>1, <3>2, <4>1, <4>2 DEF Apart, HandsApart
      <4>4. at'[p] \in {"cache", "begin"}
        BY <1>0, <4>1 DEF Own, Goto, CallType
      <4> QED
        BY <1>2, <4>3, <4>4
    <3> QED
      BY <1>0, <2>1, <3>2, <3>3, <3>4, <3>5
  <2>2. CASE Open(p) /\ q = p
    <3>1. PICK e \in Conns : /\ home[e] = None /\ conn' = [conn EXCEPT ![p] = e]
                             /\ home' = [home EXCEPT ![e] = bind[p]]
      BY <2>2 DEF Open
    <3>2. conn'[q] = e /\ home'[e] = bind[p] /\ bind[p] \in Bindings /\ owned' = owned
      BY <1>0, <2>2, <3>1 DEF Open, Placed, CallType, DatabaseType, databaseVars
    <3>3. e \notin owned[bind[p]]
      BY <1>0, <3>1, <3>2 DEF Listed, ListedOpen
    <3> QED
      BY <3>2, <3>3
  <2>3. CASE ~ (at[q] \in {"own", "own for block", "shut"} /\ conn'[q] = conn[q]) /\ ~ (Open(p) /\ q = p)
    <3>1. q = p /\ ~ Open(p)
      BY <1>0, <1>2, <2>3 DEF OthersCall
    <3>2. Release(p)
      <4>1. ~ Idle(p)
        BY <1>0, <1>2, <3>1, IdleStep DEF Now
      <4>2. ~ Execute(p) /\ ~ EnterBlock(p)
        BY <1>2, <3>1, ExecuteStep, EnterBlockStep DEF Now
      <4>3. at'[p] \notin {"cache", "begin", "use", "release", "leave scope"}
        BY <1>2, <3>1
      <4>4. ~ Own(p) /\ ~ Cache(p) /\ ~ Begin(p)
        BY <1>0, <4>1, <4>3, GotoStep DEF Own, Cache, Begin, Now, Steps
      <4>5. ~ Open(p) /\ ~ LeaveBlock(p) /\ ~ LeaveScope(p)
        BY <1>0, <3>1, <4>3 DEF LeaveBlock, LeaveScope, CallType
      <4>6. ~ Use(p) /\ ~ Drops(p) /\ ~ EndScope(p)
        BY <4>1 DEF Use, Drops, Shut, OpenFails, EndScope
      <4>7. /\ ~ EnterScope(p) /\ ~ ReenterScope(p) /\ ~ InheritScope(p)
            /\ ~ CloseAll(p) /\ ~ Configure(p) /\ ~ Close(p)
        BY <1>2, <3>1 DEF EnterScope, ReenterScope, InheritScope, CloseAll, Configure, Close,
           CanCall, callVars
      <4> QED
        BY <4>2, <4>4, <4>5, <4>6, <4>7 DEF Moves
    <3>3. /\ conn' = conn /\ home' = home /\ stray' = stray /\ at[p] = "release"
          /\ owned' = [owned EXCEPT ![BindingOf(p)] = Disowned(BindingOf(p), conn[p])]
      <4>1. ~ Idle(p)
        BY <1>0, <1>2, <3>1, IdleStep DEF Now
      <4> QED
        BY <3>2, <4>1 DEF Release
    <3>4. BindingOf(p) \in Bindings /\ Serves(conn[p], BindingOf(p))
      BY <3>3, ReleasedServes
    <3>5. PICK b \in Bindings : b = BindingOf(p)
      BY <3>4
    <3>6. owned'[b] = owned[b] \ {conn[p]}
      BY <1>0, <3>3, <3>5 DEF Disowned, DatabaseType
    <3> QED
      BY <3>1, <3>3, <3>4, <3>5, <3>6 DEF Serves
  <2> QED
    BY <2>1, <2>2, <2>3
<1> QED
  BY <1>1, <1>2 DEF ListedOpen

LEMMA ListedNext ==
    ASSUME Typed, Serve, Apart, Listed, BlocksReturn, NEW p \in Procs, Moves(p)
    PROVE  Listed'
BY OpenListedNext, OpenLiveNext, ListedOpenNext DEF Listed

-----------------------------------------------------------------------------
(***************************************************************************)
(* Blocks return their connection to the binding they began in.            *)
(***************************************************************************)
LEMMA GlobalMoves ==
    ASSUME Typed, NEW p \in Procs, Moves(p)
    PROVE  \/ global' = global
           \/ global = None /\ global' # None
           \/ /\ Configure(p) /\ global \in Bindings /\ global' # None
              /\ InUse(global) \subseteq stray'
              /\ {q \in Procs : at[q] # "idle" /\ bind[q] = global} \subseteq overtaken'
<1>0. global \in Bindings \cup {None} /\ None \notin Bindings
  BY NoneAssumption DEF Typed, DatabaseType
<1>1. CASE Execute(p) \/ EnterBlock(p)
  <2>1. global' = global \/ \E b \in Bindings : Bound(p, b)
    BY <1>1, ExecuteStep, EnterBlockStep
  <2> QED
    BY <1>0, <2>1 DEF Bound, BindingOf
<1>2. CASE Configure(p)
  <2>1. global' # None
    BY <1>0, <1>2 DEF Configure
  <2>2. CASE global # None
    BY <1>0, <1>2, <2>1, <2>2 DEF Configure, CloseBinding
  <2> QED
    BY <2>1, <2>2
<1>3. CASE ~ Execute(p) /\ ~ EnterBlock(p) /\ ~ Configure(p)
  BY <1>3 DEF Moves, Open, Own, Cache, Use, Begin, LeaveBlock, databaseVars,
     Release, Drops, Shut, OpenFails, EnterScope, ReenterScope, InheritScope, LeaveScope, EndScope, CloseAll, Close
<1> QED
  BY <1>1, <1>2, <1>3

LEMMA ReturnsKept ==
    ASSUME Typed, Serve, NEW p \in Procs, Moves(p), NEW q \in Procs, NEW d, NEW c \in Conns,
           ScopeAt(q, d)' = ScopeAt(q, d), ScopeAt(q, d) = None => global # None,
           home[c] \in Bindings, c \in stray \/ Returns(q, d, home[c]),
           (txn[q] # None /\ txn[q].conn = c) \/ (Hand(q) /\ conn[q] = c)
    PROVE  /\ ScopeAt(q, d)' = None => global' # None
           /\ c \in stray' \/ Returns(q, d, home[c])'
<1>0. /\ stray \subseteq stray' /\ HomesKept /\ None \notin Bindings /\ None \notin Conns
      /\ DatabaseType
  BY KeptNext, StrayGrows, NoneAssumption DEF Typed
<1>1. home'[c] = home[c]
  BY <1>0 DEF HomesKept
<1>2. CASE global' = global
  BY <1>0, <1>1, <1>2 DEF Returns
<1>3. CASE global = None /\ global' # None
  BY <1>0, <1>1, <1>3 DEF Returns
<1>4. CASE global' # None /\ InUse(global) \subseteq stray'
  <2>1. CASE ScopeAt(q, d) # None
    BY <1>0, <1>1, <1>4, <2>1 DEF Returns
  <2>2. CASE ScopeAt(q, d) = None /\ c \notin stray
    <3>1. home[c] = global
      BY <2>2 DEF Returns
    <3>2. txn[q] # None /\ txn[q].conn = c => c \in InUse(global)
      BY <3>1 DEF InUse
    <3>3. Hand(q) /\ conn[q] = c => bind[q] = home[c]
      BY <2>2 DEF Serve, HandsServe, Serves
    <3>4. Hand(q) /\ conn[q] = c => c \in InUse(global)
      BY <1>0, <3>1, <3>3 DEF InUse
    <3> QED
      BY <1>4, <3>2, <3>4
  <2> QED
    BY <1>0, <1>4, <2>1, <2>2
<1> QED
  BY <1>2, <1>3, <1>4, GlobalMoves

\* What a block keeps while it is open, and what a call keeps that begins or
\* ends one.
BlockReturns(q) ==
    txn[q] # None =>
        /\ txn[q].depth <= Len(scopes[q])
        /\ at[q] = "leave scope" => txn[q].depth < Len(scopes[q])
        /\ ScopeAt(q, txn[q].depth) = None => global # None
        /\ txn[q].conn \in stray \/ Returns(q, txn[q].depth, home[txn[q].conn])
        /\ calls[q] # MaxCalls
HandReturns(q) ==
    /\ at[q] \in {"open for block", "own for block", "begin", "release"} =>
        /\ calls[q] # MaxCalls
        /\ scoped[q] = None => global # None
    /\ at[q] = "open for block" => q \in overtaken \/ Returns(q, Len(scopes[q]), bind[q])
    /\ at[q] \in {"own for block", "begin", "release"} =>
        conn[q] \in stray \/ Returns(q, Len(scopes[q]), home[conn[q]])

LEMMA EachReturns == BlocksReturn <=> \A q \in Procs : BlockReturns(q) /\ HandReturns(q)
BY DEF BlocksReturn, BlockReturns, HandReturns

LEMMA EachReturnsNext == BlocksReturn' <=> \A q \in Procs : BlockReturns(q)' /\ HandReturns(q)'
BY DEF BlocksReturn, BlockReturns, HandReturns

\* A block that the step leaves open, in scopes that are the same up to where
\* it began.
LEMMA BlockKept ==
    ASSUME Typed, Serve, NEW p \in Procs, Moves(p), NEW q \in Procs, BlockReturns(q),
           txn'[q] = txn[q],
           txn[q] # None =>
             /\ txn[q].depth <= Len(scopes'[q])
             /\ at'[q] = "leave scope" => txn[q].depth < Len(scopes'[q])
             /\ (IF txn[q].depth = Len(scopes'[q]) THEN scoped'[q]
                 ELSE scopes'[q][txn[q].depth + 1].outer) = ScopeAt(q, txn[q].depth)
    PROVE  BlockReturns(q)'
<1>1. CASE txn[q] = None
  BY <1>1 DEF BlockReturns
<1>2. CASE txn[q] # None
  <2>1. txn[q].conn \in Conns /\ home[txn[q].conn] \in Bindings
    BY <1>2, SlotsTyped
  <2>2. PICK c \in Conns : c = txn[q].conn /\ home[c] \in Bindings
    BY <2>1
  <2>3. PICK d : d = txn[q].depth
    OBVIOUS
  <2>4. ScopeAt(q, d)' = ScopeAt(q, d)
    BY <1>2, <2>3 DEF ScopeAt
  <2>5. (ScopeAt(q, d) = None => global # None) /\ (c \in stray \/ Returns(q, d, home[c]))
    BY <1>2, <2>2, <2>3 DEF BlockReturns
  <2>6. /\ ScopeAt(q, d)' = None => global' # None
        /\ c \in stray' \/ Returns(q, d, home[c])'
    BY <1>2, <2>2, <2>4, <2>5, ReturnsKept
  <2>7. calls'[q] # MaxCalls
    BY <1>2, CallsNext DEF BlockReturns, OthersCount
  <2>8. txn'[q].conn = c /\ txn'[q].depth = d
    BY <2>2, <2>3
  <2>9. /\ d <= Len(scopes'[q]) /\ at'[q] = "leave scope" => d < Len(scopes'[q])
    BY <1>2, <2>3
  <2> QED
    BY <2>6, <2>7, <2>8, <2>9 DEF BlockReturns, Returns, ScopeAt
<1> QED
  BY <1>1, <1>2

\* A call that does not begin or end a block, or has the same to return.
LEMMA HandKept ==
    ASSUME Typed, Serve, NEW p \in Procs, Moves(p), NEW q \in Procs, HandReturns(q),
           at[q] \in {"open for block", "own for block", "begin", "release"},
           at'[q] \in {"open for block", "own for block", "begin", "release"},
           at'[q] = "open for block" <=> at[q] = "open for block",
           scoped'[q] = scoped[q], scopes'[q] = scopes[q],
           bind'[q] = bind[q], conn'[q] = conn[q], q \in overtaken => q \in overtaken'
    PROVE  HandReturns(q)'
<1>0. /\ Placed(q) /\ DatabaseType /\ ContextType /\ CallType /\ None \notin Bindings
      /\ stray \subseteq stray'
  BY NoneAssumption, StrayGrows DEF Typed
<1>1. calls'[q] # MaxCalls
  BY CallsNext DEF HandReturns, OthersCount
<1>2. scoped[q] = None => global # None /\ global' # None
  BY GlobalMoves DEF HandReturns
<1>3. ScopeAt(q, Len(scopes[q])) = scoped[q] /\ ScopeAt(q, Len(scopes[q]))' = scoped[q]
  BY DEF ScopeAt
<1>4. CASE at[q] = "open for block"
  <2>1. at'[q] = "open for block"
    BY <1>4
  <2>2. ASSUME q \notin overtaken' PROVE Returns(q, Len(scopes[q]), bind[q])'
    <3>1. Returns(q, Len(scopes[q]), bind[q])
      BY <1>4, <2>2 DEF HandReturns
    <3>2. bind[q] \in Bindings
      BY <1>0, <1>4, PlacedTyped
    <3>3. scoped[q] = None => global' = global
      BY <1>0, <1>2, <1>3, <1>4, <2>2, <3>1, GlobalMoves DEF Returns
    <3> QED
      BY <1>3, <3>1, <3>3 DEF Returns
  <2> QED
    BY <1>1, <1>2, <2>1, <2>2 DEF HandReturns
<1>5. CASE at[q] # "open for block"
  <2>1. Hand(q) /\ conn[q] \in Conns /\ home[conn[q]] \in Bindings
    BY <1>5, SlotsTyped DEF Hand
  <2>a. PICK d : d = Len(scopes[q])
    OBVIOUS
  <2>b. PICK c \in Conns : c = conn[q] /\ home[c] \in Bindings
    BY <2>1
  <2>2. c = conn[q] /\ home[c] \in Bindings /\ d = Len(scopes[q])
    BY <2>a, <2>b
  <2>3. /\ ScopeAt(q, d)' = ScopeAt(q, d)
        /\ ScopeAt(q, d) = None => global # None
        /\ c \in stray \/ Returns(q, d, home[c])
    BY <1>2, <1>5, <2>2 DEF HandReturns, ScopeAt
  <2>4. c \in stray' \/ Returns(q, d, home[c])'
    BY <2>1, <2>2, <2>3, ReturnsKept
  <2> QED
    BY <1>1, <1>2, <1>5, <2>2, <2>4 DEF HandReturns, Returns
<1> QED
  BY <1>4, <1>5

LEMMA OvertakenStays ==
    ASSUME NEW p \in Procs, Moves(p)
    PROVE  /\ overtaken \ {p} \subseteq overtaken'
           /\ Execute(p) \/ EnterBlock(p) \/ overtaken \subseteq overtaken'
BY DEF Moves, Execute, EnterBlock, Open, Own, Cache, Use, Begin, LeaveBlock, Release, Drops, Shut, OpenFails,
   EnterScope, ReenterScope, InheritScope, LeaveScope, EndScope, CloseAll, Configure, Close,
   Proceed, Goto, CloseBinding, CloseNothing

LEMMA OthersReturn ==
    ASSUME Typed, Serve, BlocksReturn, NEW p \in Procs, Moves(p), NEW q \in Procs, q # p
    PROVE  BlockReturns(q)' /\ HandReturns(q)'
<1>1. BlockReturns(q) /\ HandReturns(q)
  BY EachReturns
<1>2. /\ at'[q] = at[q] /\ bind'[q] = bind[q] /\ conn'[q] = conn[q]
      /\ scoped'[q] = scoped[q] /\ scopes'[q] = scopes[q] /\ txn'[q] = txn[q]
  BY CallNext, ContextNext DEF OthersCall, OthersContext
<1>3. q \in overtaken => q \in overtaken'
  BY OvertakenStays
<1>4. BlockReturns(q)'
  BY <1>1, <1>2, BlockKept DEF BlockReturns, ScopeAt
<1>5. HandReturns(q)'
  BY <1>1, <1>2, <1>3, HandKept DEF HandReturns
<1> QED
  BY <1>4, <1>5

\* A block begins, or fails to begin, with a connection of its own binding.
LEMMA EnterReturns ==
    ASSUME Typed, Serve, BlocksReturn, NEW p \in Procs, EnterBlock(p)
    PROVE  HandReturns(p)'
<1>0. /\ DatabaseType /\ ContextType /\ CallType /\ Moves(p) /\ None \notin Bindings
      /\ calls \in [Procs -> 0 .. MaxCalls] /\ MaxCalls \in Nat
  BY NoneAssumption, ConnectionsAssumption DEF Typed, ContextType, Moves
<1>1. UNCHANGED <<scoped, scopes, home, stray>>
  BY DEF EnterBlock, contextVars
<1>2. PICK t \in ThreadsOf(p), b \in Bindings :
        /\ Bound(p, b)
        /\ \/ /\ pool[b] # <<>> /\ Last(pool[b]) \in Conns
              /\ Now(p, "begin", t, b, Last(pool[b])) /\ Proceed(p, "begin", t, b, Last(pool[b]))
           \/ /\ Now(p, "open for block", t, b, None)
              /\ Proceed(p, "open for block", t, b, None)
  BY EnterBlockStep
<1>3. calls'[p] # MaxCalls
  <2>1. Counted(p)
    BY <1>2 DEF Proceed
  <2>2. calls'[p] = calls[p] - 1 /\ calls[p] \in 0 .. MaxCalls
    BY <1>0, <2>1 DEF Counted
  <2> QED
    BY <1>0, <2>2
<1>4. /\ scoped[p] # None => scoped[p] = b
      /\ scoped[p] = None => global' = b
  BY <1>0, <1>2 DEF Bound, BindingOf
<1>5. ScopeAt(p, Len(scopes[p]))' = scoped[p]
  BY <1>1 DEF ScopeAt
<1>6. CASE Now(p, "open for block", t, b, None)
  <2>1. Returns(p, Len(scopes[p]), bind[p])'
    BY <1>0, <1>4, <1>5, <1>6 DEF Returns, Now
  <2> QED
    BY <1>0, <1>1, <1>3, <1>4, <1>6, <2>1 DEF HandReturns, Now
<1>7. CASE pool[b] # <<>> /\ Now(p, "begin", t, b, Last(pool[b]))
  <2>1. pool[b] \in Seq(Conns)
    BY <1>0 DEF DatabaseType
  <2>2. Last(pool[b]) = pool[b][Len(pool[b])] /\ Len(pool[b]) \in Nat \ {0}
    BY <1>7, <2>1, PrefixTyped
  <2>3. Len(pool[b]) \in 1 .. Len(pool[b])
    BY <2>2
  <2>4. Serves(Last(pool[b]), b)
    BY <2>2, <2>3 DEF Serve, PoolsServe
  <2>5. PICK c : c = Last(pool[b])
    OBVIOUS
  <2>6. at'[p] = "begin" /\ conn'[p] = c
    BY <1>7, <2>5 DEF Now
  <2>7. c \in stray' \/ Returns(p, Len(scopes[p]), home[conn[p]])'
    BY <1>0, <1>1, <1>4, <1>5, <2>4, <2>5, <2>6 DEF Returns, Serves
  <2> QED
    BY <1>0, <1>1, <1>3, <1>4, <2>6, <2>7 DEF HandReturns
<1> QED
  BY <1>2, <1>6, <1>7

LEMMA Below ==
    ASSUME NEW n \in Nat, NEW m \in Nat, n < m
    PROVE  n # m /\ n <= m /\ n <= m - 1
OBVIOUS

LEMMA OwnReturns ==
    ASSUME Typed, Serve, BlocksReturn, NEW p \in Procs, Moves(p)
    PROVE  BlockReturns(p)' /\ HandReturns(p)'
<1>0. /\ DatabaseType /\ ContextType /\ CallType /\ CallType' /\ Placed(p) /\ None \notin Bindings
      /\ BlockReturns(p) /\ HandReturns(p)
      /\ scopes[p] \in Seq(Scope) /\ Len(scopes[p]) \in Nat
  BY EachReturns, CallNext, PlacedTyped, NoneAssumption DEF Typed
<1>b. ASSUME txn'[p] = txn[p], scopes'[p] = scopes[p], scoped'[p] = scoped[p],
             at'[p] # "leave scope"
      PROVE  BlockReturns(p)'
  BY <1>0, <1>b, BlockKept DEF BlockReturns, ScopeAt
<1>n. ASSUME txn'[p] = None PROVE BlockReturns(p)'
  BY <1>n DEF BlockReturns
<1>h. ASSUME at'[p] \notin {"open for block", "own for block", "begin", "release"}
      PROVE  HandReturns(p)'
  BY <1>h DEF HandReturns
<1>i. ASSUME Idle(p) PROVE at'[p] = "idle" /\ HandReturns(p)'
  BY <1>0, <1>h, <1>i, IdleStep DEF Now
<1>1. CASE Execute(p)
  <2>1. at'[p] \in {"use", "open"}
    BY <1>1, ExecuteStep DEF Now
  <2>2. UNCHANGED contextVars
    BY <1>1 DEF Execute
  <2> QED
    BY <1>b, <1>h, <2>1, <2>2 DEF contextVars
<1>2. CASE EnterBlock(p)
  BY <1>n, <1>2, EnterReturns DEF EnterBlock, contextVars
<1>3. CASE Open(p)
  <2>1. UNCHANGED contextVars /\ txn[p] = None
    BY <1>0, <1>3 DEF Open, Placed
  <2>2. CASE at[p] = "open"
    <3>1. at'[p] = "own"
      BY <1>0, <1>3, <2>2 DEF Open, CallType
    <3> QED
      BY <1>n, <1>h, <2>1, <3>1 DEF contextVars
  <2>3. CASE at[p] = "open for block"
    <3>1. at'[p] = "own for block"
      BY <1>0, <1>3, <2>3 DEF Open, CallType
    <3>2. PICK c \in Conns : /\ conn' = [conn EXCEPT ![p] = c]
                             /\ home' = [home EXCEPT ![c] = bind[p]]
                             /\ p \in overtaken => c \in stray'
      BY <1>3 DEF Open
    <3>3. conn'[p] = c /\ home'[c] = bind[p]
      BY <1>0, <3>2 DEF CallType, DatabaseType
    <3>4. UNCHANGED <<global, calls, scoped, scopes>>
      BY <1>3 DEF Open, databaseVars, contextVars
    <3>5. /\ p \in overtaken \/ Returns(p, Len(scopes[p]), bind[p])
          /\ calls[p] # MaxCalls
          /\ scoped[p] = None => global # None
      BY <1>0, <2>3 DEF HandReturns
    <3>6. conn'[p] \in stray' \/ Returns(p, Len(scopes[p]), home[conn[p]])'
      BY <3>2, <3>3, <3>4, <3>5 DEF Returns, ScopeAt
    <3>7. HandReturns(p)'
      BY <3>1, <3>4, <3>5, <3>6 DEF HandReturns
    <3> QED
      BY <1>n, <2>1, <3>7 DEF contextVars
  <2> QED
    BY <1>3, <2>2, <2>3 DEF Open
<1>4. CASE Own(p)
  <2>1. UNCHANGED contextVars /\ UNCHANGED <<bind, conn, overtaken>>
    BY <1>4 DEF Own, Goto
  <2>2. (at[p] = "own" /\ at'[p] = "cache") \/ (at[p] = "own for block" /\ at'[p] = "begin")
    BY <1>0, <1>4 DEF Own, Goto, CallType
  <2>3. HandReturns(p)'
    BY <1>0, <1>h, <2>1, <2>2, HandKept DEF contextVars
  <2> QED
    BY <1>b, <2>1, <2>2, <2>3 DEF contextVars
<1>5. CASE Cache(p)
  <2>1. UNCHANGED contextVars /\ at'[p] = "use"
    BY <1>0, <1>5 DEF Cache, Goto, CallType
  <2> QED
    BY <1>b, <1>h, <2>1 DEF contextVars
<1>6. CASE Use(p) \/ Drops(p)
  <2>1. UNCHANGED contextVars /\ Idle(p)
    BY <1>6 DEF Use, Drops, Shut, OpenFails
  <2> QED
    BY <1>b, <1>i, <2>1 DEF contextVars
<1>7. CASE Begin(p)
  <2>1. UNCHANGED <<global, scoped, scopes, home, stray>> /\ at[p] = "begin"
    BY <1>7 DEF Begin, databaseVars
  <2>2. CASE conn[p] \notin open
    <3>1. UNCHANGED <<txn, bind, conn, overtaken>> /\ at'[p] = "release"
      BY <1>0, <1>7, <2>2 DEF Begin, Goto, CallType
    <3>2. HandReturns(p)'
      BY <1>0, <2>1, <3>1, HandKept
    <3> QED
      BY <1>b, <2>1, <3>1, <3>2
  <2>3. CASE conn[p] \in open
    <3>1. /\ Idle(p) /\ UNCHANGED calls
          /\ txn' = [txn EXCEPT ![p] = [conn |-> conn[p], depth |-> Len(scopes[p])]]
      BY <1>7, <2>3 DEF Begin
    <3>2. txn'[p].conn = conn[p] /\ txn'[p].depth = Len(scopes[p])
      BY <1>0, <3>1 DEF ContextType
    <3>3. PICK c, d : c = conn[p] /\ d = Len(scopes[p])
      OBVIOUS
    <3>4. /\ d <= Len(scopes'[p]) /\ at'[p] = "idle" /\ calls'[p] # MaxCalls
      <4>1. at'[p] = "idle"
        BY <1>i, <3>1
      <4>2. calls'[p] # MaxCalls
        BY <1>0, <2>1, <3>1 DEF HandReturns
      <4>3. d \in Nat /\ d = Len(scopes'[p])
        BY <1>0, <2>1, <3>3
      <4>4. d <= d
        BY <4>3
      <4> QED
        BY <4>1, <4>2, <4>3, <4>4
    <3>5. /\ ScopeAt(p, d)' = scoped[p] /\ ScopeAt(p, d) = scoped[p]
      BY <2>1, <3>3 DEF ScopeAt
    <3>6. /\ scoped[p] = None => global' # None
          /\ c \in stray' \/ Returns(p, d, home[c])'
      BY <1>0, <2>1, <3>3, <3>5 DEF HandReturns, Returns
    <3>7. BlockReturns(p)'
      BY <3>2, <3>3, <3>4, <3>5, <3>6 DEF BlockReturns, Returns, ScopeAt
    <3> QED
      BY <1>i, <3>1, <3>7
  <2> QED
    BY <2>2, <2>3
<1>8. CASE LeaveBlock(p)
  <2>1. /\ UNCHANGED <<global, scoped, scopes, home, stray, calls>>
        /\ txn[p] # None /\ txn[p].depth = Len(scopes[p]) /\ txn'[p] = None
        /\ at'[p] = "release" /\ conn'[p] = txn[p].conn
    BY <1>0, <1>8 DEF LeaveBlock, databaseVars, CallType, ContextType
  <2>2. PICK c, d : c = txn[p].conn /\ d = Len(scopes[p])
    OBVIOUS
  <2>3. ScopeAt(p, d) = scoped[p] /\ ScopeAt(p, d)' = scoped[p]
    BY <2>1, <2>2 DEF ScopeAt
  <2>4. /\ calls'[p] # MaxCalls
        /\ scoped'[p] = None => global' # None
        /\ c \in stray' \/ Returns(p, d, home[c])'
    BY <1>0, <2>1, <2>2, <2>3 DEF BlockReturns, Returns
  <2>5. HandReturns(p)'
    BY <2>1, <2>2, <2>4 DEF HandReturns, Returns, ScopeAt
  <2> QED
    BY <1>n, <2>1, <2>5
<1>9. CASE Release(p)
  <2>1. UNCHANGED contextVars
    BY <1>9 DEF Release
  <2>2. at'[p] \in {"idle", "shut"}
    BY <1>0, <1>9, IdleStep DEF Release, CallType, Now
  <2> QED
    BY <1>b, <1>h, <2>1, <2>2 DEF contextVars
<1>10. CASE EnterScope(p) \/ ReenterScope(p)
  <2>1. PICK b \in Bindings :
          /\ scoped' = [scoped EXCEPT ![p] = b]
          /\ scopes' = [scopes EXCEPT ![p] = Append(@, [binding |-> b, outer |-> scoped[p]])]
    BY <1>10 DEF EnterScope, ReenterScope, Made
  <2>2. at'[p] = "idle" /\ txn' = txn
    BY <1>10 DEF EnterScope, ReenterScope, CanCall, callVars
  <2>3. PICK s \in Scope : s = [binding |-> b, outer |-> scoped[p]]
    BY <1>0 DEF ContextType, Scope
  <2>4. scopes'[p] = Append(scopes[p], s) /\ s.outer = scoped[p]
    BY <1>0, <2>1, <2>3 DEF ContextType
  <2>5. /\ Len(scopes'[p]) = Len(scopes[p]) + 1
        /\ \A i \in 1 .. Len(scopes[p]) : scopes'[p][i] = scopes[p][i]
        /\ scopes'[p][Len(scopes[p]) + 1] = s
    BY <1>0, <2>4, AppendProperties
  <2>6. ASSUME txn[p] # None
        PROVE  /\ txn[p].depth <= Len(scopes'[p])
               /\ (IF txn[p].depth = Len(scopes'[p]) THEN scoped'[p]
                   ELSE scopes'[p][txn[p].depth + 1].outer) = ScopeAt(p, txn[p].depth)
    <3>1. txn[p].depth \in Nat /\ txn[p].depth <= Len(scopes[p])
      BY <1>0, <2>6, PlacedTyped DEF BlockReturns
    <3>2. CASE txn[p].depth = Len(scopes[p])
      BY <1>0, <2>4, <2>5, <3>2 DEF ScopeAt
    <3>3. CASE txn[p].depth < Len(scopes[p])
      <4>1. txn[p].depth + 1 \in 1 .. Len(scopes[p])
        BY <1>0, <3>1, <3>3
      <4> QED
        BY <1>0, <2>5, <3>1, <3>3, <4>1 DEF ScopeAt
    <3> QED
      BY <1>0, <3>1, <3>2, <3>3
  <2>7. BlockReturns(p)'
    BY <1>0, <2>2, <2>6, BlockKept
  <2> QED
    BY <1>h, <2>2, <2>7
<1>11. CASE InheritScope(p)
  <2>1. txn[p] = None /\ txn' = txn /\ at'[p] = "idle"
    BY <1>0, <1>11 DEF InheritScope, BlockReturns, CanCall, callVars
  <2> QED
    BY <1>n, <1>h, <2>1
<1>12. CASE LeaveScope(p)
  <2>1. /\ scopes' = scopes /\ txn' = txn /\ at'[p] = "leave scope"
        /\ txn[p] # None => txn[p].depth < Len(scopes[p])
    BY <1>0, <1>12 DEF LeaveScope, CallType
  <2>2. txn[p] # None => txn[p].depth \in Nat
    BY <1>0, PlacedTyped
  <2>3. txn[p] # None => txn[p].depth # Len(scopes[p]) /\ txn[p].depth <= Len(scopes[p])
    <3>1. Len(scopes[p]) \in Nat
      BY <1>0
    <3> QED
      BY <2>1, <2>2, <3>1, Below
  <2>4. BlockReturns(p)'
    BY <1>0, <2>1, <2>3, BlockKept DEF ScopeAt
  <2> QED
    BY <1>h, <2>1, <2>4
<1>13. CASE EndScope(p)
  <2>1. /\ Idle(p) /\ txn' = txn /\ scoped' = scoped /\ at[p] = "leave scope"
        /\ scopes'[p] = Front(scopes[p]) /\ scopes[p] # <<>> /\ scoped[p] = Last(scopes[p]).outer
    BY <1>0, <1>13 DEF EndScope, Placed, ContextType
  <2>2. /\ Len(Front(scopes[p])) = Len(scopes[p]) - 1 /\ Last(scopes[p]) = scopes[p][Len(scopes[p])]
        /\ \A i \in 1 .. Len(scopes[p]) - 1 : Front(scopes[p])[i] = scopes[p][i]
    BY <1>0, <2>1, PrefixTyped
  <2>3. ASSUME txn[p] # None
        PROVE  /\ txn[p].depth <= Len(scopes'[p])
               /\ (IF txn[p].depth = Len(scopes'[p]) THEN scoped'[p]
                   ELSE scopes'[p][txn[p].depth + 1].outer) = ScopeAt(p, txn[p].depth)
    <3>1. txn[p].depth \in Nat /\ txn[p].depth < Len(scopes[p])
      BY <1>0, <2>1, <2>3, PlacedTyped DEF BlockReturns
    <3>2. CASE txn[p].depth = Len(scopes[p]) - 1
      <4>1. txn[p].depth + 1 = Len(scopes[p]) /\ txn[p].depth # Len(scopes[p])
        BY <1>0, <3>1, <3>2
      <4>2. ScopeAt(p, txn[p].depth) = scoped[p]
        BY <2>1, <2>2, <4>1 DEF ScopeAt
      <4>3. txn[p].depth = Len(scopes'[p]) /\ scoped'[p] = scoped[p]
        BY <2>1, <2>2, <3>2
      <4>4. txn[p].depth <= Len(scopes'[p])
        BY <3>1, <4>3
      <4> QED
        BY <4>2, <4>3, <4>4
    <3>3. CASE txn[p].depth # Len(scopes[p]) - 1
      <4>1. txn[p].depth + 1 \in 1 .. Len(scopes[p]) - 1
        BY <1>0, <3>1, <3>3
      <4>2. txn[p].depth # Len(scopes[p]) /\ txn[p].depth <= Len(scopes[p]) - 1
        BY <1>0, <3>1, <4>1
      <4> QED
        BY <2>1, <2>2, <3>3, <4>1, <4>2 DEF ScopeAt
    <3> QED
      BY <3>2, <3>3
  <2>4. at'[p] = "idle"
    BY <1>i, <2>1
  <2>5. BlockReturns(p)'
    BY <1>0, <2>1, <2>3, <2>4, BlockKept
  <2> QED
    BY <1>i, <2>1, <2>5
<1>14. CASE CloseAll(p) \/ Configure(p) \/ Close(p)
  <2>1. UNCHANGED contextVars /\ at'[p] = "idle"
    BY <1>14 DEF CloseAll, Configure, Close, CanCall, callVars
  <2> QED
    BY <1>b, <1>h, <2>1 DEF contextVars
<1> QED
  BY <1>1, <1>2, <1>3, <1>4, <1>5, <1>6, <1>7, <1>8, <1>9, <1>10, <1>11, <1>12, <1>13, <1>14 DEF Moves

LEMMA BlocksReturnNext ==
    ASSUME Typed, Serve, BlocksReturn, NEW p \in Procs, Moves(p)
    PROVE  BlocksReturn'
<1>1. ASSUME NEW q \in Procs PROVE BlockReturns(q)' /\ HandReturns(q)'
  BY OthersReturn, OwnReturns
<1> QED
  BY <1>1, EachReturnsNext

-----------------------------------------------------------------------------
(***************************************************************************)
(* Calls outside blocks keep their binding.                                *)
(***************************************************************************)
\* A step that takes nobody's call back, and leaves the call's binding.
LEMMA MeantKept ==
    ASSUME Typed, NEW p \in Procs, Moves(p), NEW q \in Procs, Meant(q),
           txn[q] = None, scoped'[q] = scoped[q], bind'[q] = bind[q], conn'[q] = conn[q],
           q \in overtaken => q \in overtaken',
           \/ at[q] = "open" /\ at'[q] = "open"
           \/ at[q] \in {"own", "cache", "use"} /\ at'[q] \in {"own", "cache", "use"}
    PROVE  Meant(q)'
<1>0. /\ Placed(q) /\ DatabaseType /\ ContextType /\ CallType
      /\ None \notin Bindings /\ None \notin Conns /\ stray \subseteq stray'
  BY NoneAssumption, StrayGrows DEF Typed
<1>1. bind[q] \in Bindings
  BY <1>0, PlacedTyped
<1>2. CASE BindingOf(q)' = BindingOf(q)
  BY <1>0, <1>2 DEF Meant
<1>3. CASE BindingOf(q)' # BindingOf(q)
  <2>1. scoped[q] = None /\ BindingOf(q) = global /\ global' # global
    BY <1>3 DEF BindingOf
  <2>2. CASE global # bind[q]
    BY <1>0, <2>1, <2>2 DEF Meant
  <2>3. CASE global = bind[q]
    <3>1. /\ InUse(global) \subseteq stray'
          /\ {r \in Procs : at[r] # "idle" /\ bind[r] = global} \subseteq overtaken'
      BY <1>0, <1>1, <2>1, <2>3, GlobalMoves
    <3>2. q \in overtaken'
      BY <2>3, <3>1
    <3>3. at[q] \in {"own", "cache", "use"} => conn'[q] \in stray'
      BY <1>0, <2>3, <3>1 DEF InUse, Placed, Hand
    <3> QED
      BY <3>2, <3>3 DEF Meant
  <2> QED
    BY <2>2, <2>3
<1> QED
  BY <1>2, <1>3

LEMMA CallsMeantNext ==
    ASSUME Typed, Serve, CallsMeant, NEW p \in Procs, Moves(p)
    PROVE  CallsMeant'
<1>0. /\ DatabaseType /\ ContextType /\ CallType /\ CallType' /\ Placed(p)
      /\ None \notin Bindings /\ Meant(p)
  BY CallNext, NoneAssumption DEF Typed, CallsMeant
<1>1. ASSUME NEW q \in Procs, q # p PROVE Meant(q)'
  <2>1. /\ at'[q] = at[q] /\ bind'[q] = bind[q] /\ conn'[q] = conn[q]
        /\ scoped'[q] = scoped[q] /\ txn'[q] = txn[q]
    BY <1>1, CallNext, ContextNext DEF OthersCall, OthersContext
  <2>2. q \in overtaken => q \in overtaken'
    BY <1>1, OvertakenStays
  <2>3. CASE txn[q] # None \/ at[q] \notin {"open", "own", "cache", "use"}
    BY <2>1, <2>3 DEF Meant
  <2>4. CASE txn[q] = None /\ at[q] \in {"open", "own", "cache", "use"}
    BY <2>1, <2>2, <2>4, MeantKept DEF CallsMeant
  <2> QED
    BY <2>3, <2>4
<1> SUFFICES Meant(p)'
  BY <1>1 DEF CallsMeant
<1>n. ASSUME at'[p] \notin {"open", "own", "cache", "use"} PROVE Meant(p)'
  BY <1>n DEF Meant
<1>2. CASE Execute(p)
  <2>0. UNCHANGED <<scoped, txn>>
    BY <1>2 DEF Execute, contextVars
  <2>1. PICK t \in ThreadsOf(p) :
          \/ txn[p] # None
          \/ /\ txn[p] = None
             /\ \E b \in Bindings :
                 /\ Bound(p, b)
                 /\ Now(p, IF Cached(t, b) # None THEN "use" ELSE "open", t, b, Cached(t, b))
    BY <1>2, ExecuteStep
  <2>2. CASE txn[p] # None
    BY <2>0, <2>2 DEF Meant
  <2>3. CASE txn[p] = None
    <3>1. PICK b \in Bindings : Bound(p, b) /\ bind'[p] = b
      BY <2>1, <2>3 DEF Now
    <3>2. BindingOf(p)' = b
      BY <1>0, <2>0, <3>1 DEF Bound, BindingOf
    <3> QED
      BY <3>1, <3>2 DEF Meant
  <2> QED
    BY <2>2, <2>3
<1>3. CASE Open(p)
  <2>1. /\ UNCHANGED <<global, scoped, txn, bind>> /\ txn[p] = None
        /\ at'[p] = (IF at[p] = "open" THEN "own" ELSE "own for block")
    BY <1>0, <1>3 DEF Open, Placed, databaseVars, contextVars, CallType
  <2>2. CASE at[p] = "open"
    <3>1. PICK c \in Conns : conn'[p] = c /\ (p \in overtaken => c \in stray')
      BY <1>0, <1>3 DEF Open, CallType
    <3>2. p \in overtaken \/ BindingOf(p) = bind[p]
      BY <1>0, <2>1, <2>2 DEF Meant
    <3>3. BindingOf(p)' = BindingOf(p)
      BY <2>1 DEF BindingOf
    <3> QED
      BY <2>1, <2>2, <3>1, <3>2, <3>3 DEF Meant
  <2>3. CASE at[p] # "open"
    BY <1>n, <2>1, <2>3
  <2> QED
    BY <2>2, <2>3
<1>4. CASE Own(p) \/ Cache(p)
  <2>1. /\ UNCHANGED <<scoped, txn, bind, conn, overtaken>> /\ txn[p] = None
        /\ at[p] \in {"own", "own for block", "cache"}
    BY <1>0, <1>4 DEF Own, Cache, Goto, Placed, contextVars
  <2>2. CASE at[p] = "own for block"
    <3>1. at'[p] = "begin"
      BY <1>0, <1>4, <2>2 DEF Own, Cache, Goto, CallType
    <3> QED
      BY <1>n, <3>1
  <2>3. CASE at[p] \in {"own", "cache"}
    <3>1. at'[p] \in {"cache", "use"}
      BY <1>0, <1>4, <2>3 DEF Own, Cache, Goto, CallType
    <3> QED
      BY <1>0, <2>1, <2>3, <3>1, MeantKept
  <2> QED
    BY <2>1, <2>2, <2>3
<1>5. CASE EnterBlock(p)
  <2>1. at'[p] \in {"begin", "open for block"}
    BY <1>5, EnterBlockStep DEF Now
  <2> QED
    BY <1>n, <2>1
<1>6. CASE Use(p) \/ Drops(p) \/ EndScope(p) \/ Begin(p) \/ Release(p)
  <2>1. \/ Idle(p) \/ Goto(p, "release") \/ at' = [at EXCEPT ![p] = "shut"]
    BY <1>6 DEF Use, Drops, Shut, OpenFails, EndScope, Begin, Release
  <2>2. at'[p] \in {"idle", "release", "shut"}
    BY <1>0, <2>1 DEF Idle, Goto, CallType
  <2> QED
    BY <1>n, <2>2
<1>7. CASE LeaveBlock(p) \/ LeaveScope(p)
  <2>1. at'[p] \in {"release", "leave scope"}
    BY <1>0, <1>7 DEF LeaveBlock, LeaveScope, CallType
  <2> QED
    BY <1>n, <2>1
<1>8. CASE \/ EnterScope(p) \/ ReenterScope(p) \/ InheritScope(p)
           \/ CloseAll(p) \/ Configure(p) \/ Close(p)
  <2>1. at'[p] = "idle"
    BY <1>8 DEF EnterScope, ReenterScope, InheritScope, CloseAll, Configure, Close, CanCall, callVars
  <2> QED
    BY <1>n, <2>1
<1> QED
  BY <1>2, <1>3, <1>4, <1>5, <1>6, <1>7, <1>8 DEF Moves

-----------------------------------------------------------------------------
(***************************************************************************)
(* In-memory databases live on their anchors.                              *)
(***************************************************************************)
LEMMA WritersAreListed ==
    ASSUME Typed, Serve, Apart, Listed, NEW p \in Procs, NEW c \in open,
           (txn[p] # None /\ c = txn[p].conn) \/ (at[p] = "use" /\ c = conn[p])
    PROVE  home[c] \in Bindings /\ c \in owned[home[c]]
<1>0. c \in Conns /\ DatabaseType
  BY DEF Typed, DatabaseType
<1>1. home[c] \in Bindings
  BY <1>0 DEF Listed, OpenListed, DatabaseType
<1>2. ASSUME NEW q \in Procs, conn[q] = c, Hand(q) PROVE FALSE
  <2>1. txn[p] # None /\ c = txn[p].conn => FALSE
    BY <1>2 DEF Apart, HandsApart
  <2>2. txn[p] = None /\ at[p] = "use" /\ c = conn[p]
    BY <2>1, InUseServes
  <2>3. thread[p] \in Caches /\ bind[p] \in Bindings /\ cache[thread[p]][bind[p]] # None
        /\ c = cache[thread[p]][bind[p]].conn
    BY <2>2, InUseServes
  <2> QED
    BY <1>2, <2>3 DEF Apart, CachesApart
<1>3. ~ Unlisted(c)
  BY <1>2 DEF Unlisted, Hand
<1> QED
  BY <1>1, <1>3 DEF Listed, OpenListed

LEMMA AnchorsNext ==
    ASSUME Typed, Serve, Apart, Listed, Anchors, NEW p \in Procs, Moves(p)
    PROVE  Anchors'
<1> SUFFICES ASSUME NEW b \in InMemory, owned'[b] # {} \/ b \in wrote' PROVE anchor'[b]
  BY DEF Anchors
<1>0. b \in Bindings /\ DatabaseType /\ anchor \in [Bindings -> BOOLEAN]
  BY ConnectionsAssumption DEF Typed, DatabaseType, Bindings
<1>1. CASE owned[b] # {} \/ b \in wrote
  <2>1. anchor[b]
    BY <1>1 DEF Anchors
  <2>2. CASE Own(p)
    BY <1>0, <2>1, <2>2 DEF Own, Anchored
  <2>3. CASE EndScope(p) \/ CloseAll(p) \/ Configure(p)
    <3>1. CASE CloseNothing
      BY <2>1, <3>1 DEF CloseNothing
    <3>2. CASE \E d \in Bindings : CloseBinding(d)
      <4>1. PICK d \in Bindings : CloseBinding(d)
        BY <3>2
      <4>2. b # d
        BY <1>0, <4>1 DEF CloseBinding, DatabaseType
      <4> QED
        BY <1>0, <2>1, <4>1, <4>2 DEF CloseBinding
    <3> QED
      BY <2>3, <3>1, <3>2, ClosingSteps
  <2>4. CASE ~ Own(p) /\ ~ EndScope(p) /\ ~ CloseAll(p) /\ ~ Configure(p)
    <3>1. anchor' = anchor
      BY <2>4 DEF Moves, Execute, EnterBlock, Open, Cache, Use, Begin, LeaveBlock, Release, Drops, Shut, OpenFails,
         EnterScope, ReenterScope, InheritScope, LeaveScope, Close, databaseVars
    <3> QED
      BY <2>1, <3>1
  <2> QED
    BY <2>2, <2>3, <2>4
<1>2. CASE owned[b] = {} /\ b \notin wrote /\ owned'[b] # {}
  <2>1. Own(p) /\ b = bind[p]
    BY <1>0, <1>2, OwnedFrom
  <2> QED
    BY <1>0, <2>1 DEF Own, Anchored
<1>3. CASE owned[b] = {} /\ b \notin wrote /\ b \in wrote'
  <2>1. \E c \in open : /\ b = home[c]
                        /\ \/ txn[p] # None /\ c = txn[p].conn
                           \/ at[p] = "use" /\ c = conn[p]
    BY <1>3 DEF Moves, Execute, EnterBlock, Open, Own, Cache, Use, Begin, LeaveBlock, Release, Drops, Shut, OpenFails,
       EnterScope, ReenterScope, InheritScope, LeaveScope, EndScope, CloseAll, Configure, Close,
       CloseBinding, CloseNothing, Written
  <2> QED
    BY <1>3, <2>1, WritersAreListed
<1> QED
  BY <1>1, <1>2, <1>3

LEMMA MemoryNext ==
    ASSUME Typed, Anchors, MemoryKept, NEW p \in Procs, Moves(p)
    PROVE  MemoryKept'
<1>0. InMemory \subseteq Bindings /\ anchor \in [Bindings -> BOOLEAN]
  BY ConnectionsAssumption DEF Typed, DatabaseType, Bindings
<1> USE DEF MemoryKept
<1>1. CASE Drops(p) \/ Close(p)
  <2>1. anchor' = anchor /\ wrote' = wrote /\ rows' = Kept(rows)
    BY <1>1 DEF Drops, Shut, OpenFails, Close, databaseVars
  <2> QED
    BY <2>1 DEF Kept, Anchors
<1>2. CASE EndScope(p) \/ CloseAll(p) \/ Configure(p)
  <2>1. CASE CloseNothing
    BY <2>1 DEF CloseNothing
  <2>2. CASE \E d \in Bindings : CloseBinding(d)
    <3>1. PICK d \in Bindings : CloseBinding(d)
      BY <2>2
    <3>2. ASSUME NEW b \in wrote' PROVE b \in rows'
      <4>1. b \in wrote /\ b # d /\ b \in rows
        BY <3>1, <3>2 DEF CloseBinding
      <4>2. b \in InMemory => anchor'[b]
        BY <1>0, <3>1, <4>1 DEF CloseBinding, Anchors
      <4> QED
        BY <3>1, <4>1, <4>2 DEF CloseBinding, Kept
    <3> QED
      BY <3>2
  <2> QED
    BY <1>2, <2>1, <2>2, ClosingSteps
<1>3. CASE Use(p) \/ LeaveBlock(p)
  BY <1>3 DEF Use, LeaveBlock, Written
<1>4. CASE ~ (\/ Drops(p) \/ Close(p) \/ EndScope(p) \/ CloseAll(p) \/ Configure(p)
              \/ Use(p) \/ LeaveBlock(p))
  <2>1. wrote' = wrote /\ rows' = rows
    BY <1>4 DEF Moves, Execute, EnterBlock, Open, Own, Cache, Begin, Release,
       EnterScope, ReenterScope, InheritScope, LeaveScope
  <2> QED
    BY <2>1
<1> QED
  BY <1>1, <1>2, <1>3, <1>4

-----------------------------------------------------------------------------
(***************************************************************************)
(* The theorems.                                                           *)
(***************************************************************************)
LEMMA InvInit == Init => Inv
<1> SUFFICES ASSUME Init PROVE Inv
  OBVIOUS
<1>0. MaxCalls \in Nat /\ None \notin Bindings /\ \A p \in Procs : thread[p] = None
  BY ConnectionsAssumption, NoneAssumption DEF Init
<1>1. /\ \A p \in Procs : at[p] = "idle" /\ txn[p] = None /\ conn[p] = None /\ bind[p] = None
      /\ \A b \in Bindings : pool[b] = <<>> /\ owned[b] = {}
      /\ \A t \in Caches, b \in Bindings : cache[t][b] = None
      /\ open = {} /\ wrote = {} /\ rows = {}
  BY DEF Init, Caches
<1>2. \A p \in Procs : ~ Hand(p)
  BY <1>1 DEF Hand
<1>3. \A b \in Bindings : \A i \in 1 .. Len(pool[b]) : FALSE
  BY <1>1
<1>4. DatabaseType
  BY DEF Init, DatabaseType, Caches
<1>5. ContextType /\ CallType
  BY <1>0 DEF Init, ContextType, CallType, Steps
<1>6. \A p \in Procs : Placed(p)
  BY <1>0, <1>1, <1>2 DEF Placed
<1>7. ThreadsServeOne
  BY <1>0 DEF ThreadsServeOne
<1>8. Apart
  BY <1>1, <1>2, <1>3 DEF Apart, HandsApart, BlocksApart, PoolsApart, CachesApart
<1>9. Serve
  BY <1>1, <1>2, <1>3 DEF Serve, HandsServe, PoolsServe, CachesServe
<1>10. Listed
  BY <1>1 DEF Listed, OpenListed, OpenLive, ListedOpen
<1>11. BlocksReturn /\ CallsMeant
  BY <1>1 DEF BlocksReturn, CallsMeant, Meant
<1>12. Anchors /\ MemoryKept
  BY <1>1, ConnectionsAssumption DEF Anchors, MemoryKept, Bindings
<1> QED
  BY <1>4, <1>5, <1>6, <1>7, <1>8, <1>9, <1>10, <1>11, <1>12 DEF Inv, Typed

LEMMA InvStutters == Inv /\ UNCHANGED vars => Inv'
<1> SUFFICES ASSUME Inv, UNCHANGED vars PROVE Inv'
  OBVIOUS
<1>1. UNCHANGED <<global, generation, owned, pool, anchor, cache, home, open, rows, scoped, scopes,
                  txn, at, thread, bind, conn, calls, overtaken, stray, hidden, wrote>>
  BY DEF vars, databaseVars, contextVars, callVars
<1>2. DatabaseType' /\ ContextType' /\ CallType'
  BY <1>1 DEF Inv, Typed, DatabaseType, ContextType, CallType
<1>3. \A p \in Procs : Placed(p)'
  BY <1>1 DEF Inv, Typed, Placed, Hand
<1>4. ThreadsServeOne'
  BY <1>1 DEF Inv, Typed, ThreadsServeOne
<1>5. Apart'
  <2>1. Typed /\ Serve /\ Apart /\ None \notin Conns
    BY NoneAssumption DEF Inv
  <2>2. HandsMove(None, "none", None) /\ BlocksMove(None, "none", None)
    BY <1>1, <2>1, SlotsTyped DEF HandsMove, BlocksMove, Hand
  <2>3. PoolsMove(None, "none", None, None) /\ CachesMove(None, "none", None, None)
    BY <1>1, <2>1, SlotsTyped DEF PoolsMove, CachesMove
  <2> QED
    BY <2>1, <2>2, <2>3, OneMoves
<1>8. Serve'
  BY <1>1 DEF Inv, Serve, HandsServe, PoolsServe, CachesServe, Good, Serves, Hand
<1>6. OpenListed' /\ OpenLive'
  BY <1>1 DEF Inv, Listed, OpenListed, OpenLive, Unlisted, Live
<1>7. ListedOpen'
  BY <1>1 DEF Inv, Listed, ListedOpen, Good
<1>9. Listed'
  BY <1>6, <1>7 DEF Listed
<1>10. BlocksReturn' /\ CallsMeant'
  BY <1>1 DEF Inv, BlocksReturn, Returns, ScopeAt, CallsMeant, Meant, BindingOf
<1>11. Anchors' /\ MemoryKept'
  BY <1>1 DEF Inv, Anchors, MemoryKept
<1> QED
  BY <1>2, <1>3, <1>4, <1>5, <1>8, <1>9, <1>10, <1>11 DEF Inv, Typed

LEMMA InvNext == Inv /\ [Next]_vars => Inv'
<1> SUFFICES ASSUME Inv, [Next]_vars PROVE Inv'
  OBVIOUS
<1>1. CASE UNCHANGED vars
  BY <1>1, InvStutters
<1>2. ASSUME NEW p \in Procs, Moves(p) PROVE Inv'
  BY <1>2, TypedNext, ApartNext, ServeNext, ListedNext, BlocksReturnNext, CallsMeantNext,
     AnchorsNext, MemoryNext
     DEF Inv
<1> QED
  BY <1>1, <1>2 DEF Next, Moves, Drops

LEMMA InvHolds == Spec => []Inv
BY InvInit, InvNext, PTL DEF Spec

\* A connection that _connection() or _checkout_txn_conn() hands out is open
\* and is to the database that _binding() names at that moment (to that of the
\* block, for a statement in a scope that was entered inside the block), for any
\* number of threads, tasks, workers, bindings and connections: no order of
\* configure(), close(), close_all() and ends of scopes leaves a closed
\* connection, or one of another binding, where a later call finds it, and
\* every statement of a block has the database its BEGIN had.
THEOREM GivenConnectionsAreOpen == Spec => []GivenIsOpen
<1>1. Inv => GivenIsOpen
  <2> SUFFICES ASSUME Inv, NEW p \in Procs, at[p] \in {"use", "begin"}, conn[p] \notin stray
               PROVE  /\ conn[p] \in open
                      /\ home[conn[p]] = IF ScopeInside(p) THEN BlockBinding(p) ELSE BindingOf(p)
    BY DEF GivenIsOpen
  <2>1. /\ Typed /\ Serve /\ Meant(p) /\ BlockReturns(p) /\ HandReturns(p)
        /\ Placed(p) /\ DatabaseType /\ ContextType /\ CallType
    BY EachReturns DEF Inv, CallsMeant, Typed
  <2>2. conn[p] \in open
    BY <2>1, InUseServes DEF Serve, HandsServe, Good, Hand
  <2>3. CASE at[p] = "use" /\ txn[p] = None
    <3>1. home[conn[p]] = bind[p] /\ BindingOf(p) = bind[p]
      BY <2>1, <2>3, InUseServes DEF Meant
    <3> QED
      BY <2>2, <2>3, <3>1 DEF ScopeInside
  <2>4. CASE at[p] = "use" /\ txn[p] # None
    <3>1. conn[p] = txn[p].conn
      BY <2>1, <2>4, InUseServes
    <3>2. Returns(p, txn[p].depth, home[conn[p]]) /\ txn[p].depth <= Len(scopes[p])
      BY <2>1, <2>4, <3>1 DEF BlockReturns
    <3>3. txn[p].depth \in Nat /\ Len(scopes[p]) \in Nat
      BY <2>1, <2>4, PlacedTyped
    <3>4. CASE txn[p].depth = Len(scopes[p])
      <4>1. ~ ScopeInside(p)
        BY <3>3, <3>4 DEF ScopeInside
      <4>2. home[conn[p]] = BindingOf(p)
        BY <3>2, <3>4 DEF Returns, ScopeAt, BindingOf
      <4> QED
        BY <2>2, <4>1, <4>2
    <3>5. CASE txn[p].depth # Len(scopes[p])
      <4>1. ScopeInside(p)
        BY <2>4, <3>2, <3>3, <3>5 DEF ScopeInside
      <4>2. home[conn[p]] = BlockBinding(p)
        BY <3>2, <3>5 DEF Returns, ScopeAt, BlockBinding
      <4> QED
        BY <2>2, <4>1, <4>2
    <3> QED
      BY <3>4, <3>5
  <2>5. CASE at[p] = "begin"
    <3>1. txn[p] = None /\ Returns(p, Len(scopes[p]), home[conn[p]])
      BY <2>1, <2>5 DEF Placed, HandReturns
    <3>2. home[conn[p]] = BindingOf(p) /\ ~ ScopeInside(p)
      BY <3>1 DEF Returns, ScopeAt, BindingOf, ScopeInside
    <3> QED
      BY <2>2, <3>2
  <2> QED
    BY <2>3, <2>4, <2>5
<1> QED
  BY <1>1, InvHolds, PTL

\* What a live binding lists is what is open of it: releasing to a full pool,
\* closing a thread's connections, reconfiguring and leaving scopes neither
\* forget an open connection nor keep a closed one on the list.
THEOREM ConnectionsAreAccounted == Spec => []ConnectionsAccounted
<1>1. Inv => ConnectionsAccounted
  <2> SUFFICES ASSUME Inv PROVE ConnectionsAccounted
    OBVIOUS
  <2>1. ASSUME NEW c \in open \ stray
        PROVE  \/ Live(home[c]) /\ c \in owned[home[c]]
               \/ \E p \in Procs : conn[p] = c /\ at[p] \in {"own", "own for block", "shut"}
    BY DEF Inv, Listed, OpenListed, OpenLive, Unlisted
  <2>2. ASSUME NEW b \in Bindings PROVE owned[b] \ (stray \cup hidden) \subseteq open
    BY DEF Inv, Listed, ListedOpen, Good
  <2> QED
    BY <2>1, <2>2 DEF ConnectionsAccounted
<1> QED
  BY <1>1, InvHolds, PTL

\* What was committed to an in-memory database is there until its binding is
\* closed: no connection that a thread, a block or a full pool closes is the
\* last one to it.
THEOREM MemoryIsKept == Spec => []MemoryKept
<1>1. Inv => MemoryKept
  BY DEF Inv
<1> QED
  BY <1>1, InvHolds, PTL
=============================================================================
