---------------------------- MODULE ExpiringMap ----------------------------
(***************************************************************************)
(* The promise of the key-value store: a map whose entries may have a      *)
(* deadline, on which every modifying operation takes effect at once, at   *)
(* some moment between its call and its return.  Whether an entry has      *)
(* expired is judged by a clock reading of that interval.  An expired      *)
(* entry is not seen by anybody; it stays around until it is forgotten.    *)
(***************************************************************************)
EXTENDS Naturals

CONSTANTS
    Procs,      \* callers
    Keys,       \* keys, numbers so that they have an order
    None,       \* no entry, no deadline, no value
    Text        \* a value that is no number

VARIABLES
    map,        \* the entry of each key
    clock,      \* the time
    asked,      \* what each caller is waiting for
    answer      \* what it was last told

vars == <<map, clock, asked, answer>>

Entry == [val : Nat \cup {Text}, exp : Nat \cup {None}]

Init ==
    /\ map \in [Keys -> Entry \cup {None}]
    /\ clock = 0
    /\ asked = [p \in Procs |-> None]
    /\ answer = [p \in Procs |-> [how |-> "done", keys |-> {}, val |-> None]]

Alive(t) == {k \in Keys : map[k] # None /\ (map[k].exp = None \/ map[k].exp > t)}
Deadline(t, ttl) == IF ttl = None THEN None ELSE t + ttl

Put(K, v, d) == [k \in Keys |-> IF k \in K THEN [val |-> v, exp |-> d] ELSE map[k]]
Drop(K) == [k \in Keys |-> IF k \in K THEN None ELSE map[k]]
Extend(K, d) == [k \in Keys |-> IF k \in K THEN [map[k] EXCEPT !.exp = d] ELSE map[k]]

Tell(p, m, how, K, v) ==
    /\ map' = m
    /\ answer' = [answer EXCEPT ![p] = [how |-> how, keys |-> K, val |-> v]]
    /\ asked' = [asked EXCEPT ![p] = None]
    /\ UNCHANGED clock

-----------------------------------------------------------------------------
Set(p, c, t) == Tell(p, Put(c.keys, c.val, Deadline(t, c.ttl)), "done", {}, None)

Delete(p, c) ==
    LET there == {k \in c.keys : map[k] # None}
    IN  Tell(p, Drop(there), "done", there, None)

Expire(p, c, t) ==
    LET here == c.keys \cap Alive(t)
    IN  Tell(p, Extend(here, Deadline(t, c.ttl)), "done", here, None)

Purge(p, t) ==
    LET gone == {k \in Keys : map[k] # None /\ k \notin Alive(t)}
    IN  Tell(p, Drop(gone), "done", gone, None)

\* What finds no live entry may forget the expired one it finds.
Missing(p, k, how) == \E m \in {map, Drop({k})} : Tell(p, m, how, {}, None)

Pop(p, c, t) == \E k \in c.keys :
    IF k \in Alive(t)
    THEN Tell(p, Drop({k}), "done", {k}, map[k].val)
    ELSE Missing(p, k, IF c.want = None THEN "missing" ELSE "done")

PopItem(p, t) ==
    \/ Alive(t) = {} /\ Tell(p, map, "missing", {}, None)
    \/ \E k \in Alive(t) :
        /\ \/ \A j \in Alive(t) : j <= k
           \/ \A j \in Alive(t) : j >= k
        /\ Tell(p, Drop({k}), "done", {k}, map[k].val)

SetDefault(p, c, t) == \E k \in c.keys :
    IF k \in Alive(t)
    THEN Tell(p, map, "done", {}, map[k].val)
    ELSE Tell(p, Put({k}, c.val, None), "done", {k}, c.val)

Increment(p, c, t) == \E k \in c.keys :
    LET base == IF k \in Alive(t) THEN map[k].val ELSE 0
    IN  /\ base # Text
        /\ Tell(p, Put({k}, base + c.val, None), "done", {k}, base + c.val)

\* The new deadline counts from a moment of its own.
Swap(p, c, t) == \E k \in c.keys :
    IF k \in Alive(t)
    THEN IF map[k].val = c.want
         THEN \E u \in t .. clock : Tell(p, Put({k}, c.val, Deadline(u, c.ttl)), "done", {k}, c.val)
         ELSE Tell(p, map, "done", {}, None)
    ELSE Missing(p, k, "done")

\* A lookup may forget the entry of the key that it has found expired; but when
\* it does, the key may have a new entry, which goes as well.
Look(p, c) ==
    /\ map' \in {map} \cup {Drop(K) : K \in IF c.op = "get" THEN {c.keys} ELSE {}}
    /\ asked' = [asked EXCEPT ![p] = None]
    /\ UNCHANGED <<clock, answer>>

\* The call raises and nothing has changed.
Fail(p) == Tell(p, map, "error", {}, None)

-----------------------------------------------------------------------------
Call(now) ==
    [op : {"set", "delete", "expire", "purge", "pop", "popitem", "setdefault",
           "increment", "swap", "get", "get_many", "items"},
     keys : SUBSET Keys, val : Nat \cup {Text, None}, want : Nat \cup {Text, None},
     ttl : Nat \cup {None}, since : {now}]

Ask(p) ==
    /\ asked[p] = None
    /\ asked'[p] \in Call(clock)
    /\ asked' = [asked EXCEPT ![p] = asked'[p]]
    /\ UNCHANGED <<map, clock, answer>>

Take(p) ==
    /\ asked[p] # None
    /\ LET c == asked[p]
       IN  \E t \in c.since .. clock :
            \/ c.op = "set" /\ Set(p, c, t)
            \/ c.op = "delete" /\ Delete(p, c)
            \/ c.op = "expire" /\ Expire(p, c, t)
            \/ c.op = "purge" /\ Purge(p, t)
            \/ c.op = "pop" /\ Pop(p, c, t)
            \/ c.op = "popitem" /\ PopItem(p, t)
            \/ c.op = "setdefault" /\ SetDefault(p, c, t)
            \/ c.op = "increment" /\ Increment(p, c, t)
            \/ c.op = "swap" /\ Swap(p, c, t)
            \/ c.op \in {"get", "get_many", "items"} /\ Look(p, c)
            \/ c.op \notin {"get", "get_many", "items"} /\ Fail(p)

Forget ==
    /\ \E K \in SUBSET (Keys \ Alive(clock)) : map' = Drop(K)
    /\ UNCHANGED <<clock, asked, answer>>

Tick == clock' = clock + 1 /\ UNCHANGED <<map, asked, answer>>

Next == Tick \/ Forget \/ \E p \in Procs : Ask(p) \/ Take(p)

Spec == Init /\ [][Next]_vars
=============================================================================
