---------------------------- MODULE KVSingleton ----------------------------
(***************************************************************************)
(* KV, the process-wide KVStore: every KV(...) runs __new__, which returns *)
(* the instance there is or publishes a new one under the lock, and then   *)
(* __init__ on what it got, which does nothing if the object says that it  *)
(* is initialised.  The attributes stand for those __init__ sets one after *)
(* the other.  An __init__ may raise in the middle, and reset() may forget *)
(* the instance at any time.                                               *)
(***************************************************************************)
EXTENDS Naturals

CONSTANTS
    Threads,    \* threads that call KV(...)
    None,       \* no instance, nobody, an attribute that is not set
    Attributes, \* how many attributes __init__ sets
    MaxCalls,   \* bound: calls per thread
    MaxResets   \* bound: resets

\* Objects are numbered as they are made; an instance is made when there is none.
Objects == 1 .. MaxResets + 1

ASSUME NoneAssumption == None \notin Nat \cup Threads \cup (Threads \X Nat)
ASSUME BoundsAssumption ==
    /\ Attributes \in Nat \ {0}
    /\ MaxCalls \in Nat /\ MaxResets \in Nat

VARIABLES
    instance,   \* KV._instance
    lock,       \* KV._lock: its holder
    made,       \* objects made so far
    attr,       \* for each object and attribute, the call whose argument it holds
    initialized,\* _kv_initialized
    pc,         \* where each thread stands
    self,       \* the object its call has got
    next,       \* the attribute its __init__ sets next
    calls,      \* its calls; the last is its current one
    resets      \* resets so far

vars == <<instance, lock, made, attr, initialized, pc, self, next, calls, resets>>

\* A call, by which its arguments are known.
Call == Threads \X (1 .. MaxCalls)
Current(t) == <<t, calls[t]>>

TypeOK ==
    /\ instance \in Objects \cup {None}
    /\ lock \in Threads \cup {None}
    /\ made \in 0 .. MaxResets + 1
    /\ attr \in [Objects -> [1 .. Attributes -> Call \cup {None}]]
    /\ initialized \in [Objects -> BOOLEAN]
    /\ pc \in [Threads -> {"idle", "fast", "take", "lock", "check", "publish", "unlock", "init", "set",
                           "returned", "raised"}]
    /\ self \in [Threads -> Objects \cup {None}]
    /\ next \in [Threads -> 1 .. Attributes + 1]
    /\ calls \in [Threads -> 0 .. MaxCalls]
    /\ resets \in 0 .. MaxResets

Init ==
    /\ instance = None
    /\ lock = None
    /\ made = 0
    /\ attr = [o \in Objects |-> [a \in 1 .. Attributes |-> None]]
    /\ initialized = [o \in Objects |-> FALSE]
    /\ pc = [t \in Threads |-> "idle"]
    /\ self = [t \in Threads |-> None]
    /\ next = [t \in Threads |-> 1]
    /\ calls = [t \in Threads |-> 0]
    /\ resets = 0

Goto(t, l) == pc' = [pc EXCEPT ![t] = l]

-----------------------------------------------------------------------------
(***************************************************************************)
(* __new__.                                                                *)
(***************************************************************************)
New(t) ==
    /\ pc[t] \in {"idle", "returned", "raised"}
    /\ calls[t] < MaxCalls
    /\ calls' = [calls EXCEPT ![t] = @ + 1]
    /\ self' = [self EXCEPT ![t] = None]
    /\ Goto(t, "fast")
    /\ UNCHANGED <<instance, lock, made, attr, initialized, next, resets>>

\* The look without the lock.
FastPath(t) ==
    /\ pc[t] = "fast"
    /\ Goto(t, IF instance = None THEN "lock" ELSE "take")
    /\ UNCHANGED <<instance, lock, made, attr, initialized, self, next, calls, resets>>

\* The second reading of _instance, to return it.  What is no KV is returned as
\* it is, without __init__.
Take(t) ==
    /\ pc[t] = "take"
    /\ self' = [self EXCEPT ![t] = instance]
    /\ Goto(t, IF instance = None THEN "returned" ELSE "init")
    /\ UNCHANGED <<instance, lock, made, attr, initialized, next, calls, resets>>

Acquire(t) ==
    /\ pc[t] = "lock"
    /\ lock = None
    /\ lock' = t
    /\ Goto(t, "check")
    /\ UNCHANGED <<instance, made, attr, initialized, self, next, calls, resets>>

\* Faulty: no second look under the lock.
CheckOnce(t) ==
    /\ pc[t] = "check"
    /\ made <= MaxResets
    /\ Goto(t, "publish")
    /\ UNCHANGED <<instance, lock, made, attr, initialized, self, next, calls, resets>>

DoubleCheck(t) ==
    /\ pc[t] = "check"
    /\ \/ /\ instance # None
          /\ self' = [self EXCEPT ![t] = instance]
          /\ Goto(t, "unlock")
       \/ instance = None /\ Goto(t, "publish") /\ UNCHANGED self
    /\ UNCHANGED <<instance, lock, made, attr, initialized, next, calls, resets>>

Publish(t) ==
    /\ pc[t] = "publish"
    /\ made' = made + 1
    /\ instance' = made'
    /\ self' = [self EXCEPT ![t] = made']
    /\ Goto(t, "unlock")
    /\ UNCHANGED <<lock, attr, initialized, next, calls, resets>>

Release(t) ==
    /\ pc[t] = "unlock"
    /\ lock' = None
    /\ Goto(t, "init")
    /\ UNCHANGED <<instance, made, attr, initialized, self, next, calls, resets>>

-----------------------------------------------------------------------------
(***************************************************************************)
(* __init__.                                                               *)
(***************************************************************************)
BeginInit(t) ==
    /\ pc[t] = "init"
    /\ next' = [next EXCEPT ![t] = 1]
    /\ Goto(t, IF initialized[self[t]] THEN "returned" ELSE "set")
    /\ UNCHANGED <<instance, lock, made, attr, initialized, self, calls, resets>>

SetAttribute(t) ==
    /\ pc[t] = "set"
    /\ next[t] <= Attributes
    /\ attr' = [attr EXCEPT ![self[t]][next[t]] = Current(t)]
    /\ next' = [next EXCEPT ![t] = @ + 1]
    /\ UNCHANGED <<instance, lock, made, initialized, pc, self, calls, resets>>

\* A wrong argument, or the database: the object stays the instance.
InitRaises(t) ==
    /\ pc[t] = "set"
    /\ Goto(t, "raised")
    /\ UNCHANGED <<instance, lock, made, attr, initialized, self, next, calls, resets>>

\* Faulty: says so before it is.
FlagEarly(t) ==
    /\ pc[t] = "set"
    /\ initialized' = [initialized EXCEPT ![self[t]] = TRUE]
    /\ IF next[t] > Attributes THEN Goto(t, "returned") ELSE UNCHANGED pc
    /\ UNCHANGED <<instance, lock, made, attr, self, next, calls, resets>>

Flag(t) ==
    /\ pc[t] = "set"
    /\ next[t] > Attributes
    /\ initialized' = [initialized EXCEPT ![self[t]] = TRUE]
    /\ Goto(t, "returned")
    /\ UNCHANGED <<instance, lock, made, attr, self, next, calls, resets>>

\* reset(), by whoever: under the lock.
Reset ==
    /\ resets < MaxResets
    /\ lock = None
    /\ instance' = None
    /\ resets' = resets + 1
    /\ UNCHANGED <<lock, made, attr, initialized, pc, self, next, calls>>

Finished ==
    /\ \A t \in Threads : pc[t] \in {"returned", "raised"} /\ calls[t] = MaxCalls
    /\ UNCHANGED vars

Next ==
    \/ Reset \/ Finished
    \/ \E t \in Threads :
        \/ New(t) \/ FastPath(t) \/ Take(t) \/ Acquire(t) \/ DoubleCheck(t) \/ Publish(t) \/ Release(t)
        \/ BeginInit(t) \/ SetAttribute(t) \/ InitRaises(t) \/ Flag(t)

Spec == Init /\ [][Next]_vars

-----------------------------------------------------------------------------
(***************************************************************************)
(* Properties.                                                             *)
(***************************************************************************)
\* There is one KV from one reset to the next, whoever makes it: the fast path
\* and the lock let no second one through.
OneInstance == made <= resets + 1

\* A KV that KV(...) has returned is whole, also to a thread that found the
\* instance while another was still at its __init__.
ReturnedIsWhole ==
    \A t \in Threads : pc[t] = "returned" /\ self[t] # None =>
        /\ initialized[self[t]]
        /\ \A a \in 1 .. Attributes : attr[self[t]][a] # None
=============================================================================
