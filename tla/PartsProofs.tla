---------------------------- MODULE PartsProofs ----------------------------
(***************************************************************************)
(* What is proved of the parts that stand by themselves: the instance of   *)
(* KV (KVSingleton), for every number of threads, calls, resets and        *)
(* attributes; the key type of a store (KVKeys), for every set of types    *)
(* and keys; the bound of a prefix query (PrefixBound), for every prefix   *)
(* and every string; the order of models (Toposort), for every graph of    *)
(* references; and bulk_create (BulkCreate), for every list of items.      *)
(***************************************************************************)
EXTENDS KVSingleton, KVKeys, PrefixBound, Toposort, BulkCreate, WellFoundedInduction,
        FiniteSetTheorems, FunctionTheorems, SequenceTheorems, TLAPS

-----------------------------------------------------------------------------
(***************************************************************************)
(* KVSingleton.                                                            *)
(***************************************************************************)
\* The lock is held by the thread that is inside the with statement.
LockHeld ==
    \A t \in Threads : pc[t] \in {"check", "publish", "unlock"} <=> lock = t

\* What DoubleCheck has found is still so when the instance is published.
StillNone == \A t \in Threads : pc[t] = "publish" => instance = None

\* One object more than resets only while there is an instance.
MadeOnce ==
    /\ made <= resets + 1
    /\ instance = None => made <= resets

\* A thread that is under way is at a call.
Called == \A t \in Threads : pc[t] # "idle" => calls[t] # 0

\* __init__ has an object to work on.
HasSelf == \A t \in Threads : pc[t] \in {"unlock", "init", "set"} => self[t] # None

\* The attributes up to the next one are set, by this __init__ or by another.
SetSoFar ==
    \A t \in Threads : pc[t] = "set" =>
        \A a \in 1 .. Attributes : a < next[t] => attr[self[t]][a] # None

Whole == \A o \in Objects : initialized[o] => \A a \in 1 .. Attributes : attr[o][a] # None

ReturnedInitialized ==
    \A t \in Threads : pc[t] = "returned" /\ self[t] # None => initialized[self[t]]

\* Who makes objects, and how many; then what becomes of them.
Making == TypeOK /\ LockHeld /\ StillNone /\ MadeOnce
Filling == Called /\ HasSelf /\ SetSoFar /\ Whole /\ ReturnedInitialized
IInv == Making /\ Filling

-----------------------------------------------------------------------------
\* SetAttribute sets one attribute and no call leaves it unset again.
LEMMA SetAttributeSets ==
  ASSUME IInv, NEW t \in Threads, SetAttribute(t)
  PROVE  /\ attr' \in [Objects -> [1 .. Attributes -> Call \cup {None}]]
         /\ \A o \in Objects : \A a \in 1 .. Attributes : attr[o][a] # None => attr'[o][a] # None
         /\ attr'[self[t]][next[t]] # None
  <1> DEFINE c == Current(t)
  <1>1. self[t] \in Objects /\ next[t] \in 1 .. Attributes
    BY BoundsAssumption DEF IInv, Making, Filling, TypeOK, HasSelf, SetAttribute
  <1>2. c \in Call /\ c # None
    BY BoundsAssumption, NoneAssumption
       DEF IInv, Making, Filling, TypeOK, Called, SetAttribute, Call, Current
  <1>3. attr' = [attr EXCEPT ![self[t]][next[t]] = c]
    BY DEF SetAttribute
  <1>4. attr \in [Objects -> [1 .. Attributes -> Call \cup {None}]]
    BY DEF IInv, Making, TypeOK
  <1> HIDE DEF c
  <1> QED
    BY <1>1, <1>2, <1>3, <1>4

\* Initially.
LEMMA InitIInv == Init => IInv
  BY NoneAssumption, BoundsAssumption
     DEF Init, IInv, Making, Filling, TypeOK, LockHeld, StillNone, MadeOnce, Called, HasSelf,
         SetSoFar, Whole, ReturnedInitialized, Objects, Call

\* One instance is made from one reset to the next, because nobody else can
\* publish or reset between the second look and the publication.
LEMMA MakingKept == IInv /\ [Next]_vars => Making'
  <1> SUFFICES ASSUME IInv, [Next]_vars PROVE Making'
    OBVIOUS
  <1> USE NoneAssumption, BoundsAssumption
      DEF IInv, Making, TypeOK, LockHeld, StillNone, MadeOnce, Goto, Objects
  <1>1. CASE Reset
    BY <1>1 DEF Reset
  <1>2. ASSUME NEW t \in Threads, New(t) PROVE Making'
    <2>1. calls[t] + 1 \in 0 .. MaxCalls
      BY <1>2 DEF New
    <2>2. TypeOK'
      BY <1>2, <2>1 DEF New
    <2>3. (LockHeld /\ StillNone /\ MadeOnce)'
      BY <1>2 DEF New
    <2> QED
      BY <2>2, <2>3
  <1>3. ASSUME NEW t \in Threads, FastPath(t) PROVE Making'
    BY <1>3 DEF FastPath
  <1>4. ASSUME NEW t \in Threads, Take(t) PROVE Making'
    BY <1>4 DEF Take
  <1>5. ASSUME NEW t \in Threads, Acquire(t) PROVE Making'
    BY <1>5 DEF Acquire
  <1>6. ASSUME NEW t \in Threads, DoubleCheck(t) PROVE Making'
    BY <1>6, ZenonT(30) DEF DoubleCheck
  <1>7. ASSUME NEW t \in Threads, Publish(t) PROVE Making'
    BY <1>7 DEF Publish
  <1>8. ASSUME NEW t \in Threads, Release(t) PROVE Making'
    BY <1>8 DEF Release
  <1>9. ASSUME NEW t \in Threads, BeginInit(t) PROVE Making'
    BY <1>9 DEF BeginInit
  <1>10. ASSUME NEW t \in Threads, SetAttribute(t) PROVE Making'
    <2>1. attr' \in [Objects -> [1 .. Attributes -> Call \cup {None}]]
      BY <1>10, SetAttributeSets
    <2>2. next[t] + 1 \in 1 .. Attributes + 1
      BY <1>10 DEF SetAttribute
    <2>3. TypeOK'
      BY <1>10, <2>1, <2>2 DEF SetAttribute
    <2>4. (LockHeld /\ StillNone /\ MadeOnce)'
      BY <1>10 DEF SetAttribute
    <2> QED
      BY <2>3, <2>4
  <1>11. ASSUME NEW t \in Threads, InitRaises(t) PROVE Making'
    BY <1>11 DEF InitRaises
  <1>12. ASSUME NEW t \in Threads, Flag(t) PROVE Making'
    BY <1>12 DEF Flag
  <1>13. CASE UNCHANGED vars
    BY <1>13 DEF vars
  <1> QED
    BY <1>1, <1>2, <1>3, <1>4, <1>5, <1>6, <1>7, <1>8, <1>9, <1>10, <1>11, <1>12, <1>13 DEF Next, Finished

\* Objects are filled before they are returned.
LEMMA FillingKept == IInv /\ [Next]_vars => Filling'
  <1> SUFFICES ASSUME IInv, [Next]_vars PROVE Filling'
    OBVIOUS
  <1> USE NoneAssumption, BoundsAssumption
      DEF IInv, Making, Filling, TypeOK, Called, HasSelf, SetSoFar, Whole, ReturnedInitialized, Goto
  <1>1. CASE Reset
    BY <1>1 DEF Reset
  <1>2. ASSUME NEW t \in Threads, New(t) PROVE Filling'
    BY <1>2 DEF New
  <1>3. ASSUME NEW t \in Threads, FastPath(t) PROVE Filling'
    BY <1>3 DEF FastPath
  <1>4. ASSUME NEW t \in Threads, Take(t) PROVE Filling'
    BY <1>4 DEF Take
  <1>5. ASSUME NEW t \in Threads, Acquire(t) PROVE Filling'
    BY <1>5 DEF Acquire
  <1>6. ASSUME NEW t \in Threads, DoubleCheck(t) PROVE Filling'
    <2>1. /\ pc[t] = "check"
          /\ instance = None => self' = self
          /\ instance # None => self' = [self EXCEPT ![t] = instance] /\ pc' = [pc EXCEPT ![t] = "unlock"]
          /\ \E l \in {"unlock", "publish"} : pc' = [pc EXCEPT ![t] = l]
          /\ UNCHANGED <<instance, lock, made, attr, initialized, next, calls, resets>>
      BY <1>6 DEF DoubleCheck
    <2>2. CASE instance = None
      BY <1>6, <2>2 DEF DoubleCheck
    <2>3. CASE instance # None
      BY <2>1, <2>3
    <2> QED
      BY <2>2, <2>3
  <1>7. ASSUME NEW t \in Threads, Publish(t) PROVE Filling'
    BY <1>7 DEF Publish
  <1>8. ASSUME NEW t \in Threads, Release(t) PROVE Filling'
    BY <1>8 DEF Release
  <1>9. ASSUME NEW t \in Threads, BeginInit(t) PROVE Filling'
    BY <1>9 DEF BeginInit
  <1>10. ASSUME NEW t \in Threads, SetAttribute(t) PROVE Filling'
    <2>1. /\ \A o \in Objects : \A a \in 1 .. Attributes : attr[o][a] # None => attr'[o][a] # None
          /\ attr'[self[t]][next[t]] # None
      BY <1>10, SetAttributeSets
    <2>2. /\ pc[t] = "set" /\ next[t] \in 1 .. Attributes
          /\ next' = [next EXCEPT ![t] = @ + 1]
          /\ UNCHANGED <<initialized, pc, self, calls>>
      BY <1>10 DEF SetAttribute
    <2>3. (Called /\ HasSelf /\ ReturnedInitialized)'
      BY <2>2
    <2>4. Whole'
      BY <2>1, <2>2
    <2>5. ASSUME NEW u \in Threads, pc'[u] = "set", NEW a \in 1 .. Attributes, a < next'[u]
          PROVE  attr'[self'[u]][a] # None
      <3>1. self[u] \in Objects /\ pc[u] = "set"
        BY <2>2, <2>5
      <3>2. CASE a < next[u]
        BY <2>1, <2>2, <3>1, <3>2
      <3>3. CASE ~(a < next[u])
        <4>1. u = t /\ a = next[t]
          BY <2>2, <2>5, <3>3
        <4> QED
          BY <2>1, <2>2, <4>1
      <3> QED
        BY <3>2, <3>3
    <2> QED
      BY <2>3, <2>4, <2>5
  <1>11. ASSUME NEW t \in Threads, InitRaises(t) PROVE Filling'
    BY <1>11 DEF InitRaises
  <1>12. ASSUME NEW t \in Threads, Flag(t) PROVE Filling'
    BY <1>12 DEF Flag
  <1>13. CASE UNCHANGED vars
    BY <1>13 DEF vars
  <1> QED
    BY <1>1, <1>2, <1>3, <1>4, <1>5, <1>6, <1>7, <1>8, <1>9, <1>10, <1>11, <1>12, <1>13 DEF Next, Finished

\* The invariant always holds.
LEMMA Invariant == Spec => []IInv
  <1>1. IInv /\ [Next]_vars => IInv'
    BY MakingKept, FillingKept DEF IInv
  <1> QED
    BY InitIInv, <1>1, PTL DEF Spec

-----------------------------------------------------------------------------
\* However many threads call KV(...) at once, and whatever fails, no two objects
\* are made between two resets.
THEOREM OneInstanceOnly == Spec => []OneInstance
  <1>1. IInv => OneInstance
    BY DEF IInv, Making, MadeOnce, OneInstance
  <1> QED
    BY Invariant, <1>1, PTL

\* No KV(...) returns an object some attribute of which has not been set.
THEOREM ReturnsWholeObjects == Spec => []ReturnedIsWhole
  <1>1. IInv => ReturnedIsWhole
    BY DEF IInv, Making, Filling, TypeOK, Whole, ReturnedInitialized, ReturnedIsWhole
  <1> QED
    BY Invariant, <1>1, PTL

-----------------------------------------------------------------------------
(***************************************************************************)
(* KVKeys.  The type of an object that enforces one is that of all rows;   *)
(* an object without one has found no rows, and nobody else adds any.      *)
(***************************************************************************)
\* There is one KVStore object on the namespace.
Alone == \A s, r \in Stores : s = r

RowsOfType(s) ==
    state[s] \in {"open", "call"} /\ mode[s].enforce =>
        /\ resolved[s] = NoType => stored = {}
        /\ resolved[s] # NoType => FormatsIn(stored) \subseteq {resolved[s]}

\* What it is going to write is of that type.
KeyOfType(s) ==
    state[s] = "call" =>
        /\ key[s] \in Key
        /\ mode[s].enforce => resolved[s] # NoType /\ key[s].format = resolved[s]

KeysInv ==
    /\ stored \subseteq Key
    /\ state = [s \in Stores |-> state[s]] /\ resolved = [s \in Stores |-> resolved[s]]
    /\ mode = [s \in Stores |-> mode[s]] /\ key = [s \in Stores |-> key[s]]
    /\ \A s \in Stores : RowsOfType(s) /\ KeyOfType(s)

LEMMA KeysInit == StartKeys => KeysInv
BY DEF StartKeys, KeysInv, RowsOfType, KeyOfType

LEMMA LoadFinds ==
    ASSUME KeysInv, NEW s \in Stores, Load(s)
    PROVE  /\ resolved' = [r \in Stores |-> resolved'[r]]
           /\ resolved'[s] # NoType => FormatsIn(stored) \subseteq {resolved'[s]}
           /\ resolved'[s] = NoType => stored = {}
BY TypesAssumption DEF KeysInv, Load, FormatsIn

LEMMA KeysKept ==
    ASSUME Alone, KeysInv, [UseKeys]_keyVars
    PROVE  KeysInv'
<1> USE DEF KeysInv, RowsOfType, KeyOfType, Becomes
<1>1. ASSUME NEW s \in Stores, Construct(s) PROVE KeysInv'
  BY <1>1 DEF Construct
<1>2. ASSUME NEW s \in Stores, Open(s) PROVE KeysInv'
  BY <1>2, LoadFinds DEF Open, Alone
<1>3. ASSUME NEW s \in Stores, Discard(s) PROVE KeysInv'
  BY <1>3 DEF Discard
<1>4. ASSUME NEW s \in Stores, RangeQuery(s) PROVE KeysInv'
  BY <1>4, LoadFinds DEF RangeQuery, Alone
<1>5. ASSUME NEW s \in Stores, EncodeKey(s) PROVE KeysInv'
  <2>1. PICK k \in Key : Encode(s, k) /\ key' = [key EXCEPT ![s] = k]
    BY <1>5 DEF EncodeKey
  <2>2. state[s] = "open" /\ state' = [state EXCEPT ![s] = "call"] /\ UNCHANGED <<stored, mode>>
    BY <1>5 DEF EncodeKey
  <2>3. /\ resolved' = [r \in Stores |-> resolved'[r]]
        /\ ~mode[s].enforce => UNCHANGED resolved
        /\ mode[s].enforce =>
              /\ resolved'[s] = k.format /\ k.format # NoType
              /\ FormatsIn(stored) \subseteq {k.format}
    BY <2>1, <2>2, TypesAssumption DEF Encode, FormatsIn
  <2> QED
    BY <2>1, <2>2, <2>3 DEF Alone
<1>6. ASSUME NEW s \in Stores, Send(s) PROVE KeysInv'
  <2>1. stored' \in {stored, stored \cup {key[s]}, stored \ {key[s]}} /\ key[s] \in Key
    BY <1>6 DEF Send
  <2>2. state[s] = "call" /\ state' = [state EXCEPT ![s] = "open"] /\ UNCHANGED <<mode, resolved>>
        /\ key' = [key EXCEPT ![s] = NoType]
    BY <1>6 DEF Send
  <2>3. mode[s].enforce =>
            resolved[s] # NoType /\ FormatsIn(stored') \subseteq {resolved[s]}
    BY <2>1, <2>2 DEF FormatsIn
  <2>4. stored' \subseteq Key
    BY <2>1
  <2> QED
    BY <2>2, <2>3, <2>4 DEF Alone
<1>7. ASSUME NEW s \in Stores, Clear(s) PROVE KeysInv'
  BY <1>7 DEF Clear, FormatsIn, Alone
<1>8. CASE UNCHANGED keyVars
  BY <1>8 DEF keyVars
<1> QED
  BY <1>1, <1>2, <1>3, <1>4, <1>5, <1>6, <1>7, <1>8 DEF UseKeys

\* keys(), items() and range() of a store that enforces a key type select the rows
\* of that type, and these are all: as long as the object is alone on its
\* namespace, and in whatever modes those before it were opened.
THEOREM AllKeysAreShown ==
    ASSUME Alone
    PROVE  KeysSpec => []NothingHidden
<1>1. KeysInv => NothingHidden
  BY DEF KeysInv, RowsOfType, NothingHidden
<1> QED
  BY <1>1, KeysInit, KeysKept, PTL DEF KeysSpec

-----------------------------------------------------------------------------
(***************************************************************************)
(* PrefixBound.  A string that does not start with the prefix differs from *)
(* it at a first place.  There it is below the prefix, or above all that   *)
(* start with it, and so not below the bound.                              *)
(***************************************************************************)
LEMMA Least ==
    ASSUME NEW T, T \subseteq Nat, T # {}
    PROVE  \E m \in T : \A n \in T : m <= n
<1>1. PICK m \in T : \A n \in T : ~(<<n, m>> \in OpToRel(<, Nat))
  BY NatLessThanWellFounded, WFMin
<1>2. \A n \in T : ~(n < m)
  BY <1>1 DEF OpToRel
<1> QED
  BY <1>2

LEMMA SameStart ==
    ASSUME NEW s \in Seq(Nat), NEW t \in Seq(Nat), NEW n \in Nat, n <= Len(s), n <= Len(t)
    PROVE  SubSeq(s, 1, n) = SubSeq(t, 1, n) <=> \A j \in 1 .. n : s[j] = t[j]
<1>1. /\ SubSeq(s, 1, n) = [j \in 1 .. n |-> s[j]]
      /\ SubSeq(t, 1, n) = [j \in 1 .. n |-> t[j]]
  OBVIOUS
<1> QED
  BY <1>1

LEMMA PrefixMeans ==
    ASSUME NEW s \in Seq(Nat), NEW t \in Seq(Nat)
    PROVE  IsPrefix(s, t) <=> Len(s) <= Len(t) /\ \A j \in 1 .. Len(s) : s[j] = t[j]
BY SameStart DEF IsPrefix

LEMMA BelowMeans ==
    ASSUME NEW s \in Seq(Nat), NEW t \in Seq(Nat)
    PROVE  Below(s, t) <=>
                \E n \in 0 .. Len(s) : /\ n < Len(t)
                                       /\ \A j \in 1 .. n : s[j] = t[j]
                                       /\ n < Len(s) => s[n + 1] < t[n + 1]
<1>1. \A n \in 0 .. Len(s) : n < Len(t) =>
            (SubSeq(s, 1, n) = SubSeq(t, 1, n) <=> \A j \in 1 .. n : s[j] = t[j])
  BY SameStart
<1> QED
  BY <1>1 DEF Below

LEMMA FirstDifference ==
    ASSUME NEW p \in Seq(Nat), NEW s \in Seq(Nat), ~IsPrefix(p, s)
    PROVE  \E n \in 0 .. Len(s) : /\ n < Len(p)
                                  /\ \A j \in 1 .. n : s[j] = p[j]
                                  /\ n < Len(s) => s[n + 1] # p[n + 1]
<1> DEFINE Differ == {n \in Nat : n < Len(p) /\ (n < Len(s) => s[n + 1] # p[n + 1])}
<1>1. Differ # {}
  <2>1. CASE Len(s) < Len(p)
    BY <2>1
  <2>2. CASE Len(p) <= Len(s)
    <3>1. PICK j \in 1 .. Len(p) : s[j] # p[j]
      BY <2>2, PrefixMeans
    <3>2. j - 1 \in Differ
      BY <3>1, <2>2
    <3> QED
      BY <3>2
  <2> QED
    BY <2>1, <2>2
<1>2. PICK n \in Differ : \A m \in Differ : n <= m
  BY <1>1, Least
<1>3. \A m \in Nat : m < n => m < Len(s) /\ s[m + 1] = p[m + 1]
  <2> SUFFICES ASSUME NEW m \in Nat, m < n PROVE m < Len(s) /\ s[m + 1] = p[m + 1]
    OBVIOUS
  <2>1. m \notin Differ
    BY <1>2
  <2>2. n \in Nat /\ n < Len(p) /\ Len(p) \in Nat
    BY <1>2
  <2> QED
    BY <2>1, <2>2
<1>4. n <= Len(s)
  BY <1>3
<1>5. \A j \in 1 .. n : s[j] = p[j]
  <2> SUFFICES ASSUME NEW j \in 1 .. n PROVE s[j] = p[j]
    OBVIOUS
  <2>1. j - 1 \in Nat /\ j - 1 < n /\ (j - 1) + 1 = j
    OBVIOUS
  <2> QED
    BY <2>1, <1>3
<1> QED
  BY <1>4, <1>5

\* What _prefix_upper returns: the character at k is replaced by the next one,
\* and those behind it have none.
Incremented(p, k, u) ==
    /\ k \in 1 .. Len(p) /\ \A j \in k + 1 .. Len(p) : p[j] = MaxCode
    /\ u \in Seq(Nat) /\ Len(u) = k /\ \A j \in 1 .. k - 1 : u[j] = p[j]
    /\ p[k] < u[k] /\ \A x \in Chars : p[k] < x => u[k] <= x

LEMMA BoundOfPrefix ==
    ASSUME NEW p \in Seq(Chars), NEW s \in Seq(Chars),
           NEW k, NEW u, Incremented(p, k, u)
    PROVE  IsPrefix(p, s) <=> ~Below(s, p) /\ Below(s, u)
<1>1. p \in Seq(Nat) /\ s \in Seq(Nat) /\ u \in Seq(Nat)
  BY DEF Incremented, Chars
<1>2. Len(p) \in Nat /\ Len(s) \in Nat /\ k \in 1 .. Len(p) /\ Len(u) = k
  BY DEF Incremented
<1>3. \A j \in 1 .. Len(p) : p[j] \in Nat
  BY <1>1
<1>4. \A j \in 1 .. Len(s) : s[j] \in Chars /\ s[j] \in Nat /\ s[j] <= MaxCode
  BY CodesAssumption DEF Chars
<1>5. \A j \in 1 .. k : u[j] \in Nat
  <2>1. \A j \in 1 .. Len(u) : u[j] \in Nat
    BY <1>1
  <2> QED
    BY <2>1, <1>2
<1>6. \A j \in 1 .. k - 1 : u[j] = p[j]
  BY DEF Incremented
<1>7. p[k] < u[k] /\ (\A x \in Chars : p[k] < x => u[k] <= x)
      /\ \A j \in k + 1 .. Len(p) : p[j] = MaxCode
  BY DEF Incremented
<1>8. ASSUME IsPrefix(p, s) PROVE ~Below(s, p) /\ Below(s, u)
  <2>1. Len(p) <= Len(s) /\ \A j \in 1 .. Len(p) : p[j] = s[j]
    BY <1>1, <1>8, PrefixMeans
  <2>2. ~Below(s, p)
    <3>1. ASSUME NEW n \in 0 .. Len(s), n < Len(p), n < Len(s) => s[n + 1] < p[n + 1] PROVE FALSE
      <4>1. n + 1 \in 1 .. Len(p) /\ n < Len(s)
        BY <3>1, <2>1, <1>2
      <4>2. p[n + 1] = s[n + 1] /\ p[n + 1] \in Nat /\ s[n + 1] < p[n + 1]
        BY <3>1, <4>1, <2>1, <1>3
      <4> QED
        BY <4>2
    <3> QED
      BY <3>1, <1>1, BelowMeans
  <2>3. Below(s, u)
    <3>1. k - 1 \in 0 .. Len(s) /\ k - 1 < Len(u) /\ (k - 1) + 1 = k
      BY <2>1, <1>2
    <3>2. \A j \in 1 .. k - 1 : s[j] = u[j]
      BY <2>1, <1>2, <1>6
    <3>3. s[(k - 1) + 1] < u[(k - 1) + 1]
      BY <2>1, <1>2, <1>7, <3>1
    <3> QED
      BY <3>1, <3>2, <3>3, <1>1, BelowMeans
  <2> QED
    BY <2>2, <2>3
<1>9. ASSUME ~IsPrefix(p, s), ~Below(s, p), Below(s, u) PROVE FALSE
  <2>1. PICK n \in 0 .. Len(s) : /\ n < Len(p)
                                 /\ \A j \in 1 .. n : s[j] = p[j]
                                 /\ n < Len(s) => s[n + 1] # p[n + 1]
    BY <1>1, <1>9, FirstDifference
  <2>2. ~(n < Len(s) => s[n + 1] < p[n + 1])
    BY <2>1, <1>1, <1>9, BelowMeans
  <2> DEFINE h == n + 1
  <2>3. h \in 1 .. Len(s) /\ h \in 1 .. Len(p) /\ n < Len(s)
    BY <2>1, <2>2, <1>2
  <2>4. s[h] \in Nat /\ s[h] \in Chars /\ s[h] <= MaxCode /\ p[h] \in Nat
    BY <2>3, <1>3, <1>4
  <2>5. p[h] < s[h]
    BY <2>1, <2>2, <2>4
  <2>6. h <= k
    <3>1. ASSUME h > k PROVE FALSE
      <4>1. p[h] = MaxCode
        BY <3>1, <2>3, <1>2, <1>7
      <4> QED
        BY <4>1, <2>4, <2>5, CodesAssumption
    <3> QED
      BY <3>1, <2>3, <1>2
  <2>7. u[h] \in Nat
    BY <2>3, <2>6, <1>5
  <2>8. PICK m \in 0 .. Len(s) : /\ m < Len(u)
                                 /\ \A j \in 1 .. m : s[j] = u[j]
                                 /\ m < Len(s) => s[m + 1] < u[m + 1]
    BY <1>1, <1>9, BelowMeans
  <2>9. CASE m < n
    <3>1. m + 1 \in 1 .. n /\ m + 1 \in 1 .. k - 1 /\ m + 1 \in 1 .. Len(s) /\ m < Len(s)
      BY <2>3, <2>6, <2>9, <1>2
    <3>2. s[m + 1] = u[m + 1] /\ s[m + 1] < u[m + 1] /\ s[m + 1] \in Nat
      BY <3>1, <2>1, <2>8, <1>4, <1>6
    <3> QED
      BY <3>2
  <2>10. CASE m >= n
    <3>1. s[h] <= u[h]
      <4>1. CASE m = n
        BY <4>1, <2>3, <2>4, <2>7, <2>8
      <4>2. CASE m > n
        <5>1. h \in 1 .. m
          BY <4>2
        <5> QED
          BY <5>1, <2>4, <2>7, <2>8
      <4> QED
        BY <4>1, <4>2, <2>10
    <3>2. CASE h < k
      <4>1. u[h] = p[h]
        BY <3>2, <2>3, <1>2, <1>6
      <4> QED
        BY <4>1, <3>1, <2>4, <2>5
    <3>3. CASE h = k
      <4>1. m = n
        BY <3>3, <2>8, <2>10, <1>2
      <4>2. s[h] < u[h]
        BY <4>1, <2>3, <2>8
      <4>3. u[h] <= s[h]
        BY <3>3, <2>4, <2>5, <1>7
      <4> QED
        BY <4>2, <4>3, <2>4, <2>7
    <3> QED
      BY <3>2, <3>3, <2>3, <2>6, <1>2
  <2> QED
    BY <2>9, <2>10
<1> QED
  BY <1>8, <1>9

\* A prefix of nothing but the largest code point: no string that does not start
\* with it is above it.
LEMMA NothingIsAbove ==
    ASSUME NEW p \in Seq(Chars), NEW s \in Seq(Chars),
           \A j \in 1 .. Len(p) : p[j] = MaxCode
    PROVE  IsPrefix(p, s) <=> ~Below(s, p)
<1>1. p \in Seq(Nat) /\ s \in Seq(Nat) /\ Len(p) \in Nat /\ Len(s) \in Nat
  BY DEF Chars
<1>2. \A j \in 1 .. Len(s) : s[j] \in Nat /\ s[j] <= MaxCode
  BY CodesAssumption DEF Chars
<1>3. ASSUME IsPrefix(p, s), NEW n \in 0 .. Len(s), n < Len(p), n < Len(s) => s[n + 1] < p[n + 1]
      PROVE  FALSE
  <2>1. Len(p) <= Len(s) /\ \A j \in 1 .. Len(p) : p[j] = s[j]
    BY <1>1, <1>3, PrefixMeans
  <2>2. n + 1 \in 1 .. Len(p) /\ n + 1 \in 1 .. Len(s) /\ n < Len(s)
    BY <2>1, <1>1, <1>3
  <2>3. p[n + 1] = s[n + 1] /\ s[n + 1] \in Nat /\ s[n + 1] < p[n + 1]
    BY <2>1, <2>2, <1>2, <1>3
  <2> QED
    BY <2>3
<1>4. ASSUME ~IsPrefix(p, s) PROVE Below(s, p)
  <2>1. PICK n \in 0 .. Len(s) : /\ n < Len(p)
                                 /\ \A j \in 1 .. n : s[j] = p[j]
                                 /\ n < Len(s) => s[n + 1] # p[n + 1]
    BY <1>1, <1>4, FirstDifference
  <2>2. n < Len(s) => s[n + 1] < p[n + 1]
    <3> SUFFICES ASSUME n < Len(s) PROVE s[n + 1] < p[n + 1]
      OBVIOUS
    <3>1. n + 1 \in 1 .. Len(p) /\ n + 1 \in 1 .. Len(s)
      BY <2>1, <1>1
    <3>2. p[n + 1] = MaxCode /\ s[n + 1] \in Nat /\ s[n + 1] <= MaxCode /\ s[n + 1] # p[n + 1]
      BY <3>1, <2>1, <1>2
    <3> QED
      BY <3>2, CodesAssumption
  <2> QED
    BY <2>1, <2>2, <1>1, BelowMeans
<1> QED
  BY <1>1, <1>3, <1>4, BelowMeans

BoundInv ==
    /\ prefix \in Seq(Chars)
    /\ i \in 0 .. Len(prefix) /\ \A j \in i + 1 .. Len(prefix) : prefix[j] = MaxCode
    /\ returned \in BOOLEAN
    /\ ~returned => upper = NoBound
    /\ returned =>
        \/ i = 0 /\ upper = NoBound
        \/ /\ i > 0 /\ prefix[i] < MaxCode
           /\ upper = Append(SubSeq(prefix, 1, i - 1), Successor(prefix[i]))

LEMMA Strings ==
    ASSUME NEW S, NEW n, NEW s \in BoundedSeq(S, n)
    PROVE  s \in Seq(S)
BY DEF BoundedSeq, SeqOf

LEMMA BoundNext ==
    ASSUME BoundInv, [FindBound]_prefixVars
    PROVE  BoundInv'
<1> USE DEF BoundInv
<1>1. CASE Carry  BY <1>1 DEF Carry
<1>2. CASE Return  BY <1>2 DEF Return
<1>3. CASE Unbounded  BY <1>3 DEF Unbounded
<1>4. CASE UNCHANGED prefixVars  BY <1>4 DEF prefixVars
<1> QED
  BY <1>1, <1>2, <1>3, <1>4 DEF FindBound, Done

LEMMA Exact ==
    ASSUME BoundInv
    PROVE  BoundIsExact
<1> DEFINE Strings1 == BoundedSeq(Chars, MaxLen + 1)
<1> SUFFICES ASSUME returned
             PROVE  /\ upper # NoBound => upper \in Seq(Chars)
                    /\ \A s \in Strings1 :
                        IsPrefix(prefix, s) <=> /\ ~Below(s, prefix)
                                                /\ upper # NoBound => Below(s, upper)
  BY DEF BoundIsExact
<1>1. \A s \in Strings1 : s \in Seq(Chars)
  BY Strings
<1> HIDE DEF Strings1
<1>2. CASE upper = NoBound
  <2>1. i = 0
    <3>1. ASSUME i > 0, prefix[i] < MaxCode,
                 upper = Append(SubSeq(prefix, 1, i - 1), Successor(prefix[i]))
          PROVE  FALSE
      <4>1. SubSeq(prefix, 1, i - 1) \in Seq(Nat) /\ Successor(prefix[i]) \in Nat
        BY <3>1, CodesAssumption DEF BoundInv, Chars, Successor
      <4>2. \A q \in Seq(Nat), x \in Nat : Append(q, x) \in Seq(Nat)
        OBVIOUS
      <4>3. upper \in Seq(Nat)
        BY <4>1, <4>2, <3>1
      <4> QED
        BY <4>3, <1>2, NoBoundAssumption
    <3> QED
      BY <3>1 DEF BoundInv
  <2>2. prefix \in Seq(Chars) /\ \A j \in 1 .. Len(prefix) : prefix[j] = MaxCode
    BY <2>1 DEF BoundInv
  <2> QED
    BY <1>1, <1>2, <2>2, NothingIsAbove
<1>3. CASE upper # NoBound
  <2> DEFINE c == Successor(prefix[i])
  <2>1. /\ prefix \in Seq(Chars) /\ i \in 1 .. Len(prefix) /\ prefix[i] < MaxCode
        /\ \A j \in i + 1 .. Len(prefix) : prefix[j] = MaxCode
        /\ upper = Append(SubSeq(prefix, 1, i - 1), c)
    BY <1>3 DEF BoundInv
  <2>2. prefix[i] \in Chars
    BY <2>1
  <2>3. /\ c \in Chars /\ c \in Nat /\ prefix[i] < c
        /\ \A x \in Chars : prefix[i] < x => c <= x
    BY <2>1, <2>2, CodesAssumption DEF Successor, Chars, Surrogates
  <2> HIDE DEF c
  <2>4. SubSeq(prefix, 1, i - 1) = [j \in 1 .. i - 1 |-> prefix[j]]
    BY <2>1
  <2>5. /\ upper \in Seq(Chars) /\ upper \in Seq(Nat)
        /\ Len(upper) = i /\ upper[i] = c /\ \A j \in 1 .. i - 1 : upper[j] = prefix[j]
    <3>1. SubSeq(prefix, 1, i - 1) \in Seq(Chars) /\ Len(SubSeq(prefix, 1, i - 1)) = i - 1
      BY <2>1
    <3>2. upper \in Seq(Chars) /\ Len(upper) = i /\ upper[i] = c
      BY <2>1, <2>3, <3>1
    <3>3. \A j \in 1 .. i - 1 : upper[j] = prefix[j]
      BY <2>1, <2>3, <2>4, <3>1
    <3>4. upper \in Seq(Nat)
      <4>1. SubSeq(prefix, 1, i - 1) \in Seq(Nat)
        <5>1. prefix \in Seq(Nat)
          BY <2>1 DEF Chars
        <5> QED
          BY <2>1, <5>1
      <4> QED
        BY <4>1, <2>1, <2>3
    <3> QED
      BY <3>2, <3>3, <3>4
  <2> QED
    <3> SUFFICES ASSUME NEW s \in Strings1
                 PROVE  IsPrefix(prefix, s) <=> ~Below(s, prefix) /\ Below(s, upper)
      BY <1>3, <2>5
    <3>1. s \in Seq(Chars)
      BY <1>1
    <3>2. Incremented(prefix, i, upper)
      BY <2>1, <2>3, <2>5 DEF Incremented
    <3> QED
      BY <3>1, <3>2, <2>1, BoundOfPrefix
<1> QED
  BY <1>2, <1>3

\* prefix <= key < _prefix_upper(prefix) is what startswith says, for every string
\* and every prefix: the bound skips the surrogates, and there is none only for
\* a prefix that nothing else can be above.
THEOREM PrefixQueriesAreExact == BoundSpec => []BoundIsExact
<1>1. StartBound => BoundInv
  <2> SUFFICES ASSUME StartBound PROVE BoundInv
    OBVIOUS
  <2>1. prefix \in Seq(Chars)
    BY Strings DEF StartBound
  <2>2. i = Len(prefix) /\ Len(prefix) \in Nat
    BY <2>1 DEF StartBound
  <2>3. i \in 0 .. Len(prefix) /\ \A j \in i + 1 .. Len(prefix) : prefix[j] = MaxCode
    BY <2>2
  <2> QED
    BY <2>1, <2>3, Zenon DEF StartBound, BoundInv
<1> QED
  BY <1>1, BoundNext, Exact, PTL DEF BoundSpec
-----------------------------------------------------------------------------
(***************************************************************************)
(* Lists without repetitions.                                              *)
(***************************************************************************)
Once(s) == \A h, k \in DOMAIN s : h # k => s[h] # s[k]

LEMMA ListTyped == ASSUME NEW S, NEW s \in Seq(S)
                   PROVE  /\ Len(s) \in Nat /\ DOMAIN s = 1 .. Len(s) /\ s \in [1 .. Len(s) -> S]
                          /\ Range(s) \subseteq S
                          /\ \A k \in DOMAIN s : s[k] \in S /\ s[k] \in Range(s) /\ k \in Nat \ {0}
BY LenProperties DEF Range

LEMMA Appended ==
    ASSUME NEW S, NEW s \in Seq(S), NEW e \in S
    PROVE  /\ Append(s, e) \in Seq(S) /\ DOMAIN Append(s, e) = 1 .. Len(s) + 1
           /\ Append(s, e)[Len(s) + 1] = e /\ \A k \in 1 .. Len(s) : Append(s, e)[k] = s[k]
           /\ Range(Append(s, e)) = Range(s) \cup {e}
<1>1. /\ Append(s, e) \in Seq(S) /\ Len(Append(s, e)) = Len(s) + 1 /\ Append(s, e)[Len(s) + 1] = e
      /\ \A k \in 1 .. Len(s) : Append(s, e)[k] = s[k]
  BY AppendProperties
<1>2. Len(s) \in Nat /\ DOMAIN s = 1 .. Len(s) /\ DOMAIN Append(s, e) = 1 .. Len(s) + 1
  BY <1>1, ListTyped
<1>3. Range(Append(s, e)) = Range(s) \cup {e}
  BY <1>1, <1>2 DEF Range
<1> QED
  BY <1>1, <1>2, <1>3

LEMMA AppendedOnce ==
    ASSUME NEW S, NEW s \in Seq(S), NEW e \in S, Once(s), e \notin Range(s)
    PROVE  Once(Append(s, e))
<1>1. PICK n \in Nat : n = Len(s)
  BY ListTyped
<1>2. DOMAIN s = 1 .. n /\ \A k \in 1 .. n : s[k] # e
  BY <1>1, ListTyped
<1>3. /\ DOMAIN Append(s, e) = 1 .. n + 1 /\ Append(s, e)[n + 1] = e
      /\ \A k \in 1 .. n : Append(s, e)[k] = s[k]
  BY <1>1, Appended
<1>4. \A k \in 1 .. n + 1 : k \in 1 .. n \/ k = n + 1
  OBVIOUS
<1> QED
  BY <1>2, <1>3, <1>4 DEF Once

LEMMA OnceCounts ==
    ASSUME NEW n \in Nat, NEW s \in Seq(1 .. n), Once(s), Range(s) = 1 .. n
    PROVE  Len(s) = n
<1>1. Len(s) \in Nat /\ DOMAIN s = 1 .. Len(s) /\ s \in [1 .. Len(s) -> 1 .. n]
  BY ListTyped
<1>2. s \in Injection(1 .. Len(s), 1 .. n)
  BY <1>1 DEF Once, Injection, IsInjective
<1>3. s \in Surjection(1 .. Len(s), 1 .. n)
  BY <1>1 DEF Surjection, Range
<1>4. IsFiniteSet(1 .. n) /\ Cardinality(1 .. n) = n
  BY FS_Interval
<1>5. Cardinality(1 .. Len(s)) = Len(s)
  <2>1. PICK l \in Nat : l = Len(s)
    BY <1>1
  <2>2. Cardinality(1 .. l) = l
    BY FS_Interval
  <2> QED
    BY <2>1, <2>2
<1>6. Cardinality(1 .. Len(s)) = Cardinality(1 .. n)
  BY <1>2, <1>3, <1>4, FS_Injection
<1> QED
  BY <1>4, <1>5, <1>6

-----------------------------------------------------------------------------
(***************************************************************************)
(* Toposort.  As long as models are ready, those in order have all their   *)
(* targets before them, and so none of them is behind a circle; those that *)
(* are left when no model is ready all are.                                *)
(***************************************************************************)
\* The targets of each model in the list o stand before it.
TargetsBefore(o, k) == \A m \in refs[o[k]] : \E h \in DOMAIN o : h < k /\ o[h] = m

Taking ==
    /\ \A m \in Models : waitsFor[m] = refs[m] \ Range(order)
    /\ \A m \in Models \ Range(order) : waitsFor[m] = {} <=> m \in ready
    /\ \A k \in DOMAIN order : TargetsBefore(order, k)

Falling == ready = {} /\ \A m \in Models \ Range(order) : BehindCircle(m)

InOrder ==
    /\ \A k \in DOMAIN order : ~BehindCircle(order[k]) => TargetsBefore(order, k)
    /\ \A h, k \in DOMAIN order : BehindCircle(order[h]) /\ ~BehindCircle(order[k]) => k < h

SortInv ==
    /\ refs \in [Models -> SUBSET Models] /\ waitsFor \in [Models -> SUBSET Models]
    /\ order \in Seq(Models) /\ Once(order)
    /\ ready \subseteq Models /\ ready \cap Range(order) = {}
    /\ Taking \/ Falling
    /\ InOrder
    /\ sorted \in BOOLEAN /\ (sorted => Range(order) = Models)

LEMMA MinIs == ASSUME NEW T, T \subseteq Nat, T # {} PROVE Min(T) \in T
<1>1. \E m \in T : \A n \in T : m <= n
  BY Least
<1> QED
  BY <1>1 DEF Min

LEMMA ModelsAreNumbers == Models \subseteq Nat
BY ModelsAssumption DEF Models

LEMMA SortInit == StartSort => SortInv
<1> SUFFICES ASSUME StartSort PROVE SortInv
  OBVIOUS
<1>1. order = <<>> /\ DOMAIN order = {} /\ Range(order) = {} /\ order \in Seq(Models)
  BY DEF StartSort, Range
<1>2. Once(order) /\ InOrder
  BY <1>1 DEF Once, InOrder
<1>3. Taking
  BY <1>1 DEF StartSort, Taking
<1> QED
  BY <1>1, <1>2, <1>3 DEF StartSort, SortInv

LEMMA CirclesStay == refs' = refs => \A m \in Models : BehindCircle(m)' <=> BehindCircle(m)
BY DEF BehindCircle

LEMMA LeftAreBehind == ASSUME SortInv, ready = {} PROVE Falling
<1>1. CASE Taking
  <2> DEFINE S == Models \ Range(order)
  <2>1. \A s \in S : refs[s] \cap S # {}
    BY <1>1 DEF Taking, SortInv
  <2> QED
    BY <2>1 DEF Falling, BehindCircle
<1> QED
  BY <1>1 DEF SortInv

LEMMA TakeReadySorts == ASSUME SortInv, TakeReady PROVE SortInv'
<1>1. ready # {} /\ Taking
  BY DEF TakeReady, SortInv, Falling
<1>2. PICK m \in ready : m = Min(ready)
  <2>1. ready \subseteq Nat
    BY ModelsAreNumbers DEF SortInv
  <2> QED
    BY <1>1, <2>1, MinIs
<1>3. m \in Models /\ m \notin Range(order) /\ waitsFor[m] = {}
  BY <1>1, <1>2 DEF SortInv, Taking
<1>4. /\ order' = Append(order, m) /\ waitsFor' = [c \in Models |-> waitsFor[c] \ {m}]
      /\ ready' = (ready \ {m}) \cup
                  ({c \in Models : m \in waitsFor[c] /\ waitsFor[c] \ {m} = {}} \ Range(order'))
      /\ refs' = refs /\ sorted' = sorted /\ ~sorted
  BY <1>2 DEF TakeReady, Freed
<1>5. PICK n \in Nat : n = Len(order) /\ DOMAIN order = 1 .. n
  BY ListTyped DEF SortInv
<1>6. /\ order' \in Seq(Models) /\ DOMAIN order' = 1 .. n + 1 /\ order'[n + 1] = m
      /\ \A k \in 1 .. n : order'[k] = order[k]
      /\ Range(order') = Range(order) \cup {m}
  BY <1>3, <1>4, <1>5, Appended DEF SortInv
<1>7. Once(order')
  BY <1>3, <1>4, AppendedOnce DEF SortInv
<1>8. refs[m] \subseteq Range(order)
  BY <1>1, <1>3 DEF Taking
<1>9. \A k \in DOMAIN order' : TargetsBefore(order, k)'
  <2>1. ASSUME NEW k \in 1 .. n PROVE TargetsBefore(order, k)'
    <3>1. TargetsBefore(order, k)
      BY <1>1, <1>5 DEF Taking
    <3>2. \A h \in 1 .. n : h \in 1 .. n + 1
      OBVIOUS
    <3> QED
      BY <1>4, <1>5, <1>6, <3>1, <3>2 DEF TargetsBefore
  <2>2. TargetsBefore(order, n + 1)'
    <3>1. \A x \in refs[m] : \E h \in 1 .. n : order[h] = x
      BY <1>5, <1>8 DEF Range
    <3>2. \A h \in 1 .. n : h \in 1 .. n + 1 /\ h < n + 1
      OBVIOUS
    <3> QED
      BY <1>4, <1>6, <3>1, <3>2 DEF TargetsBefore
  <2>3. \A k \in 1 .. n + 1 : k \in 1 .. n \/ k = n + 1
    OBVIOUS
  <2> QED
    BY <1>6, <2>1, <2>2, <2>3
<1>10. Taking'
  <2>1. \A x \in Models : waitsFor'[x] = refs'[x] \ Range(order')
    BY <1>1, <1>4, <1>6 DEF Taking
  <2>2. ASSUME NEW x \in Models, x \notin Range(order') PROVE waitsFor'[x] = {} <=> x \in ready'
    <3>1. x \notin Range(order) /\ x # m
      BY <1>6, <2>2
    <3>2. waitsFor[x] = {} <=> x \in ready
      BY <1>1, <3>1 DEF Taking
    <3> QED
      BY <1>4, <2>2, <3>1, <3>2
  <2> QED
    BY <1>9, <2>1, <2>2 DEF Taking
<1>11. refs' \in [Models -> SUBSET Models] /\ waitsFor' \in [Models -> SUBSET Models]
  BY <1>4 DEF SortInv
<1>12. ready' \subseteq Models /\ ready' \cap Range(order') = {}
  BY <1>4, <1>6 DEF SortInv
<1>13. InOrder'
  \* A circle would have a first model in the list, with its targets before it.
  <2>1. \A k \in DOMAIN order' : ~BehindCircle(order[k])'
    <3> SUFFICES ASSUME NEW k \in DOMAIN order', BehindCircle(order[k])' PROVE FALSE
      OBVIOUS
    <3>1. PICK S \in SUBSET Models : order'[k] \in S /\ \A s \in S : refs'[s] \cap S # {}
      BY DEF BehindCircle
    <3> DEFINE places == {h \in DOMAIN order' : order'[h] \in S}
    <3>2. places \subseteq Nat /\ places # {}
      BY <1>6, <3>1
    <3>3. PICK h \in places : \A x \in places : h <= x
      BY <3>2, Least
    <3>4. PICK x \in refs'[order'[h]] : x \in S
      BY <3>1, <3>3
    <3>5. PICK y \in DOMAIN order' : y < h /\ order'[y] = x
      BY <1>9, <3>3, <3>4 DEF TargetsBefore
    <3>6. y \in places /\ y \in Nat /\ h \in Nat
      BY <3>2, <3>3, <3>4, <3>5
    <3> QED
      BY <3>3, <3>5, <3>6
  <2> QED
    BY <1>9, <2>1 DEF InOrder
<1> QED
  BY <1>4, <1>6, <1>7, <1>10, <1>11, <1>12, <1>13 DEF SortInv

LEMMA TakeLeftSorts == ASSUME SortInv, TakeLeft PROVE SortInv'
<1>1. /\ ~sorted /\ ready = {} /\ Range(order) # Models
      /\ order' = Append(order, Min(Models \ Range(order)))
      /\ refs' = refs /\ waitsFor' = waitsFor /\ ready' = ready /\ sorted' = sorted
  BY DEF TakeLeft
<1>2. Falling
  BY <1>1, LeftAreBehind
<1>3. PICK m \in Models \ Range(order) : m = Min(Models \ Range(order))
  <2>1. Range(order) \subseteq Models
    BY ListTyped DEF SortInv
  <2>2. Models \ Range(order) \subseteq Nat /\ Models \ Range(order) # {}
    BY <1>1, <2>1, ModelsAreNumbers
  <2> QED
    BY <2>2, MinIs
<1>4. PICK n \in Nat : n = Len(order) /\ DOMAIN order = 1 .. n
  BY ListTyped DEF SortInv
<1>5. /\ order' \in Seq(Models) /\ DOMAIN order' = 1 .. n + 1 /\ order'[n + 1] = m
      /\ \A k \in 1 .. n : order'[k] = order[k]
      /\ Range(order') = Range(order) \cup {m}
  <2>1. order \in Seq(Models) /\ order' = Append(order, m)
    BY <1>1, <1>3 DEF SortInv
  <2>2. m \in Models
    BY <1>3
  <2> QED
    BY <1>4, <2>1, <2>2, Appended
<1>6. Once(order')
  BY <1>1, <1>3, AppendedOnce DEF SortInv
<1>7. \A x \in Models : BehindCircle(x)' <=> BehindCircle(x)
  BY <1>1, CirclesStay
<1>8. Falling'
  BY <1>1, <1>2, <1>5, <1>7 DEF Falling
<1>9. BehindCircle(m)
  BY <1>2, <1>3 DEF Falling
<1>10. /\ \A k \in 1 .. n : order[k] \in Models /\ (BehindCircle(order[k])' <=> BehindCircle(order[k]))
       /\ BehindCircle(order[n + 1])'
  <2>1. \A k \in 1 .. n : order[k] \in Models
    BY <1>4, ListTyped DEF SortInv
  <2>2. \A k \in 1 .. n : BehindCircle(order[k])' <=> BehindCircle(order[k])
    <3> SUFFICES ASSUME NEW k \in 1 .. n PROVE BehindCircle(order[k])' <=> BehindCircle(order[k])
      OBVIOUS
    <3>1. PICK x \in Models : x = order[k] /\ x = order'[k]
      BY <1>5, <2>1
    <3>2. BehindCircle(order[k])' <=> BehindCircle(x)'
      BY <3>1 DEF BehindCircle
    <3> QED
      BY <1>7, <3>1, <3>2
  <2>3. BehindCircle(order[n + 1])'
    <3>1. BehindCircle(m)'
      BY <1>3, <1>7, <1>9
    <3> QED
      BY <1>5, <3>1 DEF BehindCircle
  <2> QED
    BY <2>1, <2>2, <2>3
<1>11. \A k \in 1 .. n + 1 : k \in 1 .. n \/ k = n + 1
  OBVIOUS
<1>12. InOrder'
  <2>1. ASSUME NEW k \in DOMAIN order', ~BehindCircle(order[k])' PROVE TargetsBefore(order, k)'
    <3>1. k \in 1 .. n /\ ~BehindCircle(order[k])
      BY <1>5, <1>10, <1>11, <2>1
    <3>2. TargetsBefore(order, k)
      BY <1>4, <3>1 DEF SortInv, InOrder
    <3>3. \A h \in 1 .. n : h \in 1 .. n + 1
      OBVIOUS
    <3> QED
      BY <1>1, <1>4, <1>5, <3>1, <3>2, <3>3 DEF TargetsBefore
  <2>2. ASSUME NEW h \in DOMAIN order', NEW k \in DOMAIN order',
               BehindCircle(order[h])', ~BehindCircle(order[k])'
        PROVE  k < h
    <3>1. k \in 1 .. n /\ ~BehindCircle(order[k])
      BY <1>5, <1>10, <1>11, <2>2
    <3>2. CASE h = n + 1
      BY <3>1, <3>2
    <3>3. CASE h \in 1 .. n
      BY <1>4, <1>10, <2>2, <3>1, <3>3 DEF SortInv, InOrder
    <3> QED
      BY <1>5, <1>11, <3>2, <3>3
  <2> QED
    BY <2>1, <2>2 DEF InOrder
<1> QED
  BY <1>1, <1>3, <1>5, <1>6, <1>8, <1>12 DEF SortInv

LEMMA SortSteps == ASSUME SortInv, [Sort]_sortVars PROVE SortInv'
<1>1. ASSUME UNCHANGED <<refs, waitsFor, ready, order>>, sorted' \in BOOLEAN,
             sorted' => Range(order) = Models
      PROVE  SortInv'
  <2>1. Once(order)' <=> Once(order)
    BY <1>1 DEF Once
  <2>2. Taking => Taking'
    BY <1>1 DEF Taking, TargetsBefore
  <2>3. Falling => Falling'
    BY <1>1 DEF Falling, BehindCircle
  <2>4. InOrder => InOrder'
    BY <1>1 DEF InOrder, TargetsBefore, BehindCircle
  <2> QED
    BY <1>1, <2>1, <2>2, <2>3, <2>4 DEF SortInv
<1>2. CASE ReturnOrder
  BY <1>1, <1>2 DEF ReturnOrder
<1>3. CASE UNCHANGED sortVars
  BY <1>1, <1>3 DEF sortVars, SortInv
<1> QED
  BY <1>2, <1>3, TakeReadySorts, TakeLeftSorts DEF Sort

\* Whatever the references of the models, circles included, each model is taken
\* once, and after those it refers to unless it is behind a circle; those come last.
THEOREM ModelsAreSorted == SortSpec => []TargetsFirst
<1>1. SortInv => TargetsFirst
  <2> SUFFICES ASSUME SortInv, sorted PROVE TargetsFirst
    BY DEF TargetsFirst
  <2>1. Range(order) = Models /\ order \in Seq(Models) /\ Once(order) /\ InOrder
    BY DEF SortInv
  <2>2. Len(order) = ModelCount /\ DOMAIN order = 1 .. ModelCount
    BY <2>1, ModelsAssumption, OnceCounts, ListTyped DEF Models
  <2>3. ASSUME NEW h \in 1 .. ModelCount, NEW k \in 1 .. ModelCount,
               order[k] \in refs[order[h]], ~BehindCircle(order[h])
        PROVE  k < h
    <3>1. PICK x \in DOMAIN order : x < h /\ order[x] = order[k]
      BY <2>1, <2>2, <2>3 DEF InOrder, TargetsBefore
    <3>2. x = k
      BY <2>1, <2>2, <3>1 DEF Once
    <3> QED
      BY <3>1, <3>2
  <2>4. \A h, k \in 1 .. ModelCount : BehindCircle(order[h]) /\ ~BehindCircle(order[k]) => k < h
    BY <2>1, <2>2 DEF InOrder
  <2> QED
    BY <2>1, <2>2, <2>3, <2>4 DEF TargetsFirst
<1> QED
  BY <1>1, SortInit, SortSteps, PTL DEF SortSpec
-----------------------------------------------------------------------------
(***************************************************************************)
(* BulkCreate.  The number of an item is at one place: in one of the       *)
(* groups, or among those of the rows inserted.                            *)
(***************************************************************************)
Lists == Seq(Seq(Nat))

Parts(gs, done, m) ==
    /\ Once(done) /\ Range(done) \subseteq 1 .. m
    /\ \A g \in DOMAIN gs :
        Once(gs[g]) /\ Range(gs[g]) \subseteq 1 .. m /\ Range(gs[g]) \cap Range(done) = {}
    /\ \A g, h \in DOMAIN gs : g # h => Range(gs[g]) \cap Range(gs[h]) = {}
    /\ \A n \in 1 .. m : n \in Range(done) \/ \E g \in DOMAIN gs : n \in Range(gs[g])

Pairs(s) == [k \in DOMAIN s |-> <<s[k], s[k]>>]

BulkInv ==
    /\ items \in Seq(Signatures) /\ grouped \in Nat /\ grouped <= Len(items)
    /\ groups \in Lists /\ inserted \in Seq(Nat)
    /\ bulk \in {"grouping", "inserting", "returned", "raised"}
    /\ bulk \in {"grouping", "inserting"} => Parts(groups, inserted, grouped) /\ indexed = Pairs(inserted)
    /\ bulk = "grouping" => inserted = <<>>
    /\ bulk = "inserting" => grouped = Len(items)
    /\ BulkMatchesItems

LEMMA NoRange == Range(<<>>) = {} /\ DOMAIN <<>> = {} /\ <<>> \in Seq(Nat) /\ <<>> \in Lists /\ Once(<<>>)
BY DEF Range, Lists, Once

LEMMA InRange == ASSUME NEW s, NEW x PROVE x \in Range(s) <=> \E k \in DOMAIN s : s[k] = x
BY DEF Range

LEMMA NewNumber ==
    ASSUME NEW m \in Nat, NEW s \in Seq(Nat), Once(s), Range(s) \subseteq 1 .. m
    PROVE  /\ Append(s, m + 1) \in Seq(Nat) /\ Once(Append(s, m + 1))
           /\ Range(Append(s, m + 1)) = Range(s) \cup {m + 1} /\ m + 1 \notin 1 .. m
<1>1. m + 1 \in Nat /\ m + 1 \notin Range(s) /\ m + 1 \notin 1 .. m
  OBVIOUS
<1> QED
  BY <1>1, Appended, AppendedOnce

LEMMA Upto == ASSUME NEW m \in Nat PROVE 1 .. m + 1 = (1 .. m) \cup {m + 1} /\ m + 1 \notin 1 .. m
OBVIOUS

LEMMA PartsJoin ==
    ASSUME NEW gs \in Lists, NEW m \in Nat, Parts(gs, <<>>, m), NEW g \in DOMAIN gs,
           NEW hs, hs = [gs EXCEPT ![g] = Append(gs[g], m + 1)]
    PROVE  hs \in Lists /\ Parts(hs, <<>>, m + 1)
<1>1. gs[g] \in Seq(Nat) /\ g \in 1 .. Len(gs) /\ DOMAIN gs = 1 .. Len(gs)
  BY ListTyped DEF Lists
<1>2. PICK s \in Seq(Nat) : s = Append(gs[g], m + 1) /\ Once(s) /\ Range(s) = Range(gs[g]) \cup {m + 1}
  BY <1>1, NewNumber DEF Parts
<1>3. hs \in Lists /\ DOMAIN hs = DOMAIN gs /\ hs[g] = s /\ \A h \in DOMAIN gs : h # g => hs[h] = gs[h]
  BY <1>1, <1>2, ExceptSeq DEF Lists
<1>4. \A h \in DOMAIN gs : Once(gs[h]) /\ Range(gs[h]) \subseteq 1 .. m /\ m + 1 \notin Range(gs[h])
  BY Upto DEF Parts
<1>5. \A h \in DOMAIN hs : Once(hs[h]) /\ Range(hs[h]) \subseteq 1 .. m + 1
  BY <1>2, <1>3, <1>4, Upto
<1>6. \A h, k \in DOMAIN hs : h # k => Range(hs[h]) \cap Range(hs[k]) = {}
  <2>1. \A h, k \in DOMAIN gs : h # k => Range(gs[h]) \cap Range(gs[k]) = {}
    BY DEF Parts
  <2> QED
    BY <1>2, <1>3, <1>4, <2>1
<1>7. \A n \in 1 .. m + 1 : \E h \in DOMAIN hs : n \in Range(hs[h])
  <2>1. \A n \in 1 .. m : \E h \in DOMAIN gs : n \in Range(gs[h])
    BY NoRange DEF Parts
  <2> QED
    BY <1>2, <1>3, <2>1, Upto
<1> QED
  BY <1>3, <1>5, <1>6, <1>7, NoRange DEF Parts

LEMMA PartsBegin ==
    ASSUME NEW gs \in Lists, NEW m \in Nat, Parts(gs, <<>>, m), NEW hs, hs = Append(gs, <<m + 1>>)
    PROVE  hs \in Lists /\ Parts(hs, <<>>, m + 1)
<1>1. PICK s \in Seq(Nat) : s = <<m + 1>> /\ Once(s) /\ Range(s) = {m + 1}
  <2>1. <<m + 1>> \in Seq(Nat) /\ Once(<<m + 1>>) /\ Range(<<m + 1>>) = {m + 1}
    BY DEF Once, Range
  <2> QED
    BY <2>1
<1>2. PICK l \in Nat : l = Len(gs) /\ DOMAIN gs = 1 .. l
  BY ListTyped DEF Lists
<1>3. /\ hs \in Lists /\ DOMAIN hs = (1 .. l) \cup {l + 1} /\ hs[l + 1] = s
      /\ l + 1 \notin 1 .. l /\ \A h \in 1 .. l : hs[h] = gs[h]
  <2>1. hs = Append(gs, s) /\ gs \in Seq(Seq(Nat))
    BY <1>1 DEF Lists
  <2>2. /\ hs \in Seq(Seq(Nat)) /\ DOMAIN hs = 1 .. l + 1 /\ hs[l + 1] = s
        /\ \A h \in 1 .. l : hs[h] = gs[h]
    <3>1. s \in Seq(Nat)
      OBVIOUS
    <3>2. /\ Append(gs, s) \in Seq(Seq(Nat)) /\ DOMAIN Append(gs, s) = 1 .. Len(gs) + 1
          /\ Append(gs, s)[Len(gs) + 1] = s /\ \A h \in 1 .. Len(gs) : Append(gs, s)[h] = gs[h]
      BY <2>1, <3>1, Appended
    <3> QED
      BY <1>2, <2>1, <3>2
  <2> QED
    BY <2>2, Upto DEF Lists
<1>4. \A h \in 1 .. l : Once(gs[h]) /\ Range(gs[h]) \subseteq 1 .. m /\ m + 1 \notin Range(gs[h])
  BY <1>2, Upto DEF Parts
<1>5. \A h \in DOMAIN hs : Once(hs[h]) /\ Range(hs[h]) \subseteq 1 .. m + 1
  <2> SUFFICES ASSUME NEW h \in DOMAIN hs PROVE Once(hs[h]) /\ Range(hs[h]) \subseteq 1 .. m + 1
    OBVIOUS
  <2>1. 1 .. m + 1 = (1 .. m) \cup {m + 1}
    BY Upto
  <2>2. CASE h \in 1 .. l
    BY <1>3, <1>4, <2>1, <2>2
  <2>3. CASE h = l + 1
    BY <1>1, <1>3, <2>1, <2>3
  <2> QED
    BY <1>3, <2>2, <2>3
<1>6. \A h, k \in DOMAIN hs : h # k => Range(hs[h]) \cap Range(hs[k]) = {}
  <2>1. \A h, k \in 1 .. l : h # k => Range(gs[h]) \cap Range(gs[k]) = {}
    BY <1>2 DEF Parts
  <2> QED
    <3> SUFFICES ASSUME NEW h \in DOMAIN hs, NEW k \in DOMAIN hs, h # k
                 PROVE  Range(hs[h]) \cap Range(hs[k]) = {}
      OBVIOUS
    <3>1. CASE h \in 1 .. l /\ k \in 1 .. l
      BY <1>3, <2>1, <3>1
    <3>2. CASE h \in 1 .. l /\ k = l + 1
      BY <1>1, <1>3, <1>4, <3>2
    <3>3. CASE h = l + 1 /\ k \in 1 .. l
      BY <1>1, <1>3, <1>4, <3>3
    <3> QED
      BY <1>3, <3>1, <3>2, <3>3
<1>7. \A n \in 1 .. m + 1 : \E h \in DOMAIN hs : n \in Range(hs[h])
  <2>1. \A n \in 1 .. m : \E h \in 1 .. l : n \in Range(gs[h])
    BY <1>2, NoRange DEF Parts
  <2>2. ASSUME NEW n \in 1 .. m PROVE \E h \in DOMAIN hs : n \in Range(hs[h])
    <3>1. PICK h \in 1 .. l : n \in Range(gs[h])
      BY <2>1
    <3> QED
      BY <1>3, <3>1
  <2>3. m + 1 \in Range(hs[l + 1]) /\ l + 1 \in DOMAIN hs
    BY <1>1, <1>3
  <2> QED
    <3> SUFFICES ASSUME NEW n \in 1 .. m + 1 PROVE \E h \in DOMAIN hs : n \in Range(hs[h])
      OBVIOUS
    <3>1. CASE n \in 1 .. m
      BY <2>2, <3>1
    <3>2. CASE n = m + 1
      BY <2>3, <3>2
    <3>3. n \in (1 .. m) \cup {m + 1}
      BY Upto
    <3> QED
      BY <3>1, <3>2, <3>3
<1> QED
  BY <1>3, <1>5, <1>6, <1>7, NoRange DEF Parts

\* What a chunk of n items takes of a group, and what it leaves.
Cut(s, n, c, r) == c = SubSeq(s, 1, n) /\ r = SubSeq(s, n + 1, Len(s))

LEMMA SplitList ==
    ASSUME NEW s \in Seq(Nat), Once(s), NEW n \in Nat, n <= Len(s), NEW c, NEW r, Cut(s, n, c, r)
    PROVE  /\ c \in Seq(Nat) /\ r \in Seq(Nat) /\ Once(c) /\ Once(r)
           /\ Range(s) = Range(c) \cup Range(r) /\ Range(c) \cap Range(r) = {}
<1>1. PICK l \in Nat : l = Len(s) /\ DOMAIN s = 1 .. l /\ \A k \in 1 .. l : s[k] \in Nat
  BY ListTyped
<1>2. /\ c \in Seq(Nat) /\ DOMAIN c = 1 .. n /\ \A k \in 1 .. n : c[k] = s[k]
  <2>1. \A k \in 1 .. n : s[k] \in Nat
    BY <1>1
  <2>2. c \in Seq(Nat) /\ Len(c) = n /\ \A k \in 1 .. n : c[k] = s[k]
    BY <2>1, SubSeqProperties DEF Cut
  <2> QED
    BY <2>2, ListTyped
<1>3. /\ r \in Seq(Nat) /\ DOMAIN r = 1 .. l - n /\ \A k \in 1 .. l - n : r[k] = s[n + k]
  <2>1. \A k \in n + 1 .. l : s[k] \in Nat
    BY <1>1
  <2>2. r \in Seq(Nat) /\ Len(r) = l - n /\ \A k \in 1 .. l - n : r[k] = s[n + k]
    BY <1>1, <2>1, SubSeqProperties DEF Cut
  <2> QED
    BY <2>2, ListTyped
<1>4. /\ \A k \in 1 .. n : k \in 1 .. l
      /\ \A k \in 1 .. l - n : n + k \in 1 .. l
      /\ \A k \in 1 .. l : k \in 1 .. n \/ (k - n \in 1 .. l - n /\ n + (k - n) = k)
  BY <1>1
<1>5. Once(c)
  BY <1>1, <1>2, <1>4 DEF Once
<1>6. Once(r)
  <2> SUFFICES ASSUME NEW h \in 1 .. l - n, NEW k \in 1 .. l - n, h # k PROVE r[h] # r[k]
    BY <1>3 DEF Once
  <2>1. n + h # n + k /\ n + h \in 1 .. l /\ n + k \in 1 .. l
    BY <1>4
  <2> QED
    BY <1>1, <1>3, <2>1 DEF Once
<1>7. Range(c) \cap Range(r) = {}
  <2> SUFFICES ASSUME NEW x \in Range(c), x \in Range(r) PROVE FALSE
    OBVIOUS
  <2>2. PICK h \in 1 .. n : c[h] = x
    BY <1>2, InRange
  <2>3. PICK k \in 1 .. l - n : r[k] = x
    BY <1>3, InRange
  <2>1. s[h] = s[n + k] /\ h \in 1 .. l /\ n + k \in 1 .. l /\ h # n + k
    <3>1. h \in 1 .. l /\ n + k \in 1 .. l
      BY <1>4
    <3>2. h # n + k
      OBVIOUS
    <3>3. s[h] = x /\ s[n + k] = x
      BY <1>2, <1>3, <2>2, <2>3
    <3> QED
      BY <3>1, <3>2, <3>3
  <2> QED
    BY <1>1, <2>1 DEF Once
<1>8. Range(s) = Range(c) \cup Range(r)
  <2>1. ASSUME NEW x \in Range(s) PROVE x \in Range(c) \cup Range(r)
    <3>1. PICK k \in 1 .. l : s[k] = x
      BY <1>1, <2>1, InRange
    <3>2. CASE k \in 1 .. n
      BY <1>2, <3>1, <3>2, InRange
    <3>3. CASE k \notin 1 .. n
      <4>1. k - n \in 1 .. l - n /\ r[k - n] = x
        BY <1>3, <1>4, <3>1, <3>3
      <4> QED
        BY <1>3, <4>1, InRange
    <3> QED
      BY <3>2, <3>3
  <2>2. ASSUME NEW x \in Range(c) PROVE x \in Range(s)
    <3>1. PICK k \in 1 .. n : c[k] = x
      BY <1>2, <2>2, InRange
    <3>2. k \in 1 .. l /\ s[k] = x
      BY <1>2, <1>4, <3>1
    <3> QED
      BY <1>1, <3>2, InRange
  <2>3. ASSUME NEW x \in Range(r) PROVE x \in Range(s)
    <3>1. PICK k \in 1 .. l - n : r[k] = x
      BY <1>3, <2>3, InRange
    <3>2. n + k \in 1 .. l /\ s[n + k] = x
      BY <1>3, <1>4, <3>1
    <3> QED
      BY <1>1, <3>2, InRange
  <2> QED
    BY <2>1, <2>2, <2>3
<1> QED
  BY <1>2, <1>3, <1>5, <1>6, <1>7, <1>8

LEMMA JoinedLists ==
    ASSUME NEW s \in Seq(Nat), NEW c \in Seq(Nat), Once(s), Once(c), Range(s) \cap Range(c) = {}
    PROVE  /\ s \o c \in Seq(Nat) /\ Once(s \o c) /\ Range(s \o c) = Range(s) \cup Range(c)
           /\ Pairs(s) \o Paired(c, c) = Pairs(s \o c)
<1>1. PICK l \in Nat : l = Len(s) /\ DOMAIN s = 1 .. l
  BY ListTyped
<1>2. PICK n \in Nat : n = Len(c) /\ DOMAIN c = 1 .. n
  BY ListTyped
<1>3. PICK j \in Seq(Nat) : /\ j = s \o c /\ DOMAIN j = 1 .. l + n
                            /\ \A k \in 1 .. l : j[k] = s[k]
                            /\ \A k \in 1 .. n : j[l + k] = c[k]
  <2>1. s \o c \in Seq(Nat) /\ Len(s \o c) = l + n
        /\ \A k \in 1 .. l + n : (s \o c)[k] = IF k <= l THEN s[k] ELSE c[k - l]
    BY <1>1, <1>2, ConcatProperties
  <2>2. DOMAIN (s \o c) = 1 .. l + n
    BY <2>1, ListTyped
  <2>3. \A k \in 1 .. n : l + k \in 1 .. l + n /\ ~(l + k <= l) /\ (l + k) - l = k
    OBVIOUS
  <2>4. \A k \in 1 .. l : k \in 1 .. l + n /\ k <= l
    OBVIOUS
  <2>5. \A k \in 1 .. l : (s \o c)[k] = s[k]
    BY <2>1, <2>4
  <2>6. \A k \in 1 .. n : (s \o c)[l + k] = c[k]
    BY <2>1, <2>3
  <2> QED
    BY <2>1, <2>2, <2>5, <2>6
<1>4. /\ \A k \in 1 .. l : k \in 1 .. l + n
      /\ \A k \in 1 .. n : l + k \in 1 .. l + n
      /\ \A k \in 1 .. l + n : k \in 1 .. l \/ (k - l \in 1 .. n /\ l + (k - l) = k)
  OBVIOUS
<1>5. Range(j) = Range(s) \cup Range(c)
  <2>1. ASSUME NEW x \in Range(j) PROVE x \in Range(s) \cup Range(c)
    <3> DOMAIN j = 1 .. l + n
      BY <1>3
    <3>1. PICK k \in 1 .. l + n : j[k] = x
      BY <2>1, InRange
    <3>2. CASE k \in 1 .. l
      BY <1>1, <1>3, <3>1, <3>2, InRange
    <3>3. CASE k \notin 1 .. l
      <4>1. k - l \in 1 .. n /\ c[k - l] = x
        BY <1>3, <1>4, <3>1, <3>3
      <4> QED
        BY <1>2, <4>1, InRange
    <3> QED
      BY <3>2, <3>3
  <2>2. ASSUME NEW x \in Range(s) PROVE x \in Range(j)
    <3>1. PICK k \in 1 .. l : s[k] = x
      BY <1>1, <2>2, InRange
    <3>2. k \in 1 .. l + n /\ j[k] = x
      BY <1>3, <1>4, <3>1
    <3> QED
      BY <1>3, <3>2, InRange
  <2>3. ASSUME NEW x \in Range(c) PROVE x \in Range(j)
    <3>1. PICK k \in 1 .. n : c[k] = x
      BY <1>2, <2>3, InRange
    <3>2. l + k \in 1 .. l + n /\ j[l + k] = x
      BY <1>3, <1>4, <3>1
    <3> QED
      BY <1>3, <3>2, InRange
  <2> QED
    BY <2>1, <2>2, <2>3
<1>6. Once(j)
  <2> SUFFICES ASSUME NEW h \in 1 .. l + n, NEW k \in 1 .. l + n, h # k PROVE j[h] # j[k]
    BY <1>3 DEF Once
  <2>1. CASE h \in 1 .. l /\ k \in 1 .. l
    <3>1. s[h] # s[k]
      BY <1>1, <2>1 DEF Once
    <3> QED
      BY <1>3, <2>1, <3>1
  <2>2. CASE h \in 1 .. l /\ k \notin 1 .. l
    <3>1. j[h] \in Range(s)
      BY <1>1, <1>3, <2>2, InRange
    <3>2. k - l \in 1 .. n /\ j[k] = c[k - l]
      BY <1>3, <1>4, <2>2
    <3>3. j[k] \in Range(c)
      BY <1>2, <3>2, InRange
    <3> QED
      BY <3>1, <3>3
  <2>3. CASE h \notin 1 .. l /\ k \in 1 .. l
    <3>1. j[k] \in Range(s)
      BY <1>1, <1>3, <2>3, InRange
    <3>2. h - l \in 1 .. n /\ j[h] = c[h - l]
      BY <1>3, <1>4, <2>3
    <3>3. j[h] \in Range(c)
      BY <1>2, <3>2, InRange
    <3> QED
      BY <3>1, <3>3
  <2>4. CASE h \notin 1 .. l /\ k \notin 1 .. l
    <3>1. h - l \in 1 .. n /\ k - l \in 1 .. n /\ h - l # k - l /\ j[h] = c[h - l] /\ j[k] = c[k - l]
      BY <1>3, <1>4, <2>4
    <3> QED
      BY <1>2, <3>1 DEF Once
  <2> QED
    BY <2>1, <2>2, <2>3, <2>4
<1>7. Pairs(s) \o Paired(c, c) = Pairs(j)
  <2>1. /\ Pairs(s) = [k \in 1 .. l |-> <<s[k], s[k]>>]
        /\ Paired(c, c) = [k \in 1 .. n |-> <<c[k], c[k]>>]
        /\ Pairs(j) = [k \in 1 .. l + n |-> <<j[k], j[k]>>]
    BY <1>1, <1>2, <1>3 DEF Pairs, Paired
  <2>2. Pairs(s) \in Seq(Nat \X Nat) /\ Paired(c, c) \in Seq(Nat \X Nat)
        /\ Len(Pairs(s)) = l /\ Len(Paired(c, c)) = n
    <3>1. \A k \in 1 .. l : <<s[k], s[k]>> \in Nat \X Nat
      BY <1>1, ListTyped
    <3>2. \A k \in 1 .. n : <<c[k], c[k]>> \in Nat \X Nat
      BY <1>2, ListTyped
    <3> QED
      BY <2>1, <3>1, <3>2
  <2>3. PICK b : b = Pairs(s) \o Paired(c, c)
    OBVIOUS
  <2>4. b \in Seq(Nat \X Nat) /\ Len(b) = l + n
        /\ \A k \in 1 .. l + n : b[k] = IF k <= l THEN Pairs(s)[k] ELSE Paired(c, c)[k - l]
    <3>1. PICK p \in Seq(Nat \X Nat), q \in Seq(Nat \X Nat) :
            p = Pairs(s) /\ q = Paired(c, c) /\ Len(p) = l /\ Len(q) = n
      BY <2>2
    <3>2. p \o q \in Seq(Nat \X Nat) /\ Len(p \o q) = l + n
          /\ \A k \in 1 .. l + n : (p \o q)[k] = IF k <= l THEN p[k] ELSE q[k - l]
      <4>1. p \o q \in Seq(Nat \X Nat) /\ Len(p \o q) = Len(p) + Len(q)
            /\ \A k \in 1 .. Len(p) + Len(q) :
                (p \o q)[k] = IF k <= Len(p) THEN p[k] ELSE q[k - Len(p)]
        BY ConcatProperties
      <4> QED
        BY <3>1, <4>1
    <3>3. b = p \o q
      BY <2>3, <3>1
    <3> QED
      BY <3>1, <3>2, <3>3
  <2>5. DOMAIN b = 1 .. l + n /\ b = [k \in 1 .. l + n |-> b[k]]
    BY <2>4
  <2>6. \A k \in 1 .. l + n : b[k] = <<j[k], j[k]>>
    <3> SUFFICES ASSUME NEW k \in 1 .. l + n PROVE b[k] = <<j[k], j[k]>>
      OBVIOUS
    <3>1. CASE k \in 1 .. l
      <4>1. k <= l /\ j[k] = s[k] /\ b[k] = Pairs(s)[k]
        BY <1>3, <2>4, <3>1
      <4> QED
        BY <2>1, <3>1, <4>1
    <3>2. CASE k \notin 1 .. l
      <4>1. k - l \in 1 .. n /\ l + (k - l) = k
        BY <1>4, <3>2
      <4>2. ~(k <= l)
        BY <3>2
      <4>3. j[k] = c[k - l]
        <5>1. j[l + (k - l)] = c[k - l]
          BY <1>3, <4>1
        <5> QED
          BY <4>1, <5>1
      <4> QED
        BY <2>1, <2>4, <4>1, <4>2, <4>3
    <3> QED
      BY <3>1, <3>2
  <2> QED
    BY <2>1, <2>3, <2>5, <2>6
<1> QED
  BY <1>3, <1>5, <1>6, <1>7

\* A chunk c of the first group is inserted; r is what the group has left.
LEMMA PartsMove ==
    ASSUME NEW gs \in Lists, gs # <<>>, NEW m \in Nat, NEW done \in Seq(Nat), Parts(gs, done, m),
           NEW c \in Seq(Nat), NEW r \in Seq(Nat), Once(c), Once(r),
           Range(gs[1]) = Range(c) \cup Range(r), Range(c) \cap Range(r) = {},
           NEW hs, hs = (IF r = <<>> THEN <<>> ELSE <<r>>) \o Tail(gs)
    PROVE  hs \in Lists /\ Parts(hs, done \o c, m)
<1>1. PICK l \in Nat : l > 0 /\ l = Len(gs) /\ DOMAIN gs = 1 .. l /\ \A g \in 1 .. l : gs[g] \in Seq(Nat)
  <2>1. Len(gs) \in Nat \ {0}
    BY EmptySeq DEF Lists
  <2>2. PICK l \in Nat : l = Len(gs) /\ l > 0
    BY <2>1
  <2>3. DOMAIN gs = 1 .. l /\ \A g \in 1 .. l : gs[g] \in Seq(Nat)
    BY <2>2, ListTyped DEF Lists
  <2> QED
    BY <2>2, <2>3
<1>2. PICK t \in Lists : t = Tail(gs) /\ Len(t) = l - 1 /\ \A g \in 1 .. l - 1 : t[g] = gs[g + 1]
  <2>1. gs \in Seq(Seq(Nat)) /\ gs # <<>>
    BY DEF Lists
  <2>2. Tail(gs) \in Seq(Seq(Nat)) /\ Len(Tail(gs)) = Len(gs) - 1
        /\ \A g \in 1 .. Len(Tail(gs)) : Tail(gs)[g] = gs[g + 1]
    BY <2>1, HeadTailProperties
  <2>3. PICK t \in Lists : t = Tail(gs)
    BY <2>2 DEF Lists
  <2>4. Len(t) = l - 1 /\ \A g \in 1 .. l - 1 : t[g] = gs[g + 1]
    BY <1>1, <2>2, <2>3
  <2> QED
    BY <2>3, <2>4
<1>3. /\ 1 \in 1 .. l /\ \A g \in 1 .. l - 1 : g + 1 \in 1 .. l /\ g + 1 # 1
      /\ \A g \in 1 .. l : g # 1 => g - 1 \in 1 .. l - 1 /\ (g - 1) + 1 = g
  BY <1>1
<1>4. /\ done \o c \in Seq(Nat) /\ Once(done \o c) /\ Range(done \o c) = Range(done) \cup Range(c)
      /\ Range(done \o c) \subseteq 1 .. m
  <2>1. Once(done) /\ Range(done) \cap Range(c) = {} /\ Range(c) \subseteq 1 .. m /\ Range(done) \subseteq 1 .. m
    BY <1>1, <1>3 DEF Parts
  <2> QED
    BY <2>1, JoinedLists
<1>5. \A g \in 1 .. l : Once(gs[g]) /\ Range(gs[g]) \subseteq 1 .. m /\ Range(gs[g]) \cap Range(done) = {}
  BY <1>1 DEF Parts
<1>6. \A g, h \in 1 .. l : g # h => Range(gs[g]) \cap Range(gs[h]) = {}
  BY <1>1 DEF Parts
<1>7. \A n \in 1 .. m : n \in Range(done) \/ \E g \in 1 .. l : n \in Range(gs[g])
  BY <1>1 DEF Parts
<1>8. CASE r = <<>>
  <2>1. hs = t
    BY <1>2, <1>8, ConcatEmptySeq DEF Lists
  <2>2. hs \in Lists /\ DOMAIN hs = 1 .. l - 1 /\ \A g \in 1 .. l - 1 : hs[g] = gs[g + 1]
    BY <1>2, <2>1, ListTyped DEF Lists
  <2>3. Range(gs[1]) = Range(c)
    BY <1>8, NoRange
  <2>4. ASSUME NEW g \in DOMAIN hs
        PROVE  Once(hs[g]) /\ Range(hs[g]) \subseteq 1 .. m /\ Range(hs[g]) \cap Range(done \o c) = {}
    <3>1. g + 1 \in 1 .. l /\ g + 1 # 1 /\ hs[g] = gs[g + 1]
      BY <1>3, <2>2
    <3> QED
      BY <1>3, <1>4, <1>5, <1>6, <2>3, <3>1
  <2>5. ASSUME NEW g \in DOMAIN hs, NEW h \in DOMAIN hs, g # h PROVE Range(hs[g]) \cap Range(hs[h]) = {}
    <3>1. g + 1 \in 1 .. l /\ h + 1 \in 1 .. l /\ hs[g] = gs[g + 1] /\ hs[h] = gs[h + 1]
      BY <1>3, <2>2
    <3>2. g + 1 # h + 1
      <4>1. g \in 1 .. l - 1 /\ h \in 1 .. l - 1
        BY <2>2
      <4> QED
        BY <2>5, <4>1
    <3> QED
      BY <1>6, <3>1, <3>2
  <2>6. ASSUME NEW n \in 1 .. m, n \notin Range(done \o c) PROVE \E g \in DOMAIN hs : n \in Range(hs[g])
    <3>1. PICK g \in 1 .. l : n \in Range(gs[g])
      BY <1>4, <1>7, <2>6
    <3>2. g # 1
      BY <1>4, <2>3, <2>6, <3>1
    <3>3. g - 1 \in 1 .. l - 1 /\ hs[g - 1] = gs[g]
      BY <1>3, <2>2, <3>2
    <3> QED
      BY <2>2, <3>1, <3>3
  <2> QED
    BY <1>4, <2>2, <2>4, <2>5, <2>6 DEF Parts
<1>9. CASE r # <<>>
  <2>1. hs = <<r>> \o t
    BY <1>2, <1>9
  <2>2. hs \in Lists /\ DOMAIN hs = 1 .. l /\ hs[1] = r /\ \A g \in 1 .. l : g # 1 => hs[g] = gs[g]
    <3>1. <<r>> \in Seq(Seq(Nat)) /\ Len(<<r>>) = 1 /\ <<r>>[1] = r
      OBVIOUS
    <3>2. t \in Seq(Seq(Nat))
      BY DEF Lists
    <3> PICK f \in Seq(Seq(Nat)) : f = <<r>> /\ Len(f) = 1 /\ f[1] = r
      BY <3>1
    <3>3. f \o t \in Seq(Seq(Nat)) /\ Len(f \o t) = Len(f) + Len(t)
          /\ \A g \in 1 .. Len(f) + Len(t) : (f \o t)[g] = IF g <= Len(f) THEN f[g] ELSE t[g - Len(f)]
      BY <3>2, ConcatProperties
    <3>4. hs = f \o t /\ Len(f) + Len(t) = l
      <4>1. hs = f \o t
        BY <2>1
      <4>2. Len(f) = 1 /\ Len(t) = l - 1
        BY <1>2
      <4>3. 1 + (l - 1) = l
        OBVIOUS
      <4>4. Len(f) + Len(t) = 1 + (l - 1)
        BY <4>2
      <4> QED
        BY <4>1, <4>3, <4>4
    <3>5. hs \in Seq(Seq(Nat)) /\ Len(hs) = l
          /\ \A g \in 1 .. l : hs[g] = IF g <= 1 THEN f[g] ELSE t[g - 1]
      BY <3>3, <3>4
    <3>6. DOMAIN hs = 1 .. l
      BY <3>5, ListTyped
    <3>7. hs[1] = r
      <4>1. hs[1] = f[1]
        <5>1. 1 \in 1 .. l /\ 1 <= 1
          BY <1>3
        <5> QED
          BY <3>5, <5>1
      <4> QED
        BY <4>1
    <3>8. ASSUME NEW g \in 1 .. l, g # 1 PROVE hs[g] = gs[g]
      <4>1. ~(g <= 1) /\ g - 1 \in 1 .. l - 1 /\ (g - 1) + 1 = g
        BY <1>3, <3>8
      <4>2. t[g - 1] = gs[(g - 1) + 1]
        BY <1>2, <4>1
      <4> QED
        BY <3>5, <4>1, <4>2
    <3> QED
      BY <3>5, <3>6, <3>7, <3>8 DEF Lists
  <2>4. ASSUME NEW g \in DOMAIN hs
        PROVE  Once(hs[g]) /\ Range(hs[g]) \subseteq 1 .. m /\ Range(hs[g]) \cap Range(done \o c) = {}
    <3>1. CASE g = 1
      BY <1>3, <1>4, <1>5, <2>2, <3>1
    <3>2. CASE g # 1
      BY <1>3, <1>4, <1>5, <1>6, <2>2, <3>2
    <3> QED
      BY <3>1, <3>2
  <2>5. ASSUME NEW g \in DOMAIN hs, NEW h \in DOMAIN hs, g # h PROVE Range(hs[g]) \cap Range(hs[h]) = {}
    <3>1. Range(gs[g]) \cap Range(gs[h]) = {}
      BY <1>6, <2>2, <2>5
    <3>2. Range(hs[g]) \subseteq Range(gs[g]) /\ Range(hs[h]) \subseteq Range(gs[h])
      BY <2>2
    <3> QED
      BY <3>1, <3>2
  <2>6. ASSUME NEW n \in 1 .. m, n \notin Range(done \o c) PROVE \E g \in DOMAIN hs : n \in Range(hs[g])
    <3>1. PICK g \in 1 .. l : n \in Range(gs[g])
      BY <1>4, <1>7, <2>6
    <3>2. n \in Range(hs[g])
      BY <1>4, <2>2, <2>6, <3>1
    <3> QED
      BY <2>2, <3>2
  <2> QED
    BY <1>4, <2>2, <2>4, <2>5, <2>6 DEF Parts
<1> QED
  BY <1>8, <1>9

\* When every number has been inserted, sorting puts the pair of n at place n.
LEMMA PlaceIs ==
    ASSUME NEW n \in Nat, inserted \in Seq(Nat), Once(inserted), Range(inserted) = 1 .. n,
           Len(inserted) = n, indexed = Pairs(inserted), NEW k \in 1 .. n
    PROVE  Place(k) = inserted[k]
<1>1. DOMAIN inserted = 1 .. n /\ DOMAIN indexed = 1 .. n
      /\ \A j \in 1 .. n : indexed[j] = <<inserted[j], inserted[j]>> /\ inserted[j] \in 1 .. n
  <2>1. DOMAIN inserted = 1 .. n
    BY ListTyped
  <2> QED
    BY <2>1, InRange DEF Pairs
<1>2. PICK v \in 1 .. n : v = inserted[k]
  BY <1>1
<1> DEFINE S == {j \in 1 .. n : inserted[j] <= v}
<1>3. Place(k) = Cardinality(S)
  <2>1. \A j \in 1 .. n : \/ indexed[j][1] < indexed[k][1]
                          \/ indexed[j][1] = indexed[k][1] /\ j <= k
                          <=> inserted[j] <= v
    <3>3. \A j \in 1 .. n : indexed[j][1] = inserted[j]
      BY <1>1
    <3> SUFFICES ASSUME NEW j \in 1 .. n
                 PROVE  (inserted[j] < v \/ (inserted[j] = v /\ j <= k)) <=> inserted[j] <= v
      BY <1>2, <3>3
    <3>1. inserted[j] = v => j = k
      BY <1>1, <1>2 DEF Once
    <3>2. inserted[j] \in Nat /\ v \in Nat /\ k <= k
      BY <1>1
    <3> QED
      BY <3>1, <3>2
  <2>2. {j \in DOMAIN indexed : \/ indexed[j][1] < indexed[k][1]
                                \/ indexed[j][1] = indexed[k][1] /\ j <= k} = S
    BY <1>1, <2>1
  <2> QED
    BY <2>2 DEF Place
<1>4. Cardinality(1 .. v) = v /\ IsFiniteSet(1 .. v)
  <2>1. v \in Nat
    BY <1>2
  <2> QED
    BY <2>1, FS_Interval
<1>5. [j \in S |-> inserted[j]] \in Injection(S, 1 .. v)
  <2>1. \A j \in S : inserted[j] \in 1 .. v
    BY <1>1
  <2>2. \A h, j \in S : inserted[h] = inserted[j] => h = j
    BY <1>1 DEF Once
  <2> QED
    BY <2>1, <2>2 DEF Injection, IsInjective
<1>6. [j \in S |-> inserted[j]] \in Surjection(S, 1 .. v)
  <2>1. \A x \in 1 .. v : \E j \in S : inserted[j] = x
    <3> SUFFICES ASSUME NEW x \in 1 .. v PROVE \E j \in S : inserted[j] = x
      OBVIOUS
    <3>1. x \in 1 .. n /\ x <= v
      OBVIOUS
    <3>2. PICK j \in 1 .. n : inserted[j] = x
      <4>1. x \in Range(inserted)
        BY <3>1
      <4>2. \E j \in DOMAIN inserted : inserted[j] = x
        BY <4>1, InRange
      <4> QED
        BY <1>1, <4>2
    <3> QED
      BY <3>1, <3>2
  <2>2. \A j \in S : inserted[j] \in 1 .. v
    BY <1>1
  <2> QED
    BY <2>1, <2>2 DEF Surjection
<1> HIDE DEF S
<1>7. Cardinality(S) = Cardinality(1 .. v)
  BY <1>4, <1>5, <1>6, FS_Injection
<1> QED
  BY <1>2, <1>3, <1>4, <1>7

LEMMA BulkStarts == StartBulk => BulkInv
<1> SUFFICES ASSUME StartBulk PROVE BulkInv
  OBVIOUS
<1>1. items \in Seq(Signatures) /\ 0 <= Len(items)
  <2>1. items \in Seq(Signatures)
    BY Strings DEF StartBulk
  <2>2. Len(items) \in Nat
    BY <2>1, ListTyped
  <2> QED
    BY <2>1, <2>2
<1>2. Parts(<<>>, <<>>, 0)
  <2>1. 1 .. 0 = {}
    OBVIOUS
  <2> QED
    BY <2>1, NoRange DEF Parts
<1>3. Pairs(<<>>) = <<>>
  BY NoRange DEF Pairs
<1>4. bulk # "returned" /\ bulk # "raised"
  BY DEF StartBulk
<1>5. BulkMatchesItems
  BY <1>4 DEF BulkMatchesItems
<1> QED
  BY <1>1, <1>2, <1>3, <1>5, NoRange DEF StartBulk, BulkInv

LEMMA ItemsAreGrouped == ASSUME BulkInv, GroupItem PROVE BulkInv'
<1>1. PICK m \in Nat : /\ m = grouped /\ m + 1 <= Len(items) /\ Parts(groups, <<>>, m)
                       /\ inserted = <<>> /\ indexed = Pairs(<<>>)
  <2>1. Len(items) \in Nat
    BY ListTyped DEF BulkInv
  <2>2. Parts(groups, inserted, grouped) /\ inserted = <<>> /\ indexed = Pairs(inserted)
    BY DEF GroupItem, BulkInv
  <2> QED
    BY <2>1, <2>2 DEF GroupItem, BulkInv
<1>2. groups' \in Lists /\ Parts(groups', <<>>, m + 1)
  <2>1. groups \in Lists
    BY DEF BulkInv
  <2>2. CASE \E g \in DOMAIN groups : groups' = [groups EXCEPT ![g] = Append(@, grouped + 1)]
    <3>1. PICK g \in DOMAIN groups : groups' = [groups EXCEPT ![g] = Append(groups[g], m + 1)]
      BY <1>1, <2>2
    <3> QED
      BY <1>1, <2>1, <3>1, PartsJoin
  <2>3. CASE groups' = Append(groups, <<grouped + 1>>)
    <3>1. groups' = Append(groups, <<m + 1>>)
      BY <1>1, <2>3
    <3> QED
      BY <1>1, <2>1, <3>1, PartsBegin
  <2> QED
    BY <2>2, <2>3 DEF GroupItem
<1>3. bulk' = "grouping" /\ UNCHANGED <<items, inserted, indexed>> /\ grouped' = m + 1
  BY <1>1 DEF GroupItem
<1>4. BulkMatchesItems'
  BY <1>3 DEF BulkMatchesItems
<1>5. Parts(groups', inserted', grouped') /\ indexed' = Pairs(inserted')
  BY <1>1, <1>2, <1>3
<1>6. items' \in Seq(Signatures) /\ grouped' \in Nat /\ grouped' <= Len(items') /\ inserted' \in Seq(Nat)
  BY <1>1, <1>3 DEF BulkInv
<1> QED
  BY <1>1, <1>2, <1>3, <1>4, <1>5, <1>6 DEF BulkInv

LEMMA ItemsAreValidated == ASSUME BulkInv, Validate PROVE BulkInv'
<1>1. bulk = "grouping" /\ grouped = Len(items) /\ inserted = <<>> /\ bulk' \in {"inserting", "raised"}
  BY DEF Validate, BulkInv
<1>2. UNCHANGED <<items, grouped, groups, inserted, indexed>>
  BY DEF Validate
<1>3. BulkMatchesItems'
  BY <1>1, <1>2 DEF BulkMatchesItems
<1> QED
  BY <1>1, <1>2, <1>3 DEF BulkInv

LEMMA ChunksAreInserted == ASSUME BulkInv, InsertChunk PROVE BulkInv'
<1>1. /\ bulk = "inserting" /\ groups \in Lists /\ groups # <<>> /\ inserted \in Seq(Nat)
      /\ grouped \in Nat /\ Parts(groups, inserted, grouped) /\ indexed = Pairs(inserted)
  BY DEF InsertChunk, BulkInv
<1>2. PICK s \in Seq(Nat) : /\ s = groups[1] /\ s = Head(groups) /\ Once(s)
                            /\ Range(s) \cap Range(inserted) = {}
  <2>1. groups \in Seq(Seq(Nat))
    BY <1>1 DEF Lists
  <2>2. Len(groups) \in Nat \ {0} /\ Head(groups) = groups[1]
    BY <1>1, <2>1, EmptySeq
  <2>3. 1 \in DOMAIN groups
    <3>1. 1 \in 1 .. Len(groups)
      BY <2>2
    <3> QED
      BY <2>1, <3>1, ListTyped
  <2>4. groups[1] \in Seq(Nat)
    BY <2>1, <2>3, ListTyped
  <2> QED
    BY <1>1, <2>2, <2>3, <2>4 DEF Parts
<1>3. PICK n \in Nat : n = Size(s) /\ n <= Len(s)
  <2>1. Len(s) \in Nat /\ ChunkSize \in Nat
    BY ListTyped, BulkAssumption
  <2> QED
    BY <2>1 DEF Size
<1>4. PICK c, r : Cut(s, n, c, r)
  BY DEF Cut
<1>5. /\ c \in Seq(Nat) /\ r \in Seq(Nat) /\ Once(c) /\ Once(r)
      /\ Range(s) = Range(c) \cup Range(r) /\ Range(c) \cap Range(r) = {}
  BY <1>2, <1>3, <1>4, SplitList
<1>6. /\ inserted' = inserted \o c /\ indexed' = indexed \o Paired(c, c)
      /\ groups' = (IF r = <<>> THEN <<>> ELSE <<r>>) \o Tail(groups)
  BY <1>2, <1>3, <1>4 DEF InsertChunk, Cut
<1>7. UNCHANGED <<items, grouped, bulk>>
  BY DEF InsertChunk
<1>8. Once(inserted) /\ Range(inserted) \cap Range(c) = {}
  BY <1>1, <1>2, <1>5 DEF Parts
<1>9. inserted' \in Seq(Nat) /\ indexed' = Pairs(inserted')
  BY <1>1, <1>5, <1>6, <1>8, JoinedLists
<1>10. groups' \in Lists /\ Parts(groups', inserted', grouped)
  <2>1. Range(groups[1]) = Range(c) \cup Range(r)
    BY <1>2, <1>5
  <2>2. groups' \in Lists /\ Parts(groups', inserted \o c, grouped)
    BY <1>1, <1>5, <1>6, <2>1, PartsMove
  <2> QED
    BY <1>6, <2>2
<1>11. BulkMatchesItems'
  BY <1>1, <1>7 DEF BulkMatchesItems
<1> QED
  BY <1>1, <1>7, <1>9, <1>10, <1>11 DEF BulkInv

LEMMA ChunksMayFail == ASSUME BulkInv, ChunkFails PROVE BulkInv'
<1>1. bulk' = "raised" /\ inserted' = <<>> /\ UNCHANGED <<items, grouped, groups>>
  BY DEF ChunkFails
<1>2. BulkMatchesItems'
  BY <1>1 DEF BulkMatchesItems
<1> QED
  BY <1>1, <1>2, NoRange DEF BulkInv

LEMMA InstancesAreReturned == ASSUME BulkInv, ReturnBulk PROVE BulkInv'
<1>1. PICK l \in Nat : l = Len(items) /\ DOMAIN items = 1 .. l
  BY ListTyped DEF BulkInv
<1>2. inserted \in Seq(Nat) /\ Once(inserted) /\ Range(inserted) = 1 .. l /\ indexed = Pairs(inserted)
  <2>1. bulk = "inserting" /\ groups = <<>>
    BY DEF ReturnBulk
  <2>2. Parts(<<>>, inserted, l) /\ inserted \in Seq(Nat) /\ indexed = Pairs(inserted)
    BY <1>1, <2>1 DEF BulkInv
  <2>3. \A n \in 1 .. l : n \in Range(inserted)
    BY <2>2, NoRange DEF Parts
  <2> QED
    BY <2>2, <2>3 DEF Parts
<1>3. Len(inserted) = l /\ DOMAIN inserted = 1 .. l
  <2>1. inserted \in Seq(1 .. l)
    <3>1. /\ Len(inserted) \in Nat /\ inserted \in [1 .. Len(inserted) -> Nat]
          /\ \A k \in 1 .. Len(inserted) : inserted[k] \in Range(inserted)
      BY <1>2, ListTyped
    <3>2. inserted \in [1 .. Len(inserted) -> 1 .. l]
      BY <1>2, <3>1
    <3> QED
      BY <3>1, <3>2, SeqDef
  <2>2. Len(inserted) = l
    BY <1>2, <2>1, OnceCounts
  <2> QED
    BY <1>2, <2>2, ListTyped
<1>4. \A k \in 1 .. l : Place(k) = inserted[k]
  BY <1>2, <1>3, PlaceIs
<1>5. DOMAIN indexed = 1 .. l /\ \A k \in 1 .. l : indexed[k][2] = inserted[k]
  BY <1>2, <1>3 DEF Pairs
<1>6. \A n \in 1 .. l : indexed[CHOOSE k \in DOMAIN indexed : Place(k) = n][2] = n
  <2> SUFFICES ASSUME NEW n \in 1 .. l
               PROVE  indexed[CHOOSE k \in 1 .. l : Place(k) = n][2] = n
    BY <1>5
  <2>1. \E k \in 1 .. l : Place(k) = n
    <3>1. n \in Range(inserted)
      BY <1>2
    <3>2. PICK k \in DOMAIN inserted : inserted[k] = n
      BY <3>1, InRange
    <3> QED
      BY <1>3, <1>4, <3>2
  <2>2. PICK c : c = (CHOOSE k \in 1 .. l : Place(k) = n)
    OBVIOUS
  <2>3. c \in 1 .. l /\ Place(c) = n
    BY <2>1, <2>2
  <2> QED
    BY <1>4, <1>5, <2>2, <2>3
<1>7. created' = [n \in 1 .. l |-> n]
  <2>1. created' = [n \in DOMAIN indexed |-> indexed[CHOOSE k \in DOMAIN indexed : Place(k) = n][2]]
    BY DEF ReturnBulk
  <2> QED
    BY <1>5, <1>6, <2>1
<1>8. bulk' = "returned" /\ UNCHANGED <<items, grouped, groups, inserted>>
  BY DEF ReturnBulk
<1>9. BulkMatchesItems'
  BY <1>1, <1>2, <1>3, <1>7, <1>8 DEF BulkMatchesItems
<1> QED
  BY <1>8, <1>9 DEF BulkInv

\* In every run of Model.bulk_create, of any items and chunks of any size, the
\* list returned holds the instance of each item at the item's place, every
\* item has one row, and when one is refused there is none.
THEOREM BulkCreateKeepsOrder == BulkSpec => []BulkMatchesItems
<1>1. BulkInv /\ [Bulk]_bulkVars => BulkInv'
  <2> SUFFICES ASSUME BulkInv, [Bulk]_bulkVars PROVE BulkInv'
    OBVIOUS
  <2>1. CASE GroupItem
    BY <2>1, ItemsAreGrouped
  <2>2. CASE Validate
    BY <2>2, ItemsAreValidated
  <2>3. CASE InsertChunk
    BY <2>3, ChunksAreInserted
  <2>4. CASE ChunkFails
    BY <2>4, ChunksMayFail
  <2>5. CASE ReturnBulk
    BY <2>5, InstancesAreReturned
  <2>6. CASE UNCHANGED bulkVars
    BY <2>6 DEF bulkVars, BulkInv, BulkMatchesItems
  <2> QED
    BY <2>1, <2>2, <2>3, <2>4, <2>5, <2>6 DEF Bulk
<1>2. BulkInv => BulkMatchesItems
  BY DEF BulkInv
<1> QED
  BY <1>1, <1>2, BulkStarts, PTL DEF BulkSpec
=============================================================================
