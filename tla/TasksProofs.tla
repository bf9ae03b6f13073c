---------------------------- MODULE TasksProofs ----------------------------
(***************************************************************************)
(* What the gates of event loops promise, and what tasks are told of their *)
(* blocks, whatever is cancelled and whoever inherits a block: first the   *)
(* gates, then the blocks, the savepoints under them and their writes.     *)
(***************************************************************************)
EXTENDS Tasks, SequenceTheorems, TLAPS

(***************************************************************************)
(* Types.  Writes are numbered without a bound here: what they add up to   *)
(* is the business of MaxOps alone.                                        *)
(***************************************************************************)
AnyWrite == [by : Tasks, n : Nat]
Entry == [state : Nat, save : Nat, writes : SUBSET AnyWrite]
State == [conn : Conns, saves : Nat, writes : SUBSET AnyWrite]

LockType ==
    /\ asyncLock \in [gate : Gates \cup {None}, loop : Loops \cup {None}]
    /\ asyncLock.gate = None <=> asyncLock.loop = None
    /\ holder \in [Gates -> Tasks \cup {None}]
    /\ replaced \subseteq Loops

TaskType ==
    /\ at \in [Tasks -> {"absent", "idle", "waiting", "running"}]
    /\ call \in [Tasks -> {None, "begin", "write", "savepoint", "finish"}]
    /\ gate \in [Tasks -> Gates \cup {None}]
    /\ ops \in [Tasks -> Nat]

ContextType ==
    /\ states \in Seq(State)
    /\ txn \in [Tasks -> DOMAIN states \cup {None}]
    /\ blocks \in [Tasks -> Seq(Entry)]

\* A task that is in no block has a gate during its calls, and one that is in a
\* block, of its own or inherited, has none; only the outermost of a task's
\* blocks can be a root block.
Placed(t) ==
    /\ at[t] \in {"absent", "idle"} => gate[t] = None
    /\ at[t] = "absent" => txn[t] = None
    /\ at[t] \in {"waiting", "running"} => (gate[t] # None <=> txn[t] = None)
    /\ at[t] = "waiting" => gate[t] # None /\ call[t] \in {"begin", "write"}
    /\ at[t] = "running" /\ call[t] = "begin" => txn[t] = None
    /\ at[t] = "running" /\ call[t] = "savepoint" => txn[t] # None
    /\ at[t] = "running" /\ call[t] = "finish" => blocks[t] # <<>>
    /\ txn[t] = None => blocks[t] = <<>>
    /\ \A i \in DOMAIN blocks[t] : i > 1 => blocks[t][i].save > 0

Typed == LockType /\ TaskType /\ ContextType /\ \A t \in Tasks : Placed(t)

(***************************************************************************)
(* The gate there is serves one loop, whose tasks have no other; a loop    *)
(* that lost its gate while nobody used it has no task behind one.         *)
(***************************************************************************)
OneLoop == \A t \in Tasks : gate[t] # None /\ gate[t] = asyncLock.gate => LoopOf[t] = asyncLock.loop

HoldsIt(t) ==
    LoopOf[t] \notin replaced =>
        /\ gate[t] # None => asyncLock.gate = gate[t]
        /\ Behind(t) => asyncLock.loop = LoopOf[t] /\ holder[asyncLock.gate] = t

HeldBehind ==
    \A h \in Tasks :
        asyncLock.loop \in Loops \ replaced /\ holder[asyncLock.gate] = h =>
            Behind(h) /\ LoopOf[h] = asyncLock.loop

Gated == OneLoop /\ (\A t \in Tasks : HoldsIt(t)) /\ HeldBehind

Inv == Typed /\ Gated

LEMMA NoneApart == None \notin Tasks /\ None \notin Loops /\ None \notin Nat /\ None \notin Gates
<1>1. None \notin Tasks \cup Loops \cup Nat
  BY TasksAssumption
<1>2. Gates \subseteq Nat
  BY DEF Gates
<1> QED
  BY <1>1, <1>2

-----------------------------------------------------------------------------
(***************************************************************************)
(* Sequences.                                                              *)
(***************************************************************************)
LEMMA ReplacedIn ==
    ASSUME NEW S, NEW s \in Seq(S), NEW i, NEW e, i \in DOMAIN s => e \in S
    PROVE  /\ [s EXCEPT ![i] = e] \in Seq(S) /\ DOMAIN [s EXCEPT ![i] = e] = DOMAIN s
           /\ \A j \in DOMAIN s : [s EXCEPT ![i] = e][j] = IF j = i THEN e ELSE s[j]
<1>1. CASE i \in DOMAIN s
  BY <1>1, ExceptSeq, LenProperties
<1>2. CASE i \notin DOMAIN s
  <2>1. [s EXCEPT ![i] = e] = s
    BY <1>2, LenProperties
  <2> QED
    BY <1>2, <2>1
<1> QED
  BY <1>1, <1>2

LEMMA FirstOf ==
    ASSUME NEW S, NEW s \in Seq(S), NEW k \in Nat, k <= Len(s)
    PROVE  /\ SubSeq(s, 1, k) \in Seq(S) /\ Len(SubSeq(s, 1, k)) = k
           /\ DOMAIN SubSeq(s, 1, k) = 1 .. k
           /\ \A i \in 1 .. k : SubSeq(s, 1, k)[i] = s[i]
<1>1. \A i \in 1 .. k : s[i] \in S
  BY LenProperties
<1>2. /\ SubSeq(s, 1, k) \in Seq(S) /\ Len(SubSeq(s, 1, k)) = IF 1 <= k THEN k - 1 + 1 ELSE 0
      /\ \A i \in 1 .. k - 1 + 1 : SubSeq(s, 1, k)[i] = s[1 + i - 1]
  BY <1>1, SubSeqProperties
<1>3. Len(SubSeq(s, 1, k)) = k
  BY <1>2
<1>4. DOMAIN SubSeq(s, 1, k) = 1 .. k
  BY <1>2, <1>3, LenProperties
<1>5. \A i \in 1 .. k : SubSeq(s, 1, k)[i] = s[i]
  <2> TAKE i \in 1 .. k
  <2>1. i \in 1 .. k - 1 + 1 /\ 1 + i - 1 = i
    OBVIOUS
  <2> QED
    BY <1>2, <2>1
<1> QED
  BY <1>2, <1>3, <1>4, <1>5

LEMMA LastBlock ==
    ASSUME NEW S, NEW s \in Seq(S), s # <<>>
    PROVE  Len(s) \in Nat \ {0} /\ Len(s) \in DOMAIN s /\ Last(s) = s[Len(s)] /\ Last(s) \in S
BY LenProperties, EmptySeq DEF Last

LEMMA FrontOf ==
    ASSUME NEW S, NEW s \in Seq(S), s # <<>>
    PROVE  /\ Front(s) \in Seq(S) /\ DOMAIN Front(s) = 1 .. Len(s) - 1
           /\ \A i \in DOMAIN Front(s) : Front(s)[i] = s[i]
<1>1. Len(s) - 1 \in Nat /\ Len(s) - 1 <= Len(s)
  BY LastBlock
<1> QED
  BY <1>1, FirstOf DEF Front

-----------------------------------------------------------------------------
(***************************************************************************)
(* Types.                                                                  *)
(***************************************************************************)
LEMMA TypedInit == Init => Typed
<1> SUFFICES ASSUME Init PROVE Typed
  OBVIOUS
<1>1. First \subseteq Tasks
  BY TasksAssumption
<1>2. LockType
  BY DEF Init, LockType
<1>3. TaskType
  BY DEF Init, TaskType
<1>4. <<>> \in Seq(State) /\ <<>> \in Seq(Entry)
  BY EmptySeq
<1>5. ContextType
  BY <1>4 DEF Init, ContextType
<1>6. ASSUME NEW t \in Tasks PROVE Placed(t)
  <2>1. /\ at[t] \in {"absent", "idle"} /\ gate[t] = None /\ txn[t] = None /\ blocks[t] = <<>>
    BY DEF Init
  <2>2. DOMAIN blocks[t] = {}
    BY <2>1, EmptySeq, LenProperties, <1>4
  <2> QED
    BY <2>1, <2>2 DEF Placed
<1> QED
  BY <1>2, <1>3, <1>5, <1>6 DEF Typed

\* A task that does not move stays placed.
Same(u) ==
    /\ at'[u] = at[u] /\ call'[u] = call[u] /\ gate'[u] = gate[u]
    /\ txn'[u] = txn[u] /\ blocks'[u] = blocks[u]

LEMMA SameIsPlaced == ASSUME NEW u \in Tasks, Same(u), Placed(u) PROVE Placed(u)'
BY DEF Same, Placed

LEMMA LookUpType ==
    ASSUME LockType, NEW l \in Loops, NEW g \in Gates, LookUp(l, g)
    PROVE  /\ asyncLock' = [gate |-> g, loop |-> l]
           /\ replaced \subseteq replaced' /\ replaced' \subseteq Loops
<1>1. CASE asyncLock.loop = l
  <2>1. asyncLock' = asyncLock /\ replaced' = replaced /\ g = asyncLock.gate
    BY <1>1 DEF LookUp
  <2>2. asyncLock = [gate |-> g, loop |-> l]
    BY <1>1, <2>1 DEF LockType
  <2> QED
    BY <2>1, <2>2 DEF LockType
<1>2. CASE asyncLock.loop # l
  BY <1>2 DEF LookUp, LockType
<1> QED
  BY <1>1, <1>2

LEMMA IdleType ==
    ASSUME TaskType, NEW t \in Tasks, Idle(t)
    PROVE  /\ at'[t] = "idle" /\ gate'[t] = None
           /\ at' \in [Tasks -> {"absent", "idle", "waiting", "running"}]
           /\ call' \in [Tasks -> {None, "begin", "write", "savepoint", "finish"}]
           /\ gate' \in [Tasks -> Gates \cup {None}]
           /\ \A u \in Tasks \ {t} : at'[u] = at[u] /\ call'[u] = call[u] /\ gate'[u] = gate[u]
BY DEF TaskType, Idle

LEMMA OpenedType ==
    ASSUME LockType, NEW g \in Gates, Opened(g)
    PROVE  /\ holder' \in [Gates -> Tasks \cup {None}] /\ holder'[g] = None
           /\ \A h \in Gates \ {g} : holder'[h] = holder[h]
BY DEF LockType, Opened

\* Writes that join what is left of a task's blocks.
LEMMA JoinedType ==
    ASSUME ContextType, NEW t \in Tasks, NEW s, NEW k \in Nat, k <= Len(blocks[t]),
           NEW w \in SUBSET AnyWrite, Joined(t, s, k, w)
    PROVE  /\ states' \in Seq(State) /\ DOMAIN states' = DOMAIN states
           /\ blocks' \in [Tasks -> Seq(Entry)]
           /\ DOMAIN blocks'[t] = 1 .. k
           /\ \A i \in 1 .. k : blocks'[t][i].save = blocks[t][i].save
           /\ \A u \in Tasks \ {t} : blocks'[u] = blocks[u]
<1> DEFINE b == SubSeq(blocks[t], 1, k)
<1>1. /\ b \in Seq(Entry) /\ Len(b) = k /\ DOMAIN b = 1 .. k
      /\ \A i \in 1 .. k : b[i] = blocks[t][i]
  BY FirstOf DEF ContextType
<1>2. CASE k > 0 /\ blocks[t][k].save > 0
  <2> DEFINE e == [b[k] EXCEPT !.writes = @ \cup w]
  <2>1. k \in 1 .. k
    BY <1>2
  <2>2. b[k] \in Entry
    BY <1>1, <2>1, LenProperties
  <2>3. e \in Entry /\ e.save = b[k].save
    BY <2>2 DEF Entry
  <2>4. /\ [b EXCEPT ![k] = e] \in Seq(Entry) /\ DOMAIN [b EXCEPT ![k] = e] = 1 .. k
        /\ \A j \in 1 .. k : [b EXCEPT ![k] = e][j] = IF j = k THEN e ELSE b[j]
    <3> HIDE DEF b, e
    <3> QED
      BY <1>1, <2>3, ReplacedIn
  <2>5. blocks' = [blocks EXCEPT ![t] = [b EXCEPT ![k] = e]] /\ states' = states
    <3>1. /\ blocks' = [blocks EXCEPT ![t] = [b EXCEPT ![k].writes = blocks[t][k].writes \cup w]]
          /\ states' = states
      BY <1>2 DEF Joined
    <3>2. b[k].writes = blocks[t][k].writes
      BY <1>1, <2>1
    <3>3. [b EXCEPT ![k].writes = blocks[t][k].writes \cup w] = [b EXCEPT ![k] = e]
      BY <3>2
    <3> QED
      BY <3>1, <3>3
  <2>6. blocks'[t] = [b EXCEPT ![k] = e] /\ \A u \in Tasks \ {t} : blocks'[u] = blocks[u]
    BY <2>5 DEF ContextType
  <2> HIDE DEF b, e
  <2>7. \A i \in 1 .. k : blocks'[t][i].save = blocks[t][i].save
    BY <2>4, <2>6, <2>3, <1>1
  <2>8. blocks' \in [Tasks -> Seq(Entry)]
    BY <2>4, <2>5 DEF ContextType
  <2> QED
    BY <2>4, <2>5, <2>6, <2>7, <2>8 DEF ContextType
<1>3. CASE ~(k > 0 /\ blocks[t][k].save > 0)
  <2> DEFINE r == [states[s] EXCEPT !.writes = @ \cup w]
  <2>1. blocks' = [blocks EXCEPT ![t] = b] /\ states' = [states EXCEPT ![s] = r]
    BY <1>3 DEF Joined
  <2>2. s \in DOMAIN states => r \in State
    <3> SUFFICES ASSUME s \in DOMAIN states PROVE r \in State
      OBVIOUS
    <3>1. states[s] \in State
      BY LenProperties DEF ContextType
    <3> QED
      BY <3>1 DEF State
  <2>3. states' \in Seq(State) /\ DOMAIN states' = DOMAIN states
    <3> HIDE DEF r
    <3> QED
      BY <2>1, <2>2, ReplacedIn DEF ContextType
  <2>4. blocks'[t] = b /\ \A u \in Tasks \ {t} : blocks'[u] = blocks[u]
    BY <2>1 DEF ContextType
  <2> HIDE DEF b
  <2>5. blocks' \in [Tasks -> Seq(Entry)]
    BY <1>1, <2>1 DEF ContextType
  <2> QED
    BY <1>1, <2>3, <2>4, <2>5
<1> QED
  BY <1>2, <1>3

LEMMA BeginNestedType ==
    ASSUME ContextType, NEW s, BeginNested(s)
    PROVE  /\ states' \in Seq(State) /\ DOMAIN states' = DOMAIN states
           /\ s \in DOMAIN states => states'[s].saves \in Nat \ {0}
<1> DEFINE r == [states[s] EXCEPT !.saves = states[s].saves + 1]
<1>1. states' = [states EXCEPT ![s] = r]
  BY DEF BeginNested
<1>2. s \in DOMAIN states => r \in State /\ r.saves \in Nat \ {0}
  <2> SUFFICES ASSUME s \in DOMAIN states PROVE r \in State /\ r.saves \in Nat \ {0}
    OBVIOUS
  <2>1. states[s] \in State
    BY LenProperties DEF ContextType
  <2> QED
    BY <2>1 DEF State
<1> HIDE DEF r
<1> QED
  BY <1>1, <1>2, ReplacedIn DEF ContextType

\* What an action leaves for the others, and for the types.
Elsewhere(t) == \A u \in Tasks \ {t} : Same(u)

LEMMA TypedFrom ==
    ASSUME Typed, NEW t \in Tasks, LockType', TaskType', ContextType', Placed(t)', Elsewhere(t)
    PROVE  Typed'
<1>1. ASSUME NEW u \in Tasks PROVE Placed(u)'
  BY SameIsPlaced DEF Typed, Elsewhere
<1> QED
  BY <1>1 DEF Typed

LEMMA RequestTyped ==
    ASSUME Typed, NEW t \in Tasks, NEW c \in {"begin", "write"}, Request(t, c)
    PROVE  Typed'
<1>1. LockType /\ TaskType /\ ContextType /\ Placed(t) /\ LoopOf[t] \in Loops
  BY TasksAssumption DEF Typed
<1>2. PICK g \in Gates :
        /\ LookUp(LoopOf[t], g)
        /\ IF asyncLock.loop = LoopOf[t] THEN UNCHANGED holder ELSE Opened(g)
        /\ gate' = [gate EXCEPT ![t] = g]
  BY DEF Request
<1>3. /\ at[t] = "idle" /\ txn[t] = None
      /\ at' = [at EXCEPT ![t] = "waiting"] /\ call' = [call EXCEPT ![t] = c]
      /\ ops' = [ops EXCEPT ![t] = @ + 1]
      /\ txn' = txn /\ blocks' = blocks /\ states' = states
  BY DEF Request, contextVars, connVars
<1>4. LockType'
  <2>1. asyncLock' = [gate |-> g, loop |-> LoopOf[t]] /\ replaced' \subseteq Loops
    BY <1>1, <1>2, LookUpType
  <2>2. holder' \in [Gates -> Tasks \cup {None}]
    BY <1>1, <1>2, OpenedType DEF LockType
  <2> QED
    BY <1>1, <2>1, <2>2, NoneApart DEF LockType
<1>5. TaskType'
  BY <1>1, <1>2, <1>3 DEF TaskType
<1>6. ContextType'
  BY <1>1, <1>3 DEF ContextType
<1>7. Elsewhere(t)
  BY <1>1, <1>2, <1>3 DEF Elsewhere, Same, TaskType
<1>8. Placed(t)'
  <2>1. /\ at'[t] = "waiting" /\ call'[t] = c /\ gate'[t] = g
        /\ txn'[t] = None /\ blocks'[t] = blocks[t]
    BY <1>1, <1>2, <1>3 DEF TaskType
  <2> QED
    BY <1>1, <1>3, <2>1, NoneApart DEF Placed
<1> QED
  BY <1>4, <1>5, <1>6, <1>7, <1>8, TypedFrom

LEMMA AcquireTyped == ASSUME Typed, NEW t \in Tasks, Acquire(t) PROVE Typed'
<1>1. LockType /\ TaskType /\ ContextType /\ Placed(t)
  BY DEF Typed
<1>2. LockType'
  BY <1>1 DEF Acquire, LockType
<1>3. TaskType'
  BY <1>1 DEF Acquire, TaskType
<1>4. ContextType'
  BY <1>1 DEF Acquire, ContextType, contextVars, connVars
<1>5. Elsewhere(t)
  BY <1>1 DEF Acquire, Elsewhere, Same, TaskType, contextVars
<1>6. Placed(t)'
  <2>1. /\ at'[t] = "running" /\ call'[t] = call[t] /\ gate'[t] = gate[t] /\ txn'[t] = txn[t]
        /\ blocks'[t] = blocks[t] /\ at[t] = "waiting"
    BY <1>1 DEF Acquire, TaskType, contextVars
  <2> QED
    BY <1>1, <2>1 DEF Placed
<1> QED
  BY <1>2, <1>3, <1>4, <1>5, <1>6, TypedFrom

LEMMA BeginTyped == ASSUME Typed, NEW t \in Tasks, Begin(t) PROVE Typed'
<1>1. /\ LockType /\ TaskType /\ ContextType /\ Placed(t)
      /\ txn[t] = None /\ gate[t] \in Gates /\ blocks[t] = <<>>
  BY DEF Typed, Begin, Running, Placed, TaskType
<1>2. PICK c \in Conns :
        IF CanBegin(c)
        THEN /\ states' = Append(states, [conn |-> c, saves |-> 0, writes |-> {}])
             /\ txn' = [txn EXCEPT ![t] = Len(states')]
             /\ blocks' = [blocks EXCEPT ![t] = <<[state |-> Len(states'), save |-> 0, writes |-> {}]>>]
             /\ UNCHANGED holder
        ELSE Opened(gate[t]) /\ UNCHANGED <<states, contextVars>>
  BY DEF Begin
<1>3. Idle(t) /\ asyncLock' = asyncLock /\ replaced' = replaced /\ ops' = ops
  BY DEF Begin
<1>4. LockType'
  BY <1>1, <1>2, <1>3, OpenedType DEF LockType
<1>5. TaskType'
  BY <1>1, <1>3, IdleType DEF TaskType
<1>6. CASE CanBegin(c)
  <2> DEFINE e == [state |-> Len(states'), save |-> 0, writes |-> {}]
             r == [conn |-> c, saves |-> 0, writes |-> {}]
  <2>1. r \in State
    BY DEF State
  <2>2. /\ states' = Append(states, r) /\ txn' = [txn EXCEPT ![t] = Len(states')]
        /\ blocks' = [blocks EXCEPT ![t] = <<e>>]
    BY <1>2, <1>6
  <2>3. states' \in Seq(State) /\ Len(states') = Len(states) + 1 /\ Len(states) \in Nat
    <3> HIDE DEF r
    <3> QED
      BY <1>1, <2>1, <2>2, AppendProperties, LenProperties DEF ContextType
  <2>4. DOMAIN states \subseteq DOMAIN states' /\ Len(states') \in DOMAIN states'
    BY <1>1, <2>3, LenProperties DEF ContextType
  <2>5. e \in Entry
    BY <2>3 DEF Entry
  <2>6. <<e>> \in Seq(Entry) /\ DOMAIN <<e>> = 1 .. 1
    <3> HIDE DEF e
    <3> QED
      BY <2>5
  <2> HIDE DEF e
  <2>7. ContextType'
    BY <1>1, <2>2, <2>3, <2>4, <2>6 DEF ContextType
  <2>8. Elsewhere(t)
    BY <1>1, <1>3, <2>2, IdleType DEF Elsewhere, Same, ContextType
  <2>9. at'[t] = "idle" /\ gate'[t] = None /\ txn'[t] = Len(states') /\ blocks'[t] = <<e>>
    BY <1>1, <1>3, <2>2, IdleType DEF ContextType
  <2>10. Placed(t)'
    BY <2>3, <2>6, <2>9, NoneApart DEF Placed
  <2> QED
    BY <1>4, <1>5, <2>7, <2>8, <2>10, TypedFrom
<1>7. CASE ~ CanBegin(c)
  <2>1. states' = states /\ txn' = txn /\ blocks' = blocks
    BY <1>2, <1>7 DEF contextVars
  <2>2. ContextType'
    BY <1>1, <2>1 DEF ContextType
  <2>3. Elsewhere(t)
    BY <1>1, <1>3, <2>1, IdleType DEF Elsewhere, Same
  <2>4. Placed(t)'
    BY <1>1, <1>3, <2>1, IdleType DEF Placed
  <2> QED
    BY <1>4, <1>5, <2>2, <2>3, <2>4, TypedFrom
<1> QED
  BY <1>6, <1>7

LEMMA NestTyped == ASSUME Typed, NEW t \in Tasks, Nest(t) PROVE Typed'
<1>1. /\ LockType /\ TaskType /\ ContextType /\ Placed(t)
      /\ txn[t] \in DOMAIN states /\ txn[t] # None
  BY DEF Typed, Nest, Running, Placed, ContextType
<1> DEFINE e == [state |-> txn[t], save |-> states'[txn[t]].saves, writes |-> {}]
<1>2. /\ BeginNested(txn[t]) /\ blocks' = [blocks EXCEPT ![t] = Append(@, e)]
      /\ Idle(t) /\ txn' = txn /\ ops' = ops
      /\ asyncLock' = asyncLock /\ replaced' = replaced /\ holder' = holder
  BY DEF Nest, lockVars
<1>3. /\ states' \in Seq(State) /\ DOMAIN states' = DOMAIN states
      /\ states'[txn[t]].saves \in Nat \ {0}
  BY <1>1, <1>2, BeginNestedType
<1>4. e \in Entry /\ e.save > 0
  BY <1>1, <1>3, LenProperties DEF Entry, ContextType
<1>5. LockType'
  BY <1>1, <1>2 DEF LockType
<1>6. TaskType'
  BY <1>1, <1>2, IdleType DEF TaskType
<1> HIDE DEF e
<1>7. /\ Append(blocks[t], e) \in Seq(Entry)
      /\ DOMAIN Append(blocks[t], e) = 1 .. Len(blocks[t]) + 1
      /\ \A i \in DOMAIN Append(blocks[t], e) : i > 1 => Append(blocks[t], e)[i].save > 0
  <2>1. blocks[t] \in Seq(Entry)
    BY <1>1 DEF ContextType
  <2>2. /\ Append(blocks[t], e) \in Seq(Entry) /\ Len(Append(blocks[t], e)) = Len(blocks[t]) + 1
        /\ \A i \in 1 .. Len(blocks[t]) : Append(blocks[t], e)[i] = blocks[t][i]
        /\ Append(blocks[t], e)[Len(blocks[t]) + 1] = e
    BY <1>4, <2>1, AppendProperties
  <2>3. DOMAIN Append(blocks[t], e) = 1 .. Len(blocks[t]) + 1 /\ Len(blocks[t]) \in Nat
    BY <2>1, <2>2, LenProperties
  <2>4. ASSUME NEW i \in 1 .. Len(blocks[t]) + 1, i > 1 PROVE Append(blocks[t], e)[i].save > 0
    <3>1. CASE i \in 1 .. Len(blocks[t])
      BY <1>1, <2>1, <2>2, <2>4, <3>1, LenProperties DEF Placed
    <3>2. CASE i = Len(blocks[t]) + 1
      BY <1>4, <2>2, <3>2
    <3> QED
      BY <2>3, <3>1, <3>2
  <2> QED
    BY <2>2, <2>3, <2>4
<1>8. ContextType'
  BY <1>1, <1>2, <1>3, <1>7 DEF ContextType
<1>9. Elsewhere(t)
  BY <1>1, <1>2, IdleType DEF Elsewhere, Same, ContextType
<1>10. Placed(t)'
  <2>1. at'[t] = "idle" /\ gate'[t] = None /\ txn'[t] # None /\ blocks'[t] = Append(blocks[t], e)
    BY <1>1, <1>2, IdleType DEF ContextType
  <2> QED
    BY <1>7, <2>1 DEF Placed
<1> QED
  BY <1>5, <1>6, <1>8, <1>9, <1>10, TypedFrom

LEMMA AWriteTyped == ASSUME Typed, NEW t \in Tasks, AWrite(t) PROVE Typed'
<1> DEFINE w == {[by |-> t, n |-> ops[t]]}
<1>1. /\ LockType /\ TaskType /\ ContextType /\ Placed(t) /\ at[t] = "running"
      /\ txn[t] = None => gate[t] \in Gates
  BY DEF Typed, AWrite, Running, Placed, TaskType
<1>2. /\ \/ txn[t] # None /\ Joined(t, txn[t], Len(blocks[t]), w)
         \/ states' = states /\ blocks' = blocks
      /\ IF txn[t] = None THEN Opened(gate[t]) ELSE UNCHANGED holder
      /\ Idle(t) /\ txn' = txn /\ ops' = ops /\ asyncLock' = asyncLock /\ replaced' = replaced
  BY DEF AWrite
<1>3. LockType'
  BY <1>1, <1>2, OpenedType DEF LockType
<1>4. TaskType'
  BY <1>1, <1>2, IdleType DEF TaskType
<1>5. w \in SUBSET AnyWrite
  BY <1>1 DEF AnyWrite, TaskType
<1>6. Len(blocks[t]) \in Nat /\ DOMAIN blocks[t] = 1 .. Len(blocks[t])
  BY <1>1, LenProperties DEF ContextType
<1> HIDE DEF w
<1>7. /\ states' \in Seq(State) /\ DOMAIN states' = DOMAIN states
      /\ blocks' \in [Tasks -> Seq(Entry)]
      /\ DOMAIN blocks'[t] = DOMAIN blocks[t]
      /\ \A i \in DOMAIN blocks[t] : blocks'[t][i].save = blocks[t][i].save
      /\ \A u \in Tasks \ {t} : blocks'[u] = blocks[u]
  <2>1. CASE Joined(t, txn[t], Len(blocks[t]), w)
    <3>1. PICK k \in Nat : k = Len(blocks[t])
      BY <1>6
    <3>2. k <= Len(blocks[t]) /\ Joined(t, txn[t], k, w)
      BY <2>1, <3>1
    <3>3. /\ states' \in Seq(State) /\ DOMAIN states' = DOMAIN states
          /\ blocks' \in [Tasks -> Seq(Entry)]
          /\ DOMAIN blocks'[t] = 1 .. k
          /\ \A i \in 1 .. k : blocks'[t][i].save = blocks[t][i].save
          /\ \A u \in Tasks \ {t} : blocks'[u] = blocks[u]
      BY <1>1, <1>5, <3>2, JoinedType
    <3> QED
      BY <1>6, <3>1, <3>3
  <2>2. CASE states' = states /\ blocks' = blocks
    BY <1>1, <2>2 DEF ContextType
  <2> QED
    BY <1>2, <2>1, <2>2
<1>8. ContextType'
  BY <1>1, <1>2, <1>7 DEF ContextType
<1>9. Elsewhere(t)
  BY <1>1, <1>2, <1>7, IdleType DEF Elsewhere, Same
<1>10. Placed(t)'
  <2>1. /\ at'[t] = "idle" /\ gate'[t] = None /\ txn'[t] = txn[t]
        /\ txn[t] = None => blocks'[t] = blocks[t]
    BY <1>1, <1>2, IdleType
  <2> QED
    BY <1>1, <1>7, <2>1 DEF Placed
<1> QED
  BY <1>3, <1>4, <1>8, <1>9, <1>10, TypedFrom

LEMMA FrontTyped ==
    ASSUME ContextType, NEW t \in Tasks, blocks[t] # <<>>
    PROVE  /\ [blocks EXCEPT ![t] = Front(@)] \in [Tasks -> Seq(Entry)]
           /\ DOMAIN [blocks EXCEPT ![t] = Front(@)][t] = 1 .. Len(blocks[t]) - 1
           /\ \A i \in 1 .. Len(blocks[t]) - 1 :
                [blocks EXCEPT ![t] = Front(@)][t][i].save = blocks[t][i].save
           /\ \A u \in Tasks \ {t} : [blocks EXCEPT ![t] = Front(@)][u] = blocks[u]
<1>1. /\ Front(blocks[t]) \in Seq(Entry) /\ DOMAIN Front(blocks[t]) = 1 .. Len(blocks[t]) - 1
      /\ \A i \in 1 .. Len(blocks[t]) - 1 : Front(blocks[t])[i] = blocks[t][i]
  BY FrontOf DEF ContextType
<1> QED
  BY <1>1 DEF ContextType

LEMMA ExitNestedTyped == ASSUME Typed, NEW t \in Tasks, ExitNested(t) PROVE Typed'
<1> DEFINE b == Inner(t)
<1>1. /\ LockType /\ TaskType /\ ContextType /\ Placed(t) /\ at[t] = "running"
      /\ blocks[t] # <<>> /\ txn[t] # None
  BY DEF Typed, ExitNested, Running, Placed
<1>2. /\ \/ states' = states /\ blocks' = [blocks EXCEPT ![t] = Front(@)]
         \/ Joined(t, b.state, Len(blocks[t]) - 1, b.writes)
      /\ Idle(t) /\ txn' = txn /\ ops' = ops
      /\ asyncLock' = asyncLock /\ replaced' = replaced /\ holder' = holder
  BY DEF ExitNested, lockVars
<1>3. LockType'
  BY <1>1, <1>2 DEF LockType
<1>4. TaskType'
  BY <1>1, <1>2, IdleType DEF TaskType
<1>5. b \in Entry /\ Len(blocks[t]) - 1 \in Nat /\ DOMAIN blocks[t] = 1 .. Len(blocks[t])
  BY <1>1, LastBlock, LenProperties DEF Inner, ContextType
<1>6. b.writes \in SUBSET AnyWrite
  BY <1>5 DEF Entry
<1> HIDE DEF b
<1>7. /\ states' \in Seq(State) /\ DOMAIN states' = DOMAIN states
      /\ blocks' \in [Tasks -> Seq(Entry)]
      /\ DOMAIN blocks'[t] = 1 .. Len(blocks[t]) - 1
      /\ \A i \in 1 .. Len(blocks[t]) - 1 : blocks'[t][i].save = blocks[t][i].save
      /\ \A u \in Tasks \ {t} : blocks'[u] = blocks[u]
  <2>1. CASE states' = states /\ blocks' = [blocks EXCEPT ![t] = Front(@)]
    BY <1>1, <2>1, FrontTyped DEF ContextType
  <2>2. CASE Joined(t, b.state, Len(blocks[t]) - 1, b.writes)
    BY <1>1, <1>5, <1>6, <2>2, JoinedType
  <2> QED
    BY <1>2, <2>1, <2>2
<1>8. ContextType'
  BY <1>1, <1>2, <1>7 DEF ContextType
<1>9. Elsewhere(t)
  BY <1>1, <1>2, <1>7, IdleType DEF Elsewhere, Same
<1>10. Placed(t)'
  <2>1. /\ at'[t] = "idle" /\ gate'[t] = None /\ txn'[t] = txn[t]
        /\ \A i \in 1 .. Len(blocks[t]) - 1 : i \in DOMAIN blocks[t]
    BY <1>1, <1>2, <1>5, IdleType
  <2> QED
    BY <1>1, <1>7, <2>1 DEF Placed
<1> QED
  BY <1>3, <1>4, <1>8, <1>9, <1>10, TypedFrom

\* The end of a root block, however its COMMIT or ROLLBACK went.
LEMMA CleanupTyped ==
    ASSUME Typed, NEW t \in Tasks, blocks[t] # <<>>, Cleanup(t), Idle(t), ops' = ops
    PROVE  Typed'
<1>1. LockType /\ TaskType /\ ContextType /\ Placed(t) /\ LoopOf[t] \in Loops
  BY TasksAssumption DEF Typed
<1>2. /\ txn' = [txn EXCEPT ![t] = None] /\ blocks' = [blocks EXCEPT ![t] = <<>>]
      /\ states' = states
  BY DEF Cleanup
<1>3. PICK g \in Gates : LookUp(LoopOf[t], g) /\ Opened(g)
  BY DEF Cleanup
<1>4. LockType'
  <2>1. asyncLock' = [gate |-> g, loop |-> LoopOf[t]] /\ replaced' \subseteq Loops
    BY <1>1, <1>3, LookUpType
  <2>2. holder' \in [Gates -> Tasks \cup {None}]
    BY <1>1, <1>3, OpenedType
  <2> QED
    BY <1>1, <2>1, <2>2, NoneApart DEF LockType
<1>5. TaskType'
  BY <1>1, IdleType DEF TaskType
<1>6. <<>> \in Seq(Entry) /\ DOMAIN <<>> = {}
  BY EmptySeq, LenProperties
<1>7. ContextType'
  BY <1>1, <1>2, <1>6 DEF ContextType
<1>8. Elsewhere(t)
  BY <1>1, <1>2, IdleType DEF Elsewhere, Same, ContextType
<1>9. Placed(t)'
  <2>1. at'[t] = "idle" /\ gate'[t] = None /\ txn'[t] = None /\ blocks'[t] = <<>>
    BY <1>1, <1>2, IdleType DEF ContextType
  <2> QED
    BY <1>6, <2>1 DEF Placed
<1> QED
  BY <1>4, <1>5, <1>7, <1>8, <1>9, TypedFrom

LEMMA SubmitTyped ==
    ASSUME Typed, NEW t \in Tasks, NEW c \in {"savepoint", "write"}, Submit(t, c)
    PROVE  Typed'
<1>1. LockType /\ TaskType /\ ContextType /\ Placed(t) /\ at[t] = "idle" /\ txn[t] # None
  BY DEF Typed, Submit
<1>2. /\ at' = [at EXCEPT ![t] = "running"] /\ call' = [call EXCEPT ![t] = c]
      /\ ops' = [ops EXCEPT ![t] = @ + 1] /\ gate' = gate /\ txn' = txn /\ blocks' = blocks
      /\ states' = states /\ asyncLock' = asyncLock /\ replaced' = replaced /\ holder' = holder
  BY DEF Submit, connVars, lockVars, contextVars
<1>3. LockType' /\ TaskType' /\ ContextType'
  BY <1>1, <1>2 DEF LockType, TaskType, ContextType
<1>4. Elsewhere(t)
  BY <1>1, <1>2 DEF Elsewhere, Same, TaskType
<1>5. Placed(t)'
  <2>1. at'[t] = "running" /\ call'[t] = c
    BY <1>1, <1>2 DEF TaskType
  <2> QED
    BY <1>1, <1>2, <2>1 DEF Placed
<1> QED
  BY <1>3, <1>4, <1>5, TypedFrom

LEMMA LeaveTyped == ASSUME Typed, NEW t \in Tasks, Leave(t) PROVE Typed'
<1>1. LockType /\ TaskType /\ ContextType /\ Placed(t) /\ at[t] = "idle" /\ blocks[t] # <<>>
  BY DEF Typed, Leave
<1>2. /\ at' = [at EXCEPT ![t] = "running"] /\ call' = [call EXCEPT ![t] = "finish"]
      /\ ops' = ops /\ gate' = gate /\ txn' = txn /\ blocks' = blocks
      /\ states' = states /\ asyncLock' = asyncLock /\ replaced' = replaced /\ holder' = holder
  BY DEF Leave, connVars, lockVars, contextVars
<1>3. LockType' /\ TaskType' /\ ContextType'
  BY <1>1, <1>2 DEF LockType, TaskType, ContextType
<1>4. Elsewhere(t)
  BY <1>1, <1>2 DEF Elsewhere, Same, TaskType
<1>5. Placed(t)'
  <2>1. at'[t] = "running" /\ call'[t] = "finish"
    BY <1>1, <1>2 DEF TaskType
  <2> QED
    BY <1>1, <1>2, <2>1 DEF Placed
<1> QED
  BY <1>3, <1>4, <1>5, TypedFrom

LEMMA SpawnTyped == ASSUME Typed, NEW t \in Tasks, NEW u \in Tasks, Spawn(t, u) PROVE Typed'
<1>1. LockType /\ TaskType /\ ContextType /\ Placed(u) /\ at[u] = "absent"
  BY DEF Typed, Spawn
<1>2. /\ at' = [at EXCEPT ![u] = "idle"] /\ txn' = [txn EXCEPT ![u] = txn[t]]
      /\ call' = call /\ ops' = ops /\ gate' = gate /\ blocks' = blocks
      /\ states' = states /\ asyncLock' = asyncLock /\ replaced' = replaced /\ holder' = holder
  BY DEF Spawn, connVars, lockVars
<1>3. LockType' /\ TaskType' /\ ContextType'
  BY <1>1, <1>2 DEF LockType, TaskType, ContextType
<1>4. Elsewhere(u)
  BY <1>1, <1>2 DEF Elsewhere, Same, TaskType, ContextType
<1>5. Placed(u)'
  <2>1. at'[u] = "idle"
    BY <1>1, <1>2 DEF TaskType
  <2> QED
    BY <1>1, <1>2, <2>1 DEF Placed
<1> QED
  BY <1>3, <1>4, <1>5, TypedFrom

LEMMA CancelWaitingTyped == ASSUME Typed, NEW t \in Tasks, CancelWaiting(t) PROVE Typed'
<1>1. LockType /\ TaskType /\ ContextType /\ Placed(t)
  BY DEF Typed
<1>2. /\ Idle(t) /\ ops' = ops /\ txn' = txn /\ blocks' = blocks
      /\ states' = states /\ asyncLock' = asyncLock /\ replaced' = replaced /\ holder' = holder
  BY DEF CancelWaiting, Cancelled, lockVars, contextVars
<1>3. LockType' /\ TaskType' /\ ContextType'
  BY <1>1, <1>2, IdleType DEF LockType, TaskType, ContextType
<1>4. Elsewhere(t)
  BY <1>1, <1>2, IdleType DEF Elsewhere, Same
<1>5. Placed(t)'
  BY <1>1, <1>2, IdleType DEF Placed
<1> QED
  BY <1>3, <1>4, <1>5, TypedFrom

LEMMA CancelCallTyped == ASSUME Typed, NEW t \in Tasks, CancelCall(t) PROVE Typed'
<1>1. LockType /\ TaskType /\ ContextType /\ Placed(t)
  BY DEF Typed
<1>2. /\ Idle(t) /\ ops' = ops /\ txn' = txn /\ blocks' = blocks
      /\ states' = states /\ asyncLock' = asyncLock /\ replaced' = replaced
      /\ IF gate[t] # None THEN Opened(gate[t]) ELSE UNCHANGED holder
  BY DEF CancelCall, Cancelled, GateOpened, contextVars
<1>3. gate[t] # None => gate[t] \in Gates
  BY <1>1 DEF TaskType
<1>4. LockType'
  BY <1>1, <1>2, <1>3, OpenedType DEF LockType
<1>5. TaskType' /\ ContextType'
  BY <1>1, <1>2, IdleType DEF TaskType, ContextType
<1>6. Elsewhere(t)
  BY <1>1, <1>2, IdleType DEF Elsewhere, Same
<1>7. Placed(t)'
  BY <1>1, <1>2, IdleType DEF Placed
<1> QED
  BY <1>4, <1>5, <1>6, <1>7, TypedFrom

LEMMA CancelFinishTyped == ASSUME Typed, NEW t \in Tasks, CancelFinish(t) PROVE Typed'
<1>1. /\ LockType /\ TaskType /\ ContextType /\ Placed(t)
      /\ blocks[t] # <<>> /\ txn[t] # None
  BY DEF Typed, CancelFinish, Running, Placed
<1>2. /\ Idle(t) /\ ops' = ops /\ states' = states
      /\ IF Inner(t).save = 0 THEN Cleanup(t)
         ELSE blocks' = [blocks EXCEPT ![t] = Front(@)] /\ UNCHANGED <<lockVars, pool, txn>>
  BY DEF CancelFinish, Cancelled
<1>3. CASE Inner(t).save = 0
  BY <1>1, <1>2, <1>3, CleanupTyped
<1>4. CASE Inner(t).save # 0
  <2>1. /\ blocks' = [blocks EXCEPT ![t] = Front(@)] /\ txn' = txn
        /\ asyncLock' = asyncLock /\ replaced' = replaced /\ holder' = holder
    BY <1>2, <1>4 DEF lockVars
  <2>2. LockType'
    BY <1>1, <2>1 DEF LockType
  <2>3. TaskType'
    BY <1>1, <1>2, IdleType DEF TaskType
  <2>4. /\ blocks' \in [Tasks -> Seq(Entry)]
        /\ DOMAIN blocks'[t] = 1 .. Len(blocks[t]) - 1
        /\ \A i \in 1 .. Len(blocks[t]) - 1 : blocks'[t][i].save = blocks[t][i].save
        /\ \A u \in Tasks \ {t} : blocks'[u] = blocks[u]
    BY <1>1, <2>1, FrontTyped
  <2>5. ContextType'
    BY <1>1, <1>2, <2>1, <2>4 DEF ContextType
  <2>6. Elsewhere(t)
    BY <1>1, <1>2, <2>1, <2>4, IdleType DEF Elsewhere, Same
  <2>7. \A i \in 1 .. Len(blocks[t]) - 1 : i \in DOMAIN blocks[t]
    BY <1>1, LastBlock, LenProperties DEF ContextType
  <2>8. Placed(t)'
    BY <1>1, <1>2, <2>1, <2>4, <2>7, IdleType DEF Placed
  <2> QED
    BY <2>2, <2>3, <2>5, <2>6, <2>8, TypedFrom
<1> QED
  BY <1>3, <1>4

LEMMA OrphanTyped == ASSUME Typed, NEW o \in orphans, RunOrphan(o) PROVE Typed'
<1>1. LockType /\ TaskType /\ ContextType
  BY DEF Typed
<1>2. /\ at' = at /\ call' = call /\ gate' = gate /\ ops' = ops /\ txn' = txn /\ blocks' = blocks
      /\ asyncLock' = asyncLock /\ replaced' = replaced /\ holder' = holder
  BY DEF RunOrphan, lockVars, contextVars, taskVars
<1>3. states' \in Seq(State) /\ DOMAIN states' = DOMAIN states
  <2>1. states' = states \/ BeginNested(o.state)
    BY DEF RunOrphan
  <2> QED
    BY <1>1, <2>1, BeginNestedType DEF ContextType
<1>4. LockType' /\ TaskType' /\ ContextType'
  BY <1>1, <1>2, <1>3 DEF LockType, TaskType, ContextType
<1>5. \A u \in Tasks : Placed(u)'
  BY <1>2 DEF Typed, Placed
<1> QED
  BY <1>4, <1>5 DEF Typed

LEMMA TypedNext == Typed /\ [Next]_vars => Typed'
<1> SUFFICES ASSUME Typed, [Next]_vars PROVE Typed'
  OBVIOUS
<1>1. CASE UNCHANGED vars
  BY <1>1 DEF Typed, LockType, TaskType, ContextType, Placed, vars, lockVars, connVars,
     contextVars, taskVars
<1>2. ASSUME NEW t \in Tasks, ExitRoot(t) PROVE Typed'
  <2>1. blocks[t] # <<>> /\ Cleanup(t) /\ Idle(t) /\ ops' = ops
    BY <1>2 DEF ExitRoot, Running, Typed, Placed
  <2> QED
    BY <2>1, CleanupTyped
<1> QED
  BY <1>1, <1>2, RequestTyped, SubmitTyped, AcquireTyped, BeginTyped, NestTyped, AWriteTyped,
     LeaveTyped, ExitNestedTyped, CancelWaitingTyped, CancelCallTyped, CancelFinishTyped,
     SpawnTyped, OrphanTyped DEF Next, Finished

-----------------------------------------------------------------------------
(***************************************************************************)
(* Gates.                                                                  *)
(***************************************************************************)
\* Only the innermost of one block is a root block.
LEMMA InnerIsRoot ==
    ASSUME Typed, NEW t \in Tasks, blocks[t] # <<>>
    PROVE  Inner(t).save = 0 <=> Len(blocks[t]) = 1 /\ blocks[t][1].save = 0
<1>1. /\ Len(blocks[t]) \in Nat \ {0} /\ Len(blocks[t]) \in DOMAIN blocks[t]
      /\ Inner(t) = blocks[t][Len(blocks[t])]
  BY LastBlock DEF Typed, ContextType, Inner
<1>2. Len(blocks[t]) > 1 => Inner(t).save > 0
  BY <1>1 DEF Typed, Placed
<1>3. Inner(t) \in Entry
  BY LastBlock DEF Typed, ContextType, Inner
<1>4. Inner(t).save \in Nat
  BY <1>3 DEF Entry
<1>5. CASE Len(blocks[t]) = 1
  BY <1>1, <1>5
<1>6. CASE Len(blocks[t]) > 1
  BY <1>1, <1>2, <1>4, <1>6
<1>7. Len(blocks[t]) = 1 \/ Len(blocks[t]) > 1
  <2>1. \A n \in Nat \ {0} : n = 1 \/ n > 1
    OBVIOUS
  <2> QED
    BY <1>1, <2>1
<1> QED
  BY <1>5, <1>6, <1>7

LEMMA GatedInit == Init => Gated
<1> SUFFICES ASSUME Init PROVE Gated
  OBVIOUS
<1>1. /\ asyncLock.loop = None /\ replaced = {} /\ \A t \in Tasks : gate[t] = None /\ ~ Behind(t)
  <2>1. ASSUME NEW t \in Tasks PROVE gate[t] = None /\ ~ Behind(t)
    BY DEF Init, Behind
  <2> QED
    BY <2>1 DEF Init
<1> QED
  BY <1>1, NoneApart DEF Gated, OneLoop, HoldsIt, HeldBehind

\* The gate of a loop is one of the gates, and its holder a task.
LEMMA HolderIsTask ==
    ASSUME LockType, asyncLock.loop \in Loops, holder[asyncLock.gate] # None
    PROVE  asyncLock.gate \in Gates /\ holder[asyncLock.gate] \in Tasks
BY NoneApart DEF LockType

\* Steps that leave the gates alone and put nobody behind them.
LEMMA GatedKept ==
    ASSUME LockType, Gated, UNCHANGED lockVars,
           \A t \in Tasks : gate'[t] \in {gate[t], None} /\ (Behind(t)' <=> Behind(t))
    PROVE  Gated'
<1>1. asyncLock' = asyncLock /\ replaced' = replaced /\ holder' = holder
  BY DEF lockVars
<1>2. OneLoop'
  BY <1>1 DEF Gated, OneLoop
<1>3. ASSUME NEW t \in Tasks PROVE HoldsIt(t)'
  BY <1>1 DEF Gated, HoldsIt
<1>4. HeldBehind'
  BY <1>1 DEF Gated, HeldBehind
<1> QED
  BY <1>2, <1>3, <1>4 DEF Gated

\* A call that has a gate opens it.
LEMMA GatedOpened ==
    ASSUME Typed, Gated, NEW t \in Tasks, at[t] = "running", gate[t] # None, Opened(gate[t]),
           asyncLock' = asyncLock, replaced' = replaced, gate'[t] = None, ~ Behind(t)',
           \A u \in Tasks \ {t} : gate'[u] = gate[u] /\ (Behind(u)' <=> Behind(u))
    PROVE  Gated'
<1>1. /\ LockType /\ gate[t] \in Gates /\ Behind(t)
  BY DEF Typed, TaskType, Behind
<1>2. holder'[gate[t]] = None /\ \A h \in Gates \ {gate[t]} : holder'[h] = holder[h]
  BY <1>1, OpenedType
<1>3. OneLoop'
  BY DEF Gated, OneLoop
<1>4. ASSUME NEW u \in Tasks PROVE HoldsIt(u)'
  <2> SUFFICES ASSUME u # t, LoopOf[u] \notin replaced, Behind(u)
               PROVE  holder'[asyncLock.gate] = u
    BY DEF Gated, HoldsIt
  <2>1. asyncLock.loop = LoopOf[u] /\ holder[asyncLock.gate] = u
    BY DEF Gated, HoldsIt
  <2>2. gate[t] # asyncLock.gate
    BY <1>1, <2>1 DEF Gated, OneLoop, HoldsIt
  <2>3. asyncLock.gate \in Gates
    BY <1>1, <2>1, TasksAssumption, NoneApart DEF LockType
  <2> QED
    BY <1>2, <2>1, <2>2, <2>3
<1>5. HeldBehind'
  <2> SUFFICES ASSUME NEW h \in Tasks, asyncLock.loop \in Loops \ replaced,
                      holder'[asyncLock.gate] = h
               PROVE  Behind(h)' /\ LoopOf[h] = asyncLock.loop
    BY DEF HeldBehind
  <2>1. asyncLock.gate \in Gates
    BY <1>1, NoneApart DEF LockType
  <2>2. gate[t] # asyncLock.gate /\ holder[asyncLock.gate] = h
    BY <1>2, <2>1, NoneApart
  <2>3. Behind(h) /\ LoopOf[h] = asyncLock.loop
    BY <2>2 DEF Gated, HeldBehind
  <2>4. h # t
    BY <2>2, <2>3 DEF Gated, HoldsIt
  <2> QED
    BY <2>3, <2>4
<1> QED
  BY <1>3, <1>4, <1>5 DEF Gated

\* A loop whose gate is taken away unused has nobody behind it.
LEMMA NewGate ==
    ASSUME Typed, Gated, NEW l \in Loops, asyncLock.loop # l,
           NEW g \in Gates, LookUp(l, g), Opened(g)
    PROVE  /\ asyncLock' = [gate |-> g, loop |-> l] /\ holder'[g] = None
           /\ replaced \subseteq replaced'
           /\ \A u \in Tasks : gate[u] # g
           /\ \A u \in Tasks : LoopOf[u] \notin replaced' => gate[u] = None /\ ~ Behind(u)
<1>1. /\ Unused(g) /\ asyncLock' = [gate |-> g, loop |-> l]
      /\ replaced' = replaced \cup {k \in Loops : asyncLock.loop = k /\
            (holder[asyncLock.gate] # None \/ \E t \in Tasks : gate[t] = asyncLock.gate)}
  BY DEF LookUp
<1>2. holder'[g] = None
  BY OpenedType DEF Typed
<1>3. ASSUME NEW u \in Tasks, LoopOf[u] \notin replaced'
      PROVE  gate[u] = None /\ ~ Behind(u)
  <2>1. LoopOf[u] \in Loops
    BY TasksAssumption
  <2>2. ~ (/\ asyncLock.loop = LoopOf[u]
           /\ holder[asyncLock.gate] # None \/ \E t \in Tasks : gate[t] = asyncLock.gate)
    BY <1>1, <1>3, <2>1
  <2>3. LoopOf[u] \notin replaced
    BY <1>1, <1>3
  <2>4. gate[u] = None
    BY <2>2, <2>3 DEF Gated, HoldsIt, OneLoop
  <2>5. ~ Behind(u)
    BY <2>2, <2>3, NoneApart DEF Gated, HoldsIt
  <2> QED
    BY <2>4, <2>5
<1> QED
  BY <1>1, <1>2, <1>3 DEF Unused

LEMMA RequestGated ==
    ASSUME Inv, NEW t \in Tasks, NEW c \in {"begin", "write"}, Request(t, c)
    PROVE  Gated'
<1>1. /\ Typed /\ Gated /\ LockType /\ TaskType /\ LoopOf[t] \in Loops
      /\ at[t] = "idle" /\ blocks[t] = <<>> /\ gate[t] = None
  BY TasksAssumption DEF Inv, Typed, Request, Placed
<1>2. PICK g \in Gates :
        /\ LookUp(LoopOf[t], g)
        /\ IF asyncLock.loop = LoopOf[t] THEN UNCHANGED holder ELSE Opened(g)
        /\ gate' = [gate EXCEPT ![t] = g]
  BY DEF Request
<1>3. /\ at' = [at EXCEPT ![t] = "waiting"] /\ blocks' = blocks
  BY DEF Request, contextVars
<1>4. /\ gate'[t] = g /\ ~ Behind(t)'
      /\ \A u \in Tasks \ {t} : gate'[u] = gate[u] /\ (Behind(u)' <=> Behind(u))
  BY <1>1, <1>2, <1>3 DEF Behind, TaskType
<1>5. CASE asyncLock.loop = LoopOf[t]
  <2>1. asyncLock' = asyncLock /\ replaced' = replaced /\ holder' = holder /\ g = asyncLock.gate
    BY <1>2, <1>5 DEF LookUp
  <2>2. OneLoop'
    BY <1>1, <1>4, <1>5, <2>1 DEF Gated, OneLoop
  <2>3. ASSUME NEW u \in Tasks PROVE HoldsIt(u)'
    BY <1>1, <1>4, <2>1 DEF Gated, HoldsIt
  <2>4. ~ Behind(t)
    BY <1>1 DEF Behind
  <2>5. HeldBehind'
    BY <1>1, <1>4, <2>1, <2>4 DEF Gated, HeldBehind
  <2> QED
    BY <2>2, <2>3, <2>5 DEF Gated
<1>6. CASE asyncLock.loop # LoopOf[t]
  <2>1. /\ asyncLock' = [gate |-> g, loop |-> LoopOf[t]] /\ holder'[g] = None
        /\ \A u \in Tasks : gate[u] # g
        /\ \A u \in Tasks : LoopOf[u] \notin replaced' => gate[u] = None /\ ~ Behind(u)
    BY <1>1, <1>2, <1>6, NewGate
  <2>2. OneLoop'
    BY <1>4, <2>1 DEF OneLoop
  <2>3. ASSUME NEW u \in Tasks PROVE HoldsIt(u)'
    BY <1>4, <2>1 DEF HoldsIt
  <2>4. HeldBehind'
    BY <2>1, NoneApart DEF HeldBehind
  <2> QED
    BY <2>2, <2>3, <2>4 DEF Gated
<1> QED
  BY <1>5, <1>6

LEMMA AcquireGated == ASSUME Inv, NEW t \in Tasks, Acquire(t) PROVE Gated'
<1>1. /\ Typed /\ Gated /\ LockType /\ TaskType /\ LoopOf[t] \in Loops
      /\ at[t] = "waiting" /\ gate[t] # None /\ gate[t] \in Gates
  BY TasksAssumption DEF Inv, Typed, TaskType, Acquire, Placed
<1>2. /\ holder[gate[t]] = None /\ holder' = [holder EXCEPT ![gate[t]] = t]
      /\ at' = [at EXCEPT ![t] = "running"] /\ gate' = gate /\ blocks' = blocks
      /\ asyncLock' = asyncLock /\ replaced' = replaced
  BY DEF Acquire, contextVars
<1>3. /\ Behind(t)' /\ \A u \in Tasks \ {t} : Behind(u)' <=> Behind(u)
  BY <1>1, <1>2 DEF Behind, TaskType
<1>4. holder'[gate[t]] = t /\ \A g \in Gates \ {gate[t]} : holder'[g] = holder[g]
  BY <1>1, <1>2 DEF LockType
<1>5. OneLoop'
  BY <1>1, <1>2 DEF Gated, OneLoop
<1>6. HoldsIt(t)'
  BY <1>1, <1>2, <1>3, <1>4 DEF Gated, HoldsIt, OneLoop
<1>7. ASSUME NEW u \in Tasks \ {t} PROVE HoldsIt(u)'
  <2> SUFFICES ASSUME LoopOf[u] \notin replaced, Behind(u)
               PROVE  holder'[asyncLock.gate] = u
    BY <1>1, <1>2, <1>3 DEF Gated, HoldsIt
  <2>1. asyncLock.loop = LoopOf[u] /\ holder[asyncLock.gate] = u
    BY <1>1 DEF Gated, HoldsIt
  <2>2. asyncLock.gate \in Gates
    BY <1>1, <2>1, TasksAssumption, NoneApart DEF LockType
  <2> QED
    BY <1>2, <1>4, <2>1, <2>2, NoneApart
<1>8. HeldBehind'
  <2> SUFFICES ASSUME NEW h \in Tasks, asyncLock.loop \in Loops \ replaced,
                      holder'[asyncLock.gate] = h
               PROVE  Behind(h)' /\ LoopOf[h] = asyncLock.loop
    BY <1>2 DEF HeldBehind
  <2>1. CASE gate[t] = asyncLock.gate
    BY <1>1, <1>3, <1>4, <2>1 DEF Gated, OneLoop
  <2>2. CASE gate[t] # asyncLock.gate
    <3>1. asyncLock.gate \in Gates
      BY <1>1, NoneApart DEF LockType
    <3>2. holder[asyncLock.gate] = h
      BY <1>4, <2>2, <3>1
    <3>3. Behind(h) /\ LoopOf[h] = asyncLock.loop
      BY <1>1, <3>2 DEF Gated, HeldBehind
    <3> QED
      BY <1>3, <3>3
  <2> QED
    BY <2>1, <2>2
<1> QED
  BY <1>5, <1>6, <1>7, <1>8 DEF Gated

\* __aexit__ opens its own loop's gate, which its block holds unless another
\* loop has replaced it meanwhile.
LEMMA CleanupGated ==
    ASSUME Inv, NEW t \in Tasks, blocks[t] # <<>>, Inner(t).save = 0, Cleanup(t), Idle(t)
    PROVE  Gated'
<1>1. /\ Typed /\ Gated /\ LockType /\ TaskType /\ ContextType /\ LoopOf[t] \in Loops /\ Behind(t)
  BY InnerIsRoot, TasksAssumption DEF Inv, Typed, Behind
<1>2. PICK g \in Gates : LookUp(LoopOf[t], g) /\ Opened(g)
  BY DEF Cleanup
<1>3. blocks'[t] = <<>> /\ \A u \in Tasks \ {t} : blocks'[u] = blocks[u]
  BY <1>1 DEF Cleanup, ContextType
<1>4. /\ gate'[t] = None /\ ~ Behind(t)'
      /\ \A u \in Tasks \ {t} : gate'[u] = gate[u] /\ (Behind(u)' <=> Behind(u))
  BY <1>1, <1>3, IdleType DEF Behind
<1>5. CASE asyncLock.loop = LoopOf[t]
  <2>1. asyncLock' = asyncLock /\ replaced' = replaced /\ g = asyncLock.gate
    BY <1>2, <1>5 DEF LookUp
  <2>2. holder'[asyncLock.gate] = None
    BY <1>1, <1>2, <2>1, OpenedType
  <2>3. OneLoop'
    BY <1>1, <1>4, <2>1 DEF Gated, OneLoop
  <2>4. ASSUME NEW u \in Tasks PROVE HoldsIt(u)'
    BY <1>1, <1>4, <1>5, <2>1 DEF Gated, HoldsIt
  <2>5. HeldBehind'
    BY <2>1, <2>2, NoneApart DEF HeldBehind
  <2> QED
    BY <2>3, <2>4, <2>5 DEF Gated
<1>6. CASE asyncLock.loop # LoopOf[t]
  <2>1. /\ asyncLock' = [gate |-> g, loop |-> LoopOf[t]] /\ holder'[g] = None
        /\ \A u \in Tasks : gate[u] # g
        /\ \A u \in Tasks : LoopOf[u] \notin replaced' => gate[u] = None /\ ~ Behind(u)
    BY <1>1, <1>2, <1>6, NewGate
  <2>2. OneLoop'
    BY <1>4, <2>1, NoneApart DEF OneLoop
  <2>3. ASSUME NEW u \in Tasks PROVE HoldsIt(u)'
    BY <1>4, <2>1 DEF HoldsIt
  <2>4. HeldBehind'
    BY <2>1, NoneApart DEF HeldBehind
  <2> QED
    BY <2>2, <2>3, <2>4 DEF Gated
<1> QED
  BY <1>5, <1>6

\* A task that goes idle, with its block or without one.
LEMMA IdleBehind ==
    ASSUME TaskType, NEW t \in Tasks, Idle(t), \A u \in Tasks \ {t} : blocks'[u] = blocks[u]
    PROVE  /\ gate'[t] = None
           /\ Behind(t)' <=> blocks'[t] # <<>> /\ blocks'[t][1].save = 0
           /\ \A u \in Tasks \ {t} : gate'[u] = gate[u] /\ (Behind(u)' <=> Behind(u))
BY IdleType DEF Behind

LEMMA BeginGated == ASSUME Inv, NEW t \in Tasks, Begin(t) PROVE Gated'
<1>1. /\ Typed /\ Gated /\ LockType /\ TaskType /\ ContextType /\ at[t] = "running"
      /\ gate[t] # None /\ blocks[t] = <<>> /\ Behind(t)
  BY DEF Inv, Typed, Begin, Running, Placed, Behind
<1>2. PICK c \in Conns :
        IF CanBegin(c)
        THEN /\ blocks' = [blocks EXCEPT ![t] = <<[state |-> Len(states'), save |-> 0, writes |-> {}]>>]
             /\ UNCHANGED holder
        ELSE Opened(gate[t]) /\ UNCHANGED <<states, contextVars>>
  BY DEF Begin
<1>3. Idle(t) /\ asyncLock' = asyncLock /\ replaced' = replaced
  BY DEF Begin
<1>4. CASE CanBegin(c)
  <2> DEFINE e == [state |-> Len(states'), save |-> 0, writes |-> {}]
  <2>1. blocks' = [blocks EXCEPT ![t] = <<e>>] /\ holder' = holder
    BY <1>2, <1>4
  <2>2. e.save = 0
    OBVIOUS
  <2> HIDE DEF e
  <2>3. /\ blocks'[t] # <<>> /\ blocks'[t][1].save = 0
        /\ \A u \in Tasks \ {t} : blocks'[u] = blocks[u]
    BY <1>1, <2>1, <2>2 DEF ContextType
  <2>4. \A u \in Tasks \ {t} : gate'[u] = gate[u] /\ (Behind(u)' <=> Behind(u))
    BY <1>1, <1>3, <2>3, IdleBehind
  <2>5. gate'[t] = None /\ Behind(t)'
    BY <1>1, <1>3, <2>3, IdleBehind
  <2>6. \A u \in Tasks : gate'[u] \in {gate[u], None} /\ (Behind(u)' <=> Behind(u))
    BY <1>1, <2>4, <2>5
  <2> QED
    BY <1>1, <1>3, <2>1, <2>6, GatedKept DEF lockVars
<1>5. CASE ~ CanBegin(c)
  <2>1. Opened(gate[t]) /\ blocks' = blocks
    BY <1>2, <1>5 DEF contextVars
  <2>2. /\ gate'[t] = None /\ ~ Behind(t)'
        /\ \A u \in Tasks \ {t} : gate'[u] = gate[u] /\ (Behind(u)' <=> Behind(u))
    BY <1>1, <1>3, <2>1, IdleBehind
  <2> QED
    BY <1>1, <1>3, <2>1, <2>2, GatedOpened
<1> QED
  BY <1>4, <1>5

\* The steps inside a block, which has no gate, leave the first of its blocks first.
LEMMA InsideGated ==
    ASSUME Inv, NEW t \in Tasks, Idle(t), UNCHANGED lockVars, txn[t] # None \/ at[t] = "waiting",
           \A u \in Tasks \ {t} : blocks'[u] = blocks[u],
           /\ blocks'[t] # <<>> /\ blocks'[t][1].save = 0
           <=> blocks[t] # <<>> /\ blocks[t][1].save = 0
    PROVE  Gated'
<1>1. LockType /\ TaskType /\ Gated /\ Placed(t)
  BY DEF Inv, Typed
<1>2. Behind(t) <=> blocks[t] # <<>> /\ blocks[t][1].save = 0
  BY <1>1 DEF Placed, Behind
<1>3. \A u \in Tasks \ {t} : gate'[u] = gate[u] /\ (Behind(u)' <=> Behind(u))
  BY <1>1, IdleBehind
<1>4. gate'[t] = None /\ (Behind(t)' <=> Behind(t))
  BY <1>1, <1>2, IdleBehind
<1>5. \A u \in Tasks : gate'[u] \in {gate[u], None} /\ (Behind(u)' <=> Behind(u))
  BY <1>3, <1>4
<1> QED
  BY <1>1, <1>5, GatedKept

LEMMA RootStays ==
    ASSUME NEW a \in Seq(Entry), NEW b \in Seq(Entry), NEW k \in Nat, k <= Len(a),
           DOMAIN b = 1 .. k, \A i \in 1 .. k : b[i].save = a[i].save,
           k > 0 \/ a = <<>> \/ a[1].save > 0
    PROVE  b # <<>> /\ b[1].save = 0 <=> a # <<>> /\ a[1].save = 0
<1>1. /\ Len(a) \in Nat /\ DOMAIN a = 1 .. Len(a) /\ (a = <<>> <=> Len(a) = 0)
      /\ Len(b) \in Nat /\ DOMAIN b = 1 .. Len(b) /\ (b = <<>> <=> Len(b) = 0)
  BY LenProperties, EmptySeq
<1>2. Len(b) = k
  BY <1>1
<1>3. CASE k > 0
  <2>1. 1 \in 1 .. k
    BY <1>3
  <2>2. b # <<>> /\ a # <<>> /\ b[1].save = a[1].save
    BY <1>1, <1>2, <1>3, <2>1
  <2> QED
    BY <2>2
<1>4. CASE k = 0
  <2>1. b = <<>>
    BY <1>1, <1>2, <1>4
  <2>2. a = <<>> \/ a[1].save > 0
    BY <1>4
  <2>3. a # <<>> => a[1].save \in Nat
    <3>1. a # <<>> => a[1] \in Entry
      BY <1>1
    <3> QED
      BY <3>1 DEF Entry
  <2>4. ~ (a # <<>> /\ a[1].save = 0)
    BY <2>2, <2>3
  <2> QED
    BY <2>1, <2>4
<1> QED
  BY <1>3, <1>4

LEMMA NestGated == ASSUME Inv, NEW t \in Tasks, Nest(t) PROVE Gated'
<1>1. /\ LockType /\ TaskType /\ ContextType /\ Placed(t)
      /\ txn[t] \in DOMAIN states /\ txn[t] # None
  BY DEF Inv, Typed, Nest, Running, Placed, ContextType
<1> DEFINE e == [state |-> txn[t], save |-> states'[txn[t]].saves, writes |-> {}]
<1>2. /\ BeginNested(txn[t]) /\ blocks' = [blocks EXCEPT ![t] = Append(@, e)]
      /\ Idle(t) /\ UNCHANGED lockVars
  BY DEF Nest
<1>3. states' \in Seq(State) /\ DOMAIN states' = DOMAIN states /\ states'[txn[t]].saves \in Nat \ {0}
  BY <1>1, <1>2, BeginNestedType
<1>4. e \in Entry /\ e.save > 0
  BY <1>1, <1>3, LenProperties DEF Entry, ContextType
<1> HIDE DEF e
<1>5. blocks'[t] = Append(blocks[t], e) /\ \A u \in Tasks \ {t} : blocks'[u] = blocks[u]
  BY <1>1, <1>2 DEF ContextType
<1>6. /\ Len(blocks[t]) \in Nat /\ (blocks[t] = <<>> <=> Len(blocks[t]) = 0)
      /\ Append(blocks[t], e) # <<>>
      /\ \A i \in 1 .. Len(blocks[t]) : Append(blocks[t], e)[i] = blocks[t][i]
      /\ Append(blocks[t], e)[Len(blocks[t]) + 1] = e
  BY <1>1, <1>4, AppendProperties, LenProperties, EmptySeq DEF ContextType
<1>7. blocks'[t] # <<>> /\ blocks'[t][1].save = 0 <=> blocks[t] # <<>> /\ blocks[t][1].save = 0
  <2>1. CASE Len(blocks[t]) = 0
    BY <1>4, <1>5, <1>6, <2>1
  <2>2. CASE Len(blocks[t]) > 0
    <3>1. 1 \in 1 .. Len(blocks[t])
      BY <1>6, <2>2
    <3> QED
      BY <1>5, <1>6, <2>2, <3>1
  <2> QED
    BY <1>6, <2>1, <2>2
<1> QED
  BY <1>1, <1>2, <1>5, <1>7, InsideGated

LEMMA AWriteGated == ASSUME Inv, NEW t \in Tasks, AWrite(t) PROVE Gated'
<1> DEFINE w == {[by |-> t, n |-> ops[t]]}
<1>1. /\ Typed /\ Gated /\ LockType /\ TaskType /\ ContextType /\ Placed(t) /\ at[t] = "running"
  BY DEF Inv, Typed, AWrite, Running
<1>2. /\ \/ txn[t] # None /\ Joined(t, txn[t], Len(blocks[t]), w)
         \/ blocks' = blocks
      /\ IF txn[t] = None THEN Opened(gate[t]) ELSE UNCHANGED holder
      /\ Idle(t) /\ asyncLock' = asyncLock /\ replaced' = replaced
  BY DEF AWrite
<1>3. CASE txn[t] = None
  <2>1. gate[t] # None /\ blocks[t] = <<>> /\ blocks' = blocks
    BY <1>1, <1>2, <1>3 DEF Placed
  <2>2. /\ gate'[t] = None /\ ~ Behind(t)'
        /\ \A u \in Tasks \ {t} : gate'[u] = gate[u] /\ (Behind(u)' <=> Behind(u))
    BY <1>1, <1>2, <2>1, IdleBehind
  <2> QED
    BY <1>1, <1>2, <1>3, <2>1, <2>2, GatedOpened
<1>4. CASE txn[t] # None
  <2>1. w \in SUBSET AnyWrite
    BY <1>1 DEF AnyWrite, TaskType
  <2> HIDE DEF w
  <2>2. CASE Joined(t, txn[t], Len(blocks[t]), w)
    <3>1. PICK k \in Nat : k = Len(blocks[t])
      BY <1>1, LenProperties DEF ContextType
    <3>2. k <= Len(blocks[t]) /\ Joined(t, txn[t], k, w)
      BY <2>2, <3>1
    <3>3. /\ blocks' \in [Tasks -> Seq(Entry)] /\ DOMAIN blocks'[t] = 1 .. k
          /\ \A i \in 1 .. k : blocks'[t][i].save = blocks[t][i].save
          /\ \A u \in Tasks \ {t} : blocks'[u] = blocks[u]
      BY <1>1, <2>1, <3>2, JoinedType
    <3>4. blocks[t] \in Seq(Entry) /\ blocks'[t] \in Seq(Entry) /\ (k > 0 \/ blocks[t] = <<>>)
      BY <1>1, <3>1, <3>3, EmptySeq DEF ContextType
    <3>5. blocks'[t] # <<>> /\ blocks'[t][1].save = 0 <=> blocks[t] # <<>> /\ blocks[t][1].save = 0
      BY <3>1, <3>3, <3>4, RootStays
    <3> QED
      BY <1>2, <1>4, <3>3, <3>5, InsideGated DEF lockVars
  <2>3. CASE blocks' = blocks
    BY <1>2, <1>4, <2>3, InsideGated DEF lockVars
  <2> QED
    BY <1>2, <2>2, <2>3
<1> QED
  BY <1>3, <1>4

\* What is left when the innermost block, which is nested, has ended.
LEMMA PoppedGated ==
    ASSUME Inv, NEW t \in Tasks, blocks[t] # <<>>, Inner(t).save # 0, Idle(t), UNCHANGED lockVars,
           blocks' \in [Tasks -> Seq(Entry)], DOMAIN blocks'[t] = 1 .. Len(blocks[t]) - 1,
           \A i \in 1 .. Len(blocks[t]) - 1 : blocks'[t][i].save = blocks[t][i].save,
           \A u \in Tasks \ {t} : blocks'[u] = blocks[u]
    PROVE  Gated'
<1>1. Typed /\ Placed(t) /\ txn[t] # None /\ blocks[t] \in Seq(Entry) /\ blocks'[t] \in Seq(Entry)
  BY DEF Inv, Typed, Placed, ContextType
<1>2. PICK k \in Nat : k = Len(blocks[t]) - 1 /\ k <= Len(blocks[t])
  BY <1>1, LastBlock
<1>3. k > 0 \/ blocks[t][1].save > 0
  <2>1. CASE k = 0
    <3>1. Len(blocks[t]) = 1
      BY <1>1, <1>2, <2>1, LastBlock
    <3>2. Inner(t) = blocks[t][1] /\ Inner(t) \in Entry
      BY <1>1, <3>1, LastBlock DEF Inner
    <3> QED
      BY <3>2 DEF Entry
  <2> QED
    BY <2>1
<1>4. blocks'[t] # <<>> /\ blocks'[t][1].save = 0 <=> blocks[t] # <<>> /\ blocks[t][1].save = 0
  BY <1>1, <1>2, <1>3, RootStays
<1> QED
  BY <1>1, <1>4, InsideGated

LEMMA ExitNestedGated == ASSUME Inv, NEW t \in Tasks, ExitNested(t) PROVE Gated'
<1> DEFINE b == Inner(t)
<1>1. TaskType /\ ContextType /\ blocks[t] # <<>> /\ Idle(t) /\ UNCHANGED lockVars /\ b.save > 0
  BY DEF Inv, Typed, ExitNested, Running, Placed
<1>2. \/ blocks' = [blocks EXCEPT ![t] = Front(@)]
      \/ Joined(t, b.state, Len(blocks[t]) - 1, b.writes)
  BY DEF ExitNested
<1>3. b \in Entry /\ Len(blocks[t]) - 1 \in Nat
  BY <1>1, LastBlock DEF Inner, ContextType
<1>4. b.writes \in SUBSET AnyWrite /\ b.save # 0
  BY <1>1, <1>3 DEF Entry
<1> HIDE DEF b
<1>5. /\ blocks' \in [Tasks -> Seq(Entry)]
      /\ DOMAIN blocks'[t] = 1 .. Len(blocks[t]) - 1
      /\ \A i \in 1 .. Len(blocks[t]) - 1 : blocks'[t][i].save = blocks[t][i].save
      /\ \A u \in Tasks \ {t} : blocks'[u] = blocks[u]
  <2>1. CASE blocks' = [blocks EXCEPT ![t] = Front(@)]
    BY <1>1, <2>1, FrontTyped
  <2>2. CASE Joined(t, b.state, Len(blocks[t]) - 1, b.writes)
    <3>1. PICK k \in Nat : k = Len(blocks[t]) - 1
      BY <1>3
    <3>2. k <= Len(blocks[t]) /\ Joined(t, b.state, k, b.writes)
      BY <1>1, <2>2, <3>1, LastBlock DEF ContextType
    <3>3. /\ blocks' \in [Tasks -> Seq(Entry)]
          /\ DOMAIN blocks'[t] = 1 .. k
          /\ \A i \in 1 .. k : blocks'[t][i].save = blocks[t][i].save
          /\ \A u \in Tasks \ {t} : blocks'[u] = blocks[u]
      BY <1>1, <1>4, <3>2, JoinedType
    <3> QED
      BY <3>1, <3>3
  <2> QED
    BY <1>2, <2>1, <2>2
<1>6. Inner(t).save # 0
  BY <1>4 DEF b
<1> QED
  BY <1>1, <1>5, <1>6, PoppedGated

LEMMA CancelCallGated == ASSUME Inv, NEW t \in Tasks, CancelCall(t) PROVE Gated'
<1>1. /\ Typed /\ Gated /\ TaskType /\ Placed(t) /\ at[t] = "running" /\ Idle(t) /\ blocks' = blocks
      /\ asyncLock' = asyncLock /\ replaced' = replaced
      /\ IF gate[t] # None THEN Opened(gate[t]) ELSE UNCHANGED holder
  BY DEF Inv, Typed, CancelCall, Cancelled, GateOpened, contextVars
<1>2. CASE gate[t] # None
  <2>1. blocks[t] = <<>>
    BY <1>1, <1>2 DEF Placed
  <2>2. /\ gate'[t] = None /\ ~ Behind(t)'
        /\ \A u \in Tasks \ {t} : gate'[u] = gate[u] /\ (Behind(u)' <=> Behind(u))
    BY <1>1, <2>1, IdleBehind
  <2> QED
    BY <1>1, <1>2, <2>2, GatedOpened
<1>3. CASE gate[t] = None
  <2>1. txn[t] # None /\ UNCHANGED lockVars
    BY <1>1, <1>3 DEF Placed, lockVars
  <2> QED
    BY <1>1, <2>1, InsideGated
<1> QED
  BY <1>2, <1>3

LEMMA CancelFinishGated == ASSUME Inv, NEW t \in Tasks, CancelFinish(t) PROVE Gated'
<1>1. /\ ContextType /\ blocks[t] # <<>> /\ Idle(t)
      /\ IF Inner(t).save = 0 THEN Cleanup(t)
         ELSE blocks' = [blocks EXCEPT ![t] = Front(@)] /\ UNCHANGED lockVars
  BY DEF Inv, Typed, Placed, CancelFinish, Cancelled, Running
<1>2. CASE Inner(t).save = 0
  BY <1>1, <1>2, CleanupGated
<1>3. CASE Inner(t).save # 0
  <2>1. /\ blocks' \in [Tasks -> Seq(Entry)]
        /\ DOMAIN blocks'[t] = 1 .. Len(blocks[t]) - 1
        /\ \A i \in 1 .. Len(blocks[t]) - 1 : blocks'[t][i].save = blocks[t][i].save
        /\ \A u \in Tasks \ {t} : blocks'[u] = blocks[u]
    BY <1>1, <1>3, FrontTyped
  <2> QED
    BY <1>1, <1>3, <2>1, PoppedGated
<1> QED
  BY <1>2, <1>3

LEMMA GatedNext == Inv /\ [Next]_vars => Gated'
<1> SUFFICES ASSUME Inv, [Next]_vars PROVE Gated'
  OBVIOUS
<1>0. Typed /\ Gated /\ LockType /\ TaskType /\ ContextType
  BY DEF Inv, Typed
<1>1. CASE UNCHANGED vars
  <2>1. UNCHANGED lockVars /\ gate' = gate /\ \A t \in Tasks : Behind(t)' <=> Behind(t)
    BY <1>1 DEF vars, lockVars, contextVars, taskVars, Behind
  <2> QED
    BY <1>0, <2>1, GatedKept
<1>2. ASSUME NEW t \in Tasks, NEW c \in {"savepoint", "write"}, Submit(t, c) PROVE Gated'
  <2>1. gate[t] = None /\ at[t] = "idle"
    BY <1>2 DEF Inv, Typed, Placed, Submit
  <2>2. /\ UNCHANGED lockVars /\ gate' = gate /\ blocks' = blocks
        /\ at' = [at EXCEPT ![t] = "running"]
    BY <1>2 DEF Submit, contextVars
  <2>3. \A u \in Tasks : Behind(u)' <=> Behind(u)
    BY <1>0, <2>1, <2>2 DEF Behind, TaskType
  <2> QED
    BY <1>0, <2>2, <2>3, GatedKept
<1>3. ASSUME NEW t \in Tasks, Leave(t) PROVE Gated'
  <2>1. gate[t] = None /\ at[t] = "idle"
    BY <1>3 DEF Inv, Typed, Placed, Leave
  <2>2. /\ UNCHANGED lockVars /\ gate' = gate /\ blocks' = blocks
        /\ at' = [at EXCEPT ![t] = "running"]
    BY <1>3 DEF Leave, contextVars
  <2>3. \A u \in Tasks : Behind(u)' <=> Behind(u)
    BY <1>0, <2>1, <2>2 DEF Behind, TaskType
  <2> QED
    BY <1>0, <2>2, <2>3, GatedKept
<1>4. ASSUME NEW t \in Tasks, NEW u \in Tasks, Spawn(t, u) PROVE Gated'
  <2>1. /\ UNCHANGED lockVars /\ gate' = gate /\ blocks' = blocks
        /\ at[u] = "absent" /\ at' = [at EXCEPT ![u] = "idle"]
    BY <1>4 DEF Spawn
  <2>2. \A v \in Tasks : Behind(v)' <=> Behind(v)
    BY <1>0, <2>1 DEF Behind, TaskType
  <2> QED
    BY <1>0, <2>1, <2>2, GatedKept
<1>5. ASSUME NEW t \in Tasks, CancelWaiting(t) PROVE Gated'
  <2>1. at[t] = "waiting" /\ Idle(t) /\ UNCHANGED lockVars /\ blocks' = blocks
    BY <1>5 DEF CancelWaiting, Cancelled, contextVars
  <2> QED
    BY <2>1, InsideGated
<1>6. ASSUME NEW t \in Tasks, ExitRoot(t) PROVE Gated'
  <2>1. blocks[t] # <<>> /\ Inner(t).save = 0 /\ Cleanup(t) /\ Idle(t)
    BY <1>6 DEF ExitRoot, Running, Inv, Typed, Placed
  <2> QED
    BY <2>1, CleanupGated
<1>7. ASSUME NEW o \in orphans, RunOrphan(o) PROVE Gated'
  <2>1. UNCHANGED lockVars /\ gate' = gate /\ \A t \in Tasks : Behind(t)' <=> Behind(t)
    BY <1>7 DEF RunOrphan, contextVars, taskVars, Behind
  <2> QED
    BY <1>0, <2>1, GatedKept
<1> QED
  BY <1>1, <1>2, <1>3, <1>4, <1>5, <1>6, <1>7, RequestGated, AcquireGated, BeginGated, NestGated,
     AWriteGated, ExitNestedGated, CancelCallGated, CancelFinishGated DEF Next, Finished

\* Whatever is cancelled, whoever inherits a block and however loops take each
\* other's gate, the tasks of a loop that still has its gate are behind it one
\* at a time, and it is not left locked by a task that is gone.
THEOREM GatesAreSerial == Spec => []GatesSerialize
<1>1. Init => Inv
  BY TypedInit, GatedInit DEF Inv
<1>2. Inv /\ [Next]_vars => Inv'
  BY TypedNext, GatedNext DEF Inv
<1>3. Inv => GatesSerialize
  <2> SUFFICES ASSUME Inv, NEW l \in Loops \ replaced
               PROVE  /\ \A t, u \in Tasks :
                            LoopOf[t] = l /\ LoopOf[u] = l /\ Behind(t) /\ Behind(u) => t = u
                      /\ asyncLock.loop = l /\ holder[asyncLock.gate] # None =>
                            Behind(holder[asyncLock.gate])
    BY DEF GatesSerialize
  <2>1. LockType /\ Gated
    BY DEF Inv, Typed
  <2>2. ASSUME NEW t \in Tasks, NEW u \in Tasks, LoopOf[t] = l, LoopOf[u] = l, Behind(t), Behind(u)
        PROVE  t = u
    BY <2>1, <2>2 DEF Gated, HoldsIt
  <2>3. ASSUME asyncLock.loop = l, holder[asyncLock.gate] # None
        PROVE  Behind(holder[asyncLock.gate])
    BY <2>1, <2>3, HolderIsTask DEF Gated, HeldBehind
  <2> QED
    BY <2>2, <2>3
<1> QED
  BY <1>1, <1>2, <1>3, PTL DEF Spec
-----------------------------------------------------------------------------
(***************************************************************************)
(* Savepoints.  Those of a connection grow along its stack: an earlier one *)
(* has no write that a later one has not.                                  *)
(***************************************************************************)
Mark == [name : Nat, own : SUBSET AnyWrite]
Tx == [at : {"closed", "idle", "begun", "writing"},
       base : SUBSET AnyWrite, own : SUBSET AnyWrite, saves : Seq(Mark)]

Marked(x) ==
    \A k \in DOMAIN x.saves :
        /\ x.saves[k].own \subseteq x.own
        /\ \A j \in DOMAIN x.saves : j <= k => x.saves[j].own \subseteq x.saves[k].own

\* The names of savepoints are numbers up to n, each above the ones before.
Rising(x, n) ==
    \A k \in DOMAIN x.saves :
        /\ x.saves[k].name <= n
        /\ \A j \in DOMAIN x.saves : j < k => x.saves[j].name < x.saves[k].name

\* What m, the writes at the i-th block of b, tells apart: those of the blocks
\* before, and those of this block and the ones in it.
Parted(b, i, m) ==
    \A k \in DOMAIN b : b[k].save > 0 =>
        IF k < i THEN b[k].writes \subseteq m ELSE b[k].writes \cap m = {}

\* The nested blocks b of a task match the savepoints of x; w are the writes of
\* the root block.
Stacked(b, x, w) ==
    \A i \in DOMAIN b : b[i].save > 0 =>
        /\ b[i].writes \subseteq x.own
        /\ \E j \in DOMAIN x.saves :
            /\ x.saves[j].name = b[i].save /\ w \subseteq x.saves[j].own
            /\ Parted(b, i, x.saves[j].own)

\* What statements do: a savepoint n on top; the stack cut below the j-th; writes
\* that may be added.
Pushed(x, y, n) == y.saves = Append(x.saves, [name |-> n, own |-> x.own]) /\ y.own = x.own
Cut(x, y, j) ==
    /\ j \in DOMAIN x.saves /\ y.saves = SubSeq(x.saves, 1, j - 1)
    /\ y.own = x.own \/ y.own = x.saves[j].own
Grown(x, y) == y.saves = x.saves /\ x.own \subseteq y.own

LEMMA Appended ==
    ASSUME NEW S, NEW s \in Seq(S), NEW e \in S
    PROVE  /\ Append(s, e) \in Seq(S) /\ Len(s) \in Nat /\ DOMAIN s = 1 .. Len(s)
           /\ Len(Append(s, e)) = Len(s) + 1 /\ DOMAIN Append(s, e) = 1 .. Len(s) + 1
           /\ Append(s, e)[Len(s) + 1] = e
           /\ \A i \in 1 .. Len(s) : Append(s, e)[i] = s[i]
<1>1. Append(s, e) \in Seq(S) /\ Len(Append(s, e)) = Len(s) + 1 /\ Append(s, e)[Len(s) + 1] = e
      /\ \A i \in 1 .. Len(s) : Append(s, e)[i] = s[i]
  BY AppendProperties
<1>2. Len(s) \in Nat /\ DOMAIN s = 1 .. Len(s)
  BY LenProperties
<1>3. DOMAIN Append(s, e) = 1 .. Len(Append(s, e))
  BY <1>1, LenProperties
<1> QED
  BY <1>1, <1>2, <1>3

LEMMA MarkTyped == ASSUME NEW x \in Tx, NEW k \in DOMAIN x.saves
                   PROVE  /\ x.saves[k] \in Mark /\ x.saves[k].name \in Nat
                          /\ x.saves[k].own \in SUBSET AnyWrite /\ k \in Nat
<1>1. x.saves \in Seq(Mark)
  BY DEF Tx
<1>2. x.saves[k] \in Mark /\ k \in Nat
  BY <1>1, LenProperties
<1> QED
  BY <1>2 DEF Mark

\* What is on top after a savepoint, and what was there before.
LEMMA PushedMarks ==
    ASSUME NEW x \in Tx, NEW y, NEW n \in Nat, Pushed(x, y, n)
    PROVE  /\ y.saves \in Seq(Mark)
           /\ \E h \in Nat :
                /\ DOMAIN x.saves = 1 .. h /\ DOMAIN y.saves = 1 .. h + 1
                /\ y.saves[h + 1].name = n /\ y.saves[h + 1].own = x.own
                /\ \A i \in 1 .. h : y.saves[i] = x.saves[i]
<1> DEFINE e == [name |-> n, own |-> x.own]
<1>1. x.saves \in Seq(Mark) /\ e \in Mark
  BY DEF Tx, Mark
<1>2. y.saves = Append(x.saves, e)
  BY DEF Pushed
<1>3. e.name = n /\ e.own = x.own
  OBVIOUS
<1> HIDE DEF e
<1>4. PICK h \in Nat : h = Len(x.saves)
  BY <1>1, LenProperties
<1>5. /\ y.saves \in Seq(Mark) /\ DOMAIN x.saves = 1 .. h /\ DOMAIN y.saves = 1 .. h + 1
      /\ y.saves[h + 1] = e /\ \A i \in 1 .. h : y.saves[i] = x.saves[i]
  BY <1>1, <1>2, <1>4, Appended
<1> QED
  BY <1>3, <1>5

LEMMA PushedMarked ==
    ASSUME NEW x \in Tx, NEW y, NEW n \in Nat, Pushed(x, y, n), Marked(x)
    PROVE  Marked(y)
<1>1. PICK h \in Nat :
        /\ DOMAIN x.saves = 1 .. h /\ DOMAIN y.saves = 1 .. h + 1
        /\ y.saves[h + 1].name = n /\ y.saves[h + 1].own = x.own
        /\ \A i \in 1 .. h : y.saves[i] = x.saves[i]
  BY PushedMarks
<1>2. y.own = x.own
  BY DEF Pushed
<1>3. \A k \in 1 .. h : y.saves[k].own \subseteq x.own
  BY <1>1 DEF Marked
<1>4. ASSUME NEW k \in 1 .. h + 1, NEW j \in 1 .. h + 1, j <= k
      PROVE  y.saves[j].own \subseteq y.saves[k].own
  <2>1. CASE k \in 1 .. h
    <3>1. j \in 1 .. h
      BY <1>4, <2>1
    <3> QED
      BY <1>1, <1>4, <2>1, <3>1 DEF Marked
  <2>2. CASE k = h + 1
    <3>1. j \in 1 .. h \/ j = h + 1
      BY <2>2
    <3> QED
      BY <1>1, <1>3, <2>2, <3>1
  <2> QED
    BY <2>1, <2>2
<1>5. \A k \in 1 .. h + 1 : y.saves[k].own \subseteq y.own
  BY <1>1, <1>2, <1>3
<1> QED
  BY <1>1, <1>4, <1>5 DEF Marked

LEMMA PushedRising ==
    ASSUME NEW x \in Tx, NEW y, NEW n \in Nat, Pushed(x, y, n + 1), Rising(x, n)
    PROVE  Rising(y, n + 1)
<1>1. PICK h \in Nat :
        /\ DOMAIN x.saves = 1 .. h /\ DOMAIN y.saves = 1 .. h + 1
        /\ y.saves[h + 1].name = n + 1
        /\ \A i \in 1 .. h : y.saves[i] = x.saves[i]
  BY PushedMarks
<1>2. \A i \in 1 .. h : y.saves[i].name \in Nat /\ y.saves[i].name <= n
  BY <1>1, MarkTyped DEF Rising
<1>3. ASSUME NEW k \in 1 .. h + 1, NEW j \in 1 .. h + 1, j < k
      PROVE  y.saves[j].name < y.saves[k].name
  <2>1. j \in 1 .. h
    BY <1>3
  <2>2. CASE k \in 1 .. h
    BY <1>1, <1>3, <2>1, <2>2 DEF Rising
  <2>3. CASE k = h + 1
    BY <1>1, <1>2, <2>1, <2>3
  <2> QED
    BY <2>2, <2>3
<1>4. ASSUME NEW k \in 1 .. h + 1 PROVE y.saves[k].name <= n + 1
  <2>1. CASE k \in 1 .. h
    BY <1>2, <2>1
  <2>2. CASE k = h + 1
    BY <1>1, <2>2
  <2> QED
    BY <2>1, <2>2
<1> QED
  BY <1>1, <1>3, <1>4 DEF Rising

LEMMA CutMarks ==
    ASSUME NEW x \in Tx, NEW y, NEW j, Cut(x, y, j)
    PROVE  /\ j \in Nat \ {0} /\ y.saves \in Seq(Mark) /\ DOMAIN y.saves = 1 .. j - 1
           /\ \A i \in 1 .. j - 1 : i \in DOMAIN x.saves /\ i <= j /\ y.saves[i] = x.saves[i]
<1>1. x.saves \in Seq(Mark)
  BY DEF Tx
<1>2. Len(x.saves) \in Nat /\ DOMAIN x.saves = 1 .. Len(x.saves)
  BY <1>1, LenProperties
<1>3. j \in 1 .. Len(x.saves) /\ y.saves = SubSeq(x.saves, 1, j - 1)
  BY <1>2 DEF Cut
<1>4. PICK k \in Nat : k = j - 1
  BY <1>2, <1>3
<1>5. k <= Len(x.saves)
  BY <1>2, <1>3, <1>4
<1>6. /\ SubSeq(x.saves, 1, k) \in Seq(Mark) /\ DOMAIN SubSeq(x.saves, 1, k) = 1 .. k
      /\ \A i \in 1 .. k : SubSeq(x.saves, 1, k)[i] = x.saves[i]
  BY <1>1, <1>5, FirstOf
<1>7. \A i \in 1 .. k : i \in DOMAIN x.saves /\ i <= j
  BY <1>2, <1>3, <1>4
<1> QED
  BY <1>2, <1>3, <1>4, <1>6, <1>7

LEMMA CutMarked ==
    ASSUME NEW x \in Tx, NEW y, NEW j, Cut(x, y, j), Marked(x)
    PROVE  Marked(y) /\ y.own \subseteq x.own
<1>1. /\ j \in Nat \ {0} /\ DOMAIN y.saves = 1 .. j - 1
      /\ \A i \in 1 .. j - 1 : i \in DOMAIN x.saves /\ i <= j /\ y.saves[i] = x.saves[i]
  BY CutMarks
<1>2. j \in DOMAIN x.saves /\ (y.own = x.own \/ y.own = x.saves[j].own)
  BY DEF Cut
<1>3. \A i \in 1 .. j - 1 : y.saves[i].own \subseteq y.own
  BY <1>1, <1>2 DEF Marked
<1> QED
  BY <1>1, <1>2, <1>3 DEF Marked

LEMMA CutRising ==
    ASSUME NEW x \in Tx, NEW y, NEW j, NEW n, Cut(x, y, j), Rising(x, n)
    PROVE  Rising(y, n)
<1>1. /\ DOMAIN y.saves = 1 .. j - 1
      /\ \A i \in 1 .. j - 1 : i \in DOMAIN x.saves /\ y.saves[i] = x.saves[i]
  BY CutMarks
<1> QED
  BY <1>1 DEF Rising

\* Names that rise find one savepoint.
LEMMA OneOfAName ==
    ASSUME NEW x \in Tx, NEW n, Rising(x, n), NEW i \in DOMAIN x.saves, NEW j \in DOMAIN x.saves,
           x.saves[i].name <= x.saves[j].name
    PROVE  i <= j
<1>1. i \in Nat /\ j \in Nat /\ x.saves[i].name \in Nat /\ x.saves[j].name \in Nat
  BY MarkTyped
<1>2. j < i => x.saves[j].name < x.saves[i].name
  BY DEF Rising
<1> QED
  BY <1>1, <1>2

-----------------------------------------------------------------------------
(***************************************************************************)
(* Blocks and the savepoints they match.                                   *)
(***************************************************************************)
LEMMA EntryTyped == ASSUME NEW b \in Seq(Entry), NEW i \in DOMAIN b
                    PROVE  i \in Nat /\ b[i] \in Entry /\ b[i].save \in Nat /\ b[i].writes \in SUBSET AnyWrite
<1>1. b[i] \in Entry /\ i \in Nat
  BY LenProperties
<1> QED
  BY <1>1 DEF Entry

LEMMA StackedAt ==
    ASSUME NEW x \in Tx, NEW n, Rising(x, n), NEW b, NEW w, Stacked(b, x, w),
           NEW i \in DOMAIN b, b[i].save > 0, NEW j \in DOMAIN x.saves, x.saves[j].name = b[i].save
    PROVE  w \subseteq x.saves[j].own /\ Parted(b, i, x.saves[j].own)
<1>1. PICK h \in DOMAIN x.saves :
        /\ x.saves[h].name = b[i].save /\ w \subseteq x.saves[h].own
        /\ Parted(b, i, x.saves[h].own)
  BY DEF Stacked
<1>2. x.saves[h].name <= x.saves[j].name /\ x.saves[j].name <= x.saves[h].name
  BY <1>1, MarkTyped
<1>3. h <= j /\ j <= h
  BY <1>2, OneOfAName
<1>4. h = j
  BY <1>3, MarkTyped
<1> QED
  BY <1>1, <1>4

LEMMA StackedGrown ==
    ASSUME NEW b, NEW x, NEW y, NEW w, Grown(x, y), Stacked(b, x, w)
    PROVE  Stacked(b, y, w)
<1>1. y.saves = x.saves /\ x.own \subseteq y.own
  BY DEF Grown
<1> QED
  BY <1>1 DEF Stacked

\* b is what is left of the blocks c once the first k are.
Shortened(c, b, k) == DOMAIN b = 1 .. k /\ \A i \in 1 .. k : i \in DOMAIN c /\ b[i] = c[i]

LEMMA StackedShortened ==
    ASSUME NEW c, NEW b, NEW k, Shortened(c, b, k), NEW x, NEW w, Stacked(c, x, w)
    PROVE  Stacked(b, x, w)
<1>1. DOMAIN b = 1 .. k /\ \A i \in 1 .. k : i \in DOMAIN c /\ b[i] = c[i]
  BY DEF Shortened
<1>2. ASSUME NEW i \in DOMAIN b, NEW m, Parted(c, i, m)
      PROVE  Parted(b, i, m)
  BY <1>1, <1>2 DEF Parted
<1> SUFFICES ASSUME NEW i \in DOMAIN b, b[i].save > 0
             PROVE  /\ b[i].writes \subseteq x.own
                    /\ \E j \in DOMAIN x.saves :
                        /\ x.saves[j].name = b[i].save /\ w \subseteq x.saves[j].own
                        /\ Parted(b, i, x.saves[j].own)
  BY DEF Stacked
<1>3. i \in DOMAIN c /\ c[i] = b[i]
  BY <1>1
<1>4. c[i].save > 0 /\ c[i].writes = b[i].writes
  BY <1>3
<1>5. c[i].writes \subseteq x.own
  BY <1>3, <1>4 DEF Stacked
<1>6. PICK j \in DOMAIN x.saves :
        /\ x.saves[j].name = c[i].save /\ w \subseteq x.saves[j].own
        /\ Parted(c, i, x.saves[j].own)
  BY <1>3, <1>4 DEF Stacked
<1>7. Parted(b, i, x.saves[j].own)
  BY <1>2, <1>6
<1> QED
  BY <1>3, <1>4, <1>5, <1>6, <1>7

LEMMA StackedPushed ==
    ASSUME NEW x \in Tx, NEW y, NEW n \in Nat, Pushed(x, y, n), NEW w, w \subseteq x.own,
           NEW b \in Seq(Entry), NEW e \in Entry, e.save = n, e.writes = {}, Stacked(b, x, w)
    PROVE  Stacked(Append(b, e), y, w)
<1> DEFINE c == Append(b, e)
<1>1. PICK h \in Nat :
        /\ DOMAIN x.saves = 1 .. h /\ DOMAIN y.saves = 1 .. h + 1
        /\ y.saves[h + 1].name = n /\ y.saves[h + 1].own = x.own
        /\ \A i \in 1 .. h : y.saves[i] = x.saves[i]
  BY PushedMarks
<1>2. PICK l \in Nat : DOMAIN b = 1 .. l /\ DOMAIN c = 1 .. l + 1 /\ c[l + 1] = e
                       /\ \A i \in 1 .. l : c[i] = b[i]
  BY Appended
<1>3. y.own = x.own
  BY DEF Pushed
<1> HIDE DEF c
<1>4. \A k \in 1 .. l : b[k].save > 0 => b[k].writes \subseteq x.own
  BY <1>2 DEF Stacked
<1>5. ASSUME NEW i \in 1 .. l, c[i].save > 0
      PROVE  /\ c[i].writes \subseteq y.own
             /\ \E j \in DOMAIN y.saves :
                 /\ y.saves[j].name = c[i].save /\ w \subseteq y.saves[j].own
                 /\ Parted(c, i, y.saves[j].own)
  <2>1. c[i] = b[i] /\ b[i].save > 0 /\ i \in DOMAIN b
    BY <1>2, <1>5
  <2>2. PICK j \in DOMAIN x.saves :
          /\ x.saves[j].name = b[i].save /\ w \subseteq x.saves[j].own
          /\ Parted(b, i, x.saves[j].own)
    BY <2>1 DEF Stacked
  <2>3. j \in 1 .. h + 1 /\ y.saves[j] = x.saves[j]
    BY <1>1, <2>2
  <2>4. Parted(c, i, x.saves[j].own)
    <3> SUFFICES ASSUME NEW k \in 1 .. l + 1, c[k].save > 0
                 PROVE  IF k < i THEN c[k].writes \subseteq x.saves[j].own
                        ELSE c[k].writes \cap x.saves[j].own = {}
      BY <1>2 DEF Parted
    <3>1. CASE k \in 1 .. l
      BY <1>2, <2>2, <3>1 DEF Parted
    <3>2. CASE k = l + 1
      BY <1>2, <3>2
    <3> QED
      BY <3>1, <3>2
  <2>5. c[i].writes \subseteq y.own
    BY <1>3, <1>4, <2>1
  <2> QED
    BY <1>1, <2>1, <2>2, <2>3, <2>4, <2>5
<1>6. /\ c[l + 1].writes \subseteq y.own
      /\ \E j \in DOMAIN y.saves :
          /\ y.saves[j].name = c[l + 1].save /\ w \subseteq y.saves[j].own
          /\ Parted(c, l + 1, y.saves[j].own)
  <2>1. h + 1 \in DOMAIN y.saves /\ y.saves[h + 1].name = c[l + 1].save
        /\ w \subseteq y.saves[h + 1].own
    BY <1>1, <1>2
  <2>2. Parted(c, l + 1, x.own)
    <3> SUFFICES ASSUME NEW k \in 1 .. l + 1, c[k].save > 0
                 PROVE  IF k < l + 1 THEN c[k].writes \subseteq x.own ELSE c[k].writes \cap x.own = {}
      BY <1>2 DEF Parted
    <3>1. CASE k \in 1 .. l
      BY <1>2, <1>4, <3>1
    <3>2. CASE k = l + 1
      BY <1>2, <3>2
    <3> QED
      BY <3>1, <3>2
  <2>3. c[l + 1].writes = {}
    BY <1>2
  <2> QED
    BY <1>1, <2>1, <2>2, <2>3
<1>7. \A i \in DOMAIN c : i \in 1 .. l \/ i = l + 1
  BY <1>2
<1>8. Stacked(c, y, w)
  BY <1>5, <1>6, <1>7 DEF Stacked
<1> QED
  BY <1>8 DEF c

\* Writes v join the k-th of the blocks c, which is the innermost that is left.
Merged(c, b, k, v) ==
    /\ k \in DOMAIN b /\ DOMAIN b = 1 .. k
    /\ \A i \in 1 .. k : i \in DOMAIN c /\ b[i].save = c[i].save
    /\ \A i \in 1 .. k : i # k => b[i].writes = c[i].writes
    /\ b[k].writes = c[k].writes \cup v
Avoids(c, k, x, v) ==
    \A i \in 1 .. k, j \in DOMAIN x.saves :
        c[i].save > 0 /\ x.saves[j].name = c[i].save => v \cap x.saves[j].own = {}

LEMMA StackedMerged ==
    ASSUME NEW c, NEW b, NEW k \in Nat, NEW v, Merged(c, b, k, v),
           NEW x, NEW w, Stacked(c, x, w), v \subseteq x.own, Avoids(c, k, x, v)
    PROVE  Stacked(b, x, w)
<1>1. /\ DOMAIN b = 1 .. k /\ \A i \in 1 .. k : i \in DOMAIN c /\ b[i].save = c[i].save
      /\ \A i \in 1 .. k : i # k => b[i].writes = c[i].writes
      /\ b[k].writes = c[k].writes \cup v
  BY DEF Merged
<1> SUFFICES ASSUME NEW i \in 1 .. k, b[i].save > 0
             PROVE  /\ b[i].writes \subseteq x.own
                    /\ \E j \in DOMAIN x.saves :
                        /\ x.saves[j].name = b[i].save /\ w \subseteq x.saves[j].own
                        /\ Parted(b, i, x.saves[j].own)
  BY <1>1 DEF Stacked
<1>2. i \in DOMAIN c /\ c[i].save = b[i].save /\ c[i].save > 0
  BY <1>1
<1>3. c[i].writes \subseteq x.own
  BY <1>2 DEF Stacked
<1>4. PICK j \in DOMAIN x.saves :
        /\ x.saves[j].name = c[i].save /\ w \subseteq x.saves[j].own
        /\ Parted(c, i, x.saves[j].own)
  BY <1>2 DEF Stacked
<1>5. v \cap x.saves[j].own = {}
  BY <1>2, <1>4 DEF Avoids
<1>6. b[i].writes \subseteq x.own
  BY <1>1, <1>3
<1>7. Parted(b, i, x.saves[j].own)
  <2> SUFFICES ASSUME NEW h \in 1 .. k, b[h].save > 0
               PROVE  IF h < i THEN b[h].writes \subseteq x.saves[j].own
                      ELSE b[h].writes \cap x.saves[j].own = {}
    BY <1>1 DEF Parted
  <2>1. h \in DOMAIN c /\ c[h].save > 0
    BY <1>1
  <2>2. IF h < i THEN c[h].writes \subseteq x.saves[j].own ELSE c[h].writes \cap x.saves[j].own = {}
    BY <1>4, <2>1 DEF Parted
  <2>3. CASE h # k
    BY <1>1, <2>2, <2>3
  <2>4. CASE h = k
    <3>1. ~(h < i)
      BY <2>4
    <3> QED
      BY <1>1, <1>5, <2>2, <2>4, <3>1
  <2> QED
    BY <2>3, <2>4
<1> QED
  BY <1>2, <1>4, <1>6, <1>7

\* The innermost block ends: its savepoint goes, and those above it.
Innermost(b) == \A i \in DOMAIN b : i # Len(b) => b[i].save < b[Len(b)].save

LEMMA StackedCut ==
    ASSUME NEW x \in Tx, NEW y, NEW j, Cut(x, y, j), Marked(x), NEW n, Rising(x, n),
           NEW b \in Seq(Entry), b # <<>>, Innermost(b), b[Len(b)].save > 0,
           x.saves[j].name = b[Len(b)].save, NEW w, Stacked(b, x, w)
    PROVE  /\ Stacked(Front(b), y, w) /\ w \subseteq y.own
           /\ b[Len(b)].writes \subseteq x.own /\ b[Len(b)].writes \cap x.saves[j].own = {}
           /\ Avoids(b, Len(b) - 1, y, b[Len(b)].writes)
<1>1. PICK l \in Nat \ {0} : l = Len(b)
  BY LastBlock
<1>2. DOMAIN b = 1 .. l /\ l \in DOMAIN b
  BY <1>1, LenProperties
<1>3. /\ j \in Nat \ {0} /\ DOMAIN y.saves = 1 .. j - 1
      /\ \A i \in 1 .. j - 1 : i \in DOMAIN x.saves /\ i <= j /\ y.saves[i] = x.saves[i]
  BY CutMarks
<1>4. j \in DOMAIN x.saves /\ (y.own = x.own \/ y.own = x.saves[j].own)
  BY DEF Cut
<1>5. w \subseteq x.saves[j].own /\ Parted(b, l, x.saves[j].own)
  BY <1>1, <1>2, <1>4, StackedAt
<1>6. x.saves[j].own \subseteq x.own /\ b[l].writes \subseteq x.own
  BY <1>1, <1>2, <1>4 DEF Marked, Stacked
<1>7. b[l].writes \cap x.saves[j].own = {}
  BY <1>1, <1>2, <1>5 DEF Parted
<1>8. w \subseteq y.own
  BY <1>4, <1>5, <1>6
<1>9. Stacked(Front(b), y, w)
  <2>1. DOMAIN Front(b) = 1 .. l - 1 /\ \A i \in 1 .. l - 1 : i \in DOMAIN b /\ Front(b)[i] = b[i]
    BY <1>1, <1>2, FrontOf
  <2>2. PICK c : c = Front(b)
    OBVIOUS
  <2> SUFFICES ASSUME NEW i \in 1 .. l - 1, c[i].save > 0
               PROVE  /\ c[i].writes \subseteq y.own
                      /\ \E h \in DOMAIN y.saves :
                          /\ y.saves[h].name = c[i].save /\ w \subseteq y.saves[h].own
                          /\ Parted(c, i, y.saves[h].own)
    BY <2>1, <2>2 DEF Stacked
  <2>3. i \in DOMAIN b /\ c[i] = b[i] /\ b[i].save > 0 /\ i < l
    BY <1>1, <2>1, <2>2
  <2>4. PICK h \in DOMAIN x.saves :
          /\ x.saves[h].name = b[i].save /\ w \subseteq x.saves[h].own
          /\ Parted(b, i, x.saves[h].own)
    BY <2>3 DEF Stacked
  <2>5. x.saves[h].name < x.saves[j].name
    BY <1>1, <1>2, <2>3, <2>4, EntryTyped DEF Innermost
  <2>6. x.saves[h].name \in Nat /\ x.saves[j].name \in Nat /\ h \in Nat /\ j \in Nat /\ h > 0
    <3>1. x.saves \in Seq(Mark)
      BY DEF Tx
    <3>2. h \in 1 .. Len(x.saves)
      BY <3>1, LenProperties
    <3> QED
      BY <1>4, <3>2, MarkTyped
  <2>7. h <= j /\ h # j
    BY <1>4, <2>5, <2>6, OneOfAName
  <2>8. h \in DOMAIN y.saves /\ y.saves[h] = x.saves[h]
    BY <1>3, <2>6, <2>7
  <2>9. Parted(c, i, x.saves[h].own)
    BY <1>2, <2>1, <2>2, <2>4 DEF Parted
  <2>10. b[i].writes \subseteq x.own /\ b[i].writes \subseteq x.saves[j].own
    BY <1>2, <1>5, <2>3 DEF Parted, Stacked
  <2> QED
    BY <1>4, <2>3, <2>4, <2>8, <2>9, <2>10
<1>10. Avoids(b, l - 1, y, b[l].writes)
  <2> SUFFICES ASSUME NEW i \in 1 .. l - 1, NEW h \in DOMAIN y.saves, b[i].save > 0,
                      y.saves[h].name = b[i].save
               PROVE  b[l].writes \cap y.saves[h].own = {}
    BY DEF Avoids
  <2>1. h \in DOMAIN x.saves /\ y.saves[h] = x.saves[h] /\ i \in DOMAIN b /\ ~(l < i)
    BY <1>2, <1>3
  <2>2. Parted(b, i, x.saves[h].own)
    BY <2>1, StackedAt
  <2> QED
    BY <1>1, <1>2, <2>1, <2>2 DEF Parted
<1> QED
  BY <1>1, <1>6, <1>7, <1>8, <1>9, <1>10

-----------------------------------------------------------------------------
(***************************************************************************)
(* Connections: one writes at a time, upon the database as it is, and only *)
(* what is not in the database yet.                                        *)
(***************************************************************************)
Sane(y) ==
    /\ y \in Tx /\ Marked(y)
    /\ y.at # "writing" => y.own = {}
    /\ y.at = "writing" => y.base = db /\ y.own \cap db = {}

Alone(c) == tx[c].at = "writing" => \A d \in Conns : tx[d].at = "writing" => d = c

Connected ==
    /\ db \subseteq AnyWrite /\ DOMAIN tx = Conns /\ tx \in [Conns -> Tx]
    /\ \A c \in Conns : Sane(tx[c]) /\ Alone(c) /\ (c \in loose => InTransaction(c))

\* Writes that are committed, or in a transaction that may commit.
There == db \cup UNION {tx[c].own : c \in Conns}

\* A transaction that was begun as one, and writes, is left open.
Lasting == \A c \in Conns : tx[c].at = "writing" /\ c \notin loose => tx'[c].at = "writing" /\ c \notin loose'

Only(c) == \A d \in Conns : d # c => tx'[d] = tx[d]

LEMMA ThereIs ==
    /\ db \subseteq There
    /\ \A c \in Conns : tx[c].own \subseteq There
    /\ \A w \in There : w \in db \/ \E c \in Conns : w \in tx[c].own
BY DEF There

LEMMA ThereTyped == Connected => There \subseteq AnyWrite
<1> SUFFICES ASSUME Connected, NEW w \in There PROVE w \in AnyWrite
  OBVIOUS
<1>1. w \in db \/ \E c \in Conns : w \in tx[c].own
  BY ThereIs
<1>2. CASE w \in db
  BY <1>2 DEF Connected
<1>3. ASSUME NEW c \in Conns, w \in tx[c].own PROVE w \in AnyWrite
  <2>1. tx[c] \in Tx
    BY DEF Connected
  <2> QED
    BY <1>3, <2>1 DEF Tx
<1> QED
  BY <1>1, <1>2, <1>3

\* What is there afterwards, when nothing but c changed.
LEMMA ThereAfter ==
    ASSUME NEW c \in Conns, Only(c), NEW V, db' \subseteq V, tx'[c].own \subseteq V, There \subseteq V
    PROVE  There' \subseteq V
<1> SUFFICES ASSUME NEW w \in There' PROVE w \in V
  OBVIOUS
<1>1. w \in db' \/ \E d \in Conns : w \in tx'[d].own
  BY DEF There
<1>2. ASSUME NEW d \in Conns, w \in tx'[d].own PROVE w \in V
  <2>1. CASE d = c
    BY <1>2, <2>1
  <2>2. CASE d # c
    <3>1. w \in tx[d].own
      BY <1>2, <2>2 DEF Only
    <3> QED
      BY <3>1, ThereIs
  <2> QED
    BY <2>1, <2>2
<1> QED
  BY <1>1, <1>2

\* One connection moves and the database does not.
LEMMA BecomeConnected ==
    ASSUME Connected, NEW c \in Conns, NEW y, Sane(y), Become(c, y), db' = db,
           y.at = "writing" => CanLock(c),
           \A d \in Conns : d \in loose' => (d \in loose \/ d = c),
           c \in loose' => y.at \in {"begun", "writing"}
    PROVE  Connected' /\ tx'[c] = y /\ Only(c)
<1>1. db \subseteq AnyWrite /\ DOMAIN tx = Conns /\ tx \in [Conns -> Tx]
  BY DEF Connected
<1>2. tx'[c] = y /\ Only(c)
  BY <1>1 DEF Become, Only
<1>3. DOMAIN tx' = Conns /\ tx' \in [Conns -> Tx] /\ db' \subseteq AnyWrite
  BY <1>1 DEF Become, Sane
<1>4. ASSUME NEW d \in Conns PROVE Sane(tx[d])'
  <2>1. Sane(tx'[d])
    BY <1>2 DEF Connected, Only
  <2> QED
    BY <2>1 DEF Sane
<1>5. ASSUME NEW d \in Conns PROVE Alone(d)'
  <2> SUFFICES ASSUME tx'[d].at = "writing", NEW e \in Conns, tx'[e].at = "writing" PROVE e = d
    BY DEF Alone
  <2>1. y.at = "writing" => \A f \in Conns : f # c => tx[f].at # "writing"
    BY DEF CanLock
  <2>2. CASE d = c
    BY <1>2, <2>1, <2>2 DEF Only
  <2>3. CASE d # c
    <3>1. tx[d].at = "writing"
      BY <1>2, <2>3 DEF Only
    <3>2. e # c
      BY <1>2, <2>1, <2>3, <3>1
    <3>3. tx[e].at = "writing"
      BY <1>2, <3>2 DEF Only
    <3> QED
      BY <3>1, <3>3 DEF Connected, Alone
  <2> QED
    BY <2>2, <2>3
<1>6. ASSUME NEW d \in Conns, d \in loose' PROVE InTransaction(d)'
  <2>1. CASE d = c
    BY <1>2, <1>6, <2>1 DEF InTransaction
  <2>2. CASE d # c
    BY <1>2, <1>6, <2>2 DEF InTransaction, Only, Connected
  <2> QED
    BY <2>1, <2>2
<1> QED
  BY <1>2, <1>3, <1>4, <1>5, <1>6 DEF Connected

LEMMA TransactionTyped ==
    ASSUME NEW a \in {"closed", "idle", "begun", "writing"}, NEW b \in SUBSET AnyWrite,
           NEW o \in SUBSET AnyWrite, NEW s \in Seq(Mark)
    PROVE  /\ Transaction(a, b, o, s) \in Tx
           /\ Transaction(a, b, o, s).at = a /\ Transaction(a, b, o, s).base = b
           /\ Transaction(a, b, o, s).own = o /\ Transaction(a, b, o, s).saves = s
BY DEF Transaction, Tx

LEMMA NoTxSane ==
    ASSUME NEW a \in {"closed", "idle", "begun"}
    PROVE  Sane(NoTx(a)) /\ NoTx(a).at = a /\ NoTx(a).own = {}
<1>1. <<>> \in Seq(Mark) /\ DOMAIN <<>> = {}
  BY EmptySeq, LenProperties
<1>2. {} \in SUBSET AnyWrite
  OBVIOUS
<1>3. /\ NoTx(a) \in Tx /\ NoTx(a).at = a /\ NoTx(a).own = {} /\ NoTx(a).saves = <<>>
  <2>1. a \in {"closed", "idle", "begun", "writing"}
    OBVIOUS
  <2>2. PICK e \in SUBSET AnyWrite : e = {}
    BY <1>2
  <2>3. PICK l \in Seq(Mark) : l = <<>>
    BY <1>1
  <2>4. NoTx(a) = Transaction(a, e, e, l)
    BY <2>2, <2>3 DEF NoTx
  <2>5. /\ Transaction(a, e, e, l) \in Tx /\ Transaction(a, e, e, l).at = a
        /\ Transaction(a, e, e, l).own = e /\ Transaction(a, e, e, l).saves = l
    BY <2>1, TransactionTyped
  <2> QED
    BY <2>2, <2>3, <2>4, <2>5
<1> QED
  BY <1>1, <1>3 DEF Sane, Marked

LEMMA FieldsTyped ==
    ASSUME Connected, NEW c \in Conns
    PROVE  /\ tx[c] \in Tx /\ Sane(tx[c]) /\ tx[c].at \in {"closed", "idle", "begun", "writing"}
           /\ tx[c].base \in SUBSET AnyWrite /\ tx[c].own \in SUBSET AnyWrite /\ tx[c].saves \in Seq(Mark)
<1>1. tx[c] \in Tx /\ Sane(tx[c])
  BY DEF Connected
<1> QED
  BY <1>1 DEF Tx

\* The connection that writes is the only one with writes of its own.
LEMMA OthersQuiet ==
    ASSUME Connected, NEW c \in Conns, tx[c].at = "writing"
    PROVE  \A d \in Conns : d # c => tx[d].at # "writing" /\ tx[d].own = {}
<1> TAKE d \in Conns
<1>1. d # c => tx[d].at # "writing"
  BY DEF Connected, Alone
<1>2. tx[d].at # "writing" => tx[d].own = {}
  BY DEF Connected, Sane
<1> QED
  BY <1>1, <1>2

-----------------------------------------------------------------------------
(***************************************************************************)
(* What each call does to its connection.                                  *)
(***************************************************************************)
LEMMA SavepointConnected ==
    ASSUME Connected, NEW c \in Conns, NEW n \in Nat, SqlSavepoint(c, n), loose' = loose
    PROVE  /\ Connected' /\ Only(c) /\ db' = db /\ There' \subseteq There
           /\ Pushed(tx[c], tx'[c], n) /\ tx'[c].at = tx[c].at
<1>1. /\ tx[c] \in Tx /\ Sane(tx[c]) /\ tx[c].at \in {"closed", "idle", "begun", "writing"}
      /\ tx[c].base \in SUBSET AnyWrite /\ tx[c].own \in SUBSET AnyWrite /\ tx[c].saves \in Seq(Mark)
  BY FieldsTyped
<1> DEFINE m == [name |-> n, own |-> tx[c].own]
           l == Append(tx[c].saves, m)
           y == Transaction(tx[c].at, tx[c].base, tx[c].own, l)
<1>2. InTransaction(c) /\ Become(c, y) /\ db' = db
  BY DEF SqlSavepoint
<1>3. m \in Mark
  BY <1>1 DEF Mark
<1>4. l \in Seq(Mark)
  <2> HIDE DEF m
  <2> QED
    BY <1>1, <1>3, Appended
<1>5. y \in Tx /\ y.at = tx[c].at /\ y.base = tx[c].base /\ y.own = tx[c].own /\ y.saves = l
  <2> HIDE DEF l
  <2> QED
    BY <1>1, <1>4, TransactionTyped
<1>6. Pushed(tx[c], y, n)
  BY <1>5 DEF Pushed
<1> HIDE DEF y
<1>7. Sane(y)
  BY <1>1, <1>5, <1>6, PushedMarked DEF Sane
<1>8. y.at = "writing" => CanLock(c)
  BY <1>5, OthersQuiet DEF CanLock
<1>9. Connected' /\ tx'[c] = y /\ Only(c)
  <2>1. y.at \in {"begun", "writing"}
    BY <1>1, <1>2, <1>5 DEF InTransaction
  <2> QED
    BY <1>2, <1>7, <1>8, <2>1, BecomeConnected
<1>10. There' \subseteq There
  BY <1>2, <1>5, <1>9, ThereAfter, ThereIs
<1> QED
  BY <1>2, <1>5, <1>6, <1>9, <1>10

\* The state a block is in keeps its connection and its writes.
OtherStates(s) ==
    \A r \in DOMAIN states :
        /\ states'[r].conn = states[r].conn /\ states[r].saves <= states'[r].saves
        /\ states'[r].writes = states[r].writes
        /\ r # s => states'[r] = states[r]

LEMMA BeginNestedConnected ==
    ASSUME Connected, ContextType, NEW s \in DOMAIN states, BeginNested(s)
    PROVE  /\ Connected' /\ Only(states[s].conn) /\ db' = db /\ There' \subseteq There /\ Lasting
           /\ OtherStates(s) /\ states'[s].saves = states[s].saves + 1
           /\ tx[states[s].conn].at = "writing" =>
                Pushed(tx[states[s].conn], tx'[states[s].conn], states[s].saves + 1)
<1>1. states \in Seq(State) /\ states[s] \in State
  BY LenProperties DEF ContextType
<1>2. PICK c \in Conns : c = states[s].conn
  BY <1>1 DEF State
<1>3. PICK n \in Nat : n = states[s].saves + 1
  BY <1>1 DEF State
<1>4. /\ states' = [states EXCEPT ![s].saves = n]
      /\ IF InTransaction(c) THEN SqlSavepoint(c, n) /\ UNCHANGED loose
         ELSE /\ Become(c, Transaction("begun", {}, {}, <<[name |-> n, own |-> {}]>>))
              /\ loose' = loose \cup {c}
              /\ UNCHANGED db
  BY <1>2, <1>3 DEF BeginNested
<1>5. /\ \A r \in DOMAIN states : states[r] \in State
      /\ states'[s].saves = n /\ states[s].saves <= n
  <2>1. \A r \in DOMAIN states : states[r] \in State
    BY <1>1, LenProperties
  <2>2. states'[s] = [states[s] EXCEPT !.saves = n]
    BY <1>4
  <2>3. states'[s].saves = n
    BY <1>1, <2>2 DEF State
  <2>4. states[s].saves <= n
    BY <1>1, <1>3 DEF State
  <2> QED
    BY <2>1, <2>3, <2>4
<1>6. OtherStates(s)
  <2> SUFFICES ASSUME NEW r \in DOMAIN states
               PROVE  /\ states'[r].conn = states[r].conn /\ states[r].saves <= states'[r].saves
                      /\ states'[r].writes = states[r].writes
                      /\ r # s => states'[r] = states[r]
    BY DEF OtherStates
  <2>1. CASE r = s
    BY <1>4, <1>5, <2>1 DEF State
  <2>2. CASE r # s
    BY <1>4, <1>5, <2>2 DEF State
  <2> QED
    BY <2>1, <2>2
<1>7. CASE InTransaction(c)
  <2>1. SqlSavepoint(c, n) /\ loose' = loose
    BY <1>4, <1>7
  <2>2. /\ Connected' /\ Only(c) /\ db' = db /\ There' \subseteq There
        /\ Pushed(tx[c], tx'[c], n) /\ tx'[c].at = tx[c].at
    BY <2>1, SavepointConnected
  <2>3. Lasting
    BY <2>1, <2>2 DEF Lasting, Only
  <2> QED
    BY <1>2, <1>3, <1>5, <1>6, <2>2, <2>3
<1>8. CASE ~InTransaction(c)
  <2> DEFINE m == [name |-> n, own |-> {}]
             l == <<m>>
             y == Transaction("begun", {}, {}, l)
  <2>1. Become(c, y) /\ loose' = loose \cup {c} /\ db' = db
    BY <1>4, <1>8
  <2>2. m \in Mark /\ m.own = {}
    BY DEF Mark
  <2>3. l \in Seq(Mark) /\ DOMAIN l = {1} /\ l[1] = m
    BY <2>2
  <2>4. y \in Tx /\ y.at = "begun" /\ y.own = {} /\ y.saves = l
    <3> HIDE DEF l
    <3>1. {} \in SUBSET AnyWrite
      OBVIOUS
    <3> QED
      BY <2>3, <3>1, TransactionTyped
  <2> HIDE DEF y, l, m
  <2>5. Sane(y)
    BY <2>2, <2>3, <2>4 DEF Sane, Marked
  <2>6. Connected' /\ tx'[c] = y /\ Only(c)
    BY <2>1, <2>4, <2>5, BecomeConnected
  <2>7. There' \subseteq There
    BY <2>1, <2>4, <2>6, ThereAfter, ThereIs
  <2>8. tx[c].at # "writing"
    BY <1>8 DEF InTransaction
  <2>9. Lasting
    BY <2>1, <2>6, <2>8 DEF Lasting, Only
  <2> QED
    BY <1>2, <1>3, <1>5, <1>6, <2>1, <2>6, <2>7, <2>8, <2>9
<1> QED
  BY <1>7, <1>8

\* A transaction ends with its writes in the database, or without them.
LEMMA CommitConnected ==
    ASSUME Connected, NEW c \in Conns, SqlCommit(c), loose' \subseteq loose, c \notin loose'
    PROVE  /\ Connected' /\ Only(c) /\ db' = db \cup tx[c].own /\ There' \subseteq There
<1>1. tx[c] \in Tx /\ Sane(tx[c]) /\ tx[c].own \in SUBSET AnyWrite
  BY FieldsTyped
<1>2. db' = db \cup tx[c].own
  BY <1>1 DEF SqlCommit, View, Sane
<1>3. DOMAIN tx = Conns /\ tx \in [Conns -> Tx] /\ db \subseteq AnyWrite
  BY DEF Connected
<1> DEFINE y == NoTx("idle")
<1>4. Sane(y) /\ y.at = "idle" /\ y.own = {}
  BY NoTxSane
<1>5. tx' = [tx EXCEPT ![c] = y]
  BY DEF SqlCommit, Become
<1>6. y \in Tx /\ Marked(y)
  BY <1>4 DEF Sane
<1> HIDE DEF y
<1>7. tx'[c] = y /\ Only(c) /\ DOMAIN tx' = Conns /\ tx' \in [Conns -> Tx]
  BY <1>3, <1>5, <1>6 DEF Only
<1>8. ASSUME NEW d \in Conns, d # c PROVE tx'[d] = tx[d] /\ (tx[d].at = "writing" => tx[c].own = {})
  <2>1. tx'[d] = tx[d]
    BY <1>7, <1>8 DEF Only
  <2>2. tx[d].at = "writing" => tx[c].at # "writing"
    BY <1>8, OthersQuiet
  <2> QED
    BY <1>1, <2>1, <2>2 DEF Sane
<1>9. ASSUME NEW d \in Conns PROVE Sane(tx[d])'
  <2>1. CASE d = c
    BY <1>4, <1>6, <1>7, <2>1 DEF Sane
  <2>2. CASE d # c
    <3>1. tx'[d] = tx[d] /\ (tx[d].at = "writing" => db' = db)
      BY <1>2, <1>8, <2>2
    <3>2. Sane(tx[d])
      BY FieldsTyped
    <3> QED
      BY <3>1, <3>2 DEF Sane
  <2> QED
    BY <2>1, <2>2
<1>10. ASSUME NEW d \in Conns PROVE Alone(d)'
  <2> SUFFICES ASSUME tx'[d].at = "writing", NEW e \in Conns, tx'[e].at = "writing" PROVE e = d
    BY DEF Alone
  <2>1. d # c /\ e # c
    BY <1>4, <1>7
  <2> QED
    BY <1>8, <2>1, OthersQuiet
<1>11. ASSUME NEW d \in Conns, d \in loose' PROVE InTransaction(d)'
  BY <1>7, <1>11 DEF InTransaction, Only, Connected
<1>12. Connected'
  BY <1>1, <1>2, <1>3, <1>7, <1>9, <1>10, <1>11 DEF Connected
<1>13. There' \subseteq There
  BY <1>2, <1>4, <1>7, ThereAfter, ThereIs
<1> QED
  BY <1>2, <1>7, <1>12, <1>13

LEMMA RollbackConnected ==
    ASSUME Connected, NEW c \in Conns, SqlRollback(c), loose' \subseteq loose, c \notin loose'
    PROVE  /\ Connected' /\ Only(c) /\ db' = db /\ There' \subseteq There
           /\ There' \cap tx[c].own = {}
<1> DEFINE y == NoTx("idle")
<1>1. Sane(y) /\ y.at = "idle" /\ y.own = {}
  BY NoTxSane
<1>2. Become(c, y) /\ db' = db
  BY DEF SqlRollback
<1> HIDE DEF y
<1>3. Connected' /\ tx'[c] = y /\ Only(c)
  <2>1. \A d \in Conns : d \in loose' => (d \in loose \/ d = c)
    OBVIOUS
  <2> QED
    BY <1>1, <1>2, <2>1, BecomeConnected
<1>4. There' \subseteq There
  BY <1>1, <1>2, <1>3, ThereAfter, ThereIs
<1>5. ASSUME NEW w \in tx[c].own PROVE w \notin There'
  <2>1. tx[c].at = "writing" /\ w \notin db'
    BY <1>2, <1>5, FieldsTyped DEF Sane
  <2>2. \A d \in Conns : tx'[d].own = {}
    BY <1>1, <1>3, <2>1, OthersQuiet DEF Only
  <2> QED
    BY <2>1, <2>2 DEF There
<1> QED
  BY <1>2, <1>3, <1>4, <1>5

\* A write outside any transaction is in the database, and nobody has the lock.
LEMMA AutoConnected ==
    ASSUME Connected, NEW w \in AnyWrite, db' = db \cup {w}, tx' = tx, loose' = loose,
           \A c \in Conns : tx[c].at # "writing"
    PROVE  Connected' /\ There' \subseteq There \cup {w}
<1>1. ASSUME NEW d \in Conns PROVE Sane(tx[d])'
  BY FieldsTyped DEF Sane
<1>2. ASSUME NEW d \in Conns PROVE Alone(d)'
  BY DEF Alone
<1>3. ASSUME NEW d \in Conns, d \in loose' PROVE InTransaction(d)'
  BY <1>3 DEF InTransaction, Connected
<1>4. DOMAIN tx' = Conns /\ tx' \in [Conns -> Tx] /\ db' \subseteq AnyWrite
  BY DEF Connected
<1> QED
  BY <1>1, <1>2, <1>3, <1>4 DEF Connected, There

LEMMA TxnWriteConnected ==
    ASSUME Connected, NEW c \in Conns, NEW w \in AnyWrite, w \notin There, SqlTxnWrite(c, w), loose' = loose
    PROVE  /\ Connected' /\ Only(c) /\ db' = db /\ There' \subseteq There \cup {w}
           /\ Grown(tx[c], tx'[c]) /\ w \in tx'[c].own /\ tx'[c].at = "writing"
           /\ InTransaction(c) /\ (tx[c].at # "writing" => CanLock(c))
<1>1. /\ tx[c] \in Tx /\ Sane(tx[c]) /\ tx[c].at \in {"closed", "idle", "begun", "writing"}
      /\ tx[c].base \in SUBSET AnyWrite /\ tx[c].own \in SUBSET AnyWrite /\ tx[c].saves \in Seq(Mark)
  BY FieldsTyped
<1> DEFINE b == IF tx[c].at = "begun" THEN db ELSE tx[c].base
           o == tx[c].own \cup {w}
           y == Transaction("writing", b, o, tx[c].saves)
<1>2. InTransaction(c) /\ (tx[c].at # "writing" => CanLock(c)) /\ Become(c, y) /\ db' = db
  BY DEF SqlTxnWrite
<1>3. b \in SUBSET AnyWrite /\ o \in SUBSET AnyWrite /\ b = db
  BY <1>1, <1>2 DEF Connected, InTransaction, Sane
<1>4. y \in Tx /\ y.at = "writing" /\ y.base = b /\ y.own = o /\ y.saves = tx[c].saves
  <2> HIDE DEF b, o
  <2> QED
    BY <1>1, <1>3, TransactionTyped
<1>5. o \cap db = {}
  <2>1. tx[c].own \cap db = {}
    BY <1>1 DEF Sane
  <2> QED
    BY <2>1, ThereIs
<1>6. Grown(tx[c], y) /\ w \in y.own
  BY <1>4 DEF Grown
<1>7. Marked(y)
  BY <1>1, <1>4 DEF Sane, Marked
<1> HIDE DEF y, b
<1>8. Sane(y)
  BY <1>3, <1>4, <1>5, <1>7 DEF Sane
<1>9. y.at = "writing" => CanLock(c)
  BY <1>2, OthersQuiet DEF CanLock
<1>10. Connected' /\ tx'[c] = y /\ Only(c)
  <2>1. c \in loose' => y.at \in {"begun", "writing"}
    BY <1>4
  <2> QED
    BY <1>2, <1>8, <1>9, <2>1, BecomeConnected
<1>11. There' \subseteq There \cup {w}
  <2>1. db' \subseteq There \cup {w} /\ tx'[c].own \subseteq There \cup {w}
    BY <1>2, <1>4, <1>10, ThereIs
  <2> QED
    BY <1>10, <2>1, ThereAfter
<1> QED
  BY <1>2, <1>4, <1>6, <1>10, <1>11

LEMMA WriteConnected ==
    ASSUME Connected, ContextType, NEW s \in DOMAIN states \cup {None}, NEW w \in AnyWrite,
           w \notin There, Write(s, w), loose' = loose
    PROVE  /\ Connected' /\ db \subseteq db' /\ There' \subseteq There \cup {w} /\ Lasting
           /\ \A c \in Conns : tx[c].at = "writing" => Grown(tx[c], tx'[c])
           /\ s # None /\ CanWrite(s) /\ tx[states[s].conn].at = "writing" => w \in tx'[states[s].conn].own
           /\ CanWrite(s) /\ (s = None \/ ~InTransaction(states[s].conn)) => w \in db'
<1>0. \A c \in Conns : Grown(tx[c], tx[c])
  BY DEF Grown
<1>1. CASE ~CanWrite(s)
  <2>1. db' = db /\ tx' = tx
    BY <1>1 DEF Write, sqlVars
  <2>2. ASSUME NEW d \in Conns PROVE Sane(tx[d])' /\ Alone(d)' /\ (d \in loose' => InTransaction(d)')
    BY <2>1, FieldsTyped DEF Sane, Alone, InTransaction, Connected
  <2>3. Connected'
    BY <2>1, <2>2 DEF Connected
  <2>4. There' = There /\ Lasting
    BY <2>1 DEF There, Lasting
  <2> QED
    BY <1>0, <1>1, <2>1, <2>3, <2>4
<1>2. CASE CanWrite(s) /\ s = None
  <2>1. db' = db \cup {w} /\ tx' = tx /\ \A c \in Conns : tx[c].at # "writing"
    BY <1>2 DEF Write, CanWrite
  <2>2. Connected' /\ There' \subseteq There \cup {w}
    BY <2>1, AutoConnected
  <2> QED
    BY <1>0, <1>2, <2>1, <2>2 DEF Lasting
<1>3. CASE CanWrite(s) /\ s # None
  <2>1. s \in DOMAIN states /\ states[s] \in State
    BY <1>3, LenProperties DEF ContextType
  <2>2. PICK c \in Conns : c = states[s].conn
    BY <2>1 DEF State
  <2>3. SqlAutoWrite(c, w) \/ SqlTxnWrite(c, w)
    BY <1>3, <2>2 DEF Write, SqlWrite
  <2>4. CASE SqlAutoWrite(c, w)
    <3>1. /\ db' = db \cup {w} /\ tx' = tx /\ tx[c].at = "idle"
          /\ \A d \in Conns : tx[d].at # "writing"
      BY <2>4 DEF SqlAutoWrite, CanLock
    <3>2. Connected' /\ There' \subseteq There \cup {w}
      BY <3>1, AutoConnected
    <3> QED
      BY <1>0, <2>2, <3>1, <3>2 DEF Lasting
  <2>5. CASE SqlTxnWrite(c, w)
    <3>1. /\ Connected' /\ Only(c) /\ db' = db /\ There' \subseteq There \cup {w}
          /\ Grown(tx[c], tx'[c]) /\ w \in tx'[c].own /\ tx'[c].at = "writing"
          /\ InTransaction(c)
      BY <2>5, TxnWriteConnected
    <3>2. Lasting
      BY <3>1 DEF Lasting, Only
    <3>3. \A d \in Conns : Grown(tx[d], tx'[d])
      BY <1>0, <3>1 DEF Only
    <3> QED
      BY <1>3, <2>2, <3>1, <3>2, <3>3
  <2> QED
    BY <2>3, <2>4, <2>5
<1> QED
  BY <1>1, <1>2, <1>3

\* A savepoint is released, or what follows it undone.
CutTo(x, o, j) == Transaction(x.at, x.base, o, SubSeq(x.saves, 1, j - 1))

LEMMA CutTx ==
    ASSUME NEW x \in Tx, Marked(x), NEW j \in DOMAIN x.saves, NEW o, o = x.own \/ o = x.saves[j].own
    PROVE  /\ CutTo(x, o, j) \in Tx /\ Cut(x, CutTo(x, o, j), j) /\ Marked(CutTo(x, o, j))
           /\ CutTo(x, o, j).at = x.at /\ CutTo(x, o, j).base = x.base
           /\ CutTo(x, o, j).own = o /\ o \subseteq x.own
<1> DEFINE l == SubSeq(x.saves, 1, j - 1)
           y == Transaction(x.at, x.base, o, l)
<1>1. /\ x.at \in {"closed", "idle", "begun", "writing"} /\ x.base \in SUBSET AnyWrite
      /\ x.own \in SUBSET AnyWrite /\ x.saves \in Seq(Mark) /\ x.saves[j].own \in SUBSET AnyWrite
  BY MarkTyped DEF Tx
<1>2. o \in SUBSET AnyWrite /\ o \subseteq x.own
  BY <1>1 DEF Marked
<1>3. PICK k \in Nat : k = j - 1 /\ k <= Len(x.saves)
  BY <1>1, LenProperties
<1>4. l \in Seq(Mark)
  BY <1>1, <1>3, FirstOf
<1>5. y \in Tx /\ y.at = x.at /\ y.base = x.base /\ y.own = o /\ y.saves = l
  <2> HIDE DEF l
  <2> QED
    BY <1>1, <1>2, <1>4, TransactionTyped
<1>6. Cut(x, y, j)
  BY <1>5 DEF Cut
<1> HIDE DEF y, l
<1>7. Marked(y)
  BY <1>6, CutMarked
<1>8. y = CutTo(x, o, j)
  BY DEF y, l, CutTo
<1> QED
  BY <1>2, <1>5, <1>6, <1>7, <1>8

LEMMA CutConnected ==
    ASSUME Connected, NEW c \in Conns, NEW j \in DOMAIN tx[c].saves,
           NEW o, o = tx[c].own \/ o = tx[c].saves[j].own,
           Become(c, Transaction(tx[c].at, tx[c].base, o, SubSeq(tx[c].saves, 1, j - 1))),
           db' = db, loose' = loose
    PROVE  /\ Connected' /\ Only(c) /\ There' \subseteq There
           /\ Cut(tx[c], tx'[c], j) /\ tx'[c].at = tx[c].at /\ tx'[c].own = o
<1> DEFINE y == CutTo(tx[c], o, j)
<1>1. tx[c] \in Tx /\ Sane(tx[c]) /\ tx[c].at \in {"closed", "idle", "begun", "writing"}
  BY FieldsTyped
<1>2. Marked(tx[c])
  BY <1>1 DEF Sane
<1>3. /\ y \in Tx /\ Cut(tx[c], y, j) /\ Marked(y)
      /\ y.at = tx[c].at /\ y.base = tx[c].base /\ y.own = o /\ o \subseteq tx[c].own
  BY <1>1, <1>2, CutTx
<1>4. Become(c, y)
  BY DEF CutTo
<1> HIDE DEF y
<1>5. Sane(y)
  BY <1>1, <1>3 DEF Sane
<1>6. y.at = "writing" => CanLock(c)
  BY <1>3, OthersQuiet DEF CanLock
<1>7. c \in loose' => y.at \in {"begun", "writing"}
  BY <1>1, <1>3 DEF Connected, InTransaction
<1>8. Connected' /\ tx'[c] = y /\ Only(c)
  BY <1>4, <1>5, <1>6, <1>7, BecomeConnected
<1>9. There' \subseteq There
  <2>1. db' \subseteq There /\ tx'[c].own \subseteq There
    BY <1>3, <1>8, ThereIs
  <2> QED
    BY <1>8, <2>1, ThereAfter
<1> QED
  BY <1>3, <1>8, <1>9

LEMMA ReleaseConnected ==
    ASSUME Connected, NEW c \in Conns, NEW n, NEW f, loose' = loose,
           IF f THEN SqlRollbackToAndRelease(c, n) ELSE SqlRelease(c, n)
    PROVE  /\ Connected' /\ Only(c) /\ db' = db /\ There' \subseteq There /\ tx'[c].at = tx[c].at
           /\ \E j \in DOMAIN tx[c].saves :
                /\ Cut(tx[c], tx'[c], j) /\ tx[c].saves[j].name = n
                /\ f => tx'[c].own = tx[c].saves[j].own
                /\ ~f => tx'[c].own = tx[c].own
<1>1. CASE f
  <2>1. PICK j \in DOMAIN tx[c].saves :
          /\ Latest(c, n, j)
          /\ Become(c, Transaction(tx[c].at, tx[c].base, tx[c].saves[j].own, SubSeq(tx[c].saves, 1, j - 1)))
          /\ db' = db
    BY <1>1 DEF SqlRollbackToAndRelease
  <2>2. PICK o : o = tx[c].saves[j].own
    OBVIOUS
  <2>3. /\ Connected' /\ Only(c) /\ There' \subseteq There
        /\ Cut(tx[c], tx'[c], j) /\ tx'[c].at = tx[c].at /\ tx'[c].own = o
    BY <2>1, <2>2, CutConnected
  <2> QED
    BY <1>1, <2>1, <2>2, <2>3 DEF Latest
<1>2. CASE ~f
  <2>1. PICK j \in DOMAIN tx[c].saves :
          /\ Latest(c, n, j)
          /\ Become(c, Transaction(tx[c].at, tx[c].base, tx[c].own, SubSeq(tx[c].saves, 1, j - 1)))
          /\ db' = db
    BY <1>2 DEF SqlRelease
  <2>2. PICK o : o = tx[c].own
    OBVIOUS
  <2>3. /\ Connected' /\ Only(c) /\ There' \subseteq There
        /\ Cut(tx[c], tx'[c], j) /\ tx'[c].at = tx[c].at /\ tx'[c].own = o
    BY <2>1, <2>2, CutConnected
  <2> QED
    BY <1>2, <2>1, <2>2, <2>3 DEF Latest
<1> QED
  BY <1>1, <1>2

\* Nothing changes in the connections.
LEMMA StillConnected ==
    ASSUME Connected, UNCHANGED <<sqlVars, loose>>
    PROVE  Connected' /\ There' = There /\ Lasting
<1>1. db' = db /\ tx' = tx /\ loose' = loose
  BY DEF sqlVars
<1>2. ASSUME NEW d \in Conns PROVE Sane(tx[d])' /\ Alone(d)' /\ (d \in loose' => InTransaction(d)')
  BY <1>1, FieldsTyped DEF Sane, Alone, InTransaction, Connected
<1> QED
  BY <1>1, <1>2 DEF Connected, There, Lasting

LEMMA FinishNestedConnected ==
    ASSUME Connected, ContextType, NEW s \in DOMAIN states, NEW n, NEW f, FinishNested(s, n, f)
    PROVE  LET c == states[s].conn
           IN  /\ Connected' /\ Only(c) /\ db \subseteq db' /\ There' \subseteq There /\ Lasting
               /\ tx[c].at = "writing" /\ c \notin loose => db' = db
               /\ \A m, i \in Nat :
                    tx[c].at = "writing" /\ c \notin loose /\ Rising(tx[c], m)
                    /\ i \in DOMAIN tx[c].saves /\ tx[c].saves[i].name = n =>
                        \E j \in DOMAIN tx[c].saves :
                            /\ Cut(tx[c], tx'[c], j) /\ tx[c].saves[j].name = n
                            /\ f => tx'[c].own = tx[c].saves[j].own
                            /\ ~f => tx'[c].own = tx[c].own
<1>1. states[s] \in State
  BY LenProperties DEF ContextType
<1>2. PICK c \in Conns : c = states[s].conn
  BY <1>1 DEF State
<1>3. IF \A i \in DOMAIN tx[c].saves : ~Latest(c, n, i) THEN UNCHANGED <<sqlVars, loose>>
      ELSE IF c \in loose /\ Latest(c, n, 1)
      THEN /\ IF f THEN SqlRollback(c) ELSE SqlCommit(c)
           /\ loose' = loose \ {c}
      ELSE /\ IF f THEN SqlRollbackToAndRelease(c, n) ELSE SqlRelease(c, n)
           /\ UNCHANGED loose
  BY <1>2 DEF FinishNested
<1> SUFFICES /\ Connected' /\ Only(c) /\ db \subseteq db' /\ There' \subseteq There /\ Lasting
             /\ tx[c].at = "writing" /\ c \notin loose => db' = db
             /\ \A m, i \in Nat :
                    tx[c].at = "writing" /\ c \notin loose /\ Rising(tx[c], m)
                    /\ i \in DOMAIN tx[c].saves /\ tx[c].saves[i].name = n =>
                        \E j \in DOMAIN tx[c].saves :
                            /\ Cut(tx[c], tx'[c], j) /\ tx[c].saves[j].name = n
                            /\ f => tx'[c].own = tx[c].saves[j].own
                            /\ ~f => tx'[c].own = tx[c].own
  BY <1>2
<1>4. CASE \A i \in DOMAIN tx[c].saves : ~Latest(c, n, i)
  <2>1. UNCHANGED <<sqlVars, loose>>
    BY <1>3, <1>4
  <2>2. db' = db /\ Only(c) /\ There' \subseteq There /\ Connected' /\ Lasting
    BY <2>1, StillConnected DEF sqlVars, Only
  <2>3. ASSUME NEW m \in Nat, NEW i \in Nat, Rising(tx[c], m), i \in DOMAIN tx[c].saves,
               tx[c].saves[i].name = n
        PROVE  FALSE
    <3>1. ASSUME NEW j \in DOMAIN tx[c].saves, j > i PROVE tx[c].saves[j].name # n
      <4>1. tx[c].saves[i].name < tx[c].saves[j].name
        BY <2>3, <3>1 DEF Rising
      <4>2. tx[c].saves[i].name \in Nat
        BY <2>3, MarkTyped, FieldsTyped
      <4> QED
        BY <2>3, <4>1, <4>2
    <3>2. Latest(c, n, i)
      BY <2>3, <3>1 DEF Latest
    <3> QED
      BY <1>4, <2>3, <3>2
  <2> QED
    BY <2>2, <2>3
<1>5. CASE ~(\A i \in DOMAIN tx[c].saves : ~Latest(c, n, i)) /\ c \in loose /\ Latest(c, n, 1)
  <2>1. (IF f THEN SqlRollback(c) ELSE SqlCommit(c)) /\ loose' = loose \ {c}
    BY <1>3, <1>5
  <2>2. loose' \subseteq loose /\ c \notin loose'
    BY <2>1
  <2>3. Connected' /\ Only(c) /\ db \subseteq db' /\ There' \subseteq There
    <3>1. CASE f
      BY <2>1, <2>2, <3>1, RollbackConnected
    <3>2. CASE ~f
      BY <2>1, <2>2, <3>2, CommitConnected
    <3> QED
      BY <3>1, <3>2
  <2>4. Lasting
    BY <1>5, <2>2, <2>3 DEF Lasting, Only
  <2> QED
    BY <1>5, <2>3, <2>4
<1>6. CASE ~(\A i \in DOMAIN tx[c].saves : ~Latest(c, n, i)) /\ ~(c \in loose /\ Latest(c, n, 1))
  <2>1. (IF f THEN SqlRollbackToAndRelease(c, n) ELSE SqlRelease(c, n)) /\ loose' = loose
    BY <1>3, <1>6
  <2>2. /\ Connected' /\ Only(c) /\ db' = db /\ There' \subseteq There /\ tx'[c].at = tx[c].at
        /\ \E j \in DOMAIN tx[c].saves :
             /\ Cut(tx[c], tx'[c], j) /\ tx[c].saves[j].name = n
             /\ f => tx'[c].own = tx[c].saves[j].own
             /\ ~f => tx'[c].own = tx[c].own
    BY <2>1, ReleaseConnected
  <2>3. Lasting
    BY <2>1, <2>2 DEF Lasting, Only
  <2> QED
    BY <2>2, <2>3
<1> QED
  BY <1>4, <1>5, <1>6

\* A root block ends the transaction it has held.
Held(s) == tx[states[s].conn].at = "writing" /\ states[s].conn \notin loose

LEMMA FinishRootConnected ==
    ASSUME Connected, ContextType, NEW s \in DOMAIN states, Held(s), NEW f, FinishRoot(s, f)
    PROVE  LET c == states[s].conn
           IN  /\ Connected' /\ db \subseteq db' /\ There' \subseteq There
               /\ f => There' \cap tx[c].own = {}
               /\ ~f => tx[c].own \subseteq db'
<1>1. states[s] \in State
  BY LenProperties DEF ContextType
<1>2. PICK c \in Conns : c = states[s].conn
  BY <1>1 DEF State
<1>3. c \notin loose /\ loose' = loose /\ IF f THEN SqlRollback(c) ELSE SqlCommit(c)
  BY <1>2 DEF FinishRoot, Held
<1>4. CASE f
  BY <1>2, <1>3, <1>4, RollbackConnected
<1>5. CASE ~f
  BY <1>2, <1>3, <1>5, CommitConnected
<1> QED
  BY <1>4, <1>5

\* BEGIN IMMEDIATE takes the lock when nobody has it, and disturbs nobody who has.
LEMMA BeginRootConnected ==
    ASSUME Connected, NEW c \in Conns, BeginRoot(c)
    PROVE  /\ Connected' /\ db' = db /\ There' \subseteq There /\ loose' = loose
           /\ \A d \in Conns : tx[d].at = "writing" => tx'[d] = tx[d]
           /\ CanBegin(c) => /\ \A d \in Conns : tx[d].at # "writing"
                             /\ tx'[c].at = "writing" /\ c \notin loose
                             /\ tx'[c].saves = <<>> /\ tx'[c].own = {}
<1>1. db' = db /\ loose' = loose
  BY DEF BeginRoot
<1>2. CASE CanBegin(c)
  <2> DEFINE y == Transaction("writing", db, {}, <<>>)
  <2>1. tx' = [tx EXCEPT ![c] = y]
    <3> HIDE DEF y
    <3>1. tx' = [tx EXCEPT ![c] = CASE CanBegin(c) -> y [] InTransaction(c) -> @ [] OTHER -> NoTx("idle")]
      BY DEF BeginRoot, y
    <3>2. ~InTransaction(c)
      BY <1>2 DEF CanBegin
    <3> QED
      BY <1>2, <3>1, <3>2
  <2>0. PICK e, l : e = {} /\ l = <<>>
    OBVIOUS
  <2>2. l \in Seq(Mark) /\ DOMAIN l = {} /\ e \in SUBSET AnyWrite /\ db \in SUBSET AnyWrite
    BY <2>0, EmptySeq, LenProperties DEF Connected
  <2>3. y \in Tx /\ y.at = "writing" /\ y.base = db /\ y.own = e /\ y.saves = l
    <3>1. y = Transaction("writing", db, e, l)
      BY <2>0
    <3>2. /\ Transaction("writing", db, e, l) \in Tx /\ Transaction("writing", db, e, l).at = "writing"
          /\ Transaction("writing", db, e, l).base = db /\ Transaction("writing", db, e, l).own = e
          /\ Transaction("writing", db, e, l).saves = l
      BY <2>2 DEF Transaction, Tx
    <3> HIDE DEF y
    <3> QED
      BY <3>1, <3>2
  <2> HIDE DEF y
  <2>4. Sane(y) /\ Become(c, y)
    BY <2>0, <2>1, <2>2, <2>3 DEF Sane, Marked, Become
  <2>5. ~InTransaction(c) /\ CanLock(c)
    BY <1>2 DEF CanBegin
  <2>6. \A d \in Conns : tx[d].at # "writing"
    BY <2>5 DEF CanLock, InTransaction
  <2>7. c \notin loose
    BY <2>5 DEF Connected
  <2>8. Connected' /\ tx'[c] = y /\ Only(c)
    BY <1>1, <2>3, <2>4, <2>5, <2>7, BecomeConnected
  <2>9. There' \subseteq There
    BY <1>1, <2>0, <2>3, <2>8, ThereAfter, ThereIs
  <2> QED
    BY <1>1, <2>0, <2>3, <2>6, <2>7, <2>8, <2>9 DEF Only
<1>3. CASE ~CanBegin(c) /\ InTransaction(c)
  <2>1. tx' = tx
    <3>1. tx' = [tx EXCEPT ![c] = tx[c]]
      BY <1>3 DEF BeginRoot
    <3> QED
      BY <3>1 DEF Connected
  <2>2. UNCHANGED <<sqlVars, loose>>
    BY <1>1, <2>1 DEF sqlVars
  <2> QED
    BY <1>1, <1>3, <2>1, <2>2, StillConnected
<1>4. CASE ~CanBegin(c) /\ ~InTransaction(c)
  <2> DEFINE y == NoTx("idle")
  <2>1. tx' = [tx EXCEPT ![c] = y]
    BY <1>4 DEF BeginRoot
  <2>2. Sane(y) /\ y.at = "idle" /\ y.own = {}
    BY NoTxSane
  <2> HIDE DEF y
  <2>3. c \notin loose /\ tx[c].at # "writing"
    BY <1>4 DEF Connected, InTransaction
  <2>4. Connected' /\ tx'[c] = y /\ Only(c)
    BY <1>1, <2>1, <2>2, <2>3, BecomeConnected DEF Become
  <2>5. There' \subseteq There
    BY <1>1, <2>2, <2>4, ThereAfter, ThereIs
  <2> QED
    BY <1>1, <1>4, <2>3, <2>4, <2>5 DEF Only
<1> QED
  BY <1>2, <1>3, <1>4

-----------------------------------------------------------------------------
(***************************************************************************)
(* The invariant behind BlocksWhole.  All the blocks of a task are of the  *)
(* state its context has, with savepoints that rise.                       *)
(***************************************************************************)
InState(t) ==
    \A i \in DOMAIN blocks[t] :
        /\ blocks[t][i].state = txn[t] /\ blocks[t][i].save <= states[txn[t]].saves
        /\ \A j \in DOMAIN blocks[t] : i < j => blocks[t][i].save < blocks[t][j].save

RootTask(t) == blocks[t] # <<>> /\ blocks[t][1].save = 0
RootOrphan(o) == o.call = "finish" /\ o.save = 0

\* One root block is open at a time, or on its way out in a call nobody waits for;
\* its connection writes.
Roots ==
    /\ \A t \in Tasks : RootTask(t) => Held(txn[t]) /\ \A u \in Tasks : RootTask(u) => u = t
    /\ \A o \in orphans : RootOrphan(o) =>
        /\ Held(o.state)
        /\ \A p \in orphans : RootOrphan(p) => p = o
        /\ \A t \in Tasks : ~RootTask(t)

\* A write that has been issued, other than by the call its task is in.
Issued(w) == w \in AnyWrite /\ w.n <= ops[w.by] /\ (call[w.by] = "write" => w.n # ops[w.by])

OrphanType(o) ==
    /\ o.save \in Nat
    /\ o.state \in DOMAIN states \cup {None}
    /\ o.call \in {"savepoint", "finish"} => o.state # None

\* No write is made twice, and none that was promised or undone is made again.
Fresh ==
    /\ \A w \in There \cup undone : Issued(w)
    /\ \A o \in orphans :
        /\ OrphanType(o)
        /\ o.call = "write" =>
            /\ Issued(o.write) /\ o.write \notin There \cup undone
            /\ \A p \in orphans : p.call = "write" /\ p.write = o.write => p = o
    /\ undone \cap There = {} /\ promised \subseteq db

\* The open root block, if nobody disturbed it: its writes are in its transaction,
\* and one task has blocks in it, which match the savepoints.
Deep(u) == \E i \in DOMAIN blocks[u] : blocks[u][i].save > 0
Sound(s) ==
    /\ Rising(tx[states[s].conn], states[s].saves)
    /\ states[s].writes \subseteq tx[states[s].conn].own
    /\ \A u, v \in Tasks : txn[u] = s /\ txn[v] = s /\ Deep(u) /\ Deep(v) => u = v
    /\ \A u \in Tasks : txn[u] = s => Stacked(blocks[u], tx[states[s].conn], states[s].writes)
Whole == \A t \in Tasks : RootTask(t) /\ txn[t] \notin mixed => Sound(txn[t])

Intact == Connected /\ (\A t \in Tasks : InState(t)) /\ Roots /\ Fresh /\ Whole
WholeInv == Typed /\ Intact

-----------------------------------------------------------------------------
(***************************************************************************)
(* What each part of it needs of a step.                                   *)
(***************************************************************************)
LEMMA TypesOf ==
    ASSUME Typed
    PROVE  /\ states \in Seq(State) /\ DOMAIN txn = Tasks /\ DOMAIN blocks = Tasks
           /\ DOMAIN ops = Tasks /\ DOMAIN call = Tasks /\ LockType /\ TaskType /\ ContextType
           /\ \A r \in DOMAIN states :
                /\ states[r] \in State /\ states[r].conn \in Conns /\ states[r].saves \in Nat
                /\ states[r].writes \in SUBSET AnyWrite /\ r \in Nat \ {0}
           /\ \A t \in Tasks :
                /\ blocks[t] \in Seq(Entry) /\ txn[t] \in DOMAIN states \cup {None}
                /\ ops[t] \in Nat /\ Placed(t)
                /\ blocks[t] # <<>> => txn[t] \in DOMAIN states
<1>1. LockType /\ TaskType /\ ContextType /\ \A t \in Tasks : Placed(t)
  BY DEF Typed
<1>2. states \in Seq(State)
  BY <1>1 DEF ContextType
<1>3. \A r \in DOMAIN states : states[r] \in State /\ r \in Nat \ {0}
  BY <1>2, LenProperties
<1>4. \A r \in DOMAIN states : /\ states[r].conn \in Conns /\ states[r].saves \in Nat
                               /\ states[r].writes \in SUBSET AnyWrite
  BY <1>3 DEF State
<1>5. \A t \in Tasks : blocks[t] \in Seq(Entry) /\ txn[t] \in DOMAIN states \cup {None}
                       /\ (blocks[t] # <<>> => txn[t] \in DOMAIN states)
  BY <1>1 DEF ContextType, Placed
<1>6. DOMAIN txn = Tasks /\ DOMAIN blocks = Tasks
  BY <1>1 DEF ContextType
<1>7. DOMAIN ops = Tasks /\ DOMAIN call = Tasks /\ \A t \in Tasks : ops[t] \in Nat
  BY <1>1 DEF TaskType
<1> QED
  BY <1>1, <1>2, <1>3, <1>4, <1>5, <1>6, <1>7

StatesGrow ==
    /\ DOMAIN states \subseteq DOMAIN states'
    /\ \A r \in DOMAIN states : states'[r].conn = states[r].conn /\ states[r].saves <= states'[r].saves

\* A task leaves blocks, and enters none.
Leaves(t) ==
    \/ blocks'[t] = <<>>
    \/ /\ txn'[t] = txn[t] /\ DOMAIN blocks'[t] \subseteq DOMAIN blocks[t]
       /\ \A i \in DOMAIN blocks'[t] :
            blocks'[t][i].state = blocks[t][i].state /\ blocks'[t][i].save = blocks[t][i].save

LEMMA EmptyDomain == ASSUME NEW b \in Seq(Entry) PROVE (b = <<>> <=> DOMAIN b = {}) /\ (b # <<>> => 1 \in DOMAIN b)
BY EmptySeq, LenProperties

LEMMA InStateKept ==
    ASSUME Typed, Typed', StatesGrow, NEW t \in Tasks, InState(t), Leaves(t)
    PROVE  InState(t)'
<1>1. blocks[t] \in Seq(Entry) /\ blocks'[t] \in Seq(Entry)
  BY DEF Typed, ContextType
<1>2. CASE blocks'[t] = <<>>
  BY <1>1, <1>2, EmptyDomain DEF InState
<1>3. CASE blocks'[t] # <<>>
  <2>1. /\ txn'[t] = txn[t] /\ DOMAIN blocks'[t] \subseteq DOMAIN blocks[t]
        /\ \A i \in DOMAIN blocks'[t] :
             blocks'[t][i].state = blocks[t][i].state /\ blocks'[t][i].save = blocks[t][i].save
    BY <1>3 DEF Leaves
  <2>2. blocks[t] # <<>>
    BY <1>1, <1>3, <2>1, EmptyDomain
  <2>3. txn[t] \in DOMAIN states
    BY <2>2, TypesOf
  <2>4. states[txn[t]].saves \in Nat /\ states'[txn[t]].saves \in Nat
        /\ states[txn[t]].saves <= states'[txn[t]].saves
    <3>1. states[txn[t]].saves \in Nat /\ states[txn[t]].saves <= states'[txn[t]].saves
          /\ txn[t] \in DOMAIN states'
      BY <2>3, TypesOf DEF StatesGrow
    <3>2. states' \in Seq(State)
      BY DEF Typed, ContextType
    <3>3. states'[txn[t]] \in State
      BY <3>1, <3>2, LenProperties
    <3> QED
      BY <3>1, <3>3 DEF State
  <2>5. \A i \in DOMAIN blocks'[t] : blocks[t][i].save \in Nat
    BY <1>1, <2>1, EntryTyped
  <2>6. \A i \in DOMAIN blocks'[t] : blocks[t][i].state = txn[t] /\ blocks[t][i].save <= states[txn[t]].saves
    BY <2>1 DEF InState
  <2>7. \A i, j \in DOMAIN blocks'[t] : i < j => blocks[t][i].save < blocks[t][j].save
    BY <2>1 DEF InState
  <2>8. \A i \in DOMAIN blocks'[t] : blocks[t][i].save <= states'[txn[t]].saves
    BY <2>4, <2>5, <2>6
  <2> QED
    BY <2>1, <2>6, <2>7, <2>8 DEF InState
<1> QED
  BY <1>2, <1>3

SameRoots == \A t \in Tasks : RootTask(t)' => RootTask(t) /\ txn'[t] = txn[t]

LEMMA LeavesRoots == ASSUME Typed, Typed', NEW t \in Tasks, Leaves(t), RootTask(t)'
                     PROVE  RootTask(t) /\ txn'[t] = txn[t]
<1>1. blocks[t] \in Seq(Entry) /\ blocks'[t] \in Seq(Entry)
  BY DEF Typed, ContextType
<1>2. blocks'[t] # <<>> /\ blocks'[t][1].save = 0
  BY DEF RootTask
<1>3. 1 \in DOMAIN blocks'[t]
  BY <1>1, <1>2, EmptyDomain
<1>4. 1 \in DOMAIN blocks[t] /\ blocks[t][1].save = 0 /\ txn'[t] = txn[t]
  BY <1>2, <1>3 DEF Leaves
<1>5. blocks[t] # <<>>
  BY <1>1, <1>4, EmptyDomain
<1> QED
  BY <1>4, <1>5 DEF RootTask

LEMMA HeldKept ==
    ASSUME Typed, Lasting, StatesGrow, NEW s \in DOMAIN states, Held(s)
    PROVE  Held(s)'
<1>1. states'[s].conn = states[s].conn /\ states[s].conn \in Conns
  BY TypesOf DEF StatesGrow
<1> QED
  BY <1>1 DEF Held, Lasting

LEMMA RootsKept ==
    ASSUME Typed, Roots, Fresh, Lasting, StatesGrow, SameRoots,
           \A o \in orphans' : RootOrphan(o) => o \in orphans
    PROVE  Roots'
<1>1. ASSUME NEW t \in Tasks, RootTask(t)'
      PROVE  Held(txn[t])' /\ \A u \in Tasks : RootTask(u)' => u = t
  <2>1. RootTask(t) /\ txn'[t] = txn[t]
    BY <1>1 DEF SameRoots
  <2>2. Held(txn[t]) /\ txn[t] \in DOMAIN states
    BY <2>1, TypesOf DEF Roots, RootTask
  <2>3. Held(txn[t])'
    <3>1. PICK s \in DOMAIN states : s = txn[t]
      BY <2>2
    <3>2. Held(s)'
      BY <2>2, <3>1, HeldKept
    <3> QED
      BY <2>1, <3>1, <3>2 DEF Held
  <2> QED
    BY <2>1, <2>3 DEF Roots, SameRoots
<1>2. ASSUME NEW o \in orphans', RootOrphan(o)
      PROVE  /\ Held(o.state)' /\ \A p \in orphans' : RootOrphan(p) => p = o
             /\ \A t \in Tasks : ~RootTask(t)'
  <2>1. o \in orphans
    BY <1>2
  <2>2. Held(o.state) /\ o.state \in DOMAIN states
    BY <1>2, <2>1 DEF Roots, Fresh, OrphanType, RootOrphan
  <2>3. Held(o.state)'
    <3>1. PICK s \in DOMAIN states : s = o.state
      BY <2>2
    <3>2. Held(s)'
      BY <2>2, <3>1, HeldKept
    <3> QED
      BY <3>1, <3>2 DEF Held
  <2> QED
    BY <1>2, <2>1, <2>3 DEF Roots, SameRoots
<1>3. \A o \in orphans' : RootOrphan(o)' <=> RootOrphan(o)
  BY DEF RootOrphan
<1> QED
  BY <1>1, <1>2, <1>3 DEF Roots

\* Calls that end, and new ones.
Counts ==
    \A t \in Tasks :
        \/ ops'[t] = ops[t] /\ (call'[t] = "write" => call[t] = "write")
        \/ ops'[t] = ops[t] + 1

LEMMA IssuedKept == ASSUME Typed, Counts, NEW w, Issued(w) PROVE Issued(w)'
<1>1. w \in AnyWrite /\ w.by \in Tasks /\ w.n \in Nat
  BY DEF Issued, AnyWrite
<1>2. PICK t \in Tasks : t = w.by
  BY <1>1
<1>3. ops[t] \in Nat
  BY TypesOf
<1>4. w.n <= ops[t] /\ (call[t] = "write" => w.n # ops[t])
  BY <1>2 DEF Issued
<1>5. CASE ops'[t] = ops[t] /\ (call'[t] = "write" => call[t] = "write")
  BY <1>1, <1>2, <1>4, <1>5 DEF Issued
<1>6. CASE ops'[t] = ops[t] + 1
  BY <1>1, <1>2, <1>3, <1>4, <1>6 DEF Issued
<1> QED
  BY <1>5, <1>6 DEF Counts

LEMMA FreshKept ==
    ASSUME Typed, Fresh, Counts, StatesGrow, orphans' \subseteq orphans,
           NEW W, There' \subseteq There \cup W, undone' \subseteq undone \cup There,
           undone' \cap There' = {}, promised' \subseteq db',
           \A w \in W : Issued(w)' /\ \A o \in orphans' : o.call = "write" => o.write # w
    PROVE  Fresh'
<1>1. ASSUME NEW w \in There' \cup undone' PROVE Issued(w)'
  <2>1. CASE w \in W
    BY <2>1
  <2>2. CASE w \notin W
    <3>1. Issued(w)
      BY <2>2 DEF Fresh
    <3> QED
      BY <3>1, IssuedKept
  <2> QED
    BY <2>1, <2>2
<1>2. ASSUME NEW o \in orphans'
      PROVE  /\ OrphanType(o)'
             /\ o.call = "write" =>
                  /\ Issued(o.write)' /\ o.write \notin There' \cup undone'
                  /\ \A p \in orphans' : p.call = "write" /\ p.write = o.write => p = o
  <2>1. OrphanType(o)'
    BY DEF Fresh, OrphanType, StatesGrow
  <2>2. ASSUME o.call = "write"
        PROVE  Issued(o.write)' /\ o.write \notin There' \cup undone'
    <3>1. Issued(o.write) /\ o.write \notin There \cup undone
      BY <2>2 DEF Fresh
    <3>2. Issued(o.write)'
      <4>1. PICK w : w = o.write
        OBVIOUS
      <4>2. Issued(w)'
        BY <3>1, <4>1, IssuedKept
      <4> QED
        BY <4>1, <4>2
    <3>3. o.write \notin W
      BY <2>2
    <3> QED
      BY <3>1, <3>2, <3>3
  <2> QED
    BY <2>1, <2>2 DEF Fresh
<1> QED
  BY <1>1, <1>2 DEF Fresh

\* A step that leaves the savepoints of a root block, and what is in them, alone.
Undisturbed(s) ==
    /\ states'[s].conn = states[s].conn /\ states[s].saves <= states'[s].saves
    /\ states'[s].writes = states[s].writes
    /\ Grown(tx[states[s].conn], tx'[states[s].conn])
    /\ \A u \in Tasks : txn'[u] = s =>
        blocks'[u] = <<>> \/ (txn[u] = s /\ \E k \in Nat : Shortened(blocks[u], blocks'[u], k))

LEMMA SoundKept ==
    ASSUME Typed, Typed', Connected, NEW s \in DOMAIN states, s \in DOMAIN states', Sound(s), Undisturbed(s)
    PROVE  Sound(s)'
<1>1. PICK c \in Conns : c = states[s].conn /\ c = states'[s].conn
  BY TypesOf DEF Undisturbed
<1>2. /\ states[s].saves \in Nat /\ states'[s].saves \in Nat /\ states[s].saves <= states'[s].saves
      /\ states'[s].writes = states[s].writes /\ Grown(tx[c], tx'[c])
  <2>1. states' \in Seq(State)
    BY DEF Typed, ContextType
  <2>2. states'[s] \in State
    BY <2>1, LenProperties
  <2> QED
    BY <1>1, <2>2, TypesOf DEF State, Undisturbed
<1>3. Rising(tx[c], states[s].saves) /\ states[s].writes \subseteq tx[c].own
  BY <1>1 DEF Sound
<1>4. Rising(tx'[c], states'[s].saves)
  <2>1. tx'[c].saves = tx[c].saves
    BY <1>2 DEF Grown
  <2>2. \A k \in DOMAIN tx[c].saves : tx[c].saves[k].name \in Nat /\ tx[c].saves[k].name <= states[s].saves
    BY <1>1, <1>3, MarkTyped, FieldsTyped DEF Rising
  <2> QED
    BY <1>2, <1>3, <2>1, <2>2 DEF Rising
<1>5. states'[s].writes \subseteq tx'[c].own
  BY <1>2, <1>3 DEF Grown
<1>6. ASSUME NEW u \in Tasks, txn'[u] = s
      PROVE  /\ Deep(u)' => txn[u] = s /\ Deep(u)
             /\ Stacked(blocks'[u], tx'[c], states'[s].writes)
  <2>1. CASE blocks'[u] = <<>>
    <3>1. blocks'[u] \in Seq(Entry)
      BY DEF Typed, ContextType
    <3>2. DOMAIN blocks'[u] = {}
      BY <2>1, <3>1, EmptyDomain
    <3> QED
      BY <3>2 DEF Deep, Stacked
  <2>2. CASE txn[u] = s /\ \E k \in Nat : Shortened(blocks[u], blocks'[u], k)
    <3>1. PICK k \in Nat : Shortened(blocks[u], blocks'[u], k)
      BY <2>2
    <3>2. Stacked(blocks[u], tx[c], states[s].writes)
      BY <1>1, <2>2 DEF Sound
    <3>3. Stacked(blocks'[u], tx[c], states[s].writes)
      BY <3>1, <3>2, StackedShortened
    <3>4. Stacked(blocks'[u], tx'[c], states[s].writes)
      BY <1>2, <3>3, StackedGrown
    <3>5. Deep(u)' => Deep(u)
      BY <3>1 DEF Deep, Shortened
    <3> QED
      BY <1>2, <2>2, <3>4, <3>5
  <2> QED
    BY <1>6, <2>1, <2>2 DEF Undisturbed
<1>7. \A u, v \in Tasks : txn'[u] = s /\ txn'[v] = s /\ Deep(u)' /\ Deep(v)' => u = v
  BY <1>6 DEF Sound
<1>8. \A u \in Tasks : txn'[u] = s => Stacked(blocks'[u], tx'[c], states'[s].writes)
  BY <1>6
<1> QED
  BY <1>1, <1>4, <1>5, <1>7, <1>8 DEF Sound

LEMMA SameBlocks ==
    ASSUME Typed, NEW u \in Tasks, blocks'[u] = blocks[u]
    PROVE  \E k \in Nat : Shortened(blocks[u], blocks'[u], k)
<1>1. blocks[u] \in Seq(Entry)
  BY TypesOf
<1>2. Len(blocks[u]) \in Nat /\ DOMAIN blocks[u] = 1 .. Len(blocks[u])
  BY <1>1, LenProperties
<1>3. Shortened(blocks[u], blocks'[u], Len(blocks[u]))
  BY <1>2 DEF Shortened
<1> QED
  BY <1>2, <1>3

LEMMA WholeKept ==
    ASSUME Typed, Typed', Connected, Whole, StatesGrow, SameRoots, mixed \subseteq mixed',
           \A t \in Tasks : RootTask(t) /\ RootTask(t)' /\ txn[t] \notin mixed' => Undisturbed(txn[t]) \/ Sound(txn[t])'
    PROVE  Whole'
<1> SUFFICES ASSUME NEW t \in Tasks, RootTask(t)', txn'[t] \notin mixed'
             PROVE  Sound(txn[t])'
  BY DEF Whole
<1>1. RootTask(t) /\ txn'[t] = txn[t] /\ txn[t] \notin mixed
  BY DEF SameRoots
<1>2. PICK s \in DOMAIN states : s = txn[t]
  BY <1>1, TypesOf DEF RootTask
<1>3. Sound(s)
  BY <1>1, <1>2 DEF Whole
<1>4. s \in DOMAIN states'
  BY <1>2 DEF StatesGrow
<1>5. CASE Undisturbed(s)
  <2>1. Sound(s)'
    BY <1>3, <1>4, <1>5, SoundKept
  <2> QED
    BY <1>1, <1>2, <2>1 DEF Sound
<1>6. CASE Sound(txn[t])' 
  BY <1>6
<1> QED
  BY <1>1, <1>2, <1>5, <1>6

-----------------------------------------------------------------------------
(***************************************************************************)
(* The root block a step disturbs.                                         *)
(***************************************************************************)
LEMMA RootState ==
    ASSUME Typed, NEW t \in Tasks, InState(t), RootTask(t)
    PROVE  /\ txn[t] \in DOMAIN states /\ blocks[t][1].state = txn[t] /\ 1 \in DOMAIN blocks[t]
           /\ txn[t] \in Current(states[txn[t]].conn)
<1>1. blocks[t] \in Seq(Entry) /\ blocks[t] # <<>> /\ blocks[t][1].save = 0
  BY TypesOf DEF RootTask
<1>2. 1 \in DOMAIN blocks[t]
  BY <1>1, EmptyDomain
<1>3. blocks[t][1].state = txn[t] /\ txn[t] \in DOMAIN states
  BY <1>1, <1>2, TypesOf DEF InState
<1> QED
  BY <1>1, <1>2, <1>3 DEF Current

LEMMA CurrentIsRoot ==
    ASSUME Typed, \A t \in Tasks : InState(t), NEW c, NEW s \in Current(c)
    PROVE  /\ s \in DOMAIN states /\ states[s].conn = c
           /\ \E t \in Tasks : RootTask(t) /\ txn[t] = s
<1>1. /\ s \in DOMAIN states /\ states[s].conn = c
      /\ \E t \in Tasks : blocks[t] # <<>> /\ blocks[t][1].state = s /\ blocks[t][1].save = 0
  BY DEF Current
<1>2. PICK t \in Tasks : blocks[t] # <<>> /\ blocks[t][1].state = s /\ blocks[t][1].save = 0
  BY <1>1
<1>3. RootTask(t)
  BY <1>2 DEF RootTask
<1>4. blocks[t][1].state = txn[t]
  BY <1>3, RootState
<1> QED
  BY <1>1, <1>2, <1>3, <1>4

\* A root block nobody is said to have disturbed is on another connection, or the
\* step was taken where its effect is known.
LEMMA DisturbedRoot ==
    ASSUME Typed, NEW r \in Tasks, InState(r), RootTask(r), NEW t \in Tasks, NEW s \in DOMAIN states,
           txn[r] \notin Disturbed(t, s)
    PROVE  \/ s = txn[r] /\ Clear(t, s)
           \/ states[s].conn # states[txn[r]].conn
<1>1. txn[r] \in Current(states[txn[r]].conn)
  BY RootState
<1> QED
  BY <1>1 DEF Disturbed

\* The only task with nested blocks of s.
LEMMA ClearRoot ==
    ASSUME Typed, \A u \in Tasks : InState(u), NEW t \in Tasks, NEW s \in DOMAIN states, Clear(t, s)
    PROVE  /\ \A u \in Tasks : txn[u] = s /\ Deep(u) => u = t
           /\ \E r \in Tasks : RootTask(r) /\ txn[r] = s
<1>1. s \in Current(states[s].conn) /\ ~NestedBy(Tasks \ {t}, s)
  BY DEF Clear
<1>2. ASSUME NEW u \in Tasks, txn[u] = s, Deep(u) PROVE u = t
  <2>1. PICK i \in DOMAIN blocks[u] : blocks[u][i].save > 0
    BY <1>2 DEF Deep
  <2>2. blocks[u][i].state = s
    BY <1>2, <2>1 DEF InState
  <2> QED
    BY <1>1, <2>1, <2>2 DEF NestedBy
<1>3. \E r \in Tasks : RootTask(r) /\ txn[r] = s
  BY <1>1, CurrentIsRoot
<1> QED
  BY <1>2, <1>3

\* Nobody is in a root block as long as nobody writes.
LEMMA NoRoots ==
    ASSUME Typed, Roots, Fresh, \A c \in Conns : tx[c].at # "writing"
    PROVE  (\A t \in Tasks : ~RootTask(t)) /\ (\A o \in orphans : ~RootOrphan(o))
<1>1. ASSUME NEW t \in Tasks, RootTask(t) PROVE FALSE
  <2>1. Held(txn[t]) /\ txn[t] \in DOMAIN states
    BY <1>1, TypesOf DEF Roots, RootTask
  <2> QED
    BY <2>1, TypesOf DEF Held
<1>2. ASSUME NEW o \in orphans, RootOrphan(o) PROVE FALSE
  <2>1. Held(o.state) /\ o.state \in DOMAIN states
    BY <1>2 DEF Roots, Fresh, OrphanType, RootOrphan
  <2> QED
    BY <2>1, TypesOf DEF Held
<1> QED
  BY <1>1, <1>2

-----------------------------------------------------------------------------
(***************************************************************************)
(* Steps that reach no connection.                                         *)
(***************************************************************************)
Pops(u) ==
    blocks'[u] = <<>> \/ (txn'[u] = txn[u] /\ \E k \in Nat : Shortened(blocks[u], blocks'[u], k))

LEMMA PopsLeaves == ASSUME NEW u \in Tasks, Pops(u) PROVE Leaves(u)
BY DEF Pops, Leaves, Shortened

LEMMA CalmKept ==
    ASSUME Typed, Typed', Intact, UNCHANGED <<sqlVars, loose, states, historyVars>>,
           \A u \in Tasks : Pops(u)
    PROVE  /\ Connected' /\ (\A t \in Tasks : InState(t)') /\ Whole'
           /\ SameRoots /\ Lasting /\ StatesGrow /\ There' = There
<1>0. Connected /\ (\A t \in Tasks : InState(t)) /\ Whole
  BY DEF Intact
<1>1. UNCHANGED <<sqlVars, loose>> /\ states' = states /\ mixed' = mixed /\ tx' = tx
  BY DEF sqlVars, historyVars
<1>2. Connected' /\ There' = There /\ Lasting
  BY <1>0, <1>1, StillConnected
<1>3. StatesGrow
  BY <1>1, TypesOf DEF StatesGrow
<1>4. \A t \in Tasks : InState(t)'
  BY <1>0, <1>3, PopsLeaves, InStateKept
<1>5. SameRoots
  BY PopsLeaves, LeavesRoots DEF SameRoots
<1>6. ASSUME NEW t \in Tasks, RootTask(t) PROVE Undisturbed(txn[t])
  <2>1. txn[t] \in DOMAIN states
    BY <1>6, TypesOf DEF RootTask
  <2>2. states[txn[t]].saves <= states'[txn[t]].saves
    BY <1>1, <2>1, TypesOf
  <2>3. Grown(tx[states[txn[t]].conn], tx'[states[txn[t]].conn])
    BY <1>1 DEF Grown
  <2> QED
    BY <1>1, <2>2, <2>3 DEF Undisturbed, Pops
<1>7. Whole'
  BY <1>0, <1>1, <1>3, <1>5, <1>6, WholeKept
<1> QED
  BY <1>2, <1>3, <1>4, <1>5, <1>7

LEMMA CalmFresh ==
    ASSUME Typed, Fresh, Counts, StatesGrow, There' = There, UNCHANGED <<sqlVars, historyVars>>,
           orphans' = orphans
    PROVE  Fresh'
<1>1. undone' = undone /\ promised' = promised /\ db' = db
  BY DEF historyVars, sqlVars
<1>2. undone' \cap There' = {} /\ promised' \subseteq db'
  BY <1>1 DEF Fresh
<1>3. There' \subseteq There \cup {}
  OBVIOUS
<1> QED
  BY <1>1, <1>2, <1>3, FreshKept

LEMMA CalmIntact ==
    ASSUME Typed, Typed', Intact, UNCHANGED <<sqlVars, loose, states, historyVars>>,
           \A u \in Tasks : Pops(u), Counts, orphans' = orphans
    PROVE  Intact'
<1>1. /\ Connected' /\ (\A t \in Tasks : InState(t)') /\ Whole'
      /\ SameRoots /\ Lasting /\ StatesGrow /\ There' = There
  BY CalmKept
<1>2. Fresh'
  BY <1>1, CalmFresh DEF Intact
<1>3. Roots'
  BY <1>1, RootsKept DEF Intact
<1> QED
  BY <1>1, <1>2, <1>3 DEF Intact

\* The calls of tasks, before and after one of them is idle again.
LEMMA CountsUp ==
    ASSUME Typed, NEW t \in Tasks, NEW c, call' = [call EXCEPT ![t] = c],
           ops' = [ops EXCEPT ![t] = @ + 1]
    PROVE  Counts
BY TypesOf DEF Counts

LEMMA CountsIdle ==
    ASSUME Typed, NEW t \in Tasks, Idle(t), ops' = ops
    PROVE  Counts
<1>1. call' = [call EXCEPT ![t] = None] /\ DOMAIN call = Tasks
  BY TypesOf DEF Idle
<1>2. None # "write"
  BY TasksAssumption
<1> QED
  BY <1>1, <1>2 DEF Counts

LEMMA SamePops == ASSUME Typed, NEW u \in Tasks, blocks'[u] = blocks[u], txn'[u] = txn[u] \/ blocks[u] = <<>>
                  PROVE  Pops(u)
BY SameBlocks DEF Pops

LEMMA CallsIntact ==
    ASSUME Typed, Typed', Intact, NEW t \in Tasks,
           \/ \E c \in {"begin", "write"} : Request(t, c)
           \/ \E c \in {"savepoint", "write"} : Submit(t, c)
           \/ Acquire(t) \/ Leave(t) \/ CancelWaiting(t) \/ \E u \in Tasks : Spawn(t, u)
    PROVE  Intact'
<1>1. CASE \E c \in {"begin", "write"} : Request(t, c)
  <2>1. PICK c \in {"begin", "write"} : Request(t, c)
    BY <1>1
  <2>2. /\ UNCHANGED <<sqlVars, loose, states, historyVars>> /\ blocks' = blocks /\ txn' = txn
        /\ orphans' = orphans /\ call' = [call EXCEPT ![t] = c] /\ ops' = [ops EXCEPT ![t] = @ + 1]
    BY <2>1 DEF Request, connVars, contextVars
  <2> QED
    BY <2>2, SamePops, CountsUp, CalmIntact
<1>2. CASE \E c \in {"savepoint", "write"} : Submit(t, c)
  <2>1. PICK c \in {"savepoint", "write"} : Submit(t, c)
    BY <1>2
  <2>2. /\ UNCHANGED <<sqlVars, loose, states, historyVars>> /\ blocks' = blocks /\ txn' = txn
        /\ orphans' = orphans /\ call' = [call EXCEPT ![t] = c] /\ ops' = [ops EXCEPT ![t] = @ + 1]
    BY <2>1 DEF Submit, connVars, contextVars
  <2> QED
    BY <2>2, SamePops, CountsUp, CalmIntact
<1>3. CASE Acquire(t)
  <2>1. /\ UNCHANGED <<sqlVars, loose, states, historyVars>> /\ blocks' = blocks /\ txn' = txn
        /\ orphans' = orphans /\ call' = call /\ ops' = ops
    BY <1>3 DEF Acquire, connVars, contextVars
  <2>2. Counts
    BY <2>1 DEF Counts
  <2> QED
    BY <2>1, <2>2, SamePops, CalmIntact
<1>4. CASE Leave(t)
  <2>1. /\ UNCHANGED <<sqlVars, loose, states, historyVars>> /\ blocks' = blocks /\ txn' = txn
        /\ orphans' = orphans /\ call' = [call EXCEPT ![t] = "finish"] /\ ops' = ops
    BY <1>4 DEF Leave, connVars, contextVars
  <2>2. Counts
    BY <2>1, TypesOf DEF Counts
  <2> QED
    BY <2>1, <2>2, SamePops, CalmIntact
<1>5. CASE CancelWaiting(t)
  <2>1. /\ UNCHANGED <<sqlVars, loose, states, historyVars>> /\ blocks' = blocks /\ txn' = txn
        /\ orphans' = orphans /\ Idle(t) /\ ops' = ops
    BY <1>5 DEF CancelWaiting, Cancelled, contextVars
  <2> QED
    BY <2>1, SamePops, CountsIdle, CalmIntact
<1>6. CASE \E u \in Tasks : Spawn(t, u)
  <2>1. PICK u \in Tasks : Spawn(t, u)
    BY <1>6
  <2>2. /\ UNCHANGED <<sqlVars, loose, states, historyVars>> /\ blocks' = blocks
        /\ txn' = [txn EXCEPT ![u] = txn[t]] /\ orphans' = orphans /\ call' = call /\ ops' = ops
        /\ at[u] = "absent"
    BY <2>1 DEF Spawn, connVars
  <2>3. blocks[u] = <<>>
    BY <2>2 DEF Typed, Placed
  <2>4. \A v \in Tasks : txn'[v] = txn[v] \/ blocks[v] = <<>>
    BY <2>2, <2>3
  <2>5. Counts
    BY <2>2 DEF Counts
  <2> QED
    BY <2>2, <2>4, <2>5, SamePops, CalmIntact
<1> QED
  BY <1>1, <1>2, <1>3, <1>4, <1>5, <1>6

\* A call that goes on alone is the call that was issued, and nobody else's.
LEMMA OrphanFresh ==
    ASSUME Typed, Fresh, NEW t \in Tasks, at[t] = "running", Idle(t), ops' = ops,
           UNCHANGED <<sqlVars, loose, states, historyVars>>, There' = There,
           orphans' = orphans \cup {Orphan(t)}
    PROVE  Fresh'
<1>1. ops' = ops /\ undone' = undone /\ promised' = promised /\ db' = db /\ states' = states
  BY DEF historyVars, sqlVars
<1>2. Counts
  BY CountsIdle
<1>0. PICK o : o = Orphan(t)
  OBVIOUS
<1>3. /\ o.call = call[t] /\ o.state = txn[t] /\ o.write.by = t /\ o.write.n = ops[t]
      /\ o.write \in AnyWrite
  BY <1>0, TypesOf DEF Orphan, AnyWrite
<1>4. OrphanType(o)'
  <2>1. txn[t] \in DOMAIN states \cup {None} /\ Placed(t)
    BY TypesOf
  <2>2. call[t] \in {"savepoint", "finish"} => txn[t] # None
    BY <2>1 DEF Placed
  <2>3. o.save \in Nat
    <3>1. CASE blocks[t] = <<>>
      BY <1>0, <3>1 DEF Orphan
    <3>2. CASE blocks[t] # <<>>
      <4>1. blocks[t] \in Seq(Entry)
        BY TypesOf
      <4>2. Inner(t) \in Entry
        BY <3>2, <4>1, LastBlock DEF Inner
      <4>3. o.save = Inner(t).save
        BY <1>0, <3>2 DEF Orphan
      <4> QED
        BY <4>2, <4>3 DEF Entry
    <3> QED
      BY <3>1, <3>2
  <2> QED
    BY <1>1, <1>3, <2>1, <2>2, <2>3 DEF OrphanType
<1>5. \A w : Issued(w) => Issued(w)'
  BY <1>2, IssuedKept
<1>6. ASSUME o.call = "write" PROVE Issued(o.write)' /\ ~Issued(o.write)
  <2>1. call'[t] # "write"
    BY TasksAssumption, TypesOf DEF Idle
  <2>2. ops[t] <= ops[t]
    BY TypesOf
  <2> QED
    BY <1>1, <1>3, <1>6, <2>1, <2>2 DEF Issued
<1>7. \A w \in There \cup undone : Issued(w)
  BY DEF Fresh
<1>8. \A p \in orphans : OrphanType(p)' /\ (p.call = "write" => Issued(p.write) /\ p.write \notin There \cup undone)
  BY <1>1 DEF Fresh, OrphanType
<1>9. \A p, q \in orphans' : p.call = "write" /\ q.call = "write" /\ p.write = q.write => p = q
  <2>1. \A p, q \in orphans : p.call = "write" /\ q.call = "write" /\ p.write = q.write => p = q
    BY DEF Fresh
  <2>2. orphans' = orphans \cup {o}
    BY <1>0
  <2> QED
    BY <1>6, <1>8, <2>1, <2>2
<1>10. ASSUME NEW p \in orphans'
       PROVE  /\ OrphanType(p)'
              /\ p.call = "write" => Issued(p.write)' /\ p.write \notin There' \cup undone'
  <2>1. p \in orphans \/ p = o
    BY <1>0
  <2>2. CASE p \in orphans
    BY <1>1, <1>5, <1>8, <2>2
  <2>3. CASE p = o
    BY <1>1, <1>4, <1>6, <1>7, <2>3
  <2> QED
    BY <2>1, <2>2, <2>3
<1>11. \A w \in There' \cup undone' : Issued(w)'
  BY <1>1, <1>5, <1>7
<1>12. undone' \cap There' = {} /\ promised' \subseteq db'
  BY <1>1 DEF Fresh
<1> QED
  BY <1>9, <1>10, <1>11, <1>12 DEF Fresh

LEMMA CancelCallIntact == ASSUME Typed, Typed', Intact, NEW t \in Tasks, CancelCall(t) PROVE Intact'
<1>1. /\ UNCHANGED <<sqlVars, loose, states, historyVars>> /\ blocks' = blocks /\ txn' = txn
      /\ Idle(t) /\ ops' = ops /\ at[t] = "running" /\ call[t] # "finish"
      /\ orphans' = orphans \/ orphans' = orphans \cup {Orphan(t)}
  BY DEF CancelCall, Cancelled, contextVars
<1>2. \A u \in Tasks : Pops(u)
  BY <1>1, SamePops
<1>3. CASE orphans' = orphans
  BY <1>1, <1>2, <1>3, CountsIdle, CalmIntact
<1>4. CASE orphans' = orphans \cup {Orphan(t)}
  <2>1. /\ Connected' /\ (\A u \in Tasks : InState(u)') /\ Whole'
        /\ SameRoots /\ Lasting /\ StatesGrow /\ There' = There
    BY <1>1, <1>2, CalmKept
  <2>2. Fresh'
    BY <1>1, <1>4, <2>1, OrphanFresh DEF Intact
  <2>3. ~RootOrphan(Orphan(t))
    BY <1>1 DEF RootOrphan, Orphan
  <2>4. \A o \in orphans' : RootOrphan(o) => o \in orphans
    BY <1>4, <2>3
  <2>5. Roots'
    BY <2>1, <2>4, RootsKept DEF Intact
  <2> QED
    BY <2>1, <2>2, <2>5 DEF Intact
<1> QED
  BY <1>1, <1>3, <1>4

LEMMA FrontPops ==
    ASSUME Typed, NEW t \in Tasks, blocks[t] # <<>>, blocks' = [blocks EXCEPT ![t] = Front(@)], txn' = txn
    PROVE  \A u \in Tasks : Pops(u)
<1>1. blocks[t] \in Seq(Entry) /\ DOMAIN blocks = Tasks
  BY TypesOf
<1>2. PICK l \in Nat \ {0} : l = Len(blocks[t])
  BY <1>1, LastBlock
<1>3. DOMAIN Front(blocks[t]) = 1 .. l - 1 /\ \A i \in 1 .. l - 1 : Front(blocks[t])[i] = blocks[t][i]
  BY <1>1, <1>2, FrontOf
<1>4. DOMAIN blocks[t] = 1 .. l
  BY <1>1, <1>2, LenProperties
<1>5. blocks'[t] = Front(blocks[t])
  BY <1>1
<1>6. l - 1 \in Nat /\ \A i \in 1 .. l - 1 : i \in 1 .. l
  BY <1>2
<1>7. Shortened(blocks[t], blocks'[t], l - 1)
  BY <1>3, <1>4, <1>5, <1>6 DEF Shortened
<1>8. Pops(t)
  BY <1>6, <1>7 DEF Pops
<1>9. ASSUME NEW u \in Tasks, u # t PROVE Pops(u)
  BY <1>1, <1>9, SamePops
<1> QED
  BY <1>8, <1>9

LEMMA EmptiedPops ==
    ASSUME Typed, NEW t \in Tasks, blocks' = [blocks EXCEPT ![t] = <<>>], txn' = [txn EXCEPT ![t] = None]
    PROVE  \A u \in Tasks : Pops(u)
<1>1. DOMAIN blocks = Tasks /\ DOMAIN txn = Tasks
  BY TypesOf
<1>2. Pops(t)
  BY <1>1 DEF Pops
<1>3. ASSUME NEW u \in Tasks, u # t PROVE Pops(u)
  BY <1>1, <1>3, SamePops
<1> QED
  BY <1>2, <1>3

\* The innermost of a task's blocks, by its number.
LEMMA InnerIs ==
    ASSUME Typed, NEW t \in Tasks, InState(t), blocks[t] # <<>>
    PROVE  /\ Inner(t) = blocks[t][Len(blocks[t])] /\ Len(blocks[t]) \in Nat \ {0}
           /\ Len(blocks[t]) \in DOMAIN blocks[t] /\ DOMAIN blocks[t] = 1 .. Len(blocks[t])
           /\ Inner(t) \in Entry /\ Inner(t).state = txn[t] /\ txn[t] \in DOMAIN states
           /\ Inner(t).save \in Nat /\ Inner(t).writes \in SUBSET AnyWrite
           /\ (Inner(t).save = 0 => RootTask(t))
<1>1. blocks[t] \in Seq(Entry) /\ txn[t] \in DOMAIN states
  BY TypesOf
<1>2. /\ Inner(t) = blocks[t][Len(blocks[t])] /\ Len(blocks[t]) \in Nat \ {0}
      /\ Len(blocks[t]) \in DOMAIN blocks[t] /\ DOMAIN blocks[t] = 1 .. Len(blocks[t])
      /\ Inner(t) \in Entry
  BY <1>1, LastBlock, LenProperties DEF Inner
<1>3. Inner(t).state = txn[t]
  BY <1>2 DEF InState
<1>4. Inner(t).save \in Nat /\ Inner(t).writes \in SUBSET AnyWrite
  BY <1>2 DEF Entry
<1>5. Inner(t).save = 0 => RootTask(t)
  BY InnerIsRoot DEF RootTask
<1> QED
  BY <1>1, <1>2, <1>3, <1>4, <1>5

LEMMA CancelFinishIntact == ASSUME Typed, Typed', Intact, NEW t \in Tasks, CancelFinish(t) PROVE Intact'
<1>1. /\ UNCHANGED <<sqlVars, loose, states, historyVars>>
      /\ Idle(t) /\ ops' = ops /\ at[t] = "running" /\ call[t] = "finish"
      /\ orphans' = orphans \/ orphans' = orphans \cup {Orphan(t)}
      /\ IF Inner(t).save = 0 THEN Cleanup(t)
         ELSE blocks' = [blocks EXCEPT ![t] = Front(@)] /\ UNCHANGED <<lockVars, pool, txn>>
  BY DEF CancelFinish, Cancelled, Running
<1>2. blocks[t] # <<>>
  BY <1>1 DEF Typed, Placed
<1>3. \A u \in Tasks : Pops(u)
  BY <1>1, <1>2, FrontPops, EmptiedPops DEF Cleanup
<1>4. CASE orphans' = orphans
  BY <1>1, <1>3, <1>4, CountsIdle, CalmIntact
<1>5. CASE orphans' = orphans \cup {Orphan(t)}
  <2>1. /\ Connected' /\ (\A u \in Tasks : InState(u)') /\ Whole'
        /\ SameRoots /\ Lasting /\ StatesGrow /\ There' = There
    BY <1>1, <1>3, CalmKept
  <2>2. Fresh'
    BY <1>1, <1>5, <2>1, OrphanFresh DEF Intact
  <2>3. /\ Orphan(t).save = Inner(t).save /\ Orphan(t).state = txn[t]
    BY <1>2 DEF Orphan
  <2>4. CASE Inner(t).save # 0
    <3>1. ~RootOrphan(Orphan(t))
      BY <2>3, <2>4 DEF RootOrphan
    <3>2. \A o \in orphans' : RootOrphan(o) => o \in orphans
      BY <1>5, <3>1
    <3> QED
      BY <2>1, <2>2, <3>2, RootsKept DEF Intact
  <2>5. CASE Inner(t).save = 0
    <3>1. RootTask(t)
      BY <1>2, <2>5, InnerIs DEF Intact
    <3>2. /\ Held(txn[t]) /\ \A u \in Tasks : RootTask(u) => u = t
      BY <3>1 DEF Intact, Roots
    <3>3. \A o \in orphans : ~RootOrphan(o)
      BY <3>1 DEF Intact, Roots
    <3>4. PICK s \in DOMAIN states : s = txn[t]
      BY <1>2, TypesOf
    <3>5. Held(s)'
      BY <2>1, <3>2, <3>4, HeldKept
    <3>6. \A u \in Tasks : ~RootTask(u)'
      <4>1. blocks'[t] = <<>>
        BY <1>1, <2>5, TypesOf DEF Cleanup
      <4>2. ~RootTask(t)'
        BY <4>1 DEF RootTask
      <4> QED
        BY <2>1, <3>2, <4>2 DEF SameRoots
    <3>7. \A o \in orphans' : RootOrphan(o) => o = Orphan(t) /\ o.state = s
      BY <1>5, <2>3, <3>3, <3>4
    <3>8. \A o \in orphans' : RootOrphan(o)' <=> RootOrphan(o)
      BY DEF RootOrphan
    <3>9. Roots'
      <4>1. ASSUME NEW o \in orphans', RootOrphan(o) PROVE Held(o.state)'
        <5>1. o.state = s
          BY <3>7, <4>1
        <5> QED
          BY <3>5, <5>1 DEF Held
      <4> QED
        BY <3>6, <3>7, <3>8, <4>1 DEF Roots
    <3> QED
      BY <2>1, <2>2, <3>9 DEF Intact
  <2> QED
    BY <2>4, <2>5
<1> QED
  BY <1>1, <1>4, <1>5

-----------------------------------------------------------------------------
(***************************************************************************)
(* Savepoints that are set.                                                *)
(***************************************************************************)
LEMMA StackedUnder ==
    ASSUME NEW x \in Tx, NEW y, NEW n \in Nat, Pushed(x, y, n), NEW b, NEW w, Stacked(b, x, w)
    PROVE  Stacked(b, y, w)
<1>1. PICK h \in Nat :
        /\ DOMAIN x.saves = 1 .. h /\ DOMAIN y.saves = 1 .. h + 1
        /\ \A i \in 1 .. h : y.saves[i] = x.saves[i]
  BY PushedMarks
<1>2. \A j \in DOMAIN x.saves : j \in DOMAIN y.saves /\ y.saves[j] = x.saves[j]
  BY <1>1
<1>3. y.own = x.own
  BY DEF Pushed
<1> QED
  BY <1>2, <1>3 DEF Stacked

\* The state of a root block after a savepoint, whosever blocks it was for.
LEMMA SoundPushed ==
    ASSUME Typed, Typed', Connected, NEW s \in DOMAIN states, Sound(s), OtherStates(s),
           states'[s].saves = states[s].saves + 1,
           Pushed(tx[states[s].conn], tx'[states[s].conn], states[s].saves + 1),
           \A u \in Tasks : txn'[u] = s => txn[u] = s,
           \A u, v \in Tasks : txn[u] = s /\ txn[v] = s /\ Deep(u)' /\ Deep(v)' => u = v,
           \A u \in Tasks : txn[u] = s => blocks'[u] = blocks[u] \/
                \E e \in Entry : /\ blocks'[u] = Append(blocks[u], e)
                                 /\ e.save = states[s].saves + 1 /\ e.writes = {}
    PROVE  Sound(s)'
<1>1. PICK c \in Conns : c = states[s].conn /\ c = states'[s].conn
  BY TypesOf DEF OtherStates
<1>2. PICK n \in Nat : n = states[s].saves
  BY TypesOf
<1>3. n + 1 \in Nat /\ states'[s].saves = n + 1 /\ states'[s].writes = states[s].writes
  BY <1>2 DEF OtherStates
<1>4. PICK x \in Tx : x = tx[c]
  BY FieldsTyped
<1>5. PICK y : y = tx'[c]
  OBVIOUS
<1>6. Rising(x, n) /\ states[s].writes \subseteq x.own /\ Pushed(x, y, n + 1)
  BY <1>1, <1>2, <1>4, <1>5 DEF Sound
<1>7. Rising(y, n + 1)
  BY <1>6, PushedRising
<1>8. states[s].writes \subseteq y.own
  BY <1>6 DEF Pushed
<1>9. ASSUME NEW u \in Tasks, txn[u] = s PROVE Stacked(blocks'[u], y, states[s].writes)
  <2>1. Stacked(blocks[u], x, states[s].writes) /\ blocks[u] \in Seq(Entry)
    BY <1>1, <1>4, <1>9, TypesOf DEF Sound
  <2>2. CASE blocks'[u] = blocks[u]
    <3>1. PICK b : b = blocks[u]
      OBVIOUS
    <3>2. PICK w : w = states[s].writes
      OBVIOUS
    <3>3. Stacked(b, y, w)
      BY <1>3, <1>6, <2>1, <3>1, <3>2, StackedUnder
    <3> QED
      BY <2>2, <3>1, <3>2, <3>3
  <2>3. ASSUME NEW e \in Entry, blocks'[u] = Append(blocks[u], e), e.save = states[s].saves + 1, e.writes = {}
        PROVE  Stacked(blocks'[u], y, states[s].writes)
    <3>1. PICK b \in Seq(Entry) : b = blocks[u]
      BY <2>1
    <3>2. PICK w : w = states[s].writes
      OBVIOUS
    <3>3. PICK m \in Nat : m = n + 1
      BY <1>3
    <3>4. Stacked(Append(b, e), y, w)
      BY <1>2, <1>6, <2>1, <2>3, <3>1, <3>2, <3>3, StackedPushed
    <3> QED
      BY <2>3, <3>1, <3>2, <3>4
  <2> QED
    BY <1>9, <2>2, <2>3
<1>10. \A u \in Tasks : txn'[u] = s => Stacked(blocks'[u], y, states'[s].writes)
  BY <1>3, <1>9
<1>11. Rising(tx'[c], states'[s].saves) /\ states'[s].writes \subseteq tx'[c].own
  BY <1>3, <1>5, <1>7, <1>8
<1>12. \A u, v \in Tasks : txn'[u] = s /\ txn'[v] = s /\ Deep(u)' /\ Deep(v)' => u = v
  OBVIOUS
<1> QED
  BY <1>1, <1>5, <1>10, <1>11, <1>12 DEF Sound

\* A root block on a connection that the step does not move.
LEMMA ElsewhereUndisturbed ==
    ASSUME Typed, NEW c, Only(c), NEW s \in DOMAIN states, states[s].conn # c,
           states'[s].conn = states[s].conn, states[s].saves <= states'[s].saves,
           states'[s].writes = states[s].writes,
           \A u \in Tasks : txn'[u] = s =>
                blocks'[u] = <<>> \/ (txn[u] = s /\ \E k \in Nat : Shortened(blocks[u], blocks'[u], k))
    PROVE  Undisturbed(s)
<1>1. tx'[states[s].conn] = tx[states[s].conn]
  BY TypesOf DEF Only
<1>2. Grown(tx[states[s].conn], tx'[states[s].conn])
  BY <1>1 DEF Grown
<1> QED
  BY <1>2 DEF Undisturbed

LEMMA BeginNestedGrows ==
    ASSUME Typed, NEW s \in DOMAIN states, BeginNested(s), OtherStates(s)
    PROVE  StatesGrow /\ DOMAIN states' = DOMAIN states
<1>1. DOMAIN states' = DOMAIN states
  BY BeginNestedType DEF Typed
<1> QED
  BY <1>1 DEF OtherStates, StatesGrow

-----------------------------------------------------------------------------
(***************************************************************************)
(* Calls that nobody waits for any more.                                   *)
(***************************************************************************)
LEMMA OrphanKept ==
    ASSUME Typed, Typed', Intact, NEW o \in orphans, orphans' = orphans \ {o},
           UNCHANGED <<contextVars, taskVars, ops, promised, undone>>,
           Connected', db \subseteq db', StatesGrow, mixed \subseteq mixed',
           There' \subseteq There \cup {w \in {o.write} : o.call = "write"},
           Lasting \/ RootOrphan(o),
           \A t \in Tasks : RootTask(t) /\ txn[t] \notin mixed' => Undisturbed(txn[t]) \/ Sound(txn[t])'
    PROVE  Intact'
<1>1. /\ blocks' = blocks /\ txn' = txn /\ call' = call /\ ops' = ops
      /\ promised' = promised /\ undone' = undone
  BY DEF contextVars, taskVars
<1>2. \A u \in Tasks : Pops(u) /\ Leaves(u)
  BY <1>1, SamePops, PopsLeaves
<1>3. Counts
  BY <1>1 DEF Counts
<1>4. \A t \in Tasks : InState(t)'
  BY <1>2, InStateKept DEF Intact
<1>5. SameRoots
  BY <1>2, LeavesRoots DEF SameRoots
<1>6. Whole'
  BY <1>5, WholeKept DEF Intact
<1>7. Fresh'
  <2> DEFINE W == {w \in {o.write} : o.call = "write"}
  <2>1. ASSUME NEW w \in W
        PROVE  Issued(w)' /\ w \notin undone /\ \A p \in orphans' : p.call = "write" => p.write # w
    <3>1. o.call = "write" /\ w = o.write
      BY <2>1
    <3>2. /\ Issued(w) /\ w \notin undone
          /\ \A p \in orphans : p.call = "write" /\ p.write = w => p = o
      BY <3>1 DEF Intact, Fresh
    <3>3. Issued(w)'
      BY <1>3, <3>2, IssuedKept
    <3> QED
      BY <3>2, <3>3
  <2>2. There' \subseteq There \cup W
    OBVIOUS
  <2> HIDE DEF W
  <2>3. undone' \cap There' = {} /\ promised' \subseteq db'
    BY <1>1, <2>1, <2>2 DEF Intact, Fresh
  <2>4. Fresh /\ orphans' \subseteq orphans /\ undone' \subseteq undone \cup There
    BY <1>1 DEF Intact
  <2> QED
    BY <1>3, <2>1, <2>2, <2>3, <2>4, FreshKept
<1>8. Roots'
  <2>1. CASE Lasting
    BY <1>5, <2>1, RootsKept DEF Intact
  <2>2. CASE RootOrphan(o)
    <3>1. (\A t \in Tasks : ~RootTask(t)) /\ \A p \in orphans : RootOrphan(p) => p = o
      BY <2>2 DEF Intact, Roots
    <3>2. \A t \in Tasks : ~RootTask(t)'
      BY <1>5, <3>1 DEF SameRoots
    <3>3. \A p \in orphans' : ~RootOrphan(p)'
      BY <3>1 DEF RootOrphan
    <3> QED
      BY <3>2, <3>3 DEF Roots
  <2> QED
    BY <2>1, <2>2
<1> QED
  BY <1>4, <1>6, <1>7, <1>8 DEF Intact

\* The connection a root block holds, and where the others are.
LEMMA RootHolds ==
    ASSUME Typed, Intact, NEW r \in Tasks, RootTask(r)
    PROVE  /\ txn[r] \in DOMAIN states /\ states[txn[r]].conn \in Conns
           /\ tx[states[txn[r]].conn].at = "writing" /\ states[txn[r]].conn \notin loose
           /\ txn[r] \in Current(states[txn[r]].conn)
BY RootState, TypesOf DEF Intact, Roots, Held

LEMMA RunOrphanIntact == ASSUME Typed, Typed', Intact, NEW o \in orphans, RunOrphan(o) PROVE Intact'
<1> DEFINE W == {w \in {o.write} : o.call = "write"}
<1>1. /\ orphans' = orphans \ {o} /\ UNCHANGED <<contextVars, taskVars, ops, promised, undone>>
      /\ blocks' = blocks /\ txn' = txn
  BY DEF RunOrphan, contextVars
<1>2. /\ o.state \in DOMAIN states \cup {None} /\ o.save \in Nat
      /\ o.call \in {"savepoint", "finish"} => o.state \in DOMAIN states
  BY DEF Intact, Fresh, OrphanType
<1>3. Connected /\ ContextType /\ \A r \in DOMAIN states : states[r].saves <= states[r].saves
  BY TypesOf DEF Intact
<1>4. There \subseteq There \cup W
  OBVIOUS
<1>5. \A u \in Tasks : \E k \in Nat : Shortened(blocks[u], blocks'[u], k)
  BY <1>1, SameBlocks
<1> HIDE DEF W
<1>6. ASSUME states' = states, NEW r \in Tasks, RootTask(r),
             Grown(tx[states[txn[r]].conn], tx'[states[txn[r]].conn])
      PROVE  Undisturbed(txn[r])
  <2>1. txn[r] \in DOMAIN states
    BY <1>6, RootHolds
  <2> QED
    BY <1>1, <1>3, <1>5, <1>6, <2>1 DEF Undisturbed
<1>7. CASE o.call = "begin" /\ (\E c \in Conns : BeginRoot(c)) /\ states' = states /\ mixed' = mixed
  <2>1. PICK c \in Conns : BeginRoot(c)
    BY <1>7
  <2>2. /\ Connected' /\ db' = db /\ There' \subseteq There /\ loose' = loose
        /\ \A d \in Conns : tx[d].at = "writing" => tx'[d] = tx[d]
    BY <1>3, <2>1, BeginRootConnected
  <2>3. Lasting
    BY <2>2 DEF Lasting
  <2>4. StatesGrow
    BY <1>3, <1>7 DEF StatesGrow
  <2>5. ASSUME NEW r \in Tasks, RootTask(r) PROVE Undisturbed(txn[r])
    <3>1. tx'[states[txn[r]].conn] = tx[states[txn[r]].conn]
      BY <2>2, <2>5, RootHolds
    <3>2. Grown(tx[states[txn[r]].conn], tx'[states[txn[r]].conn])
      BY <3>1 DEF Grown
    <3> QED
      BY <1>6, <1>7, <2>5, <3>2
  <2>6. db \subseteq db' /\ mixed \subseteq mixed' /\ There' \subseteq There \cup W
    BY <1>4, <1>7, <2>2
  <2> QED
    BY <1>1, <2>2, <2>3, <2>4, <2>5, <2>6, OrphanKept DEF W
<1>8. CASE o.call = "write" /\ Write(o.state, o.write) /\ UNCHANGED <<pool, loose, states, mixed>>
  <2>1. PICK s \in DOMAIN states \cup {None} : s = o.state
    BY <1>2
  <2>2. PICK w : w = o.write
    OBVIOUS
  <2>3. w \in AnyWrite /\ w \notin There /\ W = {w}
    BY <1>8, <2>2 DEF Intact, Fresh, Issued, W
  <2>4. /\ Connected' /\ db \subseteq db' /\ There' \subseteq There \cup {w} /\ Lasting
        /\ \A c \in Conns : tx[c].at = "writing" => Grown(tx[c], tx'[c])
    <3>1. Write(s, w) /\ loose' = loose
      BY <1>8, <2>1, <2>2
    <3> QED
      BY <1>3, <2>3, <3>1, WriteConnected
  <2>5. StatesGrow
    BY <1>3, <1>8 DEF StatesGrow
  <2>6. ASSUME NEW r \in Tasks, RootTask(r) PROVE Undisturbed(txn[r])
    BY <1>6, <1>8, <2>4, <2>6, RootHolds
  <2>7. mixed \subseteq mixed' /\ There' \subseteq There \cup W
    BY <1>8, <2>3, <2>4
  <2> QED
    BY <1>1, <2>4, <2>5, <2>6, <2>7, OrphanKept DEF W
<1>9. CASE /\ o.call = "savepoint" /\ BeginNested(o.state)
           /\ mixed' = mixed \cup (Current(states[o.state].conn) \ {o.state})
  <2>1. PICK s \in DOMAIN states : s = o.state
    BY <1>2, <1>9
  <2>2. PICK c \in Conns : c = states[s].conn
    BY TypesOf
  <2>3. BeginNested(s) /\ mixed' = mixed \cup (Current(c) \ {s})
    BY <1>9, <2>1, <2>2
  <2>4. /\ Connected' /\ Only(c) /\ db' = db /\ There' \subseteq There /\ Lasting
        /\ OtherStates(s) /\ states'[s].saves = states[s].saves + 1
        /\ tx[c].at = "writing" => Pushed(tx[c], tx'[c], states[s].saves + 1)
    BY <1>3, <2>2, <2>3, BeginNestedConnected
  <2>5. StatesGrow
    BY <2>3, <2>4, BeginNestedGrows
  <2>6. ASSUME NEW r \in Tasks, RootTask(r), txn[r] \notin mixed'
        PROVE  Undisturbed(txn[r]) \/ Sound(txn[r])'
    <3>1. PICK q \in DOMAIN states : q = txn[r]
      BY <2>6, RootHolds
    <3>2. CASE states[q].conn # c
      <4>1. /\ states'[q].conn = states[q].conn /\ states[q].saves <= states'[q].saves
            /\ states'[q].writes = states[q].writes
        BY <2>4 DEF OtherStates
      <4>2. Undisturbed(q)
        BY <1>1, <1>5, <2>4, <3>2, <4>1, ElsewhereUndisturbed
      <4> QED
        BY <3>1, <4>2
    <3>3. CASE states[q].conn = c
      <4>1. q = s /\ tx[c].at = "writing" /\ txn[r] \notin mixed
        BY <2>3, <2>6, <3>1, <3>3, RootHolds
      <4>2. Sound(s)
        BY <2>6, <3>1, <4>1 DEF Intact, Whole
      <4>3. \A u, v \in Tasks : txn[u] = s /\ txn[v] = s /\ Deep(u)' /\ Deep(v)' => u = v
        BY <1>1, <4>2 DEF Sound, Deep
      <4>4. Pushed(tx[states[s].conn], tx'[states[s].conn], states[s].saves + 1)
        BY <2>2, <2>4, <4>1
      <4>5. \A u \in Tasks : txn'[u] = s => txn[u] = s
        BY <1>1
      <4>6. \A u \in Tasks : txn[u] = s => blocks'[u] = blocks[u] \/
                \E e \in Entry : /\ blocks'[u] = Append(blocks[u], e)
                                 /\ e.save = states[s].saves + 1 /\ e.writes = {}
        BY <1>1
      <4>7. Sound(s)'
        BY <1>3, <2>4, <4>2, <4>3, <4>4, <4>5, <4>6, SoundPushed
      <4>8. txn'[r] = s
        BY <1>1, <3>1, <4>1
      <4>9. Sound(txn[r])'
        BY <4>7, <4>8 DEF Sound
      <4> QED
        BY <4>9
    <3> QED
      BY <3>2, <3>3
  <2>7. db \subseteq db' /\ mixed \subseteq mixed' /\ There' \subseteq There \cup W
    BY <1>4, <2>3, <2>4
  <2> QED
    BY <1>1, <2>4, <2>5, <2>6, <2>7, OrphanKept DEF W
<1>10. CASE /\ o.call = "finish"
            /\ IF o.save > 0 THEN FinishNested(o.state, o.save, o.fails) ELSE FinishRoot(o.state, o.fails)
            /\ mixed' = mixed \cup Current(states[o.state].conn)
            /\ UNCHANGED <<pool, states>>
  <2>1. PICK s \in DOMAIN states : s = o.state
    BY <1>2, <1>10
  <2>2. PICK c \in Conns : c = states[s].conn
    BY TypesOf
  <2>3. PICK f, n : f = o.fails /\ n = o.save
    OBVIOUS
  <2>4. StatesGrow
    BY <1>3, <1>10 DEF StatesGrow
  <2>5. mixed \subseteq mixed' /\ states' = states
    BY <1>10
  <2>6. CASE o.save > 0
    <3>1. FinishNested(s, n, f)
      BY <1>10, <2>1, <2>3, <2>6
    <3>2. Connected' /\ Only(c) /\ db \subseteq db' /\ There' \subseteq There /\ Lasting
      BY <1>3, <2>2, <3>1, FinishNestedConnected
    <3>3. ASSUME NEW r \in Tasks, RootTask(r), txn[r] \notin mixed' PROVE Undisturbed(txn[r])
      <4>1. states[txn[r]].conn # c /\ states[txn[r]].conn \in Conns
        BY <1>10, <2>1, <2>2, <3>3, RootHolds
      <4>2. Grown(tx[states[txn[r]].conn], tx'[states[txn[r]].conn])
        BY <3>2, <4>1 DEF Only, Grown
      <4> QED
        BY <1>6, <2>5, <3>3, <4>2
    <3>4. There' \subseteq There \cup W
      BY <1>4, <3>2
    <3> QED
      BY <1>1, <2>4, <2>5, <3>2, <3>3, <3>4, OrphanKept DEF W
  <2>7. CASE ~(o.save > 0)
    <3>1. o.save = 0
      BY <1>2, <2>7
    <3>2. RootOrphan(o)
      BY <1>10, <3>1 DEF RootOrphan
    <3>3. Held(s) /\ \A r \in Tasks : ~RootTask(r)
      BY <2>1, <3>2 DEF Intact, Roots
    <3>4. FinishRoot(s, f)
      BY <1>10, <2>1, <2>3, <2>7
    <3>5. Connected' /\ db \subseteq db' /\ There' \subseteq There
      BY <1>3, <3>3, <3>4, FinishRootConnected
    <3>6. There' \subseteq There \cup W
      BY <1>4, <3>5
    <3> QED
      BY <1>1, <2>4, <2>5, <3>2, <3>3, <3>5, <3>6, OrphanKept DEF W
  <2> QED
    BY <2>6, <2>7
<1> QED
  BY <1>7, <1>8, <1>9, <1>10 DEF RunOrphan

-----------------------------------------------------------------------------
(***************************************************************************)
(* The steps of tasks that reach a connection.                             *)
(***************************************************************************)
\* A new root block finds nobody writing, so no other root block.
LEMMA BeginIntact == ASSUME Typed, Typed', Intact, NEW t \in Tasks, Begin(t) PROVE Intact'
<1>1. PICK c \in Conns :
        /\ BeginRoot(c)
        /\ IF CanBegin(c)
           THEN /\ states' = Append(states, [conn |-> c, saves |-> 0, writes |-> {}])
                /\ txn' = [txn EXCEPT ![t] = Len(states')]
                /\ blocks' = [blocks EXCEPT ![t] = <<[state |-> Len(states'), save |-> 0, writes |-> {}]>>]
           ELSE UNCHANGED <<states, contextVars>>
  BY DEF Begin
<1>2. /\ Running(t, "begin") /\ Idle(t) /\ orphans' = orphans /\ ops' = ops /\ mixed' = mixed
      /\ undone' = undone /\ promised' = promised
  BY DEF Begin, historyVars
<1>3. txn[t] = None /\ blocks[t] = <<>>
  BY <1>2 DEF Typed, Placed, Running
<1>4. Connected /\ Fresh /\ Roots
  BY DEF Intact
<1>5. /\ Connected' /\ db' = db /\ There' \subseteq There /\ loose' = loose
      /\ \A d \in Conns : tx[d].at = "writing" => tx'[d] = tx[d]
      /\ CanBegin(c) => /\ \A d \in Conns : tx[d].at # "writing"
                        /\ tx'[c].at = "writing" /\ c \notin loose
                        /\ tx'[c].saves = <<>> /\ tx'[c].own = {}
  BY <1>1, <1>4, BeginRootConnected
<1>6. Lasting
  BY <1>5 DEF Lasting
<1>7. Counts
  BY <1>2, CountsIdle
<1>8. undone' \cap There' = {} /\ promised' \subseteq db' /\ There' \subseteq There \cup {}
  BY <1>2, <1>4, <1>5 DEF Fresh
<1>9. StatesGrow => Fresh'
  BY <1>2, <1>4, <1>7, <1>8, FreshKept
<1>10. CASE CanBegin(c)
  <2>1. PICK e \in State : e = [conn |-> c, saves |-> 0, writes |-> {}]
    BY DEF State
  <2>2. states' = Append(states, e) /\ e.conn = c /\ e.saves = 0 /\ e.writes = {}
    BY <1>1, <1>10, <2>1
  <2>3. PICK n \in Nat : /\ DOMAIN states = 1 .. n /\ DOMAIN states' = 1 .. n + 1 /\ states'[n + 1] = e
                         /\ Len(states') = n + 1 /\ \A r \in 1 .. n : states'[r] = states[r]
    BY <2>2, TypesOf, Appended
  <2>4. StatesGrow
    <3>1. \A r \in DOMAIN states : states[r].saves <= states[r].saves
      BY TypesOf
    <3> QED
      BY <2>3, <3>1 DEF StatesGrow
  <2>5. /\ txn' = [txn EXCEPT ![t] = n + 1]
        /\ blocks' = [blocks EXCEPT ![t] = <<[state |-> n + 1, save |-> 0, writes |-> {}]>>]
    BY <1>1, <1>10, <2>3
  <2>6. /\ txn'[t] = n + 1 /\ DOMAIN blocks'[t] = {1} /\ blocks'[t][1].state = n + 1
        /\ blocks'[t][1].save = 0 /\ \A u \in Tasks \ {t} : txn'[u] = txn[u] /\ blocks'[u] = blocks[u]
    BY <2>5, TypesOf
  <2>7. ASSUME NEW u \in Tasks PROVE InState(u)'
    <3>1. CASE u = t
      BY <2>2, <2>3, <2>6, <3>1 DEF InState
    <3>2. CASE u # t
      <4>1. InState(u) /\ Leaves(u)
        BY <2>6, <3>2, SamePops, PopsLeaves DEF Intact
      <4> QED
        BY <2>4, <4>1, InStateKept
    <3> QED
      BY <3>1, <3>2
  <2>8. (\A u \in Tasks : ~RootTask(u)) /\ \A o \in orphans : ~RootOrphan(o)
    BY <1>4, <1>5, <1>10, NoRoots
  <2>9. \A u \in Tasks : RootTask(u)' => u = t
    BY <2>6, <2>8 DEF RootTask
  <2>10. Held(n + 1)'
    BY <1>5, <1>10, <2>2, <2>3 DEF Held
  <2>11. Roots'
    BY <1>2, <2>6, <2>8, <2>9, <2>10 DEF Roots, RootOrphan, Held
  <2>12. Sound(n + 1)'
    <3>1. /\ states'[n + 1].conn = c /\ states'[n + 1].writes = {} /\ DOMAIN tx'[c].saves = {}
      <4>1. DOMAIN <<>> = {}
        BY EmptyDomain, EmptySeq
      <4> QED
        BY <1>5, <1>10, <2>2, <2>3, <4>1
    <3>2. ~Deep(t)' /\ Stacked(blocks'[t], tx'[c], {})
      BY <2>6 DEF Deep, Stacked
    <3>3. \A u \in Tasks : txn'[u] = n + 1 => u = t
      <4>1. ASSUME NEW u \in Tasks, u # t PROVE txn'[u] # n + 1
        <5>1. txn[u] \in 1 .. n \cup {None}
          BY <2>3, TypesOf
        <5>2. None # n + 1
          BY NoneApart
        <5> QED
          BY <2>6, <4>1, <5>1, <5>2
      <4> QED
        BY <4>1
    <3> QED
      BY <3>1, <3>2, <3>3 DEF Sound, Rising
  <2>13. Whole'
    BY <2>6, <2>9, <2>12 DEF Whole, Sound
  <2> QED
    BY <1>5, <1>9, <2>4, <2>7, <2>11, <2>13 DEF Intact
<1>11. CASE ~CanBegin(c)
  <2>1. states' = states /\ txn' = txn /\ blocks' = blocks
    BY <1>1, <1>11 DEF contextVars
  <2>2. StatesGrow
    <3>1. \A r \in DOMAIN states : states[r].saves <= states[r].saves
      BY TypesOf
    <3> QED
      BY <2>1, <3>1 DEF StatesGrow
  <2>3. \A u \in Tasks : Pops(u) /\ Leaves(u)
    BY <2>1, SamePops, PopsLeaves
  <2>4. SameRoots
    BY <2>3, LeavesRoots DEF SameRoots
  <2>5. \A u \in Tasks : InState(u)'
    BY <2>2, <2>3, InStateKept DEF Intact
  <2>6. Roots'
    BY <1>2, <1>4, <1>6, <2>2, <2>4, RootsKept
  <2>7. ASSUME NEW r \in Tasks, RootTask(r) PROVE Undisturbed(txn[r])
    <3>1. /\ tx'[states[txn[r]].conn] = tx[states[txn[r]].conn] /\ txn[r] \in DOMAIN states
      BY <1>5, <2>7, RootHolds
    <3>2. Grown(tx[states[txn[r]].conn], tx'[states[txn[r]].conn])
      BY <3>1 DEF Grown
    <3>3. \A u \in Tasks : \E k \in Nat : Shortened(blocks[u], blocks'[u], k)
      BY <2>1, SameBlocks
    <3>4. states[txn[r]].saves <= states[txn[r]].saves
      BY <3>1, TypesOf
    <3> QED
      BY <2>1, <3>2, <3>3, <3>4 DEF Undisturbed
  <2>8. Whole'
    BY <1>2, <2>2, <2>4, <2>7, WholeKept DEF Intact
  <2> QED
    BY <1>5, <1>9, <2>2, <2>5, <2>6, <2>8 DEF Intact
<1> QED
  BY <1>10, <1>11

\* A savepoint of the root block, in the only task that has any, or of another block.
LEMMA NestIntact == ASSUME Typed, Typed', Intact, NEW t \in Tasks, Nest(t) PROVE Intact'
<1>1. /\ Running(t, "savepoint") /\ BeginNested(txn[t])
      /\ blocks' = [blocks EXCEPT ![t] =
                      Append(@, [state |-> txn[t], save |-> states'[txn[t]].saves, writes |-> {}])]
      /\ mixed' = mixed \cup Disturbed(t, txn[t]) /\ Idle(t) /\ txn' = txn /\ orphans' = orphans
      /\ ops' = ops /\ promised' = promised /\ undone' = undone
  BY DEF Nest
<1>2. Connected /\ ContextType /\ Fresh /\ Roots /\ \A u \in Tasks : InState(u)
  BY TypesOf DEF Intact
<1>3. PICK s \in DOMAIN states : s = txn[t]
  BY <1>1, TypesOf DEF Typed, Placed, Running
<1>4. PICK c \in Conns : c = states[s].conn
  BY TypesOf
<1>5. BeginNested(s)
  BY <1>1, <1>3
<1>6. /\ Connected' /\ Only(c) /\ db' = db /\ There' \subseteq There /\ Lasting
      /\ OtherStates(s) /\ states'[s].saves = states[s].saves + 1
      /\ tx[c].at = "writing" => Pushed(tx[c], tx'[c], states[s].saves + 1)
  BY <1>2, <1>4, <1>5, BeginNestedConnected
<1>7. StatesGrow
  BY <1>5, <1>6, BeginNestedGrows
<1>8. PICK m \in Nat : m = states[s].saves
  BY TypesOf
<1>9. PICK e \in Entry : e = [state |-> s, save |-> m + 1, writes |-> {}]
  <2>1. s \in Nat /\ m + 1 \in Nat
    BY TypesOf
  <2> QED
    BY <2>1 DEF Entry
<1>10. e.state = s /\ e.save = m + 1 /\ e.writes = {}
  BY <1>9
<1>11. blocks' = [blocks EXCEPT ![t] = Append(@, e)] /\ DOMAIN blocks = Tasks /\ blocks[t] \in Seq(Entry)
  BY <1>1, <1>3, <1>6, <1>8, <1>9, TypesOf
<1>12. PICK l \in Nat : /\ DOMAIN blocks[t] = 1 .. l /\ DOMAIN blocks'[t] = 1 .. l + 1
                        /\ blocks'[t] = Append(blocks[t], e) /\ blocks'[t][l + 1] = e
                        /\ \A i \in 1 .. l : blocks'[t][i] = blocks[t][i]
  BY <1>11, Appended
<1>13. \A u \in Tasks : u # t => blocks'[u] = blocks[u]
  BY <1>11
<1>14. InState(t)'
  <2>1. ASSUME NEW i \in 1 .. l
        PROVE  /\ blocks'[t][i].state = s /\ blocks'[t][i].save <= m /\ blocks'[t][i].save \in Nat
               /\ \A j \in 1 .. l : i < j => blocks'[t][i].save < blocks'[t][j].save
    <3>1. blocks[t][i].save \in Nat
      BY <1>11, <1>12, EntryTyped
    <3> QED
      BY <1>2, <1>3, <1>8, <1>12, <3>1 DEF InState
  <2>2. states'[s].saves = m + 1 /\ txn'[t] = s
    BY <1>1, <1>3, <1>6, <1>8
  <2>3. ASSUME NEW i \in 1 .. l + 1
        PROVE  /\ blocks'[t][i].state = s /\ blocks'[t][i].save <= m + 1
               /\ \A j \in 1 .. l + 1 : i < j => blocks'[t][i].save < blocks'[t][j].save
    <3>1. CASE i \in 1 .. l
      <4>1. blocks'[t][i].state = s /\ blocks'[t][i].save <= m + 1
        BY <2>1, <3>1
      <4>2. ASSUME NEW j \in 1 .. l + 1, i < j PROVE blocks'[t][i].save < blocks'[t][j].save
        <5>1. CASE j \in 1 .. l
          BY <2>1, <3>1, <4>2, <5>1
        <5>2. CASE j = l + 1
          BY <1>10, <1>12, <2>1, <3>1, <5>2
        <5> QED
          BY <5>1, <5>2
      <4> QED
        BY <4>1, <4>2
    <3>2. CASE i = l + 1
      <4>1. blocks'[t][i].state = s /\ blocks'[t][i].save = m + 1
        BY <1>10, <1>12, <3>2
      <4>2. \A j \in 1 .. l + 1 : ~(i < j)
        BY <3>2
      <4> QED
        BY <4>1, <4>2
    <3> QED
      BY <3>1, <3>2
  <2> QED
    BY <1>12, <2>2, <2>3 DEF InState
<1>15. \A u \in Tasks : InState(u)'
  <2>1. ASSUME NEW u \in Tasks, u # t PROVE InState(u)'
    BY <1>1, <1>2, <1>7, <1>13, <2>1, SamePops, PopsLeaves, InStateKept
  <2> QED
    BY <1>14, <2>1
<1>16. SameRoots
  <2>1. ASSUME RootTask(t)' PROVE RootTask(t)
    <3>1. blocks'[t][1].save = 0
      BY <2>1 DEF RootTask
    <3>2. l # 0
      BY <1>8, <1>10, <1>12, <3>1
    <3>3. 1 \in 1 .. l
      BY <3>2
    <3>4. blocks[t][1].save = 0 /\ blocks[t] # <<>>
      BY <1>11, <1>12, <3>1, <3>3, EmptyDomain
    <3> QED
      BY <3>4 DEF RootTask
  <2>2. \A u \in Tasks : u # t => (RootTask(u)' <=> RootTask(u))
    BY <1>13 DEF RootTask
  <2> QED
    BY <1>1, <2>1, <2>2 DEF SameRoots
<1>17. Roots'
  BY <1>1, <1>2, <1>6, <1>7, <1>16, RootsKept
<1>18. Fresh'
  <2>1. undone' \cap There' = {} /\ promised' \subseteq db' /\ There' \subseteq There \cup {}
    BY <1>1, <1>2, <1>6 DEF Fresh
  <2>2. Counts
    BY <1>1, CountsIdle
  <2> QED
    BY <1>1, <1>2, <1>7, <2>1, <2>2, FreshKept
<1>19. ASSUME NEW r \in Tasks, RootTask(r), txn[r] \notin mixed'
       PROVE  Undisturbed(txn[r]) \/ Sound(txn[r])'
  <2>1. PICK q \in DOMAIN states : q = txn[r] /\ q \notin mixed
    BY <1>1, <1>19, RootHolds
  <2>2. (s = q /\ Clear(t, s)) \/ c # states[q].conn
    BY <1>1, <1>2, <1>3, <1>4, <1>19, <2>1, DisturbedRoot
  <2>3. CASE c # states[q].conn
    <3>1. /\ states'[q].conn = states[q].conn /\ states[q].saves <= states'[q].saves
          /\ states'[q].writes = states[q].writes
      BY <1>6 DEF OtherStates
    <3>2. \A u \in Tasks : txn'[u] = q => txn[u] = q /\ \E k \in Nat : Shortened(blocks[u], blocks'[u], k)
      BY <1>1, <1>3, <1>4, <1>13, <2>3, SameBlocks
    <3>3. Undisturbed(q)
      BY <1>6, <2>3, <3>1, <3>2, ElsewhereUndisturbed
    <3> QED
      BY <2>1, <3>3
  <2>4. CASE s = q /\ Clear(t, s)
    <3>1. Sound(s)
      BY <1>19, <2>1, <2>4 DEF Intact, Whole
    <3>2. Pushed(tx[states[s].conn], tx'[states[s].conn], states[s].saves + 1)
      BY <1>4, <1>6, <1>19, <2>1, <2>4, RootHolds
    <3>3. \A u \in Tasks : txn[u] = s /\ Deep(u)' => u = t
      BY <1>2, <1>13, <2>4, ClearRoot DEF Deep
    <3>4. \A u \in Tasks : txn[u] = s => blocks'[u] = blocks[u] \/
                \E f \in Entry : /\ blocks'[u] = Append(blocks[u], f)
                                 /\ f.save = states[s].saves + 1 /\ f.writes = {}
      BY <1>8, <1>10, <1>12, <1>13
    <3>5. \A u \in Tasks : txn'[u] = s => txn[u] = s
      BY <1>1
    <3>6. Sound(s)'
      BY <1>2, <1>6, <3>1, <3>2, <3>3, <3>4, <3>5, SoundPushed
    <3>7. txn'[r] = s
      BY <1>1, <2>1, <2>4
    <3> QED
      BY <3>6, <3>7 DEF Sound
  <2> QED
    BY <2>2, <2>3, <2>4
<1>20. Whole'
  BY <1>1, <1>2, <1>7, <1>16, <1>19, WholeKept DEF Intact
<1> QED
  BY <1>6, <1>15, <1>17, <1>18, <1>20 DEF Intact

\* What is left of the blocks of t when the first k are, and where writes join it.
Below(t, k) == SubSeq(blocks[t], 1, k)

LEMMA JoinedEffect ==
    ASSUME Typed, NEW t \in Tasks, NEW s \in DOMAIN states, NEW k \in Nat, k <= Len(blocks[t]),
           NEW v \in SUBSET AnyWrite, Joined(t, s, k, v)
    PROVE  /\ Shortened(blocks[t], Below(t, k), k)
           /\ \A u \in Tasks : u # t => blocks'[u] = blocks[u]
           /\ StatesGrow /\ \A r \in DOMAIN states : /\ states'[r].conn = states[r].conn
                                                     /\ states'[r].saves = states[r].saves
                                                     /\ r # s => states'[r].writes = states[r].writes
           /\ DOMAIN blocks'[t] = 1 .. k
           /\ \A i \in 1 .. k : /\ i \in DOMAIN blocks[t] /\ blocks'[t][i].state = blocks[t][i].state
                                /\ blocks'[t][i].save = blocks[t][i].save
           /\ \/ /\ k > 0 /\ blocks[t][k].save > 0 /\ Merged(Below(t, k), blocks'[t], k, v)
                 /\ states'[s].writes = states[s].writes
              \/ /\ ~(k > 0 /\ blocks[t][k].save > 0) /\ blocks'[t] = Below(t, k)
                 /\ states'[s].writes = states[s].writes \cup v
<1> DEFINE b == Below(t, k)
<1>1. blocks[t] \in Seq(Entry) /\ DOMAIN blocks = Tasks
  BY TypesOf
<1>2. /\ b \in Seq(Entry) /\ Len(b) = k /\ DOMAIN b = 1 .. k /\ \A i \in 1 .. k : b[i] = blocks[t][i]
  BY <1>1, FirstOf DEF Below
<1>3. \A i \in 1 .. k : i \in DOMAIN blocks[t]
  BY <1>1, LenProperties
<1>4. Shortened(blocks[t], b, k)
  BY <1>2, <1>3 DEF Shortened
<1>5. \A r \in DOMAIN states : states[r].saves <= states[r].saves /\ states[r] \in State
  BY TypesOf
<1>6. CASE k > 0 /\ blocks[t][k].save > 0
  <2>1. PICK o : o = blocks[t][k].writes \cup v
    OBVIOUS
  <2>2. /\ blocks' = [blocks EXCEPT ![t] = [b EXCEPT ![k].writes = o]] /\ states' = states
    BY <1>6, <2>1 DEF Joined, Below
  <2> HIDE DEF b
  <2>3. k \in 1 .. k /\ b[k] \in Entry
    BY <1>2, <1>6, LenProperties
  <2>4. PICK e : e = [b[k] EXCEPT !.writes = o]
    OBVIOUS
  <2>5. e.writes = o /\ e.save = b[k].save /\ e.state = b[k].state
    BY <2>3, <2>4 DEF Entry
  <2>6. blocks'[t] = [b EXCEPT ![k] = e] /\ \A u \in Tasks : u # t => blocks'[u] = blocks[u]
    BY <1>1, <2>2, <2>4
  <2>7. DOMAIN blocks'[t] = 1 .. k /\ \A i \in 1 .. k : blocks'[t][i] = IF i = k THEN e ELSE b[i]
    BY <1>2, <2>6
  <2>8. Merged(b, blocks'[t], k, v)
    BY <1>2, <2>1, <2>3, <2>5, <2>7 DEF Merged
  <2>9. \A i \in 1 .. k : blocks'[t][i].state = b[i].state /\ blocks'[t][i].save = b[i].save
    BY <2>5, <2>7
  <2>10. StatesGrow
    BY <1>5, <2>2 DEF StatesGrow
  <2> QED
    BY <1>2, <1>3, <1>4, <1>6, <2>2, <2>6, <2>7, <2>8, <2>9, <2>10 DEF b
<1>7. CASE ~(k > 0 /\ blocks[t][k].save > 0)
  <2>1. blocks' = [blocks EXCEPT ![t] = b] /\ states' = [states EXCEPT ![s].writes = @ \cup v]
    BY <1>7 DEF Joined, Below
  <2> HIDE DEF b
  <2>2. blocks'[t] = b /\ \A u \in Tasks : u # t => blocks'[u] = blocks[u]
    BY <1>1, <2>1
  <2>3. states' = [states EXCEPT ![s] = [states[s] EXCEPT !.writes = states[s].writes \cup v]]
    BY <2>1
  <2>4. PICK e : e = [states[s] EXCEPT !.writes = states[s].writes \cup v]
    OBVIOUS
  <2>5. e.writes = states[s].writes \cup v /\ e.conn = states[s].conn /\ e.saves = states[s].saves
    BY <1>5, <2>4 DEF State
  <2>6. states' = [states EXCEPT ![s] = e]
    BY <2>3, <2>4
  <2>7. DOMAIN states' = DOMAIN states /\ states'[s] = e /\ \A r \in DOMAIN states : r # s => states'[r] = states[r]
    BY <2>6
  <2>8. \A r \in DOMAIN states : /\ states'[r].conn = states[r].conn
                                 /\ states'[r].saves = states[r].saves
                                 /\ r # s => states'[r].writes = states[r].writes
    BY <2>5, <2>7
  <2>9. StatesGrow
    BY <1>5, <2>7, <2>8 DEF StatesGrow
  <2> QED
    BY <1>2, <1>3, <1>4, <1>7, <2>2, <2>5, <2>7, <2>8, <2>9 DEF b
<1> QED
  BY <1>6, <1>7

\* A root block with nested blocks in one task, t.
LEMMA SoundFrom ==
    ASSUME NEW s, NEW c, states'[s].conn = c, NEW t \in Tasks,
           Rising(tx'[c], states'[s].saves), states'[s].writes \subseteq tx'[c].own,
           \A u \in Tasks : txn'[u] = s /\ Deep(u)' => u = t,
           Stacked(blocks'[t], tx'[c], states'[s].writes)
    PROVE  Sound(s)'
<1>1. ASSUME NEW u \in Tasks, txn'[u] = s PROVE Stacked(blocks'[u], tx'[c], states'[s].writes)
  <2>1. CASE u = t
    BY <2>1
  <2>2. CASE u # t
    <3>1. ~Deep(u)'
      BY <1>1, <2>2
    <3> QED
      BY <3>1 DEF Deep, Stacked
  <2> QED
    BY <2>1, <2>2
<1> QED
  BY <1>1 DEF Sound

LEMMA JoinedSound ==
    ASSUME Typed, Typed', NEW t \in Tasks, NEW s \in DOMAIN states, NEW k \in Nat, k <= Len(blocks[t]),
           NEW v \in SUBSET AnyWrite, Joined(t, s, k, v), txn' = txn,
           \A u \in Tasks : txn[u] = s /\ Deep(u) => u = t,
           Rising(tx'[states[s].conn], states[s].saves),
           states[s].writes \subseteq tx'[states[s].conn].own, v \subseteq tx'[states[s].conn].own,
           Stacked(Below(t, k), tx'[states[s].conn], states[s].writes),
           Avoids(blocks[t], k, tx'[states[s].conn], v)
    PROVE  Sound(s)'
<1>1. PICK y : y = tx'[states[s].conn]
  OBVIOUS
<1>2. PICK b : b = Below(t, k)
  OBVIOUS
<1>3. /\ Shortened(blocks[t], b, k)
      /\ \A u \in Tasks : u # t => blocks'[u] = blocks[u]
      /\ states'[s].conn = states[s].conn /\ states'[s].saves = states[s].saves
      /\ DOMAIN blocks'[t] = 1 .. k
      /\ \A i \in 1 .. k : i \in DOMAIN blocks[t] /\ blocks'[t][i].save = blocks[t][i].save
      /\ \/ /\ k > 0 /\ blocks[t][k].save > 0 /\ Merged(b, blocks'[t], k, v)
            /\ states'[s].writes = states[s].writes
         \/ /\ ~(k > 0 /\ blocks[t][k].save > 0) /\ blocks'[t] = b
            /\ states'[s].writes = states[s].writes \cup v
  BY <1>2, JoinedEffect
<1>4. \A u \in Tasks : txn'[u] = s /\ Deep(u)' => u = t
  BY <1>3 DEF Deep
<1>5. Rising(y, states'[s].saves)
  BY <1>1, <1>3
<1>6. CASE /\ k > 0 /\ blocks[t][k].save > 0 /\ Merged(b, blocks'[t], k, v)
           /\ states'[s].writes = states[s].writes
  <2>1. Avoids(b, k, y, v)
    BY <1>1, <1>3 DEF Avoids, Shortened
  <2>2. PICK w : w = states[s].writes
    OBVIOUS
  <2>3. PICK d : d = blocks'[t]
    OBVIOUS
  <2>4. Stacked(b, y, w) /\ Merged(b, d, k, v) /\ v \subseteq y.own
    BY <1>1, <1>2, <1>6, <2>2, <2>3
  <2>5. Stacked(d, y, w)
    BY <2>1, <2>4, StackedMerged
  <2>6. Stacked(blocks'[t], y, states'[s].writes)
    BY <1>6, <2>2, <2>3, <2>5
  <2>7. states'[s].writes \subseteq y.own
    BY <1>1, <1>6
  <2> QED
    BY <1>1, <1>3, <1>4, <1>5, <2>6, <2>7, SoundFrom
<1>7. CASE /\ ~(k > 0 /\ blocks[t][k].save > 0) /\ blocks'[t] = b
           /\ states'[s].writes = states[s].writes \cup v
  <2>1. ASSUME NEW i \in 1 .. k PROVE ~(blocks'[t][i].save > 0)
    <3>1. k \in DOMAIN blocks[t] /\ k > 0 /\ ~(blocks[t][k].save > 0)
      BY <1>3, <1>7, <2>1
    <3>2. ~(k > 1)
      BY <3>1 DEF Typed, Placed
    <3>3. i = k
      BY <2>1, <3>1, <3>2
    <3> QED
      BY <1>3, <3>1, <3>3
  <2>2. Stacked(blocks'[t], y, states'[s].writes)
    BY <1>3, <2>1 DEF Stacked
  <2>3. states'[s].writes \subseteq y.own
    BY <1>1, <1>7
  <2> QED
    BY <1>1, <1>3, <1>4, <1>5, <2>2, <2>3, SoundFrom
<1> QED
  BY <1>3, <1>6, <1>7

\* Blocks that writes join have the states and savepoints they had.
LEMMA JoinedLeaves ==
    ASSUME Typed, NEW t \in Tasks, NEW s \in DOMAIN states, NEW k \in Nat, k <= Len(blocks[t]),
           NEW v \in SUBSET AnyWrite, Joined(t, s, k, v), txn' = txn
    PROVE  StatesGrow /\ \A u \in Tasks : Leaves(u)
<1>1. /\ StatesGrow /\ \A u \in Tasks : u # t => blocks'[u] = blocks[u]
      /\ DOMAIN blocks'[t] = 1 .. k
      /\ \A i \in 1 .. k : /\ i \in DOMAIN blocks[t] /\ blocks'[t][i].state = blocks[t][i].state
                           /\ blocks'[t][i].save = blocks[t][i].save
  BY JoinedEffect
<1>2. Leaves(t)
  BY <1>1 DEF Leaves
<1>3. ASSUME NEW u \in Tasks, u # t PROVE Leaves(u)
  BY <1>1, <1>3 DEF Leaves
<1> QED
  BY <1>1, <1>2, <1>3

\* A root block that the step does not move, and that writes of others may join.
LEMMA RestUndisturbed ==
    ASSUME Typed, NEW q \in DOMAIN states, Grown(tx[states[q].conn], tx'[states[q].conn]),
           states' = states, blocks' = blocks, txn' = txn
    PROVE  Undisturbed(q)
<1>1. \A u \in Tasks : \E k \in Nat : Shortened(blocks[u], blocks'[u], k)
  BY SameBlocks
<1>2. states[q].saves <= states[q].saves
  BY TypesOf
<1> QED
  BY <1>1, <1>2 DEF Undisturbed

LEMMA AWriteIntact == ASSUME Typed, Typed', Intact, NEW t \in Tasks, AWrite(t) PROVE Intact'
<1>1. PICK s \in DOMAIN states \cup {None} : s = txn[t]
  BY TypesOf
<1>2. PICK w : w = [by |-> t, n |-> ops[t]]
  OBVIOUS
<1>3. /\ Running(t, "write") /\ Write(s, w)
      /\ IF s # None /\ CanWrite(s) /\ Clear(t, s) THEN Joined(t, s, Len(blocks[t]), {w})
         ELSE UNCHANGED <<states, blocks>>
      /\ promised' = IF CanWrite(s) /\ (s = None \/ ~InTransaction(states[s].conn))
                     THEN promised \cup {w} ELSE promised
      /\ Idle(t) /\ loose' = loose /\ txn' = txn /\ orphans' = orphans /\ ops' = ops
      /\ undone' = undone /\ mixed' = mixed
  BY <1>1, <1>2 DEF AWrite
<1>4. Connected /\ ContextType /\ Fresh /\ Roots /\ \A u \in Tasks : InState(u)
  BY TypesOf DEF Intact
<1>5. w \in AnyWrite /\ w.by = t /\ w.n = ops[t]
  BY <1>2, TypesOf DEF AnyWrite
<1>6. ~Issued(w)
  BY <1>3, <1>5 DEF Issued, Running
<1>7. w \notin There \cup undone
  BY <1>4, <1>6 DEF Fresh
<1>8. /\ Connected' /\ db \subseteq db' /\ There' \subseteq There \cup {w} /\ Lasting
      /\ \A c \in Conns : tx[c].at = "writing" => Grown(tx[c], tx'[c])
      /\ s # None /\ CanWrite(s) /\ tx[states[s].conn].at = "writing" => w \in tx'[states[s].conn].own
      /\ CanWrite(s) /\ (s = None \/ ~InTransaction(states[s].conn)) => w \in db'
  BY <1>1, <1>3, <1>4, <1>5, <1>7, WriteConnected
<1>9. Len(blocks[t]) \in Nat /\ Len(blocks[t]) <= Len(blocks[t])
  BY TypesOf, LenProperties
<1>10. {w} \in SUBSET AnyWrite
  BY <1>5
<1>11. StatesGrow /\ \A u \in Tasks : Leaves(u)
  <2>1. CASE s # None /\ CanWrite(s) /\ Clear(t, s)
    BY <1>3, <1>9, <1>10, <2>1, JoinedLeaves
  <2>2. CASE ~(s # None /\ CanWrite(s) /\ Clear(t, s))
    <3>1. states' = states /\ blocks' = blocks
      BY <1>3, <2>2
    <3>2. StatesGrow
      BY <3>1, TypesOf DEF StatesGrow
    <3> QED
      BY <1>3, <3>1, <3>2 DEF Leaves
  <2> QED
    BY <2>1, <2>2
<1>12. \A u \in Tasks : InState(u)'
  BY <1>4, <1>11, InStateKept
<1>13. SameRoots
  BY <1>11, LeavesRoots DEF SameRoots
<1>14. Roots'
  BY <1>3, <1>4, <1>8, <1>11, <1>13, RootsKept
<1>15. Fresh'
  <2>1. Issued(w)'
    <3>1. call'[t] # "write"
      BY <1>3, TasksAssumption, TypesOf DEF Idle
    <3>2. ops'[t] = ops[t] /\ ops[t] <= ops[t]
      BY <1>3, TypesOf
    <3> QED
      BY <1>5, <3>1, <3>2 DEF Issued
  <2>2. \A o \in orphans' : o.call = "write" => o.write # w
    BY <1>3, <1>4, <1>6 DEF Fresh
  <2>3. promised' \subseteq db'
    BY <1>3, <1>4, <1>8 DEF Fresh
  <2>4. undone' \cap There' = {} /\ undone' \subseteq undone \cup There
    BY <1>3, <1>4, <1>7, <1>8 DEF Fresh
  <2>5. Counts /\ orphans' \subseteq orphans
    BY <1>3, CountsIdle
  <2>6. \A x \in {w} : Issued(x)' /\ \A o \in orphans' : o.call = "write" => o.write # x
    BY <2>1, <2>2
  <2> QED
    BY <1>4, <1>8, <1>11, <2>3, <2>4, <2>5, <2>6, FreshKept
<1>16. ASSUME NEW r \in Tasks, RootTask(r), txn[r] \notin mixed'
       PROVE  Undisturbed(txn[r]) \/ Sound(txn[r])'
  <2>1. PICK q \in DOMAIN states : q = txn[r] /\ q \notin mixed
    BY <1>3, <1>16, RootHolds
  <2>2. PICK c \in Conns : c = states[q].conn
    BY TypesOf
  <2>3. tx[c].at = "writing" /\ Grown(tx[c], tx'[c])
    BY <1>8, <1>16, <2>1, <2>2, RootHolds
  <2>4. CASE ~(s # None /\ CanWrite(s) /\ Clear(t, s))
    <3>1. states' = states /\ blocks' = blocks
      BY <1>3, <2>4
    <3>2. Undisturbed(q)
      BY <1>3, <2>2, <2>3, <3>1, RestUndisturbed
    <3> QED
      BY <2>1, <3>2
  <2>5. CASE s # None /\ CanWrite(s) /\ Clear(t, s)
    <3>0. s \in DOMAIN states
      BY <2>5
    <3>1. /\ \A u \in Tasks : txn[u] = s /\ Deep(u) => u = t
          /\ \E p \in Tasks : RootTask(p) /\ txn[p] = s
      BY <1>4, <2>5, <3>0, ClearRoot
    <3>2. s = q
      BY <1>4, <1>16, <2>1, <3>1 DEF Roots
    <3>3. Sound(s)
      BY <1>16, <2>1, <3>2 DEF Intact, Whole
    <3>4. w \in tx'[c].own
      BY <1>8, <2>2, <2>3, <2>5, <3>2
    <3>5. /\ Rising(tx[c], states[s].saves) /\ states[s].writes \subseteq tx[c].own
          /\ Stacked(blocks[t], tx[c], states[s].writes)
      BY <1>1, <2>2, <3>2, <3>3 DEF Sound
    <3>6. Rising(tx'[c], states[s].saves) /\ states[s].writes \subseteq tx'[c].own /\ {w} \subseteq tx'[c].own
      BY <2>3, <3>4, <3>5 DEF Grown, Rising
    <3>7. Joined(t, s, Len(blocks[t]), {w})
      BY <1>3, <2>5
    <3>8. Stacked(Below(t, Len(blocks[t])), tx'[c], states[s].writes)
      <4>1. Shortened(blocks[t], Below(t, Len(blocks[t])), Len(blocks[t]))
        BY <1>9, <1>10, <3>0, <3>7, JoinedEffect
      <4>2. Stacked(Below(t, Len(blocks[t])), tx[c], states[s].writes)
        BY <3>5, <4>1, StackedShortened
      <4> QED
        BY <2>3, <4>2, StackedGrown
    <3>9. Avoids(blocks[t], Len(blocks[t]), tx'[c], {w})
      <4>1. \A j \in DOMAIN tx[c].saves : w \notin tx[c].saves[j].own
        BY <1>4, <1>7, ThereIs, FieldsTyped DEF Sane, Marked
      <4> QED
        BY <2>3, <4>1 DEF Avoids, Grown
    <3>10. Sound(s)'
      BY <1>3, <1>9, <1>10, <2>2, <3>0, <3>1, <3>2, <3>6, <3>7, <3>8, <3>9, JoinedSound
    <3>11. txn'[r] = s
      BY <1>3, <2>1, <3>2
    <3> QED
      BY <3>10, <3>11 DEF Sound
  <2> QED
    BY <2>4, <2>5
<1>17. Whole'
  BY <1>3, <1>4, <1>11, <1>13, <1>16, WholeKept DEF Intact
<1> QED
  BY <1>8, <1>12, <1>14, <1>15, <1>17 DEF Intact

\* A root block ends: what it kept is in the database, what it undid is nowhere.
LEMMA ExitRootIntact == ASSUME Typed, Typed', Intact, NEW t \in Tasks, ExitRoot(t) PROVE Intact'
<1>1. /\ Running(t, "finish") /\ Inner(t).save = 0 /\ FinishRoot(Inner(t).state, failed[t])
      /\ mixed' = mixed \cup Disturbed(t, Inner(t).state)
      /\ IF failed[t] THEN Undone(Inner(t).state, states[Inner(t).state].writes) /\ UNCHANGED promised
         ELSE Kept(Inner(t).state, states[Inner(t).state].writes) /\ UNCHANGED undone
      /\ Cleanup(t) /\ Idle(t) /\ orphans' = orphans /\ ops' = ops
  BY DEF ExitRoot
<1>2. Connected /\ ContextType /\ Fresh /\ Roots /\ \A u \in Tasks : InState(u)
  BY TypesOf DEF Intact
<1>3. blocks[t] # <<>>
  BY <1>1 DEF Typed, Placed, Running
<1>4. PICK s \in DOMAIN states : s = Inner(t).state /\ s = txn[t]
  BY <1>2, <1>3, InnerIs
<1>5. RootTask(t)
  BY <1>1, <1>2, <1>3, InnerIs
<1>6. PICK c \in Conns : c = states[s].conn
  BY TypesOf
<1>7. Held(s) /\ \A u \in Tasks : RootTask(u) => u = t
  BY <1>2, <1>4, <1>5 DEF Roots
<1>8. /\ Connected' /\ db \subseteq db' /\ There' \subseteq There
      /\ failed[t] => There' \cap tx[c].own = {}
      /\ ~failed[t] => tx[c].own \subseteq db'
  <2>1. PICK f : f = failed[t]
    OBVIOUS
  <2>2. FinishRoot(s, f)
    BY <1>1, <1>4, <2>1
  <2> QED
    BY <1>2, <1>6, <1>7, <2>1, <2>2, FinishRootConnected
<1>9. states' = states /\ blocks' = [blocks EXCEPT ![t] = <<>>] /\ txn' = [txn EXCEPT ![t] = None]
  BY <1>1 DEF Cleanup
<1>10. StatesGrow
  BY <1>9, TypesOf DEF StatesGrow
<1>11. \A u \in Tasks : Leaves(u)
  BY <1>9, EmptiedPops, PopsLeaves
<1>12. \A u \in Tasks : InState(u)'
  BY <1>2, <1>10, <1>11, InStateKept
<1>13. \A u \in Tasks : ~RootTask(u)'
  <2>1. blocks'[t] = <<>>
    BY <1>9, TypesOf
  <2> QED
    BY <1>7, <1>11, <2>1, LeavesRoots DEF RootTask
<1>14. Roots'
  BY <1>1, <1>2, <1>5, <1>13 DEF Roots, RootOrphan
<1>15. Whole'
  BY <1>13 DEF Whole
<1>16. s \notin mixed' => states[s].writes \subseteq tx[c].own
  BY <1>1, <1>4, <1>5, <1>6 DEF Intact, Whole, Sound
<1>17. tx[c].own \subseteq There
  BY ThereIs
<1>18. /\ undone' \subseteq undone \cup There /\ undone' \cap There' = {} /\ promised' \subseteq db'
  <2>1. CASE failed[t]
    <3>1. promised' = promised /\ undone' = IF s \in mixed' THEN undone ELSE undone \cup states[s].writes
      BY <1>1, <1>4, <2>1 DEF Undone
    <3> QED
      BY <1>2, <1>8, <1>16, <1>17, <2>1, <3>1 DEF Fresh
  <2>2. CASE ~failed[t]
    <3>1. undone' = undone /\ promised' = IF s \in mixed' THEN promised ELSE promised \cup states[s].writes
      BY <1>1, <1>4, <2>2 DEF Kept
    <3> QED
      BY <1>2, <1>8, <1>16, <2>2, <3>1 DEF Fresh
  <2> QED
    BY <2>1, <2>2
<1>19. Fresh'
  <2>1. Counts /\ orphans' \subseteq orphans /\ There' \subseteq There \cup {}
    BY <1>1, <1>8, CountsIdle
  <2> QED
    BY <1>2, <1>10, <1>18, <2>1, FreshKept
<1> QED
  BY <1>8, <1>12, <1>14, <1>15, <1>19 DEF Intact

\* The savepoints of a nested block that nobody disturbed: its own is found, and
\* its writes are all above it.
LEMMA NestedEnds ==
    ASSUME Typed, Intact, NEW t \in Tasks, blocks[t] # <<>>, NEW s \in DOMAIN states, s = txn[t],
           Clear(t, s), s \notin mixed, Inner(t).save > 0, NEW f, FinishNested(s, Inner(t).save, f),
           NEW c \in Conns, c = states[s].conn
    PROVE  /\ Sound(s) /\ db' = db
           /\ \A u \in Tasks : txn[u] = s /\ Deep(u) => u = t
           /\ Rising(tx'[c], states[s].saves) /\ states[s].writes \subseteq tx'[c].own
           /\ Stacked(Front(blocks[t]), tx'[c], states[s].writes)
           /\ Avoids(blocks[t], Len(blocks[t]) - 1, tx'[c], Inner(t).writes)
           /\ Inner(t).writes \subseteq tx[c].own
           /\ f => There' \cap Inner(t).writes = {}
           /\ ~f => Inner(t).writes \subseteq tx'[c].own
<1>1. Connected /\ ContextType /\ Roots /\ \A u \in Tasks : InState(u)
  BY TypesOf DEF Intact
<1>2. /\ \A u \in Tasks : txn[u] = s /\ Deep(u) => u = t
      /\ \E p \in Tasks : RootTask(p) /\ txn[p] = s
  BY <1>1, ClearRoot
<1>3. PICK p \in Tasks : RootTask(p) /\ txn[p] = s
  BY <1>2
<1>4. Sound(s) /\ tx[c].at = "writing" /\ c \notin loose
  BY <1>3, RootHolds DEF Intact, Whole
<1>5. PICK x \in Tx : x = tx[c] /\ Marked(x) /\ x.own \cap db = {}
  BY <1>1, <1>4, FieldsTyped DEF Sane
<1>6. PICK y : y = tx'[c]
  OBVIOUS
<1>7. PICK b \in Seq(Entry) : b = blocks[t] /\ b # <<>>
  BY TypesOf
<1>8. PICK l \in Nat \ {0} : l = Len(b) /\ DOMAIN b = 1 .. l /\ Inner(t) = b[l]
  BY <1>1, <1>7, InnerIs
<1>9. PICK n \in Nat : n = Inner(t).save /\ n > 0
  BY <1>1, InnerIs
<1>10. PICK m \in Nat : m = states[s].saves
  BY TypesOf
<1>11. PICK w : w = states[s].writes
  OBVIOUS
<1>12. Rising(x, m) /\ Stacked(b, x, w) /\ w \subseteq x.own
  BY <1>4, <1>5, <1>7, <1>10, <1>11 DEF Sound
<1>13. l \in DOMAIN b /\ b[l].save = n
  BY <1>8, <1>9
<1>14. PICK i \in DOMAIN x.saves : x.saves[i].name = n
  BY <1>9, <1>12, <1>13 DEF Stacked
<1>15. i \in Nat
  BY MarkTyped
<1>16. /\ Connected' /\ Only(c) /\ db' = db
       /\ \E j \in DOMAIN x.saves :
            /\ Cut(x, y, j) /\ x.saves[j].name = n
            /\ f => y.own = x.saves[j].own
            /\ ~f => y.own = x.own
  <2>1. FinishNested(s, n, f)
    BY <1>9
  <2>2. tx[c].at = "writing" /\ c \notin loose /\ Rising(tx[c], m)
    BY <1>4, <1>5, <1>12
  <2>3. i \in DOMAIN tx[c].saves /\ tx[c].saves[i].name = n
    BY <1>5, <1>14
  <2> QED
    BY <1>1, <1>5, <1>6, <1>15, <2>1, <2>2, <2>3, FinishNestedConnected
<1>17. PICK j \in DOMAIN x.saves :
            /\ Cut(x, y, j) /\ x.saves[j].name = n
            /\ f => y.own = x.saves[j].own
            /\ ~f => y.own = x.own
  BY <1>16
<1>18. Innermost(b)
  <2>1. \A h, k \in DOMAIN b : h < k => b[h].save < b[k].save
    BY <1>1, <1>7 DEF InState
  <2>2. \A h \in 1 .. l : h # l => h < l
    OBVIOUS
  <2> QED
    BY <1>8, <2>1, <2>2 DEF Innermost
<1>19. /\ Stacked(Front(b), y, w) /\ w \subseteq y.own
       /\ b[l].writes \subseteq x.own /\ b[l].writes \cap x.saves[j].own = {}
       /\ Avoids(b, l - 1, y, b[l].writes)
  <2>1. b[Len(b)].save > 0 /\ x.saves[j].name = b[Len(b)].save
    BY <1>8, <1>9, <1>13, <1>17
  <2>2. /\ Stacked(Front(b), y, w) /\ w \subseteq y.own
        /\ b[Len(b)].writes \subseteq x.own /\ b[Len(b)].writes \cap x.saves[j].own = {}
        /\ Avoids(b, Len(b) - 1, y, b[Len(b)].writes)
    <3>1. x \in Tx /\ Marked(x)
      BY <1>5
    <3>2. b \in Seq(Entry) /\ b # <<>>
      BY <1>7
    <3>3. Rising(x, m) /\ Stacked(b, x, w)
      BY <1>12
    <3>4. Cut(x, y, j)
      BY <1>17
    <3> QED
      BY <1>18, <2>1, <3>1, <3>2, <3>3, <3>4, StackedCut
  <2> QED
    BY <1>8, <2>2
<1>20. Rising(y, m)
  BY <1>12, <1>17, CutRising
<1>21. f => There' \cap b[l].writes = {}
  <2> SUFFICES ASSUME f, NEW v \in There', v \in b[l].writes PROVE FALSE
    OBVIOUS
  <2>1. v \notin db' /\ v \notin y.own
    BY <1>5, <1>16, <1>17, <1>19
  <2>2. \A d \in Conns : d # c => tx'[d].own = {}
    BY <1>1, <1>4, <1>16, OthersQuiet DEF Only
  <2>3. v \in db' \/ \E d \in Conns : v \in tx'[d].own
    BY DEF There
  <2> QED
    BY <1>6, <2>1, <2>2, <2>3
<1>22. ~f => b[l].writes \subseteq y.own
  BY <1>17, <1>19
<1> QED
  BY <1>2, <1>4, <1>5, <1>6, <1>7, <1>8, <1>10, <1>11, <1>16, <1>19, <1>20, <1>21, <1>22

LEMMA ExitNestedIntact == ASSUME Typed, Typed', Intact, NEW t \in Tasks, ExitNested(t) PROVE Intact'
<1>1. /\ Running(t, "finish") /\ Inner(t).save > 0
      /\ FinishNested(Inner(t).state, Inner(t).save, failed[t])
      /\ mixed' = mixed \cup Disturbed(t, Inner(t).state)
      /\ IF failed[t]
         THEN /\ Undone(Inner(t).state, Inner(t).writes) /\ UNCHANGED states
              /\ blocks' = [blocks EXCEPT ![t] = Front(@)]
         ELSE Joined(t, Inner(t).state, Len(blocks[t]) - 1, Inner(t).writes) /\ UNCHANGED undone
      /\ Idle(t) /\ txn' = txn /\ orphans' = orphans /\ ops' = ops /\ promised' = promised
  BY DEF ExitNested
<1>2. Connected /\ ContextType /\ Fresh /\ Roots /\ \A u \in Tasks : InState(u)
  BY TypesOf DEF Intact
<1>3. blocks[t] # <<>>
  BY <1>1 DEF Typed, Placed, Running
<1>4. PICK s \in DOMAIN states : s = Inner(t).state /\ s = txn[t]
  <2>1. Inner(t).state = txn[t] /\ txn[t] \in DOMAIN states
    BY <1>2, <1>3, InnerIs
  <2> QED
    BY <2>1
<1>5. PICK c \in Conns : c = states[s].conn
  BY TypesOf
<1>6. PICK v \in SUBSET AnyWrite : v = Inner(t).writes
  <2>1. Inner(t).writes \in SUBSET AnyWrite
    BY <1>2, <1>3, InnerIs
  <2> QED
    BY <2>1
<1>7. PICK k \in Nat : k = Len(blocks[t]) - 1 /\ k <= Len(blocks[t])
  <2>1. Len(blocks[t]) \in Nat \ {0}
    BY <1>2, <1>3, InnerIs
  <2>2. PICK l \in Nat \ {0} : l = Len(blocks[t])
    BY <2>1
  <2>3. l - 1 \in Nat /\ l - 1 <= l
    OBVIOUS
  <2> QED
    BY <2>2, <2>3
<1>8. PICK f : f = failed[t]
  OBVIOUS
<1>9. FinishNested(s, Inner(t).save, f)
  BY <1>1, <1>4, <1>8
<1>10. Connected' /\ Only(c) /\ db \subseteq db' /\ There' \subseteq There /\ Lasting
  BY <1>2, <1>5, <1>9, FinishNestedConnected
<1>11. failed[t] => states' = states /\ blocks' = [blocks EXCEPT ![t] = Front(@)]
  BY <1>1
<1>12. ~failed[t] => Joined(t, s, k, v)
  BY <1>1, <1>4, <1>6, <1>7
<1>13. StatesGrow /\ \A u \in Tasks : Leaves(u)
  <2>1. CASE failed[t]
    <3>1. StatesGrow
      BY <1>11, <2>1, TypesOf DEF StatesGrow
    <3> QED
      BY <1>1, <1>3, <1>11, <2>1, <3>1, FrontPops, PopsLeaves
  <2>2. CASE ~failed[t]
    BY <1>1, <1>7, <1>12, <2>2, JoinedLeaves
  <2> QED
    BY <2>1, <2>2
<1>14. \A u \in Tasks : InState(u)'
  BY <1>2, <1>13, InStateKept
<1>15. SameRoots
  BY <1>13, LeavesRoots DEF SameRoots
<1>16. Roots'
  BY <1>1, <1>2, <1>10, <1>13, <1>15, RootsKept
<1>17. ASSUME s \notin mixed, Clear(t, s)
       PROVE  /\ Sound(s) /\ db' = db
              /\ \A u \in Tasks : txn[u] = s /\ Deep(u) => u = t
              /\ Rising(tx'[c], states[s].saves) /\ states[s].writes \subseteq tx'[c].own
              /\ Stacked(Front(blocks[t]), tx'[c], states[s].writes)
              /\ Avoids(blocks[t], k, tx'[c], v)
              /\ v \subseteq tx[c].own
              /\ f => There' \cap v = {}
              /\ ~f => v \subseteq tx'[c].own
  BY <1>1, <1>3, <1>4, <1>5, <1>6, <1>7, <1>9, <1>17, NestedEnds
<1>18. s \notin mixed' => s \notin mixed /\ Clear(t, s)
  BY <1>1, <1>4 DEF Disturbed
<1>19. undone' \subseteq undone \cup There /\ undone' \cap There' = {} /\ promised' \subseteq db'
  <2>1. promised' \subseteq db'
    BY <1>1, <1>2, <1>10 DEF Fresh
  <2>2. CASE undone' = undone
    BY <1>2, <1>10, <2>1, <2>2 DEF Fresh
  <2>3. CASE undone' # undone
    <3>1. failed[t] /\ s \notin mixed' /\ undone' = undone \cup v
      BY <1>1, <1>4, <1>6, <2>3 DEF Undone
    <3>2. v \subseteq There /\ There' \cap v = {}
      BY <1>8, <1>17, <1>18, <3>1, ThereIs
    <3> QED
      BY <1>2, <1>10, <2>1, <3>1, <3>2 DEF Fresh
  <2> QED
    BY <2>2, <2>3
<1>20. Fresh'
  <2>1. Counts /\ orphans' \subseteq orphans /\ There' \subseteq There \cup {}
    BY <1>1, <1>10, CountsIdle
  <2> QED
    BY <1>2, <1>13, <1>19, <2>1, FreshKept
<1>21. ASSUME NEW r \in Tasks, RootTask(r), txn[r] \notin mixed'
       PROVE  Undisturbed(txn[r]) \/ Sound(txn[r])'
  <2>1. PICK q \in DOMAIN states : q = txn[r] /\ q \notin mixed
    BY <1>1, <1>21, RootHolds
  <2>2. (s = q /\ Clear(t, s)) \/ c # states[q].conn
    BY <1>1, <1>2, <1>4, <1>5, <1>21, <2>1, DisturbedRoot
  <2>3. CASE c # states[q].conn
    <3>1. /\ states'[q].conn = states[q].conn /\ states[q].saves <= states'[q].saves
          /\ states'[q].writes = states[q].writes
          /\ \A u \in Tasks : u # t => blocks'[u] = blocks[u]
      <4>1. s # q
        BY <1>5, <2>3
      <4>2. CASE failed[t]
        BY <1>11, <4>2, TypesOf
      <4>3. CASE ~failed[t]
        <5>1. /\ \A u \in Tasks : u # t => blocks'[u] = blocks[u]
              /\ states'[q].conn = states[q].conn /\ states'[q].saves = states[q].saves
              /\ states'[q].writes = states[q].writes
          BY <1>7, <1>12, <4>1, <4>3, JoinedEffect
        <5>2. states[q].saves <= states[q].saves
          BY TypesOf
        <5> QED
          BY <5>1, <5>2
      <4> QED
        BY <4>2, <4>3
    <3>2. \A u \in Tasks : txn'[u] = q => txn[u] = q /\ \E h \in Nat : Shortened(blocks[u], blocks'[u], h)
      BY <1>1, <1>4, <1>5, <2>3, <3>1, SameBlocks
    <3>3. Undisturbed(q)
      BY <1>10, <2>3, <3>1, <3>2, ElsewhereUndisturbed
    <3> QED
      BY <2>1, <3>3
  <2>4. CASE s = q /\ Clear(t, s)
    <3>1. /\ \A u \in Tasks : txn[u] = s /\ Deep(u) => u = t
          /\ Rising(tx'[c], states[s].saves) /\ states[s].writes \subseteq tx'[c].own
          /\ Stacked(Front(blocks[t]), tx'[c], states[s].writes)
          /\ Avoids(blocks[t], k, tx'[c], v)
          /\ ~f => v \subseteq tx'[c].own
      BY <1>17, <2>1, <2>4
    <3>2. CASE failed[t]
      <4>1. blocks'[t] = Front(blocks[t]) /\ states' = states /\ \A u \in Tasks : u # t => blocks'[u] = blocks[u]
        BY <1>11, <3>2, TypesOf
      <4>2. \A u \in Tasks : txn'[u] = s /\ Deep(u)' => u = t
        BY <1>1, <3>1, <4>1 DEF Deep
      <4>3. Sound(s)'
        BY <1>5, <3>1, <4>1, <4>2, SoundFrom
      <4> QED
        BY <1>1, <2>1, <2>4, <4>3 DEF Sound
    <3>3. CASE ~failed[t]
      <4>1. Front(blocks[t]) = Below(t, k)
        BY <1>7 DEF Front, Below
      <4>2. Joined(t, s, k, v) /\ v \subseteq tx'[c].own
        BY <1>8, <1>12, <3>1, <3>3
      <4>3. Sound(s)'
        BY <1>1, <1>5, <1>7, <3>1, <4>1, <4>2, JoinedSound
      <4> QED
        BY <1>1, <2>1, <2>4, <4>3 DEF Sound
    <3> QED
      BY <3>2, <3>3
  <2> QED
    BY <2>2, <2>3, <2>4
<1>22. Whole'
  BY <1>1, <1>2, <1>13, <1>15, <1>21, WholeKept DEF Intact
<1> QED
  BY <1>10, <1>14, <1>16, <1>20, <1>22 DEF Intact

-----------------------------------------------------------------------------
LEMMA WholeInit == Init => Intact
<1> SUFFICES ASSUME Init PROVE Intact
  OBVIOUS
<1>1. Typed
  BY TypedInit
<1>2. /\ db = {} /\ tx = [c \in Conns |-> NoTx("closed")] /\ loose = {} /\ orphans = {}
      /\ promised = {} /\ undone = {} /\ \A t \in Tasks : blocks[t] = <<>>
  BY DEF Init, SqlInit
<1>3. PICK y : y = NoTx("closed") /\ Sane(y) /\ y.at = "closed" /\ y.own = {}
  BY NoTxSane
<1>4. DOMAIN tx = Conns /\ \A c \in Conns : tx[c] = y
  BY <1>2, <1>3
<1>5. tx \in [Conns -> Tx]
  BY <1>2, <1>3 DEF Sane
<1>6. Connected
  BY <1>2, <1>3, <1>4, <1>5 DEF Connected, Alone
<1>7. \A t \in Tasks : ~RootTask(t) /\ DOMAIN blocks[t] = {}
  BY <1>1, <1>2, EmptyDomain, TypesOf DEF RootTask
<1>8. \A t \in Tasks : InState(t)
  BY <1>7 DEF InState
<1>9. There = {}
  BY <1>2, <1>3, <1>4 DEF There
<1>10. Fresh
  BY <1>2, <1>9 DEF Fresh
<1>11. Roots /\ Whole
  BY <1>2, <1>7 DEF Roots, Whole
<1> QED
  BY <1>6, <1>8, <1>10, <1>11 DEF Intact

LEMMA IntactNext == Typed /\ Intact /\ [Next]_vars => Intact'
<1> SUFFICES ASSUME Typed, Intact, [Next]_vars PROVE Intact'
  OBVIOUS
<1>1. Typed'
  BY TypedNext
<1>2. CASE UNCHANGED vars
  <2>1. /\ UNCHANGED <<sqlVars, loose, states, historyVars>> /\ blocks' = blocks /\ txn' = txn
        /\ ops' = ops /\ call' = call /\ orphans' = orphans
    BY <1>2 DEF vars, connVars, contextVars, taskVars
  <2>2. \A u \in Tasks : Pops(u)
    BY <2>1, SamePops
  <2>3. Counts
    BY <2>1 DEF Counts
  <2> QED
    BY <1>1, <2>1, <2>2, <2>3, CalmIntact
<1>3. CASE \E o \in orphans : RunOrphan(o)
  BY <1>1, <1>3, RunOrphanIntact
<1>4. ASSUME NEW t \in Tasks,
             \/ \E c \in {"begin", "write"} : Request(t, c)
             \/ \E c \in {"savepoint", "write"} : Submit(t, c)
             \/ Acquire(t) \/ Begin(t) \/ Nest(t) \/ AWrite(t) \/ Leave(t) \/ ExitNested(t) \/ ExitRoot(t)
             \/ CancelWaiting(t) \/ CancelCall(t) \/ CancelFinish(t)
             \/ \E u \in Tasks : Spawn(t, u)
      PROVE  Intact'
  BY <1>1, <1>4, CallsIntact, BeginIntact, NestIntact, AWriteIntact, ExitNestedIntact, ExitRootIntact,
     CancelCallIntact, CancelFinishIntact
<1> QED
  BY <1>2, <1>3, <1>4 DEF Next, Finished

\* Whatever is cancelled, and whatever tasks a block starts, what a task was told is
\* true, of blocks nested as deep as may be: promised writes are in the database,
\* and those of a block left with an exception are not, nor will be.
THEOREM BlocksKeptWhole == Spec => []BlocksWhole
<1>1. Init => WholeInv
  BY TypedInit, WholeInit DEF WholeInv
<1>2. WholeInv /\ [Next]_vars => WholeInv'
  BY TypedNext, IntactNext DEF WholeInv
<1>3. WholeInv => BlocksWhole
  BY ThereIs DEF WholeInv, Intact, Fresh, BlocksWhole
<1> QED
  BY <1>1, <1>2, <1>3, PTL DEF Spec
=============================================================================
