---------------------------- MODULE ObjectsProofs ----------------------------
(***************************************************************************)
(* What an instance knows of its row, and what save() may write over.      *)
(***************************************************************************)
EXTENDS Objects, FiniteSetTheorems, TLAPS

(***************************************************************************)
(* The inductive invariant.                                                *)
(***************************************************************************)
Table == [Keys -> Row \cup {None}]

Typed ==
    /\ rows \in Table /\ before \in Table
    /\ block \in Procs \cup {None}
    /\ block = None => rows = before
    /\ obj \in [Procs -> Object \cup {None}]
    /\ found \in [Procs -> {None, "own", "outer"}]
    /\ ops \in Nat

\* A field that was never loaded is None, in the snapshot too, and one that
\* was not set is as it was loaded or saved.
Sound(o) ==
    /\ o \in Object
    /\ \A f \in Fields \ o.loaded : o.v[f] = None /\ o.snap[f] = None
    /\ o.persisted =>
        /\ o.pk \in Keys
        /\ \A f \in Fields \ o.touched : o.v[f] = o.snap[f]

\* Unless somebody else has written it, the row is as in the snapshot, apart
\* from a deferred field that was set without having been loaded.
Knows(o, row) ==
    o.persisted /\ ~o.estranged =>
        /\ row # None
        /\ row.born = o.born
        /\ \A f \in o.loaded : row.v[f] = o.snap[f] \/ (o.snap[f] = None /\ o.v[f] # None)

Holds(p) == obj[p] # None => Sound(obj[p]) /\ Knows(obj[p], View(p)[obj[p].pk])

\* Between the lookup of get_or_create and its insert the block is open, and there
\* still is no row with that name.
Creating(p) ==
    found[p] # None =>
        /\ block = p
        /\ found[p] = "own" => rows = before
        /\ obj[p] # None
        /\ obj[p].pk = None /\ ~obj[p].persisted /\ ~obj[p].estranged
        /\ obj[p].v["deleted"] = 0 /\ obj[p].loaded = Fields
        /\ Matching(p, obj[p].v["name"]) = {}

Created ==
    /\ last.op \in Ops \cup {"none", "create"}
    /\ last.op = "create" =>
        /\ last.by \in Procs
        /\ obj[last.by] # None =>
            \E k \in Keys : Matching(last.by, obj[last.by].v["name"]) = {k}

Inv == Typed /\ Created /\ \A p \in Procs : Holds(p) /\ Creating(p)

(***************************************************************************)
(* Lemmas about objects and rows.                                          *)
(***************************************************************************)
LEMMA NoneApart ==
    /\ None \notin Nat /\ None \notin Procs /\ None \notin Row /\ None \notin Object
    /\ None \notin Vals /\ None \notin Keys
BY NoneAssumption, BoundsAssumption DEF Vals, Keys

LEMMA GivenType == ASSUME NEW n \in Vals PROVE Given(n) \in Values
BY DEF Given, Values, Fields, Vals

\* An object that was never saved knows no row.
LEMMA NewIsSound ==
    ASSUME NEW v \in Values, NEW k \in Keys \cup {None}
    PROVE  LET o == [NewObject(v) EXCEPT !.pk = k]
           IN  /\ o.pk = k /\ ~o.persisted /\ ~o.estranged /\ o.loaded = Fields /\ o.v = v
               /\ Sound(o)
BY DEF NewObject, Sound, Object, Unsnapped, Values

\* An object just read is as its row.
LEMMA ReadIsSound ==
    ASSUME Typed, NEW p \in Procs, NEW k \in Keys, View(p)[k] # None, NEW without \in SUBSET Fields
    PROVE  LET o == FromRow(p, k, without)
           IN  /\ o.pk = k /\ o.persisted /\ ~o.estranged
               /\ o \in Object /\ Sound(o) /\ Knows(o, View(p)[k])
<1>1. View(p)[k] \in Row
  BY DEF Typed, Table, View
<1> DEFINE w == [f \in Fields |-> IF f \in without THEN None ELSE View(p)[k].v[f]]
<1>2. w \in Values
  BY <1>1 DEF Row, Values
<1>3. View(p)[k].born \in Nat
  BY <1>1 DEF Row
<1>4. FromRow(p, k, without) =
        [pk |-> k, persisted |-> TRUE, v |-> w, snap |-> w, loaded |-> Fields \ without,
         born |-> View(p)[k].born, touched |-> {}, estranged |-> FALSE]
  BY DEF FromRow
<1> QED
  BY <1>2, <1>3, <1>4 DEF Sound, Knows, Object

LEMMA SetIsSound ==
    ASSUME NEW o, Sound(o), NEW f \in Fields, NEW x \in Vals
    PROVE  LET s == Set(o, f, x)
           IN  /\ Sound(s) /\ s.pk = o.pk /\ s.persisted = o.persisted /\ s.born = o.born
               /\ s.estranged = o.estranged /\ s.touched = o.touched \cup {f}
               /\ \A row : Knows(o, row) => Knows(s, row)
<1> DEFINE s == Set(o, f, x)
<1>1. o \in Object /\ o.v \in Values /\ o.loaded \subseteq Fields /\ o.touched \subseteq Fields
  BY DEF Sound, Object
<1>2. /\ s.pk = o.pk /\ s.persisted = o.persisted /\ s.born = o.born /\ s.snap = o.snap
      /\ s.estranged = o.estranged /\ s.touched = o.touched \cup {f}
      /\ s.loaded = o.loaded \cup {f}
      /\ s.v = [o.v EXCEPT ![f] = x] /\ s.v \in Values
  BY <1>1 DEF Set, Object, Values
<1>3. s \in Object
  BY <1>1, <1>2 DEF Set, Object
<1>4. \A g \in Fields : s.v[g] = IF g = f THEN x ELSE o.v[g]
  BY <1>1, <1>2 DEF Values
<1>5. Sound(s)
  BY <1>2, <1>3, <1>4 DEF Sound
<1>6. ASSUME NEW row, Knows(o, row) PROVE Knows(s, row)
  <2>1. ASSUME NEW g \in s.loaded, o.persisted, ~o.estranged
        PROVE  row.v[g] = s.snap[g] \/ (s.snap[g] = None /\ s.v[g] # None)
    BY <2>1, <1>1, <1>2, <1>4, <1>6, NoneApart DEF Knows, Sound
  <2> QED
    BY <2>1, <1>2, <1>6 DEF Knows
<1> HIDE DEF s
<1> QED
  BY <1>2, <1>5, <1>6 DEF s

LEMMA SnapshotIsSound ==
    ASSUME NEW o, Sound(o)
    PROVE  LET s == TakeSnapshot(o)
           IN  /\ s \in Object /\ Sound(s) /\ s.pk = o.pk /\ s.persisted = o.persisted
               /\ s.born = o.born /\ s.estranged = o.estranged /\ s.loaded = o.loaded
               /\ s.v = o.v /\ s.snap = o.v
BY DEF Sound, TakeSnapshot, Object

\* One whose row was written by somebody else promises nothing of it.
LEMMA StrangerIsSound ==
    ASSUME NEW o, Sound(o)
    PROVE  LET s == [o EXCEPT !.estranged = TRUE]
           IN  Sound(s) /\ \A row : Knows(s, row)
BY DEF Sound, Knows, Object

(***************************************************************************)
(* Calls that write no row, and calls that write one.                      *)
(***************************************************************************)
LEMMA CallsAreKnown ==
    ASSUME NEW p \in Procs, NEW op, Call(p, op), Typed
    PROVE  Created' /\ ops' \in Nat /\ found[p] = None
BY OpsAssumption DEF Call, Created, Operations, Typed

\* A call that only reads, and leaves its process with an object it knows.
LEMMA Reading ==
    ASSUME Inv, NEW p \in Procs, NEW op, Call(p, op), UNCHANGED <<rows, before, block, found>>,
           NEW o, obj' = [obj EXCEPT ![p] = o], o # None => Sound(o) /\ Knows(o, View(p)[o.pk])
    PROVE  Inv'
<1>1. Typed /\ found[p] = None /\ Created' /\ ops' \in Nat
  BY CallsAreKnown DEF Inv
<1>2. o \in Object \cup {None}
  BY DEF Sound
<1>3. Typed'
  BY <1>1, <1>2 DEF Typed
<1>4. \A q \in Procs : obj'[q] = IF q = p THEN o ELSE obj[q]
  BY <1>1 DEF Typed
<1>5. \A q \in Procs : View(q)' = View(q)
  BY DEF View
<1>6. ASSUME NEW q \in Procs PROVE Holds(q)'
  <2>1. Holds(q)
    BY DEF Inv
  <2> QED
    BY <2>1, <1>4, <1>5 DEF Holds
<1>7. ASSUME NEW q \in Procs PROVE Creating(q)'
  <2>1. CASE q = p
    BY <2>1, <1>1 DEF Creating
  <2>2. CASE q # p
    <3>1. Creating(q) /\ obj'[q] = obj[q]
      BY <2>2, <1>4 DEF Inv
    <3>2. \A n : Matching(q, n)' = Matching(q, n)
      BY <1>5 DEF Matching
    <3> QED
      BY <3>1, <3>2 DEF Creating
  <2> QED
    BY <2>1, <2>2
<1> QED
  BY <1>1, <1>3, <1>6, <1>7 DEF Inv

\* What a row is to an object that did not write it.
Alike(a, b) ==
    /\ a = None <=> b = None
    /\ a # None => a.born = b.born /\ \A f \in Fields : a.v[f] = b.v[f]

LEMMA AlikeIsKnown ==
    ASSUME NEW a, NEW b, Alike(a, b), NEW o, o \in Object, Knows(o, a)
    PROVE  Knows(o, b)
BY DEF Alike, Knows, Object

\* Those who write wait for the others' blocks.
LEMMA NobodyElseCreates ==
    ASSUME Inv, NEW p \in Procs, MayWrite(p), NEW q \in Procs, q # p
    PROVE  found[q] = None
BY NoneApart DEF Inv, Creating, MayWrite

LEMMA PutIsSeen ==
    ASSUME Typed, NEW p \in Procs, MayWrite(p), NEW table \in Table, Put(table), block' = block
    PROVE  /\ rows' = table /\ before' \in Table
           /\ block' = None => rows' = before'
           /\ View(p) = rows /\ View(p)' = table
           /\ \A q \in Procs \ {p} :
                \/ View(q) = rows /\ View(q)' = table
                \/ View(q)' = View(q)
BY NoneApart DEF Typed, MayWrite, Put, View

\* A call that writes row k, or nothing: the other objects of that row are
\* estranged, or it is as it was, or there was none.
LEMMA Writing ==
    ASSUME Inv, NEW p \in Procs, NEW op, Call(p, op), MayWrite(p), UNCHANGED <<block, found>>,
           NEW table \in Table, Put(table),
           NEW k \in Keys, \A j \in Keys \ {k} : table[j] = rows[j],
           NEW os, os = Estrange(obj, p, k) \/ (os = obj /\ (rows[k] = None \/ Alike(rows[k], table[k]))),
           NEW o, obj' = [os EXCEPT ![p] = o], Sound(o), Knows(o, table[o.pk])
    PROVE  Inv'
<1>1. Typed /\ found[p] = None /\ Created' /\ ops' \in Nat
  BY CallsAreKnown DEF Inv
<1>2. /\ rows' = table /\ before' \in Table
      /\ block' = None => rows' = before'
      /\ View(p) = rows /\ View(p)' = table
      /\ \A q \in Procs \ {p} :
            \/ View(q) = rows /\ View(q)' = table
            \/ View(q)' = View(q)
  BY <1>1, PutIsSeen
<1>3. \A q \in Procs : Holds(q) /\ (obj[q] # None => obj[q] \in Object)
  BY <1>1 DEF Inv, Typed
<1>4. /\ DOMAIN os = Procs
      /\ \A q \in Procs \ {p} :
            \/ os[q] = obj[q]
            \/ /\ obj[q] # None /\ obj[q].persisted
               /\ os[q] = [obj[q] EXCEPT !.estranged = TRUE]
  BY <1>1 DEF Typed, Estrange
<1>5. obj'[p] = o /\ \A q \in Procs \ {p} : obj'[q] = os[q]
  BY <1>4
<1>6. ASSUME NEW q \in Procs \ {p}, obj[q] # None
      PROVE  Holds(q)' /\ obj'[q] \in Object
  <2> DEFINE mine == obj[q]
  <2>1. Sound(mine) /\ Knows(mine, View(q)[mine.pk]) /\ mine \in Object
    BY <1>3, <1>6 DEF Holds
  <2>2. CASE obj'[q] = [mine EXCEPT !.estranged = TRUE]
    <3>1. Sound(obj'[q]) /\ \A row : Knows(obj'[q], row)
      BY <2>1, <2>2, StrangerIsSound
    <3> QED
      BY <3>1 DEF Holds, Sound
  <2>3. CASE obj'[q] = mine /\ ~(mine.persisted /\ ~mine.estranged)
    BY <2>1, <2>3 DEF Holds, Knows
  <2>4. CASE obj'[q] = mine /\ mine.persisted /\ ~mine.estranged
    <3>1. mine.pk \in Keys
      BY <2>1, <2>4 DEF Sound
    <3>2. Knows(mine, View(q)'[mine.pk])
      <4>1. CASE View(q)' = View(q)
        BY <4>1, <2>1
      <4>2. CASE View(q) = rows /\ View(q)' = table
        <5>1. CASE mine.pk # k
          BY <5>1, <4>2, <3>1, <2>1
        <5>2. CASE mine.pk = k
          <6>1. rows[k] # None
            BY <5>2, <4>2, <2>1, <2>4 DEF Knows
          <6>2. os # Estrange(obj, p, k)
            <7>1. SUFFICES ASSUME os = Estrange(obj, p, k) PROVE FALSE
              OBVIOUS
            <7>2. os[q] = [mine EXCEPT !.estranged = TRUE]
              BY <7>1, <5>2, <2>4, <1>6 DEF Estrange
            <7>3. os[q] = mine
              BY <1>5, <2>4
            <7> QED
              BY <7>2, <7>3, <2>1, <2>4 DEF Object
          <6>3. Alike(rows[k], table[k])
            BY <6>1, <6>2
          <6> QED
            BY <6>3, <5>2, <4>2, <2>1, AlikeIsKnown
        <5> QED
          BY <5>1, <5>2
      <4> QED
        BY <1>2, <4>1, <4>2
    <3> QED
      BY <3>2, <2>1, <2>4 DEF Holds
  <2> QED
    BY <2>2, <2>3, <2>4, <1>4, <1>5, <1>6
<1>7. Holds(p)' /\ obj'[p] \in Object
  BY <1>2, <1>5 DEF Holds, Sound
<1>8. \A q \in Procs \ {p} : obj[q] = None => obj'[q] = None
  BY <1>4, <1>5
<1>9. \A q \in Procs : Holds(q)' /\ obj'[q] \in Object \cup {None}
  BY <1>6, <1>7, <1>8 DEF Holds
<1>10. DOMAIN obj' = Procs /\ obj' = [q \in Procs |-> obj'[q]]
  BY <1>4
<1>11. Typed'
  BY <1>1, <1>2, <1>9, <1>10 DEF Typed
<1>12. \A q \in Procs : Creating(q)'
  BY <1>1, NobodyElseCreates DEF Creating
<1> QED
  BY <1>1, <1>9, <1>11, <1>12 DEF Inv

(***************************************************************************)
(* The actions.                                                            *)
(***************************************************************************)
LEMMA Held ==
    ASSUME Inv, NEW p \in Procs, obj[p] # None
    PROVE  /\ obj[p] \in Object /\ Sound(obj[p]) /\ Knows(obj[p], View(p)[obj[p].pk])
           /\ obj[p].pk \in Keys \cup {None} /\ obj[p].v \in Values
BY DEF Inv, Typed, Holds, Sound, Object

LEMMA InvInit == Init => Inv
<1> SUFFICES ASSUME Init PROVE Inv
  OBVIOUS
<1>1. PICK old \in SUBSET Keys :
        rows = [k \in Keys |-> IF k \in old THEN [v |-> Given(0), born |-> 0] ELSE None]
  BY DEF Init
<1>2. [v |-> Given(0), born |-> 0] \in Row
  BY GivenType DEF Row, Vals
<1>3. rows \in Table
  BY <1>1, <1>2 DEF Table
<1>4. Typed
  BY <1>3 DEF Init, Typed
<1> QED
  BY <1>4 DEF Init, Inv, Created, Holds, Creating

LEMMA NewKeeps == ASSUME Inv, NEW p \in Procs, New(p) PROVE Inv'
<1>1. PICK n \in Vals, k \in Keys \cup {None} :
        obj' = [obj EXCEPT ![p] = [NewObject(Given(n)) EXCEPT !.pk = k]]
  BY DEF New
<1> DEFINE o == [NewObject(Given(n)) EXCEPT !.pk = k]
<1>2. Sound(o) /\ ~o.persisted
  BY GivenType, NewIsSound
<1>3. Knows(o, View(p)[o.pk])
  BY <1>2 DEF Knows
<1> HIDE DEF o
<1> QED
  BY <1>1, <1>2, <1>3, Reading DEF New, o

LEMMA LoadKeeps == ASSUME Inv, NEW p \in Procs, Load(p) PROVE Inv'
<1>1. PICK k \in Keys, without \in {{}, {"note"}} :
        Shown(View(p)[k]) /\ obj' = [obj EXCEPT ![p] = FromRow(p, k, without)]
  BY DEF Load
<1> DEFINE o == FromRow(p, k, without)
<1>2. Sound(o) /\ Knows(o, View(p)[o.pk])
  BY <1>1, ReadIsSound DEF Shown, Fields, Inv
<1> HIDE DEF o
<1> QED
  BY <1>1, <1>2, Reading DEF Load, o

LEMMA AssignKeeps == ASSUME Inv, NEW p \in Procs, Assign(p) PROVE Inv'
<1>1. PICK f \in Fields, x \in Vals : obj' = [obj EXCEPT ![p] = Set(obj[p], f, x)]
  BY DEF Assign
<1> DEFINE o == Set(obj[p], f, x)
<1>2. Sound(o) /\ Knows(o, View(p)[o.pk])
  BY Held, SetIsSound DEF Assign
<1> HIDE DEF o
<1> QED
  BY <1>1, <1>2, Reading DEF Assign, o

LEMMA RefreshKeeps == ASSUME Inv, NEW p \in Procs, Refresh(p) PROVE Inv'
<1> DEFINE k == obj[p].pk
           r == FromRow(p, k, {})
           o == [r EXCEPT !.persisted = obj[p].persisted]
<1>1. k \in Keys /\ obj[p] \in Object
  BY Held DEF Refresh
<1>2. r \in Object /\ Sound(r) /\ Knows(r, View(p)[k]) /\ r.pk = k /\ r.persisted
  BY <1>1, ReadIsSound DEF Refresh, Inv
<1>3. Sound(o) /\ Knows(o, View(p)[k]) /\ o.pk = k
  <2> HIDE DEF r, k
  <2> QED
    BY <1>1, <1>2 DEF Sound, Knows, Object
<1>4. obj' = [obj EXCEPT ![p] = o]
  BY DEF Refresh
<1> HIDE DEF o, k
<1> QED
  BY <1>3, <1>4, Reading DEF Refresh

\* _insert.
LEMMA InsertedKeeps ==
    ASSUME Inv, NEW p \in Procs, NEW op, Call(p, op), MayWrite(p), UNCHANGED <<block, found>>,
           NEW o, Sound(o), ~o.persisted, Inserted(p, o)
    PROVE  Inv'
<1>1. PICK k \in Keys :
        \/ /\ rows[k] = None
           /\ Put([rows EXCEPT ![k] = [v |-> o.v, born |-> ops']])
           /\ obj' = [obj EXCEPT ![p] = [TakeSnapshot(o) EXCEPT !.pk = k, !.persisted = TRUE,
                                           !.born = ops', !.estranged = FALSE]]
        \/ /\ obj' = [obj EXCEPT ![p] = o]
           /\ UNCHANGED <<rows, before>>
  BY DEF Inserted
<1>2. CASE obj' = [obj EXCEPT ![p] = o] /\ UNCHANGED <<rows, before>>
  BY <1>2, Reading DEF Knows
<1>3. CASE /\ rows[k] = None
           /\ Put([rows EXCEPT ![k] = [v |-> o.v, born |-> ops']])
           /\ obj' = [obj EXCEPT ![p] = [TakeSnapshot(o) EXCEPT !.pk = k, !.persisted = TRUE,
                                           !.born = ops', !.estranged = FALSE]]
  <2> DEFINE row == [v |-> o.v, born |-> ops']
             table == [rows EXCEPT ![k] = row]
             s == TakeSnapshot(o)
             i == [s EXCEPT !.pk = k, !.persisted = TRUE, !.born = ops', !.estranged = FALSE]
  <2>1. ops' \in Nat /\ rows \in Table /\ o.v \in Values
    BY CallsAreKnown DEF Inv, Typed, Sound, Object
  <2>2. row \in Row /\ row # None
    BY <2>1, NoneApart DEF Row
  <2>3. table \in Table /\ (\A j \in Keys \ {k} : table[j] = rows[j]) /\ table[k] = row
    BY <2>1, <2>2 DEF Table
  <2>4. s \in Object /\ s.v = o.v /\ s.snap = o.v /\ s.loaded = o.loaded /\ Sound(s)
    BY SnapshotIsSound
  <2>5. /\ i \in Object /\ i.pk = k /\ i.born = ops' /\ i.v = o.v /\ i.snap = o.v
        /\ i.loaded = s.loaded
    <3> HIDE DEF s
    <3> QED
      BY <2>1, <2>4 DEF Object
  <2>6. Sound(i)
    <3> HIDE DEF i, s
    <3> QED
      BY <2>4, <2>5 DEF Sound
  <2>7. Knows(i, table[i.pk])
    <3>1. row.v = o.v /\ row.born = ops'
      OBVIOUS
    <3> HIDE DEF i, s, table, row
    <3> QED
      BY <2>2, <2>3, <2>5, <3>1 DEF Knows
  <2>8. obj' = [obj EXCEPT ![p] = i] /\ Put(table)
    BY <1>3
  <2> HIDE DEF i, s, table, row
  <2> QED
    BY <1>3, <2>3, <2>6, <2>7, <2>8, Writing
<1> QED
  BY <1>1, <1>2, <1>3

LEMMA UpdateKeepsType ==
    ASSUME NEW row \in Row, NEW o, o \in Object
    PROVE  LET u == Update(row, o)
           IN  /\ u \in Row /\ u.born = row.born
               /\ \A f \in Fields : u.v[f] = IF f \in Dirty(o) THEN o.v[f] ELSE row.v[f]
<1> DEFINE w == [f \in Fields |-> IF f \in Dirty(o) THEN o.v[f] ELSE row.v[f]]
<1>1. w \in Values
  BY DEF Row, Object, Values
<1>2. Update(row, o) = [row EXCEPT !.v = w]
  BY DEF Update
<1> HIDE DEF w
<1>3. Update(row, o) \in Row /\ Update(row, o).born = row.born /\ Update(row, o).v = w
  BY <1>1, <1>2 DEF Row
<1> QED
  BY <1>3 DEF w

\* _update.
LEMMA UpdatedKeeps ==
    ASSUME Inv, NEW p \in Procs, NEW op, Call(p, op), MayWrite(p), UNCHANGED <<block, found>>,
           NEW o, Sound(o), o.persisted, Knows(o, View(p)[o.pk]), Updated(p, o)
    PROVE  Inv'
<1> DEFINE k == o.pk
           s == TakeSnapshot(o)
           table == IF rows[k] = None THEN rows ELSE [rows EXCEPT ![k] = Update(@, o)]
           os == IF Dirty(o) = {} THEN obj ELSE Estrange(obj, p, k)
<1>1. k \in Keys /\ o \in Object /\ Typed /\ rows \in Table /\ o.loaded \subseteq Fields
  BY DEF Sound, Inv, Typed, Object
<1>2. View(p) = rows
  BY DEF View, MayWrite
<1>3. Put(table)
  BY <1>1 DEF Updated, Put, Typed
<1>4. /\ s \in Object /\ Sound(s) /\ s.pk = k /\ s.persisted = o.persisted
      /\ s.born = o.born /\ s.estranged = o.estranged /\ s.loaded = o.loaded
      /\ s.v = o.v /\ s.snap = o.v
  BY SnapshotIsSound
<1>5. /\ table \in Table /\ \A j \in Keys \ {k} : table[j] = rows[j]
      /\ rows[k] = None => table[k] = None
      /\ rows[k] # None =>
            /\ table[k] # None /\ table[k].born = rows[k].born
            /\ \A f \in Fields : table[k].v[f] = IF f \in Dirty(o) THEN o.v[f] ELSE rows[k].v[f]
  <2>1. CASE rows[k] = None
    BY <2>1, <1>1
  <2>2. CASE rows[k] # None
    <3> DEFINE u == Update(rows[k], o)
    <3>1. rows[k] \in Row
      BY <2>2, <1>1 DEF Table
    <3>2. /\ u \in Row /\ u.born = rows[k].born
          /\ \A f \in Fields : u.v[f] = IF f \in Dirty(o) THEN o.v[f] ELSE rows[k].v[f]
      BY <3>1, <1>1, UpdateKeepsType
    <3>3. table = [rows EXCEPT ![k] = u]
      BY <2>2
    <3> HIDE DEF u, table, k
    <3>4. table \in Table /\ table[k] = u /\ \A j \in Keys \ {k} : table[j] = rows[j]
      BY <3>2, <3>3, <1>1 DEF Table
    <3> QED
      BY <2>2, <3>2, <3>4, NoneApart
  <2> QED
    BY <2>1, <2>2
<1>6. os = Estrange(obj, p, k) \/ (os = obj /\ (rows[k] = None \/ Alike(rows[k], table[k])))
  <2>1. CASE Dirty(o) = {}
    <3> HIDE DEF table, k
    <3> QED
      BY <2>1, <1>5 DEF Alike
  <2> QED
    BY <2>1
<1>7. Knows(s, table[k])
  <2> SUFFICES ASSUME ~o.estranged
               PROVE  /\ table[k] # None /\ table[k].born = o.born
                      /\ \A f \in o.loaded : table[k].v[f] = o.v[f]
    BY <1>4 DEF Knows
  <2>1. /\ rows[k] # None /\ rows[k].born = o.born
        /\ \A f \in o.loaded : rows[k].v[f] = o.snap[f] \/ (o.snap[f] = None /\ o.v[f] # None)
    BY <1>2 DEF Knows
  <2>2. ASSUME NEW f \in o.loaded PROVE table[k].v[f] = o.v[f]
    <3>1. CASE f \in Dirty(o)
      BY <3>1, <2>1, <1>1, <1>5
    <3>2. CASE f \notin Dirty(o)
      <4>1. o.v[f] = o.snap[f]
        BY <3>2, <1>1 DEF Dirty
      <4>2. table[k].v[f] = rows[k].v[f]
        BY <3>2, <2>1, <1>1, <1>5
      <4> QED
        BY <4>1, <4>2, <2>1
    <3> QED
      BY <3>1, <3>2
  <2> QED
    BY <2>1, <2>2, <1>5
<1>8. obj' = [os EXCEPT ![p] = s]
  BY DEF Updated
<1> HIDE DEF k, s, table, os
<1> QED
  BY <1>1, <1>3, <1>4, <1>5, <1>6, <1>7, <1>8, Writing

LEMMA SaveAsKeeps ==
    ASSUME Inv, NEW p \in Procs, NEW op, Call(p, op), UNCHANGED <<block, found>>,
           NEW o, Sound(o), Knows(o, View(p)[o.pk]), NEW signal, SaveAs(p, o, signal)
    PROVE  Inv'
<1>1. CASE obj' = [obj EXCEPT ![p] = o] /\ UNCHANGED <<rows, before>>
  BY <1>1, Reading
<1>2. CASE MayWrite(p) /\ o.persisted /\ Updated(p, o)
  BY <1>2, UpdatedKeeps
<1>3. CASE MayWrite(p) /\ ~o.persisted /\ Inserted(p, o)
  BY <1>3, InsertedKeeps
<1>4. o.persisted \in BOOLEAN /\ (o.persisted => o.pk # None)
  BY NoneApart DEF Sound, Object
<1> QED
  BY <1>1, <1>2, <1>3, <1>4 DEF SaveAs

LEMMA SaveKeeps == ASSUME Inv, NEW p \in Procs, Save(p) PROVE Inv'
BY Held, SaveAsKeeps DEF Save

LEMMA SoftDeleteKeeps == ASSUME Inv, NEW p \in Procs, SoftDelete(p) PROVE Inv'
<1>1. PICK flag \in Vals, signal \in Signals : SaveAs(p, Set(obj[p], "deleted", flag), signal)
  BY DEF SoftDelete
<1> DEFINE o == Set(obj[p], "deleted", flag)
<1>2. Sound(o) /\ Knows(o, View(p)[o.pk])
  BY Held, SetIsSound DEF SoftDelete, Fields
<1> HIDE DEF o
<1> QED
  BY <1>1, <1>2, SaveAsKeeps DEF SoftDelete, o

LEMMA HardDeleteKeeps == ASSUME Inv, NEW p \in Procs, HardDelete(p) PROVE Inv'
<1> DEFINE k == obj[p].pk
           d == [obj[p] EXCEPT !.pk = None, !.persisted = FALSE]
           table == [rows EXCEPT ![k] = None]
<1>1. obj[p] \in Object /\ Sound(obj[p]) /\ Knows(obj[p], View(p)[k]) /\ k \in Keys /\ Typed
  BY Held DEF HardDelete, Inv
<1>2. CASE UNCHANGED <<rows, before, obj>>
  <2>1. obj' = [obj EXCEPT ![p] = obj[p]]
    BY <1>1, <1>2 DEF Typed
  <2> QED
    BY <1>1, <1>2, <2>1, Reading DEF HardDelete
<1>3. CASE /\ MayWrite(p) /\ Put(table)
           /\ obj' = [Estrange(obj, p, k) EXCEPT ![p].pk = None, ![p].persisted = FALSE]
  <2>1. Sound(d) /\ ~d.persisted
    BY <1>1 DEF Sound, Object
  <2>2. Knows(d, table[d.pk])
    BY <2>1 DEF Knows
  <2>3. table \in Table /\ \A j \in Keys \ {k} : table[j] = rows[j]
    BY <1>1 DEF Typed, Table
  <2>4. obj' = [Estrange(obj, p, k) EXCEPT ![p] = d]
    <3>1. Estrange(obj, p, k)[p] = obj[p]
      BY DEF Estrange
    <3> QED
      BY <1>3, <3>1 DEF Estrange
  <2>5. Call(p, "delete") /\ UNCHANGED <<block, found>>
    BY DEF HardDelete
  <2>6. MayWrite(p) /\ Put(table)
    BY <1>3
  <2> DEFINE os == Estrange(obj, p, k)
  <2>7. os = Estrange(obj, p, k) /\ obj' = [os EXCEPT ![p] = d]
    BY <2>4
  <2> HIDE DEF d, table, k, os
  <2> QED
    BY <1>1, <2>1, <2>2, <2>3, <2>5, <2>6, <2>7, Writing
<1> QED
  BY <1>2, <1>3 DEF HardDelete

\* get_or_create and update_or_create, when there is no such row.
LEMMA NotFoundKeeps ==
    ASSUME Inv, NEW p \in Procs, MayWrite(p), Call(p, "get_or_create"),
           NEW n \in Vals, Matching(p, n) = {},
           obj' = [obj EXCEPT ![p] = NewObject(Given(n))],
           found' = [found EXCEPT ![p] = IF block = p THEN "outer" ELSE "own"],
           block' = p, UNCHANGED <<rows, before>>
    PROVE  Inv'
<1> DEFINE o == NewObject(Given(n))
<1>1. Typed /\ found[p] = None /\ Created' /\ ops' \in Nat
  BY CallsAreKnown DEF Inv
<1>2. /\ Sound(o) /\ o.pk = None /\ ~o.persisted /\ ~o.estranged /\ o.loaded = Fields
      /\ o.v = Given(n) /\ o.v["deleted"] = 0 /\ o.v["name"] = n
  BY GivenType, NoneApart DEF NewObject, Sound, Object, Unsnapped, Values, Given
<1> HIDE DEF o
<1>3. obj' = [obj EXCEPT ![p] = o]
  BY DEF o
<1>4. \A q \in Procs : View(q)' = View(q)
  BY <1>1, NoneApart DEF View, MayWrite, Typed
<1>5. Typed'
  BY <1>1, <1>2, <1>3, NoneApart DEF Typed, Sound
<1>6. ASSUME NEW q \in Procs PROVE Holds(q)'
  <2>1. Holds(q)
    BY DEF Inv
  <2>2. obj'[q] = IF q = p THEN o ELSE obj[q]
    BY <1>1, <1>3 DEF Typed
  <2>3. CASE q = p
    BY <2>2, <2>3, <1>2 DEF Holds, Knows
  <2>4. CASE q # p
    BY <2>1, <2>2, <2>4, <1>4 DEF Holds
  <2> QED
    BY <2>3, <2>4
<1>7. ASSUME NEW q \in Procs PROVE Creating(q)'
  <2>1. CASE q = p
    <3>1. obj'[p] = o /\ found'[p] = (IF block = p THEN "outer" ELSE "own")
      BY <1>1, <1>3 DEF Typed
    <3>2. o # None
      BY <1>2, NoneApart DEF Sound
    <3>3. found'[p] = "own" => rows' = before'
      BY <3>1, <1>1 DEF MayWrite, Typed
    <3>4. Matching(p, n)' = {}
      BY <1>4 DEF Matching
    <3> QED
      BY <2>1, <3>1, <3>2, <3>3, <3>4, <1>2 DEF Creating
  <2>2. CASE q # p
    <3>1. found'[q] = None
      BY <2>2, <1>1, NobodyElseCreates DEF Typed
    <3> QED
      BY <3>1 DEF Creating
  <2> QED
    BY <2>1, <2>2
<1> QED
  BY <1>1, <1>5, <1>6, <1>7 DEF Inv

LEMMA LookupKeeps == ASSUME Inv, NEW p \in Procs, Lookup(p) PROVE Inv'
<1>1. PICK n \in Vals :
        \/ /\ Matching(p, n) = {}
           /\ obj' = [obj EXCEPT ![p] = NewObject(Given(n))]
           /\ found' = [found EXCEPT ![p] = IF block = p THEN "outer" ELSE "own"]
           /\ block' = p
           /\ UNCHANGED <<rows, before>>
        \/ \E k \in Keys :
           /\ Matching(p, n) = {k}
           /\ LET o == FromRow(p, k, {})
              IN  \/ obj' = [obj EXCEPT ![p] = o] /\ UNCHANGED <<rows, before>>
                  \/ \E x \in Vals : Updated(p, Set(o, "note", x))
           /\ UNCHANGED <<block, found>>
  BY DEF Lookup
<1>2. CASE /\ Matching(p, n) = {}
           /\ obj' = [obj EXCEPT ![p] = NewObject(Given(n))]
           /\ found' = [found EXCEPT ![p] = IF block = p THEN "outer" ELSE "own"]
           /\ block' = p
           /\ UNCHANGED <<rows, before>>
  BY <1>2, NotFoundKeeps DEF Lookup
<1>3. ASSUME NEW k \in Keys, Matching(p, n) = {k}, UNCHANGED <<block, found>>,
             \/ obj' = [obj EXCEPT ![p] = FromRow(p, k, {})] /\ UNCHANGED <<rows, before>>
             \/ \E x \in Vals : Updated(p, Set(FromRow(p, k, {}), "note", x))
      PROVE  Inv'
  <2> DEFINE o == FromRow(p, k, {})
  <2>1. View(p)[k] # None
    BY <1>3 DEF Matching, Shown
  <2>2. o.pk = k /\ o.persisted /\ Sound(o) /\ Knows(o, View(p)[o.pk])
    BY <2>1, ReadIsSound DEF Inv
  <2> HIDE DEF o
  <2>3. CASE obj' = [obj EXCEPT ![p] = o] /\ UNCHANGED <<rows, before>>
    BY <2>2, <2>3, <1>3, Reading DEF Lookup
  <2>4. ASSUME NEW x \in Vals, Updated(p, Set(o, "note", x)) PROVE Inv'
    <3> DEFINE s == Set(o, "note", x)
    <3>1. Sound(s) /\ s.persisted /\ Knows(s, View(p)[s.pk])
      BY <2>2, SetIsSound DEF Fields
    <3>2. Updated(p, s)
      BY <2>4
    <3> HIDE DEF s
    <3> QED
      BY <3>1, <3>2, <1>3, UpdatedKeeps DEF Lookup
  <2> QED
    BY <2>3, <2>4, <1>3 DEF o
<1> QED
  BY <1>1, <1>2, <1>3

\* The second half of get_or_create: the row is made, or a receiver raises.
LEMMA MadeKeeps ==
    ASSUME Inv, NEW p \in Procs, found[p] # None,
           found' = [found EXCEPT ![p] = None], last' = [by |-> p, op |-> "create"],
           NEW k \in Keys, NextKey(k),
           rows' = [rows EXCEPT ![k] = [v |-> obj[p].v, born |-> ops]],
           obj' = [obj EXCEPT ![p] = [TakeSnapshot(obj[p]) EXCEPT
                                        !.pk = k, !.persisted = TRUE, !.born = ops]],
           before' = (IF found[p] = "outer" THEN before ELSE rows'),
           block' = (IF found[p] = "outer" THEN p ELSE None), UNCHANGED ops
    PROVE  Inv'
<1> DEFINE row == [v |-> obj[p].v, born |-> ops]
           s == TakeSnapshot(obj[p])
           i == [s EXCEPT !.pk = k, !.persisted = TRUE, !.born = ops]
<1>1. Typed /\ Creating(p) /\ block = p /\ ops \in Nat /\ p # None /\ obj[p] # None
  BY NoneApart DEF Inv, Creating, Typed
<1>2. obj[p] \in Object /\ Sound(obj[p]) /\ obj[p].v \in Values
  BY <1>1, Held
<1>3. rows[k] = None
  BY DEF NextKey, Keys
<1>4. row \in Row /\ row # None /\ row.v = obj[p].v /\ row.born = ops
  BY <1>1, <1>2, NoneApart DEF Row
<1>5. /\ s \in Object /\ s.v = obj[p].v /\ s.snap = obj[p].v /\ s.loaded = obj[p].loaded
      /\ s.estranged = obj[p].estranged /\ Sound(s)
  BY <1>2, SnapshotIsSound
<1>6. /\ i \in Object /\ i.pk = k /\ i.born = ops /\ i.v = obj[p].v /\ i.snap = obj[p].v
      /\ i.loaded = Fields /\ i.touched = s.touched
  <2> HIDE DEF s
  <2> QED
    BY <1>1, <1>5 DEF Object, Creating
<1>7. Sound(i) /\ i # None
  <2> HIDE DEF i, s
  <2> QED
    BY <1>5, <1>6, NoneApart DEF Sound
<1>8. Knows(i, row)
  <2> HIDE DEF i, s, row
  <2> QED
    BY <1>4, <1>6 DEF Knows
<1>9. rows' \in Table /\ rows'[k] = row /\ \A j \in Keys \ {k} : rows'[j] = rows[j]
  BY <1>1, <1>4 DEF Typed, Table
<1>10. obj'[p] = i /\ \A q \in Procs \ {p} : obj'[q] = obj[q]
  BY <1>1 DEF Typed
<1>11. obj' \in [Procs -> Object \cup {None}]
  <2>1. obj' = [obj EXCEPT ![p] = i]
    OBVIOUS
  <2> HIDE DEF i
  <2> QED
    BY <2>1, <1>1, <1>6 DEF Typed
<1>12. View(p)' = rows'
  BY DEF View
<1>13. ASSUME NEW q \in Procs \ {p}
       PROVE  View(q) = before /\ \/ View(q)' = View(q)
                                  \/ View(q) = rows /\ View(q)' = rows'
  <2>1. found[p] = "own" => rows = before
    BY <1>1 DEF Creating
  <2>2. found[p] \in {"own", "outer"}
    BY <1>1 DEF Typed
  <2> QED
    BY <2>1, <2>2, <1>1, <1>13 DEF View
<1>14. Typed'
  BY <1>1, <1>9, <1>11, NoneApart DEF Typed
<1> HIDE DEF i, s, row
<1>15. ASSUME NEW q \in Procs PROVE Holds(q)'
  <2>1. CASE q = p
    BY <2>1, <1>6, <1>7, <1>8, <1>9, <1>10, <1>12 DEF Holds
  <2>2. CASE q # p
    <3>1. Holds(q) /\ obj'[q] = obj[q] /\ q \in Procs \ {p}
      BY <2>2, <1>10 DEF Inv
    <3>2. CASE View(q)' = View(q)
      BY <3>1, <3>2 DEF Holds
    <3>3. CASE View(q) = rows /\ View(q)' = rows'
      <4>1. CASE obj[q] # None /\ obj[q].persisted /\ ~obj[q].estranged
        <5>1. obj[q].pk \in Keys /\ rows[obj[q].pk] # None
          BY <3>1, <3>3, <4>1 DEF Holds, Sound, Knows
        <5>2. rows'[obj[q].pk] = rows[obj[q].pk]
          BY <5>1, <1>3, <1>9
        <5> QED
          BY <5>2, <3>1, <3>3 DEF Holds
      <4>2. CASE obj[q] # None /\ ~(obj[q].persisted /\ ~obj[q].estranged)
        BY <4>2, <3>1 DEF Holds, Knows
      <4> QED
        BY <4>1, <4>2, <3>1 DEF Holds
    <3> QED
      BY <3>1, <3>2, <3>3, <1>13
  <2> QED
    BY <2>1, <2>2
<1>16. ASSUME NEW q \in Procs PROVE Creating(q)'
  <2>1. found'[q] = None
    <3>1. CASE q = p
      BY <3>1, <1>1 DEF Typed
    <3>2. CASE q # p
      BY <3>2, <1>1, NobodyElseCreates DEF Typed, MayWrite
    <3> QED
      BY <3>1, <3>2
  <2> QED
    BY <2>1 DEF Creating
<1>17. Created'
  <2> DEFINE n == obj[p].v["name"]
  <2>1. Matching(p, n) = {} /\ obj[p].v["deleted"] = 0 /\ View(p) = rows
    BY <1>1 DEF Creating, View
  <2>2. \A j \in Keys : ~(Shown(rows[j]) /\ rows[j].v["name"] = n)
    BY <2>1 DEF Matching
  <2>3. Shown(rows'[k]) /\ rows'[k].v["name"] = n
    BY <2>1, <1>4, <1>9 DEF Shown
  <2>4. {j \in Keys : Shown(rows'[j]) /\ rows'[j].v["name"] = n} = {k}
    BY <2>2, <2>3, <1>9
  <2>5. Matching(p, n)' = {j \in Keys : Shown(rows'[j]) /\ rows'[j].v["name"] = obj'[p].v["name"]}
    BY <1>6, <1>10, <1>12 DEF Matching
  <2>6. obj'[p].v["name"] = n
    BY <1>6, <1>10
  <2>7. last'.op = "create" /\ last'.by = p
    OBVIOUS
  <2> HIDE DEF n
  <2>8. {j \in Keys : Shown((View(p)')[j]) /\ (View(p)')[j].v["name"] = obj'[p].v["name"]} = {k}
    BY <2>4, <2>6, <1>12
  <2> QED
    BY <2>7, <2>8 DEF Created, Matching
<1> QED
  BY <1>14, <1>15, <1>16, <1>17 DEF Inv

LEMMA CreateKeeps == ASSUME Inv, NEW p \in Procs, Create(p) PROVE Inv'
<1>1. ASSUME NEW k \in Keys, NextKey(k),
             rows' = [rows EXCEPT ![k] = [v |-> obj[p].v, born |-> ops]],
             obj' = [obj EXCEPT ![p] = [TakeSnapshot(obj[p]) EXCEPT
                                          !.pk = k, !.persisted = TRUE, !.born = ops]]
      PROVE  Inv'
  BY <1>1, MadeKeeps DEF Create
<1>2. CASE obj' = [obj EXCEPT ![p] = None] /\ UNCHANGED rows
  <2>1. Typed /\ Creating(p) /\ block = p /\ p # None /\ found[p] # None
    BY NoneApart DEF Inv, Creating, Typed, Create
  <2>2. /\ found' = [found EXCEPT ![p] = None]
        /\ last' = [by |-> p, op |-> "create"]
        /\ before' = IF found[p] = "outer" THEN before ELSE rows'
        /\ block' = IF found[p] = "outer" THEN p ELSE None
        /\ ops' = ops
    BY DEF Create
  <2>3. before' = before
    BY <2>1, <2>2, <1>2 DEF Creating, Typed
  <2>4. \A q \in Procs : View(q)' = View(q)
    BY <2>1, <2>2, <2>3, <1>2 DEF View, Creating, Typed
  <2>5. Typed'
    BY <2>1, <2>2, <2>3, <1>2 DEF Typed, Creating
  <2>6. ASSUME NEW q \in Procs PROVE Holds(q)'
    <3>1. Holds(q) /\ obj'[q] = IF q = p THEN None ELSE obj[q]
      BY <2>1, <1>2 DEF Inv, Typed
    <3> QED
      BY <3>1, <2>4 DEF Holds
  <2>7. ASSUME NEW q \in Procs PROVE Creating(q)'
    <3>1. found'[q] = None
      BY <2>1, <2>2, NobodyElseCreates DEF Typed, MayWrite
    <3> QED
      BY <3>1 DEF Creating
  <2>8. Created'
    <3>1. obj'[p] = None
      BY <2>1, <1>2 DEF Typed
    <3> QED
      BY <3>1, <2>2 DEF Created
  <2> QED
    BY <2>5, <2>6, <2>7, <2>8 DEF Inv
<1> QED
  BY <1>1, <1>2 DEF Create

LEMMA UpsertKeeps == ASSUME Inv, NEW p \in Procs, Upsert(p) PROVE Inv'
<1>1. Typed /\ rows \in Table /\ View(p) = rows /\ ops' \in Nat
  BY CallsAreKnown DEF Inv, Typed, Upsert, View, MayWrite
<1>2. MayWrite(p) /\ Call(p, "upsert") /\ UNCHANGED <<block, found>>
  BY DEF Upsert
<1>3. PICK k \in Keys, n \in Vals, fs \in {{}, {"name"}, Fields} :
        IF rows[k] # None /\ fs = {}
        THEN /\ obj' = IF Shown(rows[k]) THEN [obj EXCEPT ![p] = FromRow(p, k, {})] ELSE obj
             /\ UNCHANGED <<rows, before>>
        ELSE LET row == IF rows[k] = None THEN [v |-> Given(n), born |-> ops']
                        ELSE [rows[k] EXCEPT !.v = [f \in Fields |-> IF f \in fs THEN Given(n)[f] ELSE @[f]]]
             IN  /\ Put([rows EXCEPT ![k] = row])
                 /\ obj' = [Estrange(obj, p, k) EXCEPT ![p] =
                             [NewObject(row.v) EXCEPT !.pk = k, !.persisted = TRUE, !.snap = row.v,
                                                      !.born = row.born, !.touched = {}]]
  BY DEF Upsert
<1>4. CASE rows[k] # None /\ fs = {}
  <2>1. CASE Shown(rows[k])
    <3> DEFINE o == FromRow(p, k, {})
    <3>1. Sound(o) /\ Knows(o, View(p)[o.pk])
      BY <1>1, <1>4, ReadIsSound
    <3>2. obj' = [obj EXCEPT ![p] = o] /\ UNCHANGED <<rows, before>>
      BY <1>3, <1>4, <2>1
    <3> HIDE DEF o
    <3> QED
      BY <1>2, <3>1, <3>2, Reading
  <2>2. CASE ~Shown(rows[k])
    <3> DEFINE o == obj[p]
    <3>1. o # None => Sound(o) /\ Knows(o, View(p)[o.pk])
      BY Held
    <3>2. obj' = [obj EXCEPT ![p] = o] /\ UNCHANGED <<rows, before>>
      BY <1>1, <1>3, <1>4, <2>2 DEF Typed
    <3> HIDE DEF o
    <3> QED
      BY <1>2, <3>1, <3>2, Reading
  <2> QED
    BY <2>1, <2>2
<1>5. CASE ~(rows[k] # None /\ fs = {})
  <2> DEFINE w == [f \in Fields |-> IF f \in fs THEN Given(n)[f] ELSE rows[k].v[f]]
             row == IF rows[k] = None THEN [v |-> Given(n), born |-> ops']
                    ELSE [rows[k] EXCEPT !.v = w]
             made == NewObject(row.v)
             o == [made EXCEPT !.pk = k, !.persisted = TRUE, !.snap = row.v,
                               !.born = row.born, !.touched = {}]
             table == [rows EXCEPT ![k] = row]
             os == Estrange(obj, p, k)
  <2>1. Put(table) /\ obj' = [os EXCEPT ![p] = o]
    BY <1>3, <1>5
  <2>2. row \in Row
    <3>1. CASE rows[k] = None
      BY <3>1, <1>1, GivenType DEF Row
    <3>2. CASE rows[k] # None
      <4>1. rows[k] \in Row
        BY <1>1, <3>2 DEF Table
      <4>2. w \in Values
        BY <4>1, GivenType DEF Row, Values
      <4> HIDE DEF w
      <4> QED
        BY <3>2, <4>1, <4>2 DEF Row
    <3> QED
      BY <3>1, <3>2
  <2> HIDE DEF row
  <2>3. row # None /\ row.v \in Values /\ row.born \in Nat
    BY <2>2, NoneApart DEF Row
  <2>4. /\ o \in Object /\ o.pk = k /\ o.persisted /\ o.v = row.v /\ o.snap = row.v
        /\ o.born = row.born /\ o.loaded = Fields
    BY <2>3 DEF NewObject, Object, Unsnapped, Values
  <2>5. table \in Table /\ table[k] = row /\ \A j \in Keys \ {k} : table[j] = rows[j]
    BY <1>1, <2>2 DEF Table
  <2> HIDE DEF o, table, made
  <2>6. Sound(o) /\ Knows(o, table[o.pk])
    BY <2>3, <2>4, <2>5 DEF Sound, Knows
  <2>7. os = Estrange(obj, p, k)
    OBVIOUS
  <2> HIDE DEF os
  <2> QED
    BY <1>2, <2>1, <2>5, <2>6, <2>7, Writing
<1> QED
  BY <1>4, <1>5

LEMMA BulkUpdateKeeps == ASSUME Inv, NEW p \in Procs, BulkUpdate(p) PROVE Inv'
<1> DEFINE k == obj[p].pk
           s == TakeSnapshot(obj[p])
           os == Estrange(obj, p, k)
<1>1. PICK fs \in {{"name"}, {"note"}, Fields} :
        /\ IF rows[k] = None THEN UNCHANGED <<rows, before>>
           ELSE Put([rows EXCEPT ![k].v = [f \in Fields |-> IF f \in fs THEN obj[p].v[f] ELSE @[f]]])
        /\ obj' = [os EXCEPT ![p] = [s EXCEPT !.loaded = @ \cup fs,
                      !.estranged = @ \/ (obj[p].persisted /\ ~(Dirty(obj[p]) \subseteq fs))]]
  BY DEF BulkUpdate
<1> DEFINE strays == s.estranged \/ (obj[p].persisted /\ ~(Dirty(obj[p]) \subseteq fs))
           o == [s EXCEPT !.loaded = s.loaded \cup fs, !.estranged = strays]
           w == [f \in Fields |-> IF f \in fs THEN obj[p].v[f] ELSE rows[k].v[f]]
           row == [rows[k] EXCEPT !.v = w]
           table == IF rows[k] = None THEN rows ELSE [rows EXCEPT ![k] = row]
<1>2. /\ Typed /\ rows \in Table /\ View(p) = rows
      /\ MayWrite(p) /\ Call(p, "bulk_update") /\ UNCHANGED <<block, found>>
  BY DEF Inv, Typed, BulkUpdate, View, MayWrite
<1>3. /\ obj[p] \in Object /\ Sound(obj[p]) /\ Knows(obj[p], rows[k]) /\ k \in Keys
      /\ obj[p].v \in Values /\ fs \subseteq Fields
  BY <1>2, Held DEF BulkUpdate, Fields
<1>4. /\ s \in Object /\ Sound(s) /\ s.pk = k /\ s.persisted = obj[p].persisted
      /\ s.born = obj[p].born /\ s.estranged = obj[p].estranged
      /\ s.loaded = obj[p].loaded /\ s.v = obj[p].v /\ s.snap = obj[p].v
  BY <1>3, SnapshotIsSound
<1>5. obj' = [os EXCEPT ![p] = o]
  BY <1>1
<1>6. /\ table \in Table /\ \A j \in Keys \ {k} : table[j] = rows[j]
      /\ rows[k] # None =>
            /\ table[k] # None /\ table[k].born = rows[k].born
            /\ \A f \in Fields : table[k].v[f] = IF f \in fs THEN obj[p].v[f] ELSE rows[k].v[f]
  <2>1. CASE rows[k] = None
    BY <2>1, <1>2
  <2>2. CASE rows[k] # None
    <3>1. rows[k] \in Row
      BY <1>2, <1>3, <2>2 DEF Table
    <3>2. w \in Values
      BY <3>1, <1>3 DEF Row, Values
    <3>3. row \in Row /\ row.born = rows[k].born /\ row.v = w
      <4> HIDE DEF w
      <4> QED
        BY <3>1, <3>2 DEF Row
    <3>4. table = [rows EXCEPT ![k] = row]
      BY <2>2
    <3>5. \A f \in Fields : w[f] = IF f \in fs THEN obj[p].v[f] ELSE rows[k].v[f]
      OBVIOUS
    <3> HIDE DEF row, table, k, w
    <3>6. table \in Table /\ table[k] = row /\ \A j \in Keys \ {k} : table[j] = rows[j]
      BY <3>3, <3>4, <1>2, <1>3 DEF Table
    <3> QED
      BY <3>3, <3>5, <3>6, NoneApart
  <2> QED
    BY <2>1, <2>2
<1>7. Put(table)
  <2>1. CASE rows[k] = None
    BY <2>1, <1>1, <1>2 DEF Put, Typed
  <2>2. CASE rows[k] # None
    <3>1. table = [rows EXCEPT ![k].v = [f \in Fields |-> IF f \in fs THEN obj[p].v[f] ELSE @[f]]]
      BY <2>2
    <3> HIDE DEF table
    <3> QED
      BY <3>1, <2>2, <1>1
  <2> QED
    BY <2>1, <2>2
<1> HIDE DEF table, s, k, row, w
<1>8. /\ o \in Object /\ o.pk = k /\ o.persisted = obj[p].persisted /\ o.born = obj[p].born
      /\ o.v = obj[p].v /\ o.snap = obj[p].v /\ o.loaded = obj[p].loaded \cup fs
      /\ o.touched = s.touched /\ o.estranged = strays
  <2>1. strays \in BOOLEAN
    BY <1>3, <1>4 DEF Object
  <2> HIDE DEF strays
  <2> QED
    BY <2>1, <1>3, <1>4 DEF Object
<1> HIDE DEF o
<1>9. Sound(o)
  BY <1>3, <1>4, <1>8 DEF Sound
<1>10. Knows(o, table[o.pk])
  <2> SUFFICES ASSUME obj[p].persisted, ~obj[p].estranged, Dirty(obj[p]) \subseteq fs
               PROVE  /\ table[k] # None /\ table[k].born = obj[p].born
                      /\ \A f \in obj[p].loaded \cup fs : table[k].v[f] = obj[p].v[f]
    BY <1>4, <1>8 DEF Knows
  <2>1. /\ rows[k] # None /\ rows[k].born = obj[p].born
        /\ \A f \in obj[p].loaded :
              rows[k].v[f] = obj[p].snap[f] \/ (obj[p].snap[f] = None /\ obj[p].v[f] # None)
    BY <1>3 DEF Knows
  <2>2. ASSUME NEW f \in obj[p].loaded \cup fs PROVE table[k].v[f] = obj[p].v[f]
    <3>1. f \in Fields
      BY <1>3 DEF Object
    <3>2. CASE f \in fs
      BY <3>1, <3>2, <2>1, <1>6
    <3>3. CASE f \notin fs
      <4>1. obj[p].v[f] = obj[p].snap[f]
        BY <3>1, <3>3 DEF Dirty
      <4>2. rows[k].v[f] = obj[p].v[f]
        BY <4>1, <3>3, <2>1
      <4> QED
        BY <4>2, <3>1, <3>3, <2>1, <1>6
    <3> QED
      BY <3>2, <3>3
  <2> QED
    BY <2>1, <2>2, <1>6
<1>11. os = Estrange(obj, p, k)
  BY DEF k
<1> HIDE DEF os
<1> QED
  BY <1>2, <1>3, <1>5, <1>6, <1>7, <1>9, <1>10, <1>11, Writing

LEMMA BeginKeeps == ASSUME Inv, NEW p \in Procs, Begin(p) PROVE Inv'
<1>1. /\ Typed /\ found[p] = None /\ Created' /\ ops' \in Nat
      /\ block = None /\ block' = p /\ rows = before
      /\ UNCHANGED <<rows, before, obj, found>>
  BY CallsAreKnown DEF Inv, Begin, Typed
<1>2. \A q \in Procs : View(q)' = View(q)
  BY <1>1 DEF View
<1>3. Typed'
  BY <1>1, NoneApart DEF Typed
<1>4. ASSUME NEW q \in Procs PROVE Holds(q)'
  BY <1>1, <1>2 DEF Inv, Holds
<1>5. ASSUME NEW q \in Procs PROVE Creating(q)'
  BY <1>1, NoneApart DEF Inv, Creating
<1> QED
  BY <1>1, <1>3, <1>4, <1>5 DEF Inv

\* A block ends: those who saw the other table are told which of their rows it
\* changes, and nobody is between a lookup and an insert.
LEMMA EndKeeps ==
    ASSUME Inv, NEW p \in Procs, Call(p, "block"), block = p, block' = None, found' = found,
           rows' = before', rows' = rows \/ rows' = before,
           NEW ps \in SUBSET Procs, \A q \in Procs \ ps : View(q) = rows',
           obj' = Overtake(obj, ps)
    PROVE  Inv'
<1>1. Typed /\ found[p] = None /\ Created' /\ ops' \in Nat
  BY CallsAreKnown DEF Inv
<1>2. \A q \in Procs : View(q)' = rows'
  BY DEF View
<1>3. \A q \in Procs : View(q) \in {rows, before}
  BY DEF View
<1>4. ASSUME NEW q \in Procs
      PROVE  Holds(q)' /\ obj'[q] \in Object \cup {None}
  <2> DEFINE mine == obj[q]
  <2>1. Holds(q) /\ mine \in Object \cup {None}
    BY <1>1 DEF Inv, Typed
  <2>2. obj'[q] = IF q \in ps /\ mine # None /\ mine.pk # None /\ rows[mine.pk] # before[mine.pk]
                  THEN [mine EXCEPT !.estranged = TRUE] ELSE mine
    BY DEF Overtake
  <2>3. CASE mine = None
    BY <2>2, <2>3 DEF Holds
  <2>4. CASE /\ q \in ps /\ mine # None /\ mine.pk # None
             /\ rows[mine.pk] # before[mine.pk]
    <3>1. Sound(obj'[q]) /\ \A row : Knows(obj'[q], row)
      BY <2>1, <2>2, <2>4, StrangerIsSound DEF Holds
    <3> QED
      BY <3>1 DEF Holds, Sound
  <2>5. CASE mine # None /\ obj'[q] = mine /\ ~mine.persisted
    BY <2>1, <2>5 DEF Holds, Knows
  <2>6. CASE /\ mine # None /\ obj'[q] = mine /\ mine.persisted
             /\ View(q) = rows' \/ rows[mine.pk] = before[mine.pk]
    <3>1. View(q)[mine.pk] = rows'[mine.pk]
      BY <2>6, <1>3
    <3> QED
      BY <3>1, <2>1, <2>6, <1>2 DEF Holds
  <2>7. mine # None => mine.persisted \in BOOLEAN /\ (mine.persisted => mine.pk # None)
    BY <2>1, NoneApart DEF Holds, Sound, Object
  <2>8. q \in ps \/ View(q) = rows'
    OBVIOUS
  <2> HIDE DEF mine
  <2> QED
    BY <2>2, <2>3, <2>4, <2>5, <2>6, <2>7, <2>8
<1>5. obj' = [q \in Procs |-> obj'[q]]
  BY DEF Overtake
<1>6. Typed'
  BY <1>1, <1>4, <1>5 DEF Typed
<1>7. ASSUME NEW q \in Procs PROVE Creating(q)'
  <2>1. found[q] = None
    BY <1>1, NobodyElseCreates DEF MayWrite
  <2> QED
    BY <2>1 DEF Creating
<1> QED
  BY <1>1, <1>4, <1>6, <1>7 DEF Inv

LEMMA CommitKeeps == ASSUME Inv, NEW p \in Procs, Commit(p) PROVE Inv'
<1> DEFINE ps == Procs \ {p}
<1>1. \A q \in Procs \ ps : View(q) = rows'
  BY DEF View, Commit
<1>2. /\ Call(p, "block") /\ block = p /\ block' = None /\ found' = found
      /\ rows' = before' /\ rows' = rows /\ obj' = Overtake(obj, ps)
  BY DEF Commit
<1>3. ps \in SUBSET Procs
  OBVIOUS
<1> HIDE DEF ps
<1> QED
  BY <1>1, <1>2, <1>3, EndKeeps

LEMMA RollbackKeeps == ASSUME Inv, NEW p \in Procs, Rollback(p) PROVE Inv'
<1> DEFINE ps == {p}
<1>1. \A q \in Procs \ ps : View(q) = rows'
  BY NoneApart DEF View, Rollback, Inv, Typed
<1>2. /\ Call(p, "block") /\ block = p /\ block' = None /\ found' = found
      /\ rows' = before' /\ rows' = before /\ obj' = Overtake(obj, ps)
  BY DEF Rollback
<1>3. ps \in SUBSET Procs
  OBVIOUS
<1> HIDE DEF ps
<1> QED
  BY <1>1, <1>2, <1>3, EndKeeps

LEMMA InvNext == Inv /\ [Next]_vars => Inv'
<1> SUFFICES ASSUME Inv, [Next]_vars PROVE Inv'
  OBVIOUS
<1>1. CASE UNCHANGED vars
  <2>1. \A q \in Procs : View(q)' = View(q) /\ \A n : Matching(q, n)' = Matching(q, n)
    BY <1>1 DEF vars, View, Matching
  <2>2. Typed' /\ \A q \in Procs : Holds(q)' /\ Creating(q)'
    BY <1>1, <2>1 DEF vars, Inv, Typed, Holds, Creating
  <2>3. Created'
    BY <1>1, <2>1 DEF vars, Inv, Created
  <2> QED
    BY <2>2, <2>3 DEF Inv
<1>2. CASE Finished
  BY <1>1, <1>2 DEF Finished
<1>3. ASSUME NEW p \in Procs,
             \/ New(p) \/ Load(p) \/ Assign(p) \/ Refresh(p)
             \/ Save(p) \/ SoftDelete(p) \/ HardDelete(p)
             \/ Lookup(p) \/ Create(p) \/ Upsert(p) \/ BulkUpdate(p)
             \/ Begin(p) \/ Commit(p) \/ Rollback(p)
      PROVE  Inv'
  BY <1>3, NewKeeps, LoadKeeps, AssignKeeps, RefreshKeeps, SaveKeeps, SoftDeleteKeeps,
     HardDeleteKeeps, LookupKeeps, CreateKeeps, UpsertKeeps, BulkUpdateKeeps, BeginKeeps,
     CommitKeeps, RollbackKeeps
<1> QED
  BY <1>1, <1>2, <1>3 DEF Next

LEMMA InvHolds == Spec => []Inv
BY InvInit, InvNext, PTL DEF Spec

(***************************************************************************)
(* What a save writes.                                                     *)
(***************************************************************************)
\* A save that changes a row that is there is an UPDATE of that object's row.
LEMMA SavesUpdate ==
    ASSUME Inv, NEW p \in Procs, NEW o, Sound(o), NEW signal, SaveAs(p, o, signal),
           NEW k \in Keys, rows[k] # None, rows'[k] # rows[k]
    PROVE  /\ MayWrite(p) /\ o.persisted /\ k = o.pk
           /\ rows'[k] = Update(rows[k], o)
<1>1. rows \in Table /\ o \in Object /\ (o.persisted => o.pk \in Keys)
  BY DEF Inv, Typed, Sound
<1>2. ~UNCHANGED rows
  OBVIOUS
<1>3. MayWrite(p)
  BY <1>2 DEF SaveAs
<1>4. CASE o.persisted /\ Updated(p, o)
  <2>1. rows' = [rows EXCEPT ![o.pk] = Update(@, o)]
    BY <1>2, <1>4 DEF Updated, Put
  <2> QED
    BY <2>1, <1>1, <1>3, <1>4 DEF Table
<1>5. CASE Inserted(p, o)
  <2>1. PICK j \in Keys : rows[j] = None /\ rows' = [rows EXCEPT ![j] = [v |-> o.v, born |-> ops']]
    BY <1>2, <1>5 DEF Inserted, Put
  <2> QED
    BY <2>1, <1>1 DEF Table
<1> QED
  BY <1>2, <1>4, <1>5 DEF SaveAs

\* A process saves what it holds, or what it holds marked as deleted or restored.
LEMMA SavedObject ==
    ASSUME Inv, [Next]_vars, NEW p \in Procs, last'.by = p,
           last'.op \in {"save", "soft_delete"}, ops' # ops
    PROVE  \E o, signal :
              /\ Sound(o) /\ SaveAs(p, o, signal)
              /\ o.pk = obj[p].pk /\ o.persisted = obj[p].persisted /\ o.born = obj[p].born
              /\ o.estranged = obj[p].estranged
              /\ Knows(o, View(p)[o.pk])
              /\ \A f \in o.touched :
                    f \in obj[p].touched \/ (f = "deleted" /\ last'.op = "soft_delete")
<1>1. ~UNCHANGED vars /\ ~Finished
  BY DEF vars, Finished
<1>2. PICK q \in Procs :
        \/ New(q) \/ Load(q) \/ Assign(q) \/ Refresh(q)
        \/ Save(q) \/ SoftDelete(q) \/ HardDelete(q)
        \/ Lookup(q) \/ Create(q) \/ Upsert(q) \/ BulkUpdate(q)
        \/ Begin(q) \/ Commit(q) \/ Rollback(q)
  BY <1>1 DEF Next
<1>3. Save(q) \/ SoftDelete(q)
  <2>1. \A op : Call(q, op) => op \in {"save", "soft_delete"}
    BY DEF Call
  <2>2. ~New(q) /\ ~Load(q) /\ ~Assign(q) /\ ~Refresh(q)
    BY <2>1 DEF New, Load, Assign, Refresh
  <2>3. ~Lookup(q) /\ ~HardDelete(q) /\ ~Upsert(q) /\ ~BulkUpdate(q)
    <3>1. Lookup(q) => Call(q, "get_or_create")
      BY DEF Lookup
    <3>2. HardDelete(q) => Call(q, "delete")
      BY DEF HardDelete
    <3>3. Upsert(q) => Call(q, "upsert")
      BY DEF Upsert
    <3>4. BulkUpdate(q) => Call(q, "bulk_update")
      BY DEF BulkUpdate
    <3> QED
      BY <2>1, <3>1, <3>2, <3>3, <3>4
  <2>4. ~Begin(q) /\ ~Commit(q) /\ ~Rollback(q)
    BY <2>1 DEF Begin, Commit, Rollback
  <2>5. ~Create(q)
    <3>1. last'.op # "create"
      OBVIOUS
    <3> QED
      BY <3>1 DEF Create
  <2> QED
    BY <1>2, <2>2, <2>3, <2>4, <2>5
<1>4. q = p
  BY <1>3 DEF Save, SoftDelete, Call
<1>5. CASE Save(p)
  <2>1. Sound(obj[p]) /\ Knows(obj[p], View(p)[obj[p].pk])
    BY <1>5, Held DEF Save
  <2>2. \E signal : SaveAs(p, obj[p], signal)
    BY <1>5 DEF Save
  <2> QED
    BY <2>1, <2>2
<1>6. CASE SoftDelete(p)
  <2>1. PICK flag \in Vals, signal \in Signals : SaveAs(p, Set(obj[p], "deleted", flag), signal)
    BY <1>6 DEF SoftDelete
  <2> DEFINE s == Set(obj[p], "deleted", flag)
  <2>2. Sound(obj[p]) /\ Knows(obj[p], View(p)[obj[p].pk])
    BY <1>6, Held DEF SoftDelete
  <2>3. /\ Sound(s) /\ s.pk = obj[p].pk /\ s.persisted = obj[p].persisted /\ s.born = obj[p].born
        /\ s.estranged = obj[p].estranged /\ s.touched = obj[p].touched \cup {"deleted"}
        /\ Knows(s, View(p)[s.pk])
    BY <2>2, SetIsSound DEF Fields
  <2>4. last'.op = "soft_delete"
    BY <1>6 DEF SoftDelete, Call
  <2>5. SaveAs(p, s, signal)
    BY <2>1
  <2> HIDE DEF s
  <2> QED
    BY <2>3, <2>4, <2>5
<1> QED
  BY <1>3, <1>4, <1>5, <1>6

(***************************************************************************)
(* The theorems.                                                           *)
(***************************************************************************)
\* An object that dirty_fields calls clean shows the row as it is, whatever
\* loads, deferred fields, saves, get_or_create, bulk updates and blocks it has
\* been through: the snapshot is taken again by each call that sends the values.
THEOREM CleanObjectsAreTrue == Spec => []CleanMatchesRow
<1>1. Inv => CleanMatchesRow
  <2> SUFFICES ASSUME Inv, NEW p \in Procs, obj[p] # None, ~obj[p].estranged, obj[p].persisted,
                      Dirty(obj[p]) = {}
               PROVE  /\ View(p)[obj[p].pk] # None
                      /\ View(p)[obj[p].pk].born = obj[p].born
                      /\ \A f \in obj[p].loaded : View(p)[obj[p].pk].v[f] = obj[p].v[f]
    BY DEF CleanMatchesRow
  <2>1. obj[p] \in Object /\ Knows(obj[p], View(p)[obj[p].pk])
    BY Held
  <2>2. \A f \in Fields : obj[p].v[f] = obj[p].snap[f]
    BY DEF Dirty
  <2>3. obj[p].loaded \subseteq Fields
    BY <2>1 DEF Object
  <2> QED
    BY <2>1, <2>2, <2>3 DEF Knows
<1> QED
  BY <1>1, InvHolds, PTL

\* get_or_create never adds a second row with a shown name: the lookup and the
\* insert are in one block, so that nobody writes in between, for any number of
\* processes.
THEOREM CreatesAreAlone == Spec => []CreatesOnlyIfAbsent
<1>1. Inv => CreatesOnlyIfAbsent
  <2> SUFFICES ASSUME Inv, last.op = "create", obj[last.by] # None
               PROVE  Cardinality({k \in Keys : Shown(View(last.by)[k])
                                   /\ View(last.by)[k].v["name"] = obj[last.by].v["name"]}) = 1
    BY DEF CreatesOnlyIfAbsent
  <2>1. PICK k \in Keys : Matching(last.by, obj[last.by].v["name"]) = {k}
    BY DEF Inv, Created
  <2>2. Cardinality({k}) = 1
    BY FS_Singleton
  <2> QED
    BY <2>1, <2>2 DEF Matching
<1> QED
  BY <1>1, InvHolds, PTL

\* However stale the object, a save or a soft delete leaves in the row what
\* others have written to the fields that were not set on the object.
THEOREM OthersChangesSurvive == Spec => UnchangedFieldsKept
<1> DEFINE Kept ==
      \A p \in Procs, k \in Keys :
          /\ last'.by = p /\ last'.op \in {"save", "soft_delete"} /\ ops' # ops
          /\ rows[k] # None /\ rows'[k] # None
          => \A f \in Fields : rows'[k].v[f] # rows[k].v[f] =>
                f \in obj[p].touched \/ (f = "deleted" /\ last'.op = "soft_delete")
<1>1. Inv /\ [Next]_vars => [Kept]_vars
  <2> SUFFICES ASSUME Inv, [Next]_vars, NEW p \in Procs, NEW k \in Keys,
                      last'.by = p, last'.op \in {"save", "soft_delete"}, ops' # ops,
                      rows[k] # None, NEW f \in Fields, rows'[k].v[f] # rows[k].v[f]
               PROVE  f \in obj[p].touched \/ (f = "deleted" /\ last'.op = "soft_delete")
    OBVIOUS
  <2>1. PICK o, signal :
          /\ Sound(o) /\ SaveAs(p, o, signal)
          /\ \A g \in o.touched :
                g \in obj[p].touched \/ (g = "deleted" /\ last'.op = "soft_delete")
    BY SavedObject
  <2>2. o.persisted /\ rows'[k] = Update(rows[k], o) /\ rows[k] \in Row /\ o \in Object
    BY <2>1, SavesUpdate DEF Inv, Typed, Table, Sound
  <2>3. f \in Dirty(o)
    BY <2>2, UpdateKeepsType
  <2>4. f \in o.touched
    BY <2>1, <2>2, <2>3 DEF Dirty, Sound
  <2> QED
    BY <2>1, <2>4
<1> QED
  BY <1>1, InvHolds, PTL DEF Spec, UnchangedFieldsKept

\* A save never writes a row that was born for another object: keys are used
\* again, but then the object's own row was removed by somebody else or its
\* block was rolled back.
THEOREM SavesStayAtHome == Spec => SavesHitOwnRow
<1> DEFINE Home ==
      \A p \in Procs, k \in Keys :
          /\ last'.by = p /\ last'.op \in {"save", "soft_delete"} /\ ops' # ops
          /\ rows[k] # None /\ rows'[k] # rows[k]
          => obj[p].estranged \/ obj[p].born = rows[k].born
<1>1. Inv /\ [Next]_vars => [Home]_vars
  <2> SUFFICES ASSUME Inv, [Next]_vars, NEW p \in Procs, NEW k \in Keys,
                      last'.by = p, last'.op \in {"save", "soft_delete"}, ops' # ops,
                      rows[k] # None, rows'[k] # rows[k]
               PROVE  obj[p].estranged \/ obj[p].born = rows[k].born
    OBVIOUS
  <2>1. PICK o, signal :
          /\ Sound(o) /\ SaveAs(p, o, signal)
          /\ o.born = obj[p].born /\ o.estranged = obj[p].estranged
          /\ Knows(o, View(p)[o.pk])
    BY SavedObject
  <2>2. MayWrite(p) /\ o.persisted /\ k = o.pk
    BY <2>1, SavesUpdate
  <2>3. View(p) = rows
    BY <2>2 DEF View, MayWrite
  <2> QED
    BY <2>1, <2>2, <2>3 DEF Knows
<1> QED
  BY <1>1, InvHolds, PTL DEF Spec, SavesHitOwnRow
=============================================================================
