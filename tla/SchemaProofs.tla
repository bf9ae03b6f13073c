---------------------------- MODULE SchemaProofs ----------------------------
(***************************************************************************)
(* What is proved of Schema, for all processes, keys and lengths of runs.  *)
(*                                                                         *)
(* A job's list of statements is one of a few, cut short at the front; and *)
(* inside its block a migration has done to the database what the          *)
(* statements that are gone from its list say, and nothing else: db is a   *)
(* function of "before", the database without the block.  So everything is *)
(* about "before", and each statement is a function on databases.          *)
(***************************************************************************)
EXTENDS Schema, SequenceTheorems, TLAPS

-----------------------------------------------------------------------------
(***************************************************************************)
(* Databases that others see.                                              *)
(***************************************************************************)
Databases ==
    {d \in [tables : [Names -> {None} \cup TableOf("users") \cup TableOf("posts")],
            fts : {None} \cup SUBSET (Pks \X Vals),
            trig : [Triggers -> {None} \cup Names],
            missed : BOOLEAN] :
        \A t \in Tables : d.tables[t] \in {None} \cup TableOf(t) /\ d.tables[Old[t]] = None}

Words(d) == {<<k, Rows(d, "users")[k]["name"]>> : k \in Keys(d, "users")}

\* The index has the words of the rows, and of no others, whether there is a table or not.
Agrees(d) == d.fts # None /\ ~d.missed => d.fts = Words(d)

HasIndex(d) == (\E x \in Triggers : d.trig[x] # None) => d.fts # None

\* The table is as the model wants it.
Has(d, t, kind) ==
    Exists(d, t) /\ d.tables[t].idx /\ (kind = "cli" => d.tables[t].cols = Fields[t])

Synced(d, kind) ==
    /\ \A t \in Tables : Has(d, t, kind)
    /\ kind = "cli" => Exists(d, d.tables["posts"].ref)

-----------------------------------------------------------------------------
(***************************************************************************)
(* What a migration has made of the database b.                            *)
(***************************************************************************)
\* The columns that it may have seen: none, when the table was gone when it looked.
Views(t) == {Fields[t], OldCols[t], {}}

Look(t, renamed, seen) ==
    [plan |-> [f \in Fields[t] |-> IF Source(t, f, renamed) \in seen THEN Source(t, f, renamed) ELSE None],
     renamed |-> renamed, seen |-> seen]

\* Cascade and DropTable, with the pragma as an argument.
CutOff(on, d, n, ks) ==
    IF on /\ Exists(d, "posts") /\ d.tables["posts"].ref = n
    THEN [d EXCEPT !.tables["posts"].rows = Without(@, ks)] ELSE d

Dropped(on, d, n) ==
    IF ~Exists(d, n) THEN d
    ELSE [CutOff(on, d, n, Keys(d, n)) EXCEPT
            !.tables[n] = None,
            !.trig = [x \in Triggers |-> IF @[x] = n THEN None ELSE @[x]],
            !.missed = @ \/ (n = "users" /\ d.fts # None /\ Keys(d, n) # {})]

Fresh(b, t) == [Rename(b, t) EXCEPT !.tables[t] = Table(Fields[t])]
Filled(b, t, l) == CopyRows(Fresh(b, t), t, l)
Swapped(on, b, t, l) == Dropped(on, Filled(b, t, l), Old[t])
Rebuilt(on, b, t, l) == [Swapped(on, b, t, l) EXCEPT !.tables[t].idx = TRUE]

\* Its rows have been numbered anew, and the index was not told.
Lost(b, t, l) == t = "users" /\ l.seen = {} /\ b.fts # None /\ Keys(b, t) # {}

\* The columns the plan takes are there.
Fits(b, t, l) == \A f \in Fields[t] : l.plan[f] # None => l.plan[f] \in b.tables[t].cols

-----------------------------------------------------------------------------
(***************************************************************************)
(* What is left of a job: the process p has the list s left of the job j,  *)
(* "at" is the process whose block is open, and d has been made of b in it. *)
(***************************************************************************)
\* What follows a table's statements in a job.
Rest(kind, t) ==
    CASE kind = "cli" /\ t = "users" -> {<<MigrateJob("posts", renamed, TRUE)>> : renamed \in BOOLEAN}
      [] kind = "create_all" /\ t = "users" -> {CreateTable("posts")}
      [] OTHER -> {<<>>}

Left8(t, l, r) == <<[op |-> "commit", t |-> t, look |-> l]>> \o r
Left7(t, l, r) == <<Stmt("index", t)>> \o Left8(t, l, r)
Left6(t, l, r) == <<Stmt("drop", Old[t])>> \o Left7(t, l, r)
Left5(t, l, r) == <<[op |-> "copy", t |-> t, look |-> l]>> \o Left6(t, l, r)
Left4(t, l, r) == <<Stmt("create_new", t)>> \o Left5(t, l, r)
Left3(t, l, r) == <<Stmt("rename", t)>> \o Left4(t, l, r)
Left2(t, l, r) == <<Stmt("drop", Old[t])>> \o Left3(t, l, r)
Left1(t, l, r) == <<Stmt("begin", t)>> \o Left2(t, l, r)

\* The migration of t is in its block: s is left, and d has been made of b.
Inside(s, t, l, r, on, d, b) ==
    \/ s \in {Left2(t, l, r), Left3(t, l, r)} /\ d = b
    \/ /\ Exists(b, t)
       /\ \/ s = Left4(t, l, r) /\ d = Rename(b, t)
          \/ s = Left5(t, l, r) /\ d = Fresh(b, t)
          \/ s = Left6(t, l, r) /\ d = Filled(b, t, l) /\ Fits(b, t, l)
          \/ s = Left7(t, l, r) /\ d = Swapped(on, b, t, l) /\ Fits(b, t, l)
          \/ s = Left8(t, l, r) /\ d = Rebuilt(on, b, t, l) /\ Fits(b, t, l)

\* A job of the whole schema, that runs alone, has done with "users" when it is at "posts".
Ready(j, t, b) ==
    j.alone /\ j.kind \in {"cli", "create_all"} /\ t = "posts" => Has(b, "users", j.kind)

\* It has seen that the table is there.
LookJob(t, renamed, given) == [MigrateJob(t, renamed, given) EXCEPT !.op = "look"]

Migrating(p, s, j, at, on, d, b) ==
    /\ j.kind \in {"migrate", "cli"}
    /\ \E t \in Tables : \E r \in Rest(j.kind, t), renamed \in BOOLEAN :
        /\ Ready(j, t, b)
        /\ \/ at # p /\ \E given \in BOOLEAN :
                s \in {<<MigrateJob(t, renamed, given)>> \o r, <<LookJob(t, renamed, given)>> \o r}
           \/ \E seen \in Views(t) :
                \/ at # p /\ s = Left1(t, Look(t, renamed, seen), r)
                \/ at = p /\ Inside(s, t, Look(t, renamed, seen), r, on, d, b)

Creating(p, s, j, at, b) ==
    /\ at # p /\ j.kind \in {"migrate", "cli", "create_all"}
    /\ \E t \in Tables : \E r \in Rest(j.kind, t) :
        /\ Ready(j, t, b)
        /\ \/ /\ s = CreateTable(t) \o r
              /\ j.alone /\ j.kind = "cli" => ~Exists(b, t)
           \/ /\ s = <<Stmt("index", t)>> \o r
              /\ j.alone => Exists(b, t)
              /\ j.alone /\ j.kind = "cli" =>
                    b.tables[t].cols = Fields[t] /\ b.tables[t].ref = "users"

Dropping(p, s, j, at) ==
    at # p /\ j.kind = "drop_all" /\ s \in {DropAll, <<Stmt("drop", "users")>>}

\* It has made the index, and goes on to its triggers.
Indexing(p, s, j, at, b, cl) ==
    /\ at # p /\ j.kind = "fts"
    /\ \/ s = CreateIndex
       \/ /\ cl \/ b.fts # None
          /\ s \in {<<Stmt("ai", "users"), Stmt("ad", "users"), Stmt("au", "users")>>,
                    <<Stmt("ad", "users"), Stmt("au", "users")>>, <<Stmt("au", "users")>>}

Gone(b, cl, xs) == cl \/ \A x \in xs : b.trig[x] = None

\* It drops the triggers, and the index after them.
Unindexing(p, s, j, at, b, cl) ==
    /\ at # p /\ j.kind = "drop_fts"
    /\ \/ s = DropIndex
       \/ s = <<Stmt("drop_ad", "users"), Stmt("drop_au", "users"), Stmt("drop_fts", "users")>> /\ Gone(b, cl, {"ai"})
       \/ s = <<Stmt("drop_au", "users"), Stmt("drop_fts", "users")>> /\ Gone(b, cl, {"ai", "ad"})
       \/ s = <<Stmt("drop_fts", "users")>> /\ Gone(b, cl, Triggers)

Reindexing(p, s, j, at) == at # p /\ j.kind = "rebuild" /\ s = <<Stmt("rebuild", "users")>>

Stands(p, s, j, at, on, d, b, cl) ==
    \/ s = <<>> /\ at # p
    \/ Migrating(p, s, j, at, on, d, b)
    \/ Creating(p, s, j, at, b)
    \/ Dropping(p, s, j, at)
    \/ Indexing(p, s, j, at, b, cl)
    \/ Unindexing(p, s, j, at, b, cl)
    \/ Reindexing(p, s, j, at)

-----------------------------------------------------------------------------
(***************************************************************************)
(* The invariant.                                                          *)
(***************************************************************************)
Kinds == {"none", "migrate", "cli", "create_all", "drop_all", "fts", "drop_fts", "rebuild"}

Typed ==
    /\ fk \in BOOLEAN /\ clash \in BOOLEAN
    /\ before \in Databases
    /\ block \in Procs \cup {None} /\ (block = None => db = before)
    /\ todo = [p \in Procs |-> todo[p]]
    /\ job \in [Procs -> [kind : Kinds, alone : BOOLEAN]]
    /\ result \in [Procs -> {"none", "done", "failed"}]

Standing(p) == Stands(p, todo[p], job[p], block, fk, db, before, clash)

\* "alone" and "clash" say what they are named for.
Alone ==
    \A p, q \in Procs :
        p # q /\ job[p].alone /\ (todo[p] # <<>> \/ result[p] = "done") => todo[q] = <<>>
Clashes ==
    \A p, q \in Procs :
        todo[p] # <<>> /\ todo[q] # <<>> /\ job[p].kind = "fts" /\ job[q].kind = "drop_fts" => clash

Finishes ==
    \A p \in Procs :
        result[p] = "done" =>
            /\ todo[p] = <<>>
            /\ job[p].alone /\ job[p].kind \in {"cli", "create_all"} => Synced(before, job[p].kind)

Inv ==
    /\ Typed
    /\ \A p \in Procs : Standing(p)
    /\ Alone /\ Clashes /\ Finishes
    /\ Agrees(before)
    /\ clash \/ HasIndex(before)

-----------------------------------------------------------------------------
(***************************************************************************)
(* Lists of statements.                                                    *)
(***************************************************************************)
IsList(s) == \E S : s \in Seq(S)

\* A list with one more statement in front.
LEMMA Cons ==
    ASSUME NEW x, NEW r, IsList(r)
    PROVE  /\ IsList(<<x>> \o r) /\ <<x>> \o r # <<>>
           /\ Head(<<x>> \o r) = x /\ Tail(<<x>> \o r) = r
           /\ Len(<<x>> \o r) = 1 <=> r = <<>>
<1>1. PICK S : r \in Seq(S)  BY DEF IsList
<1>2. r \in Seq(S \cup {x}) /\ <<x>> \in Seq(S \cup {x})  BY <1>1
<1> DEFINE c == <<x>> \o r
<1>3. /\ c \in Seq(S \cup {x}) /\ Len(c) = 1 + Len(r) /\ c[1] = x
      /\ \A i \in 1 .. Len(r) : c[i + 1] = r[i]
  BY <1>2
<1>4. c # <<>> /\ Head(c) = x  BY <1>3
<1>5. Tail(c) \in Seq(S \cup {x}) /\ Len(Tail(c)) = Len(r) /\ \A i \in 1 .. Len(r) : Tail(c)[i] = r[i]
  BY <1>3, <1>4, HeadTailProperties
<1>6. Tail(c) = r  BY <1>2, <1>5, SeqEqual
<1>7. Len(r) = 0 <=> r = <<>>  BY <1>2, EmptySeq
<1> QED  BY <1>2, <1>3, <1>4, <1>6, <1>7 DEF IsList

\* Lists that begin with lists.
LEMMA Lists ==
    /\ IsList(<<>>)
    /\ \A a : <<a>> \o <<>> = <<a>>
    /\ \A a, b, r : IsList(r) => <<a, b>> \o r = <<a>> \o (<<b>> \o r)
<1>1. <<>> \in Seq({})  OBVIOUS
<1>2. ASSUME NEW a PROVE <<a>> \o <<>> = <<a>>
  <2>1. <<a>> \in Seq({a})  OBVIOUS
  <2> QED  BY <2>1, ConcatEmptySeq
<1>3. ASSUME NEW a, NEW b, NEW r, IsList(r) PROVE <<a, b>> \o r = <<a>> \o (<<b>> \o r)
  <2>1. PICK S : r \in Seq(S)  BY <1>3 DEF IsList
  <2> DEFINE T == S \cup {a, b}
  <2>2. r \in Seq(T)  BY <2>1, SeqMonotonic
  <2>3. <<a>> \in Seq(T) /\ <<b>> \in Seq(T) /\ <<a, b>> \in Seq(T)  OBVIOUS
  <2>4. <<a>> \o <<b>> \in Seq(T) /\ Len(<<a>> \o <<b>>) = 2
        /\ (<<a>> \o <<b>>)[1] = a /\ (<<a>> \o <<b>>)[2] = b
    BY <2>3, ConcatProperties
  <2>5. <<a, b>> = <<a>> \o <<b>>
    <3> DEFINE e == <<a>> \o <<b>>
    <3>1. Len(<<a, b>>) = Len(e) /\ \A i \in 1 .. Len(e) : <<a, b>>[i] = e[i]  BY <2>4
    <3> HIDE DEF e
    <3> QED  BY <3>1, <2>3, <2>4, SeqEqual DEF e
  <2> QED  BY <2>2, <2>3, <2>5, ConcatAssociative
<1> QED  BY <1>1, <1>2, <1>3 DEF IsList

LEMMA FourInOne ==
    ASSUME NEW a, NEW b, NEW c, NEW d, NEW r, IsList(r)
    PROVE  <<a, b, c, d>> \o r = <<a>> \o (<<b>> \o (<<c>> \o (<<d>> \o r)))
<1>1. PICK S : r \in Seq(S)  BY DEF IsList
<1> DEFINE T == S \cup {a, b, c, d}
<1>2. r \in Seq(T)  BY <1>1, SeqMonotonic
<1>3. <<a, b>> \in Seq(T) /\ <<c, d>> \in Seq(T) /\ <<a, b, c, d>> \in Seq(T)  OBVIOUS
<1> DEFINE e == <<a, b>> \o <<c, d>>
<1>4. e \in Seq(T) /\ Len(e) = 4 /\ e[1] = a /\ e[2] = b /\ e[3] = c /\ e[4] = d
  BY <1>3, ConcatProperties
<1>5. <<a, b, c, d>> = e  BY <1>3, <1>4, SeqEqual
<1> HIDE DEF T
<1>6. (<<a, b>> \o <<c, d>>) \o r = <<a, b>> \o (<<c, d>> \o r)  BY <1>2, <1>3, ConcatAssociative
<1>7. IsList(<<d>> \o r) /\ IsList(<<c>> \o (<<d>> \o r))  BY Cons
<1> QED  BY SMTT(20), <1>6, <1>7, Lists

LEMMA EightInOne ==
    ASSUME NEW a, NEW b, NEW c, NEW d, NEW e, NEW f, NEW g, NEW h, NEW r, IsList(r)
    PROVE  <<a, b, c, d, e, f, g, h>> \o r = <<a, b, c, d>> \o (<<e, f, g, h>> \o r)
<1>1. PICK S : r \in Seq(S)  BY DEF IsList
<1> DEFINE T == S \cup {a, b, c, d, e, f, g, h}
           w == <<a, b, c, d>> \o <<e, f, g, h>>
<1>2. r \in Seq(T)  BY <1>1, SeqMonotonic
<1>3. /\ <<a, b, c, d>> \in Seq(T) /\ <<e, f, g, h>> \in Seq(T)
      /\ <<a, b, c, d, e, f, g, h>> \in Seq(T)
  OBVIOUS
<1>4. /\ w \in Seq(T) /\ Len(w) = 8 /\ w[1] = a /\ w[2] = b /\ w[3] = c /\ w[4] = d
      /\ w[5] = e /\ w[6] = f /\ w[7] = g /\ w[8] = h
  BY <1>3, ConcatProperties
<1> HIDE DEF w, T
<1>5. /\ Len(<<a, b, c, d, e, f, g, h>>) = Len(w)
      /\ \A i \in 1 .. Len(<<a, b, c, d, e, f, g, h>>) : <<a, b, c, d, e, f, g, h>>[i] = w[i]
  BY <1>4
<1>6. <<a, b, c, d, e, f, g, h>> = w  BY <1>3, <1>4, <1>5, SeqEqual
<1>7. (<<a, b, c, d>> \o <<e, f, g, h>>) \o r = <<a, b, c, d>> \o (<<e, f, g, h>> \o r)
  BY <1>2, <1>3, ConcatAssociative
<1> QED  BY <1>6, <1>7 DEF w

\* What follows a table's statements is a list.
LEMMA RestIsList ==
    ASSUME NEW kind, NEW t, NEW r \in Rest(kind, t)
    PROVE  IsList(r)
<1>1. ASSUME NEW x PROVE IsList(<<x>>)
  <2>1. <<x>> \in Seq({x})  OBVIOUS
  <2> QED  BY <2>1 DEF IsList
<1>2. ASSUME NEW x, NEW y PROVE IsList(<<x, y>>)
  <2>1. <<x, y>> \in Seq({x, y})  OBVIOUS
  <2> QED  BY <2>1 DEF IsList
<1> QED  BY <1>1, <1>2, Lists DEF Rest, CreateTable

\* A migration's statements, one by one.
LEMMA Lefts ==
    ASSUME NEW t, NEW l, NEW r, IsList(r)
    PROVE  /\ Rebuild(t, l) \o r = Left1(t, l, r)
           /\ Left1(t, l, r) # <<>> /\ Head(Left1(t, l, r)) = Stmt("begin", t)
           /\ Tail(Left1(t, l, r)) = Left2(t, l, r)
           /\ Left2(t, l, r) # <<>> /\ Head(Left2(t, l, r)) = Stmt("drop", Old[t])
           /\ Tail(Left2(t, l, r)) = Left3(t, l, r)
           /\ Left3(t, l, r) # <<>> /\ Head(Left3(t, l, r)) = Stmt("rename", t)
           /\ Tail(Left3(t, l, r)) = Left4(t, l, r)
           /\ Left4(t, l, r) # <<>> /\ Head(Left4(t, l, r)) = Stmt("create_new", t)
           /\ Tail(Left4(t, l, r)) = Left5(t, l, r)
           /\ Left5(t, l, r) # <<>> /\ Head(Left5(t, l, r)) = [op |-> "copy", t |-> t, look |-> l]
           /\ Tail(Left5(t, l, r)) = Left6(t, l, r)
           /\ Left6(t, l, r) # <<>> /\ Head(Left6(t, l, r)) = Stmt("drop", Old[t])
           /\ Tail(Left6(t, l, r)) = Left7(t, l, r)
           /\ Left7(t, l, r) # <<>> /\ Head(Left7(t, l, r)) = Stmt("index", t)
           /\ Tail(Left7(t, l, r)) = Left8(t, l, r)
           /\ Left8(t, l, r) # <<>> /\ Head(Left8(t, l, r)) = [op |-> "commit", t |-> t, look |-> l]
           /\ Tail(Left8(t, l, r)) = r
           /\ \A i \in {Len(Left2(t, l, r)), Len(Left3(t, l, r)), Len(Left4(t, l, r)), Len(Left5(t, l, r)),
                        Len(Left6(t, l, r)), Len(Left7(t, l, r))} : i # 1
           /\ Len(Left8(t, l, r)) = 1 <=> r = <<>>
<1>8. /\ IsList(Left8(t, l, r)) /\ Left8(t, l, r) # <<>> /\ Tail(Left8(t, l, r)) = r
      /\ Head(Left8(t, l, r)) = [op |-> "commit", t |-> t, look |-> l]
      /\ Len(Left8(t, l, r)) = 1 <=> r = <<>>
  BY Cons DEF Left8
<1>7. /\ IsList(Left7(t, l, r)) /\ Left7(t, l, r) # <<>> /\ Tail(Left7(t, l, r)) = Left8(t, l, r)
      /\ Head(Left7(t, l, r)) = Stmt("index", t) /\ Len(Left7(t, l, r)) # 1
  BY <1>8, Cons DEF Left7
<1>6. /\ IsList(Left6(t, l, r)) /\ Left6(t, l, r) # <<>> /\ Tail(Left6(t, l, r)) = Left7(t, l, r)
      /\ Head(Left6(t, l, r)) = Stmt("drop", Old[t]) /\ Len(Left6(t, l, r)) # 1
  BY <1>7, Cons DEF Left6
<1>5. /\ IsList(Left5(t, l, r)) /\ Left5(t, l, r) # <<>> /\ Tail(Left5(t, l, r)) = Left6(t, l, r)
      /\ Head(Left5(t, l, r)) = [op |-> "copy", t |-> t, look |-> l] /\ Len(Left5(t, l, r)) # 1
  BY <1>6, Cons DEF Left5
<1>4. /\ IsList(Left4(t, l, r)) /\ Left4(t, l, r) # <<>> /\ Tail(Left4(t, l, r)) = Left5(t, l, r)
      /\ Head(Left4(t, l, r)) = Stmt("create_new", t) /\ Len(Left4(t, l, r)) # 1
  BY <1>5, Cons DEF Left4
<1>3. /\ IsList(Left3(t, l, r)) /\ Left3(t, l, r) # <<>> /\ Tail(Left3(t, l, r)) = Left4(t, l, r)
      /\ Head(Left3(t, l, r)) = Stmt("rename", t) /\ Len(Left3(t, l, r)) # 1
  BY <1>4, Cons DEF Left3
<1>2. /\ IsList(Left2(t, l, r)) /\ Left2(t, l, r) # <<>> /\ Tail(Left2(t, l, r)) = Left3(t, l, r)
      /\ Head(Left2(t, l, r)) = Stmt("drop", Old[t]) /\ Len(Left2(t, l, r)) # 1
  BY <1>3, Cons DEF Left2
<1>1. /\ Left1(t, l, r) # <<>> /\ Tail(Left1(t, l, r)) = Left2(t, l, r)
      /\ Head(Left1(t, l, r)) = Stmt("begin", t)
  BY <1>2, Cons DEF Left1
<1>9. Rebuild(t, l) \o r = Left1(t, l, r)
  <2> DEFINE a == Stmt("begin", t)
             b == Stmt("drop", Old[t])
             c == Stmt("rename", t)
             d == Stmt("create_new", t)
             e == [op |-> "copy", t |-> t, look |-> l]
             f == Stmt("index", t)
             g == [op |-> "commit", t |-> t, look |-> l]
  <2>1. Rebuild(t, l) = <<a, b, c, d, e, b, f, g>>  BY DEF Rebuild
  <2>2. /\ Left1(t, l, r) = <<a>> \o (<<b>> \o (<<c>> \o (<<d>> \o Left5(t, l, r))))
        /\ Left5(t, l, r) = <<e>> \o (<<b>> \o (<<f>> \o (<<g>> \o r)))
    BY DEF Left1, Left2, Left3, Left4, Left5, Left6, Left7, Left8
  <2> HIDE DEF a, b, c, d, e, f, g
  <2>3. <<a, b, c, d, e, b, f, g>> \o r = <<a, b, c, d>> \o (<<e, b, f, g>> \o r)  BY SMTT(20), EightInOne
  <2>4. <<e, b, f, g>> \o r = <<e>> \o (<<b>> \o (<<f>> \o (<<g>> \o r)))  BY FourInOne
  <2>5. <<a, b, c, d>> \o Left5(t, l, r) = <<a>> \o (<<b>> \o (<<c>> \o (<<d>> \o Left5(t, l, r))))
    <3>1. IsList(Left5(t, l, r))  BY <1>5
    <3> QED  BY <3>1, FourInOne
  <2> QED  BY <2>1, <2>2, <2>3, <2>4, <2>5
<1> QED  BY <1>1, <1>2, <1>3, <1>4, <1>5, <1>6, <1>7, <1>8, <1>9

\* The other jobs' statements.
LEMMA Creations ==
    ASSUME NEW t, NEW r, IsList(r)
    PROVE  /\ CreateTable(t) \o r # <<>> /\ Head(CreateTable(t) \o r) = Stmt("create", t)
           /\ Tail(CreateTable(t) \o r) = <<Stmt("index", t)>> \o r /\ Len(CreateTable(t) \o r) # 1
           /\ <<Stmt("index", t)>> \o r # <<>> /\ Head(<<Stmt("index", t)>> \o r) = Stmt("index", t)
           /\ Tail(<<Stmt("index", t)>> \o r) = r /\ (Len(<<Stmt("index", t)>> \o r) = 1 <=> r = <<>>)
<1> DEFINE a == Stmt("create", t)
           b == Stmt("index", t)
<1>1. CreateTable(t) = <<a, b>>  BY DEF CreateTable
<1> HIDE DEF a, b
<1>2. <<a, b>> \o r = <<a>> \o (<<b>> \o r)  BY Lists
<1>3. /\ IsList(<<b>> \o r) /\ <<b>> \o r # <<>> /\ Head(<<b>> \o r) = b /\ Tail(<<b>> \o r) = r
      /\ Len(<<b>> \o r) = 1 <=> r = <<>>
  BY Cons
<1>4. LET s == <<a>> \o (<<b>> \o r)
      IN  s # <<>> /\ Head(s) = a /\ Tail(s) = <<b>> \o r /\ Len(s) # 1
  BY <1>3, Cons
<1> QED  BY <1>1, <1>2, <1>3, <1>4 DEF a, b

LEMMA Short ==
    ASSUME NEW a, NEW b, NEW c, NEW d
    PROVE  /\ <<a>> # <<>> /\ Head(<<a>>) = a /\ Tail(<<a>>) = <<>>
           /\ <<a, b>> # <<>> /\ Head(<<a, b>>) = a /\ Tail(<<a, b>>) = <<b>>
           /\ <<a, b, c>> # <<>> /\ Head(<<a, b, c>>) = a /\ Tail(<<a, b, c>>) = <<b, c>>
           /\ <<a, b, c, d>> # <<>> /\ Head(<<a, b, c, d>>) = a /\ Tail(<<a, b, c, d>>) = <<b, c, d>>
<1>1. Head(<<a>>) = a /\ Tail(<<a>>) = <<>>  OBVIOUS
<1>2. Head(<<a, b>>) = a /\ Tail(<<a, b>>) = <<b>>  OBVIOUS
<1>3. Head(<<a, b, c>>) = a /\ Tail(<<a, b, c>>) = <<b, c>>  OBVIOUS
<1>4. Head(<<a, b, c, d>>) = a /\ Tail(<<a, b, c, d>>) = <<b, c, d>>  OBVIOUS
<1>5. <<a>> # <<>> /\ <<a, b>> # <<>> /\ <<a, b, c>> # <<>> /\ <<a, b, c, d>> # <<>>  OBVIOUS
<1> QED  BY <1>1, <1>2, <1>3, <1>4, <1>5

-----------------------------------------------------------------------------
(***************************************************************************)
(* What statements and writes make of a database that others see.          *)
(***************************************************************************)
DbSet ==
    [tables : [Names -> {None} \cup TableOf("users") \cup TableOf("posts")],
     fts : {None} \cup SUBSET (Pks \X Vals),
     trig : [Triggers -> {None} \cup Names],
     missed : BOOLEAN]

\* What the statements that make one change make of a database.
WithTable(b, t) == [b EXCEPT !.tables[t] = Table(Fields[t])]
WithIndexes(b, t) == [b EXCEPT !.tables[t].idx = TRUE]
WithFts(b) == IF b.fts = None THEN [b EXCEPT !.fts = {}, !.missed = Keys(b, "users") # {}] ELSE b
WithTrigger(b, x, v) == [b EXCEPT !.trig[x] = v]
WithoutFts(b) == [b EXCEPT !.fts = None, !.missed = FALSE]
WithWords(b, W) == [b EXCEPT !.fts = W, !.missed = FALSE]

LEMMA NamesApart ==
    /\ Names = {"users", "posts", "users__old", "posts__old"} /\ Tables \subseteq Names
    /\ Old["users"] = "users__old" /\ Old["posts"] = "posts__old"
    /\ \A t \in Tables : Old[t] \in Names \ Tables
    /\ \A t, u \in Tables : t # u => Old[t] # Old[u]
<1>1. Old["users"] = "users__old" /\ Old["posts"] = "posts__old"  BY DEF Old
<1> QED  BY <1>1 DEF Names, Tables

\* A database is one if its parts are.
LEMMA Parts ==
    ASSUME NEW T, NEW F, NEW G, NEW M,
           T \in [Names -> {None} \cup TableOf("users") \cup TableOf("posts")],
           F \in {None} \cup SUBSET (Pks \X Vals), G \in [Triggers -> {None} \cup Names], M \in BOOLEAN,
           \A t \in Tables : T[t] \in {None} \cup TableOf(t) /\ T[Old[t]] = None
    PROVE  [tables |-> T, fts |-> F, trig |-> G, missed |-> M] \in Databases
BY DEF Databases

LEMMA PartsOf ==
    ASSUME NEW d \in Databases
    PROVE  /\ d = [tables |-> d.tables, fts |-> d.fts, trig |-> d.trig, missed |-> d.missed]
           /\ d.tables \in [Names -> {None} \cup TableOf("users") \cup TableOf("posts")]
           /\ d.fts \in {None} \cup SUBSET (Pks \X Vals)
           /\ d.trig \in [Triggers -> {None} \cup Names] /\ d.missed \in BOOLEAN
           /\ \A t \in Tables : d.tables[t] \in {None} \cup TableOf(t) /\ d.tables[Old[t]] = None
           /\ \A t \in Tables : ~Exists(d, Old[t])
BY DEF Databases, Exists

\* Tables, and what can be done to one.
LEMMA OneTable ==
    ASSUME NEW t \in Tables, NEW x \in TableOf(t)
    PROVE  /\ x # None /\ x.cols \in {Fields[t], OldCols[t]} /\ "name" \in x.cols /\ x.cols \subseteq Fields[t] \cup OldCols[t]
           /\ x.idx \in BOOLEAN /\ x.ref \in Names /\ DOMAIN x.rows \in SUBSET Pks
           /\ x.rows \in [DOMAIN x.rows -> [x.cols -> Vals]]
           /\ x = [cols |-> x.cols, rows |-> x.rows, idx |-> x.idx, ref |-> x.ref]
<1>1. PICK C \in {Fields[t], OldCols[t]} :
        x \in [cols : {C}, rows : UNION {[K -> [C -> Vals]] : K \in SUBSET Pks}, idx : BOOLEAN, ref : Names]
  BY DEF TableOf
<1>2. PICK K \in SUBSET Pks : x.rows \in [K -> [C -> Vals]]  BY <1>1
<1>3. x # None  BY NoneAssumption
<1>4. "name" \in C  BY <1>1 DEF Tables, Fields, OldCols
<1> QED  BY <1>1, <1>2, <1>3, <1>4

LEMMA MakeTable ==
    ASSUME NEW t \in Tables, NEW C \in {Fields[t], OldCols[t]}, NEW K \in SUBSET Pks,
           NEW f \in [K -> [C -> Vals]], NEW i \in BOOLEAN, NEW n \in Names
    PROVE  [cols |-> C, rows |-> f, idx |-> i, ref |-> n] \in TableOf(t)
<1>1. f \in UNION {[L -> [C -> Vals]] : L \in SUBSET Pks}  OBVIOUS
<1>2. [cols |-> C, rows |-> f, idx |-> i, ref |-> n] \in
        [cols : {C}, rows : UNION {[L -> [C -> Vals]] : L \in SUBSET Pks}, idx : BOOLEAN, ref : Names]
  BY <1>1
<1> QED  BY <1>2 DEF TableOf

\* DROP TABLE is Dropped.
LEMMA DropIsDropped ==
    ASSUME NEW d, NEW n
    PROVE  DropTable(d, n) = Dropped(fk, d, n) /\ \A ks : Cascade(d, n, ks) = CutOff(fk, d, n, ks)
BY DEF DropTable, Dropped, Cascade, CutOff

\* A cascade takes rows of posts away, and nothing else.
LEMMA CutOffKeeps ==
    ASSUME NEW b \in Databases, NEW on, NEW n, NEW ks, NEW c, c = CutOff(on, b, n, ks)
    PROVE  /\ c \in Databases /\ c.fts = b.fts /\ c.trig = b.trig /\ c.missed = b.missed
           /\ c.tables["users"] = b.tables["users"]
           /\ (c.tables["posts"] = None) <=> (b.tables["posts"] = None)
           /\ b.tables["posts"] # None =>
                /\ c.tables["posts"].cols = b.tables["posts"].cols
                /\ c.tables["posts"].idx = b.tables["posts"].idx
                /\ c.tables["posts"].ref = b.tables["posts"].ref
<1>1. CASE c = b  BY <1>1
<1>2. CASE c # b
  <2> DEFINE x == b.tables["posts"]
             y == [x EXCEPT !.rows = Without(@, ks)]
             T == [b.tables EXCEPT !["posts"] = y]
  <2>1. x # None /\ c = [b EXCEPT !.tables["posts"].rows = Without(@, ks)]
    BY <1>2 DEF CutOff, Exists
  <2>2. x \in TableOf("posts")  BY <2>1, PartsOf DEF Tables
  <2>3. /\ x.rows \in [DOMAIN x.rows -> [x.cols -> Vals]] /\ DOMAIN x.rows \in SUBSET Pks
        /\ x.cols \in {Fields["posts"], OldCols["posts"]} /\ x.idx \in BOOLEAN /\ x.ref \in Names
        /\ x = [cols |-> x.cols, rows |-> x.rows, idx |-> x.idx, ref |-> x.ref]
    BY <2>2, OneTable DEF Tables
  <2>4. Without(x.rows, ks) \in [DOMAIN x.rows \ ks -> [x.cols -> Vals]]  BY <2>3 DEF Without
  <2>5. y = [cols |-> x.cols, rows |-> Without(x.rows, ks), idx |-> x.idx, ref |-> x.ref]  BY <2>3
  <2>6. y \in TableOf("posts")
    <3>1. DOMAIN x.rows \ ks \in SUBSET Pks  BY <2>3
    <3> HIDE DEF x, y
    <3> QED  BY <2>3, <2>4, <2>5, <3>1, MakeTable DEF Tables
  <2>7. y # None  BY <2>6, NoneAssumption DEF Tables
  <2>8. c = [tables |-> T, fts |-> b.fts, trig |-> b.trig, missed |-> b.missed]  BY <2>1, PartsOf
  <2>9. /\ T \in [Names -> {None} \cup TableOf("users") \cup TableOf("posts")]
        /\ T["users"] = b.tables["users"] /\ T["posts"] = y
        /\ \A t \in Tables : T[t] \in {None} \cup TableOf(t) /\ T[Old[t]] = None
    <3> HIDE DEF y
    <3> QED  BY <2>6, PartsOf, NamesApart DEF Tables
  <2> HIDE DEF T, y
  <2>10. c \in Databases  BY <2>8, <2>9, PartsOf, Parts
  <2> QED  BY <2>1, <2>5, <2>7, <2>8, <2>9, <2>10
<1> QED  BY <1>1, <1>2

LEMMA SameUsers ==
    ASSUME NEW b, NEW c, b.tables["users"] = c.tables["users"]
    PROVE  Words(b) = Words(c) /\ Keys(b, "users") = Keys(c, "users") /\ Rows(b, "users") = Rows(c, "users")
BY DEF Words, Rows, Keys, Exists

LEMMA WordsAreWords ==
    ASSUME NEW b \in Databases
    PROVE  Words(b) \in SUBSET (Pks \X Vals) /\ Keys(b, "users") \in SUBSET Pks
<1>1. CASE ~Exists(b, "users")
  <2>1. Keys(b, "users") = {}  BY <1>1 DEF Keys, Rows
  <2> QED  BY <2>1 DEF Words
<1>2. CASE Exists(b, "users")
  <2> DEFINE x == b.tables["users"]
  <2>1. x \in TableOf("users")  BY <1>2, PartsOf DEF Exists, Tables
  <2>2. /\ "name" \in x.cols /\ DOMAIN x.rows \in SUBSET Pks
        /\ x.rows \in [DOMAIN x.rows -> [x.cols -> Vals]]
    BY <2>1, OneTable DEF Tables
  <2>3. Rows(b, "users") = x.rows /\ Keys(b, "users") = DOMAIN x.rows  BY <1>2 DEF Rows, Keys
  <2>4. \A k \in DOMAIN x.rows : <<k, x.rows[k]["name"]>> \in Pks \X Vals  BY <2>2
  <2> QED  BY <2>2, <2>3, <2>4 DEF Words
<1> QED  BY <1>1, <1>2

\* DROP TABLE.
LEMMA DropKeeps ==
    ASSUME NEW b \in Databases, NEW t \in Tables, NEW on, NEW c, c = Dropped(on, b, t)
    PROVE  /\ c \in Databases /\ (Agrees(b) => Agrees(c))
           /\ c.fts = b.fts /\ \A x \in Triggers : c.trig[x] \in {None, b.trig[x]}
<1>1. CASE ~Exists(b, t)  BY <1>1 DEF Dropped
<1>2. CASE Exists(b, t)
  <2> DEFINE k == CutOff(on, b, t, Keys(b, t))
             T == [k.tables EXCEPT ![t] = None]
             G == [x \in Triggers |-> IF b.trig[x] = t THEN None ELSE b.trig[x]]
             M == b.missed \/ (t = "users" /\ b.fts # None /\ Keys(b, t) # {})
  <2>1. k \in Databases /\ k.fts = b.fts /\ k.trig = b.trig /\ k.missed = b.missed
        /\ k.tables["users"] = b.tables["users"]
    BY CutOffKeeps
  <2> HIDE DEF k
  <2>2. c = [k EXCEPT !.tables[t] = None,
                      !.trig = [x \in Triggers |-> IF @[x] = t THEN None ELSE @[x]],
                      !.missed = @ \/ (t = "users" /\ b.fts # None /\ Keys(b, t) # {})]
    BY <1>2 DEF Dropped, k
  <2>3. c = [tables |-> T, fts |-> b.fts, trig |-> G, missed |-> M]
    <3>1. k = [tables |-> k.tables, fts |-> k.fts, trig |-> k.trig, missed |-> k.missed]  BY <2>1, PartsOf
    <3>2. k.tables \in [Names -> {None} \cup TableOf("users") \cup TableOf("posts")]  BY <2>1, PartsOf
    <3>3. k.trig = b.trig /\ k.fts = b.fts /\ k.missed = b.missed  BY <2>1
    <3>4. c = [k EXCEPT !.tables = T, !.trig = G, !.missed = M]  BY <2>2, <3>3
    <3> HIDE DEF T, G, M
    <3> QED  BY <3>1, <3>3, <3>4
  <2>4. /\ T \in [Names -> {None} \cup TableOf("users") \cup TableOf("posts")]
        /\ \A u \in Tables : T[u] \in {None} \cup TableOf(u) /\ T[Old[u]] = None
        /\ T[t] = None /\ (t # "users" => T["users"] = b.tables["users"])
    BY <2>1, PartsOf, NamesApart DEF Tables
  <2>5. G \in [Triggers -> {None} \cup Names]  BY PartsOf
  <2>6. M \in BOOLEAN /\ b.fts \in {None} \cup SUBSET (Pks \X Vals)  BY PartsOf
  <2> HIDE DEF T
  <2>7. c \in Databases
    <3> HIDE DEF G, M
    <3> QED  BY <2>3, <2>4, <2>5, <2>6, Parts
  <2>8. ASSUME Agrees(b) PROVE Agrees(c)
    <3>1. CASE t # "users"
      <4>1. c.tables["users"] = b.tables["users"] /\ c.missed = b.missed /\ c.fts = b.fts
        BY <3>1, <2>3, <2>4, PartsOf
      <4> QED  BY <4>1, <2>8, SameUsers DEF Agrees
    <3>2. CASE t = "users"
      <4>1. Words(c) = {}  BY <3>2, <2>3, <2>4 DEF Words, Keys, Rows, Exists
      <4>2. Keys(b, t) = {} => Words(b) = {}  BY <3>2 DEF Words
      <4>3. c.fts = b.fts /\ c.missed = M  BY <2>3
      <4> QED  BY <4>1, <4>2, <4>3, <2>8, <3>2 DEF Agrees
    <3> QED  BY <3>1, <3>2
  <2> QED  BY <2>3, <2>7, <2>8
<1> QED  BY <1>1, <1>2

\* CREATE TABLE.
LEMMA CreateKeeps ==
    ASSUME NEW b \in Databases, NEW t \in Tables, ~Exists(b, t),
           NEW c, c = WithTable(b, t)
    PROVE  /\ c \in Databases /\ (Agrees(b) => Agrees(c)) /\ c.fts = b.fts /\ c.trig = b.trig
           /\ Exists(c, t) /\ c.tables[t].cols = Fields[t] /\ c.tables[t].ref = "users"
           /\ \A n \in Names \ {t} : c.tables[n] = b.tables[n]
<1> DEFINE T == [b.tables EXCEPT ![t] = Table(Fields[t])]
<1>1. c = [tables |-> T, fts |-> b.fts, trig |-> b.trig, missed |-> b.missed]
  <2>1. c = [b EXCEPT !.tables[t] = Table(Fields[t])]  BY DEF WithTable
  <2> QED  BY <2>1, PartsOf
<1>2. /\ Table(Fields[t]) \in TableOf(t) /\ Table(Fields[t]).cols = Fields[t]
      /\ Table(Fields[t]).ref = "users" /\ DOMAIN Table(Fields[t]).rows = {}
  <2>1. <<>> \in [{} -> [Fields[t] -> Vals]] /\ {} \in SUBSET Pks /\ DOMAIN <<>> = {}  OBVIOUS
  <2> QED  BY <2>1, MakeTable, NamesApart DEF Table
<1>3. Table(Fields[t]) # None  BY <1>2, NoneAssumption
<1> HIDE DEF T
<1>4. /\ T \in [Names -> {None} \cup TableOf("users") \cup TableOf("posts")]
      /\ \A u \in Tables : T[u] \in {None} \cup TableOf(u) /\ T[Old[u]] = None
      /\ T[t] = Table(Fields[t]) /\ \A n \in Names \ {t} : T[n] = b.tables[n]
  BY <1>2, PartsOf, NamesApart DEF Tables, T
<1>5. c \in Databases  BY <1>1, <1>4, PartsOf, Parts
<1>6. ASSUME Agrees(b) PROVE Agrees(c)
  <2>1. CASE t # "users"
    <3>1. c.tables["users"] = b.tables["users"]  BY <2>1, <1>1, <1>4, NamesApart
    <3> QED  BY <3>1, <1>1, <1>6, SameUsers DEF Agrees
  <2>2. CASE t = "users"
    <3>1. Words(c) = {}  BY <2>2, <1>1, <1>2, <1>4 DEF Words, Keys, Rows, Exists
    <3>2. Words(b) = {}  BY <2>2 DEF Words, Keys, Rows
    <3> QED  BY <3>1, <3>2, <1>1, <1>6 DEF Agrees
  <2> QED  BY <2>1, <2>2
<1>7. c.tables = T /\ c.fts = b.fts /\ c.trig = b.trig  BY <1>1
<1>8. Exists(c, t) /\ c.tables[t].cols = Fields[t] /\ c.tables[t].ref = "users"
  BY <1>2, <1>3, <1>4, <1>7 DEF Exists
<1>9. \A n \in Names \ {t} : c.tables[n] = b.tables[n]  BY <1>4, <1>7
<1> QED  BY <1>5, <1>6, <1>7, <1>8, <1>9

\* CREATE INDEX.
LEMMA WithIndex ==
    ASSUME NEW t \in Tables, NEW x \in TableOf(t), NEW i \in BOOLEAN
    PROVE  [x EXCEPT !.idx = i] = [cols |-> x.cols, rows |-> x.rows, idx |-> i, ref |-> x.ref]
<1>1. x = [cols |-> x.cols, rows |-> x.rows, idx |-> x.idx, ref |-> x.ref]  BY OneTable
<1> QED  BY <1>1

LEMMA IndexKeeps ==
    ASSUME NEW b \in Databases, NEW t \in Tables, Exists(b, t),
           NEW c, c = WithIndexes(b, t)
    PROVE  /\ c \in Databases /\ (Agrees(b) => Agrees(c)) /\ c.fts = b.fts /\ c.trig = b.trig
           /\ Exists(c, t) /\ c.tables[t].idx /\ c.tables[t].cols = b.tables[t].cols
           /\ c.tables[t].ref = b.tables[t].ref
           /\ \A n \in Names \ {t} : c.tables[n] = b.tables[n]
<1> DEFINE x == b.tables[t]
           y == [cols |-> x.cols, rows |-> x.rows, idx |-> TRUE, ref |-> x.ref]
           T == [b.tables EXCEPT ![t] = y]
<1>1. x \in TableOf(t)  BY PartsOf DEF Exists
<1>2. y = [x EXCEPT !.idx = TRUE]
  <2> HIDE DEF x
  <2> QED  BY <1>1, WithIndex
<1>3. y \in TableOf(t)
  <2> HIDE DEF x
  <2> QED  BY <1>1, OneTable, MakeTable
<1>4. y # None  BY <1>3, NoneAssumption
<1>5. c = [tables |-> T, fts |-> b.fts, trig |-> b.trig, missed |-> b.missed]
  <2>1. c = [b EXCEPT !.tables = [@ EXCEPT ![t] = y]]
    <3>1. c = [b EXCEPT !.tables[t].idx = TRUE]  BY DEF WithIndexes
    <3> HIDE DEF y
    <3> QED  BY <1>2, <3>1, PartsOf, NamesApart
  <2>2. b = [tables |-> b.tables, fts |-> b.fts, trig |-> b.trig, missed |-> b.missed]  BY PartsOf
  <2>3. c = [b EXCEPT !.tables = T]  BY <2>1
  <2> HIDE DEF T
  <2> QED  BY <2>2, <2>3
<1> HIDE DEF T
<1>6. /\ T \in [Names -> {None} \cup TableOf("users") \cup TableOf("posts")]
      /\ \A u \in Tables : T[u] \in {None} \cup TableOf(u) /\ T[Old[u]] = None
      /\ T[t] = y /\ \A n \in Names \ {t} : T[n] = b.tables[n]
  <2> HIDE DEF y
  <2> QED  BY <1>3, PartsOf, NamesApart DEF Tables, T
<1>7. c \in Databases
  <2>1. b.fts \in {None} \cup SUBSET (Pks \X Vals) /\ b.missed \in BOOLEAN
        /\ b.trig \in [Triggers -> {None} \cup Names]
    BY PartsOf
  <2>2. /\ T \in [Names -> {None} \cup TableOf("users") \cup TableOf("posts")]
        /\ \A u \in Tables : T[u] \in {None} \cup TableOf(u) /\ T[Old[u]] = None
    BY <1>6
  <2>3. [tables |-> T, fts |-> b.fts, trig |-> b.trig, missed |-> b.missed] \in Databases
    BY <2>1, <2>2, Parts
  <2> QED  BY <1>5, <2>3
<1>8. Words(c) = Words(b)
  <2>1. CASE t # "users"
    <3>1. c.tables["users"] = b.tables["users"]  BY <2>1, <1>5, <1>6, NamesApart
    <3> QED  BY <3>1, SameUsers
  <2>2. CASE t = "users"
    <3>1. Rows(c, t) = x.rows /\ Rows(b, t) = x.rows  BY <1>4, <1>5, <1>6 DEF Rows, Exists
    <3> QED  BY <2>2, <3>1 DEF Words, Keys
  <2> QED  BY <2>1, <2>2
<1>9. Agrees(b) => Agrees(c)  BY <1>5, <1>8 DEF Agrees
<1>10. c.tables = T /\ c.fts = b.fts /\ c.trig = b.trig  BY <1>5
<1>11. c.tables[t].idx /\ c.tables[t].cols = x.cols /\ c.tables[t].ref = x.ref
  <2>1. c.tables[t] = y  BY <1>6, <1>10
  <2> QED  BY <2>1
<1> QED  BY <1>4, <1>6, <1>7, <1>9, <1>10, <1>11 DEF Exists

\* The statements of the index leave the tables alone.
LEMMA IndexParts ==
    ASSUME NEW b \in Databases, NEW F \in {None} \cup SUBSET (Pks \X Vals),
           NEW G \in [Triggers -> {None} \cup Names], NEW M \in BOOLEAN,
           NEW c, c = [tables |-> b.tables, fts |-> F, trig |-> G, missed |-> M]
    PROVE  c \in Databases /\ Words(c) = Words(b)
<1>1. c \in Databases  BY PartsOf, Parts
<1>2. Words(c) = Words(b)  BY SameUsers
<1> QED  BY <1>1, <1>2

LEMMA FtsKeeps ==
    ASSUME NEW b \in Databases, NEW c, c = WithFts(b)
    PROVE  /\ c \in Databases /\ (Agrees(b) => Agrees(c))
           /\ c.fts # None /\ c.trig = b.trig
<1>1. CASE b.fts # None  BY <1>1 DEF WithFts
<1>2. CASE b.fts = None
  <2> DEFINE M == Keys(b, "users") # {}
  <2>1. {} # None  BY NoneAssumption
  <2>2. b = [tables |-> b.tables, fts |-> b.fts, trig |-> b.trig, missed |-> b.missed]  BY PartsOf
  <2>3. c = [b EXCEPT !.fts = {}, !.missed = M]  BY <1>2 DEF WithFts
  <2>4. c = [tables |-> b.tables, fts |-> {}, trig |-> b.trig, missed |-> M]
    <3> HIDE DEF M
    <3> QED  BY <2>2, <2>3
  <2>5. c \in Databases /\ Words(c) = Words(b)
    <3>1. M \in BOOLEAN  OBVIOUS
    <3> HIDE DEF M
    <3> QED  BY <2>4, <3>1, PartsOf, IndexParts
  <2>6. ~M => Words(b) = {}  BY DEF Words
  <2>7. c.fts = {} /\ c.missed = M /\ c.trig = b.trig  BY <2>4
  <2> QED  BY <2>1, <2>5, <2>6, <2>7 DEF Agrees
<1> QED  BY <1>1, <1>2

LEMMA TriggersKeep ==
    ASSUME NEW b \in Databases, NEW x \in Triggers, NEW v \in {None} \cup Names,
           NEW c, c = WithTrigger(b, x, v)
    PROVE  /\ c \in Databases /\ (Agrees(b) => Agrees(c)) /\ c.fts = b.fts
           /\ c.trig[x] = v /\ \A y \in Triggers \ {x} : c.trig[y] = b.trig[y]
<1> DEFINE G == [b.trig EXCEPT ![x] = v]
<1>1. b = [tables |-> b.tables, fts |-> b.fts, trig |-> b.trig, missed |-> b.missed]  BY PartsOf
<1>2. c = [b EXCEPT !.trig = G]  BY DEF WithTrigger
<1>3. /\ G \in [Triggers -> {None} \cup Names] /\ G[x] = v
      /\ \A y \in Triggers \ {x} : G[y] = b.trig[y]
  BY PartsOf
<1> HIDE DEF G
<1>4. c = [tables |-> b.tables, fts |-> b.fts, trig |-> G, missed |-> b.missed]  BY <1>1, <1>2
<1>5. c \in Databases /\ Words(c) = Words(b)  BY <1>3, <1>4, PartsOf, IndexParts
<1>6. c.trig = G /\ c.fts = b.fts /\ c.missed = b.missed  BY <1>4
<1> QED  BY <1>3, <1>5, <1>6 DEF Agrees

LEMMA DropFtsKeeps ==
    ASSUME NEW b \in Databases, NEW c, c = WithoutFts(b)
    PROVE  c \in Databases /\ Agrees(c) /\ c.fts = None /\ c.trig = b.trig
<1> DEFINE M == FALSE
<1>1. b = [tables |-> b.tables, fts |-> b.fts, trig |-> b.trig, missed |-> b.missed]  BY PartsOf
<1>2. M \in BOOLEAN /\ c = [b EXCEPT !.fts = None, !.missed = M]  BY DEF WithoutFts
<1> HIDE DEF M
<1>3. c = [tables |-> b.tables, fts |-> None, trig |-> b.trig, missed |-> M]  BY <1>1, <1>2
<1>4. c \in Databases  BY <1>2, <1>3, PartsOf, IndexParts
<1>5. c.fts = None /\ c.trig = b.trig  BY <1>3
<1> QED  BY <1>4, <1>5 DEF Agrees

LEMMA ReindexKeeps ==
    ASSUME NEW b \in Databases, NEW W, W = Words(b), NEW c, c = WithWords(b, W)
    PROVE  c \in Databases /\ Agrees(c) /\ c.fts # None /\ c.trig = b.trig
<1> DEFINE M == FALSE
<1>1. b = [tables |-> b.tables, fts |-> b.fts, trig |-> b.trig, missed |-> b.missed]  BY PartsOf
<1>2. M \in BOOLEAN /\ c = [b EXCEPT !.fts = W, !.missed = M]  BY DEF WithWords
<1>3. W \in SUBSET (Pks \X Vals)  BY WordsAreWords
<1>4. W # None  BY <1>3, NoneAssumption
<1> HIDE DEF M
<1>5. c = [tables |-> b.tables, fts |-> W, trig |-> b.trig, missed |-> M]  BY <1>1, <1>2
<1>6. c \in Databases /\ Words(c) = Words(b)
  <2>1. b.trig \in [Triggers -> {None} \cup Names] /\ M \in BOOLEAN /\ W \in {None} \cup SUBSET (Pks \X Vals)
    BY <1>2, <1>3, PartsOf
  <2> QED  BY <2>1, <1>5, IndexParts
<1>7. c.fts = W /\ c.trig = b.trig  BY <1>5
<1> QED  BY <1>4, <1>6, <1>7 DEF Agrees

-----------------------------------------------------------------------------
(***************************************************************************)
(* The writes of the application.                                          *)
(***************************************************************************)
\* Tables, columns, indexes and references are the same.
SameShape(b, c) ==
    \A t \in Tables :
        /\ Exists(c, t) <=> Exists(b, t)
        /\ Exists(b, t) =>
            /\ c.tables[t].cols = b.tables[t].cols /\ c.tables[t].idx = b.tables[t].idx
            /\ c.tables[t].ref = b.tables[t].ref

\* c is b with the rows f in the table t.
Touched(b, t, f, c) ==
    /\ c \in Databases /\ SameShape(b, c) /\ Rows(c, t) = f
    /\ t # "users" => Words(c) = Words(b)
    /\ c.fts = b.fts /\ c.trig = b.trig /\ c.missed = b.missed

LEMMA TouchedIs ==
    ASSUME NEW b \in Databases, NEW t \in Tables, Exists(b, t),
           NEW K \in SUBSET Pks, NEW f \in [K -> [b.tables[t].cols -> Vals]],
           NEW c, c = [b EXCEPT !.tables[t].rows = f]
    PROVE  Touched(b, t, f, c)
<1> DEFINE x == b.tables[t]
           y == [cols |-> x.cols, rows |-> f, idx |-> x.idx, ref |-> x.ref]
           T == [b.tables EXCEPT ![t] = y]
<1>1. x \in TableOf(t)  BY PartsOf DEF Exists
<1>2. y = [x EXCEPT !.rows = f]
  <2>1. x = [cols |-> x.cols, rows |-> x.rows, idx |-> x.idx, ref |-> x.ref]  BY <1>1, OneTable
  <2> HIDE DEF x
  <2> QED  BY <2>1
<1>3. y \in TableOf(t)
  <2>1. x.cols \in {Fields[t], OldCols[t]} /\ x.idx \in BOOLEAN /\ x.ref \in Names  BY <1>1, OneTable
  <2> QED  BY <2>1, MakeTable
<1>4. y # None  BY <1>3, NoneAssumption
<1>5. c = [tables |-> T, fts |-> b.fts, trig |-> b.trig, missed |-> b.missed]
  <2>1. c = [b EXCEPT !.tables = [@ EXCEPT ![t] = y]]
    <3> HIDE DEF y
    <3> QED  BY <1>2, PartsOf, NamesApart
  <2>2. b = [tables |-> b.tables, fts |-> b.fts, trig |-> b.trig, missed |-> b.missed]  BY PartsOf
  <2>3. c = [b EXCEPT !.tables = T]  BY <2>1
  <2> HIDE DEF T
  <2> QED  BY <2>2, <2>3
<1> HIDE DEF T
<1>6. /\ T \in [Names -> {None} \cup TableOf("users") \cup TableOf("posts")]
      /\ \A u \in Tables : T[u] \in {None} \cup TableOf(u) /\ T[Old[u]] = None
      /\ T[t] = y /\ \A n \in Names \ {t} : T[n] = b.tables[n]
  <2> HIDE DEF y
  <2> QED  BY <1>3, PartsOf, NamesApart DEF Tables, T
<1>7. c \in Databases
  <2>1. [tables |-> T, fts |-> b.fts, trig |-> b.trig, missed |-> b.missed] \in Databases
    BY <1>6, PartsOf, Parts
  <2> QED  BY <1>5, <2>1
<1>8. c.tables = T /\ c.fts = b.fts /\ c.trig = b.trig /\ c.missed = b.missed  BY <1>5
<1>9. c.tables[t].cols = x.cols /\ c.tables[t].rows = f /\ c.tables[t].idx = x.idx /\ c.tables[t].ref = x.ref
  <2>1. c.tables[t] = y  BY <1>6, <1>8
  <2> QED  BY <2>1
<1>10. Exists(c, t) /\ Rows(c, t) = f  BY <1>4, <1>6, <1>8, <1>9 DEF Exists, Rows
<1>11. \A u \in Tables \ {t} : c.tables[u] = b.tables[u]  BY <1>6, <1>8, NamesApart
<1>12. SameShape(b, c)  BY <1>9, <1>10, <1>11 DEF SameShape, Exists
<1>13. t # "users" => Words(c) = Words(b)
  <2>1. t # "users" => c.tables["users"] = b.tables["users"]  BY <1>11 DEF Tables
  <2> QED  BY <2>1, SameUsers
<1> QED  BY <1>7, <1>8, <1>10, <1>12, <1>13 DEF Touched

LEMMA RowsChanged ==
    ASSUME NEW b \in Databases, NEW t \in Tables, Exists(b, t),
           NEW K \in SUBSET Pks, NEW f \in [K -> [b.tables[t].cols -> Vals]]
    PROVE  Touched(b, t, f, [b EXCEPT !.tables[t].rows = f])
<1>1. PICK c : c = [b EXCEPT !.tables[t].rows = f]  OBVIOUS
<1>2. Touched(b, t, f, c)  BY <1>1, TouchedIs
<1> QED  BY <1>1, <1>2

\* A write to users, and what its trigger makes of the index.
LEMMA FiredKeeps ==
    ASSUME NEW e \in Databases, NEW x \in Triggers,
           NEW gone \in SUBSET (Pks \X Vals), NEW new \in SUBSET (Pks \X Vals),
           CanFire(e, x, gone),
           e.fts # None /\ ~e.missed => (e.fts \ gone) \cup new = Words(e),
           NEW c, c = Fired(e, x, gone, new)
    PROVE  /\ c \in Databases /\ Agrees(c) /\ c.tables = e.tables /\ c.trig = e.trig
           /\ c.fts # None <=> e.fts # None
<1>1. e = [tables |-> e.tables, fts |-> e.fts, trig |-> e.trig, missed |-> e.missed]  BY PartsOf
<1>2. CASE ~Armed(e, x)
  <2> DEFINE M == e.missed \/ e.fts # None
  <2>1. c = [e EXCEPT !.missed = M]  BY <1>2 DEF Fired
  <2>2. M \in BOOLEAN  OBVIOUS
  <2>3. M \/ e.fts = None  OBVIOUS
  <2> HIDE DEF M
  <2>4. c = [tables |-> e.tables, fts |-> e.fts, trig |-> e.trig, missed |-> M]  BY <1>1, <2>1
  <2>5. c \in Databases  BY <2>2, <2>4, PartsOf, IndexParts
  <2>6. c.missed = M /\ c.fts = e.fts /\ c.trig = e.trig /\ c.tables = e.tables  BY <2>4
  <2> QED  BY <2>3, <2>5, <2>6 DEF Agrees
<1>3. CASE Armed(e, x)
  <2> DEFINE F == (e.fts \ gone) \cup new
  <2>1. c = [e EXCEPT !.fts = F]  BY <1>3 DEF Fired
  <2>2. e.fts # None  BY <1>3 DEF CanFire
  <2>3. F \in SUBSET (Pks \X Vals)  BY <2>2, PartsOf
  <2>4. F # None  BY <2>3, NoneAssumption
  <2>5. ~e.missed => F = Words(e)  BY <2>2
  <2> HIDE DEF F
  <2>6. c = [tables |-> e.tables, fts |-> F, trig |-> e.trig, missed |-> e.missed]  BY <1>1, <2>1
  <2>7. c \in Databases /\ Words(c) = Words(e)  BY <2>3, <2>6, PartsOf, IndexParts
  <2>8. c.missed = e.missed /\ c.fts = F /\ c.trig = e.trig /\ c.tables = e.tables  BY <2>6
  <2> QED  BY <2>2, <2>4, <2>5, <2>7, <2>8 DEF Agrees
<1> QED  BY <1>2, <1>3

\* What a write may do, for the jobs that are running.
Mild(b, c) ==
    /\ c \in Databases /\ Agrees(c) /\ SameShape(b, c) /\ c.trig = b.trig
    /\ c.fts # None <=> b.fts # None

LEMMA FiredOnRows ==
    ASSUME NEW b \in Databases, Agrees(b), NEW e \in Databases, SameShape(b, e),
           e.fts = b.fts, e.trig = b.trig, e.missed = b.missed, NEW x \in Triggers,
           NEW gone \in SUBSET (Pks \X Vals), NEW new \in SUBSET (Pks \X Vals), CanFire(b, x, gone),
           Words(e) = (Words(b) \ gone) \cup new
    PROVE  Mild(b, Fired(e, x, gone, new))
<1>1. CanFire(e, x, gone)  BY DEF CanFire, Armed
<1>2. e.fts # None /\ ~e.missed => (e.fts \ gone) \cup new = Words(e)  BY DEF Agrees
<1>3. PICK c : c = Fired(e, x, gone, new)  OBVIOUS
<1>4. /\ c \in Databases /\ Agrees(c) /\ c.tables = e.tables /\ c.trig = e.trig
      /\ c.fts # None <=> e.fts # None
  BY <1>1, <1>2, <1>3, FiredKeeps
<1> QED  BY <1>3, <1>4 DEF Mild, SameShape, Exists

LEMMA UsersWritten ==
    ASSUME NEW b \in Databases, Agrees(b), NEW t \in Tables, t = "users", Exists(b, t),
           NEW K \in SUBSET Pks, NEW f \in [K -> [b.tables[t].cols -> Vals]], NEW x \in Triggers,
           NEW gone \in SUBSET (Pks \X Vals), NEW new \in SUBSET (Pks \X Vals), CanFire(b, x, gone),
           {<<j, f[j]["name"]>> : j \in K} = (Words(b) \ gone) \cup new
    PROVE  Mild(b, Fired([b EXCEPT !.tables[t].rows = f], x, gone, new))
<1>1. PICK e : e = [b EXCEPT !.tables[t].rows = f]  OBVIOUS
<1>2. /\ e \in Databases /\ SameShape(b, e) /\ Rows(e, t) = f
      /\ e.fts = b.fts /\ e.trig = b.trig /\ e.missed = b.missed
  <2>1. Touched(b, t, f, [b EXCEPT !.tables[t].rows = f])  BY RowsChanged
  <2> QED  BY <1>1, <2>1 DEF Touched
<1>3. DOMAIN f = K  OBVIOUS
<1>4. Words(e) = (Words(b) \ gone) \cup new  BY <1>2, <1>3 DEF Words, Keys
<1>5. Mild(b, Fired(e, x, gone, new))  BY <1>2, <1>4, FiredOnRows
<1> QED  BY <1>1, <1>5

LEMMA InsertUserKeeps ==
    ASSUME NEW b \in Databases, Agrees(b), NEW k \in Pks, NEW v \in Vals,
           Exists(b, "users"), k \notin Keys(b, "users"), CanFire(b, "ai", {}),
           NEW row, row = [c \in b.tables["users"].cols |-> v]
    PROVE  Mild(b, Fired([b EXCEPT !.tables["users"].rows =
                            [j \in DOMAIN @ \cup {k} |-> IF j = k THEN row ELSE @[j]]], "ai", {}, {<<k, v>>}))
<1> DEFINE x == b.tables["users"]
           K == DOMAIN x.rows \cup {k}
           f == [j \in K |-> IF j = k THEN row ELSE x.rows[j]]
<1>1. x \in TableOf("users")  BY PartsOf DEF Exists, Tables
<1>2. /\ DOMAIN x.rows \in SUBSET Pks /\ x.rows \in [DOMAIN x.rows -> [x.cols -> Vals]] /\ "name" \in x.cols
  BY <1>1, OneTable DEF Tables
<1>3. K \in SUBSET Pks /\ f \in [K -> [x.cols -> Vals]]  BY <1>2
<1>4. Rows(b, "users") = x.rows /\ Keys(b, "users") = DOMAIN x.rows  BY DEF Rows, Keys
<1>5. k \notin DOMAIN x.rows /\ row["name"] = v /\ \A j \in DOMAIN x.rows : f[j] = x.rows[j]
  BY <1>2, <1>4
<1>6. f[k] = row  OBVIOUS
<1>7. K = DOMAIN x.rows \cup {k}  OBVIOUS
<1>8. Words(b) = {<<j, x.rows[j]["name"]>> : j \in DOMAIN x.rows}  BY <1>4 DEF Words
<1>9. [b EXCEPT !.tables["users"].rows = [j \in DOMAIN @ \cup {k} |-> IF j = k THEN row ELSE @[j]]]
      = [b EXCEPT !.tables["users"].rows = f]
  OBVIOUS
<1>10. {<<k, v>>} \in SUBSET (Pks \X Vals) /\ {} \in SUBSET (Pks \X Vals) /\ "ai" \in Triggers  BY DEF Triggers
<1> HIDE DEF K, f
<1>11. {<<j, f[j]["name"]>> : j \in K} = {<<j, f[j]["name"]>> : j \in DOMAIN x.rows} \cup {<<k, v>>}
  BY <1>5, <1>6, <1>7
<1>12. {<<j, f[j]["name"]>> : j \in DOMAIN x.rows} = Words(b)  BY <1>5, <1>8
<1>13. {<<j, f[j]["name"]>> : j \in K} = (Words(b) \ {}) \cup {<<k, v>>}  BY <1>11, <1>12
<1>14. Mild(b, Fired([b EXCEPT !.tables["users"].rows = f], "ai", {}, {<<k, v>>}))
  BY <1>3, <1>10, <1>13, UsersWritten DEF Tables
<1> QED  BY <1>9, <1>14

LEMMA UpdateUserKeeps ==
    ASSUME NEW b \in Databases, Agrees(b), NEW k \in Pks, NEW v \in Vals,
           Exists(b, "users"), k \in Keys(b, "users"),
           NEW old, old = Rows(b, "users")[k]["name"], CanFire(b, "au", {<<k, old>>})
    PROVE  Mild(b, Fired([b EXCEPT !.tables["users"].rows[k]["name"] = v], "au", {<<k, old>>}, {<<k, v>>}))
<1> DEFINE x == b.tables["users"]
           K == DOMAIN x.rows
           f == [x.rows EXCEPT ![k] = [x.rows[k] EXCEPT !["name"] = v]]
<1>1. x \in TableOf("users")  BY PartsOf DEF Exists, Tables
<1>2. K \in SUBSET Pks /\ x.rows \in [K -> [x.cols -> Vals]] /\ "name" \in x.cols
  BY <1>1, OneTable DEF Tables
<1>3. f \in [K -> [x.cols -> Vals]]  BY <1>2
<1>4. Rows(b, "users") = x.rows /\ Keys(b, "users") = K /\ k \in K /\ old = x.rows[k]["name"]  BY DEF Rows, Keys
<1>5. f[k]["name"] = v /\ \A j \in K \ {k} : f[j] = x.rows[j]  BY <1>2, <1>4
<1>6. Words(b) = {<<j, x.rows[j]["name"]>> : j \in K}  BY <1>4 DEF Words
<1>7. [b EXCEPT !.tables["users"].rows[k]["name"] = v] = [b EXCEPT !.tables["users"].rows = f]  OBVIOUS
<1>8. /\ {<<k, v>>} \in SUBSET (Pks \X Vals) /\ {<<k, old>>} \in SUBSET (Pks \X Vals) /\ "au" \in Triggers
  BY <1>2, <1>4 DEF Triggers
<1> HIDE DEF f
<1>9. {<<j, f[j]["name"]>> : j \in K} = (Words(b) \ {<<k, old>>}) \cup {<<k, v>>}
  <2>1. ASSUME NEW j \in K PROVE <<j, f[j]["name"]>> \in (Words(b) \ {<<k, old>>}) \cup {<<k, v>>}
    <3>1. CASE j = k  BY <3>1, <1>5
    <3>2. CASE j # k
      <4>1. <<j, f[j]["name"]>> = <<j, x.rows[j]["name"]>> /\ <<j, f[j]["name"]>> # <<k, old>>  BY <3>2, <1>5
      <4> QED  BY <4>1, <1>6
    <3> QED  BY <3>1, <3>2
  <2>2. ASSUME NEW w \in (Words(b) \ {<<k, old>>}) \cup {<<k, v>>} PROVE \E j \in K : w = <<j, f[j]["name"]>>
    <3>1. CASE w = <<k, v>>  BY <3>1, <1>4, <1>5
    <3>2. CASE w # <<k, v>>
      <4>1. PICK j \in K : w = <<j, x.rows[j]["name"]>>  BY <2>2, <3>2, <1>6
      <4>2. j # k  BY <4>1, <2>2, <3>2, <1>4
      <4> QED  BY <4>1, <4>2, <1>5
    <3> QED  BY <3>1, <3>2
  <2> QED  BY <2>1, <2>2
<1>10. Mild(b, Fired([b EXCEPT !.tables["users"].rows = f], "au", {<<k, old>>}, {<<k, v>>}))
  BY <1>2, <1>3, <1>8, <1>9, UsersWritten DEF Tables
<1> QED  BY <1>7, <1>10

LEMMA DeleteUserKeeps ==
    ASSUME NEW b \in Databases, Agrees(b), NEW k \in Pks, NEW on,
           Exists(b, "users"), k \in Keys(b, "users"),
           NEW old, old = Rows(b, "users")[k]["name"], CanFire(b, "ad", {<<k, old>>})
    PROVE  Mild(b, Fired([CutOff(on, b, "users", {k}) EXCEPT !.tables["users"].rows = Without(@, {k})],
                         "ad", {<<k, old>>}, {}))
<1>1. PICK d : d = CutOff(on, b, "users", {k})  OBVIOUS
<1>2. /\ d \in Databases /\ d.fts = b.fts /\ d.trig = b.trig /\ d.missed = b.missed
      /\ d.tables["users"] = b.tables["users"] /\ SameShape(b, d)
  <2>1. /\ d \in Databases /\ d.fts = b.fts /\ d.trig = b.trig /\ d.missed = b.missed
        /\ d.tables["users"] = b.tables["users"]
        /\ (d.tables["posts"] = None) <=> (b.tables["posts"] = None)
        /\ b.tables["posts"] # None =>
            /\ d.tables["posts"].cols = b.tables["posts"].cols
            /\ d.tables["posts"].idx = b.tables["posts"].idx
            /\ d.tables["posts"].ref = b.tables["posts"].ref
    BY <1>1, CutOffKeeps
  <2> QED  BY <2>1 DEF SameShape, Exists, Tables
<1>3. Words(d) = Words(b) /\ Agrees(d) /\ CanFire(d, "ad", {<<k, old>>}) /\ Exists(d, "users")
  BY <1>2, SameUsers DEF Agrees, CanFire, Armed, Exists
<1> DEFINE x == d.tables["users"]
           K == DOMAIN x.rows \ {k}
           f == Without(x.rows, {k})
<1>4. x \in TableOf("users")  BY <1>2, <1>3, PartsOf DEF Exists, Tables
<1>5. /\ DOMAIN x.rows \in SUBSET Pks /\ x.rows \in [DOMAIN x.rows -> [x.cols -> Vals]] /\ "name" \in x.cols
  BY <1>4, OneTable DEF Tables
<1>6. K \in SUBSET Pks /\ f \in [K -> [x.cols -> Vals]] /\ \A j \in K : f[j] = x.rows[j]  BY <1>5 DEF Without
<1>7. k \in DOMAIN x.rows /\ old = x.rows[k]["name"]  BY <1>2, <1>3 DEF Rows, Keys
<1>8. Words(d) = {<<j, x.rows[j]["name"]>> : j \in DOMAIN x.rows}  BY <1>3 DEF Words, Rows, Keys
<1>9. {<<k, old>>} \in SUBSET (Pks \X Vals) /\ {} \in SUBSET (Pks \X Vals) /\ "ad" \in Triggers
  BY <1>5, <1>7 DEF Triggers
<1>10. [d EXCEPT !.tables["users"].rows = Without(@, {k})] = [d EXCEPT !.tables["users"].rows = f]  OBVIOUS
<1>11. K = DOMAIN x.rows \ {k}  OBVIOUS
<1> HIDE DEF f, K
<1>12. {<<j, f[j]["name"]>> : j \in K} = (Words(d) \ {<<k, old>>}) \cup {}
  BY <1>6, <1>7, <1>8, <1>11
<1>13. Mild(d, Fired([d EXCEPT !.tables["users"].rows = f], "ad", {<<k, old>>}, {}))
  BY <1>2, <1>3, <1>6, <1>9, <1>12, UsersWritten DEF Tables
<1>14. PICK c : c = Fired([d EXCEPT !.tables["users"].rows = f], "ad", {<<k, old>>}, {})  OBVIOUS
<1>15. Mild(b, c)  BY <1>2, <1>13, <1>14 DEF Mild, SameShape
<1> QED  BY <1>1, <1>10, <1>14, <1>15

LEMMA PostsWritten ==
    ASSUME NEW b \in Databases, Agrees(b), NEW t \in Tables, t # "users", Exists(b, t),
           NEW K \in SUBSET Pks, NEW f \in [K -> [b.tables[t].cols -> Vals]]
    PROVE  Mild(b, [b EXCEPT !.tables[t].rows = f])
<1>1. PICK e : e = [b EXCEPT !.tables[t].rows = f]  OBVIOUS
<1>2. /\ e \in Databases /\ SameShape(b, e) /\ Words(e) = Words(b)
      /\ e.fts = b.fts /\ e.trig = b.trig /\ e.missed = b.missed
  <2>1. Touched(b, t, f, [b EXCEPT !.tables[t].rows = f])  BY RowsChanged
  <2> QED  BY <1>1, <2>1 DEF Touched
<1>3. Mild(b, e)  BY <1>2 DEF Mild, Agrees
<1> QED  BY <1>1, <1>3

LEMMA InsertPostKeeps ==
    ASSUME NEW b \in Databases, Agrees(b), NEW k \in Pks, Exists(b, "posts"), k \notin Keys(b, "posts"),
           NEW row, row = [c \in Fields["posts"] |-> 1]
    PROVE  Mild(b, [b EXCEPT !.tables["posts"].rows =
                        [j \in DOMAIN @ \cup {k} |-> IF j = k THEN row ELSE @[j]]])
<1> DEFINE x == b.tables["posts"]
           K == DOMAIN x.rows \cup {k}
           f == [j \in K |-> IF j = k THEN row ELSE x.rows[j]]
<1>1. x \in TableOf("posts")  BY PartsOf DEF Exists, Tables
<1>2. /\ DOMAIN x.rows \in SUBSET Pks /\ x.rows \in [DOMAIN x.rows -> [x.cols -> Vals]]
      /\ x.cols = Fields["posts"]
  BY <1>1, OneTable DEF Tables, Fields, OldCols
<1>3. row \in [x.cols -> Vals]  BY <1>2 DEF Vals
<1>4. K \in SUBSET Pks /\ f \in [K -> [x.cols -> Vals]]  BY <1>2, <1>3
<1>5. [b EXCEPT !.tables["posts"].rows = [j \in DOMAIN @ \cup {k} |-> IF j = k THEN row ELSE @[j]]]
      = [b EXCEPT !.tables["posts"].rows = f]
  OBVIOUS
<1> HIDE DEF f, K
<1>6. Mild(b, [b EXCEPT !.tables["posts"].rows = f])  BY <1>4, PostsWritten DEF Tables
<1> QED  BY <1>5, <1>6

-----------------------------------------------------------------------------
(***************************************************************************)
(* A migration.                                                            *)
(***************************************************************************)
\* Posts with a reference to t, once t has its other name.
Moved(x, t) ==
    IF x # None /\ x.ref = t THEN [cols |-> x.cols, rows |-> x.rows, idx |-> x.idx, ref |-> Old[t]] ELSE x

\* The tables, and the triggers, once t has its other name.
Aside(b, t) ==
    [n \in Names |-> CASE n = t -> None [] n = Old[t] -> b.tables[t]
                       [] n = "posts" /\ t # "posts" -> Moved(b.tables[n], t) [] OTHER -> b.tables[n]]
AsideTriggers(b, t) == [x \in Triggers |-> IF b.trig[x] = t THEN Old[t] ELSE b.trig[x]]

LEMMA RenameIs ==
    ASSUME NEW b \in Databases, NEW t \in Tables
    PROVE  Rename(b, t) = [tables |-> Aside(b, t), fts |-> b.fts, trig |-> AsideTriggers(b, t),
                           missed |-> b.missed]
<1> DEFINE T == [[b.tables EXCEPT ![Old[t]] = b.tables[t]] EXCEPT ![t] = None]
           G == AsideTriggers(b, t)
           m == [b EXCEPT !.tables = T, !.trig = G]
<1>1. b = [tables |-> b.tables, fts |-> b.fts, trig |-> b.trig, missed |-> b.missed]
      /\ b.tables \in [Names -> {None} \cup TableOf("users") \cup TableOf("posts")]
  BY PartsOf
<1>2. Rename(b, t) = IF Exists(m, "posts") /\ m.tables["posts"].ref = t
                     THEN [m EXCEPT !.tables["posts"].ref = Old[t]] ELSE m
  BY ZenonT(30) DEF Rename, AsideTriggers
<1>3. T = [n \in Names |-> IF n = t THEN None ELSE IF n = Old[t] THEN b.tables[t] ELSE b.tables[n]]
  BY <1>1, NamesApart
<1> HIDE DEF T, G
<1>4. m = [tables |-> T, fts |-> b.fts, trig |-> G, missed |-> b.missed]
  <2>1. b = [tables |-> b.tables, fts |-> b.fts, trig |-> b.trig, missed |-> b.missed]  BY <1>1
  <2>2. PICK c : c = [b EXCEPT !.tables = T, !.trig = G]  OBVIOUS
  <2>3. c = [tables |-> T, fts |-> b.fts, trig |-> G, missed |-> b.missed]  BY <2>1, <2>2
  <2> QED  BY <2>2, <2>3
<1> HIDE DEF m
<1> DEFINE x == b.tables["posts"]
<1>5. CASE t # "posts" /\ x # None /\ x.ref = t
  <2> DEFINE y == [cols |-> x.cols, rows |-> x.rows, idx |-> x.idx, ref |-> Old[t]]
  <2>1. x \in TableOf("posts")  BY <1>5, PartsOf DEF Tables
  <2>2. x = [cols |-> x.cols, rows |-> x.rows, idx |-> x.idx, ref |-> x.ref]  BY <2>1, OneTable DEF Tables
  <2>3. y = [x EXCEPT !.ref = Old[t]]
    <3> HIDE DEF x
    <3> QED  BY <2>2
  <2>4. T["posts"] = x  BY <1>3, <1>5, NamesApart DEF Tables
  <2>5. Rename(b, t) = [m EXCEPT !.tables["posts"].ref = Old[t]]  BY <1>2, <1>4, <1>5, <2>4 DEF Exists
  <2>6. Rename(b, t) = [m EXCEPT !.tables = [T EXCEPT !["posts"] = y]]  BY <1>4, <2>3, <2>4, <2>5
  <2>7. [T EXCEPT !["posts"] = y] = Aside(b, t)
    <3>1. Moved(x, t) = y  BY <1>5 DEF Moved
    <3> HIDE DEF y, x
    <3> QED  BY <1>3, <1>5, <3>1, NamesApart DEF Aside, x
  <2> QED  BY <1>4, <2>6, <2>7 DEF G
<1>6. CASE ~(t # "posts" /\ x # None /\ x.ref = t)
  <2>1. ~(Exists(m, "posts") /\ m.tables["posts"].ref = t)
    BY <1>3, <1>4, <1>6, NamesApart DEF Exists, Tables
  <2>2. T = Aside(b, t)  BY <1>3, <1>6, NamesApart DEF Aside, Moved, Tables
  <2> QED  BY <1>2, <1>4, <2>1, <2>2 DEF G
<1> QED  BY <1>5, <1>6

\* The table that takes the place of t.
NewRows(b, t, l) ==
    IF l.seen = {} THEN [k \in Numbered(Keys(b, t)) |-> [f \in Fields[t] |-> Default]]
    ELSE [k \in Keys(b, t) |->
            [f \in Fields[t] |-> IF l.plan[f] = None THEN Default ELSE Rows(b, t)[k][l.plan[f]]]]
New(b, t, l, i) == [cols |-> Fields[t], rows |-> NewRows(b, t, l), idx |-> i, ref |-> "users"]

Final(b, t, l) == New(b, t, l, TRUE)

\* There are as many keys as there are rows.
LEMMA NumberedIs ==
    ASSUME NEW ks \in SUBSET Pks
    PROVE  Numbered(ks) \in SUBSET Pks /\ (ks = {} => Numbered(ks) = {})
<1> DEFINE f == [k \in ks |-> k]
<1>1. f \in Bijection(ks, ks)  BY DEF Bijection, Injection, Surjection, IsInjective
<1>2. ExistsBijection(ks, ks)  BY <1>1 DEF ExistsBijection
<1>3. Numbered(ks) \in SUBSET Pks /\ ExistsBijection(Numbered(ks), ks)  BY <1>2 DEF Numbered
<1>4. PICK g : g \in Bijection(Numbered(ks), ks)  BY <1>3 DEF ExistsBijection
<1>5. g \in [Numbered(ks) -> ks]  BY <1>4 DEF Bijection, Injection
<1> QED  BY <1>3, <1>5

LEMMA NewIsTable ==
    ASSUME NEW b \in Databases, NEW t \in Tables, Exists(b, t), NEW l, Fits(b, t, l), NEW i \in BOOLEAN
    PROVE  New(b, t, l, i) \in TableOf(t) /\ New(b, t, l, i) # None
<1> DEFINE x == b.tables[t]
<1>1. x \in TableOf(t)  BY PartsOf DEF Exists
<1>2. DOMAIN x.rows \in SUBSET Pks /\ x.rows \in [DOMAIN x.rows -> [x.cols -> Vals]]  BY <1>1, OneTable
<1>3. Rows(b, t) = x.rows /\ Keys(b, t) = DOMAIN x.rows  BY DEF Rows, Keys
<1>4. ASSUME NEW k \in Keys(b, t), NEW f \in Fields[t]
      PROVE  (IF l.plan[f] = None THEN Default ELSE Rows(b, t)[k][l.plan[f]]) \in Vals
  <2>1. CASE l.plan[f] = None  BY <2>1 DEF Default, Vals
  <2>2. CASE l.plan[f] # None
    <3>1. l.plan[f] \in x.cols  BY <2>2 DEF Fits
    <3> QED  BY <2>2, <3>1, <1>2, <1>3
  <2> QED  BY <2>1, <2>2
<1>5. Keys(b, t) \in SUBSET Pks /\ Numbered(Keys(b, t)) \in SUBSET Pks /\ "users" \in Names
  BY <1>2, <1>3, NumberedIs, NamesApart
<1>6. PICK K \in SUBSET Pks : NewRows(b, t, l) \in [K -> [Fields[t] -> Vals]]
  <2>1. CASE l.seen = {}
    <3>1. NewRows(b, t, l) \in [Numbered(Keys(b, t)) -> [Fields[t] -> Vals]]
      BY <2>1 DEF NewRows, Default, Vals
    <3> QED  BY <1>5, <3>1
  <2>2. CASE l.seen # {}
    <3>1. NewRows(b, t, l) \in [Keys(b, t) -> [Fields[t] -> Vals]]  BY <1>4, <2>2 DEF NewRows
    <3> QED  BY <1>5, <3>1
  <2> QED  BY <2>1, <2>2
<1>7. New(b, t, l, i) \in TableOf(t)  BY <1>5, <1>6, MakeTable DEF New
<1> QED  BY <1>7, NoneAssumption

LEMMA FreshIs ==
    ASSUME NEW b \in Databases, NEW t \in Tables
    PROVE  Fresh(b, t) = [tables |-> [Aside(b, t) EXCEPT ![t] = Table(Fields[t])], fts |-> b.fts,
                          trig |-> AsideTriggers(b, t), missed |-> b.missed]
<1>1. PICK r : r = Rename(b, t)  OBVIOUS
<1> DEFINE x == Table(Fields[t])
<1>2. PICK c : c = [r EXCEPT !.tables[t] = x]  OBVIOUS
<1>3. r = [tables |-> Aside(b, t), fts |-> b.fts, trig |-> AsideTriggers(b, t), missed |-> b.missed]
  BY <1>1, RenameIs
<1> HIDE DEF x
<1>4. c = [tables |-> [Aside(b, t) EXCEPT ![t] = x], fts |-> b.fts, trig |-> AsideTriggers(b, t),
           missed |-> b.missed]
  BY <1>2, <1>3
<1> QED  BY <1>1, <1>2, <1>4 DEF Fresh, x

LEMMA FilledIs ==
    ASSUME NEW b \in Databases, NEW t \in Tables, Exists(b, t), NEW l
    PROVE  /\ Filled(b, t, l) = [tables |-> [Aside(b, t) EXCEPT ![t] = New(b, t, l, FALSE)], fts |-> b.fts,
                                 trig |-> AsideTriggers(b, t), missed |-> b.missed \/ Lost(b, t, l)]
           /\ Fresh(b, t).tables[Old[t]] = b.tables[t]
<1> DEFINE A == [Aside(b, t) EXCEPT ![t] = Table(Fields[t])]
<1>1. PICK r : r = Fresh(b, t)  OBVIOUS
<1>2. r = [tables |-> A, fts |-> b.fts, trig |-> AsideTriggers(b, t), missed |-> b.missed]
  BY <1>1, FreshIs
<1>3. A[t] = [cols |-> Fields[t], rows |-> <<>>, idx |-> FALSE, ref |-> "users"]
  BY NamesApart DEF Aside, Table
<1>4. A[Old[t]] = b.tables[t]  BY NamesApart DEF Aside, Tables
<1>5. Copied(r, t, l) = NewRows(b, t, l)
  <2>1. r.tables[Old[t]] = b.tables[t]  BY <1>2, <1>4
  <2>2. Rows(r, Old[t]) = Rows(b, t) /\ Keys(r, Old[t]) = Keys(b, t)  BY <2>1 DEF Rows, Keys, Exists
  <2>3. CASE l.seen = {}  BY <2>2, <2>3 DEF Copied, NewRows
  <2>4. CASE l.seen # {}  BY <2>2, <2>4 DEF Copied, NewRows
  <2> QED  BY <2>3, <2>4
<1>14. (r.missed \/ (t = "users" /\ l.seen = {} /\ r.fts # None /\ Keys(r, Old[t]) # {}))
       = (b.missed \/ Lost(b, t, l))
  <2>1. r.missed = b.missed /\ r.fts = b.fts /\ r.tables[Old[t]] = b.tables[t]  BY <1>2, <1>4
  <2>2. Keys(r, Old[t]) = Keys(b, t)  BY <2>1 DEF Keys, Rows, Exists
  <2> QED  BY <2>1, <2>2 DEF Lost
<1>15. PICK m : m = (b.missed \/ Lost(b, t, l))  OBVIOUS
<1> DEFINE f == NewRows(b, t, l)
           B == [A EXCEPT ![t] = New(b, t, l, FALSE)]
<1>6. PICK c : c = [r EXCEPT !.tables[t].rows = f, !.missed = m]  OBVIOUS
<1>7. [A EXCEPT ![t].rows = f] = B
  <2>1. PICK y : y = [cols |-> Fields[t], rows |-> <<>>, idx |-> FALSE, ref |-> "users"]  OBVIOUS
  <2>2. [y EXCEPT !.rows = f] = New(b, t, l, FALSE)
    <3> DEFINE i == FALSE
    <3>1. y = [cols |-> Fields[t], rows |-> <<>>, idx |-> i, ref |-> "users"]  BY <2>1
    <3>2. New(b, t, l, i) = [cols |-> Fields[t], rows |-> f, idx |-> i, ref |-> "users"]  BY DEF New
    <3> HIDE DEF i, f
    <3>3. [y EXCEPT !.rows = f] = New(b, t, l, i)  BY <3>1, <3>2
    <3> QED  BY <3>3 DEF i
  <2>3. A[t] = y  BY <1>3, <2>1
  <2> HIDE DEF A
  <2> QED  BY <2>2, <2>3
<1>8. [A EXCEPT ![t] = New(b, t, l, FALSE)] = [Aside(b, t) EXCEPT ![t] = New(b, t, l, FALSE)]
  <2>1. Aside(b, t) = [n \in Names |-> Aside(b, t)[n]]  BY DEF Aside
  <2> QED  BY <2>1
<1> HIDE DEF A, f
<1>9. c = [r EXCEPT !.tables = [A EXCEPT ![t].rows = f], !.missed = m]  BY <1>2, <1>6
<1> HIDE DEF B
<1>10. c = [tables |-> B, fts |-> b.fts, trig |-> AsideTriggers(b, t), missed |-> m]
  BY <1>2, <1>7, <1>9
<1>11. c = Filled(b, t, l)  BY <1>1, <1>5, <1>6, <1>14, <1>15 DEF Filled, CopyRows, f
<1>12. r.tables[Old[t]] = b.tables[t]  BY <1>2, <1>4
<1>13. B = [Aside(b, t) EXCEPT ![t] = New(b, t, l, FALSE)]  BY <1>8 DEF B
<1> QED  BY <1>1, <1>10, <1>11, <1>12, <1>13, <1>15

\* x is the table y, or has fewer rows.
Thinned(x, y) ==
    /\ x \in {None} \cup TableOf("posts") /\ (x = None <=> y = None)
    /\ y # None => x.cols = y.cols /\ x.idx = y.idx /\ x.ref = y.ref

\* What is left of posts.
Posts(on, T, n, ks) ==
    IF on /\ T["posts"] # None /\ T["posts"].ref = n THEN [T["posts"] EXCEPT !.rows = Without(@, ks)]
    ELSE T["posts"]

\* A cascade, whatever tables there are.
LEMMA CutOffIs ==
    ASSUME NEW T, T = [n \in Names |-> T[n]], T["posts"] \in {None} \cup TableOf("posts"),
           NEW F, NEW G, NEW M, NEW d, d = [tables |-> T, fts |-> F, trig |-> G, missed |-> M],
           NEW on, NEW n, NEW ks
    PROVE  /\ CutOff(on, d, n, ks) = [tables |-> [T EXCEPT !["posts"] = Posts(on, T, n, ks)],
                                       fts |-> F, trig |-> G, missed |-> M]
           /\ Thinned(Posts(on, T, n, ks), T["posts"])
<1> DEFINE x == T["posts"]
<1>1. CASE ~(on /\ Exists(d, "posts") /\ d.tables["posts"].ref = n)
  <2>1. CutOff(on, d, n, ks) = d  BY <1>1 DEF CutOff
  <2>2. [T EXCEPT !["posts"] = x] = T  OBVIOUS
  <2>3. Posts(on, T, n, ks) = x  BY <1>1 DEF Posts, Exists
  <2> QED  BY <2>1, <2>2, <2>3 DEF Thinned
<1>2. CASE on /\ Exists(d, "posts") /\ d.tables["posts"].ref = n
  <2> DEFINE y == [cols |-> x.cols, rows |-> Without(x.rows, ks), idx |-> x.idx, ref |-> x.ref]
  <2>1. x \in TableOf("posts") /\ x # None /\ x.ref = n  BY <1>2 DEF Exists
  <2>2. /\ x.rows \in [DOMAIN x.rows -> [x.cols -> Vals]] /\ DOMAIN x.rows \in SUBSET Pks
        /\ x.cols \in {Fields["posts"], OldCols["posts"]} /\ x.idx \in BOOLEAN /\ x.ref \in Names
        /\ x = [cols |-> x.cols, rows |-> x.rows, idx |-> x.idx, ref |-> x.ref]
    BY <2>1, OneTable DEF Tables
  <2>3. Without(x.rows, ks) \in [DOMAIN x.rows \ ks -> [x.cols -> Vals]] /\ DOMAIN x.rows \ ks \in SUBSET Pks
    BY <2>2 DEF Without
  <2>4. y = [x EXCEPT !.rows = Without(@, ks)]
    <3>1. x = [cols |-> x.cols, rows |-> x.rows, idx |-> x.idx, ref |-> x.ref]  BY <2>2
    <3>2. PICK f : f = Without(x.rows, ks)  OBVIOUS
    <3> HIDE DEF x
    <3>3. [x EXCEPT !.rows = f] = [cols |-> x.cols, rows |-> f, idx |-> x.idx, ref |-> x.ref]  BY <3>1
    <3> QED  BY <3>2, <3>3
  <2>5. y \in TableOf("posts")
    <3> HIDE DEF x
    <3> QED  BY <2>2, <2>3, MakeTable DEF Tables
  <2>6. y # None  BY <2>5, NoneAssumption DEF Tables
  <2>7. Thinned(y, x)  BY <2>5, <2>6, <2>1 DEF Thinned
  <2>8. CutOff(on, d, n, ks) = [d EXCEPT !.tables["posts"].rows = Without(@, ks)]  BY <1>2 DEF CutOff
  <2>9. PICK c : c = [d EXCEPT !.tables["posts"].rows = Without(@, ks)]  OBVIOUS
  <2>10. d.tables["posts"] = x  OBVIOUS
  <2>11. c = [d EXCEPT !.tables = [T EXCEPT !["posts"] = y]]  BY <2>4, <2>9, <2>10
  <2> HIDE DEF y
  <2>12. c = [tables |-> [T EXCEPT !["posts"] = y], fts |-> F, trig |-> G, missed |-> M]  BY <2>11
  <2>13. Posts(on, T, n, ks) = y  BY <1>2, <2>1, <2>4 DEF Posts
  <2> QED  BY <2>7, <2>8, <2>9, <2>12, <2>13
<1> QED  BY <1>1, <1>2

\* What others see when the block of a migration is committed.
LEMMA RebuiltKeeps ==
    ASSUME NEW b \in Databases, NEW t \in Tables, Exists(b, t), NEW l, Fits(b, t, l), NEW on \in BOOLEAN,
           NEW c, c = Rebuilt(on, b, t, l), NEW u \in Tables, u # t
    PROVE  /\ c \in Databases /\ c.fts = b.fts /\ c.missed = (b.missed \/ Lost(b, t, l))
           /\ \A x \in Triggers : c.trig[x] \in {None, b.trig[x]}
           /\ c.tables[t] = Final(b, t, l)
           /\ c.tables["users"] # None <=> b.tables["users"] # None
           /\ t = "posts" => c.tables["users"] = b.tables["users"]
           /\ Rows(c, u) # Rows(b, u) => on /\ t = "users"
           /\ ~IndexTaken(Swapped(on, b, t, l), t) /\ Exists(Swapped(on, b, t, l), t)
<1> DEFINE A == [Aside(b, t) EXCEPT ![t] = New(b, t, l, FALSE)]
           G == [x \in Triggers |-> IF AsideTriggers(b, t)[x] = Old[t] THEN None ELSE AsideTriggers(b, t)[x]]
           p == Moved(b.tables["posts"], t)
<1>1. PICK d : d = Filled(b, t, l)  OBVIOUS
<1>27. PICK m \in BOOLEAN : m = (b.missed \/ Lost(b, t, l))
  <2>1. b.missed \in BOOLEAN  BY PartsOf
  <2> QED  BY <2>1 DEF Lost
<1>2. d = [tables |-> A, fts |-> b.fts, trig |-> AsideTriggers(b, t), missed |-> m]
  BY <1>1, <1>27, FilledIs
<1>3. /\ A = [n \in Names |-> A[n]] /\ A[t] = New(b, t, l, FALSE) /\ A[Old[t]] = b.tables[t]
      /\ A[Old[u]] = None /\ A[u] = IF u = "posts" THEN p ELSE b.tables[u]
  BY PartsOf, NamesApart DEF Aside, Tables
<1>4. /\ p \in {None} \cup TableOf("posts") /\ (p = None <=> b.tables["posts"] = None)
      /\ b.tables["posts"] # None => p.rows = b.tables["posts"].rows
  <2> DEFINE x == b.tables["posts"]
  <2>1. CASE p = x  BY <2>1, PartsOf DEF Tables
  <2>2. CASE p # x
    <3>1. x # None /\ p = [cols |-> x.cols, rows |-> x.rows, idx |-> x.idx, ref |-> Old[t]]  BY <2>2 DEF Moved
    <3>2. x \in TableOf("posts")  BY <3>1, PartsOf DEF Tables
    <3>3. /\ x.rows \in [DOMAIN x.rows -> [x.cols -> Vals]] /\ DOMAIN x.rows \in SUBSET Pks
          /\ x.cols \in {Fields["posts"], OldCols["posts"]} /\ x.idx \in BOOLEAN
      BY <3>2, OneTable DEF Tables
    <3>4. p \in TableOf("posts")
      <4> HIDE DEF x, p
      <4> QED  BY <3>1, <3>3, MakeTable, NamesApart DEF Tables
    <3>5. p # None  BY <3>4, NoneAssumption DEF Tables
    <3> QED  BY <3>1, <3>4, <3>5
  <2> QED  BY <2>1, <2>2
<1>5. New(b, t, l, FALSE) \in TableOf(t) /\ New(b, t, l, FALSE) # None
      /\ New(b, t, l, TRUE) \in TableOf(t) /\ New(b, t, l, TRUE) # None
  BY NewIsTable
<1>6. A["posts"] \in {None} \cup TableOf("posts")
  <2>1. CASE t = "posts"  BY <2>1, <1>3, <1>5
  <2>2. CASE t # "posts"
    <3>1. u = "posts"  BY <2>2 DEF Tables
    <3>2. A["posts"] = p  BY <3>1, <1>3
    <3> HIDE DEF A, p
    <3> QED  BY <3>2, <1>4
  <2> QED  BY <2>1, <2>2
<1> DEFINE ks == Keys(d, Old[t])
           y == Posts(on, A, Old[t], ks)
<1>7. /\ CutOff(on, d, Old[t], ks) = [tables |-> [A EXCEPT !["posts"] = y], fts |-> b.fts,
                                      trig |-> AsideTriggers(b, t), missed |-> m]
      /\ Thinned(y, A["posts"])
  <2>1. A = [n \in Names |-> A[n]]  BY <1>3
  <2> HIDE DEF A, ks
  <2> QED  BY <1>2, <2>1, <1>6, CutOffIs
<1>26. y # A["posts"] => on /\ A["posts"].ref = Old[t]  BY DEF Posts
<1> HIDE DEF y, ks
<1>8. t = "posts" => y = New(b, t, l, FALSE)
  <2>1. t = "posts" => A["posts"].ref = "users"  BY <1>3 DEF New
  <2> HIDE DEF A
  <2> QED  BY <2>1, <1>3, <1>26, NamesApart
<1> DEFINE T == [[A EXCEPT !["posts"] = y] EXCEPT ![Old[t]] = None]
<1>9. /\ T = [n \in Names |-> T[n]] /\ T[t] = New(b, t, l, FALSE) /\ T[Old[t]] = None /\ T[Old[u]] = None
      /\ T[u] = IF u = "posts" THEN y ELSE b.tables[u]
  <2> HIDE DEF A
  <2> QED  BY <1>3, <1>8, NamesApart DEF Tables
<1>10. PICK k : k = CutOff(on, d, Old[t], ks)  OBVIOUS
<1>11. PICK s : s = Swapped(on, b, t, l)  OBVIOUS
<1>12. Exists(d, Old[t])
  <2> HIDE DEF A
  <2> QED  BY <1>2, <1>3 DEF Exists
<1>13. s = [tables |-> T, fts |-> b.fts, trig |-> G, missed |-> m]
  <2> DEFINE M == k.missed \/ (Old[t] = "users" /\ d.fts # None /\ ks # {})
             H == [x \in Triggers |-> IF k.trig[x] = Old[t] THEN None ELSE k.trig[x]]
  <2>1. s = [k EXCEPT !.tables[Old[t]] = None, !.trig = H, !.missed = M]
    <3>1. s = Dropped(on, d, Old[t])  BY <1>1, <1>11 DEF Swapped
    <3> HIDE DEF A, G, T, y
    <3> QED  BY <1>10, <1>12, <3>1 DEF Dropped, ks
  <2>2. k.missed = m /\ k.trig = AsideTriggers(b, t)  BY <1>7, <1>10
  <2>3. M = m /\ H = G  BY <2>2, PartsOf, NamesApart DEF Tables
  <2> HIDE DEF M, H, A, G, T
  <2>4. s = [k EXCEPT !.tables = [@ EXCEPT ![Old[t]] = None], !.trig = G, !.missed = m]
    BY <2>1, <2>3
  <2>5. k = [tables |-> [A EXCEPT !["posts"] = y], fts |-> b.fts,
             trig |-> AsideTriggers(b, t), missed |-> m]
    BY <1>7, <1>10
  <2> QED  BY <2>4, <2>5 DEF T
<1>14. s.tables = T /\ s.tables[t] = New(b, t, l, FALSE) /\ s.tables[Old[t]] = None
  <2> HIDE DEF T, G
  <2> QED  BY <1>9, <1>13
<1>15. ~IndexTaken(s, t) /\ Exists(s, t)
  <2>1. New(b, t, l, FALSE).idx = FALSE  BY DEF New
  <2> HIDE DEF T
  <2> QED  BY <2>1, <1>5, <1>14 DEF IndexTaken, Exists
<1> DEFINE U == [T EXCEPT ![t] = New(b, t, l, TRUE)]
<1>16. c = [tables |-> U, fts |-> b.fts, trig |-> G, missed |-> m]
  <2> DEFINE i == TRUE
  <2>1. c = [s EXCEPT !.tables[t].idx = i]  BY <1>11 DEF Rebuilt
  <2>2. [New(b, t, l, FALSE) EXCEPT !.idx = i] = New(b, t, l, i)
    <3>1. PICK w : w = New(b, t, l, FALSE)  OBVIOUS
    <3>2. w = [cols |-> Fields[t], rows |-> NewRows(b, t, l), idx |-> w.idx, ref |-> "users"]  BY <3>1 DEF New
    <3> HIDE DEF i
    <3>3. [w EXCEPT !.idx = i] = [cols |-> Fields[t], rows |-> NewRows(b, t, l), idx |-> i, ref |-> "users"]
      BY <3>2
    <3> QED  BY <3>1, <3>3 DEF New
  <2>3. [T EXCEPT ![t].idx = i] = [T EXCEPT ![t] = New(b, t, l, i)]
    <3> HIDE DEF T, i
    <3> QED  BY <1>9, <2>2
  <2> HIDE DEF i, T, G
  <2>4. c = [s EXCEPT !.tables = [T EXCEPT ![t].idx = i]]  BY <2>1, <1>14
  <2>5. c = [tables |-> [T EXCEPT ![t] = New(b, t, l, i)], fts |-> b.fts, trig |-> G, missed |-> m]
    BY <1>13, <2>3, <2>4
  <2> QED  BY <2>5 DEF i
<1>17. U[t] = New(b, t, l, TRUE) /\ U[Old[t]] = None /\ U[Old[u]] = None /\ U[u] = T[u]
       /\ U = [n \in Names |-> U[n]]
  <2> HIDE DEF T
  <2> QED  BY <1>9, NamesApart
<1> HIDE DEF U
<1>18. T[u] \in {None} \cup TableOf(u)
  <2>1. CASE u = "posts"
    <3>1. T[u] = y /\ y \in {None} \cup TableOf("posts")
      <4> HIDE DEF T, A
      <4> QED  BY <2>1, <1>7, <1>9 DEF Thinned
    <3> QED  BY <2>1, <3>1
  <2>2. CASE u # "posts"
    <3>1. T[u] = b.tables[u]
      <4> HIDE DEF T
      <4> QED  BY <2>2, <1>9
    <3> QED  BY <3>1, PartsOf
  <2> QED  BY <2>1, <2>2
<1>19. G \in [Triggers -> {None} \cup Names] /\ \A x \in Triggers : G[x] \in {None, b.trig[x]}
  BY PartsOf, NamesApart DEF AsideTriggers
<1> HIDE DEF T, G, A
<1>20. /\ U \in [Names -> {None} \cup TableOf("users") \cup TableOf("posts")]
       /\ \A v \in Tables : U[v] \in {None} \cup TableOf(v) /\ U[Old[v]] = None
  BY <1>5, <1>17, <1>18, NamesApart, ZenonT(30) DEF Tables
<1>21. c \in Databases
  <2>1. b.fts \in {None} \cup SUBSET (Pks \X Vals) /\ m \in BOOLEAN  BY PartsOf
  <2> QED  BY <1>16, <1>19, <1>20, <2>1, Parts
<1>22. c.tables = U /\ c.fts = b.fts /\ c.trig = G /\ c.missed = m  BY <1>16
<1>23. c.tables["users"] # None <=> b.tables["users"] # None
  <2>1. CASE t = "users"  BY <2>1, <1>5, <1>17, <1>22 DEF Exists
  <2>2. CASE t # "users"
    <3>1. u = "users"  BY <2>2 DEF Tables
    <3> QED  BY <3>1, <1>9, <1>17, <1>22
  <2> QED  BY <2>1, <2>2
<1>24. t = "posts" => c.tables["users"] = b.tables["users"]
  <2>1. t = "posts" => u = "users"  BY DEF Tables
  <2> QED  BY <2>1, <1>9, <1>17, <1>22
<1>25. ASSUME Rows(c, u) # Rows(b, u) PROVE on /\ t = "users"
  <2>1. u = "posts"
    <3>1. u # "posts" => c.tables[u] = b.tables[u]  BY <1>9, <1>17, <1>22
    <3> QED  BY <1>25, <3>1 DEF Rows, Exists
  <2>2. t = "users"  BY <2>1 DEF Tables
  <2>3. c.tables[u] = y /\ A["posts"] = p  BY <2>1, <1>3, <1>9, <1>17, <1>22
  <2>4. y # p
    <3>1. ASSUME y = p PROVE FALSE
      <4>1. (y = None <=> b.tables["posts"] = None) /\ (b.tables["posts"] # None => y.rows = b.tables["posts"].rows)
        <5> HIDE DEF p
        <5> QED  BY <3>1, <1>4
      <4> QED  BY <1>25, <2>1, <2>3, <4>1 DEF Rows, Exists
    <3> QED  BY <3>1
  <2> QED  BY <2>2, <2>3, <2>4, <1>26
<1> QED  BY <1>11, <1>15, <1>17, <1>19, <1>21, <1>22, <1>23, <1>24, <1>25, <1>27 DEF Final

\* It has the rows it had, each with its values.
LEMMA RowsAreKept ==
    ASSUME NEW b \in Databases, NEW t \in Tables, Exists(b, t), NEW renamed \in BOOLEAN,
           NEW seen \in Views(t), seen # {}, NEW l, l = Look(t, renamed, seen), Fits(b, t, l),
           NEW c, c.tables[t] = Final(b, t, l)
    PROVE  /\ Exists(c, t) /\ Keys(c, t) = Keys(b, t)
           /\ \A k \in Keys(b, t) : Rows(c, t)[k]["name"] = Rows(b, t)[k]["name"]
           /\ t = "users" /\ seen = b.tables[t].cols =>
                \A k \in Keys(b, t) :
                    Rows(c, t)[k]["new"] =
                        IF Source(t, "new", renamed) \in b.tables[t].cols
                        THEN Rows(b, t)[k][Source(t, "new", renamed)] ELSE Default
<1>1. Final(b, t, l) # None /\ Exists(c, t)  BY NewIsTable DEF Exists, Final
<1>2. Rows(c, t) = NewRows(b, t, l)  BY <1>1 DEF Rows, New, Final
<1>10. l.seen # {}  BY DEF Look
<1>3. Keys(c, t) = Keys(b, t)  BY <1>2, <1>10 DEF NewRows, Keys
<1>4. \A k \in Keys(b, t), f \in Fields[t] :
        Rows(c, t)[k][f] = IF l.plan[f] = None THEN Default ELSE Rows(b, t)[k][l.plan[f]]
  BY <1>2, <1>10 DEF NewRows
<1>5. \A f \in Fields[t] :
        l.plan[f] = IF Source(t, f, renamed) \in seen THEN Source(t, f, renamed) ELSE None
  BY DEF Look
<1>6. None \notin seen  BY NoneAssumption DEF Views
<1>7. "name" \in Fields[t] /\ "name" \in seen /\ Source(t, "name", renamed) = "name"
  BY DEF Tables, Fields, OldCols, Source, Views
<1>8. l.plan["name"] = "name" /\ l.plan["name"] # None  BY <1>5, <1>6, <1>7
<1>9. ASSUME t = "users", seen = b.tables[t].cols, NEW k \in Keys(b, t)
      PROVE  Rows(c, t)[k]["new"] = IF Source(t, "new", renamed) \in b.tables[t].cols
                                    THEN Rows(b, t)[k][Source(t, "new", renamed)] ELSE Default
  <2>1. "new" \in Fields[t]  BY <1>9 DEF Fields
  <2> QED  BY <2>1, <1>4, <1>5, <1>6, <1>9
<1> QED  BY <1>1, <1>3, <1>4, <1>7, <1>8, <1>9

LEMMA MigrationKeeps ==
    ASSUME NEW b \in Databases, NEW t \in Tables, Exists(b, t), NEW renamed \in BOOLEAN,
           NEW seen \in Views(t), NEW l, l = Look(t, renamed, seen), Fits(b, t, l),
           NEW on \in BOOLEAN, NEW c, c = Rebuilt(on, b, t, l), Agrees(b)
    PROVE  Agrees(c)
<1>1. PICK u \in Tables : u # t  BY DEF Tables
<1>2. /\ c.fts = b.fts /\ c.missed = (b.missed \/ Lost(b, t, l)) /\ c.tables[t] = Final(b, t, l)
      /\ t = "posts" => c.tables["users"] = b.tables["users"]
  BY <1>1, RebuiltKeeps
<1>3. l.seen = seen  BY DEF Look
<1>4. ASSUME b.fts # None, ~Lost(b, t, l) PROVE Words(c) = Words(b)
  <2>1. CASE t = "posts"  BY <2>1, <1>2, SameUsers
  <2>2. CASE t = "users" /\ seen # {}
    <3>1. Keys(c, t) = Keys(b, t) /\ \A k \in Keys(b, t) : Rows(c, t)[k]["name"] = Rows(b, t)[k]["name"]
      BY <1>2, <2>2, RowsAreKept
    <3> QED  BY <2>2, <3>1 DEF Words
  <2>3. CASE t = "users" /\ seen = {}
    <3>1. Keys(b, t) = {}  BY <1>3, <1>4, <2>3 DEF Lost
    <3>2. Numbered({}) = {}  BY NumberedIs
    <3>3. DOMAIN NewRows(b, t, l) = {}  BY <1>3, <2>3, <3>1, <3>2 DEF NewRows
    <3>4. Final(b, t, l) # None /\ Final(b, t, l).rows = NewRows(b, t, l)  BY NewIsTable DEF Final, New
    <3>5. Keys(c, t) = {}  BY <1>2, <3>3, <3>4 DEF Keys, Rows, Exists
    <3> QED  BY <2>3, <3>1, <3>5 DEF Words
  <2> QED  BY <2>1, <2>2, <2>3 DEF Tables
<1> QED  BY <1>2, <1>4 DEF Agrees

-----------------------------------------------------------------------------
(***************************************************************************)
(* What a step of one process, or of the application, leaves of the others.*)
(***************************************************************************)
LEMMA OthersStand ==
    ASSUME NEW q, NEW s, NEW j, NEW at, NEW on, NEW d, NEW b, NEW cl,
           Stands(q, s, j, at, on, d, b, cl), at # q,
           NEW k, k.kind = j.kind, NEW at2, at2 # q, NEW e, NEW c, NEW cl2, cl => cl2,
           s # <<>> /\ k.alone => j.alone /\ SameShape(b, c),
           s # <<>> /\ j.kind = "fts" => cl2 \/ (b.fts # None => c.fts # None),
           s # <<>> /\ j.kind = "drop_fts" =>
                cl2 \/ \A x \in Triggers : b.trig[x] = None => c.trig[x] = None
    PROVE  Stands(q, s, k, at2, on, e, c, cl2)
<1>1. CASE s = <<>>  BY <1>1 DEF Stands
<1>2. CASE s # <<>>
  <2>1. ASSUME NEW t \in Tables, Ready(j, t, b) PROVE Ready(k, t, c)
    <3>1. "users" \in Tables  BY DEF Tables
    <3> QED  BY <3>1, <1>2, <2>1 DEF Ready, Has, SameShape
  <2>2. CASE Migrating(q, s, j, at, on, d, b)
    <3>1. PICK t \in Tables : \E r \in Rest(j.kind, t), renamed \in BOOLEAN :
            /\ Ready(j, t, b)
            /\ \/ \E given \in BOOLEAN :
                    s \in {<<MigrateJob(t, renamed, given)>> \o r, <<LookJob(t, renamed, given)>> \o r}
               \/ \E seen \in Views(t) : s = Left1(t, Look(t, renamed, seen), r)
      BY <2>2 DEF Migrating
    <3>2. PICK r \in Rest(j.kind, t), renamed \in BOOLEAN :
            /\ Ready(j, t, b)
            /\ \/ \E given \in BOOLEAN :
                    s \in {<<MigrateJob(t, renamed, given)>> \o r, <<LookJob(t, renamed, given)>> \o r}
               \/ \E seen \in Views(t) : s = Left1(t, Look(t, renamed, seen), r)
      BY <3>1
    <3>3. Ready(k, t, c) /\ k.kind \in {"migrate", "cli"} /\ r \in Rest(k.kind, t)
      BY <2>1, <2>2, <3>2 DEF Migrating
    <3>4. Migrating(q, s, k, at2, on, e, c)  BY <3>2, <3>3 DEF Migrating
    <3> QED  BY <3>4 DEF Stands
  <2>3. CASE Creating(q, s, j, at, b)
    <3>1. PICK t \in Tables : \E r \in Rest(j.kind, t) :
            /\ Ready(j, t, b)
            /\ \/ /\ s = CreateTable(t) \o r
                  /\ j.alone /\ j.kind = "cli" => ~Exists(b, t)
               \/ /\ s = <<Stmt("index", t)>> \o r
                  /\ j.alone => Exists(b, t)
                  /\ j.alone /\ j.kind = "cli" =>
                        b.tables[t].cols = Fields[t] /\ b.tables[t].ref = "users"
      BY <2>3 DEF Creating
    <3>2. k.alone => j.alone /\ SameShape(b, c)  BY <1>2
    <3>3. k.alone => (Exists(b, t) <=> Exists(c, t))  BY <3>2 DEF SameShape
    <3>4. k.alone /\ Exists(b, t) => c.tables[t].cols = b.tables[t].cols /\ c.tables[t].ref = b.tables[t].ref
      BY <3>2 DEF SameShape
    <3>5. k.kind \in {"migrate", "cli", "create_all"} /\ Rest(k.kind, t) = Rest(j.kind, t)  BY <2>3 DEF Creating
    <3>6. Ready(k, t, c)  BY <2>1, <3>1
    <3>7. Creating(q, s, k, at2, c)  BY <3>1, <3>2, <3>3, <3>4, <3>5, <3>6 DEF Creating
    <3> QED  BY <3>7 DEF Stands
  <2>4. CASE Dropping(q, s, j, at)  BY <2>4 DEF Dropping, Stands
  <2>5. CASE Indexing(q, s, j, at, b, cl)
    <3>1. Indexing(q, s, k, at2, c, cl2)  BY <1>2, <2>5 DEF Indexing
    <3> QED  BY <3>1 DEF Stands
  <2>6. CASE Unindexing(q, s, j, at, b, cl)
    <3>1. j.kind = "drop_fts"  BY <2>6 DEF Unindexing
    <3>2. ASSUME NEW xs \in SUBSET Triggers, Gone(b, cl, xs) PROVE Gone(c, cl2, xs)
      BY <1>2, <3>1, <3>2 DEF Gone
    <3>3. {"ai"} \in SUBSET Triggers /\ {"ai", "ad"} \in SUBSET Triggers /\ Triggers \in SUBSET Triggers
      BY DEF Triggers
    <3>4. Unindexing(q, s, k, at2, c, cl2)  BY <2>6, <3>2, <3>3 DEF Unindexing
    <3> QED  BY <3>4 DEF Stands
  <2>7. CASE Reindexing(q, s, j, at)  BY <2>7 DEF Reindexing, Stands
  <2> QED  BY <1>2, <2>2, <2>3, <2>4, <2>5, <2>6, <2>7 DEF Stands
<1> QED  BY <1>1, <1>2

\* A step of p, after which it has s left.
LEMMA StepKeeps ==
    ASSUME Inv, NEW p \in Procs, todo[p] # <<>>, UNCHANGED <<fk, job, clash>>,
           NEW s, todo' = [todo EXCEPT ![p] = s],
           {block, block'} \subseteq {None, p} \/ (UNCHANGED <<db, before, block>> /\ block # p),
           Standing(p)', before' \in Databases, Agrees(before'), clash \/ HasIndex(before'),
           block' = None => db' = before',
           job[p].kind # "fts" => \A x \in Triggers : before.trig[x] = None => before'.trig[x] = None,
           job[p].kind # "drop_fts" => (before.fts # None => before'.fts # None),
           NEW v \in {"none", "done", "failed"}, result' = [result EXCEPT ![p] = v],
           v = "done" => s = <<>>,
           v = "done" /\ job[p].alone /\ job[p].kind \in {"cli", "create_all"} => Synced(before', job[p].kind)
    PROVE  Inv'
<1>1. Typed'
  <2>1. Typed  BY DEF Inv
  <2>2. block' \in Procs \cup {None}  BY <2>1 DEF Typed
  <2>3. todo' = [q \in Procs |-> todo'[q]] /\ result' \in [Procs -> {"none", "done", "failed"}]
    BY <2>1 DEF Typed
  <2> QED  BY <2>1, <2>2, <2>3 DEF Typed
<1>2. \A q \in Procs \ {p} : todo'[q] = todo[q] /\ result'[q] = result[q]  BY DEF Inv, Typed
<1>3. todo'[p] = s /\ result'[p] = v  BY DEF Inv, Typed
<1>4. ASSUME NEW q \in Procs PROVE Standing(q)'
  <2>1. CASE q = p  BY <2>1
  <2>2. CASE q # p
    <3>1. todo'[q] = todo[q] /\ Standing(q)  BY <1>2, <2>2 DEF Inv
    <3>2. CASE block = q
      <4>1. q # None  BY NoneAssumption
      <4>2. UNCHANGED <<db, before, block>>  BY <2>2, <3>2, <4>1
      <4> QED  BY <3>1, <4>2 DEF Standing
    <3>3. CASE block # q
      <4>1. block' # q  BY <2>2, <3>3, NoneAssumption
      <4>2. todo[q] # <<>> => ~job[q].alone  BY <2>2 DEF Inv, Alone
      <4>3. todo[q] # <<>> /\ job[q].kind = "fts" => clash' \/ (before.fts # None => before'.fts # None)
        BY DEF Inv, Clashes
      <4>4. todo[q] # <<>> /\ job[q].kind = "drop_fts" =>
                clash' \/ \A x \in Triggers : before.trig[x] = None => before'.trig[x] = None
        BY DEF Inv, Clashes
      <4>5. Stands(q, todo[q], job[q], block', fk, db', before', clash')
        BY <3>1, <3>3, <4>1, <4>2, <4>3, <4>4, OthersStand DEF Standing
      <4> QED  BY <3>1, <4>5 DEF Standing
    <3> QED  BY <3>2, <3>3
  <2> QED  BY <2>1, <2>2
<1>5. Alone'
  <2>1. ASSUME NEW q \in Procs, NEW o \in Procs, q # o, job[q].alone, todo'[q] # <<>> \/ result'[q] = "done"
        PROVE  todo'[o] = <<>>
    <3>1. todo[q] # <<>> \/ result[q] = "done"  BY <1>2, <2>1
    <3>2. todo[o] = <<>>  BY <2>1, <3>1 DEF Inv, Alone
    <3> QED  BY <1>2, <3>2
  <2> QED  BY <2>1 DEF Alone
<1>6. Clashes'
  <2>1. ASSUME NEW q \in Procs, NEW o \in Procs, todo'[q] # <<>>, todo'[o] # <<>>,
               job[q].kind = "fts", job[o].kind = "drop_fts"
        PROVE  clash
    <3>1. todo[q] # <<>> /\ todo[o] # <<>>  BY <1>2, <2>1
    <3> QED  BY <2>1, <3>1 DEF Inv, Clashes
  <2> QED  BY <2>1 DEF Clashes
<1>7. Finishes'
  <2>1. ASSUME NEW q \in Procs, result'[q] = "done"
        PROVE  /\ todo'[q] = <<>>
               /\ job[q].alone /\ job[q].kind \in {"cli", "create_all"} => Synced(before', job[q].kind)
    <3>1. CASE q = p  BY <1>3, <2>1, <3>1
    <3>2. CASE q # p
      <4>1. result[q] = "done" /\ todo[q] = <<>>  BY <1>2, <2>1, <3>2 DEF Inv, Finishes
      <4>2. ~job[q].alone  BY <3>2, <4>1 DEF Inv, Alone
      <4> QED  BY <1>2, <3>2, <4>1, <4>2
    <3> QED  BY <3>1, <3>2
  <2> QED  BY <2>1 DEF Finishes
<1> QED  BY <1>1, <1>4, <1>5, <1>6, <1>7 DEF Inv

-----------------------------------------------------------------------------
(***************************************************************************)
(* What is left of a job is a list, and what is at its head.               *)
(***************************************************************************)
LEMMA LeftLists ==
    ASSUME NEW t, NEW l, NEW r, IsList(r)
    PROVE  /\ IsList(Left1(t, l, r)) /\ IsList(Left2(t, l, r)) /\ IsList(Left3(t, l, r)) /\ IsList(Left4(t, l, r))
           /\ IsList(Left5(t, l, r)) /\ IsList(Left6(t, l, r)) /\ IsList(Left7(t, l, r)) /\ IsList(Left8(t, l, r))
<1>8. IsList(Left8(t, l, r))  BY Cons DEF Left8
<1>7. IsList(Left7(t, l, r))  BY <1>8, Cons DEF Left7
<1>6. IsList(Left6(t, l, r))  BY <1>7, Cons DEF Left6
<1>5. IsList(Left5(t, l, r))  BY <1>6, Cons DEF Left5
<1>4. IsList(Left4(t, l, r))  BY <1>5, Cons DEF Left4
<1>3. IsList(Left3(t, l, r))  BY <1>4, Cons DEF Left3
<1>2. IsList(Left2(t, l, r))  BY <1>3, Cons DEF Left2
<1>1. IsList(Left1(t, l, r))  BY <1>2, Cons DEF Left1
<1> QED  BY <1>1, <1>2, <1>3, <1>4, <1>5, <1>6, <1>7, <1>8

LEMMA ShortLists ==
    ASSUME NEW a, NEW b, NEW c, NEW d
    PROVE  IsList(<<a>>) /\ IsList(<<a, b>>) /\ IsList(<<a, b, c>>) /\ IsList(<<a, b, c, d>>)
<1> DEFINE S == {a, b, c, d}
<1>1. <<a>> \in Seq(S) /\ <<a, b>> \in Seq(S) /\ <<a, b, c>> \in Seq(S) /\ <<a, b, c, d>> \in Seq(S)  OBVIOUS
<1> HIDE DEF S
<1> QED  BY <1>1 DEF IsList

LEMMA StandsList ==
    ASSUME NEW p, NEW s, NEW j, NEW at, NEW on, NEW d, NEW b, NEW cl,
           Stands(p, s, j, at, on, d, b, cl)
    PROVE  IsList(s) /\ (s # <<>> /\ Len(s) = 1 => Tail(s) = <<>>)
<1>1. IsList(s)
  <2>1. CASE Migrating(p, s, j, at, on, d, b)
    <3>1. PICK t \in Tables : \E r \in Rest(j.kind, t), renamed \in BOOLEAN :
            \/ \E given \in BOOLEAN :
                s \in {<<MigrateJob(t, renamed, given)>> \o r, <<LookJob(t, renamed, given)>> \o r}
            \/ \E seen \in Views(t) :
                \/ s = Left1(t, Look(t, renamed, seen), r)
                \/ Inside(s, t, Look(t, renamed, seen), r, on, d, b)
      BY <2>1 DEF Migrating
    <3>2. PICK r \in Rest(j.kind, t), renamed \in BOOLEAN :
            \/ \E given \in BOOLEAN :
                s \in {<<MigrateJob(t, renamed, given)>> \o r, <<LookJob(t, renamed, given)>> \o r}
            \/ \E seen \in Views(t) :
                \/ s = Left1(t, Look(t, renamed, seen), r)
                \/ Inside(s, t, Look(t, renamed, seen), r, on, d, b)
      BY <3>1
    <3>3. IsList(r)  BY RestIsList
    <3>4. ASSUME NEW x, s = <<x>> \o r PROVE IsList(s)  BY <3>3, <3>4, Cons
    <3>5. ASSUME NEW l, s = Left1(t, l, r) \/ Inside(s, t, l, r, on, d, b) PROVE IsList(s)
      BY <3>3, <3>5, LeftLists DEF Inside
    <3> QED  BY <3>2, <3>4, <3>5
  <2>2. CASE Creating(p, s, j, at, b)
    <3>1. PICK t \in Tables : \E r \in Rest(j.kind, t) :
            s = CreateTable(t) \o r \/ s = <<Stmt("index", t)>> \o r
      BY <2>2 DEF Creating
    <3>2. PICK r \in Rest(j.kind, t) : s = CreateTable(t) \o r \/ s = <<Stmt("index", t)>> \o r  BY <3>1
    <3>3. IsList(r) /\ IsList(<<Stmt("index", t)>> \o r)  BY RestIsList, Cons
    <3>4. CreateTable(t) \o r = <<Stmt("create", t)>> \o (<<Stmt("index", t)>> \o r)
      BY <3>3, Lists DEF CreateTable
    <3>5. IsList(<<Stmt("create", t)>> \o (<<Stmt("index", t)>> \o r))  BY <3>3, Cons
    <3>6. IsList(CreateTable(t) \o r)  BY <3>4, <3>5
    <3>7. CASE s = CreateTable(t) \o r  BY <3>6, <3>7
    <3>8. CASE s = <<Stmt("index", t)>> \o r  BY <3>3, <3>8
    <3> QED  BY <3>2, <3>7, <3>8
  <2>3. CASE Dropping(p, s, j, at)  BY <2>3, ShortLists DEF Dropping, DropAll
  <2>4. CASE Indexing(p, s, j, at, b, cl)  BY <2>4, ShortLists DEF Indexing, CreateIndex
  <2>5. CASE Unindexing(p, s, j, at, b, cl)  BY <2>5, ShortLists DEF Unindexing, DropIndex
  <2>6. CASE Reindexing(p, s, j, at)  BY <2>6, ShortLists DEF Reindexing
  <2> QED  BY <2>1, <2>2, <2>3, <2>4, <2>5, <2>6, Lists DEF Stands
<1>2. PICK S : s \in Seq(S)  BY <1>1 DEF IsList
<1>3. s # <<>> /\ Len(s) = 1 => Tail(s) = <<>>
  <2>1. s # <<>> /\ Len(s) = 1 => Tail(s) \in Seq(S) /\ Len(Tail(s)) = 0  BY <1>2, HeadTailProperties
  <2> QED  BY <2>1, EmptySeq
<1> QED  BY <1>1, <1>3

\* The two looks of a migration.
LEMMA JobsAre ==
    ASSUME NEW t, NEW renamed, NEW given
    PROVE  /\ MigrateJob(t, renamed, given) = [op |-> "plan", t |-> t, renamed |-> renamed, given |-> given]
           /\ LookJob(t, renamed, given) = [op |-> "look", t |-> t, renamed |-> renamed, given |-> given]
           /\ MigrateJob(t, renamed, given).op = "plan" /\ LookJob(t, renamed, given).op = "look"
BY DEF MigrateJob, LookJob

\* Whose statement it is.
LEMMA OpsOf ==
    ASSUME NEW p, NEW s, NEW j, NEW at, NEW on, NEW d, NEW b, NEW cl
    PROVE  /\ Creating(p, s, j, at, b) => Head(s).op \in {"create", "index"}
           /\ Dropping(p, s, j, at) => Head(s).op = "drop"
           /\ Indexing(p, s, j, at, b, cl) => Head(s).op \in {"fts", "ai", "ad", "au"}
           /\ Unindexing(p, s, j, at, b, cl) => Head(s).op \in {"drop_ai", "drop_ad", "drop_au", "drop_fts"}
           /\ Reindexing(p, s, j, at) => Head(s).op = "rebuild"
           /\ Migrating(p, s, j, at, on, d, b) =>
                Head(s).op \in {"plan", "look", "begin", "drop", "rename", "create_new", "copy", "index", "commit"}
<1>1. Creating(p, s, j, at, b) => Head(s).op \in {"create", "index"}
  BY RestIsList, Creations, SMTT(20) DEF Creating, Stmt
<1>2. Dropping(p, s, j, at) => Head(s).op = "drop"  BY Short DEF Dropping, DropAll, Stmt
<1>3. Indexing(p, s, j, at, b, cl) => Head(s).op \in {"fts", "ai", "ad", "au"}
  BY Short DEF Indexing, CreateIndex, Stmt
<1>4. Unindexing(p, s, j, at, b, cl) => Head(s).op \in {"drop_ai", "drop_ad", "drop_au", "drop_fts"}
  BY Short DEF Unindexing, DropIndex, Stmt
<1>5. Reindexing(p, s, j, at) => Head(s).op = "rebuild"  BY Short DEF Reindexing, Stmt
<1>6. ASSUME Migrating(p, s, j, at, on, d, b)
      PROVE  Head(s).op \in {"plan", "look", "begin", "drop", "rename", "create_new", "copy", "index", "commit"}
  <2>1. PICK t \in Tables : \E r \in Rest(j.kind, t), renamed \in BOOLEAN :
          \/ \E given \in BOOLEAN :
              s \in {<<MigrateJob(t, renamed, given)>> \o r, <<LookJob(t, renamed, given)>> \o r}
          \/ \E seen \in Views(t) :
              \/ s = Left1(t, Look(t, renamed, seen), r)
              \/ Inside(s, t, Look(t, renamed, seen), r, on, d, b)
    BY <1>6 DEF Migrating
  <2>2. PICK r \in Rest(j.kind, t), renamed \in BOOLEAN :
          \/ \E given \in BOOLEAN :
              s \in {<<MigrateJob(t, renamed, given)>> \o r, <<LookJob(t, renamed, given)>> \o r}
          \/ \E seen \in Views(t) :
              \/ s = Left1(t, Look(t, renamed, seen), r)
              \/ Inside(s, t, Look(t, renamed, seen), r, on, d, b)
    BY <2>1
  <2>3. IsList(r)  BY RestIsList
  <2>4. ASSUME NEW given,
               s \in {<<MigrateJob(t, renamed, given)>> \o r, <<LookJob(t, renamed, given)>> \o r}
        PROVE  Head(s).op \in {"plan", "look"}
    BY <2>3, <2>4, Cons, JobsAre
  <2>5. ASSUME NEW l, s = Left1(t, l, r) \/ Inside(s, t, l, r, on, d, b)
        PROVE Head(s).op \in {"begin", "drop", "rename", "create_new", "copy", "index", "commit"}
    BY <2>3, <2>5, Lefts DEF Inside, Stmt
  <2>6. CASE \E given \in BOOLEAN :
                s \in {<<MigrateJob(t, renamed, given)>> \o r, <<LookJob(t, renamed, given)>> \o r}
    BY <2>4, <2>6
  <2>7. CASE \E seen \in Views(t) : \/ s = Left1(t, Look(t, renamed, seen), r)
                                   \/ Inside(s, t, Look(t, renamed, seen), r, on, d, b)
    BY <2>5, <2>7
  <2> QED  BY <2>2, <2>6, <2>7
<1> QED  BY <1>1, <1>2, <1>3, <1>4, <1>5, <1>6

\* The statement a migration is at.
MigrationAt(p, s, at, on, d, b, t, l, r) ==
    LET op == Head(s).op
    IN  \/ op = "begin" /\ at # p /\ s = Left1(t, l, r)
        \/ /\ at = p
           /\ \/ op = "drop" /\ s = Left2(t, l, r) /\ d = b
              \/ op = "rename" /\ s = Left3(t, l, r) /\ d = b
              \/ /\ Exists(b, t)
                 /\ \/ op = "create_new" /\ s = Left4(t, l, r) /\ d = Rename(b, t)
                    \/ op = "copy" /\ s = Left5(t, l, r) /\ d = Fresh(b, t)
                    \/ op = "drop" /\ s = Left6(t, l, r) /\ d = Filled(b, t, l) /\ Fits(b, t, l)
                    \/ op = "index" /\ s = Left7(t, l, r) /\ d = Swapped(on, b, t, l) /\ Fits(b, t, l)
                    \/ op = "commit" /\ s = Left8(t, l, r) /\ d = Rebuilt(on, b, t, l) /\ Fits(b, t, l)

LEMMA MigrationSteps ==
    ASSUME NEW p, NEW s, NEW j, NEW at, NEW on, NEW d, NEW b, Migrating(p, s, j, at, on, d, b)
    PROVE  /\ j.kind \in {"migrate", "cli"}
           /\ \E t \in Tables : \E r \in Rest(j.kind, t), renamed \in BOOLEAN :
                /\ IsList(r) /\ Ready(j, t, b)
                /\ \/ /\ Head(s).op \in {"plan", "look"} /\ at # p /\ Tail(s) = r
                      /\ \E given \in BOOLEAN :
                            Head(s) = IF Head(s).op = "plan" THEN MigrateJob(t, renamed, given)
                                      ELSE LookJob(t, renamed, given)
                   \/ \E seen \in Views(t) :
                        MigrationAt(p, s, at, on, d, b, t, Look(t, renamed, seen), r)
<1>1. PICK t \in Tables : \E r \in Rest(j.kind, t), renamed \in BOOLEAN :
        /\ Ready(j, t, b)
        /\ \/ at # p /\ \E given \in BOOLEAN :
                s \in {<<MigrateJob(t, renamed, given)>> \o r, <<LookJob(t, renamed, given)>> \o r}
           \/ \E seen \in Views(t) :
                \/ at # p /\ s = Left1(t, Look(t, renamed, seen), r)
                \/ at = p /\ Inside(s, t, Look(t, renamed, seen), r, on, d, b)
  BY DEF Migrating
<1>2. PICK r \in Rest(j.kind, t), renamed \in BOOLEAN :
        /\ Ready(j, t, b)
        /\ \/ at # p /\ \E given \in BOOLEAN :
                s \in {<<MigrateJob(t, renamed, given)>> \o r, <<LookJob(t, renamed, given)>> \o r}
           \/ \E seen \in Views(t) :
                \/ at # p /\ s = Left1(t, Look(t, renamed, seen), r)
                \/ at = p /\ Inside(s, t, Look(t, renamed, seen), r, on, d, b)
  BY <1>1
<1>3. IsList(r)  BY RestIsList
<1>4. ASSUME at # p, NEW given \in BOOLEAN,
             s \in {<<MigrateJob(t, renamed, given)>> \o r, <<LookJob(t, renamed, given)>> \o r}
      PROVE  /\ Head(s).op \in {"plan", "look"} /\ at # p /\ Tail(s) = r
             /\ Head(s) = IF Head(s).op = "plan" THEN MigrateJob(t, renamed, given)
                          ELSE LookJob(t, renamed, given)
  <2>1. ASSUME NEW x, s = <<x>> \o r PROVE Head(s) = x /\ Tail(s) = r  BY <1>3, <2>1, Cons
  <2> QED  BY <1>4, <2>1, JobsAre
<1>5. ASSUME NEW l, at # p, s = Left1(t, l, r) PROVE MigrationAt(p, s, at, on, d, b, t, l, r)
  BY <1>3, <1>5, Lefts DEF MigrationAt, Stmt
<1>6. ASSUME NEW l, at = p, Inside(s, t, l, r, on, d, b) PROVE MigrationAt(p, s, at, on, d, b, t, l, r)
  <2>1. /\ Head(Left2(t, l, r)).op = "drop" /\ Head(Left3(t, l, r)).op = "rename"
        /\ Head(Left4(t, l, r)).op = "create_new" /\ Head(Left5(t, l, r)).op = "copy"
        /\ Head(Left6(t, l, r)).op = "drop" /\ Head(Left7(t, l, r)).op = "index"
        /\ Head(Left8(t, l, r)).op = "commit"
    BY <1>3, Lefts DEF Stmt
  <2> QED  BY <1>6, <2>1 DEF MigrationAt, Inside
<1>7. j.kind \in {"migrate", "cli"}  BY DEF Migrating
<1> QED  BY <1>2, <1>3, <1>4, <1>5, <1>6, <1>7

\* When p raises an error, or is killed.
LEMMA RaisesKeep ==
    ASSUME Inv, NEW p \in Procs, todo[p] # <<>>, UNCHANGED <<fk, job, clash>>, Raises(p)
    PROVE  Inv'
<1>1. Typed  BY DEF Inv
<1>2. /\ todo' = [todo EXCEPT ![p] = <<>>] /\ result' = [result EXCEPT ![p] = "failed"]
      /\ before' = before /\ block' # p
      /\ {block, block'} \subseteq {None, p} \/ (UNCHANGED <<db, before, block>> /\ block # p)
      /\ block' = None => db' = before'
  BY <1>1, NoneAssumption DEF Raises, Typed
<1>3. todo'[p] = <<>>  BY <1>1, <1>2 DEF Typed
<1>4. Standing(p)'  BY <1>2, <1>3 DEF Standing, Stands
<1>5. before' \in Databases /\ Agrees(before') /\ (clash \/ HasIndex(before'))
  BY <1>2 DEF Inv, Typed
<1> QED  BY <1>2, <1>4, <1>5, StepKeeps

\* A statement of a migration in its block.
LEMMA DoneInside ==
    ASSUME Inv, NEW p \in Procs, todo[p] # <<>>, UNCHANGED <<fk, job, clash>>, block = p,
           NEW d, Done(p, d), Len(todo[p]) # 1, job[p].kind \in {"migrate", "cli"},
           NEW t \in Tables, NEW r \in Rest(job[p].kind, t), NEW renamed \in BOOLEAN,
           NEW seen \in Views(t), Ready(job[p], t, before),
           Inside(Tail(todo[p]), t, Look(t, renamed, seen), r, fk, d, before)
    PROVE  Inv'
<1>1. Typed  BY DEF Inv
<1>2. /\ todo' = [todo EXCEPT ![p] = Tail(todo[p])] /\ result' = [result EXCEPT ![p] = "none"]
      /\ before' = before /\ block' = p /\ block = p /\ db' = d
  BY <1>1 DEF Done
<1>3. todo'[p] = Tail(todo[p]) /\ block' # None  BY <1>1, <1>2, NoneAssumption DEF Typed
<1>4. Migrating(p, Tail(todo[p]), job[p], p, fk, d, before)  BY DEF Migrating
<1>5. Standing(p)'  BY <1>2, <1>3, <1>4 DEF Standing, Stands
<1>6. before' \in Databases /\ Agrees(before') /\ (clash \/ HasIndex(before'))
  BY <1>2 DEF Inv, Typed
<1> DEFINE s == Tail(todo[p])
<1> HIDE DEF s
<1> QED  BY <1>2, <1>3, <1>5, <1>6, StepKeeps

\* A statement that is committed at once.
LEMMA DoneOutside ==
    ASSUME Inv, NEW p \in Procs, todo[p] # <<>>, UNCHANGED <<fk, job, clash>>, block = None,
           NEW d, Done(p, d), d \in Databases, Agrees(d), clash \/ HasIndex(d),
           Stands(p, Tail(todo[p]), job[p], None, fk, d, d, clash),
           job[p].kind # "fts" => \A x \in Triggers : before.trig[x] = None => d.trig[x] = None,
           job[p].kind # "drop_fts" => (before.fts # None => d.fts # None),
           Tail(todo[p]) = <<>> /\ job[p].alone /\ job[p].kind \in {"cli", "create_all"} =>
                Synced(d, job[p].kind)
    PROVE  Inv'
<1>1. Typed  BY DEF Inv
<1>2. PICK v \in {"none", "done"} : v = IF Len(todo[p]) = 1 THEN "done" ELSE "none"  OBVIOUS
<1>3. block # p  BY NoneAssumption
<1>4. /\ todo' = [todo EXCEPT ![p] = Tail(todo[p])] /\ result' = [result EXCEPT ![p] = v]
      /\ before' = d /\ block' = block /\ db' = d
  BY <1>2, <1>3 DEF Done
<1>5. v = "done" => Tail(todo[p]) = <<>>
  <2>1. Stands(p, todo[p], job[p], block, fk, db, before, clash)  BY DEF Inv, Standing
  <2> QED  BY <1>2, <2>1, StandsList
<1>6. todo'[p] = Tail(todo[p])  BY <1>1, <1>4 DEF Typed
<1>7. Standing(p)'  BY <1>4, <1>6 DEF Standing
<1>8. {block, block'} \subseteq {None, p} /\ (block' = None => db' = before') /\ v \in {"none", "done", "failed"}
  BY <1>4
<1>9. before' \in Databases /\ Agrees(before') /\ (clash \/ HasIndex(before'))  BY <1>4
<1>10. /\ job[p].kind # "fts" => \A x \in Triggers : before.trig[x] = None => before'.trig[x] = None
       /\ job[p].kind # "drop_fts" => (before.fts # None => before'.fts # None)
       /\ v = "done" /\ job[p].alone /\ job[p].kind \in {"cli", "create_all"} => Synced(before', job[p].kind)
  BY <1>4, <1>5
<1> DEFINE s == Tail(todo[p])
<1>11. todo' = [todo EXCEPT ![p] = s] /\ (v = "done" => s = <<>>)  BY <1>4, <1>5
<1> HIDE DEF s
<1> QED  BY <1>4, <1>7, <1>8, <1>9, <1>10, <1>11, StepKeeps

-----------------------------------------------------------------------------
(***************************************************************************)
(* Steps of a migration.                                                   *)
(***************************************************************************)
\* The statement at the head of p's list, and who else it could have been.
LEMMA Stood ==
    ASSUME Inv, NEW p \in Procs
    PROVE  /\ Stands(p, todo[p], job[p], block, fk, db, before, clash)
           /\ p # None /\ (block = None => db = before) /\ before \in Databases /\ Agrees(before)
           /\ fk \in BOOLEAN /\ (clash \/ HasIndex(before)) /\ result[p] \in {"none", "done", "failed"}
           /\ todo[p] # <<>> => result[p] # "done"
           /\ todo = [todo EXCEPT ![p] = todo[p]] /\ result = [result EXCEPT ![p] = result[p]]
           /\ \A s : [todo EXCEPT ![p] = s][p] = s
<1>1. Typed /\ Finishes /\ Agrees(before) /\ Standing(p)  BY DEF Inv
<1>2. p # None  BY NoneAssumption
<1> QED  BY <1>1, <1>2 DEF Typed, Finishes, Standing, Inv

\* A look at the schema, or an error: p has other statements now.
LEMMA Looked ==
    ASSUME Inv, NEW p \in Procs, todo[p] # <<>>, block # p, UNCHANGED <<fk, job, clash>>,
           UNCHANGED <<db, before, block, result>>, NEW s, todo' = [todo EXCEPT ![p] = s],
           Stands(p, s, job[p], block, fk, db, before, clash)
    PROVE  Inv'
<1>1. Standing(p)'  BY Stood DEF Standing
<1> QED  BY <1>1, Stood, StepKeeps

\* Where a migration is that looks.
LEMMA Looking ==
    ASSUME Inv, NEW p \in Procs, NEW op \in {"plan", "look"}, todo[p] # <<>>, Head(todo[p]).op = op
    PROVE  /\ job[p].kind \in {"migrate", "cli"} /\ block # p /\ View(p) = before
           /\ \E t \in Tables : \E r \in Rest(job[p].kind, t), renamed \in BOOLEAN, given \in BOOLEAN :
                /\ IsList(r) /\ Ready(job[p], t, before) /\ Tail(todo[p]) = r
                /\ Head(todo[p]) = IF op = "plan" THEN MigrateJob(t, renamed, given)
                                   ELSE LookJob(t, renamed, given)
<1>1. Migrating(p, todo[p], job[p], block, fk, db, before)  BY Stood, OpsOf DEF Stands
<1>2. job[p].kind \in {"migrate", "cli"}  BY <1>1 DEF Migrating
<1>3. PICK t \in Tables : \E r \in Rest(job[p].kind, t), renamed \in BOOLEAN :
        /\ IsList(r) /\ Ready(job[p], t, before) /\ block # p /\ Tail(todo[p]) = r
        /\ \E given \in BOOLEAN : Head(todo[p]) = IF op = "plan" THEN MigrateJob(t, renamed, given)
                                                  ELSE LookJob(t, renamed, given)
  BY <1>1, MigrationSteps DEF MigrationAt
<1>4. block # p  BY <1>3
<1>5. View(p) = before  BY <1>4, Stood DEF View
<1> QED  BY <1>2, <1>3, <1>4, <1>5

LEMMA PlanKeeps ==
    ASSUME Inv, NEW p \in Procs, Plan(p)
    PROVE  Inv'
<1>1. todo[p] # <<>> /\ Head(todo[p]).op = "plan" /\ UNCHANGED <<fk, job, clash>>  BY DEF Plan
<1>2. job[p].kind \in {"migrate", "cli"} /\ block # p /\ View(p) = before  BY <1>1, Looking
<1>3. PICK t \in Tables : \E r \in Rest(job[p].kind, t), renamed \in BOOLEAN, given \in BOOLEAN :
        /\ IsList(r) /\ Ready(job[p], t, before) /\ Tail(todo[p]) = r
        /\ Head(todo[p]) = MigrateJob(t, renamed, given)
  BY <1>1, Looking
<1>4. PICK r \in Rest(job[p].kind, t), renamed \in BOOLEAN, given \in BOOLEAN :
        /\ IsList(r) /\ Ready(job[p], t, before) /\ Tail(todo[p]) = r
        /\ Head(todo[p]) = MigrateJob(t, renamed, given)
  BY <1>3
<1>5. Head(todo[p]).t = t  BY <1>4, JobsAre
<1> DEFINE h == [Head(todo[p]) EXCEPT !.op = "look"]
<1>6. h = LookJob(t, renamed, given)  BY <1>4 DEF LookJob
<1> HIDE DEF h
<1>7. \/ Raises(p)
      \/ /\ UNCHANGED <<db, before, block, result>>
         /\ \/ ~Exists(before, t) /\ todo' = [todo EXCEPT ![p] = CreateTable(t) \o r]
            \/ todo' = [todo EXCEPT ![p] = <<h>> \o r]
  BY <1>2, <1>4, <1>5 DEF Plan, h
<1>8. CASE Raises(p)  BY <1>1, <1>8, RaisesKeep
<1>9. CASE /\ UNCHANGED <<db, before, block, result>>
           /\ ~Exists(before, t) /\ todo' = [todo EXCEPT ![p] = CreateTable(t) \o r]
  <2>1. Creating(p, CreateTable(t) \o r, job[p], block, before)  BY <1>2, <1>4, <1>9 DEF Creating
  <2>2. Stands(p, CreateTable(t) \o r, job[p], block, fk, db, before, clash)  BY <2>1 DEF Stands
  <2> QED  BY <1>1, <1>2, <1>9, <2>2, Looked
<1>10. CASE UNCHANGED <<db, before, block, result>> /\ todo' = [todo EXCEPT ![p] = <<h>> \o r]
  <2>1. Migrating(p, <<h>> \o r, job[p], block, fk, db, before)  BY <1>2, <1>4, <1>6 DEF Migrating
  <2>2. Stands(p, <<h>> \o r, job[p], block, fk, db, before, clash)  BY <2>1 DEF Stands
  <2> QED  BY <1>1, <1>2, <1>10, <2>2, Looked
<1> QED  BY <1>7, <1>8, <1>9, <1>10

LEMMA LookAtColumnsKeeps ==
    ASSUME Inv, NEW p \in Procs, LookAtColumns(p)
    PROVE  Inv'
<1>1. todo[p] # <<>> /\ Head(todo[p]).op = "look" /\ UNCHANGED <<fk, job, clash>>  BY DEF LookAtColumns
<1>2. job[p].kind \in {"migrate", "cli"} /\ block # p /\ View(p) = before  BY <1>1, Looking
<1>3. PICK t \in Tables : \E r \in Rest(job[p].kind, t), renamed \in BOOLEAN, given \in BOOLEAN :
        /\ IsList(r) /\ Ready(job[p], t, before) /\ Tail(todo[p]) = r
        /\ Head(todo[p]) = LookJob(t, renamed, given)
  BY <1>1, Looking
<1>4. PICK r \in Rest(job[p].kind, t), renamed \in BOOLEAN, given \in BOOLEAN :
        /\ IsList(r) /\ Ready(job[p], t, before) /\ Tail(todo[p]) = r
        /\ Head(todo[p]) = LookJob(t, renamed, given)
  BY <1>3
<1>5. Head(todo[p]).t = t /\ Head(todo[p]).renamed = renamed  BY <1>4, JobsAre
<1>6. PICK l : l = LookAt(before, t, renamed)  OBVIOUS
<1>7. \/ Raises(p)
      \/ UNCHANGED <<db, before, block, result>> /\ todo' = [todo EXCEPT ![p] = Rebuild(t, l) \o r]
  BY <1>2, <1>4, <1>5, <1>6 DEF LookAtColumns
<1>8. CASE Raises(p)  BY <1>1, <1>8, RaisesKeep
<1>9. CASE UNCHANGED <<db, before, block, result>> /\ todo' = [todo EXCEPT ![p] = Rebuild(t, l) \o r]
  <2>1. PICK seen \in Views(t) : seen = Cols(before, t)
    <3>1. Exists(before, t) => before.tables[t] \in TableOf(t)  BY Stood, PartsOf DEF Exists
    <3> QED  BY <3>1, OneTable DEF Cols, Views
  <2>2. l = Look(t, renamed, seen)  BY <1>6, <2>1 DEF LookAt, Look
  <2>3. Rebuild(t, l) \o r = Left1(t, l, r)  BY <1>4, Lefts
  <2>4. Migrating(p, Left1(t, l, r), job[p], block, fk, db, before)  BY <1>2, <1>4, <2>2 DEF Migrating
  <2>5. Stands(p, Left1(t, l, r), job[p], block, fk, db, before, clash)  BY <2>4 DEF Stands
  <2> QED  BY <1>1, <1>2, <1>9, <2>3, <2>5, Looked
<1> QED  BY <1>7, <1>8, <1>9

\* What "Due" says, and where p's migration is.
LEMMA DueMigration ==
    ASSUME Inv, NEW p \in Procs, NEW ops, Due(p, ops), Migrating(p, todo[p], job[p], block, fk, db, before)
    PROVE  /\ todo[p] # <<>> /\ Head(todo[p]).op \in ops /\ block \in {None, p} /\ UNCHANGED <<fk, job, clash>>
           /\ job[p].kind \in {"migrate", "cli"}
           /\ {"plan", "look"} \cap ops = {} =>
              \E t \in Tables : \E r \in Rest(job[p].kind, t), renamed \in BOOLEAN, seen \in Views(t) :
                /\ IsList(r) /\ Ready(job[p], t, before)
                /\ MigrationAt(p, todo[p], block, fk, db, before, t, Look(t, renamed, seen), r)
<1>1. todo[p] # <<>> /\ Head(todo[p]).op \in ops /\ block \in {None, p} /\ UNCHANGED <<fk, job, clash>>
  BY DEF Due
<1>2. job[p].kind \in {"migrate", "cli"}  BY DEF Migrating
<1>3. ASSUME {"plan", "look"} \cap ops = {}
      PROVE  \E t \in Tables : \E r \in Rest(job[p].kind, t), renamed \in BOOLEAN, seen \in Views(t) :
                /\ IsList(r) /\ Ready(job[p], t, before)
                /\ MigrationAt(p, todo[p], block, fk, db, before, t, Look(t, renamed, seen), r)
  <2>1. Head(todo[p]).op \notin {"plan", "look"}  BY <1>1, <1>3
  <2> QED  BY <2>1, MigrationSteps
<1> QED  BY <1>1, <1>2, <1>3

LEMMA BeginKeeps ==
    ASSUME Inv, NEW p \in Procs, Begin(p)
    PROVE  Inv'
<1>1. /\ Due(p, {"begin"}) /\ block' = p /\ todo' = [todo EXCEPT ![p] = Tail(todo[p])]
      /\ UNCHANGED <<db, before, result>>
  BY DEF Begin
<1>2. Migrating(p, todo[p], job[p], block, fk, db, before)  BY <1>1, Stood, OpsOf DEF Stands, Due
<1>3. PICK t \in Tables : \E r \in Rest(job[p].kind, t), renamed \in BOOLEAN, seen \in Views(t) :
        /\ IsList(r) /\ Ready(job[p], t, before)
        /\ MigrationAt(p, todo[p], block, fk, db, before, t, Look(t, renamed, seen), r)
  BY <1>1, <1>2, DueMigration
<1>4. PICK r \in Rest(job[p].kind, t), renamed \in BOOLEAN, seen \in Views(t) :
        /\ IsList(r) /\ Ready(job[p], t, before)
        /\ MigrationAt(p, todo[p], block, fk, db, before, t, Look(t, renamed, seen), r)
  BY <1>3
<1> DEFINE l == Look(t, renamed, seen)
<1>5. todo[p] # <<>> /\ Head(todo[p]).op = "begin" /\ block \in {None, p} /\ UNCHANGED <<fk, job, clash>>
  BY <1>1, <1>2, DueMigration
<1>6. block = None /\ todo[p] = Left1(t, l, r)  BY <1>4, <1>5 DEF MigrationAt
<1>7. Tail(todo[p]) = Left2(t, l, r)  BY <1>4, <1>6, Lefts
<1>8. db = before /\ Inside(Left2(t, l, r), t, l, r, fk, db, before)  BY <1>6, Stood DEF Inside
<1>9. Migrating(p, Left2(t, l, r), job[p], p, fk, db, before)
  BY <1>1, <1>2, <1>4, <1>8, DueMigration DEF Migrating
<1>10. Standing(p)'
  <2>1. todo'[p] = Left2(t, l, r)  BY <1>1, <1>7, Stood
  <2>2. Stands(p, Left2(t, l, r), job[p], p, fk, db, before, clash)  BY <1>9 DEF Stands
  <2> HIDE DEF l
  <2> QED  BY <1>1, <1>5, <2>1, <2>2 DEF Standing
<1> DEFINE s == Tail(todo[p])
<1>11. todo' = [todo EXCEPT ![p] = s]  BY <1>1
<1> HIDE DEF s
<1> QED  BY ZenonT(30), <1>1, <1>5, <1>6, <1>8, <1>10, <1>11, Stood, StepKeeps

LEMMA RenameTableKeeps ==
    ASSUME Inv, NEW p \in Procs, RenameTable(p)
    PROVE  Inv'
<1>1. Due(p, {"rename"})  BY DEF RenameTable
<1>2. Migrating(p, todo[p], job[p], block, fk, db, before)  BY <1>1, Stood, OpsOf DEF Stands, Due
<1>3. PICK t \in Tables : \E r \in Rest(job[p].kind, t), renamed \in BOOLEAN, seen \in Views(t) :
        /\ IsList(r) /\ Ready(job[p], t, before)
        /\ MigrationAt(p, todo[p], block, fk, db, before, t, Look(t, renamed, seen), r)
  BY <1>1, <1>2, DueMigration
<1>4. PICK r \in Rest(job[p].kind, t), renamed \in BOOLEAN, seen \in Views(t) :
        /\ IsList(r) /\ Ready(job[p], t, before)
        /\ MigrationAt(p, todo[p], block, fk, db, before, t, Look(t, renamed, seen), r)
  BY <1>3
<1> DEFINE l == Look(t, renamed, seen)
<1>5. todo[p] # <<>> /\ Head(todo[p]).op = "rename" /\ UNCHANGED <<fk, job, clash>>
  BY <1>1, <1>2, DueMigration
<1>6. block = p /\ todo[p] = Left3(t, l, r) /\ db = before  BY <1>4, <1>5 DEF MigrationAt
<1>7. Tail(todo[p]) = Left4(t, l, r) /\ Len(todo[p]) # 1 /\ Head(todo[p]).t = t
  BY <1>4, <1>6, Lefts DEF Stmt
<1>8. CASE Raises(p)  BY <1>5, <1>8, RaisesKeep
<1>9. CASE Exists(db, t) /\ Done(p, Rename(db, t))
  <2>1. Inside(Tail(todo[p]), t, l, r, fk, Rename(db, t), before)  BY <1>6, <1>7, <1>9 DEF Inside
  <2>2. job[p].kind \in {"migrate", "cli"}  BY <1>1, <1>2, DueMigration
  <2> QED  BY <1>4, <1>5, <1>6, <1>7, <1>9, <2>1, <2>2, DoneInside
<1> QED  BY <1>7, <1>8, <1>9 DEF RenameTable

LEMMA CopyKeeps ==
    ASSUME Inv, NEW p \in Procs, Copy(p)
    PROVE  Inv'
<1>1. Due(p, {"copy"})  BY DEF Copy
<1>2. Migrating(p, todo[p], job[p], block, fk, db, before)  BY <1>1, Stood, OpsOf DEF Stands, Due
<1>3. PICK t \in Tables : \E r \in Rest(job[p].kind, t), renamed \in BOOLEAN, seen \in Views(t) :
        /\ IsList(r) /\ Ready(job[p], t, before)
        /\ MigrationAt(p, todo[p], block, fk, db, before, t, Look(t, renamed, seen), r)
  BY <1>1, <1>2, DueMigration
<1>4. PICK r \in Rest(job[p].kind, t), renamed \in BOOLEAN, seen \in Views(t) :
        /\ IsList(r) /\ Ready(job[p], t, before)
        /\ MigrationAt(p, todo[p], block, fk, db, before, t, Look(t, renamed, seen), r)
  BY <1>3
<1> DEFINE l == Look(t, renamed, seen)
<1>5. todo[p] # <<>> /\ Head(todo[p]).op = "copy" /\ UNCHANGED <<fk, job, clash>>
  BY <1>1, <1>2, DueMigration
<1>6. block = p /\ todo[p] = Left5(t, l, r) /\ db = Fresh(before, t) /\ Exists(before, t)
  BY <1>4, <1>5 DEF MigrationAt
<1>7. /\ Tail(todo[p]) = Left6(t, l, r) /\ Len(todo[p]) # 1
      /\ Head(todo[p]).t = t /\ Head(todo[p]).look = l
  BY <1>4, <1>6, Lefts
<1>8. CASE Raises(p)  BY <1>5, <1>8, RaisesKeep
<1> DEFINE d == CopyRows(db, t, l)
<1>9. CASE CanCopy(db, t, l.plan) /\ Done(p, d)
  <2>1. db.tables[Old[t]] = before.tables[t]
    <3>1. before \in Databases /\ Exists(before, t)  BY <1>6, Stood
    <3>2. Fresh(before, t).tables[Old[t]] = before.tables[t]  BY <3>1, FilledIs
    <3> QED  BY <1>6, <3>2
  <2>2. Fits(before, t, l)
    <3> HIDE DEF l
    <3> QED  BY <1>9, <2>1 DEF CanCopy, Fits
  <2>3. d = Filled(before, t, l)  BY <1>6 DEF Filled
  <2>4. Inside(Tail(todo[p]), t, l, r, fk, d, before)
    <3> HIDE DEF d, l
    <3> QED  BY <1>6, <1>7, <2>2, <2>3 DEF Inside
  <2>5. job[p].kind \in {"migrate", "cli"}  BY <1>1, <1>2, DueMigration
  <2> HIDE DEF d
  <2> QED  BY <1>4, <1>5, <1>6, <1>7, <1>9, <2>4, <2>5, DoneInside
<1> QED  BY <1>7, <1>8, <1>9 DEF Copy

\* What is left of a command line job, after a table, is a migration of the next.
LEMMA NextTable ==
    ASSUME NEW p, NEW j, NEW t \in Tables, NEW r \in Rest(j.kind, t), NEW at, at # p, NEW on, NEW d, NEW c, NEW cl,
           j.kind \in {"migrate", "cli", "create_all"},
           j.alone /\ j.kind \in {"cli", "create_all"} => Has(c, t, j.kind)
    PROVE  Stands(p, r, j, at, on, d, c, cl)
<1>1. CASE r = <<>>  BY <1>1 DEF Stands
<1>2. CASE r # <<>>
  <2>1. t = "users" /\ <<>> \in Rest(j.kind, "posts") /\ "posts" \in Tables  BY <1>2 DEF Rest, Tables
  <2>2. Ready(j, "posts", c)  BY <2>1 DEF Ready
  <2>3. CASE j.kind = "cli"
    <3>1. PICK renamed \in BOOLEAN : r = <<MigrateJob("posts", renamed, TRUE)>>  BY <2>1, <2>3 DEF Rest
    <3>2. PICK given \in BOOLEAN : given = TRUE  OBVIOUS
    <3>3. r = <<MigrateJob("posts", renamed, given)>> \o <<>>  BY <3>1, <3>2, Lists
    <3>4. Migrating(p, r, j, at, on, d, c)  BY <2>1, <2>2, <2>3, <3>3 DEF Migrating
    <3> QED  BY <3>4 DEF Stands
  <2>4. CASE j.kind = "create_all"
    <3>1. r = CreateTable("posts")  BY <2>1, <2>4 DEF Rest
    <3>2. CreateTable("posts") \o <<>> = CreateTable("posts")
      <4>1. CreateTable("posts") \in Seq({Stmt("create", "posts"), Stmt("index", "posts")})  BY DEF CreateTable
      <4> QED  BY <4>1, ConcatEmptySeq
    <3>3. Creating(p, r, j, at, c)  BY <2>1, <2>2, <2>4, <3>1, <3>2 DEF Creating
    <3> QED  BY <3>3 DEF Stands
  <2>5. j.kind # "migrate"  BY <1>2 DEF Rest
  <2> QED  BY <2>3, <2>4, <2>5
<1> QED  BY <1>1, <1>2

\* When all tables are as the model wants them.
LEMMA AllTables ==
    ASSUME NEW j, NEW t \in Tables, <<>> \in Rest(j.kind, t), NEW b, NEW c, Ready(j, t, b),
           t = "posts" => c.tables["users"] = b.tables["users"],
           j.alone, j.kind \in {"cli", "create_all"}, Has(c, t, j.kind),
           j.kind = "cli" => c.tables[t].ref = "users"
    PROVE  Synced(c, j.kind)
<1>1. t = "posts"
  <2>1. \A renamed : <<MigrateJob("posts", renamed, TRUE)>> # <<>>  OBVIOUS
  <2>2. CreateTable("posts") # <<>>  BY DEF CreateTable
  <2> QED  BY <2>1, <2>2 DEF Rest, Tables
<1>2. Has(c, "users", j.kind)  BY <1>1 DEF Ready, Has, Exists
<1> QED  BY <1>1, <1>2 DEF Synced, Tables, Has

LEMMA CommitKeeps ==
    ASSUME Inv, NEW p \in Procs, Commit(p)
    PROVE  Inv'
<1>1. Due(p, {"commit"})  BY DEF Commit
<1>2. Migrating(p, todo[p], job[p], block, fk, db, before)  BY <1>1, Stood, OpsOf DEF Stands, Due
<1>3. PICK t \in Tables : \E r \in Rest(job[p].kind, t), renamed \in BOOLEAN, seen \in Views(t) :
        /\ IsList(r) /\ Ready(job[p], t, before)
        /\ MigrationAt(p, todo[p], block, fk, db, before, t, Look(t, renamed, seen), r)
  BY <1>1, <1>2, DueMigration
<1>4. PICK r \in Rest(job[p].kind, t), renamed \in BOOLEAN, seen \in Views(t) :
        /\ IsList(r) /\ Ready(job[p], t, before)
        /\ MigrationAt(p, todo[p], block, fk, db, before, t, Look(t, renamed, seen), r)
  BY <1>3
<1> DEFINE l == Look(t, renamed, seen)
<1>5. /\ todo[p] # <<>> /\ Head(todo[p]).op = "commit" /\ UNCHANGED <<fk, job, clash>>
      /\ job[p].kind \in {"migrate", "cli"}
  BY <1>1, <1>2, DueMigration
<1>6. /\ block = p /\ todo[p] = Left8(t, l, r) /\ Exists(before, t) /\ Fits(before, t, l)
      /\ db = Rebuilt(fk, before, t, l)
  BY <1>4, <1>5 DEF MigrationAt
<1>7. Tail(todo[p]) = r /\ (Len(todo[p]) = 1 <=> r = <<>>)  BY <1>4, <1>6, Lefts
<1>8. PICK v \in {"none", "done"} : v = IF Len(todo[p]) = 1 THEN "done" ELSE "none"  OBVIOUS
<1>9. /\ block' = None /\ before' = db /\ db' = db
      /\ todo' = [todo EXCEPT ![p] = r] /\ result' = [result EXCEPT ![p] = v]
  BY <1>7, <1>8 DEF Commit
<1>10. PICK u \in Tables : u # t  BY DEF Tables
<1>11. /\ db \in Databases /\ db.fts = before.fts /\ \A x \in Triggers : db.trig[x] \in {None, before.trig[x]}
       /\ db.tables[t] = Final(before, t, l)
       /\ t = "posts" => db.tables["users"] = before.tables["users"]
  <2> HIDE DEF l
  <2> QED  BY <1>6, <1>10, Stood, RebuiltKeeps
<1>12. Agrees(db)  BY <1>6, Stood, MigrationKeeps
<1>13. clash \/ HasIndex(db)  BY <1>11, Stood DEF HasIndex
<1>14. Final(before, t, l) # None  BY <1>6, Stood, NewIsTable DEF Final
<1>15. Exists(db, t) /\ db.tables[t].idx /\ db.tables[t].cols = Fields[t] /\ db.tables[t].ref = "users"
  BY <1>11, <1>14 DEF Exists, Final, New
<1>16. Has(db, t, job[p].kind)  BY <1>15 DEF Has
<1>17. Stands(p, r, job[p], None, fk, db, db, clash)
  <2>1. None # p  BY Stood
  <2> QED  BY <1>5, <1>16, <2>1, NextTable
<1>18. Standing(p)'
  <2>1. todo'[p] = r  BY <1>9, Stood
  <2> QED  BY <1>5, <1>9, <1>17, <2>1 DEF Standing
<1>19. v = "done" => r = <<>>  BY <1>7, <1>8
<1>20. v = "done" /\ job[p].alone /\ job[p].kind \in {"cli", "create_all"} => Synced(before', job[p].kind)
  <2>1. ASSUME r = <<>>, job[p].alone, job[p].kind \in {"cli", "create_all"} PROVE Synced(db, job[p].kind)
    <3>1. <<>> \in Rest(job[p].kind, t)  BY <1>4, <2>1
    <3> QED  BY <1>4, <1>11, <1>15, <1>16, <2>1, <3>1, AllTables
  <2> QED  BY <1>9, <1>19, <2>1
<1>21. before' \in Databases /\ Agrees(before') /\ (clash \/ HasIndex(before'))  BY <1>9, <1>11, <1>12, <1>13
<1>22. /\ job[p].kind # "fts" => \A x \in Triggers : before.trig[x] = None => before'.trig[x] = None
       /\ job[p].kind # "drop_fts" => (before.fts # None => before'.fts # None)
  BY <1>9, <1>11
<1>23. {block, block'} \subseteq {None, p} /\ db' = before'  BY <1>6, <1>9
<1> HIDE DEF l
<1> QED  BY <1>5, <1>9, <1>18, <1>19, <1>20, <1>21, <1>22, <1>23, StepKeeps

-----------------------------------------------------------------------------
(***************************************************************************)
(* Steps of migrations and of other jobs.                                  *)
(***************************************************************************)
\* A table's creation, and its statement.
LEMMA CreationAt ==
    ASSUME NEW p, NEW s, NEW j, NEW at, NEW b, Creating(p, s, j, at, b)
    PROVE  /\ at # p /\ j.kind \in {"migrate", "cli", "create_all"}
           /\ \E t \in Tables : \E r \in Rest(j.kind, t) :
                /\ IsList(r) /\ Ready(j, t, b) /\ Head(s).t = t
                /\ \/ /\ Head(s).op = "create" /\ Tail(s) = <<Stmt("index", t)>> \o r
                      /\ j.alone /\ j.kind = "cli" => ~Exists(b, t)
                   \/ /\ Head(s).op = "index" /\ Tail(s) = r
                      /\ j.alone => Exists(b, t)
                      /\ j.alone /\ j.kind = "cli" =>
                            b.tables[t].cols = Fields[t] /\ b.tables[t].ref = "users"
<1>1. PICK t \in Tables : \E r \in Rest(j.kind, t) :
        /\ Ready(j, t, b)
        /\ \/ /\ s = CreateTable(t) \o r
              /\ j.alone /\ j.kind = "cli" => ~Exists(b, t)
           \/ /\ s = <<Stmt("index", t)>> \o r
              /\ j.alone => Exists(b, t)
              /\ j.alone /\ j.kind = "cli" =>
                    b.tables[t].cols = Fields[t] /\ b.tables[t].ref = "users"
  BY DEF Creating
<1>2. PICK r \in Rest(j.kind, t) :
        /\ Ready(j, t, b)
        /\ \/ /\ s = CreateTable(t) \o r
              /\ j.alone /\ j.kind = "cli" => ~Exists(b, t)
           \/ /\ s = <<Stmt("index", t)>> \o r
              /\ j.alone => Exists(b, t)
              /\ j.alone /\ j.kind = "cli" =>
                    b.tables[t].cols = Fields[t] /\ b.tables[t].ref = "users"
  BY <1>1
<1>3. IsList(r)  BY RestIsList
<1>4. /\ Head(CreateTable(t) \o r) = Stmt("create", t)
      /\ Tail(CreateTable(t) \o r) = <<Stmt("index", t)>> \o r
      /\ Head(<<Stmt("index", t)>> \o r) = Stmt("index", t)
      /\ Tail(<<Stmt("index", t)>> \o r) = r
  BY <1>3, Creations
<1>5. Stmt("create", t).op = "create" /\ Stmt("create", t).t = t /\ Stmt("index", t).op = "index" /\ Stmt("index", t).t = t
  BY DEF Stmt
<1> QED  BY <1>2, <1>3, <1>4, <1>5 DEF Creating

LEMMA CreateKeepsInv ==
    ASSUME Inv, NEW p \in Procs, Create(p)
    PROVE  Inv'
<1>1. /\ Due(p, {"create", "create_new"}) /\ todo[p] # <<>> /\ block \in {None, p}
      /\ Head(todo[p]).op \in {"create", "create_new"} /\ UNCHANGED <<fk, job, clash>>
  BY DEF Create, Due
<1>2. \/ Migrating(p, todo[p], job[p], block, fk, db, before)
      \/ Creating(p, todo[p], job[p], block, before)
  BY <1>1, Stood, OpsOf DEF Stands
<1>3. CASE Migrating(p, todo[p], job[p], block, fk, db, before)
  <2>1. PICK t \in Tables : \E r \in Rest(job[p].kind, t), renamed \in BOOLEAN, seen \in Views(t) :
          /\ IsList(r) /\ Ready(job[p], t, before)
          /\ MigrationAt(p, todo[p], block, fk, db, before, t, Look(t, renamed, seen), r)
    BY <1>1, <1>3, DueMigration
  <2>2. PICK r \in Rest(job[p].kind, t), renamed \in BOOLEAN, seen \in Views(t) :
          /\ IsList(r) /\ Ready(job[p], t, before)
          /\ MigrationAt(p, todo[p], block, fk, db, before, t, Look(t, renamed, seen), r)
    BY <2>1
  <2> DEFINE l == Look(t, renamed, seen)
  <2>3. /\ block = p /\ todo[p] = Left4(t, l, r) /\ db = Rename(before, t) /\ Exists(before, t)
        /\ Head(todo[p]).op = "create_new"
    BY <1>1, <2>2 DEF MigrationAt
  <2>4. Tail(todo[p]) = Left5(t, l, r) /\ Len(todo[p]) # 1 /\ Head(todo[p]).t = t
    BY <2>2, <2>3, Lefts DEF Stmt
  <2>5. CASE Raises(p)  BY <1>1, <2>5, RaisesKeep
  <2> DEFINE d == [db EXCEPT !.tables[t] = Table(Fields[t])]
  <2>6. CASE Done(p, d)
    <3>1. d = Fresh(before, t)  BY <2>3 DEF Fresh
    <3>2. Inside(Tail(todo[p]), t, l, r, fk, d, before)
      <4> HIDE DEF d, l
      <4> QED  BY <2>3, <2>4, <3>1 DEF Inside
    <3>3. job[p].kind \in {"migrate", "cli"}  BY <1>3 DEF Migrating
    <3> HIDE DEF d
    <3> QED  BY <1>1, <2>2, <2>3, <2>4, <2>6, <3>2, <3>3, DoneInside
  <2> QED  BY <2>3, <2>4, <2>5, <2>6 DEF Create
<1>4. CASE Creating(p, todo[p], job[p], block, before)
  <2>1. PICK t \in Tables : \E r \in Rest(job[p].kind, t) :
          /\ IsList(r) /\ Ready(job[p], t, before) /\ Head(todo[p]).t = t
          /\ Head(todo[p]).op = "create" /\ Tail(todo[p]) = <<Stmt("index", t)>> \o r
          /\ job[p].alone /\ job[p].kind = "cli" => ~Exists(before, t)
    BY ZenonT(30), <1>1, <1>4, CreationAt
  <2>2. PICK r \in Rest(job[p].kind, t) :
          /\ IsList(r) /\ Ready(job[p], t, before) /\ Head(todo[p]).t = t
          /\ Head(todo[p]).op = "create" /\ Tail(todo[p]) = <<Stmt("index", t)>> \o r
          /\ job[p].alone /\ job[p].kind = "cli" => ~Exists(before, t)
    BY <2>1
  <2>3. block = None /\ db = before /\ block # p  BY <1>1, <1>4, CreationAt, Stood
  <2>4. job[p].kind \in {"migrate", "cli", "create_all"} /\ Tail(todo[p]) # <<>>
    <3>1. job[p].kind \in {"migrate", "cli", "create_all"}  BY <1>4 DEF Creating
    <3>2. Tail(todo[p]) # <<>>  BY <2>2, Creations
    <3> QED  BY <3>1, <3>2
  <2> DEFINE e == WithTable(before, t)
  <2>5. \/ ~Exists(before, t) /\ Done(p, e)
        \/ Exists(before, t) /\ Done(p, before)
    BY <2>2, <2>3 DEF Create, WithTable
  <2>6. CASE Exists(before, t) /\ Done(p, before)
    <3>1. Creating(p, Tail(todo[p]), job[p], None, before)  BY <2>2, <2>3, <2>4, <2>6 DEF Creating
    <3>2. Stands(p, Tail(todo[p]), job[p], None, fk, before, before, clash)  BY <3>1 DEF Stands
    <3> QED  BY <1>1, <2>3, <2>4, <2>6, <3>2, Stood, DoneOutside
  <2>7. CASE ~Exists(before, t) /\ Done(p, e)
    <3>1. PICK c : c = e  OBVIOUS
    <3>2. /\ c \in Databases /\ (Agrees(before) => Agrees(c)) /\ c.fts = before.fts /\ c.trig = before.trig
          /\ Exists(c, t) /\ c.tables[t].cols = Fields[t] /\ c.tables[t].ref = "users"
          /\ \A n \in Names \ {t} : c.tables[n] = before.tables[n]
      BY <2>7, <3>1, Stood, CreateKeeps
    <3>3. Ready(job[p], t, c)
      <4>1. t = "posts" => c.tables["users"] = before.tables["users"]  BY <3>2, NamesApart
      <4> QED  BY <2>2, <4>1 DEF Ready, Has, Exists
    <3>4. Creating(p, Tail(todo[p]), job[p], None, c)  BY <2>2, <2>3, <2>4, <3>2, <3>3 DEF Creating
    <3>5. Stands(p, Tail(todo[p]), job[p], None, fk, c, c, clash)  BY <3>4 DEF Stands
    <3>6. clash \/ HasIndex(c)  BY <3>2, Stood DEF HasIndex
    <3>7. Done(p, c)  BY <2>7, <3>1
    <3>8. Agrees(c)  BY <3>2, Stood
    <3> HIDE DEF e
    <3> QED  BY <1>1, <2>3, <2>4, <3>2, <3>5, <3>6, <3>7, <3>8, DoneOutside
  <2> QED  BY <2>5, <2>6, <2>7
<1> QED  BY <1>2, <1>3, <1>4

\* A statement of an index, when the table has been created.
LEMMA IndexedKeeps ==
    ASSUME Inv, NEW p \in Procs, todo[p] # <<>>, UNCHANGED <<fk, job, clash>>, block = None,
           NEW t \in Tables, NEW r \in Rest(job[p].kind, t), Ready(job[p], t, before), Tail(todo[p]) = r,
           job[p].kind \in {"migrate", "cli", "create_all"},
           job[p].alone /\ job[p].kind = "cli" => before.tables[t].cols = Fields[t] /\ before.tables[t].ref = "users",
           NEW c, Done(p, c), c \in Databases, Agrees(c), c.fts = before.fts, c.trig = before.trig,
           Exists(c, t), c.tables[t].idx, c.tables[t].cols = before.tables[t].cols,
           c.tables[t].ref = before.tables[t].ref, \A n \in Names \ {t} : c.tables[n] = before.tables[n]
    PROVE  Inv'
<1>1. job[p].alone => Has(c, t, job[p].kind)  BY DEF Has
<1>2. Stands(p, r, job[p], None, fk, c, c, clash)
  <2>1. None # p  BY Stood
  <2> QED  BY <1>1, <2>1, NextTable
<1>3. clash \/ HasIndex(c)  BY Stood DEF HasIndex
<1>4. ASSUME r = <<>>, job[p].alone, job[p].kind \in {"cli", "create_all"} PROVE Synced(c, job[p].kind)
  <2>1. t = "posts" => c.tables["users"] = before.tables["users"]  BY NamesApart
  <2>2. <<>> \in Rest(job[p].kind, t)  BY <1>4
  <2>3. job[p].kind = "cli" => c.tables[t].ref = "users"  BY <1>4
  <2> QED  BY <1>1, <1>4, <2>1, <2>2, <2>3, AllTables
<1> QED  BY <1>2, <1>3, <1>4, DoneOutside

LEMMA IndexKeepsInv ==
    ASSUME Inv, NEW p \in Procs, Index(p)
    PROVE  Inv'
<1>1. /\ Due(p, {"index"}) /\ todo[p] # <<>> /\ block \in {None, p}
      /\ Head(todo[p]).op = "index" /\ UNCHANGED <<fk, job, clash>>
  BY DEF Index, Due
<1>2. \/ Migrating(p, todo[p], job[p], block, fk, db, before)
      \/ Creating(p, todo[p], job[p], block, before)
  BY <1>1, Stood, OpsOf DEF Stands
<1>3. CASE Migrating(p, todo[p], job[p], block, fk, db, before)
  <2>1. PICK t \in Tables : \E r \in Rest(job[p].kind, t), renamed \in BOOLEAN, seen \in Views(t) :
          /\ IsList(r) /\ Ready(job[p], t, before)
          /\ MigrationAt(p, todo[p], block, fk, db, before, t, Look(t, renamed, seen), r)
    BY <1>1, <1>3, DueMigration
  <2>2. PICK r \in Rest(job[p].kind, t), renamed \in BOOLEAN, seen \in Views(t) :
          /\ IsList(r) /\ Ready(job[p], t, before)
          /\ MigrationAt(p, todo[p], block, fk, db, before, t, Look(t, renamed, seen), r)
    BY <2>1
  <2> DEFINE l == Look(t, renamed, seen)
  <2>3. /\ block = p /\ todo[p] = Left7(t, l, r) /\ db = Swapped(fk, before, t, l) /\ Exists(before, t)
        /\ Fits(before, t, l)
    BY <1>1, <2>2 DEF MigrationAt
  <2>4. Tail(todo[p]) = Left8(t, l, r) /\ Len(todo[p]) # 1 /\ Head(todo[p]).t = t
    BY <2>2, <2>3, Lefts DEF Stmt
  <2>5. ~IndexTaken(db, t) /\ Exists(db, t)
    <3>1. PICK u \in Tables : u # t  BY DEF Tables
    <3>2. before \in Databases /\ fk \in BOOLEAN  BY Stood
    <3> HIDE DEF l
    <3> QED  BY <2>3, <3>1, <3>2, RebuiltKeeps
  <2> DEFINE d == [db EXCEPT !.tables[t].idx = TRUE]
  <2>6. Done(p, d)  BY <2>4, <2>5 DEF Index
  <2>7. d = Rebuilt(fk, before, t, l)  BY <2>3 DEF Rebuilt
  <2>8. Inside(Tail(todo[p]), t, l, r, fk, d, before)
    <3> HIDE DEF d, l
    <3> QED  BY <2>3, <2>4, <2>7 DEF Inside
  <2>9. job[p].kind \in {"migrate", "cli"}  BY <1>3 DEF Migrating
  <2> HIDE DEF d
  <2> QED  BY <1>1, <2>2, <2>3, <2>4, <2>6, <2>8, <2>9, DoneInside
<1>4. CASE Creating(p, todo[p], job[p], block, before)
  <2>0. PICK t \in Tables : \E r \in Rest(job[p].kind, t) :
          /\ IsList(r) /\ Ready(job[p], t, before) /\ Head(todo[p]).t = t
          /\ \/ /\ Head(todo[p]).op = "create" /\ Tail(todo[p]) = <<Stmt("index", t)>> \o r
                /\ job[p].alone /\ job[p].kind = "cli" => ~Exists(before, t)
             \/ /\ Head(todo[p]).op = "index" /\ Tail(todo[p]) = r
                /\ job[p].alone => Exists(before, t)
                /\ job[p].alone /\ job[p].kind = "cli" =>
                      before.tables[t].cols = Fields[t] /\ before.tables[t].ref = "users"
    BY SMTT(20), <1>4, CreationAt
  <2>1. PICK r \in Rest(job[p].kind, t) :
          /\ IsList(r) /\ Ready(job[p], t, before) /\ Head(todo[p]).t = t
          /\ \/ /\ Head(todo[p]).op = "create" /\ Tail(todo[p]) = <<Stmt("index", t)>> \o r
                /\ job[p].alone /\ job[p].kind = "cli" => ~Exists(before, t)
             \/ /\ Head(todo[p]).op = "index" /\ Tail(todo[p]) = r
                /\ job[p].alone => Exists(before, t)
                /\ job[p].alone /\ job[p].kind = "cli" =>
                      before.tables[t].cols = Fields[t] /\ before.tables[t].ref = "users"
    BY <2>0
  <2>2. /\ IsList(r) /\ Ready(job[p], t, before) /\ Head(todo[p]).t = t /\ Tail(todo[p]) = r
        /\ job[p].alone /\ job[p].kind = "cli" =>
              before.tables[t].cols = Fields[t] /\ before.tables[t].ref = "users"
    BY <1>1, <2>1
  <2>3. block = None /\ db = before /\ block # p  BY <1>1, <1>4, CreationAt, Stood
  <2>4. job[p].kind \in {"migrate", "cli", "create_all"}  BY <1>4 DEF Creating
  <2> DEFINE e == WithIndexes(before, t)
  <2>5. \/ Raises(p)
        \/ Exists(before, t) /\ IndexTaken(before, t) /\ Done(p, before)
        \/ Exists(before, t) /\ Done(p, e)
    BY <2>2, <2>3 DEF Index, WithIndexes
  <2>6. CASE Raises(p)  BY <1>1, <2>6, RaisesKeep
  <2>7. CASE Exists(before, t) /\ IndexTaken(before, t) /\ Done(p, before)
    <3>1. before.tables[t].idx  BY <2>7, Stood, PartsOf DEF IndexTaken
    <3> QED  BY <1>1, <2>2, <2>3, <2>4, <2>7, <3>1, Stood, IndexedKeeps
  <2>8. CASE Exists(before, t) /\ Done(p, e)
    <3>1. PICK c : c = e  OBVIOUS
    <3>2. /\ c \in Databases /\ (Agrees(before) => Agrees(c)) /\ c.fts = before.fts /\ c.trig = before.trig
          /\ Exists(c, t) /\ c.tables[t].idx /\ c.tables[t].cols = before.tables[t].cols
          /\ c.tables[t].ref = before.tables[t].ref
          /\ \A n \in Names \ {t} : c.tables[n] = before.tables[n]
      BY <2>8, <3>1, Stood, IndexKeeps
    <3>3. Done(p, c) /\ Agrees(c)  BY <2>8, <3>1, <3>2, Stood
    <3> HIDE DEF e
    <3> QED  BY <1>1, <2>2, <2>3, <2>4, <3>2, <3>3, IndexedKeeps
  <2> QED  BY <2>5, <2>6, <2>7, <2>8
<1> QED  BY <1>2, <1>3, <1>4

LEMMA DropKeepsInv ==
    ASSUME Inv, NEW p \in Procs, Drop(p)
    PROVE  Inv'
<1>1. /\ Due(p, {"drop"}) /\ todo[p] # <<>> /\ block \in {None, p}
      /\ Head(todo[p]).op = "drop" /\ UNCHANGED <<fk, job, clash>>
  BY DEF Drop, Due
<1>2. \/ Migrating(p, todo[p], job[p], block, fk, db, before)
      \/ Dropping(p, todo[p], job[p], block)
  BY <1>1, Stood, OpsOf DEF Stands
<1>3. CASE Migrating(p, todo[p], job[p], block, fk, db, before)
  <2>1. PICK t \in Tables : \E r \in Rest(job[p].kind, t), renamed \in BOOLEAN, seen \in Views(t) :
          /\ IsList(r) /\ Ready(job[p], t, before)
          /\ MigrationAt(p, todo[p], block, fk, db, before, t, Look(t, renamed, seen), r)
    BY <1>1, <1>3, DueMigration
  <2>2. PICK r \in Rest(job[p].kind, t), renamed \in BOOLEAN, seen \in Views(t) :
          /\ IsList(r) /\ Ready(job[p], t, before)
          /\ MigrationAt(p, todo[p], block, fk, db, before, t, Look(t, renamed, seen), r)
    BY <2>1
  <2> DEFINE l == Look(t, renamed, seen)
  <2>3. block = p /\ \/ todo[p] = Left2(t, l, r) /\ db = before
                     \/ todo[p] = Left6(t, l, r) /\ Exists(before, t) /\ Fits(before, t, l)
                        /\ db = Filled(before, t, l)
    BY <1>1, <2>2 DEF MigrationAt
  <2>4. /\ Head(todo[p]).t = Old[t] /\ Len(todo[p]) # 1
        /\ Tail(todo[p]) = IF todo[p] = Left2(t, l, r) THEN Left3(t, l, r) ELSE Left7(t, l, r)
    <3>1. CASE todo[p] = Left2(t, l, r)  BY <2>2, <3>1, Lefts DEF Stmt
    <3>2. CASE todo[p] # Left2(t, l, r)
      <4>1. todo[p] = Left6(t, l, r)  BY <2>3, <3>2
      <4> QED  BY <2>2, <3>2, <4>1, Lefts DEF Stmt
    <3> QED  BY <3>1, <3>2
  <2>5. PICK d : d = Dropped(fk, db, Old[t])  OBVIOUS
  <2>6. Done(p, d)  BY <2>4, <2>5, DropIsDropped DEF Drop
  <2>7. Inside(Tail(todo[p]), t, l, r, fk, d, before)
    <3>1. CASE todo[p] = Left2(t, l, r) /\ db = before
      <4>1. d = before  BY <2>5, <3>1, Stood, PartsOf DEF Dropped
      <4> QED  BY <2>4, <3>1, <4>1 DEF Inside
    <3>2. CASE todo[p] = Left6(t, l, r) /\ Exists(before, t) /\ Fits(before, t, l) /\ db = Filled(before, t, l)
      <4>1. d = Swapped(fk, before, t, l)  BY <2>5, <3>2 DEF Swapped
      <4>2. Tail(todo[p]) = Left7(t, l, r)  BY <2>2, <3>2, Lefts
      <4> HIDE DEF l
      <4> QED  BY <3>2, <4>1, <4>2 DEF Inside
    <3> QED  BY <2>3, <3>1, <3>2
  <2>8. job[p].kind \in {"migrate", "cli"}  BY <1>3 DEF Migrating
  <2> QED  BY <1>1, <2>2, <2>3, <2>4, <2>6, <2>7, <2>8, DoneInside
<1>4. CASE Dropping(p, todo[p], job[p], block)
  <2>1. block = None /\ db = before /\ job[p].kind = "drop_all"  BY <1>1, <1>4, Stood DEF Dropping
  <2>2. Head(todo[p]).t \in Tables /\ Tail(todo[p]) \in {<<>>, <<Stmt("drop", "users")>>}
    <3> DEFINE a == Stmt("drop", "posts")
               b == Stmt("drop", "users")
    <3>1. todo[p] = <<a, b>> \/ todo[p] = <<b>>  BY <1>4 DEF Dropping, DropAll
    <3>2. a.t \in Tables /\ b.t \in Tables  BY DEF Stmt, Tables
    <3> HIDE DEF a, b
    <3>3. Head(<<a, b>>) = a /\ Tail(<<a, b>>) = <<b>> /\ Head(<<b>>) = b /\ Tail(<<b>>) = <<>>  BY Short
    <3>4. Head(todo[p]) \in {a, b} /\ Tail(todo[p]) \in {<<>>, <<b>>}  BY <3>1, <3>3
    <3>5. Tail(todo[p]) \in {<<>>, <<Stmt("drop", "users")>>}  BY <3>4 DEF b
    <3> QED  BY <3>2, <3>4, <3>5
  <2>3. PICK c : c = Dropped(fk, before, Head(todo[p]).t)  OBVIOUS
  <2>4. Done(p, c)  BY <2>1, <2>3, DropIsDropped DEF Drop
  <2>5. /\ c \in Databases /\ (Agrees(before) => Agrees(c))
        /\ c.fts = before.fts /\ \A x \in Triggers : c.trig[x] \in {None, before.trig[x]}
    BY <2>2, <2>3, Stood, DropKeeps
  <2>6. clash \/ HasIndex(c)  BY <2>5, Stood DEF HasIndex
  <2>7. Stands(p, Tail(todo[p]), job[p], None, fk, c, c, clash)
    BY <2>1, <2>2, Stood DEF Stands, Dropping
  <2> QED  BY <1>1, <2>1, <2>4, <2>5, <2>6, <2>7, Stood, DoneOutside
<1> QED  BY <1>2, <1>3, <1>4

-----------------------------------------------------------------------------
(***************************************************************************)
(* Steps of the jobs of the index.                                         *)
(***************************************************************************)
\* What is left of them.
LEMMA IndexingAt ==
    ASSUME NEW p, NEW s, NEW j, NEW at, NEW b, NEW cl, Indexing(p, s, j, at, b, cl)
    PROVE  /\ at # p /\ j.kind = "fts"
           /\ (Head(s).op = "fts" \/ cl \/ b.fts # None)
           /\ \A c, cl2 : cl2 \/ c.fts # None => Tail(s) = <<>> \/ Indexing(p, Tail(s), j, at, c, cl2)
<1> DEFINE w == Stmt("fts", "users")
           x == Stmt("ai", "users")
           y == Stmt("ad", "users")
           z == Stmt("au", "users")
<1>1. /\ at # p /\ j.kind = "fts"
      /\ \/ s = <<w, x, y, z>>
         \/ (cl \/ b.fts # None) /\ s \in {<<x, y, z>>, <<y, z>>, <<z>>}
  BY DEF Indexing, CreateIndex
<1>2. w.op = "fts"  BY DEF Stmt
<1>3. ASSUME NEW c, NEW cl2, cl2 \/ c.fts # None
      PROVE  \A q \in {<<x, y, z>>, <<y, z>>, <<z>>} : Indexing(p, q, j, at, c, cl2)
  BY <1>1, <1>3 DEF Indexing
<1> HIDE DEF w, x, y, z
<1>4. /\ Head(<<w, x, y, z>>) = w /\ Tail(<<w, x, y, z>>) = <<x, y, z>> /\ Tail(<<x, y, z>>) = <<y, z>>
      /\ Tail(<<y, z>>) = <<z>> /\ Tail(<<z>>) = <<>>
  BY Short
<1>5. Tail(s) \in {<<x, y, z>>, <<y, z>>, <<z>>, <<>>}  BY <1>1, <1>4
<1> QED  BY <1>1, <1>2, <1>3, <1>4, <1>5

LEMMA CreateFtsKeeps ==
    ASSUME Inv, NEW p \in Procs, CreateFts(p)
    PROVE  Inv'
<1>1. /\ Due(p, {"fts"}) /\ todo[p] # <<>> /\ block \in {None, p}
      /\ Head(todo[p]).op = "fts" /\ UNCHANGED <<fk, job, clash>>
  BY DEF CreateFts, Due
<1>2. Indexing(p, todo[p], job[p], block, before, clash)  BY <1>1, Stood, OpsOf DEF Stands
<1>3. block = None /\ db = before /\ job[p].kind = "fts"  BY <1>1, <1>2, IndexingAt, Stood
<1>4. PICK c : c = WithFts(before)  OBVIOUS
<1>5. Done(p, c)  BY <1>3, <1>4 DEF CreateFts, WithFts
<1>6. c \in Databases /\ (Agrees(before) => Agrees(c)) /\ c.fts # None /\ c.trig = before.trig
  BY <1>4, Stood, FtsKeeps
<1>7. clash \/ HasIndex(c)  BY <1>6 DEF HasIndex
<1>8. Stands(p, Tail(todo[p]), job[p], None, fk, c, c, clash)
  <2>1. Tail(todo[p]) = <<>> \/ Indexing(p, Tail(todo[p]), job[p], block, c, clash)  BY <1>2, <1>6, IndexingAt
  <2> QED  BY <1>3, <2>1, Stood DEF Stands
<1>9. Agrees(c)  BY <1>6, Stood
<1> QED  BY <1>1, <1>3, <1>5, <1>6, <1>7, <1>8, <1>9, DoneOutside

LEMMA CreateTriggerKeeps ==
    ASSUME Inv, NEW p \in Procs, CreateTrigger(p)
    PROVE  Inv'
<1>1. /\ Due(p, Triggers) /\ todo[p] # <<>> /\ block \in {None, p}
      /\ Head(todo[p]).op \in Triggers /\ UNCHANGED <<fk, job, clash>>
  BY DEF CreateTrigger, Due
<1>2. Indexing(p, todo[p], job[p], block, before, clash)  BY <1>1, Stood, OpsOf DEF Stands, Triggers
<1>3. /\ block = None /\ db = before /\ job[p].kind = "fts" /\ (clash \/ before.fts # None)
  BY <1>1, <1>2, IndexingAt, Stood DEF Triggers
<1> DEFINE x == Head(todo[p]).op
<1>4. CASE Raises(p)  BY <1>1, <1>4, RaisesKeep
<1>5. CASE ~Raises(p)
  <2>1. PICK v : v = IF before.trig[x] = None THEN "users" ELSE before.trig[x]  OBVIOUS
  <2>2. v \in {None} \cup Names /\ x \in Triggers
    <3>1. before.trig \in [Triggers -> {None} \cup Names]  BY Stood, PartsOf
    <3> QED  BY <1>1, <2>1, <3>1, NamesApart
  <2>3. PICK c : c = WithTrigger(before, x, v)  OBVIOUS
  <2>4. Done(p, c)  BY <1>3, <1>5, <2>1, <2>3 DEF CreateTrigger, WithTrigger
  <2>5. c \in Databases /\ (Agrees(before) => Agrees(c)) /\ c.fts = before.fts
    <3> HIDE DEF x
    <3> QED  BY <2>2, <2>3, Stood, TriggersKeep
  <2>6. clash \/ HasIndex(c)  BY <1>3, <2>5 DEF HasIndex
  <2>7. Stands(p, Tail(todo[p]), job[p], None, fk, c, c, clash)
    <3>1. clash \/ c.fts # None  BY <1>3, <2>5
    <3>2. Tail(todo[p]) = <<>> \/ Indexing(p, Tail(todo[p]), job[p], block, c, clash)  BY <1>2, <3>1, IndexingAt
    <3> QED  BY <1>3, <3>2, Stood DEF Stands
  <2>8. Agrees(c)  BY <2>5, Stood
  <2> QED  BY <1>1, <1>3, <2>4, <2>5, <2>6, <2>7, <2>8, DoneOutside
<1> QED  BY <1>4, <1>5

LEMMA ReindexKeepsInv ==
    ASSUME Inv, NEW p \in Procs, Reindex(p)
    PROVE  Inv'
<1>1. /\ Due(p, {"rebuild"}) /\ todo[p] # <<>> /\ block \in {None, p}
      /\ Head(todo[p]).op = "rebuild" /\ UNCHANGED <<fk, job, clash>>
  BY DEF Reindex, Due
<1>2. Reindexing(p, todo[p], job[p], block)  BY <1>1, Stood, OpsOf DEF Stands
<1>3. block = None /\ db = before /\ job[p].kind = "rebuild" /\ Tail(todo[p]) = <<>>
  BY <1>1, <1>2, Stood, Short DEF Reindexing
<1>4. CASE Raises(p)  BY <1>1, <1>4, RaisesKeep
<1>5. CASE ~Raises(p)
  <2>1. PICK W : W = Words(before)  OBVIOUS
  <2>2. PICK c : c = WithWords(before, W)  OBVIOUS
  <2>3. Done(p, c) /\ before.fts # None  BY <1>3, <1>5, <2>1, <2>2 DEF Reindex, WithWords, Words
  <2>4. c \in Databases /\ Agrees(c) /\ c.fts # None /\ c.trig = before.trig
    BY <2>1, <2>2, Stood, ReindexKeeps
  <2>5. clash \/ HasIndex(c)  BY <2>4 DEF HasIndex
  <2>6. Stands(p, Tail(todo[p]), job[p], None, fk, c, c, clash)  BY <1>3, Stood DEF Stands
  <2> QED  BY <1>1, <1>3, <2>3, <2>4, <2>5, <2>6, DoneOutside
<1> QED  BY <1>4, <1>5

\* The trigger a statement drops.
DroppedTrigger(op) ==
    CASE op = "drop_ai" -> "ai"
      [] op = "drop_ad" -> "ad"
      [] OTHER -> "au"

LEMMA UnindexingAt ==
    ASSUME NEW p, NEW s, NEW j, NEW at, NEW b, NEW cl, Unindexing(p, s, j, at, b, cl)
    PROVE  /\ at # p /\ j.kind = "drop_fts"
           /\ Head(s).op = "drop_fts" => Tail(s) = <<>> /\ Gone(b, cl, Triggers)
           /\ \A c : /\ Head(s).op # "drop_fts"
                     /\ c.trig[DroppedTrigger(Head(s).op)] = None
                     /\ \A x \in Triggers : c.trig[x] \in {None, b.trig[x]}
                     => Unindexing(p, Tail(s), j, at, c, cl)
<1> DEFINE w == Stmt("drop_ai", "users")
           x == Stmt("drop_ad", "users")
           y == Stmt("drop_au", "users")
           z == Stmt("drop_fts", "users")
<1>1. /\ at # p /\ j.kind = "drop_fts"
      /\ \/ s = <<w, x, y, z>>
         \/ s = <<x, y, z>> /\ Gone(b, cl, {"ai"})
         \/ s = <<y, z>> /\ Gone(b, cl, {"ai", "ad"})
         \/ s = <<z>> /\ Gone(b, cl, Triggers)
  BY DEF Unindexing, DropIndex
<1>2. w.op = "drop_ai" /\ x.op = "drop_ad" /\ y.op = "drop_au" /\ z.op = "drop_fts"  BY DEF Stmt
<1>3. ASSUME NEW c
      PROVE  /\ Gone(c, cl, {"ai"}) => Unindexing(p, <<x, y, z>>, j, at, c, cl)
             /\ Gone(c, cl, {"ai", "ad"}) => Unindexing(p, <<y, z>>, j, at, c, cl)
             /\ Gone(c, cl, Triggers) => Unindexing(p, <<z>>, j, at, c, cl)
  BY <1>1 DEF Unindexing
<1> HIDE DEF w, x, y, z
<1>4. /\ Head(<<w, x, y, z>>) = w /\ Tail(<<w, x, y, z>>) = <<x, y, z>>
      /\ Head(<<x, y, z>>) = x /\ Tail(<<x, y, z>>) = <<y, z>>
      /\ Head(<<y, z>>) = y /\ Tail(<<y, z>>) = <<z>> /\ Head(<<z>>) = z /\ Tail(<<z>>) = <<>>
  BY Short
<1>5. Head(s).op = "drop_fts" => Tail(s) = <<>> /\ Gone(b, cl, Triggers)  BY <1>1, <1>2, <1>4
<1>6. ASSUME NEW c, Head(s).op # "drop_fts", c.trig[DroppedTrigger(Head(s).op)] = None,
             \A q \in Triggers : c.trig[q] \in {None, b.trig[q]}
      PROVE  Unindexing(p, Tail(s), j, at, c, cl)
  <2>1. \A xs \in SUBSET Triggers : Gone(b, cl, xs) => Gone(c, cl, xs)  BY <1>6 DEF Gone
  <2>2. CASE s = <<w, x, y, z>>
    <3>1. c.trig["ai"] = None  BY <1>2, <1>4, <1>6, <2>2 DEF DroppedTrigger
    <3>2. Gone(c, cl, {"ai"})  BY <3>1 DEF Gone
    <3> QED  BY <1>3, <1>4, <2>2, <3>2
  <2>3. CASE s = <<x, y, z>> /\ Gone(b, cl, {"ai"})
    <3>1. c.trig["ad"] = None  BY <1>2, <1>4, <1>6, <2>3 DEF DroppedTrigger
    <3>2. Gone(c, cl, {"ai"})  BY <2>1, <2>3 DEF Triggers
    <3>3. Gone(c, cl, {"ai", "ad"})  BY <3>1, <3>2 DEF Gone
    <3> QED  BY <1>3, <1>4, <2>3, <3>3
  <2>4. CASE s = <<y, z>> /\ Gone(b, cl, {"ai", "ad"})
    <3>1. c.trig["au"] = None  BY <1>2, <1>4, <1>6, <2>4 DEF DroppedTrigger
    <3>2. Gone(c, cl, {"ai", "ad"})  BY <2>1, <2>4 DEF Triggers
    <3>3. Gone(c, cl, Triggers)  BY <3>1, <3>2 DEF Gone, Triggers
    <3> QED  BY <1>3, <1>4, <2>4, <3>3
  <2>5. s # <<z>>  BY <1>2, <1>4, <1>6
  <2> QED  BY <1>1, <2>2, <2>3, <2>4, <2>5
<1> QED  BY <1>1, <1>5, <1>6

LEMMA DropTriggerKeeps ==
    ASSUME Inv, NEW p \in Procs, DropTrigger(p)
    PROVE  Inv'
<1>1. /\ Due(p, {"drop_ai", "drop_ad", "drop_au"}) /\ todo[p] # <<>> /\ block \in {None, p}
      /\ Head(todo[p]).op \in {"drop_ai", "drop_ad", "drop_au"} /\ UNCHANGED <<fk, job, clash>>
  BY DEF DropTrigger, Due
<1>2. Unindexing(p, todo[p], job[p], block, before, clash)  BY <1>1, Stood, OpsOf DEF Stands
<1>3. block = None /\ db = before /\ job[p].kind = "drop_fts" /\ block # p
  BY <1>1, <1>2, UnindexingAt, Stood
<1>4. PICK x : x = DroppedTrigger(Head(todo[p]).op)  OBVIOUS
<1>5. x \in Triggers  BY <1>4 DEF DroppedTrigger, Triggers
<1>6. PICK c : c = WithTrigger(before, x, None)  OBVIOUS
<1>7. Done(p, c)  BY <1>3, <1>4, <1>6 DEF DropTrigger, WithTrigger, DroppedTrigger
<1>8. /\ c \in Databases /\ (Agrees(before) => Agrees(c)) /\ c.fts = before.fts
      /\ c.trig[x] = None /\ \A y \in Triggers \ {x} : c.trig[y] = before.trig[y]
  BY <1>5, <1>6, Stood, TriggersKeep
<1>9. \A y \in Triggers : c.trig[y] \in {None, before.trig[y]}  BY <1>8
<1>10. clash \/ HasIndex(c)  BY <1>8, <1>9, Stood DEF HasIndex
<1>11. Unindexing(p, Tail(todo[p]), job[p], block, c, clash)
  BY <1>1, <1>2, <1>4, <1>8, <1>9, UnindexingAt
<1>12. Stands(p, Tail(todo[p]), job[p], None, fk, c, c, clash)  BY <1>3, <1>11 DEF Stands
<1>13. Agrees(c)  BY <1>8, Stood
<1> QED  BY <1>1, <1>3, <1>7, <1>8, <1>9, <1>10, <1>12, <1>13, DoneOutside

LEMMA DropFtsKeepsInv ==
    ASSUME Inv, NEW p \in Procs, DropFts(p)
    PROVE  Inv'
<1>1. /\ Due(p, {"drop_fts"}) /\ todo[p] # <<>> /\ block \in {None, p}
      /\ Head(todo[p]).op = "drop_fts" /\ UNCHANGED <<fk, job, clash>>
  BY DEF DropFts, Due
<1>2. Unindexing(p, todo[p], job[p], block, before, clash)  BY <1>1, Stood, OpsOf DEF Stands
<1>3. /\ block = None /\ db = before /\ job[p].kind = "drop_fts" /\ block # p
      /\ Tail(todo[p]) = <<>> /\ Gone(before, clash, Triggers)
  BY <1>1, <1>2, UnindexingAt, Stood
<1>4. PICK c : c = WithoutFts(before)  OBVIOUS
<1>5. Done(p, c)  BY <1>3, <1>4 DEF DropFts, WithoutFts
<1>6. c \in Databases /\ Agrees(c) /\ c.fts = None /\ c.trig = before.trig  BY <1>4, Stood, DropFtsKeeps
<1>7. clash \/ HasIndex(c)  BY <1>3, <1>6 DEF HasIndex, Gone
<1>8. Stands(p, Tail(todo[p]), job[p], None, fk, c, c, clash)  BY <1>3 DEF Stands
<1> QED  BY <1>1, <1>3, <1>5, <1>6, <1>7, <1>8, DoneOutside

-----------------------------------------------------------------------------
(***************************************************************************)
(* The start of a job.                                                     *)
(***************************************************************************)
\* A process that has nothing left to do is not in its block.
LEMMA IdleOutside ==
    ASSUME NEW p, NEW j, NEW at, NEW on, NEW d, NEW b, NEW cl, Stands(p, <<>>, j, at, on, d, b, cl)
    PROVE  at # p
<1>1. ASSUME at = p PROVE FALSE
  <2>1. Migrating(p, <<>>, j, at, on, d, b)
    BY <1>1 DEF Stands, Creating, Dropping, Indexing, Unindexing, Reindexing
  <2>2. PICK t \in Tables : \E r \in Rest(j.kind, t), renamed \in BOOLEAN :
          \E seen \in Views(t) : Inside(<<>>, t, Look(t, renamed, seen), r, on, d, b)
    BY <1>1, <2>1 DEF Migrating
  <2>3. PICK r \in Rest(j.kind, t), renamed \in BOOLEAN :
          \E seen \in Views(t) : Inside(<<>>, t, Look(t, renamed, seen), r, on, d, b)
    BY <2>2
  <2>4. PICK l : Inside(<<>>, t, l, r, on, d, b)  BY <2>3
  <2>5. IsList(r)  BY RestIsList
  <2>6. /\ Left2(t, l, r) # <<>> /\ Left3(t, l, r) # <<>> /\ Left4(t, l, r) # <<>> /\ Left5(t, l, r) # <<>>
        /\ Left6(t, l, r) # <<>> /\ Left7(t, l, r) # <<>> /\ Left8(t, l, r) # <<>>
    BY <2>5, Lefts
  <2> QED  BY <2>4, <2>6 DEF Inside
<1> QED  BY <1>1

\* In its block, too, it is what a job does alone that depends on others.
LEMMA NoLongerAlone ==
    ASSUME NEW q, NEW s, NEW j, NEW on, NEW d, NEW b, NEW cl, Stands(q, s, j, q, on, d, b, cl),
           NEW k, k.kind = j.kind, ~k.alone, NEW cl2
    PROVE  Stands(q, s, k, q, on, d, b, cl2)
<1>1. Migrating(q, s, j, q, on, d, b)  BY DEF Stands, Creating, Dropping, Indexing, Unindexing, Reindexing
<1>2. \A t : Ready(k, t, b)  BY DEF Ready
<1>3. Migrating(q, s, k, q, on, d, b)  BY <1>1, <1>2 DEF Migrating
<1> QED  BY <1>3 DEF Stands

LEMMA StartKeeps ==
    ASSUME Inv, NEW p \in Procs, NEW kind \in Kinds, NEW stmts, Start(p, kind, stmts),
           \A j, at : j.kind = kind /\ at # p => Stands(p, stmts, j, at, fk, db, before, clash')
    PROVE  Inv'
<1> DEFINE beside == {q \in Procs : todo[q] # <<>>}
           lone == beside = {}
           Mine == [kind |-> kind, alone |-> lone]
           Joined(q) == [job[q] EXCEPT !.alone = FALSE]
<1>1. Typed /\ todo[p] = <<>>  BY DEF Inv, Start
<1>2. /\ todo' = [todo EXCEPT ![p] = stmts] /\ result' = [q \in Procs |-> "none"]
      /\ UNCHANGED <<fk, db, before, block>>
      /\ clash' = (clash \/ \E q \in beside : {kind, job[q].kind} = {"fts", "drop_fts"})
  BY DEF Start
<1>2a. job' = [q \in Procs |->
                CASE q = p -> Mine
                  [] q \in beside -> Joined(q)
                  [] OTHER -> NoJob]
  BY DEF Start
<1>2b. lone \in BOOLEAN  OBVIOUS
<1> HIDE DEF lone, Mine, Joined
<1>3. todo'[p] = stmts /\ \A q \in Procs \ {p} : todo'[q] = todo[q]  BY <1>1, <1>2 DEF Typed
<1>4. job'[p].kind = kind /\ (job'[p].alone <=> beside = {}) /\ job'[p] \in [kind : Kinds, alone : BOOLEAN]
  <2>1. job'[p] = Mine  BY <1>1, <1>2a
  <2>2. Mine.kind = kind /\ Mine.alone = lone /\ Mine \in [kind : Kinds, alone : BOOLEAN]
    <3>1. PICK i \in BOOLEAN : i = lone  BY <1>2b
    <3>2. Mine = [kind |-> kind, alone |-> i]  BY <3>1 DEF Mine
    <3> QED  BY <3>1, <3>2
  <2> QED  BY <2>1, <2>2 DEF lone
<1>5. ASSUME NEW q \in Procs \ {p}, todo[q] # <<>>
      PROVE  job'[q].kind = job[q].kind /\ ~job'[q].alone /\ job'[q] \in [kind : Kinds, alone : BOOLEAN]
  <2>1. job[q] \in [kind : Kinds, alone : BOOLEAN]  BY <1>1 DEF Typed
  <2>2. job'[q] = Joined(q)  BY <1>2a, <1>5
  <2>3. Joined(q).kind = job[q].kind /\ ~Joined(q).alone /\ Joined(q) \in [kind : Kinds, alone : BOOLEAN]
    <3> DEFINE no == FALSE
    <3>1. Joined(q) = [job[q] EXCEPT !.alone = no] /\ no \in BOOLEAN /\ ~no  BY DEF Joined
    <3> HIDE DEF no
    <3> QED  BY <2>1, <3>1
  <2> QED  BY <2>2, <2>3
<1>6. ASSUME NEW q \in Procs \ {p}, todo[q] = <<>>
      PROVE  job'[q] \in [kind : Kinds, alone : BOOLEAN]
  <2>1. job'[q] = NoJob  BY <1>6, <1>2a
  <2> QED  BY <2>1 DEF NoJob, Kinds
<1>7. clash' \in BOOLEAN /\ (clash => clash')  BY <1>1, <1>2 DEF Typed
<1> HIDE DEF beside
<1>8. Typed'
  <2>1. job' \in [Procs -> [kind : Kinds, alone : BOOLEAN]]
    <3>1. \A q \in Procs : job'[q] \in [kind : Kinds, alone : BOOLEAN]  BY <1>4, <1>5, <1>6
    <3>2. job' = [q \in Procs |-> job'[q]]  BY <1>2a
    <3> QED  BY <3>1, <3>2
  <2>2. todo' = [q \in Procs |-> todo'[q]] /\ result' \in [Procs -> {"none", "done", "failed"}]
    BY <1>1, <1>2 DEF Typed
  <2> QED  BY <1>1, <1>2, <1>7, <2>1, <2>2 DEF Typed
<1>9. ASSUME NEW q \in Procs PROVE Standing(q)'
  <2>1. CASE q = p
    <3>1. block # p  BY <1>1, Stood, IdleOutside
    <3>2. Stands(p, stmts, job'[p], block, fk, db, before, clash')  BY <1>4, <3>1
    <3> QED  BY <1>2, <1>3, <2>1, <3>2 DEF Standing
  <2>2. CASE q # p /\ todo[q] = <<>>
    <3>1. block # q  BY <2>2, Stood, IdleOutside
    <3>2. todo'[q] = <<>>  BY <1>3, <2>2
    <3> QED  BY <1>2, <3>1, <3>2 DEF Standing, Stands
  <2>3. CASE q # p /\ todo[q] # <<>>
    <3>1. Stands(q, todo[q], job[q], block, fk, db, before, clash)  BY Stood
    <3>2. job'[q].kind = job[q].kind /\ ~job'[q].alone  BY <1>5, <2>3
    <3>3. Stands(q, todo[q], job'[q], block, fk, db, before, clash')
      <4>1. CASE block = q  BY <3>1, <3>2, <4>1, NoLongerAlone
      <4>2. CASE block # q  BY <1>7, <3>1, <3>2, <4>2, OthersStand
      <4> QED  BY <4>1, <4>2
    <3> QED  BY <1>2, <1>3, <2>3, <3>3 DEF Standing
  <2> QED  BY <2>1, <2>2, <2>3
<1>10. Alone'
  <2>1. ASSUME NEW q \in Procs, NEW o \in Procs, q # o, job'[q].alone, todo'[q] # <<>> \/ result'[q] = "done"
        PROVE  todo'[o] = <<>>
    <3>1. todo'[q] # <<>>  BY <1>2, <2>1
    <3>2. q = p
      <4>1. q # p => todo[q] # <<>>  BY <1>3, <3>1
      <4> QED  BY <1>5, <2>1, <4>1
    <3>3. beside = {}  BY <1>4, <2>1, <3>2
    <3> QED  BY <1>3, <2>1, <3>2, <3>3 DEF beside
  <2> QED  BY <2>1 DEF Alone
<1>11. Clashes'
  <2>1. ASSUME NEW q \in Procs, NEW o \in Procs, todo'[q] # <<>>, todo'[o] # <<>>,
               job'[q].kind = "fts", job'[o].kind = "drop_fts"
        PROVE  clash'
    <3>1. q # o  BY <2>1
    <3>2. CASE q = p
      <4>1. todo[o] # <<>> /\ job[o].kind = "drop_fts"  BY <1>3, <1>5, <2>1, <3>1, <3>2
      <4>2. {kind, job[o].kind} = {"fts", "drop_fts"}  BY <1>4, <2>1, <3>2, <4>1
      <4> QED  BY <1>2, <4>1, <4>2 DEF beside
    <3>3. CASE o = p
      <4>1. todo[q] # <<>> /\ job[q].kind = "fts"  BY <1>3, <1>5, <2>1, <3>1, <3>3
      <4>2. {kind, job[q].kind} = {"fts", "drop_fts"}  BY <1>4, <2>1, <3>3, <4>1
      <4> QED  BY <1>2, <4>1, <4>2 DEF beside
    <3>4. CASE q # p /\ o # p
      <4>1. todo[q] # <<>> /\ todo[o] # <<>> /\ job[q].kind = "fts" /\ job[o].kind = "drop_fts"
        BY <1>3, <1>5, <2>1, <3>4
      <4>2. clash  BY <4>1 DEF Inv, Clashes
      <4> QED  BY <1>7, <4>2
    <3> QED  BY <3>2, <3>3, <3>4
  <2> QED  BY <2>1 DEF Clashes
<1>12. Finishes'  BY <1>2 DEF Finishes
<1>13. Agrees(before') /\ (clash' \/ HasIndex(before'))  BY <1>2, <1>7 DEF Inv
<1> QED  BY <1>8, <1>9, <1>10, <1>11, <1>12, <1>13 DEF Inv

LEMMA StartsKeep ==
    ASSUME Inv, NEW p \in Procs,
           \/ StartMigrate(p) \/ StartCli(p) \/ StartCreateAll(p) \/ StartDropAll(p)
           \/ StartIndex(p) \/ StartDropIndex(p) \/ StartRebuild(p)
    PROVE  Inv'
<1>1. CASE StartMigrate(p)
  <2>1. PICK t \in Tables, renamed \in BOOLEAN, given \in BOOLEAN :
          Start(p, "migrate", <<MigrateJob(t, renamed, given)>>)
    BY <1>1 DEF StartMigrate
  <2>2. ASSUME NEW j, NEW at, j.kind = "migrate", at # p
        PROVE  Stands(p, <<MigrateJob(t, renamed, given)>>, j, at, fk, db, before, clash')
    <3>1. <<>> \in Rest(j.kind, t) /\ Ready(j, t, before)  BY <2>2 DEF Rest, Ready
    <3>2. <<MigrateJob(t, renamed, given)>> = <<MigrateJob(t, renamed, given)>> \o <<>>  BY Lists
    <3>3. Migrating(p, <<MigrateJob(t, renamed, given)>>, j, at, fk, db, before)
      BY <2>2, <3>1, <3>2 DEF Migrating
    <3> QED  BY <3>3 DEF Stands
  <2>3. "migrate" \in Kinds  BY DEF Kinds
  <2> QED  BY <2>1, <2>2, <2>3, StartKeeps
<1>2. CASE StartCli(p)
  <2>1. PICK renamed \in BOOLEAN :
          Start(p, "cli", [i \in DOMAIN Order |-> MigrateJob(Order[i], renamed, TRUE)])
    BY <1>2 DEF StartCli
  <2>2. PICK given \in BOOLEAN : given = TRUE  OBVIOUS
  <2> DEFINE m(t) == MigrateJob(t, renamed, given)
             s == <<m("users")>> \o <<m("posts")>>
  <2>3. [i \in DOMAIN Order |-> MigrateJob(Order[i], renamed, TRUE)] = s
    <3>1. DOMAIN Order = 1 .. 2 /\ Order[1] = "users" /\ Order[2] = "posts"  BY DEF Order
    <3>2. [i \in DOMAIN Order |-> MigrateJob(Order[i], renamed, TRUE)] = [i \in 1 .. 2 |-> m(Order[i])]
      BY <2>2, <3>1
    <3> DEFINE S == {m("users"), m("posts")}
               f == [i \in 1 .. 2 |-> m(Order[i])]
    <3> HIDE DEF m
    <3>3. s \in Seq(S) /\ Len(s) = 2 /\ s[1] = m("users") /\ s[2] = m("posts")
      <4>1. <<m("users")>> \in Seq(S) /\ <<m("posts")>> \in Seq(S)  OBVIOUS
      <4> HIDE DEF S
      <4> QED  BY <4>1, ConcatProperties
    <3>4. f \in Seq(S) /\ Len(f) = 2 /\ f[1] = m("users") /\ f[2] = m("posts")
      <4>1. \A i \in 1 .. 2 : m(Order[i]) \in S  BY <3>1
      <4>2. f \in [1 .. 2 -> S]  BY <4>1
      <4> HIDE DEF S
      <4> QED  BY <3>1, <4>2
    <3>5. f = s
      <4> HIDE DEF S, s, f
      <4> QED  BY <3>3, <3>4, SeqEqual
    <3> QED  BY <3>2, <3>5
  <2>4. ASSUME NEW j, NEW at, j.kind = "cli", at # p
        PROVE  Stands(p, s, j, at, fk, db, before, clash')
    <3>1. "users" \in Tables /\ Ready(j, "users", before)  BY DEF Tables, Ready
    <3>2. <<m("posts")>> \in Rest(j.kind, "users")  BY <2>2, <2>4 DEF Rest
    <3>3. Migrating(p, s, j, at, fk, db, before)  BY <2>4, <3>1, <3>2 DEF Migrating
    <3> QED  BY <3>3 DEF Stands
  <2>5. "cli" \in Kinds  BY DEF Kinds
  <2>6. Start(p, "cli", s)  BY <2>1, <2>3
  <2> HIDE DEF s
  <2> QED  BY <2>4, <2>5, <2>6, StartKeeps
<1>3. CASE StartCreateAll(p)
  <2>1. ASSUME NEW j, NEW at, j.kind = "create_all", at # p
        PROVE  Stands(p, CreateAll, j, at, fk, db, before, clash')
    <3>1. "users" \in Tables /\ Ready(j, "users", before)  BY DEF Tables, Ready
    <3>2. CreateTable("posts") \in Rest(j.kind, "users")  BY <2>1 DEF Rest
    <3>3. Creating(p, CreateAll, j, at, before)  BY <2>1, <3>1, <3>2 DEF Creating, CreateAll
    <3> QED  BY <3>3 DEF Stands
  <2>2. "create_all" \in Kinds  BY DEF Kinds
  <2> QED  BY <1>3, <2>1, <2>2, StartKeeps DEF StartCreateAll
<1>4. CASE StartDropAll(p)
  <2>1. \A j, at : j.kind = "drop_all" /\ at # p => Stands(p, DropAll, j, at, fk, db, before, clash')
    BY DEF Stands, Dropping
  <2>2. "drop_all" \in Kinds  BY DEF Kinds
  <2> QED  BY <1>4, <2>1, <2>2, StartKeeps DEF StartDropAll
<1>5. CASE StartIndex(p)
  <2>1. \A j, at : j.kind = "fts" /\ at # p => Stands(p, CreateIndex, j, at, fk, db, before, clash')
    BY DEF Stands, Indexing
  <2>2. "fts" \in Kinds  BY DEF Kinds
  <2> QED  BY <1>5, <2>1, <2>2, StartKeeps DEF StartIndex
<1>6. CASE StartDropIndex(p)
  <2>1. \A j, at : j.kind = "drop_fts" /\ at # p => Stands(p, DropIndex, j, at, fk, db, before, clash')
    BY DEF Stands, Unindexing
  <2>2. "drop_fts" \in Kinds  BY DEF Kinds
  <2> QED  BY <1>6, <2>1, <2>2, StartKeeps DEF StartDropIndex
<1>7. CASE StartRebuild(p)
  <2>1. \A j, at : j.kind = "rebuild" /\ at # p =>
            Stands(p, <<Stmt("rebuild", "users")>>, j, at, fk, db, before, clash')
    BY DEF Stands, Reindexing
  <2>2. "rebuild" \in Kinds  BY DEF Kinds
  <2> QED  BY <1>7, <2>1, <2>2, StartKeeps DEF StartRebuild
<1> QED  BY <1>1, <1>2, <1>3, <1>4, <1>5, <1>6, <1>7

-----------------------------------------------------------------------------
(***************************************************************************)
(* The writes of the application.                                          *)
(***************************************************************************)
LEMMA WriteKeeps ==
    ASSUME Inv, NEW d, Write(d), Mild(before, d)
    PROVE  Inv'
<1>1. Typed  BY DEF Inv
<1>2. /\ block = None /\ db' = d /\ before' = d
      /\ UNCHANGED <<fk, block, todo, job, result, clash>>
  BY DEF Write
<1>3. /\ d \in Databases /\ Agrees(d) /\ SameShape(before, d) /\ d.trig = before.trig
      /\ d.fts # None <=> before.fts # None
  BY DEF Mild
<1>4. Typed'
  <2>1. before' \in Databases /\ (block' = None => db' = before')  BY <1>2, <1>3
  <2>2. todo' = [p \in Procs |-> todo'[p]]
    <3>1. todo = [p \in Procs |-> todo[p]]  BY <1>1 DEF Typed
    <3>2. todo' = todo  BY <1>2
    <3> QED  BY <3>1, <3>2
  <2> QED  BY <1>1, <1>2, <2>1, <2>2 DEF Typed
<1>5. ASSUME NEW q \in Procs PROVE Standing(q)'
  <2>1. Stands(q, todo[q], job[q], block, fk, db, before, clash) /\ block # q  BY <1>2, Stood
  <2>2. Stands(q, todo[q], job[q], block, fk, d, d, clash)  BY <1>3, <2>1, OthersStand
  <2> QED  BY <1>2, <2>2 DEF Standing
<1>6. Alone' /\ Clashes'  BY <1>2 DEF Inv, Alone, Clashes
<1>7. Finishes'
  <2>1. ASSUME NEW p \in Procs, result[p] = "done", job[p].alone, job[p].kind \in {"cli", "create_all"}
        PROVE  Synced(d, job[p].kind)
    <3>1. Synced(before, job[p].kind)  BY <2>1 DEF Inv, Finishes
    <3>2. \A t \in Tables : Has(d, t, job[p].kind)  BY <1>3, <3>1 DEF Synced, Has, SameShape
    <3>3. ASSUME job[p].kind = "cli" PROVE Exists(d, d.tables["posts"].ref)
      <4>1. before.tables["posts"].cols = Fields["posts"] /\ Exists(before, "posts")
            /\ Exists(before, before.tables["posts"].ref)
        BY <3>1, <3>3 DEF Synced, Has, Tables
      <4>2. d.tables["posts"].ref = before.tables["posts"].ref  BY <1>3, <4>1 DEF SameShape, Tables
      <4>3. before.tables["posts"].ref \in Names
        <5>1. before.tables["posts"] \in TableOf("posts")  BY <4>1, Stood, PartsOf DEF Exists, Tables
        <5> QED  BY <5>1, OneTable DEF Tables
      <4>4. before.tables["posts"].ref \in Tables
        <5>1. \A n \in Names : n \in Tables \/ \E t \in Tables : n = Old[t]  BY NamesApart DEF Tables
        <5>2. before \in Databases  BY <1>1 DEF Typed
        <5>3. \A t \in Tables : ~Exists(before, Old[t])  BY <5>2, PartsOf
        <5> QED  BY <4>1, <4>3, <5>1, <5>3
      <4> QED  BY <1>3, <4>1, <4>2, <4>4 DEF SameShape
    <3> QED  BY <3>2, <3>3 DEF Synced
  <2> QED  BY <1>2, <2>1 DEF Inv, Finishes
<1>8. Agrees(before') /\ (clash' \/ HasIndex(before'))
  <2>1. clash \/ HasIndex(before)  BY DEF Inv
  <2>2. clash \/ HasIndex(d)  BY <1>3, <2>1 DEF HasIndex
  <2> QED  BY <1>2, <1>3, <2>2
<1> QED  BY <1>4, <1>5, <1>6, <1>7, <1>8 DEF Inv

LEMMA InsertUserKeepsInv ==
    ASSUME Inv, NEW k \in Pks, NEW v \in Vals, InsertUser(k, v)
    PROVE  Inv'
<1>1. block = None /\ db = before /\ before \in Databases /\ Agrees(before)
  BY DEF InsertUser, Write, Inv, Typed
<1>2. PICK b : b = before  OBVIOUS
<1>3. PICK row : row = [c \in b.tables["users"].cols |-> v]  OBVIOUS
<1> DEFINE d == Fired([b EXCEPT !.tables["users"].rows =
                            [j \in DOMAIN @ \cup {k} |-> IF j = k THEN row ELSE @[j]]], "ai", {}, {<<k, v>>})
<1>4. /\ b \in Databases /\ Agrees(b) /\ Exists(b, "users") /\ k \notin Keys(b, "users") /\ CanFire(b, "ai", {})
      /\ Write(d)
  BY <1>1, <1>2, <1>3 DEF InsertUser
<1>5. Mild(b, d)  BY <1>3, <1>4, InsertUserKeeps
<1> HIDE DEF d
<1> QED  BY <1>2, <1>4, <1>5, WriteKeeps

LEMMA UpdateUserKeepsInv ==
    ASSUME Inv, NEW k \in Pks, NEW v \in Vals, UpdateUser(k, v)
    PROVE  Inv'
<1>1. block = None /\ db = before /\ before \in Databases /\ Agrees(before)
  BY DEF UpdateUser, Write, Inv, Typed
<1>2. PICK b : b = before  OBVIOUS
<1>3. PICK old : old = Rows(b, "users")[k]["name"]  OBVIOUS
<1> DEFINE d == Fired([b EXCEPT !.tables["users"].rows[k]["name"] = v], "au", {<<k, old>>}, {<<k, v>>})
<1>4. /\ b \in Databases /\ Agrees(b) /\ Exists(b, "users") /\ k \in Keys(b, "users")
      /\ CanFire(b, "au", {<<k, old>>}) /\ Write(d)
  BY <1>1, <1>2, <1>3 DEF UpdateUser
<1>5. Mild(b, d)  BY <1>3, <1>4, UpdateUserKeeps
<1> HIDE DEF d
<1> QED  BY <1>2, <1>4, <1>5, WriteKeeps

LEMMA DeleteUserKeepsInv ==
    ASSUME Inv, NEW k \in Pks, DeleteUser(k)
    PROVE  Inv'
<1>1. block = None /\ db = before /\ before \in Databases /\ Agrees(before)
  BY DEF DeleteUser, Write, Inv, Typed
<1>2. PICK b, on : b = before /\ on = fk  OBVIOUS
<1>3. PICK old : old = Rows(b, "users")[k]["name"]  OBVIOUS
<1> DEFINE d == Fired([CutOff(on, b, "users", {k}) EXCEPT !.tables["users"].rows = Without(@, {k})],
                      "ad", {<<k, old>>}, {})
<1>4. Cascade(db, "users", {k}) = CutOff(on, b, "users", {k})  BY <1>1, <1>2, DropIsDropped
<1>5. /\ b \in Databases /\ Agrees(b) /\ Exists(b, "users") /\ k \in Keys(b, "users")
      /\ CanFire(b, "ad", {<<k, old>>}) /\ Write(d)
  BY <1>1, <1>2, <1>3, <1>4 DEF DeleteUser
<1>6. Mild(b, d)  BY <1>3, <1>5, DeleteUserKeeps
<1> HIDE DEF d
<1> QED  BY <1>2, <1>5, <1>6, WriteKeeps

LEMMA InsertPostKeepsInv ==
    ASSUME Inv, NEW k \in Pks, InsertPost(k)
    PROVE  Inv'
<1>1. block = None /\ db = before /\ before \in Databases /\ Agrees(before)
  BY DEF InsertPost, Write, Inv, Typed
<1>2. PICK b : b = before  OBVIOUS
<1> DEFINE row == [c \in Fields["posts"] |-> 1]
<1> DEFINE d == [b EXCEPT !.tables["posts"].rows =
                    [j \in DOMAIN @ \cup {k} |-> IF j = k THEN row ELSE @[j]]]
<1>4. b \in Databases /\ Agrees(b) /\ Exists(b, "posts") /\ k \notin Keys(b, "posts") /\ Write(d)
  BY <1>1, <1>2 DEF InsertPost
<1>5. Mild(b, d)
  <2>1. row = [c \in Fields["posts"] |-> 1]  OBVIOUS
  <2> HIDE DEF row
  <2> QED  BY ZenonT(30), <1>4, <2>1, InsertPostKeeps
<1> HIDE DEF d
<1> QED  BY <1>2, <1>4, <1>5, WriteKeeps

-----------------------------------------------------------------------------
(***************************************************************************)
(* The invariant holds.                                                    *)
(***************************************************************************)
LEMMA InitInv == Init => Inv
<1> SUFFICES ASSUME Init PROVE Inv  OBVIOUS
<1>1. /\ fk \in BOOLEAN /\ before = db /\ block = None /\ clash = FALSE
      /\ todo = [p \in Procs |-> <<>>] /\ job = [p \in Procs |-> NoJob] /\ result = [p \in Procs |-> "none"]
  BY DEF Init
<1>2. db \in Databases /\ Agrees(db) /\ HasIndex(db)
  <2> DEFINE G(v) == [x \in Triggers |-> v]
             no == FALSE
  <2>1. no \in BOOLEAN /\ ~no /\ \A v \in {None} \cup Names : G(v) \in [Triggers -> {None} \cup Names]
    OBVIOUS
  <2>2. CASE db = EmptyDb
    <3> DEFINE T == [n \in Names |-> None]
    <3>1. db = [tables |-> T, fts |-> None, trig |-> G(None), missed |-> no]  BY <2>2 DEF EmptyDb
    <3>2. /\ T \in [Names -> {None} \cup TableOf("users") \cup TableOf("posts")]
          /\ \A t \in Tables : T[t] \in {None} \cup TableOf(t) /\ T[Old[t]] = None
      BY NamesApart
    <3> HIDE DEF T, G, no
    <3>3. db \in Databases  BY <2>1, <3>1, <3>2, Parts
    <3>4. db.fts = None /\ \A x \in Triggers : db.trig[x] = None  BY <3>1 DEF G
    <3> QED  BY <3>3, <3>4 DEF Agrees, HasIndex
  <2>3. CASE db = OldDb(TRUE)
    <3> DEFINE rows(t) == [k \in Pks |-> [c \in OldCols[t] |-> 1]]
               yes == TRUE
               x(t) == [cols |-> OldCols[t], rows |-> rows(t), idx |-> yes, ref |-> "users"]
               T == [n \in Names |-> IF n \in Tables THEN x(n) ELSE None]
               W == {<<k, 1>> : k \in Pks}
    <3>1. ASSUME NEW t \in Tables
          PROVE  [Table(OldCols[t]) EXCEPT !.rows = rows(t), !.idx = TRUE] = x(t)
      <4> DEFINE e == [cols |-> OldCols[t], rows |-> <<>>, idx |-> no, ref |-> "users"]
      <4>1. Table(OldCols[t]) = e  BY DEF Table
      <4>2. [e EXCEPT !.rows = rows(t), !.idx = yes] = x(t)
        <5> DEFINE r == rows(t)
        <5>1. x(t) = [cols |-> OldCols[t], rows |-> r, idx |-> yes, ref |-> "users"]  OBVIOUS
        <5>2. e = [cols |-> OldCols[t], rows |-> <<>>, idx |-> no, ref |-> "users"]  OBVIOUS
        <5> HIDE DEF no, yes, r, e, x
        <5>3. PICK c : c = [e EXCEPT !.rows = r, !.idx = yes]  OBVIOUS
        <5>4. c = [cols |-> OldCols[t], rows |-> r, idx |-> yes, ref |-> "users"]  BY <5>2, <5>3
        <5> QED  BY <5>1, <5>3, <5>4 DEF r
      <4> HIDE DEF e, x
      <4> QED  BY <4>1, <4>2
    <3>2. db = [tables |-> T, fts |-> W, trig |-> G("users"), missed |-> no]  BY <2>3, <3>1 DEF OldDb
    <3>3. yes \in BOOLEAN  OBVIOUS
    <3> HIDE DEF yes
    <3>4. \A t \in Tables : x(t) \in TableOf(t) /\ rows(t) \in [Pks -> [OldCols[t] -> Vals]]
      <4>1. \A t \in Tables : rows(t) \in [Pks -> [OldCols[t] -> Vals]]  BY DEF Vals
      <4> HIDE DEF rows
      <4> QED  BY <3>3, <4>1, MakeTable, NamesApart
    <3> HIDE DEF x
    <3>5. /\ T \in [Names -> {None} \cup TableOf("users") \cup TableOf("posts")]
          /\ \A t \in Tables : T[t] = x(t) /\ T[t] \in {None} \cup TableOf(t) /\ T[Old[t]] = None
      BY <3>4, NamesApart DEF Tables
    <3>6. W \in SUBSET (Pks \X Vals) /\ "users" \in Names  BY NamesApart DEF Vals
    <3> HIDE DEF T, G, no, W
    <3>7. db \in Databases  BY <2>1, <3>2, <3>5, <3>6, Parts
    <3>8. Words(db) = W
      <4>1. "users" \in Tables  BY DEF Tables
      <4>2. db.tables["users"] = x("users") /\ x("users") # None  BY <3>2, <3>4, <3>5, <4>1, NoneAssumption
      <4>3. Rows(db, "users") = rows("users")  BY <4>2 DEF Rows, Exists, x
      <4>4. "name" \in OldCols["users"]  BY DEF OldCols
      <4> QED  BY <4>3, <4>4 DEF Words, Keys, W
    <3>9. db.fts = W /\ W # None  BY <3>2, <3>6, NoneAssumption
    <3> QED  BY <3>7, <3>8, <3>9 DEF Agrees, HasIndex
  <2> QED  BY <2>2, <2>3 DEF Init
<1>3. Typed
  <2>1. job \in [Procs -> [kind : Kinds, alone : BOOLEAN]]
    <3>1. NoJob \in [kind : Kinds, alone : BOOLEAN]  BY DEF NoJob, Kinds
    <3> QED  BY <1>1, <3>1
  <2> QED  BY <1>1, <1>2, <2>1 DEF Typed
<1>4. \A p \in Procs : Standing(p)  BY <1>1, NoneAssumption DEF Standing, Stands
<1>5. Alone /\ Clashes /\ Finishes  BY <1>1 DEF Alone, Clashes, Finishes
<1> QED  BY <1>1, <1>2, <1>3, <1>4, <1>5 DEF Inv

LEMMA StutterKeeps == Inv /\ UNCHANGED vars => Inv'
BY DEF Inv, vars, Typed, Standing, Alone, Clashes, Finishes

LEMMA NextKeepsInv == Inv /\ [Next]_vars => Inv'
<1> SUFFICES ASSUME Inv, [Next]_vars PROVE Inv'  OBVIOUS
<1>1. CASE UNCHANGED vars  BY <1>1, StutterKeeps
<1>2. CASE Finished  BY <1>2, StutterKeeps DEF Finished
<1>3. ASSUME NEW p \in Procs,
             \/ StartMigrate(p) \/ StartCli(p) \/ StartCreateAll(p) \/ StartDropAll(p)
             \/ StartIndex(p) \/ StartDropIndex(p) \/ StartRebuild(p)
      PROVE  Inv'
  BY <1>3, StartsKeep
<1>4. ASSUME NEW p \in Procs, Plan(p) \/ LookAtColumns(p) \/ Begin(p) \/ Commit(p) PROVE Inv'
  BY <1>4, PlanKeeps, LookAtColumnsKeeps, BeginKeeps, CommitKeeps
<1>5. ASSUME NEW p \in Procs, Create(p) \/ Index(p) \/ Drop(p) \/ RenameTable(p) \/ Copy(p) PROVE Inv'
  BY <1>5, CreateKeepsInv, IndexKeepsInv, DropKeepsInv, RenameTableKeeps, CopyKeeps
<1>6. ASSUME NEW p \in Procs,
             CreateFts(p) \/ CreateTrigger(p) \/ DropTrigger(p) \/ DropFts(p) \/ Reindex(p)
      PROVE  Inv'
  BY <1>6, CreateFtsKeeps, CreateTriggerKeeps, DropTriggerKeeps, DropFtsKeepsInv, ReindexKeepsInv
<1>7. ASSUME NEW p \in Procs, Killed(p) PROVE Inv'  BY <1>7, RaisesKeep DEF Killed
<1>8. ASSUME NEW k \in Pks, (\E v \in Vals : InsertUser(k, v) \/ UpdateUser(k, v)) \/ DeleteUser(k) \/ InsertPost(k)
      PROVE  Inv'
  BY <1>8, InsertUserKeepsInv, UpdateUserKeepsInv, DeleteUserKeepsInv, InsertPostKeepsInv
<1>9. \/ Next
      \/ UNCHANGED vars
  OBVIOUS
<1>10. CASE Next  BY <1>10, <1>2, <1>3, <1>4, <1>5, <1>6, <1>7, <1>8 DEF Next
<1> QED  BY <1>1, <1>9, <1>10

LEMMA Invariance == Spec => []Inv
BY InitInv, NextKeepsInv, PTL DEF Spec

-----------------------------------------------------------------------------
(***************************************************************************)
(* The theorems.                                                           *)
(***************************************************************************)
LEMMA CommittedIsBefore == Inv => Committed = before
BY DEF Inv, Typed, Committed

\* Model.migrate() is one block: wherever it fails or is killed, others find every
\* table under its own name.
THEOREM MigrationsAreWhole == Spec => []NoHalfMigration
<1>1. Inv => NoHalfMigration
  BY CommittedIsBefore, PartsOf DEF Inv, Typed, NoHalfMigration
<1> QED  BY <1>1, Invariance, PTL

\* After the command line's migration of all models, or after create_all(), that ran
\* alone and to its end, each table has its model's columns and indexes, and the
\* reference leads to a table, whatever the application writes meanwhile.
THEOREM SchemaIsSynced == Spec => []SchemaSynced
<1>1. Inv => SchemaSynced
  <2> SUFFICES ASSUME Inv, NEW p \in Procs, result[p] = "done", job[p].alone,
                      job[p].kind \in {"cli", "create_all"}, NEW t \in Tables
               PROVE  /\ Exists(before, t) /\ before.tables[t].idx
                      /\ job[p].kind = "cli" => /\ before.tables[t].cols = Fields[t]
                                                /\ Exists(before, before.tables["posts"].ref)
    BY CommittedIsBefore DEF SchemaSynced
  <2>1. Synced(before, job[p].kind)  BY DEF Inv, Finishes
  <2> QED  BY <2>1 DEF Synced, Has
<1> QED  BY <1>1, Invariance, PTL

\* Unless a change has been missed, the index of SearchIndex has the words of the
\* rows and no others: triggers, migrations, rebuild() and cascades keep it so.
THEOREM SearchFindsTheRows == Spec => []SearchAgrees
<1>1. Inv => SearchAgrees
  BY CommittedIsBefore DEF Inv, Agrees, Words, SearchAgrees
<1> QED  BY <1>1, Invariance, PTL

\* SearchIndex.drop() takes the triggers before the index: none is left without it,
\* where it would fail every write, unless create() and drop() ran side by side.
THEOREM TriggersAreNeverOrphans == Spec => []TriggersHaveIndex
<1>1. Inv => TriggersHaveIndex
  BY CommittedIsBefore DEF Inv, HasIndex, TriggersHaveIndex
<1> QED  BY <1>1, Invariance, PTL

\* What MigrateKeepsRows says of the migration that p commits.
CommitsRows(p) ==
    LET s == Head(todo[p])
        cols == before.tables[s.t].cols
        other == CHOOSE u \in Tables : u # s.t
    IN  /\ Exists(before, s.t)
        /\ s.look.seen # {} => Keys(db, s.t) = Keys(before, s.t) /\ Kept(s.t, "name", "name")
        /\ s.t = "users" /\ s.look.seen = cols /\ (s.look.renamed => "old" \in cols) =>
                Kept(s.t, "new", IF s.look.renamed THEN "old" ELSE "new")
        /\ Rows(db, other) # Rows(before, other) => fk /\ s.t = "users"

\* What Model.migrate() commits has every row of its table, with the values it had,
\* unless the table was gone when it looked.
LEMMA CommitKeepsRows ==
    ASSUME Inv, NEW p \in Procs, Committing(p)
    PROVE  CommitsRows(p)
<1>1. block = p /\ todo[p] # <<>> /\ Head(todo[p]).op = "commit"  BY DEF Committing
<1>2. Migrating(p, todo[p], job[p], block, fk, db, before)  BY <1>1, Stood, OpsOf DEF Stands
<1>3. PICK t \in Tables : \E r \in Rest(job[p].kind, t), renamed \in BOOLEAN, seen \in Views(t) :
        /\ IsList(r)
        /\ MigrationAt(p, todo[p], block, fk, db, before, t, Look(t, renamed, seen), r)
  <2>1. Head(todo[p]).op \notin {"plan", "look"}  BY <1>1
  <2> QED  BY <1>2, <2>1, MigrationSteps
<1>4. PICK r \in Rest(job[p].kind, t), renamed \in BOOLEAN, seen \in Views(t) :
        /\ IsList(r)
        /\ MigrationAt(p, todo[p], block, fk, db, before, t, Look(t, renamed, seen), r)
  BY <1>3
<1>5. PICK l : l = Look(t, renamed, seen)  OBVIOUS
<1>6. /\ todo[p] = Left8(t, l, r) /\ Exists(before, t) /\ Fits(before, t, l)
      /\ db = Rebuilt(fk, before, t, l)
  BY <1>1, <1>4, <1>5 DEF MigrationAt
<1>7. Head(todo[p]) = [op |-> "commit", t |-> t, look |-> l]  BY <1>4, <1>6, Lefts
<1>8. Head(todo[p]).t = t /\ Head(todo[p]).look = l /\ l.renamed = renamed /\ l.seen = seen
  BY <1>5, <1>7 DEF Look
<1>9. PICK u \in Tables : u # t /\ u = CHOOSE v \in Tables : v # t  BY DEF Tables
<1>10. db.tables[t] = Final(before, t, l) /\ (Rows(db, u) # Rows(before, u) => fk /\ t = "users")
  BY <1>6, <1>9, Stood, RebuiltKeeps
<1>11. "name" \in before.tables[t].cols
  <2>1. before.tables[t] \in TableOf(t)  BY <1>6, Stood, PartsOf DEF Exists
  <2> QED  BY <2>1, OneTable
<1>12. ASSUME seen # {}
       PROVE  /\ Keys(db, t) = Keys(before, t)
              /\ \A k \in Keys(before, t) : Rows(db, t)[k]["name"] = Rows(before, t)[k]["name"]
              /\ t = "users" /\ seen = before.tables[t].cols =>
                   \A k \in Keys(before, t) :
                       Rows(db, t)[k]["new"] =
                           IF Source(t, "new", renamed) \in before.tables[t].cols
                           THEN Rows(before, t)[k][Source(t, "new", renamed)] ELSE Default
  BY <1>5, <1>6, <1>10, <1>12, Stood, RowsAreKept
<1>13. seen # {} => Keys(db, t) = Keys(before, t) /\ Kept(t, "name", "name")  BY <1>11, <1>12 DEF Kept
<1>14. t = "users" /\ seen = before.tables[t].cols => Kept(t, "new", IF renamed THEN "old" ELSE "new")
  <2>1. Source(t, "new", renamed) = IF renamed THEN "old" ELSE "new"  BY DEF Source
  <2>2. seen = before.tables[t].cols => seen # {}  BY <1>11
  <2> QED  BY <1>12, <2>1, <2>2 DEF Kept
<1> QED  BY <1>6, <1>8, <1>9, <1>10, <1>13, <1>14 DEF CommitsRows

\* A migration that commits has kept every row of its table, unless the table was
\* gone when it looked at its columns; the values of the columns it kept; and, when
\* no other process has changed the columns since, those it was told to rename, from
\* a column that was there.  The rows of the other table go only by a cascade, with
\* foreign keys on.
THEOREM MigrationsKeepRows == Spec => MigrateKeepsRows
<1> DEFINE Step == \A p \in Procs : Committing(p) => CommitsRows(p)
<1>1. Inv /\ [Next]_vars => [Step]_vars
  <2>1. Inv => Step  BY CommitKeepsRows
  <2> QED  BY <2>1
<1> QED  BY <1>1, Invariance, PTL DEF Spec, MigrateKeepsRows, CommitsRows
=============================================================================
