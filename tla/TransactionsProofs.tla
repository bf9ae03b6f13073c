------------------------- MODULE TransactionsProofs -------------------------
(***************************************************************************)
(* What TLC finds on small instances of Transactions, for any number of    *)
(* threads, tasks, workers and connections and any bounds: who holds the   *)
(* locks and the connections; that two pooled connections are enough; that *)
(* savepoints and with-blocks are the same stack and an executemany is     *)
(* whole or absent; and that all of it implements AtomicBlocks.            *)
(***************************************************************************)
EXTENDS Transactions, SequenceTheorems, FiniteSetTheorems, TLAPS

LEMMA PrefixTyped ==
    ASSUME NEW S, NEW s \in Seq(S), NEW n \in Int, n <= Len(s)
    PROVE  SubSeq(s, 1, n) \in Seq(S)
<1>1. \A i \in 1 .. n : s[i] \in S
  BY ElementOfSeq, LenProperties
<1> QED
  BY <1>1, SubSeqProperties

LEMMA FrontTyped ==
    ASSUME NEW S, NEW s \in Seq(S)
    PROVE  Front(s) \in Seq(S)
BY PrefixTyped, LenProperties DEF Front

(***************************************************************************)
(* The statements of SQLite keep the type of the database and of the       *)
(* connections.                                                            *)
(***************************************************************************)
SqlTypeOK == db \subseteq Writes /\ tx \in [Conns -> TxType]

LEMMA TransactionType ==
    ASSUME NEW a \in {"closed", "idle", "begun", "reading", "writing"},
           NEW b \in SUBSET Writes, NEW o \in SUBSET Writes, NEW s \in Seq(Save)
    PROVE  Transaction(a, b, o, s) \in TxType
BY DEF Transaction, TxType

LEMMA NoTxType ==
    ASSUME NEW a \in {"closed", "idle", "begun", "reading", "writing"}
    PROVE  NoTx(a) \in TxType
<1>1. <<>> \in Seq(Save) /\ {} \in SUBSET Writes
  OBVIOUS
<1> QED
  BY <1>1, TransactionType DEF NoTx

LEMMA BecomeTyped ==
    ASSUME tx \in [Conns -> TxType], NEW c, NEW t \in TxType, Become(c, t)
    PROVE  tx' \in [Conns -> TxType]
BY DEF Become

\* Any call of sqlite3 on an open connection keeps the type.
LEMMA SqlTyped ==
    ASSUME SqlTypeOK, NEW c \in Conns,
           \/ \E m : SqlBegin(c, m)
           \/ SqlRead(c) \/ SqlCommit(c) \/ SqlRollback(c)
           \/ \E w \in Writes : SqlWrite(c, w)
           \/ \E n \in Nat : SqlSavepoint(c, n)
           \/ \E n : SqlRelease(c, n) \/ SqlRollbackToAndRelease(c, n)
    PROVE  SqlTypeOK'
<1> USE DEF SqlTypeOK
<1>0. /\ tx[c].at \in {"closed", "idle", "begun", "reading", "writing"}
      /\ tx[c].base \in SUBSET Writes
      /\ tx[c].own \in SUBSET Writes
      /\ tx[c].saves \in Seq(Save)
      /\ <<>> \in Seq(Save)
  BY DEF TxType
<1>1. ASSUME NEW m, SqlBegin(c, m) PROVE SqlTypeOK'
  BY <1>1, <1>0, TransactionType, NoTxType, BecomeTyped DEF SqlBegin
<1>2. CASE SqlRead(c)
  BY <1>2, <1>0, TransactionType, BecomeTyped DEF SqlRead
<1>3. ASSUME NEW w \in Writes, SqlAutoWrite(c, w) PROVE SqlTypeOK'
  BY <1>3 DEF SqlAutoWrite
<1>4. ASSUME NEW w \in Writes, SqlTxnWrite(c, w) PROVE SqlTypeOK'
  BY <1>4, <1>0, TransactionType, BecomeTyped DEF SqlTxnWrite
<1>5. ASSUME NEW n \in Nat, SqlSavepoint(c, n) PROVE SqlTypeOK'
  <2>1. [name |-> n, own |-> tx[c].own] \in Save
    BY <1>0 DEF Save
  <2>2. Append(tx[c].saves, [name |-> n, own |-> tx[c].own]) \in Seq(Save)
    BY <1>0, <2>1
  <2> QED
    BY <1>5, <1>0, <2>2, TransactionType, BecomeTyped DEF SqlSavepoint
<1>6. ASSUME NEW i \in DOMAIN tx[c].saves
      PROVE  /\ tx[c].saves[i].own \in SUBSET Writes
             /\ SubSeq(tx[c].saves, 1, i - 1) \in Seq(Save)
  <2>1. i \in 1 .. Len(tx[c].saves) /\ Len(tx[c].saves) \in Nat
    BY <1>0, LenProperties
  <2>2. tx[c].saves[i] \in Save
    BY <1>0, <2>1, ElementOfSeq
  <2>3. SubSeq(tx[c].saves, 1, i - 1) \in Seq(Save)
    <3>1. i - 1 \in Int /\ i - 1 <= Len(tx[c].saves)
      BY <2>1
    <3> QED
      BY <1>0, <3>1, PrefixTyped
  <2> QED
    BY <2>2, <2>3 DEF Save
<1>7. ASSUME NEW n, SqlRelease(c, n) PROVE SqlTypeOK'
  BY <1>7, <1>0, <1>6, TransactionType, BecomeTyped DEF SqlRelease
<1>8. ASSUME NEW n, SqlRollbackToAndRelease(c, n) PROVE SqlTypeOK'
  BY <1>8, <1>0, <1>6, TransactionType, BecomeTyped DEF SqlRollbackToAndRelease
<1>9. CASE SqlCommit(c)
  BY <1>9, <1>0, NoTxType, BecomeTyped DEF SqlCommit, View
<1>10. CASE SqlRollback(c)
  BY <1>10, NoTxType, BecomeTyped DEF SqlRollback
<1> QED
  BY <1>1, <1>2, <1>3, <1>4, <1>5, <1>7, <1>8, <1>9, <1>10 DEF SqlWrite
-----------------------------------------------------------------------------
(***************************************************************************)
(* Type correctness.  TypeOK is not inductive by itself: that a write is   *)
(* labelled with an operation that exists, and that a process inside a     *)
(* block has a connection, comes from where it stands.                     *)
(***************************************************************************)
Typed == TypeOK /\ PcMatchesCall

LEMMA NextWriteTyped ==
    ASSUME Typed, NEW p \in Procs, pc[p] # "idle", rows[p] < MaxRows
    PROVE  NextWrite(p) \in Writes
BY WritesAssumption, BoundsAssumption DEF Typed, TypeOK, PcMatchesCall, NextWrite

LEMMA ReleaseTyped ==
    ASSUME TypeOK, NEW c \in Conns, ReleaseTxnConn(c)
    PROVE  tx' \in [Conns -> TxType] /\ pool' \in Seq(Conns)
<1>1. CASE pool' = Append(pool, c) /\ UNCHANGED tx
  BY <1>1, AppendProperties DEF TypeOK
<1>2. CASE Become(c, NoTx("closed")) /\ UNCHANGED pool
  BY <1>2, NoTxType, BecomeTyped DEF TypeOK
<1> QED
  BY <1>1, <1>2 DEF ReleaseTxnConn

LEMMA TypedInit == Init => Typed
<1> SUFFICES ASSUME Init PROVE Typed
  OBVIOUS
<1> USE DEF Init, SqlInit
<1>1. tx \in [Conns -> TxType]
  BY NoTxType
<1>2. TypeOK
  BY <1>1, BoundsAssumption DEF TypeOK, PcType, Kinds, Modes
<1>3. PcMatchesCall
  BY DEF PcMatchesCall, UsesConn, IsTxn, GateOnly
<1> QED
  BY <1>2, <1>3 DEF Typed

LEMMA TypedRequest ==
    ASSUME Typed, NEW p \in Procs, NEW k \in Calls, NEW m \in Modes, Request(p, k, m)
    PROVE  Typed'
<1> USE DEF Typed, Request
<1>1. gateQueue' \in Seq(Tasks) /\ pc' \in [Procs -> PcType]
  <2>1. CASE p \in Threads /\ Goto(p, "want") /\ UNCHANGED gateQueue
    BY <2>1 DEF TypeOK, Goto, PcType
  <2>2. CASE p \in Tasks /\ Goto(p, "queued") /\ gateQueue' = Append(gateQueue, p)
    BY <2>2, AppendProperties DEF TypeOK, Goto, PcType
  <2> QED
    BY <2>1, <2>2
<1>2. op' \in [Procs -> [kind : Kinds, mode : Modes]]
  BY CallsAssumption DEF TypeOK
<1>3. ops' \in [Procs -> 0 .. MaxOps] /\ rows' \in [Procs -> 0 .. MaxRows]
  BY BoundsAssumption DEF TypeOK
<1>4. TypeOK'
  BY <1>1, <1>2, <1>3 DEF TypeOK, sqlVars, connVars, blockVars
<1>5. PcMatchesCall'
  BY ProcsAssumption DEF TypeOK, PcMatchesCall, Goto, IsTxn, GateOnly, UsesConn,
     sqlVars, connVars, blockVars
<1> QED
  BY <1>4, <1>5

LEMMA TypedLocks ==
    ASSUME Typed, NEW p \in Procs,
           \/ EnterGate(p) \/ LockForBlock(p) \/ Unlock(p) \/ Ungate(p)
    PROVE  Typed'
<1> USE ProcsAssumption
        DEF Typed, Goto, sqlVars, lockVars, connVars, blockVars, callVars
<1>1. CASE EnterGate(p)
  <2>1. p \in Tasks /\ Tail(gateQueue) \in Seq(Tasks)
    BY <1>1, HeadTailProperties DEF TypeOK, EnterGate
  <2>2. TypeOK'
    BY <1>1, <2>1 DEF TypeOK, EnterGate, PcType
  <2>3. PcMatchesCall'
    BY <1>1, <2>1 DEF TypeOK, PcMatchesCall, EnterGate, IsTxn, GateOnly, UsesConn
  <2> QED
    BY <2>2, <2>3
<1>2. CASE LockForBlock(p)
  <2>1. TypeOK'
    BY <1>2 DEF TypeOK, LockForBlock, PcType
  <2>2. PcMatchesCall'
    BY <1>2 DEF TypeOK, PcMatchesCall, LockForBlock, IsTxn, GateOnly, UsesConn
  <2> QED
    BY <2>1, <2>2
<1>3. CASE Unlock(p)
  <2>1. TypeOK'
    BY <1>3 DEF TypeOK, Unlock, PcType
  <2>2. PcMatchesCall'
    BY <1>3 DEF TypeOK, PcMatchesCall, Unlock, IsTxn, GateOnly, UsesConn
  <2> QED
    BY <2>1, <2>2
<1>4. CASE Ungate(p)
  <2>1. TypeOK'
    BY <1>4 DEF TypeOK, Ungate, PcType
  <2>2. PcMatchesCall'
    BY <1>4 DEF TypeOK, PcMatchesCall, Ungate, IsTxn, GateOnly, UsesConn
  <2> QED
    BY <2>1, <2>2
<1> QED
  BY <1>1, <1>2, <1>3, <1>4

\* A process that uses a connection uses one that exists.
LEMMA ConnTyped ==
    ASSUME Typed, NEW p \in Procs, UsesConn(p)
    PROVE  conn[p] \in Conns
BY DEF Typed, TypeOK, PcMatchesCall

\* Taking a connection, and giving it up.
LEMMA TypedConnections ==
    ASSUME Typed, NEW p \in Procs,
           \/ LockForWrite(p) \/ Checkout(p) \/ ConnectFails(p) \/ BeginFails(p)
           \/ Cleanup(p)
    PROVE  Typed'
<1> USE ProcsAssumption
        DEF Typed, Goto, sqlVars, lockVars, connVars, blockVars, callVars
<1>1. CASE LockForWrite(p)
  <2>1. PICK t \in ThreadsOf(p), c \in Conns :
          CachedConnection(t, c) /\ conn' = [conn EXCEPT ![p] = c]
    BY <1>1 DEF LockForWrite
  <2>2. t \in Threads \cup Workers
    BY DEF ThreadsOf, Procs
  <2>3. tx' \in [Conns -> TxType]
    BY <2>1, NoTxType, BecomeTyped DEF TypeOK, CachedConnection, NewConnection
  <2>4. threadConn' \in [Threads \cup Workers -> Conns \cup {None}]
    BY <2>1, <2>2 DEF TypeOK, CachedConnection
  <2>5. TypeOK'
    BY <1>1, <2>1, <2>3, <2>4 DEF TypeOK, LockForWrite, PcType
  <2>6. PcMatchesCall'
    BY <1>1, <2>1 DEF TypeOK, PcMatchesCall, LockForWrite, IsTxn, GateOnly, UsesConn
  <2> QED
    BY <2>5, <2>6
<1>2. CASE Checkout(p)
  <2>1. PICK c \in Conns :
          /\ conn' = [conn EXCEPT ![p] = c]
          /\ \/ pool' = Front(pool) /\ UNCHANGED tx
             \/ NewConnection(c) /\ UNCHANGED pool
    BY <1>2 DEF Checkout
  <2>2. tx' \in [Conns -> TxType] /\ pool' \in Seq(Conns)
    BY <2>1, NoTxType, BecomeTyped, FrontTyped DEF TypeOK, NewConnection
  <2>3. TypeOK'
    BY <1>2, <2>1, <2>2 DEF TypeOK, Checkout, PcType
  <2>4. PcMatchesCall'
    BY <1>2, <2>1 DEF TypeOK, PcMatchesCall, Checkout, IsTxn, GateOnly, UsesConn
  <2> QED
    BY <2>3, <2>4
<1>3. CASE BeginFails(p)
  <2>1. conn[p] \in Conns
    BY <1>3, ConnTyped DEF BeginFails, UsesConn
  <2>2. tx' \in [Conns -> TxType] /\ pool' \in Seq(Conns)
    BY <1>3, <2>1, ReleaseTyped DEF BeginFails, TypeOK
  <2>3. TypeOK'
    BY <1>3, <2>2 DEF TypeOK, BeginFails, Leave, PcType
  <2>4. PcMatchesCall'
    BY <1>3 DEF TypeOK, PcMatchesCall, BeginFails, Leave, IsTxn, GateOnly, UsesConn
  <2> QED
    BY <2>3, <2>4
<1>4. CASE Cleanup(p)
  <2>1. conn[p] \in Conns
    BY <1>4, ConnTyped DEF Cleanup, UsesConn
  <2>2. tx' \in [Conns -> TxType] /\ pool' \in Seq(Conns)
    BY <1>4, <2>1, ReleaseTyped DEF Cleanup, TypeOK
  <2>3. TypeOK'
    BY <1>4, <2>2 DEF TypeOK, Cleanup, Leave, PcType
  <2>4. PcMatchesCall'
    BY <1>4 DEF TypeOK, PcMatchesCall, Cleanup, Leave, IsTxn, GateOnly, UsesConn
  <2> QED
    BY <2>3, <2>4
<1>5. CASE ConnectFails(p)
  <2>1. TypeOK'
    BY <1>5 DEF TypeOK, ConnectFails, Leave, PcType
  <2>2. PcMatchesCall'
    BY <1>5 DEF TypeOK, PcMatchesCall, ConnectFails, Leave, IsTxn, GateOnly, UsesConn
  <2> QED
    BY <2>1, <2>2
<1> QED
  BY <1>1, <1>2, <1>3, <1>4, <1>5

\* Root and nested blocks.
LEMMA TypedBlocks ==
    ASSUME Typed, NEW p \in Procs,
           \/ Begin(p) \/ Write(p) \/ Read(p) \/ Nest(p) \/ EndBlock(p)
           \/ FinishNested(p) \/ FinishRoot(p) \/ CommitRefused(p)
    PROVE  Typed'
<1> USE ProcsAssumption
        DEF Typed, Goto, sqlVars, lockVars, connVars, blockVars, callVars
<1>1. CASE Begin(p)
  <2>1. conn[p] \in Conns
    BY <1>1, ConnTyped DEF Begin, UsesConn
  <2>2. SqlTypeOK'
    BY <1>1, <2>1, SqlTyped DEF Begin, TypeOK, SqlTypeOK
  <2>3. blocks' \in [Procs -> Seq(Nat)] /\ savepoints' \in [Procs -> Nat]
    <3>1. <<0>> \in Seq(Nat)
      OBVIOUS
    <3>2. CASE IsTxn(p)
      <4>1. blocks' = [blocks EXCEPT ![p] = <<0>>] /\ savepoints' = [savepoints EXCEPT ![p] = 0]
        BY <1>1, <3>2 DEF Begin
      <4> QED
        BY <3>1, <4>1, Zenon DEF TypeOK
    <3>3. CASE ~IsTxn(p)
      BY <1>1, <3>3 DEF TypeOK, Begin
    <3> QED
      BY <3>2, <3>3
  <2>4. TypeOK'
    BY <1>1, <2>2, <2>3 DEF TypeOK, SqlTypeOK, Begin, PcType
  <2>5. PcMatchesCall'
    BY <1>1 DEF TypeOK, PcMatchesCall, Begin, IsTxn, GateOnly, UsesConn
  <2> QED
    BY <2>4, <2>5
<1>2. CASE Write(p)
  <2>1. conn[p] \in Conns
    BY <1>2, ConnTyped DEF Write, UsesConn
  <2>2. NextWrite(p) \in Writes /\ rows' \in [Procs -> 0 .. MaxRows]
    BY <1>2, NextWriteTyped, BoundsAssumption, SMTT(20) DEF Write, IssueRow, TypeOK
  <2>3. SqlTypeOK'
    BY <1>2, <2>1, <2>2, SqlTyped DEF Write, TypeOK, SqlTypeOK, SqlWrite
  <2>4. TypeOK'
    BY <1>2, <2>2, <2>3 DEF TypeOK, SqlTypeOK, Write, PcType
  <2>5. PcMatchesCall'
    BY <1>2 DEF TypeOK, PcMatchesCall, Write, IsTxn, GateOnly, UsesConn
  <2> QED
    BY <2>4, <2>5
<1>3. CASE Read(p)
  <2>1. conn[p] \in Conns
    BY <1>3, ConnTyped DEF Read, UsesConn
  <2>2. SqlTypeOK'
    BY <1>3, <2>1, SqlTyped DEF Read, TypeOK, SqlTypeOK
  <2>3. TypeOK'
    BY <1>3, <2>2 DEF TypeOK, SqlTypeOK, Read, PcType
  <2>4. PcMatchesCall'
    BY <1>3 DEF TypeOK, PcMatchesCall, Read, IsTxn, GateOnly, UsesConn
  <2> QED
    BY <2>3, <2>4
<1>4. CASE Nest(p)
  <2>1. conn[p] \in Conns
    BY <1>4, ConnTyped DEF Nest, UsesConn
  <2>2. savepoints' \in [Procs -> Nat] /\ savepoints'[p] \in Nat
    BY <1>4 DEF TypeOK, Nest
  <2>3. blocks' \in [Procs -> Seq(Nat)]
    BY <1>4, <2>2, AppendProperties DEF TypeOK, Nest
  <2>4. SqlTypeOK'
    BY <1>4, <2>1, <2>2, SqlTyped DEF Nest, TypeOK, SqlTypeOK
  <2>5. TypeOK'
    BY <1>4, <2>2, <2>3, <2>4 DEF TypeOK, SqlTypeOK, Nest, PcType
  <2>6. PcMatchesCall'
    BY <1>4 DEF TypeOK, PcMatchesCall, Nest, IsTxn, GateOnly, UsesConn
  <2> QED
    BY <2>5, <2>6
<1>5. CASE FinishNested(p)
  <2>1. conn[p] \in Conns
    BY <1>5, ConnTyped DEF FinishNested, UsesConn
  <2>2. blocks' \in [Procs -> Seq(Nat)]
    BY <1>5, FrontTyped DEF TypeOK, FinishNested
  <2>3. SqlTypeOK'
    BY <1>5, <2>1, SqlTyped DEF FinishNested, TypeOK, SqlTypeOK
  <2>4. TypeOK'
    BY <1>5, <2>2, <2>3 DEF TypeOK, SqlTypeOK, FinishNested, PcType
  <2>5. PcMatchesCall'
    BY <1>5 DEF TypeOK, PcMatchesCall, FinishNested, IsTxn, GateOnly, UsesConn
  <2> QED
    BY <2>4, <2>5
<1>6. CASE FinishRoot(p)
  <2>1. conn[p] \in Conns
    BY <1>6, ConnTyped DEF FinishRoot, UsesConn
  <2>2. SqlTypeOK'
    BY <1>6, <2>1, SqlTyped DEF FinishRoot, TypeOK, SqlTypeOK
  <2>3. TypeOK'
    BY <1>6, <2>2 DEF TypeOK, SqlTypeOK, FinishRoot, PcType
  <2>4. PcMatchesCall'
    BY <1>6 DEF TypeOK, PcMatchesCall, FinishRoot, IsTxn, GateOnly, UsesConn
  <2> QED
    BY <2>3, <2>4
<1>7. CASE CommitRefused(p)
  <2>1. TypeOK'
    BY <1>7 DEF TypeOK, SqlTypeOK, CommitRefused, PcType
  <2>2. PcMatchesCall'
    BY <1>7 DEF TypeOK, PcMatchesCall, CommitRefused, IsTxn, GateOnly, UsesConn
  <2> QED
    BY <2>1, <2>2
<1>8. CASE EndBlock(p)
  <2>1. TypeOK'
    BY <1>8 DEF TypeOK, EndBlock, PcType
  <2>2. PcMatchesCall'
    BY <1>8 DEF TypeOK, PcMatchesCall, EndBlock, IsTxn, GateOnly, UsesConn
  <2> QED
    BY <2>1, <2>2
<1> QED
  BY <1>1, <1>2, <1>3, <1>4, <1>5, <1>6, <1>7, <1>8

\* Writes outside a block.
LEMMA TypedWrites ==
    ASSUME Typed, NEW p \in Procs,
           \/ AutoWrite(p) \/ Script(p) \/ WriteFails(p)
           \/ ManyRow(p) \/ ManyCommit(p) \/ ManyFails(p) \/ ManyOverflows(p)
    PROVE  Typed'
<1> USE ProcsAssumption
        DEF Typed, Goto, DoneWriting, sqlVars, lockVars, connVars, blockVars,
            callVars
<1>1. CASE AutoWrite(p)
  <2>1. conn[p] \in Conns
    BY <1>1, ConnTyped DEF AutoWrite, UsesConn
  <2>2. NextWrite(p) \in Writes /\ rows' \in [Procs -> 0 .. MaxRows]
    BY <1>1, NextWriteTyped, BoundsAssumption DEF AutoWrite, IssueRow, TypeOK
  <2>3. SqlTypeOK'
    BY <1>1, <2>1, <2>2, SqlTyped DEF AutoWrite, TypeOK, SqlTypeOK
  <2>4. TypeOK'
    BY <1>1, <2>2, <2>3 DEF TypeOK, SqlTypeOK, AutoWrite, PcType
  <2>5. PcMatchesCall'
    BY <1>1 DEF TypeOK, PcMatchesCall, AutoWrite, IsTxn, GateOnly, UsesConn
  <2> QED
    BY <2>4, <2>5
<1>2. CASE Script(p)
  <2>1. conn[p] \in Conns
    BY <1>2, ConnTyped DEF Script, UsesConn
  <2>2. NextWrite(p) \in Writes /\ rows' \in [Procs -> 0 .. MaxRows]
    BY <1>2, NextWriteTyped, BoundsAssumption DEF Script, IssueRow, TypeOK
  <2>3. SqlTypeOK'
    BY <1>2, <2>1, <2>2, NoTxType, BecomeTyped DEF Script, TypeOK, SqlTypeOK, View, TxType
  <2>4. TypeOK'
    BY <1>2, <2>2, <2>3 DEF TypeOK, SqlTypeOK, Script, PcType
  <2>5. PcMatchesCall'
    BY <1>2 DEF TypeOK, PcMatchesCall, Script, IsTxn, GateOnly, UsesConn
  <2> QED
    BY <2>4, <2>5
<1>3. CASE WriteFails(p)
  <2>1. TypeOK'
    BY <1>3 DEF TypeOK, SqlTypeOK, WriteFails, PcType
  <2>2. PcMatchesCall'
    BY <1>3 DEF TypeOK, PcMatchesCall, WriteFails, IsTxn, GateOnly, UsesConn
  <2> QED
    BY <2>1, <2>2
<1>4. CASE ManyRow(p)
  <2>1. conn[p] \in Conns
    BY <1>4, ConnTyped DEF ManyRow, UsesConn
  <2>2. NextWrite(p) \in Writes /\ rows' \in [Procs -> 0 .. MaxRows]
    BY <1>4, NextWriteTyped, BoundsAssumption, SMTT(20) DEF ManyRow, IssueRow, TypeOK
  <2>3. SqlTypeOK'
    BY <1>4, <2>1, <2>2, SqlTyped DEF ManyRow, TypeOK, SqlTypeOK, SqlWrite
  <2>4. TypeOK'
    BY <1>4, <2>2, <2>3 DEF TypeOK, SqlTypeOK, ManyRow, PcType
  <2>5. PcMatchesCall'
    BY <1>4 DEF TypeOK, PcMatchesCall, ManyRow, IsTxn, GateOnly, UsesConn
  <2> QED
    BY <2>4, <2>5
<1>5. CASE ManyCommit(p)
  <2>1. conn[p] \in Conns
    BY <1>5, ConnTyped DEF ManyCommit, UsesConn
  <2>2. SqlTypeOK'
    BY <1>5, <2>1, SqlTyped DEF ManyCommit, TypeOK, SqlTypeOK
  <2>3. TypeOK'
    BY <1>5, <2>2 DEF TypeOK, SqlTypeOK, ManyCommit, PcType
  <2>4. PcMatchesCall'
    BY <1>5 DEF TypeOK, PcMatchesCall, ManyCommit, IsTxn, GateOnly, UsesConn
  <2> QED
    BY <2>3, <2>4
<1>6. CASE ManyFails(p)
  <2>1. conn[p] \in Conns
    BY <1>6, ConnTyped DEF ManyFails, UsesConn
  <2>2. SqlTypeOK'
    BY <1>6, <2>1, SqlTyped DEF ManyFails, TypeOK, SqlTypeOK
  <2>3. TypeOK'
    BY <1>6, <2>2 DEF TypeOK, SqlTypeOK, ManyFails, PcType
  <2>4. PcMatchesCall'
    BY <1>6 DEF TypeOK, PcMatchesCall, ManyFails, IsTxn, GateOnly, UsesConn
  <2> QED
    BY <2>3, <2>4
<1>7. CASE ManyOverflows(p)
  <2>1. TypeOK'
    BY <1>7 DEF TypeOK, SqlTypeOK, ManyOverflows, PcType
  <2>2. PcMatchesCall'
    BY <1>7 DEF TypeOK, PcMatchesCall, ManyOverflows, IsTxn, GateOnly, UsesConn
  <2> QED
    BY <2>1, <2>2
<1> QED
  BY <1>1, <1>2, <1>3, <1>4, <1>5, <1>6, <1>7

LEMMA TypedNext == Typed /\ [Next]_vars => Typed'
<1> SUFFICES ASSUME Typed, [Next]_vars PROVE Typed'
  OBVIOUS
<1>1. CASE UNCHANGED vars
  BY <1>1 DEF Typed, TypeOK, PcMatchesCall, UsesConn, IsTxn, GateOnly, vars, sqlVars,
     lockVars, connVars, blockVars, callVars
<1>2. ASSUME NEW p \in Procs, Step(p) PROVE Typed'
  BY <1>2, TypedLocks, TypedConnections, TypedBlocks, TypedWrites DEF Step
<1>3. ASSUME NEW p \in Procs, NEW k \in Calls, NEW m \in Modes, Request(p, k, m)
      PROVE  Typed'
  BY <1>3, TypedRequest
<1> QED
  BY <1>1, <1>2, <1>3 DEF Next, Finished

\* Every variable keeps its type, and no process is ever at a position its
\* call does not pass through.
THEOREM TypeCorrect == Spec => []TypeOK
<1>1. Spec => []Typed
  BY TypedInit, TypedNext, PTL DEF Spec
<1>2. Typed => TypeOK
  BY DEF Typed
<1> QED
  BY <1>1, <1>2, PTL

-----------------------------------------------------------------------------
(***************************************************************************)
(* The locks.                                                              *)
(***************************************************************************)
LEMMA LocksInit == Init => LocksMatch
BY ProcsAssumption DEF Init, LocksMatch, HoldsWriteLock, HoldsGate

LEMMA LocksNext == Typed /\ LocksMatch /\ [Next]_vars => LocksMatch'
<1> SUFFICES ASSUME Typed, LocksMatch, [Next]_vars PROVE LocksMatch'
  OBVIOUS
<1> USE ProcsAssumption
        DEF Procs, Typed, PcMatchesCall, LocksMatch, HoldsWriteLock, HoldsGate, IsTxn, GateOnly, Goto,
            Leave, DoneWriting, sqlVars, lockVars, connVars, blockVars, callVars
<1>1. CASE UNCHANGED vars
  BY <1>1 DEF vars
<1>2. ASSUME NEW p \in Procs, NEW k \in Calls, NEW m \in Modes, Request(p, k, m)
      PROVE  LocksMatch'
  BY <1>2, SMTT(20) DEF Request, TypeOK
<1>3. ASSUME NEW p \in Procs, EnterGate(p) PROVE LocksMatch'
  BY <1>3 DEF EnterGate, TypeOK
<1>4. ASSUME NEW p \in Procs, LockForBlock(p) PROVE LocksMatch'
  BY <1>4 DEF LockForBlock, TypeOK
<1>5. ASSUME NEW p \in Procs, LockForWrite(p) PROVE LocksMatch'
  BY <1>5 DEF LockForWrite, TypeOK
<1>6. ASSUME NEW p \in Procs, Unlock(p) PROVE LocksMatch'
  BY <1>6 DEF Unlock, TypeOK
<1>7. ASSUME NEW p \in Procs, Ungate(p) PROVE LocksMatch'
  BY <1>7 DEF Ungate, TypeOK
<1>8. ASSUME NEW p \in Procs, Checkout(p) PROVE LocksMatch'
  BY <1>8 DEF Checkout, TypeOK
<1>9. ASSUME NEW p \in Procs, Begin(p) PROVE LocksMatch'
  <2>1. pc[p] = "begin" /\ UNCHANGED <<writeLock, gate, op>>
    BY <1>9 DEF Begin
  <2>2. \/ pc' = [pc EXCEPT ![p] = "open"] /\ IsTxn(p)
        \/ pc' = [pc EXCEPT ![p] = "rows"]
    BY <1>9 DEF Begin
  <2> QED
    BY <2>1, <2>2 DEF TypeOK
<1>10. ASSUME NEW p \in Procs, BeginFails(p) PROVE LocksMatch'
  BY <1>10 DEF BeginFails, TypeOK
<1>11. ASSUME NEW p \in Procs, Write(p) PROVE LocksMatch'
  BY <1>11 DEF Write, TypeOK
<1>12. ASSUME NEW p \in Procs, Read(p) PROVE LocksMatch'
  BY <1>12 DEF Read, TypeOK
<1>13. ASSUME NEW p \in Procs, Nest(p) PROVE LocksMatch'
  BY <1>13 DEF Nest, TypeOK
<1>14. ASSUME NEW p \in Procs, FinishNested(p) PROVE LocksMatch'
  BY <1>14 DEF FinishNested, TypeOK
<1>15. ASSUME NEW p \in Procs, FinishRoot(p) PROVE LocksMatch'
  BY <1>15 DEF FinishRoot, TypeOK
<1>16. ASSUME NEW p \in Procs, CommitRefused(p) PROVE LocksMatch'
  BY <1>16 DEF CommitRefused, TypeOK
<1>17. ASSUME NEW p \in Procs, Cleanup(p) PROVE LocksMatch'
  BY <1>17 DEF Cleanup, TypeOK
<1>18. ASSUME NEW p \in Procs, AutoWrite(p) PROVE LocksMatch'
  BY <1>18 DEF AutoWrite, TypeOK
<1>19. ASSUME NEW p \in Procs, Script(p) PROVE LocksMatch'
  BY <1>19 DEF Script, TypeOK
<1>20. ASSUME NEW p \in Procs, WriteFails(p) PROVE LocksMatch'
  BY <1>20 DEF WriteFails, TypeOK
<1>21. ASSUME NEW p \in Procs, ManyRow(p) PROVE LocksMatch'
  BY <1>21 DEF ManyRow, TypeOK
<1>22. ASSUME NEW p \in Procs, ManyCommit(p) PROVE LocksMatch'
  BY <1>22 DEF ManyCommit, TypeOK
<1>23. ASSUME NEW p \in Procs, ManyFails(p) PROVE LocksMatch'
  BY <1>23 DEF ManyFails, TypeOK
<1>24. ASSUME NEW p \in Procs, ManyOverflows(p) PROVE LocksMatch'
  BY <1>24 DEF ManyOverflows, TypeOK
<1>25. ASSUME NEW p \in Procs, EndBlock(p) PROVE LocksMatch'
  BY <1>25 DEF EndBlock, TypeOK
<1>26. ASSUME NEW p \in Procs, ConnectFails(p) PROVE LocksMatch'
  <2>1. /\ pc[p] \in {"want", "checkout"} /\ UNCHANGED <<gate, op>>
        /\ pc' = [pc EXCEPT ![p] = IF GateOnly(p) THEN "ungate" ELSE "unlock"]
    BY <1>26 DEF ConnectFails
  <2>2. CASE pc[p] = "want"
    <3>1. ~IsTxn(p) /\ writeLock = None /\ writeLock' = p
      BY <1>26, <2>2 DEF ConnectFails
    <3> QED
      BY <2>1, <2>2, <3>1 DEF TypeOK
  <2>3. CASE pc[p] = "checkout"
    <3>1. writeLock' = writeLock
      BY <1>26, <2>3 DEF ConnectFails
    <3> QED
      BY <2>1, <2>3, <3>1 DEF TypeOK
  <2> QED
    BY <2>1, <2>2, <2>3
<1> QED
  BY <1>1, <1>2, <1>3, <1>4, <1>5, <1>6, <1>7, <1>8, <1>9, <1>10, <1>11, <1>12, <1>13, <1>14,
     <1>15, <1>16, <1>17, <1>18, <1>19, <1>20, <1>21, <1>22, <1>23, <1>24, <1>25, <1>26
     DEF Next, Step, Finished

\* The write lock and the gate are each held by exactly the process whose
\* position in __enter__, __exit__ or a write says it holds them.
THEOREM LocksHeldByRightProcess == Spec => []LocksMatch
BY TypedInit, TypedNext, LocksInit, LocksNext, PTL DEF Spec

-----------------------------------------------------------------------------
(***************************************************************************)
(* Connections.  A connection that is opened is new because everything the *)
(* code still refers to is open: that is the strengthening.                *)
(***************************************************************************)
Referenced(c) ==
    \/ \E p \in Procs : conn[p] = c
    \/ \E i \in 1 .. Len(pool) : pool[i] = c
    \/ \E t \in Threads \cup Workers : threadConn[t] = c

ReferencedAreOpen == \A c \in Conns : Referenced(c) => tx[c].at # "closed"

ConnInv == ConnectionsNotShared /\ ReferencedAreOpen

\* A statement changes no connection but its own, and closes none.
LEMMA SqlKeepsOpen ==
    ASSUME SqlTypeOK, NEW c \in Conns, tx[c].at # "closed",
           \/ \E m : SqlBegin(c, m)
           \/ SqlRead(c) \/ SqlCommit(c) \/ SqlRollback(c)
           \/ \E w \in Writes : SqlWrite(c, w)
           \/ \E n \in Nat : SqlSavepoint(c, n)
           \/ \E n : SqlRelease(c, n) \/ SqlRollbackToAndRelease(c, n)
    PROVE  \A d \in Conns : tx[d].at # "closed" => tx'[d].at # "closed"
<1> USE DEF SqlTypeOK, Become, NoTx, Transaction
<1>1. CASE \E m : SqlBegin(c, m)
  BY <1>1 DEF SqlBegin
<1>2. CASE SqlRead(c) \/ SqlCommit(c) \/ SqlRollback(c)
  BY <1>2 DEF SqlRead, SqlCommit, SqlRollback
<1>3. CASE \E w \in Writes : SqlWrite(c, w)
  BY <1>3 DEF SqlWrite, SqlAutoWrite, SqlTxnWrite
<1>4. CASE \E n \in Nat : SqlSavepoint(c, n)
  BY <1>4 DEF SqlSavepoint
<1>5. CASE \E n : SqlRelease(c, n) \/ SqlRollbackToAndRelease(c, n)
  BY <1>5 DEF SqlRelease, SqlRollbackToAndRelease
<1> QED
  BY <1>1, <1>2, <1>3, <1>4, <1>5

LEMMA ConnInit == Init => ConnInv
BY ProcsAssumption DEF Init, ConnInv, ConnectionsNotShared, ReferencedAreOpen, Referenced

LEMMA ConnTaken ==
    ASSUME Typed, LocksMatch, ConnInv, NEW p \in Procs, LockForWrite(p) \/ Checkout(p)
    PROVE  ConnInv'
<1> USE ProcsAssumption DEF Typed, TypeOK, ConnInv, ConnectionsNotShared,
        ReferencedAreOpen, Referenced, Goto, lockVars, blockVars, callVars
<1>1. CASE LockForWrite(p)
  <2>1. PICK t \in ThreadsOf(p), c \in Conns :
          CachedConnection(t, c) /\ conn' = [conn EXCEPT ![p] = c]
    BY <1>1 DEF LockForWrite
  <2>2. t \in Threads \cup Workers
    BY DEF ThreadsOf, Procs
  <2>3. \A q \in Procs : ~IsTxn(q) => conn[q] = None
    BY <1>1 DEF LockForWrite, LocksMatch, HoldsWriteLock, PcMatchesCall, UsesConn, Procs,
                IsTxn, GateOnly
  <2>4. ~IsTxn(p) /\ pool' = pool /\ op' = op
    BY <1>1 DEF LockForWrite
  <2>5. CASE c = threadConn[t] /\ UNCHANGED <<threadConn, tx>>
    BY <2>1, <2>2, <2>3, <2>4, <2>5, SMTT(20) DEF IsTxn
  <2>6. CASE NewConnection(c) /\ threadConn' = [threadConn EXCEPT ![t] = c]
    <3>1. ~Referenced(c)
      BY <2>6 DEF NewConnection
    <3>2. \A d \in Conns : d # c => tx'[d] = tx[d]
      BY <2>6 DEF NewConnection, Become
    <3>3. tx'[c].at = "idle"
      BY <2>6 DEF NewConnection, Become, NoTx, Transaction
    <3>4. ConnectionsNotShared'
      BY <2>1, <2>2, <2>3, <2>4, <2>6, <3>1, ZenonT(30) DEF IsTxn
    <3>5. ReferencedAreOpen'
      BY <2>1, <2>2, <2>4, <2>6, <3>2, <3>3
    <3> QED
      BY <3>4, <3>5
  <2> QED
    BY <2>1, <2>5, <2>6 DEF CachedConnection
<1>2. CASE Checkout(p)
  <2>1. PICK c \in Conns :
          /\ conn' = [conn EXCEPT ![p] = c]
          /\ IF pool # <<>>
             THEN c = Last(pool) /\ pool' = Front(pool) /\ UNCHANGED tx
             ELSE NewConnection(c) /\ UNCHANGED pool
    BY <1>2 DEF Checkout
  <2>2. IsTxn(p) /\ op' = op /\ threadConn' = threadConn
    BY <1>2 DEF Checkout, PcMatchesCall
  <2>3. CASE pool # <<>>
    <3>1. /\ Len(pool) \in Nat \ {0} /\ Len(pool') = Len(pool) - 1
          /\ \A i \in 1 .. Len(pool') : pool'[i] = pool[i]
          /\ c = pool[Len(pool)]
      <4>1. Len(pool) \in Nat \ {0}
        BY <2>3, EmptySeq
      <4>2. \A i \in 1 .. Len(pool) - 1 : pool[i] \in Conns
        BY <4>1
      <4> QED
        BY <2>1, <2>3, <4>1, <4>2, SubSeqProperties DEF Front, Last
    <3>2. tx' = tx
      BY <2>1, <2>3
    <3>3. ConnectionsNotShared'
      BY <2>1, <2>2, <3>1, SMTT(20) DEF IsTxn
    <3>4. ReferencedAreOpen'
      BY <2>1, <2>2, <3>1, <3>2
    <3> QED
      BY <3>3, <3>4
  <2>4. CASE pool = <<>>
    <3>1. ~Referenced(c) /\ pool' = pool
      BY <2>1, <2>4 DEF NewConnection
    <3>2. /\ tx'[c].at = "idle"
          /\ \A d \in Conns : d # c => tx'[d] = tx[d]
      BY <2>1, <2>4 DEF NewConnection, Become, NoTx, Transaction
    <3>3. ConnectionsNotShared'
      BY <2>1, <2>2, <3>1, SMTT(20) DEF IsTxn
    <3>4. ReferencedAreOpen'
      BY <2>1, <2>2, <3>1, <3>2
    <3> QED
      BY <3>3, <3>4
  <2> QED
    BY <2>3, <2>4
<1> QED
  BY <1>1, <1>2

LEMMA AppendRange ==
    ASSUME NEW n \in Nat
    PROVE  \A i \in 1 .. n + 1 : i # n + 1 => i \in 1 .. n
OBVIOUS

LEMMA ConnReturned ==
    ASSUME Typed, ConnInv, NEW p \in Procs, IsTxn(p), UsesConn(p),
           ReleaseTxnConn(conn[p]), conn' = [conn EXCEPT ![p] = None],
           UNCHANGED <<threadConn, op>>
    PROVE  ConnInv'
<1> USE ProcsAssumption DEF Typed, TypeOK, ConnInv, ConnectionsNotShared,
        ReferencedAreOpen, Referenced
<1>1. conn[p] \in Conns
  BY ConnTyped
<1>2. CASE pool' = Append(pool, conn[p]) /\ UNCHANGED tx
  <2>1. /\ Len(pool) \in Nat /\ Len(pool') = Len(pool) + 1
        /\ \A i \in 1 .. Len(pool) : pool'[i] = pool[i]
        /\ pool'[Len(pool) + 1] = conn[p]
    BY <1>1, <1>2, AppendProperties, LenProperties
  <2>2. \A i \in 1 .. Len(pool') : i # Len(pool) + 1 => i \in 1 .. Len(pool)
    BY <2>1, AppendRange
  <2>3. ConnectionsNotShared'
    BY <1>1, <1>2, <2>1, <2>2 DEF IsTxn
  <2>4. ReferencedAreOpen'
    BY <1>1, <1>2, <2>1, <2>2
  <2> QED
    BY <2>3, <2>4
<1>3. CASE Become(conn[p], NoTx("closed")) /\ UNCHANGED pool
  <2> PICK c \in Conns : c = conn[p]
    BY <1>1
  <2>1. \A d \in Conns : d # c => tx'[d] = tx[d]
    BY <1>1, <1>3 DEF Become
  <2>2. ConnectionsNotShared'
    BY <1>1, <1>3 DEF IsTxn
  <2>3. ~Referenced(c)'
    BY <1>1, <1>3 DEF IsTxn
  <2>4. ReferencedAreOpen'
    BY <1>1, <1>3, <2>1, <2>3
  <2> QED
    BY <2>2, <2>4
<1> QED
  BY <1>2, <1>3 DEF ReleaseTxnConn

\* A step that only gives a connection up, or keeps every reference as it is,
\* and closes nothing.
LEMMA ConnKept ==
    ASSUME Typed, ConnInv, NEW p \in Procs,
           conn' = conn \/ conn' = [conn EXCEPT ![p] = None],
           UNCHANGED <<pool, threadConn>>,
           op' = op \/ (~UsesConn(p) /\ \E r : op' = [op EXCEPT ![p] = r]),
           \A d \in Conns : tx[d].at # "closed" => tx'[d].at # "closed"
    PROVE  ConnInv'
<1> USE ProcsAssumption DEF Typed, TypeOK, PcMatchesCall, ConnInv
<1>1. /\ \A q \in Procs : conn'[q] = conn[q] \/ conn'[q] = None
      /\ pool' = pool /\ threadConn' = threadConn
  OBVIOUS
<1>2. \A q \in Procs : conn'[q] # None => op'[q] = op[q]
  OBVIOUS
<1>3. ConnectionsNotShared'
  BY <1>1, <1>2 DEF ConnectionsNotShared, IsTxn
<1>4. ReferencedAreOpen'
  BY <1>1 DEF ReferencedAreOpen, Referenced
<1> QED
  BY <1>3, <1>4

\* A process about to use its connection finds it open.
LEMMA UsedConnOpen ==
    ASSUME Typed, ConnInv, NEW p \in Procs, UsesConn(p)
    PROVE  conn[p] \in Conns /\ tx[conn[p]].at # "closed" /\ SqlTypeOK
BY ConnTyped DEF Typed, TypeOK, ConnInv, ReferencedAreOpen, Referenced, SqlTypeOK

LEMMA ConnNext == Typed /\ LocksMatch /\ ConnInv /\ [Next]_vars => ConnInv'
<1> SUFFICES ASSUME Typed, LocksMatch, ConnInv, [Next]_vars PROVE ConnInv'
  OBVIOUS
<1> USE DEF Goto, sqlVars, lockVars, connVars, blockVars, callVars
<1>1. CASE UNCHANGED vars
  BY <1>1 DEF vars, ConnInv, ConnectionsNotShared, ReferencedAreOpen, Referenced, IsTxn
<1>2. ASSUME NEW p \in Procs, NEW k \in Calls, NEW m \in Modes, Request(p, k, m)
      PROVE  ConnInv'
  BY <1>2, ConnKept DEF Request, UsesConn
<1>3. ASSUME NEW p \in Procs,
             \/ EnterGate(p) \/ LockForBlock(p) \/ EndBlock(p) \/ CommitRefused(p)
             \/ Unlock(p) \/ Ungate(p) \/ ConnectFails(p)
      PROVE  ConnInv'
  BY <1>3, ConnKept DEF EnterGate, LockForBlock, EndBlock, CommitRefused, Unlock, Ungate,
     ConnectFails, Leave
<1>4. ASSUME NEW p \in Procs, LockForWrite(p) \/ Checkout(p) PROVE ConnInv'
  BY <1>4, ConnTaken
<1>5. ASSUME NEW p \in Procs, BeginFails(p) PROVE ConnInv'
  <2>1. CASE IsTxn(p)
    BY <1>5, <2>1, ConnReturned DEF BeginFails, UsesConn
  <2>2. CASE ~IsTxn(p)
    BY <1>5, <2>2, ConnKept DEF BeginFails
  <2> QED
    BY <2>1, <2>2
<1>6. ASSUME NEW p \in Procs, Cleanup(p) PROVE ConnInv'
  <2>1. IsTxn(p)
    BY <1>6 DEF Cleanup, Typed, PcMatchesCall
  <2> QED
    BY <1>6, <2>1, ConnReturned DEF Cleanup, UsesConn
<1>7. ASSUME NEW p \in Procs,
             Begin(p) \/ Read(p) \/ Nest(p) \/ FinishNested(p) \/ FinishRoot(p)
      PROVE  ConnInv'
  <2>1. UsesConn(p) /\ UNCHANGED connVars /\ op' = op
    BY <1>7 DEF Begin, Read, Nest, FinishNested, FinishRoot, UsesConn
  <2>2. Nest(p) => savepoints'[p] \in Nat
    BY DEF Nest, Typed, TypeOK
  <2>3. \A d \in Conns : tx[d].at # "closed" => tx'[d].at # "closed"
    BY <1>7, <2>1, <2>2, UsedConnOpen, SqlKeepsOpen
       DEF Begin, Read, Nest, FinishNested, FinishRoot
  <2> QED
    BY <2>1, <2>3, ConnKept
<1>8. ASSUME NEW p \in Procs, Write(p) \/ AutoWrite(p) \/ ManyRow(p) PROVE ConnInv'
  <2>1. UsesConn(p)
    BY <1>8 DEF Write, AutoWrite, ManyRow, UsesConn
  <2>2. NextWrite(p) \in Writes
    BY <1>8, NextWriteTyped DEF Write, AutoWrite, ManyRow, IssueRow
  <2>3. \A d \in Conns : tx[d].at # "closed" => tx'[d].at # "closed"
    BY <1>8, <2>1, <2>2, UsedConnOpen, SqlKeepsOpen DEF Write, AutoWrite, ManyRow, SqlWrite
  <2> QED
    BY <1>8, <2>3, ConnKept DEF Write, AutoWrite, ManyRow, DoneWriting
<1>9. ASSUME NEW p \in Procs, ManyCommit(p) \/ ManyFails(p) PROVE ConnInv'
  <2>1. UsesConn(p)
    BY <1>9 DEF ManyCommit, ManyFails, UsesConn
  <2>2. \A d \in Conns : tx[d].at # "closed" => tx'[d].at # "closed"
    BY <1>9, <2>1, UsedConnOpen, SqlKeepsOpen DEF ManyCommit, ManyFails
  <2> QED
    BY <1>9, <2>2, ConnKept DEF ManyCommit, ManyFails, DoneWriting
<1>10. ASSUME NEW p \in Procs, Script(p) PROVE ConnInv'
  <2>1. \A d \in Conns : tx[d].at # "closed" => tx'[d].at # "closed"
    BY <1>10 DEF Script, Become, NoTx, Transaction, Typed, TypeOK
  <2> QED
    BY <1>10, <2>1, ConnKept DEF Script, DoneWriting
<1>11. ASSUME NEW p \in Procs, WriteFails(p) \/ ManyOverflows(p) PROVE ConnInv'
  BY <1>11, ConnKept DEF WriteFails, ManyOverflows, DoneWriting
<1> QED
  BY <1>1, <1>2, <1>3, <1>4, <1>5, <1>6, <1>7, <1>8, <1>9, <1>10, <1>11
     DEF Next, Step, Finished

\* A connection serves one process at a time, and the pool, the connections in
\* use and those cached per thread never overlap.
THEOREM ConnectionsServeOne == Spec => []ConnectionsNotShared
<1>1. Init => Typed /\ LocksMatch /\ ConnInv
  BY TypedInit, LocksInit, ConnInit
<1>2. Typed /\ LocksMatch /\ ConnInv /\ [Next]_vars => (Typed /\ LocksMatch /\ ConnInv)'
  BY TypedNext, LocksNext, ConnNext
<1>3. ConnInv => ConnectionsNotShared
  BY DEF ConnInv
<1> QED
  BY <1>1, <1>2, <1>3, PTL DEF Spec

-----------------------------------------------------------------------------
(***************************************************************************)
(* No transaction is left open, hence no contention, as long as COMMIT is  *)
(* not refused and executemany raises nothing but sqlite3.Error.           *)
(***************************************************************************)
\* A step of p that leaves every other process alone keeps the property when
\* each transaction open afterwards was open before and is not p's, or is the
\* one p is inside of now.
LEMMA LeftOpenFrame ==
    ASSUME Typed, NoTransactionLeftOpen, NEW p \in Procs,
           \A q \in Procs : q # p => pc'[q] = pc[q] /\ conn'[q] = conn[q],
           \A d \in Conns : InTransaction(d)' =>
               \/ InTransaction(d) /\ (~Inside(p) \/ d # conn[p])
               \/ Inside(p)' /\ conn'[p] = d
    PROVE  NoTransactionLeftOpen'
BY ZenonT(30) DEF Typed, TypeOK, NoTransactionLeftOpen, Inside

\* A statement changes no connection but its own.
LEMMA SqlChangesOne ==
    ASSUME SqlTypeOK, NEW c \in Conns,
           \/ \E m : SqlBegin(c, m)
           \/ SqlRead(c) \/ SqlCommit(c) \/ SqlRollback(c)
           \/ \E w : SqlTxnWrite(c, w)
           \/ \E n : SqlSavepoint(c, n) \/ SqlRelease(c, n) \/ SqlRollbackToAndRelease(c, n)
    PROVE  \A d \in Conns : d # c => tx'[d] = tx[d]
BY DEF SqlTypeOK, Become, SqlBegin, SqlRead, SqlCommit, SqlRollback, SqlTxnWrite,
       SqlSavepoint, SqlRelease, SqlRollbackToAndRelease

LEMMA BecomeQuiet ==
    ASSUME SqlTypeOK, NEW c, NEW a \in {"idle", "closed"}, Become(c, NoTx(a))
    PROVE  \A d \in Conns : InTransaction(d)' => InTransaction(d) /\ d # c
<1>1. NoTx(a).at = a
  BY DEF NoTx, Transaction
<1>2. \A d \in Conns : tx'[d] = IF d = c THEN NoTx(a) ELSE tx[d]
  BY DEF Become, SqlTypeOK
<1> QED
  BY <1>1, <1>2 DEF InTransaction

LEMMA LeftOpenNext ==
    ASSUME Faults = {}, Typed, ConnInv, NoTransactionLeftOpen, [Next]_vars
    PROVE  NoTransactionLeftOpen'
<1> USE DEF Typed, TypeOK, Goto, Inside, SqlTypeOK, sqlVars, lockVars, connVars
<1>1. CASE UNCHANGED vars
  BY <1>1 DEF vars, NoTransactionLeftOpen, InTransaction
<1>2. ASSUME NEW p \in Procs,
             \/ \E k \in Calls, m \in Modes : Request(p, k, m)
             \/ EnterGate(p) \/ LockForBlock(p) \/ WriteFails(p) \/ Unlock(p) \/ Ungate(p)
             \/ ConnectFails(p)
      PROVE  NoTransactionLeftOpen'
  BY <1>2, LeftOpenFrame DEF Request, EnterGate, LockForBlock, WriteFails, DoneWriting,
     Unlock, Ungate, ConnectFails, Leave, InTransaction
<1>3. ASSUME NEW p \in Procs, LockForWrite(p) \/ Checkout(p)
      PROVE  NoTransactionLeftOpen'
  <2>1. PICK c \in Conns : /\ UNCHANGED tx \/ NewConnection(c)
                           /\ conn' = [conn EXCEPT ![p] = c]
    BY <1>3 DEF LockForWrite, Checkout, CachedConnection
  <2>2. \A d \in Conns : InTransaction(d)' => InTransaction(d)
    BY <2>1, BecomeQuiet DEF NewConnection, InTransaction
  <2> QED
    BY <1>3, <2>1, <2>2, LeftOpenFrame DEF LockForWrite, Checkout
<1>4. ASSUME NEW p \in Procs, BeginFails(p) \/ Cleanup(p)
      PROVE  NoTransactionLeftOpen'
  <2>1. \A d \in Conns : InTransaction(d)' => InTransaction(d)
    <3>1. tx' = tx \/ Become(conn[p], NoTx("closed"))
      BY <1>4 DEF BeginFails, Cleanup, ReleaseTxnConn
    <3> QED
      BY <3>1, BecomeQuiet DEF InTransaction
  <2> QED
    BY <1>4, <2>1, LeftOpenFrame DEF BeginFails, Cleanup, Leave
<1>5. ASSUME NEW p \in Procs, \/ Begin(p) \/ Write(p) \/ Read(p) \/ Nest(p)
                              \/ FinishNested(p) \/ ManyRow(p)
      PROVE  NoTransactionLeftOpen'
  <2>1. \A d \in Conns : d # conn[p] => tx'[d] = tx[d]
    <3>1. conn[p] \in Conns
      BY <1>5, ConnTyped DEF Begin, Write, Read, Nest, FinishNested, ManyRow, UsesConn
    <3>2. CASE Begin(p) \/ Read(p)
      BY <3>1, <3>2, SqlChangesOne DEF Begin, Read
    <3>3. CASE Write(p) \/ ManyRow(p)
      BY <3>1, <3>3, SqlChangesOne DEF Write, ManyRow
    <3>4. CASE Nest(p)
      BY <3>1, <3>4, SqlChangesOne DEF Nest
    <3>5. CASE FinishNested(p)
      BY <3>1, <3>5, SqlChangesOne DEF FinishNested
    <3> QED
      BY <1>5, <3>2, <3>3, <3>4, <3>5
  <2>2. /\ Inside(p)'
        /\ conn' = conn
        /\ \A q \in Procs : q # p => pc'[q] = pc[q]
    BY <1>5 DEF Begin, Write, Read, Nest, FinishNested, ManyRow
  <2> QED
    BY <2>1, <2>2, LeftOpenFrame DEF InTransaction
<1>6. ASSUME NEW p \in Procs, FinishRoot(p) \/ ManyCommit(p) \/ ManyFails(p)
      PROVE  NoTransactionLeftOpen'
  <2>1. SqlCommit(conn[p]) \/ SqlRollback(conn[p])
    BY <1>6 DEF FinishRoot, ManyCommit, ManyFails
  <2>2. \A d \in Conns : InTransaction(d)' => InTransaction(d) /\ d # conn[p]
    BY <2>1, BecomeQuiet DEF SqlCommit, SqlRollback
  <2> QED
    BY <1>6, <2>2, LeftOpenFrame DEF FinishRoot, ManyCommit, ManyFails, DoneWriting
<1>7. ASSUME NEW p \in Procs, AutoWrite(p) PROVE NoTransactionLeftOpen'
  <2>1. ~InTransaction(conn[p])
    <3>1. conn[p] \in Conns /\ conn[p] # None
      BY <1>7, ProcsAssumption, ConnTyped DEF AutoWrite, UsesConn
    <3>2. \A q \in Procs : conn[q] = conn[p] => q = p
      BY <3>1 DEF ConnInv, ConnectionsNotShared
    <3> QED
      BY <1>7, <3>1, <3>2 DEF AutoWrite, NoTransactionLeftOpen
  <2>2. UNCHANGED tx
    BY <1>7, <2>1 DEF AutoWrite, SqlWrite, SqlAutoWrite, SqlTxnWrite
  <2> QED
    BY <1>7, <2>2, LeftOpenFrame DEF AutoWrite, DoneWriting, InTransaction
<1>8. ASSUME NEW p \in Procs, Script(p) PROVE NoTransactionLeftOpen'
  <2>1. \A d \in Conns : InTransaction(d)' => InTransaction(d)
    BY <1>8, BecomeQuiet DEF Script
  <2> QED
    BY <1>8, <2>1, LeftOpenFrame DEF Script, DoneWriting
<1>9. ASSUME NEW p \in Procs, EndBlock(p) PROVE NoTransactionLeftOpen'
  BY <1>9, LeftOpenFrame DEF EndBlock, InTransaction
<1>10. ASSUME NEW p \in Procs, CommitRefused(p) \/ ManyOverflows(p) PROVE FALSE
  BY <1>10 DEF CommitRefused, ManyOverflows
<1> QED
  BY <1>1, <1>2, <1>3, <1>4, <1>5, <1>6, <1>7, <1>8, <1>9, <1>10 DEF Next, Step, Finished

\* Whoever holds SQLite's write lock is inside a block, so by LocksMatch it is
\* on the other side of the process that finds the lock taken.
LEMMA NoContention ==
    Typed /\ LocksMatch /\ NoTransactionLeftOpen => WritersNeverContend
<1> SUFFICES ASSUME Typed, LocksMatch, NoTransactionLeftOpen,
                    NEW p \in Procs, NEW c \in Conns,
                    pc[p] \in {"begin", "exec"}, conn[p] # c, tx[c].at = "writing"
             PROVE  \E q \in OtherDomain(p) : conn[q] = c /\ Inside(q)
  BY DEF WritersNeverContend
<1>1. PICK q \in Procs : conn[q] = c /\ Inside(q)
  BY DEF NoTransactionLeftOpen, InTransaction
<1>2. ~(p \in Threads /\ q \in Threads)
  BY <1>1 DEF LocksMatch, HoldsWriteLock, Inside
<1>3. ~(p \in Tasks /\ q \in Tasks)
  BY <1>1 DEF LocksMatch, HoldsGate, Inside
<1> QED
  BY <1>1, <1>2, <1>3 DEF OtherDomain, Procs

\* What the two theorems below rest on.
NothingOpenInv == Typed /\ LocksMatch /\ ConnInv /\ NoTransactionLeftOpen

LEMMA NothingOpenAlways == ASSUME Faults = {} PROVE Spec => []NothingOpenInv
<1> USE DEF NothingOpenInv
<1>1. Init => NothingOpenInv
  <2>1. Init => NoTransactionLeftOpen
    BY DEF Init, SqlInit, NoTx, Transaction, NoTransactionLeftOpen, InTransaction
  <2> QED
    BY <2>1, TypedInit, LocksInit, ConnInit
<1>2. NothingOpenInv /\ [Next]_vars => NothingOpenInv'
  BY TypedNext, LocksNext, ConnNext, LeftOpenNext
<1> QED
  BY <1>1, <1>2, PTL DEF Spec

\* A transaction that is open belongs to a block or an executemany some process
\* is inside of: no error path of __enter__, _finish or executemany walks away
\* from one, as long as COMMIT is accepted and a batch raises only sqlite3.Error.
THEOREM NothingLeftOpen == ASSUME Faults = {} PROVE Spec => []NoTransactionLeftOpen
<1>1. NothingOpenInv => NoTransactionLeftOpen
  BY DEF NothingOpenInv
<1> QED
  BY <1>1, NothingOpenAlways, PTL

\* "writers within one domain (sync threads, or tasks on one event loop) never
\* contend at the SQLite level", provided nothing leaves a transaction open.
THEOREM NoContentionInDomain == ASSUME Faults = {} PROVE Spec => []WritersNeverContend
<1>1. NothingOpenInv => WritersNeverContend
  BY NoContention DEF NothingOpenInv
<1> QED
  BY <1>1, NothingOpenAlways, PTL

-----------------------------------------------------------------------------
(***************************************************************************)
(* Commits are kept: a connection that may write has read the present      *)
(* database, and it is the only one.  Only BEGIN IMMEDIATE and the first   *)
(* write of a DEFERRED block make a connection a writer, so this holds     *)
(* whatever the code does with its locks.                                  *)
(***************************************************************************)
OneWriter ==
    /\ \A c, d \in Conns : tx[c].at = "writing" /\ tx[d].at = "writing" => c = d
    /\ \A c \in Conns : tx[c].at = "writing" => tx[c].base = db

\* db grows, and OneWriter holds after the step.
KeepsCommits == OneWriter' /\ db \subseteq db'

LEMMA QuietKeepsCommits ==
    ASSUME SqlTypeOK, OneWriter, NEW c \in Conns, NEW a \in {"idle", "closed"},
           Become(c, NoTx(a)),
           \/ UNCHANGED db
           \/ CanLock(c) /\ db \subseteq db'
    PROVE  KeepsCommits
<1>1. NoTx(a).at = a
  BY DEF NoTx, Transaction
<1>2. \A d \in Conns : tx'[d] = IF d = c THEN NoTx(a) ELSE tx[d]
  BY DEF Become, SqlTypeOK
<1> QED
  BY <1>1, <1>2 DEF OneWriter, KeepsCommits, CanLock

LEMMA SqlKeepsCommits ==
    ASSUME SqlTypeOK, OneWriter, NEW c \in Conns,
           \/ \E m : SqlBegin(c, m)
           \/ SqlRead(c) \/ SqlCommit(c) \/ SqlRollback(c)
           \/ \E w : SqlWrite(c, w)
           \/ \E n : SqlSavepoint(c, n) \/ SqlRelease(c, n) \/ SqlRollbackToAndRelease(c, n)
    PROVE  KeepsCommits
<1> USE DEF SqlTypeOK, KeepsCommits
<1>1. ASSUME NEW m, SqlBegin(c, m) PROVE KeepsCommits
  BY <1>1 DEF SqlBegin, Become, NoTx, Transaction, CanLock, OneWriter
<1>2. CASE SqlRead(c)
  BY <1>2 DEF SqlRead, Become, Transaction, OneWriter
<1>3. CASE SqlCommit(c)
  <2>1. CASE tx[c].at = "writing"
    <3>1. CanLock(c) /\ db \subseteq db'
      BY <1>3, <2>1 DEF SqlCommit, OneWriter, View, CanLock
    <3> QED
      BY <1>3, <3>1, QuietKeepsCommits DEF SqlCommit
  <2>2. CASE tx[c].at # "writing"
    BY <1>3, <2>2, QuietKeepsCommits DEF SqlCommit
  <2> QED
    BY <2>1, <2>2
<1>4. CASE SqlRollback(c)
  BY <1>4, QuietKeepsCommits DEF SqlRollback
<1>5. ASSUME NEW w, SqlWrite(c, w) PROVE KeepsCommits
  <2>1. CASE SqlAutoWrite(c, w)
    BY <2>1 DEF SqlAutoWrite, CanLock, OneWriter
  <2>2. CASE SqlTxnWrite(c, w)
    BY <2>2 DEF SqlTxnWrite, Become, Transaction, InTransaction, CanLock, OneWriter
  <2> QED
    BY <1>5, <2>1, <2>2 DEF SqlWrite
<1>6. ASSUME NEW n, SqlSavepoint(c, n) PROVE KeepsCommits
  BY <1>6 DEF SqlSavepoint, Become, Transaction, OneWriter
<1>7. ASSUME NEW n, SqlRelease(c, n) PROVE KeepsCommits
  BY <1>7 DEF SqlRelease, Become, Transaction, OneWriter
<1>8. ASSUME NEW n, SqlRollbackToAndRelease(c, n) PROVE KeepsCommits
  BY <1>8 DEF SqlRollbackToAndRelease, Become, Transaction, OneWriter
<1> QED
  BY <1>1, <1>2, <1>3, <1>4, <1>5, <1>6, <1>7, <1>8

LEMMA CommitsNext == Typed /\ OneWriter /\ [Next]_vars => KeepsCommits
<1> SUFFICES ASSUME Typed, OneWriter, [Next]_vars PROVE KeepsCommits
  OBVIOUS
<1> SqlTypeOK
  BY DEF Typed, TypeOK, SqlTypeOK
<1> USE DEF sqlVars, lockVars
<1>1. CASE UNCHANGED vars
  BY <1>1 DEF vars, OneWriter, KeepsCommits
<1>2. ASSUME NEW p \in Procs,
             \/ \E k \in Calls, m \in Modes : Request(p, k, m)
             \/ EnterGate(p) \/ LockForBlock(p) \/ EndBlock(p) \/ CommitRefused(p)
             \/ WriteFails(p) \/ ManyOverflows(p) \/ Unlock(p) \/ Ungate(p)
             \/ ConnectFails(p)
      PROVE  KeepsCommits
  BY <1>2 DEF Request, EnterGate, LockForBlock, EndBlock, CommitRefused, WriteFails,
     ManyOverflows, Unlock, Ungate, ConnectFails, OneWriter, KeepsCommits
<1>3. ASSUME NEW p \in Procs, LockForWrite(p) \/ Checkout(p) PROVE KeepsCommits
  <2>1. /\ db' = db
        /\ tx' = tx \/ \E c \in Conns : Become(c, NoTx("idle"))
    BY <1>3 DEF LockForWrite, Checkout, CachedConnection, NewConnection
  <2> QED
    BY <2>1, QuietKeepsCommits DEF OneWriter, KeepsCommits
<1>4. ASSUME NEW p \in Procs, BeginFails(p) \/ Cleanup(p) PROVE KeepsCommits
  <2>1. /\ db' = db
        /\ tx' = tx \/ Become(conn[p], NoTx("closed"))
    BY <1>4 DEF BeginFails, Cleanup, ReleaseTxnConn
  <2>2. conn[p] \in Conns
    BY <1>4, ConnTyped DEF BeginFails, Cleanup, UsesConn
  <2> QED
    BY <2>1, <2>2, QuietKeepsCommits DEF OneWriter, KeepsCommits
<1>5. ASSUME NEW p \in Procs,
             \/ Begin(p) \/ Read(p) \/ Nest(p) \/ FinishNested(p) \/ FinishRoot(p)
             \/ Write(p) \/ AutoWrite(p) \/ ManyRow(p) \/ ManyCommit(p) \/ ManyFails(p)
      PROVE  KeepsCommits
  <2>1. conn[p] \in Conns
    BY <1>5, ConnTyped DEF Begin, Read, Nest, FinishNested, FinishRoot, Write, AutoWrite,
       ManyRow, ManyCommit, ManyFails, UsesConn
  <2>2. CASE Begin(p) \/ Read(p)
    BY <2>1, <2>2, SqlKeepsCommits DEF Begin, Read
  <2>3. CASE Nest(p)
    BY <2>1, <2>3, SqlKeepsCommits DEF Nest
  <2>4. CASE FinishNested(p)
    BY <2>1, <2>4, SqlKeepsCommits DEF FinishNested
  <2>5. CASE FinishRoot(p) \/ ManyCommit(p) \/ ManyFails(p)
    BY <2>1, <2>5, SqlKeepsCommits DEF FinishRoot, ManyCommit, ManyFails
  <2>6. CASE Write(p) \/ AutoWrite(p) \/ ManyRow(p)
    BY <2>1, <2>6, SqlKeepsCommits DEF Write, AutoWrite, ManyRow, SqlWrite
  <2> QED
    BY <1>5, <2>2, <2>3, <2>4, <2>5, <2>6
<1>6. ASSUME NEW p \in Procs, Script(p) PROVE KeepsCommits
  <2>1. conn[p] \in Conns
    BY <1>6, ConnTyped DEF Script, UsesConn
  <2> QED
    BY <1>6, <2>1, QuietKeepsCommits DEF Script
<1> QED
  BY <1>1, <1>2, <1>3, <1>4, <1>5, <1>6 DEF Next, Step, Finished

\* What is committed stays committed: no block installs a
\* snapshot older than another's commit.
CommitsAreKept == [][db \subseteq db']_db

\* With any faults.
THEOREM CommitsKept == Spec => CommitsAreKept
<1>1. Init => Typed /\ OneWriter
  <2>1. Init => OneWriter
    BY DEF Init, SqlInit, NoTx, Transaction, OneWriter
  <2> QED
    BY <2>1, TypedInit
<1>2. Typed /\ OneWriter /\ [Next]_vars => (Typed /\ OneWriter)' /\ [db \subseteq db']_db
  BY TypedNext, CommitsNext DEF KeepsCommits
<1> QED
  BY <1>1, <1>2, PTL DEF Spec, CommitsAreKept

-----------------------------------------------------------------------------
(***************************************************************************)
(* The pool.  A block is in the pool's count from _checkout_txn_conn to    *)
(* the return of its connection, and all that while it holds the write     *)
(* lock or, for a task's own block, the gate: so there are two of them at  *)
(* most, and a connection that is returned was one of the two.             *)
(***************************************************************************)
Users == {p \in Procs : IsTxn(p) /\ conn[p] # None}

FewUsers == IsFiniteSet(Users) /\ Cardinality(Users) <= 2

LEMMA TwoUsers == Typed /\ LocksMatch => FewUsers
<1> SUFFICES ASSUME Typed, LocksMatch PROVE FewUsers
  OBVIOUS
<1>1. Users \subseteq {writeLock, gate}
  BY DEF Users, Typed, PcMatchesCall, UsesConn, LocksMatch, HoldsWriteLock, HoldsGate,
         GateOnly, IsTxn, Procs
<1>2. IsFiniteSet({writeLock}) /\ Cardinality({writeLock}) = 1
  BY FS_Singleton
<1>3. IsFiniteSet({writeLock} \cup {gate}) /\ Cardinality({writeLock} \cup {gate}) <= 2
  BY <1>2, FS_AddElement
<1>4. {writeLock, gate} = {writeLock} \cup {gate}
  OBVIOUS
<1>5. IsFiniteSet(Users) /\ Cardinality(Users) <= Cardinality({writeLock, gate})
  BY <1>1, <1>3, <1>4, FS_Subset
<1>6. Cardinality(Users) \in Nat /\ Cardinality({writeLock, gate}) \in Nat
  BY <1>3, <1>4, <1>5, FS_CardinalityType
<1> QED
  BY <1>3, <1>4, <1>5, <1>6 DEF FewUsers

LEMMA TwoUsersNext == (Typed /\ LocksMatch)' => FewUsers'
BY TwoUsers, PTL

LEMMA PoolFrame ==
    ASSUME Typed, LocksMatch, PoolSuffices, pool' = pool, Users' \subseteq Users
    PROVE  PoolSuffices'
<1>1. IsFiniteSet(Users) /\ IsFiniteSet(Users') /\ Cardinality(Users') <= Cardinality(Users)
  BY TwoUsers, FS_Subset DEF FewUsers
<1>2. Cardinality(Users) \in Nat /\ Cardinality(Users') \in Nat /\ Len(pool) \in Nat
  BY <1>1, FS_CardinalityType, LenProperties DEF Typed, TypeOK
<1> QED
  BY <1>1, <1>2 DEF PoolSuffices, Users, PoolLimit

\* p returns the connection it was using.
LEMMA PoolReturned ==
    ASSUME Typed, LocksMatch, PoolSuffices, NEW p \in Procs, IsTxn(p), UsesConn(p),
           ReleaseTxnConn(conn[p]), conn' = [conn EXCEPT ![p] = None], op' = op
    PROVE  PoolSuffices'
<1>1. p \in Users /\ Users' = Users \ {p}
  BY DEF Users, Typed, TypeOK, PcMatchesCall, IsTxn
<1>2. IsFiniteSet(Users) /\ Cardinality(Users) \in Nat /\ Cardinality(Users') \in Nat
      /\ Cardinality(Users') = Cardinality(Users) - 1
  BY <1>1, TwoUsers, FS_RemoveElement, FS_CardinalityType DEF FewUsers
<1>3. Len(pool) \in Nat /\ Len(pool') <= Len(pool) + 1 /\ Len(pool') \in Nat
  <2>1. conn[p] \in Conns
    BY ConnTyped
  <2> QED
    BY <2>1, AppendProperties, LenProperties DEF ReleaseTxnConn, Typed, TypeOK
<1> QED
  BY <1>2, <1>3 DEF PoolSuffices, Users, PoolLimit

LEMMA PoolTaken ==
    ASSUME Typed, LocksMatch, PoolSuffices, NEW p \in Procs, Checkout(p), Typed', LocksMatch'
    PROVE  PoolSuffices'
<1>0. PICK c \in Conns :
        /\ conn' = [conn EXCEPT ![p] = c]
        /\ IF pool # <<>> THEN pool' = Front(pool) ELSE pool' = pool
  BY DEF Checkout
<1>1. CASE pool # <<>>
  <2>1. Len(pool) \in Nat \ {0} /\ Len(pool') = Len(pool) - 1
    <3>1. Len(pool) \in Nat \ {0} /\ pool \in Seq(Conns)
      BY <1>1, EmptySeq DEF Typed, TypeOK
    <3>2. \A i \in 1 .. Len(pool) - 1 : pool[i] \in Conns
      BY <3>1
    <3>3. pool' = SubSeq(pool, 1, Len(pool) - 1)
      BY <1>0, <1>1 DEF Front
    <3>4. Len(pool) - 1 \in Int /\ 1 \in Int
      BY <3>1
    <3>5. Len(SubSeq(pool, 1, Len(pool) - 1)) = IF 1 <= Len(pool) - 1 THEN Len(pool) - 1 - 1 + 1 ELSE 0
      BY <3>2, <3>4, SubSeqProperties
    <3>6. Len(pool') = IF 1 <= Len(pool) - 1 THEN Len(pool) - 1 - 1 + 1 ELSE 0
      BY <3>3, <3>5, Zenon
    <3>7. Len(pool) \in Nat \ {0}
      BY <3>1
    <3> QED
      BY <3>6, <3>7
  <2>2. p \notin Users /\ Users' = Users \cup {p}
    <3>1. conn[p] = None /\ IsTxn(p)
      BY DEF Checkout, Typed, PcMatchesCall, UsesConn
    <3>2. op' = op /\ c # None
      BY ProcsAssumption DEF Checkout, callVars
    <3> QED
      BY <1>0, <3>1, <3>2, SMTT(20) DEF Users, IsTxn, Typed, TypeOK
  <2>3. Cardinality(Users') = Cardinality(Users) + 1 /\ Cardinality(Users) \in Nat
    BY <2>2, TwoUsers, FS_AddElement, FS_CardinalityType DEF FewUsers
  <2> QED
    BY <2>1, <2>3 DEF PoolSuffices, Users, PoolLimit
<1>2. CASE pool = <<>>
  <2>1. pool' = <<>> /\ Len(pool') = 0
    BY <1>0, <1>2
  <2>2. Cardinality(Users') <= 2 /\ Cardinality(Users') \in Nat
    <3>1. IsFiniteSet(Users') /\ Cardinality(Users') <= 2
      BY TwoUsersNext DEF FewUsers
    <3> QED
      BY <3>1, FS_CardinalityType
  <2> QED
    BY <2>1, <2>2 DEF PoolSuffices, Users, PoolLimit
<1> QED
  BY <1>1, <1>2

LEMMA PoolNext ==
    ASSUME Typed, LocksMatch, PoolSuffices, [Next]_vars, Typed', LocksMatch'
    PROVE  PoolSuffices'
<1> USE DEF Goto, lockVars, connVars, blockVars, callVars
<1>1. CASE UNCHANGED vars
  BY <1>1, PoolFrame DEF vars, Users, IsTxn
<1>2. ASSUME NEW p \in Procs,
             \/ \E k \in Calls, m \in Modes : Request(p, k, m)
             \/ LockForWrite(p)
      PROVE  PoolSuffices'
  <2>1. pc[p] \in {"idle", "want"} /\ pool' = pool
    BY <1>2 DEF Request, LockForWrite
  <2>2. conn[p] = None
    BY <2>1 DEF Typed, PcMatchesCall, UsesConn
  <2>3. Users' \subseteq Users
    BY <1>2, <2>2 DEF Users, Typed, TypeOK, IsTxn, Request, LockForWrite
  <2> QED
    BY <2>1, <2>3, PoolFrame
<1>3. ASSUME NEW p \in Procs,
             \/ EnterGate(p) \/ LockForBlock(p) \/ EndBlock(p) \/ CommitRefused(p)
             \/ Unlock(p) \/ Ungate(p) \/ Begin(p) \/ Write(p) \/ Read(p) \/ Nest(p)
             \/ FinishNested(p) \/ FinishRoot(p) \/ ManyRow(p) \/ ConnectFails(p)
      PROVE  PoolSuffices'
  <2>1. UNCHANGED <<conn, op, pool>>
    BY <1>3 DEF EnterGate, LockForBlock, EndBlock, CommitRefused, Unlock, Ungate, Begin,
       Write, Read, Nest, FinishNested, FinishRoot, ManyRow, ConnectFails
  <2> QED
    BY <2>1, PoolFrame DEF Users, IsTxn
<1>4. ASSUME NEW p \in Procs,
             \/ AutoWrite(p) \/ Script(p) \/ WriteFails(p)
             \/ ManyCommit(p) \/ ManyFails(p) \/ ManyOverflows(p)
      PROVE  PoolSuffices'
  <2>1. /\ conn' = conn \/ conn' = [conn EXCEPT ![p] = None]
        /\ UNCHANGED <<op, pool>>
    BY <1>4 DEF AutoWrite, Script, WriteFails, ManyCommit, ManyFails, ManyOverflows,
       DoneWriting
  <2> QED
    BY <2>1, PoolFrame DEF Users, IsTxn, Typed, TypeOK
<1>5. ASSUME NEW p \in Procs, Checkout(p) PROVE PoolSuffices'
  BY <1>5, PoolTaken
<1>6. ASSUME NEW p \in Procs, Cleanup(p) PROVE PoolSuffices'
  <2>1. IsTxn(p) /\ UsesConn(p)
    BY <1>6 DEF Cleanup, Typed, PcMatchesCall, UsesConn
  <2> QED
    BY <1>6, <2>1, PoolReturned DEF Cleanup
<1>7. ASSUME NEW p \in Procs, BeginFails(p) PROVE PoolSuffices'
  <2>1. CASE IsTxn(p)
    BY <1>7, <2>1, PoolReturned DEF BeginFails, UsesConn
  <2>2. CASE ~IsTxn(p)
    BY <1>7, <2>2, PoolFrame DEF BeginFails, Users, IsTxn, Typed, TypeOK
  <2> QED
    BY <2>1, <2>2
<1> QED
  BY <1>1, <1>2, <1>3, <1>4, <1>5, <1>6, <1>7 DEF Next, Step, Finished

\* _release_txn_conn never has to close a connection because the pool is full:
\* at most two blocks use one at a time, whichever threads and tasks they are.
THEOREM TwoConnectionsSuffice == Spec => []PoolSuffices
<1> DEFINE Inv == Typed /\ LocksMatch /\ PoolSuffices
<1>1. Init => Inv
  <2>1. Init => PoolSuffices
    <3> SUFFICES ASSUME Init PROVE PoolSuffices
      OBVIOUS
    <3>1. Users = {} /\ Len(pool) = 0
      BY DEF Init, Users
    <3> QED
      BY <3>1, FS_EmptySet DEF PoolSuffices, Users, PoolLimit
  <2> QED
    BY <2>1, TypedInit, LocksInit
<1>2. Inv /\ [Next]_vars => Inv'
  BY TypedNext, LocksNext, PoolNext
<1>3. Inv => PoolSuffices
  OBVIOUS
<1> QED
  BY <1>1, <1>2, <1>3, PTL DEF Spec

-----------------------------------------------------------------------------
(***************************************************************************)
(* A step of p is p's alone: the other processes stand where they stood,   *)
(* and the connections they use are as they were, because a connection     *)
(* serves one process and a new one was closed.                            *)
(***************************************************************************)
Moves(p) == Step(p) \/ \E kind \in Calls, mode \in Modes : Request(p, kind, mode)

SameFor(q) ==
    /\ pc'[q] = pc[q] /\ conn'[q] = conn[q] /\ op'[q] = op[q]
    /\ ops'[q] = ops[q] /\ rows'[q] = rows[q]
    /\ blocks'[q] = blocks[q] /\ savepoints'[q] = savepoints[q] /\ outcome'[q] = outcome[q]
    /\ conn[q] # None => tx'[conn[q]] = tx[conn[q]]

LEMMA OnlyOwnConnection ==
    ASSUME Typed, NEW p \in Procs, Moves(p)
    PROVE  \A d \in Conns : tx'[d] = tx[d] \/ d = conn[p] \/ tx[d].at = "closed"
<1> USE DEF Typed, TypeOK, sqlVars, lockVars, connVars, Become
<1>1. ASSUME \/ \E k \in Calls, m \in Modes : Request(p, k, m)
             \/ EnterGate(p) \/ LockForBlock(p) \/ EndBlock(p) \/ CommitRefused(p)
             \/ WriteFails(p) \/ ManyOverflows(p) \/ Unlock(p) \/ Ungate(p)
             \/ ConnectFails(p)
      PROVE  tx' = tx
  BY <1>1 DEF Request, EnterGate, LockForBlock, EndBlock, CommitRefused, WriteFails,
     ManyOverflows, Unlock, Ungate, ConnectFails
<1>2. CASE LockForWrite(p) \/ Checkout(p)
  BY <1>2 DEF LockForWrite, Checkout, CachedConnection, NewConnection
<1>3. CASE BeginFails(p) \/ Cleanup(p)
  BY <1>3 DEF BeginFails, Cleanup, ReleaseTxnConn
<1>4. CASE Script(p)
  BY <1>4 DEF Script
<1>5. CASE AutoWrite(p)
  BY <1>5 DEF AutoWrite, SqlWrite, SqlAutoWrite, SqlTxnWrite
<1>6. ASSUME \/ Begin(p) \/ Read(p) \/ Nest(p) \/ FinishNested(p) \/ FinishRoot(p)
             \/ Write(p) \/ ManyRow(p) \/ ManyCommit(p) \/ ManyFails(p)
      PROVE  \A d \in Conns : d # conn[p] => tx'[d] = tx[d]
  <2>1. conn[p] \in Conns
    BY <1>6, ConnTyped DEF Begin, Read, Nest, FinishNested, FinishRoot, Write,
       ManyRow, ManyCommit, ManyFails, UsesConn
  <2>2. CASE Begin(p) \/ Read(p)
    BY <2>1, <2>2, SqlChangesOne DEF Begin, Read, SqlTypeOK
  <2>3. CASE Nest(p) \/ FinishNested(p)
    BY <2>1, <2>3, SqlChangesOne DEF Nest, FinishNested, SqlTypeOK
  <2>4. CASE FinishRoot(p) \/ ManyCommit(p) \/ ManyFails(p)
    BY <2>1, <2>4, SqlChangesOne DEF FinishRoot, ManyCommit, ManyFails, SqlTypeOK
  <2>5. CASE Write(p) \/ ManyRow(p)
    BY <2>1, <2>5, SqlChangesOne DEF Write, ManyRow, SqlTypeOK
  <2> QED
    BY <1>6, <2>2, <2>3, <2>4, <2>5
<1> QED
  BY <1>1, <1>2, <1>3, <1>4, <1>5, <1>6 DEF Moves, Step

LEMMA StepIsLocal ==
    ASSUME Typed, ConnInv, NEW p \in Procs, Moves(p)
    PROVE  \A q \in Procs : q # p => SameFor(q)
<1> SUFFICES ASSUME NEW q \in Procs, q # p PROVE SameFor(q)
  OBVIOUS
<1>1. conn[q] # None => tx'[conn[q]] = tx[conn[q]]
  BY OnlyOwnConnection
     DEF Typed, TypeOK, ConnInv, ConnectionsNotShared, ReferencedAreOpen, Referenced
<1> USE <1>1 DEF SameFor, Goto, lockVars, connVars, blockVars, callVars
<1>2. CASE \E k \in Calls, m \in Modes : Request(p, k, m)
  BY <1>2 DEF Request, Typed, TypeOK
<1>3. CASE EnterGate(p) \/ LockForBlock(p) \/ Unlock(p) \/ Ungate(p)
  BY <1>3 DEF EnterGate, LockForBlock, Unlock, Ungate, Typed, TypeOK
<1>4. CASE LockForWrite(p) \/ Checkout(p) \/ ConnectFails(p) \/ BeginFails(p) \/ Cleanup(p)
  BY <1>4 DEF LockForWrite, Checkout, ConnectFails, BeginFails, Cleanup, Leave, Typed, TypeOK
<1>5. CASE Begin(p)
  BY <1>5 DEF Begin, Typed, TypeOK
<1>6. CASE Write(p) \/ Read(p) \/ Nest(p) \/ EndBlock(p)
  BY <1>6 DEF Write, IssueRow, Read, Nest, EndBlock, Typed, TypeOK
<1>7. CASE FinishNested(p) \/ FinishRoot(p) \/ CommitRefused(p)
  BY <1>7 DEF FinishNested, FinishRoot, CommitRefused, Typed, TypeOK
<1>8. CASE \/ AutoWrite(p) \/ Script(p) \/ WriteFails(p)
           \/ ManyRow(p) \/ ManyCommit(p) \/ ManyFails(p) \/ ManyOverflows(p)
  BY <1>8 DEF AutoWrite, Script, WriteFails, ManyRow, ManyCommit, ManyFails, ManyOverflows,
     IssueRow, DoneWriting, Typed, TypeOK
<1> QED
  BY <1>2, <1>3, <1>4, <1>5, <1>6, <1>7, <1>8 DEF Moves, Step

-----------------------------------------------------------------------------
(***************************************************************************)
(* Savepoints and blocks.  That the two are one stack is inductive once    *)
(* the numbers in it are known to rise: then the latest savepoint of that  *)
(* name, which RELEASE and ROLLBACK TO look for, is the last one.          *)
(***************************************************************************)
Names(s) == <<0>> \o [i \in 1 .. Len(s) |-> s[i].name]

Rising(s, n) ==
    /\ \A i \in 1 .. Len(s) : s[i].name \in 1 .. n
    /\ \A i, j \in 1 .. Len(s) : i < j => s[i].name < s[j].name

LEMMA NamesOf ==
    ASSUME NEW s \in Seq(Save)
    PROVE  /\ Names(s) \in Seq(Nat)
           /\ Len(Names(s)) = Len(s) + 1
           /\ Names(s)[1] = 0
           /\ \A i \in 1 .. Len(s) : Names(s)[i + 1] = s[i].name
<1> DEFINE tail == [i \in 1 .. Len(s) |-> s[i].name]
<1>1. Len(s) \in Nat
  BY LenProperties
<1>2. ASSUME NEW i \in 1 .. Len(s) PROVE s[i].name \in Nat
  <2>1. s[i] \in Save
    BY ElementOfSeq
  <2> QED
    BY <2>1 DEF Save
<1>3. tail \in Seq(Nat) /\ Len(tail) = Len(s)
  BY <1>1, <1>2, IsASeq
<1>4. <<0>> \in Seq(Nat) /\ Len(<<0>>) = 1 /\ <<0>>[1] = 0
  OBVIOUS
<1>5. /\ <<0>> \o tail \in Seq(Nat)
      /\ Len(<<0>> \o tail) = Len(<<0>>) + Len(tail)
      /\ \A i \in 1 .. Len(<<0>>) + Len(tail) :
            (<<0>> \o tail)[i] = IF i <= Len(<<0>>) THEN <<0>>[i] ELSE tail[i - Len(<<0>>)]
  BY <1>3, <1>4, ConcatProperties
<1>6. Names(s) = <<0>> \o tail
  BY DEF Names
<1> HIDE DEF tail
<1>7. \A i \in 1 .. Len(s) + 1 : Names(s)[i] = IF i <= 1 THEN <<0>>[i] ELSE tail[i - 1]
  BY <1>3, <1>4, <1>5, <1>6
<1>8. \A i \in 1 .. Len(s) : tail[i] = s[i].name
  BY DEF tail
<1>9. ASSUME NEW i \in 1 .. Len(s) PROVE Names(s)[i + 1] = s[i].name
  <2>1. i + 1 \in 1 .. Len(s) + 1 /\ ~(i + 1 <= 1) /\ (i + 1) - 1 = i
    BY <1>1
  <2> QED
    BY <1>7, <1>8, <2>1
<1> QED
  BY <1>1, <1>3, <1>4, <1>5, <1>6, <1>7, <1>9

LEMMA NamesPushed ==
    ASSUME NEW s \in Seq(Save), NEW e \in Save
    PROVE  Names(Append(s, e)) = Append(Names(s), e.name)
<1> DEFINE t == Append(s, e)
<1>1. /\ t \in Seq(Save) /\ Len(t) = Len(s) + 1
      /\ \A i \in 1 .. Len(s) : t[i] = s[i]
      /\ t[Len(s) + 1] = e
      /\ Len(s) \in Nat /\ e.name \in Nat
  BY AppendProperties, LenProperties DEF Save
<1> HIDE DEF t
<1>2. /\ Names(t) \in Seq(Nat) /\ Len(Names(t)) = Len(s) + 2 /\ Names(t)[1] = 0
      /\ \A i \in 1 .. Len(s) + 1 : Names(t)[i + 1] = t[i].name
  BY <1>1, NamesOf
<1>3. /\ Names(s) \in Seq(Nat) /\ Len(Names(s)) = Len(s) + 1 /\ Names(s)[1] = 0
      /\ \A i \in 1 .. Len(s) : Names(s)[i + 1] = s[i].name
  BY NamesOf
<1>4. /\ Append(Names(s), e.name) \in Seq(Nat)
      /\ Len(Append(Names(s), e.name)) = Len(s) + 2
      /\ \A i \in 1 .. Len(s) + 1 : Append(Names(s), e.name)[i] = Names(s)[i]
      /\ Append(Names(s), e.name)[Len(s) + 2] = e.name
  BY <1>1, <1>3, AppendProperties
<1>5. ASSUME NEW i \in 1 .. Len(s) + 2 PROVE Names(t)[i] = Append(Names(s), e.name)[i]
  <2>1. CASE i = 1
    BY <1>1, <1>2, <1>3, <1>4, <2>1
  <2>2. CASE i = Len(s) + 2
    <3>1. Len(s) + 1 \in 1 .. Len(s) + 1 /\ (Len(s) + 1) + 1 = Len(s) + 2
      BY <1>1
    <3> QED
      BY <1>1, <1>2, <1>4, <2>2, <3>1
  <2>3. CASE i # 1 /\ i # Len(s) + 2
    <3> DEFINE j == i - 1
    <3>1. j \in 1 .. Len(s) /\ j \in 1 .. Len(s) + 1 /\ j + 1 = i /\ i \in 1 .. Len(s) + 1
      BY <1>1, <2>3
    <3> HIDE DEF j
    <3> QED
      BY <1>1, <1>2, <1>3, <1>4, <3>1
  <2> QED
    BY <2>1, <2>2, <2>3
<1>6. Names(t) = Append(Names(s), e.name)
  BY <1>2, <1>4, <1>5, SeqEqual
<1> QED
  BY <1>6 DEF t

LEMMA FrontOfAppend ==
    ASSUME NEW S, NEW s \in Seq(S), NEW e \in S
    PROVE  Front(Append(s, e)) = s /\ Last(Append(s, e)) = e
<1> DEFINE t == Append(s, e)
<1>1. /\ t \in Seq(S) /\ Len(t) = Len(s) + 1 /\ Len(s) \in Nat
      /\ \A i \in 1 .. Len(s) : t[i] = s[i]
      /\ t[Len(s) + 1] = e
  BY AppendProperties, LenProperties
<1> HIDE DEF t
<1>2. /\ SubSeq(t, 1, Len(s)) \in Seq(S) /\ Len(SubSeq(t, 1, Len(s))) = Len(s)
      /\ \A i \in 1 .. Len(s) : SubSeq(t, 1, Len(s))[i] = s[i]
  <2>1. \A i \in 1 .. Len(s) : t[i] \in S
    BY <1>1, ElementOfSeq
  <2> QED
    BY <1>1, <2>1, SubSeqProperties
<1>3. SubSeq(t, 1, Len(s)) = s
  BY <1>2, SeqEqual
<1>4. Len(t) - 1 = Len(s)
  BY <1>1
<1>5. Front(t) = s /\ Last(t) = e
  BY <1>1, <1>3, <1>4 DEF Front, Last
<1> QED
  BY <1>5 DEF t

LEMMA SplitLast ==
    ASSUME NEW S, NEW s \in Seq(S), s # <<>>
    PROVE  \E r \in Seq(S), e \in S :
              /\ s = Append(r, e)
              /\ SubSeq(s, 1, Len(s) - 1) = r
              /\ s[Len(s)] = e
              /\ Len(s) = Len(r) + 1
<1>1. PICK r \in Seq(S), e \in S : s = Append(r, e)
  BY SequenceEmptyOrAppend
<1>2. Front(s) = r /\ Last(s) = e
  BY <1>1, FrontOfAppend
<1> QED
  BY <1>1, <1>2, AppendProperties DEF Front, Last

LEMMA NamesPopped ==
    ASSUME NEW s \in Seq(Save), s # <<>>
    PROVE  /\ Names(SubSeq(s, 1, Len(s) - 1)) = Front(Names(s))
           /\ Last(Names(s)) = s[Len(s)].name
<1>1. PICK r \in Seq(Save), e \in Save :
          /\ s = Append(r, e)
          /\ SubSeq(s, 1, Len(s) - 1) = r /\ s[Len(s)] = e
  BY SplitLast
<1>3. Names(s) = Append(Names(r), e.name) /\ Names(r) \in Seq(Nat) /\ e.name \in Nat
  BY <1>1, NamesPushed, NamesOf DEF Save
<1>4. Front(Append(Names(r), e.name)) = Names(r) /\ Last(Append(Names(r), e.name)) = e.name
  BY <1>3, FrontOfAppend
<1> QED
  BY <1>1, <1>3, <1>4

LEMMA RisingPushed ==
    ASSUME NEW s \in Seq(Save), NEW n \in Nat, Rising(s, n), NEW e \in Save, e.name = n + 1
    PROVE  Rising(Append(s, e), n + 1)
<1> DEFINE t == Append(s, e)
<1>1. /\ Len(t) = Len(s) + 1 /\ Len(s) \in Nat
      /\ \A i \in 1 .. Len(s) : t[i] = s[i]
      /\ t[Len(s) + 1] = e
  BY AppendProperties, LenProperties
<1> HIDE DEF t
<1>2. \A i \in 1 .. Len(t) : i \in 1 .. Len(s) \/ i = Len(s) + 1
  BY <1>1
<1>3. Rising(t, n + 1)
  BY <1>1, <1>2 DEF Rising
<1> QED
  BY <1>3 DEF t

\* The savepoint a block names when it ends is the latest of that name.
LEMMA LatestIsLast ==
    ASSUME NEW c \in Conns, tx[c].saves \in Seq(Save), NEW m, Rising(tx[c].saves, m),
           NEW n, n = Last(Names(tx[c].saves)), NEW i, Latest(c, n, i)
    PROVE  i = Len(tx[c].saves) /\ tx[c].saves # <<>>
<1>1. DOMAIN tx[c].saves = 1 .. Len(tx[c].saves) /\ Len(tx[c].saves) \in Nat
  BY LenProperties
<1>2. i \in 1 .. Len(tx[c].saves) /\ tx[c].saves[i].name = n
  BY <1>1 DEF Latest
<1>3. tx[c].saves # <<>>
  BY <1>1, <1>2, EmptySeq
<1>4. n = tx[c].saves[Len(tx[c].saves)].name
  BY <1>3, NamesPopped
<1>5. i = Len(tx[c].saves)
  <2> SUFFICES ASSUME i < Len(tx[c].saves) PROVE FALSE
    BY <1>1, <1>2
  <2>1. Len(tx[c].saves) \in 1 .. Len(tx[c].saves) /\ i \in 1 .. Len(tx[c].saves)
    BY <1>1, <1>2
  <2>2. tx[c].saves[i].name < tx[c].saves[Len(tx[c].saves)].name
    BY <2>1 DEF Rising
  <2>3. tx[c].saves[i] \in Save
    BY <2>1, ElementOfSeq
  <2> QED
    BY <1>2, <1>4, <2>2, <2>3 DEF Save
<1> QED
  BY <1>3, <1>5

Stack(p) ==
    /\ pc[p] \in {"open", "finish"} =>
        /\ InTransaction(conn[p])
        /\ blocks[p] = Names(tx[conn[p]].saves)
        /\ Rising(tx[conn[p]].saves, savepoints[p])
    /\ pc[p] = "rows" => InTransaction(conn[p]) /\ tx[conn[p]].saves = <<>>
    /\ outcome[p] # "none" => pc[p] = "finish"

StackInv == \A p \in Procs : Stack(p)

LEMMA StackFrame ==
    ASSUME Typed, StackInv, NEW q \in Procs, SameFor(q)
    PROVE  Stack(q)'
<1>1. pc[q] \in {"open", "finish", "rows"} => conn[q] # None
  BY DEF Typed, PcMatchesCall, UsesConn
<1> QED
  BY <1>1 DEF SameFor, StackInv, Stack, InTransaction

\* After a statement on its connection, a process in a block.
LEMMA OwnTx ==
    ASSUME SqlTypeOK, NEW c \in Conns, NEW t, Become(c, t)
    PROVE  tx'[c] = t
BY DEF SqlTypeOK, Become

LEMMA TransactionFields ==
    \A a, b, o, s :
        LET t == Transaction(a, b, o, s)
        IN  t.at = a /\ t.base = b /\ t.own = o /\ t.saves = s
BY DEF Transaction

LEMMA StackStep ==
    ASSUME Typed, ConnInv, StackInv, NEW p \in Procs, Moves(p)
    PROVE  Stack(p)'
<1> SqlTypeOK
  BY DEF Typed, TypeOK, SqlTypeOK
<1> USE DEF Goto, sqlVars, lockVars, connVars, blockVars, callVars
<1>a. /\ Stack(p)
      /\ pc \in [Procs -> PcType] /\ blocks \in [Procs -> Seq(Nat)]
      /\ savepoints \in [Procs -> Nat]
      /\ outcome \in [Procs -> {"none", "success", "failure"}]
  BY DEF StackInv, Typed, TypeOK
\* Where a process is that has left its block, or not yet entered it.
<1>b. ASSUME pc'[p] \notin {"open", "finish", "rows"},
             outcome' = outcome \/ outcome' = [outcome EXCEPT ![p] = "none"],
             pc[p] # "finish" \/ outcome' = [outcome EXCEPT ![p] = "none"]
      PROVE  Stack(p)'
  BY <1>a, <1>b DEF Stack
<1>1. CASE \E k \in Calls, m \in Modes : Request(p, k, m)
  BY <1>1, <1>a, <1>b DEF Request
<1>2. CASE EnterGate(p) \/ LockForBlock(p) \/ Unlock(p) \/ Ungate(p)
  BY <1>2, <1>a, <1>b DEF EnterGate, LockForBlock, Unlock, Ungate
<1>3. CASE LockForWrite(p) \/ Checkout(p) \/ ConnectFails(p) \/ BeginFails(p)
  BY <1>3, <1>a, <1>b DEF LockForWrite, Checkout, ConnectFails, BeginFails, Leave
<1>4. CASE Cleanup(p)
  BY <1>4, <1>a, <1>b DEF Cleanup, Leave
<1>5. CASE FinishRoot(p) \/ CommitRefused(p)
  BY <1>5, <1>a, <1>b DEF FinishRoot, CommitRefused
<1>6. CASE \/ AutoWrite(p) \/ Script(p) \/ WriteFails(p)
           \/ ManyCommit(p) \/ ManyFails(p) \/ ManyOverflows(p)
  BY <1>6, <1>a, <1>b DEF AutoWrite, Script, WriteFails, ManyCommit, ManyFails,
     ManyOverflows, DoneWriting
<1> DEFINE c == conn[p]
<1>c. UsesConn(p) => c \in Conns /\ tx[c].saves \in Seq(Save)
  BY ConnTyped DEF SqlTypeOK, TxType
<1> HIDE DEF c
<1>7. CASE Begin(p)
  <2>1. c \in Conns /\ conn'[p] = c
    BY <1>7, <1>c DEF Begin, UsesConn, c
  <2>2. tx'[c].saves = <<>> /\ tx'[c].at \in {"begun", "writing"}
    BY <1>7, <2>1, OwnTx DEF Begin, SqlBegin, NoTx, Transaction, c
  <2>3. outcome'[p] = "none"
    BY <1>7, <1>a DEF Begin, Stack
  <2>4. CASE IsTxn(p)
    <3>1. pc'[p] = "open" /\ blocks'[p] = <<0>>
      BY <1>7, <1>a, <2>4 DEF Begin
    <3>2. Rising(<<>>, savepoints'[p])
      BY DEF Rising
    <3>3. Names(<<>>) = <<0>>
      <4>1. <<>> \in Seq(Save) /\ Len(<<>>) = 0
        BY EmptySeq
      <4>2. Names(<<>>) \in Seq(Nat) /\ Len(Names(<<>>)) = 1 /\ Names(<<>>)[1] = 0
        <5>1. \A s \in Seq(Save) : Len(s) = 0 =>
                 Names(s) \in Seq(Nat) /\ Len(Names(s)) = 1 /\ Names(s)[1] = 0
          <6> TAKE s \in Seq(Save)
          <6>1. Names(s) \in Seq(Nat) /\ Len(Names(s)) = Len(s) + 1 /\ Names(s)[1] = 0
            BY NamesOf
          <6> QED
            BY <6>1
        <5> QED
          BY <4>1, <5>1
      <4>3. <<0>> \in Seq(Nat) /\ Len(<<0>>) = 1 /\ <<0>>[1] = 0
        OBVIOUS
      <4>4. \A i \in 1 .. Len(Names(<<>>)) : Names(<<>>)[i] = <<0>>[i]
        BY <4>2, <4>3
      <4> QED
        BY <4>2, <4>3, <4>4, SeqEqual
    <3> QED
      BY <2>1, <2>2, <2>3, <3>1, <3>2, <3>3 DEF Stack, InTransaction
  <2>5. CASE ~IsTxn(p)
    <3>1. pc'[p] = "rows"
      BY <1>7, <1>a, <2>5 DEF Begin
    <3> QED
      BY <2>1, <2>2, <2>3, <3>1 DEF Stack, InTransaction
  <2> QED
    BY <2>4, <2>5
<1>8. CASE Write(p) \/ Read(p) \/ ManyRow(p)
  <2>1. c \in Conns /\ conn'[p] = c
    BY <1>8, <1>c DEF Write, Read, ManyRow, UsesConn, c
  <2>2. tx'[c].saves = tx[c].saves /\ tx'[c].at \in {"reading", "writing"}
    BY <1>8, <2>1, OwnTx DEF Write, Read, ManyRow, SqlTxnWrite, SqlRead, Transaction, c
  <2>3. UNCHANGED <<pc, blocks, savepoints, outcome>>
    BY <1>8 DEF Write, Read, ManyRow
  <2> QED
    BY <1>a, <2>1, <2>2, <2>3 DEF Stack, InTransaction, c
<1>9. CASE Nest(p)
  <2> DEFINE n == savepoints[p]
             e == [name |-> n + 1, own |-> tx[c].own]
  <2>1. c \in Conns /\ conn'[p] = c /\ tx[c].saves \in Seq(Save)
    BY <1>9, <1>c DEF Nest, UsesConn, c
  <2>2. n \in Nat /\ savepoints'[p] = n + 1 /\ pc'[p] = "open" /\ outcome'[p] = "none"
        /\ blocks'[p] = Append(blocks[p], n + 1)
    BY <1>9, <1>a DEF Nest, Stack
  <2>3. e \in Save
    BY <2>1, <2>2 DEF Save, SqlTypeOK, TxType
  <2>4. tx'[c].saves = Append(tx[c].saves, e) /\ tx'[c].at = tx[c].at
    BY <1>9, <2>1, <2>2, OwnTx DEF Nest, SqlSavepoint, Transaction, c
  <2>5. InTransaction(c) /\ blocks[p] = Names(tx[c].saves) /\ Rising(tx[c].saves, n)
    BY <1>9, <1>a DEF Nest, Stack, c
  <2>6. e.name = n + 1
    OBVIOUS
  <2> HIDE DEF e, n
  <2>7. Names(Append(tx[c].saves, e)) = Append(Names(tx[c].saves), n + 1)
    BY <2>1, <2>3, <2>6, NamesPushed
  <2>8. Rising(Append(tx[c].saves, e), n + 1)
    BY <2>1, <2>2, <2>3, <2>5, <2>6, RisingPushed
  <2> QED
    BY <2>1, <2>2, <2>4, <2>5, <2>7, <2>8 DEF Stack, InTransaction
<1>10. CASE EndBlock(p)
  <2>1. UNCHANGED <<tx, conn, blocks, savepoints>> /\ pc[p] = "open" /\ pc'[p] = "finish"
    BY <1>10, <1>a DEF EndBlock
  <2> QED
    BY <1>a, <2>1 DEF Stack, InTransaction
<1>11. CASE FinishNested(p)
  <2> DEFINE s == tx[c].saves
  <2>1. c \in Conns /\ conn'[p] = c /\ s \in Seq(Save)
    BY <1>11, <1>c DEF FinishNested, UsesConn, c
  <2>2. /\ pc'[p] = "open" /\ outcome'[p] = "none" /\ savepoints'[p] = savepoints[p]
        /\ blocks'[p] = Front(blocks[p])
    BY <1>11, <1>a DEF FinishNested
  <2>3. InTransaction(c) /\ blocks[p] = Names(s) /\ Rising(s, savepoints[p])
    BY <1>11, <1>a DEF FinishNested, Stack, c
  <2>4. PICK i \in DOMAIN s : Latest(c, Last(blocks[p]), i) /\ tx'[c].at = tx[c].at
                              /\ tx'[c].saves = SubSeq(s, 1, i - 1)
    <3> DEFINE owns == {tx[c].own} \cup {s[j].own : j \in DOMAIN s}
    <3>1. \E i \in DOMAIN s, o \in owns :
            /\ Latest(c, Last(blocks[p]), i)
            /\ Become(c, Transaction(tx[c].at, tx[c].base, o, SubSeq(s, 1, i - 1)))
      BY <1>11 DEF FinishNested, SqlRelease, SqlRollbackToAndRelease, c
    <3> HIDE DEF owns
    <3>2. PICK i \in DOMAIN s, o \in owns :
            /\ Latest(c, Last(blocks[p]), i)
            /\ tx'[c] = Transaction(tx[c].at, tx[c].base, o, SubSeq(s, 1, i - 1))
      BY <2>1, <3>1, OwnTx
    <3>3. tx'[c].at = tx[c].at /\ tx'[c].saves = SubSeq(s, 1, i - 1)
      <4> DEFINE z == SubSeq(s, 1, i - 1)
      <4>1. tx'[c] = Transaction(tx[c].at, tx[c].base, o, z)
        BY <3>2
      <4> HIDE DEF z
      <4>2. tx'[c].at = tx[c].at /\ tx'[c].saves = z
        BY <4>1, TransactionFields
      <4> QED
        BY <4>2 DEF z
    <3> QED
      BY <3>2, <3>3
  <2>5. i = Len(s) /\ s # <<>>
    BY <2>1, <2>3, <2>4, LatestIsLast
  <2>6. PICK r \in Seq(Save), e \in Save :
          s = Append(r, e) /\ SubSeq(s, 1, Len(s) - 1) = r
    BY <2>1, <2>5, SplitLast
  <2>7. Names(r) = Front(Names(s))
    BY <2>1, <2>5, <2>6, NamesPopped
  <2>8. Rising(r, savepoints[p])
    <3>1. Len(s) = Len(r) + 1 /\ Len(r) \in Nat /\ \A j \in 1 .. Len(r) : s[j] = r[j]
      BY <2>6, AppendProperties, LenProperties
    <3>2. \A j \in 1 .. Len(r) : j \in 1 .. Len(s)
      BY <3>1
    <3> QED
      BY <2>3, <3>1, <3>2 DEF Rising
  <2> QED
    BY <2>1, <2>2, <2>3, <2>4, <2>5, <2>6, <2>7, <2>8 DEF Stack, InTransaction
<1> QED
  BY <1>1, <1>2, <1>3, <1>4, <1>5, <1>6, <1>7, <1>8, <1>9, <1>10, <1>11 DEF Moves, Step

LEMMA StackInit == Init => StackInv
BY DEF Init, StackInv, Stack

LEMMA StackNext == Typed /\ ConnInv /\ StackInv /\ [Next]_vars => StackInv'
<1> SUFFICES ASSUME Typed, ConnInv, StackInv, [Next]_vars PROVE StackInv'
  OBVIOUS
<1>1. CASE UNCHANGED vars
  BY <1>1 DEF vars, StackInv, Stack, InTransaction, sqlVars, connVars, blockVars
<1>2. ASSUME NEW p \in Procs, Moves(p) PROVE StackInv'
  BY <1>2, StepIsLocal, StackFrame, StackStep DEF StackInv
<1> QED
  BY <1>1, <1>2 DEF Next, Moves, Finished

\* RELEASE and ROLLBACK TO always name the innermost savepoint: the with-blocks
\* a thread or task is in and the savepoints open on its connection are the same
\* stack, whichever nested blocks failed before and whatever COMMIT does.
THEOREM SavepointsAreBlocks == Spec => []SavepointsMatchBlocks
<1> DEFINE Inv == Typed /\ LocksMatch /\ ConnInv /\ StackInv
<1>1. Init => Inv
  BY TypedInit, LocksInit, ConnInit, StackInit
<1>2. Inv /\ [Next]_vars => Inv'
  BY TypedNext, LocksNext, ConnNext, StackNext
<1>3. Inv => SavepointsMatchBlocks
  BY DEF StackInv, Stack, SavepointsMatchBlocks, Names
<1> QED
  BY <1>1, <1>2, <1>3, PTL DEF Spec

-----------------------------------------------------------------------------
(***************************************************************************)
(* A connection that has not written holds no writes, and one that is in   *)
(* no transaction sees none.                                               *)
(***************************************************************************)
CleanTx(t) ==
    /\ t.at # "writing" => t.own = {} /\ \A i \in 1 .. Len(t.saves) : t.saves[i].own = {}
    /\ t.at \in {"idle", "closed"} => t.base = {}

ConnsClean == \A c \in Conns : CleanTx(tx[c])

LEMMA BecomeClean ==
    ASSUME SqlTypeOK, ConnsClean, NEW c, NEW t, CleanTx(t), Become(c, t)
    PROVE  ConnsClean'
BY DEF SqlTypeOK, ConnsClean, Become, CleanTx

LEMMA NoTxClean == \A a : CleanTx(NoTx(a))
BY EmptySeq DEF CleanTx, NoTx, Transaction

LEMMA SqlKeepsClean ==
    ASSUME SqlTypeOK, ConnsClean, NEW c \in Conns,
           \/ \E m : SqlBegin(c, m)
           \/ SqlRead(c) \/ SqlCommit(c) \/ SqlRollback(c)
           \/ \E w : SqlWrite(c, w)
           \/ \E n \in Nat : SqlSavepoint(c, n)
           \/ \E n : SqlRelease(c, n) \/ SqlRollbackToAndRelease(c, n)
    PROVE  ConnsClean'
<1>0. CleanTx(tx[c]) /\ tx[c].saves \in Seq(Save)
  BY DEF ConnsClean, SqlTypeOK, TxType
<1>1. ASSUME NEW m, SqlBegin(c, m) PROVE ConnsClean'
  <2>1. CleanTx(Transaction("writing", db, {}, <<>>))
    BY DEF CleanTx, Transaction
  <2> QED
    BY <1>1, <2>1, NoTxClean, BecomeClean DEF SqlBegin
<1>2. CASE SqlRead(c)
  <2>1. CleanTx(Transaction("reading", db, {}, tx[c].saves))
    BY <1>0, <1>2 DEF CleanTx, Transaction, SqlRead
  <2> QED
    BY <1>2, <2>1, BecomeClean DEF SqlRead
<1>3. CASE SqlCommit(c) \/ SqlRollback(c)
  BY <1>3, NoTxClean, BecomeClean DEF SqlCommit, SqlRollback
<1>4. ASSUME NEW w, SqlWrite(c, w) PROVE ConnsClean'
  <2>1. CASE SqlAutoWrite(c, w)
    BY <2>1 DEF SqlAutoWrite, ConnsClean
  <2>2. CASE SqlTxnWrite(c, w)
    <3>1. \A b, o, s : CleanTx(Transaction("writing", b, o, s))
      BY DEF CleanTx, Transaction
    <3> QED
      BY <2>2, <3>1, BecomeClean DEF SqlTxnWrite
  <2> QED
    BY <1>4, <2>1, <2>2 DEF SqlWrite
<1>5. ASSUME NEW n \in Nat, SqlSavepoint(c, n) PROVE ConnsClean'
  <2> DEFINE e == [name |-> n, own |-> tx[c].own]
             s == Append(tx[c].saves, e)
  <2>1. e \in Save /\ e.own = tx[c].own
    BY DEF Save, SqlTypeOK, TxType
  <2> HIDE DEF e
  <2>2. /\ Len(s) = Len(tx[c].saves) + 1 /\ s[Len(tx[c].saves) + 1] = e
        /\ \A i \in 1 .. Len(tx[c].saves) : s[i] = tx[c].saves[i]
        /\ Len(tx[c].saves) \in Nat
    BY <1>0, <2>1, AppendProperties, LenProperties
  <2> HIDE DEF s
  <2>3. \A i \in 1 .. Len(s) : i \in 1 .. Len(tx[c].saves) \/ i = Len(tx[c].saves) + 1
    BY <2>2
  <2>4. CleanTx(Transaction(tx[c].at, tx[c].base, tx[c].own, s))
    BY <1>0, <2>1, <2>2, <2>3, <1>5 DEF CleanTx, Transaction, SqlSavepoint, InTransaction
  <2> QED
    BY <1>5, <2>4, BecomeClean DEF SqlSavepoint, s, e
<1>6. ASSUME NEW n, SqlRelease(c, n) \/ SqlRollbackToAndRelease(c, n) PROVE ConnsClean'
  <2>1. PICK i \in 1 .. Len(tx[c].saves),
              o \in {tx[c].own} \cup {tx[c].saves[j].own : j \in 1 .. Len(tx[c].saves)} :
          Become(c, Transaction(tx[c].at, tx[c].base, o, SubSeq(tx[c].saves, 1, i - 1)))
    BY <1>0, <1>6, LenProperties DEF SqlRelease, SqlRollbackToAndRelease
  <2> DEFINE s == SubSeq(tx[c].saves, 1, i - 1)
  <2>2. \A j \in 1 .. i - 1 : tx[c].saves[j] \in Save
    BY <1>0, ElementOfSeq, LenProperties
  <2>3. /\ Len(s) = IF 1 <= i - 1 THEN i - 1 - 1 + 1 ELSE 0
        /\ \A j \in 1 .. (i - 1) - 1 + 1 : s[j] = tx[c].saves[1 + j - 1]
    BY <2>2, SubSeqProperties
  <2> HIDE DEF s
  <2>4. \A j \in 1 .. Len(s) : s[j] = tx[c].saves[j] /\ j \in 1 .. Len(tx[c].saves)
    BY <1>0, <2>3, LenProperties
  <2>5. CleanTx(Transaction(tx[c].at, tx[c].base, o, s))
    BY <1>0, <2>1, <2>4 DEF CleanTx, Transaction
  <2> QED
    BY <2>1, <2>5, BecomeClean DEF s
<1> QED
  BY <1>1, <1>2, <1>3, <1>4, <1>5, <1>6

Statement(c) ==
    \/ \E m : SqlBegin(c, m)
    \/ SqlRead(c) \/ SqlCommit(c) \/ SqlRollback(c)
    \/ \E w : SqlWrite(c, w)
    \/ \E n \in Nat : SqlSavepoint(c, n)
    \/ \E n : SqlRelease(c, n) \/ SqlRollbackToAndRelease(c, n)

\* What a step does to SQLite's side: a statement on the process's connection,
\* or one connection opened, closed or back in autocommit mode.
LEMMA StepOnTx ==
    ASSUME Typed, NEW p \in Procs, Moves(p)
    PROVE  \/ tx' = tx
           \/ \E c \in Conns, a \in {"idle", "closed"} : Become(c, NoTx(a))
           \/ conn[p] \in Conns /\ Statement(conn[p])
<1> USE DEF sqlVars, lockVars, connVars, Statement
<1>1. ASSUME \/ \E k \in Calls, m \in Modes : Request(p, k, m)
             \/ EnterGate(p) \/ LockForBlock(p) \/ EndBlock(p) \/ CommitRefused(p)
             \/ WriteFails(p) \/ ManyOverflows(p) \/ Unlock(p) \/ Ungate(p)
             \/ ConnectFails(p)
      PROVE  tx' = tx
  BY <1>1 DEF Request, EnterGate, LockForBlock, EndBlock, CommitRefused, WriteFails,
     ManyOverflows, Unlock, Ungate, ConnectFails
<1>2. CASE LockForWrite(p) \/ Checkout(p)
  BY <1>2 DEF LockForWrite, Checkout, CachedConnection, NewConnection
<1>3. CASE BeginFails(p) \/ Cleanup(p) \/ Script(p)
  <2>1. conn[p] \in Conns
    BY <1>3, ConnTyped DEF BeginFails, Cleanup, Script, UsesConn
  <2> QED
    BY <1>3, <2>1 DEF BeginFails, Cleanup, ReleaseTxnConn, Script
<1>4. CASE \/ Begin(p) \/ Read(p) \/ Nest(p) \/ FinishNested(p) \/ FinishRoot(p)
           \/ Write(p) \/ AutoWrite(p) \/ ManyRow(p) \/ ManyCommit(p) \/ ManyFails(p)
  <2>1. conn[p] \in Conns
    BY <1>4, ConnTyped DEF Begin, Read, Nest, FinishNested, FinishRoot, Write,
       AutoWrite, ManyRow, ManyCommit, ManyFails, UsesConn
  <2>2. CASE Begin(p) \/ Read(p)
    BY <2>1, <2>2 DEF Begin, Read
  <2>3. CASE Nest(p)
    <3>1. savepoints'[p] \in Nat
      BY <2>3 DEF Nest, Typed, TypeOK
    <3> QED
      BY <2>1, <2>3, <3>1 DEF Nest
  <2>4. CASE FinishNested(p) \/ FinishRoot(p) \/ ManyCommit(p) \/ ManyFails(p)
    BY <2>1, <2>4 DEF FinishNested, FinishRoot, ManyCommit, ManyFails
  <2>5. CASE Write(p) \/ AutoWrite(p) \/ ManyRow(p)
    BY <2>1, <2>5 DEF Write, AutoWrite, ManyRow, SqlWrite
  <2> QED
    BY <1>4, <2>2, <2>3, <2>4, <2>5
<1> QED
  BY <1>1, <1>2, <1>3, <1>4 DEF Moves, Step

LEMMA CleanNext == Typed /\ ConnsClean /\ [Next]_vars => ConnsClean'
<1> SUFFICES ASSUME Typed, ConnsClean, [Next]_vars PROVE ConnsClean'
  OBVIOUS
<1> SqlTypeOK
  BY DEF Typed, TypeOK, SqlTypeOK
<1>1. CASE UNCHANGED vars
  BY <1>1 DEF vars, sqlVars, ConnsClean
<1>2. ASSUME NEW p \in Procs, Moves(p) PROVE ConnsClean'
  <2>1. CASE tx' = tx
    BY <2>1 DEF ConnsClean
  <2>2. CASE \E c \in Conns, a \in {"idle", "closed"} : Become(c, NoTx(a))
    BY <2>2, NoTxClean, BecomeClean
  <2>3. CASE conn[p] \in Conns /\ Statement(conn[p])
    BY <2>3, SqlKeepsClean DEF Statement
  <2> QED
    BY <1>2, <2>1, <2>2, <2>3, StepOnTx
<1> QED
  BY <1>1, <1>2 DEF Next, Moves, Finished

LEMMA CleanInit == Init => ConnsClean
<1> SUFFICES ASSUME Init, NEW c \in Conns PROVE CleanTx(tx[c])
  BY DEF ConnsClean
<1>1. tx[c] = NoTx("closed")
  BY DEF Init, SqlInit
<1> QED
  BY <1>1, NoTxClean

-----------------------------------------------------------------------------
(***************************************************************************)
(* A thread's own connection is in a transaction only while an executemany *)
(* runs on it, unless one was left behind by an error that is no           *)
(* sqlite3.Error.  So a write outside a block finds autocommit mode.       *)
(***************************************************************************)
InBatch(c) == \E p \in Procs : pc[p] = "rows" /\ conn[p] = c

ThreadsQuiet ==
    /\ \A t \in Threads \cup Workers :
        threadConn[t] # None /\ InTransaction(threadConn[t]) => InBatch(threadConn[t])
    /\ \A p \in Procs : ~IsTxn(p) /\ conn[p] # None =>
        \E t \in Threads \cup Workers : threadConn[t] = conn[p]

\* A write outside a block finds autocommit mode.
LEMMA WritersQuiet ==
    ASSUME Typed, ConnInv, ThreadsQuiet, NEW p \in Procs, pc[p] = "exec"
    PROVE  ~InTransaction(conn[p])
<1>1. conn[p] # None /\ ~IsTxn(p)
  BY DEF Typed, PcMatchesCall, UsesConn
<1>2. \A q \in Procs : conn[q] = conn[p] => q = p
  BY <1>1 DEF ConnInv, ConnectionsNotShared
<1> QED
  BY <1>1, <1>2 DEF ThreadsQuiet, InBatch

StaysInBatch(p) == pc'[p] = "rows" /\ conn'[p] = conn[p]

\* Steps that open no transaction on a thread's connection.
LEMMA QuietFrame ==
    ASSUME Typed, ConnInv, ThreadsQuiet, NEW p \in Procs, Moves(p),
           threadConn' = threadConn,
           op'[p] = op[p] \/ conn'[p] = None,
           conn'[p] # conn[p] => conn'[p] = None \/ IsTxn(p),
           pc[p] = "rows" => StaysInBatch(p) \/ tx'[conn[p]] = NoTx("idle"),
           \A c \in Conns : InTransaction(c)' =>
               \/ InTransaction(c)
               \/ (pc'[p] = "rows" /\ conn'[p] = c)
               \/ \A t \in Threads \cup Workers : threadConn[t] # c
    PROVE  ThreadsQuiet'
<1> USE DEF StaysInBatch
<1>1. \A q \in Procs : q # p => SameFor(q)
  BY StepIsLocal
<1>2. ASSUME NEW q \in Procs, (~IsTxn(q))', conn'[q] # None
      PROVE  \E t \in Threads \cup Workers : threadConn'[t] = conn'[q]
  <2>1. ~IsTxn(q) /\ conn'[q] = conn[q]
    BY <1>1, <1>2 DEF SameFor, IsTxn
  <2> QED
    BY <1>2, <2>1 DEF ThreadsQuiet
<1>3. ASSUME NEW t \in Threads \cup Workers, NEW c \in Conns, threadConn[t] = c, InTransaction(c)'
      PROVE  InBatch(c)'
  <2>1. CASE pc'[p] = "rows" /\ conn'[p] = c
    BY <2>1 DEF InBatch
  <2>2. CASE InTransaction(c) /\ ~(pc'[p] = "rows" /\ conn'[p] = c)
    <3>0. c # None
      BY ProcsAssumption
    <3>1. PICK q \in Procs : pc[q] = "rows" /\ conn[q] = c
      BY <1>3, <2>2, <3>0 DEF ThreadsQuiet, InBatch
    <3>2. CASE q # p
      BY <1>1, <3>1, <3>2 DEF SameFor, InBatch
    <3>3. CASE q = p
      BY <1>3, <2>2, <3>1, <3>3 DEF InTransaction, NoTx, Transaction
    <3> QED
      BY <3>2, <3>3
  <2> QED
    BY <1>3, <2>1, <2>2
<1>4. ASSUME NEW t \in Threads \cup Workers, threadConn'[t] # None, InTransaction(threadConn[t])'
      PROVE  InBatch(threadConn[t])'
  <2>1. threadConn[t] \in Conns /\ threadConn'[t] = threadConn[t]
    BY <1>4 DEF Typed, TypeOK
  <2> QED
    BY <1>3, <1>4, <2>1 DEF InTransaction, InBatch
<1> QED
  BY <1>2, <1>4 DEF ThreadsQuiet

LEMMA QuietNext ==
    ASSUME "overflow" \notin Faults, Typed, LocksMatch, ConnInv, ThreadsQuiet, [Next]_vars
    PROVE  ThreadsQuiet'
<1> SqlTypeOK
  BY DEF Typed, TypeOK, SqlTypeOK
<1> USE DEF Goto, sqlVars, lockVars, connVars, blockVars, callVars
<1>1. CASE UNCHANGED vars
  BY <1>1 DEF vars, ThreadsQuiet, InBatch, InTransaction, IsTxn
<1>2. ASSUME NEW p \in Procs, Moves(p) PROVE ThreadsQuiet'
  <2>a. /\ threadConn \in [Threads \cup Workers -> Conns \cup {None}]
        /\ pc \in [Procs -> PcType] /\ conn \in [Procs -> Conns \cup {None}]
        /\ op \in [Procs -> [kind : Kinds, mode : Modes]]
        /\ UsesConn(p) <=> conn[p] # None
    BY DEF Typed, TypeOK, PcMatchesCall
  <2>1. CASE \E k \in Calls, m \in Modes : Request(p, k, m)
    <3>1. UNCHANGED <<tx, conn, threadConn>> /\ pc[p] = "idle" /\ conn[p] = None
      BY <2>1, <2>a DEF Request, UsesConn
    <3> QED
      BY <1>2, <3>1, QuietFrame DEF InTransaction
  <2>2. CASE EnterGate(p) \/ LockForBlock(p) \/ EndBlock(p) \/ Unlock(p) \/ Ungate(p)
             \/ CommitRefused(p) \/ ConnectFails(p)
    <3>1. UNCHANGED <<tx, conn, threadConn, op>> /\ pc[p] # "rows"
      BY <2>2 DEF EnterGate, LockForBlock, EndBlock, Unlock, Ungate, CommitRefused, ConnectFails
    <3> QED
      BY <1>2, <3>1, QuietFrame DEF InTransaction
  <2>3. CASE WriteFails(p) \/ Script(p) \/ AutoWrite(p)
    <3>1. /\ pc[p] = "exec" /\ UNCHANGED <<threadConn, op>>
          /\ conn' = conn \/ conn' = [conn EXCEPT ![p] = None]
      BY <2>3 DEF WriteFails, Script, AutoWrite, DoneWriting
    <3>2. \A c \in Conns : InTransaction(c)' => InTransaction(c)
      <4>1. CASE WriteFails(p)
        BY <4>1 DEF WriteFails, InTransaction
      <4>2. CASE Script(p)
        BY <4>2, BecomeQuiet DEF Script
      <4>3. CASE AutoWrite(p)
        BY <3>1, <4>3, WritersQuiet DEF AutoWrite, SqlWrite, SqlAutoWrite, SqlTxnWrite, InTransaction
      <4> QED
        BY <2>3, <4>1, <4>2, <4>3
    <3> QED
      BY <1>2, <2>a, <3>1, <3>2, QuietFrame
  <2>4. CASE ManyCommit(p) \/ ManyFails(p)
    <3>1. /\ conn' = [conn EXCEPT ![p] = None] /\ UNCHANGED <<threadConn, op>>
          /\ pc[p] = "rows" /\ conn[p] \in Conns
          /\ Become(conn[p], NoTx("idle"))
      BY <2>4, ConnTyped
         DEF ManyCommit, ManyFails, DoneWriting, SqlCommit, SqlRollback, UsesConn
    <3>2. tx'[conn[p]] = NoTx("idle")
      BY <3>1, OwnTx
    <3>3. \A c \in Conns : InTransaction(c)' => InTransaction(c)
      BY <3>1, BecomeQuiet
    <3> QED
      BY <1>2, <2>a, <3>1, <3>2, <3>3, QuietFrame
  <2>5. CASE \/ Write(p) \/ Read(p) \/ Nest(p) \/ FinishNested(p) \/ FinishRoot(p)
    <3>1. pc[p] \in {"open", "finish"} /\ IsTxn(p) /\ UNCHANGED <<conn, threadConn, op>>
      BY <2>5 DEF Write, Read, Nest, FinishNested, FinishRoot, Typed, PcMatchesCall
    <3>2. conn[p] # None
      BY <2>a, <3>1 DEF UsesConn
    <3>3. conn[p] \in Conns /\ \A t \in Threads \cup Workers : threadConn[t] # conn[p]
      BY <2>a, <3>1, <3>2 DEF ConnInv, ConnectionsNotShared
    <3>4. \A c \in Conns : c # conn[p] => tx'[c] = tx[c] \/ tx[c].at = "closed"
      BY <1>2, OnlyOwnConnection
    <3>5. \A t \in Threads \cup Workers, c \in Conns : threadConn[t] = c => tx[c].at # "closed"
      BY DEF ConnInv, ReferencedAreOpen, Referenced
    <3> QED
      BY <1>2, <3>1, <3>3, <3>4, <3>5, QuietFrame DEF InTransaction
  <2>6. CASE BeginFails(p) \/ Cleanup(p)
    <3>1. pc[p] \in {"begin", "cleanup"} /\ conn' = [conn EXCEPT ![p] = None]
          /\ UNCHANGED <<threadConn, op>>
      BY <2>6 DEF BeginFails, Cleanup
    <3>2. \A c \in Conns : InTransaction(c)' => InTransaction(c)
      <4>1. tx' = tx \/ Become(conn[p], NoTx("closed"))
        BY <2>6 DEF BeginFails, Cleanup, ReleaseTxnConn
      <4> QED
        BY <4>1, BecomeQuiet DEF InTransaction
    <3> QED
      BY <1>2, <2>a, <3>1, <3>2, QuietFrame
  <2>7. CASE Checkout(p)
    <3>1. /\ pc[p] = "checkout" /\ IsTxn(p) /\ UNCHANGED <<threadConn, op>>
          /\ tx' = tx \/ \E c \in Conns : Become(c, NoTx("idle"))
      BY <2>7 DEF Checkout, NewConnection, Typed, PcMatchesCall
    <3>2. \A c \in Conns : InTransaction(c)' => InTransaction(c)
      BY <3>1, BecomeQuiet DEF InTransaction
    <3> QED
      BY <1>2, <2>a, <3>1, <3>2, QuietFrame
  <2>8. CASE Begin(p)
    <3>1. UNCHANGED <<conn, threadConn, op>> /\ conn[p] \in Conns /\ pc[p] = "begin"
      BY <2>8, ConnTyped DEF Begin, UsesConn
    <3>2. \A c \in Conns : c # conn[p] => tx'[c] = tx[c]
      BY <2>8, <3>1, SqlChangesOne DEF Begin
    <3>3. CASE IsTxn(p)
      <4>1. \A t \in Threads \cup Workers : threadConn[t] # conn[p]
        BY <2>a, <3>1, <3>3, ProcsAssumption DEF ConnInv, ConnectionsNotShared
      <4> QED
        BY <1>2, <2>a, <3>1, <3>2, <4>1, QuietFrame DEF InTransaction
    <3>4. CASE ~IsTxn(p)
      <4>1. pc'[p] = "rows"
        BY <2>8, <2>a, <3>4 DEF Begin
      <4> QED
        BY <1>2, <2>a, <3>1, <3>2, <4>1, QuietFrame DEF InTransaction
    <3> QED
      BY <3>3, <3>4
  <2>9. CASE ManyRow(p)
    <3>1. UNCHANGED <<conn, threadConn, op, pc>> /\ conn[p] \in Conns /\ pc[p] = "rows"
      BY <2>9, ConnTyped DEF ManyRow, UsesConn
    <3>2. \A c \in Conns : c # conn[p] => tx'[c] = tx[c]
      BY <2>9, <3>1, SqlChangesOne DEF ManyRow
    <3> QED
      BY <1>2, <3>1, <3>2, QuietFrame DEF InTransaction, StaysInBatch
  <2>10. CASE LockForWrite(p)
    <3>1. PICK t \in ThreadsOf(p), c \in Conns :
            CachedConnection(t, c) /\ conn' = [conn EXCEPT ![p] = c]
      BY <2>10 DEF LockForWrite
    <3>2. t \in Threads \cup Workers /\ ~IsTxn(p) /\ op' = op /\ writeLock = None
      BY <2>10 DEF ThreadsOf, Procs, LockForWrite
    <3>3. \A q \in Procs : pc[q] # "rows"
      BY <3>2, ProcsAssumption
         DEF LocksMatch, HoldsWriteLock, Procs, Typed, PcMatchesCall, GateOnly, IsTxn
    <3>4. \A u \in Threads \cup Workers : threadConn[u] # None => ~InTransaction(threadConn[u])
      BY <3>3 DEF ThreadsQuiet, InBatch
    <3>5. \A d \in Conns : InTransaction(d)' => InTransaction(d) /\ (tx' = tx \/ d # c)
      BY <3>1, BecomeQuiet DEF CachedConnection, NewConnection, InTransaction
    <3>6. threadConn'[t] = c /\ \A u \in Threads \cup Workers : u # t => threadConn'[u] = threadConn[u]
      BY <2>a, <3>1, <3>2 DEF CachedConnection
    <3>7. ~InTransaction(c)'
      BY <3>1, <3>2, <3>4, <3>5, ProcsAssumption DEF CachedConnection, NewConnection, InTransaction
    <3>8. ASSUME NEW u \in Threads \cup Workers, threadConn'[u] # None
          PROVE  ~InTransaction(threadConn[u])'
      <4>1. PICK d : d = threadConn'[u]
        OBVIOUS
      <4>2. ~InTransaction(d)'
        <5>1. CASE u = t
          BY <3>6, <3>7, <4>1, <5>1
        <5>2. CASE u # t
          <6>1. threadConn[u] = d /\ d \in Conns /\ ~InTransaction(d)
            BY <2>a, <3>4, <3>6, <3>8, <4>1, <5>2
          <6> QED
            BY <3>5, <6>1
        <5> QED
          BY <5>1, <5>2
      <4> QED
        BY <4>1, <4>2 DEF InTransaction
    <3>9. \A q \in Procs : q # p => conn'[q] = conn[q] /\ op'[q] = op[q]
      BY <2>a, <3>1, <3>2
    <3>10. ASSUME NEW q \in Procs, (~IsTxn(q))', conn'[q] # None
           PROVE  \E u \in Threads \cup Workers : threadConn'[u] = conn'[q]
      <4>1. CASE q = p
        BY <2>a, <3>1, <3>2, <3>6, <4>1
      <4>2. CASE q # p
        <5>1. ~IsTxn(q) /\ conn[q] # None /\ conn'[q] = conn[q]
          BY <3>9, <3>10, <4>2 DEF IsTxn
        <5>2. PICK u \in Threads \cup Workers : threadConn[u] = conn[q]
          BY <5>1 DEF ThreadsQuiet
        <5>3. threadConn'[u] = threadConn[u]
          BY <3>1, <3>6, <5>1, <5>2 DEF CachedConnection
        <5> QED
          BY <5>1, <5>2, <5>3
      <4> QED
        BY <4>1, <4>2
    <3> QED
      BY <3>8, <3>10 DEF ThreadsQuiet
  <2>11. ASSUME ManyOverflows(p) PROVE FALSE
    BY <2>11 DEF ManyOverflows
  <2> QED
    BY <1>2, <2>1, <2>2, <2>3, <2>4, <2>5, <2>6, <2>7, <2>8, <2>9, <2>10, <2>11
       DEF Moves, Step
<1> QED
  BY <1>1, <1>2 DEF Next, Moves, Finished

LEMMA QuietInit == Init => ThreadsQuiet
BY DEF Init, ThreadsQuiet

-----------------------------------------------------------------------------
(***************************************************************************)
(* Batches.  The rows of an executemany are all its connection holds, and  *)
(* no other connection holds a row of any: so only the COMMIT at its end   *)
(* brings them into the database, all together.                            *)
(***************************************************************************)
NoMany(s) == \A w \in s : w.kind # "many"

NoManyTx(t) == NoMany(t.own) /\ \A i \in 1 .. Len(t.saves) : NoMany(t.saves[i].own)

Batch(p) == {[by |-> p, op |-> ops[p], kind |-> "many", row |-> i] : i \in 1 .. rows[p]}

BatchConns == \A c \in Conns : InBatch(c) \/ NoManyTx(tx[c])

InBatchOnly(p) ==
    /\ pc[p] \in {"queued", "want", "checkout", "begin"} => rows[p] = 0
    /\ pc[p] = "rows" => op[p].kind = "many"
    /\ pc[p] = "begin" /\ ~IsTxn(p) => op[p].kind = "many"
    /\ pc[p] = "rows" => tx[conn[p]].own = Batch(p)

BatchInv == BatchConns /\ \A p \in Procs : InBatchOnly(p)

LEMMA NoTxNoMany == \A a : NoManyTx(NoTx(a))
BY EmptySeq DEF NoManyTx, NoMany, NoTx, Transaction

\* A statement that writes no row of a batch brings none in.
LEMMA SqlNoMany ==
    ASSUME SqlTypeOK, NEW c \in Conns, NoManyTx(tx[c]),
           \/ \E m : SqlBegin(c, m)
           \/ SqlRead(c) \/ SqlCommit(c) \/ SqlRollback(c)
           \/ \E w : SqlWrite(c, w) /\ w.kind # "many"
           \/ \E n \in Nat : SqlSavepoint(c, n)
           \/ \E n : SqlRelease(c, n) \/ SqlRollbackToAndRelease(c, n)
    PROVE  NoManyTx(tx'[c])
<1>0. tx[c].saves \in Seq(Save)
  BY DEF SqlTypeOK, TxType
<1>1. ASSUME NEW m, SqlBegin(c, m) PROVE NoManyTx(tx'[c])
  <2>1. NoManyTx(Transaction("writing", db, {}, <<>>))
    BY DEF NoManyTx, NoMany, Transaction
  <2> QED
    BY <1>1, <2>1, NoTxNoMany, OwnTx DEF SqlBegin
<1>2. CASE SqlRead(c)
  <2>1. NoManyTx(Transaction("reading", db, {}, tx[c].saves))
    BY <1>2 DEF NoManyTx, NoMany, Transaction
  <2> QED
    BY <1>2, <2>1, OwnTx DEF SqlRead
<1>3. CASE SqlCommit(c) \/ SqlRollback(c)
  BY <1>3, NoTxNoMany, OwnTx DEF SqlCommit, SqlRollback
<1>4. ASSUME NEW w, SqlWrite(c, w), w.kind # "many" PROVE NoManyTx(tx'[c])
  <2>1. CASE SqlAutoWrite(c, w)
    BY <2>1 DEF SqlAutoWrite
  <2>2. CASE SqlTxnWrite(c, w)
    <3>1. \A b : NoManyTx(Transaction("writing", b, tx[c].own \cup {w}, tx[c].saves))
      BY <1>4 DEF NoManyTx, NoMany, Transaction
    <3> QED
      BY <2>2, <3>1, OwnTx DEF SqlTxnWrite
  <2> QED
    BY <1>4, <2>1, <2>2 DEF SqlWrite
<1>5. ASSUME NEW n \in Nat, SqlSavepoint(c, n) PROVE NoManyTx(tx'[c])
  <2> DEFINE e == [name |-> n, own |-> tx[c].own]
             s == Append(tx[c].saves, e)
  <2>1. e \in Save /\ e.own = tx[c].own
    BY DEF Save, SqlTypeOK, TxType
  <2> HIDE DEF e
  <2>2. /\ Len(s) = Len(tx[c].saves) + 1 /\ s[Len(tx[c].saves) + 1] = e
        /\ \A i \in 1 .. Len(tx[c].saves) : s[i] = tx[c].saves[i]
        /\ Len(tx[c].saves) \in Nat
    BY <1>0, <2>1, AppendProperties, LenProperties
  <2> HIDE DEF s
  <2>3. \A i \in 1 .. Len(s) : i \in 1 .. Len(tx[c].saves) \/ i = Len(tx[c].saves) + 1
    BY <2>2
  <2>4. NoManyTx(Transaction(tx[c].at, tx[c].base, tx[c].own, s))
    BY <2>1, <2>2, <2>3 DEF NoManyTx, Transaction
  <2> QED
    BY <1>5, <2>4, OwnTx DEF SqlSavepoint, s, e
<1>6. ASSUME NEW n, SqlRelease(c, n) \/ SqlRollbackToAndRelease(c, n) PROVE NoManyTx(tx'[c])
  <2>1. PICK i \in 1 .. Len(tx[c].saves),
              o \in {tx[c].own} \cup {tx[c].saves[j].own : j \in 1 .. Len(tx[c].saves)} :
          Become(c, Transaction(tx[c].at, tx[c].base, o, SubSeq(tx[c].saves, 1, i - 1)))
    BY <1>0, <1>6, LenProperties DEF SqlRelease, SqlRollbackToAndRelease
  <2> DEFINE s == SubSeq(tx[c].saves, 1, i - 1)
  <2>2. \A j \in 1 .. i - 1 : tx[c].saves[j] \in Save
    BY <1>0, ElementOfSeq, LenProperties
  <2>3. /\ Len(s) = IF 1 <= i - 1 THEN i - 1 - 1 + 1 ELSE 0
        /\ \A j \in 1 .. (i - 1) - 1 + 1 : s[j] = tx[c].saves[1 + j - 1]
    BY <2>2, SubSeqProperties
  <2> HIDE DEF s
  <2>4. \A j \in 1 .. Len(s) : s[j] = tx[c].saves[j] /\ j \in 1 .. Len(tx[c].saves)
    BY <1>0, <2>3, LenProperties
  <2>5. NoManyTx(Transaction(tx[c].at, tx[c].base, o, s))
    BY <2>1, <2>4 DEF NoManyTx, Transaction
  <2> QED
    BY <2>1, <2>5, OwnTx DEF s
<1> QED
  BY <1>1, <1>2, <1>3, <1>4, <1>5, <1>6

LEMMA BatchFrame ==
    ASSUME Typed, ConnInv, BatchInv, NEW p \in Procs, Moves(p), InBatchOnly(p)',
           conn[p] \in Conns /\ NoManyTx(tx[conn[p]]) =>
               NoManyTx(tx'[conn[p]]) \/ StaysInBatch(p),
           pc[p] = "rows" => StaysInBatch(p) \/ tx'[conn[p]] = NoTx("idle")
    PROVE  BatchInv'
<1> USE DEF StaysInBatch
<1>1. \A q \in Procs : q # p => SameFor(q)
  BY StepIsLocal
<1>2. ASSUME NEW q \in Procs PROVE InBatchOnly(q)'
  <2>1. CASE q # p
    <3>1. SameFor(q) /\ InBatchOnly(q) /\ (pc[q] = "rows" => conn[q] # None)
      BY <1>1, <2>1 DEF BatchInv, Typed, PcMatchesCall, UsesConn
    <3> QED
      BY <3>1 DEF SameFor, InBatchOnly, Batch, IsTxn
  <2> QED
    BY <2>1
<1>3. ASSUME NEW c \in Conns PROVE InBatch(c)' \/ NoManyTx(tx'[c])
  <2>1. CASE InBatch(c)
    <3>1. PICK q \in Procs : pc[q] = "rows" /\ conn[q] = c
      BY <2>1 DEF InBatch
    <3> QED
      BY <1>1, <3>1, NoTxNoMany DEF SameFor, InBatch
  <2>2. CASE NoManyTx(tx[c]) /\ c = conn[p]
    BY <2>2 DEF InBatch
  <2>3. CASE NoManyTx(tx[c]) /\ c # conn[p]
    <3>1. CASE tx' = tx
      BY <2>3, <3>1
    <3>2. ASSUME NEW d \in Conns, NEW a, Become(d, NoTx(a)) PROVE NoManyTx(tx'[c])
      BY <2>3, <3>2, NoTxNoMany DEF Become, Typed, TypeOK
    <3>3. CASE conn[p] \in Conns /\ Statement(conn[p])
      BY <2>3, <3>3, SqlChangesOne DEF Statement, SqlWrite, SqlAutoWrite, Typed, TypeOK, SqlTypeOK
    <3> QED
      BY <3>1, <3>2, <3>3, StepOnTx
  <2> QED
    BY <2>1, <2>2, <2>3 DEF BatchInv, BatchConns
<1> QED
  BY <1>2, <1>3 DEF BatchInv, BatchConns

LEMMA BatchInit == Init => BatchInv
<1> SUFFICES ASSUME Init PROVE BatchInv
  OBVIOUS
<1>1. ASSUME NEW c \in Conns PROVE NoManyTx(tx[c])
  <2>1. tx[c] = NoTx("closed")
    BY DEF Init, SqlInit
  <2> QED
    BY <2>1, NoTxNoMany
<1>2. \A p \in Procs : InBatchOnly(p)
  BY DEF Init, InBatchOnly
<1> QED
  BY <1>1, <1>2 DEF BatchInv, BatchConns

LEMMA BatchStep ==
    ASSUME "overflow" \notin Faults, Typed, ConnInv, BatchInv, NEW p \in Procs, Moves(p)
    PROVE  BatchInv'
<1> SqlTypeOK
  BY DEF Typed, TypeOK, SqlTypeOK
<1> USE DEF Goto, lockVars, connVars, blockVars, callVars
<1>a. /\ pc \in [Procs -> PcType] /\ conn \in [Procs -> Conns \cup {None}]
      /\ op \in [Procs -> [kind : Kinds, mode : Modes]]
      /\ rows \in [Procs -> 0 .. MaxRows]
      /\ UsesConn(p) <=> conn[p] # None
      /\ InBatchOnly(p)
  BY DEF Typed, TypeOK, PcMatchesCall, BatchInv
<1>b. UsesConn(p) => conn[p] \in Conns
  BY ConnTyped
<1>c. None \notin Conns
  BY ProcsAssumption
<1>1. CASE \E k \in Calls, m \in Modes : Request(p, k, m)
  <2>1. pc'[p] \in {"queued", "want"} /\ rows'[p] = 0 /\ pc[p] = "idle" /\ conn[p] = None
    BY <1>1, <1>a DEF Request, UsesConn
  <2>2. InBatchOnly(p)'
    BY <2>1 DEF InBatchOnly
  <2> QED
    BY <1>c, <2>1, <2>2, BatchFrame
<1>2. CASE EnterGate(p) \/ LockForBlock(p) \/ Unlock(p) \/ Ungate(p) \/ EndBlock(p)
           \/ CommitRefused(p) \/ WriteFails(p) \/ ConnectFails(p)
  <2>1. tx' = tx /\ op' = op /\ rows' = rows /\ pc[p] # "rows" /\ pc[p] # "begin"
    BY <1>2, <1>a DEF EnterGate, LockForBlock, Unlock, Ungate, EndBlock, CommitRefused,
       WriteFails, ConnectFails, DoneWriting, sqlVars
  <2>2. pc'[p] \notin {"begin", "rows"}
        /\ (pc'[p] \in {"queued", "want", "checkout"} => pc[p] \in {"queued", "want", "checkout"})
    BY <1>2, <1>a DEF EnterGate, LockForBlock, Unlock, Ungate, EndBlock, CommitRefused,
       WriteFails, ConnectFails, Leave, DoneWriting
  <2>3. InBatchOnly(p)'
    BY <1>a, <2>1, <2>2 DEF InBatchOnly
  <2> QED
    BY <2>1, <2>3, BatchFrame
<1>3. CASE LockForWrite(p) \/ Checkout(p)
  <2>1. /\ pc[p] \in {"want", "checkout"} /\ conn[p] = None /\ UNCHANGED <<op, rows>>
        /\ pc'[p] \in {"begin", "exec"}
        /\ pc'[p] = "begin" /\ ~IsTxn(p) => op[p].kind = "many"
    BY <1>3, <1>a DEF LockForWrite, Checkout, UsesConn, Typed, PcMatchesCall
  <2>2. InBatchOnly(p)'
    BY <1>a, <2>1 DEF InBatchOnly, IsTxn
  <2> QED
    BY <1>c, <2>1, <2>2, BatchFrame
<1>4. CASE BeginFails(p) \/ Cleanup(p)
  <2>1. /\ pc[p] \in {"begin", "cleanup"} /\ pc'[p] \in {"unlock", "ungate"}
        /\ tx' = tx \/ Become(conn[p], NoTx("closed"))
    BY <1>4, <1>a DEF BeginFails, Cleanup, Leave, ReleaseTxnConn
  <2>2. InBatchOnly(p)'
    BY <2>1 DEF InBatchOnly
  <2>3. conn[p] \in Conns /\ NoManyTx(tx[conn[p]]) => NoManyTx(tx'[conn[p]])
    BY <2>1, NoTxNoMany, OwnTx
  <2> QED
    BY <2>1, <2>2, <2>3, BatchFrame
<1>5. CASE Begin(p)
  <2>1. conn[p] \in Conns /\ UNCHANGED <<conn, op, ops, rows>> /\ pc[p] = "begin"
    BY <1>5, <1>b DEF Begin, UsesConn
  <2>2. NoManyTx(tx[conn[p]]) => NoManyTx(tx'[conn[p]])
    BY <1>5, <2>1, SqlNoMany DEF Begin
  <2>3. tx'[conn[p]].own = {}
    BY <1>5, <2>1, OwnTx DEF Begin, SqlBegin, NoTx, Transaction
  <2>4. IF IsTxn(p) THEN pc'[p] = "open" ELSE pc'[p] = "rows"
    BY <1>5, <1>a DEF Begin
  <2>5. rows'[p] = 0 /\ Batch(p)' = {}
    BY <1>a, <2>1 DEF InBatchOnly, Batch
  <2>6. InBatchOnly(p)'
    BY <1>a, <2>1, <2>3, <2>4, <2>5 DEF InBatchOnly
  <2> QED
    BY <2>1, <2>2, <2>6, BatchFrame
<1>6. CASE Write(p) \/ Read(p) \/ Nest(p) \/ FinishNested(p) \/ FinishRoot(p)
  <2>1. conn[p] \in Conns /\ UNCHANGED <<conn, op>> /\ pc[p] \in {"open", "finish"}
        /\ pc'[p] \in {"open", "finish", "cleanup"}
    BY <1>6, <1>a, <1>b DEF Write, Read, Nest, FinishNested, FinishRoot, UsesConn
  <2>2. NoManyTx(tx[conn[p]]) => NoManyTx(tx'[conn[p]])
    <3>1. CASE Write(p)
      <4>1. NextWrite(p).kind # "many"
        BY <2>1 DEF NextWrite, Typed, PcMatchesCall, IsTxn
      <4> QED
        BY <2>1, <3>1, <4>1, SqlNoMany DEF Write, SqlWrite
    <3>2. CASE Read(p)
      BY <2>1, <3>2, SqlNoMany DEF Read
    <3>3. CASE Nest(p)
      <4>1. savepoints'[p] \in Nat
        BY <3>3 DEF Nest, Typed, TypeOK
      <4> QED
        BY <2>1, <3>3, <4>1, SqlNoMany DEF Nest
    <3>4. CASE FinishNested(p) \/ FinishRoot(p)
      BY <2>1, <3>4, SqlNoMany DEF FinishNested, FinishRoot
    <3> QED
      BY <1>6, <3>1, <3>2, <3>3, <3>4
  <2>3. InBatchOnly(p)'
    BY <2>1 DEF InBatchOnly
  <2> QED
    BY <2>1, <2>2, <2>3, BatchFrame
<1>7. CASE AutoWrite(p) \/ Script(p)
  <2>1. conn[p] \in Conns /\ pc[p] = "exec" /\ pc'[p] \in {"exec", "unlock"}
    BY <1>7, <1>a, <1>b DEF AutoWrite, Script, DoneWriting, UsesConn
  <2>2. NoManyTx(tx[conn[p]]) => NoManyTx(tx'[conn[p]])
    <3>1. CASE AutoWrite(p)
      BY <2>1, <3>1, SqlNoMany DEF AutoWrite, NextWrite
    <3>2. CASE Script(p)
      BY <2>1, <3>2, NoTxNoMany, OwnTx DEF Script
    <3> QED
      BY <1>7, <3>1, <3>2
  <2>3. InBatchOnly(p)'
    BY <2>1 DEF InBatchOnly
  <2> QED
    BY <2>1, <2>2, <2>3, BatchFrame
<1>8. CASE ManyRow(p)
  <2>1. conn[p] \in Conns /\ UNCHANGED <<conn, op, ops, pc>> /\ pc[p] = "rows"
        /\ rows'[p] = rows[p] + 1 /\ rows[p] \in Nat
    BY <1>8, <1>a, <1>b, BoundsAssumption DEF ManyRow, IssueRow, UsesConn
  <2>2. tx'[conn[p]].own = tx[conn[p]].own \cup {NextWrite(p)}
    BY <1>8, <2>1, OwnTx DEF ManyRow, SqlTxnWrite, Transaction
  <2>3. NextWrite(p) = [by |-> p, op |-> ops[p], kind |-> "many", row |-> rows[p] + 1]
    <3>1. op[p].kind = "many"
      BY <1>a, <2>1 DEF InBatchOnly
    <3> QED
      BY <3>1 DEF NextWrite
  <2>4. Batch(p)' = Batch(p) \cup {NextWrite(p)}
    <3>1. 1 .. rows[p] + 1 = (1 .. rows[p]) \cup {rows[p] + 1}
      BY <2>1
    <3> QED
      BY <2>1, <2>3, <3>1 DEF Batch
  <2>5. InBatchOnly(p)'
    <3>1. op[p].kind = "many" /\ tx[conn[p]].own = Batch(p)
      BY <1>a, <2>1 DEF InBatchOnly
    <3>2. op'[p].kind = "many" /\ tx'[conn'[p]].own = Batch(p)' /\ pc'[p] = "rows"
      BY <2>1, <2>2, <2>4, <3>1
    <3> QED
      BY <3>2 DEF InBatchOnly
  <2> QED
    BY <2>1, <2>5, BatchFrame DEF StaysInBatch
<1>9. CASE ManyCommit(p) \/ ManyFails(p)
  <2>1. pc'[p] = "unlock" /\ conn[p] \in Conns /\ Become(conn[p], NoTx("idle"))
    BY <1>9, <1>a, <1>b
       DEF ManyCommit, ManyFails, DoneWriting, SqlCommit, SqlRollback, UsesConn
  <2>2. tx'[conn[p]] = NoTx("idle") /\ InBatchOnly(p)'
    BY <2>1, OwnTx DEF InBatchOnly
  <2> QED
    BY <2>2, NoTxNoMany, BatchFrame
<1>10. ASSUME ManyOverflows(p) PROVE FALSE
  BY <1>10 DEF ManyOverflows
<1> QED
  BY <1>1, <1>2, <1>3, <1>4, <1>5, <1>6, <1>7, <1>8, <1>9, <1>10 DEF Moves, Step

\* What reaches the database: a write that is no row of a batch, or all the
\* rows of one.
LEMMA AtomicStep ==
    ASSUME Typed, ConnInv, OneWriter, ConnsClean, ThreadsQuiet, BatchInv, BatchesAtomic,
           NEW p \in Procs, Moves(p)
    PROVE  BatchesAtomic'
<1> USE DEF sqlVars
<1>1. CASE db' = db
  BY <1>1 DEF BatchesAtomic
<1>2. ASSUME NEW s, db' = db \cup s, NoMany(s) PROVE BatchesAtomic'
  BY <1>2 DEF BatchesAtomic, NoMany
<1>3. CASE AutoWrite(p)
  <2>1. NextWrite(p).kind # "many"
    BY <1>3 DEF AutoWrite, NextWrite
  <2>2. db' = db \/ db' = db \cup {NextWrite(p)}
    BY <1>3 DEF AutoWrite, SqlWrite, SqlAutoWrite, SqlTxnWrite
  <2>3. NoMany({NextWrite(p)})
    BY <2>1 DEF NoMany
  <2> QED
    BY <1>1, <1>2, <2>2, <2>3
<1>4. CASE Script(p)
  <2>1. conn[p] \in Conns /\ ~InTransaction(conn[p])
    BY <1>4, ConnTyped, WritersQuiet DEF Script, UsesConn
  <2>2. View(conn[p]) = {}
    BY <2>1 DEF View, ConnsClean, CleanTx, InTransaction, Typed, TypeOK, TxType
  <2>3. db' = db \cup {NextWrite(p)} /\ NextWrite(p).kind # "many"
    BY <1>4, <2>2 DEF Script, NextWrite
  <2>4. NoMany({NextWrite(p)})
    BY <2>3 DEF NoMany
  <2> QED
    BY <1>2, <2>3, <2>4
<1>5. ASSUME FinishRoot(p) \/ ManyCommit(p), db' # db
      PROVE  conn[p] \in Conns /\ db' = db \cup tx[conn[p]].own
  <2>1. conn[p] \in Conns
    BY <1>5, ConnTyped DEF FinishRoot, ManyCommit, UsesConn
  <2>2. SqlCommit(conn[p]) \/ db' = db
    BY <1>5 DEF FinishRoot, ManyCommit, SqlRollback
  <2> QED
    BY <1>5, <2>1, <2>2 DEF SqlCommit, View, OneWriter
<1>6. CASE FinishRoot(p)
  <2>1. pc[p] # "rows" /\ conn[p] # None
    BY <1>6 DEF FinishRoot, Typed, PcMatchesCall, UsesConn
  <2>2. conn[p] \in Conns => ~InBatch(conn[p])
    BY <2>1 DEF InBatch, ConnInv, ConnectionsNotShared
  <2>3. conn[p] \in Conns => NoMany(tx[conn[p]].own)
    BY <2>2 DEF BatchInv, BatchConns, NoManyTx
  <2> QED
    BY <1>1, <1>2, <1>5, <1>6, <2>3
<1>7. CASE ManyCommit(p)
  <2>1. tx[conn[p]].own = Batch(p) /\ rows[p] = MaxRows
    BY <1>7 DEF ManyCommit, BatchInv, InBatchOnly
  <2>2. ASSUME NEW w \in Batch(p), NEW i \in 1 .. MaxRows PROVE [w EXCEPT !.row = i] \in Batch(p)
    BY <2>1 DEF Batch
  <2> QED
    BY <1>1, <1>5, <1>7, <2>1, <2>2 DEF BatchesAtomic
<1>8. ASSUME ~(AutoWrite(p) \/ Script(p) \/ FinishRoot(p) \/ ManyCommit(p)) PROVE db' = db
  <2>1. CASE \E k \in Calls, m \in Modes : Request(p, k, m)
    BY <2>1 DEF Request
  <2>2. CASE EnterGate(p) \/ LockForBlock(p) \/ LockForWrite(p) \/ Checkout(p) \/ Begin(p)
             \/ BeginFails(p) \/ ConnectFails(p)
    BY <2>2 DEF EnterGate, LockForBlock, LockForWrite, Checkout, Begin, SqlBegin, BeginFails,
       ConnectFails
  <2>3. CASE Write(p) \/ Read(p) \/ Nest(p) \/ EndBlock(p) \/ FinishNested(p)
             \/ CommitRefused(p) \/ Cleanup(p)
    BY <2>3 DEF Write, SqlTxnWrite, Read, SqlRead, Nest, SqlSavepoint, EndBlock,
       FinishNested, SqlRelease, SqlRollbackToAndRelease, CommitRefused, Cleanup
  <2>4. CASE WriteFails(p) \/ ManyRow(p) \/ ManyFails(p) \/ ManyOverflows(p)
             \/ Unlock(p) \/ Ungate(p)
    BY <2>4 DEF WriteFails, ManyRow, SqlTxnWrite, ManyFails, SqlRollback, ManyOverflows,
       Unlock, Ungate
  <2> QED
    BY <1>8, <2>1, <2>2, <2>3, <2>4 DEF Moves, Step
<1> QED
  BY <1>1, <1>3, <1>4, <1>6, <1>7, <1>8

\* What the batches rest on.
AtomicInv ==
    /\ Typed /\ LocksMatch /\ ConnInv /\ OneWriter
    /\ ConnsClean /\ ThreadsQuiet /\ BatchInv /\ BatchesAtomic

LEMMA AtomicNext ==
    ASSUME "overflow" \notin Faults, AtomicInv, [Next]_vars
    PROVE  AtomicInv'
<1> USE DEF AtomicInv
<1>1. (Typed /\ LocksMatch /\ ConnInv /\ OneWriter /\ ConnsClean /\ ThreadsQuiet)'
  BY TypedNext, LocksNext, ConnNext, CommitsNext, CleanNext, QuietNext DEF KeepsCommits
<1>2. (BatchInv /\ BatchesAtomic)'
  <2>1. CASE UNCHANGED vars
    BY <2>1 DEF vars, sqlVars, connVars, callVars, BatchInv, BatchConns, InBatch, InBatchOnly,
       Batch, IsTxn, BatchesAtomic
  <2>2. ASSUME NEW p \in Procs, Moves(p) PROVE (BatchInv /\ BatchesAtomic)'
    BY <2>2, BatchStep, AtomicStep
  <2> QED
    BY <2>1, <2>2 DEF Next, Moves, Finished
<1> QED
  BY <1>1, <1>2

\* "executemany() is atomic even without an explicit transaction": its rows are
\* in the database together or not at all, however the other threads' and tasks'
\* statements fall between them and whether or not a COMMIT is refused, as long
\* as what a row raises is a sqlite3.Error.
THEOREM BatchesAreAtomic ==
    ASSUME "overflow" \notin Faults
    PROVE  Spec => []BatchesAtomic
<1>1. Init => AtomicInv
  <2>1. Init => OneWriter /\ BatchesAtomic
    BY DEF Init, SqlInit, NoTx, Transaction, OneWriter, BatchesAtomic
  <2> QED
    BY <2>1, TypedInit, LocksInit, ConnInit, CleanInit, QuietInit, BatchInit DEF AtomicInv
<1>2. AtomicInv /\ [Next]_vars => AtomicInv'
  BY AtomicNext
<1>3. AtomicInv => BatchesAtomic
  BY DEF AtomicInv
<1> QED
  BY <1>1, <1>2, <1>3, PTL DEF Spec

-----------------------------------------------------------------------------
(***************************************************************************)
(* Transactions implements AtomicBlocks.  A block's levels are the marks   *)
(* of its savepoints and, last, the writes it has now; opening and ending  *)
(* a nested block pushes and pops a level.                                 *)
(***************************************************************************)
MarksOf(s) == [i \in 1 .. Len(s) |-> s[i].own]

LEMMA MarksTyped ==
    ASSUME NEW s \in Seq(Save)
    PROVE  /\ MarksOf(s) \in Seq(SUBSET Writes)
           /\ Len(MarksOf(s)) = Len(s)
           /\ \A i \in 1 .. Len(s) : MarksOf(s)[i] = s[i].own
<1>1. Len(s) \in Nat
  BY LenProperties
<1>2. ASSUME NEW i \in 1 .. Len(s) PROVE s[i].own \in SUBSET Writes
  <2>1. s[i] \in Save
    BY ElementOfSeq
  <2> QED
    BY <2>1 DEF Save
<1>3. MarksOf(s) \in Seq(SUBSET Writes) /\ Len(MarksOf(s)) = Len(s)
  BY <1>1, <1>2, IsASeq DEF MarksOf
<1> QED
  BY <1>3 DEF MarksOf

LEMMA MarksPushed ==
    ASSUME NEW s \in Seq(Save), NEW e \in Save
    PROVE  MarksOf(Append(s, e)) = Append(MarksOf(s), e.own)
<1> DEFINE t == Append(s, e)
<1>1. /\ t \in Seq(Save) /\ Len(t) = Len(s) + 1 /\ Len(s) \in Nat
      /\ \A i \in 1 .. Len(s) : t[i] = s[i]
      /\ t[Len(s) + 1] = e
      /\ e.own \in SUBSET Writes
  BY AppendProperties, LenProperties DEF Save
<1> HIDE DEF t
<1>2. /\ MarksOf(t) \in Seq(SUBSET Writes) /\ Len(MarksOf(t)) = Len(s) + 1
      /\ \A i \in 1 .. Len(s) + 1 : MarksOf(t)[i] = t[i].own
  BY <1>1, MarksTyped
<1>3. /\ MarksOf(s) \in Seq(SUBSET Writes) /\ Len(MarksOf(s)) = Len(s)
      /\ \A i \in 1 .. Len(s) : MarksOf(s)[i] = s[i].own
  BY MarksTyped
<1>4. /\ Append(MarksOf(s), e.own) \in Seq(SUBSET Writes)
      /\ Len(Append(MarksOf(s), e.own)) = Len(s) + 1
      /\ \A i \in 1 .. Len(s) : Append(MarksOf(s), e.own)[i] = MarksOf(s)[i]
      /\ Append(MarksOf(s), e.own)[Len(s) + 1] = e.own
  BY <1>1, <1>3, AppendProperties
<1>5. ASSUME NEW i \in 1 .. Len(s) + 1 PROVE MarksOf(t)[i] = Append(MarksOf(s), e.own)[i]
  <2>1. i \in 1 .. Len(s) \/ i = Len(s) + 1
    BY <1>1
  <2> QED
    BY <1>1, <1>2, <1>3, <1>4, <2>1
<1>6. MarksOf(t) = Append(MarksOf(s), e.own)
  BY <1>2, <1>4, <1>5, SeqEqual
<1> QED
  BY <1>6 DEF t

Levels(t) == Append(MarksOf(t.saves), t.own)

LEMMA LevelsTyped ==
    ASSUME NEW t \in TxType
    PROVE  /\ Levels(t) \in Seq(SUBSET Writes) /\ Levels(t) # <<>>
           /\ MarksOf(t.saves) \in Seq(SUBSET Writes)
           /\ Front(Levels(t)) = MarksOf(t.saves)
           /\ Last(Levels(t)) = t.own
           /\ Len(Levels(t)) = Len(t.saves) + 1
           /\ t.saves = <<>> => Levels(t) = <<t.own>> /\ Levels(t)[1] = t.own
<1>1. t.own \in SUBSET Writes /\ t.saves \in Seq(Save)
  BY DEF TxType
<1>2. MarksOf(t.saves) \in Seq(SUBSET Writes) /\ Len(MarksOf(t.saves)) = Len(t.saves)
  BY <1>1, MarksTyped
<1>3. /\ Levels(t) \in Seq(SUBSET Writes) /\ Levels(t) # <<>>
      /\ Len(Levels(t)) = Len(t.saves) + 1
      /\ Levels(t)[Len(t.saves) + 1] = t.own
  BY <1>1, <1>2, AppendProperties DEF Levels
<1>4. Front(Levels(t)) = MarksOf(t.saves) /\ Last(Levels(t)) = t.own
  BY <1>1, <1>2, FrontOfAppend DEF Levels
<1>5. ASSUME t.saves = <<>> PROVE Levels(t) = <<t.own>> /\ Levels(t)[1] = t.own
  <2>1. Len(t.saves) = 0
    BY <1>5
  <2>2. Len(Levels(t)) = 1 /\ Levels(t)[1] = t.own
    BY <1>3, <2>1
  <2>3. <<t.own>> \in Seq(SUBSET Writes) /\ Len(<<t.own>>) = 1 /\ <<t.own>>[1] = t.own
    BY <1>1
  <2>4. \A i \in 1 .. Len(Levels(t)) : Levels(t)[i] = <<t.own>>[i]
    BY <2>2, <2>3
  <2> QED
    BY <1>3, <2>2, <2>3, <2>4, SeqEqual
<1> QED
  BY <1>2, <1>3, <1>4, <1>5

BlocksAreLevels ==
    \A p \in Procs :
        /\ Inside(p) => Block(p) = Levels(tx[conn[p]]) /\ tx[conn[p]] \in TxType
        /\ ~Inside(p) => Block(p) = <<>>

LEMMA BlockIsLevels == Typed /\ StackInv => BlocksAreLevels
<1> SUFFICES ASSUME Typed, StackInv, NEW p \in Procs
             PROVE  /\ Inside(p) => Block(p) = Levels(tx[conn[p]]) /\ tx[conn[p]] \in TxType
                    /\ ~Inside(p) => Block(p) = <<>>
  BY DEF BlocksAreLevels
<1>1. CASE Inside(p)
  <2>1. conn[p] \in Conns
    BY <1>1, ConnTyped DEF Inside, UsesConn
  <2>2. InTransaction(conn[p])
    BY <1>1 DEF Inside, StackInv, Stack
  <2> QED
    BY <1>1, <2>1, <2>2 DEF Block, Marks, Levels, MarksOf, Typed, TypeOK
<1>2. CASE ~Inside(p)
  BY <1>2 DEF Block
<1> QED
  BY <1>1, <1>2

LEMMA BlockIsLevelsNext == (Typed /\ StackInv)' => BlocksAreLevels'
BY BlockIsLevels, PTL

\* A step changes the block of the process that takes it, and no other.
LEMMA OneBlock ==
    ASSUME Typed, ConnInv, NEW p \in Procs, Moves(p)
    PROVE  [q \in Procs |-> Block(q)]' = [[q \in Procs |-> Block(q)] EXCEPT ![p] = Block(p)']
<1>1. ASSUME NEW q \in Procs, q # p PROVE Block(q)' = Block(q)
  <2>1. SameFor(q)
    BY <1>1, StepIsLocal
  <2>2. Inside(q) => conn[q] # None
    BY DEF Inside, Typed, PcMatchesCall, UsesConn
  <2> QED
    BY <2>1, <2>2 DEF SameFor, Block, Inside, InTransaction, Marks
<1> QED
  BY <1>1

\* The blocks of a script's connection hold nothing it would bring along.
CallsMatch == \A p \in Procs : pc[p] # "idle" => op[p].kind \in Calls

ScriptsQuiet == CallsMatch /\ ("overflow" \notin Faults => ThreadsQuiet)

LEMMA CallsNext == Typed /\ ConnInv /\ CallsMatch /\ [Next]_vars => CallsMatch'
<1> SUFFICES ASSUME Typed, ConnInv, CallsMatch, [Next]_vars PROVE CallsMatch'
  OBVIOUS
<1>1. CASE UNCHANGED vars
  BY <1>1 DEF vars, CallsMatch, callVars
<1>2. ASSUME NEW p \in Procs, Moves(p) PROVE CallsMatch'
  <2>1. \A q \in Procs : q # p => SameFor(q)
    BY <1>2, StepIsLocal
  <2>2. pc'[p] # "idle" => op'[p].kind \in Calls
    <3>1. CASE \E k \in Calls, m \in Modes : Request(p, k, m)
      BY <3>1 DEF Request, Typed, TypeOK
    <3>2. CASE Step(p)
      <4>1. pc[p] # "idle" /\ op' = op
        BY <3>2 DEF Step, EnterGate, LockForBlock, LockForWrite, Checkout, Begin, BeginFails,
           Write, Read, Nest, EndBlock, FinishNested, FinishRoot, CommitRefused, Cleanup,
           AutoWrite, Script, WriteFails, ManyRow, ManyCommit, ManyFails, ManyOverflows,
           Unlock, Ungate, ConnectFails, callVars
      <4> QED
        BY <4>1 DEF CallsMatch
    <3> QED
      BY <1>2, <3>1, <3>2 DEF Moves
  <2> QED
    BY <2>1, <2>2 DEF CallsMatch, SameFor
<1> QED
  BY <1>1, <1>2 DEF Next, Moves, Finished

RefinesInv ==
    /\ Typed /\ LocksMatch /\ ConnInv /\ OneWriter
    /\ ConnsClean /\ StackInv /\ ScriptsQuiet

LEMMA RefinesNext == RefinesInv /\ [Next]_vars => RefinesInv'
<1> SUFFICES ASSUME RefinesInv, [Next]_vars PROVE RefinesInv'
  OBVIOUS
<1> USE DEF RefinesInv, ScriptsQuiet
<1>1. (Typed /\ LocksMatch /\ ConnInv /\ OneWriter /\ ConnsClean)'
  BY TypedNext, LocksNext, ConnNext, CommitsNext, CleanNext DEF KeepsCommits
<1>2. StackInv' /\ CallsMatch'
  BY StackNext, CallsNext
<1>3. "overflow" \notin Faults => ThreadsQuiet'
  BY QuietNext
<1> QED
  BY <1>1, <1>2, <1>3

LEMMA RefinesInit == Init => RefinesInv
<1>1. Init => OneWriter /\ CallsMatch
  BY DEF Init, SqlInit, NoTx, Transaction, OneWriter, CallsMatch
<1> QED
  BY <1>1, TypedInit, LocksInit, ConnInit, CleanInit, StackInit, QuietInit
     DEF RefinesInv, ScriptsQuiet

\* The writes issued: unchanged by most steps, and by one the next write.
LEMMA IssuedSame == ASSUME UNCHANGED <<op, ops, rows>> PROVE Issued' = Issued
BY DEF Issued

LEMMA IssuedNext ==
    ASSUME Typed, NEW p \in Procs, pc[p] # "idle", IssueRow(p), UNCHANGED <<op, ops>>
    PROVE  /\ NextWrite(p) \in Writes /\ NextWrite(p) \notin Issued
           /\ Issued' = Issued \cup {NextWrite(p)}
<1>1. NextWrite(p) \in Writes
  BY NextWriteTyped DEF IssueRow
<1>2. /\ rows[p] \in Nat /\ rows'[p] = rows[p] + 1
      /\ \A q \in Procs : q # p => rows'[q] = rows[q]
      /\ \A q \in Procs : ops[q] \in Nat
  BY BoundsAssumption DEF Typed, TypeOK, IssueRow
<1>3. NextWrite(p) \notin Issued
  BY <1>2 DEF NextWrite, Issued
<1>4. ASSUME NEW w \in Writes
      PROVE  /\ w.by \in Procs /\ w.row \in Nat /\ w.op \in Nat
             /\ w = [by |-> w.by, op |-> w.op, kind |-> w.kind, row |-> w.row]
  BY WritesAssumption, BoundsAssumption
<1>5. ASSUME NEW w \in Writes PROVE w \in Issued' <=> w \in Issued \/ w = NextWrite(p)
  <2>1. CASE w.by # p
    BY <1>2, <1>4, <2>1 DEF Issued, NextWrite
  <2>2. CASE w.by = p
    <3>1. w = NextWrite(p) <=> w.op = ops[p] /\ w.kind = op[p].kind /\ w.row = rows[p] + 1
      BY <1>4, <2>2 DEF NextWrite
    <3> QED
      BY <1>2, <1>4, <2>2, <3>1 DEF Issued
  <2> QED
    BY <2>1, <2>2
<1>6. Issued \subseteq Writes /\ Issued' \subseteq Writes
  BY DEF Issued
<1> QED
  BY <1>1, <1>3, <1>5, <1>6

LEMMA IssuedGrows ==
    ASSUME Typed, NEW p \in Procs, NEW k \in Calls, NEW m \in Modes, Request(p, k, m)
    PROVE  Issued \subseteq Issued' /\ Issued' \subseteq Writes
<1>1. /\ ops[p] \in Nat /\ ops'[p] = ops[p] + 1
      /\ \A q \in Procs : q # p => ops'[q] = ops[q] /\ rows'[q] = rows[q] /\ op'[q] = op[q]
  BY BoundsAssumption DEF Request, Typed, TypeOK
<1>2. \A w \in Writes : w.by \in Procs /\ w.op \in Nat
  BY WritesAssumption, BoundsAssumption
<1> QED
  BY <1>1, <1>2 DEF Issued

\* A root block that ends has no savepoint left.
LEMMA RootHasNoSaves ==
    ASSUME NEW s \in Seq(Save), NEW m, Rising(s, m), Last(Names(s)) = 0
    PROVE  s = <<>>
<1> SUFFICES ASSUME s # <<>> PROVE FALSE
  OBVIOUS
<1>1. Len(s) \in Nat /\ Len(s) # 0
  BY LenProperties, EmptySeq
<1>2. s[Len(s)].name = 0
  BY NamesPopped
<1>3. s[Len(s)].name \in 1 .. m
  BY <1>1 DEF Rising
<1> QED
  BY <1>2, <1>3

\* A COMMIT adds what its connection wrote, and nothing else.
LEMMA CommitAddsOwn ==
    ASSUME OneWriter, ConnsClean, NEW c \in Conns, SqlCommit(c)
    PROVE  db' = db \cup tx[c].own
BY DEF OneWriter, ConnsClean, CleanTx, SqlCommit, View

\* The abstract module's helpers on sequences are this module's.
LEMMA SameFront == \A s : Abstract!Front(s) = Front(s) /\ Abstract!Last(s) = Last(s)
BY DEF Abstract!Front, Abstract!Last, Front, Last

\* Each step of the code is a step of AtomicBlocks, or changes nothing in it.
LEMMA RefinesStep ==
    ASSUME "script" \notin Calls \/ "overflow" \notin Faults,
           RefinesInv, RefinesInv', NEW p \in Procs, Moves(p)
    PROVE  Abstract!Next \/ UNCHANGED Abstract!vars
<1> DEFINE block == [q \in Procs |-> Block(q)]
           c == conn[p]
<1> SqlTypeOK
  BY DEF RefinesInv, Typed, TypeOK, SqlTypeOK
<1> USE DEF Goto, sqlVars, lockVars, connVars, blockVars, callVars
<1>a. /\ Typed /\ ConnInv /\ StackInv /\ Stack(p) /\ Stack(p)'
      /\ pc \in [Procs -> PcType] /\ conn \in [Procs -> Conns \cup {None}]
      /\ outcome \in [Procs -> {"none", "success", "failure"}]
      /\ BlocksAreLevels /\ BlocksAreLevels'
  BY BlockIsLevels, BlockIsLevelsNext DEF RefinesInv, StackInv, Typed, TypeOK
<1>b. block' = [block EXCEPT ![p] = Block(p)'] /\ block[p] = Block(p)
  BY <1>a, OneBlock
<1>c. /\ Inside(p) => Block(p) = Levels(tx[c]) /\ tx[c] \in TxType
      /\ ~Inside(p) => Block(p) = <<>>
      /\ Inside(p)' => Block(p)' = Levels(tx[c])' /\ (tx[c] \in TxType)'
      /\ ~Inside(p)' => Block(p)' = <<>>
  BY <1>a DEF BlocksAreLevels
<1>d. UsesConn(p) => c \in Conns
  BY <1>a, ConnTyped
<1>e. ASSUME Block(p)' = Block(p) PROVE block' = block
  BY <1>b, <1>e
<1> HIDE DEF block, c
<1>f. ASSUME UNCHANGED <<db, outcome, op, ops, rows>>, Block(p)' = Block(p)
      PROVE  UNCHANGED Abstract!vars
  BY <1>e, <1>f, IssuedSame DEF Abstract!vars, block
<1>g. ASSUME UNCHANGED <<db, outcome, op, ops, rows>>, ~Inside(p), ~Inside(p)'
      PROVE  UNCHANGED Abstract!vars
  BY <1>c, <1>f, <1>g
<1>1. CASE \E k \in Calls, m \in Modes : Request(p, k, m)
  <2>1. /\ UNCHANGED <<db, outcome>> /\ ~Inside(p) /\ ~Inside(p)'
    BY <1>1, <1>a DEF Request, Inside
  <2>2. block' = block
    BY <1>c, <1>e, <2>1
  <2>3. Issued \subseteq Issued' /\ Issued' \subseteq Writes
    BY <1>1, <1>a, IssuedGrows
  <2> QED
    BY <2>1, <2>2, <2>3 DEF Abstract!Next, Abstract!Discard, block
<1>2. CASE EnterGate(p) \/ LockForBlock(p) \/ Unlock(p) \/ Ungate(p) \/ LockForWrite(p)
           \/ Checkout(p) \/ ConnectFails(p) \/ BeginFails(p) \/ Cleanup(p) \/ WriteFails(p)
  <2>1. /\ UNCHANGED <<db, outcome, op, ops, rows>> /\ ~Inside(p) /\ ~Inside(p)'
    BY <1>2, <1>a DEF EnterGate, LockForBlock, Unlock, Ungate, LockForWrite, Checkout,
       ConnectFails, BeginFails, Cleanup, WriteFails, DoneWriting, Leave, Inside
  <2> QED
    BY <1>g, <2>1
<1>3. CASE Begin(p)
  <2>1. c \in Conns /\ UNCHANGED <<db, outcome, op, ops, rows, conn>>
        /\ pc[p] = "begin" /\ pc'[p] \in {"open", "rows"}
    BY <1>3, <1>a, <1>d DEF Begin, SqlBegin, UsesConn, c
  <2>2. tx'[c].own = {} /\ tx'[c].saves = <<>>
    BY <1>3, <2>1, OwnTx DEF Begin, SqlBegin, NoTx, Transaction, c
  <2>3. tx'[c] \in TxType /\ Block(p)' = Levels(tx'[c]) /\ Block(p) = <<>>
    BY <1>c, <2>1 DEF Inside, c
  <2>4. Block(p)' = <<{}>>
    BY <2>2, <2>3, LevelsTyped
  <2> QED
    BY <1>b, <2>1, <2>3, <2>4, IssuedSame DEF Abstract!Next, Abstract!Begin, block
<1>4. CASE Write(p) \/ ManyRow(p)
  <2> DEFINE w == NextWrite(p)
  <2>1. /\ c \in Conns /\ UNCHANGED <<db, outcome, op, ops, conn, pc>>
        /\ pc[p] \in {"open", "rows"} /\ IssueRow(p) /\ SqlTxnWrite(c, w)
    BY <1>4, <1>d DEF Write, ManyRow, SqlTxnWrite, UsesConn, c
  <2>2. tx'[c].own = tx[c].own \cup {w} /\ tx'[c].saves = tx[c].saves
    BY <2>1, OwnTx DEF SqlTxnWrite, Transaction
  <2>3. w \in Writes /\ w \notin Issued /\ Issued' = Issued \cup {w}
    BY <1>a, <2>1, IssuedNext
  <2> HIDE DEF w
  <2>4. /\ Block(p) = Levels(tx[c]) /\ tx[c] \in TxType
        /\ Block(p)' = Levels(tx'[c]) /\ tx'[c] \in TxType
    BY <1>c, <2>1 DEF Inside, c
  <2>5. outcome[p] = "none" /\ Block(p) # <<>>
    BY <1>a, <2>1, <2>4, LevelsTyped DEF Stack
  <2>6. Block(p)' = Front(Block(p)) \o <<Last(Block(p)) \cup {w}>>
    <3>1. Front(Block(p)) = MarksOf(tx[c].saves) /\ Last(Block(p)) = tx[c].own
          /\ MarksOf(tx[c].saves) \in Seq(SUBSET Writes)
          /\ tx'[c].own \in SUBSET Writes
      BY <2>4, LevelsTyped DEF TxType
    <3>2. Block(p)' = Append(MarksOf(tx[c].saves), tx[c].own \cup {w})
      BY <2>2, <2>4 DEF Levels
    <3>3. tx[c].own \cup {w} \in SUBSET Writes
      BY <2>2, <3>1
    <3> QED
      BY <3>1, <3>2, <3>3, AppendIsConcat
  <2> QED
    BY <1>b, <2>1, <2>3, <2>5, <2>6, SameFront DEF Abstract!Next, Abstract!Write, block
<1>5. CASE Read(p)
  <2>1. /\ c \in Conns /\ UNCHANGED <<db, outcome, op, ops, rows, conn, pc>> /\ pc[p] = "open"
    BY <1>5, <1>d DEF Read, SqlRead, UsesConn, c
  <2>2. tx'[c].own = tx[c].own /\ tx'[c].saves = tx[c].saves
    <3>1. tx[c].own = {}
      BY <1>5, <2>1 DEF Read, SqlRead, RefinesInv, ConnsClean, CleanTx, c
    <3> QED
      BY <1>5, <2>1, <3>1, OwnTx DEF Read, SqlRead, Transaction, c
  <2>3. Block(p) = Levels(tx[c]) /\ Block(p)' = Levels(tx'[c])
    BY <1>c, <2>1 DEF Inside, c
  <2> QED
    BY <1>f, <2>1, <2>2, <2>3 DEF Levels
<1>6. CASE Nest(p)
  <2>1. /\ c \in Conns /\ UNCHANGED <<db, outcome, op, ops, rows, conn, pc>> /\ pc[p] = "open"
        /\ savepoints'[p] \in Nat
    BY <1>6, <1>d DEF Nest, SqlSavepoint, UsesConn, c, RefinesInv, Typed, TypeOK
  <2> DEFINE e == [name |-> savepoints'[p], own |-> tx[c].own]
  <2>2. tx'[c].own = tx[c].own /\ tx'[c].saves = Append(tx[c].saves, e)
    BY <1>6, <2>1, OwnTx DEF Nest, SqlSavepoint, Transaction, c
  <2>3. /\ Block(p) = Levels(tx[c]) /\ tx[c] \in TxType
        /\ Block(p)' = Levels(tx'[c])
    BY <1>c, <2>1 DEF Inside, c
  <2>4. e \in Save /\ e.own = tx[c].own /\ tx[c].saves \in Seq(Save)
    BY <2>1, <2>3 DEF Save, TxType
  <2> HIDE DEF e
  <2>5. MarksOf(tx'[c].saves) = Append(MarksOf(tx[c].saves), tx[c].own)
    BY <2>2, <2>4, MarksPushed
  <2>6. Block(p)' = Append(Block(p), Last(Block(p)))
    BY <2>2, <2>3, <2>5, LevelsTyped DEF Levels
  <2>7. outcome[p] = "none" /\ Block(p) # <<>>
    BY <1>a, <2>1, <2>3, LevelsTyped DEF Stack
  <2> QED
    BY <1>b, <2>1, <2>6, <2>7, IssuedSame, SameFront
       DEF Abstract!Next, Abstract!Nest, block
<1>7. CASE EndBlock(p)
  <2>1. /\ UNCHANGED <<db, tx, op, ops, rows, conn>> /\ pc[p] = "open" /\ pc'[p] = "finish"
        /\ \E o \in {"success", "failure"} : outcome' = [outcome EXCEPT ![p] = o]
    BY <1>7, <1>a DEF EndBlock
  <2>2. /\ Block(p) = Levels(tx[c]) /\ tx[c] \in TxType
        /\ Block(p)' = Levels(tx[c])
    BY <1>c, <2>1 DEF Inside, c
  <2>3. outcome[p] = "none" /\ Block(p) # <<>>
    BY <1>a, <2>1, <2>2, LevelsTyped DEF Stack
  <2> QED
    BY <1>b, <1>e, <2>1, <2>2, <2>3, IssuedSame DEF Abstract!Next, Abstract!End, block
<1>8. CASE FinishNested(p)
  <2> DEFINE s == tx[c].saves
  <2>1. /\ c \in Conns /\ UNCHANGED <<db, op, ops, rows, conn>>
        /\ pc[p] = "finish" /\ pc'[p] = "open"
        /\ outcome' = [outcome EXCEPT ![p] = "none"]
    BY <1>8, <1>a, <1>d DEF FinishNested, SqlRelease, SqlRollbackToAndRelease, UsesConn, c
  <2>2. /\ Block(p) = Levels(tx[c]) /\ tx[c] \in TxType
        /\ Block(p)' = Levels(tx'[c]) /\ tx'[c] \in TxType
    BY <1>c, <2>1 DEF Inside, c
  <2>3. /\ s \in Seq(Save) /\ tx[c].own \in SUBSET Writes
        /\ blocks[p] = Names(s) /\ Rising(s, savepoints[p])
    BY <1>a, <2>1, <2>2 DEF Stack, TxType, c
  <2>4. PICK i \in DOMAIN s :
          /\ Latest(c, Last(Names(s)), i)
          /\ \/ /\ outcome[p] = "success"
                /\ Become(c, Transaction(tx[c].at, tx[c].base, tx[c].own, SubSeq(s, 1, i - 1)))
             \/ /\ outcome[p] = "failure"
                /\ Become(c, Transaction(tx[c].at, tx[c].base, s[i].own, SubSeq(s, 1, i - 1)))
    BY <1>8, <2>3 DEF FinishNested, SqlRelease, SqlRollbackToAndRelease, c
  <2>5. i = Len(s) /\ s # <<>>
    BY <2>1, <2>3, <2>4, LatestIsLast
  <2>6. PICK r \in Seq(Save), e \in Save :
          s = Append(r, e) /\ SubSeq(s, 1, Len(s) - 1) = r /\ s[Len(s)] = e
    <3> HIDE DEF s
    <3> QED
      BY <2>3, <2>5, SplitLast
  <2>7. /\ MarksOf(s) = Append(MarksOf(r), e.own) /\ e.own \in SUBSET Writes
        /\ MarksOf(r) \in Seq(SUBSET Writes) /\ MarksOf(s) \in Seq(SUBSET Writes)
    BY <2>3, <2>6, MarksPushed, MarksTyped DEF Save
  <2>8. \/ outcome[p] = "success" /\ tx'[c].own = tx[c].own /\ tx'[c].saves = r
        \/ outcome[p] = "failure" /\ tx'[c].own = e.own /\ tx'[c].saves = r
    <3>1. \/ /\ outcome[p] = "success"
             /\ Become(c, Transaction(tx[c].at, tx[c].base, tx[c].own, r))
          \/ /\ outcome[p] = "failure"
             /\ Become(c, Transaction(tx[c].at, tx[c].base, e.own, r))
      BY <2>4, <2>5, <2>6
    <3> QED
      BY <2>1, <3>1, OwnTx, TransactionFields
  <2>9. Front(Block(p)) = MarksOf(s) /\ Last(Block(p)) = tx[c].own
    BY <2>2, LevelsTyped
  <2>10. Front(MarksOf(s)) = MarksOf(r)
    BY <2>7, FrontOfAppend
  <2>11. Len(Block(p)) > 1
    <3>1. Len(Block(p)) = Len(s) + 1 /\ Len(s) \in Nat /\ Len(s) # 0
      BY <2>2, <2>3, <2>5, LevelsTyped, LenProperties, EmptySeq
    <3> QED
      BY <3>1
  <2>12. CASE outcome[p] = "success"
    <3>1. Block(p)' = Append(MarksOf(r), tx[c].own)
      BY <2>2, <2>8, <2>12 DEF Levels
    <3>2. Block(p)' = Front(Front(Block(p))) \o <<Last(Block(p))>>
      <4>1. Append(MarksOf(r), tx[c].own) = MarksOf(r) \o <<tx[c].own>>
        BY <2>3, <2>7, AppendIsConcat
      <4>2. Front(Front(Block(p))) = MarksOf(r)
        BY <2>9, <2>10, Zenon
      <4> QED
        BY <2>9, <3>1, <4>1, <4>2
    <3> QED
      BY <1>b, <2>1, <2>11, <2>12, <3>2, IssuedSame, SameFront
         DEF Abstract!Next, Abstract!EndNested, block
  <2>13. CASE outcome[p] = "failure"
    <3>1. Block(p)' = Append(MarksOf(r), e.own)
      BY <2>2, <2>8, <2>13 DEF Levels
    <3>2. Block(p)' = Front(Block(p))
      BY <2>7, <2>9, <3>1
    <3> QED
      BY <1>b, <2>1, <2>11, <2>13, <3>2, IssuedSame, SameFront
         DEF Abstract!Next, Abstract!EndNested, block
  <2> QED
    BY <2>4, <2>12, <2>13
<1>9. CASE FinishRoot(p)
  <2>1. /\ c \in Conns /\ UNCHANGED <<op, ops, rows, conn>>
        /\ pc[p] = "finish" /\ pc'[p] = "cleanup" /\ ~Inside(p)'
        /\ outcome' = [outcome EXCEPT ![p] = "none"]
    BY <1>9, <1>a, <1>d DEF FinishRoot, UsesConn, Inside, c
  <2>2. Block(p) = Levels(tx[c]) /\ tx[c] \in TxType /\ Block(p)' = <<>>
    BY <1>c, <2>1 DEF Inside
  <2>3. tx[c].saves = <<>>
    BY <1>9, <1>a, <2>1, <2>2, RootHasNoSaves DEF FinishRoot, Stack, TxType, c
  <2>4. Len(Block(p)) = 1 /\ Block(p)[1] = tx[c].own
    BY <2>2, <2>3, LevelsTyped
  <2>5. CASE outcome[p] = "success" /\ SqlCommit(c)
    <3>1. db' = db \cup tx[c].own
      BY <2>1, <2>5, CommitAddsOwn DEF RefinesInv
    <3> QED
      BY <1>b, <2>1, <2>2, <2>4, <2>5, <3>1, IssuedSame
         DEF Abstract!Next, Abstract!Commit, block
  <2>6. CASE SqlRollback(c)
    BY <1>b, <2>1, <2>2, <2>4, <2>6, IssuedSame
       DEF Abstract!Next, Abstract!Abort, SqlRollback, block
  <2> QED
    BY <1>9, <2>5, <2>6 DEF FinishRoot, c
<1>10. CASE CommitRefused(p)
  <2>1. /\ c \in Conns /\ UNCHANGED <<db, op, ops, rows, conn>>
        /\ pc[p] = "finish" /\ ~Inside(p)'
        /\ outcome' = [outcome EXCEPT ![p] = "none"]
    BY <1>10, <1>a, <1>d DEF CommitRefused, UsesConn, Inside, c
  <2>2. Block(p) = Levels(tx[c]) /\ tx[c] \in TxType /\ Block(p)' = <<>>
    BY <1>c, <2>1 DEF Inside
  <2>3. tx[c].saves = <<>>
    BY <1>10, <1>a, <2>1, <2>2, RootHasNoSaves DEF CommitRefused, Stack, TxType, c
  <2> QED
    BY <1>b, <2>1, <2>2, <2>3, LevelsTyped, IssuedSame DEF Abstract!Next, Abstract!Abort, block
<1>11. CASE AutoWrite(p)
  <2> DEFINE w == NextWrite(p)
  <2>1. /\ UNCHANGED <<outcome, op, ops>> /\ pc[p] = "exec" /\ IssueRow(p)
        /\ ~Inside(p) /\ ~Inside(p)' /\ SqlWrite(c, w)
    BY <1>11, <1>a DEF AutoWrite, DoneWriting, Inside, c
  <2>2. w \in Writes /\ w \notin Issued /\ Issued' = Issued \cup {w}
    BY <1>a, <2>1, IssuedNext
  <2> HIDE DEF w
  <2>3. Block(p) = <<>> /\ block' = block
    BY <1>c, <1>e, <2>1
  <2>4. CASE SqlAutoWrite(c, w)
    BY <1>b, <2>1, <2>2, <2>3, <2>4
       DEF SqlAutoWrite, Abstract!Next, Abstract!AutoWrite, block
  <2>5. CASE SqlTxnWrite(c, w)
    <3>1. db' = db /\ Issued \subseteq Issued' /\ Issued' \subseteq Writes
      BY <2>2, <2>5 DEF SqlTxnWrite, Issued
    <3> QED
      BY <2>1, <2>3, <3>1 DEF Abstract!Next, Abstract!Discard, block
  <2> QED
    BY <2>1, <2>4, <2>5 DEF SqlWrite
<1>12. CASE Script(p)
  <2> DEFINE w == NextWrite(p)
  <2>1. /\ UNCHANGED <<outcome, op, ops>> /\ pc[p] = "exec" /\ IssueRow(p)
        /\ ~Inside(p) /\ ~Inside(p)' /\ db' = db \cup View(c) \cup {w}
        /\ op[p].kind = "script" /\ c \in Conns
    BY <1>12, <1>a, <1>d DEF Script, DoneWriting, Inside, UsesConn, c
  <2>2. w \in Writes /\ w \notin Issued /\ Issued' = Issued \cup {w}
    BY <1>a, <2>1, IssuedNext
  <2> HIDE DEF w
  <2>3. "overflow" \notin Faults
    BY <2>1 DEF RefinesInv, ScriptsQuiet, CallsMatch
  <2>4. ~InTransaction(c)
    BY <1>a, <2>1, <2>3, WritersQuiet DEF RefinesInv, ScriptsQuiet, c
  <2>5. View(c) = {}
    <3>1. tx[c].at \in {"closed", "idle", "begun", "reading", "writing"}
      BY <2>1 DEF SqlTypeOK, TxType
    <3> QED
      BY <2>1, <2>4, <3>1 DEF InTransaction, RefinesInv, ConnsClean, CleanTx, View
  <2>6. Block(p) = <<>> /\ block' = block
    BY <1>c, <1>e, <2>1
  <2> QED
    BY <1>b, <2>1, <2>2, <2>5, <2>6 DEF Abstract!Next, Abstract!AutoWrite, block
<1>13. CASE ManyCommit(p) \/ ManyFails(p) \/ ManyOverflows(p)
  <2>1. /\ c \in Conns /\ UNCHANGED <<outcome, op, ops, rows>> /\ pc[p] = "rows" /\ ~Inside(p)'
    BY <1>13, <1>a, <1>d
       DEF ManyCommit, ManyFails, ManyOverflows, DoneWriting, UsesConn, Inside, c
  <2>2. /\ Block(p) = Levels(tx[c]) /\ tx[c] \in TxType /\ Block(p)' = <<>>
        /\ tx[c].saves = <<>> /\ outcome[p] = "none"
    BY <1>a, <1>c, <2>1 DEF Inside, Stack, c
  <2>3. Len(Block(p)) = 1 /\ Block(p)[1] = tx[c].own
    BY <2>2, LevelsTyped
  <2>4. outcome' = [outcome EXCEPT ![p] = "none"]
    BY <1>a, <2>1, <2>2
  <2>5. CASE ManyCommit(p)
    <3>1. db' = db \cup tx[c].own
      BY <2>1, <2>5, CommitAddsOwn DEF RefinesInv, ManyCommit, c
    <3> QED
      BY <1>b, <2>1, <2>2, <2>3, <2>4, <3>1, IssuedSame
         DEF Abstract!Next, Abstract!Commit, block
  <2>6. CASE ManyFails(p) \/ ManyOverflows(p)
    <3>1. db' = db
      BY <2>6 DEF ManyFails, ManyOverflows, SqlRollback
    <3> QED
      BY <1>b, <2>1, <2>2, <2>3, <2>4, <3>1, IssuedSame
         DEF Abstract!Next, Abstract!Abort, block
  <2> QED
    BY <1>13, <2>5, <2>6
<1> QED
  BY <1>1, <1>2, <1>3, <1>4, <1>5, <1>6, <1>7, <1>8, <1>9, <1>10, <1>11, <1>12, <1>13
     DEF Moves, Step

\* Whatever the locks, connections and savepoints do between them, every step
\* is one of whole blocks: a block reaches the database whole or not at all, a
\* nested one that fails takes back its own writes alone, and nothing committed
\* is lost.  An execute_script commits what its connection had open, which is
\* something only where an executemany may leave its transaction behind.
THEOREM BlocksAreImplemented ==
    ASSUME "script" \notin Calls \/ "overflow" \notin Faults
    PROVE  Spec => ImplementsAtomicBlocks
<1>1. Init => RefinesInv
  BY RefinesInit
<1>2. RefinesInv /\ [Next]_vars => RefinesInv'
  BY RefinesNext
<1>3. Init => Abstract!Init
  <2> SUFFICES ASSUME Init PROVE Abstract!Init
    OBVIOUS
  <2>1. Issued = {}
    <3>1. \A w \in Writes : w.op \in Nat /\ w.op > 0 /\ w.by \in Procs
      BY WritesAssumption, BoundsAssumption
    <3> QED
      BY <3>1 DEF Init, Issued
  <2>2. \A p \in Procs : Block(p) = <<>>
    BY DEF Init, Block, Inside
  <2> QED
    BY <2>1, <2>2 DEF Init, SqlInit, Abstract!Init
<1>4. RefinesInv /\ RefinesInv' /\ [Next]_vars => [Abstract!Next]_(Abstract!vars)
  <2> SUFFICES ASSUME RefinesInv, RefinesInv', [Next]_vars
               PROVE  Abstract!Next \/ UNCHANGED Abstract!vars
    OBVIOUS
  <2>1. CASE UNCHANGED vars
    BY <2>1 DEF vars, sqlVars, connVars, blockVars, callVars, Abstract!vars, Issued, Block,
       Inside, InTransaction, Marks
  <2>2. ASSUME NEW p \in Procs, Moves(p) PROVE Abstract!Next \/ UNCHANGED Abstract!vars
    BY <2>2, RefinesStep
  <2> QED
    BY <2>1, <2>2 DEF Next, Moves, Finished
<1> QED
  BY <1>1, <1>2, <1>3, <1>4, PTL DEF Spec, ImplementsAtomicBlocks, Abstract!Spec
=============================================================================
