--------------------------- MODULE CursorsProofs ---------------------------
(***************************************************************************)
(* What a connection sees never shrinks, and hence a thread reads back     *)
(* what it has written, whatever cursors are open.                         *)
(***************************************************************************)
EXTENDS Cursors, TLAPS

\* A call runs where it may; a write is made from some thread, and counted.
CallsPlaced ==
    \A p \in Procs :
        /\ thread[p] # None => thread[p] \in ThreadsOf(p)
        /\ pc[p] \in {"exec", "unlock", "drain"} => thread[p] # None
        /\ pc[p] # "idle" => ops[p] # 0
        /\ pc[p] = "queued" => p \in Tasks

\* A snapshot holds committed writes only.
SnapshotsCommitted == \A t \in Owners : snap[t] \subseteq db

\* Uncommitted writes are those of a RETURNING that is still running.
PendingIsWriting == \A t \in Owners : ~Writing(t) => pending[t] = {}

Inv == TypeOK /\ CallsPlaced /\ SnapshotsCommitted /\ PendingIsWriting

LEMMA ThreadsOfOwners == \A p \in Procs : ThreadsOf(p) \subseteq Owners
BY DEF ThreadsOf, Procs, Owners

-----------------------------------------------------------------------------
(***************************************************************************)
(* The SQLite operators: each keeps the invariant's part about connections *)
(* and takes nothing from what a connection sees.                          *)
(***************************************************************************)
SqlType ==
    /\ db \subseteq Writes
    /\ live \in [Owners -> SUBSET Statement]
    /\ snap \in [Owners -> SUBSET Writes]
    /\ pending \in [Owners -> SUBSET Writes]

SqlInv == SqlType /\ SnapshotsCommitted /\ PendingIsWriting

SqlStep == SqlInv' /\ \A t \in Owners : Visible(t) \subseteq Visible(t)'

LEMMA SqlStutters == SqlInv /\ UNCHANGED sqlVars => SqlStep
BY DEF SqlInv, SqlType, SnapshotsCommitted, PendingIsWriting, SqlStep, Writing, Visible, sqlVars

LEMMA WriteDoneSteps ==
    ASSUME SqlInv, NEW t \in Owners, NEW w \in Writes, CanWrite(t), WriteDone(t, w)
    PROVE  SqlStep /\ w \in Visible(t)'
<1> USE DEF SqlInv, SqlType, SnapshotsCommitted, PendingIsWriting, SqlStep, Writing, Visible
<1>1. CASE Writing(t)
  BY <1>1 DEF WriteDone
<1>2. CASE ~Writing(t)
  <2>1. /\ db' = db \cup {w}
        /\ snap' = [snap EXCEPT ![t] = IF live[t] = {} THEN {} ELSE db']
        /\ UNCHANGED <<live, pending>>
    BY <1>2 DEF WriteDone
  <2>2. live[t] # {} => snap[t] = db
    BY DEF CanWrite
  <2>3. pending[t] = {}
    BY <1>2
  <2> QED
    BY <2>1, <2>2, <2>3
<1> QED
  BY <1>1, <1>2

LEMMA StartReturningSteps ==
    ASSUME SqlInv, NEW t \in Owners, NEW p \in Procs, NEW w \in Writes,
           Start(t, p, "returning"), pending' = [pending EXCEPT ![t] = @ \cup {w}],
           UNCHANGED db
    PROVE  SqlStep /\ w \in Visible(t)'
<1> DEFINE s == [by |-> p, kind |-> "returning", base |-> Visible(t)]
<1>1. Visible(t) \in SUBSET Writes
  BY DEF SqlInv, SqlType, Visible
<1>2. s \in Statement
  BY <1>1 DEF Statement
<1>3. live' = [live EXCEPT ![t] = @ \cup {s}]
  BY DEF Start
<1>4. s \in live'[t] /\ s.kind = "returning" /\ live'[t] = live[t] \cup {s}
  BY <1>3 DEF SqlInv, SqlType
<1>5. \A u \in Owners \ {t} :
        live'[u] = live[u] /\ snap'[u] = snap[u] /\ pending'[u] = pending[u]
  BY <1>3 DEF SqlInv, SqlType, Start
<1>6. /\ snap'[t] = IF live[t] = {} THEN db ELSE snap[t]
      /\ pending'[t] = pending[t] \cup {w}
  BY DEF SqlInv, SqlType, Start
<1>7. SqlType'
  BY <1>2, <1>3 DEF SqlInv, SqlType, Start
<1>8. SnapshotsCommitted' /\ PendingIsWriting'
  BY <1>4, <1>5, <1>6 DEF SqlInv, SnapshotsCommitted, PendingIsWriting, Writing
<1>9. \A u \in Owners : Visible(u) \subseteq Visible(u)'
  BY <1>4, <1>5, <1>6 DEF Visible
<1> QED
  BY <1>4, <1>6, <1>7, <1>8, <1>9 DEF SqlStep, SqlInv, Visible

LEMMA StartStreamSteps ==
    ASSUME SqlInv, NEW t \in Owners, NEW p \in Procs,
           Start(t, p, "stream"), UNCHANGED <<db, pending>>
    PROVE  SqlStep
<1> DEFINE s == [by |-> p, kind |-> "stream", base |-> Visible(t)]
<1>1. Visible(t) \in SUBSET Writes
  BY DEF SqlInv, SqlType, Visible
<1>2. s \in Statement
  BY <1>1 DEF Statement
<1>3. live' = [live EXCEPT ![t] = @ \cup {s}]
  BY DEF Start
<1>4. live'[t] # {} /\ live'[t] = live[t] \cup {s}
  BY <1>3 DEF SqlInv, SqlType
<1>5. \A u \in Owners \ {t} : live'[u] = live[u] /\ snap'[u] = snap[u]
  BY <1>3 DEF SqlInv, SqlType, Start
<1>6. snap'[t] = IF live[t] = {} THEN db ELSE snap[t]
  BY DEF SqlInv, SqlType, Start
<1>7. SqlType'
  BY <1>2, <1>3 DEF SqlInv, SqlType, Start
<1>8. SnapshotsCommitted' /\ PendingIsWriting'
  BY <1>4, <1>5, <1>6 DEF SqlInv, SnapshotsCommitted, PendingIsWriting, Writing
<1>9. \A u \in Owners : Visible(u) \subseteq Visible(u)'
  BY <1>4, <1>5, <1>6 DEF Visible
<1> QED
  BY <1>7, <1>8, <1>9 DEF SqlStep, SqlInv

LEMMA FinishSteps ==
    ASSUME SqlInv, NEW t \in Owners, NEW p, NEW k, Finish(t, p, k)
    PROVE  SqlStep
<1> DEFINE rest == {s \in live[t] : s.by # p \/ s.kind # k}
           commits == \A s \in rest : s.kind # "returning"
           now == IF commits THEN db \cup pending[t] ELSE db
<1>1. /\ live' = [live EXCEPT ![t] = rest]
      /\ db' = now
      /\ pending' = [pending EXCEPT ![t] = IF commits THEN {} ELSE @]
      /\ snap' = [snap EXCEPT ![t] =
                    IF rest = {} THEN {} ELSE IF Writing(t) /\ commits THEN now ELSE @]
  BY DEF Finish
<1>2. rest \subseteq live[t]
  OBVIOUS
<1> HIDE DEF rest
<1>3. \A u \in Owners \ {t} :
        live'[u] = live[u] /\ snap'[u] = snap[u] /\ pending'[u] = pending[u]
  BY <1>1 DEF SqlInv, SqlType
<1>4. /\ live'[t] = rest
      /\ pending'[t] = IF commits THEN {} ELSE pending[t]
      /\ snap'[t] = IF rest = {} THEN {} ELSE IF Writing(t) /\ commits THEN now ELSE snap[t]
  BY <1>1 DEF SqlInv, SqlType
<1>5. db \subseteq db' /\ (commits => pending[t] \subseteq db') /\ now \subseteq Writes
  BY <1>1 DEF SqlInv, SqlType
<1>6. SqlType'
  <2>1. rest \in SUBSET Statement
    BY <1>2 DEF SqlInv, SqlType
  <2> QED
    BY <1>1, <1>5, <2>1 DEF SqlInv, SqlType
<1>7. SnapshotsCommitted'
  BY <1>1, <1>3, <1>4, <1>5 DEF SqlInv, SnapshotsCommitted
<1>8. PendingIsWriting'
  BY <1>3, <1>4 DEF SqlInv, PendingIsWriting, Writing
<1>9. \A u \in Owners : Visible(u) \subseteq Visible(u)'
  <2>1. ASSUME NEW u \in Owners \ {t} PROVE Visible(u) \subseteq Visible(u)'
    BY <1>3, <1>5 DEF Visible
  <2>2. Visible(t) \subseteq Visible(t)'
    <3>1. CASE live[t] = {}
      BY <1>2, <1>4, <1>5, <3>1 DEF Visible
    <3>2. CASE live[t] # {}
      <4>1. ~Writing(t) => pending[t] = {}
        BY DEF SqlInv, PendingIsWriting
      <4>2. snap[t] \subseteq db
        BY DEF SqlInv, SnapshotsCommitted
      <4>3. ~commits => rest # {}
        OBVIOUS
      <4>4. CASE rest = {}
        BY <1>4, <1>5, <3>2, <4>2, <4>3, <4>4 DEF Visible
      <4>5. CASE rest # {} /\ Writing(t) /\ commits
        BY <1>1, <1>4, <1>5, <3>2, <4>2, <4>5 DEF Visible
      <4>6. CASE rest # {} /\ ~commits
        BY <1>4, <3>2, <4>6 DEF Visible
      <4>7. CASE rest # {} /\ ~Writing(t)
        BY <1>4, <3>2, <4>1, <4>7 DEF Visible
      <4> QED
        BY <4>4, <4>5, <4>6, <4>7
    <3> QED
      BY <3>1, <3>2
  <2> QED
    BY <2>1, <2>2
<1> QED
  BY <1>6, <1>7, <1>8, <1>9 DEF SqlStep, SqlInv

-----------------------------------------------------------------------------
(***************************************************************************)
(* The specification.                                                      *)
(***************************************************************************)
ReadBack == Inv /\ ThreadsReadOwnWrites

LEMMA ReadBackInit == Init => ReadBack
BY ProcsAssumption, BoundsAssumption
   DEF Init, ReadBack, Inv, TypeOK, CallsPlaced, SnapshotsCommitted, PendingIsWriting,
       ThreadsReadOwnWrites, Procs, Owners

\* The variables of the library, whose types do not depend on SQLite's.
CallType ==
    /\ writeLock \in Procs \cup {None}
    /\ gate \in Tasks \cup {None}
    /\ pc \in [Procs -> {"idle", "queued", "want", "exec", "unlock", "drain", "ungate"}]
    /\ kind \in [Procs -> {"write", "returning"}]
    /\ thread \in [Procs -> Owners \cup {None}]
    /\ ops \in [Procs -> 0 .. MaxOps]
    /\ acked \in [Procs -> SUBSET Writes]

LEMMA Parts == Inv <=> SqlInv /\ CallType /\ CallsPlaced
BY DEF Inv, TypeOK, SqlInv, SqlType, CallType

\* A step that acknowledges nothing keeps everything if it keeps SQLite's part
\* and the calls' own.
LEMMA NothingAcked ==
    ASSUME ReadBack, SqlStep, CallType', CallsPlaced', acked' = acked
    PROVE  ReadBack'
<1>1. Inv'
  BY DEF Inv, TypeOK, SqlStep, SqlInv, SqlType, CallType
<1>2. ThreadsReadOwnWrites'
  BY DEF ReadBack, ThreadsReadOwnWrites, SqlStep, Owners
<1> QED
  BY <1>1, <1>2 DEF ReadBack

LEMMA ExecuteSteps ==
    ASSUME ReadBack, NEW p \in Procs, Execute(p)
    PROVE  ReadBack'
<1>1. Inv /\ SqlInv /\ CallType /\ CallsPlaced
  BY Parts DEF ReadBack
<1>2. pc[p] = "exec"
  BY DEF Execute
<1>3. PICK t \in Owners : t = thread[p] /\ t \in ThreadsOf(p)
  BY <1>1, <1>2, ThreadsOfOwners DEF CallsPlaced
<1>4. PICK w \in Writes : w = [by |-> p, n |-> ops[p]]
  <2>1. ops[p] \in 1 .. MaxOps
    BY <1>1, <1>2, BoundsAssumption DEF CallType, CallsPlaced
  <2> QED
    BY <2>1 DEF Writes
<1>5. CanWrite(t) /\ acked' = [acked EXCEPT ![p] = @ \cup {w}]
  BY <1>3, <1>4 DEF Execute
<1>6. pc' = [pc EXCEPT ![p] = "unlock"] /\ UNCHANGED <<writeLock, gate, kind, thread, ops>>
  BY DEF Execute, Goto
<1>7. \/ WriteDone(t, w)
      \/ /\ Start(t, p, "returning")
         /\ pending' = [pending EXCEPT ![t] = @ \cup {w}]
         /\ UNCHANGED db
  BY <1>3, <1>4 DEF Execute
<1>8. SqlStep /\ w \in Visible(t)'
  BY <1>1, <1>5, <1>7, WriteDoneSteps, StartReturningSteps
<1>9. CallType' /\ CallsPlaced'
  BY <1>1, <1>2, <1>3, <1>5, <1>6 DEF CallType, CallsPlaced, ThreadsOf, Procs
<1>10. Inv'
  BY <1>8, <1>9 DEF Inv, TypeOK, SqlStep, SqlInv, SqlType, CallType
<1>11. ASSUME NEW q \in Threads PROVE acked'[q] \subseteq Visible(q)'
  <2>1. acked[q] \subseteq Visible(q)'
    BY <1>8, <1>11 DEF ReadBack, ThreadsReadOwnWrites, SqlStep, Owners
  <2>2. CASE q = p
    <3>1. t = q
      BY <1>3, <1>11, <2>2, ProcsAssumption DEF ThreadsOf
    <3>2. w \in Visible(q)'
      BY <1>8, <3>1
    <3>3. acked'[q] = acked[q] \cup {w}
      BY <1>1, <1>5, <2>2 DEF CallType
    <3> QED
      BY <2>1, <3>2, <3>3
  <2>3. CASE q # p
    <3>1. acked'[q] = acked[q]
      BY <1>1, <1>5, <1>11, <2>3 DEF CallType, Procs
    <3> QED
      BY <2>1, <3>1
  <2> QED
    BY <2>2, <2>3
<1> QED
  BY <1>10, <1>11 DEF ReadBack, ThreadsReadOwnWrites

\* The steps that acknowledge nothing.
LEMMA OtherSteps ==
    ASSUME ReadBack, NEW p \in Procs,
           \/ \E k \in Kinds \ {"stream"} : Request(p, k)
           \/ EnterGate(p) \/ Lock(p) \/ ExecuteFails(p)
           \/ Unlock(p) \/ Drain(p) \/ Ungate(p)
           \/ OpenStream(p) \/ CloseStream(p) \/ Fetch(p)
    PROVE  ReadBack'
<1>1. SqlInv /\ CallType /\ CallsPlaced
  BY Parts DEF ReadBack
<1> USE DEF CallType, CallsPlaced
<1>2. ASSUME NEW k \in Kinds \ {"stream"}, Request(p, k) PROVE ReadBack'
  <2>1. SqlStep /\ acked' = acked
    BY <1>1, <1>2, SqlStutters DEF Request
  <2>2. CallType' /\ CallsPlaced'
    BY <1>1, <1>2, KindsAssumption, BoundsAssumption DEF Request, Goto, ThreadsOf
  <2> QED
    BY <2>1, <2>2, NothingAcked
<1>3. CASE EnterGate(p)
  <2>1. SqlStep /\ acked' = acked
    BY <1>1, <1>3, SqlStutters DEF EnterGate
  <2>2. p \in Tasks
    BY <1>1, <1>3 DEF EnterGate, CallsPlaced
  <2>3. CallType' /\ CallsPlaced'
    BY <1>1, <1>3, <2>2 DEF EnterGate, Goto, ThreadsOf
  <2> QED
    BY <2>1, <2>3, NothingAcked
<1>4. CASE Lock(p)
  <2>1. SqlStep /\ acked' = acked
    BY <1>1, <1>4, SqlStutters DEF Lock
  <2>2. PICK t \in ThreadsOf(p) : thread' = [thread EXCEPT ![p] = t]
    BY <1>4 DEF Lock
  <2>3. t \in Owners /\ t # None
    BY <2>2, ThreadsOfOwners, ProcsAssumption DEF Owners, Procs
  <2>4. CallType' /\ CallsPlaced'
    BY <1>1, <1>4, <2>2, <2>3 DEF Lock, Goto, ThreadsOf
  <2> QED
    BY <2>1, <2>4, NothingAcked
<1>5. CASE ExecuteFails(p)
  <2>1. SqlStep /\ acked' = acked
    BY <1>1, <1>5, SqlStutters DEF ExecuteFails
  <2>2. CallType' /\ CallsPlaced'
    BY <1>1, <1>5 DEF ExecuteFails, Goto, ThreadsOf
  <2> QED
    BY <2>1, <2>2, NothingAcked
<1>6. CASE Unlock(p)
  <2>1. SqlStep /\ acked' = acked
    BY <1>1, <1>6, SqlStutters DEF Unlock
  <2>2. CallType' /\ CallsPlaced'
    BY <1>1, <1>6 DEF Unlock, Goto, ThreadsOf
  <2> QED
    BY <2>1, <2>2, NothingAcked
<1>7. CASE Drain(p)
  <2>1. SqlStep
    <3>1. CASE Finish(thread[p], p, "returning")
      <4>1. thread[p] \in Owners
        BY <1>1, <1>7, ThreadsOfOwners DEF Drain
      <4> QED
        BY <1>1, <3>1, <4>1, FinishSteps
    <3>2. CASE UNCHANGED sqlVars
      BY <1>1, <3>2, SqlStutters
    <3> QED
      BY <1>7, <3>1, <3>2 DEF Drain
  <2>2. acked' = acked
    BY <1>7 DEF Drain
  <2>3. CallType' /\ CallsPlaced'
    BY <1>1, <1>7 DEF Drain, Goto, ThreadsOf
  <2> QED
    BY <2>1, <2>2, <2>3, NothingAcked
<1>8. CASE Ungate(p)
  <2>1. SqlStep /\ acked' = acked
    BY <1>1, <1>8, SqlStutters DEF Ungate
  <2>2. CallType' /\ CallsPlaced'
    BY <1>1, <1>8 DEF Ungate, Goto, ThreadsOf
  <2> QED
    BY <2>1, <2>2, NothingAcked
<1>9. CASE OpenStream(p) \/ CloseStream(p) \/ Fetch(p)
  <2>1. SqlStep
    <3>1. CASE OpenStream(p)
      BY <1>1, <3>1, StartStreamSteps, ThreadsOfOwners DEF OpenStream
    <3>2. CASE CloseStream(p)
      BY <1>1, <3>2, FinishSteps DEF CloseStream
    <3>3. CASE Fetch(p)
      BY <1>1, <3>3, FinishSteps DEF Fetch
    <3> QED
      BY <1>9, <3>1, <3>2, <3>3
  <2>2. acked' = acked /\ CallType' /\ CallsPlaced'
    BY <1>1, <1>9 DEF OpenStream, CloseStream, Fetch, appUnchanged, ThreadsOf
  <2> QED
    BY <2>1, <2>2, NothingAcked
<1> QED
  BY <1>2, <1>3, <1>4, <1>5, <1>6, <1>7, <1>8, <1>9

LEMMA ReadBackNext == ReadBack /\ [Next]_vars => ReadBack'
<1> SUFFICES ASSUME ReadBack, [Next]_vars PROVE ReadBack'
  OBVIOUS
<1>1. CASE UNCHANGED vars
  <2>1. SqlStep /\ acked' = acked
    BY <1>1, Parts, SqlStutters DEF vars, ReadBack
  <2>2. CallType' /\ CallsPlaced'
    BY <1>1, Parts DEF vars, ReadBack, CallType, CallsPlaced, ThreadsOf
  <2> QED
    BY <2>1, <2>2, NothingAcked
<1>2. CASE Finished
  BY <1>1, <1>2 DEF Finished
<1>3. CASE \E p \in Procs : Execute(p)
  BY <1>3, ExecuteSteps
<1>4. CASE \E p \in Procs :
             \/ \E k \in Kinds \ {"stream"} : Request(p, k)
             \/ EnterGate(p) \/ Lock(p) \/ ExecuteFails(p)
             \/ Unlock(p) \/ Drain(p) \/ Ungate(p)
             \/ OpenStream(p) \/ CloseStream(p) \/ Fetch(p)
  BY <1>4, OtherSteps
<1> QED
  BY <1>1, <1>2, <1>3, <1>4 DEF Next

\* What a thread has written, as far as its calls returned, is what it reads
\* back, whatever cursors anybody has open: connections are per thread, and
\* what a connection sees never shrinks.
THEOREM ReadYourWrites == Spec => []ThreadsReadOwnWrites
<1>1. ReadBack => ThreadsReadOwnWrites
  BY DEF ReadBack
<1> QED
  BY <1>1, ReadBackInit, ReadBackNext, PTL DEF Spec

-----------------------------------------------------------------------------
(***************************************************************************)
(* Without threads and streams the gate is enough: a RETURNING runs only   *)
(* while its task holds the gate, and whoever is about to write holds it.  *)
(***************************************************************************)
GateHeld == \A p \in Tasks : pc[p] \notin {"idle", "queued"} => gate = p

RowsBehindGate ==
    \A t \in Owners : \A s \in live[t] :
        /\ s.by \in Tasks /\ s.kind = "returning"
        /\ pc[s.by] \in {"unlock", "drain"}
        /\ thread[s.by] = t

Gated == ReadBack /\ GateHeld /\ RowsBehindGate

TasksOnly == Threads = {} /\ "stream" \notin Kinds

LEMMA GatedWritersFree == TasksOnly /\ Gated => WritersNeverContend
<1> SUFFICES ASSUME TasksOnly, Gated, NEW p \in Procs, pc[p] = "exec"
             PROVE  CanWrite(thread[p])
  BY DEF WritersNeverContend
<1>1. p \in Tasks /\ gate = p
  BY DEF TasksOnly, Gated, GateHeld, Procs
<1>2. \A t \in Owners : live[t] = {}
  BY <1>1 DEF Gated, GateHeld, RowsBehindGate
<1>3. thread[p] \in Owners
  BY ThreadsOfOwners DEF Gated, ReadBack, Inv, CallsPlaced
<1> QED
  BY <1>2, <1>3 DEF CanWrite, Writing

LEMMA GatedInit == Init => Gated
BY ReadBackInit DEF Init, Gated, GateHeld, RowsBehindGate, Procs

\* Nothing of a task changes that stands behind the gate.
LEMMA CallsUnchanged ==
    ASSUME Gated, UNCHANGED <<gate, pc, thread>>,
           \A t \in Owners : live'[t] \subseteq live[t]
    PROVE  GateHeld' /\ RowsBehindGate'
BY DEF Gated, GateHeld, RowsBehindGate

LEMMA GatedSteps ==
    ASSUME TasksOnly, Gated, NEW p \in Procs,
           \/ \E k \in Kinds \ {"stream"} : Request(p, k)
           \/ EnterGate(p) \/ Lock(p) \/ Execute(p) \/ ExecuteFails(p)
           \/ Unlock(p) \/ Drain(p) \/ Ungate(p)
           \/ OpenStream(p) \/ CloseStream(p) \/ Fetch(p)
    PROVE  GateHeld' /\ RowsBehindGate'
<1>1. SqlInv /\ CallType /\ CallsPlaced /\ GateHeld /\ RowsBehindGate
  BY Parts DEF Gated, ReadBack
<1>2. p \in Tasks /\ Tasks = Procs
  BY DEF TasksOnly, Procs
<1>3. \A t \in Owners : \A s \in live[t] : s.by = p => pc[p] \in {"unlock", "drain"}
  BY <1>1 DEF RowsBehindGate
<1> USE <1>1, <1>2 DEF CallType, GateHeld, RowsBehindGate
<1>4. ASSUME NEW k \in Kinds \ {"stream"}, Request(p, k) PROVE GateHeld' /\ RowsBehindGate'
  BY <1>3, <1>4 DEF Request, Goto, sqlVars
<1>5. CASE EnterGate(p)
  BY <1>3, <1>5, ProcsAssumption DEF EnterGate, Goto, sqlVars, Procs
<1>6. CASE Lock(p)
  BY <1>3, <1>6 DEF Lock, Goto, sqlVars
<1>7. CASE Execute(p)
  <2>1. GateHeld'
    BY <1>7 DEF Execute, Goto
  <2>2. PICK t \in Owners : t = thread[p]
    BY <1>7, ThreadsOfOwners DEF Execute, CallsPlaced
  <2>3. pc' = [pc EXCEPT ![p] = "unlock"] /\ thread' = thread /\ pc[p] = "exec"
    BY <1>7 DEF Execute, Goto
  <2>4. \/ live' = live
        \/ live' = [live EXCEPT ![t] =
                      @ \cup {[by |-> p, kind |-> "returning", base |-> Visible(t)]}]
    BY <1>7, <2>2, <1>3 DEF Execute, WriteDone, Start, Writing
  <2>5. RowsBehindGate'
    BY <1>3, <2>2, <2>3, <2>4 DEF SqlInv, SqlType
  <2> QED
    BY <2>1, <2>5
<1>8. CASE ExecuteFails(p)
  BY <1>3, <1>8 DEF ExecuteFails, Goto, sqlVars
<1>9. CASE Unlock(p)
  BY <1>3, <1>9, ProcsAssumption DEF Unlock, Goto, sqlVars, TasksOnly
<1>10. CASE Drain(p)
  <2>1. GateHeld'
    BY <1>10 DEF Drain, Goto
  <2>2. thread[p] \in Owners
    BY <1>10, ThreadsOfOwners DEF Drain, CallsPlaced
  <2>3. /\ \A t \in Owners : live'[t] \subseteq live[t]
        /\ \A t \in Owners : \A s \in live'[t] : s.by # p
    <3>1. CASE Finish(thread[p], p, "returning")
      BY <2>2, <3>1 DEF Finish, SqlInv, SqlType
    <3>2. CASE ~Running(p, "returning", thread[p]) /\ UNCHANGED sqlVars
      BY <3>2 DEF Running, sqlVars
    <3> QED
      BY <1>10, <3>1, <3>2 DEF Drain
  <2>4. RowsBehindGate'
    BY <1>10, <2>3 DEF Drain, Goto
  <2> QED
    BY <2>1, <2>4
<1>11. CASE Ungate(p)
  BY <1>3, <1>11, ProcsAssumption DEF Ungate, Goto, sqlVars, Procs
<1>12. CASE OpenStream(p)
  BY <1>12 DEF OpenStream, TasksOnly
<1>13. CASE CloseStream(p) \/ Fetch(p)
  <2>1. \A t \in Owners : live'[t] \subseteq live[t]
    BY <1>13 DEF CloseStream, Fetch, Finish, SqlInv, SqlType
  <2> QED
    BY <1>13, <2>1, CallsUnchanged DEF CloseStream, Fetch, appUnchanged
<1> QED
  BY <1>4, <1>5, <1>6, <1>7, <1>8, <1>9, <1>10, <1>11, <1>12, <1>13

LEMMA GatedNext == TasksOnly /\ Gated /\ [Next]_vars => Gated'
<1> SUFFICES ASSUME TasksOnly, Gated, [Next]_vars PROVE Gated'
  OBVIOUS
<1>1. ReadBack'
  BY ReadBackNext DEF Gated
<1>2. CASE UNCHANGED vars
  BY <1>1, <1>2, CallsUnchanged DEF Gated, vars, sqlVars
<1>3. CASE Next
  BY <1>1, <1>2, <1>3, GatedSteps DEF Next, Finished, Gated
<1> QED
  BY <1>2, <1>3

\* Tasks that write, RETURNING included, never find SQLite's lock held by one
\* another as long as no thread writes and no stream is open: aexecute fetches
\* the rows before it opens the gate.
THEOREM TasksNeverContend == TasksOnly => (Spec => []WritersNeverContend)
<1> SUFFICES ASSUME TasksOnly PROVE Spec => []WritersNeverContend
  OBVIOUS
<1>1. Init => Gated
  BY GatedInit
<1>2. Gated /\ [Next]_vars => Gated'
  BY GatedNext
<1>3. Gated => WritersNeverContend
  BY GatedWritersFree
<1> QED
  BY <1>1, <1>2, <1>3, PTL DEF Spec

-----------------------------------------------------------------------------
(***************************************************************************)
(* Streams.  While a RETURNING runs nobody commits, so its connection is   *)
(* up to date; a connection with a running statement then sees more only   *)
(* by writing itself, and a thread's connection is written by that thread. *)
(***************************************************************************)
OneWriting == \A t, u \in Owners : Writing(t) /\ Writing(u) => t = u

WritersCurrent == \A t \in Owners : Writing(t) => snap[t] = db

Current == OneWriting /\ WritersCurrent

\* At most w is new in what a running statement's connection t sees.
SeesAtMost(t, w) ==
    \A u \in Owners : live'[u] # {} /\ live[u] # {} =>
        Visible(u)' \subseteq Visible(u) \cup (IF u = t THEN w ELSE {})

LEMMA WriteDoneStreams ==
    ASSUME SqlInv, Current, NEW t \in Owners, NEW w, CanWrite(t), WriteDone(t, w)
    PROVE  Current' /\ live' = live /\ SeesAtMost(t, {w})
<1> USE DEF SqlInv, SqlType, Current, OneWriting, WritersCurrent, Writing, SeesAtMost, Visible
<1>1. CASE Writing(t)
  BY <1>1 DEF WriteDone
<1>2. CASE ~Writing(t)
  <2>1. /\ db' = db \cup {w}
        /\ snap' = [snap EXCEPT ![t] = IF live[t] = {} THEN {} ELSE db']
        /\ UNCHANGED <<live, pending>>
    BY <1>2 DEF WriteDone
  <2>2. live[t] # {} => snap[t] = db
    BY DEF CanWrite
  <2>3. \A u \in Owners : ~Writing(u)
    BY <1>2 DEF CanWrite
  <2> QED
    BY <2>1, <2>2, <2>3
<1> QED
  BY <1>1, <1>2

LEMMA StartReturningStreams ==
    ASSUME SqlInv, Current, NEW t \in Owners, NEW p, NEW w, CanWrite(t),
           Start(t, p, "returning"), pending' = [pending EXCEPT ![t] = @ \cup {w}],
           UNCHANGED db
    PROVE  /\ Current' /\ SeesAtMost(t, {w})
           /\ \A u \in Owners : \A s \in live'[u] : s \in live[u] \/ s.kind = "returning"
<1> DEFINE s == [by |-> p, kind |-> "returning", base |-> Visible(t)]
<1>1. /\ live' = [live EXCEPT ![t] = @ \cup {s}]
      /\ s.kind = "returning"
  BY DEF Start
<1> HIDE DEF s
<1>2. /\ live'[t] = live[t] \cup {s}
      /\ snap'[t] = IF live[t] = {} THEN db ELSE snap[t]
      /\ pending'[t] = pending[t] \cup {w}
  BY <1>1 DEF SqlInv, SqlType, Start
<1>3. \A u \in Owners \ {t} :
        live'[u] = live[u] /\ snap'[u] = snap[u] /\ pending'[u] = pending[u]
  BY <1>1 DEF SqlInv, SqlType, Start
<1>4. snap'[t] = db /\ \A u \in Owners \ {t} : ~Writing(u)
  BY <1>2 DEF CanWrite
<1>5. Current'
  BY <1>3, <1>4 DEF Current, OneWriting, WritersCurrent, Writing
<1>6. SeesAtMost(t, {w})
  BY <1>2, <1>3 DEF SeesAtMost, Visible
<1>7. \A u \in Owners : \A r \in live'[u] : r \in live[u] \/ r.kind = "returning"
  BY <1>1, <1>2, <1>3
<1> QED
  BY <1>5, <1>6, <1>7

LEMMA StartStreamStreams ==
    ASSUME SqlInv, Current, NEW t \in Owners, NEW p,
           Start(t, p, "stream"), UNCHANGED <<db, pending>>
    PROVE  /\ Current' /\ \A u \in Owners : Visible(u)' = Visible(u)
           /\ \A u \in Owners : \A s \in live'[u] : s \in live[u] \/ s.base = Visible(u)
<1> DEFINE s == [by |-> p, kind |-> "stream", base |-> Visible(t)]
<1>1. /\ live' = [live EXCEPT ![t] = @ \cup {s}]
      /\ s.kind = "stream" /\ s.base = Visible(t)
  BY DEF Start
<1> HIDE DEF s
<1>2. /\ live'[t] = live[t] \cup {s} /\ live'[t] # {}
      /\ snap'[t] = IF live[t] = {} THEN db ELSE snap[t]
      /\ pending' = pending
  BY <1>1 DEF SqlInv, SqlType, Start
<1>3. \A u \in Owners \ {t} : live'[u] = live[u] /\ snap'[u] = snap[u]
  BY <1>1 DEF SqlInv, SqlType, Start
<1>4. \A u \in Owners : Writing(u)' <=> Writing(u)
  BY <1>1, <1>2, <1>3 DEF Writing
<1>5. Writing(t) => live[t] # {}
  BY DEF Writing
<1>6. Current'
  BY <1>2, <1>3, <1>4, <1>5 DEF Current, OneWriting, WritersCurrent
<1>7. live[t] = {} => pending[t] = {}
  BY DEF SqlInv, PendingIsWriting, Writing
<1>8. \A u \in Owners : Visible(u)' = Visible(u)
  BY <1>2, <1>3, <1>7 DEF Visible
<1> QED
  BY <1>1, <1>2, <1>3, <1>6, <1>8

LEMMA FinishStreams ==
    ASSUME SqlInv, Current, NEW t \in Owners, NEW p, NEW k, Finish(t, p, k)
    PROVE  /\ Current' /\ SeesAtMost(t, {})
           /\ \A u \in Owners : live'[u] \subseteq live[u]
<1> DEFINE rest == {s \in live[t] : s.by # p \/ s.kind # k}
           commits == \A s \in rest : s.kind # "returning"
           now == IF commits THEN db \cup pending[t] ELSE db
<1>1. /\ live' = [live EXCEPT ![t] = rest]
      /\ db' = now
      /\ pending' = [pending EXCEPT ![t] = IF commits THEN {} ELSE @]
      /\ snap' = [snap EXCEPT ![t] =
                    IF rest = {} THEN {} ELSE IF Writing(t) /\ commits THEN now ELSE @]
  BY DEF Finish
<1>2. rest \subseteq live[t]
  OBVIOUS
<1> HIDE DEF rest
<1>3. \A u \in Owners \ {t} :
        live'[u] = live[u] /\ snap'[u] = snap[u] /\ pending'[u] = pending[u]
  BY <1>1 DEF SqlInv, SqlType
<1>4. /\ live'[t] = rest
      /\ pending'[t] = IF commits THEN {} ELSE pending[t]
      /\ snap'[t] = IF rest = {} THEN {} ELSE IF Writing(t) /\ commits THEN now ELSE snap[t]
  BY <1>1 DEF SqlInv, SqlType
<1>5. ~Writing(t) => commits /\ pending[t] = {} /\ db' = db
  BY <1>1, <1>2 DEF SqlInv, PendingIsWriting, Writing
<1>6. Writing(t)' <=> ~commits
  BY <1>4 DEF Writing
<1>7. \A u \in Owners \ {t} : Writing(u)' <=> Writing(u)
  BY <1>3 DEF Writing
<1>8. ~commits => Writing(t) /\ rest # {} /\ db' = db
  BY <1>1, <1>5
<1>9. OneWriting'
  BY <1>6, <1>7, <1>8 DEF Current, OneWriting
<1>10. WritersCurrent'
  <2> SUFFICES ASSUME NEW u \in Owners, Writing(u)' PROVE snap'[u] = db'
    BY DEF WritersCurrent
  <2>1. CASE u = t
    BY <1>4, <1>6, <1>8, <2>1 DEF Current, WritersCurrent
  <2>2. CASE u # t
    <3>1. Writing(u) /\ ~Writing(t)
      BY <1>7, <2>2 DEF Current, OneWriting
    <3> QED
      BY <1>3, <1>5, <2>2, <3>1 DEF Current, WritersCurrent
  <2> QED
    BY <2>1, <2>2
<1>11. ASSUME NEW u \in Owners, live'[u] # {} PROVE Visible(u)' \subseteq Visible(u)
  <2>1. CASE u # t
    BY <1>3, <1>11, <2>1 DEF Visible
  <2>2. CASE u = t
    <3>1. rest # {} /\ live[t] # {}
      BY <1>2, <1>4, <1>11, <2>2
    <3>2. CASE Writing(t) /\ commits
      BY <1>1, <1>4, <2>2, <3>1, <3>2 DEF Visible, Current, WritersCurrent
    <3>3. CASE ~commits
      BY <1>4, <2>2, <3>1, <3>3 DEF Visible
    <3>4. CASE ~Writing(t)
      BY <1>4, <1>5, <2>2, <3>1, <3>4 DEF Visible
    <3> QED
      BY <3>2, <3>3, <3>4
  <2> QED
    BY <2>1, <2>2
<1>12. \A u \in Owners : live'[u] \subseteq live[u]
  BY <1>2, <1>3, <1>4
<1> QED
  BY <1>9, <1>10, <1>11, <1>12 DEF Current, SeesAtMost

LEMMA StreamsFrame ==
    ASSUME StreamsSeeOneState,
           \A p \in Threads : \A s \in live'[p] : s.kind = "stream" =>
               \/ s \in live[p] /\ \A w \in Visible(p)' \ Visible(p) : w.by = p
               \/ Visible(p)' \subseteq s.base
    PROVE  StreamsSeeOneState'
BY DEF StreamsSeeOneState

StreamInv == ReadBack /\ Current /\ StreamsSeeOneState

LEMMA StreamsInit == Init => StreamInv
BY ReadBackInit DEF Init, StreamInv, Current, OneWriting, WritersCurrent, Writing,
   StreamsSeeOneState, Owners

LEMMA StreamsNext == StreamInv /\ [Next]_vars => StreamInv'
<1> SUFFICES ASSUME StreamInv, [Next]_vars PROVE StreamInv'
  OBVIOUS
<1>1. ReadBack' /\ SqlInv /\ Current /\ CallsPlaced /\ CallType /\ StreamsSeeOneState
  BY ReadBackNext, Parts DEF StreamInv, ReadBack
<1>2. Threads \subseteq Owners
  BY DEF Owners
<1>3. ASSUME UNCHANGED sqlVars PROVE StreamInv'
  BY <1>1, <1>3
     DEF StreamInv, Current, OneWriting, WritersCurrent, Writing, StreamsSeeOneState,
         Visible, sqlVars
<1>4. ASSUME NEW p \in Procs, Execute(p) PROVE StreamInv'
  <2>1. PICK t \in Owners : t = thread[p] /\ t \in ThreadsOf(p)
    BY <1>1, <1>4, ThreadsOfOwners DEF CallsPlaced, Execute
  <2> DEFINE w == [by |-> p, n |-> ops[p]]
  <2>2. /\ CanWrite(t) /\ w.by = p
        /\ \/ WriteDone(t, w)
           \/ /\ Start(t, p, "returning")
              /\ pending' = [pending EXCEPT ![t] = @ \cup {w}]
              /\ UNCHANGED db
    BY <1>4, <2>1 DEF Execute
  <2> HIDE DEF w
  <2>3. /\ Current' /\ SeesAtMost(t, {w})
        /\ \A u \in Owners : \A s \in live'[u] : s \in live[u] \/ s.kind = "returning"
    BY <1>1, <2>2, WriteDoneStreams, StartReturningStreams
  <2>4. t \in Threads => t = p
    BY <2>1, ProcsAssumption DEF ThreadsOf
  <2>5. ASSUME NEW q \in Threads, NEW s \in live'[q], s.kind = "stream"
        PROVE  s \in live[q] /\ \A v \in Visible(q)' \ Visible(q) : v.by = q
    <3>1. s \in live[q] /\ q \in Owners
      BY <1>2, <2>3, <2>5
    <3>2. Visible(q)' \subseteq Visible(q) \cup (IF q = t THEN {w} ELSE {})
      BY <2>3, <2>5, <3>1 DEF SeesAtMost
    <3> QED
      BY <2>2, <2>4, <3>1, <3>2
  <2>6. StreamsSeeOneState'
    BY <1>1, <2>5, StreamsFrame
  <2> QED
    BY <1>1, <2>3, <2>6 DEF StreamInv
<1>5. ASSUME NEW p \in Procs, OpenStream(p) PROVE StreamInv'
  <2>1. PICK t \in Owners : Start(t, p, "stream")
    BY <1>5, ThreadsOfOwners DEF OpenStream
  <2>2. /\ Current' /\ \A u \in Owners : Visible(u)' = Visible(u)
        /\ \A u \in Owners : \A s \in live'[u] : s \in live[u] \/ s.base = Visible(u)
    BY <1>1, <1>5, <2>1, StartStreamStreams DEF OpenStream
  <2>3. StreamsSeeOneState'
    BY <1>1, <1>2, <2>2, StreamsFrame
  <2> QED
    BY <1>1, <2>2, <2>3 DEF StreamInv
<1>6. ASSUME NEW t \in Owners, NEW p, NEW k, Finish(t, p, k) PROVE StreamInv'
  <2>1. /\ Current' /\ SeesAtMost(t, {}) /\ \A u \in Owners : live'[u] \subseteq live[u]
    BY <1>1, <1>6, FinishStreams
  <2>2. ASSUME NEW q \in Threads, NEW s \in live'[q], s.kind = "stream"
        PROVE  s \in live[q] /\ Visible(q)' \subseteq Visible(q)
    BY <1>2, <2>1, <2>2 DEF SeesAtMost
  <2>3. StreamsSeeOneState'
    BY <1>1, <2>2, StreamsFrame
  <2> QED
    BY <1>1, <2>1, <2>3 DEF StreamInv
<1>7. ASSUME NEW p \in Procs, Drain(p) PROVE StreamInv'
  <2>1. thread[p] \in Owners
    BY <1>1, <1>7, ThreadsOfOwners DEF Drain, CallsPlaced
  <2> QED
    BY <1>3, <1>6, <1>7, <2>1 DEF Drain
<1>8. ASSUME NEW p \in Procs, CloseStream(p) \/ Fetch(p) PROVE StreamInv'
  BY <1>6, <1>8 DEF CloseStream, Fetch
<1>9. ASSUME NEW p \in Procs,
             \/ \E k \in Kinds \ {"stream"} : Request(p, k)
             \/ EnterGate(p) \/ Lock(p) \/ ExecuteFails(p) \/ Unlock(p) \/ Ungate(p)
      PROVE  StreamInv'
  BY <1>3, <1>9 DEF Request, EnterGate, Lock, ExecuteFails, Unlock, Ungate
<1> QED
  BY <1>3, <1>4, <1>5, <1>7, <1>8, <1>9 DEF Next, Finished, vars

\* A thread that loops over an iterator sees what was there when the loop began
\* and what it has written since, whatever the others commit between chunks.
THEOREM IteratorsSeeOneState == Spec => []StreamsSeeOneState
<1>1. StreamInv => StreamsSeeOneState
  BY DEF StreamInv
<1> QED
  BY <1>1, StreamsInit, StreamsNext, PTL DEF Spec

-----------------------------------------------------------------------------
(***************************************************************************)
(* What a task is told.  A RETURNING of a task runs on a worker only while *)
(* the task holds the gate, and its rows are fetched before it lets go of  *)
(* it: so the write that is still pending is the gate holder's.            *)
(***************************************************************************)
TasksPlaced == \A p \in Procs : pc[p] \in {"drain", "ungate"} => p \in Tasks

RowsOfHolder ==
    \A t \in Workers : \A s \in live[t] : s.kind = "returning" =>
        s.by \in Tasks /\ pc[s.by] \in {"unlock", "drain"} /\ thread[s.by] = t

Acked(p) ==
    \/ acked[p] \subseteq db
    \/ pc[p] \in {"unlock", "drain"} /\ acked[p] \subseteq db \cup pending[thread[p]]

TaskInv ==
    /\ ReadBack /\ GateHeld /\ TasksPlaced /\ RowsOfHolder
    /\ \A p \in Tasks : Acked(p)

LEMMA TasksInit == Init => TaskInv
BY ReadBackInit DEF Init, TaskInv, GateHeld, TasksPlaced, RowsOfHolder, Acked, Procs, Owners

LEMMA GateSteps ==
    ASSUME CallType, CallsPlaced, GateHeld, TasksPlaced, [Next]_vars
    PROVE  GateHeld' /\ TasksPlaced'
<1> USE ProcsAssumption DEF CallType, CallsPlaced, GateHeld, TasksPlaced, Goto, Procs
<1>1. ASSUME UNCHANGED <<gate, pc>> PROVE GateHeld' /\ TasksPlaced'
  BY <1>1
<1>2. ASSUME NEW p \in Procs,
             (\E k \in Kinds \ {"stream"} : Request(p, k)) \/ EnterGate(p) \/ Ungate(p)
      PROVE  GateHeld' /\ TasksPlaced'
  BY <1>2 DEF Request, EnterGate, Ungate
<1>3. ASSUME NEW p \in Procs,
             Lock(p) \/ Execute(p) \/ ExecuteFails(p) \/ Unlock(p) \/ Drain(p)
      PROVE  GateHeld' /\ TasksPlaced'
  BY <1>3 DEF Lock, Execute, ExecuteFails, Unlock, Drain
<1>4. ASSUME NEW p \in Procs, OpenStream(p) \/ CloseStream(p) \/ Fetch(p)
      PROVE  GateHeld' /\ TasksPlaced'
  BY <1>1, <1>4 DEF OpenStream, CloseStream, Fetch, appUnchanged
<1> QED
  BY <1>1, <1>2, <1>3, <1>4 DEF Next, Finished, vars

\* What is committed or pending on a worker stays so, and no RETURNING is new.
KeepsWrites ==
    /\ db \subseteq db'
    /\ \A t \in Workers :
        /\ pending[t] \subseteq db' \cup pending'[t]
        /\ \A s \in live'[t] : s \in live[t] \/ s.kind # "returning"

LEMMA FinishKeepsWrites ==
    ASSUME SqlInv, NEW t \in Owners, NEW p, NEW k, Finish(t, p, k)
    PROVE  KeepsWrites
<1> DEFINE rest == {s \in live[t] : s.by # p \/ s.kind # k}
           commits == \A s \in rest : s.kind # "returning"
<1>1. /\ live' = [live EXCEPT ![t] = rest]
      /\ db' = IF commits THEN db \cup pending[t] ELSE db
      /\ pending' = [pending EXCEPT ![t] = IF commits THEN {} ELSE @]
  BY DEF Finish
<1>2. rest \subseteq live[t]
  OBVIOUS
<1> HIDE DEF rest
<1>3. \A u \in Owners \ {t} : live'[u] = live[u] /\ pending'[u] = pending[u]
  BY <1>1 DEF SqlInv, SqlType
<1>4. live'[t] = rest /\ pending'[t] = IF commits THEN {} ELSE pending[t]
  BY <1>1 DEF SqlInv, SqlType
<1>5. Workers \subseteq Owners
  BY DEF Owners
<1> QED
  BY <1>1, <1>2, <1>3, <1>4, <1>5 DEF KeepsWrites

\* A step that keeps them, and moves nobody away from a RETURNING of his.
LEMMA TasksFrame ==
    ASSUME TaskInv, ReadBack', GateHeld', TasksPlaced', KeepsWrites, acked' = acked,
           \A p \in Tasks : pc[p] \in {"unlock", "drain"} =>
               pc'[p] \in {"unlock", "drain"} /\ thread'[p] = thread[p]
    PROVE  TaskInv'
<1>1. RowsOfHolder'
  BY DEF TaskInv, RowsOfHolder, KeepsWrites
<1>2. ASSUME NEW p \in Tasks PROVE Acked(p)'
  <2>1. pc[p] \in {"unlock", "drain"} => thread[p] \in Workers
    BY ProcsAssumption DEF TaskInv, ReadBack, Inv, CallsPlaced, ThreadsOf, Procs
  <2> QED
    BY <2>1 DEF TaskInv, Acked, KeepsWrites
<1> QED
  BY <1>1, <1>2 DEF TaskInv

LEMMA TasksNext == TaskInv /\ [Next]_vars => TaskInv'
<1> SUFFICES ASSUME TaskInv, [Next]_vars PROVE TaskInv'
  OBVIOUS
<1>1. ReadBack' /\ SqlInv /\ CallsPlaced /\ CallType /\ GateHeld /\ TasksPlaced /\ RowsOfHolder
      /\ GateHeld' /\ TasksPlaced'
  BY ReadBackNext, GateSteps, Parts DEF TaskInv, ReadBack
<1>2. Tasks \subseteq Procs /\ Workers \subseteq Owners
  BY DEF Procs, Owners
<1>3. ASSUME UNCHANGED sqlVars PROVE KeepsWrites
  BY <1>3 DEF KeepsWrites, sqlVars
<1>4. ASSUME UNCHANGED vars PROVE TaskInv'
  BY <1>1, <1>3, <1>4, TasksFrame DEF vars
<1>5. ASSUME NEW p \in Procs,
             \/ \E k \in Kinds \ {"stream"} : Request(p, k)
             \/ EnterGate(p) \/ Lock(p) \/ ExecuteFails(p) \/ Unlock(p) \/ Ungate(p)
      PROVE  TaskInv'
  <2>1. UNCHANGED <<sqlVars, acked>>
    BY <1>5 DEF Request, EnterGate, Lock, ExecuteFails, Unlock, Ungate
  <2>2. \A q \in Tasks : pc[q] \in {"unlock", "drain"} =>
            pc'[q] \in {"unlock", "drain"} /\ thread'[q] = thread[q]
    BY <1>1, <1>2, <1>5, ProcsAssumption
       DEF CallType, Goto, Request, EnterGate, Lock, ExecuteFails, Unlock, Ungate
  <2> QED
    BY <1>1, <1>3, <2>1, <2>2, TasksFrame
<1>6. ASSUME NEW p \in Procs, OpenStream(p) \/ CloseStream(p) \/ Fetch(p) PROVE TaskInv'
  <2>1. UNCHANGED <<pc, thread, acked>>
    BY <1>6 DEF OpenStream, CloseStream, Fetch, appUnchanged
  <2>2. KeepsWrites
    <3>1. CASE OpenStream(p)
      <4>1. PICK t \in Owners :
              live' = [live EXCEPT
                  ![t] = @ \cup {[by |-> p, kind |-> "stream", base |-> Visible(t)]}]
        BY <3>1, ThreadsOfOwners DEF OpenStream, Start
      <4>2. \A u \in Owners : \A s \in live'[u] : s \in live[u] \/ s.kind # "returning"
        BY <1>1, <4>1 DEF SqlInv, SqlType
      <4> QED
        BY <1>2, <3>1, <4>2 DEF OpenStream, KeepsWrites
    <3>2. CASE CloseStream(p) \/ Fetch(p)
      BY <1>1, <3>2, FinishKeepsWrites DEF CloseStream, Fetch
    <3> QED
      BY <1>6, <3>1, <3>2
  <2> QED
    BY <1>1, <2>1, <2>2, TasksFrame
<1>7. ASSUME NEW p \in Procs, Execute(p) PROVE TaskInv'
  <2>1. PICK t \in Owners : t = thread[p] /\ t \in ThreadsOf(p)
    BY <1>1, <1>7, ThreadsOfOwners DEF CallsPlaced, Execute
  <2> DEFINE w == [by |-> p, n |-> ops[p]]
  <2>2. /\ pc[p] = "exec" /\ pc' = [pc EXCEPT ![p] = "unlock"] /\ thread' = thread
        /\ acked' = [acked EXCEPT ![p] = @ \cup {w}]
        /\ \/ WriteDone(t, w)
           \/ /\ Start(t, p, "returning")
              /\ pending' = [pending EXCEPT ![t] = @ \cup {w}]
              /\ UNCHANGED db
    BY <1>7, <2>1 DEF Execute, Goto
  <2> HIDE DEF w
  <2>3. /\ db \subseteq db' /\ w \in db' \cup pending'[t]
        /\ \A u \in Owners : pending[u] \subseteq pending'[u]
    BY <1>1, <2>2 DEF WriteDone, SqlInv, SqlType
  <2>4. ASSUME NEW u \in Owners, NEW s \in live'[u]
        PROVE  s \in live[u] \/ s.kind # "returning" \/ (s.by = p /\ u = t)
    <3>1. CASE live' = live
      BY <3>1
    <3>2. CASE Start(t, p, "returning")
      <4>1. live' = [live EXCEPT
                ![t] = @ \cup {[by |-> p, kind |-> "returning", base |-> Visible(t)]}]
        BY <3>2 DEF Start
      <4> QED
        BY <1>1, <2>4, <4>1 DEF SqlInv, SqlType
    <3> QED
      BY <2>2, <3>1, <3>2 DEF WriteDone
  <2>5. t \in Workers => p \in Tasks
    BY <2>1, ProcsAssumption DEF ThreadsOf, Procs
  <2>6. pc'[p] = "unlock" /\ \A q \in Procs : q # p => pc'[q] = pc[q]
    BY <1>1, <2>2 DEF CallType
  <2>7. RowsOfHolder'
    <3> SUFFICES ASSUME NEW u \in Workers, NEW s \in live'[u], s.kind = "returning"
                 PROVE  s.by \in Tasks /\ pc'[s.by] \in {"unlock", "drain"} /\ thread[s.by] = u
      BY <2>2 DEF RowsOfHolder
    <3>1. CASE s \in live[u]
      BY <1>1, <1>2, <2>2, <2>6, <3>1 DEF RowsOfHolder
    <3>2. CASE s.by = p /\ u = t
      BY <2>1, <2>5, <2>6, <3>2
    <3> QED
      BY <1>2, <2>4, <3>1, <3>2
  <2>8. ASSUME NEW q \in Tasks PROVE Acked(q)'
    <3>1. Acked(q)
      BY DEF TaskInv
    <3>2. CASE q # p
      <4>1. acked'[q] = acked[q] /\ pc'[q] = pc[q] /\ thread'[q] = thread[q]
        BY <1>1, <1>2, <2>2, <2>6, <3>2 DEF CallType
      <4>2. pc[q] \in {"unlock", "drain"} => thread[q] \in Owners
        BY <1>1, <1>2, ThreadsOfOwners DEF CallsPlaced
      <4> QED
        BY <2>3, <3>1, <4>1, <4>2 DEF Acked
    <3>3. CASE q = p
      <4>1. acked'[q] = acked[q] \cup {w} /\ thread'[q] = t /\ pc'[q] = "unlock"
        BY <1>1, <2>1, <2>2, <2>6, <3>3 DEF CallType
      <4>2. acked[q] \subseteq db
        BY <2>2, <3>1, <3>3 DEF Acked
      <4> QED
        BY <2>3, <4>1, <4>2 DEF Acked
    <3> QED
      BY <3>2, <3>3
  <2> QED
    BY <1>1, <2>7, <2>8 DEF TaskInv
<1>8. ASSUME NEW p \in Procs, Drain(p) PROVE TaskInv'
  <2>1. /\ pc[p] = "drain" /\ pc' = [pc EXCEPT ![p] = "ungate"]
        /\ thread' = [thread EXCEPT ![p] = None] /\ acked' = acked
    BY <1>8 DEF Drain, Goto
  <2>2. p \in Tasks /\ gate = p /\ thread[p] \in Workers
    BY <1>1, <2>1 DEF TasksPlaced, GateHeld, CallsPlaced, ThreadsOf
  <2> DEFINE t == thread[p]
  <2>3. \A u \in Workers : \A s \in live[u] : s.kind = "returning" => s.by = p /\ u = t
    BY <1>1, <2>2 DEF RowsOfHolder, GateHeld
  <2>4. /\ KeepsWrites /\ pending[t] \subseteq db'
        /\ \A u \in Workers : \A s \in live'[u] : s.kind # "returning"
    <3>1. CASE Finish(t, p, "returning")
      <4>1. KeepsWrites
        BY <1>1, <1>2, <2>2, <3>1, FinishKeepsWrites
      <4> DEFINE rest == {s \in live[t] : s.by # p \/ s.kind # "returning"}
      <4>2. \A s \in rest : s.kind # "returning"
        BY <2>2, <2>3
      <4>3. live' = [live EXCEPT ![t] = rest] /\ pending[t] \subseteq db'
        BY <3>1, <4>2 DEF Finish
      <4>4. \A u \in Workers : \A s \in live'[u] : s.kind # "returning"
        BY <1>1, <1>2, <2>2, <2>3, <4>2, <4>3 DEF SqlInv, SqlType
      <4> QED
        BY <4>1, <4>3, <4>4
    <3>2. CASE ~Running(p, "returning", t) /\ UNCHANGED sqlVars
      <4>1. \A u \in Workers : \A s \in live[u] : s.kind # "returning"
        BY <2>2, <2>3, <3>2 DEF Running
      <4>2. pending[t] = {}
        BY <1>1, <1>2, <2>2, <4>1 DEF SqlInv, PendingIsWriting, Writing
      <4> QED
        BY <1>3, <3>2, <4>1, <4>2 DEF sqlVars
    <3> QED
      BY <1>8, <3>1, <3>2 DEF Drain
  <2>5. RowsOfHolder'
    BY <2>4 DEF RowsOfHolder
  <2>6. ASSUME NEW q \in Tasks PROVE Acked(q)'
    <3>1. Acked(q)
      BY DEF TaskInv
    <3>2. CASE q = p
      BY <2>1, <2>4, <3>1, <3>2 DEF Acked, KeepsWrites
    <3>3. CASE q # p
      <4>1. acked[q] \subseteq db
        BY <1>1, <2>2, <3>1, <3>3, ProcsAssumption DEF GateHeld, Acked
      <4> QED
        BY <2>1, <2>4, <4>1 DEF Acked, KeepsWrites
    <3> QED
      BY <3>2, <3>3
  <2> QED
    BY <1>1, <2>5, <2>6 DEF TaskInv
<1> QED
  BY <1>4, <1>5, <1>6, <1>7, <1>8 DEF Next, Finished

\* What a task's write call reported as done is committed when the call returns
\* to the task: aexecute reads the rows of a RETURNING behind the gate.
THEOREM TasksAreToldTheTruth == Spec => []TaskWritesCommitted
<1>1. TaskInv => TaskWritesCommitted
  BY DEF TaskInv, Acked, TaskWritesCommitted
<1> QED
  BY <1>1, TasksInit, TasksNext, PTL DEF Spec
=============================================================================
