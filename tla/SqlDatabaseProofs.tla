------------------------- MODULE SqlDatabaseProofs -------------------------
(***************************************************************************)
(* Theorems about SqlDatabase, for every set of sessions and statements,   *)
(* every deterministic executor and optimizer, every combination of faults *)
(* and every bound: type correctness and the absence of lost updates; and  *)
(* durability: across any number of crashes, an untainted database that    *)
(* does not start from a v0.2 log reopens with every commit it made        *)
(* visible, and replay fails only on bytes it cannot read.  A statement    *)
(* whose logged text does not do what its folded form did is a taint; the  *)
(* theorems say nothing of the log after it.  Without storage faults,      *)
(* without a v0.2 log and with texts that fold exactly, SqlDatabase        *)
(* implements TransactionalStore.                                          *)
(***************************************************************************)
EXTENDS SqlDatabase, TLAPS

-----------------------------------------------------------------------------
(* The inductive invariant, in two layers                                   *)

(* The catalog write lock has at most one holder, and only while open.      *)
LockInv ==
    /\ \A s, t \in Session : pc[s] \in Critical /\ pc[t] \in Critical => s = t
    /\ phase # "open" => \A s \in Session : pc[s] = "idle" /\ txn[s] = NoTxn

(* Wherever a list of statements is kept, so is one content more.           *)
Shaped(r) == Len(r.trace) = Len(r.stmts) + 1

ShapeInv ==
    /\ \A s \in Session : InTxn(s) => Shaped(txn[s])
    /\ \A s \in Session : pc[s] \in {"log", "publish"} => Shaped(work)
    /\ \A i \in 1..Len(wal) :
         /\ wal[i].kind = "rec" => Shaped(wal[i])
         /\ wal[i].kind = "sql" => Len(wal[i].stmts) = 1

BaseInv == TypeOK /\ LockInv /\ ShapeInv

(* Within one process, equal version numbers mean equal contents.           *)
ViewInv ==
    /\ \A s \in Session : InTxn(s) =>
         /\ txn[s].base <= mem.version
         /\ txn[s].base = mem.version => txn[s].trace[1] = mem.content
    /\ \A s \in Session : pc[s] \in {"log", "publish"} =>
         /\ work.base = mem.version
         /\ work.trace[1] = mem.content

-----------------------------------------------------------------------------
(* Lemmas on the operators                                                  *)

(* The last element of a non-empty sequence is one of its elements.         *)
LEMMA LastOfType ==
    ASSUME NEW S, NEW q \in Seq(S), Len(q) > 0
    PROVE  LastOf(q) \in S
  BY DEF LastOf

(* The fixed values are of their types.                                     *)
LEMMA ConstantTypes ==
    /\ NoTxn \in Txn
    /\ \A b \in BOOLEAN : BadLine(b) \in Line /\ RawLine(b) \in Line
    /\ \A st \in Stmt : SqlLine(st) \in Line
    /\ \A w \in Txn, b \in BOOLEAN : WalRecord(w, b) \in Line
  BY DEF NoTxn, Txn, BadLine, RawLine, SqlLine, WalRecord, Line

(* What is kept of a statement is a statement, and so is what is run.       *)
LEMMA DurableType ==
    ASSUME NEW st \in Stmt, NEW durable \in Durable(st)
    PROVE  durable \in Stmt /\ Optimize(st) \in Stmt
  BY ExecAssumption DEF Durable

(* What a failed or interrupted log call can leave in the file: the record, *)
(* or damaged bytes.                                                        *)
LEMMA WrittenLines ==
    ASSUME work \in Txn, NEW line \in FailedWrites \cup CrashTails
    PROVE  /\ line \in Line
           /\ line.kind \in {"bad", "raw"} \/ \E b \in BOOLEAN : line = WalRecord(work, b)
  <1>1. \/ line \in {BadLine(FALSE), RawLine(FALSE)}
        \/ line \in {WalRecord(work, TRUE), WalRecord(work, FALSE)}
    BY DEF FailedWrites, CrashTails, PartialWrites
  <1>2. CASE line \in {BadLine(FALSE), RawLine(FALSE)}
    <2>1. line \in Line
      BY <1>2, ConstantTypes
    <2>2. line.kind \in {"bad", "raw"}
      BY <1>2 DEF BadLine, RawLine
    <2> QED BY <2>1, <2>2
  <1>3. CASE line \in {WalRecord(work, TRUE), WalRecord(work, FALSE)}
    BY <1>3, ConstantTypes
  <1> QED BY <1>1, <1>2, <1>3

(* Appending a line to the file yields a file.                              *)
LEMMA AppendLineType ==
    ASSUME NEW w \in Seq(Line), NEW line \in Line
    PROVE  /\ AppendLine(w, line) \in Seq(Line)
           /\ AppendTaint(w, line) \subseteq {"merged", "reused"}
  <1>1. line.nl \in BOOLEAN
    BY DEF Line
  <1>2. ASSUME NEW last PROVE Merged(last, line) \in Line
    BY <1>1, ConstantTypes DEF Merged
  <1>3. CASE w = <<>> \/ LastOf(w).nl
    BY <1>3 DEF AppendLine, AppendTaint
  <1>4. CASE ~(w = <<>> \/ LastOf(w).nl)
    BY <1>2, <1>4 DEF AppendLine, AppendTaint
  <1> QED BY <1>3, <1>4

-----------------------------------------------------------------------------
(* Layer one: types, the lock and the shapes                                *)

(* The first state satisfies the base layer.                                *)
LEMMA BaseInit == Init => BaseInv
  <1> SUFFICES ASSUME Init PROVE BaseInv
    OBVIOUS
  <1>1. TypeOK
    <2>1. \A i \in 1..Len(LegacyWal) : LegacyWal[i] \in Stmt
      BY ConstantsAssumption
    <2>2. \A i \in 1..Len(LegacyWal) : SqlLine(LegacyWal[i]) \in Line
      BY <2>1, ConstantTypes
    <2>3. wal \in Seq(Line)
      BY <2>2, ConstantsAssumption DEF Init
    <2>4. NoTxn \in Txn
      BY ConstantTypes
    <2>5. mem \in Catalog /\ snapshot \in Catalog
      BY ConstantsAssumption DEF Init, Catalog
    <2>6. archive \in Seq(Line) /\ hist \in Seq(Content)
      BY DEF Init
    <2>7. txn \in [Session -> Txn] /\ work \in Txn
      BY <2>4 DEF Init
    <2>8. pc \in [Session -> Critical \cup {"idle", "wantSave"}]
      BY DEF Init
    <2>9. walOpen \in BOOLEAN
      BY DEF Init
    <2>10. /\ pos \in Nat \ {0} /\ idx \in Nat \ {0}
           /\ crashes \in Nat /\ faults \in Nat
      BY DEF Init
    <2>11. /\ phase \in {"closed", "replay", "open", "failed"}
           /\ taint \subseteq {"merged", "reused", "detached", "legacy", "folded"}
      BY DEF Init
    <2> QED BY <2>3, <2>5, <2>6, <2>7, <2>8, <2>9, <2>10, <2>11 DEF TypeOK
  <1>2. LockInv
    BY DEF Init, LockInv, Critical
  <1>3. ShapeInv
    <2>1. \A i \in 1..Len(wal) : wal[i] = SqlLine(LegacyWal[i])
      BY ConstantsAssumption DEF Init
    <2> QED BY <2>1 DEF Init, ShapeInv, InTxn, SqlLine
  <1> QED BY <1>1, <1>2, <1>3 DEF BaseInv

(* The parts of well-typed values are well-typed.                           *)
LEMMA Parts ==
    ASSUME BaseInv
    PROVE  /\ mem.version \in Nat /\ mem.schema \in Nat /\ mem.content \in Content
           /\ \A s \in Session : /\ txn[s] \in Txn
                                 /\ txn[s].base \in Nat /\ txn[s].ddl \in BOOLEAN
                                 /\ txn[s].stmts \in Seq(Stmt)
                                 /\ txn[s].trace \in Seq(Content)
           /\ work.base \in Nat /\ work.stmts \in Seq(Stmt) /\ work.trace \in Seq(Content)
           /\ \A i \in 1..Len(wal) : /\ wal[i] \in Line
                                     /\ wal[i].base \in Nat /\ wal[i].commit \in Nat
                                     /\ wal[i].stmts \in Seq(Stmt)
                                     /\ wal[i].trace \in Seq(Content)
                                     /\ wal[i].nl \in BOOLEAN
                                     /\ wal[i].kind \in {"rec", "sql", "bad", "raw"}
           /\ snapshot.version \in Nat /\ snapshot.content \in Content
  <1> USE DEF BaseInv, TypeOK
  <1>1. mem.version \in Nat /\ mem.schema \in Nat /\ mem.content \in Content
    BY DEF Catalog
  <1>2. snapshot.version \in Nat /\ snapshot.content \in Content
    BY DEF Catalog
  <1>3. ASSUME NEW s \in Session
        PROVE  /\ txn[s] \in Txn
               /\ txn[s].base \in Nat /\ txn[s].ddl \in BOOLEAN
               /\ txn[s].stmts \in Seq(Stmt) /\ txn[s].trace \in Seq(Content)
    <2>1. txn[s] \in Txn
      OBVIOUS
    <2> QED BY <2>1 DEF Txn
  <1>4. work.base \in Nat /\ work.stmts \in Seq(Stmt) /\ work.trace \in Seq(Content)
    BY DEF Txn
  <1>5. ASSUME NEW i \in 1..Len(wal)
        PROVE  /\ wal[i] \in Line
               /\ wal[i].base \in Nat /\ wal[i].commit \in Nat
               /\ wal[i].stmts \in Seq(Stmt) /\ wal[i].trace \in Seq(Content)
               /\ wal[i].nl \in BOOLEAN /\ wal[i].kind \in {"rec", "sql", "bad", "raw"}
    <2>1. wal[i] \in Line
      OBVIOUS
    <2> QED BY <2>1 DEF Line
  <1> QED BY <1>1, <1>2, <1>3, <1>4, <1>5

(* Every step preserves the types.                                          *)
LEMMA TypeStep == BaseInv /\ [Next]_vars => TypeOK'
  <1> SUFFICES ASSUME BaseInv, [Next]_vars PROVE TypeOK'
    OBVIOUS
  <1> USE DEF BaseInv, memVars, diskVars, ghostVars
  <1>0. NoTxn \in Txn
    BY ConstantTypes
  <1>1. ASSUME NEW s \in Session, Begin(s) PROVE TypeOK'
    <2>1. txn' \in [Session -> Txn]
      BY <1>1, Parts DEF Begin, Txn, TypeOK
    <2> QED BY <2>1, <1>1 DEF Begin, TypeOK
  <1>2. ASSUME NEW s \in Session, Rollback(s) PROVE TypeOK'
    BY <1>0, <1>2 DEF Rollback, TypeOK, Critical
  <1>3. ASSUME NEW s \in Session, CommitWithoutLog(s) PROVE TypeOK'
    BY <1>0, <1>3 DEF CommitWithoutLog, TypeOK, Critical
  <1>4. ASSUME NEW s \in Session, CommitBegin(s) PROVE TypeOK'
    BY <1>0, <1>4 DEF CommitBegin, FoldTaint, TypeOK, Critical
  <1>5. ASSUME NEW s \in Session, NEW st \in Stmt, NEW durable \in Durable(st),
               ExecuteInTxn(s, st, durable) PROVE TypeOK'
    <2>1. LastOf(txn[s].trace) \in Content
      BY <1>5, Parts, LastOfType DEF ExecuteInTxn, ShapeInv, Shaped
    <2>2. Run(LastOf(txn[s].trace), st) \in Content
      BY <1>5, <2>1, ExecAssumption DEF ExecuteInTxn, Run
    <2>3. [base |-> txn[s].base, stmts |-> Append(txn[s].stmts, durable),
           trace |-> Append(txn[s].trace, Run(LastOf(txn[s].trace), st)),
           ddl |-> txn[s].ddl \/ st \in Ddl, auto |-> FALSE] \in Txn
      <3>1. (txn[s].ddl \/ st \in Ddl) \in BOOLEAN
        OBVIOUS
      <3>2. durable \in Stmt
        BY DurableType
      <3> QED BY <3>1, <3>2, <2>2, Parts DEF Txn
    <2>4. txn' \in [Session -> Txn]
      BY <1>5, <2>3 DEF ExecuteInTxn, Run, TypeOK
    <2> QED BY <2>4, <1>5 DEF ExecuteInTxn, TypeOK
  <1>6. ASSUME NEW s \in Session, NEW st \in Stmt, NEW durable \in Durable(st),
               AutocommitBegin(s, st, durable) PROVE TypeOK'
    <2>1. Run(mem.content, st) \in Content
      BY <1>6, Parts, ExecAssumption DEF AutocommitBegin, Run
    <2>2. (st \in Ddl) \in BOOLEAN /\ durable \in Stmt
      BY DurableType
    <2>3. work' \in Txn
      BY <1>6, <2>1, <2>2, Parts DEF AutocommitBegin, Run, Txn
    <2>4. taint' \subseteq {"merged", "reused", "detached", "legacy", "folded"}
      BY <1>6 DEF AutocommitBegin, FoldTaint, TypeOK
    <2> QED BY <2>3, <2>4, <1>6 DEF AutocommitBegin, TypeOK, Critical
  <1>7. ASSUME NEW s \in Session, SaveBegin(s) PROVE TypeOK'
    BY <1>0, <1>7 DEF SaveBegin, TypeOK, Critical
  <1>8. ASSUME NEW s \in Session, LogOk(s) PROVE TypeOK'
    <2>1. WalRecord(work, TRUE) \in Line
      BY ConstantTypes DEF TypeOK
    <2>2. wal' \in Seq(Line)
      BY <1>8, <2>1, AppendLineType DEF LogOk, TypeOK
    <2>3. taint' \subseteq {"merged", "reused", "detached", "legacy", "folded"}
      <3>1. CASE walOpen
        BY <3>1, <1>8, <2>1, AppendLineType DEF LogOk, TypeOK
      <3>2. CASE ~walOpen
        BY <3>2, <1>8 DEF LogOk, TypeOK
      <3> QED BY <3>1, <3>2
    <2> QED BY <2>2, <2>3, <1>8 DEF LogOk, TypeOK, Critical
  <1>9. ASSUME NEW s \in Session, Publish(s) PROVE TypeOK'
    <2>1. LastOf(work.trace) \in Content
      BY <1>9, Parts, LastOfType DEF Publish, ShapeInv, Shaped
    <2>2. mem' \in Catalog
      BY <1>9, <2>1, Parts DEF Publish, Catalog
    <2>3. hist' \in Seq(Content)
      BY <1>9, <2>1 DEF Publish, TypeOK
    <2>4. pc' \in [Session -> Critical \cup {"idle", "wantSave"}]
      BY <1>9 DEF Publish, TypeOK
    <2> QED BY <2>2, <2>3, <2>4, <1>0, <1>9 DEF Publish, TypeOK
  <1>10. ASSUME NEW s \in Session, SaveRename(s) PROVE TypeOK'
    BY <1>0, <1>10 DEF SaveRename, TypeOK, Critical
  <1>11. ASSUME NEW s \in Session, SaveArchive(s) PROVE TypeOK'
    <2>1. wal' \in Seq(Line) /\ archive' \in Seq(Line)
      BY <1>11 DEF SaveArchive, TypeOK
    <2>2. pc' \in [Session -> Critical \cup {"idle", "wantSave"}]
      BY <1>11 DEF SaveArchive, TypeOK, Critical
    <2> QED BY <2>1, <2>2, <1>11 DEF SaveArchive, TypeOK
  <1>12. ASSUME NEW s \in Session, SaveEnd(s) PROVE TypeOK'
    BY <1>0, <1>12 DEF SaveEnd, TypeOK, Critical
  <1>13. ASSUME NEW s \in Session, LogErr(s) PROVE TypeOK'
    <2>1. FailedWrites \subseteq Line
      BY WrittenLines DEF TypeOK
    <2>2. ASSUME UNCHANGED <<wal, taint>>
          PROVE  wal' \in Seq(Line) /\ taint' \subseteq {"merged", "reused", "detached", "legacy", "folded"}
      BY <2>2 DEF TypeOK
    <2>3. ASSUME NEW line \in Line, wal' = AppendLine(wal, line),
                 taint' = taint \cup AppendTaint(wal, line)
          PROVE  wal' \in Seq(Line) /\ taint' \subseteq {"merged", "reused", "detached", "legacy", "folded"}
      BY <2>3, AppendLineType DEF TypeOK
    <2>4. wal' \in Seq(Line) /\ taint' \subseteq {"merged", "reused", "detached", "legacy", "folded"}
      BY <2>1, <2>2, <2>3, <1>13 DEF LogErr
    <2>5. txn' \in [Session -> Txn]
      BY <1>13 DEF LogErr, TypeOK
    <2>6. pc' \in [Session -> Critical \cup {"idle", "wantSave"}]
      BY <1>13 DEF LogErr, TypeOK
    <2> QED BY <2>4, <2>5, <2>6, <1>0, <1>13 DEF LogErr, TypeOK
  <1>14. ASSUME NEW s \in Session, SaveErr(s) PROVE TypeOK'
    <2>1. pc' \in [Session -> Critical \cup {"idle", "wantSave"}]
      BY <1>14 DEF SaveErr, TypeOK
    <2>2. walOpen' \in BOOLEAN
      BY <1>14 DEF SaveErr, TypeOK
    <2> QED BY <2>1, <2>2, <1>14 DEF SaveErr, TypeOK
  <1>15. CASE Crash
    <2>2. CrashTails \subseteq Line
      BY WrittenLines DEF TypeOK
    <2>3. ASSUME NEW line \in Line, wal' = AppendLine(wal, line),
                 taint' = taint \cup AppendTaint(wal, line)
          PROVE  wal' \in Seq(Line) /\ taint' \subseteq {"merged", "reused", "detached", "legacy", "folded"}
      BY <2>3, AppendLineType DEF TypeOK
    <2>4. ASSUME UNCHANGED <<wal, taint>>
          PROVE  wal' \in Seq(Line) /\ taint' \subseteq {"merged", "reused", "detached", "legacy", "folded"}
      BY <2>4 DEF TypeOK
    <2>5. wal' \in Seq(Line) /\ taint' \subseteq {"merged", "reused", "detached", "legacy", "folded"}
      BY <2>2, <2>3, <2>4, <1>15 DEF Crash, CrashTail, TypeOK
    <2>6. mem' \in Catalog
      BY <1>15, ConstantsAssumption DEF Crash, Catalog
    <2>7. txn' \in [Session -> Txn] /\ work' \in Txn
      BY <1>0, <1>15 DEF Crash
    <2>8. pc' \in [Session -> Critical \cup {"idle", "wantSave"}]
      BY <1>15 DEF Crash
    <2>9. pos' \in Nat \ {0} /\ idx' \in Nat \ {0} /\ crashes' \in Nat
      BY <1>15 DEF Crash, TypeOK
    <2> QED BY <2>5, <2>6, <2>7, <2>8, <2>9, <1>15 DEF Crash, TypeOK
  <1>16. CASE Open
    BY <1>0, <1>16 DEF Open, LoadCatalog, TypeOK, Critical
  <1>17. CASE ReplaySkip
    BY <1>0, <1>17 DEF ReplaySkip, TypeOK, Critical
  <1>18. CASE ReplayStatement
    <2>1. pos \in 1..Len(wal) /\ idx \in 1..Len(wal[pos].stmts)
      BY <1>18, Parts DEF ReplayStatement, Replaying, TypeOK
    <2>2. wal[pos].stmts[idx] \in Stmt
      BY <2>1, Parts
    <2>3. Exec(mem.content, wal[pos].stmts[idx]) \in Content \cup {ExecError}
      BY <2>2, Parts, ExecAssumption
    <2>4. mem' \in Catalog
      <3>1. CASE mem' = mem
        BY <3>1 DEF TypeOK
      <3>2. CASE mem' # mem
        <4> DEFINE ddl == IF wal[pos].stmts[idx] \in Ddl THEN 1 ELSE 0
        <4>1. Exec(mem.content, wal[pos].stmts[idx]) \in Content
          BY <1>18, <2>3, <3>2 DEF ReplayStatement
        <4>2. mem.schema + ddl \in Nat
          BY Parts
        <4>3. mem' = [mem EXCEPT !.content = Exec(mem.content, wal[pos].stmts[idx]),
                                 !.schema = @ + ddl]
          BY <1>18, <3>2 DEF ReplayStatement
        <4> HIDE DEF ddl
        <4>4. mem \in [version : Nat, schema : Nat, content : Content]
          BY DEF TypeOK, Catalog
        <4> QED BY <4>1, <4>2, <4>3, <4>4 DEF Catalog
      <3> QED BY <3>1, <3>2
    <2>5. idx' \in Nat \ {0} /\ phase' \in {"closed", "replay", "open", "failed"}
      BY <1>18 DEF ReplayStatement, TypeOK
    <2> QED BY <2>4, <2>5, <1>18 DEF ReplayStatement, TypeOK
  <1>19. CASE ReplayRecordEnd
    <2>1. pos \in 1..Len(wal)
      BY <1>19 DEF ReplayRecordEnd, Replaying, TypeOK
    <2>2. mem' \in Catalog
      BY <1>19, <2>1, Parts DEF ReplayRecordEnd, TypeOK, Catalog
    <2>3. hist' \in Seq(Content)
      BY <1>19, Parts DEF ReplayRecordEnd, TypeOK
    <2> QED BY <2>2, <2>3, <1>19 DEF ReplayRecordEnd, TypeOK
  <1>20. CASE ReplayLegacy
    <2>1. pos \in 1..Len(wal)
      BY <1>20 DEF ReplayLegacy, Replaying, TypeOK
    <2>2. wal[pos].stmts[1] \in Stmt
      BY <1>20, <2>1, Parts DEF ReplayLegacy, Replaying, ShapeInv
    <2>3. Exec(mem.content, wal[pos].stmts[1]) \in Content \cup {ExecError}
      BY <2>2, Parts, ExecAssumption
    <2>4. mem' \in Catalog
      BY <1>20, <2>3, Parts DEF ReplayLegacy, TypeOK, Catalog
    <2>5. hist' \in Seq(Content)
      <3>1. CASE hist' = hist
        BY <3>1 DEF TypeOK
      <3>2. CASE hist' # hist
        <4>1. /\ Exec(mem.content, wal[pos].stmts[1]) \in Content
              /\ hist' = Append(hist, Exec(mem.content, wal[pos].stmts[1]))
          BY <1>20, <2>3, <3>2 DEF ReplayLegacy
        <4> QED BY <4>1 DEF TypeOK
      <3> QED BY <3>1, <3>2
    <2> QED BY <2>4, <2>5, <1>20 DEF ReplayLegacy, TypeOK
  <1>21. CASE ReplayEnd
    BY <1>0, <1>21 DEF ReplayEnd, TypeOK, Critical
  <1>22. CASE ReplayUnreadable
    BY <1>0, <1>22 DEF ReplayUnreadable, TypeOK, Critical
  <1>23. CASE UNCHANGED vars
    BY <1>23 DEF vars, TypeOK
  <1> QED
    BY <1>1, <1>2, <1>3, <1>4, <1>5, <1>6, <1>7, <1>8, <1>9, <1>10, <1>11, <1>12, <1>13, <1>14, <1>15, <1>16, <1>17, <1>18, <1>19, <1>20, <1>21, <1>22, <1>23
       DEF Next, ClientStep, HolderStep, Replay

(* Every step preserves mutual exclusion on the catalog lock.               *)
LEMMA LockStep == BaseInv /\ [Next]_vars => LockInv'
  <1> SUFFICES ASSUME BaseInv, [Next]_vars PROVE LockInv'
    OBVIOUS
  <1> USE DEF BaseInv, memVars, diskVars, ghostVars, LockInv
  <1>1. ASSUME NEW s \in Session, Begin(s) PROVE LockInv'
    BY <1>1 DEF Begin, TypeOK, LockFree, Idle, Critical, Replaying
  <1>2. ASSUME NEW s \in Session, Rollback(s) PROVE LockInv'
    BY <1>2 DEF Rollback, TypeOK, LockFree, Idle, Critical, Replaying
  <1>3. ASSUME NEW s \in Session, CommitWithoutLog(s) PROVE LockInv'
    BY <1>3 DEF CommitWithoutLog, TypeOK, LockFree, Idle, Critical, Replaying
  <1>4. ASSUME NEW s \in Session, CommitBegin(s) PROVE LockInv'
    BY <1>4 DEF CommitBegin, TypeOK, LockFree, Idle, Critical, Replaying
  <1>5. ASSUME NEW s \in Session, NEW st \in Stmt, NEW durable \in Durable(st),
               ExecuteInTxn(s, st, durable) PROVE LockInv'
    BY <1>5 DEF ExecuteInTxn, TypeOK, LockFree, Idle, Critical, Replaying
  <1>6. ASSUME NEW s \in Session, NEW st \in Stmt, NEW durable \in Durable(st),
               AutocommitBegin(s, st, durable) PROVE LockInv'
    BY <1>6 DEF AutocommitBegin, TypeOK, LockFree, Idle, Critical, Replaying
  <1>7. ASSUME NEW s \in Session, SaveBegin(s) PROVE LockInv'
    BY <1>7 DEF SaveBegin, TypeOK, LockFree, Idle, Critical, Replaying
  <1>8. ASSUME NEW s \in Session, LogOk(s) PROVE LockInv'
    BY <1>8 DEF LogOk, TypeOK, LockFree, Idle, Critical, Replaying
  <1>9. ASSUME NEW s \in Session, Publish(s) PROVE LockInv'
    BY <1>9 DEF Publish, TypeOK, LockFree, Idle, Critical, Replaying
  <1>10. ASSUME NEW s \in Session, SaveRename(s) PROVE LockInv'
    BY <1>10 DEF SaveRename, TypeOK, LockFree, Idle, Critical, Replaying
  <1>11. ASSUME NEW s \in Session, SaveArchive(s) PROVE LockInv'
    BY <1>11 DEF SaveArchive, TypeOK, LockFree, Idle, Critical, Replaying
  <1>12. ASSUME NEW s \in Session, SaveEnd(s) PROVE LockInv'
    BY <1>12 DEF SaveEnd, TypeOK, LockFree, Idle, Critical, Replaying
  <1>13. ASSUME NEW s \in Session, LogErr(s) PROVE LockInv'
    BY <1>13 DEF LogErr, TypeOK, LockFree, Idle, Critical, Replaying
  <1>14. ASSUME NEW s \in Session, SaveErr(s) PROVE LockInv'
    BY <1>14 DEF SaveErr, TypeOK, LockFree, Idle, Critical, Replaying
  <1>15. CASE Crash
    BY <1>15 DEF Crash, TypeOK, LockFree, Idle, Critical, Replaying
  <1>16. CASE Open
    BY <1>16 DEF Open, LoadCatalog, TypeOK, LockFree, Idle, Critical, Replaying
  <1>17. CASE ReplaySkip
    BY <1>17 DEF ReplaySkip, TypeOK, LockFree, Idle, Critical, Replaying
  <1>18. CASE ReplayStatement
    BY <1>18 DEF ReplayStatement, TypeOK, LockFree, Idle, Critical, Replaying
  <1>19. CASE ReplayRecordEnd
    BY <1>19 DEF ReplayRecordEnd, TypeOK, LockFree, Idle, Critical, Replaying
  <1>20. CASE ReplayLegacy
    BY <1>20 DEF ReplayLegacy, TypeOK, LockFree, Idle, Critical, Replaying
  <1>21. CASE ReplayEnd
    BY <1>21 DEF ReplayEnd, TypeOK, LockFree, Idle, Critical, Replaying
  <1>22. CASE ReplayUnreadable
    BY <1>22 DEF ReplayUnreadable, TypeOK, LockFree, Idle, Critical, Replaying
  <1>23. CASE UNCHANGED vars
    BY <1>23 DEF vars
  <1> QED
    BY <1>1, <1>2, <1>3, <1>4, <1>5, <1>6, <1>7, <1>8, <1>9, <1>10, <1>11, <1>12, <1>13, <1>14, <1>15, <1>16, <1>17, <1>18, <1>19, <1>20, <1>21, <1>22, <1>23
       DEF Next, ClientStep, HolderStep, Replay

(* The lines of a file after an append: the old ones, and the new or merged *)
(* one at the end.                                                          *)
LEMMA AppendLineElements ==
    ASSUME NEW w \in Seq(Line), NEW line \in Line
    PROVE  \A i \in 1..Len(AppendLine(w, line)) :
              \/ i \in 1..Len(w) /\ AppendLine(w, line)[i] = w[i]
              \/ AppendLine(w, line)[i] = line
              \/ AppendLine(w, line)[i] = Merged(LastOf(w), line)
  <1>1. CASE w = <<>> \/ LastOf(w).nl
    BY <1>1 DEF AppendLine
  <1>2. CASE ~(w = <<>> \/ LastOf(w).nl)
    BY <1>2 DEF AppendLine
  <1> QED BY <1>1, <1>2

(* The shapes of lines, as a property of a file.                            *)
ShapedFile(w) ==
    \A i \in 1..Len(w) : /\ w[i].kind = "rec" => Shaped(w[i])
                         /\ w[i].kind = "sql" => Len(w[i].stmts) = 1

(* Records, torn lines and merged lines keep a file well-shaped.            *)
LEMMA AppendLineShape ==
    ASSUME NEW w \in Seq(Line), ShapedFile(w), NEW line \in Line,
           line.kind # "sql", line.kind = "rec" => Shaped(line)
    PROVE  ShapedFile(AppendLine(w, line))
  <1> SUFFICES ASSUME NEW i \in 1..Len(AppendLine(w, line))
               PROVE  LET l == AppendLine(w, line)[i]
                      IN /\ l.kind = "rec" => Shaped(l)
                         /\ l.kind = "sql" => Len(l.stmts) = 1
    BY DEF ShapedFile
  <1>1. CASE i \in 1..Len(w) /\ AppendLine(w, line)[i] = w[i]
    BY <1>1 DEF ShapedFile
  <1>2. CASE AppendLine(w, line)[i] = line
    BY <1>2
  <1>3. CASE AppendLine(w, line)[i] = Merged(LastOf(w), line)
    BY <1>3 DEF Merged, BadLine, RawLine
  <1> QED BY <1>1, <1>2, <1>3, AppendLineElements

(* Every step preserves the shapes.                                         *)
LEMMA ShapeStep == BaseInv /\ [Next]_vars => ShapeInv'
  <1> SUFFICES ASSUME BaseInv, [Next]_vars PROVE ShapeInv'
    OBVIOUS
  <1> USE DEF BaseInv, memVars, diskVars, ghostVars
  <1>1. ASSUME NEW s \in Session, Begin(s) PROVE ShapeInv'
    BY <1>1, Parts DEF Begin, ShapeInv, Shaped, InTxn, Idle, LockFree, LockInv, Critical, TypeOK
  <1>2. ASSUME NEW s \in Session, Rollback(s) PROVE ShapeInv'
    BY <1>2, Parts DEF Rollback, ShapeInv, Shaped, InTxn, Idle, LockFree, LockInv, Critical, TypeOK
  <1>3. ASSUME NEW s \in Session, CommitWithoutLog(s) PROVE ShapeInv'
    BY <1>3, Parts DEF CommitWithoutLog, ShapeInv, Shaped, InTxn, Idle, LockFree, LockInv, Critical, TypeOK
  <1>4. ASSUME NEW s \in Session, CommitBegin(s) PROVE ShapeInv'
    BY <1>4, Parts DEF CommitBegin, ShapeInv, Shaped, InTxn, Idle, LockFree, LockInv, Critical, TypeOK
  <1>5. ASSUME NEW s \in Session, NEW st \in Stmt, NEW durable \in Durable(st),
               ExecuteInTxn(s, st, durable) PROVE ShapeInv'
    <2>1. Shaped(txn[s])
      BY <1>5 DEF ExecuteInTxn, ShapeInv
    <2>2. Shaped(txn'[s])
      <3>1. /\ txn'[s].stmts = Append(txn[s].stmts, durable)
            /\ txn'[s].trace = Append(txn[s].trace, Run(LastOf(txn[s].trace), st))
        BY <1>5 DEF ExecuteInTxn, Run, TypeOK
      <3>2. txn[s].stmts \in Seq(Stmt) /\ txn[s].trace \in Seq(Content)
        BY Parts
      <3>3. /\ Len(txn'[s].stmts) = Len(txn[s].stmts) + 1
            /\ Len(txn'[s].trace) = Len(txn[s].trace) + 1
        <4>1. \A q \in Seq(Stmt) : \A e : Len(Append(q, e)) = Len(q) + 1
          OBVIOUS
        <4>2. \A q \in Seq(Content) : \A e : Len(Append(q, e)) = Len(q) + 1
          OBVIOUS
        <4> QED BY <3>1, <3>2, <4>1, <4>2
      <3> QED BY <2>1, <3>3 DEF Shaped
    <2>3. \A t \in Session : t # s => txn'[t] = txn[t]
      BY <1>5 DEF ExecuteInTxn, TypeOK
    <2> QED BY <2>2, <2>3, <1>5 DEF ExecuteInTxn, ShapeInv, Shaped, InTxn
  <1>6. ASSUME NEW s \in Session, NEW st \in Stmt, NEW durable \in Durable(st),
               AutocommitBegin(s, st, durable) PROVE ShapeInv'
    <2>1. Shaped(work)'
      BY <1>6 DEF AutocommitBegin, Shaped
    <2>2. UNCHANGED <<txn, wal>>
      BY <1>6 DEF AutocommitBegin
    <2> QED BY <2>1, <2>2 DEF ShapeInv, Shaped, InTxn
  <1>7. ASSUME NEW s \in Session, SaveBegin(s) PROVE ShapeInv'
    BY <1>7, Parts DEF SaveBegin, ShapeInv, Shaped, InTxn, Idle, LockFree, LockInv, Critical, TypeOK
  <1>8. ASSUME NEW s \in Session, LogOk(s) PROVE ShapeInv'
    <2>1. WalRecord(work, TRUE) \in Line
      BY ConstantTypes DEF TypeOK
    <2>2. Shaped(WalRecord(work, TRUE)) /\ WalRecord(work, TRUE).kind = "rec"
      BY <1>8 DEF LogOk, ShapeInv, Shaped, WalRecord
    <2>3. ShapedFile(wal)
      BY DEF ShapeInv, ShapedFile
    <2>4. ShapedFile(AppendLine(wal, WalRecord(work, TRUE)))
      BY <2>1, <2>2, <2>3, AppendLineShape DEF TypeOK
    <2>5. ShapedFile(wal')
      BY <2>3, <2>4, <1>8 DEF LogOk
    <2> QED BY <2>5, <1>8 DEF LogOk, ShapeInv, ShapedFile, InTxn, TypeOK, Shaped
  <1>9. ASSUME NEW s \in Session, Publish(s) PROVE ShapeInv'
    BY <1>9, Parts DEF Publish, ShapeInv, Shaped, InTxn, Idle, LockFree, LockInv, Critical, TypeOK
  <1>10. ASSUME NEW s \in Session, SaveRename(s) PROVE ShapeInv'
    BY <1>10, Parts DEF SaveRename, ShapeInv, Shaped, InTxn, Idle, LockFree, LockInv, Critical, TypeOK
  <1>11. ASSUME NEW s \in Session, SaveArchive(s) PROVE ShapeInv'
    BY <1>11, Parts DEF SaveArchive, ShapeInv, Shaped, InTxn, Idle, LockFree, LockInv, Critical, TypeOK
  <1>12. ASSUME NEW s \in Session, SaveEnd(s) PROVE ShapeInv'
    BY <1>12, Parts DEF SaveEnd, ShapeInv, Shaped, InTxn, Idle, LockFree, LockInv, Critical, TypeOK
  <1>13. ASSUME NEW s \in Session, LogErr(s) PROVE ShapeInv'
    <2>1. ShapedFile(wal)
      BY DEF ShapeInv, ShapedFile
    <2>2. ASSUME NEW line \in FailedWrites PROVE ShapedFile(AppendLine(wal, line))
      <3>1. line \in Line /\ line.kind # "sql" /\ (line.kind = "rec" => Shaped(line))
        <4>1. /\ line \in Line
              /\ line.kind \in {"bad", "raw"} \/ \E b \in BOOLEAN : line = WalRecord(work, b)
          BY WrittenLines DEF TypeOK
        <4>2. Shaped(work)
          BY <1>13 DEF LogErr, ShapeInv
        <4>3. \A b \in BOOLEAN : Shaped(WalRecord(work, b)) /\ WalRecord(work, b).kind = "rec"
          BY <4>2 DEF Shaped, WalRecord
        <4> QED BY <4>1, <4>3
      <3> QED BY <2>1, <3>1, AppendLineShape DEF TypeOK
    <2>7. ShapedFile(wal')
      BY <2>1, <2>2, <1>13 DEF LogErr
    <2>8. \A t \in Session : InTxn(t)' => Shaped(txn'[t])
      BY <1>13 DEF LogErr, ShapeInv, InTxn, TypeOK, Shaped
    <2>9. \A t \in Session : pc'[t] \notin {"log", "publish"}
      BY <1>13 DEF LogErr, TypeOK, LockInv, Critical
    <2> QED BY <2>7, <2>8, <2>9 DEF ShapeInv, ShapedFile
  <1>14. ASSUME NEW s \in Session, SaveErr(s) PROVE ShapeInv'
    BY <1>14, Parts DEF SaveErr, ShapeInv, Shaped, InTxn, Idle, LockFree, LockInv, Critical, TypeOK
  <1>15. CASE Crash
    <2>1. ShapedFile(wal)
      BY DEF ShapeInv, ShapedFile
    <2>2. ASSUME NEW s \in Session, pc[s] = "log", NEW line \in CrashTails
          PROVE  ShapedFile(AppendLine(wal, line))
      <3>1. line \in Line /\ line.kind # "sql" /\ (line.kind = "rec" => Shaped(line))
        <4>1. /\ line \in Line
              /\ line.kind \in {"bad", "raw"} \/ \E b \in BOOLEAN : line = WalRecord(work, b)
          BY WrittenLines DEF TypeOK
        <4>2. Shaped(work)
          BY <2>2 DEF ShapeInv
        <4>3. \A b \in BOOLEAN : Shaped(WalRecord(work, b)) /\ WalRecord(work, b).kind = "rec"
          BY <4>2 DEF Shaped, WalRecord
        <4> QED BY <4>1, <4>3
      <3> QED BY <2>1, <3>1, AppendLineShape DEF TypeOK
    <2>3. ShapedFile(wal')
      BY <2>1, <2>2, <1>15 DEF Crash, CrashTail
    <2> QED BY <2>3, <1>15 DEF Crash, ShapeInv, ShapedFile, InTxn
  <1>16. CASE Open
    BY <1>16, Parts DEF Open, LoadCatalog, ShapeInv, Shaped, InTxn, Idle, LockFree, LockInv, Critical, TypeOK
  <1>17. CASE ReplaySkip
    BY <1>17, Parts DEF ReplaySkip, ShapeInv, Shaped, InTxn, Idle, LockFree, LockInv, Critical, TypeOK
  <1>18. CASE ReplayStatement
    BY <1>18, Parts DEF ReplayStatement, ShapeInv, Shaped, InTxn, Idle, LockFree, LockInv, Critical, TypeOK
  <1>19. CASE ReplayRecordEnd
    BY <1>19, Parts DEF ReplayRecordEnd, ShapeInv, Shaped, InTxn, Idle, LockFree, LockInv, Critical, TypeOK
  <1>20. CASE ReplayLegacy
    BY <1>20, Parts DEF ReplayLegacy, ShapeInv, Shaped, InTxn, Idle, LockFree, LockInv, Critical, TypeOK
  <1>21. CASE ReplayEnd
    BY <1>21, Parts DEF ReplayEnd, ShapeInv, Shaped, InTxn, Idle, LockFree, LockInv, Critical, TypeOK
  <1>22. CASE ReplayUnreadable
    BY <1>22, Parts DEF ReplayUnreadable, ShapeInv, Shaped, InTxn, Idle, LockFree, LockInv, Critical, TypeOK
  <1>23. CASE UNCHANGED vars
    BY <1>23 DEF vars, ShapeInv, InTxn
  <1> QED
    BY <1>1, <1>2, <1>3, <1>4, <1>5, <1>6, <1>7, <1>8, <1>9, <1>10, <1>11, <1>12, <1>13, <1>14, <1>15, <1>16, <1>17, <1>18, <1>19, <1>20, <1>21, <1>22, <1>23
       DEF Next, ClientStep, HolderStep, Replay

(* Type correctness: in every reachable state each variable has its type.   *)
THEOREM TypeCorrect == Spec => []TypeOK
  <1>1. Init => BaseInv
    BY BaseInit
  <1>2. BaseInv /\ [Next]_vars => BaseInv'
    BY TypeStep, LockStep, ShapeStep DEF BaseInv
  <1>3. BaseInv => TypeOK
    BY DEF BaseInv
  <1> QED BY <1>1, <1>2, <1>3, PTL DEF Spec

-----------------------------------------------------------------------------
(* Layer two: equal versions mean equal contents                            *)

(* Every step preserves the view layer.                                     *)
LEMMA ViewStep == BaseInv /\ ViewInv /\ [Next]_vars => ViewInv'
  <1> SUFFICES ASSUME BaseInv, ViewInv, [Next]_vars PROVE ViewInv'
    OBVIOUS
  <1> USE DEF BaseInv, memVars, diskVars, ghostVars
  <1>1. ASSUME NEW s \in Session, Begin(s) PROVE ViewInv'
    <2>1. /\ txn'[s].base = mem.version /\ txn'[s].trace[1] = mem.content
          /\ \A t \in Session : t # s => txn'[t] = txn[t]
      BY <1>1 DEF Begin, TypeOK
    <2> QED BY <2>1, <1>1, Parts DEF Begin, ViewInv, InTxn
  <1>2. ASSUME NEW s \in Session, Rollback(s) PROVE ViewInv'
    BY <1>2, Parts DEF Rollback, ViewInv, InTxn, Idle, LockFree, LockInv, Critical, TypeOK
  <1>3. ASSUME NEW s \in Session, CommitWithoutLog(s) PROVE ViewInv'
    BY <1>3, Parts DEF CommitWithoutLog, ViewInv, InTxn, Idle, LockFree, LockInv, Critical, TypeOK
  <1>4. ASSUME NEW s \in Session, CommitBegin(s) PROVE ViewInv'
    BY <1>4, Parts DEF CommitBegin, ViewInv, InTxn, Idle, LockFree, LockInv, Critical, TypeOK
  <1>5. ASSUME NEW s \in Session, NEW st \in Stmt, NEW durable \in Durable(st),
               ExecuteInTxn(s, st, durable) PROVE ViewInv'
    <2>1. /\ txn'[s].base = txn[s].base
          /\ txn'[s].trace = Append(txn[s].trace, Run(LastOf(txn[s].trace), st))
      BY <1>5 DEF ExecuteInTxn, Run, TypeOK
    <2>2. txn'[s].trace[1] = txn[s].trace[1]
      BY <1>5, <2>1, Parts DEF ExecuteInTxn, ShapeInv, Shaped
    <2>3. \A t \in Session : t # s => txn'[t] = txn[t]
      BY <1>5 DEF ExecuteInTxn, TypeOK
    <2> QED BY <2>1, <2>2, <2>3, <1>5 DEF ExecuteInTxn, ViewInv, InTxn
  <1>6. ASSUME NEW s \in Session, NEW st \in Stmt, NEW durable \in Durable(st),
               AutocommitBegin(s, st, durable) PROVE ViewInv'
    BY <1>6, Parts DEF AutocommitBegin, ViewInv, InTxn, Idle, LockFree, LockInv, Critical, TypeOK
  <1>7. ASSUME NEW s \in Session, SaveBegin(s) PROVE ViewInv'
    BY <1>7, Parts DEF SaveBegin, ViewInv, InTxn, Idle, LockFree, LockInv, Critical, TypeOK
  <1>8. ASSUME NEW s \in Session, LogOk(s) PROVE ViewInv'
    BY <1>8, Parts DEF LogOk, ViewInv, InTxn, Idle, LockFree, LockInv, Critical, TypeOK
  <1>9. ASSUME NEW s \in Session, Publish(s) PROVE ViewInv'
    <2>1. mem'.version = mem.version + 1
      BY <1>9 DEF Publish, ViewInv
    <2>2. \A t \in Session : pc'[t] \notin {"log", "publish"}
      BY <1>9 DEF Publish, TypeOK, LockInv, Critical
    <2> QED BY <2>1, <2>2, <1>9, Parts DEF Publish, ViewInv, InTxn
  <1>10. ASSUME NEW s \in Session, SaveRename(s) PROVE ViewInv'
    BY <1>10, Parts DEF SaveRename, ViewInv, InTxn, Idle, LockFree, LockInv, Critical, TypeOK
  <1>11. ASSUME NEW s \in Session, SaveArchive(s) PROVE ViewInv'
    BY <1>11, Parts DEF SaveArchive, ViewInv, InTxn, Idle, LockFree, LockInv, Critical, TypeOK
  <1>12. ASSUME NEW s \in Session, SaveEnd(s) PROVE ViewInv'
    BY <1>12, Parts DEF SaveEnd, ViewInv, InTxn, Idle, LockFree, LockInv, Critical, TypeOK
  <1>13. ASSUME NEW s \in Session, LogErr(s) PROVE ViewInv'
    <2>1. \A t \in Session : pc'[t] \notin {"log", "publish"}
      BY <1>13 DEF LogErr, TypeOK, LockInv, Critical
    <2>2. \A t \in Session : txn'[t] = txn[t] \/ txn'[t] = work
      BY <1>13 DEF LogErr, TypeOK
    <2>3. work.base = mem.version /\ work.trace[1] = mem.content
      BY <1>13 DEF LogErr, ViewInv
    <2> QED BY <2>1, <2>2, <2>3, <1>13, Parts DEF LogErr, ViewInv, InTxn
  <1>14. ASSUME NEW s \in Session, SaveErr(s) PROVE ViewInv'
    BY <1>14, Parts DEF SaveErr, ViewInv, InTxn, Idle, LockFree, LockInv, Critical, TypeOK
  <1>15. CASE Crash
    BY <1>15, Parts DEF Crash, ViewInv, InTxn, Idle, LockFree, LockInv, Critical, TypeOK
  <1>16. CASE Open
    BY <1>16, Parts DEF Open, LoadCatalog, ViewInv, InTxn, Idle, LockFree, LockInv, Critical, TypeOK
  <1>17. CASE ReplaySkip
    BY <1>17, Parts DEF ReplaySkip, ViewInv, InTxn, Idle, LockFree, LockInv, Critical, TypeOK, Replaying
  <1>18. CASE ReplayStatement
    BY <1>18, Parts DEF ReplayStatement, ViewInv, InTxn, Idle, LockFree, LockInv, Critical, TypeOK, Replaying
  <1>19. CASE ReplayRecordEnd
    BY <1>19, Parts DEF ReplayRecordEnd, ViewInv, InTxn, Idle, LockFree, LockInv, Critical, TypeOK, Replaying
  <1>20. CASE ReplayLegacy
    BY <1>20, Parts DEF ReplayLegacy, ViewInv, InTxn, Idle, LockFree, LockInv, Critical, TypeOK, Replaying
  <1>21. CASE ReplayEnd
    BY <1>21, Parts DEF ReplayEnd, ViewInv, InTxn, Idle, LockFree, LockInv, Critical, TypeOK, Replaying
  <1>22. CASE ReplayUnreadable
    BY <1>22, Parts DEF ReplayUnreadable, ViewInv, InTxn, Idle, LockFree, LockInv, Critical, TypeOK, Replaying
  <1>23. CASE UNCHANGED vars
    BY <1>23 DEF vars, ViewInv, InTxn
  <1> QED
    BY <1>1, <1>2, <1>3, <1>4, <1>5, <1>6, <1>7, <1>8, <1>9, <1>10, <1>11, <1>12, <1>13, <1>14, <1>15, <1>16, <1>17, <1>18, <1>19, <1>20, <1>21, <1>22, <1>23
       DEF Next, ClientStep, HolderStep, Replay

(* No lost update: for every executor and any interleaving of sessions,     *)
(* saves, faults and crashes, a record is only ever logged on top of the    *)
(* contents its transaction started from, although commit compares nothing  *)
(* but version numbers.                                                     *)
THEOREM NoLostUpdateHolds == Spec => []NoLostUpdate
  <1>1. Init => BaseInv /\ ViewInv
    BY BaseInit DEF Init, ViewInv, InTxn
  <1>2. BaseInv /\ ViewInv /\ [Next]_vars => (BaseInv /\ ViewInv)'
    BY TypeStep, LockStep, ShapeStep, ViewStep DEF BaseInv
  <1>3. BaseInv /\ ViewInv => NoLostUpdate
    BY DEF ViewInv, NoLostUpdate
  <1> QED BY <1>1, <1>2, <1>3, PTL DEF Spec

-----------------------------------------------------------------------------
(* Durability. The invariant: what the log, the snapshot and the process    *)
(* know of hist                                                             *)

(* The contents of version v in the history h.                              *)
At(h, v) == IF v = 0 THEN InitContent ELSE h[v]

(* Re-running the statements of r from c goes through the recorded contents.*)
Chain(c, r) ==
    /\ r.trace[1] = c
    /\ \A i \in 1..Len(r.stmts) : Exec(r.trace[i], r.stmts[i]) = r.trace[i + 1]

(* A record re-creates the version it claims.                               *)
RecordOf(h, r) ==
    /\ r.commit = r.base + 1
    /\ r.base <= Len(h)
    /\ Chain(At(h, r.base), r)
    /\ r.commit <= Len(h) => LastOf(r.trace) = h[r.commit]

(* The log is a run of consecutive records; only its last line may be       *)
(* damaged or lack its newline.                                             *)
LogOf(w, h) ==
    \A i \in 1..Len(w) :
        /\ w[i].kind \in {"rec", "bad", "raw"}
        /\ i < Len(w) => w[i].kind = "rec" /\ w[i].nl
        /\ w[i].kind = "rec" => RecordOf(h, w[i]) /\ w[i].base = w[1].base + (i - 1)
        /\ w[i].kind # "rec" => ~w[i].nl

(* The last record, if there is one, reaches the newest visible version.    *)
Reaches(w, n) ==
    \A i \in 1..Len(w) :
        w[i].kind = "rec" /\ (i < Len(w) => w[i + 1].kind # "rec") => w[i].commit >= n

NoRecord(w) == Len(w) > 0 => w[1].kind # "rec"

(* The snapshot is a past version that the log continues.                   *)
SnapshotOf(sn, h, w) ==
    /\ sn.version <= Len(h)
    /\ sn.content = At(h, sn.version)
    /\ ~NoRecord(w) => w[1].base <= sn.version
    /\ NoRecord(w) => sn.version = Len(h)

Disk(w, h, sn) == LogOf(w, h) /\ Reaches(w, Len(h)) /\ SnapshotOf(sn, h, w)

DiskInv == Disk(wal, hist, snapshot)

(* The running process: the catalog is the newest version, what the lock    *)
(* holder commits can be run again from there, and it has logged what it    *)
(* publishes.                                                               *)
MemInv == mem.version = Len(hist) /\ mem.content = At(hist, Len(hist))

HolderInv ==
    \A s \in Session :
        /\ pc[s] \in {"log", "publish"} => Chain(mem.content, work)
        /\ pc[s] = "publish" => Len(wal) > 0 /\ LastOf(wal) = WalRecord(work, TRUE)
        /\ pc[s] \in {"saveWal", "saveReopen"} => snapshot.version = Len(hist)

OpenInv == phase = "open" => MemInv /\ HolderInv

(* Replay has reached a past version and re-executes towards the newest.    *)
ReplayInv ==
    phase = "replay" =>
        /\ snapshot.version <= mem.version /\ mem.version <= Len(hist)
        /\ pos <= Len(wal) + 1
        /\ \A i \in 1..(pos - 1) : wal[i].kind = "rec" /\ wal[i].commit <= mem.version
        /\ idx = 1 => mem.content = At(hist, mem.version)
        /\ idx > 1 => /\ pos <= Len(wal) /\ wal[pos].kind = "rec"
                      /\ wal[pos].base = mem.version
                      /\ idx <= Len(wal[pos].stmts) + 1
                      /\ mem.content = wal[pos].trace[idx]

FailedInv == phase = "failed" => \E i \in 1..Len(wal) : wal[i].kind = "raw"

Good == DiskInv /\ OpenInv /\ ReplayInv /\ FailedInv

(* Nothing is claimed once a recorded hazard has struck.                    *)
DurInv == taint = {} => Good

-----------------------------------------------------------------------------
(* Lemmas on histories, records and files                                   *)

(* A new version leaves the older ones alone.                               *)
LEMMA AtGrows ==
    ASSUME NEW h \in Seq(Content), NEW c \in Content, NEW v \in 0..Len(h)
    PROVE  At(Append(h, c), v) = At(h, v)
  BY DEF At

(* A record carries the statements and the contents of its transaction.     *)
LEMMA ChainRecord ==
    ASSUME NEW c, NEW w \in Txn, NEW b
    PROVE  Chain(c, w) <=> Chain(c, WalRecord(w, b))
  BY DEF Chain, WalRecord

(* What is logged without a taint does on replay what it did in the session.*)
LEMMA ChainUnfolded ==
    ASSUME NEW c, NEW r, r.trace[1] = c, FoldTaint(r) = {}
    PROVE  Chain(c, r)
  BY DEF Chain, FoldTaint

-----------------------------------------------------------------------------
(* The file system side: what an append and a new version do to Disk        *)

(* The line a log call for the newest version writes: damaged bytes, or the *)
(* record of that version.                                                  *)
NextLine(h, line) ==
    \/ line.kind \in {"bad", "raw"} /\ ~line.nl
    \/ /\ line.kind = "rec" /\ line.base = Len(h) /\ line.commit = Len(h) + 1
       /\ Chain(At(h, Len(h)), line)

(* The first line of a log.                                                 *)
LEMMA DiskAppendFirst ==
    ASSUME NEW h \in Seq(Content), NEW line \in Line, NextLine(h, line),
           NEW sn \in Catalog, Disk(<<>>, h, sn)
    PROVE  Disk(<<line>>, h, sn)
  <1>1. sn.version = Len(h) /\ sn.content = At(h, sn.version)
    BY DEF Disk, SnapshotOf, NoRecord
  <1>2. line.kind \in {"rec", "bad", "raw"} /\ line.base \in Nat /\ line.commit \in Nat
    BY DEF NextLine, Line
  <1>3. line.kind = "rec" => RecordOf(h, line)
    BY <1>2 DEF NextLine, RecordOf
  <1>4. LogOf(<<line>>, h)
    BY <1>2, <1>3 DEF NextLine, LogOf
  <1>5. Reaches(<<line>>, Len(h))
    BY <1>2 DEF NextLine, Reaches
  <1>6. SnapshotOf(sn, h, <<line>>)
    BY <1>1, <1>2 DEF NextLine, SnapshotOf, NoRecord
  <1> QED BY <1>4, <1>5, <1>6 DEF Disk

(* Damaged bytes behind damaged bytes stay one damaged line.                *)
LEMMA DiskAppendDamaged ==
    ASSUME NEW w \in Seq(Line), NEW h \in Seq(Content), NEW line \in Line,
           NEW sn \in Catalog, Disk(w, h, sn), w # <<>>, LastOf(w).kind # "rec",
           line.kind \in {"bad", "raw"}, ~line.nl
    PROVE  Disk(AppendLine(w, line), h, sn)
  <1> DEFINE n == Len(w)
             v == AppendLine(w, line)
  <1>0. n \in Nat /\ n > 0
    OBVIOUS
  <1>1. ~w[n].nl /\ w[n].kind # "rec"
    BY <1>0 DEF Disk, LogOf, LastOf
  <1>2. v = [w EXCEPT ![n] = Merged(LastOf(w), line)]
    BY <1>1 DEF AppendLine, LastOf
  <1>3. Merged(LastOf(w), line).kind \in {"bad", "raw"} /\ ~Merged(LastOf(w), line).nl
    BY DEF Merged, BadLine, RawLine
  <1>4. /\ Len(v) = n
        /\ \A i \in 1..n : i # n => v[i] = w[i]
        /\ v[n].kind \in {"bad", "raw"} /\ ~v[n].nl
    BY <1>0, <1>2, <1>3
  <1> HIDE DEF v
  <1>5. \A i \in 1..n : w[i].kind = "rec" => i # n
    BY <1>1
  <1>6. LogOf(v, h)
    <2> SUFFICES ASSUME NEW i \in 1..n
                 PROVE  /\ v[i].kind \in {"rec", "bad", "raw"}
                        /\ i < n => v[i].kind = "rec" /\ v[i].nl
                        /\ v[i].kind = "rec" => RecordOf(h, v[i]) /\ v[i].base = v[1].base + (i - 1)
                        /\ v[i].kind # "rec" => ~v[i].nl
      BY <1>4 DEF LogOf
    <2>1. CASE i = n
      BY <2>1, <1>0, <1>4
    <2>2. CASE i # n
      <3>1. v[i] = w[i] /\ v[1] = w[1]
        BY <2>2, <1>0, <1>4
      <3> QED BY <3>1 DEF Disk, LogOf
    <2> QED BY <2>1, <2>2
  <1>7. Reaches(v, Len(h))
    <2> SUFFICES ASSUME NEW i \in 1..n, v[i].kind = "rec", i < n => v[i + 1].kind # "rec"
                 PROVE  v[i].commit >= Len(h)
      BY <1>4 DEF Reaches
    <2>1. i # n /\ v[i] = w[i]
      BY <1>4
    <2>2. w[i + 1].kind # "rec"
      BY <2>1, <1>0, <1>1, <1>4
    <2> QED BY <2>1, <2>2 DEF Disk, Reaches
  <1>8. v[1].kind = "rec" <=> w[1].kind = "rec"
    BY <1>0, <1>1, <1>4
  <1>9. w[1].kind = "rec" => v[1] = w[1]
    BY <1>0, <1>1, <1>4
  <1>10. SnapshotOf(sn, h, v)
    BY <1>0, <1>4, <1>8, <1>9 DEF Disk, SnapshotOf, NoRecord
  <1> QED BY <1>6, <1>7, <1>10 DEF Disk, v

(* A line behind a complete record: damaged bytes, or the next record.      *)
LEMMA DiskAppendBehind ==
    ASSUME NEW w \in Seq(Line), NEW h \in Seq(Content), NEW line \in Line,
           NEW sn \in Catalog, Disk(w, h, sn), NextLine(h, line),
           w # <<>>, LastOf(w).kind = "rec", LastOf(w).nl,
           line.kind = "rec" => LastOf(w).commit < line.commit
    PROVE  Disk(Append(w, line), h, sn)
  <1> DEFINE n == Len(w)
             v == Append(w, line)
  <1>0. n \in Nat /\ n > 0
    OBVIOUS
  <1>1. /\ Len(v) = n + 1 /\ v[n + 1] = line
        /\ \A i \in 1..n : v[i] = w[i]
    BY <1>0
  <1> HIDE DEF v
  <1>2. line.kind \in {"rec", "bad", "raw"} /\ line.base \in Nat /\ line.commit \in Nat
    BY DEF NextLine, Line
  <1>3. /\ w[n].kind = "rec" /\ w[n].nl /\ w[n].base \in Nat /\ w[n].commit \in Nat
        /\ w[1].base \in Nat
    <2>1. w[n] \in Line /\ w[1] \in Line /\ LastOf(w) = w[n]
      BY <1>0 DEF LastOf
    <2> QED BY <2>1 DEF Line
  <1>4. /\ w[n].commit = w[n].base + 1 /\ w[n].base = w[1].base + (n - 1)
        /\ w[n].commit >= Len(h)
    BY <1>0, <1>3 DEF Disk, LogOf, Reaches, RecordOf
  <1>5. line.kind = "rec" => RecordOf(h, line) /\ line.base = w[1].base + n
    <2>1. SUFFICES ASSUME line.kind = "rec"
                   PROVE  RecordOf(h, line) /\ line.base = w[1].base + n
      OBVIOUS
    <2>2. line.base = Len(h) /\ line.commit = Len(h) + 1 /\ Chain(At(h, line.base), line)
      BY <2>1 DEF NextLine
    <2>3. w[n].commit < line.commit
      BY <2>1 DEF LastOf
    <2>4. Len(h) \in Nat
      OBVIOUS
    <2> QED BY <2>2, <2>3, <2>4, <1>0, <1>3, <1>4 DEF RecordOf
  <1>6. LogOf(v, h)
    <2> SUFFICES ASSUME NEW i \in 1..(n + 1)
                 PROVE  /\ v[i].kind \in {"rec", "bad", "raw"}
                        /\ i < n + 1 => v[i].kind = "rec" /\ v[i].nl
                        /\ v[i].kind = "rec" => RecordOf(h, v[i]) /\ v[i].base = v[1].base + (i - 1)
                        /\ v[i].kind # "rec" => ~v[i].nl
      BY <1>1 DEF LogOf
    <2>0. v[1] = w[1]
      BY <1>0, <1>1
    <2>1. CASE i = n + 1
      BY <2>0, <2>1, <1>0, <1>1, <1>2, <1>5 DEF NextLine
    <2>2. CASE i \in 1..n
      <3>1. v[i] = w[i]
        BY <2>2, <1>1
      <3>2. i < n \/ i = n
        BY <2>2, <1>0
      <3> QED BY <2>0, <2>2, <3>1, <3>2, <1>3 DEF Disk, LogOf
    <2> QED BY <2>1, <2>2, <1>0
  <1>7. Reaches(v, Len(h))
    <2> SUFFICES ASSUME NEW i \in 1..(n + 1), v[i].kind = "rec",
                        i < n + 1 => v[i + 1].kind # "rec"
                 PROVE  v[i].commit >= Len(h)
      BY <1>1 DEF Reaches
    <2>1. CASE i = n + 1
      BY <2>1, <1>1, <1>2 DEF NextLine
    <2>2. CASE i = n
      BY <2>2, <1>0, <1>1, <1>4
    <2>3. CASE i \in 1..(n - 1)
      BY <2>3, <1>0, <1>1 DEF Disk, Reaches
    <2> QED BY <2>1, <2>2, <2>3, <1>0
  <1>8. SnapshotOf(sn, h, v)
    BY <1>0, <1>1 DEF Disk, SnapshotOf, NoRecord
  <1> QED BY <1>6, <1>7, <1>8 DEF Disk, v

(* An append that taints nothing keeps the files in order, and a complete   *)
(* record becomes their last line.                                          *)
LEMMA DiskAppend ==
    ASSUME NEW w \in Seq(Line), NEW h \in Seq(Content), NEW line \in Line,
           NEW sn \in Catalog, Disk(w, h, sn), NextLine(h, line),
           AppendTaint(w, line) = {}
    PROVE  /\ Disk(AppendLine(w, line), h, sn)
           /\ line.kind = "rec" => /\ Len(AppendLine(w, line)) > 0
                                   /\ LastOf(AppendLine(w, line)) = line
  <1>0. line.kind = "rec" => line.commit \in Nat
    BY DEF Line
  <1>1. CASE w = <<>>
    <2>1. AppendLine(w, line) = <<line>>
      BY <1>1 DEF AppendLine
    <2>2. Disk(<<line>>, h, sn)
      BY <1>1, DiskAppendFirst
    <2> QED BY <2>1, <2>2 DEF LastOf
  <1>2. CASE w # <<>> /\ LastOf(w).kind # "rec"
    <2>1. LastOf(w).kind \in {"bad", "raw"}
      BY <1>2 DEF Disk, LogOf, LastOf
    <2>2. line.kind \in {"bad", "raw"}
      BY <1>2, <2>1 DEF AppendTaint, Damaged
    <2>3. ~line.nl
      BY <2>2 DEF NextLine
    <2> QED BY <1>2, <2>2, <2>3, DiskAppendDamaged
  <1>3. CASE w # <<>> /\ LastOf(w).kind = "rec"
    <2>1. LastOf(w).nl
      BY <1>3 DEF AppendTaint, Damaged
    <2>2. line.kind = "rec" => ~(LastOf(w).commit >= line.commit)
      BY <1>3, <2>1 DEF AppendTaint, Damaged
    <2>3. LastOf(w).commit \in Nat
      <3>1. LastOf(w) \in Line
        BY <1>3, LastOfType
      <3> QED BY <3>1 DEF Line
    <2>4. line.kind = "rec" => LastOf(w).commit < line.commit
      BY <2>2, <2>3, <1>0
    <2>5. AppendLine(w, line) = Append(w, line)
      BY <2>1 DEF AppendLine
    <2>6. Len(AppendLine(w, line)) > 0 /\ LastOf(AppendLine(w, line)) = line
      BY <2>5 DEF LastOf
    <2> QED BY <1>3, <2>1, <2>4, <2>5, <2>6, DiskAppendBehind
  <1> QED BY <1>1, <1>2, <1>3


(* A version enters the history: its record is in the log, so the log       *)
(* reaches it.                                                              *)
LEMMA DiskGrows ==
    ASSUME NEW w \in Seq(Line), NEW h \in Seq(Content), NEW c \in Content,
           NEW sn \in Catalog, Disk(w, h, sn),
           NEW k \in 1..Len(w), w[k].kind = "rec", w[k].commit = Len(h) + 1,
           LastOf(w[k].trace) = c
    PROVE  Disk(w, Append(h, c), sn)
  <1> DEFINE g == Append(h, c)
  <1>0. Len(h) \in Nat /\ Len(w) \in Nat
    OBVIOUS
  <1>1. Len(g) = Len(h) + 1 /\ g[Len(h) + 1] = c /\ \A v \in 1..Len(h) : g[v] = h[v]
    BY <1>0
  <1>2. \A v \in 0..Len(h) : At(g, v) = At(h, v)
    BY AtGrows
  <1> HIDE DEF g
  <1>3. \A i \in 1..Len(w) : w[i].base \in Nat /\ w[i].commit \in Nat
    <2> TAKE i \in 1..Len(w)
    <2>1. w[i] \in Line
      OBVIOUS
    <2> QED BY <2>1 DEF Line
  <1>4. /\ w[k].base = Len(h) /\ w[k].base = w[1].base + (k - 1)
        /\ w[1].base \in Nat
    <2>1. RecordOf(h, w[k]) /\ w[k].base = w[1].base + (k - 1)
      BY DEF Disk, LogOf
    <2> QED BY <2>1, <1>0, <1>3 DEF RecordOf
  <1>5. LogOf(w, g)
    <2> SUFFICES ASSUME NEW i \in 1..Len(w), w[i].kind = "rec"
                 PROVE  RecordOf(g, w[i])
      BY DEF Disk, LogOf
    <2>1. RecordOf(h, w[i]) /\ w[i].base = w[1].base + (i - 1)
      BY DEF Disk, LogOf
    <2>2. Chain(At(g, w[i].base), w[i])
      BY <2>1, <1>0, <1>2, <1>3 DEF RecordOf
    <2>3. CASE w[i].commit <= Len(h)
      <3>1. g[w[i].commit] = h[w[i].commit]
        BY <2>1, <2>3, <1>0, <1>1, <1>3 DEF RecordOf
      <3> QED BY <2>1, <2>2, <2>3, <3>1, <1>0, <1>1, <1>3 DEF RecordOf
    <2>4. CASE w[i].commit > Len(h)
      <3>1. w[i].commit = w[i].base + 1 /\ w[i].base <= Len(h)
        BY <2>1 DEF RecordOf
      <3>2. i = k
        <4>1. w[i].base = Len(h) /\ w[i].base = w[1].base + (i - 1)
          BY <2>1, <2>4, <3>1, <1>0, <1>3
        <4>2. w[1].base + (i - 1) = w[1].base + (k - 1) /\ w[1].base \in Nat
          BY <4>1, <1>4
        <4> QED BY <4>2
      <3> QED BY <2>1, <2>2, <3>1, <3>2, <1>0, <1>1, <1>3 DEF RecordOf
    <2> QED BY <2>3, <2>4, <1>0, <1>3
  <1>6. Reaches(w, Len(g))
    <2> SUFFICES ASSUME NEW i \in 1..Len(w), w[i].kind = "rec",
                        i < Len(w) => w[i + 1].kind # "rec"
                 PROVE  w[i].commit >= Len(h) + 1
      BY <1>1 DEF Reaches
    <2>1. RecordOf(h, w[i]) /\ w[i].base = w[1].base + (i - 1)
      BY DEF Disk, LogOf
    <2>2. i >= k
      <3> SUFFICES ASSUME i < k PROVE FALSE
        BY <1>0
      <3>1. i + 1 \in 1..Len(w) /\ w[i + 1].kind # "rec"
        BY <1>0
      <3>2. CASE i + 1 = k
        BY <3>1, <3>2
      <3>3. CASE i + 1 < Len(w)
        BY <3>1, <3>3 DEF Disk, LogOf
      <3> QED BY <3>2, <3>3, <1>0
    <2> QED BY <2>1, <2>2, <1>0, <1>3, <1>4 DEF RecordOf
  <1>7. ~NoRecord(w)
    <2>1. CASE k = 1
      BY <2>1, <1>0 DEF NoRecord
    <2>2. CASE k > 1
      BY <2>2, <1>0 DEF NoRecord, Disk, LogOf
    <2> QED BY <2>1, <2>2
  <1>8. SnapshotOf(sn, g, w)
    <2>1. sn.version \in Nat /\ sn.version <= Len(h) /\ sn.content = At(h, sn.version)
      BY DEF Disk, SnapshotOf, Catalog
    <2>2. w[1].base <= sn.version
      BY <1>7 DEF Disk, SnapshotOf
    <2> QED BY <2>1, <2>2, <1>0, <1>1, <1>2, <1>7 DEF SnapshotOf
  <1> QED BY <1>5, <1>6, <1>8 DEF Disk, g

(* An empty log behind a snapshot of the newest version.                    *)
LEMMA DiskArchived ==
    ASSUME NEW w \in Seq(Line), NEW h \in Seq(Content), NEW sn \in Catalog,
           Disk(w, h, sn), sn.version = Len(h)
    PROVE  Disk(<<>>, h, sn)
  BY DEF Disk, LogOf, Reaches, SnapshotOf, NoRecord

(* A newer snapshot in front of the same log.                               *)
LEMMA DiskSnapshot ==
    ASSUME NEW w \in Seq(Line), NEW h \in Seq(Content), NEW sn \in Catalog,
           NEW new \in Catalog, Disk(w, h, sn),
           new.version = Len(h), new.content = At(h, Len(h))
    PROVE  Disk(w, h, new)
  <1>1. sn.version <= Len(h) /\ sn.version \in Nat /\ Len(h) \in Nat
    BY DEF Disk, SnapshotOf, Catalog
  <1>2. ~NoRecord(w) => w[1].base <= Len(h)
    <2> SUFFICES ASSUME ~NoRecord(w) PROVE w[1].base <= Len(h)
      OBVIOUS
    <2>1. w[1] \in Line /\ w[1].base <= sn.version
      BY DEF NoRecord, Disk, SnapshotOf
    <2>2. w[1].base \in Nat
      BY <2>1 DEF Line
    <2> QED BY <1>1, <2>1, <2>2
  <1> QED BY <1>1, <1>2 DEF Disk, SnapshotOf


-----------------------------------------------------------------------------
(* The process side                                                         *)

(* A session inside a call, or inside a transaction, runs in an open        *)
(* database.                                                                *)
LEMMA BusyIsOpen ==
    ASSUME BaseInv, NEW s \in Session, pc[s] # "idle" \/ InTxn(s)
    PROVE  phase = "open"
  BY DEF BaseInv, LockInv, InTxn

(* The steps of a session that touch neither the files nor the history.     *)
LEMMA QuietStep ==
    ASSUME Good, phase = "open", phase' = "open", MemInv', HolderInv',
           UNCHANGED <<wal, hist, snapshot>>
    PROVE  Good'
  BY DEF Good, DiskInv, OpenInv, ReplayInv, FailedInv

(* The same, for the steps that start or end a transaction or take the lock.*)
LEMMA ClientGood ==
    ASSUME BaseInv, ViewInv, Good, NEW s \in Session, ClientStep(s), taint' = {}
    PROVE  Good'
  <1> USE DEF BaseInv, memVars, diskVars, ghostVars
  <1>0. ASSUME phase = "open" PROVE MemInv /\ HolderInv
    BY <1>0 DEF Good, OpenInv
  <1>1. CASE Begin(s) \/ Rollback(s) \/ CommitWithoutLog(s)
    <2>1. phase = "open"
      BY <1>1 DEF Begin, Rollback, CommitWithoutLog, Idle
    <2>2. UNCHANGED <<phase, mem, pc, work, wal, hist, snapshot>>
      BY <1>1 DEF Begin, Rollback, CommitWithoutLog
    <2>3. MemInv' /\ HolderInv'
      BY <2>1, <2>2, <1>0 DEF MemInv, HolderInv
    <2> QED BY <2>1, <2>2, <2>3, QuietStep
  <1>3. CASE CommitBegin(s)
    <2>1. phase = "open" /\ LockFree /\ InTxn(s) /\ mem.version = txn[s].base
      BY <1>3 DEF CommitBegin, Idle
    <2>2. /\ work' = txn[s] /\ FoldTaint(txn[s]) = {}
          /\ pc'[s] = "log" /\ \A t \in Session : t # s => pc'[t] = pc[t]
      BY <1>3 DEF CommitBegin, TypeOK
    <2>3. UNCHANGED <<phase, mem, wal, hist, snapshot>>
      BY <1>3 DEF CommitBegin
    <2>4. Chain(mem.content, txn[s])
      BY <2>1, <2>2, ChainUnfolded DEF ViewInv
    <2>6. HolderInv'
      BY <2>1, <2>2, <2>3, <2>4 DEF HolderInv, LockFree, Critical
    <2>7. MemInv'
      BY <2>1, <2>3, <1>0 DEF MemInv
    <2> QED BY <2>1, <2>3, <2>6, <2>7, QuietStep
  <1>4. ASSUME NEW st \in Stmt, NEW durable \in Durable(st), ExecuteInTxn(s, st, durable)
        PROVE  Good'
    <2>1. phase = "open"
      BY <1>4 DEF ExecuteInTxn, Idle
    <2>2. UNCHANGED <<phase, mem, pc, work, wal, hist, snapshot>>
      BY <1>4 DEF ExecuteInTxn
    <2>3. MemInv' /\ HolderInv'
      BY <2>1, <2>2, <1>0 DEF MemInv, HolderInv
    <2> QED BY <2>1, <2>2, <2>3, QuietStep
  <1>5. ASSUME NEW st \in Stmt, NEW durable \in Durable(st), AutocommitBegin(s, st, durable)
        PROVE  Good'
    <2>1. phase = "open" /\ LockFree
      BY <1>5 DEF AutocommitBegin, Idle
    <2>2. /\ work'.trace = <<mem.content, Run(mem.content, st)>>
          /\ pc'[s] = "log" /\ \A t \in Session : t # s => pc'[t] = pc[t]
      BY <1>5 DEF AutocommitBegin, Run, TypeOK
    <2>3. UNCHANGED <<phase, mem, txn, wal, hist, snapshot>>
      BY <1>5 DEF AutocommitBegin
    <2>4. Chain(mem.content, work')
      <3>1. FoldTaint(work') = {}
        BY <1>5 DEF AutocommitBegin
      <3>2. work'.trace[1] = mem.content
        BY <2>2
      <3> QED BY <3>1, <3>2, ChainUnfolded
    <2>5. HolderInv'
      BY <2>1, <2>2, <2>3, <2>4 DEF HolderInv, LockFree, Critical
    <2>6. MemInv'
      BY <2>1, <2>3, <1>0 DEF MemInv
    <2> QED BY <2>1, <2>3, <2>5, <2>6, QuietStep
  <1>6. CASE SaveBegin(s)
    <2>1. phase = "open"
      BY <1>6 DEF SaveBegin
    <2>2. pc'[s] = "save" /\ \A t \in Session : t # s => pc'[t] = pc[t]
      BY <1>6 DEF SaveBegin, TypeOK
    <2>3. UNCHANGED <<phase, mem, txn, work, wal, hist, snapshot>>
      BY <1>6 DEF SaveBegin
    <2>4. HolderInv'
      BY <2>1, <2>2, <2>3, <1>0 DEF HolderInv
    <2>5. MemInv'
      BY <2>1, <2>3, <1>0 DEF MemInv
    <2> QED BY <2>1, <2>3, <2>4, <2>5, QuietStep
  <1> QED BY <1>1, <1>3, <1>4, <1>5, <1>6 DEF ClientStep


(* Whatever a log call, failed or interrupted or not, leaves in the file is *)
(* the next line of the log.                                                *)
LEMMA LoggedLine ==
    ASSUME BaseInv, ViewInv, Good, NEW s \in Session, pc[s] = "log",
           NEW line \in FailedWrites \cup CrashTails, AppendTaint(wal, line) = {}
    PROVE  /\ Disk(AppendLine(wal, line), hist, snapshot)
           /\ line.kind = "rec" => /\ Len(AppendLine(wal, line)) > 0
                                   /\ LastOf(AppendLine(wal, line)) = line
  <1>1. MemInv /\ HolderInv
    BY BusyIsOpen DEF Good, OpenInv
  <1>2. work \in Txn /\ line \in Line
    BY WrittenLines DEF BaseInv, TypeOK
  <1>3. NextLine(hist, line)
    <2>1. \/ line \in {BadLine(FALSE), RawLine(FALSE)}
          \/ line \in {WalRecord(work, TRUE), WalRecord(work, FALSE)}
      BY DEF FailedWrites, CrashTails, PartialWrites
    <2>2. CASE line \in {BadLine(FALSE), RawLine(FALSE)}
      BY <2>2 DEF NextLine, BadLine, RawLine
    <2>3. ASSUME NEW b \in BOOLEAN, line = WalRecord(work, b) PROVE NextLine(hist, line)
      <3>1. work.base = Len(hist)
        BY <1>1 DEF ViewInv, MemInv
      <3>2. Chain(At(hist, Len(hist)), line)
        <4>1. Chain(mem.content, work)
          BY <1>1 DEF HolderInv
        <4>2. Chain(mem.content, WalRecord(work, b))
          BY <4>1, <1>2, ChainRecord
        <4> QED BY <4>2, <2>3, <1>1 DEF MemInv
      <3>3. line.kind = "rec" /\ line.base = Len(hist) /\ line.commit = Len(hist) + 1
        BY <2>3, <3>1 DEF WalRecord
      <3> QED BY <3>2, <3>3 DEF NextLine
    <2> QED BY <2>1, <2>2, <2>3
  <1> QED BY <1>2, <1>3, DiskAppend DEF Good, DiskInv, BaseInv, TypeOK

(* Logging and publishing a commit, and the steps of save().                *)
LEMMA HolderGood ==
    ASSUME BaseInv, ViewInv, Good, NEW s \in Session, HolderStep(s), taint' = {}
    PROVE  Good'
  <1> USE DEF BaseInv, memVars, diskVars, ghostVars
  <1>0. ASSUME pc[s] \in Critical
        PROVE  /\ phase = "open" /\ MemInv /\ HolderInv
               /\ \A t \in Session : t # s => pc[t] \notin Critical
    BY <1>0, BusyIsOpen DEF Good, OpenInv, LockInv, Critical
  <1>1. CASE LogOk(s)
    <2> DEFINE line == WalRecord(work, TRUE)
    <2>1. pc[s] = "log"
      BY <1>1 DEF LogOk
    <2>2. /\ phase = "open" /\ MemInv /\ HolderInv
          /\ \A t \in Session : t # s => pc[t] \notin Critical
      BY <2>1, <1>0 DEF Critical
    <2>3. wal' = AppendLine(wal, line) /\ AppendTaint(wal, line) = {}
      BY <1>1 DEF LogOk
    <2>4. pc'[s] = "publish" /\ \A t \in Session : t # s => pc'[t] = pc[t]
      BY <1>1 DEF LogOk, TypeOK
    <2>5. UNCHANGED <<phase, mem, txn, work, snapshot, hist>>
      BY <1>1 DEF LogOk
    <2>6. line \in CrashTails /\ line.kind = "rec"
      BY DEF CrashTails, WalRecord
    <2>7. Disk(wal', hist, snapshot) /\ Len(wal') > 0 /\ LastOf(wal') = line
      BY <2>1, <2>3, <2>6, LoggedLine
    <2> HIDE DEF line
    <2>8. DiskInv'
      BY <2>5, <2>7 DEF DiskInv
    <2>9. HolderInv'
      BY <2>1, <2>2, <2>4, <2>5, <2>7 DEF HolderInv, Critical, line
    <2>10. MemInv'
      BY <2>2, <2>5 DEF MemInv
    <2> QED BY <2>2, <2>5, <2>8, <2>9, <2>10 DEF Good, OpenInv, ReplayInv, FailedInv
  <1>2. CASE Publish(s)
    <2> DEFINE c == LastOf(work.trace)
    <2>1. pc[s] = "publish"
      BY <1>2 DEF Publish
    <2>2. /\ phase = "open" /\ MemInv /\ HolderInv
          /\ \A t \in Session : t # s => pc[t] \notin Critical
      BY <2>1, <1>0 DEF Critical
    <2>3. /\ mem'.version = work.base + 1 /\ mem'.content = c
          /\ hist' = Append(hist, c)
          /\ UNCHANGED <<phase, txn, wal, snapshot>>
      BY <1>2 DEF Publish
    <2>4. pc'[s] \in {"wantSave", "idle"} /\ \A t \in Session : t # s => pc'[t] = pc[t]
      BY <1>2 DEF Publish, TypeOK
    <2>5. c \in Content
      BY <2>1, Parts, LastOfType DEF ShapeInv, Shaped
    <2>6. work.base = mem.version /\ mem.version = Len(hist)
      BY <2>1, <2>2 DEF ViewInv, MemInv
    <2>7. Len(wal) \in 1..Len(wal) /\ wal[Len(wal)] = WalRecord(work, TRUE)
      <3>1. Len(wal) > 0 /\ LastOf(wal) = WalRecord(work, TRUE)
        BY <2>1, <2>2 DEF HolderInv
      <3>2. Len(wal) \in Nat
        BY DEF TypeOK
      <3> QED BY <3>1, <3>2 DEF LastOf
    <2>8. /\ wal[Len(wal)].kind = "rec" /\ wal[Len(wal)].commit = Len(hist) + 1
          /\ LastOf(wal[Len(wal)].trace) = c
      BY <2>6, <2>7 DEF WalRecord
    <2> HIDE DEF c
    <2>9. Disk(wal, Append(hist, c), snapshot)
      BY <2>5, <2>7, <2>8, DiskGrows DEF Good, DiskInv, TypeOK
    <2>10. DiskInv'
      BY <2>3, <2>9 DEF DiskInv
    <2>11. MemInv'
      BY <2>3, <2>5, <2>6 DEF MemInv, At, TypeOK
    <2>13. HolderInv'
      BY <2>2, <2>4 DEF HolderInv, Critical
    <2> QED BY <2>2, <2>3, <2>10, <2>11, <2>13 DEF Good, OpenInv, ReplayInv, FailedInv
  <1>3. CASE SaveRename(s)
    <2>1. pc[s] = "save"
      BY <1>3 DEF SaveRename
    <2>2. /\ phase = "open" /\ MemInv /\ HolderInv
          /\ \A t \in Session : t # s => pc[t] \notin Critical
      BY <2>1, <1>0 DEF Critical
    <2>3. snapshot' = mem /\ UNCHANGED <<phase, mem, txn, work, wal, hist>>
      BY <1>3 DEF SaveRename
    <2>4. pc'[s] = "saveWal" /\ \A t \in Session : t # s => pc'[t] = pc[t]
      BY <1>3 DEF SaveRename, TypeOK
    <2>5. Disk(wal, hist, mem)
      BY <2>2, DiskSnapshot DEF Good, DiskInv, MemInv, TypeOK
    <2>6. DiskInv'
      BY <2>3, <2>5 DEF DiskInv
    <2>7. MemInv'
      BY <2>2, <2>3 DEF MemInv
    <2>8. HolderInv'
      BY <2>2, <2>3, <2>4 DEF HolderInv, MemInv, Critical
    <2> QED BY <2>2, <2>3, <2>6, <2>7, <2>8 DEF Good, OpenInv, ReplayInv, FailedInv
  <1>4. CASE SaveArchive(s)
    <2>1. pc[s] = "saveWal"
      BY <1>4 DEF SaveArchive
    <2>2. /\ phase = "open" /\ MemInv /\ HolderInv
          /\ \A t \in Session : t # s => pc[t] \notin Critical
      BY <2>1, <1>0 DEF Critical
    <2>3. wal' = <<>> /\ UNCHANGED <<phase, mem, txn, work, snapshot, hist>>
      BY <1>4 DEF SaveArchive
    <2>4. pc'[s] = "saveReopen" /\ \A t \in Session : t # s => pc'[t] = pc[t]
      BY <1>4 DEF SaveArchive, TypeOK
    <2>5. snapshot.version = Len(hist)
      BY <2>1, <2>2 DEF HolderInv
    <2>6. Disk(<<>>, hist, snapshot)
      BY <2>5, DiskArchived DEF Good, DiskInv, TypeOK
    <2>7. DiskInv'
      BY <2>3, <2>6 DEF DiskInv
    <2>8. MemInv'
      BY <2>2, <2>3 DEF MemInv
    <2>9. HolderInv'
      BY <2>2, <2>3, <2>4, <2>5 DEF HolderInv, Critical
    <2> QED BY <2>2, <2>3, <2>7, <2>8, <2>9 DEF Good, OpenInv, ReplayInv, FailedInv
  <1>5. CASE SaveEnd(s)
    <2>1. pc[s] \in {"saveWal", "saveReopen"}
      BY <1>5 DEF SaveEnd
    <2>2. phase = "open" /\ MemInv /\ HolderInv
      BY <2>1, <1>0 DEF Critical
    <2>3. UNCHANGED <<phase, mem, txn, work, wal, hist, snapshot>>
      BY <1>5 DEF SaveEnd
    <2>4. pc'[s] = "idle" /\ \A t \in Session : t # s => pc'[t] = pc[t]
      BY <1>5 DEF SaveEnd, TypeOK
    <2>5. MemInv'
      BY <2>2, <2>3 DEF MemInv
    <2>6. HolderInv'
      BY <2>2, <2>3, <2>4 DEF HolderInv
    <2> QED BY <2>2, <2>3, <2>5, <2>6, QuietStep
  <1> QED BY <1>1, <1>2, <1>3, <1>4, <1>5 DEF HolderStep


(* A log call that fails gives the transaction back as it was.              *)
LEMMA LogErrGood ==
    ASSUME BaseInv, ViewInv, Good, NEW s \in Session, LogErr(s), taint' = {}
    PROVE  Good'
  <1> USE DEF BaseInv
  <1>1. pc[s] = "log"
    BY DEF LogErr
  <1>2. /\ phase = "open" /\ MemInv /\ HolderInv
        /\ \A t \in Session : t # s => pc[t] \notin Critical
    BY <1>1, BusyIsOpen DEF Good, OpenInv, LockInv, Critical
  <1>3. UNCHANGED <<phase, mem, snapshot, hist>>
    BY DEF LogErr
  <1>4. pc'[s] = "idle" /\ \A t \in Session : t # s => pc'[t] = pc[t]
    BY DEF LogErr, TypeOK
  <1>5. Disk(wal', hist, snapshot)
    <2>1. CASE UNCHANGED <<wal, taint>>
      BY <2>1 DEF Good, DiskInv
    <2>2. ASSUME NEW line \in FailedWrites, wal' = AppendLine(wal, line),
                 taint' = taint \cup AppendTaint(wal, line)
          PROVE  Disk(wal', hist, snapshot)
      BY <2>2, <1>1, LoggedLine
    <2> QED BY <2>1, <2>2 DEF LogErr
  <1>6. DiskInv'
    BY <1>3, <1>5 DEF DiskInv
  <1>8. HolderInv'
    BY <1>2, <1>4 DEF HolderInv, Critical
  <1>9. MemInv'
    BY <1>2, <1>3 DEF MemInv
  <1> QED BY <1>2, <1>3, <1>6, <1>8, <1>9 DEF Good, OpenInv, ReplayInv, FailedInv

(* A save() that returns early releases the lock and changes no file.       *)
LEMMA SaveErrGood ==
    ASSUME BaseInv, Good, NEW s \in Session, SaveErr(s)
    PROVE  Good'
  <1> USE DEF BaseInv, diskVars
  <1>1. pc[s] # "idle"
    BY DEF SaveErr
  <1>2. phase = "open" /\ MemInv /\ HolderInv
    BY <1>1, BusyIsOpen DEF Good, OpenInv
  <1>3. UNCHANGED <<phase, mem, txn, work, wal, hist, snapshot>>
    BY DEF SaveErr
  <1>4. pc'[s] = "idle" /\ \A t \in Session : t # s => pc'[t] = pc[t]
    BY DEF SaveErr, TypeOK
  <1>5. MemInv'
    BY <1>2, <1>3 DEF MemInv
  <1>6. HolderInv'
    BY <1>2, <1>3, <1>4 DEF HolderInv
  <1> QED BY <1>2, <1>3, <1>5, <1>6, QuietStep

(* A crash leaves the files in order, whatever it cut off.                  *)
LEMMA CrashGood ==
    ASSUME BaseInv, ViewInv, Good, Crash, taint' = {}
    PROVE  Good'
  <1>1. phase' = "closed" /\ UNCHANGED <<snapshot, hist>>
    BY DEF Crash
  <1>2. Disk(wal', hist, snapshot)
    <2>1. CASE UNCHANGED <<wal, taint>>
      BY <2>1 DEF Good, DiskInv
    <2>2. ASSUME NEW s \in Session, pc[s] = "log", NEW line \in CrashTails,
                 wal' = AppendLine(wal, line), taint' = taint \cup AppendTaint(wal, line)
          PROVE  Disk(wal', hist, snapshot)
      BY <2>2, LoggedLine
    <2> QED BY <2>1, <2>2 DEF Crash, CrashTail
  <1>3. DiskInv'
    BY <1>1, <1>2 DEF DiskInv
  <1> QED BY <1>1, <1>3 DEF Good, OpenInv, ReplayInv, FailedInv

(* Replay starts from the snapshot.                                         *)
LEMMA OpenGood ==
    ASSUME BaseInv, Good, Open
    PROVE  Good'
  <1>1. /\ phase' = "replay" /\ mem' = snapshot /\ pos' = 1 /\ idx' = 1
        /\ UNCHANGED <<wal, snapshot, hist>>
    BY DEF Open, LoadCatalog, diskVars
  <1>2. DiskInv'
    BY <1>1 DEF Good, DiskInv
  <1>3. snapshot.version <= Len(hist) /\ snapshot.content = At(hist, snapshot.version)
    BY DEF Good, DiskInv, Disk, SnapshotOf
  <1>4. snapshot.version <= snapshot.version /\ Len(wal) \in Nat
    BY Parts DEF BaseInv, TypeOK
  <1>5. ReplayInv'
    BY <1>1, <1>3, <1>4 DEF ReplayInv
  <1> QED BY <1>1, <1>2, <1>5 DEF Good, OpenInv, FailedInv

-----------------------------------------------------------------------------
(* Replay                                                                   *)

(* A record replay must not skip continues the catalog it is run on, and    *)
(* the catalog holds what its transaction saw before the next statement.    *)
LEMMA PendingContinues ==
    ASSUME BaseInv, Good, Replaying("rec"), Pending
    PROVE  /\ pos \in 1..Len(wal) /\ RecordOf(hist, wal[pos])
           /\ wal[pos].base = mem.version
           /\ mem.content = wal[pos].trace[idx]
  <1> USE DEF BaseInv
  <1>1. pos \in 1..Len(wal) /\ wal[pos].kind = "rec" /\ pos \in Nat /\ idx \in Nat /\ idx > 0
    BY DEF Replaying, TypeOK
  <1>2. /\ RecordOf(hist, wal[pos]) /\ wal[pos].base = wal[1].base + (pos - 1)
        /\ wal[1].kind = "rec"
    <2>1. RecordOf(hist, wal[pos]) /\ wal[pos].base = wal[1].base + (pos - 1)
      BY <1>1 DEF Good, DiskInv, Disk, LogOf
    <2>2. pos > 1 => wal[1].kind = "rec"
      BY <1>1 DEF Good, DiskInv, Disk, LogOf
    <2> QED BY <2>1, <2>2, <1>1
  <1>3. ReplayInv /\ phase = "replay"
    BY DEF Good, Replaying
  <1>4. CASE idx > 1
    BY <1>1, <1>2, <1>3, <1>4 DEF ReplayInv
  <1>5. CASE idx = 1
    <2>1. wal[pos].commit > mem.version /\ wal[pos].commit = wal[pos].base + 1
      BY <1>2, <1>5 DEF Pending, RecordOf
    <2>2. /\ wal[pos].base \in Nat /\ wal[1].base \in Nat /\ mem.version \in Nat
          /\ snapshot.version \in Nat /\ wal[pos].commit \in Nat
      BY <1>1, Parts
    <2>3. wal[pos].base <= mem.version
      <3>1. CASE pos = 1
        <4>1. wal[1].base <= snapshot.version
          BY <1>1, <1>2 DEF Good, DiskInv, Disk, SnapshotOf, NoRecord
        <4>2. snapshot.version <= mem.version
          BY <1>3 DEF ReplayInv
        <4> QED BY <3>1, <4>1, <4>2, <2>2
      <3>2. CASE pos > 1
        <4>1. pos - 1 \in 1..(pos - 1) /\ pos - 1 \in 1..Len(wal)
          BY <1>1, <3>2
        <4>2. wal[pos - 1].kind = "rec" /\ wal[pos - 1].commit <= mem.version
          BY <4>1, <1>3 DEF ReplayInv
        <4>3. RecordOf(hist, wal[pos - 1]) /\ wal[pos - 1].base = wal[1].base + (pos - 1 - 1)
          BY <4>1, <4>2 DEF Good, DiskInv, Disk, LogOf
        <4>4. wal[pos - 1].commit = wal[pos - 1].base + 1
          BY <4>3 DEF RecordOf
        <4> QED BY <4>2, <4>3, <4>4, <2>2, <1>1, <1>2
      <3> QED BY <3>1, <3>2, <1>1
    <2>4. wal[pos].base = mem.version
      BY <2>1, <2>2, <2>3
    <2>5. mem.content = At(hist, mem.version)
      BY <1>3, <1>5 DEF ReplayInv
    <2>6. mem.content = wal[pos].trace[1]
      BY <2>4, <2>5, <1>2 DEF RecordOf, Chain
    <2> QED BY <2>4, <2>6, <1>1, <1>2, <1>5
  <1> QED BY <1>4, <1>5, <1>1


(* A record that is skipped belongs to a version already reached.           *)
LEMMA ReplaySkipGood ==
    ASSUME BaseInv, Good, ReplaySkip
    PROVE  Good'
  <1> USE DEF BaseInv, memVars, diskVars, ghostVars
  <1>1. /\ phase = "replay" /\ idx = 1 /\ pos <= Len(wal) /\ wal[pos].kind = "rec"
        /\ wal[pos].commit <= mem.version
        /\ pos' = pos + 1 /\ UNCHANGED <<phase, mem, wal, snapshot, hist, idx>>
    BY DEF ReplaySkip, Replaying
  <1>2. ReplayInv /\ pos \in Nat /\ pos > 0 /\ Len(wal) \in Nat
    BY DEF Good, TypeOK
  <1>3. \A i \in 1..(pos' - 1) : wal[i].kind = "rec" /\ wal[i].commit <= mem.version
    <2> TAKE i \in 1..(pos' - 1)
    <2>1. i \in 1..(pos - 1) \/ i = pos
      BY <1>1, <1>2
    <2> QED BY <2>1, <1>1, <1>2 DEF ReplayInv
  <1>4. ReplayInv'
    BY <1>1, <1>2, <1>3 DEF ReplayInv
  <1>5. DiskInv'
    BY <1>1 DEF Good, DiskInv
  <1> QED BY <1>1, <1>4, <1>5 DEF Good, OpenInv, FailedInv

(* Re-running a statement meets no gap and no error, and gives the contents *)
(* the transaction saw.                                                     *)
LEMMA ReplayStatementGood ==
    ASSUME BaseInv, Good, ReplayStatement
    PROVE  Good'
  <1> USE DEF BaseInv, diskVars, ghostVars
  <1> DEFINE r == wal[pos]
             st == wal[pos].stmts[idx]
             after == Exec(mem.content, st)
  <1>1. Replaying("rec") /\ Pending /\ idx <= Len(r.stmts) /\ phase = "replay"
    BY DEF ReplayStatement, Replaying
  <1>2. /\ pos \in 1..Len(wal) /\ RecordOf(hist, r) /\ r.base = mem.version
        /\ mem.content = r.trace[idx]
    BY <1>1, PendingContinues
  <1>3. /\ r.stmts \in Seq(Stmt) /\ r.trace \in Seq(Content)
        /\ Len(r.trace) = Len(r.stmts) + 1 /\ r.kind = "rec"
    BY <1>1, <1>2, Parts DEF ShapeInv, Shaped, Replaying
  <1>4. idx \in 1..Len(r.stmts) /\ idx \in Nat /\ idx > 0
    BY <1>1, <1>3 DEF TypeOK
  <1>5. after = r.trace[idx + 1]
    BY <1>2, <1>4 DEF RecordOf, Chain
  <1>6. after \in Content
    BY <1>3, <1>4, <1>5
  <1>7. after # ExecError
    BY <1>6, ExecAssumption
  <1>8. /\ phase' = "replay" /\ idx' = idx + 1
        /\ mem' = [mem EXCEPT !.content = after,
                              !.schema = @ + (IF st \in Ddl THEN 1 ELSE 0)]
        /\ UNCHANGED <<wal, snapshot, hist, pos>>
    BY <1>1, <1>2, <1>7 DEF ReplayStatement
  <1>9. mem'.version = mem.version /\ mem'.content = after
    <2>1. mem \in [version : Nat, schema : Nat, content : Content]
      BY DEF TypeOK, Catalog
    <2> QED BY <2>1, <1>8
  <1> HIDE DEF after, st
  <1>10. ReplayInv /\ pos <= Len(wal)
    BY <1>2 DEF Good
  <1>11. ReplayInv'
    <2>1. idx' > 1 /\ idx' # 1 /\ idx' <= Len(r.stmts) + 1
      BY <1>3, <1>4, <1>8
    <2>2. snapshot.version <= mem.version /\ mem.version <= Len(hist) /\ pos <= Len(wal) + 1
      BY <1>1, <1>10 DEF ReplayInv
    <2>3. \A i \in 1..(pos - 1) : wal[i].kind = "rec" /\ wal[i].commit <= mem.version
      BY <1>1, <1>10 DEF ReplayInv
    <2>4. mem'.content = r.trace[idx']
      BY <1>5, <1>8, <1>9
    <2> QED BY <2>1, <2>2, <2>3, <2>4, <1>2, <1>3, <1>8, <1>9, <1>10 DEF ReplayInv
  <1>12. DiskInv'
    BY <1>8 DEF Good, DiskInv
  <1> QED BY <1>8, <1>11, <1>12 DEF Good, OpenInv, FailedInv

(* The last statement of a record reaches the version it was committed as,  *)
(* a visible one or the one that was in doubt.                              *)
LEMMA ReplayRecordEndGood ==
    ASSUME BaseInv, Good, ReplayRecordEnd
    PROVE  Good'
  <1> USE DEF BaseInv, diskVars
  <1> DEFINE r == wal[pos]
  <1>1. /\ Replaying("rec") /\ Pending /\ idx = Len(r.stmts) + 1 /\ phase = "replay"
        /\ r.kind = "rec"
    BY DEF ReplayRecordEnd, Replaying
  <1>2. /\ pos \in 1..Len(wal) /\ RecordOf(hist, r) /\ r.base = mem.version
        /\ mem.content = r.trace[idx]
    BY <1>1, PendingContinues
  <1>3. mem.content = LastOf(r.trace)
    BY <1>1, <1>2 DEF LastOf, ShapeInv, Shaped
  <1>4. /\ r.commit = mem.version + 1 /\ mem.version <= Len(hist)
        /\ mem.version \in Nat /\ Len(hist) \in Nat /\ Len(wal) \in Nat
        /\ snapshot.version \in Nat
    BY <1>2, Parts DEF RecordOf, TypeOK
  <1>5. /\ mem' = [mem EXCEPT !.version = r.commit]
        /\ hist' = IF r.commit = Len(hist) + 1 THEN Append(hist, mem.content) ELSE hist
        /\ pos' = pos + 1 /\ idx' = 1 /\ UNCHANGED <<phase, wal, snapshot>>
    BY DEF ReplayRecordEnd
  <1>6. mem'.version = r.commit /\ mem'.content = mem.content
    <2>1. mem \in [version : Nat, schema : Nat, content : Content]
      BY DEF TypeOK, Catalog
    <2> QED BY <2>1, <1>5
  <1>7. /\ DiskInv' /\ r.commit <= Len(hist') /\ mem.content = At(hist', r.commit)
    <2>1. CASE r.commit = Len(hist) + 1
      <3>1. mem.content \in Content /\ hist \in Seq(Content)
        BY Parts DEF TypeOK
      <3>2. hist' = Append(hist, mem.content)
        BY <2>1, <1>5
      <3>3. Disk(wal, Append(hist, mem.content), snapshot)
        BY <2>1, <3>1, <1>1, <1>2, <1>3, DiskGrows DEF Good, DiskInv, TypeOK
      <3>4. DiskInv'
        BY <3>2, <3>3, <1>5 DEF DiskInv
      <3>5. r.commit <= Len(hist') /\ mem.content = At(hist', r.commit)
        BY <2>1, <3>1, <3>2, <1>4 DEF At
      <3> QED BY <3>4, <3>5
    <2>2. CASE r.commit # Len(hist) + 1
      <3>1. hist' = hist /\ r.commit <= Len(hist)
        BY <2>2, <1>4, <1>5
      <3>2. mem.content = At(hist, r.commit)
        BY <3>1, <1>2, <1>3, <1>4 DEF RecordOf, At
      <3>3. DiskInv'
        BY <3>1, <1>5 DEF Good, DiskInv
      <3> QED BY <3>1, <3>2, <3>3
    <2> QED BY <2>1, <2>2
  <1>8. ReplayInv'
    <2>1. ReplayInv /\ pos \in Nat
      BY DEF Good, TypeOK
    <2>2. snapshot.version <= r.commit
      BY <2>1, <1>1, <1>4 DEF ReplayInv
    <2>3. ASSUME NEW i \in 1..(pos' - 1) PROVE wal[i].kind = "rec" /\ wal[i].commit <= r.commit
      <3>1. CASE i = pos
        BY <3>1, <1>1, <1>4
      <3>2. CASE i \in 1..(pos - 1)
        <4>1. wal[i].kind = "rec" /\ wal[i].commit <= mem.version
          BY <3>2, <2>1, <1>1 DEF ReplayInv
        <4>2. wal[i].commit \in Nat
          BY <3>2, <1>2, <1>4, Parts
        <4> QED BY <4>1, <4>2, <1>4
      <3> QED BY <3>1, <3>2, <2>1, <1>5
    <2>4. pos' <= Len(wal) + 1
      BY <1>2, <1>4, <1>5
    <2> QED BY <2>2, <2>3, <2>4, <1>5, <1>6, <1>7 DEF ReplayInv
  <1> QED BY <1>1, <1>5, <1>7, <1>8 DEF Good, OpenInv, FailedInv

(* Replay ends at the newest version.                                       *)
LEMMA ReplayEndGood ==
    ASSUME BaseInv, Good, ReplayEnd
    PROVE  Good'
  <1> USE DEF BaseInv, diskVars, ghostVars
  <1>1. /\ phase = "replay" /\ (pos > Len(wal) \/ (pos <= Len(wal) /\ wal[pos].kind = "bad"))
        /\ phase' = "open" /\ UNCHANGED <<mem, txn, pc, wal, snapshot, hist>>
    BY DEF ReplayEnd, Replaying
  <1>2. /\ ReplayInv /\ pos \in Nat /\ pos > 0 /\ idx \in Nat /\ idx > 0
        /\ Len(wal) \in Nat /\ Len(hist) \in Nat /\ mem.version \in Nat
        /\ snapshot.version \in Nat
    BY Parts DEF Good, TypeOK
  <1>3. idx = 1
    BY <1>1, <1>2 DEF ReplayInv
  <1>4. mem.version = Len(hist)
    <2>0. /\ snapshot.version <= mem.version /\ mem.version <= Len(hist)
          /\ pos <= Len(wal) + 1
          /\ \A i \in 1..(pos - 1) : wal[i].kind = "rec" /\ wal[i].commit <= mem.version
      BY <1>1, <1>2 DEF ReplayInv
    <2>1. CASE pos = 1
      <3>1. NoRecord(wal)
        BY <2>1, <1>1 DEF NoRecord
      <3>2. snapshot.version = Len(hist)
        BY <3>1 DEF Good, DiskInv, Disk, SnapshotOf
      <3> QED BY <2>0, <3>2, <1>2
    <2>2. CASE pos > 1
      <3>1. pos - 1 \in 1..(pos - 1) /\ pos - 1 \in 1..Len(wal)
        BY <2>0, <2>2, <1>2
      <3>2. wal[pos - 1].kind = "rec" /\ wal[pos - 1].commit <= mem.version
        BY <2>0, <3>1
      <3>3. pos - 1 < Len(wal) => wal[(pos - 1) + 1].kind # "rec"
        BY <1>1, <1>2
      <3>4. wal[pos - 1].commit >= Len(hist)
        BY <3>1, <3>2, <3>3 DEF Good, DiskInv, Disk, Reaches
      <3>5. wal[pos - 1].commit \in Nat
        BY <3>1, Parts
      <3> QED BY <2>0, <3>2, <3>4, <3>5, <1>2
    <2> QED BY <2>1, <2>2, <1>2
  <1>5. mem.content = At(hist, Len(hist))
    BY <1>1, <1>2, <1>3, <1>4 DEF ReplayInv
  <1>6. MemInv'
    BY <1>1, <1>4, <1>5 DEF MemInv
  <1>7. HolderInv'
    BY <1>1 DEF LockInv, HolderInv
  <1>8. DiskInv'
    BY <1>1 DEF Good, DiskInv
  <1> QED BY <1>1, <1>6, <1>7, <1>8 DEF Good, OpenInv, ReplayInv, FailedInv


(* Every step of replay.  There are no bare statements to run, and bytes    *)
(* that cannot be read are the only reason to fail.                         *)
LEMMA ReplayGood ==
    ASSUME BaseInv, Good, Replay
    PROVE  Good'
  <1>1. CASE ReplaySkip
    BY <1>1, ReplaySkipGood
  <1>2. CASE ReplayStatement
    BY <1>2, ReplayStatementGood
  <1>3. CASE ReplayRecordEnd
    BY <1>3, ReplayRecordEndGood
  <1>4. CASE ReplayLegacy
    <2>1. pos \in 1..Len(wal) /\ wal[pos].kind = "sql"
      BY <1>4 DEF ReplayLegacy, Replaying, BaseInv, TypeOK
    <2> QED BY <2>1 DEF Good, DiskInv, Disk, LogOf
  <1>5. CASE ReplayUnreadable
    <2>1. pos \in 1..Len(wal) /\ wal[pos].kind = "raw"
      BY <1>5 DEF ReplayUnreadable, Replaying, BaseInv, TypeOK
    <2>2. phase' = "failed" /\ UNCHANGED <<wal, snapshot, hist>>
      BY <1>5 DEF ReplayUnreadable, diskVars, ghostVars
    <2>3. DiskInv'
      BY <2>2 DEF Good, DiskInv
    <2> QED BY <2>1, <2>2, <2>3 DEF Good, OpenInv, ReplayInv, FailedInv
  <1>6. CASE ReplayEnd
    BY <1>6, ReplayEndGood
  <1> QED BY <1>1, <1>2, <1>3, <1>4, <1>5, <1>6 DEF Replay

-----------------------------------------------------------------------------
(* The theorems                                                             *)

(* A recorded hazard stays recorded.                                        *)
LEMMA TaintGrows == [Next]_vars => taint \subseteq taint'
  <1> SUFFICES ASSUME [Next]_vars PROVE taint \subseteq taint'
    OBVIOUS
  <1> USE DEF ghostVars
  <1>1. ASSUME NEW s \in Session, ClientStep(s) PROVE taint \subseteq taint'
    BY <1>1 DEF ClientStep, Begin, Rollback, CommitWithoutLog, CommitBegin,
                ExecuteInTxn, AutocommitBegin, SaveBegin
  <1>2. ASSUME NEW s \in Session, HolderStep(s) PROVE taint \subseteq taint'
    BY <1>2 DEF HolderStep, LogOk, Publish, SaveRename, SaveArchive, SaveEnd
  <1>3. ASSUME NEW s \in Session, LogErr(s) \/ SaveErr(s) PROVE taint \subseteq taint'
    BY <1>3 DEF LogErr, SaveErr
  <1>4. CASE Crash \/ Open
    BY <1>4 DEF Crash, CrashTail, Open
  <1>5. CASE Replay
    BY <1>5 DEF Replay, ReplaySkip, ReplayStatement, ReplayRecordEnd, ReplayLegacy,
                ReplayUnreadable, ReplayEnd
  <1>6. CASE UNCHANGED vars
    BY <1>6 DEF vars
  <1> QED BY <1>1, <1>2, <1>3, <1>4, <1>5, <1>6 DEF Next

(* A fresh data directory.                                                  *)
LEMMA DurInit == LegacyWal = <<>> /\ Init => DurInv
  <1> SUFFICES ASSUME LegacyWal = <<>>, Init PROVE Good
    BY DEF DurInv
  <1>1. wal = <<>> /\ hist = <<>> /\ phase = "closed"
    BY DEF Init
  <1>2. snapshot.version = 0 /\ snapshot.content = InitContent
    BY DEF Init
  <1>3. DiskInv
    BY <1>1, <1>2 DEF DiskInv, Disk, LogOf, Reaches, SnapshotOf, NoRecord, At
  <1> QED BY <1>1, <1>3 DEF Good, OpenInv, ReplayInv, FailedInv

(* Every step preserves the durability invariant.                           *)
LEMMA DurStep == BaseInv /\ ViewInv /\ DurInv /\ [Next]_vars => DurInv'
  <1> SUFFICES ASSUME BaseInv, ViewInv, DurInv, [Next]_vars, taint' = {} PROVE Good'
    BY DEF DurInv
  <1>1. Good
    BY TaintGrows DEF DurInv
  <1>2. ASSUME NEW s \in Session, ClientStep(s) PROVE Good'
    BY <1>1, <1>2, ClientGood
  <1>3. ASSUME NEW s \in Session, HolderStep(s) PROVE Good'
    BY <1>1, <1>3, HolderGood
  <1>4. ASSUME NEW s \in Session, LogErr(s) PROVE Good'
    BY <1>1, <1>4, LogErrGood
  <1>5. ASSUME NEW s \in Session, SaveErr(s) PROVE Good'
    BY <1>1, <1>5, SaveErrGood
  <1>6. CASE Crash
    BY <1>1, <1>6, CrashGood
  <1>7. CASE Open
    BY <1>1, <1>7, OpenGood
  <1>8. CASE Replay
    BY <1>1, <1>8, ReplayGood
  <1>9. CASE UNCHANGED vars
    BY <1>1, <1>9 DEF vars, Good, DiskInv, OpenInv, MemInv, HolderInv,
                      ReplayInv, FailedInv
  <1> QED BY <1>2, <1>3, <1>4, <1>5, <1>6, <1>7, <1>8, <1>9 DEF Next

(* The inductive invariant holds of a database that starts without a v0.2   *)
(* log.                                                                     *)
LEMMA Inductive ==
    ASSUME LegacyWal = <<>>
    PROVE  Spec => [](BaseInv /\ ViewInv /\ DurInv)
  <1>1. Init => BaseInv /\ ViewInv /\ DurInv
    BY BaseInit, DurInit DEF Init, ViewInv, InTxn
  <1>2. BaseInv /\ ViewInv /\ DurInv /\ [Next]_vars => (BaseInv /\ ViewInv /\ DurInv)'
    BY TypeStep, LockStep, ShapeStep, ViewStep, DurStep DEF BaseInv
  <1> QED BY <1>1, <1>2, PTL DEF Spec

(* Durability: for every executor and optimizer and any interleaving of     *)
(* sessions, saves, failed writes, torn tails and crashes, an open database *)
(* whose log was never tainted serves exactly the newest committed version, *)
(* although the sessions ran optimized statements and replay_wal rebuilds   *)
(* the catalog from the logged ones.                                        *)
THEOREM Durability ==
    ASSUME LegacyWal = <<>>
    PROVE  Spec => []DurableUnlessTainted
  <1>1. BaseInv /\ ViewInv /\ DurInv => DurableUnlessTainted
    BY DEF DurInv, Good, OpenInv, MemInv, At, HistAt, DurableUnlessTainted, Current
  <1> QED BY <1>1, Inductive, PTL

(* Replay of an untainted log meets no version gap and, no text in it being *)
(* one that the optimizer folded into something else, no statement that     *)
(* fails the second time: open() reports an error only for bytes that are   *)
(* not UTF-8.                                                               *)
THEOREM ReplayNeverDiverges ==
    ASSUME LegacyWal = <<>>
    PROVE  Spec => []OnlyUnreadableFails
  <1>1. BaseInv /\ ViewInv /\ DurInv => OnlyUnreadableFails
    BY DEF DurInv, Good, FailedInv, OnlyUnreadableFails
  <1> QED BY <1>1, Inductive, PTL


-----------------------------------------------------------------------------
(* The archive and the live log together                                    *)

HasRecord(w, v, c) ==
    \E i \in 1..Len(w) : w[i].kind = "rec" /\ w[i].commit = v /\ LastOf(w[i].trace) = c

Covered(a, w, h) ==
    \A v \in 1..Len(h) : HasRecord(a, v, h[v]) \/ HasRecord(w, v, h[v])

CoverInv == taint = {} => Covered(archive, wal, hist)

(* An append that taints nothing destroys no record.                        *)
LEMMA RecordSurvivesAppend ==
    ASSUME NEW w \in Seq(Line), NEW line \in Line, AppendTaint(w, line) = {},
           NEW v, NEW c, HasRecord(w, v, c)
    PROVE  HasRecord(AppendLine(w, line), v, c)
  <1>1. PICK i \in 1..Len(w) : w[i].kind = "rec" /\ w[i].commit = v /\ LastOf(w[i].trace) = c
    BY DEF HasRecord
  <1>2. CASE LastOf(w).nl
    <2>1. i \in 1..Len(AppendLine(w, line)) /\ AppendLine(w, line)[i] = w[i]
      BY <1>2 DEF AppendLine
    <2> QED BY <1>1, <2>1 DEF HasRecord
  <1>3. CASE ~LastOf(w).nl
    <2>1. w # <<>> /\ Damaged(LastOf(w))
      BY <1>1, <1>3 DEF AppendTaint
    <2>2. i # Len(w)
      BY <1>1, <2>1 DEF Damaged, LastOf
    <2>3. i \in 1..Len(AppendLine(w, line)) /\ AppendLine(w, line)[i] = w[i]
      BY <1>3, <2>1, <2>2 DEF AppendLine
    <2> QED BY <1>1, <2>3 DEF HasRecord
  <1> QED BY <1>2, <1>3

(* Archiving moves records, it loses none.                                  *)
LEMMA RecordSurvivesArchive ==
    ASSUME NEW a \in Seq(Line), NEW w \in Seq(Line), NEW v, NEW c,
           HasRecord(a, v, c) \/ HasRecord(w, v, c)
    PROVE  HasRecord(a \o w, v, c)
  <1>1. ASSUME NEW i \in 1..Len(a), a[i].kind = "rec" /\ a[i].commit = v /\ LastOf(a[i].trace) = c
        PROVE  HasRecord(a \o w, v, c)
    <2>1. i \in 1..Len(a \o w) /\ (a \o w)[i] = a[i]
      OBVIOUS
    <2> QED BY <1>1, <2>1 DEF HasRecord
  <1>2. ASSUME NEW i \in 1..Len(w), w[i].kind = "rec" /\ w[i].commit = v /\ LastOf(w[i].trace) = c
        PROVE  HasRecord(a \o w, v, c)
    <2>1. Len(a) + i \in 1..Len(a \o w) /\ (a \o w)[Len(a) + i] = w[i]
      OBVIOUS
    <2> QED BY <1>2, <2>1 DEF HasRecord
  <1> QED BY <1>1, <1>2 DEF HasRecord

(* A version enters the history together with its record.                   *)
LEMMA CoverGrows ==
    ASSUME NEW a, NEW w, NEW h \in Seq(Content), NEW c \in Content,
           Covered(a, w, h), HasRecord(w, Len(h) + 1, c)
    PROVE  Covered(a, w, Append(h, c))
  <1> SUFFICES ASSUME NEW v \in 1..(Len(h) + 1)
               PROVE  HasRecord(a, v, Append(h, c)[v]) \/ HasRecord(w, v, Append(h, c)[v])
    BY DEF Covered
  <1>1. CASE v \in 1..Len(h)
    BY <1>1 DEF Covered
  <1>2. CASE v = Len(h) + 1
    BY <1>2
  <1> QED BY <1>1, <1>2

(* Every step preserves the coverage.                                       *)
LEMMA CoverStep ==
    BaseInv /\ ViewInv /\ DurInv /\ CoverInv /\ [Next]_vars => CoverInv'
  <1> SUFFICES ASSUME BaseInv, ViewInv, DurInv, CoverInv, [Next]_vars, taint' = {}
               PROVE  Covered(archive', wal', hist')
    BY DEF CoverInv
  <1> USE DEF BaseInv, memVars, diskVars, ghostVars
  <1>1. Good /\ Covered(archive, wal, hist)
    BY TaintGrows DEF DurInv, CoverInv
  <1>2. ASSUME UNCHANGED <<archive, wal, hist>> PROVE Covered(archive', wal', hist')
    BY <1>1, <1>2
  <1>3. ASSUME NEW line \in Line, wal' = AppendLine(wal, line), UNCHANGED <<archive, hist>>,
               taint' = taint \cup AppendTaint(wal, line)
        PROVE  Covered(archive', wal', hist')
    <2>1. AppendTaint(wal, line) = {}
      BY <1>3
    <2>2. \A v \in 1..Len(hist) : HasRecord(wal, v, hist[v]) => HasRecord(wal', v, hist[v])
      BY <1>3, <2>1, RecordSurvivesAppend DEF TypeOK
    <2> QED BY <1>1, <1>3, <2>2 DEF Covered
  <1>4. FailedWrites \subseteq Line /\ CrashTails \subseteq Line
    BY WrittenLines DEF TypeOK
  <1>5. ASSUME NEW s \in Session, ClientStep(s) PROVE UNCHANGED <<archive, wal, hist>>
    BY <1>5 DEF ClientStep, Begin, Rollback, CommitWithoutLog, CommitBegin,
                ExecuteInTxn, AutocommitBegin, SaveBegin
  <1>6. ASSUME NEW s \in Session, LogOk(s) PROVE Covered(archive', wal', hist')
    <2>1. WalRecord(work, TRUE) \in Line
      BY ConstantTypes DEF TypeOK
    <2>2. /\ wal' = AppendLine(wal, WalRecord(work, TRUE)) /\ UNCHANGED <<archive, hist>>
          /\ taint' = taint \cup AppendTaint(wal, WalRecord(work, TRUE))
      BY <1>6 DEF LogOk
    <2> QED BY <1>3, <2>1, <2>2
  <1>7. ASSUME NEW s \in Session, Publish(s) PROVE Covered(archive', wal', hist')
    <2>1. pc[s] = "publish" /\ hist' = Append(hist, LastOf(work.trace)) /\ UNCHANGED <<archive, wal>>
      BY <1>7 DEF Publish
    <2>2. MemInv /\ HolderInv
      BY <2>1, <1>1, BusyIsOpen DEF Good, OpenInv
    <2>3. work.base = Len(hist) /\ Len(wal) > 0 /\ wal[Len(wal)] = WalRecord(work, TRUE)
      BY <2>1, <2>2 DEF ViewInv, MemInv, HolderInv, LastOf
    <2>4. LastOf(work.trace) \in Content
      BY <2>1, Parts, LastOfType DEF ShapeInv, Shaped
    <2>5. Len(wal) \in 1..Len(wal)
      BY <2>3 DEF TypeOK
    <2>6. HasRecord(wal, Len(hist) + 1, LastOf(work.trace))
      BY <2>3, <2>5 DEF HasRecord, WalRecord
    <2> QED BY <2>1, <2>4, <2>6, <1>1, CoverGrows DEF TypeOK
  <1>8. ASSUME NEW s \in Session, SaveArchive(s) PROVE Covered(archive', wal', hist')
    <2>1. archive' = archive \o wal /\ hist' = hist
      BY <1>8 DEF SaveArchive
    <2> QED BY <2>1, <1>1, RecordSurvivesArchive DEF Covered, TypeOK
  <1>9. ASSUME NEW s \in Session, SaveRename(s) \/ SaveEnd(s) \/ SaveErr(s)
        PROVE  UNCHANGED <<archive, wal, hist>>
    BY <1>9 DEF SaveRename, SaveEnd, SaveErr
  <1>10. ASSUME NEW s \in Session, LogErr(s) PROVE Covered(archive', wal', hist')
    BY <1>2, <1>3, <1>4, <1>10 DEF LogErr
  <1>11. CASE Crash
    BY <1>2, <1>3, <1>4, <1>11 DEF Crash, CrashTail
  <1>12. CASE Open
    BY <1>2, <1>12 DEF Open
  <1>13. CASE ReplaySkip \/ ReplayStatement \/ ReplayUnreadable \/ ReplayEnd
    BY <1>2, <1>13 DEF ReplaySkip, ReplayStatement, ReplayUnreadable, ReplayEnd
  <1>14. CASE ReplayRecordEnd
    <2>1. Replaying("rec") /\ Pending /\ idx = Len(wal[pos].stmts) + 1 /\ wal[pos].kind = "rec"
      BY <1>14 DEF ReplayRecordEnd, Replaying
    <2>2. pos \in 1..Len(wal) /\ mem.content = wal[pos].trace[idx] /\ mem.content \in Content
      BY <2>1, <1>1, PendingContinues, Parts
    <2>3. LastOf(wal[pos].trace) = mem.content
      BY <2>1, <2>2 DEF LastOf, ShapeInv, Shaped
    <2>4. /\ UNCHANGED <<archive, wal>>
          /\ hist' = IF wal[pos].commit = Len(hist) + 1 THEN Append(hist, mem.content) ELSE hist
      BY <1>14 DEF ReplayRecordEnd
    <2>5. CASE wal[pos].commit = Len(hist) + 1
      <3>1. HasRecord(wal, Len(hist) + 1, mem.content)
        BY <2>1, <2>2, <2>3, <2>5 DEF HasRecord
      <3> QED BY <2>2, <2>4, <2>5, <3>1, <1>1, CoverGrows DEF TypeOK
    <2> QED BY <2>4, <2>5, <1>2
  <1>15. CASE ReplayLegacy
    <2>1. pos \in 1..Len(wal) /\ wal[pos].kind = "sql"
      BY <1>15 DEF ReplayLegacy, Replaying, TypeOK
    <2> QED BY <2>1, <1>1 DEF Good, DiskInv, Disk, LogOf
  <1>16. CASE UNCHANGED vars
    BY <1>2, <1>16 DEF vars
  <1> QED BY <1>2, <1>5, <1>6, <1>7, <1>8, <1>9, <1>10, <1>11, <1>12, <1>13, <1>14, <1>15, <1>16
          DEF Next, HolderStep, Replay

(* Coverage: whatever faults and crashes interrupt commits and save(), the  *)
(* archive and the live log of an untainted database hold a record of every *)
(* version ever made visible, which is what point-in-time restore needs.    *)
THEOREM Coverage ==
    ASSUME LegacyWal = <<>>
    PROVE  Spec => []LogCoversHistory
  <1>1. Init => CoverInv
    BY DEF Init, CoverInv, Covered
  <1>2. BaseInv /\ CoverInv => LogCoversHistory
    <2> SUFFICES ASSUME BaseInv, taint = {}, Covered(archive, wal, hist),
                        NEW v \in (Len(LegacyWal) + 1)..Len(hist)
                 PROVE  HasRecord(archive \o wal, v, hist[v])
      BY DEF CoverInv, LogCoversHistory, HasRecord
    <2>1. v \in 1..Len(hist)
      BY DEF BaseInv, TypeOK
    <2> QED BY <2>1, RecordSurvivesArchive DEF Covered, BaseInv, TypeOK
  <1> QED BY <1>1, <1>2, Inductive, CoverStep, PTL DEF Spec

-----------------------------------------------------------------------------
(* SqlDatabase implements TransactionalStore.                               *)
(*                                                                          *)
(* The invariant of a database that meets no storage fault                  *)

(* Only complete records, the last of them no newer than its publication    *)
(* allows: a record ahead of the history belongs to the lock holder, or to  *)
(* a process that died while it held the lock.                              *)
CleanLog ==
    /\ \A i \in 1..Len(wal) : wal[i].kind = "rec" /\ wal[i].nl
    /\ phase = "open" /\ wal # <<>> /\ (\A s \in Session : pc[s] # "publish")
         => LastOf(wal).commit <= Len(hist)

(* The log is open unless save() is just replacing it.                      *)
LogIsOpen == phase = "open" => walOpen \/ \E s \in Session : pc[s] = "saveReopen"

(* A session that commits has given up its transaction; an autocommit is    *)
(* one statement, run on the published contents.                            *)
CommitShape ==
    \A s \in Session :
        /\ InTxn(s) => ~txn[s].auto
        /\ pc[s] \in {"log", "publish"} =>
             /\ ~InTxn(s)
             /\ work.auto => \E st \in Stmt :
                    work.trace = <<work.trace[1], Run(work.trace[1], st)>>

(* The texts of a transaction do on replay what they did in the session.    *)
Unfolded == \A s \in Session : InTxn(s) => FoldTaint(txn[s]) = {}

CleanInv == taint = {} /\ CleanLog /\ LogIsOpen /\ CommitShape /\ Unfolded

-----------------------------------------------------------------------------
(* Without faults nothing is ever tainted                                   *)

(* The first state.                                                         *)
LEMMA CleanInit == LegacyWal = <<>> /\ Init => CleanInv
  BY DEF Init, CleanInv, CleanLog, LogIsOpen, CommitShape, Unfolded, InTxn

(* Either form of a statement does on replay what it did in the session.    *)
LEMMA TextRuns ==
    ASSUME TextsFoldExactly, NEW c \in Content, NEW st \in Stmt, NEW durable \in Durable(st)
    PROVE  Exec(c, durable) = Run(c, st)
  BY DEF TextsFoldExactly, Durable, Run

(* One more statement keeps a transaction unfolded.                         *)
LEMMA UnfoldedExtend ==
    ASSUME TextsFoldExactly, NEW r \in Txn, Shaped(r), FoldTaint(r) = {},
           NEW q, NEW st \in Stmt, NEW durable \in Durable(st),
           q.stmts = Append(r.stmts, durable),
           q.trace = Append(r.trace, Run(LastOf(r.trace), st))
    PROVE  FoldTaint(q) = {}
  <1>1. r.stmts \in Seq(Stmt) /\ r.trace \in Seq(Content)
    BY DEF Txn
  <1>2. \A i \in 1..Len(r.trace) : q.trace[i] = r.trace[i]
    BY <1>1
  <1>3. \A i \in 1..Len(r.stmts) : q.stmts[i] = r.stmts[i]
    BY <1>1
  <1>4. \A i \in 1..Len(r.stmts) : Exec(r.trace[i], r.stmts[i]) = r.trace[i + 1]
    BY DEF FoldTaint
  <1>5. ASSUME NEW i \in 1..Len(q.stmts)
        PROVE  Exec(q.trace[i], q.stmts[i]) = q.trace[i + 1]
    <2>1. Len(q.stmts) = Len(r.stmts) + 1
      BY <1>1
    <2>2. CASE i \in 1..Len(r.stmts)
      BY <1>1, <1>2, <1>3, <1>4, <2>2 DEF Shaped
    <2>3. CASE i = Len(r.stmts) + 1
      <3>1. q.stmts[i] = durable /\ q.trace[i] = LastOf(r.trace)
        BY <1>1, <1>2, <2>3 DEF Shaped, LastOf
      <3>2. q.trace[i + 1] = Run(LastOf(r.trace), st)
        BY <1>1, <2>3 DEF Shaped
      <3>3. LastOf(r.trace) \in Content
        BY <1>1, LastOfType DEF Shaped
      <3> QED BY <3>1, <3>2, <3>3, TextRuns
    <2>4. i \in 1..Len(r.stmts) \/ i = Len(r.stmts) + 1
      BY <1>1, <2>1
    <2> QED BY <2>2, <2>3, <2>4
  <1> QED BY <1>5 DEF FoldTaint

(* The steps of a session that touch neither the files nor the history.     *)
LEMMA CleanQuiet ==
    ASSUME CleanInv, CommitShape', Unfolded', taint' = {},
           UNCHANGED <<phase, wal, hist, walOpen>>,
           \A s \in Session : pc'[s] = "publish" <=> pc[s] = "publish",
           \A s \in Session : pc'[s] = "saveReopen" <=> pc[s] = "saveReopen"
    PROVE  CleanInv'
  BY DEF CleanInv, CleanLog, LogIsOpen

(* The lock holder is alone, and the newest record is the newest version.   *)
LEMMA HolderAlone ==
    ASSUME BaseInv, Good, CleanInv, NEW s \in Session, pc[s] \in Critical
    PROVE  /\ phase = "open" /\ MemInv /\ HolderInv
           /\ \A t \in Session : t # s => pc[t] \notin Critical
           /\ pc[s] # "saveReopen" => walOpen
           /\ wal # <<>> /\ pc[s] # "publish" => LastOf(wal).commit <= Len(hist)
  <1>1. /\ phase = "open" /\ MemInv /\ HolderInv
        /\ \A t \in Session : t # s => pc[t] \notin Critical
    BY BusyIsOpen DEF BaseInv, Good, OpenInv, LockInv, Critical
  <1>2. pc[s] # "saveReopen" => walOpen
    BY <1>1 DEF CleanInv, LogIsOpen, Critical
  <1>3. wal # <<>> /\ pc[s] # "publish" => LastOf(wal).commit <= Len(hist)
    BY <1>1 DEF CleanInv, CleanLog, Critical
  <1> QED BY <1>1, <1>2, <1>3

(* A record newer than the last one is appended as it is.                   *)
LEMMA AppendsWhole ==
    ASSUME NEW w \in Seq(Line), NEW line \in Line, line.kind = "rec", line.nl,
           \A i \in 1..Len(w) : w[i].kind = "rec" /\ w[i].nl,
           w # <<>> => LastOf(w).commit < line.commit
    PROVE  /\ AppendTaint(w, line) = {}
           /\ AppendLine(w, line) = Append(w, line)
           /\ Append(w, line) # <<>> /\ LastOf(Append(w, line)) = line
           /\ \A i \in 1..Len(Append(w, line)) :
                 Append(w, line)[i].kind = "rec" /\ Append(w, line)[i].nl
  <1>1. ASSUME w # <<>>
        PROVE  /\ LastOf(w).kind = "rec" /\ LastOf(w).nl
               /\ ~(LastOf(w).commit >= line.commit)
    <2>1. Len(w) \in 1..Len(w)
      BY <1>1
    <2>2. w[Len(w)] \in Line
      BY <2>1
    <2>3. LastOf(w).commit \in Nat /\ line.commit \in Nat
      BY <2>2 DEF Line, LastOf
    <2> QED BY <2>1, <2>3, <1>1 DEF LastOf
  <1>2. AppendTaint(w, line) = {}
    BY <1>1 DEF AppendTaint, Damaged
  <1>3. AppendLine(w, line) = Append(w, line)
    BY <1>1 DEF AppendLine
  <1>4. Append(w, line) # <<>> /\ LastOf(Append(w, line)) = line
    <2>1. Len(Append(w, line)) = Len(w) + 1 /\ Len(w) \in Nat
      OBVIOUS
    <2>2. Append(w, line)[Len(w) + 1] = line
      OBVIOUS
    <2>3. Append(w, line) # <<>>
      BY <2>1
    <2> QED BY <2>1, <2>2, <2>3 DEF LastOf
  <1>5. ASSUME NEW i \in 1..Len(Append(w, line))
        PROVE  Append(w, line)[i].kind = "rec" /\ Append(w, line)[i].nl
    <2>1. i \in 1..Len(w) \/ i = Len(w) + 1
      OBVIOUS
    <2>2. CASE i \in 1..Len(w)
      <3>1. Append(w, line)[i] = w[i]
        BY <2>2
      <3> QED BY <2>2, <3>1
    <2>3. CASE i = Len(w) + 1
      <3>1. Append(w, line)[i] = line
        BY <2>3
      <3> QED BY <3>1
    <2> QED BY <2>1, <2>2, <2>3
  <1> QED BY <1>2, <1>3, <1>4, <1>5

(* The record a session logs becomes the last line and taints nothing.      *)
LEMMA CleanAppend ==
    ASSUME BaseInv, ViewInv, Good, CleanInv, NEW s \in Session, pc[s] = "log"
    PROVE  LET line == WalRecord(work, TRUE)
               w    == AppendLine(wal, line) IN
           /\ AppendTaint(wal, line) = {}
           /\ w # <<>> /\ LastOf(w) = line /\ line.commit = Len(hist) + 1
           /\ \A i \in 1..Len(w) : w[i].kind = "rec" /\ w[i].nl
  <1> DEFINE line == WalRecord(work, TRUE)
  <1>1. MemInv /\ (wal # <<>> => LastOf(wal).commit <= Len(hist))
    BY HolderAlone DEF Critical
  <1>2. work.base = Len(hist)
    BY <1>1 DEF ViewInv, MemInv
  <1>3. line.kind = "rec" /\ line.nl /\ line.commit = Len(hist) + 1
    BY <1>2 DEF WalRecord
  <1>4. wal \in Seq(Line) /\ hist \in Seq(Content) /\ line \in Line
    BY ConstantTypes DEF BaseInv, TypeOK
  <1> HIDE DEF line
  <1>5. \A i \in 1..Len(wal) : wal[i].kind = "rec" /\ wal[i].nl
    BY DEF CleanInv, CleanLog
  <1>6. wal # <<>> => LastOf(wal).commit < line.commit
    <2>1. ASSUME wal # <<>> PROVE LastOf(wal).commit \in Nat
      <3>1. Len(wal) \in 1..Len(wal)
        BY <1>4, <2>1
      <3> QED BY <3>1, Parts DEF LastOf
    <2> QED BY <2>1, <1>1, <1>3, <1>4
  <1>7. /\ AppendTaint(wal, line) = {}
        /\ AppendLine(wal, line) # <<>> /\ LastOf(AppendLine(wal, line)) = line
        /\ \A i \in 1..Len(AppendLine(wal, line)) :
              AppendLine(wal, line)[i].kind = "rec" /\ AppendLine(wal, line)[i].nl
    <2> DEFINE w == Append(wal, line)
    <2>1. /\ AppendTaint(wal, line) = {} /\ AppendLine(wal, line) = w
          /\ w # <<>> /\ LastOf(w) = line
          /\ \A i \in 1..Len(w) : w[i].kind = "rec" /\ w[i].nl
      BY <1>3, <1>4, <1>5, <1>6, AppendsWhole
    <2> HIDE DEF w
    <2> QED BY <2>1
  <1> QED BY <1>3, <1>7 DEF line

(* The steps by which a session calls into the database.                    *)
LEMMA CleanClient ==
    ASSUME TextsFoldExactly, BaseInv, CleanInv, NEW s \in Session, ClientStep(s)
    PROVE  CleanInv'
  <1> USE DEF BaseInv, diskVars, ghostVars
  <1>0. /\ CommitShape /\ Unfolded /\ taint = {}
        /\ txn \in [Session -> Txn] /\ pc \in [Session -> Critical \cup {"idle", "wantSave"}]
    BY DEF CleanInv, TypeOK
  <1>1. CASE Begin(s)
    <2>1. CommitShape'
      BY <1>0, <1>1 DEF Begin, CommitShape, InTxn, Idle
    <2>2. Unfolded'
      <3>1. FoldTaint(txn'[s]) = {} /\ \A t \in Session : t # s => txn'[t] = txn[t]
        BY <1>0, <1>1 DEF Begin, FoldTaint
      <3> QED BY <3>1, <1>0 DEF Unfolded, InTxn
    <2> QED BY <2>1, <2>2, <1>0, <1>1, CleanQuiet DEF Begin
  <1>2. CASE Rollback(s) \/ CommitWithoutLog(s)
    <2>1. CommitShape'
      BY <1>0, <1>2 DEF Rollback, CommitWithoutLog, CommitShape, InTxn
    <2>2. Unfolded'
      BY <1>0, <1>2 DEF Rollback, CommitWithoutLog, Unfolded, InTxn
    <2> QED BY <2>1, <2>2, <1>0, <1>2, CleanQuiet DEF Rollback, CommitWithoutLog
  <1>3. CASE CommitBegin(s)
    <2>1. CommitShape'
      BY <1>0, <1>3 DEF CommitBegin, CommitShape, InTxn, LockFree, Critical
    <2>2. Unfolded'
      BY <1>0, <1>3 DEF CommitBegin, Unfolded, InTxn
    <2>3. taint' = {}
      BY <1>0, <1>3 DEF CommitBegin, Unfolded
    <2> QED BY <2>1, <2>2, <2>3, <1>0, <1>3, CleanQuiet DEF CommitBegin, Idle
  <1>4. ASSUME NEW st \in Stmt, NEW durable \in Durable(st), ExecuteInTxn(s, st, durable)
        PROVE  CleanInv'
    <2>1. CommitShape'
      BY <1>0, <1>4 DEF ExecuteInTxn, CommitShape, InTxn, Idle
    <2>2. Unfolded'
      <3>1. /\ txn'[s].stmts = Append(txn[s].stmts, durable)
            /\ txn'[s].trace = Append(txn[s].trace, Run(LastOf(txn[s].trace), st))
            /\ \A t \in Session : t # s => txn'[t] = txn[t]
        BY <1>0, <1>4 DEF ExecuteInTxn, Run
      <3>2. txn[s] \in Txn /\ Shaped(txn[s]) /\ FoldTaint(txn[s]) = {}
        BY <1>0, <1>4 DEF ExecuteInTxn, Unfolded, ShapeInv
      <3>3. FoldTaint(txn'[s]) = {}
        BY <3>1, <3>2, UnfoldedExtend
      <3> QED BY <3>1, <3>3, <1>0 DEF Unfolded, InTxn
    <2> QED BY <2>1, <2>2, <1>0, <1>4, CleanQuiet DEF ExecuteInTxn
  <1>5. ASSUME NEW st \in Stmt, NEW durable \in Durable(st), AutocommitBegin(s, st, durable)
        PROVE  CleanInv'
    <2>1. work'.stmts = <<durable>> /\ work'.trace = <<mem.content, Run(mem.content, st)>>
      BY <1>5 DEF AutocommitBegin, Run
    <2>2. CommitShape'
      <3>1. work'.trace = <<work'.trace[1], Run(work'.trace[1], st)>>
        BY <2>1
      <3>2. /\ ~InTxn(s) /\ UNCHANGED txn /\ pc'[s] = "log"
            /\ \A t \in Session : t # s => pc'[t] = pc[t] /\ pc[t] \notin {"log", "publish"}
        BY <1>0, <1>5 DEF AutocommitBegin, LockFree, Critical
      <3> QED BY <3>1, <3>2, <1>0 DEF CommitShape, InTxn
    <2>3. FoldTaint(work') = {}
      <3>1. Exec(mem.content, durable) = Run(mem.content, st)
        BY Parts, TextRuns
      <3> QED BY <2>1, <3>1 DEF FoldTaint
    <2>4. taint' = {} /\ Unfolded'
      BY <2>3, <1>0, <1>5 DEF AutocommitBegin, Unfolded, InTxn
    <2> QED BY <2>2, <2>4, <1>0, <1>5, CleanQuiet DEF AutocommitBegin, Idle
  <1>6. CASE SaveBegin(s)
    <2>1. CommitShape'
      BY <1>0, <1>6 DEF SaveBegin, CommitShape, InTxn
    <2>2. Unfolded'
      BY <1>0, <1>6 DEF SaveBegin, Unfolded, InTxn
    <2> QED BY <2>1, <2>2, <1>0, <1>6, CleanQuiet DEF SaveBegin
  <1> QED BY <1>1, <1>2, <1>3, <1>4, <1>5, <1>6 DEF ClientStep

(* The steps of the lock holder.                                            *)
LEMMA CleanHolder ==
    ASSUME BaseInv, ViewInv, Good, CleanInv, NEW s \in Session, HolderStep(s)
    PROVE  CleanInv'
  <1> USE DEF BaseInv, diskVars, ghostVars
  <1>0. /\ CommitShape /\ Unfolded /\ taint = {}
        /\ txn \in [Session -> Txn] /\ pc \in [Session -> Critical \cup {"idle", "wantSave"}]
        /\ wal \in Seq(Line) /\ hist \in Seq(Content)
    BY DEF CleanInv, TypeOK
  <1>1. pc[s] \in Critical
    BY DEF HolderStep, LogOk, Publish, SaveRename, SaveArchive, SaveEnd, Critical
  <1>2. /\ phase = "open" /\ MemInv /\ HolderInv
        /\ \A t \in Session : t # s => pc[t] \notin Critical
        /\ pc[s] # "saveReopen" => walOpen
        /\ wal # <<>> /\ pc[s] # "publish" => LastOf(wal).commit <= Len(hist)
    BY <1>1, HolderAlone
  <1>8. Unfolded'
    BY <1>0 DEF HolderStep, LogOk, Publish, SaveRename, SaveArchive, SaveEnd, Unfolded, InTxn
  <1>3. CASE LogOk(s)
    <2> DEFINE line == WalRecord(work, TRUE)
    <2>1. pc[s] = "log" /\ walOpen
      BY <1>2, <1>3 DEF LogOk
    <2>2. /\ wal' = AppendLine(wal, line) /\ taint' = taint \cup AppendTaint(wal, line)
          /\ pc'[s] = "publish" /\ \A t \in Session : t # s => pc'[t] = pc[t]
          /\ UNCHANGED <<phase, txn, work, walOpen, hist>>
      BY <2>1, <1>0, <1>3 DEF LogOk
    <2> HIDE DEF line
    <2>3. taint' = {} /\ \A i \in 1..Len(wal') : wal'[i].kind = "rec" /\ wal'[i].nl
      BY <2>1, <2>2, <1>0, CleanAppend DEF line
    <2>4. CommitShape'
      BY <2>1, <2>2, <1>0 DEF CommitShape, InTxn
    <2> QED BY <1>8, <2>1, <2>2, <2>3, <2>4 DEF CleanInv, CleanLog, LogIsOpen
  <1>4. CASE Publish(s)
    <2>1. /\ pc[s] = "publish" /\ pc'[s] \in {"idle", "wantSave"}
          /\ \A t \in Session : t # s => pc'[t] = pc[t]
          /\ hist' = Append(hist, LastOf(work.trace))
          /\ UNCHANGED <<phase, txn, walOpen, taint, wal>>
      BY <1>0, <1>4 DEF Publish
    <2>2. LastOf(wal).commit = Len(hist) + 1
      BY <2>1, <1>2 DEF HolderInv, WalRecord, MemInv, ViewInv
    <2>3. Len(hist') = Len(hist) + 1
      BY <2>1, <1>0
    <2>4. CommitShape'
      BY <2>1, <1>0, <1>2 DEF CommitShape, InTxn, Critical
    <2>5. CleanLog'
      BY <2>1, <2>2, <2>3, <1>0 DEF CleanInv, CleanLog
    <2> QED BY <1>8, <2>1, <2>4, <2>5, <1>2 DEF CleanInv, LogIsOpen, Critical
  <1>5. CASE SaveRename(s)
    <2>1. CommitShape'
      BY <1>0, <1>5 DEF SaveRename, CommitShape, InTxn
    <2> QED BY <1>8, <2>1, <1>0, <1>5, CleanQuiet DEF SaveRename
  <1>6. CASE SaveArchive(s)
    <2>1. CommitShape'
      BY <1>0, <1>6 DEF SaveArchive, CommitShape, InTxn
    <2>2. CleanLog'
      BY <1>6 DEF SaveArchive, CleanLog
    <2> QED BY <1>8, <2>1, <2>2, <1>0, <1>6 DEF SaveArchive, CleanInv, LogIsOpen
  <1>7. CASE SaveEnd(s)
    <2>1. CommitShape'
      BY <1>0, <1>7 DEF SaveEnd, CommitShape, InTxn
    <2>2. CleanLog'
      BY <1>0, <1>2, <1>7 DEF SaveEnd, CleanInv, CleanLog, Critical
    <2>3. walOpen'
      BY <1>2, <1>7 DEF SaveEnd
    <2> QED BY <1>8, <2>1, <2>2, <2>3, <1>0, <1>7 DEF SaveEnd, CleanInv, LogIsOpen
  <1> QED BY <1>3, <1>4, <1>5, <1>6, <1>7 DEF HolderStep

(* A crash leaves the log as it was or with the holder's whole record.      *)
LEMMA CleanCrash ==
    ASSUME Faults = {}, BaseInv, ViewInv, Good, CleanInv, Crash
    PROVE  CleanInv'
  <1>1. phase' = "closed" /\ \A s \in Session : txn'[s] = NoTxn /\ pc'[s] = "idle"
    BY DEF Crash
  <1>2. taint' = {} /\ \A i \in 1..Len(wal') : wal'[i].kind = "rec" /\ wal'[i].nl
    <2>1. CASE UNCHANGED <<wal, taint>>
      BY <2>1 DEF CleanInv, CleanLog
    <2>2. ASSUME NEW s \in Session, pc[s] = "log", NEW line \in CrashTails,
                 wal' = AppendLine(wal, line), taint' = taint \cup AppendTaint(wal, line)
          PROVE  taint' = {} /\ \A i \in 1..Len(wal') : wal'[i].kind = "rec" /\ wal'[i].nl
      <3>1. line = WalRecord(work, TRUE)
        BY DEF CrashTails
      <3>2. wal' = AppendLine(wal, WalRecord(work, TRUE))
            /\ taint' = taint \cup AppendTaint(wal, WalRecord(work, TRUE))
        BY <2>2, <3>1
      <3> QED BY <2>2, <3>2, CleanAppend DEF CleanInv
    <2> QED BY <2>1, <2>2 DEF Crash, CrashTail
  <1> QED BY <1>1, <1>2 DEF CleanInv, CleanLog, LogIsOpen, CommitShape, Unfolded, InTxn

(* Reopening: the log is read and left alone, up to its last record.        *)
LEMMA CleanReopen ==
    ASSUME BaseInv, Good, CleanInv, Open \/ Replay
    PROVE  CleanInv'
  <1> USE DEF memVars, diskVars, ghostVars
  <1>1. phase # "open" /\ \A s \in Session : pc[s] = "idle" /\ txn[s] = NoTxn
    <2>1. phase # "open"
      BY DEF Open, Replay, ReplaySkip, ReplayStatement, ReplayRecordEnd, ReplayLegacy,
             ReplayUnreadable, ReplayEnd, Replaying
    <2> QED BY <2>1 DEF BaseInv, LockInv
  <1>2. /\ UNCHANGED <<txn, pc, work, wal>>
        /\ taint' # taint => \E i \in 1..Len(wal) : wal[i].kind = "sql"
        /\ phase' = "open" => ReplayEnd
    BY DEF Open, Replay, ReplaySkip, ReplayStatement, ReplayRecordEnd, ReplayLegacy,
           ReplayUnreadable, ReplayEnd, Replaying
  <1>3. taint' = {} /\ CommitShape' /\ Unfolded'
    BY <1>1, <1>2 DEF CleanInv, CleanLog, CommitShape, Unfolded, InTxn
  <1>4. ASSUME ReplayEnd, wal # <<>> PROVE LastOf(wal).commit <= Len(hist) /\ hist' = hist
    <2>1. wal \in Seq(Line) /\ pos \in Nat /\ Len(wal) \in 1..Len(wal)
      BY <1>4 DEF BaseInv, TypeOK
    <2>2. pos > Len(wal) /\ phase = "replay" /\ hist' = hist
      BY <2>1, <1>4 DEF ReplayEnd, Replaying, CleanInv, CleanLog, BaseInv, TypeOK
    <2>3. LastOf(wal).commit <= mem.version /\ mem.version <= Len(hist)
      BY <2>1, <2>2 DEF Good, ReplayInv, LastOf
    <2>4. LastOf(wal).commit \in Nat /\ mem.version \in Nat /\ Len(hist) \in Nat
      BY <2>1, Parts DEF LastOf, BaseInv, TypeOK
    <2> QED BY <2>2, <2>3, <2>4
  <1>5. CleanLog'
    BY <1>2, <1>4 DEF CleanInv, CleanLog
  <1>6. phase' = "open" => walOpen'
    BY <1>2 DEF ReplayEnd
  <1> QED BY <1>3, <1>5, <1>6 DEF CleanInv, LogIsOpen

(* Every step of a database without faults keeps it clean.                  *)
LEMMA CleanStep ==
    ASSUME Faults = {}, TextsFoldExactly, BaseInv, ViewInv, DurInv, CleanInv, [Next]_vars
    PROVE  CleanInv'
  <1>1. Good
    BY DEF DurInv, CleanInv
  <1>2. ASSUME NEW s \in Session, ClientStep(s) PROVE CleanInv'
    BY <1>2, CleanClient
  <1>3. ASSUME NEW s \in Session, HolderStep(s) PROVE CleanInv'
    BY <1>1, <1>3, CleanHolder
  <1>4. ASSUME NEW s \in Session, LogErr(s) \/ SaveErr(s) PROVE CleanInv'
    BY <1>4 DEF LogErr, SaveErr, FailedWrites
  <1>5. CASE Crash
    BY <1>1, <1>5, CleanCrash
  <1>6. CASE Open \/ Replay
    BY <1>1, <1>6, CleanReopen
  <1>7. CASE UNCHANGED vars
    BY <1>7 DEF vars, CleanInv, CleanLog, LogIsOpen, CommitShape, Unfolded, InTxn
  <1> QED BY <1>2, <1>3, <1>4, <1>5, <1>6, <1>7 DEF Next

-----------------------------------------------------------------------------
(* Every step is a step of the abstract store, or none                      *)

(* No commit is in doubt while the database is open.                        *)
LEMMA OpenInDoubt == phase = "open" => InDoubt = {}
  BY DEF InDoubt

(* A step that leaves the images of the four variables alone.               *)
LEMMA Stutter ==
    ASSUME View' = View, Stale' = Stale, hist' = hist, InDoubt' = InDoubt
    PROVE  [Store!Next]_(Store!vars)
  BY DEF Store!vars, HistAt

(* What a session that calls into the database does to the store.           *)
LEMMA ClientRefines ==
    ASSUME BaseInv, ViewInv, Good, CleanInv, NEW s \in Session, ClientStep(s)
    PROVE  [Store!Next]_(Store!vars)
  <1> USE DEF BaseInv, diskVars, ghostVars
  <1>0. /\ CommitShape /\ txn \in [Session -> Txn]
        /\ pc \in [Session -> Critical \cup {"idle", "wantSave"}]
    BY DEF CleanInv, TypeOK
  <1>1. phase = "open" /\ phase' = "open" /\ hist' = hist
    BY DEF ClientStep, Begin, Rollback, CommitWithoutLog, CommitBegin, ExecuteInTxn,
           AutocommitBegin, SaveBegin, Idle
  <1>2. MemInv
    BY <1>1 DEF Good, OpenInv
  <1>3. InDoubt' = {} /\ InDoubt = {} /\ HistAt(Len(hist))' = HistAt(Len(hist))
    BY <1>1 DEF InDoubt, HistAt
  <1>4. CASE Begin(s)
    <2>1. /\ ~InTxn(s) /\ pc[s] = "idle" /\ txn'[s].base = mem.version
          /\ txn'[s].trace = <<mem.content>> /\ UNCHANGED <<pc, work>>
          /\ \A t \in Session : t # s => txn'[t] = txn[t]
      BY <1>0, <1>4 DEF Begin, Idle
    <2>2. InTxn(s)' /\ LastOf(txn'[s].trace) = HistAt(Len(hist))
      <3>1. Len(txn'[s].trace) = 1 /\ txn'[s].trace[1] = mem.content
        BY <2>1
      <3>2. txn'[s].trace # NoTxn.trace
        BY <3>1 DEF NoTxn
      <3>3. mem.content = HistAt(Len(hist))
        BY <1>2 DEF MemInv, At, HistAt
      <3> QED BY <3>1, <3>2, <3>3 DEF InTxn, LastOf
    <2>3. View[s] = <<>> /\ View' = [View EXCEPT ![s] = <<HistAt(Len(hist))>>]
      BY <2>1, <2>2 DEF View, Committing, InTxn
    <2>4. Stale' = Stale
      BY <2>1, <1>1, <1>2 DEF Stale, InTxn, MemInv
    <2>5. Store!Begin(s)
      BY <2>3, <2>4, <1>3 DEF Store!Begin
    <2> QED BY <2>5 DEF Store!Next
  <1>5. ASSUME NEW st \in Stmt, NEW durable \in Durable(st),
               ExecuteInTxn(s, st, durable) PROVE [Store!Next]_(Store!vars)
    <2> DEFINE c == LastOf(txn[s].trace)
    <2>1. /\ InTxn(s) /\ pc[s] = "idle" /\ Run(c, st) # ExecError
          /\ txn'[s].base = txn[s].base /\ txn'[s].stmts = Append(txn[s].stmts, durable)
          /\ txn'[s].trace = Append(txn[s].trace, Run(c, st)) /\ UNCHANGED <<pc, work>>
          /\ \A t \in Session : t # s => txn'[t] = txn[t]
      BY <1>0, <1>5 DEF ExecuteInTxn, Idle, Run, c
    <2>2. txn[s].stmts \in Seq(Stmt) /\ txn[s].trace \in Seq(Content) /\ Len(txn[s].trace) > 0
      BY <2>1, Parts DEF ShapeInv, Shaped
    <2>3. c \in Content /\ Run(c, st) \in Content
      <3>1. c \in Content
        BY <2>2, LastOfType
      <3> QED BY <3>1, <2>1, ExecAssumption DEF Run
    <2> HIDE DEF c
    <2>4. InTxn(s)' /\ LastOf(txn'[s].trace) = Run(c, st)
      <3>1. txn'[s].stmts # <<>>
        <4>1. \A q \in Seq(Stmt) : Len(Append(q, durable)) = Len(q) + 1 /\ Len(q) \in Nat
          OBVIOUS
        <4>2. Len(txn'[s].stmts) > 0
          BY <2>1, <2>2, <4>1
        <4> QED BY <4>2
      <3>2. LastOf(txn'[s].trace) = Run(c, st)
        BY <2>1, <2>2, <2>3 DEF LastOf
      <3> QED BY <3>1, <3>2 DEF InTxn, NoTxn
    <2>5. View[s] = <<c>> /\ View' = [View EXCEPT ![s] = <<Run(c, st)>>]
      BY <2>1, <2>4 DEF View, Committing, InTxn, c
    <2>6. Stale' = Stale
      BY <2>1, <2>4, <1>1 DEF Stale, InTxn
    <2>7. Store!Execute(s, st)
      BY <2>1, <2>5, <2>6, <1>3 DEF Store!Execute
    <2> QED BY <2>7 DEF Store!Next
  <1>6. CASE Rollback(s) \/ CommitWithoutLog(s)
    <2>1. /\ InTxn(s) /\ pc[s] = "idle" /\ txn'[s] = NoTxn /\ UNCHANGED <<pc, work>>
          /\ \A t \in Session : t # s => txn'[t] = txn[t]
      BY <1>0, <1>6 DEF Rollback, CommitWithoutLog, Idle
    <2>2. View[s] # <<>> /\ View' = [View EXCEPT ![s] = <<>>]
      BY <2>1 DEF View, Committing, InTxn
    <2>3. Stale' = Stale \ {s}
      BY <2>1, <1>1 DEF Stale, InTxn
    <2>4. Store!End(s)
      BY <2>2, <2>3, <1>3 DEF Store!End
    <2> QED BY <2>4 DEF Store!Next
  <1>7. CASE CommitBegin(s)
    <2>1. /\ InTxn(s) /\ pc[s] = "idle" /\ txn'[s] = NoTxn /\ pc'[s] = "log"
          /\ work' = txn[s] /\ txn[s].base = mem.version
          /\ \A t \in Session : t # s => txn'[t] = txn[t] /\ pc'[t] = pc[t]
          /\ \A t \in Session : pc[t] \notin {"log", "publish"}
      BY <1>0, <1>7 DEF CommitBegin, Idle, LockFree, Critical
    <2>2. ~work'.auto
      BY <2>1, <1>0 DEF CommitShape
    <2>3. ASSUME NEW t \in Session PROVE View'[t] = View[t]
      BY <2>1, <2>2 DEF View, Committing, InTxn
    <2>4. View' = View
      BY <2>3 DEF View
    <2>5. Stale' = Stale
      BY <2>1, <1>1, <1>2 DEF Stale, InTxn, MemInv
    <2> QED BY <2>4, <2>5, <1>1, <1>3, Stutter
  <1>8. ASSUME NEW st \in Stmt, NEW durable \in Durable(st),
               AutocommitBegin(s, st, durable) PROVE [Store!Next]_(Store!vars)
    <2>1. /\ ~InTxn(s) /\ pc[s] = "idle" /\ pc'[s] = "log" /\ txn' = txn /\ work'.auto
          /\ \A t \in Session : t # s => pc'[t] = pc[t]
          /\ \A t \in Session : pc[t] \notin {"log", "publish"}
      BY <1>0, <1>8 DEF AutocommitBegin, Idle, LockFree, Critical
    <2>2. View' = View /\ Stale' = Stale
      BY <2>1, <1>1 DEF View, Stale, Committing, InTxn
    <2> QED BY <2>2, <1>1, <1>3, Stutter
  <1>9. CASE SaveBegin(s)
    <2>1. /\ pc[s] \in {"idle", "wantSave"} /\ pc'[s] = "save" /\ UNCHANGED <<txn, work>>
          /\ \A t \in Session : t # s => pc'[t] = pc[t]
      BY <1>0, <1>9 DEF SaveBegin
    <2>2. View' = View /\ Stale' = Stale
      BY <2>1, <1>1 DEF View, Stale, Committing, InTxn
    <2> QED BY <2>2, <1>1, <1>3, Stutter
  <1> QED BY <1>4, <1>5, <1>6, <1>7, <1>8, <1>9 DEF ClientStep

(* What a commit will publish is what its session sees, or the result of    *)
(* one statement on the store.                                              *)
LEMMA CommitSource ==
    ASSUME BaseInv, ViewInv, Good, CleanInv, NEW s \in Session, pc[s] \in {"log", "publish"}
    PROVE  /\ LastOf(work.trace) \in Content /\ ~InTxn(s) /\ s \notin Stale
           /\ ~work.auto => View[s] = <<LastOf(work.trace)>>
           /\ work.auto => /\ View[s] = <<>>
                           /\ \E st \in Stmt : Run(HistAt(Len(hist)), st) = LastOf(work.trace)
  <1>1. MemInv /\ HolderInv
    BY HolderAlone DEF Critical
  <1>2. ~InTxn(s)
    BY DEF CleanInv, CommitShape
  <1>3. /\ work.stmts \in Seq(Stmt) /\ work.trace \in Seq(Content)
        /\ Len(work.trace) = Len(work.stmts) + 1
    BY Parts DEF BaseInv, ShapeInv, Shaped
  <1>4. LastOf(work.trace) \in Content
    BY <1>3, LastOfType
  <1>5. ASSUME work.auto PROVE \E st \in Stmt : Run(HistAt(Len(hist)), st) = LastOf(work.trace)
    <2>1. PICK st \in Stmt : work.trace = <<work.trace[1], Run(work.trace[1], st)>>
      BY <1>5 DEF CleanInv, CommitShape
    <2>2. LastOf(work.trace) = Run(work.trace[1], st)
      <3>1. Len(work.trace) = 2 /\ work.trace[2] = Run(work.trace[1], st)
        BY <2>1
      <3> QED BY <3>1 DEF LastOf
    <2>3. work.trace[1] = HistAt(Len(hist))
      BY <1>1 DEF ViewInv, MemInv, At, HistAt
    <2> QED BY <2>2, <2>3
  <1>6. work.auto \in BOOLEAN
    BY DEF BaseInv, TypeOK, Txn
  <1>7. View[s] = IF work.auto THEN <<>> ELSE <<LastOf(work.trace)>>
    BY <1>2, <1>6 DEF View, Committing
  <1>8. s \notin Stale
    BY <1>2 DEF Stale
  <1> QED BY <1>2, <1>4, <1>5, <1>6, <1>7, <1>8

(* A commit takes effect when it is published; the other steps of the lock  *)
(* holder are invisible.                                                    *)
LEMMA HolderRefines ==
    ASSUME BaseInv, ViewInv, Good, CleanInv, NEW s \in Session, HolderStep(s)
    PROVE  [Store!Next]_(Store!vars)
  <1> USE DEF BaseInv, diskVars, ghostVars
  <1>0. /\ txn \in [Session -> Txn] /\ pc \in [Session -> Critical \cup {"idle", "wantSave"}]
        /\ hist \in Seq(Content)
    BY DEF TypeOK
  <1>1. pc[s] \in Critical
    BY DEF HolderStep, LogOk, Publish, SaveRename, SaveArchive, SaveEnd, Critical
  <1>2. /\ phase = "open" /\ MemInv /\ \A t \in Session : t # s => pc[t] \notin Critical
    BY <1>1, HolderAlone
  <1>3. phase' = "open"
    BY <1>2 DEF HolderStep, LogOk, Publish, SaveRename, SaveArchive, SaveEnd
  <1>4. InDoubt = {} /\ InDoubt' = {}
    BY <1>2, <1>3 DEF InDoubt
  <1>5. CASE Publish(s)
    <2> DEFINE c == LastOf(work.trace)
    <2>1. /\ pc[s] = "publish" /\ pc'[s] \in {"idle", "wantSave"} /\ txn' = txn
          /\ \A t \in Session : t # s => pc'[t] = pc[t]
          /\ hist' = Append(hist, c)
      BY <1>0, <1>5 DEF Publish
    <2>2. /\ c \in Content /\ ~InTxn(s) /\ s \notin Stale
          /\ ~work.auto => View[s] = <<c>>
          /\ work.auto => /\ View[s] = <<>>
                          /\ \E st \in Stmt : Run(HistAt(Len(hist)), st) = c
      BY <2>1, CommitSource
    <2> HIDE DEF c
    <2>3. Len(hist') = Len(hist) + 1 /\ HistAt(Len(hist))' = c
      BY <2>1, <2>2, <1>0 DEF HistAt
    <2>4. \A t \in Session : t # s => ~Committing(t) /\ ~Committing(t)'
      BY <2>1, <1>2 DEF Committing, Critical
    <2>5. View' = [View EXCEPT ![s] = <<>>]
      BY <2>1, <2>2, <2>4 DEF View, Committing, InTxn
    <2>6. Stale' = {t \in Session \ {s} : View[t] # <<>>}
      <3>1. ASSUME NEW t \in Session, InTxn(t) PROVE txn[t].base # Len(hist')
        BY <3>1, <2>3, <1>0, <1>2, Parts DEF ViewInv, MemInv
      <3>2. \A t \in Session : t # s => (View[t] # <<>> <=> InTxn(t))
        BY <2>4 DEF View
      <3> QED BY <3>1, <3>2, <2>1, <2>2 DEF Stale, InTxn
    <2>7. CASE work.auto
      <3>1. PICK st \in Stmt : Run(HistAt(Len(hist)), st) = c
        BY <2>2, <2>7
      <3>2. View' = View /\ View[s] = <<>>
        BY <2>2, <2>5, <2>7 DEF View
      <3>3. c # ExecError
        BY <2>2, ExecAssumption
      <3>4. Store!Autocommit(s, st)
        BY <3>1, <3>2, <3>3, <2>3, <2>6, <1>4 DEF Store!Autocommit, Store!Overtaken
      <3> QED BY <3>4 DEF Store!Next
    <2>8. CASE ~work.auto
      <3>1. Store!Commit(s)
        BY <2>2, <2>3, <2>5, <2>6, <2>8, <1>4 DEF Store!Commit, Store!Overtaken
      <3> QED BY <3>1 DEF Store!Next
    <2> QED BY <2>7, <2>8
  <1>6. CASE ~Publish(s)
    <2>1. /\ hist' = hist /\ UNCHANGED <<txn, work>>
          /\ pc[s] \in {"log", "publish"} <=> pc'[s] \in {"log", "publish"}
          /\ \A t \in Session : t # s => pc'[t] = pc[t]
      BY <1>0, <1>6 DEF HolderStep, LogOk, SaveRename, SaveArchive, SaveEnd
    <2>2. View' = View /\ Stale' = Stale
      BY <2>1 DEF View, Stale, Committing, InTxn
    <2> QED BY <2>1, <2>2, <1>4, Stutter
  <1> QED BY <1>5, <1>6

(* A record that outlived its process is a commit in doubt, one that some   *)
(* session was making.                                                      *)
LEMMA CrashRefines ==
    ASSUME Faults = {}, BaseInv, ViewInv, Good, CleanInv, Crash
    PROVE  [Store!Next]_(Store!vars)
  <1>1. /\ phase \in {"open", "replay"} /\ phase' = "closed" /\ CrashTail /\ hist' = hist
        /\ txn' = [s \in Session |-> NoTxn] /\ pc' = [s \in Session |-> "idle"]
    BY DEF Crash
  <1>2. View' = [s \in Session |-> <<>>] /\ Stale' = {}
    BY <1>1 DEF View, Stale, Committing, InTxn
  <1>3. HistAt(Len(hist))' = HistAt(Len(hist))
    BY <1>1 DEF HistAt
  <1>4. InDoubt' = InDoubt \/ \E c \in Store!InFlight : InDoubt' = {c}
    <2>1. ASSUME NEW s \in Session, pc[s] \in {"log", "publish"}
          PROVE  LastOf(work.trace) \in Store!InFlight
      <3>1. /\ LastOf(work.trace) \in Content /\ s \notin Stale
            /\ ~work.auto => View[s] = <<LastOf(work.trace)>>
            /\ work.auto => \E st \in Stmt : Run(HistAt(Len(hist)), st) = LastOf(work.trace)
        BY <2>1, CommitSource
      <3>2. LastOf(work.trace) # ExecError
        BY <3>1, ExecAssumption
      <3>3. CASE work.auto
        BY <3>1, <3>2, <3>3 DEF Store!InFlight
      <3>4. CASE ~work.auto
        <4>1. View[s][1] = LastOf(work.trace) /\ View[s] # <<>>
          BY <3>1, <3>4
        <4> QED BY <3>1, <4>1 DEF Store!InFlight
      <3> QED BY <3>3, <3>4
    <2>2. ASSUME NEW s \in Session, pc[s] = "log", NEW line \in CrashTails,
                 wal' = AppendLine(wal, line)
          PROVE  \E c \in Store!InFlight : InDoubt' = {c}
      <3>1. line = WalRecord(work, TRUE)
        BY DEF CrashTails
      <3>2. wal' # <<>> /\ LastOf(wal') = WalRecord(work, TRUE) /\ LastOf(wal').commit = Len(hist) + 1
        BY <2>2, <3>1, CleanAppend
      <3>3. LastOf(wal').kind = "rec" /\ LastOf(wal').trace = work.trace
        BY <3>2 DEF WalRecord
      <3>4. InDoubt' = {LastOf(work.trace)}
        BY <3>2, <3>3, <1>1 DEF InDoubt
      <3> QED BY <3>4, <2>1, <2>2
    <2>3. CASE wal' = wal /\ phase = "replay"
      BY <2>3, <1>1 DEF InDoubt
    <2>4. CASE wal' = wal /\ phase = "open"
      <3>1. InDoubt = {}
        BY <2>4, OpenInDoubt
      <3>2. ASSUME NEW s \in Session, pc[s] = "publish"
            PROVE  \E c \in Store!InFlight : InDoubt' = {c}
        <4>0. MemInv /\ HolderInv
          BY <3>2, HolderAlone DEF Critical
        <4>1. MemInv /\ wal # <<>> /\ LastOf(wal) = WalRecord(work, TRUE)
          <5>1. Len(wal) > 0 /\ LastOf(wal) = WalRecord(work, TRUE)
            BY <3>2, <4>0 DEF HolderInv
          <5>2. wal # <<>>
            BY <5>1 DEF BaseInv, TypeOK
          <5> QED BY <4>0, <5>1, <5>2
        <4>2. /\ LastOf(wal).kind = "rec" /\ LastOf(wal).trace = work.trace
              /\ LastOf(wal).commit = Len(hist) + 1
          BY <4>1, <3>2 DEF WalRecord, ViewInv, MemInv
        <4>3. InDoubt' = {LastOf(work.trace)}
          BY <4>1, <4>2, <2>4, <1>1 DEF InDoubt
        <4> QED BY <4>3, <2>1, <3>2
      <3>3. CASE \A s \in Session : pc[s] # "publish"
        <4>1. wal # <<>> => LastOf(wal).commit <= Len(hist) /\ LastOf(wal).commit \in Nat
          <5>1. wal # <<>> => Len(wal) \in 1..Len(wal)
            BY DEF BaseInv, TypeOK
          <5> QED BY <5>1, <2>4, <3>3, Parts DEF CleanInv, CleanLog, LastOf
        <4>2. Len(hist) \in Nat
          BY DEF BaseInv, TypeOK
        <4>3. InDoubt' = {}
          BY <4>1, <4>2, <2>4, <1>1 DEF InDoubt
        <4> QED BY <3>1, <4>3
      <3> QED BY <3>2, <3>3
    <2> QED BY <2>2, <2>3, <2>4, <1>1 DEF CrashTail
  <1>5. Store!Crash
    BY <1>2, <1>3, <1>4 DEF Store!Crash
  <1> QED BY <1>5 DEF Store!Next

(* Replay decides a commit in doubt when it has run its record.             *)
LEMMA RecordEndRefines ==
    ASSUME BaseInv, Good, CleanInv, ReplayRecordEnd
    PROVE  [Store!Next]_(Store!vars)
  <1> USE DEF BaseInv, diskVars
  <1> DEFINE r == wal[pos]
  <1>1. /\ Replaying("rec") /\ Pending /\ idx = Len(r.stmts) + 1 /\ phase = "replay"
        /\ r.kind = "rec" /\ UNCHANGED <<phase, txn, pc, work, wal>>
        /\ hist' = IF r.commit = Len(hist) + 1 THEN Append(hist, mem.content) ELSE hist
    BY DEF ReplayRecordEnd, Replaying
  <1>2. /\ pos \in 1..Len(wal) /\ RecordOf(hist, r) /\ r.base = mem.version
        /\ mem.content = r.trace[idx]
    BY <1>1, PendingContinues
  <1>3. mem.content = LastOf(r.trace)
    BY <1>1, <1>2 DEF LastOf, ShapeInv, Shaped
  <1>4. \A s \in Session : pc[s] = "idle" /\ ~InTxn(s)
    BY <1>1 DEF LockInv, InTxn
  <1>5. View = [s \in Session |-> <<>>] /\ View' = View /\ Stale = {} /\ Stale' = {}
    BY <1>1, <1>4 DEF View, Stale, Committing, InTxn
  <1>6. CASE r.commit # Len(hist) + 1
    <2>1. hist' = hist /\ InDoubt' = InDoubt
      BY <1>1, <1>6 DEF InDoubt
    <2> QED BY <2>1, <1>5, Stutter
  <1>7. CASE r.commit = Len(hist) + 1
    <2>1. pos = Len(wal)
      <3>1. /\ wal \in Seq(Line) /\ Len(wal) \in 1..Len(wal) /\ 1 \in 1..Len(wal)
            /\ Len(wal) \in Nat /\ pos \in Nat /\ Len(hist) \in Nat
        BY <1>2 DEF TypeOK
      <3>2. wal[Len(wal)].kind = "rec"
        BY <3>1 DEF CleanInv, CleanLog
      <3>3. /\ RecordOf(hist, wal[Len(wal)])
            /\ wal[Len(wal)].base = wal[1].base + (Len(wal) - 1)
            /\ r.base = wal[1].base + (pos - 1)
        BY <3>1, <3>2, <1>1, <1>2 DEF Good, DiskInv, Disk, LogOf
      <3>4. wal[Len(wal)].base <= Len(hist) /\ r.commit = r.base + 1
        BY <3>3, <1>2 DEF RecordOf
      <3>5. wal[1].base \in Nat /\ r.base \in Nat
        BY <3>1, <1>2, Parts
      <3> QED BY <3>1, <3>3, <3>4, <3>5, <1>2, <1>7
    <2>2. InDoubt = {mem.content}
      BY <2>1, <1>1, <1>2, <1>3, <1>7 DEF InDoubt, LastOf
    <2>3. /\ hist' = Append(hist, mem.content) /\ mem.content \in Content
          /\ hist \in Seq(Content)
      BY <1>1, <1>7, Parts DEF TypeOK
    <2>4. Len(hist') = Len(hist) + 1 /\ HistAt(Len(hist))' = mem.content
      BY <2>3 DEF HistAt
    <2>5. InDoubt' = {}
      <3>1. LastOf(wal').commit # Len(hist') + 1
        BY <2>1, <2>3, <2>4, <1>1, <1>7 DEF LastOf
      <3> QED BY <3>1 DEF InDoubt
    <2>6. Store!Recover
      BY <2>2, <2>4, <2>5, <1>5 DEF Store!Recover
    <2> QED BY <2>6 DEF Store!Next
  <1> QED BY <1>6, <1>7

(* The rest of open() is invisible: it ends with no commit in doubt.        *)
LEMMA ReopenRefines ==
    ASSUME BaseInv, Good, CleanInv, CleanInv', Open \/ Replay
    PROVE  [Store!Next]_(Store!vars)
  <1> USE DEF memVars, diskVars, ghostVars
  <1>1. CASE ReplayRecordEnd
    BY <1>1, RecordEndRefines
  <1>2. CASE ReplayLegacy
    BY <1>2 DEF ReplayLegacy, Replaying, CleanInv, CleanLog, BaseInv, TypeOK
  <1>3. CASE Open \/ ReplaySkip \/ ReplayStatement \/ ReplayUnreadable \/ ReplayEnd
    <2>1. phase # "open" /\ UNCHANGED <<txn, pc, work, wal, hist>>
      BY <1>3 DEF Open, ReplaySkip, ReplayStatement, ReplayUnreadable, ReplayEnd, Replaying
    <2>2. View' = View /\ Stale' = Stale
      BY <2>1 DEF View, Stale, Committing, InTxn
    <2>3. InDoubt' = InDoubt
      <3>1. CASE phase' # "open"
        BY <3>1, <2>1 DEF InDoubt
      <3>2. CASE phase' = "open"
        <4>1. \A s \in Session : pc'[s] # "publish"
          BY <2>1 DEF BaseInv, LockInv
        <4>2. wal # <<>> => LastOf(wal).commit <= Len(hist) /\ LastOf(wal).commit \in Nat
          <5>1. wal # <<>> => Len(wal) \in 1..Len(wal)
            BY DEF BaseInv, TypeOK
          <5> QED BY <5>1, <4>1, <3>2, <2>1, Parts DEF CleanInv, CleanLog, LastOf
        <4>3. Len(hist) \in Nat
          BY DEF BaseInv, TypeOK
        <4> QED BY <4>2, <4>3, <3>2, <2>1 DEF InDoubt
      <3> QED BY <3>1, <3>2
    <2> QED BY <2>1, <2>2, <2>3, Stutter
  <1> QED BY <1>1, <1>2, <1>3 DEF Replay

-----------------------------------------------------------------------------
(* The theorem                                                              *)

(* Without storage faults, and when the optimizer folds no text it is sent  *)
(* into a statement that does something else, SQLDatabase and its sessions  *)
(* are, for every executor and any number of crashes at any step of         *)
(* commit(), save() and replay_wal(), an atomic store: commits take effect one after the other,  *)
(* a transaction commits only on the store it began with, no crash undoes a *)
(* commit that was visible, and one that was not answered is either the     *)
(* next commit or none.                                                     *)
THEOREM Refinement ==
    ASSUME Faults = {}, LegacyWal = <<>>, TextsFoldExactly
    PROVE  Spec => ImplementsStore
  <1>1. Init => Store!Init
    <2> SUFFICES ASSUME Init PROVE Store!Init
      OBVIOUS
    <2>1. hist = <<>> /\ wal = <<>> /\ \A s \in Session : txn[s] = NoTxn /\ pc[s] = "idle"
      BY DEF Init
    <2>2. HistAt(Len(hist)) = InitContent /\ InDoubt = {}
      BY <2>1 DEF HistAt, InDoubt
    <2>3. View = [s \in Session |-> <<>>] /\ Stale = {}
      BY <2>1 DEF View, Stale, Committing, InTxn
    <2> QED BY <2>2, <2>3 DEF Store!Init
  <1>2. Init => CleanInv
    BY CleanInit
  <1>3. BaseInv /\ ViewInv /\ DurInv /\ CleanInv /\ [Next]_vars => CleanInv'
    BY CleanStep
  <1>4. BaseInv /\ ViewInv /\ DurInv /\ CleanInv /\ CleanInv' /\ [Next]_vars
          => [Store!Next]_(Store!vars)
    <2> SUFFICES ASSUME BaseInv, ViewInv, DurInv, CleanInv, CleanInv', [Next]_vars
                 PROVE  [Store!Next]_(Store!vars)
      OBVIOUS
    <2>1. Good
      BY DEF DurInv, CleanInv
    <2>2. ASSUME NEW s \in Session, ClientStep(s) PROVE [Store!Next]_(Store!vars)
      BY <2>1, <2>2, ClientRefines
    <2>3. ASSUME NEW s \in Session, HolderStep(s) PROVE [Store!Next]_(Store!vars)
      BY <2>1, <2>3, HolderRefines
    <2>4. ASSUME NEW s \in Session, LogErr(s) \/ SaveErr(s) PROVE FALSE
      BY <2>4 DEF LogErr, SaveErr, FailedWrites
    <2>5. CASE Crash
      BY <2>1, <2>5, CrashRefines
    <2>6. CASE Open \/ Replay
      BY <2>1, <2>6, ReopenRefines
    <2>7. CASE UNCHANGED vars
      <3>1. View' = View /\ Stale' = Stale /\ InDoubt' = InDoubt /\ hist' = hist
        BY <2>7 DEF vars, View, Stale, InDoubt, Committing, InTxn
      <3> QED BY <3>1, Stutter
    <2> QED BY <2>2, <2>3, <2>4, <2>5, <2>6, <2>7 DEF Next
  <1> QED BY <1>1, <1>2, <1>3, <1>4, Inductive, PTL DEF Spec, ImplementsStore, Store!Spec
=============================================================================
