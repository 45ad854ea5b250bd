---------------------------- MODULE SqlDatabase ----------------------------
(***************************************************************************)
(* The durable transactional core of RustyDB's SQL side: SQLDatabase and   *)
(* SQLSession in src/sql/database.rs.  Sessions execute statements against *)
(* one shared catalog, either in autocommit mode or inside an optimistic   *)
(* transaction; every commit appends one checksummed record to sql_wal.log *)
(* under the catalog write lock; save() publishes a catalog snapshot and   *)
(* archives the log; the process may crash between any two of these steps  *)
(* and is reopened by loading the snapshot and replaying the log.          *)
(*                                                                         *)
(* The executor is a parameter: Exec(c, st) is the catalog contents that   *)
(* Executor::execute_catalog leaves when statement st runs on contents c,  *)
(* or ExecError when it reports an error (it then leaves c alone).  So is  *)
(* the optimizer: a session executes Optimize(st), while the log keeps the *)
(* text of st, which replay parses and does not optimize, or, of a         *)
(* prepared statement, the bound and optimized statement itself.  Nothing  *)
(* is assumed of the two but that they are functions.                      *)
(*                                                                         *)
(* hist, trace, taint and the two counters are history variables: no guard *)
(* of a modelled operation reads hist, trace or taint.                     *)
(***************************************************************************)
EXTENDS Integers, Sequences

CONSTANTS
    Session,        \* SQLSession objects
    Stmt,           \* write statements
    Ddl,            \* those for which is_schema_statement holds
    Content,        \* catalog contents: tables, rows and indexes
    Exec(_, _),     \* Executor::execute_catalog
    Optimize(_),    \* Optimizer::optimize_statement
    Textual,        \* statements that are sent as text; the others are prepared
    ExecError,      \* its ExecutionResult::Error
    InitContent,    \* contents found in the data directory at first start
    LegacyWal,      \* v0.2 log found at first start: one bare statement per line
    Faults,         \* which storage faults the environment may inject
    MaxVersion,     \* bound on the catalog versions ever committed
    MaxStmts,       \* bound on the statements of one transaction
    MaxCrashes,     \* bound on process crashes
    MaxFaults       \* bound on injected faults

FaultKinds == {"torn", "split", "unterminated", "write", "sync", "save"}

ASSUME ExecAssumption ==
    /\ ExecError \notin Content
    /\ \A c \in Content, st \in Stmt : Exec(c, st) \in Content \cup {ExecError}
    /\ \A st \in Stmt : Optimize(st) \in Stmt /\ (Optimize(st) \in Ddl <=> st \in Ddl)

ASSUME ConstantsAssumption ==
    /\ Ddl \subseteq Stmt /\ Textual \subseteq Stmt
    /\ InitContent \in Content
    /\ LegacyWal \in Seq(Stmt)
    /\ Faults \subseteq FaultKinds
    /\ MaxVersion \in Nat /\ MaxStmts \in Nat
    /\ MaxCrashes \in Nat /\ MaxFaults \in Nat

VARIABLES
    phase,      \* "closed", "replay", "open" or "failed" (open() returned Err)
    mem,        \* the shared in-memory Catalog
    txn,        \* per session: the Option<TransactionState>
    pc,         \* per session: where it is inside a catalog-lock region
    work,       \* the working catalog and record of the lock holder
    snapshot,   \* catalog.json
    wal,        \* the lines of sql_wal.log
    walOpen,    \* the WAL handle is Some(file)
    archive,    \* the lines moved to wal_archive/sql, in order
    pos, idx,   \* replay: current line, next statement of it
    hist,       \* hist[v]: contents made visible as version v
    taint,      \* known hazards that have struck, see AppendTaint, FoldTaint, LogOk
    crashes, faults

memVars  == <<phase, mem, txn, pc, work, walOpen>>
diskVars == <<snapshot, wal, archive>>
ghostVars == <<hist, taint, crashes, faults>>
vars == <<phase, mem, txn, pc, work, snapshot, wal, walOpen, archive,
          pos, idx, hist, taint, crashes, faults>>

-----------------------------------------------------------------------------
(* Data                                                                     *)

Catalog == [version : Nat, schema : Nat, content : Content]

(* TransactionState and the record being committed share one shape.  trace  *)
(* is the private catalog after each statement: trace[1] is the snapshot    *)
(* the transaction started from, the last element what it would publish.    *)
Txn == [base : Nat, stmts : Seq(Stmt), trace : Seq(Content), ddl : BOOLEAN,
        auto : BOOLEAN]

NoTxn == [base |-> 0, stmts |-> <<>>, trace |-> <<>>, ddl |-> FALSE, auto |-> FALSE]

(* One line of sql_wal.log.  "rec": a WalRecord whose checksum is valid;    *)
(* "sql": a bare v0.2 statement; "bad": text replay cannot parse; "raw":    *)
(* bytes that are not UTF-8, which it cannot even read.  nl: the line ends  *)
(* in a newline.                                                            *)
Line == [kind : {"rec", "sql", "bad", "raw"}, base : Nat, commit : Nat,
         stmts : Seq(Stmt), trace : Seq(Content), nl : BOOLEAN]

BadLine(nl) == [kind |-> "bad", base |-> 0, commit |-> 0,
                stmts |-> <<>>, trace |-> <<>>, nl |-> nl]

RawLine(nl) == [kind |-> "raw", base |-> 0, commit |-> 0,
                stmts |-> <<>>, trace |-> <<>>, nl |-> nl]

Damaged(line) == line.kind \in {"bad", "raw"}

SqlLine(st) == [kind |-> "sql", base |-> 0, commit |-> 0,
                stmts |-> <<st>>, trace |-> <<>>, nl |-> TRUE]

WalRecord(w, nl) == [kind |-> "rec", base |-> w.base, commit |-> w.base + 1,
                     stmts |-> w.stmts, trace |-> w.trace, nl |-> nl]

LastOf(s) == s[Len(s)]

HistAt(v) == IF v = 0 THEN InitContent ELSE hist[v]

(* Two lines run together.                                                  *)
Merged(last, line) ==
    IF "raw" \in {last.kind, line.kind} THEN RawLine(line.nl) ELSE BadLine(line.nl)

(* What appending bytes to the file does: the handle is opened in append    *)
(* mode, so bytes written after a line without a newline extend that line,  *)
(* and the two records run together parse as neither.                       *)
AppendLine(w, line) ==
    IF w = <<>> \/ LastOf(w).nl
    THEN Append(w, line)
    ELSE [w EXCEPT ![Len(w)] = Merged(LastOf(w), line)]

(* History: the append runs into an earlier line and destroys one of the    *)
(* two ("merged"), or follows a record that already carries its commit      *)
(* version ("reused").                                                      *)
AppendTaint(w, line) ==
    IF w = <<>> THEN {}
    ELSE IF Damaged(LastOf(w)) THEN (IF Damaged(line) THEN {} ELSE {"merged"})
    ELSE IF ~LastOf(w).nl THEN {"merged"}
    ELSE IF LastOf(w).kind = "rec" /\ line.kind = "rec" /\ LastOf(w).commit >= line.commit
         THEN {"reused"} ELSE {}

(* The DurableStatement kept of a statement: its text, which is the         *)
(* statement before the optimizer, or the optimized one.                    *)
Durable(st) == {Optimize(st)} \cup (IF st \in Textual THEN {st} ELSE {})

(* History: what is about to be logged does something else when replay runs *)
(* it than it did in the session.                                           *)
FoldTaint(w) ==
    IF \E i \in 1..Len(w.stmts) : Exec(w.trace[i], w.stmts[i]) # w.trace[i + 1]
    THEN {"folded"} ELSE {}

InTxn(s) == txn[s] # NoTxn

(* The catalog RwLock: held for writing by a session inside one of these.   *)
Critical == {"log", "publish", "save", "saveWal", "saveReopen"}
LockFree == \A s \in Session : pc[s] \notin Critical

(* Free to call into the session: it is not inside another call.            *)
Idle(s) == phase = "open" /\ pc[s] = "idle"

-----------------------------------------------------------------------------
(* Sessions                                                                 *)

Init ==
    /\ phase = "closed"
    /\ mem = [version |-> 0, schema |-> 0, content |-> InitContent]
    /\ snapshot = [version |-> 0, schema |-> 0, content |-> InitContent]
    /\ txn = [s \in Session |-> NoTxn]
    /\ pc = [s \in Session |-> "idle"]
    /\ work = NoTxn
    /\ wal = [i \in 1..Len(LegacyWal) |-> SqlLine(LegacyWal[i])]
    /\ walOpen = FALSE
    /\ archive = <<>>
    /\ pos = 1 /\ idx = 1
    /\ hist = <<>>
    /\ taint = {}
    /\ crashes = 0 /\ faults = 0

(* SQLSession::begin: clone the catalog under its read lock.                *)
Begin(s) ==
    /\ Idle(s) /\ ~InTxn(s) /\ LockFree
    /\ txn' = [txn EXCEPT ![s] = [base |-> mem.version, stmts |-> <<>>,
                                  trace |-> <<mem.content>>, ddl |-> FALSE,
                                  auto |-> FALSE]]
    /\ UNCHANGED <<phase, mem, pc, work, walOpen, pos, idx>>
    /\ UNCHANGED diskVars /\ UNCHANGED ghostVars

(* Mutant: a statement that failed is kept like one that succeeded.         *)
ExecuteInTxn_KeepFailed(s, st, durable) ==
    /\ Idle(s) /\ InTxn(s)
    /\ Len(txn[s].stmts) < MaxStmts
    /\ txn' = [txn EXCEPT ![s] = [base |-> txn[s].base,
                                  stmts |-> Append(txn[s].stmts, durable),
                                  trace |-> Append(txn[s].trace,
                                                   Exec(LastOf(txn[s].trace), Optimize(st))),
                                  ddl |-> txn[s].ddl \/ st \in Ddl,
                                  auto |-> FALSE]]
    /\ UNCHANGED <<phase, mem, pc, work, walOpen, pos, idx>>
    /\ UNCHANGED diskVars /\ UNCHANGED ghostVars

(* SQLSession::execute / execute_prepared of a write inside a transaction.  *)
(* A statement that fails leaves the private catalog and the list alone.    *)
ExecuteInTxn(s, st, durable) ==
    /\ Idle(s) /\ InTxn(s)
    /\ Len(txn[s].stmts) < MaxStmts
    /\ LET after == Exec(LastOf(txn[s].trace), Optimize(st)) IN
       /\ after # ExecError
       /\ txn' = [txn EXCEPT ![s] = [base |-> txn[s].base,
                                     stmts |-> Append(txn[s].stmts, durable),
                                     trace |-> Append(txn[s].trace, after),
                                     ddl |-> txn[s].ddl \/ st \in Ddl,
                                     auto |-> FALSE]]
    /\ UNCHANGED <<phase, mem, pc, work, walOpen, pos, idx>>
    /\ UNCHANGED diskVars /\ UNCHANGED ghostVars

(* SQLSession::rollback, and a session dropped by its connection.           *)
Rollback(s) ==
    /\ Idle(s) /\ InTxn(s)
    /\ txn' = [txn EXCEPT ![s] = NoTxn]
    /\ UNCHANGED <<phase, mem, pc, work, walOpen, pos, idx>>
    /\ UNCHANGED diskVars /\ UNCHANGED ghostVars

(* SQLSession::commit, the two outcomes that end under the lock at once:    *)
(* the catalog moved on ("Serialization conflict"), or nothing was written. *)
CommitWithoutLog(s) ==
    /\ Idle(s) /\ InTxn(s) /\ LockFree
    /\ mem.version # txn[s].base \/ txn[s].stmts = <<>>
    /\ txn' = [txn EXCEPT ![s] = NoTxn]
    /\ UNCHANGED <<phase, mem, pc, work, walOpen, pos, idx>>
    /\ UNCHANGED diskVars /\ UNCHANGED ghostVars

(* Mutant: commit does not compare base_version with the catalog's version. *)
CommitBegin_NoVersionCheck(s) ==
    /\ Idle(s) /\ InTxn(s) /\ LockFree
    /\ txn[s].stmts # <<>>
    /\ Len(hist) < MaxVersion
    /\ work' = txn[s]
    /\ txn' = [txn EXCEPT ![s] = NoTxn]
    /\ pc' = [pc EXCEPT ![s] = "log"]
    /\ taint' = taint \cup FoldTaint(txn[s])
    /\ UNCHANGED <<phase, mem, walOpen, pos, idx, hist, crashes, faults>>
    /\ UNCHANGED diskVars

(* SQLSession::commit: take the state, keep the write lock, go and log.     *)
CommitBegin(s) ==
    /\ Idle(s) /\ InTxn(s) /\ LockFree
    /\ mem.version = txn[s].base
    /\ txn[s].stmts # <<>>
    /\ Len(hist) < MaxVersion
    /\ work' = txn[s]
    /\ txn' = [txn EXCEPT ![s] = NoTxn]
    /\ pc' = [pc EXCEPT ![s] = "log"]
    /\ taint' = taint \cup FoldTaint(txn[s])
    /\ UNCHANGED <<phase, mem, walOpen, pos, idx, hist, crashes, faults>>
    /\ UNCHANGED diskVars

(* execute_autocommit_durable up to the log call, for a write that succeeds *)
(* on a clone of the catalog; one that fails returns with nothing changed.  *)
AutocommitBegin(s, st, durable) ==
    /\ Idle(s) /\ ~InTxn(s) /\ LockFree
    /\ Len(hist) < MaxVersion
    /\ LET after == Exec(mem.content, Optimize(st)) IN
       /\ after # ExecError
       /\ work' = [base |-> mem.version, stmts |-> <<durable>>,
                   trace |-> <<mem.content, after>>,
                   ddl |-> st \in Ddl, auto |-> TRUE]
    /\ pc' = [pc EXCEPT ![s] = "log"]
    /\ taint' = taint \cup FoldTaint(work')
    /\ UNCHANGED <<phase, mem, txn, walOpen, pos, idx, hist, crashes, faults>>
    /\ UNCHANGED diskVars

-----------------------------------------------------------------------------
(* The write-ahead log                                                      *)

(* log_transaction returns Ok: the record is written and synced, or there   *)
(* is no open file and nothing is written at all.                           *)
LogOk(s) ==
    /\ pc[s] = "log"
    /\ LET line == WalRecord(work, TRUE) IN
       IF walOpen
       THEN /\ wal' = AppendLine(wal, line)
            /\ taint' = taint \cup AppendTaint(wal, line)
       ELSE /\ taint' = taint \cup {"detached"}
            /\ UNCHANGED wal
    /\ pc' = [pc EXCEPT ![s] = "publish"]
    /\ UNCHANGED <<phase, mem, txn, work, snapshot, walOpen, archive, pos, idx,
                   hist, crashes, faults>>

(* Bytes a failed write or an interrupted one can leave behind: a cut that  *)
(* falls inside a multi-byte character leaves bytes that are no UTF-8.      *)
PartialWrites == {BadLine(FALSE)} \cup (IF "split" \in Faults THEN {RawLine(FALSE)} ELSE {})

FailedWrites ==
    (IF "write" \in Faults THEN PartialWrites \cup {WalRecord(work, FALSE)} ELSE {})
        \cup (IF "sync" \in Faults THEN {WalRecord(work, TRUE)} ELSE {})

(* log_transaction returns Err.  The write failed with nothing, a partial   *)
(* line or all but the newline in the file, or it succeeded and sync_all    *)
(* failed.  commit puts the transaction back so that the client may retry   *)
(* or roll back.                                                            *)
LogErr(s) ==
    /\ pc[s] = "log" /\ walOpen
    /\ faults < MaxFaults
    /\ \/ "write" \in Faults /\ UNCHANGED <<wal, taint>>
       \/ \E line \in FailedWrites :
             /\ wal' = AppendLine(wal, line)
             /\ taint' = taint \cup AppendTaint(wal, line)
    /\ txn' = IF work.auto THEN txn ELSE [txn EXCEPT ![s] = work]
    /\ work' = NoTxn
    /\ pc' = [pc EXCEPT ![s] = "idle"]
    /\ faults' = faults + 1
    /\ UNCHANGED <<phase, mem, snapshot, walOpen, archive, pos, idx, hist, crashes>>

(* *catalog = working; an autocommitted DDL statement then calls save().    *)
Publish(s) ==
    /\ pc[s] = "publish"
    /\ mem' = [version |-> work.base + 1,
               schema |-> mem.schema + (IF work.ddl THEN 1 ELSE 0),
               content |-> LastOf(work.trace)]
    /\ pc' = [pc EXCEPT ![s] = IF work.auto /\ work.ddl THEN "wantSave" ELSE "idle"]
    /\ work' = NoTxn
    /\ hist' = Append(hist, LastOf(work.trace))
    /\ UNCHANGED <<phase, txn, walOpen, pos, idx, taint, crashes, faults>>
    /\ UNCHANGED diskVars

-----------------------------------------------------------------------------
(* SQLDatabase::save: one step per change of the directory                  *)

(* Mutant: save() does not take the catalog lock.                           *)
SaveBegin_NoLock(s) ==
    /\ phase = "open" /\ pc[s] \in {"idle", "wantSave"}
    /\ pc' = [pc EXCEPT ![s] = "save"]
    /\ UNCHANGED <<phase, mem, txn, work, walOpen, pos, idx>>
    /\ UNCHANGED diskVars /\ UNCHANGED ghostVars

SaveBegin(s) ==
    /\ phase = "open" /\ pc[s] \in {"idle", "wantSave"} /\ LockFree
    /\ pc' = [pc EXCEPT ![s] = "save"]
    /\ UNCHANGED <<phase, mem, txn, work, walOpen, pos, idx>>
    /\ UNCHANGED diskVars /\ UNCHANGED ghostVars

(* Write and sync catalog.json.tmp, rename it over catalog.json.            *)
SaveRename(s) ==
    /\ pc[s] = "save"
    /\ snapshot' = mem
    /\ pc' = [pc EXCEPT ![s] = "saveWal"]
    /\ UNCHANGED <<phase, mem, txn, work, wal, walOpen, archive, pos, idx>>
    /\ UNCHANGED ghostVars

(* Mutant: the log is truncated instead of archived.                        *)
SaveArchive_Truncate(s) ==
    /\ pc[s] = "saveWal" /\ walOpen
    /\ walOpen' = FALSE
    /\ wal' = <<>>
    /\ pc' = [pc EXCEPT ![s] = "saveReopen"]
    /\ UNCHANGED <<phase, mem, txn, work, snapshot, archive, pos, idx>>
    /\ UNCHANGED ghostVars

(* Drop the handle and rename the log into wal_archive/sql.                 *)
SaveArchive(s) ==
    /\ pc[s] = "saveWal" /\ walOpen
    /\ walOpen' = FALSE
    /\ archive' = archive \o wal
    /\ wal' = <<>>
    /\ pc' = [pc EXCEPT ![s] = "saveReopen"]
    /\ UNCHANGED <<phase, mem, txn, work, snapshot, pos, idx>>
    /\ UNCHANGED ghostVars

(* Mutant: the lock is not released once the new log is open.               *)
SaveEnd_KeepLock(s) ==
    /\ \/ pc[s] = "saveReopen" /\ walOpen' = TRUE
       \/ pc[s] = "saveWal" /\ ~walOpen /\ UNCHANGED walOpen
    /\ UNCHANGED <<phase, mem, txn, pc, work, pos, idx>>
    /\ UNCHANGED diskVars /\ UNCHANGED ghostVars

(* Open an empty log; or, with no handle to begin with, leave the log alone *)
(* ("if wal.is_some()").  Either way the lock is released.                  *)
SaveEnd(s) ==
    /\ \/ pc[s] = "saveReopen" /\ walOpen' = TRUE
       \/ pc[s] = "saveWal" /\ ~walOpen /\ UNCHANGED walOpen
    /\ pc' = [pc EXCEPT ![s] = "idle"]
    /\ UNCHANGED <<phase, mem, txn, work, pos, idx>>
    /\ UNCHANGED diskVars /\ UNCHANGED ghostVars

(* One of the directory operations fails and save() returns early: before   *)
(* the rename nothing has changed, after it the handle stays None.          *)
SaveErr(s) ==
    /\ "save" \in Faults /\ faults < MaxFaults
    /\ \/ pc[s] = "save" /\ UNCHANGED walOpen
       \/ pc[s] = "saveWal" /\ walOpen /\ walOpen' = FALSE
       \/ pc[s] = "saveReopen" /\ UNCHANGED walOpen
    /\ pc' = [pc EXCEPT ![s] = "idle"]
    /\ faults' = faults + 1
    /\ UNCHANGED <<phase, mem, txn, work, pos, idx, hist, taint, crashes>>
    /\ UNCHANGED diskVars

-----------------------------------------------------------------------------
(* Crash and reopen                                                         *)

(* A record handed to write() when the process dies may be absent, complete,*)
(* cut short, or complete but for its newline: writeln! on an unbuffered    *)
(* File issues the text and the newline as separate writes.                 *)
CrashTails ==
    {WalRecord(work, TRUE)}
        \cup (IF "torn" \in Faults THEN PartialWrites ELSE {})
        \cup (IF "unterminated" \in Faults THEN {WalRecord(work, FALSE)} ELSE {})

CrashTail ==
    \/ UNCHANGED <<wal, taint>>
    \/ /\ walOpen /\ \E s \in Session : pc[s] = "log"
       /\ \E line \in CrashTails :
            /\ wal' = AppendLine(wal, line)
            /\ taint' = taint \cup AppendTaint(wal, line)

Crash ==
    /\ phase \in {"open", "replay"} /\ crashes < MaxCrashes
    /\ CrashTail
    /\ phase' = "closed"
    /\ mem' = [version |-> 0, schema |-> 0, content |-> InitContent]
    /\ txn' = [s \in Session |-> NoTxn]
    /\ pc' = [s \in Session |-> "idle"]
    /\ work' = NoTxn
    /\ walOpen' = FALSE
    /\ pos' = 1 /\ idx' = 1
    /\ crashes' = crashes + 1
    /\ UNCHANGED <<snapshot, archive, hist, faults>>

(* load_catalog: catalog.json or, before the first save, the v0.2 tables at *)
(* version 0.                                                               *)
LoadCatalog == snapshot

(* open_with_options: take the directory lock, load_catalog.  Bare v0.2     *)
(* statements carry no version, so a snapshot newer than them does not stop *)
(* replay from running them again.                                          *)
Open ==
    /\ phase \in {"closed", "failed"}
    /\ phase' = "replay"
    /\ mem' = LoadCatalog
    /\ pos' = 1 /\ idx' = 1
    /\ taint' = IF snapshot.version > 0 /\ \E i \in 1..Len(wal) : wal[i].kind = "sql"
                THEN taint \cup {"legacy"} ELSE taint
    /\ UNCHANGED <<txn, pc, work, walOpen, hist, crashes, faults>>
    /\ UNCHANGED diskVars

Replaying(kind) == phase = "replay" /\ pos <= Len(wal) /\ wal[pos].kind = kind

(* Mutant: a skipped record is looked at again and again.                   *)
ReplaySkip_Stay ==
    /\ Replaying("rec") /\ idx = 1
    /\ wal[pos].commit <= mem.version
    /\ UNCHANGED vars

(* replay_wal: the record is already in the snapshot.                       *)
ReplaySkip ==
    /\ Replaying("rec") /\ idx = 1
    /\ wal[pos].commit <= mem.version
    /\ pos' = pos + 1
    /\ UNCHANGED <<idx, memVars, diskVars, ghostVars>>

(* Mutant: the comparison with the snapshot's version is off by one.        *)
Pending_OffByOne == idx > 1 \/ wal[pos].commit >= mem.version

(* A record this catalog must not skip.                                     *)
Pending == idx > 1 \/ wal[pos].commit > mem.version

(* Re-execute one statement of the record.  The open fails when the record  *)
(* does not continue the catalog ("WAL version gap") or on an error.        *)
ReplayStatement ==
    /\ Replaying("rec") /\ Pending /\ idx <= Len(wal[pos].stmts)
    /\ LET st == wal[pos].stmts[idx]
           after == Exec(mem.content, st) IN
       IF (idx = 1 /\ wal[pos].base # mem.version) \/ after = ExecError
       THEN /\ phase' = "failed"
            /\ UNCHANGED <<mem, idx>>
       ELSE /\ mem' = [mem EXCEPT !.content = after,
                                  !.schema = @ + (IF st \in Ddl THEN 1 ELSE 0)]
            /\ idx' = idx + 1
            /\ UNCHANGED phase
    /\ UNCHANGED <<txn, pc, work, walOpen, pos, diskVars, ghostVars>>

(* catalog.version = record.commit_version.  A commit that was in doubt     *)
(* when the process died enters the history here.                           *)
ReplayRecordEnd ==
    /\ Replaying("rec") /\ Pending /\ idx = Len(wal[pos].stmts) + 1
    /\ mem' = [mem EXCEPT !.version = wal[pos].commit]
    /\ hist' = IF wal[pos].commit = Len(hist) + 1 THEN Append(hist, mem.content) ELSE hist
    /\ pos' = pos + 1
    /\ idx' = 1
    /\ UNCHANGED <<phase, txn, pc, work, walOpen, diskVars, taint, crashes, faults>>

(* A bare v0.2 statement: counted as one version if it succeeds.            *)
ReplayLegacy ==
    /\ Replaying("sql")
    /\ LET st == wal[pos].stmts[1]
           after == Exec(mem.content, st) IN
       IF after = ExecError
       THEN UNCHANGED <<mem, hist>>
       ELSE /\ mem' = [version |-> mem.version + 1, content |-> after,
                       schema |-> mem.schema + (IF st \in Ddl THEN 1 ELSE 0)]
            /\ hist' = IF mem.version = Len(hist) THEN Append(hist, after) ELSE hist
    /\ pos' = pos + 1
    /\ UNCHANGED <<phase, txn, pc, work, walOpen, idx, diskVars, taint, crashes, faults>>

(* BufRead::lines reports bytes that are not UTF-8 as an error, and so does *)
(* open().                                                                  *)
ReplayUnreadable ==
    /\ Replaying("raw")
    /\ phase' = "failed"
    /\ UNCHANGED <<mem, txn, pc, work, walOpen, pos, idx, diskVars, ghostVars>>

(* End of the file, or a line that is no record: replay stops there and the *)
(* log is opened for appending behind whatever it holds.                    *)
ReplayEnd ==
    /\ phase = "replay" /\ (pos > Len(wal) \/ Replaying("bad"))
    /\ phase' = "open"
    /\ walOpen' = TRUE
    /\ pos' = 1 /\ idx' = 1
    /\ UNCHANGED <<mem, txn, pc, work, diskVars, ghostVars>>

-----------------------------------------------------------------------------

HolderStep(s) ==
    \/ LogOk(s) \/ Publish(s)
    \/ SaveRename(s) \/ SaveArchive(s) \/ SaveEnd(s)

Replay == \/ ReplaySkip \/ ReplayStatement \/ ReplayRecordEnd
          \/ ReplayLegacy \/ ReplayUnreadable \/ ReplayEnd

ClientStep(s) ==
    \/ Begin(s) \/ Rollback(s) \/ CommitWithoutLog(s) \/ CommitBegin(s)
    \/ \E st \in Stmt : \E durable \in Durable(st) :
          ExecuteInTxn(s, st, durable) \/ AutocommitBegin(s, st, durable)
    \/ SaveBegin(s)

Next ==
    \/ \E s \in Session : ClientStep(s) \/ HolderStep(s) \/ LogErr(s) \/ SaveErr(s)
    \/ Crash \/ Open \/ Replay

Spec == Init /\ [][Next]_vars

(* A thread inside a catalog-lock region keeps running, and so does replay. *)
FairSpec == /\ Spec
            /\ \A s \in Session : WF_vars(HolderStep(s))
            /\ WF_vars(Replay)

-----------------------------------------------------------------------------
(* Properties                                                               *)

(* Every variable keeps its shape.                                          *)
TypeOK ==
    /\ phase \in {"closed", "replay", "open", "failed"}
    /\ mem \in Catalog /\ snapshot \in Catalog
    /\ txn \in [Session -> Txn]
    /\ pc \in [Session -> Critical \cup {"idle", "wantSave"}]
    /\ work \in Txn
    /\ wal \in Seq(Line) /\ archive \in Seq(Line)
    /\ walOpen \in BOOLEAN
    /\ pos \in Nat \ {0} /\ idx \in Nat \ {0}
    /\ hist \in Seq(Content)
    /\ taint \subseteq {"merged", "reused", "detached", "legacy", "folded"}
    /\ crashes \in Nat /\ faults \in Nat

(* The contents a client reads are exactly the last ones made visible:      *)
(* every commit that was acknowledged, before and after any number of       *)
(* crashes, is in the catalog, and nothing else is.                         *)
Current ==
    phase = "open" => mem.version = Len(hist) /\ mem.content = HistAt(Len(hist))

(* Durability.  Whatever is torn, cut off or left unsynced by a crash or a  *)
(* failed write, the database reopens with every acknowledged commit unless *)
(* one of the five recorded hazards struck: a record appended to a damaged  *)
(* line, a commit version used twice, a commit logged without a log file, a *)
(* v0.2 log replayed over a newer snapshot, a statement whose folded form   *)
(* ran while its text was logged and means something else.                  *)
DurableUnlessTainted == taint = {} => Current

(* On an untainted directory replay meets no version gap, and the records   *)
(* that follow one another lead every statement to the contents it ran on,  *)
(* so that none fails; open() fails only on bytes it cannot read.           *)
OnlyUnreadableFails ==
    taint = {} /\ phase = "failed" => \E i \in 1..Len(wal) : wal[i].kind = "raw"

(* commit compares version numbers only.  That is enough: whenever a record *)
(* is about to be logged, the contents its first statement ran on are the   *)
(* published ones, so no commit overwrites one it has not seen.             *)
NoLostUpdate ==
    \A s \in Session : pc[s] = "log" => work.trace[1] = mem.content

(* save() may be interrupted between publishing the snapshot and archiving  *)
(* the log, and a torn tail may be archived with it; still the archive and  *)
(* the live log hold a good record for every version committed through a    *)
(* record, which is what point-in-time restore replays.                     *)
LogCoversHistory ==
    LET lines == archive \o wal IN
    taint = {} => \A v \in (Len(LegacyWal) + 1)..Len(hist) :
        \E i \in 1..Len(lines) :
            /\ lines[i].kind = "rec" /\ lines[i].commit = v
            /\ LastOf(lines[i].trace) = hist[v]

(* A thread that holds the catalog write lock releases it.                  *)
LockIsReleased == \A s \in Session : pc[s] \in Critical ~> pc[s] \notin Critical

(* An open() that started replaying the log finishes, one way or the other, *)
(* unless the process dies first.                                           *)
ReplayFinishes == phase = "replay" ~> phase # "replay"

-----------------------------------------------------------------------------
(* Refinement: with no storage fault, texts that the optimizer folds        *)
(* exactly, and a process that may die at any step, the database implements *)
(* TransactionalStore.  A commit takes effect when it is published; one     *)
(* whose record outlived a crash is in doubt until replay has run it.       *)

(* A database that is sent prepared statements only has no texts.           *)
TextsFoldExactly ==
    \A st \in Textual, c \in Content : Exec(c, st) = Exec(c, Optimize(st))

(* A statement as a session executes it.                                    *)
Run(c, st) == Exec(c, Optimize(st))

InDoubt ==
    IF /\ phase # "open" /\ wal # <<>>
       /\ LastOf(wal).kind = "rec" /\ LastOf(wal).commit = Len(hist) + 1
    THEN {LastOf(LastOf(wal).trace)} ELSE {}

Committing(s) == pc[s] \in {"log", "publish"} /\ ~work.auto

(* A session's private contents, which stay its own until published.        *)
View == [s \in Session |-> IF Committing(s) THEN <<LastOf(work.trace)>>
                           ELSE IF InTxn(s) THEN <<LastOf(txn[s].trace)>> ELSE <<>>]

Stale == {s \in Session : InTxn(s) /\ txn[s].base # Len(hist)}

Store == INSTANCE TransactionalStore WITH
    Exec <- Run, store <- HistAt(Len(hist)), view <- View, stale <- Stale,
    inDoubt <- InDoubt

(* Every behaviour is one of TransactionalStore: atomic commits in one      *)
(* order, first committer wins, and no crash undoes a visible commit.       *)
ImplementsStore == Store!Spec

=============================================================================
