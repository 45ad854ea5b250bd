------------------------------ MODULE KvStore ------------------------------
(***************************************************************************)
(* RustyDB's key-value side: KVStore (src/kvstore.rs) on top of            *)
(* PersistenceManager (src/persistence.rs).  Threads write a shared map    *)
(* after logging to rustydb.wal (set, delete, clear) or after queueing the *)
(* operation for a background thread (set_async); flush() and snapshot()   *)
(* hold the persistence lock over several steps, but the background thread *)
(* and the threads that have logged and not yet touched the map do not     *)
(* take it.                                                                *)
(*                                                                         *)
(* ticket, logged, taint and the counters are history variables.  A ticket *)
(* numbers the operations in the order they pass the persistence lock,     *)
(* which is the order their callers could have agreed on.                  *)
(***************************************************************************)
EXTENDS Integers, Sequences

CONSTANTS
    Client,     \* threads calling into the store
    Key, Value,
    None,       \* "no entry" in the map
    Calls,      \* the public methods the clients use
    Faults,     \* which storage faults the environment may inject
    MaxOps,     \* bound on the operations ever issued
    MaxCrashes, \* bound on process crashes
    MaxFaults   \* bound on injected faults

CallKinds == {"set", "delete", "clear", "set_async", "flush", "snapshot"}
FaultKinds == {"torn", "unterminated", "write", "sync", "save"}

ASSUME ConstantsAssumption ==
    /\ None \notin Value
    /\ Calls \subseteq CallKinds /\ Faults \subseteq FaultKinds
    /\ MaxOps \in Nat /\ MaxCrashes \in Nat /\ MaxFaults \in Nat

VARIABLES
    up,         \* the process has the store open
    data,       \* the DashMap
    call,       \* per client: the method it is inside
    pending,    \* pending_ops
    bg,         \* background thread: the batch it took, whether it holds the
                \* wal_file lock, how many lines it has not synced, and which
                \* lines it failed to sync
    snapshot,   \* rustydb.db
    wal,        \* the lines of rustydb.wal
    walOpen,    \* wal_file is Some
    archive,    \* the lines moved to wal_archive/kv, in order
    nextSeq,    \* next_sequence
    ticket, logged, taint, crashes, faults

diskVars  == <<snapshot, wal, archive>>
ghostVars == <<ticket, logged, taint, crashes, faults>>
vars == <<up, data, call, pending, bg, snapshot, wal, walOpen, archive, nextSeq,
          ticket, logged, taint, crashes, faults>>

-----------------------------------------------------------------------------
(* Data                                                                     *)

Entry == Value \cup {None}
Map == [Key -> Entry]

(* An Operation writes val to keys: Set one value to one key, Delete None   *)
(* to one key, Clear None to all of them.                                   *)
Op == [keys : SUBSET Key, val : Entry, ticket : Nat]

SetOp(k, v) == [keys |-> {k}, val |-> v]
DeleteOp(k) == [keys |-> {k}, val |-> None]
ClearOp     == [keys |-> Key, val |-> None]

(* The operations the clients log synchronously.                            *)
SyncOps ==
    {o \in {SetOp(k, v) : k \in Key, v \in Value} : "set" \in Calls}
        \cup {o \in {DeleteOp(k) : k \in Key} : "delete" \in Calls}
        \cup {o \in {ClearOp} : "clear" \in Calls}

Stamp(o) == [keys |-> o.keys, val |-> o.val, ticket |-> ticket]

ApplyOp(m, op) == [k \in Key |-> IF k \in op.keys THEN op.val ELSE m[k]]

NoOp == [keys |-> {}, val |-> None, ticket |-> 0]

(* rec: a KvWalRecord whose checksum is valid; otherwise the line does not  *)
(* parse and recovery skips it.                                             *)
Line == [rec : BOOLEAN, seq : Nat, op : Op, nl : BOOLEAN]

Record(s, op, nl) == [rec |-> TRUE, seq |-> s, op |-> op, nl |-> nl]
BadLine(nl) == [rec |-> FALSE, seq |-> 0, op |-> NoOp, nl |-> nl]

LastOf(s) == s[Len(s)]
Elems(s) == {s[i] : i \in 1..Len(s)}

(* Bytes appended after a line without a newline extend that line.          *)
AppendLine(w, line) ==
    IF w = <<>> \/ LastOf(w).nl
    THEN Append(w, line)
    ELSE [w EXCEPT ![Len(w)] = BadLine(line.nl)]

AppendTaint(w, line) == IF w = <<>> \/ LastOf(w).nl THEN {} ELSE {"merged"}

(* recover: snapshot entries first, then every readable line of the log.    *)
(* Operations overwrite, so the last line that touches a key decides.       *)
Touching(w, k) == {i \in 1..Len(w) : w[i].rec /\ k \in w[i].op.keys}

Recovered(snap, w) ==
    [k \in Key |->
        IF Touching(w, k) = {} THEN snap.entries[k]
        ELSE w[CHOOSE i \in Touching(w, k) : \A j \in Touching(w, k) : j <= i].op.val]

(* Mutant: only the log is scanned for the highest sequence.                *)
MaxSequence_LogOnly(snap, w) ==
    LET seqs == {0} \cup {w[i].seq : i \in 1..Len(w)}
    IN CHOOSE m \in seqs : \A s \in seqs : s <= m

(* scan_max_sequence.                                                       *)
MaxSequence(snap, w) ==
    LET seqs == {snap.seq} \cup {w[i].seq : i \in 1..Len(w)}
    IN CHOOSE m \in seqs : \A s \in seqs : s <= m

-----------------------------------------------------------------------------
(* Locks and calls in progress                                              *)

(* The persistence mutex is held across steps by flush() and snapshot().    *)
Saving == {"flush", "collect", "snapFlush", "snapDrop", "snapArchive", "snapReopen"}

(* A method a client is inside: the operation it writes, what flush took    *)
(* from the queue, and the part of the map that snapshot() has collected.   *)
Call == [pc : Saving \cup {"idle", "apply"}, op : Op, todo : Seq(Op),
         got : UNION {[ks -> Entry] : ks \in SUBSET Key}]

NoCall == [pc |-> "idle", op |-> NoOp, todo |-> <<>>, got |-> <<>>]

PersistenceFree == \A c \in Client : call[c].pc \notin Saving
WalFree == ~bg.holds

Idle(c) == up /\ call[c].pc = "idle"

(* Operations that passed the persistence lock and have not reached the map *)
(* (unapplied) or the log (unlogged).                                       *)
Unapplied(k) == {c \in Client : call[c].pc = "apply" /\ k \in call[c].op.keys}

Unlogged(k) ==
    {op \in Elems(pending) \cup Elems(bg.ops)
              \cup UNION {Elems(call[c].todo) : c \in Client} : k \in op.keys}

(* History: an older operation reaches the log after a newer one on a key.  *)
LogTaint(op) ==
    IF \E k \in op.keys : logged[k] > op.ticket THEN {"reordered"} ELSE {}

LogMark(op) ==
    [k \in Key |-> IF k \in op.keys /\ op.ticket > logged[k] THEN op.ticket ELSE logged[k]]

(* log_operation_sync of op under the wal_file lock; with no open file it   *)
(* reports success and writes nothing.                                      *)
LogOperation(op) ==
    /\ WalFree
    /\ IF walOpen
       THEN LET line == Record(nextSeq, op, TRUE) IN
            /\ wal' = AppendLine(wal, line)
            /\ nextSeq' = nextSeq + 1
            /\ taint' = taint \cup AppendTaint(wal, line) \cup LogTaint(op)
            /\ logged' = LogMark(op)
       ELSE /\ taint' = taint \cup {"detached"}
            /\ UNCHANGED <<wal, nextSeq, logged>>

-----------------------------------------------------------------------------
(* Writes                                                                   *)

Init ==
    /\ up = FALSE
    /\ data = [k \in Key |-> None]
    /\ call = [c \in Client |-> NoCall]
    /\ pending = <<>>
    /\ bg = [ops |-> <<>>, holds |-> FALSE, fresh |-> 0, doubt |-> {}]
    /\ snapshot = [seq |-> 0, entries |-> [k \in Key |-> None]]
    /\ wal = <<>> /\ walOpen = FALSE /\ archive = <<>>
    /\ nextSeq = 1
    /\ ticket = 1 /\ logged = [k \in Key |-> 0] /\ taint = {}
    /\ crashes = 0 /\ faults = 0

(* Mutant: writers take the wal_file lock only.                             *)
LogSync_NoLock(c, o) ==
    /\ Idle(c) /\ ticket <= MaxOps
    /\ LogOperation(Stamp(o))
    /\ call' = [call EXCEPT ![c] = [NoCall EXCEPT !.pc = "apply", !.op = Stamp(o)]]
    /\ ticket' = ticket + 1
    /\ UNCHANGED <<up, data, pending, bg, snapshot, walOpen, archive, crashes, faults>>

(* set, delete, clear: log under the persistence lock and let go of it.     *)
LogSync(c, o) ==
    /\ Idle(c) /\ PersistenceFree /\ ticket <= MaxOps
    /\ LogOperation(Stamp(o))
    /\ call' = [call EXCEPT ![c] = [NoCall EXCEPT !.pc = "apply", !.op = Stamp(o)]]
    /\ ticket' = ticket + 1
    /\ UNCHANGED <<up, data, pending, bg, snapshot, walOpen, archive,
                   crashes, faults>>

(* The log call fails and the method returns its error; a write may have    *)
(* left part of a line, a failed sync the whole record.                     *)
LogSyncErr(c, o) ==
    /\ Idle(c) /\ PersistenceFree /\ WalFree /\ walOpen
    /\ ticket <= MaxOps /\ faults < MaxFaults
    /\ \E line \in (IF "write" \in Faults THEN {BadLine(FALSE)} ELSE {})
             \cup (IF "sync" \in Faults THEN {Record(nextSeq, Stamp(o), TRUE)} ELSE {}) :
         /\ wal' = AppendLine(wal, line)
         /\ taint' = taint \cup AppendTaint(wal, line)
                           \cup (IF line.rec THEN {"failed"} ELSE {})
    /\ nextSeq' = nextSeq + 1
    /\ ticket' = ticket + 1
    /\ faults' = faults + 1
    /\ UNCHANGED <<up, data, call, pending, bg, snapshot, walOpen, archive,
                   logged, crashes>>

LogCall(c, o) == LogSync(c, o) \/ LogSyncErr(c, o)

(* The public methods; set_many calls set for one pair after the other.     *)
Set(c) == "set" \in Calls /\ \E k \in Key, v \in Value : LogCall(c, SetOp(k, v))
Delete(c) == "delete" \in Calls /\ \E k \in Key : LogCall(c, DeleteOp(k))
Clear(c) == "clear" \in Calls /\ LogCall(c, ClearOp)

(* set_async: queue under the persistence lock and let go of it.            *)
SetAsync(c, k, v) ==
    /\ "set_async" \in Calls
    /\ Idle(c) /\ PersistenceFree /\ ticket <= MaxOps
    /\ pending' = Append(pending, Stamp(SetOp(k, v)))
    /\ call' = [call EXCEPT ![c] = [NoCall EXCEPT !.pc = "apply", !.op = Stamp(SetOp(k, v))]]
    /\ ticket' = ticket + 1
    /\ UNCHANGED <<up, data, bg, walOpen, nextSeq, logged, taint,
                   crashes, faults>>
    /\ UNCHANGED diskVars

(* Every write ends by changing the map, with no lock held.                 *)
Apply(c) ==
    /\ call[c].pc = "apply"
    /\ data' = ApplyOp(data, call[c].op)
    /\ taint' = IF \E k \in call[c].op.keys : \E d \in Unapplied(k) :
                       call[d].op.ticket < call[c].op.ticket
                THEN taint \cup {"reordered"} ELSE taint
    /\ call' = [call EXCEPT ![c] = NoCall]
    /\ UNCHANGED <<up, pending, bg, walOpen, nextSeq, ticket, logged,
                   crashes, faults>>
    /\ UNCHANGED diskVars

-----------------------------------------------------------------------------
(* The background flush thread.  It takes neither the persistence lock nor  *)
(* both of its own locks at once.                                           *)

BgTake ==
    /\ up /\ bg.ops = <<>> /\ ~bg.holds /\ pending # <<>>
    /\ bg' = [bg EXCEPT !.ops = pending]
    /\ pending' = <<>>
    /\ UNCHANGED <<up, data, call, walOpen, nextSeq>>
    /\ UNCHANGED diskVars /\ UNCHANGED ghostVars

(* Lock wal_file.  If a snapshot has just put None there, the batch is gone.*)
BgLock ==
    /\ up /\ bg.ops # <<>> /\ ~bg.holds
    /\ IF walOpen
       THEN bg' = [bg EXCEPT !.holds = TRUE] /\ UNCHANGED taint
       ELSE bg' = [bg EXCEPT !.ops = <<>>] /\ taint' = taint \cup {"dropped"}
    /\ UNCHANGED <<up, data, call, pending, walOpen, nextSeq, ticket, logged,
                   crashes, faults>>
    /\ UNCHANGED diskVars

(* "let _ = writeln!": a write that fails is not noticed.                   *)
BgWrite ==
    /\ bg.holds /\ bg.ops # <<>>
    /\ LET line == Record(nextSeq, Head(bg.ops), TRUE) IN
       \/ /\ wal' = AppendLine(wal, line)
          /\ taint' = taint \cup AppendTaint(wal, line) \cup LogTaint(Head(bg.ops))
          /\ logged' = LogMark(Head(bg.ops))
          /\ bg' = [bg EXCEPT !.ops = Tail(@), !.fresh = @ + 1]
          /\ UNCHANGED faults
       \/ /\ "write" \in Faults /\ faults < MaxFaults
          /\ bg' = [bg EXCEPT !.ops = Tail(@)]
          /\ taint' = taint \cup {"dropped"}
          /\ faults' = faults + 1
          /\ UNCHANGED <<wal, logged>>
    /\ nextSeq' = nextSeq + 1
    /\ UNCHANGED <<up, data, call, pending, snapshot, walOpen, archive,
                   ticket, crashes>>

(* Mutant: the wal_file lock is kept over the next sleep.                   *)
BgSync_KeepLock ==
    /\ bg.holds /\ bg.ops = <<>>
    /\ bg' = [bg EXCEPT !.fresh = 0]
    /\ UNCHANGED <<up, data, call, pending, walOpen, nextSeq>>
    /\ UNCHANGED diskVars /\ UNCHANGED ghostVars

(* The lines the background thread has written and not synced.              *)
Fresh == (Len(wal) - bg.fresh + 1)..Len(wal)

(* "let _ = file.sync_all()": a sync that fails is not noticed either, and  *)
(* no later one makes its lines safe.                                       *)
BgSync ==
    /\ bg.holds /\ bg.ops = <<>>
    /\ \/ /\ bg' = [bg EXCEPT !.holds = FALSE, !.fresh = 0]
          /\ UNCHANGED <<taint, faults>>
       \/ /\ "sync" \in Faults /\ faults < MaxFaults
          /\ bg' = [bg EXCEPT !.holds = FALSE, !.fresh = 0, !.doubt = @ \cup Fresh]
          /\ taint' = taint \cup {"unsynced"}
          /\ faults' = faults + 1
    /\ UNCHANGED <<up, data, call, pending, walOpen, nextSeq, ticket, logged, crashes>>
    /\ UNCHANGED diskVars

-----------------------------------------------------------------------------
(* flush() and snapshot(): the persistence lock is held from the first step *)
(* to the last.                                                             *)

FlushBegin(c) ==
    /\ "flush" \in Calls /\ Idle(c) /\ PersistenceFree
    /\ call' = [call EXCEPT ![c] = [NoCall EXCEPT !.pc = "flush", !.todo = pending]]
    /\ pending' = <<>>
    /\ UNCHANGED <<up, data, bg, walOpen, nextSeq, ticket, logged, taint, crashes, faults>>
    /\ UNCHANGED diskVars

(* One operation of the queue that flush took.                              *)
FlushLog(c) ==
    /\ call[c].pc \in {"flush", "snapFlush"} /\ call[c].todo # <<>>
    /\ LogOperation(Head(call[c].todo))
    /\ call' = [call EXCEPT ![c].todo = Tail(@)]
    /\ UNCHANGED <<up, data, pending, bg, snapshot, walOpen, archive,
                   ticket, crashes, faults>>

FlushEnd(c) ==
    /\ call[c].pc = "flush" /\ call[c].todo = <<>>
    /\ call' = [call EXCEPT ![c] = NoCall]
    /\ UNCHANGED <<up, data, pending, bg, walOpen, nextSeq>>
    /\ UNCHANGED diskVars /\ UNCHANGED ghostVars

SnapshotBegin(c) ==
    /\ "snapshot" \in Calls /\ Idle(c) /\ PersistenceFree
    /\ call' = [call EXCEPT ![c] = [NoCall EXCEPT !.pc = "collect"]]
    /\ UNCHANGED <<up, data, pending, bg, walOpen, nextSeq, ticket, logged, taint,
                   crashes, faults>>
    /\ UNCHANGED diskVars

(* The map is iterated while other threads go on changing it.  A key is     *)
(* read too early if an operation on it has been logged and not applied.    *)
SnapshotCollect(c, k) ==
    /\ call[c].pc = "collect" /\ k \notin DOMAIN call[c].got
    /\ call' = [call EXCEPT ![c].got = [j \in DOMAIN @ \cup {k} |->
                                            IF j = k THEN data[k] ELSE @[j]]]
    /\ taint' = IF Unapplied(k) # {} THEN taint \cup {"raced"} ELSE taint
    /\ UNCHANGED <<up, data, pending, bg, walOpen, nextSeq, ticket, logged,
                   crashes, faults>>
    /\ UNCHANGED diskVars

(* Mutant: the iteration over the map stops early.                          *)
SnapshotFlush_Partial(c) ==
    /\ call[c].pc = "collect"
    /\ call' = [call EXCEPT ![c].pc = "snapFlush", ![c].todo = pending]
    /\ pending' = <<>>
    /\ UNCHANGED <<up, data, bg, walOpen, nextSeq>>
    /\ UNCHANGED diskVars /\ UNCHANGED ghostVars

(* create_snapshot flushes what is pending by now.                          *)
SnapshotFlush(c) ==
    /\ call[c].pc = "collect" /\ DOMAIN call[c].got = Key
    /\ call' = [call EXCEPT ![c].pc = "snapFlush", ![c].todo = pending]
    /\ pending' = <<>>
    /\ UNCHANGED <<up, data, bg, walOpen, nextSeq>>
    /\ UNCHANGED diskVars /\ UNCHANGED ghostVars

(* Write and sync rustydb.tmp, rename it over rustydb.db.                   *)
SnapshotRename(c) ==
    /\ call[c].pc = "snapFlush" /\ call[c].todo = <<>>
    /\ snapshot' = [seq |-> nextSeq - 1, entries |-> call[c].got]
    /\ call' = [call EXCEPT ![c].pc = "snapDrop"]
    /\ UNCHANGED <<up, data, pending, bg, wal, walOpen, archive, nextSeq>>
    /\ UNCHANGED ghostVars

SnapshotDropWal(c) ==
    /\ call[c].pc = "snapDrop" /\ WalFree
    /\ walOpen' = FALSE
    /\ call' = [call EXCEPT ![c].pc = "snapArchive"]
    /\ UNCHANGED <<up, data, pending, bg, nextSeq>>
    /\ UNCHANGED diskVars /\ UNCHANGED ghostVars

(* Rename the log into wal_archive/kv.  A line the background thread wrote  *)
(* since the snapshot's sequence was read leaves the live log with it.      *)
SnapshotArchive(c) ==
    /\ call[c].pc = "snapArchive"
    /\ archive' = archive \o wal
    /\ wal' = <<>>
    /\ taint' = IF \E i \in 1..Len(wal) : wal[i].seq > snapshot.seq
                THEN taint \cup {"stranded"} ELSE taint
    /\ call' = [call EXCEPT ![c].pc = "snapReopen"]
    /\ bg' = [bg EXCEPT !.doubt = {}]
    /\ UNCHANGED <<up, data, pending, snapshot, walOpen, nextSeq,
                   ticket, logged, crashes, faults>>

SnapshotReopen(c) ==
    /\ call[c].pc = "snapReopen" /\ WalFree
    /\ walOpen' = TRUE
    /\ call' = [call EXCEPT ![c] = NoCall]
    /\ UNCHANGED <<up, data, pending, bg, nextSeq>>
    /\ UNCHANGED diskVars /\ UNCHANGED ghostVars

(* A step of flush() or snapshot() fails and the method returns early: what *)
(* flush had taken is in no queue any more, and after the handle was        *)
(* dropped it stays None.                                                   *)
SaveErr(c) ==
    /\ "save" \in Faults /\ faults < MaxFaults
    /\ call[c].pc \in Saving \ {"collect", "snapDrop"}
    /\ taint' = IF call[c].todo # <<>> THEN taint \cup {"dropped"} ELSE taint
    /\ call[c].pc = "flush" => call[c].todo # <<>>
    /\ call' = [call EXCEPT ![c] = NoCall]
    /\ faults' = faults + 1
    /\ UNCHANGED <<up, data, pending, bg, walOpen, nextSeq, ticket, logged, crashes>>
    /\ UNCHANGED diskVars

-----------------------------------------------------------------------------
(* Crash and reopen                                                         *)

(* Operations whose record may be half way into the file.                   *)
InWrite ==
    IF ~walOpen THEN {}
    ELSE IF bg.holds THEN (IF bg.ops = <<>> THEN {} ELSE {Head(bg.ops)})
    ELSE {Head(call[c].todo) : c \in {d \in Client : call[d].todo # <<>>}}
         \cup (IF PersistenceFree /\ ticket <= MaxOps /\ \E c \in Client : Idle(c)
               THEN {Stamp(o) : o \in SyncOps} ELSE {})

(* What is left of such a record: all of it, part of it, or all of it but   *)
(* its newline, which writeln! writes separately.                           *)
CrashTails(op) ==
    {Record(nextSeq, op, TRUE)}
        \cup (IF "torn" \in Faults THEN {BadLine(FALSE)} ELSE {})
        \cup (IF "unterminated" \in Faults THEN {Record(nextSeq, op, FALSE)} ELSE {})

(* What may be left of the lines in the file: any of those whose sync       *)
(* failed is damaged.                                                       *)
Survivors ==
    {[i \in 1..Len(wal) |-> IF i \in lost THEN BadLine(TRUE) ELSE wal[i]] :
        lost \in SUBSET bg.doubt}

(* The log after the process died.  Lines the background thread had not     *)
(* synced may be gone, the last of them in part.                            *)
CrashTail ==
    \E left \in Survivors :
        \/ wal' = left /\ UNCHANGED taint
        \/ \E lost \in 1..bg.fresh :
             /\ wal' \in {SubSeq(left, 1, Len(left) - lost)}
                    \cup (IF "torn" \in Faults
                          THEN {Append(SubSeq(left, 1, Len(left) - lost), BadLine(FALSE))}
                          ELSE {})
             /\ UNCHANGED taint
        \/ \E op \in InWrite : \E line \in CrashTails(op) :
             /\ wal' = AppendLine(left, line)
             /\ taint' = taint \cup AppendTaint(left, line)

(* The process ends.  Dropping the store first runs the steps of flush();   *)
(* the background thread is not joined, so its batch ends here as well.     *)
Crash ==
    /\ up /\ crashes < MaxCrashes
    /\ CrashTail
    /\ up' = FALSE
    /\ data' = [k \in Key |-> None]
    /\ call' = [c \in Client |-> NoCall]
    /\ pending' = <<>>
    /\ bg' = [ops |-> <<>>, holds |-> FALSE, fresh |-> 0, doubt |-> {}]
    /\ walOpen' = FALSE
    /\ crashes' = crashes + 1
    /\ UNCHANGED <<snapshot, archive, nextSeq, ticket, logged, faults>>

(* with_persistence: PersistenceManager::new, then recover; nobody else     *)
(* has the store yet.                                                       *)
Open ==
    /\ ~up
    /\ up' = TRUE
    /\ nextSeq' = MaxSequence(snapshot, wal) + 1
    /\ walOpen' = TRUE
    /\ data' = Recovered(snapshot, wal)
    /\ UNCHANGED <<call, pending, bg>>
    /\ UNCHANGED diskVars /\ UNCHANGED ghostVars

-----------------------------------------------------------------------------

Background == BgTake \/ BgLock \/ BgWrite \/ BgSync

Progress(c) ==
    \/ Apply(c) \/ FlushLog(c) \/ FlushEnd(c)
    \/ \E k \in Key : SnapshotCollect(c, k)
    \/ SnapshotFlush(c) \/ SnapshotRename(c) \/ SnapshotDropWal(c)
    \/ SnapshotArchive(c) \/ SnapshotReopen(c)

Request(c) ==
    \/ Set(c) \/ Delete(c) \/ Clear(c)
    \/ \E k \in Key, v \in Value : SetAsync(c, k, v)
    \/ FlushBegin(c) \/ SnapshotBegin(c)

Next ==
    \/ \E c \in Client : Request(c) \/ Progress(c) \/ SaveErr(c)
    \/ Background \/ Crash \/ Open

Spec == Init /\ [][Next]_vars

(* Threads inside a call and the background thread keep running.            *)
FairSpec == /\ Spec
            /\ WF_vars(Background)
            /\ \A c \in Client : WF_vars(Progress(c))

-----------------------------------------------------------------------------
(* Properties                                                               *)

(* Every variable keeps its shape.                                          *)
TypeOK ==
    /\ up \in BOOLEAN /\ walOpen \in BOOLEAN
    /\ data \in Map
    /\ call \in [Client -> Call]
    /\ pending \in Seq(Op)
    /\ bg \in [ops : Seq(Op), holds : BOOLEAN, fresh : Nat, doubt : SUBSET Int]
    /\ snapshot \in [seq : Nat, entries : Map]
    /\ wal \in Seq(Line) /\ archive \in Seq(Line)
    /\ nextSeq \in Nat /\ ticket \in Nat /\ logged \in [Key -> Nat]
    /\ taint \subseteq {"merged", "detached", "reordered", "raced", "dropped",
                        "stranded", "failed", "unsynced"}
    /\ crashes \in Nat /\ faults \in Nat

(* Nothing on its way to the map or to the disk touches the key.            *)
Settled(k) ==
    /\ up /\ Unapplied(k) = {} /\ Unlogged(k) = {}
    /\ \A i \in Fresh : k \notin wal[i].op.keys

(* Crash safety: if the process died now, reopening would give every        *)
(* settled key the value that a reader sees now, however many of the lines  *)
(* that the background thread has not synced, or failed to sync, are lost.  *)
SettledIsDurable ==
    \A k \in Key : Settled(k) =>
        \A left \in Survivors, lost \in 0..bg.fresh :
            Recovered(snapshot, SubSeq(left, 1, Len(left) - lost))[k] = data[k]

(* Crash safety holds at every step of every call, and of flush() and       *)
(* snapshot() in particular, unless a recorded hazard struck: an append to  *)
(* a torn line, a write with no log file, operations on a key logged or     *)
(* applied out of order, a key snapshotted between log and map, a queue     *)
(* dropped, a record left by a write that reported failure, a failed sync   *)
(* that the background thread did not notice.                               *)
DurableUnlessTainted == taint = {} => SettledIsDurable

(* Sequence numbers identify records: in the archive and the log together   *)
(* they increase strictly, whatever crashes and restarts lie between, which *)
(* is what point-in-time restore sorts by.                                  *)
SequencesIncrease ==
    LET lines == archive \o wal IN
    taint = {} => \A i, j \in 1..Len(lines) :
        i < j /\ lines[i].rec /\ lines[j].rec => lines[i].seq < lines[j].seq

(* A queued write reaches the log, with no help from the clients, unless    *)
(* the process dies or the queue is dropped.                                *)
QueueDrains ==
    \A k \in Key : Unlogged(k) # {} ~>
        Unlogged(k) = {} \/ ~up \/ taint # {}

(* The persistence lock is always released.                                 *)
LockIsReleased ==
    \A c \in Client : call[c].pc \in Saving ~> call[c].pc \notin Saving

=============================================================================
