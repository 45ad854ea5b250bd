--------------------------- MODULE KvStoreProofs ---------------------------
(***************************************************************************)
(* Theorems about KvStore, for every set of clients, keys and values, every*)
(* combination of methods and faults, and every bound: type correctness,   *)
(* strictly increasing sequence numbers, and crash safety.                 *)
(***************************************************************************)
EXTENDS KvStore, Induction

-----------------------------------------------------------------------------
(* Layer one: the locks and the calls in progress                           *)

(* At most one client holds the persistence lock, only flush has a list to  *)
(* log, a closed store has nothing in progress, and the background thread   *)
(* has unsynced lines only while it holds an open log.  Numbering is from  *)
(* one.                                                                    *)
LockInv ==
    /\ \A c, d \in Client : call[c].pc \in Saving /\ call[d].pc \in Saving => c = d
    /\ \A c \in Client :
         /\ call[c].todo # <<>> => call[c].pc \in {"flush", "snapFlush"}
         /\ call[c].pc \in {"snapArchive", "snapReopen"} => ~walOpen
         /\ call[c].pc \in Saving \ {"flush", "collect"} => DOMAIN call[c].got = Key
    /\ nextSeq > 0
    /\ bg.holds => walOpen
    /\ ~bg.holds => bg.fresh = 0
    /\ ~up => /\ \A c \in Client : call[c] = NoCall
              /\ pending = <<>> /\ bg.ops = <<>> /\ ~bg.holds

BaseInv == TypeOK /\ LockInv

-----------------------------------------------------------------------------
(* Layer two: sequence numbers                                              *)

Increasing(q) ==
    \A i, j \in 1..Len(q) : i < j /\ q[i].rec /\ q[j].rec => q[i].seq < q[j].seq

(* The records of p come before those of q.                                 *)
Below(p, q) ==
    \A i \in 1..Len(p), j \in 1..Len(q) : p[i].rec /\ q[j].rec => p[i].seq < q[j].seq

(* Whatever was archived is at or below the snapshot's sequence, so that a  *)
(* process that finds only the snapshot and the log starts above it.        *)
SeqInv ==
    /\ Increasing(archive) /\ Increasing(wal) /\ Below(archive, wal)
    /\ \A i \in 1..Len(archive) : archive[i].seq <= snapshot.seq
    /\ up => /\ snapshot.seq < nextSeq
             /\ \A i \in 1..Len(wal) : wal[i].seq < nextSeq

-----------------------------------------------------------------------------
(* Layer three: the newest value of a key                                   *)

(* n is the value of the newest operation on k: the map has it or is about  *)
(* to get it from the newest of the operations not applied.                 *)
MapGets(k, n) ==
    /\ Unapplied(k) = {} => data[k] = n
    /\ \A c \in Unapplied(k) :
         (\A d \in Unapplied(k) : call[d].op.ticket <= call[c].op.ticket)
            => call[c].op.val = n

(* The same for the disk, unless an operation newer than one in a queue has *)
(* been logged: that one cannot be logged without being reordered.          *)
DiskGets(k, n) ==
    /\ Unlogged(k) = {} => Recovered(snapshot, wal)[k] = n
    /\ \A q \in Unlogged(k) :
         (\A r \in Unlogged(k) : r.ticket <= q.ticket)
            => q.val = n \/ \E r \in Unlogged(k) : logged[k] > r.ticket

(* Operations in progress have passed the lock.                             *)
Queued == Elems(pending) \cup Elems(bg.ops) \cup UNION {Elems(call[c].todo) : c \in Client}

TicketInv ==
    /\ ticket > 0
    /\ \A c \in Client : call[c].op.ticket < ticket
    /\ \A q \in Queued : q.ticket < ticket

(* What snapshot() has collected is still in the map, because nobody gets   *)
(* past the persistence lock; once renamed it is the snapshot.              *)
CollectInv ==
    \A c \in Client :
        /\ call[c].pc \in Saving => \A k \in DOMAIN call[c].got :
              Unapplied(k) = {} /\ call[c].got[k] = data[k]
        /\ call[c].pc \in {"snapDrop", "snapArchive"} => snapshot.entries = call[c].got

AgreeInv == up => \A k \in Key : \E n \in Entry : MapGets(k, n) /\ DiskGets(k, n)

DurInv == TicketInv /\ CollectInv /\ AgreeInv

(* The inductive invariant.                                                 *)
IInv == BaseInv /\ (taint = {} => bg.doubt = {} /\ SeqInv /\ DurInv)

-----------------------------------------------------------------------------
(* Lemmas on the operators                                                  *)

(* The fixed values are of their types.                                     *)
LEMMA ConstantTypes ==
    /\ NoOp \in Op /\ NoCall \in Call
    /\ <<>> \in UNION {[ks -> Entry] : ks \in SUBSET Key}
    /\ \A s \in Nat, op \in Op, nl \in BOOLEAN : Record(s, op, nl) \in Line
    /\ \A nl \in BOOLEAN : BadLine(nl) \in Line
  <1>1. NoOp \in Op
    BY DEF NoOp, Op, Entry
  <1>2. <<>> \in [{} -> Entry] /\ {} \in SUBSET Key
    OBVIOUS
  <1>3. <<>> \in UNION {[ks -> Entry] : ks \in SUBSET Key}
    BY <1>2
  <1>4. NoCall \in Call
    BY <1>1, <1>3 DEF NoCall, Call
  <1>5. \A s \in Nat, op \in Op, nl \in BOOLEAN : Record(s, op, nl) \in Line
    BY DEF Record, Line
  <1>6. \A nl \in BOOLEAN : BadLine(nl) \in Line
    BY <1>1 DEF BadLine, Line
  <1> QED BY <1>1, <1>3, <1>4, <1>5, <1>6

(* Numbering an operation gives an operation.                               *)
LEMMA StampType ==
    ASSUME ticket \in Nat, NEW o, o.keys \in SUBSET Key, o.val \in Entry
    PROVE  Stamp(o) \in Op /\ Stamp(o).ticket = ticket
  BY DEF Stamp, Op

(* The operations of the public methods are of the right shape.             *)
LEMMA MethodOps ==
    /\ \A k \in Key, v \in Value : SetOp(k, v).keys \in SUBSET Key /\ SetOp(k, v).val \in Entry
    /\ \A k \in Key : DeleteOp(k).keys \in SUBSET Key /\ DeleteOp(k).val \in Entry
    /\ ClearOp.keys \in SUBSET Key /\ ClearOp.val \in Entry
    /\ \A o \in SyncOps : o.keys \in SUBSET Key /\ o.val \in Entry
  <1>1. \A k \in Key, v \in Value : SetOp(k, v).keys \in SUBSET Key /\ SetOp(k, v).val \in Entry
    BY DEF SetOp, Entry
  <1>2. \A k \in Key : DeleteOp(k).keys \in SUBSET Key /\ DeleteOp(k).val \in Entry
    BY DEF DeleteOp, Entry
  <1>3. ClearOp.keys \in SUBSET Key /\ ClearOp.val \in Entry
    BY DEF ClearOp, Entry
  <1>4. ASSUME NEW o \in SyncOps PROVE o.keys \in SUBSET Key /\ o.val \in Entry
    <2>1. \/ \E k \in Key, v \in Value : o = SetOp(k, v)
          \/ \E k \in Key : o = DeleteOp(k)
          \/ o = ClearOp
      BY <1>4 DEF SyncOps
    <2> QED BY <1>1, <1>2, <1>3, <2>1
  <1> QED BY <1>1, <1>2, <1>3, <1>4

(* Appending a line to the file yields a file, and unless a torn line is    *)
(* extended it is the file with one line more.                              *)
LEMMA AppendLineType ==
    ASSUME NEW w \in Seq(Line), NEW line \in Line
    PROVE  /\ AppendLine(w, line) \in Seq(Line)
           /\ AppendTaint(w, line) \subseteq {"merged"}
           /\ AppendTaint(w, line) = {} => AppendLine(w, line) = Append(w, line)
  <1>1. BadLine(line.nl) \in Line
    BY ConstantTypes DEF Line
  <1>2. CASE w = <<>> \/ LastOf(w).nl
    BY <1>2 DEF AppendLine, AppendTaint
  <1>3. CASE ~(w = <<>> \/ LastOf(w).nl)
    <2>1. AppendTaint(w, line) = {"merged"}
      BY <1>3 DEF AppendTaint
    <2>2. AppendLine(w, line) \in Seq(Line)
      BY <1>1, <1>3 DEF AppendLine
    <2> QED BY <2>1, <2>2
  <1> QED BY <1>2, <1>3

(* Whether a key is touched, recovery gives it an entry: the last line that *)
(* touches it exists.                                                       *)
LEMMA LastTouching ==
    ASSUME NEW w \in Seq(Line), NEW k \in Key, Touching(w, k) # {}
    PROVE  \E i \in Touching(w, k) :
              /\ \A j \in Touching(w, k) : j <= i
              /\ \A s : Recovered(s, w)[k] = w[i].op.val
  <1>1. Touching(w, k) \subseteq 0..Len(w) /\ Len(w) \in Nat
    BY DEF Touching
  <1>2. \E i \in Touching(w, k) : \A j \in Touching(w, k) : j <= i
    BY <1>1, GreatestNumber
  <1> DEFINE i == CHOOSE x \in Touching(w, k) : \A j \in Touching(w, k) : j <= x
  <1>3. i \in Touching(w, k) /\ \A j \in Touching(w, k) : j <= i
    BY <1>2
  <1>4. \A s : Recovered(s, w)[k] = w[i].op.val
    BY DEF Recovered
  <1> HIDE DEF i
  <1> QED BY <1>3, <1>4

(* A key that no line touches keeps the entry of the snapshot.              *)
LEMMA Untouched ==
    ASSUME NEW w, NEW k \in Key, Touching(w, k) = {}, NEW s
    PROVE  Recovered(s, w)[k] = s.entries[k]
  BY DEF Recovered

(* Recovery yields a map.                                                   *)
LEMMA RecoveredType ==
    ASSUME NEW w \in Seq(Line), NEW s \in [seq : Nat, entries : Map]
    PROVE  Recovered(s, w) \in Map
  <1>1. SUFFICES ASSUME NEW k \in Key PROVE Recovered(s, w)[k] \in Entry
    BY DEF Recovered, Map
  <1>2. CASE Touching(w, k) = {}
    BY <1>2, Untouched DEF Map
  <1>3. CASE Touching(w, k) # {}
    <2>1. PICK i \in Touching(w, k) : Recovered(s, w)[k] = w[i].op.val
      BY <1>3, LastTouching
    <2>2. w[i] \in Line
      BY DEF Touching
    <2> QED BY <2>1, <2>2 DEF Line, Op
  <1> QED BY <1>2, <1>3

(* The sequence found in the files is the greatest of those in them.        *)
LEMMA MaxSequenceIsMax ==
    ASSUME NEW w \in Seq(Line), NEW s \in [seq : Nat, entries : Map]
    PROVE  /\ MaxSequence(s, w) \in Nat
           /\ s.seq <= MaxSequence(s, w)
           /\ \A i \in 1..Len(w) : w[i].seq <= MaxSequence(s, w)
  <1> DEFINE seqs == {s.seq} \cup {w[i].seq : i \in 1..Len(w)}
  <1> DEFINE f == [i \in 1..Len(w) |-> w[i].seq]
  <1>1. Len(w) \in Nat /\ \A i \in 1..Len(w) : w[i].seq \in Nat
    <2>1. Len(w) \in Nat /\ \A i \in 1..Len(w) : w[i] \in Line
      OBVIOUS
    <2> QED BY <2>1 DEF Line
  <1>2. \A i \in 1..Len(w) : f[i] \in Nat /\ f[i] = w[i].seq
    BY <1>1
  <1>3. PICK a \in Nat : \A i \in 1..Len(w) : w[i].seq <= a
    <2> HIDE DEF f
    <2>1. \E a \in Nat : \A i \in 1..Len(w) : f[i] <= a
      BY <1>1, <1>2, BoundedValues
    <2> QED BY <1>2, <2>1
  <1>4. PICK b \in Nat : s.seq <= b /\ a <= b
    <2>1. s.seq \in Nat /\ \A x, y \in Nat : \E z \in Nat : x <= z /\ y <= z
      OBVIOUS
    <2> QED BY <2>1
  <1>5. seqs \subseteq 0..b
    BY <1>1, <1>3, <1>4
  <1>6. seqs # {} /\ s.seq \in seqs /\ \A i \in 1..Len(w) : w[i].seq \in seqs
    OBVIOUS
  <1>7. MaxSequence(s, w) = CHOOSE m \in seqs : \A x \in seqs : x <= m
    BY DEF MaxSequence
  <1> HIDE DEF seqs
  <1>8. \E m \in seqs : \A x \in seqs : x <= m
    BY <1>5, <1>6, GreatestNumber
  <1>9. MaxSequence(s, w) \in seqs /\ \A x \in seqs : x <= MaxSequence(s, w)
    BY <1>7, <1>8
  <1>10. s.seq <= MaxSequence(s, w) /\ \A i \in 1..Len(w) : w[i].seq <= MaxSequence(s, w)
    BY <1>6, <1>9
  <1>11. MaxSequence(s, w) \in 0..b
    BY <1>5, <1>9
  <1> QED BY <1>10, <1>11

(* What one more line does to recovery.                                     *)
LEMMA RecoveredAppend ==
    ASSUME NEW w \in Seq(Line), NEW line \in Line, NEW k \in Key, NEW s
    PROVE  Recovered(s, Append(w, line))[k] =
             IF line.rec /\ k \in line.op.keys THEN line.op.val ELSE Recovered(s, w)[k]
  <1> DEFINE v == Append(w, line)
  <1>1. /\ v \in Seq(Line) /\ Len(v) = Len(w) + 1 /\ v[Len(w) + 1] = line
        /\ \A i \in 1..Len(w) : v[i] = w[i]
    OBVIOUS
  <1>2. CASE line.rec /\ k \in line.op.keys
    <2>1. Len(w) + 1 \in Touching(v, k)
      BY <1>1, <1>2 DEF Touching
    <2>2. PICK i \in Touching(v, k) : (\A j \in Touching(v, k) : j <= i)
                                     /\ Recovered(s, v)[k] = v[i].op.val
      BY <1>1, <2>1, LastTouching
    <2>3. i = Len(w) + 1
      BY <1>1, <2>1, <2>2 DEF Touching
    <2> QED BY <1>1, <1>2, <2>2, <2>3
  <1>3. CASE ~(line.rec /\ k \in line.op.keys)
    <2>1. Touching(v, k) = Touching(w, k)
      BY <1>1, <1>3 DEF Touching
    <2>2. \A i \in Touching(w, k) : v[i] = w[i]
      BY <1>1 DEF Touching
    <2>3. CASE Touching(w, k) = {}
      BY <1>3, <2>1, <2>3, Untouched
    <2>4. CASE Touching(w, k) # {}
      <3>1. PICK i \in Touching(w, k) : (\A j \in Touching(w, k) : j <= i)
                                       /\ Recovered(s, w)[k] = w[i].op.val
        BY <2>4, LastTouching
      <3>2. PICK h \in Touching(v, k) : (\A j \in Touching(v, k) : j <= h)
                                       /\ Recovered(s, v)[k] = v[h].op.val
        BY <1>1, <2>1, <2>4, LastTouching
      <3>3. h = i
        BY <2>1, <3>1, <3>2 DEF Touching
      <3> QED BY <1>3, <2>2, <3>1, <3>2, <3>3
    <2> QED BY <2>3, <2>4
  <1> QED BY <1>2, <1>3

-----------------------------------------------------------------------------
(* Layer one is inductive                                                   *)

(* The first state satisfies layer one.                                     *)
LEMMA BaseInit == Init => BaseInv
  <1> SUFFICES ASSUME Init PROVE BaseInv
    OBVIOUS
  <1>1. call \in [Client -> Call]
    BY ConstantTypes DEF Init
  <1>2. /\ data \in Map
        /\ snapshot \in [seq : Nat, entries : Map]
    BY DEF Init, Map, Entry
  <1>3. bg \in [ops : Seq(Op), holds : BOOLEAN, fresh : Nat, doubt : SUBSET Int]
    BY DEF Init
  <1>4. /\ pending \in Seq(Op) /\ wal \in Seq(Line) /\ archive \in Seq(Line)
        /\ nextSeq \in Nat /\ ticket \in Nat /\ crashes \in Nat /\ faults \in Nat
    BY DEF Init
  <1>5. logged \in [Key -> Nat]
    BY DEF Init
  <1>6. up \in BOOLEAN /\ walOpen \in BOOLEAN /\ taint = {}
    BY DEF Init
  <1>7. TypeOK
    BY <1>1, <1>2, <1>3, <1>4, <1>5, <1>6 DEF TypeOK
  <1>8. LockInv
    BY DEF Init, LockInv, NoCall, Saving
  <1> QED BY <1>7, <1>8 DEF BaseInv

(* The calls that the actions put in the place of others.                   *)
LEMMA CallTypes ==
    /\ \A op \in Op : /\ [NoCall EXCEPT !.pc = "apply", !.op = op] \in Call
                      /\ [NoCall EXCEPT !.pc = "apply", !.op = op].op = op
    /\ \A q \in Seq(Op) : [NoCall EXCEPT !.pc = "flush", !.todo = q] \in Call
    /\ [NoCall EXCEPT !.pc = "collect"] \in Call
    /\ \A x \in Call :
         /\ \A q \in Seq(Op) : [x EXCEPT !.todo = q] \in Call
         /\ \A q \in Seq(Op) : [x EXCEPT !.pc = "snapFlush", !.todo = q] \in Call
         /\ \A p \in Saving : [x EXCEPT !.pc = p] \in Call
  <1> DEFINE Got == UNION {[ks -> Entry] : ks \in SUBSET Key}
  <1>1. <<>> \in Got /\ <<>> \in Seq(Op) /\ NoOp \in Op
    BY ConstantTypes
  <1>2. Call = [pc : Saving \cup {"idle", "apply"}, op : Op, todo : Seq(Op), got : Got]
    BY DEF Call
  <1> HIDE DEF Got
  <1>3. ASSUME NEW op \in Op
        PROVE  /\ [NoCall EXCEPT !.pc = "apply", !.op = op] \in Call
               /\ [NoCall EXCEPT !.pc = "apply", !.op = op].op = op
    BY <1>1, <1>2 DEF NoCall
  <1>4. ASSUME NEW q \in Seq(Op)
        PROVE  [NoCall EXCEPT !.pc = "flush", !.todo = q] \in Call
    BY <1>1, <1>2 DEF NoCall, Saving
  <1>5. [NoCall EXCEPT !.pc = "collect"] \in Call
    BY <1>1, <1>2 DEF NoCall, Saving
  <1>6. ASSUME NEW x \in Call, NEW q \in Seq(Op) PROVE [x EXCEPT !.todo = q] \in Call
    BY <1>2
  <1>7. ASSUME NEW x \in Call, NEW q \in Seq(Op)
        PROVE  [x EXCEPT !.pc = "snapFlush", !.todo = q] \in Call
    BY <1>2 DEF Saving
  <1>8. ASSUME NEW x \in Call, NEW p \in Saving PROVE [x EXCEPT !.pc = p] \in Call
    BY <1>2
  <1>9. \A x \in Call :
         /\ \A q \in Seq(Op) : [x EXCEPT !.todo = q] \in Call
         /\ \A q \in Seq(Op) : [x EXCEPT !.pc = "snapFlush", !.todo = q] \in Call
         /\ \A p \in Saving : [x EXCEPT !.pc = p] \in Call
    BY <1>6, <1>7, <1>8, Zenon
  <1>10. \A op \in Op : /\ [NoCall EXCEPT !.pc = "apply", !.op = op] \in Call
                       /\ [NoCall EXCEPT !.pc = "apply", !.op = op].op = op
    BY <1>3, Zenon
  <1>11. \A q \in Seq(Op) : [NoCall EXCEPT !.pc = "flush", !.todo = q] \in Call
    BY <1>4, Zenon
  <1> QED BY <1>5, <1>9, <1>10, <1>11, Zenon

(* The same for the background thread.                                      *)
LEMMA BgTypes ==
    ASSUME NEW b \in [ops : Seq(Op), holds : BOOLEAN, fresh : Nat, doubt : SUBSET Int],
           NEW q \in Seq(Op), NEW n \in Nat
    PROVE  /\ [b EXCEPT !.ops = q] \in [ops : Seq(Op), holds : BOOLEAN, fresh : Nat, doubt : SUBSET Int]
           /\ [b EXCEPT !.ops = q, !.fresh = n] \in [ops : Seq(Op), holds : BOOLEAN, fresh : Nat, doubt : SUBSET Int]
  OBVIOUS

(* The parts of well-typed values are well-typed.                           *)
LEMMA Parts ==
    ASSUME TypeOK
    PROVE  /\ \A c \in Client : call[c] \in Call /\ call[c].op \in Op /\ call[c].todo \in Seq(Op)
           /\ bg.ops \in Seq(Op) /\ bg.holds \in BOOLEAN /\ bg.fresh \in Nat
           /\ \A k \in Key : data[k] \in Entry /\ logged[k] \in Nat
           /\ \A q \in Seq(Op) : q # <<>> => Head(q) \in Op /\ Tail(q) \in Seq(Op)
  <1>1. \A c \in Client : call[c] \in Call /\ call[c].op \in Op /\ call[c].todo \in Seq(Op)
    BY DEF TypeOK, Call
  <1>2. bg.ops \in Seq(Op) /\ bg.holds \in BOOLEAN /\ bg.fresh \in Nat
    BY DEF TypeOK
  <1>3. \A k \in Key : data[k] \in Entry /\ logged[k] \in Nat
    BY DEF TypeOK, Map
  <1>4. \A q \in Seq(Op) : q # <<>> => Head(q) \in Op /\ Tail(q) \in Seq(Op)
    OBVIOUS
  <1> QED BY <1>1, <1>2, <1>3, <1>4

(* The parts of a line.                                                     *)
LEMMA LineParts ==
    ASSUME NEW q \in Seq(Line), NEW i \in 1..Len(q)
    PROVE  q[i] \in Line /\ q[i].seq \in Nat /\ q[i].op \in Op /\ q[i].rec \in BOOLEAN
  <1>1. q[i] \in Line
    OBVIOUS
  <1> QED BY <1>1 DEF Line

(* The types of what is on disk.                                            *)
LEMMA DiskParts ==
    ASSUME TypeOK
    PROVE  /\ wal \in Seq(Line) /\ archive \in Seq(Line)
           /\ nextSeq \in Nat /\ snapshot.seq \in Nat /\ snapshot.entries \in Map
           /\ \A i \in 1..Len(wal) : wal[i].seq \in Nat
           /\ \A i \in 1..Len(archive) : archive[i].seq \in Nat
  <1>1. /\ wal \in Seq(Line) /\ archive \in Seq(Line)
        /\ nextSeq \in Nat /\ snapshot.seq \in Nat /\ snapshot.entries \in Map
    BY DEF TypeOK
  <1> QED BY <1>1, LineParts

Taints ==
    {"merged", "detached", "reordered", "raced", "dropped", "stranded", "failed", "unsynced"}

(* Logging an operation keeps what it writes well-typed.                    *)
LEMMA LogOperationType ==
    ASSUME TypeOK, NEW op \in Op, LogOperation(op)
    PROVE  /\ wal' \in Seq(Line) /\ nextSeq' \in Nat /\ logged' \in [Key -> Nat]
           /\ taint' \subseteq Taints
  <1>1. CASE ~walOpen
    BY <1>1 DEF LogOperation, TypeOK, Taints
  <1>2. CASE walOpen
    <2> DEFINE line == Record(nextSeq, op, TRUE)
    <2>1. line \in Line
      BY ConstantTypes DEF TypeOK
    <2>2. /\ wal' = AppendLine(wal, line) /\ nextSeq' = nextSeq + 1
          /\ taint' = taint \cup AppendTaint(wal, line) \cup LogTaint(op)
          /\ logged' = LogMark(op)
      BY <1>2 DEF LogOperation
    <2>3. LogMark(op) \in [Key -> Nat]
      BY DEF LogMark, TypeOK, Op
    <2>4. LogTaint(op) \subseteq Taints
      BY DEF LogTaint, Taints
    <2>5. wal' \in Seq(Line) /\ AppendTaint(wal, line) \subseteq Taints
      <3>1. wal \in Seq(Line)
        BY DEF TypeOK
      <3> QED BY <2>1, <2>2, <3>1, AppendLineType DEF Taints
    <2>6. taint' \subseteq Taints
      BY <2>2, <2>4, <2>5 DEF TypeOK, Taints
    <2>7. nextSeq' \in Nat
      BY <2>2 DEF TypeOK
    <2> QED BY <2>2, <2>3, <2>5, <2>6, <2>7
  <1> QED BY <1>1, <1>2 DEF TypeOK

(* Every step is a step of one of these actions.                            *)
LEMMA WriteCalls ==
    ASSUME NEW c \in Client, Set(c) \/ Delete(c) \/ Clear(c)
    PROVE  \E o : /\ o.keys \in SUBSET Key /\ o.val \in Entry
                  /\ LogSync(c, o) \/ LogSyncErr(c, o)
  <1>1. CASE Set(c)
    BY <1>1, MethodOps DEF Set, LogCall
  <1>2. CASE Delete(c)
    BY <1>2, MethodOps DEF Delete, LogCall
  <1>3. CASE Clear(c)
    BY <1>3, MethodOps DEF Clear, LogCall
  <1> QED BY <1>1, <1>2, <1>3

(* The record that a failed or interrupted call of op can leave.            *)
LEMMA LeftLines ==
    ASSUME TypeOK, NEW op \in Op,
           NEW line \in CrashTails(op) \cup {BadLine(FALSE), Record(nextSeq, op, TRUE)}
    PROVE  /\ line \in Line
           /\ line.rec => line.seq = nextSeq
           /\ ~line.rec => line.seq = 0
  <1>1. \/ line = BadLine(FALSE)
        \/ line = Record(nextSeq, op, TRUE)
        \/ line = Record(nextSeq, op, FALSE)
    BY DEF CrashTails
  <1>2. nextSeq \in Nat
    BY DEF TypeOK
  <1>3. line \in Line
    BY <1>1, <1>2, ConstantTypes
  <1> QED BY <1>1, <1>3 DEF BadLine, Record

(* Every operation that a crash can interrupt is an operation.              *)
LEMMA InWriteType ==
    ASSUME TypeOK
    PROVE  InWrite \subseteq Op
  <1>1. SUFFICES ASSUME NEW op \in InWrite PROVE op \in Op
    OBVIOUS
  <1>2. \/ bg.ops # <<>> /\ op = Head(bg.ops)
        \/ \E c \in Client : call[c].todo # <<>> /\ op = Head(call[c].todo)
        \/ \E o \in SyncOps : op = Stamp(o)
    BY <1>1 DEF InWrite
  <1>3. ticket \in Nat
    BY DEF TypeOK
  <1>4. CASE bg.ops # <<>> /\ op = Head(bg.ops)
    BY <1>4, Parts
  <1>5. CASE \E c \in Client : call[c].todo # <<>> /\ op = Head(call[c].todo)
    BY <1>5, Parts
  <1>6. CASE \E o \in SyncOps : op = Stamp(o)
    BY <1>3, <1>6, StampType, MethodOps
  <1> QED BY <1>2, <1>4, <1>5, <1>6

(* Damage changes lines of the log and not their number; without a failed   *)
(* sync there is none.                                                      *)
LEMMA SurvivorType ==
    ASSUME TypeOK, NEW left \in Survivors
    PROVE  left \in Seq(Line) /\ Len(left) = Len(wal) /\ (bg.doubt = {} => left = wal)
  <1>1. wal \in Seq(Line) /\ BadLine(TRUE) \in Line
    BY ConstantTypes DEF TypeOK
  <1>2. PICK lost \in SUBSET bg.doubt :
            left = [i \in 1..Len(wal) |-> IF i \in lost THEN BadLine(TRUE) ELSE wal[i]]
    BY DEF Survivors
  <1>3. PICK bad \in Line : bad = BadLine(TRUE)
    BY <1>1
  <1>4. left \in Seq(Line) /\ Len(left) = Len(wal)
    <2>1. left = [i \in 1..Len(wal) |-> IF i \in lost THEN bad ELSE wal[i]]
      BY <1>2, <1>3, Zenon
    <2>2. \A i \in 1..Len(wal) : wal[i] \in Line
      BY <1>1
    <2>3. left \in [1..Len(wal) -> Line] /\ Len(wal) \in Nat
      BY <1>1, <2>1, <2>2
    <2> QED BY <2>3
  <1>5. ASSUME bg.doubt = {} PROVE left = wal
    <2>1. left = [i \in 1..Len(wal) |-> wal[i]]
      BY <1>2, <1>5
    <2> QED BY <1>1, <2>1
  <1> QED BY <1>4, <1>5

(* The shapes of the log that a crash leaves: as it was, cut, cut with a    *)
(* torn line behind, or with one more line.                                 *)
LEMMA CrashLog ==
    ASSUME TypeOK, CrashTail
    PROVE  /\ wal' \in Seq(Line) /\ taint' \subseteq Taints
           /\ \E w \in Survivors :
              \/ wal' = w /\ taint' = taint
              \/ \E n \in Int : /\ n <= Len(w) /\ taint' = taint
                                /\ \/ wal' = SubSeq(w, 1, n)
                                   \/ wal' = Append(SubSeq(w, 1, n), BadLine(FALSE))
              \/ \E line \in Line :
                    /\ wal' = AppendLine(w, line)
                    /\ taint' = taint \cup AppendTaint(w, line)
                    /\ line.rec => line.seq = nextSeq
                    /\ ~line.rec => line.seq = 0
  <1> USE DEF Taints
  <1>9. PICK w \in Survivors :
        \/ wal' = w /\ taint' = taint
        \/ \E lost \in 1..bg.fresh :
             /\ wal' \in {SubSeq(w, 1, Len(w) - lost)}
                    \cup (IF "torn" \in Faults
                          THEN {Append(SubSeq(w, 1, Len(w) - lost), BadLine(FALSE))} ELSE {})
             /\ UNCHANGED taint
        \/ \E op \in InWrite : \E line \in CrashTails(op) :
             /\ wal' = AppendLine(w, line)
             /\ taint' = taint \cup AppendTaint(w, line)
    BY DEF CrashTail
  <1>0. w \in Seq(Line) /\ taint \subseteq Taints
    BY SurvivorType DEF TypeOK
  <1>1. CASE wal' = w /\ taint' = taint
    BY <1>0, <1>1
  <1>2. CASE \E lost \in 1..bg.fresh :
               /\ wal' \in {SubSeq(w, 1, Len(w) - lost)}
                      \cup (IF "torn" \in Faults
                            THEN {Append(SubSeq(w, 1, Len(w) - lost), BadLine(FALSE))} ELSE {})
               /\ UNCHANGED taint
    <2>1. PICK n \in Int : /\ n <= Len(w) /\ taint' = taint
                           /\ \/ wal' = SubSeq(w, 1, n)
                              \/ wal' = Append(SubSeq(w, 1, n), BadLine(FALSE))
      <3>1. PICK lost \in 1..bg.fresh :
               /\ \/ wal' = SubSeq(w, 1, Len(w) - lost)
                  \/ wal' = Append(SubSeq(w, 1, Len(w) - lost), BadLine(FALSE))
               /\ taint' = taint
        BY <1>2
      <3>2. lost \in Nat /\ Len(w) - lost \in Int /\ Len(w) - lost <= Len(w)
        BY <1>0, Parts
      <3> QED BY <3>1, <3>2
    <2>2. SubSeq(w, 1, n) \in Seq(Line)
      BY <1>0, <2>1
    <2>3. wal' \in Seq(Line)
      <3>1. BadLine(FALSE) \in Line
        BY ConstantTypes
      <3>2. \A q \in Seq(Line), x \in Line : Append(q, x) \in Seq(Line)
        OBVIOUS
      <3> QED BY <2>1, <2>2, <3>1, <3>2
    <2> QED BY <1>0, <2>1, <2>3
  <1>3. CASE \E op \in InWrite : \E line \in CrashTails(op) :
               /\ wal' = AppendLine(w, line)
               /\ taint' = taint \cup AppendTaint(w, line)
    <2>0. PICK op \in InWrite : \E line \in CrashTails(op) :
               /\ wal' = AppendLine(w, line)
               /\ taint' = taint \cup AppendTaint(w, line)
      BY <1>3
    <2>1. PICK line \in CrashTails(op) :
               /\ wal' = AppendLine(w, line)
               /\ taint' = taint \cup AppendTaint(w, line)
      BY <2>0
    <2>2. op \in Op
      BY <2>0, InWriteType
    <2>3. line \in Line /\ (line.rec => line.seq = nextSeq) /\ (~line.rec => line.seq = 0)
      BY <2>2, LeftLines
    <2>4. wal' \in Seq(Line) /\ AppendTaint(w, line) \subseteq Taints
      BY <1>0, <2>1, <2>3, AppendLineType
    <2> QED BY <1>0, <2>1, <2>3, <2>4
  <1> QED BY <1>9, <1>1, <1>2, <1>3

(* Every step keeps the types.                                              *)
LEMMA TypeStep == BaseInv /\ [Next]_vars => TypeOK'
  <1> SUFFICES ASSUME TypeOK, LockInv, [Next]_vars PROVE TypeOK'
    BY DEF BaseInv
  <1> USE Parts
  <1>1. CASE UNCHANGED vars
    BY <1>1 DEF vars, TypeOK, Map
  <1>2. ASSUME NEW c \in Client, NEW o, o.keys \in SUBSET Key, o.val \in Entry, LogSync(c, o)
        PROVE  TypeOK'
    <2>1. ticket \in Nat /\ ticket' \in Nat
      BY <1>2 DEF LogSync, TypeOK
    <2>2. Stamp(o) \in Op
      BY <1>2, <2>1, StampType
    <2>3. call' \in [Client -> Call]
      BY <1>2, <2>2, CallTypes DEF LogSync, TypeOK
    <2>4. /\ wal' \in Seq(Line) /\ nextSeq' \in Nat /\ logged' \in [Key -> Nat]
          /\ taint' \subseteq Taints
      BY <1>2, <2>2, LogOperationType DEF LogSync
    <2> QED BY <1>2, <2>1, <2>3, <2>4 DEF LogSync, TypeOK, Taints
  <1>3. ASSUME NEW c \in Client, NEW o, o.keys \in SUBSET Key, o.val \in Entry, LogSyncErr(c, o)
        PROVE  TypeOK'
    <2>1. ticket \in Nat /\ ticket' \in Nat /\ nextSeq' \in Nat /\ faults' \in Nat
      BY <1>3 DEF LogSyncErr, TypeOK
    <2>2. Stamp(o) \in Op
      BY <1>3, <2>1, StampType
    <2>3. PICK line \in {BadLine(FALSE), Record(nextSeq, Stamp(o), TRUE)} :
             /\ wal' = AppendLine(wal, line)
             /\ taint' = taint \cup AppendTaint(wal, line)
                               \cup (IF line.rec THEN {"failed"} ELSE {})
      BY <1>3 DEF LogSyncErr
    <2>4. line \in Line
      BY <2>2, <2>3, LeftLines
    <2>5. wal' \in Seq(Line) /\ taint' \subseteq Taints
      BY <2>3, <2>4, AppendLineType DEF TypeOK, Taints
    <2> QED BY <1>3, <2>1, <2>5 DEF LogSyncErr, TypeOK, Taints
  <1>4. ASSUME NEW c \in Client, NEW k \in Key, NEW v \in Value, SetAsync(c, k, v)
        PROVE  TypeOK'
    <2>1. ticket \in Nat /\ ticket' \in Nat
      BY <1>4 DEF SetAsync, TypeOK
    <2>2. Stamp(SetOp(k, v)) \in Op
      BY <2>1, StampType, MethodOps
    <2>3. call' \in [Client -> Call]
      BY <1>4, <2>2, CallTypes DEF SetAsync, TypeOK
    <2>4. pending' \in Seq(Op)
      BY <1>4, <2>2 DEF SetAsync, TypeOK
    <2> QED BY <1>4, <2>1, <2>3, <2>4 DEF SetAsync, TypeOK, diskVars
  <1>5. ASSUME NEW c \in Client, FlushBegin(c) PROVE TypeOK'
    <2>1. call' \in [Client -> Call] /\ pending' \in Seq(Op)
      <3>1. /\ pending \in Seq(Op) /\ call \in [Client -> Call] /\ pending' = <<>>
            /\ call' = [call EXCEPT ![c] = [NoCall EXCEPT !.pc = "flush", !.todo = pending]]
        BY <1>5 DEF FlushBegin, TypeOK
      <3>2. [NoCall EXCEPT !.pc = "flush", !.todo = pending] \in Call
        BY <3>1, CallTypes
      <3> QED BY <3>1, <3>2
    <2> QED BY <1>5, <2>1 DEF FlushBegin, TypeOK, diskVars
  <1>6. ASSUME NEW c \in Client, SnapshotBegin(c) PROVE TypeOK'
    <2>1. call' \in [Client -> Call]
      BY <1>6, CallTypes DEF SnapshotBegin, TypeOK
    <2> QED BY <1>6, <2>1 DEF SnapshotBegin, TypeOK, diskVars
  <1>7. ASSUME NEW c \in Client, Apply(c) PROVE TypeOK'
    <2>1. call' \in [Client -> Call]
      BY <1>7, ConstantTypes DEF Apply, TypeOK
    <2>2. data' \in Map
      <3>1. call[c].op.val \in Entry
        BY DEF Op
      <3> QED BY <1>7, <3>1 DEF Apply, ApplyOp, Map
    <2>3. taint' \subseteq Taints
      BY <1>7 DEF Apply, TypeOK, Taints
    <2> QED BY <1>7, <2>1, <2>2, <2>3 DEF Apply, TypeOK, diskVars, Taints
  <1>8. ASSUME NEW c \in Client, FlushLog(c) PROVE TypeOK'
    <2>1. Head(call[c].todo) \in Op /\ Tail(call[c].todo) \in Seq(Op)
      BY <1>8 DEF FlushLog
    <2>2. call' \in [Client -> Call]
      BY <1>8, <2>1, CallTypes DEF FlushLog, TypeOK
    <2>3. /\ wal' \in Seq(Line) /\ nextSeq' \in Nat /\ logged' \in [Key -> Nat]
          /\ taint' \subseteq Taints
      BY <1>8, <2>1, LogOperationType DEF FlushLog
    <2> QED BY <1>8, <2>2, <2>3 DEF FlushLog, TypeOK, Taints
  <1>9. ASSUME NEW c \in Client, FlushEnd(c) \/ SnapshotReopen(c) PROVE TypeOK'
    <2>1. call' \in [Client -> Call]
      BY <1>9, ConstantTypes DEF FlushEnd, SnapshotReopen, TypeOK
    <2> QED BY <1>9, <2>1 DEF FlushEnd, SnapshotReopen, TypeOK, diskVars, ghostVars
  <1>10. ASSUME NEW c \in Client, NEW k \in Key, SnapshotCollect(c, k) PROVE TypeOK'
    <2> DEFINE Got == UNION {[ks -> Entry] : ks \in SUBSET Key}
    <2> DEFINE got == [j \in DOMAIN call[c].got \cup {k} |->
                          IF j = k THEN data[k] ELSE call[c].got[j]]
    <2>1. PICK ks \in SUBSET Key : call[c].got \in [ks -> Entry]
      BY DEF Call
    <2>2. got \in [ks \cup {k} -> Entry] /\ ks \cup {k} \in SUBSET Key
      BY <2>1
    <2>3. got \in Got
      BY <2>2
    <2>4. [call[c] EXCEPT !.got = got] \in Call
      <3> HIDE DEF got
      <3>1. call[c] \in Call
        BY DEF TypeOK
      <3>2. Call = [pc : Saving \cup {"idle", "apply"}, op : Op, todo : Seq(Op), got : Got]
        BY DEF Call
      <3> HIDE DEF Got
      <3> QED BY <2>3, <3>1, <3>2
    <2>5. call' = [call EXCEPT ![c] = [call[c] EXCEPT !.got = got]]
      BY <1>10 DEF SnapshotCollect, TypeOK
    <2>6. call' \in [Client -> Call]
      <3> HIDE DEF got
      <3> QED BY <2>4, <2>5 DEF TypeOK
    <2>7. taint' \subseteq Taints
      BY <1>10 DEF SnapshotCollect, TypeOK, Taints
    <2> QED BY <1>10, <2>6, <2>7 DEF SnapshotCollect, TypeOK, diskVars, Taints
  <1>11. ASSUME NEW c \in Client, SnapshotFlush(c) PROVE TypeOK'
    <2>1. call' = [call EXCEPT ![c] = [call[c] EXCEPT !.pc = "snapFlush", !.todo = pending]]
      BY <1>11 DEF SnapshotFlush, TypeOK
    <2>2. call' \in [Client -> Call] /\ pending' \in Seq(Op)
      <3>1. pending \in Seq(Op) /\ call \in [Client -> Call] /\ pending' = <<>>
        BY <1>11 DEF SnapshotFlush, TypeOK
      <3>2. [call[c] EXCEPT !.pc = "snapFlush", !.todo = pending] \in Call
        BY <3>1, CallTypes
      <3> QED BY <2>1, <3>1, <3>2
    <2> QED BY <1>11, <2>2 DEF SnapshotFlush, TypeOK, diskVars, ghostVars
  <1>12. ASSUME NEW c \in Client, SnapshotRename(c) PROVE TypeOK'
    <2>1. call[c].pc \in Saving \ {"flush", "collect"}
      BY <1>12 DEF SnapshotRename, Saving
    <2>2. call[c].got \in Map
      <3>1. PICK ks \in SUBSET Key : call[c].got \in [ks -> Entry]
        BY DEF Call
      <3>2. ks = Key
        BY <2>1, <3>1 DEF LockInv
      <3> QED BY <3>1, <3>2 DEF Map
    <2>3. snapshot' \in [seq : Nat, entries : Map]
      BY <1>12, <2>2 DEF SnapshotRename, TypeOK, LockInv
    <2>4. call' \in [Client -> Call]
      BY <1>12, CallTypes DEF SnapshotRename, TypeOK, Saving
    <2> QED BY <1>12, <2>3, <2>4 DEF SnapshotRename, TypeOK, ghostVars
  <1>13. ASSUME NEW c \in Client, SnapshotDropWal(c) PROVE TypeOK'
    <2>1. call' \in [Client -> Call]
      BY <1>13, CallTypes DEF SnapshotDropWal, TypeOK, Saving
    <2> QED BY <1>13, <2>1 DEF SnapshotDropWal, TypeOK, diskVars, ghostVars
  <1>14. ASSUME NEW c \in Client, SnapshotArchive(c) PROVE TypeOK'
    <2>1. call' \in [Client -> Call]
      BY <1>14, CallTypes DEF SnapshotArchive, TypeOK, Saving
    <2>2. archive' \in Seq(Line) /\ wal' \in Seq(Line)
      BY <1>14 DEF SnapshotArchive, TypeOK
    <2>3. taint' \subseteq Taints
      BY <1>14 DEF SnapshotArchive, TypeOK, Taints
    <2>4. bg' \in [ops : Seq(Op), holds : BOOLEAN, fresh : Nat, doubt : SUBSET Int]
      BY <1>14 DEF SnapshotArchive, TypeOK
    <2> QED BY <1>14, <2>1, <2>2, <2>3, <2>4 DEF SnapshotArchive, TypeOK, Taints
  <1>15. ASSUME NEW c \in Client, SaveErr(c) PROVE TypeOK'
    <2>1. call' \in [Client -> Call]
      BY <1>15, ConstantTypes DEF SaveErr, TypeOK
    <2>2. taint' \subseteq Taints /\ faults' \in Nat
      BY <1>15 DEF SaveErr, TypeOK, Taints
    <2> QED BY <1>15, <2>1, <2>2 DEF SaveErr, TypeOK, diskVars, Taints
  <1>16. CASE BgTake
    <2>1. bg' \in [ops : Seq(Op), holds : BOOLEAN, fresh : Nat, doubt : SUBSET Int] /\ pending' \in Seq(Op)
      BY <1>16 DEF BgTake, TypeOK
    <2> QED BY <1>16, <2>1 DEF BgTake, TypeOK, diskVars, ghostVars
  <1>17. CASE BgLock
    <2>1. bg' \in [ops : Seq(Op), holds : BOOLEAN, fresh : Nat, doubt : SUBSET Int]
      <3>1. \/ bg' = [bg EXCEPT !.holds = TRUE]
            \/ bg' = [bg EXCEPT !.ops = <<>>]
        BY <1>17 DEF BgLock
      <3>2. CASE bg' = [bg EXCEPT !.holds = TRUE]
        BY <3>2 DEF TypeOK
      <3>3. CASE bg' = [bg EXCEPT !.ops = <<>>]
        <4>1. <<>> \in Seq(Op) /\ bg \in [ops : Seq(Op), holds : BOOLEAN, fresh : Nat, doubt : SUBSET Int]
          BY DEF TypeOK
        <4> QED BY <3>3, <4>1, BgTypes
      <3> QED BY <3>1, <3>2, <3>3
    <2>2. taint' \subseteq Taints
      BY <1>17 DEF BgLock, TypeOK, Taints
    <2> QED BY <1>17, <2>1, <2>2 DEF BgLock, TypeOK, diskVars, Taints
  <1>18. CASE BgWrite
    <2> DEFINE op == Head(bg.ops)
    <2> DEFINE line == Record(nextSeq, op, TRUE)
    <2>1. op \in Op /\ Tail(bg.ops) \in Seq(Op)
      BY <1>18 DEF BgWrite
    <2>2. line \in Line
      BY <2>1, ConstantTypes DEF TypeOK
    <2>3. AppendLine(wal, line) \in Seq(Line) /\ AppendTaint(wal, line) \subseteq Taints
      BY <2>2, AppendLineType DEF TypeOK, Taints
    <2>4. LogMark(op) \in [Key -> Nat] /\ LogTaint(op) \subseteq Taints
      BY <2>1 DEF LogMark, LogTaint, TypeOK, Op, Taints
    <2>5. bg' \in [ops : Seq(Op), holds : BOOLEAN, fresh : Nat, doubt : SUBSET Int]
      <3>1. \/ bg' = [bg EXCEPT !.ops = Tail(bg.ops), !.fresh = bg.fresh + 1]
            \/ bg' = [bg EXCEPT !.ops = Tail(bg.ops)]
        BY <1>18 DEF BgWrite, TypeOK
      <3>2. bg \in [ops : Seq(Op), holds : BOOLEAN, fresh : Nat, doubt : SUBSET Int]
        BY DEF TypeOK
      <3>3. CASE bg' = [bg EXCEPT !.ops = Tail(bg.ops), !.fresh = bg.fresh + 1]
        <4>1. bg.fresh + 1 \in Nat
          BY <3>2
        <4> QED BY <2>1, <3>2, <3>3, <4>1, BgTypes
      <3>4. CASE bg' = [bg EXCEPT !.ops = Tail(bg.ops)]
        BY <2>1, <3>2, <3>4, BgTypes
      <3> QED BY <3>1, <3>3, <3>4
    <2>6. nextSeq' \in Nat /\ faults' \in Nat
      <3>1. nextSeq' = nextSeq + 1 /\ faults' \in {faults, faults + 1}
        BY <1>18 DEF BgWrite
      <3> QED BY <3>1 DEF TypeOK
    <2>7. /\ wal' = AppendLine(wal, line) \/ wal' = wal
          /\ logged' = LogMark(op) \/ logged' = logged
          /\ \/ taint' = taint \cup AppendTaint(wal, line) \cup LogTaint(op)
             \/ taint' = taint \cup {"dropped"}
      BY <1>18 DEF BgWrite
    <2>8. wal' \in Seq(Line) /\ logged' \in [Key -> Nat] /\ taint' \subseteq Taints
      <3> HIDE DEF line, op
      <3> QED BY <2>3, <2>4, <2>7 DEF TypeOK, Taints
    <2> QED BY <1>18, <2>5, <2>6, <2>8 DEF BgWrite, TypeOK, Taints
  <1>19. CASE BgSync
    <2>1. bg \in [ops : Seq(Op), holds : BOOLEAN, fresh : Nat, doubt : SUBSET Int] /\ Fresh \subseteq Int
      BY DEF TypeOK, Fresh
    <2>2. \/ bg' = [bg EXCEPT !.holds = FALSE, !.fresh = 0]
          \/ bg' = [bg EXCEPT !.holds = FALSE, !.fresh = 0, !.doubt = bg.doubt \cup Fresh]
      BY <1>19, <2>1 DEF BgSync
    <2>3. bg' \in [ops : Seq(Op), holds : BOOLEAN, fresh : Nat, doubt : SUBSET Int]
      <3>1. bg.doubt \cup Fresh \in SUBSET Int
        BY <2>1
      <3>2. PICK doubt \in SUBSET Int : \/ bg' = [bg EXCEPT !.holds = FALSE, !.fresh = 0]
                                       \/ bg' = [bg EXCEPT !.holds = FALSE, !.fresh = 0, !.doubt = doubt]
        BY <2>2, <3>1
      <3> QED
        <4>1. \A b \in [ops : Seq(Op), holds : BOOLEAN, fresh : Nat, doubt : SUBSET Int] :
                \A d \in SUBSET Int :
                  [b EXCEPT !.holds = FALSE, !.fresh = 0, !.doubt = d]
                    \in [ops : Seq(Op), holds : BOOLEAN, fresh : Nat, doubt : SUBSET Int]
          BY Zenon
        <4>2. [bg EXCEPT !.holds = FALSE, !.fresh = 0]
                    \in [ops : Seq(Op), holds : BOOLEAN, fresh : Nat, doubt : SUBSET Int]
          BY <2>1
        <4> QED BY <2>1, <3>2, <4>1, <4>2, Zenon
    <2>4. taint' \subseteq Taints /\ faults' \in Nat
      BY <1>19 DEF BgSync, TypeOK, Taints
    <2> QED BY <1>19, <2>3, <2>4 DEF BgSync, TypeOK, diskVars, Taints
  <1>20. CASE Crash
    <2>1. wal' \in Seq(Line) /\ taint' \subseteq Taints
      BY <1>20, CrashLog DEF Crash
    <2>2. data' \in Map /\ call' \in [Client -> Call]
      BY <1>20, ConstantTypes DEF Crash, Map, Entry
    <2>3. bg' \in [ops : Seq(Op), holds : BOOLEAN, fresh : Nat, doubt : SUBSET Int] /\ pending' \in Seq(Op)
      BY <1>20 DEF Crash
    <2>4. /\ up' = FALSE /\ walOpen' = FALSE /\ crashes' = crashes + 1
          /\ UNCHANGED <<snapshot, archive, nextSeq, ticket, logged, faults>>
      BY <1>20 DEF Crash
    <2>5. up' \in BOOLEAN /\ walOpen' \in BOOLEAN /\ crashes' \in Nat
      <3>1. crashes \in Nat
        BY DEF TypeOK
      <3>2. up' \in BOOLEAN /\ walOpen' \in BOOLEAN
        BY <2>4
      <3>3. crashes' \in Nat
        BY <2>4, <3>1
      <3> QED BY <3>2, <3>3
    <2>6. /\ snapshot' \in [seq : Nat, entries : Map] /\ archive' \in Seq(Line)
          /\ nextSeq' \in Nat /\ ticket' \in Nat /\ logged' \in [Key -> Nat] /\ faults' \in Nat
      BY <2>4 DEF TypeOK
    <2> QED BY <2>1, <2>2, <2>3, <2>5, <2>6 DEF TypeOK, Taints
  <1>21. CASE Open
    <2>1. wal \in Seq(Line) /\ snapshot \in [seq : Nat, entries : Map]
      BY DEF TypeOK
    <2>2. data' \in Map
      BY <1>21, <2>1, RecoveredType DEF Open
    <2>3. nextSeq' \in Nat
      BY <1>21, <2>1, MaxSequenceIsMax DEF Open
    <2> QED BY <1>21, <2>2, <2>3 DEF Open, TypeOK, diskVars, ghostVars
  <1> QED
    BY <1>1, <1>2, <1>3, <1>4, <1>5, <1>6, <1>7, <1>8, <1>9, <1>10, <1>11, <1>12,
       <1>13, <1>14, <1>15, <1>16, <1>17, <1>18, <1>19, <1>20, <1>21, WriteCalls
    DEF Next, Request, Progress, Background

(* What a step makes of the call of its client.                             *)
LEMMA CallAfter ==
    ASSUME TypeOK, NEW c \in Client
    PROVE  /\ \A x : call' = [call EXCEPT ![c] = x] =>
                call'[c] = x /\ \A d \in Client \ {c} : call'[d] = call[d]
           /\ \A p : call' = [call EXCEPT ![c].pc = p] =>
                /\ \A d \in Client \ {c} : call'[d] = call[d]
                /\ call'[c].pc = p /\ call'[c].op = call[c].op
                /\ call'[c].todo = call[c].todo /\ call'[c].got = call[c].got
           /\ \A q : call' = [call EXCEPT ![c].todo = q] =>
                /\ \A d \in Client \ {c} : call'[d] = call[d]
                /\ call'[c].pc = call[c].pc /\ call'[c].op = call[c].op
                /\ call'[c].todo = q /\ call'[c].got = call[c].got
           /\ \A g : call' = [call EXCEPT ![c].got = g] =>
                /\ \A d \in Client \ {c} : call'[d] = call[d]
                /\ call'[c].pc = call[c].pc /\ call'[c].op = call[c].op
                /\ call'[c].todo = call[c].todo /\ call'[c].got = g
           /\ \A p, q : call' = [call EXCEPT ![c].pc = p, ![c].todo = q] =>
                /\ \A d \in Client \ {c} : call'[d] = call[d]
                /\ call'[c].pc = p /\ call'[c].op = call[c].op
                /\ call'[c].todo = q /\ call'[c].got = call[c].got
  <1>1. call \in [Client -> Call] /\ call[c] \in Call
    BY DEF TypeOK
  <1> QED BY <1>1 DEF Call

(* The calls that clients enter.                                            *)
LEMMA NewCalls ==
    NoCall.pc = "idle" /\ NoCall.op = NoOp /\ NoCall.todo = <<>> /\ NoCall.got = <<>>
  BY DEF NoCall

(* A write leaves its client with an operation to apply.                    *)
LEMMA EnterApply ==
    ASSUME TypeOK, NEW c \in Client, NEW op,
           call' = [call EXCEPT ![c] = [NoCall EXCEPT !.pc = "apply", !.op = op]]
    PROVE  /\ call'[c].pc = "apply" /\ call'[c].op = op
           /\ call'[c].todo = <<>> /\ call'[c].got = <<>>
           /\ \A d \in Client \ {c} : call'[d] = call[d]
  BY DEF TypeOK, NoCall

(* flush() takes a queue.                                                   *)
LEMMA EnterFlush ==
    ASSUME TypeOK, NEW c \in Client, NEW q,
           call' = [call EXCEPT ![c] = [NoCall EXCEPT !.pc = "flush", !.todo = q]]
    PROVE  /\ call'[c].pc = "flush" /\ call'[c].op = NoOp
           /\ call'[c].todo = q /\ call'[c].got = <<>>
           /\ \A d \in Client \ {c} : call'[d] = call[d]
  BY DEF TypeOK, NoCall

(* snapshot() starts with nothing collected.                                *)
LEMMA EnterSnapshot ==
    ASSUME TypeOK, NEW c \in Client,
           call' = [call EXCEPT ![c] = [NoCall EXCEPT !.pc = "collect"]]
    PROVE  /\ call'[c].pc = "collect" /\ call'[c].op = NoOp
           /\ call'[c].todo = <<>> /\ call'[c].got = <<>>
           /\ \A d \in Client \ {c} : call'[d] = call[d]
  BY DEF TypeOK, NoCall

(* Logging takes at most one number.                                        *)
LEMMA LogSeq ==
    ASSUME NEW op, LogOperation(op)
    PROVE  nextSeq' = nextSeq \/ nextSeq' = nextSeq + 1
  BY DEF LogOperation

(* Every step keeps the locks.                                              *)
LEMMA LockStep == BaseInv /\ [Next]_vars => LockInv'
  <1> SUFFICES ASSUME TypeOK, LockInv, [Next]_vars PROVE LockInv'
    BY DEF BaseInv
  <1>1. CASE UNCHANGED vars
    BY <1>1 DEF vars, LockInv
  <1>2. ASSUME NEW c \in Client, NEW o, LogSync(c, o) PROVE LockInv'
    <2>1. /\ call'[c].pc = "apply" /\ call'[c].todo = <<>>
          /\ \A d \in Client \ {c} : call'[d] = call[d]
      BY <1>2, EnterApply DEF LogSync
    <2>2. nextSeq' > 0 /\ up
      <3>1. nextSeq' = nextSeq \/ nextSeq' = nextSeq + 1
        BY <1>2, LogSeq DEF LogSync
      <3>2. nextSeq \in Nat /\ nextSeq > 0
        BY DEF TypeOK, LockInv
      <3>3. up
        BY <1>2 DEF LogSync, Idle
      <3> QED BY <3>1, <3>2, <3>3
    <2> QED BY <1>2, <2>1, <2>2 DEF LogSync, LockInv, Saving
  <1>3. ASSUME NEW c \in Client, NEW o, LogSyncErr(c, o) PROVE LockInv'
    <2>1. nextSeq' > 0
      BY <1>3 DEF LogSyncErr, LockInv, TypeOK
    <2> QED BY <1>3, <2>1 DEF LogSyncErr, LockInv, Idle
  <1>4. ASSUME NEW c \in Client, NEW k \in Key, NEW v \in Value, SetAsync(c, k, v)
        PROVE  LockInv'
    <2>1. /\ call'[c].pc = "apply" /\ call'[c].todo = <<>>
          /\ \A d \in Client \ {c} : call'[d] = call[d]
      BY <1>4, EnterApply DEF SetAsync
    <2> QED BY <1>4, <2>1 DEF SetAsync, LockInv, Saving, Idle
  <1>5. ASSUME NEW c \in Client, FlushBegin(c) PROVE LockInv'
    <2>1. /\ call'[c].pc = "flush"
          /\ \A d \in Client \ {c} : call'[d] = call[d]
      BY <1>5, EnterFlush DEF FlushBegin
    <2> QED BY <1>5, <2>1 DEF FlushBegin, LockInv, Saving, Idle, PersistenceFree
  <1>6. ASSUME NEW c \in Client, SnapshotBegin(c) PROVE LockInv'
    <2>1. /\ call'[c].pc = "collect" /\ call'[c].todo = <<>>
          /\ \A d \in Client \ {c} : call'[d] = call[d]
      BY <1>6, EnterSnapshot DEF SnapshotBegin
    <2> QED BY <1>6, <2>1 DEF SnapshotBegin, LockInv, Saving, Idle, PersistenceFree
  <1>7. ASSUME NEW c \in Client, Apply(c) PROVE LockInv'
    <2>1. /\ call'[c] = NoCall
          /\ \A d \in Client \ {c} : call'[d] = call[d]
      BY <1>7, CallAfter DEF Apply
    <2> QED BY <1>7, <2>1, NewCalls DEF Apply, LockInv, Saving
  <1>8. ASSUME NEW c \in Client, FlushLog(c) PROVE LockInv'
    <2>1. /\ call'[c].pc = call[c].pc /\ call'[c].got = call[c].got
          /\ \A d \in Client \ {c} : call'[d] = call[d]
      BY <1>8, CallAfter DEF FlushLog
    <2>2. nextSeq' > 0
      <3>1. nextSeq' = nextSeq \/ nextSeq' = nextSeq + 1
        BY <1>8, LogSeq DEF FlushLog
      <3>2. nextSeq \in Nat /\ nextSeq > 0
        BY DEF TypeOK, LockInv
      <3> QED BY <3>1, <3>2
    <2>3. up
      BY <1>8, NewCalls DEF FlushLog, LockInv
    <2> QED BY <1>8, <2>1, <2>2, <2>3 DEF FlushLog, LockInv, Saving
  <1>9. ASSUME NEW c \in Client, FlushEnd(c) \/ SnapshotReopen(c) PROVE LockInv'
    <2>1. /\ call'[c] = NoCall
          /\ \A d \in Client \ {c} : call'[d] = call[d]
      BY <1>9, CallAfter DEF FlushEnd, SnapshotReopen
    <2>2. CASE FlushEnd(c)
      BY <2>1, <2>2, NewCalls DEF FlushEnd, LockInv, Saving
    <2>3. CASE SnapshotReopen(c)
      <3>1. up /\ \A d \in Client \ {c} : call[d].pc \notin Saving
        BY <2>3, NewCalls DEF SnapshotReopen, LockInv, Saving
      <3> QED BY <2>1, <2>3, <3>1, NewCalls DEF SnapshotReopen, LockInv, Saving
    <2> QED BY <1>9, <2>2, <2>3
  <1>10. ASSUME NEW c \in Client, NEW k \in Key, SnapshotCollect(c, k) PROVE LockInv'
    <2>1. /\ call'[c].pc = "collect" /\ call'[c].todo = call[c].todo
          /\ \A d \in Client \ {c} : call'[d] = call[d]
      BY <1>10, CallAfter DEF SnapshotCollect
    <2>2. up
      BY <1>10, NewCalls DEF SnapshotCollect, LockInv
    <2> QED BY <1>10, <2>1, <2>2 DEF SnapshotCollect, LockInv, Saving, diskVars
  <1>11. ASSUME NEW c \in Client, SnapshotFlush(c) PROVE LockInv'
    <2>1. /\ call'[c].pc = "snapFlush" /\ call'[c].got = call[c].got
          /\ \A d \in Client \ {c} : call'[d] = call[d]
      BY <1>11, CallAfter DEF SnapshotFlush
    <2>2. up
      BY <1>11, NewCalls DEF SnapshotFlush, LockInv
    <2>3. /\ call[c].pc \in Saving /\ DOMAIN call[c].got = Key
          /\ UNCHANGED <<up, bg, walOpen, nextSeq>>
      BY <1>11 DEF SnapshotFlush, Saving
    <2> QED BY <2>1, <2>2, <2>3 DEF LockInv, Saving
  <1>12. ASSUME NEW c \in Client, SnapshotRename(c) \/ SnapshotDropWal(c) \/ SnapshotArchive(c)
         PROVE  LockInv'
    <2>1. PICK p \in {"snapDrop", "snapArchive", "snapReopen"} :
              call' = [call EXCEPT ![c].pc = p]
      BY <1>12 DEF SnapshotRename, SnapshotDropWal, SnapshotArchive
    <2>2. /\ call'[c].pc = p /\ call'[c].got = call[c].got /\ call'[c].todo = call[c].todo
          /\ \A d \in Client \ {c} : call'[d] = call[d]
      BY <2>1, CallAfter
    <2>3. up /\ call[c].pc \in Saving \ {"flush", "collect"}
      BY <1>12, NewCalls
      DEF SnapshotRename, SnapshotDropWal, SnapshotArchive, LockInv, Saving
    <2>4. /\ \A d, e \in Client : call'[d].pc \in Saving /\ call'[e].pc \in Saving => d = e
          /\ \A d \in Client : call'[d].pc \in Saving \ {"flush", "collect"} => DOMAIN call'[d].got = Key
      BY <2>2, <2>3 DEF LockInv, Saving
    <2>5. call'[c].todo = <<>>
      BY <1>12, <2>2 DEF SnapshotRename, SnapshotDropWal, SnapshotArchive, LockInv
    <2>6. /\ \A d \in Client : call'[d].pc \in {"snapArchive", "snapReopen"} => ~walOpen'
          /\ bg'.holds => walOpen'
          /\ bg'.ops = bg.ops /\ bg'.holds = bg.holds /\ bg'.fresh = bg.fresh
          /\ nextSeq' = nextSeq /\ up' = up
      <3>1. CASE SnapshotRename(c)
        BY <2>2, <3>1, CallAfter DEF SnapshotRename, LockInv
      <3>2. CASE SnapshotDropWal(c)
        BY <2>2, <3>2 DEF SnapshotDropWal, LockInv, WalFree
      <3>3. CASE SnapshotArchive(c)
        <4>1. bg'.ops = bg.ops /\ bg'.holds = bg.holds /\ bg'.fresh = bg.fresh
          BY <3>3 DEF SnapshotArchive, TypeOK
        <4> QED BY <2>2, <3>3, <4>1 DEF SnapshotArchive, LockInv
      <3> QED BY <1>12, <3>1, <3>2, <3>3
    <2> QED BY <2>2, <2>3, <2>4, <2>5, <2>6 DEF LockInv
  <1>13. ASSUME NEW c \in Client, SaveErr(c) PROVE LockInv'
    <2>1. /\ call'[c] = NoCall
          /\ \A d \in Client \ {c} : call'[d] = call[d]
      BY <1>13, CallAfter DEF SaveErr
    <2> QED BY <1>13, <2>1, NewCalls DEF SaveErr, LockInv, Saving
  <1>14. CASE BgTake \/ BgLock \/ BgSync
    <2>1. bg \in [ops : Seq(Op), holds : BOOLEAN, fresh : Nat, doubt : SUBSET Int]
      BY DEF TypeOK
    <2>2. CASE BgTake
      BY <2>1, <2>2 DEF BgTake, LockInv
    <2>3. CASE BgLock
      BY <2>1, <2>3 DEF BgLock, LockInv
    <2>4. CASE BgSync
      BY <2>1, <2>4 DEF BgSync, LockInv
    <2> QED BY <1>14, <2>2, <2>3, <2>4
  <1>15. CASE BgWrite
    <2>1. bg'.holds = bg.holds /\ bg.holds
      BY <1>15 DEF BgWrite, TypeOK
    <2>2. nextSeq' > 0
      BY <1>15 DEF BgWrite, TypeOK
    <2> QED BY <1>15, <2>1, <2>2 DEF BgWrite, LockInv
  <1>16. CASE Crash
    BY <1>16, NewCalls DEF Crash, LockInv, Saving
  <1>17. CASE Open
    <2>1. nextSeq' > 0
      BY <1>17, MaxSequenceIsMax DEF Open, TypeOK
    <2> QED BY <1>17, <2>1, NewCalls DEF Open, LockInv
  <1> QED
    BY <1>1, <1>2, <1>3, <1>4, <1>5, <1>6, <1>7, <1>8, <1>9, <1>10, <1>11, <1>12,
       <1>13, <1>14, <1>15, <1>16, <1>17, WriteCalls
    DEF Next, Request, Progress, Background

(* Type correctness, for every set of clients, keys and values and every    *)
(* combination of methods, faults and bounds: no interleaving of writers,   *)
(* the background thread, snapshots, failures and crashes takes KVStore     *)
(* and PersistenceManager out of their types.                               *)
THEOREM TypeCorrect == Spec => []TypeOK
  <1>1. Init => BaseInv
    BY BaseInit
  <1>2. BaseInv /\ [Next]_vars => BaseInv'
    BY TypeStep, LockStep DEF BaseInv
  <1>3. BaseInv => TypeOK
    BY DEF BaseInv
  <1> QED BY <1>1, <1>2, <1>3, PTL DEF Spec

-----------------------------------------------------------------------------
(* Layer two is inductive                                                   *)

(* The history of hazards only grows.                                       *)
LEMMA TaintGrows == [Next]_vars => taint \subseteq taint'
  <1> SUFFICES ASSUME [Next]_vars PROVE taint \subseteq taint'
    OBVIOUS
  <1>1. ASSUME NEW op, LogOperation(op) PROVE taint \subseteq taint'
    BY <1>1 DEF LogOperation
  <1>2. ASSUME NEW c \in Client, NEW o, LogSync(c, o) \/ LogSyncErr(c, o)
        PROVE  taint \subseteq taint'
    BY <1>1, <1>2 DEF LogSync, LogSyncErr
  <1>3. ASSUME NEW c \in Client, Set(c) \/ Delete(c) \/ Clear(c) PROVE taint \subseteq taint'
    BY <1>2, <1>3 DEF Set, Delete, Clear, LogCall
  <1>4. ASSUME NEW c \in Client, NEW k \in Key, NEW v, SetAsync(c, k, v) \/ SnapshotCollect(c, k)
        PROVE  taint \subseteq taint'
    BY <1>4 DEF SetAsync, SnapshotCollect
  <1>5. ASSUME NEW c \in Client,
               FlushBegin(c) \/ SnapshotBegin(c) \/ FlushLog(c) \/ Apply(c) \/ SaveErr(c)
        PROVE  taint \subseteq taint'
    BY <1>1, <1>5 DEF FlushBegin, SnapshotBegin, FlushLog, Apply, SaveErr
  <1>6. ASSUME NEW c \in Client,
               FlushEnd(c) \/ SnapshotFlush(c) \/ SnapshotRename(c) \/ SnapshotDropWal(c)
                 \/ SnapshotArchive(c) \/ SnapshotReopen(c)
        PROVE  taint \subseteq taint'
    BY <1>6 DEF FlushEnd, SnapshotFlush, SnapshotRename, SnapshotDropWal, SnapshotArchive,
                SnapshotReopen, ghostVars
  <1>7. CASE Background \/ Open
    BY <1>7 DEF Background, BgTake, BgLock, BgWrite, BgSync, Open, ghostVars
  <1>8. CASE Crash
    BY <1>8 DEF Crash, CrashTail
  <1>9. CASE UNCHANGED vars
    BY <1>9 DEF vars
  <1> QED
    BY <1>3, <1>4, <1>5, <1>6, <1>7, <1>8, <1>9 DEF Next, Request, Progress

(* Order in a concatenation.                                                *)
LEMMA IncreasingConcat ==
    ASSUME NEW p \in Seq(Line), NEW q \in Seq(Line)
    PROVE  Increasing(p \o q) <=> Increasing(p) /\ Increasing(q) /\ Below(p, q)
  <1> DEFINE r == p \o q
  <1>1. /\ Len(p) \in Nat /\ Len(q) \in Nat /\ Len(r) = Len(p) + Len(q)
        /\ \A i \in 1..Len(p) : r[i] = p[i]
        /\ \A i \in 1..Len(q) : r[Len(p) + i] = q[i]
    OBVIOUS
  <1> HIDE DEF r
  <1>2. ASSUME Increasing(r) PROVE Increasing(p) /\ Increasing(q) /\ Below(p, q)
    <2>1. Increasing(p)
      BY <1>1, <1>2 DEF Increasing
    <2>2. Increasing(q)
      <3> SUFFICES ASSUME NEW i \in 1..Len(q), NEW j \in 1..Len(q), i < j, q[i].rec, q[j].rec
                   PROVE  q[i].seq < q[j].seq
        BY DEF Increasing
      <3>1. /\ Len(p) + i \in 1..Len(r) /\ Len(p) + j \in 1..Len(r)
            /\ Len(p) + i < Len(p) + j
        BY <1>1
      <3> QED BY <1>1, <1>2, <3>1 DEF Increasing
    <2>3. Below(p, q)
      <3> SUFFICES ASSUME NEW i \in 1..Len(p), NEW j \in 1..Len(q), p[i].rec, q[j].rec
                   PROVE  p[i].seq < q[j].seq
        BY DEF Below
      <3>1. i \in 1..Len(r) /\ Len(p) + j \in 1..Len(r) /\ i < Len(p) + j
        BY <1>1
      <3> QED BY <1>1, <1>2, <3>1 DEF Increasing
    <2> QED BY <2>1, <2>2, <2>3
  <1>3. ASSUME Increasing(p), Increasing(q), Below(p, q) PROVE Increasing(r)
    <2> SUFFICES ASSUME NEW i \in 1..Len(r), NEW j \in 1..Len(r), i < j, r[i].rec, r[j].rec
                 PROVE  r[i].seq < r[j].seq
      BY DEF Increasing
    <2>1. CASE j <= Len(p)
      <3>1. i \in 1..Len(p) /\ j \in 1..Len(p)
        BY <1>1, <2>1
      <3> QED BY <1>1, <1>3, <3>1 DEF Increasing
    <2>2. CASE j > Len(p) /\ i <= Len(p)
      <3>1. i \in 1..Len(p) /\ j - Len(p) \in 1..Len(q) /\ Len(p) + (j - Len(p)) = j
        BY <1>1, <2>2
      <3>2. r[i] = p[i] /\ r[j] = q[j - Len(p)]
        BY <1>1, <3>1
      <3> QED BY <1>3, <3>1, <3>2 DEF Below
    <2>3. CASE i > Len(p)
      <3>1. /\ i - Len(p) \in 1..Len(q) /\ Len(p) + (i - Len(p)) = i
            /\ j - Len(p) \in 1..Len(q) /\ Len(p) + (j - Len(p)) = j
            /\ i - Len(p) < j - Len(p)
        BY <1>1, <2>3
      <3>2. r[i] = q[i - Len(p)] /\ r[j] = q[j - Len(p)]
        BY <1>1, <3>1
      <3> QED BY <1>3, <3>1, <3>2 DEF Increasing
    <2> QED BY <1>1, <2>1, <2>2, <2>3
  <1> QED BY <1>2, <1>3 DEF r

(* A line numbered above all others, or one that is not a record, may       *)
(* follow.                                                                  *)
LEMMA OrderAppend ==
    ASSUME NEW a \in Seq(Line), NEW w \in Seq(Line), NEW line \in Line, NEW n \in Nat,
           Increasing(w), Below(a, w), line.rec => line.seq = n,
           line.rec => /\ \A i \in 1..Len(w) : w[i].seq < n
                       /\ \A i \in 1..Len(a) : a[i].seq < n
    PROVE  Increasing(Append(w, line)) /\ Below(a, Append(w, line))
  <1> DEFINE v == Append(w, line)
  <1>1. /\ Len(w) \in Nat /\ Len(v) = Len(w) + 1 /\ v[Len(w) + 1] = line
        /\ \A i \in 1..Len(w) : v[i] = w[i]
    OBVIOUS
  <1> HIDE DEF v
  <1>2. Increasing(v)
    <2> SUFFICES ASSUME NEW i \in 1..Len(v), NEW j \in 1..Len(v), i < j, v[i].rec, v[j].rec
                 PROVE  v[i].seq < v[j].seq
      BY DEF Increasing
    <2>1. i \in 1..Len(w)
      BY <1>1
    <2>2. CASE j = Len(w) + 1
      BY <1>1, <2>1, <2>2
    <2>3. CASE j \in 1..Len(w)
      BY <1>1, <2>1, <2>3 DEF Increasing
    <2> QED BY <1>1, <2>2, <2>3
  <1>3. Below(a, v)
    <2> SUFFICES ASSUME NEW i \in 1..Len(a), NEW j \in 1..Len(v), a[i].rec, v[j].rec
                 PROVE  a[i].seq < v[j].seq
      BY DEF Below
    <2>1. CASE j = Len(w) + 1
      BY <1>1, <2>1
    <2>2. CASE j \in 1..Len(w)
      BY <1>1, <2>2 DEF Below
    <2> QED BY <1>1, <2>1, <2>2
  <1> QED BY <1>2, <1>3 DEF v

(* So may a shorter log.                                                    *)
LEMMA OrderCut ==
    ASSUME NEW a, NEW w \in Seq(Line), NEW n \in Int, n <= Len(w), Increasing(w), Below(a, w)
    PROVE  Increasing(SubSeq(w, 1, n)) /\ Below(a, SubSeq(w, 1, n)) /\ SubSeq(w, 1, n) \in Seq(Line)
  <1> DEFINE v == SubSeq(w, 1, n)
  <1>1. v \in Seq(Line) /\ \A i \in 1..Len(v) : i \in 1..Len(w) /\ v[i] = w[i]
    OBVIOUS
  <1> HIDE DEF v
  <1>2. Increasing(v)
    BY <1>1 DEF Increasing
  <1>3. Below(a, v)
    BY <1>1 DEF Below
  <1> QED BY <1>1, <1>2, <1>3 DEF v

(* A step that appends a line numbered nextSeq.                             *)
LEMMA SeqAppend ==
    ASSUME TypeOK, SeqInv, up, NEW line \in Line,
           line.rec => line.seq = nextSeq, ~line.rec => line.seq = 0,
           wal' = Append(wal, line), archive' = archive, snapshot' = snapshot,
           nextSeq' = nextSeq + 1 \/ ~up', LockInv
    PROVE  SeqInv'
  <1>1. /\ wal \in Seq(Line) /\ archive \in Seq(Line) /\ nextSeq \in Nat /\ snapshot.seq \in Nat
        /\ \A i \in 1..Len(archive) : archive[i].seq \in Nat
    BY DiskParts
  <1>2. \A i \in 1..Len(archive) : archive[i].seq < nextSeq
    BY <1>1 DEF SeqInv
  <1>3. Increasing(wal') /\ Below(archive, wal')
    BY <1>1, <1>2, OrderAppend DEF SeqInv
  <1>4. ASSUME up' PROVE snapshot.seq < nextSeq' /\ \A i \in 1..Len(wal') : wal'[i].seq < nextSeq'
    <2>1. nextSeq' = nextSeq + 1 /\ snapshot.seq < nextSeq'
      BY <1>1, <1>4 DEF SeqInv
    <2>2. ASSUME NEW i \in 1..Len(wal') PROVE wal'[i].seq < nextSeq'
      <3>1. CASE i = Len(wal) + 1
        <4>1. wal'[i] = line /\ line.rec \in BOOLEAN
          BY <1>1, <3>1 DEF Line
        <4>2. nextSeq > 0
          BY DEF LockInv
        <4> QED BY <1>1, <2>1, <4>1, <4>2
      <3>2. CASE i \in 1..Len(wal)
        <4>1. wal'[i] = wal[i] /\ wal[i].seq \in Nat /\ wal[i].seq < nextSeq
          BY <1>1, <3>2, LineParts DEF SeqInv
        <4> QED BY <1>1, <2>1, <4>1
      <3> QED BY <1>1, <3>1, <3>2
    <2> QED BY <2>1, <2>2
  <1>5. Increasing(archive') /\ \A i \in 1..Len(archive') : archive'[i].seq <= snapshot'.seq
    BY DEF SeqInv
  <1> QED BY <1>3, <1>4, <1>5 DEF SeqInv

(* log_operation_sync without a hazard.                                     *)
LEMMA CleanLog ==
    ASSUME TypeOK, NEW op \in Op, LogOperation(op), taint' = {}
    PROVE  /\ walOpen /\ nextSeq' = nextSeq + 1
           /\ Record(nextSeq, op, TRUE) \in Line
           /\ wal' = Append(wal, Record(nextSeq, op, TRUE))
           /\ logged' = LogMark(op)
           /\ \A k \in op.keys : ~(logged[k] > op.ticket)
  <1> DEFINE line == Record(nextSeq, op, TRUE)
  <1>1. walOpen
    BY DEF LogOperation
  <1>2. /\ wal' = AppendLine(wal, line) /\ nextSeq' = nextSeq + 1
        /\ taint' = taint \cup AppendTaint(wal, line) \cup LogTaint(op)
        /\ logged' = LogMark(op)
    BY <1>1 DEF LogOperation
  <1>3. line \in Line /\ wal \in Seq(Line)
    BY ConstantTypes DEF TypeOK
  <1>4. AppendTaint(wal, line) = {} /\ LogTaint(op) = {}
    BY <1>2
  <1>5. wal' = Append(wal, line)
    BY <1>2, <1>3, <1>4, AppendLineType
  <1>6. \A k \in op.keys : ~(logged[k] > op.ticket)
    BY <1>4 DEF LogTaint
  <1> QED BY <1>1, <1>2, <1>3, <1>5, <1>6

(* Every step without a hazard keeps the sequence numbers in order.         *)
LEMMA SeqStep ==
    ASSUME BaseInv, SeqInv, bg.doubt = {}, taint = {}, [Next]_vars, taint' = {}
    PROVE  SeqInv'
  <1> USE DEF BaseInv
  <1>1. ASSUME UNCHANGED <<wal, archive, snapshot, nextSeq, up>> PROVE SeqInv'
    BY <1>1 DEF SeqInv, Increasing, Below
  <1>2. ASSUME NEW op \in Op, LogOperation(op), up, UNCHANGED <<archive, snapshot>>
        PROVE  SeqInv'
    <2>1. /\ wal' = Append(wal, Record(nextSeq, op, TRUE)) /\ nextSeq' = nextSeq + 1
          /\ Record(nextSeq, op, TRUE) \in Line
      BY <1>2, CleanLog
    <2>2. Record(nextSeq, op, TRUE).rec /\ Record(nextSeq, op, TRUE).seq = nextSeq
      BY DEF Record
    <2> QED BY <1>2, <2>1, <2>2, SeqAppend
  <1>3. ASSUME NEW c \in Client, NEW o, o.keys \in SUBSET Key, o.val \in Entry, LogSync(c, o)
        PROVE  SeqInv'
    <2>1. Stamp(o) \in Op
      BY <1>3, StampType DEF TypeOK
    <2> QED BY <1>2, <1>3, <2>1 DEF LogSync, Idle
  <1>4. ASSUME NEW c \in Client, NEW o, o.keys \in SUBSET Key, o.val \in Entry, LogSyncErr(c, o)
        PROVE  SeqInv'
    <2>1. Stamp(o) \in Op
      BY <1>4, StampType DEF TypeOK
    <2>2. PICK line \in {BadLine(FALSE), Record(nextSeq, Stamp(o), TRUE)} :
             /\ wal' = AppendLine(wal, line)
             /\ taint' = taint \cup AppendTaint(wal, line)
                               \cup (IF line.rec THEN {"failed"} ELSE {})
      BY <1>4 DEF LogSyncErr
    <2>3. /\ line \in Line /\ wal \in Seq(Line)
          /\ line.rec => line.seq = nextSeq
          /\ ~line.rec => line.seq = 0
      BY <2>1, <2>2, LeftLines DEF TypeOK
    <2>4. AppendTaint(wal, line) = {}
      BY <2>2
    <2>5. wal' = Append(wal, line)
      BY <2>2, <2>3, <2>4, AppendLineType
    <2>6. up /\ nextSeq' = nextSeq + 1 /\ archive' = archive /\ snapshot' = snapshot
      BY <1>4 DEF LogSyncErr, Idle
    <2> QED BY <2>3, <2>5, <2>6, SeqAppend
  <1>5. ASSUME NEW c \in Client, FlushLog(c) PROVE SeqInv'
    <2>1. Head(call[c].todo) \in Op
      BY <1>5, Parts DEF FlushLog
    <2>2. up
      BY <1>5, NewCalls DEF FlushLog, LockInv
    <2> QED BY <1>2, <1>5, <2>1, <2>2 DEF FlushLog
  <1>6. ASSUME NEW c \in Client, SnapshotRename(c) PROVE SeqInv'
    <2>1. snapshot'.seq = nextSeq - 1
      BY <1>6 DEF SnapshotRename
    <2>2. /\ nextSeq \in Nat /\ snapshot.seq \in Nat
          /\ \A i \in 1..Len(archive) : archive[i].seq \in Nat
      BY DiskParts
    <2>3. up
      BY <1>6, NewCalls DEF SnapshotRename, LockInv
    <2>4. \A i \in 1..Len(archive) : archive[i].seq <= nextSeq - 1
      BY <2>2, <2>3 DEF SeqInv
    <2>5. snapshot'.seq < nextSeq
      BY <2>1, <2>2
    <2>6. UNCHANGED <<up, wal, archive, nextSeq>>
      BY <1>6 DEF SnapshotRename
    <2> QED BY <2>1, <2>4, <2>5, <2>6 DEF SeqInv
  <1>7. ASSUME NEW c \in Client, SnapshotArchive(c) PROVE SeqInv'
    <2>1. wal \in Seq(Line) /\ archive \in Seq(Line)
      BY DEF TypeOK
    <2>2. archive' = archive \o wal /\ wal' = <<>> /\ UNCHANGED <<up, snapshot, nextSeq>>
      BY <1>7 DEF SnapshotArchive
    <2>3. Increasing(archive')
      BY <2>1, <2>2, IncreasingConcat DEF SeqInv
    <2>4. \A i \in 1..Len(wal) : wal[i].seq <= snapshot.seq
      <3>1. \A i \in 1..Len(wal) : ~(wal[i].seq > snapshot.seq)
        BY <1>7 DEF SnapshotArchive
      <3>2. snapshot.seq \in Nat /\ \A i \in 1..Len(wal) : wal[i].seq \in Nat
        BY DiskParts
      <3> QED BY <3>1, <3>2
    <2>5. \A i \in 1..Len(archive') : archive'[i].seq <= snapshot.seq
      <3> SUFFICES ASSUME NEW i \in 1..Len(archive') PROVE archive'[i].seq <= snapshot.seq
        OBVIOUS
      <3>1. CASE i \in 1..Len(archive)
        BY <2>1, <2>2, <3>1 DEF SeqInv
      <3>2. CASE i - Len(archive) \in 1..Len(wal)
        BY <2>1, <2>2, <2>4, <3>2
      <3> QED BY <2>1, <2>2, <3>1, <3>2
    <2>6. Increasing(wal') /\ Below(archive', wal') /\ \A i \in 1..Len(wal') : wal'[i].seq < nextSeq
      BY <2>2 DEF Increasing, Below
    <2>7. up' => snapshot'.seq < nextSeq'
      BY <2>2 DEF SeqInv
    <2> QED BY <2>2, <2>3, <2>5, <2>6, <2>7 DEF SeqInv
  <1>8. CASE BgWrite
    <2> DEFINE line == Record(nextSeq, Head(bg.ops), TRUE)
    <2>1. up
      BY <1>8 DEF BgWrite, LockInv
    <2>2. /\ wal' = AppendLine(wal, line) /\ nextSeq' = nextSeq + 1
          /\ taint' = taint \cup AppendTaint(wal, line) \cup LogTaint(Head(bg.ops))
          /\ UNCHANGED <<up, archive, snapshot>>
      BY <1>8 DEF BgWrite
    <2>3. line \in Line /\ wal \in Seq(Line)
      BY <1>8, Parts, ConstantTypes DEF BgWrite, TypeOK
    <2>4. line.rec /\ line.seq = nextSeq
      BY DEF Record
    <2>5. wal' = Append(wal, line)
      <3>1. AppendTaint(wal, line) = {}
        BY <2>2
      <3> QED BY <2>2, <2>3, <3>1, AppendLineType
    <2> HIDE DEF line
    <2> QED BY <2>1, <2>2, <2>3, <2>4, <2>5, SeqAppend
  <1>9. CASE Crash
    <2>1. up /\ up' = FALSE /\ UNCHANGED <<archive, snapshot>> /\ CrashTail
      BY <1>9 DEF Crash
    <2>2. wal \in Seq(Line) /\ archive \in Seq(Line)
      BY DEF TypeOK
    <2>3. CASE wal' = wal
      BY <2>1, <2>3 DEF SeqInv
    <2>4. ASSUME NEW n \in Int, n <= Len(wal),
                 \/ wal' = SubSeq(wal, 1, n)
                 \/ wal' = Append(SubSeq(wal, 1, n), BadLine(FALSE))
          PROVE  SeqInv'
      <3> DEFINE v == SubSeq(wal, 1, n)
      <3>1. Increasing(v) /\ Below(archive, v) /\ v \in Seq(Line)
        BY <2>2, <2>4, OrderCut DEF SeqInv
      <3>2. BadLine(FALSE) \in Line /\ ~BadLine(FALSE).rec
        BY ConstantTypes DEF BadLine
      <3> HIDE DEF v
      <3>3. Increasing(Append(v, BadLine(FALSE))) /\ Below(archive, Append(v, BadLine(FALSE)))
        BY <2>2, <3>1, <3>2, OrderAppend
      <3>4. wal' = v \/ wal' = Append(v, BadLine(FALSE))
        BY <2>4 DEF v
      <3> QED BY <2>1, <3>1, <3>3, <3>4 DEF SeqInv
    <2>5. ASSUME NEW line \in Line, wal' = AppendLine(wal, line),
                 taint' = taint \cup AppendTaint(wal, line),
                 line.rec => line.seq = nextSeq, ~line.rec => line.seq = 0
          PROVE  SeqInv'
      <3>1. AppendTaint(wal, line) = {}
        BY <2>5
      <3>2. wal' = Append(wal, line)
        BY <2>2, <2>5, <3>1, AppendLineType
      <3> QED BY <2>1, <2>5, <3>2, SeqAppend
    <2>6. \A w \in Survivors : w = wal
      BY SurvivorType
    <2> QED BY <2>1, <2>3, <2>4, <2>5, <2>6, CrashLog
  <1>10. CASE Open
    <2>1. /\ nextSeq' = MaxSequence(snapshot, wal) + 1 /\ UNCHANGED <<wal, archive, snapshot>>
      BY <1>10 DEF Open, diskVars
    <2>2. /\ MaxSequence(snapshot, wal) \in Nat /\ snapshot.seq <= MaxSequence(snapshot, wal)
          /\ \A i \in 1..Len(wal) : wal[i].seq <= MaxSequence(snapshot, wal)
      BY MaxSequenceIsMax DEF TypeOK
    <2>3. snapshot.seq \in Nat /\ \A i \in 1..Len(wal) : wal[i].seq \in Nat
      BY DiskParts
    <2>4. snapshot.seq < nextSeq' /\ \A i \in 1..Len(wal) : wal[i].seq < nextSeq'
      BY <2>1, <2>2, <2>3
    <2> QED BY <2>1, <2>4 DEF SeqInv
  <1>11. ASSUME NEW c \in Client,
                \/ \E k \in Key, v \in Value : SetAsync(c, k, v)
                \/ \E k \in Key : SnapshotCollect(c, k)
                \/ FlushBegin(c) \/ SnapshotBegin(c) \/ Apply(c) \/ SaveErr(c)
                \/ FlushEnd(c) \/ SnapshotFlush(c) \/ SnapshotDropWal(c) \/ SnapshotReopen(c)
         PROVE  SeqInv'
    <2>1. UNCHANGED <<wal, archive, snapshot, nextSeq, up>>
      BY <1>11 DEF SetAsync, SnapshotCollect, FlushBegin, SnapshotBegin, Apply, SaveErr,
                   FlushEnd, SnapshotFlush, SnapshotDropWal, SnapshotReopen, diskVars
    <2> QED BY <1>1, <2>1
  <1>12. CASE BgTake \/ BgLock \/ BgSync
    <2>1. UNCHANGED <<wal, archive, snapshot, nextSeq, up>>
      BY <1>12 DEF BgTake, BgLock, BgSync, diskVars
    <2> QED BY <1>1, <2>1
  <1>13. CASE UNCHANGED vars
    BY <1>1, <1>13 DEF vars
  <1> QED
    BY <1>3, <1>4, <1>5, <1>6, <1>7, <1>8, <1>9, <1>10, <1>11, <1>12, <1>13, WriteCalls
    DEF Next, Request, Progress, Background

-----------------------------------------------------------------------------
(* Layer three is inductive                                                 *)

(* The elements of a queue.                                                 *)
LEMMA ElemsFacts ==
    /\ Elems(<<>>) = {}
    /\ \A S : \A q \in Seq(S), x \in S : Elems(Append(q, x)) = Elems(q) \cup {x}
    /\ \A S : \A q \in Seq(S) : Elems(q) \subseteq S
    /\ \A S : \A q \in Seq(S) : q # <<>> =>
         Elems(q) = {Head(q)} \cup Elems(Tail(q)) /\ Head(q) \in Elems(q)
  <1>1. Elems(<<>>) = {}
    BY DEF Elems
  <1>2. ASSUME NEW S, NEW q \in Seq(S), NEW x \in S
        PROVE  Elems(Append(q, x)) = Elems(q) \cup {x}
    <2>1. /\ Len(q) \in Nat /\ Len(Append(q, x)) = Len(q) + 1
          /\ Append(q, x)[Len(q) + 1] = x
          /\ \A i \in 1..Len(q) : Append(q, x)[i] = q[i]
      OBVIOUS
    <2> QED BY <2>1 DEF Elems
  <1>3. ASSUME NEW S, NEW q \in Seq(S) PROVE Elems(q) \subseteq S
    BY DEF Elems
  <1>4. ASSUME NEW S, NEW q \in Seq(S), q # <<>>
        PROVE  Elems(q) = {Head(q)} \cup Elems(Tail(q)) /\ Head(q) \in Elems(q)
    <2>1. /\ Len(q) \in Nat /\ Len(q) > 0 /\ Head(q) = q[1] /\ Len(Tail(q)) = Len(q) - 1
          /\ \A i \in 1..(Len(q) - 1) : Tail(q)[i] = q[i + 1]
      BY <1>4
    <2>2. ASSUME NEW x \in Elems(q) PROVE x \in {Head(q)} \cup Elems(Tail(q))
      <3>1. PICK i \in 1..Len(q) : x = q[i]
        BY <2>2 DEF Elems
      <3>2. CASE i = 1
        BY <2>1, <3>1, <3>2
      <3>3. CASE i # 1
        <4>1. i - 1 \in 1..(Len(q) - 1) /\ (i - 1) + 1 = i
          BY <2>1, <3>1, <3>3
        <4>2. Tail(q)[i - 1] = x
          BY <2>1, <3>1, <4>1
        <4> QED BY <2>1, <4>1, <4>2 DEF Elems
      <3> QED BY <3>2, <3>3
    <2>3. ASSUME NEW x \in Elems(Tail(q)) PROVE x \in Elems(q)
      <3>1. PICK i \in 1..(Len(q) - 1) : x = q[i + 1]
        BY <2>1, <2>3 DEF Elems
      <3>2. i + 1 \in 1..Len(q)
        BY <2>1, <3>1
      <3> QED BY <3>1, <3>2 DEF Elems
    <2>4. Head(q) \in Elems(q)
      BY <2>1 DEF Elems
    <2> QED BY <2>2, <2>3, <2>4
  <1> QED BY <1>1, <1>2, <1>3, <1>4

(* The queued operations on a key.                                          *)
LEMMA UnloggedIsQueued ==
    \A k : /\ Unlogged(k) = {op \in Queued : k \in op.keys}
          /\ Unlogged(k)' = {op \in Queued' : k \in op.keys}
  BY DEF Unlogged, Queued

(* The queues hold operations.                                              *)
LEMMA QueuedType ==
    ASSUME TypeOK
    PROVE  Queued \subseteq Op
  BY Parts, ElemsFacts DEF Queued, TypeOK

(* Nothing changes for the map.                                             *)
LEMMA MapSame ==
    ASSUME \A c \in Client : /\ call'[c].pc = "apply" <=> call[c].pc = "apply"
                             /\ call[c].pc = "apply" => call'[c].op = call[c].op,
           NEW k \in Key
    PROVE  /\ Unapplied(k)' = Unapplied(k)
           /\ \A n : data'[k] = data[k] /\ MapGets(k, n) => MapGets(k, n)'
  <1>1. Unapplied(k)' = Unapplied(k)
    BY DEF Unapplied
  <1>2. \A c \in Unapplied(k) : call'[c].op = call[c].op
    BY DEF Unapplied
  <1>3. ASSUME NEW n, data'[k] = data[k], MapGets(k, n) PROVE MapGets(k, n)'
    <2>1. Unapplied(k)' = {} => data'[k] = n
      BY <1>1, <1>3 DEF MapGets
    <2>2. ASSUME NEW c \in Unapplied(k)',
                 \A d \in Unapplied(k)' : call'[d].op.ticket <= call'[c].op.ticket
          PROVE  call'[c].op.val = n
      BY <1>1, <1>2, <1>3, <2>2 DEF MapGets
    <2> QED BY <2>1, <2>2 DEF MapGets
  <1> QED BY <1>1, <1>3

(* Nothing changes for the disk.                                            *)
LEMMA DiskSame ==
    ASSUME NEW k \in Key, NEW n, DiskGets(k, n), Queued' = Queued, logged' = logged,
           Unlogged(k) = {} => Recovered(snapshot', wal')[k] = Recovered(snapshot, wal)[k]
    PROVE  DiskGets(k, n)'
  <1>1. Unlogged(k)' = Unlogged(k)
    BY UnloggedIsQueued
  <1> QED BY <1>1 DEF DiskGets

(* A queued operation is logged, in order.                                  *)
LEMMA DiskLogged ==
    ASSUME TypeOK, NEW op \in Op, op \in Queued,
           Queued' \subseteq Queued, Queued \subseteq Queued' \cup {op},
           wal' = Append(wal, Record(nextSeq, op, TRUE)), snapshot' = snapshot,
           logged' = LogMark(op), \A k \in op.keys : ~(logged[k] > op.ticket),
           NEW k \in Key, NEW n, DiskGets(k, n)
    PROVE  DiskGets(k, n)'
  <1> DEFINE line == Record(nextSeq, op, TRUE)
  <1>1. /\ wal \in Seq(Line) /\ line \in Line /\ line.rec /\ line.op = op
        /\ logged[k] \in Nat /\ op.ticket \in Nat
    <2>1. wal \in Seq(Line) /\ line \in Line
      BY DiskParts, ConstantTypes
    <2>2. line.rec /\ line.op = op
      BY DEF Record
    <2>3. logged[k] \in Nat /\ op.ticket \in Nat
      BY Parts DEF Op
    <2> QED BY <2>1, <2>2, <2>3
  <1>2. Recovered(snapshot', wal')[k] =
           IF k \in op.keys THEN op.val ELSE Recovered(snapshot, wal)[k]
    <2>1. snapshot' = snapshot /\ wal' = Append(wal, line)
      OBVIOUS
    <2> HIDE DEF line
    <2>2. Recovered(snapshot, Append(wal, line))[k] =
             IF line.rec /\ k \in line.op.keys THEN line.op.val ELSE Recovered(snapshot, wal)[k]
      BY <1>1, RecoveredAppend
    <2> QED BY <1>1, <2>1, <2>2
  <1>3. logged'[k] = IF k \in op.keys /\ op.ticket > logged[k] THEN op.ticket ELSE logged[k]
    BY DEF LogMark
  <1>4. Queued \subseteq Op
    BY QueuedType
  <1>5. CASE k \notin op.keys
    <2>1. Unlogged(k)' = Unlogged(k)
      BY <1>5, UnloggedIsQueued
    <2> QED BY <1>2, <1>3, <1>5, <2>1 DEF DiskGets
  <1>6. CASE k \in op.keys
    <2>1. /\ op \in Unlogged(k) /\ Unlogged(k) \subseteq Unlogged(k)' \cup {op}
          /\ Unlogged(k)' \subseteq Unlogged(k)
      BY <1>6, UnloggedIsQueued
    <2>2. logged'[k] = op.ticket /\ logged[k] <= op.ticket
      BY <1>1, <1>3, <1>6
    <2>3. \A q \in Unlogged(k) : q.ticket \in Nat
      BY <1>4, UnloggedIsQueued DEF Op
    <2>4. ASSUME Unlogged(k)' = {} PROVE Recovered(snapshot', wal')[k] = n
      <3>1. Unlogged(k) = {op}
        BY <2>1, <2>4
      <3>2. op.val = n
        BY <1>1, <2>2, <3>1 DEF DiskGets
      <3> QED BY <1>2, <1>6, <3>2
    <2>5. ASSUME NEW q \in Unlogged(k)', \A r \in Unlogged(k)' : r.ticket <= q.ticket
          PROVE  q.val = n \/ \E r \in Unlogged(k)' : logged'[k] > r.ticket
      <3>1. CASE op.ticket > q.ticket
        BY <2>2, <2>5, <3>1
      <3>2. CASE op.ticket <= q.ticket
        <4>1. q \in Unlogged(k) /\ \A r \in Unlogged(k) : r.ticket <= q.ticket
          BY <2>1, <2>5, <3>2
        <4>2. q.val = n \/ \E r \in Unlogged(k) : logged[k] > r.ticket
          BY <4>1 DEF DiskGets
        <4>3. ASSUME NEW r \in Unlogged(k), logged[k] > r.ticket
              PROVE  r \in Unlogged(k)' /\ logged'[k] > r.ticket
          <5>1. r # op
            BY <1>1, <2>2, <4>3
          <5> QED BY <1>1, <2>1, <2>2, <2>3, <4>3, <5>1
        <4> QED BY <4>2, <4>3
      <3>3. q.ticket \in Nat
        BY <2>1, <2>3, <2>5
      <3> QED BY <1>1, <3>1, <3>2, <3>3
    <2> QED BY <2>4, <2>5 DEF DiskGets
  <1> QED BY <1>5, <1>6

(* A client logs a new operation and has yet to apply it.                   *)
LEMMA SyncLogged ==
    ASSUME TypeOK, TicketInv, NEW c \in Client, NEW op \in Op, op.ticket = ticket,
           call[c].pc = "idle", call'[c].pc = "apply", call'[c].op = op,
           \A d \in Client \ {c} : call'[d] = call[d],
           data' = data, Queued' = Queued,
           wal' = Append(wal, Record(nextSeq, op, TRUE)), snapshot' = snapshot,
           logged' = LogMark(op),
           NEW k \in Key, NEW n \in Entry, MapGets(k, n), DiskGets(k, n)
    PROVE  \E m \in Entry : MapGets(k, m)' /\ DiskGets(k, m)'
  <1> DEFINE line == Record(nextSeq, op, TRUE)
  <1>1. /\ wal \in Seq(Line) /\ line \in Line /\ line.rec /\ line.op = op
        /\ logged[k] \in Nat /\ op.ticket \in Nat
        /\ op.val \in Entry /\ ticket \in Nat
    <2>1. wal \in Seq(Line) /\ line \in Line
      BY DiskParts, ConstantTypes
    <2>2. line.rec /\ line.op = op
      BY DEF Record
    <2>3. logged[k] \in Nat /\ op.ticket \in Nat /\ op.val \in Entry
      BY Parts DEF Op
    <2>4. ticket \in Nat
      BY DEF TypeOK
    <2> QED BY <2>1, <2>2, <2>3, <2>4
  <1>2. Recovered(snapshot', wal')[k] =
           IF k \in op.keys THEN op.val ELSE Recovered(snapshot, wal)[k]
    <2>1. snapshot' = snapshot /\ wal' = Append(wal, line)
      OBVIOUS
    <2> HIDE DEF line
    <2>2. Recovered(snapshot, Append(wal, line))[k] =
             IF line.rec /\ k \in line.op.keys THEN line.op.val ELSE Recovered(snapshot, wal)[k]
      BY <1>1, RecoveredAppend
    <2> QED BY <1>1, <2>1, <2>2
  <1>3. logged'[k] = IF k \in op.keys /\ op.ticket > logged[k] THEN op.ticket ELSE logged[k]
    BY DEF LogMark
  <1>4. Unlogged(k)' = Unlogged(k)
    BY UnloggedIsQueued
  <1>5. CASE k \notin op.keys
    <2>1. Unapplied(k)' = Unapplied(k) /\ \A d \in Unapplied(k) : call'[d].op = call[d].op
      BY <1>5 DEF Unapplied
    <2>2. MapGets(k, n)'
      <3>1. Unapplied(k)' = {} => data'[k] = n
        BY <2>1 DEF MapGets
      <3>2. ASSUME NEW e \in Unapplied(k)',
                   \A d \in Unapplied(k)' : call'[d].op.ticket <= call'[e].op.ticket
            PROVE  call'[e].op.val = n
        BY <2>1, <3>2 DEF MapGets
      <3> QED BY <3>1, <3>2 DEF MapGets
    <2>3. DiskGets(k, n)'
      BY <1>2, <1>3, <1>4, <1>5 DEF DiskGets
    <2> QED BY <2>2, <2>3
  <1>6. CASE k \in op.keys
    <2>1. Unapplied(k)' = Unapplied(k) \cup {c} /\ c \notin Unapplied(k)
      BY <1>6 DEF Unapplied
    <2>2. \A d \in Unapplied(k) : call'[d] = call[d] /\ call[d].op.ticket < ticket
                                   /\ call[d].op.ticket \in Nat
      BY <2>1, Parts DEF Unapplied, TicketInv, Op
    <2>3. MapGets(k, op.val)'
      <3>1. ASSUME NEW e \in Unapplied(k)',
                   \A d \in Unapplied(k)' : call'[d].op.ticket <= call'[e].op.ticket
            PROVE  e = c
        <4>1. c \in Unapplied(k)'
          BY <2>1
        <4>2. op.ticket <= call'[e].op.ticket
          BY <3>1, <4>1
        <4>3. CASE e \in Unapplied(k)
          BY <1>1, <2>2, <4>2, <4>3
        <4> QED BY <2>1, <4>3
      <3> QED BY <2>1, <3>1 DEF MapGets
    <2>4. DiskGets(k, op.val)'
      <3>1. Unlogged(k)' = {} => Recovered(snapshot', wal')[k] = op.val
        BY <1>2, <1>6
      <3>2. \A q \in Unlogged(k) : q.ticket \in Nat /\ q.ticket < ticket
        BY UnloggedIsQueued, QueuedType DEF TicketInv, Op
      <3>3. logged'[k] >= ticket /\ logged'[k] \in Nat
        BY <1>1, <1>3, <1>6
      <3>4. \A q \in Unlogged(k)' : logged'[k] > q.ticket
        BY <1>1, <1>4, <3>2, <3>3
      <3> QED BY <3>1, <3>4 DEF DiskGets
    <2> QED BY <1>1, <2>3, <2>4
  <1> QED BY <1>5, <1>6

(* A client queues a new operation and has yet to apply it.                 *)
LEMMA AsyncQueued ==
    ASSUME TypeOK, TicketInv, NEW c \in Client, NEW op \in Op, op.ticket = ticket,
           call[c].pc = "idle", call'[c].pc = "apply", call'[c].op = op,
           \A d \in Client \ {c} : call'[d] = call[d],
           data' = data, Queued' = Queued \cup {op},
           wal' = wal, snapshot' = snapshot, logged' = logged,
           NEW k \in Key, NEW n \in Entry, MapGets(k, n), DiskGets(k, n)
    PROVE  \E m \in Entry : MapGets(k, m)' /\ DiskGets(k, m)'
  <1>1. op.val \in Entry /\ ticket \in Nat
    BY DEF TypeOK, Op
  <1>2. CASE k \notin op.keys
    <2>1. Unapplied(k)' = Unapplied(k) /\ \A d \in Unapplied(k) : call'[d].op = call[d].op
      BY <1>2 DEF Unapplied
    <2>2. MapGets(k, n)'
      <3>1. Unapplied(k)' = {} => data'[k] = n
        BY <2>1 DEF MapGets
      <3>2. ASSUME NEW e \in Unapplied(k)',
                   \A d \in Unapplied(k)' : call'[d].op.ticket <= call'[e].op.ticket
            PROVE  call'[e].op.val = n
        BY <2>1, <3>2 DEF MapGets
      <3> QED BY <3>1, <3>2 DEF MapGets
    <2>3. Unlogged(k)' = Unlogged(k)
      BY <1>2, UnloggedIsQueued
    <2>4. DiskGets(k, n)'
      BY <2>3 DEF DiskGets
    <2> QED BY <2>2, <2>4
  <1>3. CASE k \in op.keys
    <2>1. Unapplied(k)' = Unapplied(k) \cup {c} /\ c \notin Unapplied(k)
      BY <1>3 DEF Unapplied
    <2>2. \A d \in Unapplied(k) : call'[d] = call[d] /\ call[d].op.ticket < ticket
                                   /\ call[d].op.ticket \in Nat
      BY <2>1, Parts DEF Unapplied, TicketInv, Op
    <2>3. MapGets(k, op.val)'
      <3>1. ASSUME NEW e \in Unapplied(k)',
                   \A d \in Unapplied(k)' : call'[d].op.ticket <= call'[e].op.ticket
            PROVE  e = c
        <4>1. c \in Unapplied(k)'
          BY <2>1
        <4>2. op.ticket <= call'[e].op.ticket
          BY <3>1, <4>1
        <4>3. CASE e \in Unapplied(k)
          BY <1>1, <2>2, <4>2, <4>3
        <4> QED BY <2>1, <4>3
      <3> QED BY <2>1, <3>1 DEF MapGets
    <2>4. Unlogged(k)' = Unlogged(k) \cup {op}
      BY <1>3, UnloggedIsQueued
    <2>5. \A q \in Unlogged(k) : q.ticket \in Nat /\ q.ticket < ticket
      BY UnloggedIsQueued, QueuedType DEF TicketInv, Op
    <2>6. ASSUME NEW q \in Unlogged(k)', \A r \in Unlogged(k)' : r.ticket <= q.ticket
          PROVE  q = op
      <3>1. op.ticket <= q.ticket
        BY <2>4, <2>6
      <3>2. CASE q \in Unlogged(k)
        BY <1>1, <2>5, <3>1, <3>2
      <3> QED BY <2>4, <3>2
    <2>7. DiskGets(k, op.val)'
      BY <2>4, <2>6 DEF DiskGets
    <2> QED BY <1>1, <2>3, <2>7
  <1> QED BY <1>2, <1>3

(* A client applies its operation, in order.                                *)
LEMMA MapApplied ==
    ASSUME TypeOK, NEW c \in Client, call[c].pc = "apply",
           data' = ApplyOp(data, call[c].op), call'[c].pc = "idle",
           \A d \in Client \ {c} : call'[d] = call[d],
           NEW k \in Key, NEW n,
           k \in call[c].op.keys =>
               \A d \in Unapplied(k) : ~(call[d].op.ticket < call[c].op.ticket),
           MapGets(k, n)
    PROVE  MapGets(k, n)'
  <1>1. data'[k] = IF k \in call[c].op.keys THEN call[c].op.val ELSE data[k]
    BY DEF ApplyOp
  <1>2. Unapplied(k)' = Unapplied(k) \ {c}
    BY DEF Unapplied
  <1>3. \A d \in Unapplied(k)' : call'[d] = call[d]
    BY <1>2 DEF Unapplied
  <1>4. CASE k \notin call[c].op.keys
    <2>1. Unapplied(k)' = Unapplied(k)
      BY <1>2, <1>4 DEF Unapplied
    <2>2. ASSUME NEW e \in Unapplied(k)',
                 \A d \in Unapplied(k)' : call'[d].op.ticket <= call'[e].op.ticket
          PROVE  call'[e].op.val = n
      BY <1>3, <2>1, <2>2 DEF MapGets
    <2> QED BY <1>1, <1>4, <2>1, <2>2 DEF MapGets
  <1>5. CASE k \in call[c].op.keys
    <2>1. c \in Unapplied(k)
      BY <1>5 DEF Unapplied
    <2>2. \A d \in Unapplied(k) : call[d].op.ticket \in Nat
                                   /\ call[c].op.ticket <= call[d].op.ticket
      BY <1>5, Parts DEF Unapplied, Op
    <2>3. ASSUME Unapplied(k)' = {} PROVE data'[k] = n
      <3>1. Unapplied(k) = {c}
        BY <1>2, <2>1, <2>3
      <3>2. call[c].op.val = n
        BY <2>2, <3>1 DEF MapGets
      <3> QED BY <1>1, <1>5, <3>2
    <2>4. ASSUME NEW e \in Unapplied(k)',
                 \A d \in Unapplied(k)' : call'[d].op.ticket <= call'[e].op.ticket
          PROVE  call'[e].op.val = n
      <3>1. e \in Unapplied(k) /\ call'[e] = call[e]
        BY <1>2, <1>3, <2>4
      <3>2. \A d \in Unapplied(k) : call[d].op.ticket <= call[e].op.ticket
        BY <1>2, <1>3, <2>2, <2>4, <3>1
      <3> QED BY <3>1, <3>2 DEF MapGets
    <2> QED BY <2>3, <2>4 DEF MapGets
  <1> QED BY <1>4, <1>5

(* The queues before and after a step that changes one call.                *)
LEMMA QueuedSplit ==
    ASSUME NEW c \in Client, \A d \in Client \ {c} : call'[d] = call[d]
    PROVE  \E others :
             /\ Queued = Elems(pending) \cup Elems(bg.ops) \cup others \cup Elems(call[c].todo)
             /\ Queued' = Elems(pending') \cup Elems(bg'.ops) \cup others \cup Elems(call'[c].todo)
  <1> DEFINE others == UNION {Elems(call[d].todo) : d \in Client \ {c}}
  <1>1. UNION {Elems(call[d].todo) : d \in Client} = others \cup Elems(call[c].todo)
    OBVIOUS
  <1>2. UNION {Elems(call'[d].todo) : d \in Client} = others \cup Elems(call'[c].todo)
    OBVIOUS
  <1>3. Queued' = Elems(pending') \cup Elems(bg'.ops) \cup UNION {Elems(call'[d].todo) : d \in Client}
    BY DEF Queued, Elems
  <1> HIDE DEF others
  <1> QED BY <1>1, <1>2, <1>3 DEF Queued

(* No step numbers an operation beyond the next ticket.                     *)
LEMMA TicketStep ==
    ASSUME TypeOK, TicketInv, ticket' = ticket \/ ticket' = ticket + 1,
           \A d \in Client : \/ call'[d].op = call[d].op
                             \/ call'[d].op = NoOp
                             \/ call'[d].op.ticket = ticket /\ ticket' = ticket + 1,
           \A q \in Queued' : \/ q \in Queued
                              \/ q.ticket = ticket /\ ticket' = ticket + 1
    PROVE  TicketInv'
  <1>1. ticket \in Nat /\ ticket > 0 /\ ticket' \in Nat /\ ticket' >= ticket
    BY DEF TypeOK, TicketInv
  <1>2. NoOp.ticket = 0
    BY DEF NoOp
  <1>3. \A d \in Client : call[d].op.ticket \in Nat /\ call[d].op.ticket < ticket
    BY Parts DEF Op, TicketInv
  <1>4. \A q \in Queued : q.ticket \in Nat /\ q.ticket < ticket
    BY QueuedType DEF Op, TicketInv
  <1>5. \A d \in Client : call'[d].op.ticket < ticket'
    BY <1>1, <1>2, <1>3
  <1>6. \A q \in Queued' : q.ticket < ticket'
    BY <1>1, <1>4
  <1> QED BY <1>1, <1>5, <1>6 DEF TicketInv

(* A step that leaves the newest value of every key where it is.            *)
LEMMA Quiet ==
    ASSUME TypeOK, TicketInv, AgreeInv, UNCHANGED <<up, data, logged>>, Queued' = Queued,
           ticket' = ticket \/ ticket' = ticket + 1,
           \A d \in Client :
              /\ call'[d].pc = "apply" <=> call[d].pc = "apply"
              /\ \/ call'[d].op = call[d].op
                 \/ call'[d].op = NoOp /\ call'[d].pc # "apply",
           \A k \in Key : up /\ Unlogged(k) = {} =>
              Recovered(snapshot', wal')[k] = Recovered(snapshot, wal)[k]
    PROVE  TicketInv' /\ AgreeInv'
  <1>1. TicketInv'
    BY TicketStep
  <1>2. ASSUME up', NEW k \in Key PROVE \E n \in Entry : MapGets(k, n)' /\ DiskGets(k, n)'
    <2>1. PICK n \in Entry : MapGets(k, n) /\ DiskGets(k, n)
      BY <1>2 DEF AgreeInv
    <2>2. MapGets(k, n)'
      BY <2>1, MapSame
    <2>3. DiskGets(k, n)'
      BY <1>2, <2>1, DiskSame
    <2> QED BY <2>1, <2>2, <2>3
  <1> QED BY <1>1, <1>2 DEF AgreeInv

(* With nothing on its way, map and disk have the same entry.               *)
LEMMA SettledAgree ==
    ASSUME AgreeInv, up, NEW k \in Key, Unapplied(k) = {}, Unlogged(k) = {}
    PROVE  Recovered(snapshot, wal)[k] = data[k]
  BY DEF AgreeInv, MapGets, DiskGets

(* A step that leaves what snapshot() has collected in the map.             *)
LEMMA CollectSame ==
    ASSUME TypeOK, CollectInv, snapshot' = snapshot,
           \A d \in Client : call'[d].pc \in Saving =>
              call'[d].got = <<>> \/ (call[d].pc \in Saving /\ call'[d].got = call[d].got),
           \A d \in Client : call'[d].pc \in {"snapDrop", "snapArchive"} =>
              call[d].pc \in {"snapDrop", "snapArchive"} /\ call'[d].got = call[d].got,
           \A k \in Key : /\ Unapplied(k)' \subseteq Unapplied(k)
                          /\ Unapplied(k) = {} => data'[k] = data[k]
    PROVE  CollectInv'
  <1>1. \A d \in Client : DOMAIN call[d].got \subseteq Key
    BY Parts DEF Call
  <1>2. DOMAIN <<>> = {}
    OBVIOUS
  <1>3. ASSUME NEW d \in Client, call'[d].pc \in Saving, NEW k \in DOMAIN call'[d].got
        PROVE  Unapplied(k)' = {} /\ call'[d].got[k] = data'[k]
    <2>1. call[d].pc \in Saving /\ call'[d].got = call[d].got
      BY <1>2, <1>3
    <2>2. Unapplied(k) = {} /\ call[d].got[k] = data[k] /\ k \in Key
      BY <1>1, <1>3, <2>1 DEF CollectInv
    <2> QED BY <2>1, <2>2
  <1>4. ASSUME NEW d \in Client, call'[d].pc \in {"snapDrop", "snapArchive"}
        PROVE  snapshot'.entries = call'[d].got
    BY <1>4 DEF CollectInv
  <1> QED BY <1>3, <1>4 DEF CollectInv

(* Nobody holds the persistence lock, so that nothing is being collected.   *)
LEMMA NothingCollected ==
    ASSUME \A d \in Client : call'[d].pc \notin Saving
    PROVE  CollectInv'
  BY DEF CollectInv, Saving

(* The first state satisfies layers two and three.                          *)
LEMMA DurInit == Init => SeqInv /\ DurInv
  <1> SUFFICES ASSUME Init PROVE SeqInv /\ DurInv
    OBVIOUS
  <1>1. SeqInv
    BY DEF Init, SeqInv, Increasing, Below
  <1>2. Queued = {}
    BY ElemsFacts, NewCalls DEF Init, Queued
  <1>3. TicketInv
    BY <1>2, NewCalls DEF Init, TicketInv, NoOp
  <1>4. CollectInv
    BY NewCalls DEF Init, CollectInv, Saving
  <1>5. AgreeInv
    BY DEF Init, AgreeInv
  <1> QED BY <1>1, <1>3, <1>4, <1>5 DEF DurInv

(* An operation leaves a queue for the log.                                 *)
LEMMA QueueLogged ==
    ASSUME TypeOK, DurInv, NEW op \in Op, op \in Queued,
           Queued' \subseteq Queued, Queued \subseteq Queued' \cup {op},
           wal' = Append(wal, Record(nextSeq, op, TRUE)), snapshot' = snapshot,
           logged' = LogMark(op), \A k \in op.keys : ~(logged[k] > op.ticket),
           UNCHANGED <<up, data, ticket>>,
           \A d \in Client : /\ call'[d].pc = call[d].pc /\ call'[d].op = call[d].op
                             /\ call'[d].got = call[d].got
    PROVE  DurInv'
  <1>1. TicketInv'
    BY TicketStep DEF DurInv
  <1>2. \A k \in Key : Unapplied(k)' = Unapplied(k)
    BY MapSame
  <1>3. CollectInv'
    BY <1>2, CollectSame DEF DurInv
  <1>4. ASSUME up', NEW k \in Key PROVE \E n \in Entry : MapGets(k, n)' /\ DiskGets(k, n)'
    <2>1. PICK n \in Entry : MapGets(k, n) /\ DiskGets(k, n)
      BY <1>4 DEF DurInv, AgreeInv
    <2>2. MapGets(k, n)'
      BY <2>1, MapSame
    <2>3. DiskGets(k, n)'
      BY <2>1, DiskLogged
    <2> QED BY <2>1, <2>2, <2>3
  <1> QED BY <1>1, <1>3, <1>4 DEF DurInv, AgreeInv

(* Writes keep layer three.                                                 *)
LEMMA DurWrite ==
    ASSUME BaseInv, DurInv, taint' = {}, NEW c \in Client,
           \/ \E o : o.keys \in SUBSET Key /\ o.val \in Entry /\ (LogSync(c, o) \/ LogSyncErr(c, o))
           \/ \E k \in Key, v \in Value : SetAsync(c, k, v)
           \/ Apply(c)
    PROVE  DurInv'
  <1> USE DEF BaseInv
  <1>0. ticket \in Nat
    BY DEF TypeOK
  <1>1. ASSUME NEW o, o.keys \in SUBSET Key, o.val \in Entry, LogSync(c, o)
        PROVE  DurInv'
    <2> DEFINE op == Stamp(o)
    <2>1. op \in Op /\ op.ticket = ticket
      BY <1>0, <1>1, StampType
    <2>2. /\ LogOperation(op) /\ call[c].pc = "idle" /\ up /\ ticket' = ticket + 1
          /\ PersistenceFree /\ UNCHANGED <<up, data, pending, bg, snapshot>>
          /\ call' = [call EXCEPT ![c] = [NoCall EXCEPT !.pc = "apply", !.op = op]]
      BY <1>1 DEF LogSync, Idle
    <2> HIDE DEF op
    <2>3. /\ call'[c].pc = "apply" /\ call'[c].op = op
          /\ call'[c].todo = <<>> /\ call'[c].got = <<>>
          /\ \A d \in Client \ {c} : call'[d] = call[d]
      BY <2>2, EnterApply
    <2>4. /\ wal' = Append(wal, Record(nextSeq, op, TRUE)) /\ logged' = LogMark(op)
      BY <2>1, <2>2, CleanLog
    <2>5. Queued' = Queued
      <3>1. call[c].todo = <<>>
        BY <2>2 DEF LockInv
      <3>2. PICK others :
              /\ Queued = Elems(pending) \cup Elems(bg.ops) \cup others \cup Elems(call[c].todo)
              /\ Queued' = Elems(pending') \cup Elems(bg'.ops) \cup others
                             \cup Elems(call'[c].todo)
        BY <2>3, QueuedSplit
      <3>3. pending' = pending /\ bg' = bg /\ call'[c].todo = call[c].todo
        BY <2>2, <2>3, <3>1
      <3> QED BY <3>2, <3>3
    <2>6. TicketInv'
      BY <2>1, <2>2, <2>3, <2>5, TicketStep DEF DurInv
    <2>7. CollectInv'
      BY <2>2, <2>3, NothingCollected DEF PersistenceFree, Saving
    <2>8. ASSUME NEW k \in Key PROVE \E n \in Entry : MapGets(k, n)' /\ DiskGets(k, n)'
      <3>1. PICK n \in Entry : MapGets(k, n) /\ DiskGets(k, n)
        BY <2>2 DEF DurInv, AgreeInv
      <3>2. TicketInv
        BY DEF DurInv
      <3> QED BY <2>1, <2>2, <2>3, <2>4, <2>5, <3>1, <3>2, SyncLogged
    <2> QED BY <2>6, <2>7, <2>8 DEF DurInv, AgreeInv
  <1>2. ASSUME NEW o, o.keys \in SUBSET Key, o.val \in Entry, LogSyncErr(c, o)
        PROVE  DurInv'
    <2>1. PICK line \in {BadLine(FALSE), Record(nextSeq, Stamp(o), TRUE)} :
             /\ wal' = AppendLine(wal, line)
             /\ taint' = taint \cup AppendTaint(wal, line)
                               \cup (IF line.rec THEN {"failed"} ELSE {})
      BY <1>2 DEF LogSyncErr
    <2>2. line \in Line /\ wal \in Seq(Line) /\ ~line.rec
      <3>1. ~line.rec
        BY <2>1
      <3>2. line = BadLine(FALSE)
        <4>1. Record(nextSeq, Stamp(o), TRUE).rec
          BY DEF Record
        <4> QED BY <2>1, <3>1, <4>1
      <3> QED BY <3>1, <3>2, ConstantTypes, DiskParts
    <2>3. wal' = Append(wal, line)
      <3>1. AppendTaint(wal, line) = {}
        BY <2>1
      <3> QED BY <2>1, <2>2, <3>1, AppendLineType
    <2>4. \A k \in Key : Recovered(snapshot', wal')[k] = Recovered(snapshot, wal)[k]
      <3>1. snapshot' = snapshot
        BY <1>2 DEF LogSyncErr
      <3> QED BY <2>2, <2>3, <3>1, RecoveredAppend
    <2>5. UNCHANGED <<up, data, call, pending, bg, snapshot, logged>> /\ ticket' = ticket + 1
      BY <1>2 DEF LogSyncErr
    <2>6. Queued' = Queued
      BY <2>5 DEF Queued
    <2>7. TicketInv' /\ AgreeInv'
      BY <2>4, <2>5, <2>6, Quiet DEF DurInv
    <2>8. CollectInv'
      BY <2>5 DEF DurInv, CollectInv, Unapplied
    <2> QED BY <2>7, <2>8 DEF DurInv
  <1>3. ASSUME NEW key \in Key, NEW v \in Value, SetAsync(c, key, v)
        PROVE  DurInv'
    <2> DEFINE op == Stamp(SetOp(key, v))
    <2>1. op \in Op /\ op.ticket = ticket
      BY <1>0, <1>3, StampType, MethodOps
    <2>2. /\ call[c].pc = "idle" /\ up /\ ticket' = ticket + 1
          /\ PersistenceFree /\ UNCHANGED <<up, data, bg, snapshot, wal, logged>>
          /\ pending' = Append(pending, op)
          /\ call' = [call EXCEPT ![c] = [NoCall EXCEPT !.pc = "apply", !.op = op]]
      BY <1>3 DEF SetAsync, Idle, diskVars
    <2> HIDE DEF op
    <2>3. /\ call'[c].pc = "apply" /\ call'[c].op = op
          /\ call'[c].todo = <<>> /\ call'[c].got = <<>>
          /\ \A d \in Client \ {c} : call'[d] = call[d]
      BY <2>2, EnterApply
    <2>4. Queued' = Queued \cup {op}
      <3>1. call[c].todo = <<>>
        BY <2>2 DEF LockInv
      <3>2. Elems(pending') = Elems(pending) \cup {op}
        <4>1. pending \in Seq(Op)
          BY DEF TypeOK
        <4> QED BY <2>1, <2>2, <4>1, ElemsFacts
      <3> QED BY <2>2, <2>3, <3>1, <3>2, QueuedSplit
    <2>5. TicketInv'
      BY <2>1, <2>2, <2>3, <2>4, TicketStep DEF DurInv
    <2>6. CollectInv'
      BY <2>2, <2>3, NothingCollected DEF PersistenceFree, Saving
    <2>7. ASSUME NEW k \in Key PROVE \E n \in Entry : MapGets(k, n)' /\ DiskGets(k, n)'
      <3>1. PICK n \in Entry : MapGets(k, n) /\ DiskGets(k, n)
        BY <2>2 DEF DurInv, AgreeInv
      <3>2. TicketInv
        BY DEF DurInv
      <3> QED BY <2>1, <2>2, <2>3, <2>4, <3>1, <3>2, AsyncQueued
    <2> QED BY <2>5, <2>6, <2>7 DEF DurInv, AgreeInv
  <1>4. CASE Apply(c)
    <2>1. /\ call[c].pc = "apply" /\ data' = ApplyOp(data, call[c].op)
          /\ call' = [call EXCEPT ![c] = NoCall]
          /\ UNCHANGED <<up, pending, bg, ticket, logged, snapshot, wal>>
          /\ \A k \in call[c].op.keys : \A d \in Unapplied(k) :
                ~(call[d].op.ticket < call[c].op.ticket)
      BY <1>4 DEF Apply, diskVars
    <2>2. /\ call'[c].pc = "idle" /\ call'[c].op = NoOp /\ call'[c].todo = <<>>
          /\ \A d \in Client \ {c} : call'[d] = call[d]
      BY <2>1, CallAfter, NewCalls
    <2>3. Queued' = Queued
      <3>1. call[c].todo = <<>>
        BY <2>1 DEF LockInv
      <3> QED BY <2>1, <2>2, <3>1, QueuedSplit
    <2>4. TicketInv'
      BY <2>1, <2>2, <2>3, TicketStep DEF DurInv
    <2>5. \A k \in Key : /\ Unapplied(k)' \subseteq Unapplied(k)
                         /\ Unapplied(k) = {} => data'[k] = data[k]
      <3>1. ASSUME NEW k \in Key PROVE Unapplied(k)' \subseteq Unapplied(k)
        BY <2>1, <2>2 DEF Unapplied
      <3>2. ASSUME NEW k \in Key, Unapplied(k) = {} PROVE data'[k] = data[k]
        <4>1. k \notin call[c].op.keys
          BY <2>1, <3>2 DEF Unapplied
        <4> QED BY <2>1, <4>1 DEF ApplyOp
      <3> QED BY <3>1, <3>2
    <2>6. CollectInv'
      BY <2>1, <2>2, <2>5, CollectSame DEF DurInv, Saving
    <2>7. ASSUME up', NEW k \in Key PROVE \E n \in Entry : MapGets(k, n)' /\ DiskGets(k, n)'
      <3>1. PICK n \in Entry : MapGets(k, n) /\ DiskGets(k, n)
        BY <2>1, <2>7 DEF DurInv, AgreeInv
      <3>2. MapGets(k, n)'
        BY <2>1, <2>2, <3>1, MapApplied
      <3>3. DiskGets(k, n)'
        BY <2>1, <2>3, <3>1, DiskSame
      <3> QED BY <3>1, <3>2, <3>3
    <2> QED BY <2>4, <2>6, <2>7 DEF DurInv, AgreeInv
  <1> QED BY <1>1, <1>2, <1>3, <1>4

(* The steps of flush() and snapshot() that log and store nothing.          *)
LEMMA DurHold ==
    ASSUME BaseInv, DurInv, taint' = {}, NEW c \in Client,
           \/ FlushBegin(c) \/ SnapshotBegin(c) \/ FlushEnd(c) \/ SnapshotFlush(c)
           \/ SnapshotDropWal(c) \/ SnapshotReopen(c) \/ SaveErr(c)
    PROVE  DurInv'
  <1> USE DEF BaseInv
  <1>1. UNCHANGED <<up, data, bg, snapshot, wal, ticket, logged>>
    BY DEF FlushBegin, SnapshotBegin, FlushEnd, SnapshotFlush, SnapshotDropWal, SnapshotReopen,
           SaveErr, diskVars, ghostVars
  <1>2. /\ \A d \in Client \ {c} : call'[d] = call[d]
        /\ call[c].pc # "apply" /\ call'[c].pc # "apply"
        /\ call'[c].op = call[c].op \/ call'[c].op = NoOp
        /\ call'[c].pc \in Saving =>
             call'[c].got = <<>> \/ (call[c].pc \in Saving /\ call'[c].got = call[c].got)
        /\ call'[c].pc \in {"snapDrop", "snapArchive"} =>
             call[c].pc \in {"snapDrop", "snapArchive"} /\ call'[c].got = call[c].got
        /\ Elems(pending') \cup Elems(call'[c].todo) = Elems(pending) \cup Elems(call[c].todo)
    <2>1. CASE FlushBegin(c)
      <3>1. /\ call'[c].pc = "flush" /\ call'[c].op = NoOp
            /\ call'[c].todo = pending /\ call'[c].got = <<>>
            /\ \A d \in Client \ {c} : call'[d] = call[d]
        BY <2>1, EnterFlush DEF FlushBegin
      <3>2. call[c].pc = "idle" /\ call[c].todo = <<>> /\ pending' = <<>>
        BY <2>1 DEF FlushBegin, Idle, LockInv
      <3> QED BY <3>1, <3>2, ElemsFacts DEF Saving
    <2>2. CASE SnapshotBegin(c)
      <3>1. /\ call'[c].pc = "collect" /\ call'[c].op = NoOp
            /\ call'[c].todo = <<>> /\ call'[c].got = <<>>
            /\ \A d \in Client \ {c} : call'[d] = call[d]
        BY <2>2, EnterSnapshot DEF SnapshotBegin
      <3>2. call[c].pc = "idle" /\ call[c].todo = <<>> /\ pending' = pending
        BY <2>2 DEF SnapshotBegin, Idle, LockInv
      <3> QED BY <3>1, <3>2, ElemsFacts DEF Saving
    <2>3. CASE FlushEnd(c) \/ SnapshotReopen(c) \/ SaveErr(c)
      <3>1. call'[c] = NoCall /\ \A d \in Client \ {c} : call'[d] = call[d]
        BY <2>3, CallAfter DEF FlushEnd, SnapshotReopen, SaveErr
      <3>2. call[c].pc \in Saving /\ call[c].todo = <<>> /\ pending' = pending
        <4>1. CASE FlushEnd(c)
          BY <4>1 DEF FlushEnd, Saving
        <4>2. CASE SnapshotReopen(c)
          BY <4>2 DEF SnapshotReopen, Saving, LockInv
        <4>3. CASE SaveErr(c)
          BY <4>3 DEF SaveErr
        <4> QED BY <2>3, <4>1, <4>2, <4>3
      <3> QED BY <3>1, <3>2, NewCalls, ElemsFacts DEF Saving
    <2>4. CASE SnapshotFlush(c)
      <3>1. /\ \A d \in Client \ {c} : call'[d] = call[d]
            /\ call'[c].pc = "snapFlush" /\ call'[c].op = call[c].op
            /\ call'[c].todo = pending /\ call'[c].got = call[c].got
        BY <2>4, CallAfter DEF SnapshotFlush
      <3>2. call[c].pc = "collect" /\ call[c].todo = <<>> /\ pending' = <<>>
        BY <2>4 DEF SnapshotFlush, LockInv
      <3> QED BY <3>1, <3>2, ElemsFacts DEF Saving
    <2>5. CASE SnapshotDropWal(c)
      <3>1. /\ \A d \in Client \ {c} : call'[d] = call[d]
            /\ call'[c].pc = "snapArchive" /\ call'[c].op = call[c].op
            /\ call'[c].todo = call[c].todo /\ call'[c].got = call[c].got
        BY <2>5, CallAfter DEF SnapshotDropWal
      <3>2. call[c].pc = "snapDrop" /\ pending' = pending
        BY <2>5 DEF SnapshotDropWal
      <3> QED BY <3>1, <3>2 DEF Saving
    <2> QED BY <2>1, <2>2, <2>3, <2>4, <2>5
  <1>3. Queued' = Queued
    <2>1. PICK others :
             /\ Queued = Elems(pending) \cup Elems(bg.ops) \cup others \cup Elems(call[c].todo)
             /\ Queued' = Elems(pending') \cup Elems(bg'.ops) \cup others \cup Elems(call'[c].todo)
      BY <1>2, QueuedSplit
    <2> QED BY <1>1, <1>2, <2>1
  <1>4. \A d \in Client :
           /\ call'[d].pc = "apply" <=> call[d].pc = "apply"
           /\ call[d].pc = "apply" => call'[d].op = call[d].op
           /\ \/ call'[d].op = call[d].op
              \/ call'[d].op = NoOp /\ call'[d].pc # "apply"
    BY <1>2
  <1>5. TicketInv' /\ AgreeInv'
    BY <1>1, <1>3, <1>4, Quiet DEF DurInv
  <1>6. \A k \in Key : Unapplied(k)' = Unapplied(k)
    BY <1>4, MapSame
  <1>7. CollectInv'
    BY <1>1, <1>2, <1>6, CollectSame DEF DurInv
  <1> QED BY <1>5, <1>7 DEF DurInv

(* The steps of flush() and snapshot() that log, collect and store.         *)
LEMMA DurSave ==
    ASSUME BaseInv, DurInv, taint' = {}, NEW c \in Client,
           \/ FlushLog(c) \/ SnapshotRename(c) \/ SnapshotArchive(c)
           \/ \E k \in Key : SnapshotCollect(c, k)
    PROVE  DurInv'
  <1> USE DEF BaseInv
  <1>0. call[c].pc \in Saving /\ up
    <2>1. call[c].pc \in Saving
      BY DEF FlushLog, SnapshotRename, SnapshotArchive, SnapshotCollect, Saving
    <2> QED BY <2>1, NewCalls DEF LockInv, Saving
  <1>1. CASE FlushLog(c)
    <2> DEFINE op == Head(call[c].todo)
    <2>1. /\ call[c].todo # <<>> /\ LogOperation(op)
          /\ call' = [call EXCEPT ![c].todo = Tail(call[c].todo)]
          /\ UNCHANGED <<up, data, pending, bg, snapshot, ticket>>
      BY <1>1 DEF FlushLog
    <2>2. call[c].todo \in Seq(Op) /\ op \in Op
      BY <2>1, Parts
    <2>3. /\ Elems(call[c].todo) = {op} \cup Elems(Tail(call[c].todo))
          /\ op \in Elems(call[c].todo)
      BY <2>1, <2>2, ElemsFacts
    <2> HIDE DEF op
    <2>4. /\ \A d \in Client \ {c} : call'[d] = call[d]
          /\ call'[c].pc = call[c].pc /\ call'[c].op = call[c].op
          /\ call'[c].todo = Tail(call[c].todo) /\ call'[c].got = call[c].got
      BY <2>1, CallAfter
    <2>5. op \in Queued /\ Queued' \subseteq Queued /\ Queued \subseteq Queued' \cup {op}
      <3>1. PICK others :
             /\ Queued = Elems(pending) \cup Elems(bg.ops) \cup others \cup Elems(call[c].todo)
             /\ Queued' = Elems(pending') \cup Elems(bg'.ops) \cup others \cup Elems(call'[c].todo)
        BY <2>4, QueuedSplit
      <3> QED BY <2>1, <2>3, <2>4, <3>1
    <2>6. /\ wal' = Append(wal, Record(nextSeq, op, TRUE)) /\ logged' = LogMark(op)
          /\ \A k \in op.keys : ~(logged[k] > op.ticket)
      BY <2>1, <2>2, CleanLog
    <2> QED BY <2>1, <2>2, <2>4, <2>5, <2>6, QueueLogged
  <1>2. ASSUME NEW key \in Key, SnapshotCollect(c, key) PROVE DurInv'
    <2> DEFINE g == [j \in DOMAIN call[c].got \cup {key} |->
                        IF j = key THEN data[key] ELSE call[c].got[j]]
    <2>1. /\ call[c].pc = "collect" /\ call' = [call EXCEPT ![c].got = g]
          /\ UNCHANGED <<up, data, pending, bg, ticket, logged, snapshot, wal>>
          /\ Unapplied(key) = {}
      BY <1>2 DEF SnapshotCollect, diskVars
    <2>2. DOMAIN g = DOMAIN call[c].got \cup {key} /\ g[key] = data[key]
          /\ \A j \in DOMAIN call[c].got : j # key => g[j] = call[c].got[j]
      OBVIOUS
    <2> HIDE DEF g
    <2>3. /\ \A d \in Client \ {c} : call'[d] = call[d]
          /\ call'[c].pc = call[c].pc /\ call'[c].op = call[c].op
          /\ call'[c].todo = call[c].todo /\ call'[c].got = g
      BY <2>1, CallAfter
    <2>4. Queued' = Queued
      BY <2>1, <2>3, QueuedSplit
    <2>5. TicketInv' /\ AgreeInv'
      BY <2>1, <2>3, <2>4, Quiet DEF DurInv
    <2>6. \A k : Unapplied(k)' = Unapplied(k)
      BY <2>3 DEF Unapplied
    <2>7. ASSUME NEW k \in DOMAIN g PROVE Unapplied(k)' = {} /\ g[k] = data'[k]
      <3>1. CASE k = key
        BY <2>1, <2>2, <2>6, <3>1
      <3>2. CASE k # key
        <4>1. k \in DOMAIN call[c].got /\ g[k] = call[c].got[k]
          BY <2>2, <2>7, <3>2
        <4> QED BY <1>0, <2>1, <2>6, <4>1 DEF DurInv, CollectInv
      <3> QED BY <3>1, <3>2
    <2>8. ASSUME NEW d \in Client \ {c}
          PROVE  /\ call'[d].pc \in Saving => \A k \in DOMAIN call'[d].got :
                       Unapplied(k)' = {} /\ call'[d].got[k] = data'[k]
                 /\ call'[d].pc \in {"snapDrop", "snapArchive"} =>
                       snapshot'.entries = call'[d].got
      BY <2>1, <2>3, <2>6 DEF DurInv, CollectInv
    <2>9. CollectInv'
      BY <2>1, <2>3, <2>7, <2>8 DEF CollectInv
    <2> QED BY <2>5, <2>9 DEF DurInv
  <1>3. CASE SnapshotRename(c)
    <2>1. /\ call[c].pc = "snapFlush" /\ call' = [call EXCEPT ![c].pc = "snapDrop"]
          /\ snapshot' = [seq |-> nextSeq - 1, entries |-> call[c].got]
          /\ UNCHANGED <<up, data, pending, bg, ticket, logged, wal>>
      BY <1>3 DEF SnapshotRename, ghostVars
    <2>2. /\ \A d \in Client \ {c} : call'[d] = call[d]
          /\ call'[c].pc = "snapDrop" /\ call'[c].op = call[c].op
          /\ call'[c].todo = call[c].todo /\ call'[c].got = call[c].got
      BY <2>1, CallAfter
    <2>3. snapshot'.entries = call[c].got /\ DOMAIN call[c].got = Key
      BY <2>1 DEF LockInv, Saving
    <2>4. Queued' = Queued
      BY <2>1, <2>2, QueuedSplit
    <2>5. \A k \in Key : Unapplied(k) = {} /\ call[c].got[k] = data[k]
      BY <1>0, <2>3 DEF DurInv, CollectInv
    <2>6. ASSUME NEW k \in Key, Unlogged(k) = {}
          PROVE  Recovered(snapshot', wal')[k] = Recovered(snapshot, wal)[k]
      <3>1. CASE Touching(wal, k) = {}
        <4>1. Recovered(snapshot', wal)[k] = data[k]
          BY <2>3, <2>5, <3>1, Untouched
        <4>2. Recovered(snapshot, wal)[k] = data[k]
          BY <1>0, <2>5, <2>6, SettledAgree DEF DurInv
        <4> QED BY <2>1, <4>1, <4>2
      <3>2. CASE Touching(wal, k) # {}
        BY <2>1, <3>2, LastTouching, DiskParts
      <3> QED BY <3>1, <3>2
    <2>7. TicketInv' /\ AgreeInv'
      BY <2>1, <2>2, <2>4, <2>6, Quiet DEF DurInv
    <2>8. \A k : Unapplied(k)' = Unapplied(k)
      BY <2>1, <2>2 DEF Unapplied
    <2>9. ASSUME NEW d \in Client \ {c} PROVE call'[d].pc \notin Saving
      BY <1>0, <2>2 DEF LockInv
    <2>10. CollectInv'
      BY <2>1, <2>2, <2>3, <2>5, <2>8, <2>9 DEF CollectInv, Saving
    <2> QED BY <2>7, <2>10 DEF DurInv
  <1>4. CASE SnapshotArchive(c)
    <2>1. /\ call[c].pc = "snapArchive" /\ call' = [call EXCEPT ![c].pc = "snapReopen"]
          /\ UNCHANGED <<up, data, pending, ticket, logged, snapshot>>
          /\ bg'.ops = bg.ops /\ wal' = <<>>
      BY <1>4 DEF SnapshotArchive, TypeOK
    <2>2. /\ \A d \in Client \ {c} : call'[d] = call[d]
          /\ call'[c].pc = "snapReopen" /\ call'[c].op = call[c].op
          /\ call'[c].todo = call[c].todo /\ call'[c].got = call[c].got
      BY <2>1, CallAfter
    <2>3. snapshot.entries = call[c].got /\ DOMAIN call[c].got = Key
      BY <2>1 DEF LockInv, Saving, DurInv, CollectInv
    <2>4. Queued' = Queued
      BY <2>1, <2>2, QueuedSplit
    <2>5. \A k \in Key : Unapplied(k) = {} /\ call[c].got[k] = data[k]
      BY <1>0, <2>3 DEF DurInv, CollectInv
    <2>6. ASSUME NEW k \in Key, Unlogged(k) = {}
          PROVE  Recovered(snapshot', wal')[k] = Recovered(snapshot, wal)[k]
      <3>1. Touching(<<>>, k) = {}
        BY DEF Touching
      <3>2. Recovered(snapshot, <<>>)[k] = data[k]
        BY <2>3, <2>5, <3>1, Untouched
      <3>3. Recovered(snapshot, wal)[k] = data[k]
        BY <1>0, <2>5, <2>6, SettledAgree DEF DurInv
      <3> QED BY <2>1, <3>2, <3>3
    <2>7. TicketInv' /\ AgreeInv'
      BY <2>1, <2>2, <2>4, <2>6, Quiet DEF DurInv
    <2>8. \A k \in Key : Unapplied(k)' = Unapplied(k)
      BY <2>1, <2>2 DEF Unapplied
    <2>9. CollectInv'
      BY <1>0, <2>1, <2>2, <2>8, CollectSame DEF DurInv
    <2> QED BY <2>7, <2>9 DEF DurInv
  <1> QED BY <1>1, <1>2, <1>3, <1>4

(* The background thread keeps layer three.                                 *)
LEMMA DurBackground ==
    ASSUME BaseInv, DurInv, taint' = {}, Background
    PROVE  DurInv'
  <1> USE DEF BaseInv
  <1>0. bg \in [ops : Seq(Op), holds : BOOLEAN, fresh : Nat, doubt : SUBSET Int] /\ pending \in Seq(Op)
    BY DEF TypeOK
  <1>1. ASSUME UNCHANGED <<up, data, call, snapshot, wal, ticket, logged>>, Queued' = Queued
        PROVE  DurInv'
    <2>1. TicketInv' /\ AgreeInv'
      BY <1>1, Quiet DEF DurInv
    <2>2. CollectInv'
      BY <1>1 DEF DurInv, CollectInv, Unapplied
    <2> QED BY <2>1, <2>2 DEF DurInv
  <1>2. CASE BgTake
    <2>1. /\ bg.ops = <<>> /\ bg'.ops = pending /\ pending' = <<>>
          /\ UNCHANGED <<up, data, call, snapshot, wal, ticket, logged>>
      BY <1>0, <1>2 DEF BgTake, diskVars, ghostVars
    <2>2. Queued' = Queued
      BY <2>1, ElemsFacts DEF Queued
    <2> QED BY <1>1, <2>1, <2>2
  <1>3. CASE BgLock \/ BgSync
    <2>1. /\ bg'.ops = bg.ops
          /\ UNCHANGED <<up, data, call, snapshot, wal, ticket, logged, pending>>
      <3>1. CASE BgLock
        BY <1>0, <3>1 DEF BgLock, diskVars
      <3>2. CASE BgSync
        BY <1>0, <3>2 DEF BgSync, diskVars
      <3> QED BY <1>3, <3>1, <3>2
    <2>2. Queued' = Queued
      BY <2>1 DEF Queued
    <2> QED BY <1>1, <2>1, <2>2
  <1>4. CASE BgWrite
    <2> DEFINE op == Head(bg.ops)
    <2> DEFINE line == Record(nextSeq, op, TRUE)
    <2>1. /\ bg.ops # <<>> /\ wal' = AppendLine(wal, line)
          /\ taint' = taint \cup AppendTaint(wal, line) \cup LogTaint(op)
          /\ logged' = LogMark(op)
          /\ bg' = [bg EXCEPT !.ops = Tail(@), !.fresh = @ + 1]
          /\ UNCHANGED <<up, data, call, pending, snapshot, ticket>>
      BY <1>4 DEF BgWrite
    <2>2. bg'.ops = Tail(bg.ops)
      BY <1>0, <2>1
    <2>3. bg.ops \in Seq(Op) /\ op \in Op
      BY <2>1, Parts
    <2>4. Elems(bg.ops) = {op} \cup Elems(Tail(bg.ops)) /\ op \in Elems(bg.ops)
      BY <2>1, <2>3, ElemsFacts
    <2>5. line \in Line /\ wal \in Seq(Line)
      BY <2>3, ConstantTypes, DiskParts
    <2> HIDE DEF op, line
    <2>6. AppendTaint(wal, line) = {} /\ LogTaint(op) = {}
      BY <2>1
    <2>7. wal' = Append(wal, Record(nextSeq, op, TRUE))
      BY <2>1, <2>5, <2>6, AppendLineType DEF line
    <2>8. \A k \in op.keys : ~(logged[k] > op.ticket)
      BY <2>6 DEF LogTaint
    <2>9. op \in Queued /\ Queued' \subseteq Queued /\ Queued \subseteq Queued' \cup {op}
      BY <2>1, <2>2, <2>4 DEF Queued
    <2> QED BY <2>1, <2>3, <2>7, <2>8, <2>9, QueueLogged
  <1> QED BY <1>2, <1>3, <1>4 DEF Background

(* Every step without a hazard keeps map and disk in agreement.             *)
LEMMA DurStep ==
    ASSUME BaseInv, DurInv, [Next]_vars, taint' = {}
    PROVE  DurInv'
  <1> USE DEF BaseInv
  <1>1. CASE Crash
    <2>1. /\ ~up' /\ ticket' = ticket /\ pending' = <<>> /\ bg'.ops = <<>>
          /\ \A d \in Client : call'[d] = NoCall
      BY <1>1 DEF Crash
    <2>2. Queued' = {}
      BY <2>1, NewCalls, ElemsFacts DEF Queued
    <2>3. TicketInv'
      BY <2>1, <2>2, NewCalls, TicketStep DEF DurInv
    <2>4. CollectInv'
      BY <2>1, NewCalls, NothingCollected DEF Saving
    <2> QED BY <2>1, <2>3, <2>4 DEF DurInv, AgreeInv
  <1>2. CASE Open
    <2>1. /\ ~up /\ data' = Recovered(snapshot, wal)
          /\ UNCHANGED <<call, pending, bg, snapshot, wal, ticket>>
      BY <1>2 DEF Open, diskVars, ghostVars
    <2>2. /\ \A d \in Client : call'[d] = NoCall /\ call'[d].pc = "idle"
          /\ pending' = <<>> /\ bg'.ops = <<>>
      BY <2>1, NewCalls DEF LockInv
    <2>3. Queued' = {}
      BY <2>2, NewCalls, ElemsFacts DEF Queued
    <2>4. TicketInv'
      BY <2>1, <2>2, <2>3, NewCalls, TicketStep DEF DurInv
    <2>5. CollectInv'
      BY <2>2, NothingCollected DEF Saving
    <2>6. ASSUME NEW k \in Key PROVE \E n \in Entry : MapGets(k, n)' /\ DiskGets(k, n)'
      <3>1. Recovered(snapshot, wal)[k] \in Entry
        <4>1. wal \in Seq(Line) /\ snapshot \in [seq : Nat, entries : Map]
          BY DEF TypeOK
        <4> QED BY <4>1, RecoveredType DEF Map
      <3>2. Unapplied(k)' = {}
        BY <2>2 DEF Unapplied
      <3>3. Unlogged(k)' = {}
        BY <2>3, UnloggedIsQueued
      <3>4. PICK n \in Entry : n = Recovered(snapshot, wal)[k]
        BY <3>1
      <3>5. MapGets(k, n)'
        BY <2>1, <3>2, <3>4 DEF MapGets
      <3>6. DiskGets(k, n)'
        BY <2>1, <3>3, <3>4 DEF DiskGets
      <3> QED BY <3>5, <3>6
    <2> QED BY <2>4, <2>5, <2>6 DEF DurInv, AgreeInv
  <1>3. CASE UNCHANGED vars
    <2>1. UNCHANGED <<up, data, call, pending, bg, snapshot, wal, ticket, logged>>
      BY <1>3 DEF vars
    <2>2. Queued' = Queued
      BY <2>1 DEF Queued
    <2>3. TicketInv' /\ AgreeInv'
      BY <2>1, <2>2, Quiet DEF DurInv
    <2>4. CollectInv'
      BY <2>1 DEF DurInv, CollectInv, Unapplied
    <2> QED BY <2>3, <2>4 DEF DurInv
  <1>4. ASSUME NEW c \in Client, Request(c) \/ Progress(c) \/ SaveErr(c) PROVE DurInv'
    BY <1>4, WriteCalls, DurWrite, DurHold, DurSave DEF Request, Progress
  <1> QED BY <1>1, <1>2, <1>3, <1>4, DurBackground DEF Next

-----------------------------------------------------------------------------
(* The theorems                                                             *)

(* Only a failed sync of the background thread leaves lines in doubt.       *)
LEMMA DoubtStep ==
    ASSUME BaseInv, bg.doubt = {}, taint' = {}, [Next]_vars
    PROVE  bg'.doubt = {}
  <1>0. bg \in [ops : Seq(Op), holds : BOOLEAN, fresh : Nat, doubt : SUBSET Int]
    BY DEF BaseInv, TypeOK
  <1>1. CASE BgTake \/ BgLock \/ BgWrite
    BY <1>0, <1>1 DEF BgTake, BgLock, BgWrite
  <1>2. CASE BgSync
    BY <1>0, <1>2 DEF BgSync
  <1>3. ASSUME NEW c \in Client, SnapshotArchive(c) PROVE bg'.doubt = {}
    BY <1>0, <1>3 DEF SnapshotArchive
  <1>4. CASE Crash
    BY <1>4 DEF Crash
  <1>5. CASE Open \/ UNCHANGED vars
    BY <1>5 DEF Open, vars
  <1>6. ASSUME NEW c \in Client, NEW o, LogCall(c, o) PROVE bg' = bg
    BY <1>6 DEF LogCall, LogSync, LogSyncErr
  <1>7. ASSUME NEW c \in Client, Request(c) \/ SaveErr(c) PROVE bg' = bg
    BY <1>6, <1>7 DEF Request, Set, Delete, Clear, SetAsync, FlushBegin, SnapshotBegin, SaveErr
  <1>8. ASSUME NEW c \in Client, Progress(c), ~SnapshotArchive(c) PROVE bg' = bg
    BY <1>8 DEF Progress, Apply, FlushLog, FlushEnd, SnapshotCollect, SnapshotFlush,
                SnapshotRename, SnapshotDropWal, SnapshotReopen
  <1> QED BY <1>1, <1>2, <1>3, <1>4, <1>5, <1>7, <1>8 DEF Next, Background

(* The invariant is inductive.                                              *)
LEMMA Inductive ==
    /\ Init => IInv
    /\ IInv /\ [Next]_vars => IInv'
  <1>1. Init => IInv
    <2>1. Init => bg.doubt = {}
      BY DEF Init
    <2> QED BY <2>1, BaseInit, DurInit DEF IInv
  <1>2. ASSUME IInv, [Next]_vars PROVE IInv'
    <2>1. BaseInv /\ BaseInv'
      BY <1>2, TypeStep, LockStep DEF IInv, BaseInv
    <2>2. ASSUME taint' = {} PROVE bg'.doubt = {} /\ SeqInv' /\ DurInv'
      <3>1. taint = {}
        BY <1>2, <2>2, TaintGrows
      <3>2. bg.doubt = {} /\ SeqInv /\ DurInv
        BY <1>2, <3>1 DEF IInv
      <3> QED BY <1>2, <2>1, <2>2, <3>1, <3>2, DoubtStep, SeqStep, DurStep
    <2> QED BY <2>1, <2>2 DEF IInv
  <1> QED BY <1>1, <1>2

(* Sequence numbers identify records, for every number of crashes and       *)
(* restarts: next_sequence, which a process computes anew from the snapshot *)
(* and the live log alone, never reissues a number that an archived log     *)
(* has.  What makes it so is that a log is archived only after a snapshot   *)
(* that carries a sequence at or above all of its records.                  *)
THEOREM SequencesIncreaseHolds == Spec => []SequencesIncrease
  <1>1. ASSUME IInv PROVE SequencesIncrease
    <2>1. SUFFICES ASSUME taint = {} PROVE Increasing(archive \o wal)
      BY DEF SequencesIncrease, Increasing
    <2>2. SeqInv /\ archive \in Seq(Line) /\ wal \in Seq(Line)
      BY <1>1, <2>1, DiskParts DEF IInv, BaseInv
    <2> QED BY <2>2, IncreasingConcat DEF SeqInv
  <1> QED BY <1>1, Inductive, PTL DEF Spec

(* Lines that do not touch a key can be lost from the end of the log.       *)
LEMMA RecoveredCut ==
    ASSUME NEW w \in Seq(Line), NEW n \in Nat, NEW k \in Key, NEW s,
           \A i \in (Len(w) - n + 1)..Len(w) : k \notin w[i].op.keys
    PROVE  Recovered(s, SubSeq(w, 1, Len(w) - n))[k] = Recovered(s, w)[k]
  <1> DEFINE v == SubSeq(w, 1, Len(w) - n)
  <1>1. /\ v \in Seq(Line) /\ Len(w) \in Nat
        /\ \A i \in 1..Len(w) : i <= Len(w) - n => i \in 1..Len(v) /\ v[i] = w[i]
        /\ \A i \in 1..Len(v) : i \in 1..Len(w) /\ i <= Len(w) - n /\ v[i] = w[i]
    OBVIOUS
  <1> HIDE DEF v
  <1>2. Touching(v, k) = Touching(w, k)
    <2>1. ASSUME NEW i \in Touching(w, k) PROVE i \in Touching(v, k)
      <3>1. i \in 1..Len(w) /\ w[i].rec /\ k \in w[i].op.keys
        BY <2>1 DEF Touching
      <3>2. i <= Len(w) - n
        BY <1>1, <3>1
      <3> QED BY <1>1, <3>1, <3>2 DEF Touching
    <2>2. ASSUME NEW i \in Touching(v, k) PROVE i \in Touching(w, k)
      BY <1>1, <2>2 DEF Touching
    <2> QED BY <2>1, <2>2
  <1>3. CASE Touching(w, k) = {}
    <2>1. Recovered(s, v)[k] = s.entries[k]
      BY <1>2, <1>3, Untouched
    <2>2. Recovered(s, w)[k] = s.entries[k]
      BY <1>3, Untouched
    <2> QED BY <2>1, <2>2 DEF v
  <1>4. CASE Touching(w, k) # {}
    <2>1. PICK i \in Touching(w, k) : (\A j \in Touching(w, k) : j <= i)
                                      /\ Recovered(s, w)[k] = w[i].op.val
      BY <1>4, LastTouching
    <2>2. PICK h \in Touching(v, k) : (\A j \in Touching(v, k) : j <= h)
                                      /\ Recovered(s, v)[k] = v[h].op.val
      BY <1>1, <1>2, <1>4, LastTouching
    <2>3. h = i
      BY <1>2, <2>1, <2>2 DEF Touching
    <2>4. v[i] = w[i]
      BY <1>1, <1>2, <2>1 DEF Touching
    <2> QED BY <2>1, <2>2, <2>3, <2>4 DEF v
  <1> QED BY <1>3, <1>4

(* Crash safety of KVStore, for any number of threads, keys and operations: *)
(* in every state, and so between any two steps of set, flush and snapshot, *)
(* a key with nothing on its way reopens with the value a reader sees,      *)
(* unless one of the recorded hazards struck.                               *)
THEOREM CrashSafety == Spec => []DurableUnlessTainted
  <1>1. ASSUME IInv PROVE DurableUnlessTainted
    <2>1. SUFFICES ASSUME taint = {}, NEW k \in Key, Settled(k),
                          NEW left \in Survivors, NEW lost \in 0..bg.fresh
                   PROVE  Recovered(snapshot, SubSeq(left, 1, Len(left) - lost))[k] = data[k]
      BY DEF DurableUnlessTainted, SettledIsDurable
    <2>2. TypeOK /\ AgreeInv /\ bg.doubt = {}
      BY <1>1, <2>1 DEF IInv, BaseInv, DurInv
    <2>3. wal \in Seq(Line) /\ bg.fresh \in Nat /\ left = wal
      BY <2>2, DiskParts, Parts, SurvivorType
    <2>4. /\ up /\ Unapplied(k) = {} /\ Unlogged(k) = {}
          /\ \A i \in (Len(wal) - bg.fresh + 1)..Len(wal) : k \notin wal[i].op.keys
      BY <2>1 DEF Settled, Fresh
    <2>5. Recovered(snapshot, wal)[k] = data[k]
      BY <2>2, <2>4, SettledAgree
    <2>6. lost \in Nat /\ \A i \in (Len(wal) - lost + 1)..Len(wal) : k \notin wal[i].op.keys
      BY <2>1, <2>3, <2>4
    <2> QED BY <2>3, <2>5, <2>6, RecoveredCut
  <1> QED BY <1>1, Inductive, PTL DEF Spec

=============================================================================
