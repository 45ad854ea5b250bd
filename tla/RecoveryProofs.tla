--------------------------- MODULE RecoveryProofs ---------------------------
(***************************************************************************)
(* Proofs about Recovery.  A directory, a backup and a restored directory  *)
(* are all described in the same way: as files that hold the first n       *)
(* commits of a history.  Opening such files gives those commits           *)
(* (OpenedIsPrefix) and restoring them gives files of that kind again      *)
(* (RestoredHolds); the rest is that every step keeps them so.             *)
(***************************************************************************)
EXTENDS Recovery, Induction

Commits == [id : Nat, time : Nat]
Lines == [version : Nat, time : Nat, id : Nat]

(* The line of a log that stands for the j-th commit of a history p.        *)
LineOf(p, e, j) ==
  IF p[j].id = 0 THEN LegacyLine
  ELSE [version |-> j - Unversioned(e), time |-> p[j].time, id |-> p[j].id]

(* A history: ids and times go up, only a legacy line has the id 0.         *)
HistoryInv(p, e) ==
  /\ p \in Seq(Commits)
  /\ \A i, j \in 1..Len(p) : i < j => p[i].id < p[j].id /\ p[i].time <= p[j].time
  /\ e \in Legacy => Len(p) > 0 /\ p[1].id = 0
  /\ e \notin Legacy /\ Len(p) > 0 => p[1].id > 0

(* A snapshot of the first commits of p, no later than those that follow.   *)
SnapshotOf(sn, p, e) ==
  /\ sn.content \in Seq(Nat) /\ sn.time \in Nat
  /\ Len(sn.content) <= Len(p)
  /\ sn.version = IF Len(sn.content) = 0 THEN 0 ELSE Len(sn.content) - Unversioned(e)
  /\ \A i \in 1..Len(sn.content) : sn.content[i] = p[i].id /\ p[i].time <= sn.time
  /\ \A i \in 1..Len(p) : i > Len(sn.content) => sn.time <= p[i].time
  /\ Len(sn.content) > 0 => sn.time > 0
  /\ sn.time > 0 /\ e \in Legacy => Len(sn.content) > 0

(* The last of the first n commits, in order and up to the n-th.            *)
InOrder(lines, p, n, e) ==
  /\ Len(lines) <= n
  /\ \A i \in 1..Len(lines) : lines[i] = LineOf(p, e, (n - Len(lines)) + i)

(* A log: lines the snapshot covers, if it was not moved away, then the     *)
(* commits from c + 1 to n, each once and in order.                         *)
LogOf(lines, p, c, n, e) ==
  /\ lines \in Seq(Lines)
  /\ InOrder(lines, p, n, e)
  /\ \E k \in Nat :
       /\ Len(lines) = k + (n - c)
       /\ \A i \in 1..k : \E j \in 1..c : lines[i] = LineOf(p, e, j)
       /\ \A i \in 1..(n - c) : lines[k + i] = LineOf(p, e, c + i)

(* Archived segments: lines of commits that the snapshot covers.            *)
ArchiveOf(segments, p, c, e) ==
  /\ segments \in Seq(Seq(Lines))
  /\ \A s \in 1..Len(segments) : \A i \in 1..Len(segments[s]) :
       \E j \in 1..c : segments[s][i] = LineOf(p, e, j)

(* Files that hold the first n commits of p.                                *)
Holds(files, p, n, e) ==
  LET c == Len(files.snapshot[e].content)
  IN /\ SnapshotOf(files.snapshot[e], p, e)
     /\ n \in Nat /\ c <= n /\ n <= Len(p)
     /\ e \in Legacy => n > 0
     /\ LogOf(files.log[e], p, c, n, e)
     /\ ArchiveOf(files.archive[e], p, c, e)

IsFiles(files) ==
  /\ DOMAIN files = {"snapshot", "log", "archive"}
  /\ DOMAIN files.snapshot = Engines /\ DOMAIN files.log = Engines
  /\ DOMAIN files.archive = Engines

(* The files of one engine in use, whose last commit has the number made.   *)
EngineInv(files, p, now, made, e) ==
  /\ HistoryInv(p, e) /\ now \in Nat \ {0} /\ made \in Nat
  /\ \A i \in 1..Len(p) : p[i].id <= made /\ p[i].time <= now
  /\ files.snapshot[e].time <= now
  /\ Holds(files, p, Len(p), e)

DirInv ==
  /\ IsFiles(dir) /\ DOMAIN past = Engines
  /\ clock \in Nat \ {0} /\ pruned \in Nat
  /\ DOMAIN counts = {"commits", "checkpoints", "backups", "adoptions"}
  /\ DOMAIN counts.commits = Engines
  /\ \A e \in Engines : EngineInv(dir, past[e], clock, counts.commits[e], e)

(* The records a backup has of its own, and the point its manifest reports. *)
Own(files, e) == Records((<<files.log[e]>> \o files.archive[e]) \o <<>>)
Reported(files, e) == Max(DOMAIN Own(files, e) \union {files.snapshot[e].version})

BackupInv ==
  /\ backup.state \in {"none", "copying", "published"}
  /\ backup.state = "copying" => /\ active = {} /\ IsFiles(backup.files)
                                 /\ backup.files.snapshot = dir.snapshot
                                 /\ backup.files.log = dir.log
  /\ backup.state = "published" =>
       /\ IsFiles(backup.files)
       /\ \A e \in Engines : /\ \E n \in Nat : Holds(backup.files, past[e], n, e)
                             /\ backup.files.snapshot[e].time <= clock
                             /\ backup.end[e] = Reported(backup.files, e)

(* A restored directory holds commits of the history, unless a legacy line  *)
(* rewinds it; its point counts them, but for the legacy line.              *)
DestInv ==
  dest.state = "restored" =>
    /\ IsFiles(dest.files)
    /\ \A e \in Engines :
         /\ dest.files.snapshot[e].time <= clock
         /\ ~Rewinds(dest.files, e) \/ dest.target.kind # "latest" =>
              \E n \in Nat : /\ Holds(dest.files, past[e], n, e)
                             /\ n = dest.point[e] + Unversioned(e)

-----------------------------------------------------------------------------
(* Lines, versions and intervals                                            *)

(* The number of commits of an engine that have no version.                 *)
LEMMA UnversionedFacts ==
  ASSUME NEW e
  PROVE  /\ Unversioned(e) \in {0, 1}
         /\ Unversioned(e) = 1 <=> e \in Legacy
         /\ e = "sql" => Unversioned(e) = 0 /\ e \notin Legacy
  BY RecoveryAssumption DEF Unversioned

(* A commit of a history.                                                   *)
LEMMA CommitFacts ==
  ASSUME NEW p, NEW e, HistoryInv(p, e), NEW j \in 1..Len(p)
  PROVE  /\ Len(p) \in Nat /\ p[j].id \in Nat /\ p[j].time \in Nat
         /\ p[j].id = 0 <=> j = 1 /\ e \in Legacy
  <1>1. p \in Seq(Commits) /\ Len(p) \in Nat
    BY DEF HistoryInv
  <1>2. p[j] \in Commits /\ p[1] \in Commits
    BY <1>1
  <1>3. /\ p[j].id \in Nat /\ p[j].time \in Nat /\ p[1].id \in Nat
    BY <1>2 DEF Commits
  <1>4. j > 1 => p[1].id < p[j].id
    BY <1>1 DEF HistoryInv
  <1>5. /\ e \in Legacy => p[1].id = 0
        /\ e \notin Legacy => p[1].id > 0
    BY <1>1 DEF HistoryInv
  <1> QED BY <1>1, <1>3, <1>4, <1>5

(* The line of a commit.                                                    *)
LEMMA LineFacts ==
  ASSUME NEW p, NEW e, HistoryInv(p, e), NEW j \in 1..Len(p)
  PROVE  /\ LineOf(p, e, j) \in Lines /\ LineOf(p, e, j).id = p[j].id
         /\ IsRecord(LineOf(p, e, j)) <=> p[j].id # 0
         /\ p[j].id # 0 => /\ LineOf(p, e, j).version = j - Unversioned(e)
                           /\ LineOf(p, e, j).time = p[j].time
                           /\ j - Unversioned(e) \in Nat /\ j - Unversioned(e) > 0
         /\ p[j].id = 0 => /\ LineOf(p, e, j) = LegacyLine
                           /\ LineOf(p, e, j).version = 0
  <1>1. /\ Len(p) \in Nat /\ p[j].id \in Nat /\ p[j].time \in Nat
        /\ p[j].id = 0 <=> j = 1 /\ e \in Legacy
    BY CommitFacts
  <1>2. CASE p[j].id = 0
    BY <1>1, <1>2 DEF LineOf, LegacyLine, Lines, IsRecord
  <1>3. CASE p[j].id # 0
    <2>1. j - Unversioned(e) \in Nat /\ j - Unversioned(e) > 0
      BY <1>1, <1>3, UnversionedFacts
    <2> DEFINE u == j - Unversioned(e)
               l == [version |-> u, time |-> p[j].time, id |-> p[j].id]
    <2>2. LineOf(p, e, j) = l
      BY <1>3 DEF LineOf
    <2> HIDE DEF u
    <2>3. u \in Nat /\ u > 0
      BY <2>1 DEF u
    <2>4. l \in Lines /\ l.id = p[j].id /\ l.version = u /\ l.time = p[j].time /\ IsRecord(l)
      BY <1>1, <2>3 DEF Lines, IsRecord
    <2> QED BY <1>3, <2>2, <2>3, <2>4 DEF u
  <1> QED BY <1>2, <1>3

(* The line depends on the commit alone.                                    *)
LEMMA SameLine ==
  ASSUME NEW p, NEW q, NEW e, NEW j, p[j] = q[j]
  PROVE  LineOf(p, e, j) = LineOf(q, e, j)
  BY DEF LineOf

(* What is counted in an interval, and what At takes from one.              *)
LEMMA PlaceInterval ==
  ASSUME NEW a \in Nat, NEW n \in Nat
  PROVE  /\ Cardinality((a + 1)..(a + n)) = n
         /\ \A i \in 1..n : Place((a + 1)..(a + n), i) = a + i
  <1> DEFINE K == (a + 1)..(a + n)
  <1>1. \A x, y \in Int : Cardinality(x..y) = IF x > y THEN 0 ELSE y - x + 1
    BY FS_Interval
  <1>2. Cardinality(K) = n
    <2>1. a + 1 \in Int /\ a + n \in Int
      OBVIOUS
    <2> QED BY <1>1, <2>1
  <1>3. ASSUME NEW i \in 1..n PROVE Cardinality(Low(K, a + i)) = i - 1
    <2>1. Low(K, a + i) = (a + 1)..(a + i - 1)
      BY DEF Low
    <2>2. a + 1 \in Int /\ a + i - 1 \in Int
      OBVIOUS
    <2> QED BY <1>1, <2>1, <2>2
  <1>4. \A q \in K : \E i \in 1..n : q = a + i
    <2> TAKE q \in K
    <2>1. q - a \in 1..n /\ q = a + (q - a)
      OBVIOUS
    <2> QED BY <2>1
  <1>5. \A i \in 1..n : a + i \in K
    OBVIOUS
  <1> HIDE DEF K
  <1>6. ASSUME NEW i \in 1..n PROVE Place(K, i) = a + i
    <2>1. \E q \in K : Cardinality(Low(K, q)) = i - 1
      BY <1>3, <1>5
    <2>2. Place(K, i) \in K /\ Cardinality(Low(K, Place(K, i))) = i - 1
      BY <2>1 DEF Place
    <2>3. PICK h \in 1..n : Place(K, i) = a + h
      BY <1>4, <2>2
    <2>4. h - 1 = i - 1
      BY <1>3, <2>2, <2>3
    <2> QED BY <2>3, <2>4
  <1> QED BY <1>2, <1>6 DEF K

(* What At takes from a sequence at the positions of an interval.           *)
LEMMA AtInterval ==
  ASSUME NEW s, NEW a \in Nat, NEW n \in Nat
  PROVE  /\ IsSeq(At(s, (a + 1)..(a + n))) /\ Len(At(s, (a + 1)..(a + n))) = n
         /\ \A i \in 1..n : At(s, (a + 1)..(a + n))[i] = s[a + i]
  <1> DEFINE K == (a + 1)..(a + n)
  <1>1. Cardinality(K) = n /\ \A i \in 1..n : Place(K, i) = a + i
    BY PlaceInterval
  <1>2. K \subseteq 1..(a + n) /\ a + n \in Nat
    OBVIOUS
  <1> HIDE DEF K
  <1>3. At(s, K) = [i \in 1..Cardinality(K) |-> s[Place(K, i)]]
    BY DEF At, Place, Low
  <1>4. \A i \in 1..n : At(s, K)[i] = s[a + i]
    BY <1>1, <1>3
  <1>5. IsSeq(At(s, K)) /\ Len(At(s, K)) = Cardinality(K)
    BY <1>2, AtFacts
  <1> QED BY <1>1, <1>4, <1>5 DEF K

-----------------------------------------------------------------------------
(* Opening a directory                                                      *)

(* The ids of a sequence of lines.                                          *)
LEMMA IdsFacts ==
  ASSUME NEW s, IsSeq(s)
  PROVE  /\ IsSeq(Ids(s)) /\ Len(Ids(s)) = Len(s) /\ Len(s) \in Nat
         /\ \A i \in 1..Len(s) : Ids(s)[i] = s[i].id
  <1>1. Len(s) \in Nat /\ DOMAIN s = 1..Len(s)
    BY SeqIsFunction
  <1>2. Ids(s) = [i \in 1..Len(s) |-> s[i].id]
    BY <1>1 DEF Ids
  <1>3. Ids(s) = [i \in 1..Len(s) |-> Ids(s)[i]]
    BY <1>2
  <1>4. IsSeq(Ids(s)) /\ Len(Ids(s)) = Len(s)
    BY <1>1, <1>3, FunctionIsSeq
  <1> QED BY <1>1, <1>2, <1>4

(* Files that hold n commits open as these.                                 *)
LEMMA OpenedIsPrefix ==
  ASSUME NEW files, NEW p, NEW n, NEW e, HistoryInv(p, e), Holds(files, p, n, e)
  PROVE  Opened(files, e) = [i \in 1..n |-> p[i].id]
  <1> DEFINE sn == files.snapshot[e]
             content == sn.content
             log == files.log[e]
             c == Len(content)
             L == Len(log)
             d == n - L
  <1>1. /\ content \in Seq(Nat) /\ c \in Nat /\ DOMAIN content = 1..c
        /\ \A i \in 1..c : content[i] = p[i].id
        /\ n \in Nat /\ c <= n /\ n <= Len(p) /\ Len(p) \in Nat
        /\ sn.version = IF c = 0 THEN 0 ELSE c - Unversioned(e)
    BY DEF Holds, SnapshotOf, HistoryInv
  <1>2. log \in Seq(Lines) /\ L \in Nat /\ DOMAIN log = 1..L
    <2>1. log \in Seq(Lines)
      BY DEF Holds, LogOf
    <2> HIDE DEF log
    <2> QED BY <2>1
  <1>3. L <= n /\ \A i \in 1..L : log[i] = LineOf(p, e, d + i)
    BY DEF Holds, LogOf, InOrder
  <1>4. PICK k \in Nat : L = k + (n - c)
    BY DEF Holds, LogOf
  <1>5. \A i, j \in 1..Len(p) : i < j => p[i].id < p[j].id
    BY DEF HistoryInv
  <1>6. \A i \in 1..Len(p) : p[i].id \in Nat
    BY CommitFacts
  <1> HIDE DEF sn, content, log, c, L
  <1>7. d \in Nat /\ d <= c /\ d + k = c /\ d + L = n
    BY <1>1, <1>2, <1>3, <1>4
  <1> HIDE DEF d
  <1>8. ASSUME NEW i \in 1..L PROVE d + i \in 1..Len(p) /\ log[i].id = p[d + i].id
    <2>1. d + i \in 1..Len(p)
      BY <1>1, <1>2, <1>7
    <2>2. LineOf(p, e, d + i).id = p[d + i].id
      BY <2>1, LineFacts
    <2> QED BY <1>3, <2>1, <2>2
  <1>9. IsSeq(content) /\ IsSeq(log)
    BY <1>1, <1>2 DEF IsSeq
  (* A sequence of n numbers that are the ids. *)
  <1>10. ASSUME NEW r, IsSeq(r), Len(r) = n, \A i \in 1..n : r[i] = p[i].id
         PROVE  r = [i \in 1..n |-> p[i].id]
    <2>1. r = [i \in 1..n |-> r[i]]
      BY <1>10, SeqIsFunction
    <2> QED BY <1>10, <2>1
  <1>11. CASE e = "sql"
    <2> DEFINE new == {i \in DOMAIN log : log[i].version > sn.version}
               m == n - c
               a == At(log, new)
               r == content \o Ids(a)
    <2>1. Opened(files, e) = r
      BY <1>11 DEF Opened, sn, content, log
    <2>2. m \in Nat /\ L = k + m
      BY <1>1, <1>4
    <2>3. sn.version = c
      BY <1>1, <1>11, UnversionedFacts
    <2>4. ASSUME NEW i \in 1..L PROVE log[i].version = d + i
      <3>1. d + i \in 1..Len(p) /\ log[i] = LineOf(p, e, d + i)
        BY <1>3, <1>8
      <3>2. p[d + i].id # 0
        BY <1>11, <3>1, CommitFacts, UnversionedFacts
      <3>3. LineOf(p, e, d + i).version = (d + i) - Unversioned(e) /\ Unversioned(e) = 0
        BY <1>11, <3>1, <3>2, LineFacts, UnversionedFacts
      <3> QED BY <1>7, <3>1, <3>3
    <2>5. new = (k + 1)..(k + m)
      <3>1. new = {i \in 1..L : d + i > c}
        BY <1>2, <2>3, <2>4
      <3> QED BY <1>1, <1>7, <2>2, <3>1
    <2> HIDE DEF new, m
    <2>6. IsSeq(a) /\ Len(a) = m /\ \A i \in 1..m : a[i] = log[k + i]
      BY <2>2, <2>5, AtInterval
    <2> HIDE DEF a
    <2>7. IsSeq(Ids(a)) /\ Len(Ids(a)) = m /\ \A i \in 1..m : Ids(a)[i] = p[c + i].id
      <3>1. IsSeq(Ids(a)) /\ Len(Ids(a)) = Len(a) /\ \A i \in 1..Len(a) : Ids(a)[i] = a[i].id
        BY <2>6, IdsFacts
      <3>2. \A i \in 1..m : k + i \in 1..L /\ d + (k + i) = c + i
        BY <1>1, <1>7, <2>2
      <3> QED BY <1>8, <2>6, <3>1, <3>2
    <2>8. /\ IsSeq(r) /\ Len(r) = c + m
          /\ \A i \in 1..c : r[i] = content[i]
          /\ \A i \in 1..m : r[c + i] = Ids(a)[i]
      BY <1>9, <2>7, ConcatFacts DEF c
    <2> HIDE DEF r
    <2>9. Len(r) = n
      BY <1>1, <2>8 DEF m
    <2>10. ASSUME NEW i \in 1..n PROVE r[i] = p[i].id
      <3>1. CASE i \in 1..c
        BY <1>1, <2>8, <3>1
      <3>2. CASE i > c
        <4>1. i - c \in 1..m /\ c + (i - c) = i
          BY <1>1, <3>2 DEF m
        <4> QED BY <2>7, <2>8, <4>1
      <3> QED BY <1>1, <3>1, <3>2
    <2> QED BY <1>10, <2>1, <2>8, <2>9, <2>10
  <1>12. CASE e # "sql"
    <2> DEFINE kept == {i \in DOMAIN content : content[i] \notin Range(Ids(log))}
               b == At(content, kept)
               r == b \o Ids(log)
    <2>1. Opened(files, e) = r
      BY <1>12 DEF Opened, sn, content, log
    <2>2. IsSeq(Ids(log)) /\ Len(Ids(log)) = L /\ \A i \in 1..L : Ids(log)[i] = p[d + i].id
      <3>1. /\ IsSeq(Ids(log)) /\ Len(Ids(log)) = Len(log)
            /\ \A i \in 1..Len(log) : Ids(log)[i] = log[i].id
        BY <1>9, IdsFacts
      <3> QED BY <1>8, <3>1 DEF L
    <2>3. DOMAIN Ids(log) = 1..L
      BY <1>2 DEF Ids
    <2>4. kept = (0 + 1)..(0 + d)
      <3>1. ASSUME NEW i \in 1..d PROVE i \in kept
        <4>1. i \in 1..c /\ i \in 1..Len(p)
          BY <1>1, <1>7
        <4>2. ASSUME NEW j \in 1..L PROVE Ids(log)[j] # content[i]
          <5>1. d + j \in 1..Len(p) /\ i < d + j
            BY <1>7, <1>8
          <5>2. p[i].id < p[d + j].id /\ p[i].id \in Nat /\ p[d + j].id \in Nat
            BY <1>5, <1>6, <4>1, <5>1
          <5> QED BY <1>1, <2>2, <4>1, <5>2
        <4>3. content[i] \notin Range(Ids(log))
          BY <2>3, <4>2 DEF Range
        <4> QED BY <1>1, <4>1, <4>3
      <3>2. ASSUME NEW i \in kept PROVE i \in 1..d
        <4>1. i \in 1..c /\ content[i] \notin Range(Ids(log))
          BY <1>1
        <4> SUFFICES ASSUME i > d PROVE FALSE
          BY <1>1, <1>7, <4>1
        <4>2. i - d \in 1..L /\ d + (i - d) = i
          BY <1>1, <1>2, <1>7, <4>1
        <4>3. Ids(log)[i - d] = content[i]
          BY <1>1, <2>2, <4>1, <4>2
        <4>4. content[i] \in Range(Ids(log))
          BY <2>3, <4>2, <4>3 DEF Range
        <4> QED BY <4>1, <4>4
      <3> HIDE DEF kept
      <3>3. kept = 1..d
        BY <3>1, <3>2
      <3> QED BY <1>7, <3>3
    <2> HIDE DEF kept
    <2>5. IsSeq(b) /\ Len(b) = d /\ \A i \in 1..d : b[i] = content[i]
      <3>1. 0 \in Nat /\ \A i \in 1..d : 0 + i = i
        BY <1>7
      <3> DEFINE x == At(content, (0 + 1)..(0 + d))
      <3>2. IsSeq(x) /\ Len(x) = d /\ \A i \in 1..d : x[i] = content[0 + i]
        BY <1>7, <3>1, AtInterval
      <3>3. b = x
        BY <2>4
      <3> HIDE DEF x, b
      <3> QED BY <3>1, <3>2, <3>3
    <2> HIDE DEF b
    <2>6. /\ IsSeq(r) /\ Len(r) = d + L
          /\ \A i \in 1..d : r[i] = b[i]
          /\ \A i \in 1..L : r[d + i] = Ids(log)[i]
      BY <2>2, <2>5, ConcatFacts
    <2> HIDE DEF r
    <2>7. ASSUME NEW i \in 1..n PROVE r[i] = p[i].id
      <3>1. CASE i \in 1..d
        <4>1. i \in 1..c
          BY <1>1, <1>7, <3>1
        <4> QED BY <1>1, <2>5, <2>6, <3>1, <4>1
      <3>2. CASE i > d
        <4>1. i - d \in 1..L /\ d + (i - d) = i
          BY <1>1, <1>2, <1>7, <3>2
        <4> QED BY <2>2, <2>6, <4>1
      <3> QED BY <1>1, <1>7, <3>1, <3>2
    <2> QED BY <1>7, <1>10, <2>1, <2>6, <2>7
  <1> QED BY <1>11, <1>12

-----------------------------------------------------------------------------
(* The records of several files                                             *)

From(lines, p, e) ==
  /\ lines \in Seq(Lines)
  /\ \A i \in 1..Len(lines) : \E j \in 1..Len(p) : lines[i] = LineOf(p, e, j)

AllFrom(segments, p, e) ==
  /\ IsSeq(segments)
  /\ \A s \in 1..Len(segments) : From(segments[s], p, e)

InSome(segments, v) == \E s \in 1..Len(segments) : v \in Versions(segments[s])

(* The record of a version is in a backup, or in the directory d.           *)
Reaches(files, d, v, e) ==
  \/ v \in Versions(files.log[e]) \/ InSome(files.archive[e], v)
  \/ InSome(d.archive[e], v) \/ v \in Versions(d.log[e])

PruneInv ==
  backup.state = "published" =>
    \A e \in Engines :
      LET base == backup.files.snapshot[e]
      IN base.time > 0 /\ base.time >= pruned =>
           \A v \in (base.version + 1)..(Len(past[e]) - Unversioned(e)) :
             Reaches(backup.files, dir, v, e)

RecInv == DirInv /\ BackupInv /\ DestInv /\ PruneInv

(* The files that hold commits of a history have lines of it only.          *)
LEMMA HoldsFrom ==
  ASSUME NEW files, NEW p, NEW n, NEW e, HistoryInv(p, e), Holds(files, p, n, e)
  PROVE  From(files.log[e], p, e) /\ AllFrom(files.archive[e], p, e)
  <1> DEFINE c == Len(files.snapshot[e].content)
             log == files.log[e]
             arc == files.archive[e]
  <1>1. c \in Nat /\ n \in Nat /\ c <= n /\ n <= Len(p) /\ Len(p) \in Nat
    BY DEF Holds, SnapshotOf, HistoryInv
  <1>2. LogOf(log, p, c, n, e) /\ ArchiveOf(arc, p, c, e)
    BY DEF Holds
  <1> HIDE DEF c, log, arc
  <1>3. From(log, p, e)
    <2>1. PICK k \in Nat :
            /\ Len(log) = k + (n - c)
            /\ \A i \in 1..k : \E j \in 1..c : log[i] = LineOf(p, e, j)
            /\ \A i \in 1..(n - c) : log[k + i] = LineOf(p, e, c + i)
      BY <1>2 DEF LogOf
    <2>2. log \in Seq(Lines)
      BY <1>2 DEF LogOf
    <2>3. ASSUME NEW i \in 1..Len(log) PROVE \E j \in 1..Len(p) : log[i] = LineOf(p, e, j)
      <3>1. CASE i \in 1..k
        <4>1. PICK j \in 1..c : log[i] = LineOf(p, e, j)
          BY <2>1, <3>1
        <4>2. j \in 1..Len(p)
          BY <1>1
        <4> QED BY <4>1, <4>2
      <3>2. CASE i > k
        <4>1. i - k \in 1..(n - c) /\ k + (i - k) = i /\ c + (i - k) \in 1..Len(p)
          BY <1>1, <2>1, <3>2
        <4>2. log[i] = LineOf(p, e, c + (i - k))
          BY <2>1, <4>1
        <4> QED BY <4>1, <4>2
      <3> QED BY <2>1, <3>1, <3>2
    <2> QED BY <2>2, <2>3 DEF From
  <1>4. AllFrom(arc, p, e)
    <2>1. arc \in Seq(Seq(Lines))
      BY <1>2 DEF ArchiveOf
    <2>2. ASSUME NEW s \in 1..Len(arc) PROVE From(arc[s], p, e)
      <3>1. arc[s] \in Seq(Lines)
        BY <2>1
      <3>2. \A i \in 1..Len(arc[s]) : \E j \in 1..c : arc[s][i] = LineOf(p, e, j)
        BY <1>2 DEF ArchiveOf
      <3>3. \A j \in 1..c : j \in 1..Len(p)
        BY <1>1
      <3> QED BY <3>1, <3>2, <3>3 DEF From
    <2>3. IsSeq(arc)
      BY <2>1 DEF IsSeq
    <2> QED BY <2>2, <2>3 DEF AllFrom
  <1> QED BY <1>3, <1>4 DEF log, arc

(* A version of a file is that of one commit.                               *)
LEMMA VersionFacts ==
  ASSUME NEW lines, NEW p, NEW e, HistoryInv(p, e), From(lines, p, e),
         NEW v \in Versions(lines)
  PROVE  /\ v \in Nat /\ v > 0 /\ v + Unversioned(e) \in 1..Len(p)
         /\ p[v + Unversioned(e)].id # 0
         /\ FirstRecord(lines, v) = LineOf(p, e, v + Unversioned(e))
  <1>1. lines \in Seq(Lines) /\ Len(lines) \in Nat /\ DOMAIN lines = 1..Len(lines)
    BY DEF From
  <1>2. PICK h \in 1..Len(lines) : lines[h].version = v /\ IsRecord(lines[h])
    BY <1>1 DEF Versions
  <1>3. ASSUME NEW i \in 1..Len(lines), lines[i].version = v
        PROVE  /\ v \in Nat /\ v > 0 /\ v + Unversioned(e) \in 1..Len(p)
               /\ p[v + Unversioned(e)].id # 0
               /\ lines[i] = LineOf(p, e, v + Unversioned(e))
    <2>1. PICK j \in 1..Len(p) : lines[i] = LineOf(p, e, j)
      BY DEF From
    <2>2. IsRecord(lines[i])
      BY <1>2, <1>3 DEF IsRecord
    <2>3. /\ p[j].id # 0 /\ v = j - Unversioned(e) /\ v \in Nat /\ v > 0
      BY <1>3, <2>1, <2>2, LineFacts
    <2>4. v + Unversioned(e) = j
      BY <2>3, UnversionedFacts
    <2> QED BY <2>1, <2>3, <2>4
  <1> DEFINE P == {i \in 1..Len(lines) : lines[i].version = v}
  <1>4. PICK f \in P : \A i \in P : f <= i
    <2>1. P \subseteq Nat /\ P # {}
      BY <1>2
    <2> HIDE DEF P
    <2> QED BY <2>1, LeastNumber
  <1>5. /\ f \in DOMAIN lines /\ lines[f].version = v
        /\ \A j \in 1..(f - 1) : lines[j].version # v
    <2>1. f \in 1..Len(lines) /\ lines[f].version = v
      BY <1>4
    <2>2. ASSUME NEW j \in 1..(f - 1), lines[j].version = v PROVE FALSE
      <3>1. j \in P
        BY <1>1, <2>1, <2>2
      <3>2. f <= j
        BY <1>4, <3>1
      <3> QED BY <2>1, <3>2
    <2> QED BY <1>1, <2>1, <2>2
  <1>6. PICK g \in DOMAIN lines : /\ lines[g].version = v
                                  /\ FirstRecord(lines, v) = lines[g]
    BY <1>5 DEF FirstRecord
  <1>7. g \in 1..Len(lines)
    BY <1>1
  <1> QED BY <1>3, <1>6, <1>7

(* The same for several files.                                              *)
LEMMA FirstFacts ==
  ASSUME NEW segments, NEW p, NEW e, HistoryInv(p, e), AllFrom(segments, p, e),
         NEW v, InSome(segments, v)
  PROVE  /\ v \in Nat /\ v > 0 /\ v + Unversioned(e) \in 1..Len(p)
         /\ p[v + Unversioned(e)].id # 0
         /\ FirstRecord(FirstFile(segments, v), v) = LineOf(p, e, v + Unversioned(e))
  <1>1. Len(segments) \in Nat /\ DOMAIN segments = 1..Len(segments)
    BY SeqIsFunction DEF AllFrom
  <1> DEFINE P == {i \in 1..Len(segments) : v \in Versions(segments[i])}
  <1>2. PICK f \in P : \A i \in P : f <= i
    <2>1. P \subseteq Nat /\ P # {}
      BY <1>1 DEF InSome
    <2> HIDE DEF P
    <2> QED BY <2>1, LeastNumber
  <1>3. /\ f \in DOMAIN segments /\ v \in Versions(segments[f])
        /\ \A j \in 1..(f - 1) : v \notin Versions(segments[j])
    <2>1. f \in 1..Len(segments) /\ v \in Versions(segments[f])
      BY <1>2
    <2>2. ASSUME NEW j \in 1..(f - 1), v \in Versions(segments[j]) PROVE FALSE
      <3>1. j \in P
        BY <1>1, <2>1, <2>2
      <3>2. f <= j
        BY <1>2, <3>1
      <3> QED BY <2>1, <3>2
    <2> QED BY <1>1, <2>1, <2>2
  <1>4. PICK g \in DOMAIN segments : /\ v \in Versions(segments[g])
                                     /\ FirstFile(segments, v) = segments[g]
    BY <1>3 DEF FirstFile
  <1>5. From(segments[g], p, e)
    BY <1>1 DEF AllFrom
  <1> QED BY <1>4, <1>5, VersionFacts

(* What Records has: the records of the files, each as the line of its      *)
(* commit.                                                                  *)
LEMMA RecordsFacts ==
  ASSUME NEW p, NEW e, HistoryInv(p, e), NEW log, NEW b, NEW x,
         From(log, p, e), AllFrom(b, p, e), AllFrom(x, p, e),
         NEW R, R = Records((<<log>> \o b) \o x)
  PROVE  /\ \A v : v \in DOMAIN R <=> \/ v \in Versions(log)
                                      \/ InSome(b, v) \/ InSome(x, v)
         /\ \A v \in DOMAIN R : /\ v \in Nat /\ v > 0
                                /\ v + Unversioned(e) \in 1..Len(p)
                                /\ p[v + Unversioned(e)].id # 0
                                /\ R[v] = LineOf(p, e, v + Unversioned(e))
  <1> DEFINE a == <<log>>
             s == (a \o b) \o x
             D == UNION {Versions(s[i]) : i \in DOMAIN s}
  <1>1. R = [v \in D |-> FirstRecord(FirstFile(s, v), v)]
    BY DEF Records
  <1>2. AllFrom(a, p, e)
    <2>1. a \in Seq({log}) /\ Len(a) = 1 /\ a[1] = log
      OBVIOUS
    <2>2. IsSeq(a)
      BY <2>1 DEF IsSeq
    <2> HIDE DEF a
    <2>3. \A i \in 1..Len(a) : a[i] = log
      BY <2>1
    <2> QED BY <2>2, <2>3 DEF AllFrom
  <1>3. \A v : InSome(a, v) <=> v \in Versions(log)
    <2>1. Len(a) = 1 /\ a[1] = log
      OBVIOUS
    <2> HIDE DEF a
    <2> QED BY <2>1 DEF InSome
  <1> HIDE DEF a
  <1>4. ASSUME NEW s1, NEW s2, AllFrom(s1, p, e), AllFrom(s2, p, e)
        PROVE  /\ AllFrom(s1 \o s2, p, e)
               /\ \A v : InSome(s1 \o s2, v) <=> InSome(s1, v) \/ InSome(s2, v)
    <2> DEFINE t == s1 \o s2
    <2>1. /\ IsSeq(t) /\ Len(s1) \in Nat /\ Len(s2) \in Nat /\ Len(t) = Len(s1) + Len(s2)
          /\ \A i \in 1..Len(s1) : t[i] = s1[i]
          /\ \A i \in 1..Len(s2) : t[Len(s1) + i] = s2[i]
      BY <1>4, ConcatFacts DEF AllFrom
    <2> HIDE DEF t
    <2>2. ASSUME NEW i \in 1..Len(t)
          PROVE  \/ i \in 1..Len(s1) /\ t[i] = s1[i]
                 \/ \E j \in 1..Len(s2) : t[i] = s2[j]
      <3>1. CASE i \in 1..Len(s1)
        BY <2>1, <3>1
      <3>2. CASE i > Len(s1)
        <4>1. i - Len(s1) \in 1..Len(s2) /\ Len(s1) + (i - Len(s1)) = i
          BY <2>1, <3>2
        <4> QED BY <2>1, <4>1
      <3> QED BY <2>1, <3>1, <3>2
    <2>3. /\ \A i \in 1..Len(s1) : i \in 1..Len(t)
          /\ \A i \in 1..Len(s2) : Len(s1) + i \in 1..Len(t)
      BY <2>1
    <2>4. AllFrom(t, p, e)
      BY <1>4, <2>1, <2>2 DEF AllFrom
    <2>5. ASSUME NEW v PROVE InSome(t, v) <=> InSome(s1, v) \/ InSome(s2, v)
      <3>1. InSome(t, v) => InSome(s1, v) \/ InSome(s2, v)
        BY <2>2 DEF InSome
      <3>2. InSome(s1, v) => InSome(t, v)
        BY <2>1, <2>3 DEF InSome
      <3>3. InSome(s2, v) => InSome(t, v)
        BY <2>1, <2>3 DEF InSome
      <3> QED BY <3>1, <3>2, <3>3
    <2> QED BY <2>4, <2>5 DEF t
  <1>5. /\ AllFrom(s, p, e)
        /\ \A v : InSome(s, v) <=> InSome(a, v) \/ InSome(b, v) \/ InSome(x, v)
    BY <1>2, <1>4
  <1> HIDE DEF s
  <1>6. \A v : v \in D <=> InSome(s, v)
    <2>1. DOMAIN s = 1..Len(s)
      BY <1>5, SeqIsFunction DEF AllFrom
    <2> QED BY <2>1 DEF InSome
  <1> HIDE DEF D
  <1>7. \A v \in D : /\ v \in Nat /\ v > 0 /\ v + Unversioned(e) \in 1..Len(p)
                     /\ p[v + Unversioned(e)].id # 0
                     /\ FirstRecord(FirstFile(s, v), v) = LineOf(p, e, v + Unversioned(e))
    BY <1>5, <1>6, FirstFacts
  <1>8. DOMAIN R = D /\ \A v \in D : R[v] = FirstRecord(FirstFile(s, v), v)
    BY <1>1
  <1> QED BY <1>3, <1>5, <1>6, <1>7, <1>8

(* The same for what a restore collects.                                    *)
LEMMA CollectedFacts ==
  ASSUME NEW files, NEW external, NEW p, NEW e, HistoryInv(p, e),
         From(files.log[e], p, e), AllFrom(files.archive[e], p, e),
         external => AllFrom(dir.archive[e], p, e)
  PROVE  LET R == Collected(files, external, e)
         IN /\ \A v : v \in DOMAIN R <=> \/ v \in Versions(files.log[e])
                                         \/ InSome(files.archive[e], v)
                                         \/ external /\ InSome(dir.archive[e], v)
            /\ \A v \in DOMAIN R : /\ v \in Nat /\ v > 0
                                   /\ v + Unversioned(e) \in 1..Len(p)
                                   /\ p[v + Unversioned(e)].id # 0
                                   /\ R[v] = LineOf(p, e, v + Unversioned(e))
  <1> DEFINE x == IF external THEN dir.archive[e] ELSE <<>>
             log == files.log[e]
             b == files.archive[e]
             R == Collected(files, external, e)
  <1>1. AllFrom(x, p, e)
    <2>1. CASE external
      BY <2>1
    <2>2. CASE ~external
      <3>1. x = <<>> /\ <<>> \in Seq({}) /\ Len(<<>>) = 0
        BY <2>2
      <3> HIDE DEF x
      <3>2. IsSeq(x) /\ Len(x) = 0
        BY <3>1 DEF IsSeq
      <3> QED BY <3>2 DEF AllFrom
    <2> QED BY <2>1, <2>2
  <1>2. \A v : InSome(x, v) <=> external /\ InSome(dir.archive[e], v)
    <2>1. CASE external
      BY <2>1
    <2>2. CASE ~external
      <3>1. Len(<<>>) = 0 /\ x = <<>>
        BY <2>2
      <3> HIDE DEF x
      <3> QED BY <3>1, <2>2 DEF InSome
    <2> QED BY <2>1, <2>2
  <1>3. R = Records((<<log>> \o b) \o x)
    BY DEF Collected
  <1> HIDE DEF x, R
  <1>4. /\ \A v : v \in DOMAIN R <=> v \in Versions(log) \/ InSome(b, v) \/ InSome(x, v)
        /\ \A v \in DOMAIN R : /\ v \in Nat /\ v > 0
                               /\ v + Unversioned(e) \in 1..Len(p)
                               /\ p[v + Unversioned(e)].id # 0
                               /\ R[v] = LineOf(p, e, v + Unversioned(e))
    BY <1>1, <1>3, RecordsFacts
  <1> QED BY <1>2, <1>4 DEF R

-----------------------------------------------------------------------------
(* Restoring                                                                *)

(* A function on 1..n is a sequence of its values.                          *)
LEMMA FunctionInSeq ==
  ASSUME NEW n \in Nat, NEW S, NEW f \in [1..n -> S]
  PROVE  f \in Seq(S) /\ Len(f) = n
  OBVIOUS

(* A sequence whose elements are in a set.                                  *)
LEMMA SequenceOver ==
  ASSUME NEW s, IsSeq(s), NEW S, \A i \in 1..Len(s) : s[i] \in S
  PROVE  s \in Seq(S)
  <1>1. Len(s) \in Nat /\ s = [i \in 1..Len(s) |-> s[i]]
    BY SeqIsFunction
  <1>2. s \in [1..Len(s) -> S]
    BY <1>1
  <1> QED BY <1>1, <1>2, FunctionInSeq

(* The greatest element of a bounded set.                                   *)
LEMMA MaxFacts ==
  ASSUME NEW b \in Nat, NEW S, S \subseteq 0..b, S # {}
  PROVE  Max(S) \in S /\ Max(S) \in Nat /\ \A x \in S : x <= Max(S)
  <1>1. \E m \in S : \A x \in S : x <= m
    BY GreatestNumber
  <1>2. \E m \in S : \A x \in S : m >= x
    <2>1. PICK m \in S : \A x \in S : x <= m
      BY <1>1
    <2>2. \A x \in S : m >= x
      BY <2>1
    <2> QED BY <2>2
  <1>3. Max(S) \in S /\ \A x \in S : Max(S) >= x
    BY <1>2 DEF Max
  <1>4. \A x \in S : x \in Nat
    OBVIOUS
  <1> QED BY <1>3, <1>4

(* The legacy lines of a log of the history.                                *)
LEMMA LegacyLines ==
  ASSUME NEW lines, NEW p, NEW e, HistoryInv(p, e), From(lines, p, e)
  PROVE  LET K == LegacyAt(lines)
         IN /\ IsSeq(At(lines, K)) /\ Len(At(lines, K)) = Cardinality(K)
            /\ Cardinality(K) \in Nat
            /\ \A i \in 1..Cardinality(K) : At(lines, K)[i] = LineOf(p, e, 1)
            /\ K # {} => e \in Legacy /\ Len(p) > 0
            /\ \A i \in K : lines[i] = LineOf(p, e, 1) /\ lines[i] = LegacyLine
  <1> DEFINE K == LegacyAt(lines)
  <1>1. lines \in Seq(Lines) /\ Len(lines) \in Nat /\ DOMAIN lines = 1..Len(lines)
    BY DEF From
  <1>2. K \subseteq 1..Len(lines)
    BY <1>1 DEF LegacyAt
  <1>3. ASSUME NEW i \in K
        PROVE  lines[i] = LineOf(p, e, 1) /\ lines[i] = LegacyLine /\ e \in Legacy /\ Len(p) > 0
    <2>1. i \in 1..Len(lines) /\ ~IsRecord(lines[i])
      BY <1>1 DEF LegacyAt
    <2>2. PICK j \in 1..Len(p) : lines[i] = LineOf(p, e, j)
      BY <2>1 DEF From
    <2>3. p[j].id = 0
      BY <2>1, <2>2, LineFacts
    <2>4. j = 1 /\ e \in Legacy
      BY <2>3, CommitFacts
    <2>5. LineOf(p, e, j) = LegacyLine
      BY <2>3, LineFacts
    <2>6. Len(p) \in Nat
      BY DEF HistoryInv
    <2> QED BY <2>2, <2>4, <2>5, <2>6
  <1> HIDE DEF K
  <1>4. /\ IsSeq(At(lines, K)) /\ Len(At(lines, K)) = Cardinality(K) /\ Cardinality(K) \in Nat
        /\ \A i \in 1..Cardinality(K) : \E x \in K : At(lines, K)[i] = lines[x]
    <2> DEFINE N == Len(lines)
    <2>1. N \in Nat /\ K \subseteq 1..N
      BY <1>1, <1>2
    <2> HIDE DEF N
    <2>2. /\ IsSeq(At(lines, K)) /\ Len(At(lines, K)) = Cardinality(K) /\ Cardinality(K) \in Nat
      BY <2>1, AtFacts
    <2>3. \A i \in 1..Cardinality(K) : \E x \in K : At(lines, K)[i] = lines[x]
      <3>1. At(lines, K) = [i \in 1..Cardinality(K) |-> lines[Place(K, i)]]
        BY DEF At, Place, Low
      <3>2. \A i \in 1..Cardinality(K) : Place(K, i) \in K
        BY <2>1, PlaceFacts
      <3> QED BY <3>1, <3>2
    <2> QED BY <2>2, <2>3
  <1>5. \A i \in 1..Cardinality(K) : At(lines, K)[i] = LineOf(p, e, 1)
    BY <1>3, <1>4
  <1> QED BY <1>3, <1>4, <1>5 DEF K

(* A snapshot's version is never negative.                                  *)
LEMMA BaseFacts ==
  ASSUME NEW sn, NEW p, NEW e, HistoryInv(p, e), SnapshotOf(sn, p, e)
  PROVE  /\ Len(sn.content) \in Nat /\ sn.version \in Nat /\ Len(p) \in Nat
         /\ sn.version <= Len(p)
         /\ Len(sn.content) > 0 => sn.version + Unversioned(e) = Len(sn.content)
         /\ Len(sn.content) = 0 => sn.version = 0
         /\ sn.time > 0 => sn.version + Unversioned(e) = Len(sn.content)
  <1> DEFINE c == Len(sn.content)
  <1>1. c \in Nat /\ Len(p) \in Nat /\ c <= Len(p) /\ sn.time \in Nat
    BY DEF SnapshotOf, HistoryInv
  <1>2. sn.version = IF c = 0 THEN 0 ELSE c - Unversioned(e)
    BY DEF SnapshotOf
  <1>3. sn.time > 0 /\ e \in Legacy => c > 0
    BY DEF SnapshotOf
  <1> HIDE DEF c
  <1>4. /\ sn.version \in Nat /\ sn.version <= Len(p)
        /\ c > 0 => sn.version + Unversioned(e) = c
        /\ c = 0 => sn.version = 0
    BY <1>1, <1>2, UnversionedFacts
  <1>5. sn.time > 0 => sn.version + Unversioned(e) = c
    <2>1. CASE c > 0
      BY <1>4, <2>1
    <2>2. CASE c = 0 /\ sn.time > 0
      BY <1>3, <1>4, <2>2, UnversionedFacts
    <2> QED BY <1>1, <2>1, <2>2
  <1> QED BY <1>1, <1>4, <1>5 DEF c

(* The lines that a restore without a gap writes: q legacy lines and the    *)
(* records of t commits after the snapshot.                                 *)
Restored(W, p, e, base, q, t) ==
  /\ q \in Nat /\ t \in Nat /\ IsSeq(W) /\ Len(W) = q + t
  /\ \A i \in 1..q : W[i] = LineOf(p, e, 1)
  /\ \A i \in 1..t : /\ W[q + i] = LineOf(p, e, base + i + Unversioned(e))
                     /\ base + i + Unversioned(e) \in 1..Len(p)
                     /\ p[base + i + Unversioned(e)].id # 0

(* The log a restore writes: legacy lines, then consecutive records.        *)
LEMMA RestoredLines ==
  ASSUME NEW files, NEW p, NEW n, NEW e, HistoryInv(p, e), Holds(files, p, n, e),
         NEW external, external => AllFrom(dir.archive[e], p, e), NEW target,
         NEW run, run = RestoreEngine(files, external, target, e), run.ok,
         NEW base, base = files.snapshot[e].version
  PROVE  \E t : /\ Restored(run.log, p, e, base, Cardinality(LegacyAt(files.log[e])), t)
                /\ run.point = base + t
                /\ Taken(Collected(files, external, e), base, target, e)
                     = (base + 1)..(base + t)
  <1> DEFINE R == Collected(files, external, e)
             log == files.log[e]
             K == LegacyAt(log)
             taken == Taken(R, base, target, e)
             q == Cardinality(K)
             L == At(log, K)
             A == At(R, taken)
  <1>1. /\ run.log = L \o A /\ run.point = Max(taken \union {base})
        /\ Complete(base, taken)
    BY DEF RestoreEngine
  <1>2. From(log, p, e) /\ AllFrom(files.archive[e], p, e)
    BY HoldsFrom
  <1>3. base \in Nat /\ base <= Len(p) /\ Len(p) \in Nat
    BY BaseFacts DEF Holds
  <1>4. \A v \in DOMAIN R : /\ v \in Nat /\ v > 0 /\ v + Unversioned(e) \in 1..Len(p)
                            /\ p[v + Unversioned(e)].id # 0
                            /\ R[v] = LineOf(p, e, v + Unversioned(e))
    BY <1>2, CollectedFacts
  <1>5. /\ IsSeq(L) /\ Len(L) = q /\ q \in Nat
        /\ \A i \in 1..q : L[i] = LineOf(p, e, 1)
    BY <1>2, LegacyLines
  <1>6. \A v \in taken : v \in DOMAIN R
    BY DEF Taken
  <1> HIDE DEF R, q, L
  <1>7. PICK t \in Nat : taken = (base + 1)..(base + t) /\ Max(taken \union {base}) = base + t
    <2>1. \A v \in DOMAIN R : v \in 0..Len(p)
      BY <1>3, <1>4, UnversionedFacts
    <2>2. taken \subseteq 0..Len(p) /\ (\A v \in taken : v > base)
      BY <2>1 DEF Taken
    <2> HIDE DEF taken
    <2>3. Complete(base, taken)
      BY <1>1
    <2> DEFINE m == Max(taken \union {base})
    <2>4. m \in taken \union {base} /\ \A x \in taken \union {base} : x <= m
      <3>0. base \in 0..Len(p)
        BY <1>3
      <3>1. taken \union {base} \subseteq 0..Len(p) /\ taken \union {base} # {}
        BY <2>2, <3>0, Zenon
      <3> QED BY <1>3, <3>1, MaxFacts
    <2> HIDE DEF m
    <2>5. m \in Nat /\ base \in Nat /\ base <= m
      BY <1>3, <2>2, <2>4
    <2>6. ASSUME NEW v \in taken PROVE v \in (base + 1)..m
      <3>1. v \in Nat /\ v > base /\ v <= m
        BY <1>3, <2>2, <2>4
      <3> QED BY <2>5, <3>1
    <2>7. ASSUME NEW v \in (base + 1)..m PROVE v \in taken
      <3>1. m # base
        BY <2>5
      <3>2. m \in taken
        BY <2>4, <3>1
      <3> QED BY <2>3, <3>2 DEF Complete
    <2>8. taken = (base + 1)..m
      BY <2>6, <2>7
    <2>9. m - base \in Nat /\ base + (m - base) = m
      BY <2>5
    <2>10. taken = (base + 1)..(base + (m - base)) /\ m = base + (m - base)
      BY <2>8, <2>9
    <2> QED BY <2>9, <2>10 DEF m
  <1> HIDE DEF taken
  <1>8. IsSeq(A) /\ Len(A) = t /\ \A i \in 1..t : A[i] = R[base + i]
    <2>1. base \in Nat /\ taken = (base + 1)..(base + t)
      BY <1>3, <1>7
    <2>2. Cardinality(taken) = t /\ \A i \in 1..t : Place(taken, i) = base + i
      BY <2>1, PlaceInterval
    <2>3. A = [i \in 1..Cardinality(taken) |-> R[Place(taken, i)]]
      BY DEF At, Place, Low
    <2>4. \A i \in 1..t : A[i] = R[base + i]
      BY <2>2, <2>3
    <2>5. A = [i \in 1..t |-> A[i]]
      BY <2>2, <2>3
    <2> HIDE DEF A
    <2> QED BY <2>4, <2>5, FunctionIsSeq
  <1> HIDE DEF A
  <1>9. ASSUME NEW i \in 1..t
        PROVE  /\ A[i] = LineOf(p, e, base + i + Unversioned(e))
               /\ base + i + Unversioned(e) \in 1..Len(p)
               /\ p[base + i + Unversioned(e)].id # 0
    <2>1. base + i \in taken
      BY <1>3, <1>7
    <2> QED BY <1>4, <1>6, <1>8, <2>1
  <1> DEFINE W == L \o A
  <1>10. /\ IsSeq(W) /\ Len(W) = q + t
         /\ \A i \in 1..q : W[i] = L[i]
         /\ \A i \in 1..t : W[q + i] = A[i]
    BY <1>5, <1>8, ConcatFacts
  <1> HIDE DEF W
  <1>11. Restored(W, p, e, base, q, t)
    BY <1>5, <1>9, <1>10 DEF Restored
  <1>12. run.log = W /\ run.point = base + t
    BY <1>1, <1>7 DEF W
  <1> QED BY <1>7, <1>11, <1>12 DEF q, taken, R

(* Such lines are a log again.                                              *)
LEMMA LogAgain ==
  ASSUME NEW p, NEW e, HistoryInv(p, e), NEW c \in Nat, c <= Len(p),
         e \in Legacy => Len(p) > 0,
         NEW base \in Nat, c > 0 => base + Unversioned(e) = c, c = 0 => base = 0,
         NEW W, NEW q, NEW t, Restored(W, p, e, base, q, t),
         q > 0 => e \in Legacy /\ q = 1 /\ base = 0, c = 0 /\ e \in Legacy => q = 1
  PROVE  \E m \in Nat :
           /\ c <= m /\ m <= Len(p) /\ (e \in Legacy => m > 0)
           /\ LogOf(W, p, c, m, e)
           /\ m = base + t + Unversioned(e)
  <1> DEFINE U == Unversioned(e)
             N == Len(p)
  <1>1. U \in {0, 1} /\ (U = 1 <=> e \in Legacy)
    BY UnversionedFacts
  <1>2. /\ Len(W) = q + t /\ q \in Nat /\ t \in Nat /\ IsSeq(W)
        /\ \A i \in 1..q : W[i] = LineOf(p, e, 1)
        /\ \A i \in 1..t : /\ W[q + i] = LineOf(p, e, base + i + U)
                           /\ base + i + U \in 1..N
                           /\ p[base + i + U].id # 0
    BY DEF Restored
  <1>3. /\ N \in Nat /\ (c > 0 => base + U = c) /\ (c = 0 => base = 0) /\ c <= N
        /\ (e \in Legacy => N > 0) /\ base \in Nat /\ c \in Nat
    BY DEF HistoryInv
  <1>4. \A j \in 1..N : LineOf(p, e, j) \in Lines
    BY LineFacts
  <1>5. e \in Legacy => p[1].id = 0
    BY DEF HistoryInv
  <1> HIDE DEF U, N
  <1>6. W \in Seq(Lines)
    <2>1. ASSUME NEW i \in 1..Len(W) PROVE W[i] \in Lines
      <3>1. CASE i \in 1..q
        <4>1. 1 \in 1..N
          BY <1>2, <1>3, <3>1
        <4> QED BY <1>2, <1>4, <3>1, <4>1
      <3>2. CASE i > q
        <4>1. i - q \in 1..t /\ q + (i - q) = i
          BY <1>2, <3>2
        <4> QED BY <1>2, <1>4, <4>1
      <3> QED BY <1>2, <3>1, <3>2
    <2> QED BY <1>2, <2>1, SequenceOver
  <1>7. CASE c > 0
    <2> DEFINE m == c + t
    <2>1. m \in Nat /\ c <= m /\ m > 0 /\ m - c = t /\ m = base + t + U
      BY <1>1, <1>2, <1>3, <1>7
    <2>2. m <= N
      <3>1. CASE t = 0
        BY <1>3, <3>1
      <3>2. CASE t > 0
        <4>1. t \in 1..t
          BY <1>2, <3>2
        <4>2. base + t + U \in 1..N
          BY <1>2, <4>1
        <4> QED BY <1>3, <2>1, <4>2
      <3> QED BY <1>2, <3>1, <3>2
    <2>3. LogOf(W, p, c, m, e)
      <3>1. Len(W) = q + (m - c)
        BY <1>2, <2>1
      <3>2. \A i \in 1..q : \E j \in 1..c : W[i] = LineOf(p, e, j)
        <4>1. 1 \in 1..c
          BY <1>3, <1>7
        <4> QED BY <1>2, <4>1
      <3>3. ASSUME NEW i \in 1..(m - c) PROVE W[q + i] = LineOf(p, e, c + i)
        <4>1. i \in 1..t
          BY <2>1
        <4>2. base + i + U = c + i
          BY <1>1, <1>3, <1>7, <4>1
        <4> QED BY <1>2, <4>1, <4>2
      <3>4. InOrder(W, p, m, e)
        <4>1. q \in {0, 1} /\ (q = 1 => c = 1)
          BY <1>1, <1>2, <1>3, <1>7
        <4>2. Len(W) <= m /\ m - Len(W) = c - q
          BY <1>2, <1>3, <1>7, <2>1, <4>1
        <4>3. ASSUME NEW i \in 1..Len(W) PROVE W[i] = LineOf(p, e, (m - Len(W)) + i)
          <5>1. CASE i \in 1..q
            <6>1. q = 1 /\ i = 1 /\ (m - Len(W)) + i = 1
              BY <1>3, <4>1, <4>2, <5>1
            <6> QED BY <1>2, <5>1, <6>1
          <5>2. CASE i > q
            <6>1. /\ i - q \in 1..(m - c) /\ q + (i - q) = i
                  /\ (m - Len(W)) + i = c + (i - q)
              BY <1>2, <1>3, <2>1, <4>2, <5>2
            <6> QED BY <3>3, <6>1
          <5> QED BY <1>2, <5>1, <5>2
        <4> QED BY <4>2, <4>3 DEF InOrder
      <3> HIDE DEF m
      <3> QED BY <1>2, <1>6, <3>1, <3>2, <3>3, <3>4 DEF LogOf
    <2> HIDE DEF m
    <2> QED BY <2>1, <2>2, <2>3 DEF U, N
  <1>8. CASE c = 0 /\ e \notin Legacy
    <2>1. q = 0 /\ U = 0 /\ base = 0
      BY <1>1, <1>2, <1>3, <1>8
    <2>2. t <= N
      <3>1. CASE t = 0
        BY <1>3, <3>1
      <3>2. CASE t > 0
        <4>1. t \in 1..t
          BY <1>2, <3>2
        <4>2. base + t + U \in 1..N
          BY <1>2, <4>1
        <4> QED BY <1>2, <1>3, <2>1, <4>2
      <3> QED BY <1>2, <3>1, <3>2
    <2>3. LogOf(W, p, c, t, e)
      <3>1. Len(W) = 0 + (t - c)
        BY <1>2, <1>8, <2>1
      <3>2. ASSUME NEW i \in 1..(t - c) PROVE W[0 + i] = LineOf(p, e, c + i)
        <4>1. i \in 1..t /\ base + i + U = c + i /\ q + i = 0 + i
          BY <1>2, <1>8, <2>1
        <4> QED BY <1>2, <4>1
      <3>3. 1..0 = {}
        OBVIOUS
      <3>4. InOrder(W, p, t, e)
        <4>1. Len(W) = t /\ t - Len(W) = 0 /\ t - c = t
          BY <1>2, <1>8, <2>1
        <4>2. \A i \in 1..t : 0 + i = i /\ c + i = i /\ (t - Len(W)) + i = i
          BY <1>2, <1>8, <4>1
        <4> QED BY <1>2, <3>2, <4>1, <4>2 DEF InOrder
      <3> QED BY <1>6, <3>1, <3>2, <3>3, <3>4 DEF LogOf
    <2>4. t = base + t + U /\ c <= t
      BY <1>2, <1>8, <2>1
    <2> QED BY <1>2, <1>8, <2>2, <2>3, <2>4 DEF U, N
  <1>9. CASE c = 0 /\ e \in Legacy /\ U = 1
    <2> DEFINE m == t + 1
    <2>1. q = 1 /\ base = 0 /\ m \in Nat /\ m > 0 /\ c <= m /\ m = base + t + U
      BY <1>2, <1>3, <1>9
    <2>2. m <= N
      <3>1. CASE t = 0
        BY <1>3, <1>9, <3>1
      <3>2. CASE t > 0
        <4>1. t \in 1..t
          BY <1>2, <3>2
        <4>2. base + t + U \in 1..N
          BY <1>2, <4>1
        <4> QED BY <1>3, <2>1, <4>2
      <3> QED BY <1>2, <3>1, <3>2
    <2>3. LogOf(W, p, c, m, e)
      <3>1. Len(W) = 0 + (m - c)
        BY <1>2, <1>9, <2>1
      <3>2. ASSUME NEW i \in 1..(m - c) PROVE W[0 + i] = LineOf(p, e, c + i)
        <4>1. i \in 1..m /\ c + i = i /\ 0 + i = i
          BY <1>2, <1>9
        <4>2. CASE i = 1
          BY <1>2, <2>1, <4>1, <4>2
        <4>3. CASE i > 1
          <5>1. i - 1 \in 1..t /\ q + (i - 1) = i /\ base + (i - 1) + U = i
            BY <1>2, <1>9, <2>1, <4>1, <4>3
          <5> QED BY <1>2, <4>1, <5>1
        <4> QED BY <4>1, <4>2, <4>3
      <3>3. 1..0 = {}
        OBVIOUS
      <3>4. InOrder(W, p, m, e)
        <4>1. Len(W) = m /\ m - Len(W) = 0 /\ m - c = m
          BY <1>2, <1>9, <2>1
        <4>2. \A i \in 1..m : 0 + i = i /\ c + i = i /\ (m - Len(W)) + i = i
          BY <1>2, <1>9, <4>1
        <4> HIDE DEF m
        <4>3. ASSUME NEW i \in 1..Len(W) PROVE W[i] = LineOf(p, e, (m - Len(W)) + i)
          <5>1. i \in 1..m /\ i \in 1..(m - c)
            BY <4>1
          <5>2. W[0 + i] = LineOf(p, e, c + i)
            BY <3>2, <5>1
          <5> QED BY <4>2, <5>1, <5>2
        <4>4. Len(W) <= m
          BY <2>1, <4>1
        <4> QED BY <4>3, <4>4 DEF InOrder
      <3> HIDE DEF m
      <3> QED BY <1>6, <3>1, <3>2, <3>3, <3>4 DEF LogOf
    <2> HIDE DEF m
    <2> QED BY <2>1, <2>2, <2>3 DEF U, N
  <1> QED BY <1>1, <1>3, <1>7, <1>8, <1>9

(* Without a snapshot a legacy line is the first line of the log.           *)
LEMMA OneLegacyLine ==
  ASSUME NEW p, NEW e, HistoryInv(p, e), NEW n \in Nat, n > 0, n <= Len(p),
         NEW log, LogOf(log, p, 0, n, e), e \in Legacy
  PROVE  Cardinality(LegacyAt(log)) = 1
  <1>1. PICK k \in Nat :
          /\ Len(log) = k + (n - 0)
          /\ \A i \in 1..k : \E j \in 1..0 : log[i] = LineOf(p, e, j)
          /\ \A i \in 1..(n - 0) : log[k + i] = LineOf(p, e, 0 + i)
    BY DEF LogOf
  <1>2. k = 0
    <2> SUFFICES ASSUME k > 0 PROVE FALSE
      OBVIOUS
    <2>1. 1 \in 1..k
      OBVIOUS
    <2>2. \E j \in 1..0 : TRUE
      BY <1>1, <2>1
    <2> QED BY <2>2
  <1>3. Len(log) = n /\ \A i \in 1..n : log[i] = LineOf(p, e, i)
    BY <1>1, <1>2
  <1>4. log \in Seq(Lines) /\ DOMAIN log = 1..n
    BY <1>3 DEF LogOf
  <1>5. ASSUME NEW i \in 1..n PROVE IsRecord(log[i]) <=> i # 1
    <2>1. i \in 1..Len(p)
      BY DEF HistoryInv
    <2>2. IsRecord(LineOf(p, e, i)) <=> p[i].id # 0
      BY <2>1, LineFacts
    <2>3. p[i].id = 0 <=> i = 1
      BY <2>1, CommitFacts
    <2> QED BY <1>3, <2>2, <2>3
  <1>6. LegacyAt(log) = {1}
    <2>1. 1 \in 1..n
      OBVIOUS
    <2> QED BY <1>4, <1>5, <2>1 DEF LegacyAt
  <1> QED BY <1>6, FS_Singleton

(* A log has one legacy line at the most.                                   *)
LEMMA FewLegacyLines ==
  ASSUME NEW p, NEW e, HistoryInv(p, e), NEW c, NEW n \in Nat, n <= Len(p),
         NEW log, LogOf(log, p, c, n, e)
  PROVE  Cardinality(LegacyAt(log)) \in {0, 1}
  <1> DEFINE L == Len(log)
             K == LegacyAt(log)
  <1>1. log \in Seq(Lines) /\ L \in Nat /\ DOMAIN log = 1..L /\ Len(p) \in Nat
    BY DEF LogOf, HistoryInv
  <1>2. L <= n /\ \A i \in 1..L : log[i] = LineOf(p, e, (n - L) + i)
    BY DEF LogOf, InOrder
  <1>3. ASSUME NEW i \in K PROVE i = 1 - (n - L)
    <2>1. i \in 1..L /\ ~IsRecord(log[i])
      BY <1>1 DEF LegacyAt
    <2> DEFINE j == (n - L) + i
    <2>2. j \in 1..Len(p)
      BY <1>1, <1>2, <2>1
    <2>3. ~IsRecord(LineOf(p, e, j))
      BY <1>2, <2>1
    <2> HIDE DEF j
    <2>4. j = 1
      BY <2>2, <2>3, LineFacts, CommitFacts
    <2> QED BY <1>1, <2>1, <2>4 DEF j
  <1> HIDE DEF K, L
  <1>4. K = {} \/ \E i \in K : K = {i}
    BY <1>3
  <1>5. \A i : Cardinality({i}) = 1
    BY FS_Singleton
  <1>6. Cardinality({}) = 0
    BY FS_EmptySet
  <1>7. Cardinality(K) \in {0, 1}
    BY <1>4, <1>5, <1>6
  <1> QED BY <1>7 DEF K

(* Restored files hold a part of the history again, unless a legacy line    *)
(* rewinds them.                                                            *)
LEMMA RestoredHolds ==
  ASSUME NEW files, NEW p, NEW n, NEW e, HistoryInv(p, e), Holds(files, p, n, e),
         NEW external, external => AllFrom(dir.archive[e], p, e), NEW target,
         NEW run, run = RestoreEngine(files, external, target, e), run.ok,
         NEW g, g.snapshot[e] = files.snapshot[e], g.archive[e] = files.archive[e],
         g.log[e] = run.log, ~Rewinds(files, e)
  PROVE  \E m \in Nat : Holds(g, p, m, e) /\ m = run.point + Unversioned(e)
  <1> DEFINE sn == files.snapshot[e]
             c == Len(sn.content)
             log == files.log[e]
             q == Cardinality(LegacyAt(log))
             base == sn.version
  <1>1. /\ SnapshotOf(sn, p, e) /\ n \in Nat /\ c <= n /\ n <= Len(p)
        /\ LogOf(log, p, c, n, e) /\ ArchiveOf(files.archive[e], p, c, e)
        /\ (e \in Legacy => n > 0)
    BY DEF Holds
  <1>2. /\ c \in Nat /\ base \in Nat /\ Len(p) \in Nat
        /\ (c > 0 => base + Unversioned(e) = c) /\ (c = 0 => base = 0)
    BY <1>1, BaseFacts
  <1>3. PICK t : /\ Restored(run.log, p, e, base, q, t) /\ run.point = base + t
    BY RestoredLines
  <1>4. From(log, p, e)
    BY HoldsFrom
  <1>5. q > 0 => e \in Legacy /\ q = 1 /\ base = 0
    <2>1. LegacyAt(log) # {} => e \in Legacy
      BY <1>4, LegacyLines
    <2>2. LegacyAt(log) = {} => q = 0
      BY FS_EmptySet
    <2>3. LegacyAt(log) # {} => base = 0
      BY <1>2 DEF Rewinds
    <2>4. q \in {0, 1}
      BY <1>1, FewLegacyLines
    <2> HIDE DEF q
    <2> QED BY <2>1, <2>2, <2>3, <2>4
  <1> HIDE DEF sn, c, log, q, base
  <1>6. c = 0 /\ e \in Legacy => q = 1
    BY <1>1, OneLegacyLine DEF q
  <1>7. PICK m \in Nat :
          /\ c <= m /\ m <= Len(p) /\ (e \in Legacy => m > 0)
          /\ LogOf(run.log, p, c, m, e) /\ m = base + t + Unversioned(e)
    <2>1. c <= Len(p) /\ (e \in Legacy => Len(p) > 0)
      BY <1>1, <1>2
    <2> QED BY <1>2, <1>3, <1>5, <1>6, <2>1, LogAgain
  <1>8. Holds(g, p, m, e)
    BY <1>1, <1>7 DEF Holds, sn, c
  <1> QED BY <1>3, <1>7, <1>8

-----------------------------------------------------------------------------
(* How a step of an engine changes the files                                *)

(* What files hold depends on the commits they hold, and on the times of    *)
(* those that follow.                                                       *)
LEMMA HoldsSame ==
  ASSUME NEW files, NEW p, NEW q, NEW n, NEW e, HistoryInv(p, e), Holds(files, p, n, e),
         Len(q) \in Nat, n <= Len(q), \A i \in 1..n : q[i] = p[i],
         \A i \in 1..Len(q) : i > n => files.snapshot[e].time <= q[i].time
  PROVE  Holds(files, q, n, e)
  <1> DEFINE sn == files.snapshot[e]
             c == Len(sn.content)
  <1>1. /\ SnapshotOf(sn, p, e) /\ n \in Nat /\ c <= n /\ n <= Len(p)
        /\ LogOf(files.log[e], p, c, n, e) /\ ArchiveOf(files.archive[e], p, c, e)
        /\ (e \in Legacy => n > 0)
    BY DEF Holds
  <1>2. c \in Nat /\ Len(p) \in Nat
    BY <1>1 DEF SnapshotOf, HistoryInv
  <1>3. \A j \in 1..n : LineOf(q, e, j) = LineOf(p, e, j)
    BY SameLine
  <1>4. SnapshotOf(sn, q, e)
    <2>1. \A i \in 1..c : q[i] = p[i] /\ i \in 1..n
      BY <1>1, <1>2
    <2>2. ASSUME NEW i \in 1..Len(q), i > c PROVE sn.time <= q[i].time
      <3>1. CASE i > n
        BY <3>1
      <3>2. CASE i <= n
        <4>1. i \in 1..n /\ i \in 1..Len(p)
          BY <1>1, <1>2, <3>2
        <4>2. sn.time <= p[i].time
          BY <1>1, <2>2, <4>1 DEF SnapshotOf
        <4> QED BY <4>1, <4>2
      <3> QED BY <1>1, <3>1, <3>2
    <2>3. c <= Len(q)
      BY <1>1, <1>2
    <2>4. \A i \in 1..c : sn.content[i] = q[i].id /\ q[i].time <= sn.time
      BY <1>1, <2>1 DEF SnapshotOf
    <2> QED BY <1>1, <2>2, <2>3, <2>4 DEF SnapshotOf
  <1> HIDE DEF c
  <1>5. \A j \in 1..c : LineOf(q, e, j) = LineOf(p, e, j)
    BY <1>1, <1>2, <1>3
  <1>6. LogOf(files.log[e], q, c, n, e)
    <2>1. PICK k \in Nat :
            /\ Len(files.log[e]) = k + (n - c)
            /\ \A i \in 1..k : \E j \in 1..c : files.log[e][i] = LineOf(p, e, j)
            /\ \A i \in 1..(n - c) : files.log[e][k + i] = LineOf(p, e, c + i)
      BY <1>1 DEF LogOf
    <2>2. \A i \in 1..k : \E j \in 1..c : files.log[e][i] = LineOf(q, e, j)
      BY <1>5, <2>1
    <2>3. ASSUME NEW i \in 1..(n - c) PROVE files.log[e][k + i] = LineOf(q, e, c + i)
      <3>1. c + i \in 1..n
        BY <1>1, <1>2
      <3> QED BY <1>3, <2>1, <3>1
    <2>4. files.log[e] \in Seq(Lines)
      BY <1>1 DEF LogOf
    <2>5. InOrder(files.log[e], q, n, e)
      <3> DEFINE log == files.log[e]
      <3>1. Len(log) \in Nat /\ Len(log) <= n
            /\ \A i \in 1..Len(log) : log[i] = LineOf(p, e, (n - Len(log)) + i)
        BY <1>1, <2>4 DEF LogOf, InOrder
      <3> HIDE DEF log
      <3>2. \A i \in 1..Len(log) : (n - Len(log)) + i \in 1..n
        BY <1>1, <3>1
      <3>3. InOrder(log, q, n, e)
        BY <1>3, <3>1, <3>2 DEF InOrder
      <3> QED BY <3>3 DEF log
    <2> QED BY <2>1, <2>2, <2>3, <2>4, <2>5 DEF LogOf
  <1>7. ArchiveOf(files.archive[e], q, c, e)
    BY <1>1, <1>5 DEF ArchiveOf
  <1> QED BY <1>1, <1>4, <1>6, <1>7 DEF Holds, c, sn

(* A history goes on with a later commit, and an earlier part is one too.   *)
LEMMA HistoryAppend ==
  ASSUME NEW p, NEW e, HistoryInv(p, e), NEW id \in Nat, NEW t \in Nat, id > 0,
         \A i \in 1..Len(p) : p[i].id < id /\ p[i].time <= t
  PROVE  LET q == Append(p, [id |-> id, time |-> t])
         IN /\ HistoryInv(q, e) /\ Len(q) = Len(p) + 1 /\ Len(p) \in Nat
            /\ \A i \in 1..Len(p) : q[i] = p[i]
            /\ q[Len(p) + 1] = [id |-> id, time |-> t]
  <1> DEFINE q == Append(p, [id |-> id, time |-> t])
             N == Len(p)
             x == [id |-> id, time |-> t]
  <1>1. p \in Seq(Commits) /\ N \in Nat /\ x \in Commits
    BY DEF HistoryInv, Commits
  <1>2. /\ q \in Seq(Commits) /\ Len(q) = N + 1 /\ q[N + 1] = x
        /\ \A i \in 1..N : q[i] = p[i]
    BY <1>1
  <1> HIDE DEF q
  <1>3. x.id = id /\ x.time = t
    OBVIOUS
  <1>4. /\ \A i, j \in 1..N : i < j => p[i].id < p[j].id /\ p[i].time <= p[j].time
        /\ e \in Legacy => N > 0 /\ p[1].id = 0
        /\ e \notin Legacy /\ N > 0 => p[1].id > 0
    BY DEF HistoryInv
  <1> HIDE DEF N, x
  <1>5. ASSUME NEW i \in 1..(N + 1), NEW j \in 1..(N + 1), i < j
        PROVE  q[i].id < q[j].id /\ q[i].time <= q[j].time
    <2>1. i \in 1..N /\ q[i] = p[i]
      BY <1>1, <1>2, <1>5
    <2>2. CASE j = N + 1
      BY <1>2, <1>3, <2>1, <2>2 DEF N
    <2>3. CASE j # N + 1
      <3>1. j \in 1..N /\ q[j] = p[j]
        BY <1>1, <1>2, <2>3
      <3> QED BY <1>4, <1>5, <2>1, <3>1
    <2> QED BY <2>2, <2>3
  <1>6. (e \in Legacy => q[1].id = 0) /\ (e \notin Legacy => q[1].id > 0)
    <2>1. CASE N > 0
      <3>1. 1 \in 1..N
        BY <1>1, <2>1
      <3> QED BY <1>2, <1>4, <2>1, <3>1
    <2>2. CASE N = 0
      BY <1>2, <1>3, <1>4, <2>2
    <2> QED BY <1>1, <2>1, <2>2
  <1>7. HistoryInv(q, e)
    BY <1>1, <1>2, <1>5, <1>6 DEF HistoryInv
  <1> QED BY <1>1, <1>2, <1>7 DEF N, x, q

(* The first commits of a history are a history.                            *)
LEMMA HistoryPrefix ==
  ASSUME NEW p, NEW e, HistoryInv(p, e), NEW n \in Nat, n <= Len(p), e \in Legacy => n > 0
  PROVE  LET q == SubSeq(p, 1, n)
         IN /\ HistoryInv(q, e) /\ Len(q) = n /\ Len(p) \in Nat
            /\ \A i \in 1..n : q[i] = p[i]
  <1> DEFINE q == SubSeq(p, 1, n)
  <1>1. p \in Seq(Commits) /\ Len(p) \in Nat
    BY DEF HistoryInv
  <1>2. q \in Seq(Commits) /\ Len(q) = n /\ \A i \in 1..n : q[i] = p[i] /\ i \in 1..Len(p)
    BY <1>1
  <1> HIDE DEF q
  <1>3. /\ \A i, j \in 1..Len(p) : i < j => p[i].id < p[j].id /\ p[i].time <= p[j].time
        /\ e \in Legacy => p[1].id = 0
        /\ e \notin Legacy /\ Len(p) > 0 => p[1].id > 0
    BY DEF HistoryInv
  <1>4. \A i, j \in 1..n : i < j => q[i].id < q[j].id /\ q[i].time <= q[j].time
    BY <1>2, <1>3
  <1>5. (e \in Legacy => n > 0 /\ q[1].id = 0) /\ (e \notin Legacy /\ n > 0 => q[1].id > 0)
    <2>1. CASE n > 0
      <3>1. 1 \in 1..n /\ Len(p) > 0
        BY <1>1, <2>1
      <3> QED BY <1>2, <1>3, <2>1, <3>1
    <2>2. CASE n = 0
      BY <2>2
    <2> QED BY <2>1, <2>2
  <1> QED BY <1>1, <1>2, <1>4, <1>5 DEF HistoryInv, q

(* A commit adds its line to the log.                                       *)
LEMMA HoldsCommit ==
  ASSUME NEW files, NEW p, NEW e, HistoryInv(p, e), Holds(files, p, Len(p), e),
         NEW q, HistoryInv(q, e), Len(q) = Len(p) + 1, \A i \in 1..Len(p) : q[i] = p[i],
         files.snapshot[e].time <= q[Len(p) + 1].time,
         NEW g, g.snapshot[e] = files.snapshot[e], g.archive[e] = files.archive[e],
         g.log[e] = Append(files.log[e], LineOf(q, e, Len(p) + 1))
  PROVE  Holds(g, q, Len(q), e)
  <1> DEFINE sn == files.snapshot[e]
             c == Len(sn.content)
             log == files.log[e]
             N == Len(p)
             x == LineOf(q, e, N + 1)
             new == Append(log, x)
  <1>1. Len(p) \in Nat /\ Len(q) \in Nat
    BY DEF HistoryInv
  <1>2. Holds(files, q, N, e)
    <2>1. \A i \in 1..Len(q) : i > N => sn.time <= q[i].time
      BY <1>1
    <2> QED BY <1>1, <2>1, HoldsSame
  <1>3. /\ SnapshotOf(sn, q, e) /\ c <= N /\ LogOf(log, q, c, N, e)
        /\ ArchiveOf(files.archive[e], q, c, e)
    BY <1>2 DEF Holds
  <1>4. c \in Nat
    BY <1>3 DEF SnapshotOf
  <1>5. N + 1 \in 1..Len(q)
    BY <1>1
  <1>6. x \in Lines
    BY <1>5, LineFacts
  <1>7. PICK k \in Nat :
          /\ Len(log) = k + (N - c)
          /\ \A i \in 1..k : \E j \in 1..c : log[i] = LineOf(q, e, j)
          /\ \A i \in 1..(N - c) : log[k + i] = LineOf(q, e, c + i)
    BY <1>3 DEF LogOf
  <1>8. log \in Seq(Lines)
    BY <1>3 DEF LogOf
  <1> HIDE DEF x, log, sn, c, N
  <1>9. /\ new \in Seq(Lines) /\ Len(new) = Len(log) + 1 /\ new[Len(log) + 1] = x
        /\ \A i \in 1..Len(log) : new[i] = log[i]
    BY <1>6, <1>8
  <1> HIDE DEF new
  <1>10. LogOf(new, q, c, N + 1, e)
    <2>0. N \in Nat
      BY <1>1 DEF N
    <2>1. Len(new) = k + ((N + 1) - c) /\ (N + 1) - c = (N - c) + 1 /\ N - c \in Nat
      BY <1>3, <1>4, <1>7, <1>9, <2>0
    <2>2. ASSUME NEW i \in 1..k PROVE \E j \in 1..c : new[i] = LineOf(q, e, j)
      <3>1. i \in 1..Len(log)
        BY <1>7, <2>1
      <3> QED BY <1>7, <1>9, <3>1
    <2>3. ASSUME NEW i \in 1..((N + 1) - c) PROVE new[k + i] = LineOf(q, e, c + i)
      <3>1. CASE i \in 1..(N - c)
        <4>1. k + i \in 1..Len(log)
          BY <1>7, <2>1, <3>1
        <4> QED BY <1>7, <1>9, <3>1, <4>1
      <3>2. CASE i = (N - c) + 1
        <4>1. k + i = Len(log) + 1 /\ c + i = N + 1
          BY <1>3, <1>4, <1>7, <2>0, <3>2
        <4> QED BY <1>9, <4>1 DEF x
      <3> QED BY <2>1, <3>1, <3>2
    <2>4. InOrder(new, q, N + 1, e)
      <3>1. Len(log) \in Nat /\ Len(log) <= N
            /\ \A i \in 1..Len(log) : log[i] = LineOf(q, e, (N - Len(log)) + i)
        BY <1>3, <1>8 DEF LogOf, InOrder
      <3>2. (N + 1) - Len(new) = N - Len(log) /\ Len(new) <= N + 1
        BY <1>9, <2>0, <3>1
      <3>3. ASSUME NEW i \in 1..Len(new)
            PROVE  new[i] = LineOf(q, e, ((N + 1) - Len(new)) + i)
        <4>1. CASE i \in 1..Len(log)
          BY <1>9, <3>1, <3>2, <4>1
        <4>2. CASE i = Len(log) + 1
          <5> HIDE DEF log, N
          <5>1. ((N + 1) - Len(new)) + i = N + 1
            BY <1>9, <2>0, <3>1, <4>2
          <5> QED BY <1>9, <4>2, <5>1 DEF x
        <4> QED BY <1>9, <3>1, <4>1, <4>2
      <3> QED BY <3>2, <3>3 DEF InOrder
    <2> QED BY <1>9, <2>1, <2>2, <2>3, <2>4 DEF LogOf
  <1>11. N + 1 \in Nat /\ c <= N + 1 /\ N + 1 <= Len(q) /\ N + 1 > 0 /\ N + 1 = Len(q)
    BY <1>1, <1>3, <1>4 DEF N
  <1>12. g.log[e] = new /\ g.snapshot[e] = sn /\ Len(g.snapshot[e].content) = c
    BY DEF new, log, x, N, sn, c
  <1> QED BY <1>3, <1>10, <1>11, <1>12 DEF Holds

(* A checkpoint covers all there is; the log is moved or stays.             *)
LEMMA HoldsCheckpoint ==
  ASSUME NEW files, NEW p, NEW e, HistoryInv(p, e), Holds(files, p, Len(p), e),
         NEW t \in Nat, t > 0, \A i \in 1..Len(p) : p[i].time <= t,
         NEW g, g.snapshot[e] = [version |-> Len(p) - Unversioned(e), time |-> t,
                                 content |-> Ids(p)],
         g.log[e] \in {files.log[e], <<>>},
         g.archive[e] \in {files.archive[e], Append(files.archive[e], files.log[e])}
  PROVE  Holds(g, p, Len(p), e)
  <1> DEFINE c == Len(files.snapshot[e].content)
             N == Len(p)
             log == files.log[e]
             arc == files.archive[e]
             sn == g.snapshot[e]
  <1>1. p \in Seq(Commits) /\ N \in Nat
    BY DEF HistoryInv
  <1>2. /\ c <= N /\ SnapshotOf(files.snapshot[e], p, e)
        /\ (e \in Legacy => N > 0) /\ ArchiveOf(arc, p, c, e)
    BY DEF Holds
  <1>3. c \in Nat
    BY <1>2 DEF SnapshotOf
  <1>4. From(log, p, e) /\ AllFrom(arc, p, e)
    BY HoldsFrom
  <1>5. log \in Seq(Lines) /\ \A i \in 1..Len(log) : \E j \in 1..N : log[i] = LineOf(p, e, j)
    BY <1>4 DEF From
  <1>6. /\ arc \in Seq(Seq(Lines))
        /\ \A s \in 1..Len(arc) : \A i \in 1..Len(arc[s]) :
             \E j \in 1..N : arc[s][i] = LineOf(p, e, j)
    <2>1. arc \in Seq(Seq(Lines))
      BY <1>2 DEF ArchiveOf
    <2>2. \A s \in 1..Len(arc) : From(arc[s], p, e)
      BY <1>4 DEF AllFrom
    <2> QED BY <2>1, <2>2 DEF From
  <1>7. Ids(p) \in Seq(Nat) /\ Len(Ids(p)) = N /\ \A i \in 1..N : Ids(p)[i] = p[i].id
    <2>1. IsSeq(p)
      BY <1>1 DEF IsSeq
    <2>2. /\ IsSeq(Ids(p)) /\ Len(Ids(p)) = N
          /\ \A i \in 1..N : Ids(p)[i] = p[i].id
      BY <2>1, IdsFacts
    <2>3. \A i \in 1..N : p[i].id \in Nat
      BY CommitFacts
    <2> HIDE DEF N
    <2>4. \A i \in 1..Len(Ids(p)) : Ids(p)[i] \in Nat
      BY <2>2, <2>3
    <2> QED BY <2>2, <2>4, SequenceOver
  <1>8. /\ sn.version = N - Unversioned(e) /\ sn.time = t /\ sn.content = Ids(p)
    OBVIOUS
  <1>9. SnapshotOf(sn, p, e)
    <2>1. N = 0 => N - Unversioned(e) = 0
      BY <1>2, UnversionedFacts
    <2> HIDE DEF N, sn
    <2>2. sn.content \in Seq(Nat) /\ Len(sn.content) = N /\ sn.time \in Nat /\ sn.time > 0
      BY <1>7, <1>8
    <2>3. \A i \in 1..N : sn.content[i] = p[i].id /\ p[i].time <= sn.time
      BY <1>7, <1>8 DEF N
    <2>4. \A i \in 1..Len(p) : ~(i > N)
      BY DEF N
    <2>5. sn.version = IF N = 0 THEN 0 ELSE N - Unversioned(e)
      BY <1>8, <2>1
    <2>6. N <= Len(p)
      BY <1>1 DEF N
    <2> QED BY <1>2, <2>2, <2>3, <2>4, <2>5, <2>6 DEF SnapshotOf
  <1>10. LogOf(g.log[e], p, N, N, e)
    <2> HIDE DEF N
    <2>1. CASE g.log[e] = log
      <3> DEFINE k == Len(log)
      <3>1. k \in Nat /\ k = k + (N - N) /\ 1..(N - N) = {}
        BY <1>1, <1>5
      <3>2. InOrder(log, p, N, e)
        BY DEF Holds, LogOf, N
      <3> QED BY <1>5, <2>1, <3>1, <3>2 DEF LogOf
    <2>2. CASE g.log[e] = <<>>
      <3>1. /\ <<>> \in Seq(Lines) /\ Len(<<>>) = 0 + (N - N) /\ 1..(N - N) = {}
            /\ 1..0 = {}
        BY <1>1
      <3> HIDE DEF log
      <3>2. InOrder(<<>>, p, N, e)
        BY <1>1, <3>1 DEF InOrder
      <3> QED BY <2>2, <3>1, <3>2 DEF LogOf
    <2> QED BY <2>1, <2>2
  <1>11. ArchiveOf(g.archive[e], p, N, e)
    <2> HIDE DEF N
    <2>1. CASE g.archive[e] = arc
      <3> HIDE DEF arc
      <3> QED BY <1>6, <2>1 DEF ArchiveOf
    <2>2. CASE g.archive[e] = Append(arc, log)
      <3> DEFINE new == Append(arc, log)
      <3> HIDE DEF arc, log
      <3>1. /\ new \in Seq(Seq(Lines)) /\ Len(new) = Len(arc) + 1 /\ Len(arc) \in Nat
            /\ new[Len(arc) + 1] = log /\ \A s \in 1..Len(arc) : new[s] = arc[s]
        BY <1>5, <1>6
      <3> HIDE DEF new
      <3>2. ASSUME NEW s \in 1..Len(new), NEW i \in 1..Len(new[s])
            PROVE  \E j \in 1..N : new[s][i] = LineOf(p, e, j)
        <4>1. CASE s \in 1..Len(arc)
          BY <1>6, <3>1, <4>1
        <4>2. CASE s = Len(arc) + 1
          BY <1>5, <3>1, <4>2
        <4> QED BY <3>1, <4>1, <4>2
      <3>3. g.archive[e] = new
        BY <2>2 DEF new
      <3> QED BY <3>1, <3>2, <3>3 DEF ArchiveOf
    <2> QED BY <2>1, <2>2 DEF log, arc
  <1>12. Len(sn.content) = N
    BY <1>7, <1>8
  <1> QED BY <1>1, <1>2, <1>9, <1>10, <1>11, <1>12 DEF Holds

(* Fewer segments hold as much.                                             *)
LEMMA HoldsPrune ==
  ASSUME NEW files, NEW p, NEW n, NEW e, Holds(files, p, n, e),
         NEW K, K \subseteq DOMAIN files.archive[e],
         NEW g, g.snapshot[e] = files.snapshot[e], g.log[e] = files.log[e],
         g.archive[e] = At(files.archive[e], K)
  PROVE  Holds(g, p, n, e)
  <1> DEFINE c == Len(files.snapshot[e].content)
             arc == files.archive[e]
             new == At(arc, K)
             m == Cardinality(K)
  <1>1. ArchiveOf(arc, p, c, e)
    BY DEF Holds
  <1>2. arc \in Seq(Seq(Lines)) /\ Len(arc) \in Nat /\ DOMAIN arc = 1..Len(arc)
    BY <1>1 DEF ArchiveOf
  <1>3. K \subseteq 1..Len(arc)
    BY <1>2
  <1>4. /\ IsSeq(new) /\ Len(new) = m /\ m \in Nat
        /\ \A i \in 1..m : new[i] = arc[Place(K, i)]
    BY <1>2, <1>3, AtFacts
  <1>5. \A i \in 1..m : Place(K, i) \in K
    BY <1>2, <1>3, PlaceFacts
  <1> HIDE DEF c, arc, new, m
  <1>6. \A i \in 1..m : /\ new[i] \in Seq(Lines)
                        /\ \A l \in 1..Len(new[i]) : \E j \in 1..c : new[i][l] = LineOf(p, e, j)
    <2> SUFFICES ASSUME NEW i \in 1..m
                 PROVE  /\ new[i] \in Seq(Lines)
                        /\ \A l \in 1..Len(new[i]) : \E j \in 1..c : new[i][l] = LineOf(p, e, j)
      OBVIOUS
    <2>1. Place(K, i) \in 1..Len(arc) /\ new[i] = arc[Place(K, i)]
      BY <1>3, <1>4, <1>5
    <2>2. PICK s \in 1..Len(arc) : new[i] = arc[s]
      BY <2>1
    <2>3. \A l \in 1..Len(arc[s]) : \E j \in 1..c : arc[s][l] = LineOf(p, e, j)
      BY <1>1 DEF ArchiveOf
    <2>4. arc[s] \in Seq(Lines)
      BY <1>2
    <2> QED BY <2>2, <2>3, <2>4
  <1>7. new \in Seq(Seq(Lines))
    <2>1. \A i \in 1..Len(new) : new[i] \in Seq(Lines)
      BY <1>4, <1>6
    <2> QED BY <1>4, <2>1, SequenceOver
  <1>8. ArchiveOf(new, p, c, e)
    BY <1>4, <1>6, <1>7 DEF ArchiveOf
  <1> QED BY <1>8 DEF Holds, c, new, arc
-----------------------------------------------------------------------------
(* The directory in use                                                     *)

(* The same files.                                                          *)
LEMMA HoldsFiles ==
  ASSUME NEW files, NEW p, NEW n, NEW e, Holds(files, p, n, e),
         NEW g, g.snapshot[e] = files.snapshot[e], g.log[e] = files.log[e],
         g.archive[e] = files.archive[e]
  PROVE  Holds(g, p, n, e)
  BY DEF Holds

(* The same files of one engine, in another directory.                      *)
LEMMA EngineFiles ==
  ASSUME NEW files, NEW p, NEW now, NEW made, NEW e, EngineInv(files, p, now, made, e),
         NEW g, g.snapshot[e] = files.snapshot[e], g.log[e] = files.log[e],
         g.archive[e] = files.archive[e]
  PROVE  EngineInv(g, p, now, made, e)
  BY HoldsFiles DEF EngineInv

(* Time passes.                                                             *)
LEMMA EngineTick ==
  ASSUME NEW files, NEW p, NEW now, NEW made, NEW e, EngineInv(files, p, now, made, e)
  PROVE  EngineInv(files, p, now + 1, made, e)
  <1>1. /\ HistoryInv(p, e) /\ now \in Nat \ {0} /\ made \in Nat
        /\ \A i \in 1..Len(p) : p[i].id <= made /\ p[i].time <= now
        /\ files.snapshot[e].time <= now
        /\ Holds(files, p, Len(p), e)
    BY DEF EngineInv
  <1>2. files.snapshot[e].time \in Nat
    BY <1>1 DEF Holds, SnapshotOf
  <1>3. \A i \in 1..Len(p) : p[i].time \in Nat
    BY <1>1, CommitFacts
  <1>4. \A i \in 1..Len(p) : p[i].time <= now + 1
    BY <1>1, <1>3
  <1> QED BY <1>1, <1>2, <1>4 DEF EngineInv

(* Commit, for the files of the engine.                                     *)
LEMMA EngineCommit ==
  ASSUME NEW files, NEW p, NEW now, NEW made, NEW e, EngineInv(files, p, now, made, e),
         NEW g, g.snapshot[e] = files.snapshot[e], g.archive[e] = files.archive[e],
         NEW q, q = Append(p, [id |-> made + 1, time |-> now]),
         g.log[e] = Append(files.log[e], [version |-> (Len(p) - Unversioned(e)) + 1,
                                          time |-> now, id |-> made + 1])
  PROVE  EngineInv(g, q, now, made + 1, e)
  <1>1. /\ HistoryInv(p, e) /\ now \in Nat \ {0} /\ made \in Nat
        /\ \A i \in 1..Len(p) : p[i].id <= made /\ p[i].time <= now
        /\ files.snapshot[e].time <= now
        /\ Holds(files, p, Len(p), e)
    BY DEF EngineInv
  <1>2. \A i \in 1..Len(p) : p[i].id \in Nat /\ p[i].time \in Nat
    BY <1>1, CommitFacts
  <1>3. \A i \in 1..Len(p) : p[i].id < made + 1 /\ p[i].time <= now
    BY <1>1, <1>2
  <1>4. /\ HistoryInv(q, e) /\ Len(q) = Len(p) + 1 /\ Len(p) \in Nat
        /\ \A i \in 1..Len(p) : q[i] = p[i]
        /\ q[Len(p) + 1] = [id |-> made + 1, time |-> now]
    <2>1. made + 1 \in Nat /\ made + 1 > 0 /\ now \in Nat
      BY <1>1
    <2>2. PICK id : id = made + 1
      OBVIOUS
    <2>3. /\ id \in Nat /\ id > 0 /\ q = Append(p, [id |-> id, time |-> now])
          /\ \A i \in 1..Len(p) : p[i].id < id /\ p[i].time <= now
      BY <1>3, <2>1, <2>2
    <2>4. /\ HistoryInv(q, e) /\ Len(q) = Len(p) + 1 /\ Len(p) \in Nat
          /\ \A i \in 1..Len(p) : q[i] = p[i]
          /\ q[Len(p) + 1] = [id |-> id, time |-> now]
      BY <1>1, <2>1, <2>3, HistoryAppend
    <2> QED BY <2>2, <2>4
  <1>5. LineOf(q, e, Len(p) + 1) = [version |-> (Len(p) - Unversioned(e)) + 1,
                                    time |-> now, id |-> made + 1]
    <2>1. q[Len(p) + 1].id = made + 1 /\ q[Len(p) + 1].time = now /\ made + 1 # 0
      BY <1>1, <1>4
    <2>2. (Len(p) + 1) - Unversioned(e) = (Len(p) - Unversioned(e)) + 1
      BY <1>4, UnversionedFacts
    <2> QED BY <2>1, <2>2 DEF LineOf
  <1>6. Holds(g, q, Len(q), e)
    <2>1. files.snapshot[e].time <= q[Len(p) + 1].time
      BY <1>1, <1>4
    <2>2. g.log[e] = Append(files.log[e], LineOf(q, e, Len(p) + 1))
      BY <1>5
    <2>3. HistoryInv(p, e) /\ Holds(files, p, Len(p), e)
      BY <1>1
    <2>4. HistoryInv(q, e) /\ Len(q) = Len(p) + 1 /\ \A i \in 1..Len(p) : q[i] = p[i]
      BY <1>4
    <2> QED BY <2>1, <2>2, <2>3, <2>4, HoldsCommit
  <1>7. ASSUME NEW i \in 1..Len(q) PROVE q[i].id <= made + 1 /\ q[i].time <= now
    <2>1. CASE i \in 1..Len(p)
      BY <1>1, <1>2, <1>4, <2>1
    <2>2. CASE i = Len(p) + 1
      BY <1>1, <1>4, <2>2
    <2> QED BY <1>4, <2>1, <2>2
  <1> QED BY <1>1, <1>4, <1>6, <1>7 DEF EngineInv

(* Checkpoint, with and without the crash, for the files of the engine.     *)
LEMMA EngineCheckpoint ==
  ASSUME NEW files, NEW p, NEW now, NEW made, NEW e, EngineInv(files, p, now, made, e),
         NEW g, g.snapshot[e] = [version |-> Len(p) - Unversioned(e), time |-> now,
                                 content |-> Ids(p)],
         g.log[e] \in {files.log[e], <<>>},
         g.archive[e] \in {files.archive[e], Append(files.archive[e], files.log[e])}
  PROVE  EngineInv(g, p, now, made, e)
  <1>1. /\ HistoryInv(p, e) /\ now \in Nat \ {0} /\ made \in Nat
        /\ \A i \in 1..Len(p) : p[i].id <= made /\ p[i].time <= now
        /\ Holds(files, p, Len(p), e)
    BY DEF EngineInv
  <1>2. now \in Nat /\ now > 0 /\ g.snapshot[e].time <= now
    BY <1>1
  <1>3. Holds(g, p, Len(p), e)
    BY <1>1, <1>2, HoldsCheckpoint
  <1> QED BY <1>1, <1>2, <1>3 DEF EngineInv

(* Prune, for the files of one engine.                                      *)
LEMMA EnginePrune ==
  ASSUME NEW files, NEW p, NEW now, NEW made, NEW e, EngineInv(files, p, now, made, e),
         NEW g, g.snapshot[e] = files.snapshot[e], g.log[e] = files.log[e],
         NEW K, K \subseteq DOMAIN files.archive[e], g.archive[e] = At(files.archive[e], K)
  PROVE  EngineInv(g, p, now, made, e)
  <1>1. Holds(g, p, Len(p), e)
    BY HoldsPrune DEF EngineInv
  <1> QED BY <1>1 DEF EngineInv

(* A directory with the first n commits taken into use.                     *)
LEMMA EngineAdopt ==
  ASSUME NEW files, NEW p, NEW now, NEW made, NEW e, EngineInv(files, p, now, made, e),
         NEW g, NEW n, Holds(g, p, n, e), g.snapshot[e].time <= now,
         NEW q, q = SubSeq(p, 1, n)
  PROVE  EngineInv(g, q, now, made, e)
  <1>1. /\ HistoryInv(p, e) /\ now \in Nat \ {0} /\ made \in Nat
        /\ \A i \in 1..Len(p) : p[i].id <= made /\ p[i].time <= now
    BY DEF EngineInv
  <1>2. n \in Nat /\ n <= Len(p) /\ (e \in Legacy => n > 0)
    BY DEF Holds
  <1>3. HistoryInv(q, e) /\ Len(q) = n /\ Len(p) \in Nat /\ \A i \in 1..n : q[i] = p[i]
    BY <1>1, <1>2, HistoryPrefix
  <1>4. Holds(g, q, n, e)
    <2>1. \A i \in 1..Len(q) : i > n => g.snapshot[e].time <= q[i].time
      BY <1>2, <1>3
    <2>2. Len(q) \in Nat /\ n <= Len(q)
      BY <1>2, <1>3
    <2> QED BY <1>1, <1>3, <2>1, <2>2, HoldsSame, Zenon
  <1>5. \A i \in 1..n : i \in 1..Len(p)
    BY <1>2, <1>3
  <1>6. \A i \in 1..Len(q) : q[i].id <= made /\ q[i].time <= now
    BY <1>1, <1>3, <1>5
  <1> QED BY <1>1, <1>3, <1>4, <1>6 DEF EngineInv

(* The directory, step by step.                                             *)
LEMMA DirInit ==
  ASSUME Init
  PROVE  DirInv
  <1>1. /\ IsFiles(dir) /\ DOMAIN past = Engines /\ clock = 1 /\ pruned = 0
        /\ DOMAIN counts = {"commits", "checkpoints", "backups", "adoptions"}
        /\ DOMAIN counts.commits = Engines
    BY DEF Init, NoDirectory, IsFiles
  <1>2. ASSUME NEW e \in Engines PROVE EngineInv(dir, past[e], clock, counts.commits[e], e)
    <2> DEFINE p == past[e]
               sn == dir.snapshot[e]
               log == dir.log[e]
               x == [id |-> 0, time |-> 0]
    <2>1. /\ sn = NoSnapshot /\ dir.archive[e] = <<>> /\ counts.commits[e] = 0
          /\ log = IF e \in Legacy THEN <<LegacyLine>> ELSE <<>>
          /\ p = IF e \in Legacy THEN <<x>> ELSE <<>>
      BY DEF Init, NoDirectory
    <2>2. sn.content = <<>> /\ sn.time = 0 /\ sn.version = 0
      BY <2>1 DEF NoSnapshot
    <2>3. /\ <<>> \in Seq(Nat) /\ <<>> \in Seq(Lines) /\ <<>> \in Seq(Seq(Lines))
          /\ <<>> \in Seq(Commits) /\ Len(<<>>) = 0 /\ 1..0 = {}
      OBVIOUS
    <2>4. x \in Commits /\ LegacyLine \in Lines
      BY DEF Commits, Lines, LegacyLine
    <2>5. /\ <<x>> \in Seq(Commits) /\ Len(<<x>>) = 1 /\ <<x>>[1] = x
          /\ <<LegacyLine>> \in Seq(Lines) /\ Len(<<LegacyLine>>) = 1
          /\ <<LegacyLine>>[1] = LegacyLine
      BY <2>4
    <2>6. x.id = 0 /\ x.time = 0
      OBVIOUS
    <2> HIDE DEF p, sn, log, x
    <2>7. HistoryInv(p, e) /\ (\A i \in 1..Len(p) : p[i].id = 0 /\ p[i].time = 0)
          /\ Len(p) \in Nat
      <3>1. CASE e \in Legacy
        <4>1. \A i \in 1..1 : i = 1
          OBVIOUS
        <4> QED BY <2>1, <2>5, <2>6, <3>1, <4>1 DEF HistoryInv
      <3>2. CASE e \notin Legacy
        BY <2>1, <2>3, <3>2 DEF HistoryInv
      <3> QED BY <3>1, <3>2
    <2>8. SnapshotOf(sn, p, e)
      BY <2>2, <2>3, <2>7 DEF SnapshotOf
    <2>9. LogOf(log, p, 0, Len(p), e)
      <3>1. CASE e \in Legacy
        <4>1. /\ Len(p) = 1 /\ Len(log) = 0 + (1 - 0) /\ log[1] = LegacyLine
              /\ p[1].id = 0 /\ log \in Seq(Lines)
          BY <2>1, <2>5, <2>6, <3>1
        <4>2. LineOf(p, e, 1) = LegacyLine
          BY <4>1 DEF LineOf
        <4>3. \A i \in 1..(1 - 0) : log[0 + i] = LineOf(p, e, 0 + i)
          <5>1. \A i \in 1..(1 - 0) : 0 + i = 1
            OBVIOUS
          <5> QED BY <4>1, <4>2, <5>1
        <4>4. InOrder(log, p, 1, e)
          <5>1. Len(log) = 1 /\ \A i \in 1..1 : (1 - 1) + i = 1 /\ i = 1
            BY <4>1
          <5> QED BY <4>1, <4>2, <5>1 DEF InOrder
        <4> QED BY <2>3, <4>1, <4>3, <4>4 DEF LogOf
      <3>2. CASE e \notin Legacy
        <4>1. Len(p) = 0 /\ log \in Seq(Lines) /\ Len(log) = 0 + (0 - 0) /\ 1..(0 - 0) = {}
          BY <2>1, <2>3, <3>2
        <4>2. InOrder(log, p, 0, e)
          BY <2>3, <4>1 DEF InOrder
        <4> QED BY <2>3, <4>1, <4>2 DEF LogOf
      <3> QED BY <3>1, <3>2
    <2>10. ArchiveOf(dir.archive[e], p, 0, e)
      BY <2>1, <2>3 DEF ArchiveOf
    <2>11. Holds(dir, p, Len(p), e)
      <3>1. Len(sn.content) = 0 /\ (e \in Legacy => Len(p) > 0)
        BY <2>2, <2>3, <2>7 DEF HistoryInv
      <3> QED BY <2>7, <2>8, <2>9, <2>10, <3>1 DEF Holds, sn, log
    <2> QED BY <1>1, <2>1, <2>2, <2>7, <2>11 DEF EngineInv, p, sn
  <1> QED BY <1>1, <1>2 DEF DirInv

(* Tick leaves the directory as it is.                                      *)
LEMMA DirTick ==
  ASSUME DirInv, Tick
  PROVE  DirInv'
  <1>1. clock \in Nat \ {0} /\ clock' = clock + 1 /\ UNCHANGED <<dir, past, pruned, counts>>
    BY DEF DirInv, Tick
  <1>2. \A e \in Engines : EngineInv(dir', past'[e], clock', counts'.commits[e], e)
    BY <1>1, EngineTick DEF DirInv
  <1> QED BY <1>1, <1>2 DEF DirInv

(* Steps that leave the directory alone.                                    *)
LEMMA DirSame ==
  ASSUME DirInv, UNCHANGED <<dir, past, clock, pruned>>,
         DOMAIN counts' = DOMAIN counts, counts'.commits = counts.commits
  PROVE  DirInv'
  BY DEF DirInv

(* Commit keeps the directory's invariant.                                  *)
LEMMA DirCommit ==
  ASSUME NEW e \in Engines, DirInv, Commit(e)
  PROVE  DirInv'
  <1> DEFINE p == past[e]
             made == counts.commits[e]
             line == [version |-> (Len(p) - Unversioned(e)) + 1, time |-> clock,
                      id |-> made + 1]
             x == [id |-> made + 1, time |-> clock]
  <1>1. /\ IsFiles(dir) /\ DOMAIN past = Engines
        /\ DOMAIN counts = {"commits", "checkpoints", "backups", "adoptions"}
        /\ DOMAIN counts.commits = Engines
        /\ \A f \in Engines : EngineInv(dir, past[f], clock, counts.commits[f], f)
    BY DEF DirInv
  <1>2. /\ dir' = [dir EXCEPT !.log[e] = Append(@, line)]
        /\ past' = [past EXCEPT ![e] = Append(@, x)]
        /\ counts' = [counts EXCEPT !.commits[e] = @ + 1]
        /\ UNCHANGED <<clock, pruned>>
    BY DEF Commit, Version
  <1> HIDE DEF line, x
  <1>3. /\ IsFiles(dir') /\ dir'.snapshot = dir.snapshot /\ dir'.archive = dir.archive
        /\ dir'.log[e] = Append(dir.log[e], line)
        /\ \A f \in Engines : f # e => dir'.log[f] = dir.log[f]
    BY <1>1, <1>2 DEF IsFiles
  <1>4. /\ DOMAIN past' = Engines /\ past'[e] = Append(p, x)
        /\ \A f \in Engines : f # e => past'[f] = past[f]
    BY <1>1, <1>2
  <1>5. /\ DOMAIN counts' = {"commits", "checkpoints", "backups", "adoptions"}
        /\ DOMAIN counts'.commits = Engines /\ counts'.commits[e] = made + 1
        /\ \A f \in Engines : f # e => counts'.commits[f] = counts.commits[f]
    BY <1>1, <1>2
  <1>6. EngineInv(dir', past'[e], clock, made + 1, e)
    BY <1>1, <1>3, <1>4, EngineCommit DEF line, x
  <1>7. ASSUME NEW f \in Engines, f # e
        PROVE  EngineInv(dir', past'[f], clock, counts'.commits[f], f)
    <2>1. EngineInv(dir', past[f], clock, counts.commits[f], f)
      BY <1>1, <1>3, <1>7, EngineFiles
    <2> QED BY <1>4, <1>5, <1>7, <2>1
  <1>8. \A f \in Engines : EngineInv(dir', past'[f], clock', counts'.commits[f], f)
    BY <1>2, <1>5, <1>6, <1>7
  <1> QED BY <1>2, <1>3, <1>4, <1>5, <1>8 DEF DirInv

(* Checkpoint keeps the directory's invariant.                              *)
LEMMA DirCheckpoint ==
  ASSUME NEW e \in Engines, NEW crash \in BOOLEAN, DirInv, Checkpoint(e, crash)
  PROVE  DirInv'
  <1> DEFINE p == past[e]
             sn == [version |-> Len(p) - Unversioned(e), time |-> clock, content |-> Ids(p)]
             lines == IF crash THEN dir.log[e] ELSE <<>>
             segments == IF crash \/ dir.log[e] = <<>> THEN dir.archive[e]
                         ELSE Append(dir.archive[e], dir.log[e])
  <1>1. /\ IsFiles(dir) /\ DOMAIN past = Engines
        /\ DOMAIN counts = {"commits", "checkpoints", "backups", "adoptions"}
        /\ DOMAIN counts.commits = Engines
        /\ \A f \in Engines : EngineInv(dir, past[f], clock, counts.commits[f], f)
    BY DEF DirInv
  <1>2. /\ dir' = [dir EXCEPT !.snapshot[e] = sn, !.log[e] = lines, !.archive[e] = segments]
        /\ counts' = [counts EXCEPT !.checkpoints = @ + 1]
        /\ UNCHANGED <<past, clock, pruned>>
    BY <1>1 DEF Checkpoint, Version, IsFiles
  <1>3. lines \in {dir.log[e], <<>>}
        /\ segments \in {dir.archive[e], Append(dir.archive[e], dir.log[e])}
    OBVIOUS
  <1> HIDE DEF sn, lines, segments
  <1>4. /\ IsFiles(dir') /\ dir'.snapshot[e] = sn /\ dir'.log[e] = lines
        /\ dir'.archive[e] = segments
        /\ \A f \in Engines : f # e => /\ dir'.snapshot[f] = dir.snapshot[f]
                                       /\ dir'.log[f] = dir.log[f]
                                       /\ dir'.archive[f] = dir.archive[f]
    BY <1>1, <1>2 DEF IsFiles
  <1>5. /\ DOMAIN counts' = {"commits", "checkpoints", "backups", "adoptions"}
        /\ counts'.commits = counts.commits
    BY <1>1, <1>2
  <1>6. EngineInv(dir', past[e], clock, counts.commits[e], e)
    BY <1>1, <1>3, <1>4, EngineCheckpoint DEF sn
  <1>7. ASSUME NEW f \in Engines, f # e
        PROVE  EngineInv(dir', past[f], clock, counts.commits[f], f)
    BY <1>1, <1>4, <1>7, EngineFiles
  <1>8. \A f \in Engines : EngineInv(dir', past'[f], clock', counts'.commits[f], f)
    BY <1>2, <1>5, <1>6, <1>7
  <1> QED BY <1>1, <1>2, <1>4, <1>5, <1>8 DEF DirInv

(* Prune keeps the directory's invariant.                                   *)
LEMMA DirPrune ==
  ASSUME NEW before \in Nat, DirInv, Prune(before)
  PROVE  DirInv'
  <1> DEFINE K(e) == {i \in DOMAIN dir.archive[e] : ~Prunable(dir.archive[e][i], before)}
             kept == [e \in Engines |-> At(dir.archive[e], K(e))]
  <1>1. /\ IsFiles(dir) /\ DOMAIN past = Engines /\ pruned \in Nat
        /\ \A f \in Engines : EngineInv(dir, past[f], clock, counts.commits[f], f)
    BY DEF DirInv
  <1>2. /\ dir' = [dir EXCEPT !.archive = kept] /\ pruned' = Max({pruned, before})
        /\ UNCHANGED <<past, clock, counts>>
    BY DEF Prune
  <1>3. \A e \in Engines : /\ K(e) \subseteq DOMAIN dir.archive[e]
                           /\ kept[e] = At(dir.archive[e], K(e))
    OBVIOUS
  <1>4. DOMAIN kept = Engines
    OBVIOUS
  <1> HIDE DEF K, kept
  <1>5. /\ IsFiles(dir') /\ dir'.snapshot = dir.snapshot /\ dir'.log = dir.log
        /\ dir'.archive = kept
    BY <1>1, <1>2, <1>4 DEF IsFiles
  <1>6. ASSUME NEW f \in Engines
        PROVE  EngineInv(dir', past[f], clock, counts.commits[f], f)
    BY <1>1, <1>3, <1>5, EnginePrune
  <1>7. pruned' \in Nat
    <2>1. PICK b \in Nat : {pruned, before} \subseteq 0..b /\ {pruned, before} # {}
      <3>1. {pruned, before} \subseteq 0..(pruned + before) /\ pruned + before \in Nat
        BY <1>1
      <3> QED BY <3>1
    <2>2. Max({pruned, before}) \in {pruned, before}
      BY <2>1, MaxFacts
    <2> QED BY <1>1, <1>2, <2>2
  <1>8. \A f \in Engines : EngineInv(dir', past'[f], clock', counts'.commits[f], f)
    BY <1>2, <1>6
  <1> QED BY <1>2, <1>5, <1>7, <1>8 DEF DirInv

(* A restored directory can be taken into use.                              *)
LEMMA DirAdopt ==
  ASSUME DirInv, DestInv, Adopt
  PROVE  DirInv'
  <1>1. /\ IsFiles(dir) /\ DOMAIN past = Engines
        /\ DOMAIN counts = {"commits", "checkpoints", "backups", "adoptions"}
        /\ DOMAIN counts.commits = Engines
        /\ \A f \in Engines : EngineInv(dir, past[f], clock, counts.commits[f], f)
    BY DEF DirInv
  <1>2. /\ dest.state = "restored" /\ dir' = dest.files
        /\ past' = [e \in Engines |-> SubSeq(past[e], 1, Len(Opened(dest.files, e)))]
        /\ counts' = [counts EXCEPT !.adoptions = @ + 1, !.backups = 0]
        /\ pruned' = 0 /\ UNCHANGED clock
        /\ \A e \in Engines : ~Rewinds(dest.files, e)
    BY DEF Adopt
  <1>3. /\ IsFiles(dest.files)
        /\ \A e \in Engines : \E n \in Nat : /\ Holds(dest.files, past[e], n, e)
                                             /\ dest.files.snapshot[e].time <= clock
    BY <1>2 DEF DestInv
  <1>4. ASSUME NEW e \in Engines
        PROVE  EngineInv(dir', past'[e], clock, counts.commits[e], e)
    <2>1. PICK n \in Nat : Holds(dest.files, past[e], n, e) /\ dest.files.snapshot[e].time <= clock
      BY <1>3
    <2>2. HistoryInv(past[e], e)
      BY <1>1 DEF EngineInv
    <2>3. Opened(dest.files, e) = [i \in 1..n |-> past[e][i].id]
      BY <2>1, <2>2, OpenedIsPrefix
    <2>4. Len(Opened(dest.files, e)) = n
      <3> DEFINE f == Opened(dest.files, e)
      <3> HIDE DEF f
      <3>1. f = [i \in 1..n |-> f[i]]
        BY <2>3 DEF f
      <3>2. Len(f) = n
        BY <3>1, FunctionIsSeq
      <3> QED BY <3>2 DEF f
    <2>5. past'[e] = SubSeq(past[e], 1, n)
      BY <1>2, <2>4
    <2>6. EngineInv(dest.files, past'[e], clock, counts.commits[e], e)
      BY <1>1, <2>1, <2>5, EngineAdopt
    <2> QED BY <1>2, <2>6
  <1>5. /\ DOMAIN counts' = {"commits", "checkpoints", "backups", "adoptions"}
        /\ counts'.commits = counts.commits
    BY <1>1, <1>2
  <1>6. \A f \in Engines : EngineInv(dir', past'[f], clock', counts'.commits[f], f)
    BY <1>2, <1>4, <1>5
  <1>7. DOMAIN past' = Engines /\ IsFiles(dir') /\ clock' \in Nat \ {0} /\ pruned' \in Nat
    BY <1>2, <1>3 DEF DirInv
  <1> QED BY <1>1, <1>5, <1>6, <1>7 DEF DirInv
-----------------------------------------------------------------------------
(* Backups                                                                  *)

(* Steps that leave the backup alone.                                       *)
LEMMA BackupSame ==
  ASSUME BackupInv, UNCHANGED <<backup, past, clock>>,
         backup.state = "copying" => /\ active' = {} /\ dir'.snapshot = dir.snapshot
                                     /\ dir'.log = dir.log
  PROVE  BackupInv'
  BY DEF BackupInv

(* Tick keeps the backup's invariant.                                       *)
LEMMA BackupTick ==
  ASSUME DirInv, BackupInv, Tick
  PROVE  BackupInv'
  <1>1. clock \in Nat /\ clock' = clock + 1 /\ UNCHANGED <<backup, past, dir, active>>
    BY DEF DirInv, Tick
  <1>2. ASSUME backup.state = "published", NEW e \in Engines
        PROVE  backup.files.snapshot[e].time <= clock'
    <2>1. \E n \in Nat : Holds(backup.files, past[e], n, e)
      BY <1>2 DEF BackupInv
    <2>2. backup.files.snapshot[e].time \in Nat /\ backup.files.snapshot[e].time <= clock
      BY <1>2, <2>1 DEF BackupInv, Holds, SnapshotOf
    <2> QED BY <1>1, <2>2
  <1> QED BY <1>1, <1>2 DEF BackupInv

(* A backup stays one of a history that goes on.                            *)
LEMMA BackupCommit ==
  ASSUME NEW e \in Engines, DirInv, BackupInv, Commit(e)
  PROVE  BackupInv'
  <1>1. DirInv' /\ e \in active /\ UNCHANGED <<active, clock, backup>>
    BY DirCommit DEF Commit
  <1>2. backup.state # "copying"
    BY <1>1 DEF BackupInv
  <1>3. /\ DOMAIN past = Engines
        /\ past' = [past EXCEPT ![e] = Append(@, [id |-> counts.commits[e] + 1, time |-> clock])]
    BY DEF Commit, DirInv
  <1>4. ASSUME backup.state = "published", NEW f \in Engines
        PROVE  \E n \in Nat : Holds(backup.files, past'[f], n, f)
    <2>1. PICK n \in Nat : Holds(backup.files, past[f], n, f)
      BY <1>4 DEF BackupInv
    <2>2. CASE f # e
      BY <1>3, <2>1, <2>2
    <2>3. CASE f = e
      <3> DEFINE p == past[e]
                 x == [id |-> counts.commits[e] + 1, time |-> clock]
                 q == Append(p, x)
      <3>1. HistoryInv(p, e)
        BY DEF DirInv, EngineInv
      <3>2. p \in Seq(Commits) /\ Len(p) \in Nat /\ past'[e] = q
        BY <1>3, <3>1 DEF HistoryInv
      <3>3. IsSeq(p)
        BY <3>2 DEF IsSeq
      <3>4. Len(q) = Len(p) + 1 /\ (\A i \in 1..Len(p) : q[i] = p[i]) /\ q[Len(p) + 1] = x
        BY <3>3, AppendFacts
      <3>5. x.time = clock
        OBVIOUS
      <3>6. n <= Len(p)
        BY <2>1, <2>3 DEF Holds
      <3>7. /\ backup.files.snapshot[e].time <= clock
            /\ SnapshotOf(backup.files.snapshot[e], p, e)
            /\ Len(backup.files.snapshot[e].content) <= n
        BY <1>4, <2>1, <2>3 DEF BackupInv, Holds
      <3> HIDE DEF q, x, p
      <3>8. Len(q) \in Nat /\ n <= Len(q) /\ \A i \in 1..n : q[i] = p[i]
        BY <3>2, <3>4, <3>6
      <3>9. ASSUME NEW i \in 1..Len(q), i > n
            PROVE  backup.files.snapshot[e].time <= q[i].time
        <4>1. CASE i \in 1..Len(p)
          <5>1. i > Len(backup.files.snapshot[e].content)
            BY <3>7, <3>9 DEF SnapshotOf
          <5>2. backup.files.snapshot[e].time <= p[i].time
            BY <3>7, <4>1, <5>1 DEF SnapshotOf
          <5> QED BY <3>4, <4>1, <5>2
        <4>2. CASE i = Len(p) + 1
          BY <3>4, <3>5, <3>7, <4>2
        <4> QED BY <3>2, <3>4, <4>1, <4>2
      <3>10. Holds(backup.files, p, n, e)
        BY <2>1, <2>3 DEF p
      <3>11. Holds(backup.files, q, n, e)
        BY <3>1, <3>8, <3>9, <3>10, HoldsSame
      <3> QED BY <2>3, <3>2, <3>11
    <2> QED BY <2>2, <2>3
  <1> QED BY <1>1, <1>2, <1>4 DEF BackupInv

(* The copy of the base is the directory's snapshot and log.                *)
LEMMA BackupBegin ==
  ASSUME DirInv, BeginBackup
  PROVE  BackupInv'
  <1>1. /\ IsFiles(dir) /\ active = {} /\ UNCHANGED <<dir, active>>
        /\ backup' = [NoBackup EXCEPT !.state = "copying",
                                      !.files = [dir EXCEPT !.archive = NoDirectory.archive]]
    BY DEF BeginBackup, DirInv
  <1>2. DOMAIN NoDirectory.archive = Engines
    BY DEF NoDirectory
  <1>3. /\ backup'.state = "copying"
        /\ backup'.files = [dir EXCEPT !.archive = NoDirectory.archive]
    BY <1>1 DEF NoBackup
  <1>4. /\ IsFiles(backup'.files) /\ backup'.files.snapshot = dir.snapshot
        /\ backup'.files.log = dir.log
    BY <1>1, <1>2, <1>3 DEF IsFiles
  <1> QED BY <1>1, <1>3, <1>4 DEF BackupInv

(* A published backup holds what the directory held.                        *)
LEMMA BackupPublish ==
  ASSUME DirInv, BackupInv, PublishBackup
  PROVE  /\ BackupInv' /\ backup'.state = "published"
         /\ backup'.files.snapshot = dir.snapshot /\ backup'.files.log = dir.log
         /\ backup'.files.archive = dir.archive
  <1> DEFINE files == [backup.files EXCEPT !.archive = dir.archive]
  <1>1. /\ backup.state = "copying" /\ UNCHANGED <<dir, active, past, clock>>
        /\ backup' = [state |-> "published", files |-> files,
                      end |-> [e \in Engines |-> EndVersion(files, e)]]
    BY DEF PublishBackup, Locked
  <1>2. /\ IsFiles(files) /\ files.snapshot = dir.snapshot /\ files.log = dir.log
        /\ files.archive = dir.archive
    <2>1. /\ IsFiles(backup.files) /\ backup.files.snapshot = dir.snapshot
          /\ backup.files.log = dir.log /\ IsFiles(dir)
      BY <1>1 DEF BackupInv, DirInv
    <2> QED BY <2>1 DEF IsFiles
  <1> HIDE DEF files
  <1>3. \A e \in Engines : EndVersion(files, e) = Reported(files, e)
    BY DEF EndVersion, Collected, Reported, Own
  <1>4. /\ backup'.state = "published" /\ backup'.files = files
        /\ \A e \in Engines : backup'.end[e] = Reported(backup'.files, e)
    BY <1>1, <1>3
  <1>5. ASSUME NEW e \in Engines
        PROVE  /\ \E n \in Nat : Holds(files, past[e], n, e)
               /\ files.snapshot[e].time <= clock
    <2>1. /\ Len(past[e]) \in Nat /\ Holds(dir, past[e], Len(past[e]), e)
          /\ dir.snapshot[e].time <= clock
      BY DEF DirInv, EngineInv, HistoryInv
    <2>2. Holds(files, past[e], Len(past[e]), e)
      BY <1>2, <2>1, HoldsFiles
    <2> QED BY <1>2, <2>1, <2>2
  <1> QED BY <1>1, <1>2, <1>4, <1>5 DEF BackupInv

(* No backup satisfies the invariant.                                       *)
LEMMA BackupNone ==
  ASSUME backup' = NoBackup
  PROVE  BackupInv'
  BY DEF BackupInv, NoBackup

(* Pruning spares what a later backup needs.                                *)

(* Steps that leave backup, archive and log alone.                          *)
LEMMA PruneSame ==
  ASSUME PruneInv, UNCHANGED <<backup, past, pruned>>, dir'.archive = dir.archive,
         dir'.log = dir.log
  PROVE  PruneInv'
  BY DEF PruneInv, Reaches

(* The versions of a log with one line more.                                *)
LEMMA VersionsAppend ==
  ASSUME NEW lines, IsSeq(lines), NEW x
  PROVE  /\ \A v \in Versions(lines) : v \in Versions(Append(lines, x))
         /\ IsRecord(x) => x.version \in Versions(Append(lines, x))
  <1> DEFINE new == Append(lines, x)
  <1>1. /\ Len(lines) \in Nat /\ DOMAIN lines = 1..Len(lines)
        /\ DOMAIN new = 1..(Len(lines) + 1)
        /\ \A i \in 1..Len(lines) : new[i] = lines[i]
        /\ new[Len(lines) + 1] = x
    BY AppendFacts
  <1> HIDE DEF new
  <1>2. ASSUME NEW v \in Versions(lines) PROVE v \in Versions(new)
    <2>1. PICK i \in DOMAIN lines : IsRecord(lines[i]) /\ lines[i].version = v
      BY DEF Versions
    <2>2. i \in DOMAIN new /\ new[i] = lines[i]
      BY <1>1
    <2> QED BY <2>1, <2>2 DEF Versions
  <1>3. IsRecord(x) => x.version \in Versions(new)
    <2>1. Len(lines) + 1 \in DOMAIN new
      BY <1>1
    <2> QED BY <1>1, <2>1 DEF Versions
  <1> QED BY <1>2, <1>3 DEF new

(* The record of a new commit is in the log.                                *)
LEMMA PruneCommit ==
  ASSUME NEW e \in Engines, DirInv, PruneInv, Commit(e)
  PROVE  PruneInv'
  <1> DEFINE p == past[e]
             U == Unversioned(e)
             line == [version |-> (Len(p) - U) + 1, time |-> clock,
                      id |-> counts.commits[e] + 1]
             x == [id |-> counts.commits[e] + 1, time |-> clock]
  <1>1. IsFiles(dir) /\ DOMAIN past = Engines /\ HistoryInv(p, e) /\ Holds(dir, p, Len(p), e)
    BY DEF DirInv, EngineInv
  <1>2. /\ dir' = [dir EXCEPT !.log[e] = Append(@, line)]
        /\ past' = [past EXCEPT ![e] = Append(@, x)]
        /\ UNCHANGED <<backup, pruned>>
    BY DEF Commit, Version
  <1>3. /\ Len(p) \in Nat /\ IsSeq(p) /\ IsSeq(dir.log[e])
    BY <1>1 DEF HistoryInv, Holds, LogOf, IsSeq
  <1>4. Len(Append(p, x)) = Len(p) + 1
    BY <1>3, AppendFacts
  <1>5. (Len(p) - U) + 1 > 0 /\ U \in {0, 1} /\ Len(p) - U \in Nat
    <2>1. U = 1 => Len(p) > 0
      BY <1>1, UnversionedFacts DEF HistoryInv
    <2> QED BY <1>3, <2>1, UnversionedFacts
  <1>6. IsRecord(line) /\ line.version = (Len(p) - U) + 1
    BY <1>5 DEF IsRecord
  <1> HIDE DEF line, x
  <1>7. /\ dir'.archive = dir.archive /\ dir'.log[e] = Append(dir.log[e], line)
        /\ \A f \in Engines : f # e => dir'.log[f] = dir.log[f] /\ past'[f] = past[f]
        /\ past'[e] = Append(p, x)
    BY <1>1, <1>2 DEF IsFiles
  <1>8. /\ \A v \in Versions(dir.log[e]) : v \in Versions(dir'.log[e])
        /\ (Len(p) - U) + 1 \in Versions(dir'.log[e])
    BY <1>3, <1>6, <1>7, VersionsAppend
  <1>9. ASSUME backup.state = "published", NEW f \in Engines,
               NEW base, base = backup.files.snapshot[f],
               base.time > 0, base.time >= pruned,
               NEW v \in (base.version + 1)..(Len(past'[f]) - Unversioned(f))
        PROVE  Reaches(backup.files, dir', v, f)
    <2>1. CASE f # e
      <3>1. Reaches(backup.files, dir, v, f)
        BY <1>7, <1>9, <2>1 DEF PruneInv
      <3> QED BY <1>7, <2>1, <3>1 DEF Reaches
    <2>2. CASE f = e /\ v = (Len(p) - U) + 1
      BY <1>8, <2>2 DEF Reaches
    <2>3. CASE f = e /\ v # (Len(p) - U) + 1
      <3>1. Len(past'[f]) - Unversioned(f) = (Len(p) - U) + 1
        BY <1>3, <1>4, <1>5, <1>7, <2>3
      <3>2. v \in (base.version + 1)..(Len(past[f]) - Unversioned(f))
        BY <1>5, <2>3, <3>1
      <3>3. Reaches(backup.files, dir, v, f)
        BY <1>9, <3>2 DEF PruneInv
      <3> QED BY <1>7, <1>8, <2>3, <3>3 DEF Reaches
    <2> QED BY <2>1, <2>2, <2>3
  <1> QED BY <1>2, <1>9 DEF PruneInv

(* A checkpoint moves records from the log to the archive.                  *)
LEMMA PruneCheckpoint ==
  ASSUME NEW e \in Engines, NEW crash \in BOOLEAN, DirInv, PruneInv, Checkpoint(e, crash)
  PROVE  PruneInv'
  <1> DEFINE log == dir.log[e]
             arc == dir.archive[e]
  <1>1. IsFiles(dir) /\ HistoryInv(past[e], e) /\ Holds(dir, past[e], Len(past[e]), e)
    BY DEF DirInv, EngineInv
  <1>2. /\ UNCHANGED <<backup, past, pruned>>
        /\ dir'.log[e] = IF crash THEN log ELSE <<>>
        /\ dir'.archive[e] = IF crash \/ log = <<>> THEN arc ELSE Append(arc, log)
        /\ \A f \in Engines : f # e => /\ dir'.log[f] = dir.log[f]
                                       /\ dir'.archive[f] = dir.archive[f]
    BY <1>1 DEF Checkpoint, IsFiles
  <1>3. IsSeq(arc)
    BY <1>1 DEF Holds, ArchiveOf, IsSeq
  <1> HIDE DEF log, arc
  <1>4. ASSUME NEW v, InSome(arc, v) \/ v \in Versions(log)
        PROVE  InSome(dir'.archive[e], v) \/ v \in Versions(dir'.log[e])
    <2>1. CASE crash
      BY <1>2, <1>4, <2>1
    <2>2. CASE ~crash /\ log = <<>>
      <3>1. Versions(<<>>) = {}
        BY DEF Versions
      <3> QED BY <1>2, <1>4, <2>2, <3>1
    <2>3. CASE ~crash /\ log # <<>>
      <3> DEFINE new == Append(arc, log)
      <3>1. /\ Len(arc) \in Nat /\ Len(new) = Len(arc) + 1 /\ new[Len(arc) + 1] = log
            /\ \A i \in 1..Len(arc) : new[i] = arc[i]
        BY <1>3, AppendFacts
      <3> HIDE DEF new
      <3>2. InSome(new, v)
        <4>1. CASE v \in Versions(log)
          <5>1. Len(arc) + 1 \in 1..Len(new)
            BY <3>1
          <5> QED BY <3>1, <4>1, <5>1 DEF InSome
        <4>2. CASE InSome(arc, v)
          <5>1. PICK i \in 1..Len(arc) : v \in Versions(arc[i])
            BY <4>2 DEF InSome
          <5>2. i \in 1..Len(new) /\ new[i] = arc[i]
            BY <3>1
          <5> QED BY <5>1, <5>2 DEF InSome
        <4> QED BY <1>4, <4>1, <4>2
      <3> QED BY <1>2, <2>3, <3>2 DEF new
    <2> QED BY <2>1, <2>2, <2>3
  <1>5. ASSUME NEW f \in Engines, NEW v, Reaches(backup.files, dir, v, f)
        PROVE  Reaches(backup.files, dir', v, f)
    <2>1. CASE f = e
      BY <1>4, <1>5, <2>1 DEF Reaches, log, arc
    <2>2. CASE f # e
      BY <1>2, <1>5, <2>2 DEF Reaches
    <2> QED BY <2>1, <2>2
  <1> QED BY <1>2, <1>5 DEF PruneInv

(* A record that a backup lacks is not older than its snapshot, so its      *)
(* segment stays.                                                           *)
LEMMA PrunePrune ==
  ASSUME NEW before \in Nat, DirInv, BackupInv, PruneInv, Prune(before)
  PROVE  PruneInv'
  <1> DEFINE K(e) == {i \in DOMAIN dir.archive[e] : ~Prunable(dir.archive[e][i], before)}
             kept == [e \in Engines |-> At(dir.archive[e], K(e))]
  <1>1. IsFiles(dir) /\ pruned \in Nat /\ clock \in Nat
    BY DEF DirInv
  <1>2. /\ dir' = [dir EXCEPT !.archive = kept] /\ pruned' = Max({pruned, before})
        /\ UNCHANGED <<backup, past>>
    BY DEF Prune
  <1>3. \A e \in Engines : dir'.archive[e] = At(dir.archive[e], K(e)) /\ dir'.log[e] = dir.log[e]
    BY <1>1, <1>2 DEF IsFiles
  <1>4. pruned' \in Nat /\ pruned <= pruned' /\ before <= pruned'
    <2>1. {pruned, before} \subseteq 0..(pruned + before) /\ pruned + before \in Nat
          /\ {pruned, before} # {}
      BY <1>1
    <2>2. Max({pruned, before}) \in {pruned, before}
          /\ \A x \in {pruned, before} : x <= Max({pruned, before})
      BY <2>1, MaxFacts
    <2> QED BY <1>1, <1>2, <2>2
  <1>5. ASSUME NEW e \in Engines, backup.state = "published",
               NEW base, base = backup.files.snapshot[e],
               base.time > 0, base.time >= pruned',
               NEW v \in (base.version + 1)..(Len(past[e]) - Unversioned(e))
        PROVE  Reaches(backup.files, dir', v, e)
    <2> DEFINE p == past[e]
               arc == dir.archive[e]
               U == Unversioned(e)
    <2>1. /\ HistoryInv(p, e) /\ Holds(dir, p, Len(p), e)
          /\ \A i \in 1..Len(p) : p[i].time <= clock
      BY DEF DirInv, EngineInv
    <2>2. SnapshotOf(base, p, e)
      BY <1>5 DEF BackupInv, Holds
    <2>3. /\ base.time \in Nat /\ base.version \in Nat /\ Len(p) \in Nat
          /\ base.version + U = Len(base.content) /\ U \in {0, 1}
      BY <1>5, <2>1, <2>2, BaseFacts, UnversionedFacts DEF SnapshotOf
    <2>4. Reaches(backup.files, dir, v, e)
      <3>1. base.time >= pruned
        BY <1>1, <1>4, <1>5, <2>3
      <3> QED BY <1>5, <3>1 DEF PruneInv
    <2>5. CASE ~InSome(arc, v)
      BY <1>3, <2>4, <2>5 DEF Reaches
    <2>6. CASE InSome(arc, v)
      <3>1. PICK s \in 1..Len(arc) : v \in Versions(arc[s])
        BY <2>6 DEF InSome
      <3>2. AllFrom(arc, p, e)
        BY <2>1, HoldsFrom
      <3>3. Len(arc) \in Nat /\ DOMAIN arc = 1..Len(arc)
        BY <3>2, SeqIsFunction DEF AllFrom
      <3>4. From(arc[s], p, e)
        BY <3>2 DEF AllFrom
      <3>5. PICK i \in DOMAIN arc[s] : IsRecord(arc[s][i]) /\ arc[s][i].version = v
        BY <3>1 DEF Versions
      <3>6. /\ arc[s] \in Seq(Lines) /\ DOMAIN arc[s] = 1..Len(arc[s])
            /\ \A l \in 1..Len(arc[s]) : \E j \in 1..Len(p) : arc[s][l] = LineOf(p, e, j)
        BY <3>4 DEF From
      <3>7. \A l \in DOMAIN arc[s] : arc[s][l].time \in 0..clock
        <4> SUFFICES ASSUME NEW l \in DOMAIN arc[s] PROVE arc[s][l].time \in 0..clock
          OBVIOUS
        <4>1. PICK j \in 1..Len(p) : arc[s][l] = LineOf(p, e, j)
          BY <3>6
        <4>2. CASE p[j].id = 0
          <5>1. LegacyLine.time = 0
            BY DEF LegacyLine
          <5> QED BY <1>1, <2>1, <4>1, <4>2, <5>1, LineFacts
        <4>3. CASE p[j].id # 0
          <5>1. arc[s][l].time = p[j].time /\ p[j].time \in Nat
            BY <2>1, <4>1, <4>3, LineFacts, CommitFacts
          <5> QED BY <1>1, <2>1, <5>1
        <4> QED BY <4>2, <4>3
      <3>8. arc[s][i].time >= before
        <4>1. PICK j \in 1..Len(p) : arc[s][i] = LineOf(p, e, j)
          BY <3>6
        <4>2. p[j].id # 0 /\ v = j - U /\ arc[s][i].time = p[j].time /\ p[j].time \in Nat
          BY <2>1, <3>5, <4>1, LineFacts, CommitFacts
        <4>3. j > Len(base.content)
          <5>1. v \in Int /\ v >= base.version + 1 /\ j \in Int
            BY <2>3
          <5> HIDE DEF U
          <5>2. j = v + U
            BY <2>3, <4>2, <5>1
          <5> QED BY <2>3, <5>1, <5>2
        <4>4. base.time <= p[j].time
          BY <2>2, <4>3 DEF SnapshotOf
        <4> QED BY <1>4, <1>5, <2>3, <4>2, <4>4
      <3>9. LatestTimestamp(arc[s]) \in Nat /\ arc[s][i].time <= LatestTimestamp(arc[s])
        <4> DEFINE T == {arc[s][l].time : l \in DOMAIN arc[s]}
        <4>1. T \subseteq 0..clock /\ arc[s][i].time \in T /\ T # {}
          BY <3>7
        <4>2. LatestTimestamp(arc[s]) = Max(T)
          BY DEF LatestTimestamp
        <4> HIDE DEF T
        <4>3. Max(T) \in Nat /\ \A x \in T : x <= Max(T)
          BY <1>1, <4>1, MaxFacts
        <4> QED BY <4>1, <4>2, <4>3
      <3>10. s \in K(e)
        <4>1. ~(LatestTimestamp(arc[s]) < before)
          <5>1. arc[s][i].time \in Nat
            BY <3>7
          <5> QED BY <3>8, <3>9, <5>1
        <4> QED BY <3>3, <4>1 DEF Prunable
      <3>11. K(e) \subseteq 1..Len(arc)
        BY <3>3
      <3> DEFINE new == At(arc, K(e))
      <3> HIDE DEF K
      <3>12. PICK m \in 1..Cardinality(K(e)) : Place(K(e), m) = s
        BY <3>3, <3>10, <3>11, PlaceOnto
      <3>13. /\ Len(new) = Cardinality(K(e))
             /\ \A i_1 \in 1..Cardinality(K(e)) : new[i_1] = arc[Place(K(e), i_1)]
        BY <3>3, <3>11, AtFacts
      <3>14. new[m] = arc[s] /\ m \in 1..Len(new)
        BY <3>12, <3>13
      <3>15. InSome(new, v)
        BY <3>1, <3>14 DEF InSome
      <3> QED BY <1>3, <3>15 DEF Reaches
    <2> QED BY <2>5, <2>6
  <1> QED BY <1>2, <1>5 DEF PruneInv

(* A new backup has the log, which has all that its snapshot has not.       *)
LEMMA LogReaches ==
  ASSUME NEW files, NEW p, NEW n, NEW e, HistoryInv(p, e), Holds(files, p, n, e),
         NEW j \in 1..Len(p), j > Len(files.snapshot[e].content), j <= n, p[j].id # 0
  PROVE  j - Unversioned(e) \in Versions(files.log[e])
  <1> DEFINE log == files.log[e]
             c == Len(files.snapshot[e].content)
  <1>1. PICK k \in Nat :
          /\ Len(log) = k + (n - c)
          /\ \A i \in 1..k : \E l \in 1..c : log[i] = LineOf(p, e, l)
          /\ \A i \in 1..(n - c) : log[k + i] = LineOf(p, e, c + i)
    BY DEF Holds, LogOf
  <1>2. log \in Seq(Lines) /\ c \in Nat /\ n \in Nat /\ Len(p) \in Nat
    BY DEF Holds, LogOf, SnapshotOf, HistoryInv
  <1>3. DOMAIN log = 1..Len(log)
    BY <1>2
  <1> HIDE DEF log, c
  <1>4. j - c \in 1..(n - c) /\ c + (j - c) = j /\ k + (j - c) \in 1..Len(log)
    <2>1. Len(log) = k + (n - c) /\ j \in Int /\ j > c /\ j <= n
      BY <1>1 DEF c
    <2> QED BY <1>2, <2>1
  <1>5. log[k + (j - c)] = LineOf(p, e, j)
    BY <1>1, <1>4
  <1>6. IsRecord(LineOf(p, e, j)) /\ LineOf(p, e, j).version = j - Unversioned(e)
    BY LineFacts
  <1>7. \E i \in DOMAIN log : IsRecord(log[i]) /\ log[i].version = j - Unversioned(e)
    BY <1>3, <1>4, <1>5, <1>6
  <1>8. j - Unversioned(e) \in Versions(log)
    BY <1>7 DEF Versions
  <1> QED BY <1>8 DEF log

(* A new backup and the directory reach every record.                       *)
LEMMA PrunePublish ==
  ASSUME DirInv, BackupInv, PublishBackup
  PROVE  PruneInv'
  <1>1. /\ backup'.files.snapshot = dir.snapshot /\ backup'.files.log = dir.log
        /\ UNCHANGED <<dir, past, pruned>>
    BY BackupPublish DEF PublishBackup
  <1>2. ASSUME NEW e \in Engines, NEW base, base = dir.snapshot[e], base.time > 0,
               NEW v \in (base.version + 1)..(Len(past[e]) - Unversioned(e))
        PROVE  v \in Versions(dir.log[e])
    <2> DEFINE p == past[e]
               U == Unversioned(e)
               j == v + U
    <2>1. HistoryInv(p, e) /\ Holds(dir, p, Len(p), e)
      BY DEF DirInv, EngineInv
    <2>2. SnapshotOf(base, p, e)
      BY <1>2, <2>1 DEF Holds
    <2>3. /\ base.version \in Nat /\ Len(p) \in Nat /\ U \in {0, 1}
          /\ base.version + U = Len(base.content)
      BY <1>2, <2>1, <2>2, BaseFacts, UnversionedFacts
    <2>4. j \in 1..Len(p) /\ j > Len(base.content) /\ j <= Len(p) /\ v \in Nat /\ v > 0
          /\ j - U = v
      BY <1>2, <2>3
    <2>5. p[j].id # 0
      <3>1. p[j].id = 0 <=> j = 1 /\ e \in Legacy
        BY <2>1, <2>4, CommitFacts
      <3>2. CASE e \in Legacy
        <4>1. Len(base.content) > 0
          BY <1>2, <2>2, <3>2 DEF SnapshotOf
        <4> QED BY <2>3, <2>4, <3>1, <4>1
      <3>3. CASE e \notin Legacy
        BY <3>1, <3>3
      <3> QED BY <3>2, <3>3
    <2> HIDE DEF j
    <2>6. j - U \in Versions(dir.log[e])
      BY <1>2, <2>1, <2>4, <2>5, LogReaches
    <2> QED BY <2>4, <2>6
  <1> QED BY <1>1, <1>2 DEF PruneInv, Reaches

(* What PruneInv says in terms of the records there are.                    *)
LEMMA PruneInvGives ==
  ASSUME DirInv, BackupInv, PruneInv
  PROVE  PruneKeepsLaterBackups
  <1> SUFFICES ASSUME backup.state = "published", NEW e \in Engines,
                      backup.files.snapshot[e].time > 0,
                      backup.files.snapshot[e].time >= pruned,
                      NEW v \in (backup.files.snapshot[e].version + 1)..Version(e)
               PROVE  v \in DOMAIN Collected(backup.files, TRUE, e) \union Versions(dir.log[e])
    BY DEF PruneKeepsLaterBackups
  <1>1. Reaches(backup.files, dir, v, e)
    BY DEF PruneInv, Version
  <1>2. HistoryInv(past[e], e) /\ Holds(dir, past[e], Len(past[e]), e)
    BY DEF DirInv, EngineInv
  <1>3. PICK n \in Nat : Holds(backup.files, past[e], n, e)
    BY DEF BackupInv
  <1>4. /\ From(backup.files.log[e], past[e], e) /\ AllFrom(backup.files.archive[e], past[e], e)
        /\ AllFrom(dir.archive[e], past[e], e)
    BY <1>2, <1>3, HoldsFrom
  <1>5. \A w : w \in DOMAIN Collected(backup.files, TRUE, e) <=>
                 \/ w \in Versions(backup.files.log[e])
                 \/ InSome(backup.files.archive[e], w)
                 \/ TRUE /\ InSome(dir.archive[e], w)
    BY <1>2, <1>4, CollectedFacts
  <1> QED BY <1>1, <1>5 DEF Reaches
-----------------------------------------------------------------------------
(* Restores                                                                 *)

(* What a restore works with.                                               *)
LEMMA Sources ==
  ASSUME DirInv, BackupInv, backup.state = "published", NEW e \in Engines
  PROVE  /\ HistoryInv(past[e], e) /\ \E n \in Nat : Holds(backup.files, past[e], n, e)
         /\ AllFrom(dir.archive[e], past[e], e)
         /\ From(backup.files.log[e], past[e], e)
         /\ AllFrom(backup.files.archive[e], past[e], e)
  <1>1. HistoryInv(past[e], e) /\ Holds(dir, past[e], Len(past[e]), e)
    BY DEF DirInv, EngineInv
  <1>2. PICK n \in Nat : Holds(backup.files, past[e], n, e)
    BY DEF BackupInv
  <1>3. AllFrom(dir.archive[e], past[e], e)
    BY <1>1, HoldsFrom
  <1>4. From(backup.files.log[e], past[e], e) /\ AllFrom(backup.files.archive[e], past[e], e)
    BY <1>1, <1>2, HoldsFrom
  <1> QED BY <1>1, <1>2, <1>3, <1>4

(* A restore keeps the legacy lines of the log.                             *)
LEMMA LegacyStays ==
  ASSUME NEW files, NEW p, NEW n, NEW e, HistoryInv(p, e), Holds(files, p, n, e),
         NEW external, external => AllFrom(dir.archive[e], p, e), NEW target,
         NEW run, run = RestoreEngine(files, external, target, e), run.ok,
         LegacyAt(files.log[e]) # {}
  PROVE  LegacyAt(run.log) # {}
  <1> DEFINE K == LegacyAt(files.log[e])
             W == run.log
             q == Cardinality(K)
  <1>1. PICK t : Restored(W, p, e, files.snapshot[e].version, q, t)
    BY RestoredLines
  <1>2. From(files.log[e], p, e)
    BY HoldsFrom
  <1>3. /\ q \in Nat /\ e \in Legacy /\ Len(p) > 0
        /\ \A i \in K : files.log[e][i] = LineOf(p, e, 1) /\ files.log[e][i] = LegacyLine
    BY <1>2, LegacyLines
  <1>4. q # 0
    <2>1. files.log[e] \in Seq(Lines) /\ n \in Nat /\ n <= Len(p)
      BY DEF Holds, LogOf
    <2> DEFINE L == files.log[e]
    <2>2. L \in Seq(Lines)
      BY <2>1
    <2>3. K = LegacyAt(L) /\ K # {}
      OBVIOUS
    <2> HIDE DEF L, K
    <2>4. Len(L) \in Nat /\ DOMAIN L = 1..Len(L)
      BY <2>2
    <2>5. IsFiniteSet(1..Len(L))
      BY <2>4, FS_Interval
    <2>6. K \subseteq 1..Len(L)
      BY <2>3, <2>4 DEF LegacyAt
    <2>7. IsFiniteSet(K)
      BY <2>5, <2>6, FS_Subset
    <2> QED BY <2>3, <2>7, FS_EmptySet
  <1>5. LineOf(p, e, 1) = LegacyLine
    BY <1>3
  <1> HIDE DEF K, W, q
  <1>6. /\ IsSeq(W) /\ Len(W) = q + t /\ t \in Nat /\ W[1] = LegacyLine
    <2>1. 1 \in 1..q
      BY <1>3, <1>4
    <2> QED BY <1>1, <1>5, <2>1 DEF Restored
  <1>7. 1 \in DOMAIN W
    <2>1. DOMAIN W = 1..Len(W)
      BY <1>6, SeqIsFunction
    <2> QED BY <1>3, <1>4, <1>6, <2>1
  <1>8. 1 \in LegacyAt(W)
    BY <1>6, <1>7 DEF LegacyAt, IsRecord, LegacyLine
  <1> QED BY <1>8 DEF W

(* What a restore produces holds the first commits of the history.          *)
LEMMA DestRestore ==
  ASSUME DirInv, BackupInv, NEW target, NEW external \in BOOLEAN, Restore(target, external)
  PROVE  DestInv'
  <1> DEFINE run == [e \in Engines |-> RestoreEngine(backup.files, external, target, e)]
             point == [e \in Engines |-> run[e].point]
             logs == [e \in Engines |-> run[e].log]
             files == [backup.files EXCEPT !.log = logs]
  <1> SUFFICES ASSUME dest'.state = "restored" PROVE DestInv'
    BY DEF DestInv
  <1>1. /\ backup.state = "published" /\ UNCHANGED <<past, clock>>
        /\ dest'.files = files /\ dest'.point = point /\ dest'.target = target
        /\ \A e \in Engines : run[e].ok
    BY DEF Restore
  <1>2. IsFiles(backup.files)
    BY <1>1 DEF BackupInv
  <1>3. DOMAIN logs = Engines /\ \A e \in Engines : logs[e] = run[e].log /\ point[e] = run[e].point
    OBVIOUS
  <1>4. \A e \in Engines : run[e] = RestoreEngine(backup.files, external, target, e)
    OBVIOUS
  <1> HIDE DEF run, point, logs
  <1>5. /\ IsFiles(files) /\ files.snapshot = backup.files.snapshot
        /\ files.archive = backup.files.archive /\ files.log = logs
    BY <1>2, <1>3 DEF IsFiles
  <1> HIDE DEF files
  <1>6. ASSUME NEW e \in Engines, ~Rewinds(files, e) \/ target.kind # "latest"
        PROVE  \E m \in Nat : Holds(files, past[e], m, e) /\ m = point[e] + Unversioned(e)
    <2>1. PICK n \in Nat : Holds(backup.files, past[e], n, e)
      BY <1>1, Sources
    <2>2. HistoryInv(past[e], e) /\ AllFrom(dir.archive[e], past[e], e)
      BY <1>1, Sources
    <2>3. /\ files.snapshot[e] = backup.files.snapshot[e] /\ files.log[e] = run[e].log
          /\ files.archive[e] = backup.files.archive[e]
      BY <1>3, <1>5
    <2>4. run[e].ok /\ run[e] = RestoreEngine(backup.files, external, target, e)
      BY <1>1, <1>4
    <2>5. ~Rewinds(backup.files, e)
      <3>1. CASE target.kind # "latest"
        <4> DEFINE K == LegacyAt(backup.files.log[e])
        <4>1. RestoreEngine(backup.files, external, target, e).ok
                => K = {} \/ target.kind = "latest"
          BY DEF RestoreEngine
        <4>2. K = {}
          BY <2>4, <3>1, <4>1
        <4> QED BY <4>2 DEF Rewinds
      <3>2. CASE ~Rewinds(files, e)
        BY <2>1, <2>2, <2>3, <2>4, <3>2, LegacyStays DEF Rewinds
      <3> QED BY <1>6, <3>1, <3>2
    <2>6. \E m \in Nat : Holds(files, past[e], m, e) /\ m = run[e].point + Unversioned(e)
      BY <2>1, <2>2, <2>3, <2>4, <2>5, RestoredHolds
    <2> QED BY <1>3, <2>6
  <1>7. \A e \in Engines : files.snapshot[e].time <= clock
    BY <1>1, <1>5 DEF BackupInv
  <1> QED BY <1>1, <1>5, <1>6, <1>7 DEF DestInv

(* Every step keeps the invariant, as long as the backups of an abandoned   *)
(* directory are given up with it.                                          *)
LEMMA RecStep ==
  ASSUME KeepsBackups = FALSE, RecInv, [Next]_vars
  PROVE  RecInv'
  <1> USE DEF RecInv
  <1>1. CASE dest.state = "empty" /\ Tick
    <2>1. /\ UNCHANGED <<dest, dir, past, backup, pruned>>
      BY <1>1 DEF Tick
    <2>2. DirInv' /\ BackupInv'
      BY <1>1, DirTick, BackupTick
    <2>3. PruneInv'
      BY <2>1, PruneSame
    <2>4. DestInv'
      BY <1>1, <2>1 DEF DestInv
    <2> QED BY <2>2, <2>3, <2>4
  <1>2. ASSUME NEW e \in Engines, dest.state = "empty", Open(e) \/ Close(e)
        PROVE  RecInv'
    <2>1. /\ UNCHANGED <<dest, dir, past, backup, clock, pruned, counts>>
          /\ backup.state = "copying" => active' = {}
      BY <1>2 DEF Open, Close, Locked, BackupInv
    <2>2. DirInv'
      BY <2>1, DirSame
    <2>3. BackupInv'
      BY <2>1, BackupSame
    <2>4. PruneInv'
      BY <2>1, PruneSame
    <2>5. DestInv'
      BY <1>2, <2>1 DEF DestInv
    <2> QED BY <2>2, <2>3, <2>4, <2>5
  <1>3. ASSUME NEW e \in Engines, dest.state = "empty", Commit(e) PROVE RecInv'
    <2>1. DirInv' /\ BackupInv' /\ PruneInv'
      BY <1>3, DirCommit, BackupCommit, PruneCommit
    <2>2. DestInv'
      BY <1>3 DEF Commit, DestInv
    <2> QED BY <2>1, <2>2
  <1>4. ASSUME NEW e \in Engines, NEW crash \in BOOLEAN, dest.state = "empty",
               Checkpoint(e, crash)
        PROVE  RecInv'
    <2>1. DirInv' /\ PruneInv'
      BY <1>4, DirCheckpoint, PruneCheckpoint
    <2>2. UNCHANGED <<dest, backup, past, clock>> /\ backup.state # "copying"
      BY <1>4 DEF Checkpoint, BackupInv
    <2>3. BackupInv'
      BY <2>2, BackupSame
    <2>4. DestInv'
      BY <1>4, <2>2 DEF DestInv
    <2> QED BY <2>1, <2>3, <2>4
  <1>5. CASE dest.state = "empty" /\ BeginBackup
    <2>1. /\ UNCHANGED <<dest, dir, past, clock, pruned>> /\ backup'.state = "copying"
          /\ DOMAIN counts' = DOMAIN counts /\ counts'.commits = counts.commits
      BY <1>5 DEF BeginBackup, NoBackup, DirInv
    <2>2. DirInv'
      BY <2>1, DirSame
    <2>3. BackupInv'
      BY <1>5, BackupBegin
    <2>4. PruneInv'
      BY <2>1 DEF PruneInv
    <2>5. DestInv'
      BY <1>5, <2>1 DEF DestInv
    <2> QED BY <2>2, <2>3, <2>4, <2>5
  <1>6. CASE dest.state = "empty" /\ PublishBackup
    <2>1. UNCHANGED <<dest, dir, past, clock, pruned, counts>>
      BY <1>6 DEF PublishBackup
    <2>2. DirInv'
      BY <2>1, DirSame
    <2>3. BackupInv' /\ PruneInv'
      BY <1>6, BackupPublish, PrunePublish
    <2>4. DestInv'
      BY <1>6, <2>1 DEF DestInv
    <2> QED BY <2>2, <2>3, <2>4
  <1>7. CASE dest.state = "empty" /\ AbandonBackup
    <2>1. UNCHANGED <<dest, dir, past, clock, pruned, counts>> /\ backup' = NoBackup
      BY <1>7 DEF AbandonBackup
    <2>2. DirInv'
      BY <2>1, DirSame
    <2>3. BackupInv' /\ PruneInv'
      BY <2>1, BackupNone DEF PruneInv, NoBackup
    <2>4. DestInv'
      BY <1>7, <2>1 DEF DestInv
    <2> QED BY <2>2, <2>3, <2>4
  <1>8. ASSUME NEW before \in 1..MaxTime, dest.state = "empty", Prune(before) PROVE RecInv'
    <2>0. before \in Nat
      OBVIOUS
    <2>1. UNCHANGED <<dest, past, clock, backup>> /\ backup.state # "copying"
      BY <1>8 DEF Prune, Locked
    <2>2. DirInv' /\ PruneInv'
      BY <1>8, <2>0, DirPrune, PrunePrune
    <2>3. BackupInv'
      BY <2>1, BackupSame
    <2>4. DestInv'
      BY <1>8, <2>1 DEF DestInv
    <2> QED BY <2>2, <2>3, <2>4
  <1>9. ASSUME NEW target \in Targets, NEW external \in BOOLEAN, Restore(target, external)
        PROVE  RecInv'
    <2>1. UNCHANGED <<dir, active, past, clock, backup, pruned, counts>>
      BY <1>9 DEF Restore
    <2>2. DirInv'
      BY <2>1, DirSame
    <2>3. BackupInv' /\ PruneInv'
      BY <2>1 DEF BackupInv, PruneInv
    <2>4. DestInv'
      BY <1>9, DestRestore
    <2> QED BY <2>2, <2>3, <2>4
  <1>10. CASE ClearDest
    <2>1. UNCHANGED <<dir, active, past, clock, backup, pruned, counts>> /\ dest' = NoDest
      BY <1>10 DEF ClearDest
    <2>2. DirInv'
      BY <2>1, DirSame
    <2>3. BackupInv' /\ PruneInv'
      BY <2>1 DEF BackupInv, PruneInv
    <2>4. DestInv'
      BY <2>1 DEF DestInv, NoDest
    <2> QED BY <2>2, <2>3, <2>4
  <1>11. CASE Adopt
    <2>1. backup' = NoBackup /\ dest' = NoDest
      BY <1>11 DEF Adopt
    <2>2. DirInv'
      BY <1>11, DirAdopt
    <2>3. BackupInv' /\ PruneInv'
      BY <2>1, BackupNone DEF PruneInv, NoBackup
    <2>4. DestInv'
      BY <2>1 DEF DestInv, NoDest
    <2> QED BY <2>2, <2>3, <2>4
  <1>12. CASE UNCHANGED vars
    <2>1. UNCHANGED <<dir, active, past, clock, backup, pruned, counts, dest>>
      BY <1>12 DEF vars
    <2>2. DirInv'
      BY <2>1, DirSame
    <2>3. BackupInv' /\ PruneInv'
      BY <2>1 DEF BackupInv, PruneInv
    <2>4. DestInv'
      BY <2>1 DEF DestInv
    <2> QED BY <2>2, <2>3, <2>4
  <1> QED BY <1>1, <1>2, <1>3, <1>4, <1>5, <1>6, <1>7, <1>8, <1>9, <1>10, <1>11, <1>12
          DEF Next

(* The invariant holds at first.                                            *)
LEMMA RecInit ==
  ASSUME Init
  PROVE  RecInv
  <1>1. DirInv
    BY DirInit
  <1>2. backup.state = "none" /\ dest.state = "empty"
    BY DEF Init, NoBackup, NoDest
  <1> QED BY <1>1, <1>2 DEF RecInv, BackupInv, DestInv, PruneInv

(* The invariant holds always.                                              *)
LEMMA RecAlways ==
  ASSUME KeepsBackups = FALSE
  PROVE  Spec => []RecInv
  <1>1. Init => RecInv
    BY RecInit
  <1>2. RecInv /\ [Next]_vars => RecInv'
    BY RecStep
  <1> QED BY <1>1, <1>2, PTL DEF Spec

(* Pruning never takes a record that a published backup still needs: one    *)
(* whose snapshot is not older than the time pruned up to, and the          *)
(* directory, still have every record up to the last commit.                *)
THEOREM PruneIsSafe ==
  ASSUME KeepsBackups = FALSE
  PROVE  Spec => []PruneKeepsLaterBackups
  <1>1. RecInv => PruneKeepsLaterBackups
    BY PruneInvGives DEF RecInv
  <1> QED BY <1>1, RecAlways, PTL

(* A restored directory opens as a prefix of the history it comes from, at  *)
(* the point reported.                                                      *)
LEMMA DestGives ==
  ASSUME DirInv, DestInv
  PROVE  RestoredIsReal
  <1> SUFFICES ASSUME dest.state = "restored", NEW e \in Engines, ~Rewinds(dest.files, e)
               PROVE  LET content == Opened(dest.files, e)
                      IN /\ Len(content) = dest.point[e] + Unversioned(e)
                         /\ \E p \in abandoned \union {past} : IsPrefix(content, Ids(p[e]))
    BY DEF RestoredIsReal
  <1> DEFINE p == past[e]
             content == Opened(dest.files, e)
  <1>1. PICK n \in Nat : Holds(dest.files, p, n, e) /\ n = dest.point[e] + Unversioned(e)
    BY DEF DestInv
  <1>2. HistoryInv(p, e)
    BY DEF DirInv, EngineInv
  <1>3. content = [i \in 1..n |-> p[i].id]
    BY <1>1, <1>2, OpenedIsPrefix
  <1>4. n = dest.point[e] + Unversioned(e)
    BY <1>1
  <1>5. p \in Seq(Commits) /\ n <= Len(p) /\ Len(p) \in Nat
    BY <1>1, <1>2 DEF HistoryInv, Holds
  <1>6. IsSeq(p)
    BY <1>5 DEF IsSeq
  <1>7. IsSeq(Ids(p)) /\ Len(Ids(p)) = Len(p) /\ \A i \in 1..Len(p) : Ids(p)[i] = p[i].id
    BY <1>6, IdsFacts
  <1> HIDE DEF content, p
  <1>8. content = [i \in 1..n |-> content[i]]
    BY <1>3
  <1>9. IsSeq(content) /\ Len(content) = n
    BY <1>8, FunctionIsSeq
  <1>10. IsPrefix(content, Ids(p))
    <2>1. PICK S : content \in Seq(S)
      BY <1>9 DEF IsSeq
    <2>2. PICK T : Ids(p) \in Seq(T)
      BY <1>7 DEF IsSeq
    <2>3. SubSeq(content, 1, n) = [i \in 1..n |-> content[i]]
      BY <1>9, <2>1
    <2>4. SubSeq(Ids(p), 1, n) = [i \in 1..n |-> Ids(p)[i]]
      BY <1>5, <1>7, <2>2
    <2>5. \A i \in 1..n : Ids(p)[i] = content[i]
      BY <1>3, <1>5, <1>7
    <2> QED BY <1>5, <1>7, <1>9, <2>3, <2>4, <2>5 DEF IsPrefix
  <1> QED BY <1>4, <1>9, <1>10 DEF content, p

(* Whatever the target and wherever the records are found, a restore that   *)
(* succeeds gives the database as it was after one of its commits, the one  *)
(* it reports, unless it left a legacy line over a snapshot with later      *)
(* records.                                                                 *)
THEOREM RestoreIsSound ==
  ASSUME KeepsBackups = FALSE
  PROVE  Spec => []RestoredIsReal
  <1>1. RecInv => RestoredIsReal
    BY DestGives DEF RecInv
  <1> QED BY <1>1, RecAlways, PTL

-----------------------------------------------------------------------------
(* Which restores succeed, and what they take                               *)

(* Only Restore fills the destination.                                      *)
LEMMA OnlyRestore ==
  ASSUME [Next]_vars, dest.state = "empty", dest'.state # "empty"
  PROVE  \E target \in Targets, external \in BOOLEAN : Restore(target, external)
  <1>1. ~(UNCHANGED dest)
    OBVIOUS
  <1>2. dest' # NoDest
    BY DEF NoDest
  <1>3. \A e \in Engines : ~Open(e) /\ ~Close(e) /\ ~Commit(e)
    BY <1>1 DEF Open, Close, Commit
  <1>4. \A e \in Engines, crash \in BOOLEAN : ~Checkpoint(e, crash)
    BY <1>1 DEF Checkpoint
  <1>5. ~Tick /\ ~BeginBackup /\ ~PublishBackup /\ ~AbandonBackup
    BY <1>1 DEF Tick, BeginBackup, PublishBackup, AbandonBackup
  <1>6. \A before \in 1..MaxTime : ~Prune(before)
    BY <1>1 DEF Prune
  <1>7. ~ClearDest /\ ~Adopt
    BY <1>2 DEF ClearDest, Adopt
  <1>8. ~(UNCHANGED vars)
    BY <1>1 DEF vars
  <1> QED BY <1>3, <1>4, <1>5, <1>6, <1>7, <1>8 DEF Next

(* The records there are, and no others.                                    *)
LEMMA RecordsAre ==
  ASSUME DirInv, BackupInv, backup.state = "published", NEW e \in Engines,
         NEW external \in BOOLEAN, NEW R, R = Collected(backup.files, external, e)
  PROVE  /\ Len(past[e]) \in Nat
         /\ \A v \in DOMAIN R : /\ v \in Nat /\ v > 0 /\ v \in 0..Len(past[e])
                                /\ v + Unversioned(e) \in 1..Len(past[e])
                                /\ R[v].time = past[e][v + Unversioned(e)].time
                                /\ R[v].time \in Nat
  <1> DEFINE p == past[e]
             U == Unversioned(e)
  <1>1. /\ HistoryInv(p, e) /\ AllFrom(dir.archive[e], p, e)
        /\ From(backup.files.log[e], p, e) /\ AllFrom(backup.files.archive[e], p, e)
    BY Sources
  <1>2. \A v \in DOMAIN R : /\ v \in Nat /\ v > 0 /\ v + U \in 1..Len(p)
                            /\ p[v + U].id # 0 /\ R[v] = LineOf(p, e, v + U)
    BY <1>1, CollectedFacts
  <1>3. Len(p) \in Nat
    BY <1>1 DEF HistoryInv
  <1>4. ASSUME NEW v \in DOMAIN R
        PROVE  R[v].time = p[v + U].time /\ R[v].time \in Nat /\ v \in 0..Len(p)
    <2>1. PICK j \in 1..Len(p) : j = v + U /\ p[j].id # 0 /\ R[v] = LineOf(p, e, j)
      BY <1>2
    <2>2. LineOf(p, e, j).time = p[j].time /\ p[j].time \in Nat
      BY <1>1, <2>1, LineFacts, CommitFacts
    <2>3. v \in 0..Len(p)
      BY <1>2, <1>3, UnversionedFacts
    <2> QED BY <2>1, <2>2, <2>3
  <1> QED BY <1>2, <1>3, <1>4

(* Later commits have later times.                                          *)
LEMMA LaterIsLater ==
  ASSUME NEW p, NEW e, HistoryInv(p, e), NEW i \in 1..Len(p), NEW j \in 1..Len(p), i <= j
  PROVE  p[i].time <= p[j].time /\ p[i].time \in Nat /\ p[j].time \in Nat
  <1>1. p[i].time \in Nat /\ p[j].time \in Nat /\ Len(p) \in Nat
    BY CommitFacts
  <1>2. CASE i = j
    BY <1>1, <1>2
  <1>3. CASE i < j
    BY <1>1, <1>3 DEF HistoryInv
  <1> QED BY <1>1, <1>2, <1>3

(* What a restore that succeeds has done for an engine.                     *)
LEMMA RestoreDid ==
  ASSUME DirInv, BackupInv, NEW target, NEW external \in BOOLEAN, Restore(target, external),
         dest'.state = "restored", NEW e \in Engines,
         NEW base, base = backup.files.snapshot[e].version,
         NEW R, R = Collected(backup.files, external, e)
  PROVE  /\ backup.state = "published" /\ ~Predates(target)
         /\ dest'.target = target /\ dest'.external = external
         /\ LegacyAt(backup.files.log[e]) = {} \/ target.kind = "latest"
         /\ \E t \in Nat : /\ dest'.point[e] = base + t
                           /\ Taken(R, base, target, e) = (base + 1)..(base + t)
  <1> DEFINE run == [f \in Engines |-> RestoreEngine(backup.files, external, target, f)]
             one == RestoreEngine(backup.files, external, target, e)
  <1>1. /\ backup.state = "published" /\ ~Predates(target)
        /\ dest'.target = target /\ dest'.external = external
        /\ dest'.point = [f \in Engines |-> run[f].point]
        /\ \A f \in Engines : run[f].ok
    BY DEF Restore
  <1>2. dest'.point[e] = one.point /\ one.ok
    BY <1>1
  <1>3. LegacyAt(backup.files.log[e]) = {} \/ target.kind = "latest"
    BY <1>2 DEF RestoreEngine
  <1> HIDE DEF one
  <1>4. PICK n \in Nat : Holds(backup.files, past[e], n, e)
    BY <1>1, Sources
  <1>5. HistoryInv(past[e], e) /\ AllFrom(dir.archive[e], past[e], e)
    BY <1>1, Sources
  <1>6. PICK t : /\ Restored(one.log, past[e], e, base,
                             Cardinality(LegacyAt(backup.files.log[e])), t)
                 /\ one.point = base + t
                 /\ Taken(R, base, target, e) = (base + 1)..(base + t)
    BY <1>2, <1>4, <1>5, RestoredLines DEF one
  <1>7. t \in Nat
    BY <1>6 DEF Restored
  <1> QED BY <1>1, <1>2, <1>3, <1>6, <1>7

(* The snapshots together.                                                  *)
LEMMA BaseTimeFacts ==
  ASSUME DirInv, BackupInv, backup.state = "published", NEW e \in Engines
  PROVE  /\ backup.files.snapshot[e].time \in Nat /\ BaseTime \in Nat
         /\ backup.files.snapshot[e].time <= BaseTime
  <1> DEFINE T == {backup.files.snapshot[f].time : f \in Engines}
  <1>1. \A f \in Engines : backup.files.snapshot[f].time \in 0..clock /\ clock \in Nat
    <2> SUFFICES ASSUME NEW f \in Engines
                 PROVE  backup.files.snapshot[f].time \in 0..clock /\ clock \in Nat
      OBVIOUS
    <2>1. PICK n \in Nat : Holds(backup.files, past[f], n, f)
      BY DEF BackupInv
    <2>2. backup.files.snapshot[f].time \in Nat
      BY <2>1 DEF Holds, SnapshotOf
    <2>3. backup.files.snapshot[f].time <= clock /\ clock \in Nat
      BY DEF BackupInv, DirInv
    <2> QED BY <2>2, <2>3
  <1>2. T \subseteq 0..clock /\ clock \in Nat /\ backup.files.snapshot[e].time \in T /\ T # {}
    BY <1>1
  <1>3. BaseTime = Max(T)
    BY DEF BaseTime
  <1> HIDE DEF T
  <1>4. Max(T) \in T /\ \A x \in T : x <= Max(T)
    BY <1>2, MaxFacts
  <1>5. Max(T) \in Nat
    <2>1. \A x \in T : x \in Nat
      BY <1>2
    <2> QED BY <1>4, <2>1
  <1> QED BY <1>1, <1>2, <1>3, <1>4, <1>5

(* One restore to a time takes what lies before that time.                  *)
LEMMA TimeStep ==
  ASSUME DirInv, BackupInv, NEW target \in Targets, NEW external \in BOOLEAN,
         Restore(target, external), dest'.state = "restored", target.kind = "time",
         NEW e \in Engines, DestInv'
  PROVE  LET n == Len(Opened(dest'.files, e))
             records == Collected(backup.files, external, e)
         IN /\ \A i \in 1..n : past[e][i].time <= target.time
            /\ \A v \in DOMAIN records :
                 v > dest'.point[e] => records[v].time > target.time
  <1> DEFINE p == past[e]
             U == Unversioned(e)
             sn == backup.files.snapshot[e]
             base == sn.version
             c == Len(sn.content)
             R == Collected(backup.files, external, e)
             taken == Taken(R, base, target, e)
             T == target.time
  <1>1. T \in Nat
    BY DEF Targets
  <1>2. /\ backup.state = "published" /\ ~Predates(target)
        /\ LegacyAt(backup.files.log[e]) = {}
    BY RestoreDid
  <1>3. PICK t \in Nat : dest'.point[e] = base + t /\ taken = (base + 1)..(base + t)
    BY RestoreDid
  <1>4. PICK k \in Nat : Holds(backup.files, p, k, e)
    BY <1>2, Sources
  <1>5. HistoryInv(p, e)
    BY <1>2, Sources
  <1>6. /\ SnapshotOf(sn, p, e) /\ base \in Nat /\ Len(p) \in Nat /\ c \in Nat /\ U \in {0, 1}
        /\ (c > 0 => base + U = c) /\ (c = 0 => base = 0) /\ base <= Len(p) /\ c <= Len(p)
    <2>1. SnapshotOf(sn, p, e)
      BY <1>4 DEF Holds
    <2> QED BY <1>5, <2>1, BaseFacts, UnversionedFacts DEF SnapshotOf
  <1>7. \A v \in DOMAIN R : /\ v \in Nat /\ v > 0 /\ v + U \in 1..Len(p)
                            /\ R[v].time = p[v + U].time /\ R[v].time \in Nat
    BY <1>2, RecordsAre
  (* Without a snapshot there is no legacy line either. *)
  <1>8. c = 0 => e \notin Legacy
    <2> SUFFICES ASSUME c = 0, e \in Legacy PROVE FALSE
      OBVIOUS
    <2>1. k > 0 /\ k <= Len(p) /\ LogOf(backup.files.log[e], p, 0, k, e)
      BY <1>4 DEF Holds
    <2>2. Cardinality(LegacyAt(backup.files.log[e])) = 1
      BY <1>5, <2>1, OneLegacyLine
    <2>3. Cardinality({}) = 0
      BY FS_EmptySet
    <2> QED BY <1>2, <2>2, <2>3
  <1>9. c = 0 => U = 0
    BY <1>8, UnversionedFacts
  <1>10. Len(Opened(dest'.files, e)) = base + t + U
    <2>1. /\ past' = past /\ dest'.files.snapshot = backup.files.snapshot
      <3>1. IsFiles(backup.files)
        BY <1>2 DEF BackupInv
      <3> QED BY <3>1 DEF Restore, IsFiles
    <2>2. PICK m \in Nat : Holds(dest'.files, p, m, e) /\ m = dest'.point[e] + U
      <3>1. dest'.target.kind # "latest"
        BY DEF Restore
      <3> QED BY <2>1, <3>1 DEF DestInv
    <2>3. m = base + t + U
      BY <1>3, <2>2
    <2>4. Opened(dest'.files, e) = [i \in 1..m |-> p[i].id]
      BY <1>5, <2>2, OpenedIsPrefix
    <2> DEFINE f == Opened(dest'.files, e)
    <2> HIDE DEF f
    <2>5. f = [i \in 1..m |-> f[i]]
      BY <2>4 DEF f
    <2>6. Len(f) = m
      BY <2>5, FunctionIsSeq
    <2> QED BY <2>3, <2>6 DEF f
  <1>11. \A v \in DOMAIN R : v \in taken <=>
           v > base /\ \A w \in DOMAIN R : base < w /\ w <= v => ~(R[w].time > T)
    BY DEF Taken, CutOff, Beyond
  <1>12. taken \subseteq DOMAIN R
    BY DEF Taken
  <1> HIDE DEF R, taken, T, sn, c, base, U, p
  <1>13. ASSUME NEW i \in 1..(base + t + U) PROVE p[i].time <= T
    <2>1. CASE i <= c
      <3>1. c > 0 /\ i \in 1..c
        BY <1>3, <1>6, <2>1
      <3>2. /\ p[i].time <= sn.time /\ sn.time > 0 /\ i \in 1..Len(p)
        BY <1>6, <3>1 DEF SnapshotOf, c
      <3>3. sn.time \in Nat /\ BaseTime \in Nat /\ sn.time <= BaseTime
        BY <1>2, BaseTimeFacts DEF sn
      <3>4. p[i].time \in Nat
        BY <1>5, <3>2, CommitFacts
      <3>5. ~(BaseTime # 0 /\ target.time < BaseTime)
        BY <1>2 DEF Predates
      <3> QED BY <1>1, <3>2, <3>3, <3>4, <3>5 DEF T
    <2>2. CASE i > c
      <3> DEFINE v == i - U
      <3>1. v \in (base + 1)..(base + t) /\ v + U = i
        BY <1>3, <1>6, <1>9, <2>2
      <3> HIDE DEF v
      <3>2. v \in taken /\ v \in DOMAIN R
        BY <1>3, <1>12, <3>1
      <3>3. base < v /\ v <= v
        BY <1>6, <3>1
      <3>4. ~(R[v].time > T)
        BY <1>11, <3>2, <3>3
      <3>5. R[v].time = p[i].time /\ R[v].time \in Nat
        BY <1>7, <3>1, <3>2
      <3> QED BY <1>1, <3>4, <3>5
    <2> QED BY <1>6, <2>1, <2>2
  <1>14. ASSUME NEW v \in DOMAIN R, v > base + t PROVE R[v].time > T
    <2>1. v \notin taken /\ v > base
      BY <1>3, <1>6, <1>7, <1>14
    <2>2. PICK w \in DOMAIN R : base < w /\ w <= v /\ R[w].time > T
      BY <1>11, <2>1
    <2>3. /\ w + U \in 1..Len(p) /\ v + U \in 1..Len(p) /\ w + U <= v + U
          /\ R[w].time = p[w + U].time /\ R[v].time = p[v + U].time
          /\ R[w].time \in Nat /\ R[v].time \in Nat
      BY <1>6, <1>7, <2>2
    <2>4. p[w + U].time <= p[v + U].time
      BY <1>5, <2>3, LaterIsLater
    <2> QED BY <1>1, <2>2, <2>3, <2>4
  <1> QED BY <1>3, <1>10, <1>13, <1>14 DEF R, T, p

(* A restore to a time takes exactly the commits up to that time that it    *)
(* can read.                                                                *)
THEOREM RestoreIsExact ==
  ASSUME KeepsBackups = FALSE
  PROVE  Spec => TimeIsExact
  <1> DEFINE Exact == (dest.state = "empty" /\ dest'.state = "restored"
                         /\ dest'.target.kind = "time") =>
               \A e \in Engines :
                 LET n == Len(Opened(dest'.files, e))
                     records == Collected(backup.files, dest'.external, e)
                 IN /\ \A i \in 1..n : past[e][i].time <= dest'.target.time
                    /\ \A v \in DOMAIN records :
                         v > dest'.point[e] => records[v].time > dest'.target.time
  <1>1. ASSUME RecInv, [Next]_vars PROVE Exact
    <2> SUFFICES ASSUME dest.state = "empty", dest'.state = "restored",
                        dest'.target.kind = "time", NEW e \in Engines
                 PROVE  LET n == Len(Opened(dest'.files, e))
                            records == Collected(backup.files, dest'.external, e)
                        IN /\ \A i \in 1..n : past[e][i].time <= dest'.target.time
                           /\ \A v \in DOMAIN records :
                                v > dest'.point[e] => records[v].time > dest'.target.time
      OBVIOUS
    <2>1. PICK target \in Targets, external \in BOOLEAN : Restore(target, external)
      BY <1>1, OnlyRestore
    <2>2. dest'.target = target /\ dest'.external = external
      BY <2>1 DEF Restore
    <2>3. DirInv /\ BackupInv /\ DestInv'
      BY <1>1, <2>1, DestRestore DEF RecInv
    <2> HIDE DEF Exact
    <2> QED BY <2>1, <2>2, <2>3, TimeStep
  <1>2. RecInv /\ [Next]_vars => [Exact]_vars
    BY <1>1
  <1>3. TimeIsExact <=> [][Exact]_vars
    BY DEF TimeIsExact
  <1> HIDE DEF Exact
  <1> QED BY <1>2, <1>3, RecAlways, PTL DEF Spec

(* If every record wanted is there, a restore of one engine finds no gap.   *)
LEMMA WantedIsComplete ==
  ASSUME NEW R, NEW base \in Nat, NEW b \in Nat, \A v \in DOMAIN R : v \in 0..b,
         NEW target, NEW e,
         \A v \in Taken(R, base, target, e) : \A w \in (base + 1)..v : w \in DOMAIN R,
         target.kind = "point" => target.point[e] \in Nat
  PROVE  Complete(base, Taken(R, base, target, e))
  <1> DEFINE taken == Taken(R, base, target, e)
  <1> SUFFICES ASSUME NEW v \in taken, NEW w \in (base + 1)..v PROVE w \in taken
    BY DEF Complete
  <1>1. /\ v \in DOMAIN R /\ v > base /\ ~Beyond(target, e, v)
        /\ \A u \in DOMAIN R : base < u /\ u <= v => ~CutOff(target, R[u])
    BY DEF Taken
  <1>2. w \in DOMAIN R /\ v \in Nat /\ w \in Nat /\ w > base /\ w <= v
    BY <1>1
  <1>3. \A u \in DOMAIN R : base < u /\ u <= w => ~CutOff(target, R[u])
    <2> SUFFICES ASSUME NEW u \in DOMAIN R, base < u, u <= w PROVE ~CutOff(target, R[u])
      OBVIOUS
    <2>1. u \in 0..b
      OBVIOUS
    <2>2. u <= v
      BY <1>2, <2>1
    <2> QED BY <1>1, <2>2
  <1>4. ~Beyond(target, e, w)
    BY <1>1, <1>2 DEF Beyond
  <1> QED BY <1>2, <1>3, <1>4 DEF Taken

(* A restore fails only for a reason.                                       *)
LEMMA FailureHasReason ==
  ASSUME DirInv, BackupInv, NEW target \in Targets, NEW external \in BOOLEAN,
         Restore(target, external), dest'.state = "failed"
  PROVE  Reason(target, external)
  <1> SUFFICES ASSUME ~Reason(target, external) PROVE FALSE
    OBVIOUS
  <1> DEFINE run == [f \in Engines |-> RestoreEngine(backup.files, external, target, f)]
             point == [f \in Engines |-> run[f].point]
             one(e) == RestoreEngine(backup.files, external, target, e)
             base(e) == backup.files.snapshot[e].version
             R(e) == Collected(backup.files, external, e)
             taken(e) == Taken(R(e), base(e), target, e)
             wanted(e) == CASE target.kind = "point" -> (base(e) + 1)..target.point[e]
                            [] target.kind = "latest" -> (base(e) + 1)..Max(DOMAIN R(e) \union {0})
                            [] target.kind = "time" ->
                                 (base(e) + 1)..Max({v \in DOMAIN R(e) :
                                                       R(e)[v].time <= target.time} \union {0})
  <1>1. /\ backup.state = "published"
        /\ ~(/\ ~Predates(target) /\ \A f \in Engines : run[f].ok
             /\ target.kind = "point" => point = target.point)
    BY DEF Restore
  <1>2. /\ ~Predates(target)
        /\ \A e \in Engines : /\ wanted(e) \subseteq DOMAIN R(e)
                              /\ target.kind # "latest" =>
                                   LegacyLine \notin Range(backup.files.log[e])
    BY DEF Reason
  <1>3. /\ target.kind \in {"latest", "time", "point"}
        /\ target.kind = "time" => target.time \in Nat
        /\ target.kind = "point" => target.point \in [Engines -> Nat]
    BY RecoveryAssumption DEF Targets
  <1>4. ASSUME NEW e \in Engines
        PROVE  /\ one(e).ok
               /\ target.kind = "point" => one(e).point = target.point[e]
    <2> DEFINE N == Len(past[e])
    <2>1. /\ HistoryInv(past[e], e) /\ From(backup.files.log[e], past[e], e)
          /\ \E n \in Nat : Holds(backup.files, past[e], n, e)
      BY <1>1, Sources
    <2>2. /\ N \in Nat
          /\ \A v \in DOMAIN R(e) : v \in Nat /\ v > 0 /\ v \in 0..N /\ R(e)[v].time \in Nat
      BY <1>1, RecordsAre
    <2>3. base(e) \in Nat /\ base(e) <= N
      <3>1. SnapshotOf(backup.files.snapshot[e], past[e], e)
        BY <2>1 DEF Holds
      <3> QED BY <2>1, <3>1, BaseFacts
    <2>4. /\ one(e).ok <=> /\ LegacyAt(backup.files.log[e]) = {} \/ target.kind = "latest"
                           /\ Complete(base(e), taken(e))
          /\ one(e).point = Max(taken(e) \union {base(e)})
      BY DEF RestoreEngine
    <2>5. LegacyAt(backup.files.log[e]) = {} \/ target.kind = "latest"
      <3> SUFFICES ASSUME NEW i \in LegacyAt(backup.files.log[e]), target.kind # "latest"
                   PROVE  FALSE
        OBVIOUS
      <3>1. backup.files.log[e][i] = LegacyLine
        BY <2>1, LegacyLines
      <3>2. i \in DOMAIN backup.files.log[e]
        BY DEF LegacyAt
      <3>3. LegacyLine \in Range(backup.files.log[e])
        BY <3>1, <3>2 DEF Range
      <3> QED BY <1>2, <3>3
    <2>6. target.kind = "point" => wanted(e) = (base(e) + 1)..target.point[e]
      OBVIOUS
    <2>7. target.kind = "latest" => wanted(e) = (base(e) + 1)..Max(DOMAIN R(e) \union {0})
      OBVIOUS
    <2>8. target.kind = "time" =>
            wanted(e) = (base(e) + 1)..Max({v \in DOMAIN R(e) : R(e)[v].time <= target.time}
                                             \union {0})
      OBVIOUS
    <2>9. /\ \A v \in taken(e) : /\ v \in DOMAIN R(e) /\ v > base(e)
                                 /\ target.kind = "point" => ~(v > target.point[e])
                                 /\ target.kind = "time" => ~(R(e)[v].time > target.time)
      <3> SUFFICES ASSUME NEW v \in taken(e)
                   PROVE  /\ v \in DOMAIN R(e) /\ v > base(e)
                          /\ target.kind = "point" => ~(v > target.point[e])
                          /\ target.kind = "time" => ~(R(e)[v].time > target.time)
        OBVIOUS
      <3>1. /\ v \in DOMAIN R(e) /\ v > base(e) /\ ~Beyond(target, e, v)
            /\ \A w \in DOMAIN R(e) : base(e) < w /\ w <= v => ~CutOff(target, R(e)[w])
        BY DEF Taken
      <3>2. base(e) < v /\ v <= v
        BY <2>2, <2>3, <3>1
      <3>3. ~CutOff(target, R(e)[v])
        BY <3>1, <3>2
      <3> QED BY <3>1, <3>3 DEF CutOff, Beyond
    <2> DEFINE RR == R(e)
               bb == base(e)
               ww == wanted(e)
               tt == taken(e)
    <2>10. /\ ww \subseteq DOMAIN RR /\ tt = Taken(RR, bb, target, e)
      BY <1>2
    <2>11. target.kind = "point" =>
             \A v \in (bb + 1)..target.point[e] : v \in DOMAIN RR => v \in tt
      <3> SUFFICES ASSUME target.kind = "point", NEW v \in (bb + 1)..target.point[e],
                          v \in DOMAIN RR
                   PROVE  v \in tt
        OBVIOUS
      <3>1. v > bb /\ ~(v > target.point[e])
        BY <1>3, <2>3
      <3> QED BY <3>1 DEF Taken, CutOff, Beyond
    <2>12. target.kind = "point" => target.point[e] >= bb
      <3>1. target.kind = "point" => ~(target.point[e] < bb)
        BY <1>2 DEF Predates
      <3> QED BY <1>3, <2>3, <3>1
    <2> HIDE DEF RR, bb, ww, tt, N
    <2>13. \A v \in tt : \A w \in (bb + 1)..v : w \in DOMAIN RR
      <3> SUFFICES ASSUME NEW v \in tt, NEW w \in (bb + 1)..v PROVE w \in DOMAIN RR
        OBVIOUS
      <3>0. v \in DOMAIN RR /\ v \in Nat /\ bb \in Nat
        BY <2>2, <2>3, <2>9 DEF RR, tt, bb
      <3>1. CASE target.kind = "point"
        <4>1. v <= target.point[e]
          BY <1>3, <2>9, <3>0, <3>1 DEF tt
        <4>2. w \in (bb + 1)..target.point[e]
          BY <1>3, <3>0, <3>1, <4>1
        <4> QED BY <2>6, <2>10, <3>1, <4>2 DEF ww, bb
      <3>2. CASE target.kind = "latest"
        <4> DEFINE S == DOMAIN RR \union {0}
        <4>1. S \subseteq 0..N /\ S # {} /\ N \in Nat
          BY <2>2 DEF RR
        <4>2. v \in S
          BY <3>0
        <4>3. ww = (bb + 1)..Max(S)
          BY <2>7, <3>2 DEF ww, bb, RR
        <4> HIDE DEF S
        <4>4. Max(S) \in Nat /\ v <= Max(S)
          BY <4>1, <4>2, MaxFacts
        <4>5. w \in (bb + 1)..Max(S)
          BY <3>0, <4>4
        <4> QED BY <2>10, <4>3, <4>5
      <3>3. CASE target.kind = "time"
        <4> DEFINE S == {u \in DOMAIN RR : RR[u].time <= target.time} \union {0}
        <4>1. S \subseteq 0..N /\ S # {} /\ N \in Nat
          BY <2>2 DEF RR
        <4>2. v \in S
          <5>1. RR[v].time \in Nat /\ ~(RR[v].time > target.time)
            BY <2>2, <2>9, <3>0, <3>3 DEF RR, tt
          <5> QED BY <1>3, <3>0, <3>3, <5>1
        <4>3. ww = (bb + 1)..Max(S)
          BY <2>8, <3>3 DEF ww, bb, RR
        <4> HIDE DEF S
        <4>4. Max(S) \in Nat /\ v <= Max(S)
          BY <4>1, <4>2, MaxFacts
        <4>5. w \in (bb + 1)..Max(S)
          BY <3>0, <4>4
        <4> QED BY <2>10, <4>3, <4>5
      <3> QED BY <1>3, <3>1, <3>2, <3>3
    <2>14. Complete(bb, tt)
      <3>1. bb \in Nat /\ N \in Nat /\ \A v \in DOMAIN RR : v \in 0..N
        BY <2>2, <2>3 DEF bb, RR
      <3>2. target.kind = "point" => target.point[e] \in Nat
        BY <1>3
      <3>3. Complete(bb, Taken(RR, bb, target, e))
        <4>1. \A v \in Taken(RR, bb, target, e) : \A w \in (bb + 1)..v : w \in DOMAIN RR
          BY <2>10, <2>13
        <4> QED BY <3>1, <3>2, <4>1, WantedIsComplete
      <3> QED BY <2>10, <3>3
    <2>15. target.kind = "point" => Max(tt \union {bb}) = target.point[e]
      <3> SUFFICES ASSUME target.kind = "point" PROVE Max(tt \union {bb}) = target.point[e]
        OBVIOUS
      <3> DEFINE S == tt \union {bb}
                 x == target.point[e]
      <3>1. x \in Nat /\ bb \in Nat /\ x >= bb
        BY <1>3, <2>3, <2>12 DEF bb
      <3>2. \A v \in S : v \in 0..x
        <4>1. \A v \in tt : v \in Nat /\ ~(v > x)
          BY <2>2, <2>9 DEF tt, bb, RR
        <4> QED BY <3>1, <4>1
      <3>3. x \in S
        <4>1. CASE x = bb
          BY <4>1
        <4>2. CASE x > bb
          <5>1. x \in (bb + 1)..x
            BY <3>1, <4>2
          <5>2. x \in DOMAIN RR
            BY <2>6, <2>10, <5>1 DEF ww, bb
          <5> QED BY <2>11, <5>1, <5>2
        <4> QED BY <3>1, <4>1, <4>2
      <3> HIDE DEF S, x
      <3>4. Max(S) \in S /\ \A v \in S : v <= Max(S)
        <4>1. S \subseteq 0..x /\ S # {}
          BY <3>2, <3>3
        <4> QED BY <3>1, <4>1, MaxFacts
      <3>5. Max(S) \in 0..x /\ x <= Max(S)
        BY <3>2, <3>3, <3>4
      <3>6. Max(S) = x
        BY <3>1, <3>5
      <3> QED BY <3>6 DEF S, x
    <2> QED BY <2>4, <2>5, <2>14, <2>15 DEF tt, bb
  <1> HIDE DEF one
  <1>5. \A f \in Engines : run[f].ok /\ point[f] = one(f).point
    BY <1>4 DEF one
  <1>6. target.kind = "point" => point = target.point
    <2> SUFFICES ASSUME target.kind = "point" PROVE point = target.point
      OBVIOUS
    <2>1. \A f \in Engines : point[f] = target.point[f]
      BY <1>4, <1>5
    <2>2. target.point = [f \in Engines |-> target.point[f]]
      BY <1>3
    <2>3. point = [f \in Engines |-> point[f]]
      OBVIOUS
    <2> HIDE DEF point
    <2> QED BY <2>1, <2>2, <2>3
  <1> QED BY <1>1, <1>2, <1>5, <1>6

(* What can be restored is: a restore fails only when its target lies       *)
(* outside the records or a record on the way is missing.                   *)
THEOREM RestoreIsComplete ==
  ASSUME KeepsBackups = FALSE
  PROVE  Spec => RecoverableIsRestored
  <1> DEFINE Justified == (dest.state = "empty" /\ dest'.state = "failed")
                             => Reason(dest'.target, dest'.external)
  <1>1. ASSUME RecInv, [Next]_vars PROVE Justified
    <2> SUFFICES ASSUME dest.state = "empty", dest'.state = "failed"
                 PROVE  Reason(dest'.target, dest'.external)
      OBVIOUS
    <2>1. PICK target \in Targets, external \in BOOLEAN : Restore(target, external)
      BY <1>1, OnlyRestore
    <2>2. dest'.target = target /\ dest'.external = external
      BY <2>1 DEF Restore
    <2>3. Reason(target, external)
      BY <1>1, <2>1, FailureHasReason DEF RecInv
    <2> QED BY <2>2, <2>3
  <1>2. RecInv /\ [Next]_vars => [Justified]_vars
    BY <1>1
  <1>3. RecoverableIsRestored <=> [][Justified]_vars
    BY DEF RecoverableIsRestored
  <1> HIDE DEF Justified
  <1> QED BY <1>2, <1>3, RecAlways, PTL DEF Spec

(* Files that hold n commits have the records after their snapshot up to    *)
(* the n-th, and none beyond.                                               *)
LEMMA OwnRecords ==
  ASSUME NEW files, NEW p, NEW n, NEW e, HistoryInv(p, e),
         Holds(files, p, n, e), NEW R, R = Own(files, e),
         NEW base, base = files.snapshot[e].version
  PROVE  /\ n \in Nat /\ base \in Nat /\ base + Unversioned(e) <= n
         /\ \A v \in DOMAIN R : v \in Nat /\ v + Unversioned(e) <= n
         /\ \A v \in Nat : v > base /\ v + Unversioned(e) <= n => v \in DOMAIN R
  <1> DEFINE U == Unversioned(e)
             q == SubSeq(p, 1, n)
             sn == files.snapshot[e]
             c == Len(sn.content)
  <1>1. /\ n \in Nat /\ n <= Len(p) /\ c <= n /\ (e \in Legacy => n > 0)
        /\ SnapshotOf(sn, p, e)
    BY DEF Holds
  <1>2. /\ c \in Nat /\ base \in Nat /\ Len(p) \in Nat
        /\ (c > 0 => base + U = c) /\ (c = 0 => base = 0)
        /\ U \in {0, 1} /\ (U = 1 <=> e \in Legacy)
    <2>1. U \in {0, 1} /\ (U = 1 <=> e \in Legacy)
      BY UnversionedFacts
    <2> QED BY <1>1, <2>1, BaseFacts
  <1>3. HistoryInv(q, e) /\ Len(q) = n /\ \A i \in 1..n : q[i] = p[i]
    BY <1>1, HistoryPrefix
  <1> HIDE DEF q
  <1>4. Holds(files, q, n, e)
    <2>1. \A i \in 1..Len(q) : i > n => files.snapshot[e].time <= q[i].time
      BY <1>1, <1>3
    <2>2. Len(q) \in Nat /\ n <= Len(q)
      BY <1>1, <1>3
    <2> QED BY <1>3, <2>1, <2>2, HoldsSame
  <1>5. From(files.log[e], q, e) /\ AllFrom(files.archive[e], q, e)
    BY <1>3, <1>4, HoldsFrom
  <1>6. AllFrom(<<>>, q, e)
    <2>1. IsSeq(<<>>) /\ Len(<<>>) = 0 /\ 1..0 = {}
      <3>1. <<>> \in Seq({}) /\ Len(<<>>) = 0 /\ 1..0 = {}
        OBVIOUS
      <3> QED BY <3>1 DEF IsSeq
    <2> QED BY <2>1 DEF AllFrom
  <1>7. R = Records((<<files.log[e]>> \o files.archive[e]) \o <<>>)
    BY DEF Own
  <1>8. /\ \A v : v \in Versions(files.log[e]) => v \in DOMAIN R
        /\ \A v \in DOMAIN R : v \in Nat /\ v + U \in 1..Len(q)
    <2>1. PICK x : x = <<>>
      OBVIOUS
    <2>2. AllFrom(x, q, e) /\ R = Records((<<files.log[e]>> \o files.archive[e]) \o x)
      BY <1>6, <1>7, <2>1
    <2> QED BY <1>3, <1>5, <2>2, RecordsFacts
  <1> HIDE DEF U, c
  <1>9. base + U <= n
    <2>1. CASE c > 0
      BY <1>1, <1>2, <2>1
    <2>2. CASE c = 0
      BY <1>1, <1>2, <2>2
    <2> QED BY <1>2, <2>1, <2>2
  <1>10. ASSUME NEW v \in Nat, v > base, v + U <= n PROVE v \in DOMAIN R
    <2> DEFINE j == v + U
    <2>1. j \in 1..Len(p) /\ j > c /\ j <= n /\ j - U = v
      BY <1>1, <1>2, <1>10
    <2>2. p[j].id # 0
      <3>1. p[j].id = 0 => j = 1 /\ e \in Legacy
        BY <2>1, CommitFacts
      <3>2. e \in Legacy => j > 1
        BY <1>2, <1>10
      <3> QED BY <2>1, <3>1, <3>2
    <2> HIDE DEF j
    <2>3. j - Unversioned(e) \in Versions(files.log[e])
      BY <2>1, <2>2, LogReaches DEF c
    <2> QED BY <1>8, <2>1, <2>3 DEF U
  <1>11. \A v \in DOMAIN R : v \in Nat /\ v + U <= n
    BY <1>1, <1>3, <1>8
  <1> QED BY <1>1, <1>2, <1>9, <1>10, <1>11 DEF U

(* A published backup restores to the point of its manifest.                *)
LEMMA ManifestGives ==
  ASSUME DirInv, BackupInv
  PROVE  ManifestIsReachable
  <1> DEFINE latest == [kind |-> "latest"]
  <1> SUFFICES ASSUME backup.state = "published", NEW e \in Engines
               PROVE  LET run == RestoreEngine(backup.files, FALSE, latest, e)
                      IN /\ run.ok /\ run.point = backup.end[e]
                         /\ ~Rewinds(backup.files, e) =>
                              Opened([backup.files EXCEPT !.log[e] = run.log], e)
                                = Opened(backup.files, e)
    BY DEF ManifestIsReachable
  <1> DEFINE p == past[e]
             U == Unversioned(e)
             files == backup.files
             base == files.snapshot[e].version
             R == Own(files, e)
             taken == Taken(R, base, latest, e)
             run == RestoreEngine(files, FALSE, latest, e)
             g == [files EXCEPT !.log[e] = run.log]
  <1>1. HistoryInv(p, e)
    BY Sources
  <1>2. PICK n \in Nat : Holds(files, p, n, e)
    BY Sources
  <1>3. /\ base \in Nat /\ base + U <= n
        /\ \A v \in DOMAIN R : v \in Nat /\ v + U <= n
        /\ \A v \in Nat : v > base /\ v + U <= n => v \in DOMAIN R
    BY <1>1, <1>2, OwnRecords
  <1>4. U \in {0, 1}
    BY UnversionedFacts
  <1>5. Collected(files, FALSE, e) = R
    BY DEF Collected, Own
  <1>6. latest.kind = "latest"
    OBVIOUS
  <1>7. /\ run.ok <=> /\ LegacyAt(files.log[e]) = {} \/ latest.kind = "latest"
                      /\ Complete(base, taken)
        /\ run.point = Max(taken \union {base})
    BY <1>5 DEF RestoreEngine
  <1>8. taken = {v \in DOMAIN R : v > base}
    BY <1>6 DEF Taken, CutOff, Beyond
  <1>9. IsFiles(files) /\ backup.end[e] = Max(DOMAIN R \union {base})
    BY DEF BackupInv, Reported
  <1>10. /\ g.snapshot = files.snapshot /\ g.archive = files.archive /\ g.log[e] = run.log
    BY <1>9 DEF IsFiles
  <1> HIDE DEF R, taken, base, U, latest, p, files
  (* From the snapshot on the records are there up to the n-th commit. *)
  <1>11. taken = (base + 1)..(n - U)
    <2>1. ASSUME NEW v \in taken PROVE v \in (base + 1)..(n - U)
      <3>1. v \in Nat /\ v > base /\ v + U <= n
        BY <1>3, <1>8
      <3> QED BY <1>3, <1>4, <3>1
    <2>2. ASSUME NEW v \in (base + 1)..(n - U) PROVE v \in taken
      <3>1. v \in Nat /\ v > base /\ v + U <= n
        BY <1>3, <1>4
      <3> QED BY <1>3, <1>8, <3>1
    <2> QED BY <2>1, <2>2
  <1>12. Complete(base, taken)
    BY <1>3, <1>4, <1>11 DEF Complete
  <1>13. ASSUME NEW S, n - U \in S, \A v \in S : v \in 0..(n - U)
         PROVE  Max(S) = n - U
    <2>0. n - U \in Nat
      BY <1>3, <1>4
    <2>1. S \subseteq 0..(n - U) /\ S # {}
      BY <1>13
    <2>2. Max(S) \in S /\ \A x \in S : x <= Max(S)
      BY <2>0, <2>1, MaxFacts
    <2>3. Max(S) \in 0..(n - U) /\ n - U <= Max(S)
      BY <1>13, <2>2
    <2> QED BY <2>0, <2>3
  <1>14. Max(taken \union {base}) = n - U
    <2>1. n - U \in taken \union {base}
      BY <1>3, <1>4, <1>11
    <2>2. \A v \in taken \union {base} : v \in 0..(n - U)
      BY <1>3, <1>4, <1>11
    <2> QED BY <1>13, <2>1, <2>2
  <1>15. Max(DOMAIN R \union {base}) = n - U
    <2>1. n - U \in DOMAIN R \union {base}
      BY <1>3, <1>4, <1>8, <1>11
    <2>2. \A v \in DOMAIN R \union {base} : v \in 0..(n - U)
      BY <1>3, <1>4
    <2> QED BY <1>13, <2>1, <2>2
  <1>16. run.ok /\ run.point = n - U
    BY <1>6, <1>7, <1>12, <1>14
  <1>17. ASSUME ~Rewinds(files, e) PROVE Opened(g, e) = Opened(files, e)
    <2>1. /\ g.snapshot[e] = files.snapshot[e] /\ g.archive[e] = files.archive[e]
          /\ g.log[e] = run.log
      BY <1>10
    <2> HIDE DEF g
    <2>2. FALSE => AllFrom(dir.archive[e], p, e)
      OBVIOUS
    <2>3. PICK m \in Nat : Holds(g, p, m, e) /\ m = run.point + Unversioned(e)
      BY <1>1, <1>2, <1>16, <1>17, <2>1, <2>2, RestoredHolds
    <2>4. m = n
      <3>1. m = run.point + U
        BY <2>3 DEF U
      <3>2. m = (n - U) + U
        BY <1>16, <3>1
      <3> QED BY <1>4, <3>2
    <2> HIDE DEF run
    <2>5. Opened(g, e) = [i \in 1..m |-> p[i].id]
      BY <1>1, <2>3, OpenedIsPrefix
    <2>6. Opened(files, e) = [i \in 1..n |-> p[i].id]
      BY <1>1, <1>2, OpenedIsPrefix
    <2> QED BY <2>4, <2>5, <2>6
  <1> QED BY <1>9, <1>15, <1>16, <1>17 DEF files

(* The point a manifest reports can be reached with the backup alone, and   *)
(* what is restored so opens as the backup, unless a legacy line rewinds it.*)
THEOREM ManifestIsTrue ==
  ASSUME KeepsBackups = FALSE
  PROVE  Spec => []ManifestIsReachable
  <1>1. RecInv => ManifestIsReachable
    BY ManifestGives DEF RecInv
  <1> QED BY <1>1, RecAlways, PTL
=============================================================================
