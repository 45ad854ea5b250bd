------------------------------ MODULE Recovery ------------------------------
(***************************************************************************)
(* Backup, restore and archive pruning (recovery.rs) over a data directory *)
(* that its two engines go on changing: each engine commits to its log,    *)
(* publishes a snapshot, moves the log to the archive, crashes and is      *)
(* opened again.  The directory's two locks (lock.rs) keep the offline     *)
(* commands and the engines apart.                                         *)
(*                                                                         *)
(* A commit of an engine is a number.  A record carries its version (SQL's *)
(* commit_version, the key-value sequence) and its time; the versions of   *)
(* one engine are consecutive, so SQL's base_version is the version        *)
(* before.  The key-value log may begin with a line of an earlier release, *)
(* which has neither.                                                      *)
(*                                                                         *)
(* Engine steps are as coarse here as the commands can tell: SqlDatabase   *)
(* and KvStore have their detail.  Left out: torn lines, damaged files (a  *)
(* restore refuses them by their checksums), a directory copied by hand,   *)
(* sequence numbers that a failed write skipped, a wall clock set back,    *)
(* legacy lines of the SQL log (SqlDatabase has them).                     *)
(***************************************************************************)
EXTENDS Integers, Sequences, FiniteSets, SequencesExt, Positions

CONSTANTS
  Legacy,           \* engines whose log begins with a legacy line
  KeepsBackups,     \* backups of an abandoned directory are still used
  Points,           \* the exact points asked for: engine -> version
  MaxCommits,       \* bounds: commits of an engine,
  MaxCheckpoints,   \*         checkpoints,
  MaxBackups,       \*         backups of one directory,
  MaxTime,          \*         the clock,
  MaxAdoptions      \*         restored directories taken into use

Engines == {"sql", "kv"}

ASSUME RecoveryAssumption ==
  /\ Legacy \subseteq {"kv"}
  /\ KeepsBackups \in BOOLEAN
  /\ Points \subseteq [Engines -> Nat]

VARIABLES
  dir,         \* the data directory: snapshot, log and archive by engine
  active,      \* engines that are open
  past,        \* engine -> its commits, oldest first, as [id, time]
  abandoned,   \* the pasts of directories no longer used
  clock,
  backup,      \* the backup being made, or made last
  dest,        \* the destination of the restore
  pruned,      \* the latest time before which segments were pruned
  counts       \* commits, checkpoints, backups and adoptions so far

vars == <<dir, active, past, abandoned, clock, backup, dest, pruned, counts>>

NoSnapshot == [version |-> 0, time |-> 0, content |-> <<>>]
LegacyLine == [version |-> 0, time |-> 0, id |-> 0]
IsRecord(line) == line.version > 0

NoDirectory == [snapshot |-> [e \in Engines |-> NoSnapshot],
                log |-> [e \in Engines |-> <<>>],
                archive |-> [e \in Engines |-> <<>>]]

NoBackup == [state |-> "none", files |-> NoDirectory,
             end |-> [e \in Engines |-> 0]]

NoDest == [state |-> "empty", files |-> NoDirectory, target |-> [kind |-> "latest"],
           external |-> FALSE, point |-> [e \in Engines |-> 0]]

\* A legacy line takes no sequence.
Unversioned(e) == IF e \in Legacy THEN 1 ELSE 0

Version(e) == Len(past[e]) - Unversioned(e)

Ids(commits) == [i \in DOMAIN commits |-> commits[i].id]

\* What an engine has after opening a directory: its commits, in the order in
\* which they take effect.  SQL passes over the records that its snapshot has.
\* The key-value store applies every line of its log over the snapshot, so a
\* commit that both have takes effect where the log has it.
Opened(files, e) ==
  LET base == files.snapshot[e]
      log == files.log[e]
  IN IF e = "sql"
     THEN base.content \o Ids(At(log, {i \in DOMAIN log : log[i].version > base.version}))
     ELSE At(base.content, {i \in DOMAIN base.content : base.content[i] \notin Range(Ids(log))})
            \o Ids(log)

Init ==
  /\ dir = [NoDirectory EXCEPT
              !.log = [e \in Engines |-> IF e \in Legacy THEN <<LegacyLine>> ELSE <<>>]]
  /\ active = Engines
  /\ past = [e \in Engines |-> IF e \in Legacy THEN <<[id |-> 0, time |-> 0]>> ELSE <<>>]
  /\ abandoned = {}
  /\ clock = 1
  /\ backup = NoBackup
  /\ dest = NoDest
  /\ pruned = 0
  /\ counts = [commits |-> [e \in Engines |-> 0], checkpoints |-> 0, backups |-> 0, adoptions |-> 0]

----------------------------------------------------------------------------
(* The engines *)

Locked == backup.state = "copying"

Tick ==
  /\ clock < MaxTime
  /\ clock' = clock + 1
  /\ UNCHANGED <<dir, active, past, abandoned, backup, dest, pruned, counts>>

Open(e) ==
  /\ e \notin active /\ ~Locked
  /\ active' = active \union {e}
  /\ UNCHANGED <<dir, past, abandoned, clock, backup, dest, pruned, counts>>

\* An engine is closed, or its process is killed: its files are the same.
Close(e) ==
  /\ e \in active
  /\ active' = active \ {e}
  /\ UNCHANGED <<dir, past, abandoned, clock, backup, dest, pruned, counts>>

Commit(e) ==
  /\ e \in active
  /\ counts.commits[e] < MaxCommits[e]
  /\ LET id == counts.commits[e] + 1
     IN /\ dir' = [dir EXCEPT !.log[e] =
                     Append(@, [version |-> Version(e) + 1, time |-> clock, id |-> id])]
        /\ past' = [past EXCEPT ![e] = Append(@, [id |-> id, time |-> clock])]
  /\ counts' = [counts EXCEPT !.commits[e] = @ + 1]
  /\ UNCHANGED <<active, abandoned, clock, backup, dest, pruned>>

\* The snapshot is published, then the log is moved to the archive; a crash
\* in between leaves the log where it was.
Checkpoint(e, crash) ==
  /\ e \in active
  /\ counts.checkpoints < MaxCheckpoints
  /\ dir' = [dir EXCEPT
       !.snapshot[e] = [version |-> Version(e), time |-> clock, content |-> Ids(past[e])],
       !.log[e] = IF crash THEN @ ELSE <<>>,
       !.archive[e] = IF crash \/ dir.log[e] = <<>> THEN @ ELSE Append(@, dir.log[e])]
  /\ active' = IF crash THEN active \ {e} ELSE active
  /\ counts' = [counts EXCEPT !.checkpoints = @ + 1]
  /\ UNCHANGED <<past, abandoned, clock, backup, dest, pruned>>

----------------------------------------------------------------------------
(* BackupManager::create *)

Versions(lines) == {lines[i].version : i \in {j \in DOMAIN lines : IsRecord(lines[j])}}

\* The first record of a version in a file, and in several files.
FirstRecord(lines, v) ==
  lines[CHOOSE i \in DOMAIN lines : /\ lines[i].version = v
                                     /\ \A j \in 1..(i - 1) : lines[j].version # v]

FirstFile(segments, v) ==
  segments[CHOOSE i \in DOMAIN segments : /\ v \in Versions(segments[i])
                                           /\ \A j \in 1..(i - 1) : v \notin Versions(segments[j])]

\* The records of several files by version; of two with one version the
\* first stays.
Records(segments) ==
  [v \in UNION {Versions(segments[i]) : i \in DOMAIN segments} |->
     FirstRecord(FirstFile(segments, v), v)]

\* The backup's log comes first, then its archive, then the other archive.
Collected(files, external, e) ==
  Records(<<files.log[e]>> \o files.archive[e]
            \o (IF external THEN dir.archive[e] ELSE <<>>))

\* Slip: the records after the snapshot are not looked at.
EndVersion_BaseOnly(files, e) == files.snapshot[e].version

EndVersion(files, e) ==
  Max(DOMAIN Collected(files, FALSE, e) \union {files.snapshot[e].version})

\* Both locks are taken or nothing is done; the destination is a new directory.
BeginBackup ==
  /\ ~Locked /\ active = {}
  /\ counts.backups < MaxBackups
  /\ backup' = [NoBackup EXCEPT !.state = "copying",
                                !.files = [dir EXCEPT !.archive = NoDirectory.archive]]
  /\ counts' = [counts EXCEPT !.backups = @ + 1]
  /\ UNCHANGED <<dir, active, past, abandoned, clock, dest, pruned>>

\* The archive is copied and the manifest published with a rename.
PublishBackup ==
  /\ Locked
  /\ LET files == [backup.files EXCEPT !.archive = dir.archive]
     IN backup' = [state |-> "published", files |-> files,
                   end |-> [e \in Engines |-> EndVersion(files, e)]]
  /\ UNCHANGED <<dir, active, past, abandoned, clock, dest, pruned, counts>>

\* The process stops half way: no manifest, and nothing can be restored.
AbandonBackup ==
  /\ Locked
  /\ backup' = NoBackup
  /\ UNCHANGED <<dir, active, past, abandoned, clock, dest, pruned, counts>>

----------------------------------------------------------------------------
(* BackupManager::restore *)

\* Slip: a record of the very time asked for is left out.
CutOff_Before(target, r) == target.kind = "time" /\ r.time >= target.time

CutOff(target, r) == target.kind = "time" /\ r.time > target.time

\* Slip: the record of the very point asked for is left out.
Beyond_At(target, e, v) == target.kind = "point" /\ v >= target.point[e]

Beyond(target, e, v) == target.kind = "point" /\ v > target.point[e]

\* The versions the loop takes, in their order: it passes over what the
\* snapshot has, ends at the first record past the time asked for, and passes
\* over what lies beyond the point asked for.
Taken(records, base, target, e) ==
  {v \in DOMAIN records :
     /\ v > base
     /\ \A w \in DOMAIN records : base < w /\ w <= v => ~CutOff(target, records[w])
     /\ ~Beyond(target, e, v)}

\* Slip: a gap between records goes unnoticed.
Complete_Unchecked(base, taken) == TRUE

\* Each record taken follows the one before, the first one the snapshot.
Complete(base, taken) == \A v \in taken : \A w \in (base + 1)..v : w \in taken

LegacyAt(lines) == {i \in DOMAIN lines : ~IsRecord(lines[i])}

\* The legacy lines of the backup's log, then the records after the snapshot.
RestoreEngine(files, external, target, e) ==
  LET records == Collected(files, external, e)
      base == files.snapshot[e].version
      taken == Taken(records, base, target, e)
      legacy == LegacyAt(files.log[e])
  IN [ok |-> (legacy = {} \/ target.kind = "latest") /\ Complete(base, taken),
      point |-> Max(taken \union {base}),
      log |-> At(files.log[e], legacy) \o At(records, taken)]

\* A legacy line stands alone over a snapshot that has later records: opening
\* the directory applies it once more, and nothing after it applies them.
Rewinds(files, e) == files.snapshot[e].version > 0 /\ LegacyAt(files.log[e]) # {}

BaseTime == Max({backup.files.snapshot[e].time : e \in Engines})

Predates(target) ==
  \/ target.kind = "time" /\ BaseTime # 0 /\ target.time < BaseTime
  \/ /\ target.kind = "point"
     /\ \E e \in Engines : target.point[e] < backup.files.snapshot[e].version

\* The base and the backup's own archive are copied before anything can fail,
\* so a failed restore leaves files behind.  An archive is passed only when
\* there is one.
Restore(target, external) ==
  /\ backup.state = "published" /\ dest.state = "empty"
  /\ external => dir.archive # NoDirectory.archive
  /\ LET run == [e \in Engines |-> RestoreEngine(backup.files, external, target, e)]
         point == [e \in Engines |-> run[e].point]
         ok == /\ ~Predates(target)
               /\ \A e \in Engines : run[e].ok
               /\ target.kind = "point" => point = target.point
     IN dest' = [state |-> IF ok THEN "restored" ELSE "failed",
                 files |-> IF ok THEN [backup.files EXCEPT
                                         !.log = [e \in Engines |-> run[e].log]]
                           ELSE NoDirectory,
                 target |-> target, external |-> external,
                 point |-> IF ok THEN point ELSE NoDest.point]
  /\ UNCHANGED <<dir, active, past, abandoned, clock, backup, pruned, counts>>

\* Another destination is named for the next restore.
ClearDest ==
  /\ dest.state # "empty"
  /\ dest' = NoDest
  /\ UNCHANGED <<dir, active, past, abandoned, clock, backup, pruned, counts>>

\* The restored directory is taken into use in place of the old one, if it
\* opens as a part of the history of that one.
Adopt ==
  /\ dest.state = "restored" /\ active = {} /\ ~Locked
  /\ counts.adoptions < MaxAdoptions
  /\ \A e \in Engines : /\ ~Rewinds(dest.files, e)
                        /\ Opened(dest.files, e) = SubSeq(Ids(past[e]), 1,
                                                         Len(Opened(dest.files, e)))
  /\ dir' = dest.files
  /\ past' = [e \in Engines |-> SubSeq(past[e], 1, Len(Opened(dest.files, e)))]
  /\ abandoned' = abandoned \union {past}
  /\ backup' = IF KeepsBackups THEN backup ELSE NoBackup
  /\ dest' = NoDest
  /\ counts' = [counts EXCEPT !.adoptions = @ + 1, !.backups = 0]
  /\ pruned' = 0
  /\ UNCHANGED <<active, clock>>

----------------------------------------------------------------------------
(* BackupManager::prune *)

\* Slip: a segment is as old as its first record.
LatestTimestamp_First(segment) == segment[1].time

LatestTimestamp(segment) == Max({segment[i].time : i \in DOMAIN segment})

\* A segment without a record has no time and stays.
Prunable(segment, before) ==
  /\ Versions(segment) # {}
  /\ LatestTimestamp(segment) < before

Prune(before) ==
  /\ active = {} /\ ~Locked
  /\ \E e \in Engines, i \in 1..MaxCheckpoints :
       i \in DOMAIN dir.archive[e] /\ Prunable(dir.archive[e][i], before)
  /\ dir' = [dir EXCEPT !.archive = [e \in Engines |->
               At(@[e], {i \in DOMAIN @[e] : ~Prunable(@[e][i], before)})]]
  /\ pruned' = Max({pruned, before})
  /\ UNCHANGED <<active, past, abandoned, clock, backup, dest, counts>>

----------------------------------------------------------------------------

Targets ==
  {[kind |-> "latest"]}
  \union [kind : {"time"}, time : 1..MaxTime]
  \union [kind : {"point"}, point : Points]

\* What the engines do while a restored directory waits to be used does not
\* touch it: their steps come before or after.
Next ==
  \/ /\ dest.state = "empty"
     /\ \/ Tick
        \/ \E e \in Engines : Open(e) \/ Close(e) \/ Commit(e)
        \/ \E e \in Engines, crash \in BOOLEAN : Checkpoint(e, crash)
        \/ BeginBackup \/ PublishBackup \/ AbandonBackup
        \/ \E before \in 1..MaxTime : Prune(before)
  \/ \E target \in Targets, external \in BOOLEAN : Restore(target, external)
  \/ ClearDest
  \/ Adopt

Spec == Init /\ [][Next]_vars

----------------------------------------------------------------------------
(* Properties *)

\* A restored directory opens as the database was after one of its commits,
\* in each engine at the point the restore reports: no commit is missing,
\* repeated, out of place, or of another directory's history.  It is so of
\* every directory but those in which a legacy line rewinds the snapshot.
RestoredIsReal ==
  dest.state = "restored" =>
    \A e \in Engines : ~Rewinds(dest.files, e) =>
      LET content == Opened(dest.files, e)
      IN /\ Len(content) = dest.point[e] + Unversioned(e)
         /\ \E p \in abandoned \union {past} : IsPrefix(content, Ids(p[e]))

\* The point a manifest reports is what its backup holds: restored on its own,
\* the backup gives all the engine had committed when it was made, and opens
\* so unless a legacy line rewinds it.
ManifestIsReachable ==
  backup.state = "published" =>
    \A e \in Engines :
      LET run == RestoreEngine(backup.files, FALSE, [kind |-> "latest"], e)
      IN /\ run.ok /\ run.point = backup.end[e]
         /\ ~Rewinds(backup.files, e) =>
              Opened([backup.files EXCEPT !.log[e] = run.log], e) = Opened(backup.files, e)

\* A restore fails for a reason only: the target lies before the snapshots or
\* past the records there are, a record on the way is missing, or a legacy
\* line has no point or time.
Reason(target, external) ==
  \/ Predates(target)
  \/ \E e \in Engines :
       LET base == backup.files.snapshot[e].version
           records == Collected(backup.files, external, e)
           wanted == CASE target.kind = "point" -> (base + 1)..target.point[e]
                       [] target.kind = "latest" -> (base + 1)..Max(DOMAIN records \union {0})
                       [] target.kind = "time" ->
                            (base + 1)..Max({v \in DOMAIN records :
                                               records[v].time <= target.time} \union {0})
       IN \/ ~(wanted \subseteq DOMAIN records)
          \/ target.kind # "latest" /\ LegacyLine \in Range(backup.files.log[e])

RecoverableIsRestored ==
  [][(dest.state = "empty" /\ dest'.state = "failed")
       => Reason(dest'.target, dest'.external)]_vars

\* A restore to a time takes every commit up to that time that it can read,
\* that very millisecond included, and none that came later.
TimeIsExact ==
  [][(dest.state = "empty" /\ dest'.state = "restored" /\ dest'.target.kind = "time") =>
       \A e \in Engines :
         LET n == Len(Opened(dest'.files, e))
             records == Collected(backup.files, dest'.external, e)
         IN /\ \A i \in 1..n : past[e][i].time <= dest'.target.time
            /\ \A v \in DOMAIN records :
                 v > dest'.point[e] => records[v].time > dest'.target.time]_vars

\* Pruning up to a time spares every record that a backup whose snapshot is
\* not older than that time still needs.
PruneKeepsLaterBackups ==
  backup.state = "published" =>
    \A e \in Engines :
      LET base == backup.files.snapshot[e]
          there == DOMAIN Collected(backup.files, TRUE, e) \union Versions(dir.log[e])
      IN base.time > 0 /\ base.time >= pruned
           => (base.version + 1)..Version(e) \subseteq there
=============================================================================
