------------------------------ MODULE Compaction ------------------------------
(***************************************************************************)
(* Segment compaction beside running statements.  The merge worker's       *)
(* thread (storage/merge_worker.cpp) and a VACUUM statement                *)
(* (frontend/runner.cpp) copy segments from a snapshot they took under the *)
(* table's shared lock and swap the copy in later, under the unique lock,  *)
(* while INSERT and DELETE go on.  A DELETE is itself two steps: a scan    *)
(* that collects row ids and a later mark_deleted.  Nothing orders these   *)
(* steps but the table's lock, which each takes and releases on its own.   *)
(*                                                                         *)
(* Rows are numbered as they are inserted and every row is distinct.  A    *)
(* segment is one of module Table with its directory's id.  A kill leaves  *)
(* the files and the log, which the next start replays: an INSERT's own    *)
(* seal is logged, those of VACUUM and of the worker are not.  INSERT and  *)
(* mark_deleted are one step each, and so is a start; a kill inside them   *)
(* is the subject of Storage, and so are the index and long logs.          *)
(*                                                                         *)
(* "live" are the rows no completed DELETE has removed, and "gap" names    *)
(* the interleavings after which the table's contents may differ from it;  *)
(* both are ghosts, read by no step.                                       *)
(***************************************************************************)
EXTENDS Table, SequencesExt, FiniteSetsExt

CONSTANTS
  MergeThreshold,  \* segments at which the worker merges the older half (8)
  FirstSegments,   \* segments sealed before the first step
  MaxRows,         \* bound: rows inserted
  MaxDeletes,      \* bound: DELETE statements
  MaxVacuums,      \* bound: VACUUM statements
  MaxPasses,       \* bound: passes of the worker over the table
  MaxCrashes       \* bound: kills of the process

ASSUME CompactionAssumption ==
  /\ MergeThreshold \in Nat \ {0, 1}
  /\ {FirstSegments, MaxRows, MaxDeletes, MaxVacuums, MaxPasses, MaxCrashes} \subseteq Nat

Compactors == {"worker", "vacuum"}
Nothing == [rows |-> <<>>, deleted |-> {}, made |-> FALSE]

VARIABLES
  t,        \* the table; each segment carries the id of its directory
  nextId,   \* next_segment_id_
  dirs,     \* ids of the segment directories that exist
  stray,    \* those no manifest has named, with their bitmaps: [id, deleted]
  tmp,      \* seg_vacuum_tmp and seg_merge_tmp
  job,      \* what each compactor is doing, and its snapshot
  del,      \* a DELETE between its scan and its marking
  wal,      \* the log's records, lsn.bin, whether the process runs, and a ghost:
            \* has a seal been left out of the log?
  nrows, live, gap, left

files == <<nextId, dirs, stray>>
vars == <<t, files, tmp, job, del, wal, nrows, live, gap, left>>
Idle == [pc |-> "idle", dir |-> "none", snaps |-> <<>>]
NoDelete == [row |-> 0, gids |-> {}]
Spend(what) == left[what] > 0 /\ left' = [left EXCEPT ![what] = @ - 1]

-----------------------------------------------------------------------------
(* Statements.                                                             *)

\* The records of the log; an offset counts records, the header being one.
log_insert(rows) == [type |-> "insert", rows |-> rows]
log_delete(gids) == [type |-> "delete", gids |-> gids]
log_segment_flush(sealed) == [type |-> "segment_flush", sealed |-> sealed]
offset == IF wal.log = <<>> THEN 0 ELSE Len(wal.log) + 1

\* flush_write_buffer_, on a table u whose next directory is id: the new segment
\* takes that directory, and the bitmap it finds there if the buffer has none.
Leftover(strays, id) == UNION {s.deleted : s \in {x \in strays : x.id = id}}
Seal(u, id, strays) ==
  LET flushed == flush_write_buffer(u, Leftover(strays, id))
      last == flushed.segments[Len(flushed.segments)]
  IN  IF u.wb = <<>> THEN u
      ELSE [flushed EXCEPT !.segments[Len(flushed.segments)] =
              [id |-> id, base |-> last.base, rows |-> last.rows,
               deleted |-> last.deleted \cap Locals(last.rows)]]
Inherits(u, id, strays) == u.wb # <<>> /\ u.wb_deleted = {} /\ Leftover(strays, id) # {}

Sealing(u) ==
  /\ t' = Seal(u, nextId, stray)
  /\ nextId' = IF u.wb = <<>> THEN nextId ELSE nextId + 1
  /\ dirs' = IF u.wb = <<>> THEN dirs ELSE dirs \cup {nextId}
  /\ gap' = IF Inherits(u, nextId, stray) THEN gap \cup {"inherited"} ELSE gap
  /\ UNCHANGED stray


\* Catalog::insert of k rows: the record, insert_many with its maybe_flush_, and
\* after a seal a record of it, behind which nothing sealed is replayed.
Insert(k) ==
  LET rows == [i \in 1..k |-> nrows + i]
      appended == append_bulk(t, rows)
      logged == Append(wal.log, log_insert(rows))
  IN  /\ nrows + k <= MaxRows
      /\ nrows' = nrows + k
      /\ live' = live \cup Range(rows)
      /\ IF NeedsFlush(appended)
           THEN /\ Sealing(appended)
                /\ wal' = [wal EXCEPT !.log = Append(logged, log_segment_flush(t'.wb_base)),
                                      !.unlogged = FALSE]
           ELSE /\ t' = appended /\ wal' = [wal EXCEPT !.log = logged]
                /\ UNCHANGED <<files, gap>>
      /\ UNCHANGED <<tmp, job, del, left>>

\* run_delete's scan
DeleteScan(r) ==
  /\ del = NoDelete /\ Spend("delete")
  /\ r \in live
  /\ del' = [row |-> r, gids |-> Matching(t, r)]
  /\ UNCHANGED <<t, files, tmp, job, wal, nrows, live, gap>>

\* Segments that some compactor has read but not yet swapped.
Copied == {j \in DOMAIN t.segments : \E p \in Compactors :
             job[p].pc \in {"copy", "swap"} /\ t.segments[j].id \in {s.id : s \in Range(job[p].snaps)}}

\* Catalog::delete_rows: the ids collected earlier are logged and marked.  A bit set
\* in a segment being compacted goes with that segment; an id collected before a
\* swap may name another row after it.
DeleteMark ==
  LET marked == mark_deleted(t, del.gids)
  IN  /\ del # NoDelete
      /\ t' = marked
      /\ wal' = IF del.gids = {} THEN wal ELSE [wal EXCEPT !.log = Append(@, log_delete(del.gids))]
      /\ live' = live \ {del.row}
      /\ gap' = gap
           \cup (IF \E j \in Copied : marked.segments[j] # t.segments[j] THEN {"overtaken"} ELSE {})
           \cup (IF del.gids # Matching(t, del.row) THEN {"renumbered"} ELSE {})
      /\ del' = NoDelete
      /\ UNCHANGED <<files, tmp, job, nrows, left>>

-----------------------------------------------------------------------------
(* Compaction.  dir says which temporary directory a job uses: the         *)
(* statement and the worker share seg_vacuum_tmp.                          *)

Snapshots(k) == [i \in 1..k |-> [id |-> t.segments[i].id, base |-> t.segments[i].base,
                   rows |-> t.segments[i].rows, deleted |-> t.segments[i].deleted, idx |-> i]]
Enter(p, j) == job' = [job EXCEPT ![p] = j]

\* Table::seal, called by run_vacuum and the worker: nothing is logged.
SealNow ==
  /\ Sealing(t)
  /\ wal' = [wal EXCEPT !.unlogged = @ \/ (t.wb # <<>> /\ wal.log # <<>>)]

\* run_vacuum: seal, vacuum_table, flush_all.
VacuumStart ==
  /\ job["vacuum"].pc = "idle" /\ Spend("vacuum")
  /\ SealNow
  /\ Enter("vacuum", [Idle EXCEPT !.pc = "vacuum"])
  /\ UNCHANGED <<tmp, del, nrows, live>>

\* flush_all: lsn.bin gets the log's offset and the log is deleted.
VacuumEnd ==
  /\ job["vacuum"].pc = "flush"
  /\ wal' = [wal EXCEPT !.lsn = [lsn |-> offset, rows |-> row_count(t)], !.log = <<>>,
                        !.unlogged = FALSE]
  /\ Enter("vacuum", Idle)
  /\ UNCHANGED <<t, files, tmp, del, nrows, live, gap, left>>

\* maybe_merge_table_'s first half over table_dead_row_stats.
TotalRows == SealedRows(t.segments) + Len(t.wb)
WorkerCheck ==
  /\ job["worker"].pc = "idle" /\ Spend("pass")
  /\ IF 5 * (Cardinality(DeadRows(t)) + Cardinality(t.wb_deleted)) > TotalRows
       THEN SealNow /\ Enter("worker", [Idle EXCEPT !.pc = "vacuum"])
       ELSE Enter("worker", [Idle EXCEPT !.pc = "merge"]) /\ UNCHANGED <<t, files, wal, gap>>
  /\ UNCHANGED <<tmp, del, nrows, live>>

\* The end of one job: the worker goes on from vacuuming to merging, and the
\* statement to its flush_all.
After(p, dir) ==
  CASE p = "vacuum" -> [Idle EXCEPT !.pc = "flush"]
    [] p = "worker" /\ dir = "seg_vacuum_tmp" -> [Idle EXCEPT !.pc = "merge"]
    [] OTHER -> Idle

\* Both functions begin by clearing their temporary directory.
Begin(p, dir, k) ==
  /\ Enter(p, [pc |-> "copy", dir |-> dir, snaps |-> Snapshots(k)])
  /\ tmp' = [tmp EXCEPT ![dir] = Nothing]
  /\ gap' = IF \E q \in Compactors \ {p} : job[q].pc \in {"copy", "swap"}
            THEN gap \cup {"overlap"} ELSE gap

\* vacuum_table's snapshot of all segments; without dead rows there is nothing
\* to do.
VacuumSnapshot(p) ==
  /\ job[p].pc = "vacuum"
  /\ IF DeadRows(t) = {}
       THEN Enter(p, After(p, "seg_vacuum_tmp")) /\ UNCHANGED <<tmp, gap>>
       ELSE Begin(p, "seg_vacuum_tmp", Len(t.segments))
  /\ UNCHANGED <<t, files, del, wal, nrows, live, left>>

\* maybe_merge_table_'s snapshot of the older half.
MergeSnapshot ==
  /\ job["worker"].pc = "merge"
  /\ IF Len(t.segments) < MergeThreshold
       THEN Enter("worker", Idle) /\ UNCHANGED <<tmp, gap>>
       ELSE Begin("worker", "seg_merge_tmp", MergeThreshold \div 2)
  /\ UNCHANGED <<t, files, del, wal, nrows, live, left>>

\* copy_column and merge_deleted_bitmaps keep dead rows and shift their bits;
\* copy_column_filtered leaves dead rows out.
Shifted(snaps) ==
  LET before(i) == SealedRows(SubSeq(snaps, 1, i - 1))
  IN  UNION {{before(i) + l : l \in snaps[i].deleted} : i \in DOMAIN snaps}
CopyOf(j) ==
  LET rowsOf(s) == IF j.dir = "seg_vacuum_tmp" THEN LiveRows(s) ELSE s.rows
  IN  [rows |-> FlattenSeq([i \in DOMAIN j.snaps |-> rowsOf(j.snaps[i])]),
       deleted |-> IF j.dir = "seg_vacuum_tmp" THEN {} ELSE Shifted(j.snaps), made |-> TRUE]

\* Mutant: the source directories are removed as soon as they are copied.
Copy_Removing(p) ==
  LET j == job[p]
      there == {s.id : s \in Range(j.snaps)} \subseteq dirs
  IN  /\ j.pc = "copy"
      /\ tmp' = [tmp EXCEPT ![j.dir] = IF there THEN CopyOf(j) ELSE Nothing]
      /\ Enter(p, IF there THEN [j EXCEPT !.pc = "swap"] ELSE After(p, j.dir))
      /\ dirs' = dirs \ {s.id : s \in Range(j.snaps)}
      /\ UNCHANGED <<t, nextId, stray, del, wal, nrows, live, gap, left>>

\* The copy, outside every lock; a source directory that is gone ends the job.
Copy(p) ==
  LET j == job[p]
      there == {s.id : s \in Range(j.snaps)} \subseteq dirs
  IN  /\ j.pc = "copy"
      /\ tmp' = [tmp EXCEPT ![j.dir] = IF there THEN CopyOf(j) ELSE Nothing]
      /\ Enter(p, IF there THEN [j EXCEPT !.pc = "swap"] ELSE After(p, j.dir))
      /\ UNCHANGED <<t, files, del, wal, nrows, live, gap, left>>

\* Mutant: the new segment takes the base of the last one it replaces.
Replaced_LastBase(j) ==
  LET copy == tmp[j.dir]
      count == Len(CopyOf(j).rows)
      places == {s.idx : s \in Range(j.snaps)}
      kept == SelectSeq([i \in DOMAIN t.segments |-> i], LAMBDA i : i \notin places)
      new == [id |-> nextId, base |-> j.snaps[Len(j.snaps)].base, deleted |-> copy.deleted,
              rows |-> SubSeq(copy.rows, 1, Min({count, Len(copy.rows)}))]
  IN  [t EXCEPT !.segments = <<new>> \o [i \in DOMAIN kept |-> t.segments[kept[i]]]]

\* replace_segments: whatever the temporary directory holds becomes the next
\* segment; the segments at the snapshot's places, whichever they are by now,
\* are dropped from memory and manifest.
Replaced(j) ==
  LET copy == tmp[j.dir]
      count == Len(CopyOf(j).rows)
      places == {s.idx : s \in Range(j.snaps)}
      kept == SelectSeq([i \in DOMAIN t.segments |-> i], LAMBDA i : i \notin places)
      new == [id |-> nextId, base |-> j.snaps[1].base, deleted |-> copy.deleted,
              rows |-> SubSeq(copy.rows, 1, Min({count, Len(copy.rows)}))]
  IN  [t EXCEPT !.segments = <<new>> \o [i \in DOMAIN kept |-> t.segments[kept[i]]]]

\* The rename fails when the temporary directory is gone, or onto a directory left
\* by a kill; the id is used up.
Swap(p) ==
  LET j == job[p]
  IN  /\ j.pc = "swap"
      /\ nextId' = nextId + 1
      /\ IF tmp[j.dir].made /\ nextId \notin dirs
           THEN /\ t' = Replaced(j)
                /\ dirs' = dirs \cup {nextId}
                /\ Enter(p, [j EXCEPT !.pc = "remove"])
           ELSE Enter(p, After(p, j.dir)) /\ UNCHANGED <<t, dirs>>
      /\ tmp' = [tmp EXCEPT ![j.dir] = Nothing]
      /\ UNCHANGED <<stray, del, wal, nrows, live, gap, left>>

\* The snapshot's directories are removed by name.
RemoveDirs(p) ==
  LET j == job[p]
  IN  /\ j.pc = "remove"
      /\ dirs' = dirs \ {s.id : s \in Range(j.snaps)}
      /\ Enter(p, After(p, j.dir))
      /\ UNCHANGED <<t, nextId, stray, tmp, del, wal, nrows, live, gap, left>>

-----------------------------------------------------------------------------
(* A kill, and the next start.                                             *)

\* A kill inside replace_segments, after the rename, leaves a directory that no
\* manifest names.
StrayDirs ==
  {{}} \cup {{[id |-> nextId, deleted |-> tmp[job[p].dir].deleted]} :
             p \in {q \in Compactors : /\ job[q].pc = "swap" /\ nextId \notin dirs
                                        /\ tmp[job[q].dir].made}}

\* Catalog::load: the checkpoint is lsn.bin or a segment_flush record behind it,
\* and the records from there on are applied again, sealing as they go.
FlushRecords == {i \in DOMAIN wal.log : wal.log[i].type = "segment_flush" /\ i > wal.lsn.lsn}
LoadCheckpoint ==
  IF FlushRecords = {} THEN wal.lsn
  ELSE [lsn |-> Max(FlushRecords), rows |-> wal.log[Max(FlushRecords)].sealed]
Replay(z, i, strays) ==
  LET rec == wal.log[i]
      u == IF rec.type = "delete" THEN mark_deleted(z.t, rec.gids) ELSE append_bulk(z.t, rec.rows)
  IN  IF rec.type = "segment_flush" \/ i < LoadCheckpoint.lsn THEN z
      ELSE IF rec.type = "insert" /\ NeedsFlush(u)
      THEN [t |-> Seal(u, z.next, strays), next |-> z.next + 1,
            inherited |-> z.inherited \/ Inherits(u, z.next, strays)]
      ELSE [z EXCEPT !.t = u]
Replayed(z, strays) ==
  LET upto[i \in 0 .. Len(wal.log)] == IF i = 0 THEN z ELSE Replay(upto[i - 1], i, strays)
  IN  upto[Len(wal.log)]

\* Table::open on what the manifest names: the buffer's base is recomputed, and ids
\* start again after the manifest's largest.  Then the buffer is cut back to the
\* checkpoint and the log replayed.  The start fails on a missing directory or a
\* buffer shorter than the checkpoint.
Opened == open_table(t.segments, t.wb, t.wb_deleted)
FirstId == 1 + Max({0} \cup {s.id : s \in Range(t.segments)})
Startable ==
  /\ {s.id : s \in Range(t.segments)} \subseteq dirs
  /\ wal.log = <<>> \/ CanTruncate(Opened, LoadCheckpoint.rows)
Loaded(strays) ==
  LET cut == [t |-> truncate(Opened, LoadCheckpoint.rows), next |-> FirstId, inherited |-> FALSE]
  IN  IF wal.log = <<>> \/ ~Startable
      THEN [t |-> Opened, next |-> FirstId, inherited |-> FALSE]
      ELSE Replayed(cut, strays)

\* The gaps a kill falls into at this point.
KillGaps ==
  {x \in {"rebased", "unlogged", "stale"} :
     \/ x = "rebased" /\ t.wb_base # SealedRows(t.segments)
     \/ x = "unlogged" /\ wal.unlogged
     \/ x = "stale" /\ wal.lsn.lsn > 0 /\ wal.log # <<>>}

Crash ==
  /\ Spend("crash")
  /\ \E new \in StrayDirs : \E z \in {Loaded(stray \cup new)} :
       /\ t' = z.t /\ nextId' = z.next /\ stray' = stray \cup new
       /\ dirs' = dirs \cup {s.id : s \in new} \cup FirstId .. z.next - 1
       /\ gap' = gap \cup KillGaps \cup (IF z.inherited THEN {"inherited"} ELSE {})
  /\ wal' = IF wal.log = <<>> \/ ~Startable THEN [wal EXCEPT !.up = Startable]
            ELSE [log |-> <<>>, lsn |-> [lsn |-> 0, rows |-> row_count(t')], up |-> TRUE,
                  unlogged |-> FALSE]
  /\ tmp' = [d \in DOMAIN tmp |-> Nothing]
  /\ job' = [p \in Compactors |-> Idle]
  /\ del' = NoDelete
  /\ UNCHANGED <<nrows, live>>

-----------------------------------------------------------------------------
\* A table of whole segments, each sealed by an INSERT that filled the buffer, after
\* a start that found nothing to replay.
FirstTable ==
  [EmptyTable EXCEPT
     !.segments = [i \in 1..FirstSegments |->
        [id |-> i, base |-> (i - 1) * FlushThreshold, deleted |-> {},
         rows |-> [l \in 1..FlushThreshold |-> (i - 1) * FlushThreshold + l]]],
     !.wb_base = FirstSegments * FlushThreshold]

Init ==
  /\ t = FirstTable /\ nextId = FirstSegments + 1 /\ dirs = 1..FirstSegments /\ stray = {}
  /\ tmp = [d \in {"seg_vacuum_tmp", "seg_merge_tmp"} |-> Nothing]
  /\ job = [p \in Compactors |-> Idle]
  /\ del = NoDelete /\ nrows = FirstTable.wb_base /\ live = 1..nrows /\ gap = {}
  /\ wal = [log |-> <<>>, lsn |-> [lsn |-> 0, rows |-> FirstTable.wb_base], up |-> TRUE,
            unlogged |-> FALSE]
  /\ left = [delete |-> MaxDeletes, vacuum |-> MaxVacuums, pass |-> MaxPasses, crash |-> MaxCrashes]

Next ==
  /\ wal.up
  /\ \/ \E k \in 1..FlushThreshold : Insert(k)
     \/ \E r \in live : DeleteScan(r)
     \/ DeleteMark \/ VacuumStart \/ VacuumEnd \/ WorkerCheck \/ MergeSnapshot \/ Crash
     \/ \E p \in Compactors : VacuumSnapshot(p) \/ Copy(p) \/ Swap(p) \/ RemoveDirs(p)

Spec == Init /\ [][Next]_vars

-----------------------------------------------------------------------------
\* Segments have ids below the next one, rows that were inserted, and marks on
\* rows they have.
TypeOK ==
  /\ t.wb_base \in Nat /\ Range(t.wb) \subseteq 1..nrows /\ t.wb_deleted \subseteq Nat
  /\ \A i \in DOMAIN t.segments :
       /\ t.segments[i].id \in 1..(nextId - 1)
       /\ Range(t.segments[i].rows) \subseteq 1..nrows
       /\ t.segments[i].deleted \subseteq Locals(t.segments[i].rows)
  /\ live \subseteq 1..nrows
  /\ gap \subseteq {"overtaken", "renumbered", "overlap", "rebased", "unlogged", "stale", "inherited"}


\* Every segment of the manifest has its directory, so that the table can be
\* opened after a kill at any step; only two crossing compactions break it.
ManifestComplete ==
  "overlap" \notin gap => {s.id : s \in Range(t.segments)} \subseteq dirs

\* A row id that a scan reports leads mark_deleted back to that very row, and
\* no other row has it.
IdsResolve ==
  gap = {} => \A x \in Scan(t) :
    /\ Scan(mark_deleted(t, {x.gid})) = Scan(t) \ {x}
    /\ is_row_deleted(mark_deleted(t, {x.gid}), x.gid)

\* "A single std::shared_mutex serialises write paths": a row whose DELETE has
\* completed is never seen again.
DeletedStaysDeleted == \A r \in (1..nrows) \ live : Visible(t, r) = 0
=============================================================================
