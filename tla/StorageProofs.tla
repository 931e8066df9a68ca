--------------------------- MODULE StorageProofs ---------------------------
(***************************************************************************)
(* For every batch size, threshold, page capacity and number of rows: the  *)
(* log is deleted only when the table's directory holds everything the     *)
(* table does and lsn.bin counts its rows.  The argument follows what is   *)
(* on disk through the steps of a statement.                               *)
(***************************************************************************)
EXTENDS Storage, TLAPS

\* A table and a table directory are records with these fields.
IsTable(t) ==
  /\ DOMAIN t = {"segments", "wb", "wb_deleted", "wb_base"}
  /\ t = [x \in DOMAIN t |-> t[x]]

IsDir(d) ==
  /\ DOMAIN d = {"segments", "wb", "wb_deleted", "cols", "leftover"}
  /\ d = [x \in DOMAIN d |-> d[x]]

\* What is on disk at each step of a running process: the manifest and the bitmaps
\* always agree with the table, outside the middle of a seal; the column files from
\* the flush on; lsn.bin once it was written.
OnDisk ==
  /\ IsTable(mem) /\ IsDir(disk)
  /\ pc \notin {"down", "failed"} => disk.segments = mem.segments
  /\ pc \notin {"down", "failed", "seal_create", "seal_manifest"} =>
       disk.wb_deleted = mem.wb_deleted
  /\ pc \in {"seal", "seal_create", "seal_manifest"} => mem.wb # <<>>
  /\ pc \in {"seal_create", "seal_manifest"} => disk.wb_deleted = {}
  /\ pc \in {"flush_indexes", "write_lsn", "checkpoint", "load_lsn", "load_remove"} =>
       disk.wb = mem.wb
  /\ pc \in {"checkpoint", "load_remove"} => lsn.rows = row_count(mem)

-----------------------------------------------------------------------------
\* Updating fields keeps a record a table, or a directory.
LEMMA TableUpdate ==
  ASSUME NEW t, IsTable(t), NEW a, NEW b
  PROVE  /\ IsTable([t EXCEPT !.wb_deleted = a, !.segments = b])
         /\ IsTable([t EXCEPT !.wb = a])
         /\ [t EXCEPT !.wb = a].segments = t.segments
         /\ [t EXCEPT !.wb = a].wb_deleted = t.wb_deleted
         /\ IsTable([t EXCEPT !.segments = b])
         /\ [t EXCEPT !.segments = b].wb_deleted = t.wb_deleted
  BY DEF IsTable

\* The operations on a table give a table.
LEMMA TableOps ==
  ASSUME NEW t, IsTable(t), NEW gids, NEW rows
  PROVE  /\ IsTable(mark_deleted(t, gids)) /\ IsTable(append_bulk(t, rows))
         /\ IsTable(Applied(t, gids, rows))
<1>1. \A u : IsTable(u) => IsTable(append_bulk(u, rows))
  BY TableUpdate DEF append_bulk
<1>2. IsTable(mark_deleted(t, gids))
  BY TableUpdate DEF mark_deleted
<1> QED BY <1>1, <1>2 DEF Applied

\* A directory whose columns are not flushed has the table's manifest and bitmap.
LEMMA UnflushedFields ==
  ASSUME NEW d, IsDir(d), NEW t
  PROVE  /\ IsDir(Unflushed(d, t)) /\ Unflushed(d, t).segments = t.segments
         /\ Unflushed(d, t).wb_deleted = t.wb_deleted
  BY Zenon DEF IsDir, Unflushed

\* A table over the threshold has rows in its buffer.
LEMMA FullNotEmpty ==
  ASSUME NEW t, NeedsFlush(t)
  PROVE  t.wb # <<>>
  BY TableAssumption DEF NeedsFlush

\* After CREATE TABLE the directory holds the empty table.
LEMMA InitOnDisk == Init => OnDisk
  BY DEF Init, OnDisk, EmptyTable, IsTable, IsDir

\* Logging a statement's record changes nothing in the directory.
LEMMA BeginOnDisk ==
  ASSUME OnDisk, NEW kind, NEW rec, NEW next \in {"check", "mark", "apply"}, NEW o,
         Begin(kind, rec, next, o)
  PROVE  OnDisk' /\ (walFile => walFile')
<1>1. /\ pc = "idle" /\ pc' = next /\ mem' = mem /\ disk' = disk /\ lsn' = lsn /\ walFile' = TRUE
  BY DEF Begin, Log
<1> QED BY <1>1 DEF OnDisk

\* The steps of a statement that change the table.
LEMMA WriteOnDisk ==
  ASSUME OnDisk, ApplyRows \/ MarkRows \/ VacuumSegments
  PROVE  OnDisk' /\ walFile' = walFile
<1> USE DEF OnDisk
<1>1. CASE ApplyRows
  <2>1. /\ pc = "apply" /\ mem' = Applied(mem, op.gids, op.rows) /\ disk' = Unflushed(disk, mem')
        /\ pc' = IF NeedsFlush(mem') THEN "seal" ELSE "index"
        /\ walFile' = walFile
    BY <1>1 DEF ApplyRows
  <2>2. IsTable(mem') /\ IsDir(disk') /\ disk'.segments = mem'.segments
        /\ disk'.wb_deleted = mem'.wb_deleted
    BY <2>1, TableOps, UnflushedFields
  <2>3. pc' = "seal" => mem'.wb # <<>>
    BY <2>1, FullNotEmpty
  <2> QED BY <2>1, <2>2, <2>3
<1>2. CASE MarkRows
  <2>1. /\ pc = "mark" /\ mem' = mark_deleted(mem, op.gids) /\ disk' = Unflushed(disk, mem')
        /\ pc' = "idle" /\ walFile' = walFile
    BY <1>2 DEF MarkRows
  <2>2. IsTable(mem') /\ IsDir(disk') /\ disk'.segments = mem'.segments
        /\ disk'.wb_deleted = mem'.wb_deleted
    BY <2>1, TableOps, UnflushedFields
  <2> QED BY <2>1, <2>2
<1>3. CASE VacuumSegments
  <2>1. /\ pc = "vacuum" /\ mem' = vacuum_table(mem) /\ pc' = "flush" /\ walFile' = walFile
        /\ disk' = [disk EXCEPT !.segments = mem'.segments]
    BY SMTT(30), <1>3 DEF VacuumSegments
  <2>2. IsTable(mem') /\ mem'.wb_deleted = mem.wb_deleted
    BY <2>1, TableUpdate DEF vacuum_table
  <2>3. IsDir(disk') /\ disk'.segments = mem'.segments /\ disk'.wb_deleted = disk.wb_deleted
    BY <2>1 DEF IsDir
  <2> QED BY <2>1, <2>2, <2>3
<1> QED BY <1>1, <1>2, <1>3

\* The steps of a seal.
LEMMA SealOnDisk ==
  ASSUME OnDisk, Seal
  PROVE  OnDisk' /\ walFile' = walFile
<1> USE DEF OnDisk
<1>1. CASE SealRename
  <2>1. pc = "seal" /\ pc' = "seal_create" /\ mem' = mem /\ walFile' = walFile
    BY <1>1 DEF SealRename
  <2>2. IsDir(disk') /\ disk'.segments = disk.segments /\ disk'.wb_deleted = {}
    BY <1>1, Zenon DEF SealRename, IsDir
  <2> QED BY <2>1, <2>2
<1>2. CASE SealCreate
  <2>1. pc = "seal_create" /\ pc' = "seal_manifest" /\ mem' = mem /\ walFile' = walFile
    BY <1>2 DEF SealCreate
  <2>2. IsDir(disk') /\ disk'.segments = disk.segments /\ disk'.wb_deleted = disk.wb_deleted
    BY <1>2, Zenon DEF SealCreate, IsDir
  <2> QED BY <2>1, <2>2
<1>3. CASE SealManifest
  <2>1. /\ pc = "seal_manifest" /\ mem' = flush_write_buffer(mem, disk.leftover)
        /\ disk' = [disk EXCEPT !.segments = mem'.segments, !.leftover = {}]
        /\ walFile' = walFile
    BY <1>3 DEF SealManifest
  <2>2. pc' \in {"vacuum", "replay", "sealed"}
    BY <1>3 DEF SealManifest
  <2>3. IsTable(mem') /\ mem'.wb_deleted = {}
    BY <2>1, Zenon DEF flush_write_buffer, IsTable
  <2>4. IsDir(disk') /\ disk'.segments = mem'.segments /\ disk'.wb_deleted = disk.wb_deleted
    BY <2>1, Zenon DEF IsDir
  <2> QED BY <2>1, <2>2, <2>3, <2>4
<1> QED BY <1>1, <1>2, <1>3 DEF Seal

\* flush_all and the steps that leave the table and its directory alone.
LEMMA FlushOnDisk ==
  ASSUME OnDisk,
         InsertCheck \/ LogSegmentFlush \/ IndexRows \/ FlushTables \/ FlushIndexes \/ WriteLsn
           \/ FlushStart \/ VacuumStart
  PROVE  OnDisk' /\ (walFile => walFile')
<1> USE DEF OnDisk
<1>1. CASE InsertCheck
  BY <1>1 DEF InsertCheck
<1>2. CASE LogSegmentFlush
  BY <1>2 DEF LogSegmentFlush, Log
<1>3. CASE IndexRows
  <2>1. /\ pc = "index" /\ pc' \in {"flush", "idle"}
        /\ UNCHANGED <<mem, disk, lsn, walFile>>
    BY <1>3 DEF IndexRows
  <2> QED BY <2>1
<1>4. CASE FlushTables
  <2>1. pc = "flush" /\ pc' = "flush_indexes" /\ mem' = mem /\ walFile' = walFile
    BY <1>4 DEF FlushTables
  <2>2. IsDir(disk') /\ disk'.segments = disk.segments /\ disk'.wb_deleted = disk.wb_deleted
        /\ disk'.wb = mem.wb
    BY <1>4 DEF FlushTables, IsDir
  <2> QED BY <2>1, <2>2
<1>5. CASE FlushIndexes
  BY <1>5 DEF FlushIndexes
<1>6. CASE WriteLsn
  <2>1. pc = "write_lsn" /\ pc' = "checkpoint" /\ UNCHANGED <<mem, disk, walFile>>
        /\ lsn' = [lsn |-> offset, rows |-> row_count(mem)]
    BY <1>6 DEF WriteLsn
  <2>2. lsn'.rows = row_count(mem) /\ row_count(mem)' = row_count(mem)
    BY <2>1 DEF row_count
  <2> QED BY <2>1, <2>2
<1>7. CASE FlushStart
  BY <1>7 DEF FlushStart, ghosts
<1>8. CASE VacuumStart
  BY SMTT(30), <1>8 DEF VacuumStart
<1> QED BY <1>1, <1>2, <1>3, <1>4, <1>5, <1>6, <1>7, <1>8

\* What a crash leaves of the bitmap files is a table directory.
LEMMA CutIsDir ==
  ASSUME IsDir(disk), NEW gids, NEW d \in CutBitmaps(gids)
  PROVE  IsDir(d)
<1>1. \E c, torn : d = CutAt(mark_deleted(mem, gids), c, torn)
  BY DEF CutBitmaps
<1>2. PICK t, c, torn : d = CutAt(t, c, torn)
  BY <1>1
<1>3. \A a, b : IsDir([disk EXCEPT !.wb_deleted = a, !.segments = b])
  BY Zenon DEF IsDir
<1>4. PICK a, b : d = [disk EXCEPT !.wb_deleted = a, !.segments = b]
  BY <1>2, Zenon DEF CutAt
<1> QED BY <1>3, <1>4

\* A crash, and the steps of Catalog::load before it removes the log.
LEMMA LoadOnDisk ==
  ASSUME OnDisk, Crash \/ LoadOpen \/ LoadTruncate \/ ReplayRecord \/ LoadFlush \/ LoadWriteLsn
  PROVE  OnDisk' /\ (walFile => walFile')
<1> USE DEF OnDisk
<1>1. CASE Crash
  <2>1. mem' = EmptyTable /\ pc' = "down" /\ (walFile => walFile')
        /\ disk' \in {disk} \cup CutBitmaps(PendingMarks)
    BY <1>1, Zenon DEF Crash
  <2>2. IsTable(mem')
    BY <2>1 DEF EmptyTable, IsTable
  <2>3. IsDir(disk')
    BY <2>1, CutIsDir
  <2> QED BY <2>1, <2>2, <2>3
<1>2. CASE LoadOpen
  <2>1. pc = "down" /\ UNCHANGED <<disk, lsn, walFile>>
    BY <1>2 DEF LoadOpen
  <2>2. CASE disk.cols
    <3>1. mem' = open_table(disk.segments, disk.wb, disk.wb_deleted) /\ pc' \in {"truncate", "idle", "failed"}
      BY <1>2, <2>2 DEF LoadOpen
    <3>2. IsTable(mem') /\ mem'.segments = disk.segments /\ mem'.wb_deleted = disk.wb_deleted
      BY <3>1 DEF open_table, IsTable
    <3> QED BY <2>1, <3>1, <3>2
  <2>3. CASE ~disk.cols
    <3>1. mem' = mem /\ pc' = "failed"
      BY <1>2, <2>3 DEF LoadOpen
    <3> QED BY <2>1, <3>1
  <2> QED BY <2>2, <2>3
<1>3. CASE LoadTruncate
  <2> DEFINE rows == LoadCheckpoint.rows
  <2>1. pc = "truncate" /\ UNCHANGED <<lsn, walFile>>
    BY <1>3 DEF LoadTruncate
  <2>2. CASE CanTruncate(mem, rows)
    <3>1. /\ mem' = truncate(mem, rows) /\ pc' = "replay"
          /\ disk' = [disk EXCEPT !.wb = mem'.wb]
      BY SMTT(30), <1>3, <2>2 DEF LoadTruncate
    <3>2. IsTable(mem') /\ mem'.segments = mem.segments /\ mem'.wb_deleted = mem.wb_deleted
      <4> DEFINE n == WbTarget(mem, rows)
                 kept == SubSeq(mem.wb, 1, IF n < Len(mem.wb) THEN n ELSE Len(mem.wb))
      <4>1. mem' = [mem EXCEPT !.wb = kept]
        BY <3>1 DEF truncate
      <4> HIDE DEF kept
      <4> QED BY <4>1, TableUpdate
    <3>3. IsDir(disk') /\ disk'.segments = disk.segments /\ disk'.wb_deleted = disk.wb_deleted
      BY <3>1 DEF IsDir
    <3> QED BY <2>1, <3>1, <3>2, <3>3
  <2>3. CASE ~CanTruncate(mem, rows)
    <3>1. UNCHANGED <<mem, disk>> /\ pc' = "failed"
      BY <1>3, <2>3 DEF LoadTruncate
    <3> QED BY <2>1, <3>1
  <2> QED BY <2>2, <2>3
<1>4. CASE ReplayRecord
  <2>1. pc = "replay" /\ UNCHANGED <<lsn, walFile>>
    BY <1>4 DEF ReplayRecord
  <2>2. CASE Replayed(op.pos, op.lsn)
    <3>1. /\ mem' = Replay(mem, wal[op.pos]) /\ disk' = Unflushed(disk, mem')
          /\ pc' = IF wal[op.pos].type # "delete" /\ NeedsFlush(mem') THEN "seal" ELSE "replay"
      BY <1>4, <2>2 DEF ReplayRecord
    <3>2. wal[op.pos].type \in {"insert", "update", "delete"}
      BY <2>2 DEF Replayed
    <3>3. IsTable(mem')
      BY <3>1, <3>2, TableOps DEF Replay
    <3>4. IsDir(disk') /\ disk'.segments = mem'.segments /\ disk'.wb_deleted = mem'.wb_deleted
      BY <3>1, UnflushedFields
    <3>5. pc' = "seal" => mem'.wb # <<>>
      BY <3>1, FullNotEmpty
    <3> QED BY <2>1, <3>1, <3>3, <3>4, <3>5
  <2>3. CASE ~Replayed(op.pos, op.lsn)
    <3>1. UNCHANGED <<mem, disk, pc>>
      BY <1>4, <2>3 DEF ReplayRecord
    <3> QED BY <2>1, <3>1
  <2> QED BY <2>2, <2>3
<1>5. CASE LoadFlush
  <2>1. pc = "replay" /\ pc' = "load_lsn" /\ mem' = mem /\ walFile' = walFile
    BY <1>5 DEF LoadFlush
  <2>2. IsDir(disk') /\ disk'.segments = disk.segments /\ disk'.wb_deleted = disk.wb_deleted
        /\ disk'.wb = mem.wb
    BY <1>5 DEF LoadFlush, IsDir
  <2> QED BY <2>1, <2>2
<1>6. CASE LoadWriteLsn
  <2>1. pc = "load_lsn" /\ pc' = "load_remove" /\ UNCHANGED <<mem, disk, walFile>>
        /\ lsn' = [lsn |-> 0, rows |-> row_count(mem)]
    BY <1>6 DEF LoadWriteLsn
  <2>2. lsn'.rows = row_count(mem) /\ row_count(mem)' = row_count(mem)
    BY <2>1 DEF row_count
  <2> QED BY <2>1, <2>2
<1> QED BY <1>1, <1>2, <1>3, <1>4, <1>5, <1>6

\* What LogDeletedWhenCovered says of one step.
Covered ==
  /\ disk.wb = mem.wb /\ disk.segments = mem.segments /\ disk.wb_deleted = mem.wb_deleted
  /\ lsn.rows = row_count(mem)

\* The two steps that delete the log.
LEMMA DeleteOnDisk ==
  ASSUME OnDisk, Checkpoint \/ LoadRemoveWal
  PROVE  OnDisk' /\ Covered
<1>1. /\ pc \in {"checkpoint", "load_remove"} /\ pc' = "idle"
      /\ UNCHANGED <<mem, disk, lsn>>
  BY DEF Checkpoint, LoadRemoveWal
<1> QED BY <1>1 DEF OnDisk, Covered

-----------------------------------------------------------------------------
\* Every step keeps OnDisk, and a step that takes the log away finds the table covered.
LEMMA NextOnDisk ==
  ASSUME OnDisk, [Next]_vars
  PROVE  OnDisk' /\ (walFile /\ ~walFile' => Covered)
<1>1. CASE \E rows \in Batches : InsertLog(rows)
  BY <1>1, BeginOnDisk DEF InsertLog
<1>2. CASE \E r \in Rows : DeleteLog(r)
  BY <1>2, BeginOnDisk DEF DeleteLog
<1>3. CASE \E r, s \in Rows : UpdateLog(r, s)
  BY <1>3, BeginOnDisk DEF UpdateLog
<1>4. CASE DeleteAllLog
  BY <1>4, BeginOnDisk DEF DeleteAllLog
<1>5. CASE FlushStart \/ VacuumStart
  BY <1>5, FlushOnDisk
<1>6. CASE Seal
  BY <1>6, SealOnDisk
<1>7. CASE Step
  BY <1>7, WriteOnDisk, FlushOnDisk, DeleteOnDisk DEF Step
<1>8. CASE Crash
  BY <1>8, LoadOnDisk
<1>9. CASE Load
  BY <1>9, LoadOnDisk, DeleteOnDisk DEF Load
<1>10. CASE UNCHANGED vars
  BY <1>10 DEF vars, OnDisk, row_count
<1> QED BY <1>1, <1>2, <1>3, <1>4, <1>5, <1>6, <1>7, <1>8, <1>9, <1>10 DEF Next

\* flush_all and Catalog::load delete wal.bin only when the table directory holds the
\* whole table and lsn.bin counts its rows.
THEOREM LogDeletion == Spec => LogDeletedWhenCovered
<1>1. OnDisk /\ [Next]_vars => OnDisk'
  BY NextOnDisk
<1>2. OnDisk /\ [Next]_vars =>
        [walFile /\ ~walFile' =>
           /\ disk.wb = mem.wb /\ disk.segments = mem.segments /\ disk.wb_deleted = mem.wb_deleted
           /\ lsn.rows = row_count(mem)]_vars
  BY NextOnDisk DEF Covered
<1> QED BY <1>1, <1>2, InitOnDisk, PTL DEF Spec, LogDeletedWhenCovered

\* While the process runs, the manifest on disk lists the segments of the table, in
\* every step of every statement and of recovery.
THEOREM DirectoryFollowsTable == Spec => []OnDisk
<1>1. OnDisk /\ [Next]_vars => OnDisk'
  BY NextOnDisk
<1> QED BY <1>1, InitOnDisk, PTL DEF Spec
=============================================================================
