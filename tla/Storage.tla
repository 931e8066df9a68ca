------------------------------ MODULE Storage ------------------------------
(***************************************************************************)
(* The write path and the recovery of one table: class Catalog             *)
(* (catalog/catalog.cpp) driving a Table, its unique B+ tree index, the    *)
(* write-ahead log wal.bin and the checkpoint file lsn.bin.                *)
(*                                                                         *)
(* Statements run one at a time, each as the sequence of steps that leave  *)
(* something on disk; a process crash (Crash) may fall between any two of  *)
(* them, in Catalog::load too.  What was written with write(2) survives a  *)
(* crash; what was only in memory does not.                                *)
(*                                                                         *)
(* Offsets into the log count records: the header takes one unit and       *)
(* record i starts at offset i.                                            *)
(***************************************************************************)
EXTENDS Table

CONSTANTS
  Rows,            \* the rows a client may insert; a row is its own index key
  MaxBatch,        \* rows of one INSERT
  Indexed,         \* does the table have a unique index?
  Statements,      \* the kinds of statement clients issue
  GateAnswers,     \* what compaction_gate_ may answer: TRUE is "safe to delete the log"
  WalCheckpointLen,\* the log length past which INSERT checkpoints (64 MB in the code)
  MaxStatements, MaxCrashes

ASSUME StorageAssumption ==
  /\ MaxBatch \in Nat \ {0}
  /\ Indexed \in BOOLEAN
  /\ Statements \subseteq {"insert", "delete", "delete_all", "update", "flush", "vacuum"}
  /\ GateAnswers \subseteq BOOLEAN /\ GateAnswers # {}
  /\ WalCheckpointLen \in Nat /\ MaxStatements \in Nat /\ MaxCrashes \in Nat

VARIABLES
  mem,       \* the Table object
  disk,      \* the table directory: manifest and segments, column files, deleted.bin
  lsn,       \* lsn.bin
  wal,       \* the records of wal.bin
  walFile,   \* does wal.bin exist?  While the process runs: is wal_ set?
  walHeader, \* does wal.bin have its header?
  idx,       \* the entries of the index
  idxDirty,  \* the dirty flag of its meta page
  pc, op,    \* the step the process is about to take, and the statement it belongs to
  nstmt, ncrash,
  \* History variables, read by the properties only:
  content,   \* how often each row was inserted and not deleted, by logged statements that
             \* passed the uniqueness check
  lsnFresh,  \* was lsn.bin written for the wal.bin that exists now?
  taint      \* which known gaps of the recovery scheme this behaviour has fallen into

vars == <<mem, disk, lsn, wal, walFile, walHeader, idx, idxDirty, pc, op, nstmt, ncrash,
          content, lsnFresh, taint>>
ghosts == <<content, lsnFresh, taint>>

(***************************************************************************)
(* The records of the log.  "ok" is not in the file: it remembers whether  *)
(* the statement was accepted.                                             *)
(***************************************************************************)
log_create_table == [type |-> "create_table"]
log_insert(rows, ok) == [type |-> "insert", rows |-> rows, ok |-> ok]
log_delete(gids) == [type |-> "delete", gids |-> gids]
log_update(gids, rows) == [type |-> "update", gids |-> gids, rows |-> rows, ok |-> TRUE]
log_segment_flush(sealed) == [type |-> "segment_flush", sealed |-> sealed]

\* What read_all decodes.
CreateRecords == [type : {"create_table"}]
InsertRecords == [type : {"insert"}, rows : Seq(Rows), ok : BOOLEAN]
DeleteRecords == [type : {"delete"}, gids : SUBSET Nat]
UpdateRecords == [type : {"update"}, gids : SUBSET Nat, rows : Seq(Rows), ok : BOOLEAN]
SegmentFlushRecords == [type : {"segment_flush"}, sealed : Nat]

Records ==
  CreateRecords \cup InsertRecords \cup DeleteRecords \cup UpdateRecords \cup SegmentFlushRecords

Batches == UNION {[1 .. n -> Rows] : n \in 1 .. MaxBatch}

NoOp == [kind |-> "none", rows |-> <<>>, gids |-> {}, first |-> 0, pos |-> 0,
         lsn |-> 0, sealed |-> FALSE]

offset == IF walFile THEN Len(wal) + 1 ELSE 0

Taints == {"stale_lsn", "unlogged_seal", "torn_seal", "rejected_insert", "moved_base",
           "late_crash", "unindexed_replay", "late_duplicate", "moved_rows",
           "torn_bitmap", "torn_lsn", "torn_header"}

\* The state CREATE TABLE leaves: its record is in the log, the files are empty.
Init ==
  /\ mem = EmptyTable
  /\ disk = [segments |-> <<>>, wb |-> <<>>, wb_deleted |-> {}, cols |-> TRUE, leftover |-> {}]
  /\ lsn = [lsn |-> 0, rows |-> 0]
  /\ wal = <<log_create_table>> /\ walFile = TRUE /\ walHeader = TRUE
  /\ idx = {} /\ idxDirty = FALSE
  /\ pc = "idle" /\ op = NoOp /\ nstmt = 0 /\ ncrash = 0
  /\ content = [r \in Rows |-> 0] /\ lsnFresh = TRUE /\ taint = {}

(***************************************************************************)
(* The log                                                                 *)
(***************************************************************************)

\* ensure_wal_ and write_record: the record is synced before the call returns.
Log(rec) == wal' = Append(wal, rec) /\ walFile' = TRUE /\ walHeader' = TRUE

\* Starts a statement: its record goes to the log first.
Begin(kind, rec, next, o) ==
  /\ pc = "idle" /\ kind \in Statements /\ nstmt < MaxStatements
  /\ nstmt' = nstmt + 1
  /\ Log(rec)
  /\ op' = o /\ pc' = next
  /\ UNCHANGED <<mem, disk, lsn, idx, idxDirty, ncrash, lsnFresh, taint>>

(***************************************************************************)
(* INSERT                                                                  *)
(***************************************************************************)

\* Mutant: the check does not ask whether the row of an entry is deleted.
unique_violation_IgnoringDeletes(rows) ==
  Indexed /\ \E i \in DOMAIN rows : \E e \in idx : e.key = rows[i]

\* The uniqueness check of Catalog::insert: an index entry of the key whose row
\* is not marked deleted.  Rows of the same batch are not compared.
unique_violation(rows) ==
  /\ Indexed
  /\ \E i \in DOMAIN rows : \E e \in idx : e.key = rows[i] /\ ~is_row_deleted(mem, e.gid)

CountIn(rows, r) == Cardinality({i \in DOMAIN rows : rows[i] = r})

\* The record is logged before the check.
InsertLog(rows) ==
  LET ok == ~unique_violation(rows)
  IN  /\ Begin("insert", log_insert(rows, ok), "check",
               [NoOp EXCEPT !.kind = "insert", !.rows = rows])
      /\ content' = IF ok THEN [r \in Rows |-> content[r] + CountIn(rows, r)] ELSE content

InsertCheck ==
  /\ pc = "check"
  /\ IF unique_violation(op.rows)
     THEN pc' = "idle" /\ op' = NoOp
     ELSE pc' = "apply" /\ op' = op
  /\ UNCHANGED <<mem, disk, lsn, wal, walFile, walHeader, idx, idxDirty, nstmt, ncrash, ghosts>>

\* insert_many, and update_rows with its deletions, up to maybe_flush_.  Bitmaps
\* are written when they change; column pages when they fill up.
Applied(t, gids, rows) == append_bulk(mark_deleted(t, gids), rows)

\* t, as its directory holds it when its columns have not been flushed.
Unflushed(d, t) ==
  [d EXCEPT !.segments = t.segments, !.wb_deleted = t.wb_deleted, !.wb = WrittenRows(@, t.wb)]

\* Mutant: the first row id is read after the rows were appended.
ApplyRows_FirstIdLate ==
  /\ pc = "apply"
  /\ mem' = Applied(mem, op.gids, op.rows)
  /\ disk' = Unflushed(disk, mem')
  /\ op' = [op EXCEPT !.first = row_count(mem')]
  /\ pc' = IF NeedsFlush(mem') THEN "seal" ELSE "index"
  /\ UNCHANGED <<lsn, wal, walFile, walHeader, idx, idxDirty, nstmt, ncrash, ghosts>>

ApplyRows ==
  /\ pc = "apply"
  /\ mem' = Applied(mem, op.gids, op.rows)
  /\ disk' = Unflushed(disk, mem')
  /\ op' = [op EXCEPT !.first = row_count(mem)]
  /\ pc' = IF NeedsFlush(mem') THEN "seal" ELSE "index"
  /\ UNCHANGED <<lsn, wal, walFile, walHeader, idx, idxDirty, nstmt, ncrash, ghosts>>

(***************************************************************************)
(* flush_write_buffer_, in the order it touches the directory              *)
(***************************************************************************)

\* The column files, then deleted.bin, move to seg_<next id>.
SealRename ==
  /\ pc = "seal"
  /\ disk' = [disk EXCEPT !.wb = <<>>, !.cols = FALSE, !.wb_deleted = {},
                          !.leftover = IF mem.wb_deleted = {} THEN @ ELSE mem.wb_deleted]
  /\ pc' = "seal_create"
  /\ UNCHANGED <<mem, lsn, wal, walFile, walHeader, idx, idxDirty, op, nstmt, ncrash, ghosts>>

\* meta.bin of the segment, then the new, empty column files.
SealCreate ==
  /\ pc = "seal_create"
  /\ disk' = [disk EXCEPT !.cols = TRUE]
  /\ pc' = "seal_manifest"
  /\ UNCHANGED <<mem, lsn, wal, walFile, walHeader, idx, idxDirty, op, nstmt, ncrash, ghosts>>

\* The manifest is replaced by a rename: it lists the segment from here on.
SealManifest ==
  /\ pc = "seal_manifest"
  /\ mem' = flush_write_buffer(mem, disk.leftover)
  /\ disk' = [disk EXCEPT !.segments = mem'.segments, !.leftover = {}]
  /\ op' = [op EXCEPT !.sealed = TRUE]
  /\ pc' = CASE op.kind = "vacuum" -> "vacuum"
             [] op.kind = "replay" -> "replay"
             [] OTHER -> "sealed"
  /\ UNCHANGED <<lsn, wal, walFile, walHeader, idx, idxDirty, nstmt, ncrash, ghosts>>

\* Mutant: the segment_flush record is left out.
LogSegmentFlush_Skipped ==
  /\ pc = "sealed"
  /\ pc' = "index"
  /\ UNCHANGED <<mem, disk, lsn, wal, walFile, walHeader, idx, idxDirty, op, nstmt, ncrash, ghosts>>

\* INSERT and UPDATE log that their rows were sealed.
LogSegmentFlush ==
  /\ pc = "sealed"
  /\ Log(log_segment_flush(mem.wb_base))
  /\ pc' = "index"
  /\ UNCHANGED <<mem, disk, lsn, idx, idxDirty, op, nstmt, ncrash, ghosts>>

(***************************************************************************)
(* Index maintenance, the last part of INSERT and UPDATE                   *)
(***************************************************************************)

\* Mutant: the index accepts a key it has.
Refused_Never(rows, i) == FALSE

\* BTreeIndex::insert refuses a key equal to the entry before its slot, whether
\* or not that entry's row is deleted; the entries of this model share one leaf.
\* Entries are added up to the first refusal.
Refused(rows, i) ==
  (\E e \in idx : e.key = rows[i]) \/ (\E j \in 1 .. i - 1 : rows[j] = rows[i])

Accepted(rows) == {i \in DOMAIN rows : \A j \in 1 .. i : ~Refused(rows, j)}

IndexRows ==
  LET rows == op.rows
      failed == Indexed /\ Accepted(rows) # DOMAIN rows
  IN  /\ pc = "index"
      /\ idx' = IF Indexed
                THEN idx \cup {[key |-> rows[i], gid |-> op.first + i - 1] : i \in Accepted(rows)}
                ELSE idx
      /\ idxDirty' = (idxDirty \/ Indexed)
      /\ pc' = IF op.kind = "insert" /\ ~failed /\ offset > WalCheckpointLen
               THEN "flush" ELSE "idle"
      /\ op' = IF pc' = "idle" THEN NoOp ELSE op
      /\ taint' = taint \cup (IF failed THEN {"late_duplicate"} ELSE {})
      /\ UNCHANGED <<mem, disk, lsn, wal, walFile, walHeader, nstmt, ncrash, content, lsnFresh>>

\* Mutant: deleted rows are not dropped.
IndexLookup_KeepingDeleted(r) == {e.gid : e \in {x \in idx : x.key = r}}

\* IndexScan::open looks the row ids of a key up in the index and drops those the
\* write buffer's bitmap has set; next() then reads them as rows of the buffer.
IndexLookup(r) == {e.gid : e \in {x \in idx : x.key = r /\ x.gid \notin mem.wb_deleted}}

(***************************************************************************)
(* DELETE and UPDATE                                                       *)
(***************************************************************************)
DeleteLog(r) ==
  LET gids == Matching(mem, r)
  IN  /\ gids # {}
      /\ Begin("delete", log_delete(gids), "mark",
               [NoOp EXCEPT !.kind = "delete", !.gids = gids])
      /\ content' = [content EXCEPT ![r] = 0]

\* DELETE without WHERE lists every row id up to row_count, dead ones included.
DeleteAllLog ==
  LET gids == 0 .. row_count(mem) - 1
  IN  /\ gids # {}
      /\ Begin("delete_all", log_delete(gids), "mark",
               [NoOp EXCEPT !.kind = "delete", !.gids = gids])
      /\ content' = [r \in Rows |-> 0]

MarkRows ==
  /\ pc = "mark"
  /\ mem' = mark_deleted(mem, op.gids)
  /\ disk' = Unflushed(disk, mem')
  /\ pc' = "idle" /\ op' = NoOp
  /\ UNCHANGED <<lsn, wal, walFile, walHeader, idx, idxDirty, nstmt, ncrash, ghosts>>

\* UPDATE SET row = s WHERE row = r: deletions and insertions in one record, and
\* no uniqueness check.
UpdateLog(r, s) ==
  LET gids == Matching(mem, r)
      rows == [i \in 1 .. Cardinality(gids) |-> s]
  IN  /\ gids # {}
      /\ Begin("update", log_update(gids, rows), "apply",
               [NoOp EXCEPT !.kind = "update", !.gids = gids, !.rows = rows])
      /\ content' = [content EXCEPT ![r] = 0, ![s] = @ + content[r]]

(***************************************************************************)
(* flush_all: a clean shutdown, the end of VACUUM, an INSERT that finds    *)
(* the log too long                                                        *)
(***************************************************************************)
FlushStart ==
  /\ pc = "idle" /\ "flush" \in Statements /\ nstmt < MaxStatements
  /\ nstmt' = nstmt + 1
  /\ op' = [NoOp EXCEPT !.kind = "flush"] /\ pc' = "flush"
  /\ UNCHANGED <<mem, disk, lsn, wal, walFile, walHeader, idx, idxDirty, ncrash, ghosts>>

\* Mutant: the columns are not flushed.
FlushTables_Skipped ==
  /\ pc = "flush"
  /\ pc' = "flush_indexes"
  /\ UNCHANGED <<mem, disk, lsn, wal, walFile, walHeader, idx, idxDirty, op, nstmt, ncrash, ghosts>>

FlushTables ==
  /\ pc = "flush"
  /\ disk' = [disk EXCEPT !.wb = mem.wb]
  /\ pc' = "flush_indexes"
  /\ UNCHANGED <<mem, lsn, wal, walFile, walHeader, idx, idxDirty, op, nstmt, ncrash, ghosts>>

FlushIndexes ==
  /\ pc = "flush_indexes"
  /\ idxDirty' = FALSE
  /\ pc' = "write_lsn"
  /\ UNCHANGED <<mem, disk, lsn, wal, walFile, walHeader, idx, op, nstmt, ncrash, ghosts>>

WriteLsn ==
  /\ pc = "write_lsn"
  /\ lsn' = [lsn |-> offset, rows |-> row_count(mem)]
  /\ lsnFresh' = TRUE
  /\ pc' = "checkpoint"
  /\ UNCHANGED <<mem, disk, wal, walFile, walHeader, idx, idxDirty, op, nstmt, ncrash, content, taint>>

\* The log is deleted when the gate allows; lsn.bin keeps the offset it had.
Checkpoint ==
  /\ pc = "checkpoint"
  /\ \E safe \in GateAnswers :
       IF walFile /\ safe
       THEN wal' = <<>> /\ walFile' = FALSE /\ walHeader' = FALSE /\ lsnFresh' = (lsn.lsn = 0)
       ELSE UNCHANGED <<wal, walFile, walHeader, lsnFresh>>
  /\ pc' = "idle" /\ op' = NoOp
  /\ UNCHANGED <<mem, disk, lsn, idx, idxDirty, nstmt, ncrash, content, taint>>

(***************************************************************************)
(* VACUUM: seal, rewrite the segments, flush_all                           *)
(***************************************************************************)
VacuumStart ==
  /\ pc = "idle" /\ "vacuum" \in Statements /\ nstmt < MaxStatements
  /\ nstmt' = nstmt + 1
  /\ op' = [NoOp EXCEPT !.kind = "vacuum"]
  /\ pc' = IF mem.wb = <<>> THEN "vacuum" ELSE "seal"
  /\ UNCHANGED <<mem, disk, lsn, wal, walFile, walHeader, idx, idxDirty, ncrash, ghosts>>

\* The merged segment takes the place of the others with the manifest's rename.
VacuumSegments ==
  /\ pc = "vacuum"
  /\ mem' = vacuum_table(mem)
  /\ disk' = [disk EXCEPT !.segments = mem'.segments]
  /\ op' = [op EXCEPT !.sealed = @ \/ mem' # mem]
  /\ taint' = taint \cup (IF mem' # mem /\ idx # {} THEN {"moved_rows"} ELSE {})
  /\ pc' = "flush"
  /\ UNCHANGED <<lsn, wal, walFile, walHeader, idx, idxDirty, nstmt, ncrash, content, lsnFresh>>

(***************************************************************************)
(* Crash, and Catalog::load at the next start                              *)
(***************************************************************************)

\* The gaps a crash at this point falls into:
\*  - the manifest lists rows that the log still holds in front of no
\*    segment_flush record: replay appends them again;
\*  - a seal that has moved rows lsn.bin counts on out of the write buffer, and
\*    has not listed them;
\*  - the write buffer's base is not the number of sealed rows;
\*  - the log was replayed and lsn.bin rewritten, but the log is still there;
\*  - the statement's rows are logged and the index would have refused one.
CrashTaints ==
  {x \in Taints :
     \/ x = "unlogged_seal" /\ op.sealed /\ pc \notin {"index", "checkpoint", "load_remove"}
                            /\ ~(op.kind = "insert" /\ pc \in {"flush", "flush_indexes", "write_lsn"})
     \/ x = "torn_seal" /\ \/ pc = "seal_create"
                           \/ pc = "seal_manifest" /\ lsn.rows > mem.wb_base
     \/ x = "moved_base" /\ mem.wb_base # SealedRows(mem.segments)
     \/ x = "late_crash" /\ pc = "load_remove"
     \/ x = "late_duplicate" /\ Indexed /\ Accepted(op.rows) # DOMAIN op.rows
                             /\ pc \notin {"flush", "flush_indexes", "write_lsn", "checkpoint"}}

\* The records load replays for a checkpoint at offset o.
Replayed(i, o) == wal[i].type \in {"insert", "update", "delete"} /\ i >= o

\* The row ids whose bits the next step sets.
PendingMarks ==
  IF pc \in {"mark", "apply"} THEN op.gids
  ELSE IF pc = "replay" /\ op.pos <= Len(wal) /\ wal[op.pos].type \in {"delete", "update"}
            /\ Replayed(op.pos, op.lsn)
       THEN wal[op.pos].gids
       ELSE {}

\* What a crash leaves of the bitmap files while they are brought to those of the
\* table t.  They are rewritten in place, the write buffer's (0) first, then each
\* segment's; the file c the crash interrupts still has its bits or, opened with
\* O_TRUNC, none.
CutAt(t, c, torn) ==
  [disk EXCEPT
     !.wb_deleted = IF c > 0 THEN t.wb_deleted ELSE IF torn THEN {} ELSE @,
     !.segments = [i \in DOMAIN @ |->
        IF i < c THEN t.segments[i]
        ELSE IF i = c /\ torn THEN [@[i] EXCEPT !.deleted = {}] ELSE @[i]]]

CutBitmaps(gids) ==
  LET touched == {IF g >= mem.wb_base THEN 0 ELSE SegmentFor(mem.segments, g) : g \in gids}
  IN  {CutAt(mark_deleted(mem, gids), c, torn) :
         c \in touched \cap (0 .. Len(mem.segments)), torn \in BOOLEAN}

BitsOf(d) == {<<0, l>> : l \in d.wb_deleted}
  \cup UNION {{<<i, l>> : l \in d.segments[i].deleted} : i \in DOMAIN d.segments}

\* Gaps a crash falls into because it interrupts a write: bits, the checkpoint or
\* the header of a new log are missing afterwards.
TornTaints ==
  {x \in Taints :
     \/ x = "torn_bitmap" /\ ~(BitsOf(disk) \subseteq BitsOf(disk'))
     \/ x = "torn_lsn" /\ lsn' # lsn
     \/ x = "torn_header" /\ walFile' /\ ~walHeader'}

\* A crash while a record is being written leaves the log without it, or a new log
\* with or without its header: the reader stops at a torn tail.  lsn.bin is
\* rewritten in place too, and read as zeros if it is empty.
Crash ==
  /\ pc \notin {"down", "failed"} /\ ncrash < MaxCrashes
  /\ ncrash' = ncrash + 1
  /\ mem' = EmptyTable /\ op' = NoOp /\ pc' = "down"
  /\ disk' \in {disk} \cup CutBitmaps(PendingMarks)
  /\ lsn' \in {lsn} \cup IF pc \in {"write_lsn", "load_lsn"} THEN {[lsn |-> 0, rows |-> 0]} ELSE {}
  /\ walFile' \in IF pc = "idle" THEN {walFile, TRUE} ELSE {walFile}
  /\ walHeader' \in IF walFile' /\ ~walFile THEN BOOLEAN ELSE {walHeader}
  /\ taint' = taint \cup CrashTaints \cup TornTaints
  /\ UNCHANGED <<wal, idx, idxDirty, nstmt, content, lsnFresh>>

\* rebuild_index_ scans the table as it was opened.
Rebuilt(t) == {[key |-> x.row, gid |-> x.gid] : x \in Scan(t)}

LoadOpen ==
  /\ pc = "down"
  /\ IF disk.cols
     THEN /\ mem' = open_table(disk.segments, disk.wb, disk.wb_deleted)
          /\ idx' = IF idxDirty THEN Rebuilt(mem') ELSE idx
          /\ idxDirty' = FALSE
          /\ pc' = IF ~walFile THEN "idle" ELSE IF walHeader THEN "truncate" ELSE "failed"
     ELSE pc' = "failed" /\ UNCHANGED <<mem, idx, idxDirty>>
  /\ UNCHANGED <<disk, lsn, wal, walFile, walHeader, op, nstmt, ncrash, ghosts>>

\* The checkpoint in force: lsn.bin, or the last segment_flush record behind it.
FlushRecords == {i \in DOMAIN wal : wal[i].type = "segment_flush" /\ i > lsn.lsn}

LoadCheckpoint ==
  IF FlushRecords = {}
  THEN lsn
  ELSE LET last == CHOOSE i \in FlushRecords : \A j \in FlushRecords : j <= i
       IN  [lsn |-> last, rows |-> wal[last].sealed]

ReplayTaints(o) ==
  {x \in Taints :
     \/ x = "stale_lsn" /\ ~lsnFresh
     \/ x = "rejected_insert" /\ \E i \in DOMAIN wal :
                                   Replayed(i, o) /\ wal[i].type = "insert" /\ ~wal[i].ok
     \/ x = "unindexed_replay" /\ Indexed /\ \E i \in DOMAIN wal :
                                   Replayed(i, o) /\ wal[i].type # "delete"}

LoadTruncate ==
  LET cp == LoadCheckpoint
  IN  /\ pc = "truncate"
      /\ taint' = taint \cup ReplayTaints(cp.lsn)
      /\ IF CanTruncate(mem, cp.rows)
         THEN /\ mem' = truncate(mem, cp.rows)
              /\ disk' = [disk EXCEPT !.wb = mem'.wb]
              /\ op' = [NoOp EXCEPT !.kind = "replay", !.pos = 1, !.lsn = cp.lsn]
              /\ pc' = "replay"
         ELSE pc' = "failed" /\ UNCHANGED <<mem, disk, op>>
      /\ UNCHANGED <<lsn, wal, walFile, walHeader, idx, idxDirty, nstmt, ncrash, content, lsnFresh>>

\* The table a replayed record leaves, before maybe_flush_.
Replay(t, rec) ==
  CASE rec.type = "insert" -> append_bulk(t, rec.rows)
    [] rec.type = "update" -> Applied(t, rec.gids, rec.rows)
    [] rec.type = "delete" -> mark_deleted(t, rec.gids)

\* Mutant: the replay does not move on past a record it skips.
ReplayRecord_Stuck ==
  /\ pc = "replay" /\ op.pos <= Len(wal)
  /\ IF Replayed(op.pos, op.lsn)
     THEN /\ mem' = Replay(mem, wal[op.pos])
          /\ disk' = Unflushed(disk, mem')
          /\ op' = [op EXCEPT !.pos = @ + 1]
          /\ pc' = IF wal[op.pos].type # "delete" /\ NeedsFlush(mem') THEN "seal" ELSE "replay"
     ELSE UNCHANGED <<mem, disk, pc, op>>
  /\ UNCHANGED <<lsn, wal, walFile, walHeader, idx, idxDirty, nstmt, ncrash, ghosts>>

ReplayRecord ==
  /\ pc = "replay" /\ op.pos <= Len(wal)
  /\ op' = [op EXCEPT !.pos = @ + 1]
  /\ IF Replayed(op.pos, op.lsn)
     THEN /\ mem' = Replay(mem, wal[op.pos])
          /\ disk' = Unflushed(disk, mem')
          /\ pc' = IF wal[op.pos].type # "delete" /\ NeedsFlush(mem') THEN "seal" ELSE "replay"
     ELSE UNCHANGED <<mem, disk, pc>>
  /\ UNCHANGED <<lsn, wal, walFile, walHeader, idx, idxDirty, nstmt, ncrash, ghosts>>

LoadFlush ==
  /\ pc = "replay" /\ op.pos > Len(wal)
  /\ disk' = [disk EXCEPT !.wb = mem.wb]
  /\ pc' = "load_lsn"
  /\ UNCHANGED <<mem, lsn, wal, walFile, walHeader, idx, idxDirty, op, nstmt, ncrash, ghosts>>

LoadWriteLsn ==
  /\ pc = "load_lsn"
  /\ lsn' = [lsn |-> 0, rows |-> row_count(mem)]
  /\ lsnFresh' = TRUE
  /\ pc' = "load_remove"
  /\ UNCHANGED <<mem, disk, wal, walFile, walHeader, idx, idxDirty, op, nstmt, ncrash, content, taint>>

LoadRemoveWal ==
  /\ pc = "load_remove"
  /\ wal' = <<>> /\ walFile' = FALSE /\ walHeader' = FALSE
  /\ pc' = "idle" /\ op' = NoOp
  /\ UNCHANGED <<mem, disk, lsn, idx, idxDirty, nstmt, ncrash, ghosts>>

Load == LoadOpen \/ LoadTruncate \/ ReplayRecord \/ LoadFlush \/ LoadWriteLsn \/ LoadRemoveWal
Seal == SealRename \/ SealCreate \/ SealManifest
Step == InsertCheck \/ ApplyRows \/ LogSegmentFlush \/ IndexRows \/ MarkRows
          \/ FlushTables \/ FlushIndexes \/ WriteLsn \/ Checkpoint \/ VacuumSegments

Next ==
  \/ \E rows \in Batches : InsertLog(rows)
  \/ \E r \in Rows : DeleteLog(r)
  \/ \E r, s \in Rows : UpdateLog(r, s)
  \/ DeleteAllLog
  \/ FlushStart
  \/ VacuumStart
  \/ Seal
  \/ Step
  \/ Crash
  \/ Load

\* Once started, a statement or a load runs on: the process takes its next step.
Spec == Init /\ [][Next]_vars /\ WF_vars(Seal \/ Step \/ Load)

(***************************************************************************)
(* Properties                                                              *)
(***************************************************************************)
\* The type invariant.  It also says that wal.bin has records only if it exists,
\* and that no column file is missing outside a seal or a failed start.
TypeOK ==
  /\ mem \in TablesOf(Rows)
  /\ disk \in [segments : Seq(SegmentsOf(Rows)), wb : Seq(Rows), wb_deleted : SUBSET Nat,
               cols : BOOLEAN, leftover : SUBSET Nat]
  /\ lsn \in [lsn : Nat, rows : Nat]
  /\ wal \in Seq(Records) /\ walFile \in BOOLEAN /\ walHeader \in BOOLEAN
  /\ idx \subseteq [key : Rows, gid : Nat] /\ idxDirty \in BOOLEAN
  /\ op.rows \in Seq(Rows) /\ op.gids \subseteq Nat /\ op.first \in Nat
  /\ nstmt \in Nat /\ ncrash \in Nat
  /\ content \in [Rows -> Nat] /\ lsnFresh \in BOOLEAN /\ taint \subseteq Taints
  /\ (wal # <<>> => walHeader) /\ (walHeader => walFile)
  /\ ~disk.cols => pc \in {"seal_create", "down", "failed"}

Exact == \A r \in Rows : Visible(mem, r) = content[r]

\* Between statements, and so after every recovery, a scan sees exactly the rows
\* of the logged statements that passed the uniqueness check (the table keeps
\* their rows even when the index then refuses one and the statement reports an
\* error), each as often as it was inserted, unless the behaviour has met one of
\* the gaps of the recovery scheme that taint names.
RecoveryExact ==
  pc = "idle" /\ taint \subseteq {"unindexed_replay", "late_duplicate", "moved_rows"} => Exact

\* A start fails only if the crash before it tore a seal or the header of a new log
\* apart, or if VACUUM had left a row count in lsn.bin that the write buffer does
\* not reach.
StartFailsOnlyTorn ==
  pc = "failed" => taint \cap {"torn_seal", "torn_header", "moved_base"} # {}

\* The uniqueness check of INSERT rejects a batch exactly when one of its rows
\* is live in the table, as long as the index has missed no change.
CheckDecidesUniqueness ==
  pc = "check" /\ Indexed /\ taint = {} =>
    (unique_violation(op.rows) <=> \E i \in DOMAIN op.rows : Visible(mem, op.rows[i]) > 0)

\* No two live rows share a key between statements, as long as the index has
\* missed no change and refused no entry of a row already in the table.
UniqueUntainted == pc = "idle" /\ Indexed /\ taint = {} => \A r \in Rows : Visible(mem, r) <= 1

\* Between statements the index has an entry for each live row, and the entries
\* whose row is not deleted are those of live rows.
IndexExact ==
  pc = "idle" /\ Indexed /\ taint = {} =>
    Rebuilt(mem) = {e \in idx : ~is_row_deleted(mem, e.gid)}

ScanReads(r) ==
  /\ IndexLookup(r) = Matching(mem, r)
  /\ \A g \in IndexLookup(r) : g \in Locals(mem.wb) /\ mem.wb[g + 1] = r

\* While the table has no segment, an index scan for a key finds the live rows
\* with that key and reads that key from the column files.
IndexScanExact ==
  pc = "idle" /\ Indexed /\ taint = {} /\ mem.segments = <<>> => \A r \in Rows : ScanReads(r)

\* The log is deleted only when the directory holds all the table's rows and
\* lsn.bin counts them: nothing is left that only the log could restore.
LogDeletedWhenCovered ==
  [][walFile /\ ~walFile' =>
       /\ disk.wb = mem.wb /\ disk.segments = mem.segments /\ disk.wb_deleted = mem.wb_deleted
       /\ lsn.rows = row_count(mem)]_vars

\* A statement or a start never hangs: the process comes back to accepting
\* statements or gives up with an error, over and over.
AlwaysReturns == []<>(pc \in {"idle", "failed"})

(***************************************************************************)
(* What the documentation promises without exceptions                      *)
(***************************************************************************)

\* README: the log is "replayed on startup for crash recovery": after a start
\* the table holds exactly the rows of the accepted statements.
Durable == pc = "idle" => Exact

\* README, "Recovery": after a crash the database starts again.
StartsAgain == pc # "failed"

\* README: indexes provide "unique enforcement".
UniqueKeys == pc = "idle" /\ Indexed => \A r \in Rows : Visible(mem, r) <= 1

\* README: indexes provide "point lookup and range scan".
PointLookup == pc = "idle" /\ Indexed => \A r \in Rows : ScanReads(r)

=============================================================================
