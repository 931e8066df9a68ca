----------------------------- MODULE Replication -----------------------------
(***************************************************************************)
(* One leader and its followers.  The leader appends every write to        *)
(* wal.bin; each follower's WalConsumer polls for the bytes after its      *)
(* confirmed offset, applies the records it can read and acknowledges.  A  *)
(* follower whose offset is 0 or lies beyond the end of the log is told    *)
(* that it is stale and copies the leader's files.  The leader may delete  *)
(* the log once every follower it knows of has confirmed all of it.        *)
(*                                                                         *)
(* Writes are INSERTs of one row, numbered 1, 2, ... in the order they are *)
(* logged.  A record is its row's number, which is also the row's key; an  *)
(* INSERT that repeats key k is -k, and a SegmentFlush record is 0.  The   *)
(* unique index, which rejects -k once it is logged, is made by CREATE     *)
(* INDEX at some point and reaches followers by snapshot only.  Offsets    *)
(* are counted in units: the log's header is one unit and a record is two, *)
(* so that a batch may end inside a record.  What else a restart of the    *)
(* leader may lose or repeat is the subject of Storage.                    *)
(*                                                                         *)
(* gap[f] names what has separated f's contents from the leader's since    *)
(* f's last snapshot: a ghost, read by no action.                          *)
(***************************************************************************)
EXTENDS Integers, Sequences, SequencesExt, FiniteSets

CONSTANTS
  Followers,
  MaxWrites,  \* bound: writes to the leader
  MaxBatch,   \* get_batch's max_bytes, in units
  MaxApplied, \* bound: records a follower holds, repeated ones included
  MaxLag,     \* max_wal_lag_bytes, in units
  Limit       \* bounds: flushes; rejected INSERTs; and restarts, crashes, timeouts,
              \* snapshots given up and lost streams

ASSUME ReplicationAssumption ==
  /\ MaxWrites \in Nat /\ MaxBatch \in Nat \ {0} /\ MaxLag \in Nat /\ MaxApplied \in Nat
  /\ Limit \in [{"flush", "reject", "fault"} -> Nat]

VARIABLES
  n,          \* INSERTs the leader has accepted
  files,      \* its table: all rows, how many of them are in segments, and how many in
              \* any file; and does it have its index
  wal,        \* wal.bin: does it exist, its records, and how many a start would skip
  base,       \* the rows when this log was started (ghost)
  epoch,      \* how many logs were deleted before this one (ghost)
  registry,   \* FollowerRegistry: confirmed offset, or NotLive
  conn,       \* is the follower's stream to the leader alive
  toLeader, toFollower,  \* frames under way; the latter includes resp_queue_
  snap,       \* the SnapshotSender answering this follower
  fol,        \* each WalConsumer and the contents of its database
  gap, left

leader == <<n, files, wal, base, epoch>>
frames == <<conn, toLeader, toFollower>>
vars == <<leader, registry, frames, snap, fol, gap, left>>

NotLive == -1
MaxFrames == 4  \* bound: frames that may arrive after a stream is lost
NoSnap == [step |-> "none", lsn |-> 0, epoch |-> 0, rows |-> <<>>, listed |-> 0, todo |-> {}]
Header == 1
Start == [lsn |-> 0, epoch |-> 0]
Unknown == [lsn |-> NotLive, epoch |-> 0]
All(k) == [i \in 1..k |-> i]
Size == IF wal.open THEN Header + 2 * Len(wal.recs) ELSE 0
Spend(what) == left[what] > 0 /\ left' = [left EXCEPT ![what] = @ - 1]

-----------------------------------------------------------------------------
(* The leader's log and files.                                             *)

Key(r) == IF r < 0 THEN -r ELSE r
Inserted(recs) == SelectSeq(recs, LAMBDA r : r # 0)
Logged(recs) == [wal EXCEPT !.open = TRUE, !.recs = @ \o recs]

\* Catalog::insert: the record is logged, the first one after a deletion starting a
\* new log; a write that fills the buffer seals it and logs the seal.
Write(seal) ==
  LET rows == Append(files.rows, n + 1)
  IN  /\ n < MaxWrites
      /\ n' = n + 1
      /\ IF seal
           THEN /\ files' = [files EXCEPT !.rows = rows, !.segs = Len(rows), !.kept = Len(rows)]
                /\ wal' = [Logged(<<n + 1, 0>>) EXCEPT !.skip = Len(wal.recs) + 2]
           ELSE files' = [files EXCEPT !.rows = rows] /\ wal' = Logged(<<n + 1>>)
      /\ UNCHANGED <<base, epoch, registry, frames, snap, fol, gap, left>>

\* The same, rejected by the uniqueness check behind the logging.
Reject(k) ==
  /\ files.index /\ k \in {Key(r) : r \in Range(files.rows)} /\ Spend("reject")
  /\ wal' = Logged(<<-k>>)
  /\ UNCHANGED <<n, files, base, epoch, registry, frames, snap, fol, gap>>

\* CREATE UNIQUE INDEX: Catalog::add_index logs nothing.
CreateIndex ==
  /\ ~files.index
  /\ files' = [files EXCEPT !.index = TRUE]
  /\ UNCHANGED <<n, wal, base, epoch, registry, frames, snap, fol, gap, left>>

DropLog ==
  /\ wal' = [open |-> FALSE, recs |-> <<>>, skip |-> 0]
  /\ epoch' = epoch + 1
  /\ base' = files'.rows

\* Mutant: flush_all asks no gate.
Safe_Always == TRUE

\* safe_compaction_lsn over min_confirmed_lsn: stale followers do not count,
\* and with no follower left every offset is safe.
Safe == \A f \in Followers : registry[f].lsn # NotLive => Size <= registry[f].lsn

\* flush_all: the buffers are written out and lsn.bin records it; then the log is
\* deleted if the gate allows it.
FlushAll ==
  /\ files' = [files EXCEPT !.kept = Len(files.rows)]
  /\ IF wal.open /\ Safe THEN DropLog
     ELSE wal' = [wal EXCEPT !.skip = Len(wal.recs)] /\ UNCHANGED <<base, epoch>>
  /\ UNCHANGED n

Flush ==
  /\ Spend("flush")
  /\ FlushAll
  /\ UNCHANGED <<registry, frames, snap, fol, gap>>

\* The streams of the followers in F are lost: what was not yet sent is gone,
\* of the frames on their way a prefix still arrives.
Lose(F) ==
  /\ conn' = [f \in Followers |-> IF f \in F THEN FALSE ELSE conn[f]]
  /\ toLeader' = [f \in Followers |-> IF f \in F THEN <<>> ELSE toLeader[f]]
  /\ snap' = [f \in Followers |-> IF f \in F THEN NoSnap ELSE snap[f]]
  /\ \E k \in [F -> 0..MaxFrames] :
       toFollower' = [f \in Followers |-> IF f \in F /\ k[f] < Len(toFollower[f])
                        THEN SubSeq(toFollower[f], 1, k[f]) ELSE toFollower[f]]

\* The leader stops and starts again: load replays the log behind its checkpoint,
\* rejected records included, flushes and removes it, asking no gate; the registry
\* was in memory only.
LeaderRestart ==
  /\ Spend("fault")
  /\ LET behind == SubSeq(wal.recs, wal.skip + 1, Len(wal.recs))
         rows == SubSeq(files.rows, 1, files.kept) \o Inserted(behind)
     IN  files' = [files EXCEPT !.rows = rows, !.kept = Len(rows)]
  /\ IF wal.open THEN DropLog ELSE UNCHANGED <<wal, base, epoch>>
  /\ registry' = [f \in Followers |-> Unknown]
  /\ Lose(Followers)
  /\ UNCHANGED <<n, fol, gap>>

-----------------------------------------------------------------------------
(* The leader answers one frame: handle_repl_frame.                        *)

Request(f) == Head(toLeader[f])
Answer(f, m) == toFollower' = [toFollower EXCEPT ![f] = Append(@, m)]
Answered(f) == toLeader' = [toLeader EXCEPT ![f] = Tail(@)]
Asked(f, type) == toLeader[f] # <<>> /\ Request(f).type = type

\* on_hello
OnHello(f) ==
  /\ Asked(f, "hello")
  /\ registry' = [registry EXCEPT ![f] = [lsn |-> Request(f).lsn, epoch |-> Request(f).epoch]]
  /\ Answered(f)
  /\ UNCHANGED <<leader, conn, toFollower, snap, fol, gap, left>>

\* WalStreamer::get_batch: at most MaxBatch units from an offset.  The whole
\* records are read back only when the batch starts at a record.
get_batch(from) ==
  LET units == IF Size <= from THEN 0
               ELSE IF Size - from > MaxBatch THEN MaxBatch ELSE Size - from
      first == (from - Header) \div 2
  IN  [units |-> units, whole |-> (from - Header) % 2 = 0,
       recs |-> IF (from - Header) % 2 = 0
                  THEN SubSeq(wal.recs, first + 1, first + units \div 2) ELSE <<>>]

\* Mutant: a new follower is not told that it is stale.
IsStale_NotNew(from) == Size > 0 /\ from > Size

\* REPL_WAL_PULL.  An offset of a deleted log that the new log has outgrown is
\* answered with the wrong bytes, or with none.
IsStale(from) == from = 0 \/ (Size > 0 /\ from > Size)
OnPull(f) ==
  LET from == Request(f).lsn
      regrown == ~IsStale(from) /\ Size > 0 /\ Request(f).epoch # epoch
  IN  /\ Asked(f, "pull")
      /\ IF IsStale(from)
           THEN Answer(f, [type |-> "stale"])
           ELSE Answer(f, [type |-> "batch", from |-> from, epoch |-> epoch,
                           data |-> get_batch(from), regrown |-> regrown])
      /\ Answered(f)
      /\ UNCHANGED <<leader, conn, registry, snap, fol, gap, left>>

\* REPL_WAL_ACK: upsert, then evict_stale over all followers.
OnAck(f) ==
  LET upserted == [registry EXCEPT ![f] = [lsn |-> Request(f).lsn, epoch |-> Request(f).epoch]]
  IN  /\ Asked(f, "ack")
      /\ registry' = [g \in Followers |->
           IF upserted[g].lsn # NotLive /\ Size > upserted[g].lsn + MaxLag
             THEN Unknown ELSE upserted[g]]
      /\ Answered(f)
      /\ UNCHANGED <<leader, conn, toFollower, snap, fol, gap, left>>

\* REPL_SNAPSHOT_REQ: SnapshotSender::send flushes, reads the offset, lists the
\* files and reads and sends one after the other, with no lock held across these
\* steps.  The files stand for two: the manifest with the index and the segments
\* listed, and the column files of the write buffer.
SnapFlush(f) ==
  /\ Asked(f, "snapshot") /\ snap[f].step = "none"
  /\ FlushAll
  /\ snap' = [snap EXCEPT ![f].step = "lsn"]
  /\ UNCHANGED <<registry, frames, fol, gap, left>>
SnapLsn(f) ==
  /\ snap[f].step = "lsn"
  /\ snap' = [snap EXCEPT ![f] =
       [step |-> "list", lsn |-> IF Size = 0 THEN Header ELSE Size, epoch |-> epoch,
        rows |-> files.rows, listed |-> 0, todo |-> {"manifest", "buffer"}]]
  /\ UNCHANGED <<leader, registry, frames, fol, gap, left>>
SnapMeta(f) ==
  /\ snap[f].step = "list"
  /\ Answer(f, [type |-> "meta"])
  /\ snap' = [snap EXCEPT ![f].step = "copy", ![f].listed = files.segs]
  /\ UNCHANGED <<leader, registry, conn, toLeader, fol, gap, left>>
Copied(file, listed) ==
  IF file = "manifest"
    THEN [type |-> "data", file |-> file, rows |-> SubSeq(files.rows, 1, files.segs),
          index |-> files.index, whole |-> files.segs = listed]
    ELSE [type |-> "data", file |-> file, rows |-> SubSeq(files.rows, files.segs + 1, files.kept)]
SnapFile(f, file) ==
  /\ snap[f].step = "copy" /\ file \in snap[f].todo
  /\ Answer(f, Copied(file, snap[f].listed))
  /\ snap' = [snap EXCEPT ![f].todo = @ \ {file}]
  /\ UNCHANGED <<leader, registry, conn, toLeader, fol, gap, left>>
SnapEnd(f) ==
  /\ snap[f].step = "copy" /\ snap[f].todo = {}
  /\ Answer(f, [type |-> "end", lsn |-> snap[f].lsn, epoch |-> snap[f].epoch,
                rows |-> snap[f].rows])
  /\ snap' = [snap EXCEPT ![f] = NoSnap]
  /\ Answered(f)
  /\ UNCHANGED <<leader, conn, registry, fol, gap, left>>

\* A listed file is gone, merged away in between: send returns an error and nothing
\* more is sent.
SnapFail(f) ==
  /\ snap[f].step = "copy" /\ Spend("fault")
  /\ snap' = [snap EXCEPT ![f] = NoSnap]
  /\ Answered(f)
  /\ UNCHANGED <<leader, conn, registry, toFollower, fol, gap>>

-----------------------------------------------------------------------------
(* The follower: WalConsumer::loop_, poll_loop_, apply_batch_ and          *)
(* snapshot_resync_.                                                       *)

Send(f, m) == toLeader' = [toLeader EXCEPT ![f] = Append(@, m)]
Frame(f) == Head(toFollower[f])
Take(f) == toFollower' = [toFollower EXCEPT ![f] = Tail(@)]
Got(f, phase, types) ==
  /\ fol[f].phase = phase
  /\ toFollower[f] # <<>>
  /\ Frame(f).type \in types

\* connect_and_auth_: the response queue is emptied; HELLO follows AUTH_OK.
Connect(f) ==
  /\ fol[f].phase = "off"
  /\ conn' = [conn EXCEPT ![f] = TRUE]
  /\ toLeader' = [toLeader EXCEPT ![f] =
       << [type |-> "hello", lsn |-> fol[f].conf, epoch |-> fol[f].at] >>]
  /\ toFollower' = [toFollower EXCEPT ![f] = <<>>]
  /\ snap' = [snap EXCEPT ![f] = NoSnap]
  /\ fol' = [fol EXCEPT ![f].phase = "poll"]
  /\ UNCHANGED <<leader, registry, gap, left>>

\* The head of poll_loop_; a failed send ends the connection.
SendPull(f) ==
  /\ fol[f].phase = "poll"
  /\ IF conn[f]
       THEN /\ Send(f, [type |-> "pull", lsn |-> fol[f].conf, epoch |-> fol[f].at])
            /\ fol' = [fol EXCEPT ![f].phase = "wait"]
       ELSE fol' = [fol EXCEPT ![f].phase = "off"] /\ UNCHANGED toLeader
  /\ UNCHANGED <<leader, registry, conn, toFollower, snap, gap, left>>

\* wait_frame_ drops a frame of a type it is not waiting for.
Expected(phase) ==
  CASE phase = "wait" -> {"batch", "stale"}
    [] phase = "meta" -> {"meta"}
    [] phase = "data" -> {"data", "end"}
    [] OTHER -> {}
DropFrame(f) ==
  /\ fol[f].phase \in {"wait", "meta", "data"}
  /\ toFollower[f] # <<>> /\ Frame(f).type \notin Expected(fol[f].phase)
  /\ Take(f)
  /\ UNCHANGED <<leader, registry, conn, toLeader, snap, fol, gap, left>>

\* wait_frame_ gives up: the poll is sent again on the same stream, whose
\* answer may still come; a snapshot is given up with its connection.
Coming(f) == toFollower[f] # <<>> \/ (conn[f] /\ (toLeader[f] # <<>> \/ snap[f] # NoSnap))
Timeout(f) ==
  /\ fol[f].phase \in {"wait", "meta", "data"}
  /\ IF Coming(f) THEN Spend("fault") ELSE UNCHANGED left
  /\ fol' = [fol EXCEPT ![f].phase = IF @ = "wait" THEN "poll" ELSE "off"]
  /\ UNCHANGED <<leader, registry, frames, snap, gap>>

\* Mutant: the header read_all is given in front of the batch is counted too.
Consumed_Header(data) == IF data.whole THEN {data.units + Header} ELSE {0, data.units}

\* apply_batch_ up to its last record.  read_all counts the fields it has read
\* of a record that is cut off, so the offset then lies inside that record; a
\* batch that does not start at a record holds none that can be read.
Consumed(data) == IF data.whole THEN {data.units} ELSE {0, data.units}

\* apply_replicated_record runs Catalog::insert in replay mode, whose uniqueness
\* check, on a follower with the index, refuses a key it holds.
Refused(s, recs) ==
  {i \in DOMAIN recs : /\ s.index /\ recs[i] # 0
                       /\ \E r \in Range(s.store) \cup {recs[j] : j \in 1 .. i - 1} :
                            Key(r) = Key(recs[i])}

\* poll_loop_ on a batch.  The first record refused ends it and the connection: what
\* was applied before stays, and no offset is stored.
OnBatch(f) ==
  LET m == Frame(f)
      d == m.data
      bad == Refused(fol[f], d.recs)
      recs == IF bad = {} THEN d.recs ELSE SubSeq(d.recs, 1, Min(bad) - 1)
      late == m.from # fol[f].conf
      cut == d.whole /\ d.units % 2 = 1
      events == [regrown |-> m.regrown, late |-> late /\ d.units > 0, cut |-> cut /\ bad = {},
                 partial |-> bad # {} /\ Inserted(recs) # <<>>,
                 rejected |-> \E r \in Range(recs) : r < 0]
  IN  /\ Got(f, "wait", {"batch"})
      /\ Len(fol[f].store) + Len(Inserted(recs)) <= MaxApplied
      /\ Take(f)
      /\ \E used \in Consumed(d) :
           fol' = [fol EXCEPT ![f].phase = IF bad # {} THEN "off"
                                          ELSE IF d.units = 0 THEN "poll" ELSE "applied",
                              ![f].store = @ \o Inserted(recs),
                              ![f].next = IF d.units = 0 \/ bad # {} THEN Start
                                            ELSE [lsn |-> m.from + used, epoch |-> m.epoch]]
      /\ gap' = [gap EXCEPT ![f] = @ \cup {e \in DOMAIN events : events[e]}]
      /\ UNCHANGED <<leader, registry, conn, toLeader, snap, left>>

\* apply_batch_'s end: the new offset is stored and acknowledged.
Confirm(f) ==
  LET pos == fol[f].next
  IN  /\ fol[f].phase = "applied"
      /\ fol' = [fol EXCEPT ![f].phase = "poll", ![f].conf = pos.lsn, ![f].at = pos.epoch,
                            ![f].saved = pos, ![f].next = Start]
      /\ IF conn[f] THEN Send(f, [type |-> "ack", lsn |-> pos.lsn, epoch |-> pos.epoch])
                    ELSE UNCHANGED toLeader
      /\ UNCHANGED <<leader, registry, conn, toFollower, snap, gap, left>>

OnStale(f) ==
  /\ Got(f, "wait", {"stale"})
  /\ Take(f)
  /\ IF conn[f]
       THEN Send(f, [type |-> "snapshot"]) /\ fol' = [fol EXCEPT ![f].phase = "meta"]
       ELSE fol' = [fol EXCEPT ![f].phase = "off"] /\ UNCHANGED toLeader
  /\ UNCHANGED <<leader, registry, conn, snap, gap, left>>

Contents(d) == d.sealed \o d.buffer

\* SnapshotReceiver::on_meta, on_data, on_end: files are overwritten where they
\* are, and the offset is saved before the database is opened on them.
OnMeta(f) ==
  /\ Got(f, "meta", {"meta"})
  /\ Take(f)
  /\ fol' = [fol EXCEPT ![f].phase = "data"]
  /\ UNCHANGED <<leader, registry, conn, toLeader, snap, gap, left>>
OnData(f) ==
  LET m == Frame(f)
  IN  /\ Got(f, "data", {"data"})
      /\ Take(f)
      /\ fol' = [fol EXCEPT ![f].disk =
           IF m.file = "buffer" THEN [@ EXCEPT !.buffer = m.rows]
           ELSE [@ EXCEPT !.sealed = m.rows, !.index = m.index, !.whole = m.whole]]
      /\ gap' = [gap EXCEPT ![f] = @ \cup {"files"}]
      /\ UNCHANGED <<leader, registry, conn, toLeader, snap, left>>
OnEnd(f) ==
  LET m == Frame(f)
      pos == [lsn |-> m.lsn, epoch |-> m.epoch]
  IN  /\ Got(f, "data", {"end"})
      /\ Take(f)
      /\ fol' = [fol EXCEPT ![f].phase = "reopen", ![f].conf = pos.lsn, ![f].at = pos.epoch,
                            ![f].saved = pos]
      /\ gap' = [gap EXCEPT ![f] =
           IF Contents(fol[f].disk) = m.rows /\ fol[f].disk.whole THEN {"files"} ELSE {"files", "race"}]
      /\ UNCHANGED <<leader, registry, conn, toLeader, snap, left>>

\* Database::reopen: Catalog::load fails on a manifest that lists a segment whose
\* files were not copied, and the old catalog stays, with the new offset.
Reopen(f) ==
  LET d == fol[f].disk
  IN  /\ fol[f].phase = "reopen"
      /\ IF d.whole
           THEN /\ fol' = [fol EXCEPT ![f].phase = "poll", ![f].store = Contents(d),
                                      ![f].index = d.index]
                /\ gap' = [gap EXCEPT ![f] = @ \ {"files"}]
           ELSE fol' = [fol EXCEPT ![f].phase = "off"] /\ UNCHANGED gap
      /\ UNCHANGED <<leader, registry, frames, snap, left>>

\* The follower's write buffer is sealed, full or by its own merge worker.
OwnFiles(s) == [sealed |-> s.store, buffer |-> <<>>, index |-> s.index, whole |-> TRUE]
FollowerSeal(f) ==
  /\ fol[f].phase \in {"applied", "off"} /\ fol[f].disk # OwnFiles(fol[f])
  /\ fol' = [fol EXCEPT ![f].disk = OwnFiles(fol[f])]
  /\ UNCHANGED <<leader, registry, frames, snap, gap, left>>

\* The follower stops and starts again: load_state_ reads the saved offset,
\* Catalog::load what was sealed.  A follower logs nothing (replay mode); it does
\* not start from files that are not whole.
FollowerCrash(f) ==
  LET s == fol[f]
      onDisk == Contents(s.disk)
      held == IF s.phase = "reopen" THEN onDisk ELSE s.store
  IN  /\ Spend("fault")
      /\ Lose({f})
      /\ fol' = [fol EXCEPT ![f].phase = IF s.disk.whole THEN "off" ELSE "down",
                            ![f].store = onDisk, ![f].index = s.disk.index,
                            ![f].conf = s.saved.lsn, ![f].at = s.saved.epoch,
                            ![f].next = Start]
      /\ gap' = [gap EXCEPT ![f] =
           (@ \ (IF s.phase = "reopen" /\ s.disk.whole THEN {"files"} ELSE {}))
           \cup (IF onDisk # held THEN {"unsealed"} ELSE {})
           \cup (IF s.phase = "applied" THEN {"again"} ELSE {})]
      /\ UNCHANGED <<leader, registry>>

Break(f) ==
  /\ Spend("fault")
  /\ conn[f]
  /\ Lose({f})
  /\ UNCHANGED <<leader, registry, fol, gap>>

-----------------------------------------------------------------------------
Init ==
  /\ n = 0 /\ base = <<>> /\ epoch = 0
  /\ files = [rows |-> <<>>, segs |-> 0, kept |-> 0, index |-> FALSE]
  /\ wal = [open |-> FALSE, recs |-> <<>>, skip |-> 0]
  /\ registry = [f \in Followers |-> Unknown]
  /\ conn = [f \in Followers |-> FALSE]
  /\ toLeader = [f \in Followers |-> <<>>]
  /\ toFollower = [f \in Followers |-> <<>>]
  /\ snap = [f \in Followers |-> NoSnap]
  /\ fol = [f \in Followers |->
       [phase |-> "off", conf |-> 0, at |-> 0, saved |-> Start,
        next |-> Start, store |-> <<>>, index |-> FALSE,
        disk |-> [sealed |-> <<>>, buffer |-> <<>>, index |-> FALSE, whole |-> TRUE]]]
  /\ gap = [f \in Followers |-> {}]
  /\ left = Limit

LeaderSteps(f) ==
  \/ OnHello(f) \/ OnPull(f) \/ OnAck(f)
  \/ SnapFlush(f) \/ SnapLsn(f) \/ SnapMeta(f) \/ SnapEnd(f)
  \/ \E file \in {"manifest", "buffer"} : SnapFile(f, file)
FollowerSteps(f) ==
  \/ Connect(f) \/ SendPull(f) \/ DropFrame(f) \/ OnBatch(f) \/ Confirm(f)
  \/ OnStale(f) \/ OnMeta(f) \/ OnData(f) \/ OnEnd(f) \/ Reopen(f)
GiveUp(f) == ~Coming(f) /\ Timeout(f)

Next ==
  \/ \E seal \in BOOLEAN : Write(seal)
  \/ \E k \in 1 .. n : Reject(k)
  \/ CreateIndex
  \/ Flush
  \/ LeaderRestart
  \/ \E f \in Followers :
       \/ LeaderSteps(f) \/ FollowerSteps(f) \/ Timeout(f)
       \/ FollowerSeal(f) \/ FollowerCrash(f) \/ SnapFail(f) \/ Break(f)

\* The leader answers frames that reach it, the follower's thread runs, and a
\* wait on a dead stream ends.
Fairness == \A f \in Followers :
  WF_vars(LeaderSteps(f)) /\ WF_vars(FollowerSteps(f)) /\ WF_vars(GiveUp(f))
Spec == Init /\ [][Next]_vars /\ Fairness

-----------------------------------------------------------------------------
Positions == [lsn : Nat, epoch : Nat]
\* A follower holds rows of the leader's INSERTs only, never the records of its seals.
TypeOK ==
  LET Rows == {r \in -n .. n : r # 0}
  IN  /\ n \in 0 .. MaxWrites /\ epoch \in Nat
      /\ Range(files.rows) \cup Range(base) \subseteq Rows
      /\ files.segs \in 0 .. files.kept /\ files.kept \in 0 .. Len(files.rows)
      /\ wal.open \in BOOLEAN /\ Range(wal.recs) \subseteq -n .. n /\ wal.skip \in 0 .. Len(wal.recs)
      /\ \A f \in Followers :
           /\ registry[f].lsn \in Nat \cup {NotLive}
           /\ fol[f].conf \in Nat /\ fol[f].saved \in Positions /\ fol[f].next \in Positions
           /\ Range(fol[f].store) \cup Range(Contents(fol[f].disk)) \subseteq Rows
           /\ gap[f] \subseteq {"regrown", "late", "cut", "files", "race", "unsealed", "again",
                               "partial", "rejected"}
      /\ left \in [DOMAIN Limit -> Nat]

\* Between two polls a follower with no gap holds exactly the writes that its
\* confirmed offset stands for: every record before it in the leader's log,
\* applied once and in order, and nothing after it.  None of them is one the leader
\* has rejected: a follower with the index stops in front of such a record.
ConfirmedExact == \A f \in Followers :
  LET s == fol[f]
      before == SubSeq(wal.recs, 1, (s.conf - Header) \div 2)
      accepted == SelectSeq(s.store, LAMBDA r : r > 0)
  IN  gap[f] = {} /\ s.phase \in {"off", "poll", "wait"} /\ s.conf # 0 =>
        /\ accepted = All(Len(accepted))
        /\ s.at = epoch =>
             /\ (s.conf - Header) % 2 = 0
             /\ s.store = base \o SelectSeq(before, LAMBDA r : r > 0)

\* flush_all never deletes the log while a follower that is registered with an
\* offset of this very log still needs a record of it.
GateHolds == [][
  epoch' # epoch /\ registry' = registry =>
    \A f \in Followers :
      registry[f].lsn # NotLive /\ registry[f].epoch = epoch /\ gap[f] = {}
        => fol[f].conf = 0 \/ fol[f].store = files.rows]_vars

\* f's offset is one of a log that was deleted before f had read all of it.
Stranded(f) ==
  fol[f].conf # 0 /\ fol[f].at # epoch /\ ~wal.open /\ fol[f].store # files.rows

\* The records f would pull next hold one that it refuses.
Blocked(f) ==
  /\ fol[f].conf # 0 /\ fol[f].at = epoch
  /\ Refused(fol[f], get_batch(fol[f].conf).recs) # {}

\* A follower without a gap catches up with the leader unless the log was
\* deleted under it and not started again, or it has come to a record that its
\* index refuses; nothing else stops it.
CatchesUp == \A f \in Followers :
  <>[](fol[f].store = files.rows \/ gap[f] # {} \/ Stranded(f) \/ Blocked(f))

\* "Followers replay incoming WAL records in order": what a follower holds is
\* always a beginning of the leader's history.
ReplaysInOrder == \A f \in Followers : fol[f].store = All(Len(fol[f].store))

\* "A follower that is too far behind (or brand new) requests a full snapshot":
\* no follower waits for ever on a log that is gone.
NeverStranded == \A f \in Followers : <>[](~Stranded(f) \/ gap[f] # {})
=============================================================================
