------------------------------- MODULE Table -------------------------------
(***************************************************************************)
(* The in-memory state of one nyxdb table and the operations of class      *)
(* Table (storage/disk/table.cpp) on it, as operators on a record          *)
(*                                                                         *)
(*   segments    the immutable segments, in manifest order                 *)
(*   wb          the rows of the write buffer                              *)
(*   wb_deleted  the bits set in the write buffer's deletion bitmap        *)
(*   wb_base     the global row id of the write buffer's first row         *)
(*                                                                         *)
(* A segment is [base, rows, deleted].  A row is one value: the columns of *)
(* a row are appended, sealed and copied together, and the bitmaps are     *)
(* indexed by the row.  Row ids and bit indexes count from 0 as in the     *)
(* code; sequences count from 1.                                           *)
(***************************************************************************)
EXTENDS Integers, Sequences, FiniteSets

LOCAL INSTANCE SequencesExt

CONSTANTS
  FlushThreshold,  \* rows at which the write buffer is sealed (65 536 in the code)
  PageCapacity     \* values of one column page

ASSUME TableAssumption ==
  /\ FlushThreshold \in Nat \ {0}
  /\ PageCapacity \in Nat \ {0}

SegmentsOf(Row) == [base : Nat, rows : Seq(Row), deleted : SUBSET Nat]

TablesOf(Row) ==
  [segments : Seq(SegmentsOf(Row)), wb : Seq(Row), wb_deleted : SUBSET Nat, wb_base : Nat]

EmptyTable == [segments |-> <<>>, wb |-> <<>>, wb_deleted |-> {}, wb_base |-> 0]

(***************************************************************************)
(* Reading                                                                 *)
(***************************************************************************)
row_count(t) == t.wb_base + Len(t.wb)

\* The local indexes of a run of rows.
Locals(rows) == 0 .. Len(rows) - 1

\* The first segment, in manifest order, whose id range holds the row decides.
is_row_deleted(t, gid) ==
  IF gid >= t.wb_base
  THEN gid - t.wb_base \in t.wb_deleted
  ELSE LET covering == {i \in DOMAIN t.segments :
                          gid - t.segments[i].base \in Locals(t.segments[i].rows)}
       IN  /\ covering # {}
           /\ LET seg == t.segments[CHOOSE i \in covering : \A j \in covering : i <= j]
              IN  gid - seg.base \in seg.deleted

\* What a full table scan yields: each row that survives the bitmaps, with the
\* row id the scan reports for it (last_chunk_physical_start plus its place).
Scan(t) ==
  UNION {{[part |-> i, gid |-> t.segments[i].base + l, row |-> t.segments[i].rows[l + 1]] :
            l \in Locals(t.segments[i].rows) \ t.segments[i].deleted} : i \in DOMAIN t.segments}
  \cup {[part |-> 0, gid |-> t.wb_base + l, row |-> t.wb[l + 1]] :
            l \in Locals(t.wb) \ t.wb_deleted}

\* The number of rows equal to r a scan sees.
Visible(t, r) == Cardinality({x \in Scan(t) : x.row = r})

\* The row ids a DELETE or UPDATE ... WHERE row = r collects.
Matching(t, r) == {x.gid : x \in {y \in Scan(t) : y.row = r}}

(***************************************************************************)
(* Writing                                                                 *)
(***************************************************************************)

\* The binary search of mark_deleted_nolock_, run as the code runs it: the
\* segments' bases are not assumed to be sorted.  The result counts from 1.
SegmentFor(segments, gid) ==
  LET search[lo \in 0 .. Len(segments), hi \in 0 .. Len(segments)] ==
        IF lo + 1 < hi
        THEN LET mid == (lo + hi) \div 2
             IN  IF segments[mid + 1].base <= gid THEN search[mid, hi] ELSE search[lo, mid]
        ELSE lo
  IN  search[0, Len(segments)] + 1

\* Bits outside the rows present are dropped, in the buffer and in a segment.
mark_deleted(t, gids) ==
  LET inSegment == {g \in gids : g < t.wb_base}
      marked(i) == {g - t.segments[i].base : g \in {h \in inSegment : SegmentFor(t.segments, h) = i}}
  IN  [t EXCEPT
         !.wb_deleted = @ \cup ({g - t.wb_base : g \in gids \ inSegment} \cap Locals(t.wb)),
         !.segments = [i \in DOMAIN @ |->
            [@[i] EXCEPT !.deleted = @ \cup (marked(i) \cap Locals(t.segments[i].rows))]]]

append_bulk(t, rows) == [t EXCEPT !.wb = @ \o rows]

NeedsFlush(t) == Len(t.wb) >= FlushThreshold

\* flush_write_buffer_: the buffer becomes the last segment and takes its bitmap
\* along.  A buffer without a bitmap file inherits the one found in the directory
\* seg_<next id>, left there by an interrupted seal ("leftover").
flush_write_buffer(t, leftover) ==
  IF t.wb = <<>>
  THEN t
  ELSE [segments |-> Append(t.segments,
          [base |-> t.wb_base, rows |-> t.wb,
           deleted |-> IF t.wb_deleted = {} THEN leftover ELSE t.wb_deleted]),
        wb |-> <<>>, wb_deleted |-> {}, wb_base |-> t.wb_base + Len(t.wb)]

\* The rows of a segment its bitmap keeps, in order (copy_column_filtered).
LiveRows(seg) ==
  LET kept == SelectSeq([i \in 1 .. Len(seg.rows) |-> i], LAMBDA i : i - 1 \notin seg.deleted)
  IN  [i \in DOMAIN kept |-> seg.rows[kept[i]]]

DeadRows(t) ==
  UNION {{<<i, l>> : l \in t.segments[i].deleted \cap Locals(t.segments[i].rows)} :
            i \in DOMAIN t.segments}

\* vacuum_table: every segment is copied without its dead rows into one, at the
\* first segment's base.  The write buffer's base is left as it was.
vacuum_table(t) ==
  IF t.segments = <<>> \/ DeadRows(t) = {}
  THEN t
  ELSE [t EXCEPT !.segments =
          <<[base |-> t.segments[1].base,
             rows |-> FlattenSeq([i \in DOMAIN t.segments |-> LiveRows(t.segments[i])]),
             deleted |-> {}]>>]

(***************************************************************************)
(* Opening                                                                 *)
(***************************************************************************)
SealedRows(segments) ==
  LET sum[i \in 0 .. Len(segments)] == IF i = 0 THEN 0 ELSE sum[i - 1] + Len(segments[i].rows)
  IN  sum[Len(segments)]

\* Table::open: the buffer's base is the number of rows in the manifest.
open_table(segments, wb, wb_deleted) ==
  [segments |-> segments, wb |-> wb, wb_deleted |-> wb_deleted, wb_base |-> SealedRows(segments)]

(***************************************************************************)
(* ColumnFile keeps its last page in memory.  Without a flush the pages    *)
(* before it have been written, by rotate_page.                            *)
(***************************************************************************)
RotatedRows(wb) == IF wb = <<>> THEN 0 ELSE PageCapacity * ((Len(wb) - 1) \div PageCapacity)

\* The rows of the buffer on disk after an append, given those there before it.
WrittenRows(onDisk, wb) ==
  SubSeq(wb, 1, IF Len(onDisk) > RotatedRows(wb) THEN Len(onDisk) ELSE RotatedRows(wb))

PagesFor(n) == IF n = 0 THEN 1 ELSE (n + PageCapacity - 1) \div PageCapacity

\* Table::truncate cuts the write buffer only: neither segments nor the bitmap.
WbTarget(t, target_rows) == IF target_rows > t.wb_base THEN target_rows - t.wb_base ELSE 0

\* ColumnFile::truncate reads back the last page it keeps; past the end of the
\* file that page is a hole, whose header does not carry its id.
CanTruncate(t, target_rows) == PagesFor(WbTarget(t, target_rows)) <= PagesFor(Len(t.wb))

truncate(t, target_rows) ==
  LET n == WbTarget(t, target_rows)
  IN  [t EXCEPT !.wb = SubSeq(@, 1, IF n < Len(@) THEN n ELSE Len(@))]
=============================================================================
