--------------------------- MODULE SelectionVector ---------------------------
(***************************************************************************)
(* The rows of a chunk a filter kept (executor/selection_vector.cpp): a    *)
(* list, a bitmap or runs, as finalize chooses by density and mean run.    *)
(* Indexes count from 0.  A vector is [repr, dense, bitmap, ranges], of    *)
(* which the one repr names is used; a bitmap is the set of its bits, cut  *)
(* into bytes where the code goes byte by byte; a run is <<start, len>>.   *)
(***************************************************************************)
EXTENDS Integers, SequencesExt, FiniteSetsExt

CONSTANTS
  BitmapPercent,  \* density above which a bitmap is used (90)
  RunLength,      \* mean run above which runs are used (32)
  ByteBits        \* bits of a bitmap byte (8)

ASSUME SelectionAssumption == {BitmapPercent, RunLength} \subseteq Nat /\ ByteBits \in Nat \ {0}

Dense(indices) == [repr |-> "DENSE", dense |-> indices, bitmap |-> {}, ranges |-> <<>>]
Ascending(S) ==
  IF S = {} THEN <<>> ELSE SelectSeq([i \in 1 .. (Max(S) + 1) |-> i - 1], LAMBDA i : i \in S)

\* indices_to_ranges: a run ends where the next index does not follow.
RunStarts(indices) == {i \in DOMAIN indices : i = 1 \/ indices[i] # indices[i - 1] + 1}
indices_to_ranges(indices) ==
  LET starts == Ascending(RunStarts(indices))
      ends == Append(Tail(starts), Len(indices) + 1)
  IN  [r \in DOMAIN starts |-> <<indices[starts[r]], ends[r] - starts[r]>>]

\* Builder::finalize for a filter, whose rows need no order of their own.  A run
\* takes 8 bytes and an index 4.
finalize(indices, row_count) ==
  LET size == Len(indices)
      runs == indices_to_ranges(indices)
  IN  IF size * 100 > BitmapPercent * row_count
      THEN [repr |-> "BITMAP", dense |-> <<>>, bitmap |-> Range(indices), ranges |-> <<>>]
      ELSE IF size > RunLength * Len(runs) /\ 8 * Len(runs) < 4 * size
      THEN [repr |-> "RANGES", dense |-> <<>>, bitmap |-> {}, ranges |-> runs]
      ELSE Dense(indices)

\* for_each: the rows in the order the representation gives them.
for_each(sv) ==
  CASE sv.repr = "DENSE" -> sv.dense
    [] sv.repr = "BITMAP" -> Ascending(sv.bitmap)
    [] sv.repr = "RANGES" ->
         FlattenSeq([r \in DOMAIN sv.ranges |->
           [i \in 1 .. sv.ranges[r][2] |-> sv.ranges[r][1] + i - 1]])
size_of(sv) == Len(for_each(sv))

\* The rows in the runs before the r-th.
Before(ranges, r) == MapThenSumSet(LAMBDA i : ranges[i][2], 1 .. (r - 1))

\* truncate, k below the size: whole bytes are kept while they fit, then the low
\* bits of the next; the run that crosses k is cut and is the last.
Byte(i) == i \div ByteBits
TruncateBitmap(bm, k) ==
  LET upto(b) == Cardinality({i \in bm : Byte(i) <= b})
      cut == Min({Byte(i) : i \in {j \in bm : upto(Byte(j)) > k}})
      low(i) == Cardinality({j \in bm : Byte(j) = cut /\ j < i})
  IN  {i \in bm : Byte(i) < cut \/ (Byte(i) = cut /\ low(i) < k - upto(cut - 1))}
TruncateRanges(ranges, k) ==
  LET cut == Min({r \in DOMAIN ranges : Before(ranges, r) + ranges[r][2] > k})
  IN  Append(SubSeq(ranges, 1, cut - 1), <<ranges[cut][1], k - Before(ranges, cut)>>)
truncate(sv, k) ==
  IF k >= size_of(sv) THEN sv
  ELSE CASE sv.repr = "DENSE" -> Dense(SubSeq(sv.dense, 1, k))
         [] sv.repr = "BITMAP" -> [sv EXCEPT !.bitmap = TruncateBitmap(@, k)]
         [] sv.repr = "RANGES" -> [sv EXCEPT !.ranges = TruncateRanges(@, k)]

\* Mutant: the first run left is not moved past the prefix.
DropRanges_Unmoved(ranges, n) ==
  LET left == {r \in DOMAIN ranges : Before(ranges, r) + ranges[r][2] > n}
  IN  IF left = {} THEN <<>> ELSE SubSeq(ranges, Min(left), Len(ranges))

\* drop_prefix: a bitmap becomes a list; runs that end within the prefix go, the
\* next one starts later.
DropRanges(ranges, n) ==
  LET left == {r \in DOMAIN ranges : Before(ranges, r) + ranges[r][2] > n}
      skip == n - Before(ranges, Min(left))
      rest == SubSeq(ranges, Min(left), Len(ranges))
  IN  IF left = {} THEN <<>>
      ELSE <<<<rest[1][1] + skip, rest[1][2] - skip>>>> \o Tail(rest)
drop_prefix(sv, n) ==
  IF sv.repr = "RANGES" THEN [sv EXCEPT !.ranges = DropRanges(@, n)]
  ELSE Dense(SubSeq(for_each(sv), n + 1, size_of(sv)))
=============================================================================
