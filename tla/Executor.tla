------------------------------ MODULE Executor ------------------------------
(***************************************************************************)
(* A SELECT from plan to last row: Planner::plan (planner/planner.cpp) and *)
(* the operators it stacks, TableScan or HashJoin, Filter, HashAggregate,  *)
(* Filter, Sort, Project and Limit (executor/), which pull chunks of rows  *)
(* from each other.  A query is [on, join, where, agg, group, arg, having, *)
(* order, project, strategy, range, offset, limit, hash]; where, having,   *)
(* order, project and limit are empty sequences when there is none.        *)
(*                                                                         *)
(* The planner's plans are inner joins, scans without a range, filters     *)
(* that copy, sorts with NULLs last, and always a projection.  The others  *)
(* are stacked by hand, as in the operators' own tests (tests/unit and     *)
(* tests/integration/executor).                                            *)
(*                                                                         *)
(* A table is [width, parts], a part [base, rows, deleted] a segment or,   *)
(* last, the write buffer, its deleted rows by their place from 0.  A      *)
(* scanned row ends with its row id, as DELETE and UPDATE count it         *)
(* (frontend/runner.cpp).  Tables do not change while the scan holds their *)
(* shared locks.                                                           *)
(***************************************************************************)
EXTENDS BlockingOperators, SelectionVector

CONSTANTS
  NoRange, NoSel,  \* a scan without a range, a chunk without a selection
  ChunkSize,       \* rows of a chunk (CHUNK_SIZE, 1024)
  PageCapacity,    \* values of a column page
  Cases            \* the tables and queries tried, <<t, q>>

ASSUME ExecutorAssumption == {ChunkSize, PageCapacity} \subseteq Nat \ {0}

VARIABLES
  t, q,       \* the tables, by binding, and the query
  plan, at,   \* intervals to scan, by part, and the scan's part and place
  source,     \* the operator chunks come from: "scan", "group" or "order"
  chunk,      \* the chunk on its way up, [rows, sel]
  stage,      \* the operator it waits for, or "none"
  join,       \* HashJoin: [table, next, rows, pairs, cursor]
  agg,        \* HashAggregate: [table, keys, states]
  sorted,     \* Sort: its rows, [row, keys]
  cursor,     \* emit_cursor_ of the source above the scan
  skipped, emitted,  \* Limit's counters; the second counts without Limit too
  locked,     \* bindings whose table is locked
  phase,      \* "ready", "build", "open", "done" or "error"
  out         \* the rows returned

inputs == <<t, q, plan>>
limits == <<skipped, emitted, out>>
vars == <<t, q, plan, at, source, chunk, stage, join, agg, sorted, cursor, limits, locked, phase>>

-----------------------------------------------------------------------------
(* The plan.                                                               *)

IsJoin == Len(t) = 2
RowsIn(b) == FoldSeq(LAMBDA p, n : Len(p.rows) + n, 0, t[b].parts)

\* build_scans_: the table with no more rows is the build side; a joined row is
\* the probe row followed by the build row.
ProbeSide == IF IsJoin /\ RowsIn(1) <= RowsIn(2) THEN 2 ELSE 1
BuildSide == 3 - ProbeSide
binding_offsets == [b \in DOMAIN t |-> IF b = ProbeSide THEN 0 ELSE t[ProbeSide].width]
Ctx(post) == [offsets |-> binding_offsets, post_aggregate |-> post, group |-> q.group]

\* decompose_on_: an equality is between the build side and another table.
IsEquijoin(pair) == (pair[1][1] = BuildSide) # (pair[2][1] = BuildSide)
SideOf(pair, build) == IF (pair[1][1] = BuildSide) = build THEN pair[1] ELSE pair[2]
BuildCols == [i \in DOMAIN q.on |-> SideOf(q.on[i], TRUE)[2]]
ProbeCols ==
  [i \in DOMAIN q.on |-> binding_offsets[SideOf(q.on[i], FALSE)[1]] + SideOf(q.on[i], FALSE)[2]]

\* The operators above the scan or the join, in the order plan stacks them.
\* Limit is there for a LIMIT only, and OFFSET without one is not looked at; the
\* caller takes what comes.
Stages == <<"where", "group", "having", "order", "project", "limit", "caller">>
Has(s) ==
  CASE s = "where" -> q.where # <<>> [] s = "group" -> q.agg [] s = "having" -> q.having # <<>>
    [] s = "order" -> q.order # <<>> [] s = "project" -> q.project # <<>>
    [] s = "limit" -> q.limit # <<>> [] s = "caller" -> TRUE
StageFrom(i) == Stages[Min({j \in i .. Len(Stages) : Has(Stages[j])})]
Above(s) == StageFrom(1 + CHOOSE i \in DOMAIN Stages : Stages[i] = s)

Predicate(s) ==
  IF s = "where" THEN lower_expr_(q.where[1], Ctx(FALSE)) ELSE lower_expr_(q.having[1], Ctx(q.agg))
SortExprs == [i \in DOMAIN q.order |-> lower_expr_(q.order[i].e, Ctx(q.agg))]
Argument == lower_expr_(q.arg, Ctx(FALSE))
Items == [i \in DOMAIN q.project |-> lower_expr_(q.project[i], Ctx(q.agg))]

\* Mutant: a comparison with the column on the right is read as it stands.
Flipped_Not == [EQ |-> "EQ", LT |-> "LT", LE |-> "LE", GT |-> "GT", GE |-> "GE"]

\* try_index_scan_: a WHERE of one comparison becomes the bounds of an index
\* scan, sets of at most one value; the literal NULL is none.
Flipped == [EQ |-> "EQ", LT |-> "GT", LE |-> "GE", GT |-> "LT", GE |-> "LE"]
Indexable(e) ==
  /\ e.k = "cmp" /\ e.op # "NE"
  /\ {e.l.k, e.r.k} = {"col", "lit"} /\ \A x \in {e.l, e.r} : x.k = "lit" => x.v # Null
try_index_scan_(e) ==
  LET op == IF e.l.k = "col" THEN e.op ELSE Flipped[e.op]
      lit == IF e.l.k = "col" THEN e.r.v ELSE e.l.v
  IN  [lo |-> IF op \in {"EQ", "GT", "GE"} THEN {lit} ELSE {},
       hi |-> IF op \in {"EQ", "LT", "LE"} THEN {lit} ELSE {},
       incl |-> op \in {"EQ", "LE", "GE"}]

\* The keys range_scan visits between two bounds; NULL is before every value
\* (encode_key, compare_keys).
Precedes(x, y) == y # Null /\ (x = Null \/ x < y)
Visits(b, key) ==
  /\ \A x \in b.lo : Precedes(x, key) \/ (b.incl /\ key = x)
  /\ \A x \in b.hi : Precedes(key, x) \/ (b.incl /\ key = x)

-----------------------------------------------------------------------------
(* TableScan.                                                              *)

\* page_overlaps_range, on the first column: a page's smallest and largest value
\* decide, and a page of NULLs has neither and is left out.
page_overlaps_range(part, i) ==
  LET page == {k \in DOMAIN part.rows : (k - 1) \div PageCapacity = i \div PageCapacity}
      values == {part.rows[k][1] : k \in page} \ {Null}
  IN  values # {} /\ Max(values) >= q.range[1] /\ Min(values) <= q.range[2]

\* build_entry: the rows of the pages in range, without the deleted ones, as
\* maximal intervals <<start, end>>.
Surviving(part) ==
  {i \in 0 .. (Len(part.rows) - 1) : q.range = NoRange \/ page_overlaps_range(part, i)} \ part.deleted
Survivors(part) ==
  LET S == Surviving(part)
  IN  {<<i, Min({j \in i .. Len(part.rows) : j \notin S})>> : i \in {j \in S : j - 1 \notin S}}

\* next: the chunk after the scan's place.
Parts == t[ProbeSide].parts
Rest(p) == {iv \in plan[p] : p > at.part \/ iv[2] > at.row}
PartsLeft == {p \in at.part .. Len(Parts) : Rest(p) # {}}
ChunkIn(p) ==
  LET iv == CHOOSE x \in Rest(p) : \A y \in Rest(p) : x[1] <= y[1]
      start == IF p = at.part THEN Max({at.row, iv[1]}) ELSE iv[1]
  IN  [part |-> p, row |-> start, count |-> Min({iv[2] - start, ChunkSize})]

\* A row and its id, which counts from the part's base.
Scanned(part, i) == Append(part.rows[i + 1], part.base + i)
RowsOf(c) == [i \in 1 .. c.count |-> Scanned(Parts[c.part], c.row + i - 1)]
AllRows(b) ==
  FlattenSeq([p \in DOMAIN t[b].parts |->
    LET places == Ascending(Surviving(t[b].parts[p]))
    IN  [i \in DOMAIN places |-> Scanned(t[b].parts[p], places[i])]])

-----------------------------------------------------------------------------
(* Chunk and Filter.                                                       *)

Chunk(rows, sel) == [rows |-> rows, sel |-> sel]
NoChunk == Chunk(<<>>, NoSel)
Picked(rows, indices) == [i \in DOMAIN indices |-> rows[indices[i] + 1]]
Logical(c) == IF c.sel = NoSel THEN c.rows ELSE Picked(c.rows, for_each(c.sel))
resize(c, k) ==
  IF c.sel = NoSel THEN Chunk(SubSeq(c.rows, 1, k), NoSel) ELSE [c EXCEPT !.sel = truncate(@, k)]
DropPrefix(c, n) ==
  IF c.sel = NoSel THEN Chunk(SubSeq(c.rows, n + 1, Len(c.rows)), NoSel)
  ELSE [c EXCEPT !.sel = drop_prefix(@, n)]

\* The rows where the mask is true, copied together or as a selection; a
\* selection filtered again keeps places of the chunk.
Filtered(c, pred) ==
  LET places == IF c.sel = NoSel THEN [i \in 1 .. Len(c.rows) |-> i - 1] ELSE for_each(c.sel)
      keep == SelectSeq(places, LAMBDA i : Keeps(pred, c.rows[i + 1]))
  IN  IF q.strategy = "COMPACT" \/ keep = <<>>
      THEN Chunk(Picked(c.rows, keep), NoSel)
      ELSE Chunk(c.rows, finalize(keep, Len(c.rows)))

\* Mutant: a condition over a selection is evaluated for the rows left out too.
Fails_AllRows(c, exprs) == \E r \in Range(c.rows), e \in Range(exprs) : evaluate(e, r) = Err

\* An expression is evaluated for the selected rows; one error is the query's.
Fails(c, exprs) == \E r \in Range(Logical(c)), e \in Range(exprs) : evaluate(e, r) = Err

-----------------------------------------------------------------------------
(* Opening, the end, and HashJoin's build side.                            *)

\* Mutant: the plan goes and the locks stay.
Drop_KeepingLocks(how) == phase' = how /\ UNCHANGED locked

\* Database::execute returns, and the plan goes out of scope: the shared_lock of
\* every TableScan in it unlocks.  Nobody calls close.
Drop(how) == phase' = how /\ locked' = {}

Reached == q.limit # <<>> /\ emitted >= q.limit[1]
NoJoin == [table |-> EmptyTable(1), next |-> 0, rows |-> <<>>, pairs |-> <<>>, cursor |-> 0]

\* A bad ON is refused by the planner, before anything is opened.
Open ==
  /\ phase = "ready"
  /\ IF \A i \in DOMAIN q.on : IsEquijoin(q.on[i])
     THEN /\ phase' = IF IsJoin THEN "build" ELSE "open"
          /\ locked' = DOMAIN t
          /\ plan' = [p \in DOMAIN Parts |-> Survivors(Parts[p])]
     ELSE phase' = "error" /\ UNCHANGED <<locked, plan>>
  /\ UNCHANGED <<t, q, at, source, chunk, stage, join, agg, sorted, cursor, limits>>

\* build_side_, called by the first next: the table is sized, filled row by row,
\* and the build child closed.
BuildJoin ==
  /\ phase = "build" /\ ~Reached
  /\ \E rows \in {AllRows(BuildSide)} :
       CASE join.next = 0 ->
              /\ join' = [join EXCEPT !.table = JoinTable(rows, BuildCols), !.next = 1]
              /\ UNCHANGED <<phase, locked>>
         [] join.next \in DOMAIN rows ->
              /\ join' = [join EXCEPT !.table = BuildRow(@, rows, join.next, BuildCols, q.hash),
                                      !.next = @ + 1]
              /\ UNCHANGED <<phase, locked>>
         [] OTHER ->
              /\ phase' = "open" /\ locked' = locked \ {BuildSide}
              /\ UNCHANGED join
  /\ UNCHANGED <<inputs, at, source, chunk, stage, agg, sorted, cursor, limits>>

-----------------------------------------------------------------------------
(* Chunks on their way.                                                    *)

Idle == phase = "open" /\ stage = "none"
Pulled == Idle /\ ~Reached
PairsLeft == join.cursor < Len(join.pairs)

\* TableScan::next.
Scan ==
  /\ Pulled /\ source = "scan" /\ ~PairsLeft
  /\ PartsLeft # {}
  /\ \E c \in {ChunkIn(Min(PartsLeft))} :
       /\ at' = [part |-> c.part, row |-> c.row + c.count]
       /\ chunk' = Chunk(RowsOf(c), NoSel)
  /\ stage' = IF IsJoin THEN "probe" ELSE StageFrom(1)
  /\ UNCHANGED <<inputs, source, join, agg, sorted, cursor, limits, locked, phase>>

\* load_next_probe_chunk_.
Probe ==
  /\ phase = "open" /\ stage = "probe"
  /\ LET rows == AllRows(BuildSide)
         matches == [r \in DOMAIN chunk.rows |->
                       MatchesOf(join.table, rows, BuildCols, KeyOf(chunk.rows[r], ProbeCols), q.hash)]
     IN  join' = [join EXCEPT !.rows = chunk.rows, !.pairs = match_pairs_(q.join, matches), !.cursor = 0]
  /\ stage' = "none" /\ chunk' = NoChunk
  /\ UNCHANGED <<inputs, at, source, agg, sorted, cursor, limits, locked, phase>>

\* emit_output_slice_ of the join.
Upto(from, n) == Min({from + ChunkSize, n})
EmitPairs ==
  /\ Pulled /\ source = "scan" /\ PairsLeft
  /\ LET last == Upto(join.cursor, Len(join.pairs))
         pair(i) == join.pairs[join.cursor + i]
         build == AllRows(BuildSide)
         row(p) == Joined(q.join, join.rows[p[1]], IF p[2] = 0 THEN <<>> ELSE build[p[2]],
                          t[BuildSide].width)
     IN  /\ chunk' = Chunk([i \in 1 .. (last - join.cursor) |-> row(pair(i))], NoSel)
         /\ join' = [join EXCEPT !.cursor = last]
  /\ stage' = StageFrom(1)
  /\ UNCHANGED <<inputs, at, source, agg, sorted, cursor, limits, locked, phase>>

\* Filter::next: an error ends the query, an empty chunk is not passed on.
FilterChunk ==
  /\ phase = "open" /\ stage \in {"where", "having"}
  /\ IF Fails(chunk, <<Predicate(stage)>>)
     THEN /\ Drop("error")
          /\ stage' = "none" /\ chunk' = NoChunk
     ELSE /\ \E c \in {Filtered(chunk, Predicate(stage))} :
               /\ stage' = IF Logical(c) = <<>> THEN "none" ELSE Above(stage)
               /\ chunk' = IF Logical(c) = <<>> THEN NoChunk ELSE c
          /\ UNCHANGED <<phase, locked>>
  /\ UNCHANGED <<inputs, at, source, join, agg, sorted, cursor, limits>>

\* aggregate_all_: the arguments of a chunk are evaluated before its first row is
\* counted, then one row at a time; without GROUP BY it counts for group 1.
GroupOf(row) ==
  LET key == [i \in DOMAIN q.group |-> row[binding_offsets[q.group[i][1]] + q.group[i][2]]]
  IN  IF q.group = <<>> THEN [a |-> agg, g |-> 1] ELSE find_or_create_group_(agg, key, q.hash)
Aggregate ==
  /\ phase = "open" /\ stage = "group"
  /\ IF Fails(chunk, <<Argument>>)
     THEN /\ Drop("error")
          /\ stage' = "none" /\ chunk' = NoChunk /\ UNCHANGED agg
     ELSE /\ \E rows \in {Logical(chunk)} :
               /\ \E f \in {GroupOf(Head(rows))} :
                    agg' = [f.a EXCEPT !.states[f.g] = update_state_(@, evaluate(Argument, Head(rows)))]
               /\ chunk' = Chunk(Tail(rows), NoSel)
               /\ stage' = IF Len(rows) = 1 THEN "none" ELSE stage
          /\ UNCHANGED <<locked, phase>>
  /\ UNCHANGED <<inputs, at, source, join, sorted, cursor, limits>>

\* consume_and_sort_ evaluates the keys of a chunk and buffers it.
Keyed(row) == [row |-> row, keys |-> [i \in DOMAIN SortExprs |-> evaluate(SortExprs[i], row)]]
Buffer ==
  /\ phase = "open" /\ stage = "order"
  /\ IF Fails(chunk, SortExprs)
     THEN Drop("error") /\ UNCHANGED sorted
     ELSE /\ \E rows \in {Logical(chunk)} : sorted' = sorted \o [i \in DOMAIN rows |-> Keyed(rows[i])]
          /\ UNCHANGED <<locked, phase>>
  /\ stage' = "none" /\ chunk' = NoChunk
  /\ UNCHANGED <<inputs, at, source, join, agg, cursor, limits>>

\* Project::next; its columns are gathered, so no selection is left.
ProjectChunk ==
  /\ phase = "open" /\ stage = "project"
  /\ IF Fails(chunk, Items)
     THEN /\ Drop("error")
          /\ stage' = "none" /\ chunk' = NoChunk
     ELSE /\ \E rows \in {Logical(chunk)} :
               chunk' = Chunk([r \in DOMAIN rows |->
                                 [i \in DOMAIN Items |-> evaluate(Items[i], rows[r])]], NoSel)
          /\ stage' = Above("project")
          /\ UNCHANGED <<phase, locked>>
  /\ UNCHANGED <<inputs, at, source, join, agg, sorted, cursor, limits>>

-----------------------------------------------------------------------------
(* Sources above the scan.                                                 *)

Dry ==
  CASE source = "scan" -> ~PairsLeft /\ PartsLeft = {}
    [] source = "group" -> cursor = Len(agg.keys)
    [] source = "order" -> cursor = Len(sorted)
NextSource ==
  CASE source = "scan" /\ q.agg -> "group"
    [] source = "order" \/ q.order = <<>> -> "none"
    [] OTHER -> "order"

\* aggregate_all_ and consume_and_sort_ at the end of their input: the child is
\* closed, and its locks with it; Sort sorts.
TurnOver ==
  /\ Pulled /\ Dry /\ NextSource # "none"
  /\ source' = NextSource /\ cursor' = 0
  /\ locked' = {}
  /\ sorted' = IF NextSource = "order" THEN stable_sort(sorted, q.order) ELSE sorted
  /\ UNCHANGED <<inputs, at, chunk, stage, join, agg, limits, phase>>

\* emit_slice_ of HashAggregate and of Sort.
EmitSlice ==
  /\ Pulled /\ source # "scan" /\ ~Dry
  /\ LET n == IF source = "group" THEN Len(agg.keys) ELSE Len(sorted)
         row(i) == IF source = "group" THEN GroupRow(agg.keys[i], agg.states[i]) ELSE sorted[i].row
     IN  /\ cursor' = Upto(cursor, n)
         /\ chunk' = Chunk([i \in 1 .. (Upto(cursor, n) - cursor) |-> row(cursor + i)], NoSel)
  /\ stage' = Above(source)
  /\ UNCHANGED <<inputs, at, source, join, agg, sorted, limits, locked, phase>>

-----------------------------------------------------------------------------
(* Limit.                                                                  *)

\* The pull that finds no more rows, or LIMIT rows returned: the result is
\* complete.
Finish ==
  /\ phase \in {"build", "open"} /\ stage = "none"
  /\ Reached \/ (phase = "open" /\ Dry /\ NextSource = "none")
  /\ Drop("done")
  /\ UNCHANGED <<inputs, at, source, chunk, stage, join, agg, sorted, cursor, limits>>

\* Without Limit a chunk goes to the result as it is.
Return ==
  /\ phase = "open" /\ stage = "caller"
  /\ out' = out \o Logical(chunk) /\ emitted' = emitted + Len(Logical(chunk))
  /\ stage' = "none" /\ chunk' = NoChunk
  /\ UNCHANGED <<inputs, at, source, join, agg, sorted, cursor, skipped, locked, phase>>

\* A chunk within OFFSET is passed over.
AtLimit == phase = "open" /\ stage = "limit"
ToSkip == q.offset - skipped
SkipChunk ==
  /\ AtLimit
  /\ ToSkip > 0 /\ Len(Logical(chunk)) <= ToSkip
  /\ skipped' = skipped + Len(Logical(chunk))
  /\ stage' = "none" /\ chunk' = NoChunk
  /\ UNCHANGED <<inputs, at, source, join, agg, sorted, cursor, emitted, out, locked, phase>>

\* The rows after OFFSET, as many as LIMIT leaves; with the last ones the operators
\* below are closed (close_child_eager), before the caller asks again.
Cut(c) == IF Len(Logical(c)) <= q.limit[1] - emitted THEN c ELSE resize(c, q.limit[1] - emitted)
EmitChunk ==
  /\ AtLimit
  /\ Len(Logical(chunk)) > ToSkip
  /\ \E rows \in {Logical(Cut(IF ToSkip > 0 THEN DropPrefix(chunk, ToSkip) ELSE chunk))} :
       /\ emitted' = emitted + Len(rows)
       /\ out' = out \o rows
  /\ skipped' = q.offset
  /\ locked' = IF emitted' = q.limit[1] THEN {} ELSE locked
  /\ stage' = "none" /\ chunk' = NoChunk
  /\ UNCHANGED <<inputs, at, source, join, agg, sorted, cursor, phase>>

-----------------------------------------------------------------------------

Init ==
  /\ \E c \in Cases : t = c[1] /\ q = c[2]
  /\ plan = <<>> /\ at = [part |-> 1, row |-> 0]
  /\ source = "scan" /\ chunk = NoChunk /\ stage = "none"
  /\ join = NoJoin /\ agg = NoGroups(q.group # <<>>) /\ sorted = <<>> /\ cursor = 0
  /\ skipped = 0 /\ emitted = 0 /\ out = <<>>
  /\ locked = {} /\ phase = "ready"

Next ==
  \/ Open \/ BuildJoin \/ Scan \/ Probe \/ EmitPairs \/ FilterChunk \/ Aggregate \/ Buffer
  \/ ProjectChunk \/ TurnOver \/ EmitSlice \/ SkipChunk \/ EmitChunk \/ Return \/ Finish

\* The caller (Database::execute) pulls until the end or an error.
Fairness == WF_vars(Next)
Spec == Init /\ [][Next]_vars /\ Fairness

-----------------------------------------------------------------------------
(* What the query asks for: rows of the tables in FROM's order.            *)

RefCtx(post) ==
  [offsets |-> [b \in DOMAIN t |-> IF b = 1 \/ q.join # "INNER" THEN 0 ELSE t[1].width],
   post_aggregate |-> post, group |-> q.group]

\* The live rows of a table, numbered by the rows before them.
Live(b) ==
  LET all == FlattenSeq([p \in DOMAIN t[b].parts |->
               [i \in DOMAIN t[b].parts[p].rows |->
                  [row |-> t[b].parts[p].rows[i], live |-> (i - 1) \notin t[b].parts[p].deleted]]])
      kept == SelectSeq([i \in DOMAIN all |-> i], LAMBDA i : all[i].live)
  IN  [i \in DOMAIN kept |-> Append(all[kept[i]].row, kept[i] - 1)]

\* Do the rows of two tables satisfy ON?
On(x, y) ==
  \A i \in DOMAIN q.on :
    LET value(ref) == IF ref[1] = 1 THEN x[ref[2]] ELSE y[ref[2]]
    IN  value(q.on[i][1]) # Null /\ value(q.on[i][1]) = value(q.on[i][2])

From ==
  IF ~IsJoin THEN Live(1)
  ELSE LET one == Live(1)
           two == Live(2)
           with(j) == SelectSeq(one, LAMBDA x : On(x, two[j]))
           inner(j) == [i \in DOMAIN with(j) |-> with(j)[i] \o two[j]]
           outer(j) == [i \in DOMAIN with(j) |-> two[j] \o with(j)[i]]
           nulls == [i \in 1 .. t[1].width |-> Null]
       IN  FlattenSeq([j \in DOMAIN two |->
             CASE q.join = "INNER" -> inner(j)
               [] q.join = "LEFT_OUTER" -> IF with(j) = <<>> THEN <<two[j] \o nulls>> ELSE outer(j)
               [] q.join = "SEMI" -> IF with(j) = <<>> THEN <<>> ELSE <<two[j]>>
               [] q.join = "ANTI" -> IF with(j) = <<>> THEN <<two[j]>> ELSE <<>>])

Satisfying(rows, conds, post) ==
  SelectSeq(rows, LAMBDA r : \A i \in DOMAIN conds :
    LET e == lower_expr_(conds[i], RefCtx(post)) IN evaluate(e, r) # Err /\ Truth(e, r) = 2)

\* One row per group key, in the order of the groups' first rows.
Grouped(rows) ==
  LET offset == RefCtx(FALSE).offsets
      key(i) == [g \in DOMAIN q.group |-> rows[i][offset[q.group[g][1]] + q.group[g][2]]]
      arg(i) == evaluate(lower_expr_(q.arg, RefCtx(FALSE)), rows[i])
      first == SelectSeq([i \in DOMAIN rows |-> i], LAMBDA i : \A j \in 1 .. (i - 1) : key(j) # key(i))
      of(k) == {i \in DOMAIN rows : key(i) = k}
      line(k) == LET some == {i \in of(k) : arg(i) # Null}
                     sum == MapThenSumSet(arg, some)
                 IN  k \o <<Cardinality(of(k)), Cardinality(some)>>
                       \o IF some = {} THEN <<Null, Null, Null, Null>>
                          ELSE <<sum, Min({arg(i) : i \in some}), Max({arg(i) : i \in some}),
                                 <<sum, Cardinality(some)>>>>
  IN  IF q.group = <<>> THEN <<line(<<>>)>>
      ELSE [n \in DOMAIN first |-> line(key(first[n]))]

\* ORDER BY as numbers: NULLs are past every value, before or after.
Ordered(rows) ==
  LET value(r, i) == evaluate(lower_expr_(q.order[i].e, RefCtx(q.agg)), r)
      number(r, i) == CASE value(r, i) # Null -> IF q.order[i].asc THEN value(r, i) ELSE -value(r, i)
                        [] OTHER -> IF q.order[i].nulls = "FIRST" THEN -1000 ELSE 1000
      cmp(r, s) == LET diff == {i \in DOMAIN q.order : number(r, i) # number(s, i)}
                   IN  IF diff = {} THEN 0 ELSE number(r, Min(diff)) - number(s, Min(diff))
      rank(i) == Cardinality({j \in DOMAIN rows :
                   cmp(rows[j], rows[i]) < 0 \/ (cmp(rows[j], rows[i]) = 0 /\ j < i)})
  IN  [n \in DOMAIN rows |-> rows[CHOOSE i \in DOMAIN rows : rank(i) = n - 1]]

BeforeProject ==
  LET kept == Satisfying(From, q.where, FALSE)
      groups == IF q.agg THEN Grouped(kept) ELSE kept
      having == Satisfying(groups, q.having, q.agg)
  IN  IF q.order = <<>> THEN having ELSE Ordered(having)
Shown(r) ==
  IF q.project = <<>> THEN r
  ELSE [i \in DOMAIN q.project |-> evaluate(lower_expr_(q.project[i], RefCtx(q.agg)), r)]
Matching(rows, r) == Cardinality({i \in DOMAIN rows : rows[i] = r})

\* Does an expression err on a row that comes to it: WHERE's, an aggregate's
\* argument, HAVING's, a sort key or a select item?
Erring ==
  LET errs(rows, exprs, post) ==
        \E r \in Range(rows), e \in exprs : evaluate(lower_expr_(e, RefCtx(post)), r) = Err
      kept == Satisfying(From, q.where, FALSE)
      groups == IF q.agg THEN Grouped(kept) ELSE kept
      having == Satisfying(groups, q.having, q.agg)
      keys == {q.order[i].e : i \in DOMAIN q.order}
  IN  \/ errs(From, Range(q.where), FALSE)
      \/ q.agg /\ errs(kept, {q.arg}, FALSE)
      \/ errs(groups, Range(q.having), q.agg)
      \/ errs(having, keys \cup Range(q.project), q.agg)
BadOn == \E i \in DOMAIN q.on : q.on[i][1][1] = q.on[i][2][1]

-----------------------------------------------------------------------------
(* Properties.                                                             *)

\* Phases and stages in their sets; cursors within what they run over; no more rows
\* out than LIMIT.
TypeOK ==
  /\ phase \in {"ready", "build", "open", "done", "error"}
  /\ stage \in {"none", "probe"} \cup Range(Stages) /\ source \in {"scan", "group", "order"}
  /\ locked \subseteq DOMAIN t
  /\ join.cursor <= Len(join.pairs) /\ Len(agg.keys) = Len(agg.states)
  /\ cursor \in 0 .. Len(agg.keys \o sorted)
  /\ skipped \in 0 .. q.offset
  /\ emitted = Len(out) /\ \A i \in DOMAIN q.limit : emitted <= q.limit[i]

\* A finished query has returned the rows SQL asks for: those of WHERE, grouped,
\* those of HAVING, in ORDER BY's order, projected, and for a query with LIMIT from
\* OFFSET on and no more than LIMIT, whatever chunks, selections and hash collisions
\* came on the way.  OFFSET without LIMIT is accepted and drops nothing.  The rows
\* of a join have no order of their own, so without ORDER BY they are compared as a
\* bag, of which LIMIT may take any part.
Window(n) ==
  IF q.limit = <<>> THEN [from |-> 1, to |-> n]
  ELSE [from |-> q.offset + 1, to |-> Min({n, q.offset + q.limit[1]})]
AnswerExact ==
  phase = "done" =>
    \E all \in {[i \in DOMAIN BeforeProject |-> Shown(BeforeProject[i])]} :
      LET w == Window(Len(all))
      IN  IF IsJoin /\ q.order = <<>>
          THEN /\ Len(out) = Max({0, w.to + 1 - w.from})
               /\ \A r \in Range(out) : Matching(out, r) <= Matching(all, r)
          ELSE q.limit # <<0>> => out = SubSeq(all, w.from, w.to)

\* A query fails when ON is no equality between the two tables, or when an
\* expression errs on a row that reaches it, in a filter, an aggregate's argument, a
\* sort key or a select item; a filter hides rows from the operators above.  It does
\* not finish past such a row unless LIMIT stops it earlier.
FailsOnlyOnError ==
  /\ phase = "error" => BadOn \/ Erring
  /\ phase = "done" /\ ~Reached => ~Erring

\* Every build row with a key, and every group, is met exactly once by a probe for
\* its hash, through collisions, the end of the array and resize_table_, and an
\* empty slot is left for the probe to stop at.
ProbingReaches ==
  LET once(table, h, ref) == Cardinality({d \in DOMAIN Path(table, h) : Path(table, h)[d].ref = ref}) = 1
      hole(table) == \E s \in DOMAIN table : table[s] = NoEntry
  IN  /\ join.next > 0 =>
           /\ hole(join.table)
           /\ \A i \in 1 .. (join.next - 1) :
                LET key == KeyOf(AllRows(BuildSide)[i], BuildCols)
                IN  any_key_null(key) \/ once(join.table, q.hash[key], i)
      /\ q.group # <<>> =>
           /\ hole(agg.table)
           /\ \A g \in DOMAIN agg.keys : once(agg.table, q.hash[agg.keys[g]], g)
           /\ IsInjective(agg.keys)

\* When the planner turns WHERE into the bounds of an index scan and drops it, the
\* scan visits the keys for which the condition is true.  An upper bound alone
\* brings the NULLs along, which the index sorts first and no filter removes: the
\* same query without the index does not return them.
IndexChoosesSame ==
  phase = "done" /\ ~IsJoin =>
    \A e \in {c \in Range(q.where) : Indexable(c)}, r \in Range(Live(1)) :
      LET b == try_index_scan_(e)
          key == r[(IF e.l.k = "col" THEN e.l ELSE e.r).c]
      IN  Visits(b, key) = \/ Truth(lower_expr_(e, RefCtx(FALSE)), r) = 2
                           \/ key = Null /\ b.lo = {}

\* Every query ends, with its answer or an error, and the locks its scans took on
\* their tables do not stay: Limit, Sort, HashAggregate and HashJoin close what is
\* below them early, and the rest goes with the plan.
LockReleased == <>[](phase \in {"done", "error"} /\ locked = {})
=============================================================================
