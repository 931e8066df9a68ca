------------------------- MODULE BlockingOperators -------------------------
(***************************************************************************)
(* What HashJoin, HashAggregate and Sort do with a row (executor/).  Both  *)
(* hash tables are arrays of 0 .. size - 1 with linear probing, a slot     *)
(* holding NoEntry or [hash, ref], ref the number of a build row or of a   *)
(* group.  Keys are sequences of column values, hashed by a function.      *)
(***************************************************************************)
EXTENDS Expressions, SequencesExt, FiniteSetsExt

CONSTANTS
  NoEntry,    \* an empty slot (UINT32_MAX)
  FirstSize   \* size of a new group table (INITIAL_TABLE_SIZE, 16)

ASSUME FirstSizeAssumption == FirstSize \in Nat \ {0, 1}

-----------------------------------------------------------------------------
(* Probing.                                                                *)

EmptyTable(size) == [s \in 0 .. (size - 1) |-> NoEntry]
SizeOf(table) == Cardinality(DOMAIN table)
Slot(table, h, d) == (h + d) % SizeOf(table)

\* The distance from a hash's own slot to the first empty one, and the entries
\* passed on the way.
ToHole(table, h) == Min({d \in DOMAIN table : table[Slot(table, h, d)] = NoEntry})
Path(table, h) == [d \in 1 .. ToHole(table, h) |-> table[Slot(table, h, d - 1)]]
Placed(table, h, ref) ==
  [table EXCEPT ![Slot(table, h, ToHole(table, h))] = [hash |-> h, ref |-> ref]]

-----------------------------------------------------------------------------
(* HashJoin.                                                               *)

next_pow2(x) == Min({p \in {2 ^ i : i \in 0 .. x} : p >= x})
KeyOf(row, cols) == [i \in DOMAIN cols |-> row[cols[i]]]
any_key_null(key) == Null \in Range(key)

\* The table build_side_ starts from.
JoinTable(rows, cols) ==
  LET n == Len(SelectSeq(rows, LAMBDA r : ~any_key_null(KeyOf(r, cols))))
  IN  EmptyTable(next_pow2(Max({1, 2 * n})))

\* One row of the build side.
BuildRow(table, rows, i, cols, hash) ==
  LET key == KeyOf(rows[i], cols)
  IN  IF any_key_null(key) THEN table ELSE Placed(table, hash[key], i)

\* The build rows a probe row meets, in the order of the table.
MatchesOf(table, rows, cols, key, hash) ==
  IF any_key_null(key) THEN <<>>
  ELSE LET hits == SelectSeq(Path(table, hash[key]),
                             LAMBDA e : e.hash = hash[key] /\ KeyOf(rows[e.ref], cols) = key)
       IN  [i \in DOMAIN hits |-> hits[i].ref]

\* load_next_probe_chunk_: match_pairs_ of a chunk, <<probe row, build row>>, the
\* build row 0 for none.  Rows without a match come after the others.
match_pairs_(type, matches) ==
  LET of(r) == CASE type \in {"INNER", "LEFT_OUTER"} -> [i \in DOMAIN matches[r] |-> <<r, matches[r][i]>>]
                 [] type = "SEMI" -> IF matches[r] = <<>> THEN <<>> ELSE <<<<r, 0>>>>
                 [] type = "ANTI" -> <<>>
      none == SelectSeq([r \in DOMAIN matches |-> r], LAMBDA r : matches[r] = <<>>)
  IN  FlattenSeq([r \in DOMAIN matches |-> of(r)])
        \o (IF type \in {"LEFT_OUTER", "ANTI"} THEN [i \in DOMAIN none |-> <<none[i], 0>>] ELSE <<>>)

\* emit_output_slice_: probe columns, then build columns or as many NULLs.
Joined(type, probe, build, width) ==
  IF type \in {"SEMI", "ANTI"} THEN probe
  ELSE probe \o (IF build = <<>> THEN [i \in 1 .. width |-> Null] ELSE build)

-----------------------------------------------------------------------------
(* HashAggregate: [table, keys, states], the last two by group number.     *)

InitialState == [star |-> 0, count |-> 0, sum |-> Null, min |-> Null, max |-> Null]
update_state_(s, arg) ==
  IF arg = Null THEN [s EXCEPT !.star = @ + 1]
  ELSE [star |-> s.star + 1, count |-> s.count + 1,
        sum |-> (IF s.sum = Null THEN 0 ELSE s.sum) + arg,  \* an i64 of i32s
        min |-> IF s.min = Null \/ arg < s.min THEN arg ELSE s.min,
        max |-> IF s.max = Null \/ arg > s.max THEN arg ELSE s.max]

\* The constructor: without GROUP BY there is one group from the start.
NoGroups(grouped) ==
  [table |-> EmptyTable(FirstSize),
   keys |-> IF grouped THEN <<>> ELSE <<<<>>>>,
   states |-> IF grouped THEN <<>> ELSE <<InitialState>>]

\* Mutant: the old table is copied, each entry to the slot it had.
resize_table__Copied(table, keys, hash) ==
  [s \in 0 .. (2 * SizeOf(table) - 1) |-> IF s \in DOMAIN table THEN table[s] ELSE NoEntry]

\* resize_table_: every group is placed again, in the order of their numbers.
resize_table_(table, keys, hash) ==
  LET new[g \in 0 .. Len(keys)] ==
        IF g = 0 THEN EmptyTable(2 * SizeOf(table))
        ELSE CHOOSE n \in {Placed(old, hash[keys[g]], g) : old \in {new[g - 1]}} : TRUE
  IN  new[Len(keys)]

\* find_or_create_group_: the group a probe finds, or the groups with a new one,
\* the table grown when more than half full.
GroupsFound(a, key, hash) ==
  {e.ref : e \in {x \in Range(Path(a.table, hash[key])) : x.hash = hash[key] /\ a.keys[x.ref] = key}}
CreateGroup(a, key, hash) ==
  LET new == Len(a.keys) + 1
      table == Placed(a.table, hash[key], new)
  IN  [table |-> IF new * 2 > SizeOf(a.table) THEN resize_table_(table, Append(a.keys, key), hash)
                 ELSE table,
       keys |-> Append(a.keys, key),
       states |-> Append(a.states, InitialState)]
find_or_create_group_(a, key, hash) ==
  CHOOSE r \in {IF found = {} THEN [a |-> CreateGroup(a, key, hash), g |-> Len(a.keys) + 1]
                ELSE [a |-> a, g |-> Min(found)] : found \in {GroupsFound(a, key, hash)}} : TRUE

\* emit_slice_: keys, then COUNT(*), COUNT, SUM, MIN, MAX and AVG, a quotient.
GroupRow(key, s) ==
  key \o <<s.star, s.count, s.sum, s.min, s.max, IF s.count = 0 THEN Null ELSE <<s.sum, s.count>>>>

-----------------------------------------------------------------------------
(* Sort: a row is buffered with the values of its keys, [row, keys]; an    *)
(* ORDER BY item is [e, asc, nulls].                                       *)

\* less_: the first key in which the rows differ decides.
less_(order, l, r) ==
  \E k \in DOMAIN order :
    LET a == l.keys[k]
        b == r.keys[k]
    IN  /\ \A j \in 1 .. (k - 1) : l.keys[j] = r.keys[j]
        /\ CASE a = Null /\ b = Null -> FALSE
             [] a = Null /\ b # Null -> order[k].nulls = "FIRST"
             [] a # Null /\ b = Null -> order[k].nulls = "LAST"
             [] OTHER -> IF order[k].asc THEN a < b ELSE a > b

\* std::stable_sort: the row with i - 1 rows before it, less or equal and earlier.
stable_sort(rows, order) ==
  LET before(i) == {j \in DOMAIN rows : \/ less_(order, rows[j], rows[i])
                                        \/ j < i /\ ~less_(order, rows[i], rows[j])}
  IN  [i \in DOMAIN rows |-> rows[CHOOSE j \in DOMAIN rows : Cardinality(before(j)) = i - 1]]
=============================================================================
