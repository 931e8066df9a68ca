----------------------------- MODULE MCExecutor -----------------------------
EXTENDS Executor

NoLimit == <<>>
Small == {Null, 0, 1}

Lit(v) == [k |-> "lit", v |-> v]
Col(b, c) == [k |-> "col", b |-> b, c |-> c]
Agg(i) == [k |-> "agg", i |-> i]
Node(k, op, l, r) == [k |-> k, op |-> op, l |-> l, r |-> r]
Cmp(op, l, r) == Node("cmp", op, l, r)
IsNull(l) == Node("null", FALSE, l, l)
IsNotNull(l) == Node("null", TRUE, l, l)
Not(l) == Node("not", "NOT", l, l)
By(e, asc, nulls) == [e |-> e, asc |-> asc, nulls |-> nulls]

\* A query with nothing but FROM, and functions that hash keys of one column.
Plain ==
  [on |-> <<>>, join |-> "INNER", where |-> <<>>, agg |-> FALSE, group |-> <<>>, arg |-> Col(1, 1),
   having |-> <<>>, order |-> <<>>, project |-> <<>>, strategy |-> "COMPACT", range |-> NoRange,
   offset |-> 0, limit |-> NoLimit, hash |-> <<>>]
Keys == {<<v>> : v \in {Null} \cup 0 .. 3}
Hashes ==
  {[k \in Keys |-> 3], [k \in Keys |-> IF k[1] = Null THEN 7 ELSE k[1] % 2],
   [k \in Keys |-> IF k[1] = Null THEN 1 ELSE 5 * k[1] + 2]}

-----------------------------------------------------------------------------
(* Scans: a segment of three pages and a write buffer.                     *)

Segment(r) == <<r[1], r[1], r[1], r[2], r[3], r[1], r[1], r[4], r[2]>>
OneTable(r, dead) ==
  <<[width |-> 2,
     parts |-> <<[base |-> 0, rows |-> [i \in 1 .. 9 |-> <<Segment(r)[i]>>], deleted |-> dead[1]],
                 [base |-> 9, rows |-> <<<<r[3]>>, <<r[4]>>>>, deleted |-> dead[2]]>>]>>
Deletions == {<<{}, {}>>, <<{7, 8}, {0}>>}
C == Col(1, 1)
Conditions ==
  {<<IsNotNull(C)>>, <<Cmp("GT", Lit(1), C)>>,
   <<Node("or", "OR", Cmp("LE", Lit(1), C), Not(Cmp("NE", C, Lit(0))))>>,
   <<Not(Node("and", "AND", Cmp("LT", C, Lit(1)), IsNull(Lit(0))))>>,
   <<Cmp("LT", Node("arith", "ADD", C, Lit(1)), Lit(1))>>,
   <<Cmp("GE", Node("div", "DIV", Lit(1), C), Lit(0))>>}
Stacked ==
  [Plain EXCEPT !.where = <<Node("or", "OR", IsNull(C), Cmp("EQ", C, Lit(1)))>>,
                !.having = <<Cmp("GE", Node("div", "DIV", Lit(1), C), Lit(1))>>]
Both == <<C, Col(1, 2)>>
Reciprocal == Node("div", "DIV", Lit(1), C)
Plus == Node("arith", "ADD", C, Lit(1))
Windows == {<<0, NoLimit>>, <<1, <<3>>>>, <<4, <<4>>>>}

\* Filters the planner stacks copy, and a projection is above them.
Filters ==
  {[Plain EXCEPT !.where = c, !.strategy = s[1], !.project = s[2], !.offset = w[1], !.limit = w[2]] :
     c \in Conditions, s \in {<<"COMPACT", Both>>, <<"SELECT", <<>>>>}, w \in Windows}
  \cup {[Stacked EXCEPT !.strategy = "SELECT"], [Plain EXCEPT !.limit = <<0>>],
         [Plain EXCEPT !.project = Both, !.offset = 2],
         [Plain EXCEPT !.where = <<Cmp("EQ", C, Lit(1))>>, !.range = <<1, 1>>],
         [Plain EXCEPT !.project = <<Reciprocal, Col(1, 2)>>],
         [Plain EXCEPT !.project = Both, !.order = <<By(Reciprocal, TRUE, "LAST"), By(Plus, FALSE, "LAST")>>],
         [Plain EXCEPT !.order = <<By(C, FALSE, "LAST")>>, !.offset = 1, !.limit = <<8>>]}
ScanCases == {<<OneTable(r, d), q0>> : r \in [1 .. 4 -> Small], d \in Deletions, q0 \in Filters}

\* Every comparison the planner takes an index for, the column on either side.
Comparisons ==
  {Cmp(op, s[1], s[2]) : op \in {"EQ", "LT", "LE", "GT", "GE"}, s \in {<<C, Lit(0)>>, <<Lit(0), C>>}}
IndexCases ==
  {<<<<[width |-> 2, parts |-> <<[base |-> 0, rows |-> <<<<-1>>, <<0>>, <<Null>>, <<1>>>>, deleted |-> d]>>]>>,
     [Plain EXCEPT !.where = <<c>>, !.project = Both]>> : d \in {{}, {1}}, c \in Comparisons}

-----------------------------------------------------------------------------
(* Grouping and sorting two columns.                                       *)

Pairs(rows) == <<[width |-> 3, parts |-> <<[base |-> 0, rows |-> rows, deleted |-> {}]>>]>>
GroupRows ==
  {<<<<a, 0>>, <<b, Null>>, <<c, 1>>, <<a, 3>>, <<b, 2>>, <<d, Null>>>> :
     a, b, c \in {Null, 0, 1}, d \in {2, 3}}
Groups ==
  {[Plain EXCEPT !.agg = TRUE, !.group = g, !.arg = arg, !.hash = h, !.having = having,
                 !.order = order] :
     arg \in {Col(1, 2)}, g \in {<<>>, <<<<1, 1>>>>}, h \in Hashes,
     having \in {<<>>, <<Cmp("GE", Agg(3), Lit(1))>>},
     order \in {<<>>, <<By(Agg(3), FALSE, "LAST")>>}}
  \cup {[Plain EXCEPT !.agg = TRUE, !.group = <<<<1, 1>>>>, !.arg = Node("div", "DIV", Lit(1), Col(1, 1)),
                       !.hash = h] : h \in Hashes}
GroupCases == {<<Pairs(r), q0>> : r \in GroupRows, q0 \in Groups}
SortRows == [1 .. 3 -> Small \X {Null, 1}]
Sorts ==
  {[Plain EXCEPT !.order = <<By(Col(1, 2), asc, "FIRST"), By(Col(1, 1), ~asc, nulls)>>,
                 !.project = <<Col(1, 1), Col(1, 3)>>] :
     asc \in BOOLEAN, nulls \in {"FIRST", "LAST"}}
SortCases == {<<Pairs(r), q0>> : r \in SortRows, q0 \in Sorts}

-----------------------------------------------------------------------------
(* Joins of tables of one column.                                          *)

Single(rows) == [width |-> 2, parts |-> <<[base |-> 0, rows |-> [i \in DOMAIN rows |-> <<rows[i]>>], deleted |-> {}]>>]
Joinable ==
  {<<Single(a), Single(b)>> :
     a \in [1 .. 3 -> {Null, 0, 2}], b \in {<<0, 0, 0, 0>>, <<0, 2, Null, 3>>, <<2, 0>>}}
Joins ==
  {[Plain EXCEPT !.on = <<<<<<1, 1>>, <<2, 1>>>>>>, !.hash = h, !.limit = l,
                 !.project = <<Col(2, 1), Col(1, 2), Col(2, 2)>>] : h \in Hashes, l \in {<<1>>, NoLimit}}
  \cup {[Plain EXCEPT !.on = <<<<<<1, 1>>, <<1, 1>>>>>>, !.hash = CHOOSE h \in Hashes : TRUE]}
Outer ==
  {[Plain EXCEPT !.on = <<<<<<1, 1>>, <<2, 1>>>>>>, !.hash = h, !.join = j] :
     h \in Hashes, j \in {"LEFT_OUTER", "SEMI", "ANTI"}}
JoinCases ==
  {<<j, q0>> : j \in Joinable, q0 \in Joins}
  \cup {<<j, q0>> : j \in {x \in Joinable : Len(x[2].parts[1].rows) = 4}, q0 \in Outer}

MCCases == ScanCases \cup IndexCases \cup GroupCases \cup SortCases \cup JoinCases
=============================================================================
