---------------------------- MODULE Expressions ----------------------------
(***************************************************************************)
(* Expressions over one row (executor/expression.cpp) and their lowering   *)
(* from columns of tables to places in a row (Planner::lower_expr_).  A    *)
(* row is a sequence of integers and Nulls; a condition is an integer, 0   *)
(* false and any other true, or Null.  A node is [k, op, l, r] with k one  *)
(* of "cmp", "arith", "div", "and", "or", "not", "null" (op says whether   *)
(* IS NOT NULL), a literal [k, v], a column [k, b, c] of binding b, an     *)
(* aggregate [k, i], or a place [k, i] in the row.                         *)
(***************************************************************************)
EXTENDS Integers, Sequences

CONSTANTS
  Null,
  Err,   \* an error in place of a value ("division by zero")
  Half   \* integers are -Half .. Half - 1 (2^31)

ASSUME HalfAssumption == Half \in Nat \ {0}

\* Signed overflow wraps in the builds of the repository; a quotient that
\* overflows (the smallest integer by -1) traps instead and is not enumerated.
Wrap(x) == ((x + Half) % (2 * Half)) - Half
Compare(op, a, b) ==
  CASE op = "EQ" -> a = b [] op = "NE" -> a # b [] op = "LT" -> a < b
    [] op = "LE" -> a <= b [] op = "GT" -> a > b [] op = "GE" -> a >= b
Bit(b) == IF b THEN 1 ELSE 0
Abs(x) == IF x < 0 THEN -x ELSE x
Quotient(a, b) ==  \* rounds towards zero
  IF (a < 0) = (b < 0) THEN Abs(a) \div Abs(b) ELSE -(Abs(a) \div Abs(b))

cmp_kernel(op, a, b) == IF Null \in {a, b} THEN Null ELSE Bit(Compare(op, a, b))
arith_kernel(op, a, b) ==
  IF Null \in {a, b} THEN Null
  ELSE Wrap(CASE op = "ADD" -> a + b [] op = "SUB" -> a - b [] op = "MUL" -> a * b)
div_kernel(a, b) ==
  IF Null \in {a, b} THEN Null ELSE IF b = 0 THEN Err ELSE Wrap(Quotient(a, b))

and_kernel(a, b) == IF 0 \in {a, b} THEN 0 ELSE IF Null \in {a, b} THEN Null ELSE 1
or_kernel(a, b) ==
  IF {a, b} \ {Null, 0} # {} THEN 1 ELSE IF Null \in {a, b} THEN Null ELSE 0
not_kernel(a) == IF a = Null THEN Null ELSE Bit(a = 0)
is_null_kernel(a, negate) == Bit((a = Null) # negate)

Unary == {"not", "null"}

\* evaluate: both operands of a node are evaluated, and an error of one is the
\* node's (AND and OR do not stop early).
RECURSIVE evaluate(_, _)
evaluate(e, row) ==
  IF e.k = "at" THEN row[e.i]
  ELSE IF e.k = "lit" THEN e.v
  ELSE LET a == evaluate(e.l, row)
           b == IF e.k \in Unary THEN a ELSE evaluate(e.r, row)
       IN  IF Err \in {a, b} THEN Err
           ELSE CASE e.k = "cmp" -> cmp_kernel(e.op, a, b)
                  [] e.k = "arith" -> arith_kernel(e.op, a, b)
                  [] e.k = "div" -> div_kernel(a, b)
                  [] e.k = "and" -> and_kernel(a, b)
                  [] e.k = "or" -> or_kernel(a, b)
                  [] e.k = "not" -> not_kernel(a)
                  [] e.k = "null" -> is_null_kernel(a, e.op)
Keeps(e, row) == evaluate(e, row) \notin {Null, 0, Err}

\* lower_expr_: a column is at its binding's offset, or, above an aggregate, at
\* its place among the group keys, which the aggregates follow.
Place(c, ctx) ==
  IF ctx.post_aggregate THEN CHOOSE i \in DOMAIN ctx.group : ctx.group[i] = <<c.b, c.c>>
  ELSE ctx.offsets[c.b] + c.c
RECURSIVE lower_expr_(_, _)
lower_expr_(e, ctx) ==
  CASE e.k = "lit" -> e
    [] e.k = "col" -> [k |-> "at", i |-> Place(e, ctx)]
    [] e.k = "agg" -> [k |-> "at", i |-> Len(ctx.group) + e.i]
    [] e.k \in Unary -> [e EXCEPT !.l = lower_expr_(@, ctx)]
    [] OTHER -> [e EXCEPT !.l = lower_expr_(@, ctx), !.r = lower_expr_(@, ctx)]

\* What SQL says of a condition: 0 false, 1 unknown, 2 true; AND is the least,
\* OR the greatest.
RECURSIVE Truth(_, _)
Truth(e, row) ==
  CASE e.k = "and" -> LET a == Truth(e.l, row)
                          b == Truth(e.r, row)
                      IN  IF a < b THEN a ELSE b
    [] e.k = "or" -> LET a == Truth(e.l, row)
                         b == Truth(e.r, row)
                     IN  IF a > b THEN a ELSE b
    [] e.k = "not" -> 2 - Truth(e.l, row)
    [] e.k = "null" -> IF (evaluate(e.l, row) = Null) = e.op THEN 0 ELSE 2
    [] OTHER -> LET v == evaluate(e, row) IN IF v = Null THEN 1 ELSE 2 * v
=============================================================================
