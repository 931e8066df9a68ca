------------------------------- MODULE ShardMap -------------------------------
(***************************************************************************)
(* The partition map of a sharded table (storage/disk/shard_map_file.cpp): *)
(* which partition a row belongs to, and which partitions a SELECT with a  *)
(* predicate on the partition column asks.  A map is a sequence of         *)
(* partitions [max, upper, addr]; upper says nothing when max holds.  The  *)
(* partition column's values are integers, compared as compare_values      *)
(* does, and Null.                                                         *)
(***************************************************************************)
EXTENDS Integers, Sequences

CONSTANT Null

ASSUME NullAssumption == Null \notin Int

Partition(upper, addr) == [max |-> FALSE, upper |-> upper, addr |-> addr]
MaxPartition(addr) == [max |-> TRUE, upper |-> 0, addr |-> addr]

\* Maps of partitions on the nodes A, one of them MAXVALUE.  The binder asks for
\* neither one nor for ascending bounds; without one, a row above all bounds goes
\* to the last partition.
Partitions(A) == [max : BOOLEAN, upper : Int, addr : A]
IsMap(m, A) ==
  /\ m \in Seq(Partitions(A))
  /\ \E i \in DOMAIN m : m[i].max

Comparisons == {"EQ", "NE", "LT", "LE", "GT", "GE"}

\* What the operator means on the shard that evaluates it: nothing compares
\* with Null.
Holds(op, v, lit) ==
  /\ v # Null
  /\ CASE op = "EQ" -> v = lit
       [] op = "NE" -> v # lit
       [] op = "LT" -> v < lit
       [] op = "LE" -> v <= lit
       [] op = "GT" -> v > lit
       [] op = "GE" -> v >= lit

\* The first partition of a set of places.
First(places) == CHOOSE i \in places : \A j \in places : i <= j

\* shard_for_value: the first partition with the value below its bound, a
\* MAXVALUE partition taking all; the last one if there is none.
Takes(p, v) == p.max \/ (v # Null /\ v < p.upper)
shard_for_value(m, v) ==
  LET takers == {i \in DOMAIN m : Takes(m[i], v)}
  IN  IF takers = {} THEN Len(m) ELSE First(takers)

\* The loop of prune_partitions ends at the first MAXVALUE partition.
Visited(m) == {i \in DOMAIN m : \A j \in 1 .. (i - 1) : ~m[j].max}

\* Mutant: a value at a bound belongs to the partition below.
Keeps_BoundBelow(m, i, op, lit) ==
  \/ m[i].max
  \/ op = "EQ" /\ (i = 1 \/ m[i - 1].upper < lit) /\ lit <= m[i].upper
  \/ op \in {"LT", "LE"} /\ (i = 1 \/ m[i - 1].upper < lit)
  \/ op \in {"GT", "GE"} /\ m[i].upper > lit
  \/ op = "NE"

\* One round of the loop; m[i - 1] is the partition visited before.
Keeps(m, i, op, lit) ==
  \/ m[i].max
  \/ op = "EQ" /\ (i = 1 \/ m[i - 1].upper <= lit) /\ lit < m[i].upper
  \/ op \in {"LT", "LE"} /\ (i = 1 \/ m[i - 1].upper < lit)
  \/ op \in {"GT", "GE"} /\ m[i].upper > lit
  \/ op = "NE"

\* prune_partitions for a predicate on the partition column.
prune_partitions(m, op, lit) ==
  LET out == {i \in Visited(m) : Keeps(m, i, op, lit)}
  IN  IF out = {} THEN DOMAIN m ELSE out

\* bind_alter_add_partition: the new partition goes before the first MAXVALUE
\* partition, at the end if there is none; its bound is not compared with the
\* others.
AddPartition(m, p) ==
  LET maxes == {i \in DOMAIN m : m[i].max}
      at == IF maxes = {} THEN Len(m) + 1 ELSE First(maxes)
  IN  [i \in 1 .. (Len(m) + 1) |->
         IF i < at THEN m[i] ELSE IF i = at THEN p ELSE m[i - 1]]

\* The one predicate whose rows the loop loses: LE with the bound itself, whose
\* row is the first of the next partition.
AtBound(m, op, v, lit) ==
  op = "LE" /\ v = lit /\ \E i \in DOMAIN m : ~m[i].max /\ m[i].upper = lit
=============================================================================
