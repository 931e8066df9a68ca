-------------------------- MODULE ShardingProofs ----------------------------
(***************************************************************************)
(* For any groups, keys, partitions and bounds: a SELECT asks the shard of *)
(* every row that matches, ADD PARTITION changes the shard of exactly the  *)
(* rows it moves, and the map keeps the partitions it was given.           *)
(***************************************************************************)
EXTENDS ShardingInvariant, WellFoundedInduction, TLAPS

-----------------------------------------------------------------------------
(* Routing, for every map with a MAXVALUE partition, sorted or not.        *)

\* The first of a nonempty set of places is one of them and none is before it.
LEMMA FirstIsLeast ==
  ASSUME NEW S, S \subseteq Nat, S # {}
  PROVE  First(S) \in S /\ \A j \in S : First(S) <= j
<1> DEFINE R == {ss \in Nat \X Nat : ss[1] < ss[2]}
<1>1. IsWellFoundedOn(R, Nat)
  BY NatLessThanWellFounded DEF OpToRel
<1>2. \A x, y \in Nat : ~(<<y, x>> \in R) => x <= y
  OBVIOUS
<1> HIDE DEF R
<1>3. \E x \in S : \A y \in S : ~(<<y, x>> \in R)
  BY <1>1, WFMin, Zenon
<1>4. \E x \in S : \A y \in S : x <= y
  BY <1>2, <1>3, Zenon
<1> QED BY <1>4, Zenon DEF First

\* shard_for_value finds a partition that takes the value, the first one.
LEMMA RoutedToFirstTaker ==
  ASSUME NEW A, NEW m, IsMap(m, A), NEW v
  PROVE  LET i == shard_for_value(m, v)
         IN  /\ i \in DOMAIN m /\ Takes(m[i], v)
             /\ \A j \in 1 .. (i - 1) : j \in DOMAIN m /\ ~Takes(m[j], v)
<1> DEFINE takers == {i \in DOMAIN m : Takes(m[i], v)}
           i == shard_for_value(m, v)
<1>1. DOMAIN m = 1 .. Len(m) /\ Len(m) \in Nat
  BY DEF IsMap
<1>2. takers # {} /\ takers \subseteq Nat
  BY <1>1 DEF IsMap, Takes
<1>3. i = First(takers)
  BY <1>2 DEF shard_for_value
<1>4. i \in takers /\ \A j \in takers : i <= j
  BY <1>2, <1>3, FirstIsLeast
<1> QED BY <1>1, <1>4

\* prune_partitions keeps the shard of every row for which the predicate holds,
\* LE at a partition's bound excepted: a SELECT that fans out to the pruned
\* shards misses no row that shard_for_value placed.
THEOREM PruneKeepsRouted ==
  ASSUME NEW A, NEW m, IsMap(m, A), NEW v \in Int, NEW lit \in Int, NEW cmp \in Comparisons,
         Holds(cmp, v, lit), ~AtBound(m, cmp, v, lit)
  PROVE  shard_for_value(m, v) \in prune_partitions(m, cmp, lit)
<1> DEFINE i == shard_for_value(m, v)
<1>1. /\ i \in DOMAIN m /\ Takes(m[i], v)
      /\ \A j \in 1 .. (i - 1) : j \in DOMAIN m /\ ~Takes(m[j], v)
  BY RoutedToFirstTaker
<1>2. DOMAIN m = 1 .. Len(m) /\ Len(m) \in Nat
  BY DEF IsMap
<1>3. \A j \in DOMAIN m : m[j].max \in BOOLEAN /\ m[j].upper \in Int
  <2>1. \A j \in DOMAIN m : m[j] \in Partitions(A)
    BY <1>2 DEF IsMap
  <2> QED BY <2>1 DEF Partitions
<1>4. i \in Visited(m)
  BY <1>1 DEF Visited, Takes
<1>5. Keeps(m, i, cmp, lit)
  <2>1. CASE m[i].max
    BY <2>1 DEF Keeps
  <2>2. CASE ~m[i].max
    <3>1. v < m[i].upper
      BY <1>1, <2>2 DEF Takes
    <3>2. i # 1 => i - 1 \in DOMAIN m /\ ~m[i - 1].max /\ m[i - 1].upper <= v
      <4>1. HAVE i # 1
      <4>2. i - 1 \in 1 .. (i - 1)
        BY <1>1, <1>2, <4>1
      <4>3. i - 1 \in DOMAIN m /\ ~Takes(m[i - 1], v)
        BY <1>1, <4>2
      <4> HIDE DEF i
      <4> QED BY <1>3, <4>3, NullAssumption DEF Takes
    <3> HIDE DEF i
    <3>3. CASE cmp = "EQ"
      BY <1>1, <1>3, <3>1, <3>2, <3>3 DEF Keeps, Holds
    <3>4. CASE cmp = "LT"
      BY <1>1, <1>3, <3>1, <3>2, <3>4 DEF Keeps, Holds
    <3>5. CASE cmp = "LE"
      BY <1>1, <1>3, <3>1, <3>2, <3>5 DEF Keeps, Holds, AtBound
    <3>6. CASE cmp = "GT"
      BY <1>1, <1>3, <3>1, <3>6 DEF Keeps, Holds
    <3>7. CASE cmp = "GE"
      BY <1>1, <1>3, <3>1, <3>7 DEF Keeps, Holds
    <3>8. CASE cmp = "NE"
      BY <3>8 DEF Keeps
    <3> QED BY <3>3, <3>4, <3>5, <3>6, <3>7, <3>8 DEF Comparisons
  <2> QED BY <2>1, <2>2, <1>1, <1>3
<1> QED BY <1>4, <1>5 DEF prune_partitions

\* bind_alter_add_partition puts the new partition before the first MAXVALUE one,
\* which stays.
LEMMA AddedBeforeMax ==
  ASSUME NEW A, NEW m, IsMap(m, A), NEW p \in Partitions(A)
  PROVE  LET at == First({k \in DOMAIN m : m[k].max})
             new == AddPartition(m, p)
         IN  /\ at \in DOMAIN m /\ m[at].max /\ \A k \in DOMAIN m : m[k].max => at <= k
             /\ new = [k \in 1 .. (Len(m) + 1) |->
                         IF k < at THEN m[k] ELSE IF k = at THEN p ELSE m[k - 1]]
             /\ IsMap(new, A)
<1> DEFINE new == AddPartition(m, p)
           maxes == {k \in DOMAIN m : m[k].max}
           at == First(maxes)
<1>1. DOMAIN m = 1 .. Len(m) /\ Len(m) \in Nat
  BY DEF IsMap
<1>2. maxes # {} /\ maxes \subseteq Nat
  BY <1>1 DEF IsMap
<1>3. at \in DOMAIN m /\ m[at].max /\ \A k \in DOMAIN m : m[k].max => at <= k
  <2>1. at \in maxes /\ \A k \in maxes : at <= k
    BY <1>2, FirstIsLeast
  <2> QED BY <2>1
<1>4. new = [k \in 1 .. (Len(m) + 1) |->
               IF k < at THEN m[k] ELSE IF k = at THEN p ELSE m[k - 1]]
  BY <1>2 DEF AddPartition
<1> HIDE DEF at, maxes
<1>5. new \in Seq(Partitions(A))
  <2>1. \A k \in 1 .. (Len(m) + 1) : new[k] \in Partitions(A)
    BY <1>1, <1>3, <1>4 DEF IsMap
  <2> HIDE DEF new
  <2>2. new \in [1 .. (Len(m) + 1) -> Partitions(A)]
    BY <2>1, <1>4
  <2> QED BY <2>2, <1>1
<1>6. at + 1 \in DOMAIN new /\ new[at + 1].max
  BY <1>1, <1>3, <1>4
<1>7. IsMap(new, A)
  BY <1>5, <1>6 DEF IsMap
<1> QED BY <1>3, <1>4, <1>7 DEF at, maxes

\* ALTER TABLE ... ADD PARTITION, whatever its bound: a value of a partition
\* before the MAXVALUE one keeps its place, and of the MAXVALUE partition's
\* values exactly those below the new bound, the rows handle_alter_partition_
\* moves, go to the new one.
THEOREM AlterMovesExactly ==
  ASSUME NEW A, NEW m, IsMap(m, A), NEW v \in Int \cup {Null}, NEW upper \in Int, NEW addr \in A
  PROVE  LET i == shard_for_value(m, v)
             new == AddPartition(m, Partition(upper, addr))
             j == shard_for_value(new, v)
         IN  /\ ~m[i].max => j = i /\ new[j] = m[i]
             /\ m[i].max /\ v # Null /\ v < upper => new[j] = Partition(upper, addr)
             /\ m[i].max /\ ~(v # Null /\ v < upper) => new[j] = m[i]
<1> DEFINE p == Partition(upper, addr)
           new == AddPartition(m, p)
           maxes == {k \in DOMAIN m : m[k].max}
           at == First(maxes)
           i == shard_for_value(m, v)
           j == shard_for_value(new, v)
<1>1. DOMAIN m = 1 .. Len(m) /\ Len(m) \in Nat
  BY DEF IsMap
<1>2. p \in Partitions(A) /\ ~p.max /\ p.upper = upper
  BY DEF Partition, Partitions
<1>3. /\ at \in DOMAIN m /\ m[at].max /\ \A k \in DOMAIN m : m[k].max => at <= k
      /\ new = [k \in 1 .. (Len(m) + 1) |->
                  IF k < at THEN m[k] ELSE IF k = at THEN p ELSE m[k - 1]]
      /\ IsMap(new, A)
  BY <1>2, AddedBeforeMax
<1>4. at \in DOMAIN m /\ m[at].max /\ \A k \in DOMAIN m : m[k].max => at <= k
  BY <1>3
<1>5. new = [k \in 1 .. (Len(m) + 1) |->
               IF k < at THEN m[k] ELSE IF k = at THEN p ELSE m[k - 1]]
  BY <1>3
<1>6. IsMap(new, A)
  BY <1>3
<1> HIDE DEF at, maxes, p
<1>7. /\ i \in DOMAIN m /\ Takes(m[i], v)
      /\ \A k \in 1 .. (i - 1) : k \in DOMAIN m /\ ~Takes(m[k], v)
  BY RoutedToFirstTaker
<1>8. /\ j \in DOMAIN new /\ Takes(new[j], v)
      /\ \A k \in 1 .. (j - 1) : k \in DOMAIN new /\ ~Takes(new[k], v)
  BY <1>6, RoutedToFirstTaker
<1> HIDE DEF i, j, new
<1>9. i \in 1 .. at
  BY <1>1, <1>4, <1>7 DEF Takes
<1>10. DOMAIN new = 1 .. (Len(m) + 1)
  BY <1>5
<1>11. \A k \in 1 .. (at - 1) : new[k] = m[k]
  BY <1>1, <1>4, <1>5
<1>12. new[at] = p /\ new[at + 1] = m[at] /\ Takes(m[at], v)
  BY <1>1, <1>4, <1>5 DEF Takes
<1>13. CASE i < at
  <2>1. j = i
    BY <1>1, <1>4, <1>7, <1>8, <1>9, <1>10, <1>11, <1>13
  <2>2. ~m[i].max
    BY <1>4, <1>7, <1>13, <1>1
  <2> QED BY <2>1, <2>2, <1>1, <1>4, <1>7, <1>11, <1>13 DEF p, new, i, j
<1>14. CASE i = at
  <2>1. \A k \in 1 .. (at - 1) : ~Takes(new[k], v)
    BY <1>7, <1>11, <1>14
  <2>2. j \in {at, at + 1}
    BY <1>1, <1>4, <1>8, <1>10, <1>12, <2>1
  <2>3. CASE Takes(p, v)
    <3>1. j = at
      BY <1>1, <1>4, <1>8, <1>12, <2>2, <2>3
    <3>2. v # Null /\ v < upper
      BY <2>3, <1>2 DEF Takes
    <3> QED BY <3>1, <3>2, <1>4, <1>12, <1>14 DEF p, new, i, j
  <2>4. CASE ~Takes(p, v)
    <3>1. j = at + 1
      BY <1>8, <1>12, <2>2, <2>4
    <3>2. ~(v # Null /\ v < upper)
      BY <2>4, <1>2 DEF Takes
    <3> QED BY <3>1, <3>2, <1>4, <1>12, <1>14 DEF p, new, i, j
  <2> QED BY <2>3, <2>4
<1> QED BY <1>9, <1>13, <1>14, <1>1, <1>4

-----------------------------------------------------------------------------
(* Maps.                                                                   *)

\* A map's places and partitions.
LEMMA MapFacts ==
  ASSUME NEW m \in Seq(Partitions(Addrs))
  PROVE  /\ Len(m) \in Nat /\ DOMAIN m = 1 .. Len(m)
         /\ \A i \in DOMAIN m : m[i] \in Partitions(Addrs)
         /\ \A i \in DOMAIN m : /\ m[i].max \in BOOLEAN /\ m[i].upper \in Int
                                /\ m[i].addr \in Addrs /\ Group[m[i].addr] \in Groups
<1>1. Len(m) \in Nat /\ DOMAIN m = 1 .. Len(m) /\ \A i \in DOMAIN m : m[i] \in Partitions(Addrs)
  OBVIOUS
<1> QED BY <1>1 DEF Partitions, Groups

\* Routing depends on the bounds only, which notify_leader leaves alone.
LEMMA LikeRoutes ==
  ASSUME NEW m, NEW n, n \in Seq(Partitions(Addrs)), Like(m, n)
  PROVE  /\ Len(m) = Len(n)
         /\ \A k : shard_for_value(m, k) = shard_for_value(n, k)
         /\ IsMap(n, Addrs) => IsMap(m, Addrs) /\ \A k : Home(m, k) = Home(n, k)
<1>1. Len(m) = Len(n) /\ Len(n) \in Nat /\ DOMAIN m = 1 .. Len(n)
  BY MapFacts DEF Like
<1>2. ASSUME NEW k PROVE shard_for_value(m, k) = shard_for_value(n, k)
  <2>1. \A i \in DOMAIN m : Takes(m[i], k) <=> Takes(n[i], k)
    BY DEF Like, Takes
  <2>2. {i \in DOMAIN m : Takes(m[i], k)} = {i \in DOMAIN n : Takes(n[i], k)}
    BY <2>1 DEF Like
  <2> QED BY <2>2, <1>1, Zenon DEF shard_for_value
<1>3. ASSUME IsMap(n, Addrs) PROVE IsMap(m, Addrs) /\ \A k : Home(m, k) = Home(n, k)
  <2>1. IsMap(m, Addrs)
    BY <1>3 DEF IsMap, Like
  <2>2. ASSUME NEW k PROVE Home(m, k) = Home(n, k)
    <3>1. shard_for_value(n, k) \in DOMAIN n
      BY <1>3, RoutedToFirstTaker
    <3> QED BY <3>1, <1>2 DEF Home, Like
  <2> QED BY <2>1, <2>2
<1> QED BY <1>1, <1>2, <1>3

\* The place of the first MAXVALUE partition.
AtMax == First({i \in DOMAIN FirstMap : FirstMap[i].max})

\* The map of CREATE TABLE and the partition of ALTER TABLE are well formed.
LEMMA FirstFacts ==
  /\ FirstMap \in Seq(Partitions(Addrs)) /\ IsMap(FirstMap, Addrs)
  /\ Len(FirstMap) \in Nat /\ DOMAIN FirstMap = 1 .. Len(FirstMap) /\ FirstMap # <<>>
  /\ Extra \in Partitions(Addrs) /\ Extra.upper \in Int /\ Extra.addr \in Addrs
  /\ Extra = Partition(Extra.upper, Extra.addr)
  /\ ExtraGroup \in Groups /\ FirstGroups \subseteq Groups
<1>1. FirstMap \in Seq(Partitions(Addrs)) /\ Extra \in Partitions(Addrs) /\ ~Extra.max
  BY PartitionsAssumption DEF IsMap
<1>2. Extra = Partition(Extra.upper, Extra.addr) /\ Extra.upper \in Int /\ Extra.addr \in Addrs
  BY <1>1 DEF Partition, Partitions
<1>3. FirstMap # <<>>
  BY PartitionsAssumption DEF IsMap
<1> QED BY <1>1, <1>2, <1>3, MapFacts, PartitionsAssumption DEF ExtraGroup, FirstGroups, Groups

\* ALTER's map: the new partition stands where the MAXVALUE one was.
LEMMA GrownFacts ==
  /\ AtMax \in DOMAIN FirstMap /\ FirstMap[AtMax].max
  /\ \A i \in DOMAIN FirstMap : FirstMap[i].max => AtMax <= i
  /\ Grown = [i \in 1 .. (Len(FirstMap) + 1) |->
                IF i < AtMax THEN FirstMap[i] ELSE IF i = AtMax THEN Extra ELSE FirstMap[i - 1]]
  /\ Grown \in Seq(Partitions(Addrs)) /\ IsMap(Grown, Addrs) /\ Grown # <<>>
<1>1. /\ AtMax \in DOMAIN FirstMap /\ FirstMap[AtMax].max
      /\ \A i \in DOMAIN FirstMap : FirstMap[i].max => AtMax <= i
      /\ Grown = [i \in 1 .. (Len(FirstMap) + 1) |->
                    IF i < AtMax THEN FirstMap[i] ELSE IF i = AtMax THEN Extra ELSE FirstMap[i - 1]]
      /\ IsMap(Grown, Addrs)
  <2>1. IsMap(FirstMap, Addrs) /\ Extra \in Partitions(Addrs)
    BY FirstFacts
  <2> QED BY <2>1, AddedBeforeMax DEF AtMax, Grown
<1>2. Grown \in Seq(Partitions(Addrs)) /\ Grown # <<>>
  BY <1>1 DEF IsMap
<1> QED BY <1>1, <1>2

\* The group of a key after ALTER.
LEMMA HomeGrown ==
  ASSUME NEW k \in Int \cup {Null}
  PROVE  /\ Home(FirstMap, k) \in FirstGroups
         /\ Home(Grown, k) = IF Home(FirstMap, k) = SourceGroup /\ Holds("LT", k, Extra.upper)
                             THEN ExtraGroup ELSE Home(FirstMap, k)
<1> DEFINE i == shard_for_value(FirstMap, k)
           j == shard_for_value(Grown, k)
<1>1. /\ i \in DOMAIN FirstMap /\ Takes(FirstMap[i], k)
      /\ \A h \in 1 .. (i - 1) : h \in DOMAIN FirstMap /\ ~Takes(FirstMap[h], k)
  BY FirstFacts, RoutedToFirstTaker
<1>2. /\ ~FirstMap[i].max => Grown[j] = FirstMap[i]
      /\ FirstMap[i].max /\ k # Null /\ k < Extra.upper => Grown[j] = Extra
      /\ FirstMap[i].max /\ ~(k # Null /\ k < Extra.upper) => Grown[j] = FirstMap[i]
  BY FirstFacts, AlterMovesExactly DEF Grown
<1> HIDE DEF i, j
<1>3. FirstMap[i].max <=> Home(FirstMap, k) = SourceGroup
  <2>1. FirstMap[i].max => i = AtMax
    BY <1>1, GrownFacts, FirstFacts DEF Takes
  <2>2. SourceGroup = Group[FirstMap[AtMax].addr] /\ Home(FirstMap, k) = Group[FirstMap[i].addr]
    BY DEF SourceGroup, AtMax, Home, i
  <2>3. Home(FirstMap, k) = SourceGroup => i = AtMax
    BY <2>2, <1>1, GrownFacts, PartitionsAssumption, Zenon
  <2> QED BY <2>1, <2>2, <2>3, GrownFacts
<1>4. Holds("LT", k, Extra.upper) <=> k # Null /\ k < Extra.upper
  BY DEF Holds
<1>5. FirstMap[i].max \in BOOLEAN
  BY <1>1, MapFacts, FirstFacts
<1> QED BY <1>1, <1>2, <1>3, <1>4, <1>5 DEF Home, FirstGroups, ExtraGroup, i, j

-----------------------------------------------------------------------------
(* The map and the statement under way.                                    *)

\* A map that is neither missing nor torn.
LEMMA WholeMap ==
  ASSUME IsFirst \/ IsGrown
  PROVE  /\ map \in Seq(Partitions(Addrs)) /\ IsMap(map, Addrs)
         /\ Len(map) \in Nat /\ DOMAIN map = 1 .. Len(map) /\ DOMAIN map \subseteq Nat
         /\ map # NoTable /\ map # Torn /\ HasMap
         /\ \A i \in DOMAIN map : map[i].addr \in Addrs /\ Group[map[i].addr] \in Groups
<1>1. map \in Seq(Partitions(Addrs)) /\ map # <<>> /\ IsMap(map, Addrs)
  <2>1. IsFirst => IsMap(map, Addrs)
    BY FirstFacts, LikeRoutes DEF IsFirst
  <2>2. IsGrown => IsMap(map, Addrs)
    BY GrownFacts, LikeRoutes DEF IsGrown
  <2>3. IsMap(map, Addrs)
    BY <2>1, <2>2
  <2> QED BY <2>3 DEF IsMap
<1>2. /\ Len(map) \in Nat /\ DOMAIN map = 1 .. Len(map)
      /\ \A i \in DOMAIN map : map[i].addr \in Addrs /\ Group[map[i].addr] \in Groups
  BY <1>1, MapFacts
<1>3. map # Torn
  <2>1. 1 \in DOMAIN Torn /\ Torn[1].addr = NoAddr
    BY DEF Torn, MaxPartition
  <2> QED BY <1>2, <2>1, LeadersAssumption
<1> QED BY <1>1, <1>2, <1>3 DEF NoTable, HasMap

\* What the record of a statement under way holds.
LEMMA OpCases ==
  ASSUME Shape
  PROVE  /\ op.kind \in {"create", "drop", "insert", "broadcast"} =>
              /\ op.todo \in Places /\ (IsFirst \/ IsGrown)
              /\ \A S : [op EXCEPT !.todo = S].kind = op.kind
         /\ op.kind = "create" => op \in [kind : {"create"}, todo : Places \ {{}}]
         /\ op.kind = "drop" => op \in [kind : {"drop"}, todo : Places]
         /\ op.kind = "insert" => op \in [kind : {"insert"}, rows : SUBSET Rows, todo : Places]
         /\ op.kind = "broadcast" =>
              op \in [kind : {"broadcast"}, what : Broadcasts, todo : Places \ {{}}]
         /\ op.kind = "alter" =>
              op.part \in NewParts /\ IsFirst /\ ExtraGroup \notin FirstGroups
         /\ op.kind = "alter" /\ op.at # "insert" =>
              op \in [kind : {"alter"}, at : {"create", "select", "empty", "delete", "write"}, part : NewParts]
         /\ op # NoOp => IsFirst \/ IsGrown
BY DEF Shape, OpShape, NoOp

\* Which map it is depends on the map alone.
LEMMA SameMap ==
  ASSUME UNCHANGED map
  PROVE  IsFirst' = IsFirst /\ IsGrown' = IsGrown /\ Places' = Places /\ (HasMap' <=> HasMap)
BY DEF IsFirst, IsGrown, Places, HasMap

\* A step that leaves the map, the leaders and the notices alone.
LEMMA ShapeFrame ==
  ASSUME Shape, UNCHANGED <<map, leader, notices>>, nrows' \in Nat, OpShape'
  PROVE  Shape'
BY SameMap DEF Shape

\* The first of the places left.
LEMMA NextPlace ==
  ASSUME Shape, op.kind \in {"create", "drop", "insert", "broadcast"}, op.todo # {}
  PROVE  First(op.todo) \in op.todo /\ First(op.todo) \in DOMAIN map
BY OpCases, WholeMap, FirstIsLeast DEF Places

\* Before the first statement there is no map.
LEMMA InitShape == Init => Shape
<1> SUFFICES ASSUME Init PROVE Shape
  OBVIOUS
<1>1. \A g \in Groups : leader[g] \in Addrs /\ Group[leader[g]] = g
  BY LeadersAssumption DEF Init
<1>2. leader \in [Groups -> Addrs]
  BY <1>1 DEF Init
<1> QED BY <1>1, <1>2 DEF Init, Shape, OpShape

\* A statement's partitions name the leaders of the moment.
LEMMA CurrentFacts ==
  ASSUME Shape, NEW p \in Partitions(Addrs)
  PROVE  LET q == Current(p)
         IN  /\ q \in Partitions(Addrs) /\ q.max = p.max /\ q.upper = p.upper
             /\ q.addr = leader[Group[p.addr]] /\ Group[q.addr] = Group[p.addr]
<1>1. Group[p.addr] \in Groups
  BY DEF Partitions, Groups
<1>2. leader[Group[p.addr]] \in Addrs /\ Group[leader[Group[p.addr]]] = Group[p.addr]
  BY <1>1 DEF Shape
<1> QED BY <1>2 DEF Current, Partitions

\* CREATE TABLE writes the first map, with the leaders of the moment.
LEMMA CreateStartShape ==
  ASSUME Shape, CreateStart
  PROVE  Shape' /\ IsFirst' /\ map' = [i \in DOMAIN FirstMap |-> Current(FirstMap[i])]
<1>1. map' = [i \in DOMAIN FirstMap |-> Current(FirstMap[i])]
  BY DEF CreateStart
<1>2. \A i \in DOMAIN FirstMap :
        /\ map'[i] \in Partitions(Addrs)
        /\ map'[i].max = FirstMap[i].max /\ map'[i].upper = FirstMap[i].upper
        /\ Group[map'[i].addr] = Group[FirstMap[i].addr]
  BY <1>1, CurrentFacts, FirstFacts, MapFacts
<1>3. map' \in [1 .. Len(FirstMap) -> Partitions(Addrs)]
  BY <1>1, <1>2, FirstFacts
<1>4. map' \in Seq(Partitions(Addrs))
  BY <1>3, FirstFacts
<1>5. IsFirst'
  BY <1>1, <1>2, <1>4 DEF IsFirst, Like
<1>6. op' = [kind |-> "create", todo |-> DOMAIN map'] /\ DOMAIN map' # {}
  BY <1>1, FirstFacts DEF CreateStart, Begin, IsMap
<1>7. OpShape'
  BY <1>5, <1>6 DEF OpShape, Places
<1> QED BY <1>1, <1>5, <1>7 DEF Shape, CreateStart, nodes

\* A notice of a new leader changes addresses, never the groups.
LEMMA NotifyShape ==
  ASSUME Shape, NEW x \in notices, op = NoOp, map # Torn, notices' = notices \ {x},
         map' = notify_leader(map, x.old, x.new), UNCHANGED <<leader, op, nrows>>
  PROVE  /\ Shape' /\ (IsFirst => IsFirst') /\ (IsGrown => IsGrown') /\ (map = NoTable => map' = NoTable)
         /\ DOMAIN map' = DOMAIN map
         /\ \A i \in DOMAIN map : map'[i].addr = IF map[i].addr = x.old THEN x.new ELSE map[i].addr
<1>1. x.old \in Addrs /\ x.new \in Addrs /\ Group[x.old] = Group[x.new]
  BY LeadersAssumption DEF Shape
<1>2. /\ DOMAIN map' = DOMAIN map
      /\ \A i \in DOMAIN map : map'[i] = IF map[i].addr = x.old THEN [map[i] EXCEPT !.addr = x.new] ELSE map[i]
  BY DEF notify_leader
<1>3. CASE map = NoTable
  <2>1. map' = NoTable
    BY <1>2, <1>3 DEF notify_leader, NoTable
  <2> QED BY <2>1, <1>2, <1>3, WholeMap DEF Shape, OpShape, NoTable
<1>4. CASE IsFirst \/ IsGrown
  <2>1. \A i \in DOMAIN map : map[i] \in Partitions(Addrs)
    BY <1>4, WholeMap, MapFacts
  <2>2. \A i \in DOMAIN map :
          /\ map'[i] \in Partitions(Addrs)
          /\ map'[i].max = map[i].max /\ map'[i].upper = map[i].upper
          /\ map'[i].addr = IF map[i].addr = x.old THEN x.new ELSE map[i].addr
    BY <1>1, <1>2, <2>1, Zenon DEF Partitions
  <2>3. map' \in Seq(Partitions(Addrs))
    <3>1. map' \in [1 .. Len(map) -> Partitions(Addrs)]
      BY <1>2, <1>4, <2>2, WholeMap DEF notify_leader
    <3> QED BY <3>1, <1>4, WholeMap
  <2>4. (IsFirst => IsFirst') /\ (IsGrown => IsGrown')
    BY <1>1, <1>2, <1>4, <2>2, <2>3 DEF IsFirst, IsGrown, Like
  <2> QED BY <1>2, <1>4, <2>2, <2>4, WholeMap DEF Shape, OpShape
<1> QED BY <1>3, <1>4 DEF Shape

\* ALTER TABLE writes the grown map: the old partitions and the new one.
LEMMA AlterWriteShape ==
  ASSUME Shape, AlterWrite
  PROVE  /\ Shape' /\ IsGrown' /\ IsFirst /\ op' = NoOp /\ ExtraGroup \notin FirstGroups
         /\ \A i \in DOMAIN map' : \/ map'[i] = op.part
                                   \/ \E j \in DOMAIN map : map'[i] = map[j]
<1>1. IsFirst /\ op.part \in NewParts /\ ExtraGroup \notin FirstGroups
  BY OpCases DEF AlterWrite
<1>2. /\ DOMAIN map = DOMAIN FirstMap
      /\ \A i \in DOMAIN map : /\ map[i].max = FirstMap[i].max /\ map[i].upper = FirstMap[i].upper
                               /\ Group[map[i].addr] = Group[FirstMap[i].addr]
      /\ IsMap(map, Addrs) /\ Len(map) = Len(FirstMap)
  BY <1>1, FirstFacts, LikeRoutes DEF IsFirst, Like
<1>3. First({i \in DOMAIN map : map[i].max}) = AtMax
  <2>1. {i \in DOMAIN map : map[i].max} = {i \in DOMAIN FirstMap : FirstMap[i].max}
    BY <1>2
  <2> QED BY <2>1, Zenon DEF AtMax
<1>4. op.part \in Partitions(Addrs)
  BY <1>1 DEF NewParts
<1>5. /\ map' = [i \in 1 .. (Len(map) + 1) |->
                  IF i < AtMax THEN map[i] ELSE IF i = AtMax THEN op.part ELSE map[i - 1]]
      /\ IsMap(map', Addrs)
  <2>1. IsMap(map, Addrs) /\ map' = AddPartition(map, op.part)
    BY <1>2 DEF AlterWrite
  <2>2. LET at == First({i \in DOMAIN map : map[i].max})
            new == AddPartition(map, op.part)
        IN  /\ at \in DOMAIN map /\ map[at].max /\ \A i \in DOMAIN map : map[i].max => at <= i
            /\ new = [i \in 1 .. (Len(map) + 1) |->
                        IF i < at THEN map[i] ELSE IF i = at THEN op.part ELSE map[i - 1]]
            /\ IsMap(new, Addrs)
    BY <2>1, <1>4, AddedBeforeMax, Zenon
  <2> QED BY <2>1, <2>2, <1>3
<1>6. AtMax \in 1 .. Len(FirstMap) /\ Len(FirstMap) \in Nat
  BY GrownFacts, FirstFacts
<1>7. Like(map', Grown)
  <2>1. DOMAIN map' = 1 .. (Len(FirstMap) + 1) /\ DOMAIN Grown = 1 .. (Len(FirstMap) + 1)
    BY <1>2, <1>5, GrownFacts
  <2>2. ASSUME NEW i \in 1 .. (Len(FirstMap) + 1)
        PROVE  /\ map'[i].max = Grown[i].max /\ map'[i].upper = Grown[i].upper
               /\ Group[map'[i].addr] = Group[Grown[i].addr]
    <3>1. CASE i < AtMax
      <4>1. map'[i] = map[i] /\ Grown[i] = FirstMap[i] /\ i \in DOMAIN FirstMap
        BY <3>1, <1>2, <1>5, <1>6, GrownFacts, FirstFacts
      <4> QED BY <4>1, <1>2
    <3>2. CASE i = AtMax
      <4>1. map'[i] = op.part /\ Grown[i] = Extra
        BY <3>2, <1>2, <1>5, <1>6, GrownFacts
      <4>2. Extra.max = FALSE
        BY PartitionsAssumption DEF Partitions
      <4> QED BY <4>1, <4>2, <1>1, Zenon DEF NewParts, ExtraGroup, Partitions
    <3>3. CASE i > AtMax
      <4>1. map'[i] = map[i - 1] /\ Grown[i] = FirstMap[i - 1] /\ i - 1 \in DOMAIN FirstMap
        BY <3>3, <1>2, <1>5, <1>6, GrownFacts, FirstFacts
      <4> QED BY <4>1, <1>2
    <3> QED BY <3>1, <3>2, <3>3, <1>6
  <2> QED BY <2>1, <2>2, <1>5, Zenon DEF Like, IsMap
<1>8. \A i \in DOMAIN map' : map'[i] = op.part \/ \E j \in DOMAIN map : map'[i] = map[j]
  <2> SUFFICES ASSUME NEW i \in 1 .. (Len(map) + 1)
               PROVE  map'[i] = op.part \/ \E j \in 1 .. Len(map) : map'[i] = map[j]
    BY <1>2, <1>5, FirstFacts, Zenon
  <2>1. i < AtMax => map'[i] = map[i] /\ i \in 1 .. Len(map)
    BY <1>2, <1>5, <1>6
  <2>2. i = AtMax => map'[i] = op.part
    BY <1>2, <1>5, <1>6
  <2>3. i > AtMax => map'[i] = map[i - 1] /\ i - 1 \in 1 .. Len(map)
    BY <1>2, <1>5, <1>6
  <2> QED BY <2>1, <2>2, <2>3, <1>6
<1>9. IsGrown' /\ op' = NoOp
  BY <1>1, <1>7 DEF IsGrown, AlterWrite
<1>10. Shape'
  BY <1>9 DEF Shape, OpShape, AlterWrite, nodes
<1> QED BY <1>1, <1>8, <1>9, <1>10

\* The statements that begin on a map that is there.
LEMMA StartShape ==
  ASSUME Shape, HasMap, op' \in [kind : {"drop"}, todo : Places] \cup
           [kind : {"broadcast"}, what : Broadcasts, todo : Places \ {{}}] \cup
           [kind : {"insert"}, rows : SUBSET Rows', todo : Places],
         UNCHANGED <<map, leader, notices>>, nrows' \in Nat
  PROVE  Shape'
<1>1. IsFirst \/ IsGrown
  BY DEF Shape, HasMap
<1>2. OpShape'
  BY <1>1, SameMap DEF OpShape
<1> QED BY <1>2, ShapeFrame

\* The places a broadcast visits.
LEMMA DistinctPlaces ==
  ASSUME IsFirst \/ IsGrown
  PROVE  Distinct(map) \in Places \ {{}}
<1>1. 1 \in DOMAIN map
  BY WholeMap DEF NoTable
<1>2. 1 \in Distinct(map)
  BY <1>1 DEF Distinct
<1> QED BY <1>2 DEF Distinct, Places

\* INSERT names its rows and routes each with the map of the moment.
LEMMA InsertStartShape ==
  ASSUME Shape, NEW k \in 1..2, NEW keys \in [1..k -> Keys], InsertStart(keys)
  PROVE  /\ Shape' /\ nrows' = nrows + k /\ (IsFirst \/ IsGrown)
         /\ op' = [kind |-> "insert",
                   rows |-> {[id |-> nrows + i, key |-> keys[i]] : i \in 1..k},
                   todo |-> {shard_for_value(map, r.key) :
                               r \in {[id |-> nrows + i, key |-> keys[i]] : i \in 1..k}}]
<1> DEFINE rows == {[id |-> nrows + i, key |-> keys[i]] : i \in 1..k}
<1>1. DOMAIN keys = 1..k /\ Len(keys) = k
  OBVIOUS
<1>2. /\ nrows' = nrows + k /\ UNCHANGED <<map, leader, notices>> /\ HasMap
      /\ op' = [kind |-> "insert", rows |-> rows,
                todo |-> {shard_for_value(map, r.key) : r \in rows}]
  BY <1>1 DEF InsertStart, Begin, nodes
<1>3. nrows \in Nat /\ nrows' \in Nat /\ (IsFirst \/ IsGrown)
  BY <1>2 DEF Shape, HasMap
<1>4. rows \in SUBSET Rows'
  BY <1>2, <1>3 DEF Rows
<1>5. \A v : shard_for_value(map, v) \in DOMAIN map
  BY <1>3, WholeMap, RoutedToFirstTaker
<1>6. {shard_for_value(map, r.key) : r \in rows} \in Places
  BY <1>5 DEF Places
<1> HIDE DEF rows
<1>7. Shape'
  BY <1>2, <1>3, <1>4, <1>6, StartShape
<1> QED BY <1>2, <1>3, <1>7 DEF rows

\* The steps of statements and calls.
LEMMA StepOrStopShape ==
  ASSUME Shape, NEW what, StepOrStop(what), op.kind \in {"create", "broadcast"},
         UNCHANGED <<map, leader, notices, nrows>>
  PROVE  Shape'
<1> DEFINE i == First(op.todo)
<1>1. op' = NoOp \/ (op.todo \ {i} # {} /\ op' = [op EXCEPT !.todo = op.todo \ {i}])
  BY DEF StepOrStop
<1> HIDE DEF i
<1>2. op' = NoOp => OpShape'
  BY DEF OpShape
<1>3. ASSUME op.todo \ {i} # {}, op' = [op EXCEPT !.todo = op.todo \ {i}]
      PROVE  OpShape'
  <2>1. op.todo \ {i} \in Places \ {{}} /\ (IsFirst \/ IsGrown)
    BY <1>3, OpCases DEF Places
  <2>2. CASE op.kind = "create"
    BY <1>3, <2>1, <2>2, OpCases, SameMap DEF OpShape
  <2>3. CASE op.kind = "broadcast"
    BY <1>3, <2>1, <2>3, OpCases, SameMap DEF OpShape
  <2> QED BY <2>2, <2>3
<1> QED BY <1>1, <1>2, <1>3, ShapeFrame DEF Shape

\* What a call leaves alone.
LEMMA CallGap ==
  ASSUME NEW addr, NEW what, NEW out, Call(addr, what, out)
  PROVE  gap \subseteq gap'
BY DEF Call

\* What has gone wrong stays recorded.
LEMMA GapGrows ==
  ASSUME [Next]_vars
  PROVE  gap \subseteq gap' /\ (Straight' => Straight)
<1> SUFFICES gap \subseteq gap'
  BY DEF Straight
<1>1. CASE CreateStep \/ BroadcastStep
  BY <1>1, CallGap DEF CreateStep, BroadcastStep, StepOrStop
<1>2. CASE DropStep \/ InsertStep
  BY <1>2, CallGap, Zenon DEF DropStep, InsertStep
<1>3. CASE AlterCreate \/ AlterInsert \/ AlterDelete
  BY <1>3, CallGap DEF AlterCreate, AlterInsert, AlterDelete
<1>4. CASE Arrive \/ CreateStart \/ DropStart \/ DropEnd \/ AlterStart \/ AlterSelect \/ AlterWrite
  BY <1>4 DEF Arrive, CreateStart, DropStart, DropEnd, AlterStart, AlterSelect, AlterWrite
<1>5. CASE \/ \E k \in 1..2 : \E keys \in [1..k -> Keys] : InsertStart(keys)
           \/ \E lit \in Literals : DeleteStart(lit)
           \/ \E from, to \in Literals : UpdateStart(from, to)
  BY <1>5 DEF InsertStart, DeleteStart, UpdateStart
<1>6. CASE Crash \/ CrashInWrite \/ Notify \/ LoseNotice \/ UNCHANGED vars
  BY <1>6 DEF Crash, CrashInWrite, Notify, LoseNotice, vars
<1>7. CASE \E a \in Addrs : Failover(a)
  BY <1>7 DEF Failover
<1> QED BY <1>1, <1>2, <1>3, <1>4, <1>5, <1>6, <1>7 DEF Next

\* Every step keeps the shape of the map and of the statement.
LEMMA NextShape == Shape /\ [Next]_vars /\ Straight' => Shape'
<1> SUFFICES ASSUME Shape, [Next]_vars, Straight' PROVE Shape'
  OBVIOUS
<1> USE DEF nodes
<1>0. nrows \in Nat
  BY DEF Shape
<1>1. ASSUME UNCHANGED vars PROVE Shape'
  <2>1. OpShape'
    BY <1>1, SameMap DEF vars, Shape, OpShape, Rows
  <2> QED BY <1>0, <1>1, <2>1, ShapeFrame DEF vars
<1>2. ASSUME op' = NoOp, UNCHANGED <<map, leader, notices, nrows>> PROVE Shape'
  BY <1>0, <1>2, ShapeFrame DEF OpShape
<1>3. CASE CreateStart
  BY <1>3, CreateStartShape
<1>4. CASE CreateStep
  BY <1>4, StepOrStopShape DEF CreateStep
<1>5. CASE DropStart
  BY <1>0, <1>5, StartShape DEF DropStart, Begin, Places
<1>6. CASE DropStep
  <2>1. /\ op.todo \ {First(op.todo)} \in Places /\ (IsFirst \/ IsGrown)
        /\ op \in [kind : {"drop"}, todo : Places]
    BY <1>6, OpCases DEF DropStep, Places
  <2>2. op' \in [kind : {"drop"}, todo : Places]
    BY <1>6, <2>1 DEF DropStep
  <2> QED BY <1>0, <1>6, <2>1, <2>2, WholeMap, StartShape DEF DropStep
<1>7. CASE DropEnd
  BY <1>7 DEF DropEnd, Shape, OpShape
<1>8. CASE \E k \in 1..2 : \E keys \in [1..k -> Keys] : InsertStart(keys)
  BY <1>8, InsertStartShape, Zenon
<1>9. CASE InsertStep
  <2>1. PICK i \in op.todo : op' = NoOp \/ op' = [op EXCEPT !.todo = op.todo \ {i}]
    BY <1>9, Zenon DEF InsertStep
  <2>2. /\ op.todo \ {i} \in Places /\ (IsFirst \/ IsGrown)
        /\ op \in [kind : {"insert"}, rows : SUBSET Rows, todo : Places]
    BY <1>9, OpCases DEF InsertStep, Places
  <2>3. Rows' = Rows
    BY <1>9 DEF InsertStep, Rows
  <2>4. op' = NoOp \/ op' \in [kind : {"insert"}, rows : SUBSET Rows', todo : Places]
    BY <2>1, <2>2, <2>3
  <2> QED BY <1>0, <1>2, <1>9, <2>2, <2>4, WholeMap, StartShape DEF InsertStep
<1>10. CASE \E lit \in Literals : DeleteStart(lit)
  <2>1. PICK lit \in Literals : DeleteStart(lit)
    BY <1>10
  <2>2. Distinct(map) \in Places \ {{}}
    BY <2>1, DistinctPlaces DEF DeleteStart, HasMap, Shape
  <2>3. op' \in [kind : {"broadcast"}, what : Broadcasts, todo : Places \ {{}}]
    BY <2>1, <2>2 DEF DeleteStart, Begin, DeleteWhere, Broadcasts
  <2> QED BY <1>0, <2>1, <2>3, StartShape DEF DeleteStart
<1>11. CASE \E from, to \in Literals : UpdateStart(from, to)
  <2>1. PICK from, to \in Literals : UpdateStart(from, to)
    BY <1>11
  <2>2. Distinct(map) \in Places \ {{}}
    BY <2>1, DistinctPlaces DEF UpdateStart, HasMap, Shape
  <2>3. UpdateKey(from, to) \in Broadcasts
    BY <2>1 DEF UpdateStart, UpdateKey, Broadcasts
  <2>4. op' \in [kind : {"broadcast"}, what : Broadcasts, todo : Places \ {{}}]
    BY <2>1, <2>2, <2>3 DEF UpdateStart, Begin
  <2> QED BY <1>0, <2>1, <2>4, StartShape DEF UpdateStart
<1>12. CASE BroadcastStep
  BY <1>12, StepOrStopShape DEF BroadcastStep
<1>13. CASE AlterStart
  <2>1. IsFirst /\ ExtraGroup \notin FirstGroups
    <3>1. IsFirst \/ IsGrown
      BY <1>13 DEF AlterStart, HasMap, Shape
    <3>2. \A i \in DOMAIN map : Group[map[i].addr] # ExtraGroup
      BY <1>13 DEF AlterStart, ExtraGroup, Straight, Astray
    <3>3. ~IsGrown
      <4>1. AtMax \in DOMAIN Grown /\ Grown[AtMax] = Extra
        BY GrownFacts, FirstFacts
      <4> QED BY <3>2, <4>1 DEF IsGrown, Like, ExtraGroup
    <3>4. ExtraGroup \notin FirstGroups
      BY <3>1, <3>2, <3>3 DEF IsFirst, Like, FirstGroups
    <3> QED BY <3>1, <3>3, <3>4
  <2>2. Current(Extra) \in NewParts
    BY CurrentFacts, FirstFacts, PartitionsAssumption DEF NewParts, ExtraGroup
  <2>3. op' = [kind |-> "alter", at |-> "create", part |-> Current(Extra)]
    BY <1>13 DEF AlterStart, Begin
  <2>4. OpShape'
    BY <1>13, <2>1, <2>2, <2>3, SameMap DEF OpShape, AlterStart
  <2> QED BY <1>0, <1>13, <2>4, ShapeFrame DEF AlterStart
<1>14. ASSUME op.kind = "alter", UNCHANGED <<map, leader, notices, nrows>>,
              \/ op.at # "insert" /\ \E at \in {"select", "empty", "write"} : op' = [op EXCEPT !.at = at]
              \/ op' = [kind |-> "alter", at |-> "delete", part |-> op.part]
              \/ op'.kind = "alter" /\ op'.at = "insert" /\ op'.part = op.part
       PROVE  Shape'
  <2>1. op.part \in NewParts /\ IsFirst /\ ExtraGroup \notin FirstGroups
    BY <1>14, OpCases
  <2>2. CASE op.at # "insert" /\ \E at \in {"select", "empty", "write"} : op' = [op EXCEPT !.at = at]
    <3>1. op' \in [kind : {"alter"}, at : {"create", "select", "empty", "delete", "write"}, part : NewParts]
      BY <1>14, <2>2, OpCases
    <3>2. OpShape'
      BY <1>14, <2>1, <3>1, SameMap DEF OpShape
    <3> QED BY <1>0, <1>14, <3>2, ShapeFrame
  <2>3. CASE op' = [kind |-> "alter", at |-> "delete", part |-> op.part]
    <3>1. OpShape'
      BY <1>14, <2>1, <2>3, SameMap DEF OpShape
    <3> QED BY <1>0, <1>14, <3>1, ShapeFrame
  <2>4. CASE op'.kind = "alter" /\ op'.at = "insert" /\ op'.part = op.part
    <3>1. OpShape'
      BY <1>14, <2>1, <2>4, SameMap DEF OpShape
    <3> QED BY <1>0, <1>14, <3>1, ShapeFrame
  <2> QED BY <1>14, <2>2, <2>3, <2>4
<1>15. CASE AlterCreate
  <2>1. op' = NoOp \/ op' = [op EXCEPT !.at = "select"]
    BY <1>15 DEF AlterCreate
  <2> QED BY <1>2, <1>14, <1>15, <2>1 DEF AlterCreate
<1>16. CASE AlterSelect
  <2>1. \/ op' = NoOp \/ op' = [op EXCEPT !.at = "empty"]
        \/ op'.kind = "alter" /\ op'.at = "insert" /\ op'.part = op.part
    BY <1>16 DEF AlterSelect
  <2> QED BY <1>2, <1>14, <1>16, <2>1 DEF AlterSelect
<1>17. CASE AlterInsert
  <2>1. op' = NoOp \/ op' = [kind |-> "alter", at |-> "delete", part |-> op.part]
    BY <1>17 DEF AlterInsert
  <2> QED BY <1>2, <1>14, <1>17, <2>1 DEF AlterInsert
<1>18. CASE AlterDelete
  BY <1>14, <1>18 DEF AlterDelete
<1>19. CASE AlterWrite
  BY <1>19, AlterWriteShape
<1>20. CASE Arrive
  <2>1. OpShape'
    BY <1>20, SameMap DEF Arrive, Shape, OpShape, Rows
  <2> QED BY <1>0, <1>20, <2>1, ShapeFrame DEF Arrive
<1>21. CASE Crash
  BY <1>2, <1>21 DEF Crash
<1>22. CASE CrashInWrite
  <2>1. /\ map' = Torn /\ op' = NoOp /\ UNCHANGED <<leader, nrows>>
        /\ \A x \in notices' : x \in notices
    BY <1>22 DEF CrashInWrite
  <2> QED BY <1>22, <2>1 DEF Shape, OpShape
<1>23. CASE Notify
  BY <1>23, NotifyShape DEF Notify
<1>24. CASE LoseNotice
  <2>1. OpShape'
    BY <1>24, SameMap DEF LoseNotice, Shape, OpShape, Rows
  <2> QED BY <1>24, <2>1, SameMap DEF LoseNotice, Shape
<1>25. CASE \E a \in Addrs : Failover(a)
  <2>1. PICK a \in Addrs : Failover(a)
    BY <1>25
  <2>2. OpShape'
    BY <2>1, SameMap DEF Failover, Shape, OpShape, Rows
  <2>3. leader' = [leader EXCEPT ![Group[a]] = a] /\ Group[a] \in Groups
    BY <2>1 DEF Failover, Groups
  <2>4. leader' \in [Groups -> Addrs] /\ \A g \in Groups : Group[leader'[g]] = g
    BY <2>3 DEF Shape
  <2>5. \A x \in notices' : x \in notices \/ (Configured[a] # NoAddr /\ x = [old |-> Configured[a], new |-> a])
    BY <2>1 DEF Failover, Straight, Astray
  <2>6. \A x \in notices' : x \in [old : Addrs, new : Addrs] /\ x.old = Configured[x.new]
    BY <2>5, LeadersAssumption DEF Shape
  <2> QED BY <2>1, <2>2, <2>4, <2>6, SameMap DEF Failover, Shape
<1> QED
  BY <1>1, <1>3, <1>4, <1>5, <1>6, <1>7, <1>8, <1>9, <1>10, <1>11, <1>12, <1>13, <1>15, <1>16,
     <1>17, <1>18, <1>19, <1>20, <1>21, <1>22, <1>23, <1>24, <1>25 DEF Next

\* The map and the statement under way keep their shape through statements with any
\* outcome of their calls, kills, failovers and notices: the partitions are those of
\* CREATE, and of ALTER, each on the group it was declared on, unless a new leader
\* announced another node's address or ALTER shared a group.
THEOREM ShapeInvariant == Spec => [](Straight => Shape)
<1>1. Init => (Straight => Shape)
  BY InitShape
<1>2. (Straight => Shape) /\ [Next]_vars => (Straight => Shape)'
  BY NextShape, GapGrows
<1> QED BY <1>1, <1>2, PTL DEF Spec
=============================================================================
