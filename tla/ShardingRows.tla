---------------------------- MODULE ShardingRows ----------------------------
(***************************************************************************)
(* Where the rows are, for any groups, keys, partitions and bounds.  Each  *)
(* group holds the rows of its partition, so a pruned SELECT asks every    *)
(* shard that holds a matching row.  And no row is returned twice: Single  *)
(* of ShardingInvariant says where the copies of a row are at each step    *)
(* of an ALTER, of an INSERT and of a DELETE.                              *)
(***************************************************************************)
EXTENDS ShardingCalls

-----------------------------------------------------------------------------
(* A group holds the rows of its partition.                                *)

\* A step that adds no rows and begins no statement keeps Placed.
LEMMA PlacedFrame ==
  ASSUME Placed, Shrinks, UNCHANGED map, gap \subseteq gap',
         \A S : Altering(S)' /\ S \subseteq {"empty", "insert", "write"} => Altering(S) /\ op' = op,
         op'.kind = "broadcast" => op.kind = "broadcast" /\ op'.what = op.what
  PROVE  Placed'
<1> SUFFICES ASSUME gap' \cap {"rekeyed", "late", "undeleted"} = {} PROVE Placed'
  BY DEF Placed
<1>1. /\ \A g \in Groups : \A r \in DOMAIN data[g] :
           /\ Belongs(g, r.key)
           /\ IsGrown \/ Altering({"empty", "write"}) => Settled(g, r.key)
      /\ Altering({"insert"}) => \A r \in DOMAIN op.rows : Home(Grown, r.key) = ExtraGroup
      /\ op.kind = "broadcast" /\ op.what.do = "update" =>
           Home(map, op.what.from) = Home(map, op.what.to)
  BY DEF Placed
<1>2. /\ Altering({"empty", "write"})' => Altering({"empty", "write"})
      /\ Altering({"insert"})' => Altering({"insert"}) /\ op' = op
  OBVIOUS
<1>3. \A g \in Groups : \A r \in DOMAIN data'[g] :
        /\ Belongs(g, r.key)
        /\ IsGrown' \/ Altering({"empty", "write"})' => Settled(g, r.key)
  BY <1>1, <1>2, SameMap DEF Shrinks
<1>4. Altering({"insert"})' => \A r \in DOMAIN op'.rows : Home(Grown, r.key) = ExtraGroup
  BY <1>1, <1>2
<1>5. op'.kind = "broadcast" /\ op'.what.do = "update" =>
        Home(map', op'.what.from) = Home(map', op'.what.to)
  BY <1>1
<1> QED BY <1>3, <1>4, <1>5 DEF Placed

\* In particular one more call of the same statement.
LEMMA PlacedSame ==
  ASSUME Placed, Shrinks, UNCHANGED map, gap \subseteq gap', SameTask
  PROVE  Placed'
<1>1. /\ \A S : Altering(S)' /\ S \subseteq {"empty", "insert", "write"} => Altering(S) /\ op' = op
      /\ op'.kind = "broadcast" => op.kind = "broadcast" /\ op'.what = op.what
  BY SameTaskFacts
<1> QED BY <1>1, PlacedFrame

\* Without the rows that move, every group's rows are where the new map has them.
LEMMA SettledWithout ==
  ASSUME NEW g, NEW k \in Keys, Belongs(g, k), g = SourceGroup => ~Holds("LT", k, Extra.upper)
  PROVE  Settled(g, k)
BY HomeGrown, KeyFacts, Zenon DEF Belongs, Settled

\* A statement begins, ends, is killed, or goes on without a call.
LEMMA RestingPlaced ==
  ASSUME Shape, Stored, Placed, Shape', Resting, gap' \cap {"rekeyed", "late", "undeleted"} = {}
  PROVE  Placed'
<1>1. /\ "late" \notin gap /\ gap \subseteq gap' /\ gap \cap {"rekeyed", "late", "undeleted"} = {}
      /\ UNCHANGED data /\ Shrinks
  BY RestingFacts, RestingShrinks
<1>2. \A g \in Groups : \A r \in DOMAIN data[g] :
         /\ Belongs(g, r.key) /\ r.key \in Keys
         /\ IsGrown \/ Altering({"empty", "write"}) => Settled(g, r.key)
  BY <1>1, KeyFacts DEF Placed, Stored
<1>3. ASSUME UNCHANGED map, op'.kind \notin {"alter", "broadcast"} PROVE Placed'
  BY <1>1, <1>3, PlacedFrame DEF Altering
\* The map is another one, and no statement runs.
<1>4. ASSUME ~IsGrown' \/ IsGrown \/ Altering({"empty", "write"}), op' = NoOp PROVE Placed'
  <2>1. ~Altering({"empty", "write"})' /\ ~Altering({"insert"})' /\ op'.kind # "broadcast"
    BY <1>4 DEF Altering, NoOp
  <2>2. \A g \in Groups : \A r \in DOMAIN data'[g] :
          Belongs(g, r.key) /\ (IsGrown' => Settled(g, r.key))
    BY <1>1, <1>2, <1>4
  <2> QED BY <2>1, <2>2 DEF Placed
<1>5. CASE CreateStart
  <2>1. ~IsGrown' /\ op'.kind = "create"
    BY <1>5, CreateStartShape, NextMap DEF CreateStart, Begin
  <2> QED BY <1>1, <1>2, <2>1 DEF Placed, Altering
<1>6. CASE DropStart \/ \E k \in 1..2 : \E keys \in [1..k -> Keys] : InsertStart(keys)
  BY <1>3, <1>6 DEF DropStart, InsertStart, Begin
<1>7. CASE DropEnd
  <2>1. ~IsGrown'
    BY <1>7, NextMap DEF DropEnd
  <2> QED BY <1>4, <1>7, <2>1 DEF DropEnd
<1>8. CASE \E lit \in Literals : DeleteStart(lit)
  <2>1. PICK lit \in Literals : DeleteStart(lit)
    BY <1>8
  <2>2. UNCHANGED map /\ op'.kind = "broadcast" /\ op'.what.do = "delete"
    BY <2>1 DEF DeleteStart, Begin, DeleteWhere
  <2> QED BY <1>1, <1>2, <2>2, SameMap DEF Placed, Altering
<1>9. CASE \E from, to \in Literals : UpdateStart(from, to)
  <2>1. PICK from, to \in Literals : UpdateStart(from, to)
    BY <1>9
  <2>2. UNCHANGED map /\ op'.kind = "broadcast" /\ op'.what.from = from /\ op'.what.to = to
    BY <2>1 DEF UpdateStart, Begin, UpdateKey
  <2>3. shard_for_value(map, from) = shard_for_value(map, to)
    BY <2>1 DEF UpdateStart
  <2>4. Home(map', op'.what.from) = Home(map', op'.what.to)
    BY <2>2, <2>3 DEF Home
  <2> QED BY <1>1, <1>2, <2>2, <2>4, SameMap DEF Placed, Altering
<1>10. CASE AlterStart
  <2>1. UNCHANGED map /\ op'.kind = "alter" /\ op'.at = "create"
    BY <1>10 DEF AlterStart, Begin
  <2> QED BY <1>1, <2>1, PlacedFrame DEF Altering
<1>11. CASE AlterSelect
  <2>1. op.kind = "alter" /\ op.at = "select" /\ UNCHANGED map /\ IsFirst /\ ~IsGrown'
    BY <1>11, OpCases, SameMap, MapGroups DEF AlterSelect
  <2>2. \/ op' = NoOp
        \/ Moving = EmptyBag /\ op'.kind = "alter" /\ op'.at = "empty"
        \/ op'.kind = "alter" /\ op'.at = "insert" /\ op'.rows = Moving
    BY <1>11, <2>1, OpCases DEF AlterSelect
  <2>3. CASE op' = NoOp
    BY <1>4, <2>1, <2>3
  <2>4. CASE Moving = EmptyBag /\ op'.kind = "alter" /\ op'.at = "empty"
    <3>1. DOMAIN Moving = {}
      BY <2>4 DEF EmptyBag
    <3>2. \A r \in DOMAIN data[SourceGroup] : ~Holds("LT", r.key, Extra.upper)
      BY <1>1, <2>1, <3>1, MovingRows
    <3>3. \A g \in Groups : \A r \in DOMAIN data[g] : Settled(g, r.key)
      BY <1>2, <3>2, SettledWithout
    <3> QED BY <1>1, <1>2, <2>4, <3>3 DEF Placed, Altering
  <2>5. CASE op'.kind = "alter" /\ op'.at = "insert" /\ op'.rows = Moving
    <3>1. \A r \in DOMAIN Moving : r \in DOMAIN data[SourceGroup] /\ Holds("LT", r.key, Extra.upper)
      BY <1>1, <2>1, MovingRows
    <3>2. SourceGroup \in FirstGroups /\ SourceGroup \in Groups
      BY <1>1, <2>1, MovingRows
    <3>3. \A r \in DOMAIN Moving : Home(Grown, r.key) = ExtraGroup
      BY <1>2, <3>1, <3>2, HomeGrown, KeyFacts, Zenon DEF Belongs
    <3> QED BY <1>1, <1>2, <2>1, <2>5, <3>3 DEF Placed, Altering
  <2> QED BY <2>2, <2>3, <2>4, <2>5
<1>12. CASE AlterWrite
  BY <1>4, <1>12 DEF AlterWrite, Altering
<1>13. CASE Crash
  <2>1. op' = NoOp /\ UNCHANGED map
    BY <1>13 DEF Crash
  <2> QED BY <1>4, <2>1, SameMap
<1>14. CASE CrashInWrite
  <2>1. op' = NoOp /\ map' = Torn
    BY <1>14 DEF CrashInWrite
  <2> QED BY <1>4, <2>1, NextMap
<1>15. CASE Notify
  <2>1. (IsFirst => IsFirst') /\ (map = NoTable => map' = NoTable) /\ map # Torn /\ op' = NoOp
    BY <1>15, NotifyShape DEF Notify, shards
  <2>2. IsGrown' => IsGrown
    <3>1. IsGrown' => map' # NoTable /\ ~IsFirst'
      BY NextMap
    <3> QED BY <2>1, <3>1 DEF Shape
  <2> QED BY <1>4, <2>1, <2>2
<1>16. CASE LoseNotice \/ UNCHANGED vars
  BY <1>1, <1>16, PlacedSame DEF LoseNotice, vars, SameTask
<1> QED BY <1>5, <1>6, <1>7, <1>8, <1>9, <1>10, <1>11, <1>12, <1>13, <1>14, <1>15, <1>16 DEF Resting

\* Every step keeps Placed.
LEMMA NextPlaced ==
  ASSUME Shape, Stored, Placed, Shape', [Next]_vars
  PROVE  Placed'
<1> SUFFICES ASSUME gap' \cap {"rekeyed", "late", "undeleted"} = {} PROVE Placed'
  BY DEF Placed
<1>1. /\ gap \subseteq gap' /\ "late" \notin gap' /\ "undeleted" \notin gap'
      /\ gap \cap {"rekeyed", "late", "undeleted"} = {} /\ "late" \notin gap
  BY GapGrows
<1>2. \A g \in Groups : \A r \in DOMAIN data[g] :
         /\ Belongs(g, r.key) /\ r.key \in Keys /\ r \in Rows
         /\ IsGrown \/ Altering({"empty", "write"}) => Settled(g, r.key)
  BY <1>1, KeyFacts DEF Placed, Stored
<1>3. CASE Resting
  BY <1>3, RestingPlaced
<1>4. ASSUME NEW what, what.do \in {"create", "drop", "delete"}, RoundCall(what), UNCHANGED map
      PROVE  Placed'
  <2>1. Shrinks /\ SameTask
    BY <1>4, CallShrinks DEF RoundCall
  <2> QED BY <1>1, <1>4, <2>1, PlacedSame
<1>5. CASE CreateStep
  BY <1>1, <1>4, <1>5, StepOrStopCall DEF CreateStep, Create
<1>6. CASE DropStep
  BY <1>1, <1>4, <1>6, DropStepCall DEF DropStep, Drop
\* A call outside ALTER that adds or changes rows of a partition of the map.
<1>7. ASSUME NEW g \in Groups, UNCHANGED map, SameTask, op'.kind # "alter",
             \A h \in Groups : h # g => data'[h] = data[h],
             \A r \in DOMAIN data'[g] : r \in DOMAIN data[g] \/ (r.key \in Keys /\ Home(map, r.key) = g),
             IsFirst \/ IsGrown
      PROVE  Placed'
  <2>1. \A h \in Groups : \A r \in DOMAIN data'[h] : Belongs(h, r.key) /\ (IsGrown => Settled(h, r.key))
    BY <1>2, <1>7, RoutedBelongs
  <2>2. op'.kind = "broadcast" /\ op'.what.do = "update" =>
          Home(map', op'.what.from) = Home(map', op'.what.to)
    BY <1>1, <1>7, SameTaskFacts DEF Placed
  <2> QED BY <1>7, <2>1, <2>2, SameMap DEF Placed, Altering
<1>8. CASE InsertStep
  <2>1. PICK i, times : InsertCall(i, times)
    BY <1>1, <1>8, InsertStepCall
  <2> DEFINE g == Group[map[i].addr]
             S == {r \in op.rows : shard_for_value(map, r.key) = i}
  <2>2. g \in Groups /\ CallTo(g, InsertRows(SetToBag(S)), times) /\ SameTask
    BY <2>1 DEF InsertCall
  <2>3. DOMAIN SetToBag(S) = S
    BY DEF SetToBag
  <2>4. \A r \in S : r.key \in Keys /\ Home(map, r.key) = g
    BY <1>8, OpCases, KeyFacts DEF InsertStep, Home
  <2>5. UNCHANGED map /\ op'.kind # "alter" /\ (IsFirst \/ IsGrown)
    BY <1>8, <2>2, OpCases, SameTaskFacts DEF InsertStep, SameTask, NoOp
  <2> HIDE DEF g, S
  <2>6. /\ \A h \in Groups : h # g => data'[h] = data[h]
        /\ DOMAIN data'[g] \subseteq DOMAIN data[g] \cup S
    BY <2>2, <2>3, InsertData
  <2> QED BY <1>7, <2>2, <2>4, <2>5, <2>6
<1>9. CASE BroadcastStep
  <2>1. RoundCall(op.what) /\ UNCHANGED map /\ op.kind = "broadcast" /\ op.what \in Broadcasts
        /\ (IsFirst \/ IsGrown)
    BY <1>1, <1>9, StepOrStopCall, OpCases DEF BroadcastStep
  <2>2. CASE op.what.do = "delete"
    BY <1>4, <2>1, <2>2
  <2>3. CASE op.what.do = "update"
    <3>1. PICK i \in op.todo, times \in {0, 1, 2} :
            /\ i \in DOMAIN map /\ Group[map[i].addr] \in Groups
            /\ CallTo(Group[map[i].addr], op.what, times) /\ SameTask
      BY <2>1 DEF RoundCall
    <3> DEFINE g == Group[map[i].addr]
               from == op.what.from
               to == op.what.to
    <3>2. from \in Keys /\ to \in Keys /\ Home(map, from) = Home(map, to)
      BY <1>1, <2>1, <2>3, KeyFacts DEF Broadcasts, Placed
    <3>3. g \in Groups /\ DOMAIN data[g] \subseteq Rows
      BY <1>2, <3>1
    <3>4. (\A h \in Groups : h # g => data'[h] = data[h]) /\ Rekeys(data[g], data'[g], from, to)
      BY <2>1, <2>3, <3>1, <3>3, UpdateData
    <3>5. op'.kind # "alter"
      BY <2>1, <3>1, SameTaskFacts DEF SameTask, NoOp
    <3>6. ASSUME NEW r \in DOMAIN data'[g], r \notin DOMAIN data[g]
          PROVE  r.key \in Keys /\ Home(map, r.key) = g
      <4>1. r.key = to /\ [id |-> r.id, key |-> from] \in DOMAIN data[g]
        BY <3>4, <3>6 DEF Rekeys
      <4>2. Belongs(g, from) /\ (IsGrown => Settled(g, from))
        <5> DEFINE s == [id |-> r.id, key |-> from]
        <5>1. s \in DOMAIN data[g] /\ s.key = from
          BY <4>1
        <5> HIDE DEF s
        <5> QED BY <1>2, <3>3, <5>1
      <4>3. Home(map, from) = g
        BY <2>1, <3>1, <3>2, <4>2, RoutedBelongs
      <4> QED BY <3>2, <4>1, <4>3
    <3> HIDE DEF g
    <3> QED BY <1>7, <2>1, <3>1, <3>3, <3>4, <3>5, <3>6
  <2> QED BY <2>1, <2>2, <2>3 DEF Broadcasts
<1>10. CASE AlterCreate
  <2>1. PICK times : /\ CallTo(ExtraGroup, Create, times)
                     /\ op' = NoOp \/ (times # 0 /\ op' = [kind |-> "alter", at |-> "select", part |-> op.part])
    BY <1>1, <1>10, AlterCalls
  <2>2. Shrinks /\ UNCHANGED map
    BY <1>10, <2>1, CallShrinks, FirstFacts DEF Create, AlterCreate
  <2>3. /\ \A S : Altering(S)' /\ S \subseteq {"empty", "insert", "write"} => Altering(S) /\ op' = op
        /\ op'.kind # "broadcast"
    BY <2>1 DEF Altering, NoOp
  <2> QED BY <1>1, <2>2, <2>3, PlacedFrame
<1>11. CASE AlterInsert
  <2>1. PICK times : /\ CallTo(ExtraGroup, InsertRows(op.rows), times)
                     /\ op' = NoOp \/ (times # 0 /\ op' = [kind |-> "alter", at |-> "delete", part |-> op.part])
    BY <1>1, <1>11, AlterCalls
  <2>2. /\ \A h \in Groups : h # ExtraGroup => data'[h] = data[h]
        /\ DOMAIN data'[ExtraGroup] \subseteq DOMAIN data[ExtraGroup] \cup DOMAIN op.rows
    BY <2>1, InsertData, FirstFacts
  <2>3. UNCHANGED map /\ IsFirst /\ ~IsGrown' /\ ExtraGroup \notin FirstGroups
    BY <1>11, OpCases, SameMap, MapGroups DEF AlterInsert
  <2>4. \A r \in DOMAIN op.rows : Belongs(ExtraGroup, r.key)
    BY <1>1, <1>11, <2>3 DEF AlterInsert, Placed, Altering, Belongs
  <2>5. \A h \in Groups : \A r \in DOMAIN data'[h] : Belongs(h, r.key)
    BY <1>2, <2>2, <2>4
  <2>6. ~Altering({"empty", "write"})' /\ ~Altering({"insert"})' /\ op'.kind # "broadcast"
    BY <2>1 DEF Altering, NoOp
  <2> QED BY <2>3, <2>5, <2>6 DEF Placed
<1>12. CASE AlterDelete
  <2>1. PICK times : CallTo(SourceGroup, DeleteWhere("LT", Extra.upper), times)
    BY <1>1, <1>12, AlterCalls
  <2>2. SourceGroup \in Groups /\ op.kind = "alter"
    BY <1>12, OpCases, SourceFacts, FirstFacts DEF AlterDelete
  <2>3. /\ \A h \in Groups : h # SourceGroup => data'[h] = data[h]
        /\ DOMAIN data'[SourceGroup] = {r \in DOMAIN data[SourceGroup] : ~Holds("LT", r.key, Extra.upper)}
    BY <1>1, <2>1, <2>2, DeleteData
  <2>4. \A h \in Groups : \A r \in DOMAIN data'[h] : Belongs(h, r.key) /\ Settled(h, r.key)
    BY <1>2, <2>2, <2>3, SettledWithout
  <2>5. ~Altering({"insert"})' /\ op'.kind # "broadcast"
    BY <1>12, OpCases DEF AlterDelete, Altering
  <2> QED BY <2>4, <2>5 DEF Placed
<1>13. CASE \E a \in Addrs : Failover(a)
  <2>1. Shrinks
    BY <1>1, <1>13, FailoverShrinks
  <2>2. UNCHANGED map /\ SameTask
    BY <1>13 DEF Failover, SameTask
  <2> QED BY <1>1, <2>1, <2>2, PlacedSame
<1> QED BY <1>1, <1>3, <1>5, <1>6, <1>8, <1>9, <1>10, <1>11, <1>12, <1>13, StepKinds

\* There are no rows at first.
LEMMA InitRows == Init => Stored /\ Placed
<1> SUFFICES ASSUME Init PROVE Stored /\ Placed
  OBVIOUS
<1>1. \A g \in Groups : DOMAIN data[g] = {}
  BY DEF Init, EmptyBag
<1>2. op.kind = "none"
  BY DEF Init, NoOp
<1> QED BY <1>1, <1>2 DEF Init, Stored, Placed, Altering

\* A SELECT with a predicate on the partition column leaves out no shard that has
\* a matching row (prune_partitions), through CREATE, INSERT, DELETE, DROP and
\* ALTER with any outcome of their calls, kills and failovers.
THEOREM PruneIsComplete == Spec => []PruneComplete
<1> DEFINE Inv == Straight => Shape /\ Stored /\ Placed
<1>1. Init => Inv
  BY InitShape, InitRows
<1>2. Inv /\ [Next]_vars => Inv'
  <2> SUFFICES ASSUME Shape, Stored, Placed, [Next]_vars, Straight' PROVE (Shape /\ Stored /\ Placed)'
    BY GapGrows
  <2>1. Shape'
    BY NextShape
  <2> QED BY <2>1, NextStored, NextPlaced
<1>3. Inv => PruneComplete
  <2> SUFFICES ASSUME Shape, Stored, Placed, Quiet, gap \cap {"rekeyed", "late", "undeleted"} = {},
                      NEW cmp \in Comparisons, NEW lit \in Literals,
                      NEW i \in DOMAIN map \ prune_partitions(map, cmp, lit),
                      NEW r \in Matches(data[Group[map[i].addr]], cmp, lit)
               PROVE  AtBound(map, cmp, r.key, lit)
    BY DEF PruneComplete, Straight
  <2>1. IsFirst \/ IsGrown
    BY DEF Shape, Quiet, NoTable
  <2> DEFINE g == Group[map[i].addr]
  <2>2. /\ g \in Groups /\ r \in DOMAIN data[g] /\ Holds(cmp, r.key, lit)
        /\ r.key \in Keys /\ r.key \in Int /\ lit \in Int
    <3>1. g \in Groups /\ r \in DOMAIN data[g] /\ Holds(cmp, r.key, lit)
      BY <2>1, WholeMap DEF Matches
    <3>2. r.key \in Keys
      BY <3>1, KeyFacts DEF Stored
    <3> QED BY <3>1, <3>2, KeyFacts, Zenon DEF Holds
  <2>3. Belongs(g, r.key) /\ (IsGrown => Settled(g, r.key))
    BY <2>2 DEF Placed
  <2>4. Home(map, r.key) = g
    BY <2>1, <2>2, <2>3, RoutedBelongs
  <2>5. IsMap(map, Addrs)
    BY <2>1, WholeMap
  <2>6. shard_for_value(map, r.key) \in DOMAIN map
    BY <2>2, <2>5, RoutedToFirstTaker
  <2>7. shard_for_value(map, r.key) = i
    BY <2>1, <2>4, <2>6, MapGroups DEF Home
  <2> QED BY <2>2, <2>5, <2>7, PruneKeepsRouted
<1> HIDE DEF Inv
<1> QED BY <1>1, <1>2, <1>3, PTL DEF Spec

-----------------------------------------------------------------------------
(* A row is in one place.                                                  *)

\* Fewer rows are no more copies.
LEMMA OnceShrinks ==
  ASSUME Shrinks, NEW G \in SUBSET Groups, Once(G)
  PROVE  Once(G)'
BY DEF Shrinks, Once

\* The copy that ALTER TABLE makes stays a copy of rows of one group.
LEMMA CopyShrinks ==
  ASSUME Shrinks, NEW b, CopyOf(b)
  PROVE  \A r \in DOMAIN b, g \in FirstGroups : \A s \in DOMAIN data'[g] :
           r.id = s.id => g = SourceGroup /\ Holds("LT", s.key, Extra.upper)
BY FirstFacts DEF Shrinks, CopyOf

\* One group changes, and gets no id that it had not.
LEMMA OnceFrom ==
  ASSUME NEW G \in SUBSET Groups, Once(G), NEW g \in Groups,
         \A h \in Groups : h # g => data'[h] = data[h],
         \A r \in DOMAIN data'[g] : \E s \in DOMAIN data[g] : s.id = r.id,
         Different(data[g]) => Different(data'[g])
  PROVE  Once(G)'
<1> SUFFICES ASSUME NEW h \in G, NEW k \in G, NEW r \in DOMAIN data'[h], NEW s \in DOMAIN data'[k],
                    r.id = s.id
             PROVE  h = k /\ r = s /\ data'[h][r] = 1
  BY DEF Once
<1>1. CASE h # g /\ k # g
  BY <1>1 DEF Once
<1>2. CASE h = g /\ k = g
  <2>1. Different(data[g])
    BY <1>2 DEF Once, Different
  <2> QED BY <1>2, <2>1 DEF Different
<1>3. CASE h = g /\ k # g
  <2>1. PICK t \in DOMAIN data[g] : t.id = r.id
    BY <1>3
  <2> QED BY <1>3, <2>1 DEF Once
<1>4. CASE h # g /\ k = g
  <2>1. PICK t \in DOMAIN data[g] : t.id = s.id
    BY <1>4
  <2> QED BY <1>4, <2>1 DEF Once
<1> QED BY <1>1, <1>2, <1>3, <1>4

\* Rows of new ids are added once to one group.
LEMMA OnceInsert ==
  ASSUME NEW G \in SUBSET Groups, Once(G), NEW g \in Groups, NEW S,
         CallTo(g, InsertRows(SetToBag(S)), 1),
         \A r, s \in S : r.id = s.id => r = s,
         \A r \in S : Held(r.id) = {}
  PROVE  Once(G)'
<1>1. DOMAIN SetToBag(S) = S /\ \A r \in S : SetToBag(S)[r] = 1
  BY DEF SetToBag
<1>2. \A h \in Groups : h # g => data'[h] = data[h]
  BY InsertData
<1>3. DOMAIN data'[g] = DOMAIN data[g] \cup S
  BY <1>1, InsertData
<1>4. \A r \in S, h \in Groups : \A s \in DOMAIN data[h] : s.id # r.id
  BY DEF Held, Named
<1>5. S \cap DOMAIN data[g] = {}
  BY <1>4
<1>6. \A r \in DOMAIN data[g] : data'[g][r] = data[g][r] + 0
  BY <1>1, <1>5, InsertData
<1>7. \A r \in S : data'[g][r] = 1
  <2>1. \A r \in S : data'[g][r] = 0 + SetToBag(S)[r]
    BY <1>1, <1>5, InsertData
  <2> QED BY <1>1, <2>1
<1> SUFFICES ASSUME NEW h \in G, NEW k \in G, NEW r \in DOMAIN data'[h], NEW s \in DOMAIN data'[k],
                    r.id = s.id
             PROVE  h = k /\ r = s /\ data'[h][r] = 1
  BY DEF Once
<1>8. CASE r \in DOMAIN data[h] /\ s \in DOMAIN data[k]
  <2>1. h = k /\ r = s /\ data[h][r] = 1
    BY <1>8 DEF Once
  <2> QED BY <1>2, <1>6, <1>8, <2>1
<1>9. CASE r \notin DOMAIN data[h]
  <2>1. h = g /\ r \in S
    BY <1>2, <1>3, <1>9
  <2>2. k = g /\ s \in S
    BY <1>2, <1>3, <1>4, <2>1
  <2> QED BY <1>7, <2>1, <2>2
<1>10. CASE s \notin DOMAIN data[k]
  <2>1. k = g /\ s \in S
    BY <1>2, <1>3, <1>10
  <2>2. h = g /\ r \in S
    BY <1>2, <1>3, <1>4, <2>1
  <2> QED BY <1>7, <2>1, <2>2
<1> QED BY <1>8, <1>9, <1>10

\* A step that adds no rows and begins no statement keeps Single.
LEMMA SingleFrame ==
  ASSUME Single, Shrinks, UNCHANGED map, gap \subseteq gap',
         \A S : Altering(S)' /\ "create" \notin S => Altering(S) /\ op' = op,
         op'.kind = "insert" => op.kind = "insert" /\ op'.rows = op.rows /\ op'.todo \subseteq op.todo
  PROVE  Single'
<1> SUFFICES ASSUME gap' \cap {"twice", "late", "undeleted"} = {} PROVE Single'
  BY DEF Single
<1> DEFINE All == FirstGroups \cup {ExtraGroup}
<1>1. /\ Once(FirstGroups)
      /\ IsGrown \/ Altering({"empty", "write"}) => Once(All)
      /\ Altering({"select", "insert"}) => DOMAIN data[ExtraGroup] = {}
      /\ Altering({"insert"}) => CopyOf(op.rows)
      /\ Altering({"delete"}) => CopyOf(data[ExtraGroup])
      /\ op.kind = "insert" =>
           /\ \A r, s \in op.rows : r.id = s.id => r = s
           /\ \A r \in op.rows : shard_for_value(map, r.key) \in op.todo => Held(r.id) = {}
  BY DEF Single
<1>2. /\ Altering({"empty", "write"})' => Altering({"empty", "write"})
      /\ Altering({"select", "insert"})' => Altering({"select", "insert"})
      /\ Altering({"insert"})' => Altering({"insert"}) /\ op' = op
      /\ Altering({"delete"})' => Altering({"delete"})
  OBVIOUS
<1>3. FirstGroups \in SUBSET Groups /\ All \in SUBSET Groups /\ ExtraGroup \in Groups
  BY FirstFacts
<1>4. Once(FirstGroups)' /\ (IsGrown' \/ Altering({"empty", "write"})' => Once(All)')
  BY <1>1, <1>2, <1>3, OnceShrinks, SameMap
<1>5. Altering({"select", "insert"})' => DOMAIN data'[ExtraGroup] = {}
  BY <1>1, <1>2, <1>3 DEF Shrinks
<1>6. Altering({"insert"})' => CopyOf(op.rows)'
  <2>1. Altering({"insert"})' => CopyOf(op.rows) /\ op'.rows = op.rows
    BY <1>1, <1>2
  <2>2. CopyOf(op.rows) => Different(op.rows)
    BY DEF CopyOf
  <2> QED BY <2>1, <2>2, CopyShrinks DEF CopyOf, Different
<1>7. Altering({"delete"})' => CopyOf(data[ExtraGroup])'
  <2>1. CopyOf(data[ExtraGroup]) => Different(data[ExtraGroup])
    BY DEF CopyOf
  <2>2. /\ DOMAIN data'[ExtraGroup] \subseteq DOMAIN data[ExtraGroup]
        /\ \A r \in DOMAIN data'[ExtraGroup] : data'[ExtraGroup][r] = data[ExtraGroup][r]
    BY <1>3 DEF Shrinks
  <2>3. CopyOf(data[ExtraGroup]) => Different(data'[ExtraGroup])
    BY <2>1, <2>2 DEF Different
  <2>4. CopyOf(data[ExtraGroup]) =>
          \A r \in DOMAIN data'[ExtraGroup], g \in FirstGroups : \A s \in DOMAIN data'[g] :
            r.id = s.id => g = SourceGroup /\ Holds("LT", s.key, Extra.upper)
    BY <2>2, CopyShrinks
  <2>5. CopyOf(data[ExtraGroup]) => CopyOf(data[ExtraGroup])'
    BY <2>3, <2>4 DEF CopyOf, Different
  <2> QED BY <1>1, <1>2, <2>5
<1>8. op'.kind = "insert" =>
        /\ \A r, s \in op'.rows : r.id = s.id => r = s
        /\ \A r \in op'.rows : shard_for_value(map', r.key) \in op'.todo => Held(r.id)' = {}
  <2>1. \A id : Held(id)' \subseteq Held(id)
    BY DEF Held, Named, Shrinks
  <2> QED BY <1>1, <2>1
<1> QED BY <1>4, <1>5, <1>6, <1>7, <1>8 DEF Single

\* The next map is not the grown one, or every group's rows already differ.
LEMMA RestingMap ==
  ASSUME Shape, Shape', Resting
  PROVE  IsGrown' => IsGrown \/ Altering({"empty", "write"})
<1>1. CASE CreateStart
  BY <1>1, CreateStartShape, NextMap
<1>2. CASE DropEnd
  BY <1>2, NextMap DEF DropEnd
<1>3. CASE AlterWrite \/ CrashInWrite
  BY <1>3, NextMap DEF AlterWrite, CrashInWrite, Altering
<1>4. CASE Notify
  <2>1. (IsFirst => IsFirst') /\ (map = NoTable => map' = NoTable) /\ map # Torn
    BY <1>4, NotifyShape DEF Notify, shards
  <2> QED BY <2>1, NextMap DEF Shape
<1>5. CASE UNCHANGED map
  BY <1>5, SameMap, Zenon
<1>6. CASE Resting /\ ~CreateStart /\ ~DropEnd /\ ~AlterWrite /\ ~CrashInWrite /\ ~Notify
  <2>1. UNCHANGED map
    BY <1>6, Zenon DEF Resting, DropStart, InsertStart, DeleteStart, UpdateStart, AlterStart, AlterSelect, Crash,
                LoseNotice, vars
  <2> QED BY <1>5, <2>1
<1> QED BY <1>1, <1>2, <1>3, <1>4, <1>6

\* A statement begins, ends, is killed, or goes on without a call.
LEMMA RestingSingle ==
  ASSUME Shape, Stored, Single, Shape', Resting, gap' \cap {"twice", "late", "undeleted"} = {}
  PROVE  Single'
<1> DEFINE All == FirstGroups \cup {ExtraGroup}
<1>1. /\ "late" \notin gap /\ gap \subseteq gap' /\ gap \cap {"twice", "late", "undeleted"} = {}
      /\ UNCHANGED data /\ Shrinks
  BY RestingFacts, RestingShrinks
<1>2. /\ Once(FirstGroups)
      /\ IsGrown \/ Altering({"empty", "write"}) => Once(All)
      /\ Altering({"select", "insert"}) => DOMAIN data[ExtraGroup] = {}
  BY <1>1 DEF Single
<1>3. Once(FirstGroups)' /\ (IsGrown' => Once(All)') /\ (Once(All) => Once(All)')
  BY <1>1, <1>2, RestingMap DEF Once
<1>4. ASSUME op'.kind \notin {"alter", "insert"} PROVE Single'
  BY <1>3, <1>4 DEF Single, Altering
<1>5. CASE CreateStart \/ DropStart \/ DropEnd \/ (\E lit \in Literals : DeleteStart(lit))
           \/ (\E from, to \in Literals : UpdateStart(from, to)) \/ AlterWrite
           \/ Crash \/ CrashInWrite \/ Notify
  <2>1. CASE CreateStart \/ DropStart \/ DropEnd
    BY <1>4, <2>1 DEF CreateStart, DropStart, DropEnd, Begin, NoOp
  <2>2. CASE \E lit \in Literals : DeleteStart(lit)
    BY <1>4, <2>2 DEF DeleteStart, Begin
  <2>3. CASE \E from, to \in Literals : UpdateStart(from, to)
    BY <1>4, <2>3 DEF UpdateStart, Begin
  <2>4. CASE AlterWrite \/ Crash \/ CrashInWrite \/ Notify
    BY <1>4, <2>4 DEF AlterWrite, Crash, CrashInWrite, Notify, NoOp
  <2> QED BY <1>5, <2>1, <2>2, <2>3, <2>4
<1>6. CASE \E k \in 1..2 : \E keys \in [1..k -> Keys] : InsertStart(keys)
  <2>1. PICK k \in 1..2 : \E keys \in [1..k -> Keys] : InsertStart(keys)
    BY <1>6, Zenon
  <2>2. PICK keys \in [1..k -> Keys] : InsertStart(keys)
    BY <2>1
  <2>3. op'.kind = "insert" /\ op'.rows = {[id |-> nrows + i, key |-> keys[i]] : i \in 1..k}
    <3> DEFINE rows == {[id |-> nrows + i, key |-> keys[i]] : i \in 1..k}
    <3>1. op' = [kind |-> "insert", rows |-> rows,
                 todo |-> {shard_for_value(map, r.key) : r \in rows}]
      BY <2>2, InsertStartShape, Zenon
    <3> HIDE DEF rows
    <3>2. op'.kind = "insert" /\ op'.rows = rows
      BY <3>1
    <3> QED BY <3>2 DEF rows
  <2>4. nrows \in Nat
    BY DEF Shape
  <2>5. \A r, s \in op'.rows : r.id = s.id => r = s
    BY <2>3, <2>4
  <2>6. \A r \in op'.rows : r.id > nrows /\ r.id \in Nat
    BY <2>3, <2>4
  <2>7. \A g \in Groups : \A s \in DOMAIN data[g] : s.id \in 1 .. nrows
    BY <1>1 DEF Stored, Rows
  <2>8. \A r \in op'.rows, g \in Groups : \A s \in DOMAIN data[g] : s.id # r.id
    BY <2>4, <2>6, <2>7
  <2>9. \A r \in op'.rows : Held(r.id)' = {}
    BY <1>1, <2>8 DEF Held, Named
  <2> QED BY <1>3, <2>3, <2>5, <2>9 DEF Single, Altering
<1>7. CASE AlterStart
  <2>1. op'.kind = "alter" /\ op'.at = "create"
    BY <1>7 DEF AlterStart, Begin
  <2> QED BY <1>3, <2>1 DEF Single, Altering
<1>8. CASE AlterSelect
  <2>1. op.kind = "alter" /\ op.at = "select" /\ DOMAIN data[ExtraGroup] = {}
    BY <1>2, <1>8 DEF AlterSelect, Altering
  <2>2. \/ op' = NoOp
        \/ op'.kind = "alter" /\ op'.at = "empty"
        \/ op'.kind = "alter" /\ op'.at = "insert" /\ op'.rows = Moving
    BY <1>8, <2>1, OpCases DEF AlterSelect
  <2>3. CASE op' = NoOp
    BY <1>4, <2>3 DEF NoOp
  <2>4. CASE op'.kind = "alter" /\ op'.at = "empty"
    <3>1. Once(All)
      BY <1>2, <2>1 DEF Once
    <3> QED BY <1>3, <2>4, <3>1 DEF Single, Altering
  <2>5. CASE op'.kind = "alter" /\ op'.at = "insert" /\ op'.rows = Moving
    <3>1. /\ DOMAIN Moving = {r \in DOMAIN data[SourceGroup] : Holds("LT", r.key, Extra.upper)}
          /\ \A r \in DOMAIN Moving : Moving[r] = data[SourceGroup][r]
          /\ SourceGroup \in FirstGroups
      BY <1>1, <2>1, MovingRows
    <3>2. Different(Moving)
      BY <1>2, <3>1 DEF Once, Different
    <3>3. \A r \in DOMAIN Moving, g \in FirstGroups : \A s \in DOMAIN data[g] :
            r.id = s.id => g = SourceGroup /\ Holds("LT", s.key, Extra.upper)
      BY <1>2, <3>1 DEF Once
    <3>4. CopyOf(op.rows)'
      BY <1>1, <2>5, <3>2, <3>3 DEF CopyOf, Different
    <3> QED BY <1>1, <1>3, <2>1, <2>5, <3>4 DEF Single, Altering
  <2> QED BY <2>2, <2>3, <2>4, <2>5
<1>9. CASE LoseNotice \/ UNCHANGED vars
  BY <1>1, <1>9, SingleFrame DEF LoseNotice, vars, Altering
<1> QED BY <1>5, <1>6, <1>7, <1>8, <1>9 DEF Resting

\* Every step keeps Single.
LEMMA NextSingle ==
  ASSUME Shape, Stored, Single, Shape', [Next]_vars
  PROVE  Single'
<1> SUFFICES ASSUME gap' \cap {"twice", "late", "undeleted"} = {} PROVE Single'
  BY DEF Single
<1> DEFINE All == FirstGroups \cup {ExtraGroup}
<1>1. /\ gap \subseteq gap' /\ "late" \notin gap' /\ "undeleted" \notin gap' /\ "twice" \notin gap'
      /\ gap \cap {"twice", "late", "undeleted"} = {} /\ "late" \notin gap
  BY GapGrows
<1>2. /\ Once(FirstGroups)
      /\ IsGrown \/ Altering({"empty", "write"}) => Once(All)
      /\ FirstGroups \in SUBSET Groups /\ All \in SUBSET Groups /\ ExtraGroup \in Groups
  BY <1>1, FirstFacts DEF Single
<1>3. CASE Resting
  BY <1>3, RestingSingle
<1>4. ASSUME NEW what, what.do \in {"create", "drop", "delete"}, RoundCall(what), UNCHANGED map
      PROVE  Single'
  <2>1. Shrinks /\ SameTask
    BY <1>4, CallShrinks DEF RoundCall
  <2> QED BY <1>1, <1>4, <2>1, SingleFrame, SameTaskFacts
<1>5. CASE CreateStep
  BY <1>1, <1>4, <1>5, StepOrStopCall DEF CreateStep, Create
<1>6. CASE DropStep
  BY <1>1, <1>4, <1>6, DropStepCall DEF DropStep, Drop
<1>7. CASE InsertStep
  <2>1. PICK i, times : InsertCall(i, times)
    BY <1>1, <1>7, InsertStepCall
  <2> DEFINE g == Group[map[i].addr]
             S == {r \in op.rows : shard_for_value(map, r.key) = i}
  <2>2. /\ g \in Groups /\ i \in op.todo /\ CallTo(g, InsertRows(SetToBag(S)), times) /\ SameTask
        /\ op' = NoOp \/ (times # 0 /\ op'.kind = "insert" /\ op'.todo = op.todo \ {i} /\ op'.rows = op.rows)
    BY <2>1 DEF InsertCall
  <2>3. /\ \A r, s \in op.rows : r.id = s.id => r = s
        /\ \A r \in op.rows : shard_for_value(map, r.key) \in op.todo => Held(r.id) = {}
    BY <1>1, <1>7 DEF InsertStep, Single
  <2>4. UNCHANGED map /\ op'.kind # "alter" /\ ~Altering({"empty", "write"})
    BY <1>7, <2>2 DEF InsertStep, NoOp, Altering
  <2>5. /\ \A r, s \in S : r.id = s.id => r = s
        /\ \A r \in S : Held(r.id) = {}
    BY <2>2, <2>3
  <2>6. times \in {0, 1}
    BY <1>1, <2>2, InsertData
  <2>7. CASE times = 0
    <3>1. Shrinks
      BY <1>1, <2>2, <2>7, InsertData DEF Shrinks, CallTo
    <3> QED BY <1>1, <2>2, <2>4, <3>1, SingleFrame, SameTaskFacts
  <2>8. CASE times = 1
    <3> HIDE DEF g, S
    <3>1. \A G \in SUBSET Groups : Once(G) => Once(G)'
      BY <2>2, <2>5, <2>8, OnceInsert
    <3>2. Once(FirstGroups)' /\ (IsGrown' => Once(All)')
      BY <1>2, <2>4, <3>1, SameMap
    <3>3. op'.kind = "insert" =>
            /\ \A r, s \in op'.rows : r.id = s.id => r = s
            /\ \A r \in op'.rows : shard_for_value(map', r.key) \in op'.todo => Held(r.id)' = {}
      <4> SUFFICES ASSUME op'.kind = "insert", NEW r \in op'.rows, shard_for_value(map', r.key) \in op'.todo
                   PROVE  Held(r.id)' = {}
        BY <2>2, <2>3 DEF NoOp
      <4>1. r \in op.rows /\ shard_for_value(map, r.key) \in op.todo /\ shard_for_value(map, r.key) # i
        BY <2>2, <2>4 DEF NoOp
      <4>2. \A h \in Groups : \A s \in DOMAIN data[h] : s.id # r.id
        BY <2>3, <4>1 DEF Held, Named
      <4>3. \A s \in S : s.id # r.id
        BY <2>3, <4>1 DEF S
      <4>4. DOMAIN SetToBag(S) = S
        BY DEF SetToBag
      <4>5. \A h \in Groups : DOMAIN data'[h] \subseteq DOMAIN data[h] \cup S
        BY <2>2, <4>4, InsertData
      <4> QED BY <4>2, <4>3, <4>5 DEF Held, Named
    <3> QED BY <2>4, <3>2, <3>3 DEF Single, Altering
  <2> QED BY <2>6, <2>7, <2>8
<1>8. CASE BroadcastStep
  <2>1. RoundCall(op.what) /\ UNCHANGED map /\ op.kind = "broadcast" /\ op.what \in Broadcasts
    BY <1>1, <1>8, StepOrStopCall, OpCases DEF BroadcastStep
  <2>2. CASE op.what.do = "delete"
    BY <1>4, <2>1, <2>2
  <2>3. CASE op.what.do = "update"
    <3>1. PICK i \in op.todo, times \in {0, 1, 2} :
            Group[map[i].addr] \in Groups /\ CallTo(Group[map[i].addr], op.what, times) /\ SameTask
      BY <2>1 DEF RoundCall
    <3> DEFINE g == Group[map[i].addr]
    <3>2. g \in Groups /\ DOMAIN data[g] \subseteq Rows
      BY <1>1, <3>1 DEF Stored
    <3>3. (\A h \in Groups : h # g => data'[h] = data[h])
          /\ Rekeys(data[g], data'[g], op.what.from, op.what.to)
      BY <2>1, <2>3, <3>1, <3>2, UpdateData
    <3> HIDE DEF g
    <3>4. \A r \in DOMAIN data'[g] : \E s \in DOMAIN data[g] : s.id = r.id
      <4> SUFFICES ASSUME NEW r \in DOMAIN data'[g], r \notin DOMAIN data[g]
                   PROVE  \E s \in DOMAIN data[g] : s.id = r.id
        OBVIOUS
      <4>1. [id |-> r.id, key |-> op.what.from] \in DOMAIN data[g]
        BY <3>3 DEF Rekeys
      <4> QED BY <4>1
    <3>5. Different(data[g]) => Different(data'[g])
      BY <3>3 DEF Rekeys
    <3>6. \A G \in SUBSET Groups : Once(G) => Once(G)'
      BY <3>2, <3>3, <3>4, <3>5, OnceFrom
    <3>7. op'.kind \notin {"alter", "insert"} /\ ~Altering({"empty", "write"})
      BY <2>1, <3>1, SameTaskFacts DEF SameTask, NoOp, Altering
    <3> QED BY <1>2, <2>1, <3>6, <3>7, SameMap DEF Single, Altering
  <2> QED BY <2>1, <2>2, <2>3 DEF Broadcasts
<1>9. CASE \E a \in Addrs : Failover(a)
  <2>1. Shrinks
    BY <1>1, <1>9, FailoverShrinks
  <2>2. UNCHANGED map /\ SameTask
    BY <1>9 DEF Failover, SameTask
  <2> QED BY <1>1, <2>1, <2>2, SingleFrame, SameTaskFacts
<1>10. CASE AlterCreate \/ AlterInsert \/ AlterDelete
  <2>1. /\ op.kind = "alter" /\ UNCHANGED map /\ IsFirst /\ ~IsGrown'
        /\ ExtraGroup \notin FirstGroups /\ SourceGroup \in FirstGroups
    BY <1>10, OpCases, SameMap, MapGroups, SourceFacts DEF AlterCreate, AlterInsert, AlterDelete
  <2>2. ASSUME NEW stage, stage \notin {"empty", "write"}, Once(FirstGroups)',
               op' = NoOp \/ (op'.kind = "alter" /\ op'.at = stage),
               op' # NoOp /\ stage = "select" => DOMAIN data'[ExtraGroup] = {},
               op' # NoOp /\ stage = "delete" => CopyOf(data[ExtraGroup])',
               stage # "insert"
        PROVE  Single'
    BY <2>1, <2>2 DEF Single, Altering, NoOp
  <2>3. CASE AlterCreate
    <3>1. PICK times : /\ CallTo(ExtraGroup, Create, times)
                       /\ op' = NoOp \/ (times # 0 /\ op' = [kind |-> "alter", at |-> "select", part |-> op.part])
      BY <1>1, <2>3, AlterCalls
    <3>2. Shrinks
      BY <3>1, CallShrinks, FirstFacts DEF Create
    <3>3. times # 0 => DOMAIN data[ExtraGroup] = {}
      BY <1>1, <1>2, <3>1 DEF CallTo, Valid, Create, Stored
    <3>4. op' # NoOp => DOMAIN data'[ExtraGroup] = {}
      BY <1>2, <3>1, <3>2, <3>3 DEF Shrinks
    <3>5. Once(FirstGroups)'
      BY <1>2, <3>2, OnceShrinks
    <3> QED BY <2>2, <3>1, <3>4, <3>5
  <2>4. CASE AlterInsert
    <3>1. PICK times : /\ CallTo(ExtraGroup, InsertRows(op.rows), times)
                       /\ op' = NoOp \/ (times # 0 /\ op' = [kind |-> "alter", at |-> "delete", part |-> op.part])
      BY <1>1, <2>4, AlterCalls
    <3>2. times \in {0, 1} /\ \A h \in Groups : h # ExtraGroup => data'[h] = data[h]
      BY <1>1, <1>2, <3>1, InsertData
    <3>3. Once(FirstGroups)'
      BY <1>2, <2>1, <3>2 DEF Once
    <3>4. DOMAIN data[ExtraGroup] = {} /\ CopyOf(op.rows)
      BY <1>1, <2>4 DEF AlterInsert, Single, Altering
    <3>5. times = 1 => /\ DOMAIN data'[ExtraGroup] = DOMAIN op.rows
                       /\ \A r \in DOMAIN op.rows : data'[ExtraGroup][r] = 0 + op.rows[r]
      <4>1. /\ times # 0 => DOMAIN data'[ExtraGroup] = DOMAIN data[ExtraGroup] \cup DOMAIN op.rows
            /\ times = 1 => \A r \in DOMAIN op.rows \ DOMAIN data[ExtraGroup] :
                             data'[ExtraGroup][r] = 0 + op.rows[r]
        BY <1>2, <3>1, InsertData
      <4> QED BY <3>4, <4>1
    <3>6. ASSUME times = 1 PROVE CopyOf(data[ExtraGroup])'
      <4>1. Different(op.rows)
        BY <3>4 DEF CopyOf
      <4>2. Different(data'[ExtraGroup])
        BY <3>5, <3>6, <4>1 DEF Different
      <4>3. \A g \in FirstGroups : data'[g] = data[g]
        BY <1>2, <2>1, <3>2
      <4>4. \A r \in DOMAIN data'[ExtraGroup], g \in FirstGroups : \A s \in DOMAIN data'[g] :
              r.id = s.id => g = SourceGroup /\ Holds("LT", s.key, Extra.upper)
        BY <3>4, <3>5, <3>6, <4>3 DEF CopyOf
      <4> QED BY <4>2, <4>4 DEF CopyOf, Different
    <3>7. op' # NoOp => CopyOf(data[ExtraGroup])'
      BY <3>1, <3>2, <3>6
    <3> QED BY <2>2, <3>1, <3>3, <3>7
  <2>5. CASE AlterDelete
    <3>1. PICK times : CallTo(SourceGroup, DeleteWhere("LT", Extra.upper), times)
      BY <1>1, <2>5, AlterCalls
    <3>2. /\ SourceGroup \in Groups /\ times # 0
          /\ \A h \in Groups : h # SourceGroup => data'[h] = data[h]
          /\ DOMAIN data'[SourceGroup] = {r \in DOMAIN data[SourceGroup] : ~Holds("LT", r.key, Extra.upper)}
      <4>1. SourceGroup \in Groups
        BY <1>2, <2>1
      <4>2. /\ \A h \in Groups : h # SourceGroup => data'[h] = data[h]
            /\ times # 0 =>
                 DOMAIN data'[SourceGroup] = {r \in DOMAIN data[SourceGroup] : ~Holds("LT", r.key, Extra.upper)}
            /\ times = 0 /\ op.kind = "alter" => "undeleted" \in gap'
        BY <3>1, <4>1, DeleteData
      <4> QED BY <1>1, <2>1, <4>1, <4>2
    <3>3. Shrinks
      BY <3>1, <3>2, CallShrinks DEF DeleteWhere
    <3>4. Once(FirstGroups)'
      BY <1>2, <3>3, OnceShrinks
    <3>5. CopyOf(data[ExtraGroup]) /\ data'[ExtraGroup] = data[ExtraGroup]
      BY <1>1, <1>2, <2>1, <2>5, <3>2 DEF AlterDelete, Single, Altering
    <3>6. \A r \in DOMAIN data'[ExtraGroup], g \in FirstGroups : \A s \in DOMAIN data'[g] : r.id # s.id
      <4> SUFFICES ASSUME NEW r \in DOMAIN data'[ExtraGroup], NEW g \in FirstGroups,
                          NEW s \in DOMAIN data'[g], r.id = s.id
                   PROVE  FALSE
        OBVIOUS
      <4>1. s \in DOMAIN data[g] /\ r \in DOMAIN data[ExtraGroup]
        BY <1>2, <3>3, <3>5 DEF Shrinks
      <4>2. g = SourceGroup /\ Holds("LT", s.key, Extra.upper)
        BY <3>5, <4>1 DEF CopyOf
      <4> QED BY <3>2, <4>2
    <3>7. Different(data'[ExtraGroup])
      BY <3>5 DEF CopyOf
    <3>8. Once(All)'
      BY <3>4, <3>6, <3>7 DEF Once, Different
    <3>9. op'.kind = "alter" /\ op'.at = "write"
      BY <2>5, OpCases DEF AlterDelete
    <3> QED BY <2>1, <3>4, <3>8, <3>9 DEF Single, Altering
  <2> QED BY <1>10, <2>3, <2>4, <2>5
<1> QED BY <1>1, <1>3, <1>5, <1>6, <1>7, <1>8, <1>9, <1>10, StepKinds

\* A SELECT over all partitions returns no row twice: after INSERTs, UPDATEs of
\* the partition column, ALTERs that failed or were killed at any step, and a
\* CREATE over what a failed DROP left.
THEOREM RowsAreReturnedOnce == Spec => []OneCopy
<1> DEFINE Inv == Straight => Shape /\ Stored /\ Single
<1>1. Init => Inv
  <2> SUFFICES ASSUME Init PROVE Single
    BY InitShape, InitRows
  <2>1. \A g \in Groups : DOMAIN data[g] = {}
    BY DEF Init, EmptyBag
  <2>2. op.kind = "none"
    BY DEF Init, NoOp
  <2> QED BY <2>1, <2>2, FirstFacts DEF Single, Altering, Once
<1>2. Inv /\ [Next]_vars => Inv'
  <2> SUFFICES ASSUME Shape, Stored, Single, [Next]_vars, Straight' PROVE (Shape /\ Stored /\ Single)'
    BY GapGrows
  <2>1. Shape'
    BY NextShape
  <2> QED BY <2>1, NextStored, NextSingle
<1>3. Inv => OneCopy
  <2> SUFFICES ASSUME Shape, Single, Quiet, gap \cap {"twice", "late", "undeleted"} = {},
                      NEW id \in 1..nrows, NEW i \in DOMAIN map, NEW j \in DOMAIN map,
                      NEW r \in Named(RowsAt(i), id), NEW s \in Named(RowsAt(j), id)
               PROVE  i = j /\ r = s /\ RowsAt(i)[r] = 1
    BY DEF OneCopy, Straight
  <2>1. IsFirst \/ IsGrown
    BY DEF Shape, Quiet, NoTable
  <2> DEFINE g == Group[map[i].addr]
             h == Group[map[j].addr]
  <2>2. r \in DOMAIN data[g] /\ s \in DOMAIN data[h] /\ r.id = s.id
    BY DEF RowsAt, Named
  <2>3. g = h /\ r = s /\ data[g][r] = 1
    <3>1. CASE IsFirst
      <4>1. Once(FirstGroups)
        BY DEF Single
      <4>2. g \in FirstGroups /\ h \in FirstGroups
        BY <3>1, MapGroups
      <4> QED BY <2>2, <4>1, <4>2 DEF Once
    <3>2. CASE IsGrown
      <4>1. Once(FirstGroups \cup {ExtraGroup})
        BY <3>2 DEF Single
      <4>2. g \in FirstGroups \cup {ExtraGroup} /\ h \in FirstGroups \cup {ExtraGroup}
        BY <3>2, MapGroups
      <4> QED BY <2>2, <4>1, <4>2 DEF Once
    <3> QED BY <2>1, <3>1, <3>2
  <2> QED BY <2>1, <2>3, MapGroups DEF RowsAt
<1> HIDE DEF Inv
<1> QED BY <1>1, <1>2, <1>3, PTL DEF Spec
=============================================================================
