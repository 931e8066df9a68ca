-------------------------- MODULE ShardingFound -----------------------------
(***************************************************************************)
(* What a SELECT asks and finds, for any groups, keys, partitions and      *)
(* bounds.  The addresses it asks are those of the groups' leaders, and it *)
(* finds every acknowledged row: Reachable of ShardingInvariant says on    *)
(* which of the groups a statement would ask the row is at each step.      *)
(***************************************************************************)
EXTENDS ShardingRows

-----------------------------------------------------------------------------
(* The leaders.                                                            *)

\* Addresses, leaders and notices stay as they are.
LEMMA LeadingFrame ==
  ASSUME Leading, UNCHANGED <<map, leader, notices>>, gap \subseteq gap',
         op'.kind = "alter" => op.kind = "alter" /\ op'.part = op.part
  PROVE  Leading'
BY DEF Leading, Led

\* A failover leaves a notice for the addresses it makes stale.
LEMMA FailoverLeading ==
  ASSUME Shape, Leading, NEW a \in Addrs, Failover(a), Straight'
  PROVE  Leading'
<1> DEFINE g == Group[a]
           l == leader[g]
<1> SUFFICES ASSUME gap' \cap {"misnamed", "unnotified"} = {}
             PROVE  /\ \A x \in notices' : x.new = leader'[Group[x.new]]
                    /\ map' # Torn => \A i \in DOMAIN map' : Led(map[i].addr)'
                    /\ op'.kind = "alter" => Led(op.part.addr)'
  BY DEF Leading
<1>1. /\ gap \cap {"misnamed", "unnotified"} = {} /\ Configured[a] = l
      /\ leader' = [leader EXCEPT ![g] = a] /\ UNCHANGED <<map, op>>
  BY DEF Failover
<1>2. g \in Groups /\ l \in Addrs /\ Group[l] = g /\ Configured[a] # NoAddr /\ Configured[l] = NoAddr
  BY <1>1, LeadersAssumption DEF Shape, Groups
<1>3. notices' = notices \cup {[old |-> l, new |-> a]}
  <2>1. Announced[a] = a
    BY DEF Failover, Straight, Astray
  <2> QED BY <1>1, <1>2, <2>1, LeadersAssumption DEF Failover
<1>4. leader'[g] = a /\ \A h \in Groups : h # g => leader'[h] = leader[h]
  BY <1>1, <1>2 DEF Shape
\* The group's leader so far had no leader configured, so no notice names it.
<1>5. \A x \in notices : /\ x.new \in Addrs /\ Group[x.new] \in Groups
                         /\ x.new = leader[Group[x.new]] /\ Group[x.new] # g
  <2> SUFFICES ASSUME NEW x \in notices
               PROVE  /\ x.new \in Addrs /\ Group[x.new] \in Groups
                      /\ x.new = leader[Group[x.new]] /\ Group[x.new] # g
    OBVIOUS
  <2>1. x.new \in Addrs /\ Group[x.new] \in Groups /\ x.old \in Addrs /\ x.old = Configured[x.new]
    BY DEF Shape, Groups
  <2>2. x.new = leader[Group[x.new]]
    BY <1>1 DEF Leading
  <2>3. x.new # l
    BY <1>2, <2>1, LeadersAssumption
  <2> QED BY <2>1, <2>2, <2>3
<1>6. ASSUME NEW b \in Addrs, Led(b) PROVE Led(b)'
  <2>1. Group[b] \in Groups
    BY DEF Groups
  <2>2. CASE Group[b] # g
    BY <1>3, <1>4, <1>6, <2>1, <2>2 DEF Led
  <2>3. CASE Group[b] = g
    <3>1. b = l
      <4>1. [old |-> b, new |-> l] \notin notices
        BY <1>2, <1>5
      <4> QED BY <1>6, <2>3, <4>1 DEF Led
    <3> QED BY <1>3, <1>4, <2>3, <3>1 DEF Led
  <2> QED BY <2>2, <2>3
<1>7. \A x \in notices' : x.new = leader'[Group[x.new]]
  BY <1>3, <1>4, <1>5
<1>8. map' # Torn => \A i \in DOMAIN map' : Led(map[i].addr)'
  <2>1. map # Torn => \A i \in DOMAIN map : map[i].addr \in Addrs /\ Led(map[i].addr)
    BY <1>1, WholeMap DEF Leading, Shape, NoTable
  <2> QED BY <1>1, <1>6, <2>1, Zenon DEF Led
<1>9. op'.kind = "alter" => Led(op.part.addr)'
  <2>1. op.kind = "alter" => op.part.addr \in Addrs /\ Led(op.part.addr)
    BY <1>1, OpCases DEF Leading, NewParts, Partitions
  <2> QED BY <1>1, <1>6, <2>1 DEF Led
<1> QED BY <1>7, <1>8, <1>9

\* The notice replaces the stale address wherever the map names it.
LEMMA NotifyLeading ==
  ASSUME Shape, Leading, Notify
  PROVE  Leading'
<1>1. PICK x \in notices : /\ op = NoOp /\ map # Torn /\ notices' = notices \ {x}
                           /\ map' = notify_leader(map, x.old, x.new)
                           /\ UNCHANGED <<leader, op, nrows, gap>>
  BY DEF Notify
<1>2. /\ DOMAIN map' = DOMAIN map
      /\ \A i \in DOMAIN map : map'[i].addr = IF map[i].addr = x.old THEN x.new ELSE map[i].addr
  BY <1>1, NotifyShape
<1> SUFFICES ASSUME gap \cap {"misnamed", "unnotified"} = {}
             PROVE  \A i \in DOMAIN map : Led(map[i].addr)'
  BY <1>1, <1>2 DEF Leading, NoOp
<1> SUFFICES ASSUME NEW i \in DOMAIN map PROVE Led(map[i].addr)'
  OBVIOUS
<1>3. Led(map[i].addr) /\ x.new = leader[Group[x.new]]
  BY <1>1 DEF Leading
<1>4. CASE map[i].addr = x.old
  BY <1>1, <1>2, <1>3, <1>4 DEF Led
<1>5. CASE map[i].addr # x.old
  BY <1>1, <1>2, <1>3, <1>5 DEF Led
<1> QED BY <1>4, <1>5

\* Every step keeps the addresses of the map led, or announced.
LEMMA NextLeading ==
  ASSUME Shape, Leading, [Next]_vars, Straight'
  PROVE  Leading'
<1> USE DEF nodes, NoOp
<1>1. CASE UNCHANGED vars
  BY <1>1, LeadingFrame DEF vars
<1>2. CASE CreateStart
  <2>1. /\ map' = [i \in DOMAIN FirstMap |-> Current(FirstMap[i])]
        /\ UNCHANGED <<leader, notices, gap>> /\ op'.kind = "create"
    BY <1>2 DEF CreateStart, Begin
  <2>2. \A i \in DOMAIN map' : Led(map[i].addr)'
    <3> SUFFICES ASSUME NEW i \in DOMAIN FirstMap PROVE Led(map[i].addr)'
      BY <2>1
    <3>1. Group[Current(FirstMap[i]).addr] = Group[FirstMap[i].addr]
          /\ Current(FirstMap[i]).addr = leader[Group[FirstMap[i].addr]]
      BY CurrentFacts, FirstFacts, MapFacts
    <3> QED BY <2>1, <3>1 DEF Led
  <2> QED BY <2>1, <2>2 DEF Leading
<1>3. ASSUME NEW what, StepOrStop(what), op.kind \in {"create", "broadcast"}, UNCHANGED <<map, leader, notices>>
      PROVE  Leading'
  <2>1. gap \subseteq gap' /\ (op' = NoOp \/ op' = [op EXCEPT !.todo = op.todo \ {First(op.todo)}])
    BY <1>3, CallGap DEF StepOrStop
  <2>2. op'.kind # "alter"
    BY <1>3, <2>1, OpCases
  <2> QED BY <1>3, <2>1, <2>2, LeadingFrame
<1>4. CASE CreateStep
  BY <1>3, <1>4 DEF CreateStep
<1>5. CASE DropStart
  BY <1>5, LeadingFrame DEF DropStart, Begin
<1>6. CASE DropStep
  <2>1. gap \subseteq gap' /\ op' = [op EXCEPT !.todo = op.todo \ {First(op.todo)}]
    BY <1>6, CallGap DEF DropStep
  <2>2. op'.kind # "alter"
    BY <1>6, <2>1, OpCases DEF DropStep
  <2> QED BY <1>6, <2>1, <2>2, LeadingFrame DEF DropStep
<1>7. CASE DropEnd
  BY <1>7 DEF DropEnd, Leading, NoTable
<1>8. CASE \E k \in 1..2 : \E keys \in [1..k -> Keys] : InsertStart(keys)
  BY <1>8, LeadingFrame DEF InsertStart, Begin
<1>9. CASE InsertStep
  <2>1. PICK i \in op.todo : /\ gap \subseteq gap'
                             /\ op' = NoOp \/ op' = [op EXCEPT !.todo = op.todo \ {i}]
    BY <1>9, CallGap, Zenon DEF InsertStep
  <2>2. op'.kind # "alter"
    BY <1>9, <2>1, OpCases DEF InsertStep
  <2>3. UNCHANGED <<map, leader, notices>>
    BY <1>9 DEF InsertStep, nodes
  <2> QED BY <2>1, <2>2, <2>3, LeadingFrame
<1>10. CASE \E lit \in Literals : DeleteStart(lit)
  BY <1>10, LeadingFrame DEF DeleteStart, Begin
<1>11. CASE \E from, to \in Literals : UpdateStart(from, to)
  BY <1>11, LeadingFrame DEF UpdateStart, Begin
<1>12. CASE BroadcastStep
  BY <1>3, <1>12 DEF BroadcastStep
<1>13. CASE AlterStart
  <2>1. op'.part.addr = leader[ExtraGroup] /\ Group[op'.part.addr] = ExtraGroup
    BY <1>13, CurrentFacts, FirstFacts DEF AlterStart, Begin, ExtraGroup
  <2>2. UNCHANGED <<map, leader, notices>> /\ gap \subseteq gap'
    BY <1>13 DEF AlterStart
  <2> QED BY <2>1, <2>2 DEF Leading, Led
<1>14. CASE AlterCreate
  <2>1. gap \subseteq gap' /\ (op' = NoOp \/ op' = [op EXCEPT !.at = "select"])
    BY <1>14, CallGap DEF AlterCreate
  <2>2. op'.kind = "alter" => op'.part = op.part
    BY <1>14, <2>1, OpCases DEF AlterCreate
  <2> QED BY <1>14, <2>1, <2>2, LeadingFrame DEF AlterCreate
<1>15. CASE AlterSelect
  <2>1. op'.kind = "alter" => op'.part = op.part
    BY <1>15, OpCases DEF AlterSelect
  <2> QED BY <1>15, <2>1, LeadingFrame DEF AlterSelect
<1>16. CASE AlterInsert
  BY <1>16, CallGap, LeadingFrame DEF AlterInsert
<1>17. CASE AlterDelete
  <2>1. gap \subseteq gap' /\ op' = [op EXCEPT !.at = "write"]
    BY <1>17, CallGap DEF AlterDelete
  <2>2. op'.kind = "alter" => op'.part = op.part
    BY <1>17, <2>1, OpCases DEF AlterDelete
  <2> QED BY <1>17, <2>1, <2>2, LeadingFrame DEF AlterDelete
<1>18. CASE AlterWrite
  <2>1. /\ IsFirst /\ op' = NoOp /\ op.kind = "alter" /\ UNCHANGED <<leader, notices, gap>>
        /\ \A i \in DOMAIN map' : map'[i] = op.part \/ \E j \in DOMAIN map : map'[i] = map[j]
    BY <1>18, AlterWriteShape DEF AlterWrite
  <2>2. map # Torn
    BY <2>1, WholeMap
  <2> QED BY <2>1, <2>2 DEF Leading, Led
<1>19. CASE Arrive
  BY <1>19, LeadingFrame DEF Arrive
<1>20. CASE Crash
  BY <1>20, LeadingFrame DEF Crash
<1>21. CASE CrashInWrite
  <2>1. /\ map' = Torn /\ op'.kind = "none" /\ UNCHANGED <<leader, gap>>
        /\ \A x \in notices' : x \in notices
    BY <1>21 DEF CrashInWrite
  <2> QED BY <2>1 DEF Leading
<1>22. CASE Notify
  BY <1>22, NotifyLeading
<1>23. CASE LoseNotice
  BY <1>23 DEF LoseNotice, Leading
<1>24. CASE \E a \in Addrs : Failover(a)
  BY <1>24, FailoverLeading
<1> QED
  BY <1>1, <1>2, <1>4, <1>5, <1>6, <1>7, <1>8, <1>9, <1>10, <1>11, <1>12, <1>13, <1>14, <1>15,
     <1>16, <1>17, <1>18, <1>19, <1>20, <1>21, <1>22, <1>23, <1>24 DEF Next

\* A map's partitions are on the groups they were declared on.
LEMMA DeclaredGroups ==
  ASSUME IsFirst \/ IsGrown, NEW i \in DOMAIN map
  PROVE  Group[map[i].addr] = Group[Declared[i].addr]
<1>1. CASE IsFirst
  <2>1. Declared = FirstMap
    BY <1>1, FirstFacts, LikeRoutes DEF Declared, IsFirst
  <2> QED BY <1>1, <2>1 DEF IsFirst, Like
<1>2. CASE IsGrown
  <2>1. Len(map) = Len(Grown) /\ Len(Grown) = Len(FirstMap) + 1 /\ Len(FirstMap) \in Nat
    <3>1. DOMAIN Grown = 1 .. (Len(FirstMap) + 1) /\ Len(FirstMap) \in Nat
      BY FirstFacts, GrownFacts
    <3>2. Len(Grown) = Len(FirstMap) + 1
      BY <3>1, GrownFacts
    <3>3. Len(map) = Len(Grown)
      BY <1>2, GrownFacts, LikeRoutes DEF IsGrown
    <3> QED BY <3>1, <3>2, <3>3
  <2>2. Declared = Grown
    BY <2>1 DEF Declared, Grown
  <2> QED BY <1>2, <2>2 DEF IsGrown, Like
<1> QED BY <1>1, <1>2

\* notify_leader keeps the map on the leaders: when no notice is under way, none was
\* lost, no new leader named the wrong predecessor or announced an address that is
\* not its own (become_leader_ announces 127.0.0.1), and ALTER shared no group, every
\* partition's address is the leader of the group it was declared on, for any number
\* of groups, nodes, statements and failovers.
THEOREM RoutingFollowsLeaders == Spec => []RoutesToLeader
<1> DEFINE Inv == Straight => Shape /\ Leading
<1>1. Init => Inv
  BY InitShape DEF Init, Leading, NoTable, NoOp
<1>2. Inv /\ [Next]_vars => Inv'
  BY GapGrows, NextShape, NextLeading
<1>3. Inv => RoutesToLeader
  <2> SUFFICES ASSUME Shape, Leading, Quiet, notices = {}, gap \cap {"misnamed", "unnotified"} = {},
                      NEW i \in DOMAIN map
               PROVE  map[i].addr = leader[Group[Declared[i].addr]]
    BY DEF RoutesToLeader, Straight
  <2>1. IsFirst \/ IsGrown
    BY DEF Shape, Quiet, NoTable
  <2>2. map[i].addr = leader[Group[map[i].addr]]
    BY DEF Leading, Led, Quiet
  <2> QED BY <2>1, <2>2, DeclaredGroups
<1> HIDE DEF Inv
<1> QED BY <1>1, <1>2, <1>3, PTL DEF Spec

-----------------------------------------------------------------------------
(* An acknowledged row is found.                                           *)

\* A row of some id is there.
LEMMA NamedIn ==
  ASSUME NEW b, NEW id
  PROVE  Named(b, id) # {} <=> \E r \in DOMAIN b : r.id = id
BY DEF Named

\* A torn map file stays: no statement of the model gets past it.
LEMMA TornStays ==
  ASSUME Shape, map = Torn, [Next]_vars
  PROVE  map' = Torn
<1>1. op = NoOp /\ ~HasMap /\ map # NoTable
  BY WholeMap, OpCases DEF HasMap, NoTable, Torn
<1>2. op.kind = "none"
  BY <1>1 DEF NoOp
<1>3. CASE CreateStart \/ CreateStep \/ DropStart \/ DropStep \/ DropEnd \/ InsertStep \/ BroadcastStep
  BY <1>1, <1>2, <1>3 DEF CreateStart, CreateStep, DropStart, DropStep, DropEnd, InsertStep, BroadcastStep
<1>4. CASE (\E k \in 1..2 : \E keys \in [1..k -> Keys] : InsertStart(keys))
           \/ (\E lit \in Literals : DeleteStart(lit)) \/ (\E from, to \in Literals : UpdateStart(from, to))
  BY <1>1, <1>4, Zenon DEF InsertStart, DeleteStart, UpdateStart
<1>5. CASE AlterStart \/ AlterCreate \/ AlterSelect \/ AlterInsert \/ AlterDelete \/ AlterWrite \/ CrashInWrite
  BY <1>1, <1>2, <1>5 DEF AlterStart, AlterCreate, AlterSelect, AlterInsert, AlterDelete, AlterWrite, CrashInWrite
<1>6. CASE Arrive \/ Crash \/ Notify \/ LoseNotice \/ (\E a \in Addrs : Failover(a)) \/ UNCHANGED vars
  BY <1>1, <1>6 DEF Arrive, Crash, Notify, LoseNotice, Failover, vars
<1> QED BY <1>3, <1>4, <1>5, <1>6 DEF Next

\* The groups of the map, before and after a step.
MapAsked == {Group[map[i].addr] : i \in DOMAIN map}

\* The groups a SELECT asks are those of the map, and the new one as ALTER ends.
LEMMA AskedFacts ==
  /\ MapAsked \subseteq Asked /\ MapAsked' \subseteq Asked'
  /\ ~Altering({"write"}) => Asked = MapAsked
  /\ Asked \subseteq MapAsked \cup {ExtraGroup}
  /\ Altering({"write"})' => ExtraGroup \in Asked'
  /\ IsFirst => MapAsked = FirstGroups
  /\ IsFirst' => MapAsked' = FirstGroups
  /\ IsGrown => MapAsked = FirstGroups \cup {ExtraGroup}
  /\ IsGrown' => MapAsked' = FirstGroups \cup {ExtraGroup}
<1>1. /\ MapAsked \subseteq Asked /\ MapAsked' \subseteq Asked'
      /\ ~Altering({"write"}) => Asked = MapAsked
      /\ Asked \subseteq MapAsked \cup {ExtraGroup}
      /\ Altering({"write"})' => ExtraGroup \in Asked'
  BY DEF Asked, MapAsked
<1>2. /\ IsFirst => MapAsked = FirstGroups
      /\ IsGrown => MapAsked = FirstGroups \cup {ExtraGroup}
  BY LikeGroups DEF IsFirst, IsGrown, MapAsked
<1>3. /\ IsFirst' => MapAsked' = FirstGroups
      /\ IsGrown' => MapAsked' = FirstGroups \cup {ExtraGroup}
  BY LikeGroups DEF IsFirst, IsGrown, MapAsked
<1> QED BY <1>1, <1>2, <1>3

\* They are groups.
LEMMA AskedGroups ==
  ASSUME Shape, map # Torn
  PROVE  Asked \subseteq Groups
<1>1. MapAsked \subseteq Groups
  BY WholeMap, NextMap DEF Shape, MapAsked, NoTable
<1> QED BY <1>1, AskedFacts, FirstFacts

\* The groups that keys and moved rows are sent to.
LEMMA HomeIn ==
  ASSUME IsFirst \/ IsGrown, NEW k \in Keys
  PROVE  /\ shard_for_value(map, k) \in DOMAIN map
         /\ Home(map, k) = Group[map[shard_for_value(map, k)].addr]
         /\ Home(map, k) \in MapAsked /\ Home(map, k) \in Groups
<1>1. shard_for_value(map, k) \in DOMAIN map
  BY WholeMap, KeyFacts, RoutedToFirstTaker
<1> QED BY <1>1, WholeMap DEF Home, MapAsked

\* The group whose rows move is one of the first map.
LEMMA SourceIn == SourceGroup \in FirstGroups /\ SourceGroup \in Groups
BY GrownFacts, FirstFacts, Zenon DEF SourceGroup, FirstGroups, AtMax

\* The step leaves every group its rows, and the statement goes on as it was.
LEMMA ReachableFrame ==
  ASSUME Shape, Reachable, UNCHANGED <<map, op, due>>, gap \subseteq gap',
         \A g \in Groups : DOMAIN data'[g] = DOMAIN data[g]
  PROVE  Reachable'
<1> SUFFICES ASSUME gap' \cap {"late", "moved", "behind"} = {}, map # Torn PROVE Reachable'
  BY DEF Reachable
<1>1. Asked' = Asked /\ Asked \subseteq Groups
  BY AskedGroups DEF Asked, Altering
<1>2. \A g \in Groups : \A id : Named(data'[g], id) = Named(data[g], id)
  BY DEF Named
<1>3. \A id : Held(id)' = Held(id)
  BY <1>2 DEF Held
<1>4. \A id \in due : \E g \in Asked : Named(data'[g], id) # {}
  BY <1>1, <1>2 DEF Reachable
<1>5. op.kind = "insert" =>
        \A r \in op.rows : shard_for_value(map, r.key) \notin op.todo =>
          Named(data'[Home(map, r.key)], r.id) # {}
  <2>1. op.kind = "insert" => \A r \in op.rows : Home(map, r.key) \in Groups
    BY OpCases, HomeIn, KeyFacts
  <2> QED BY <1>2, <2>1 DEF Reachable
<1>6. ExtraGroup \in Groups /\ SourceGroup \in Groups
  BY FirstFacts, SourceIn
<1>7. Matches(data'[SourceGroup], "LT", Extra.upper) = Matches(data[SourceGroup], "LT", Extra.upper)
  BY <1>6 DEF Matches
<1>8. Altering({"insert"})' = Altering({"insert"}) /\ Altering({"delete"})' = Altering({"delete"})
  BY DEF Altering
<1> QED BY <1>1, <1>2, <1>3, <1>4, <1>5, <1>6, <1>7, <1>8 DEF Reachable

\* What is asked for is still found, and the next statement's record asks for
\* nothing else.
LEMMA ReachableQuiet ==
  ASSUME Reachable, gap \cap {"late", "moved", "behind"} = {}, map # Torn,
         due' \subseteq due, Asked \subseteq Asked',
         \A g \in Asked, id \in due' : Named(data[g], id) # {} => Named(data'[g], id) # {},
         map' = NoTable \/ op'.kind \in {"create", "drop"} => due' = {},
         op'.kind # "insert", ~Altering({"insert", "delete"})',
         op'.kind = "broadcast" /\ op'.what.do = "delete" =>
           \A id \in due' : \A r \in Held(id)' : r.key # op'.what.lit
  PROVE  Reachable'
<1>1. \A id \in due' : \E g \in Asked' : Named(data'[g], id) # {}
  BY DEF Reachable
<1>2. ~Altering({"insert"})' /\ ~Altering({"delete"})'
  BY DEF Altering
<1> QED BY <1>1, <1>2 DEF Reachable

\* A statement begins, ends, is killed, or goes on without a call.
LEMMA RestingReachable ==
  ASSUME Shape, Stored, Reachable, Shape', Resting,
         gap' \cap {"late", "moved", "behind"} = {}, map' # Torn, map # Torn
  PROVE  Reachable'
<1>1. /\ "late" \notin gap /\ gap \subseteq gap' /\ gap \cap {"late", "moved", "behind"} = {}
      /\ UNCHANGED data
  BY RestingFacts, RestingShrinks
<1>2. /\ map = NoTable \/ op.kind \in {"create", "drop"} => due = {}
      /\ \A id \in due : \E g \in Asked : Named(data[g], id) # {}
  BY <1>1 DEF Reachable
\* Nothing is asked for.
<1>3. ASSUME due' = {}, op'.kind \notin {"insert", "broadcast", "alter"} PROVE Reachable'
  BY <1>3 DEF Reachable, Altering
<1>4. ASSUME due' \subseteq due, op'.kind \notin {"create", "drop", "insert"}, ~Altering({"insert", "delete"})',
             map' = NoTable => map = NoTable, Asked \subseteq Asked',
             op'.kind = "broadcast" /\ op'.what.do = "delete" =>
               \A id \in due' : \A r \in Held(id)' : r.key # op'.what.lit
      PROVE  Reachable'
  BY <1>1, <1>2, <1>4, ReachableQuiet
<1>5. ASSUME UNCHANGED map, ~Altering({"write"}) PROVE Asked \subseteq Asked'
  BY <1>5, AskedFacts DEF MapAsked
<1>6. CASE CreateStart
  BY <1>2, <1>3, <1>6 DEF CreateStart, Begin
<1>7. CASE DropStart
  BY <1>3, <1>7 DEF DropStart, Begin
<1>8. CASE DropEnd
  BY <1>2, <1>3, <1>8 DEF DropEnd, NoOp
<1>9. CASE \E k \in 1..2 : \E keys \in [1..k -> Keys] : InsertStart(keys)
  <2>1. PICK k \in 1..2 : \E keys \in [1..k -> Keys] : InsertStart(keys)
    BY <1>9, Zenon
  <2>2. PICK keys \in [1..k -> Keys] : InsertStart(keys)
    BY <2>1
  <2>3. op'.kind = "insert" /\ \A r \in op'.rows : shard_for_value(map, r.key) \in op'.todo
    <3> DEFINE rows == {[id |-> nrows + i, key |-> keys[i]] : i \in 1..k}
    <3>1. op' = [kind |-> "insert", rows |-> rows,
                 todo |-> {shard_for_value(map, r.key) : r \in rows}]
      BY <2>2, InsertStartShape, Zenon
    <3> HIDE DEF rows
    <3> QED BY <3>1
  <2>4. UNCHANGED <<map, due>> /\ map # NoTable /\ op = NoOp
    BY <2>2 DEF InsertStart, HasMap, Begin
  <2>5. Asked \subseteq Asked'
    BY <1>5, <2>4 DEF Altering, NoOp
  <2> QED BY <1>1, <1>2, <2>3, <2>4, <2>5 DEF Reachable, Altering
<1>10. CASE \E lit \in Literals : DeleteStart(lit)
  <2>1. PICK lit \in Literals : DeleteStart(lit)
    BY <1>10
  <2>2. /\ op'.kind = "broadcast" /\ op'.what.do = "delete" /\ op'.what.lit = lit
        /\ due' = {id \in due : \A r \in Held(id) : r.key # lit} /\ UNCHANGED map /\ op = NoOp
    BY <2>1 DEF DeleteStart, Begin, DeleteWhere
  <2>3. \A id : Held(id)' = Held(id)
    BY <1>1 DEF Held
  <2>4. Asked \subseteq Asked'
    BY <1>5, <2>2 DEF Altering, NoOp
  <2> QED BY <1>4, <2>2, <2>3, <2>4 DEF Altering
<1>11. CASE \E from, to \in Literals : UpdateStart(from, to)
  <2>1. /\ op'.kind = "broadcast" /\ op'.what.do = "update"
        /\ UNCHANGED <<map, due>> /\ op = NoOp
    BY <1>11 DEF UpdateStart, Begin, UpdateKey
  <2>2. Asked \subseteq Asked'
    BY <1>5, <2>1 DEF Altering, NoOp
  <2> QED BY <1>4, <2>1, <2>2 DEF Altering
<1>12. CASE AlterStart
  <2>1. op'.kind = "alter" /\ op'.at = "create" /\ UNCHANGED <<map, due>> /\ op = NoOp
    BY <1>12 DEF AlterStart, Begin
  <2>2. Asked \subseteq Asked'
    BY <1>5, <2>1 DEF Altering, NoOp
  <2> QED BY <1>4, <2>1, <2>2 DEF Altering
<1>13. CASE AlterSelect
  <2>1. op.kind = "alter" /\ op.at = "select" /\ UNCHANGED <<map, due>> /\ map # NoTable
    BY <1>13, OpCases, WholeMap DEF AlterSelect
  <2>2. Asked \subseteq Asked'
    BY <1>5, <2>1 DEF Altering
  <2>3. \/ op' = NoOp
        \/ op'.kind = "alter" /\ op'.at = "empty"
        \/ op'.kind = "alter" /\ op'.at = "insert" /\ op'.rows = Moving
    BY <1>13, <2>1, OpCases DEF AlterSelect
  <2>4. CASE op' = NoOp \/ (op'.kind = "alter" /\ op'.at = "empty")
    BY <1>4, <2>1, <2>2, <2>4 DEF Altering, NoOp
  <2>5. CASE op'.kind = "alter" /\ op'.at = "insert" /\ op'.rows = Moving
    <3>1. Matches(data'[SourceGroup], "LT", Extra.upper) \subseteq DOMAIN op'.rows
      BY <1>1, <2>1, <2>5, MovingRows DEF Matches
    <3> QED BY <1>1, <1>2, <2>1, <2>2, <2>5, <3>1 DEF Reachable, Altering
  <2> QED BY <2>3, <2>4, <2>5
<1>14. CASE AlterWrite
  <2>1. IsFirst /\ IsGrown' /\ op' = NoOp /\ UNCHANGED due
    BY <1>14, AlterWriteShape DEF AlterWrite
  <2>2. Asked \subseteq Asked'
    BY <2>1, AskedFacts
  <2>3. map' # NoTable
    BY <2>1, NextMap
  <2> QED BY <1>4, <2>1, <2>2, <2>3 DEF Altering, NoOp
<1>15. CASE Crash
  <2>1. ~Altering({"write"}) /\ UNCHANGED <<map, due>> /\ op' = NoOp
    BY <1>15 DEF Crash, Altering
  <2> QED BY <1>4, <1>5, <2>1 DEF Altering, NoOp
<1>16. CASE CrashInWrite
  BY <1>16 DEF CrashInWrite
<1>17. CASE Notify
  <2>1. /\ (IsFirst => IsFirst') /\ (IsGrown => IsGrown') /\ (map = NoTable => map' = NoTable)
        /\ op = NoOp /\ op' = NoOp /\ UNCHANGED due
    BY <1>17, NotifyShape DEF Notify, shards
  <2>2. Asked = MapAsked
    BY <2>1, AskedFacts DEF Altering, NoOp
  <2>3. CASE IsFirst \/ IsGrown
    <3>1. Asked \subseteq Asked' /\ map' # NoTable
      BY <2>1, <2>2, <2>3, AskedFacts, NextMap
    <3> QED BY <1>4, <2>1, <3>1 DEF Altering, NoOp
  <2>4. CASE map = NoTable
    BY <1>2, <1>3, <2>1, <2>4 DEF NoOp
  <2> QED BY <2>3, <2>4 DEF Shape
<1>18. CASE LoseNotice \/ UNCHANGED vars
  BY <1>1, <1>18, ReachableFrame DEF LoseNotice, vars
<1> QED BY <1>6, <1>7, <1>8, <1>9, <1>10, <1>11, <1>12, <1>13, <1>14, <1>15, <1>16, <1>17, <1>18 DEF Resting

\* Every step keeps Reachable.
LEMMA NextReachable ==
  ASSUME Shape, Stored, Reachable, Shape', [Next]_vars
  PROVE  Reachable'
<1> SUFFICES ASSUME gap' \cap {"late", "moved", "behind"} = {}, map' # Torn PROVE Reachable'
  BY DEF Reachable
<1>1. /\ gap \subseteq gap' /\ "late" \notin gap' /\ "behind" \notin gap'
      /\ gap \cap {"late", "moved", "behind"} = {} /\ "late" \notin gap /\ map # Torn
  BY GapGrows, TornStays
<1>2. /\ map = NoTable \/ op.kind \in {"create", "drop"} => due = {}
      /\ \A id \in due : \E g \in Asked : Named(data[g], id) # {}
      /\ Asked \subseteq Groups /\ ExtraGroup \in Groups /\ SourceGroup \in Groups
  BY <1>1, AskedGroups, FirstFacts, SourceIn, Zenon DEF Reachable
<1>3. CASE Resting
  BY <1>1, <1>3, RestingReachable
<1>4. CASE CreateStep \/ DropStep
  <2>1. SameTask /\ due = {} /\ UNCHANGED due /\ op.kind \in {"create", "drop"}
    BY <1>1, <1>2, <1>4, StepOrStopCall, DropStepCall DEF CreateStep, DropStep, RoundCall
  <2>2. op'.kind \notin {"insert", "broadcast", "alter"}
    BY <2>1 DEF SameTask, NoOp
  <2> QED BY <2>1, <2>2 DEF Reachable, Altering
<1>5. CASE InsertStep
  <2>1. PICK i, times : InsertCall(i, times)
    BY <1>1, <1>5, InsertStepCall
  <2> DEFINE g == Group[map[i].addr]
             S == {r \in op.rows : shard_for_value(map, r.key) = i}
  <2>2. /\ g \in Groups /\ i \in op.todo /\ CallTo(g, InsertRows(SetToBag(S)), times)
        /\ op' = NoOp \/ (times # 0 /\ op'.kind = "insert" /\ op'.todo = op.todo \ {i} /\ op'.rows = op.rows)
        /\ due' = due \/ (times # 0 /\ op.todo = {i} /\ op' = NoOp /\ due' = due \cup {r.id : r \in op.rows})
    BY <2>1 DEF InsertCall
  <2>3. UNCHANGED map /\ op.kind = "insert" /\ (IsFirst \/ IsGrown) /\ map # NoTable
    BY <1>5, OpCases, WholeMap DEF InsertStep
  <2>4. Asked' = Asked /\ MapAsked \subseteq Asked
    BY <2>2, <2>3, AskedFacts DEF Asked, Altering, NoOp
  <2>5. \A r \in op.rows : Home(map, r.key) \in MapAsked /\ Home(map, r.key) \in Groups
                         /\ (shard_for_value(map, r.key) = i => Home(map, r.key) = g)
    BY <2>3, OpCases, KeyFacts, HomeIn
  <2>6. DOMAIN SetToBag(S) = S /\ \A r \in op.rows : shard_for_value(map, r.key) = i => r \in S
    BY DEF SetToBag
  <2> HIDE DEF g, S
  <2>7. /\ \A h \in Groups : DOMAIN data[h] \subseteq DOMAIN data'[h]
        /\ times # 0 => S \subseteq DOMAIN data'[g]
    BY <2>2, <2>6, InsertData
  <2>8. \A h \in Groups : \A id : Named(data[h], id) # {} => Named(data'[h], id) # {}
    BY <2>7 DEF Named
  <2>9. times # 0 => \A r \in op.rows : shard_for_value(map, r.key) \notin op.todo \ {i} =>
                       Named(data'[Home(map, r.key)], r.id) # {}
    <3> SUFFICES ASSUME times # 0, NEW r \in op.rows, shard_for_value(map, r.key) \notin op.todo \ {i}
                 PROVE  Named(data'[Home(map, r.key)], r.id) # {}
      OBVIOUS
    <3>1. CASE shard_for_value(map, r.key) = i
      BY <2>5, <2>6, <2>7, <3>1, NamedIn
    <3>2. CASE shard_for_value(map, r.key) \notin op.todo
      <4>1. Named(data[Home(map, r.key)], r.id) # {}
        BY <1>1, <2>3, <3>2 DEF Reachable
      <4> QED BY <2>5, <2>8, <4>1, Zenon
    <3> QED BY <3>1, <3>2
  <2>10. \A id \in due' : \E h \in Asked' : Named(data'[h], id) # {}
    <3> SUFFICES ASSUME NEW id \in due' PROVE \E h \in Asked : Named(data'[h], id) # {}
      BY <2>4
    <3>1. CASE id \in due
      BY <1>2, <2>8, <3>1
    <3>2. CASE id \notin due
      <4>1. times # 0 /\ op.todo \ {i} = {} /\ \E r \in op.rows : id = r.id
        BY <2>2, <3>2
      <4> QED BY <2>4, <2>5, <2>9, <4>1
    <3> QED BY <3>1, <3>2
  <2>11. op'.kind = "insert" =>
           \A r \in op'.rows : shard_for_value(map', r.key) \notin op'.todo =>
             Named(data'[Home(map', r.key)], r.id) # {}
    <3> SUFFICES ASSUME op'.kind = "insert"
                 PROVE  \A r \in op'.rows : shard_for_value(map, r.key) \notin op'.todo =>
                          Named(data'[Home(map, r.key)], r.id) # {}
      BY <2>3
    <3>1. times # 0 /\ op'.todo = op.todo \ {i} /\ op'.rows = op.rows
      BY <2>2 DEF NoOp
    <3> QED BY <2>9, <3>1
  <2>12. op'.kind \in {"none", "insert"} /\ map' # NoTable
    BY <2>2, <2>3 DEF NoOp
  <2> QED BY <2>10, <2>11, <2>12 DEF Reachable, Altering
<1>6. CASE BroadcastStep
  <2>1. /\ RoundCall(op.what) /\ UNCHANGED <<map, due>> /\ op.kind = "broadcast" /\ op.what \in Broadcasts
        /\ map # NoTable
    BY <1>1, <1>6, StepOrStopCall, OpCases, WholeMap DEF BroadcastStep
  <2>2. PICK i \in op.todo, times \in {0, 1, 2} :
          Group[map[i].addr] \in Groups /\ CallTo(Group[map[i].addr], op.what, times) /\ SameTask
    BY <2>1 DEF RoundCall
  <2> DEFINE g == Group[map[i].addr]
  <2>3. op'.kind \in {"none", "broadcast"} /\ (op'.kind = "broadcast" => op'.what = op.what)
    BY <2>1, <2>2, SameTaskFacts DEF SameTask, NoOp
  <2>4. Asked \subseteq Asked'
    BY <2>1, AskedFacts DEF MapAsked, Altering
  <2>5. g \in Groups /\ DOMAIN data[g] \subseteq Rows
    BY <1>1, <2>2 DEF Stored
  <2> HIDE DEF g
  <2>6. CASE op.what.do = "delete"
    <3>1. op.what = DeleteWhere("EQ", op.what.lit) /\ op.what.lit \in Literals
      BY <2>1, <2>6 DEF Broadcasts, DeleteWhere
    <3>2. CallTo(g, DeleteWhere("EQ", op.what.lit), times)
      BY <2>2, <3>1 DEF g
    <3>3. \A h \in Groups : \A r \in DOMAIN data[h] : r \in DOMAIN data'[h] \/ (h = g /\ r.key = op.what.lit)
      <4>1. \A r \in DOMAIN data[g] : Holds("EQ", r.key, op.what.lit) => r.key = op.what.lit
        BY <2>5, <3>1, KeyFacts
      <4> QED BY <2>5, <3>2, <4>1, DeleteData
    <3>4. \A id \in due : \A r \in Held(id) : r.key # op.what.lit
      BY <1>1, <2>1, <2>6 DEF Reachable
    <3>5. \A h \in Asked, id \in due' : Named(data[h], id) # {} => Named(data'[h], id) # {}
      <4>1. Asked \subseteq Groups /\ due' = due
        BY <1>2, <2>1
      <4>2. ASSUME NEW h \in Asked, NEW id \in due, NEW r \in Named(data[h], id)
            PROVE  r \in Named(data'[h], id)
        <5>1. r \in DOMAIN data[h] /\ r.id = id /\ r \in Held(id)
          BY <4>1 DEF Named, Held
        <5> QED BY <3>3, <3>4, <4>1, <5>1 DEF Named
      <4> QED BY <4>1, <4>2
    <3>6. Shrinks
      BY <2>5, <3>2, CallShrinks DEF DeleteWhere
    <3>7. \A id : Held(id)' \subseteq Held(id)
      BY <3>6 DEF Held, Named, Shrinks
    <3> QED BY <1>1, <2>1, <2>3, <2>4, <3>4, <3>5, <3>7, ReachableQuiet DEF Altering
  <2>7. CASE op.what.do = "update"
    <3>1. (\A h \in Groups : h # g => data'[h] = data[h])
          /\ Rekeys(data[g], data'[g], op.what.from, op.what.to)
      BY <2>1, <2>2, <2>5, <2>7, UpdateData DEF g
    <3>2. \A h \in Groups : \A r \in DOMAIN data[h] : \E s \in DOMAIN data'[h] : s.id = r.id
      BY <3>1 DEF Rekeys
    <3>3. \A h \in Asked, id \in due' : Named(data[h], id) # {} => Named(data'[h], id) # {}
      BY <1>2, <3>2, NamedIn
    <3> QED BY <1>1, <2>1, <2>3, <2>4, <2>7, <3>3, ReachableQuiet DEF Altering
  <2> QED BY <2>1, <2>6, <2>7 DEF Broadcasts
<1>7. CASE AlterCreate
  <2>1. PICK times : /\ CallTo(ExtraGroup, Create, times)
                     /\ op' = NoOp \/ (times # 0 /\ op' = [kind |-> "alter", at |-> "select", part |-> op.part])
    BY <1>1, <1>7, AlterCalls
  <2>2. /\ UNCHANGED <<map, due>> /\ ~Altering({"write"}) /\ map # NoTable
        /\ op'.kind \in {"none", "alter"} /\ (op'.kind = "alter" => op'.at = "select")
    BY <1>7, <2>1, OpCases, WholeMap DEF AlterCreate, Altering, NoOp
  <2>3. \A h \in Groups : data'[h] = data[h]
    <3>1. Create.do = "create"
      BY DEF Create
    <3>2. \A b : Effect(b, Create) = b /\ Twice(b, Create) = b
      BY <3>1, EffectFacts, Zenon
    <3> QED BY <1>2, <2>1, <3>2 DEF CallTo
  <2>4. Asked \subseteq Asked'
    BY <2>2, AskedFacts DEF MapAsked
  <2> QED BY <1>1, <1>2, <2>2, <2>3, <2>4, ReachableQuiet DEF Altering
<1>8. CASE AlterInsert
  <2>1. PICK times : /\ CallTo(ExtraGroup, InsertRows(op.rows), times)
                     /\ op' = NoOp \/ (times # 0 /\ op' = [kind |-> "alter", at |-> "delete", part |-> op.part])
    BY <1>1, <1>8, AlterCalls
  <2>2. /\ UNCHANGED <<map, due>> /\ Altering({"insert"}) /\ ~Altering({"write"}) /\ map # NoTable
        /\ IsFirst /\ ExtraGroup # SourceGroup
        /\ op'.kind \in {"none", "alter"} /\ (op'.kind = "alter" => op'.at = "delete" /\ times # 0)
    BY <1>8, <2>1, OpCases, WholeMap, SourceIn DEF AlterInsert, Altering, NoOp
  <2>3. /\ \A h \in Groups : h # ExtraGroup => data'[h] = data[h]
        /\ \A h \in Groups : DOMAIN data[h] \subseteq DOMAIN data'[h]
        /\ times # 0 => DOMAIN op.rows \subseteq DOMAIN data'[ExtraGroup]
    BY <1>2, <2>1, InsertData
  <2>4. Asked \subseteq Asked'
    BY <2>2, AskedFacts DEF MapAsked
  <2>5. \A h \in Groups : \A id : Named(data[h], id) # {} => Named(data'[h], id) # {}
    BY <2>3 DEF Named
  <2>6. \A id \in due' : \E h \in Asked' : Named(data'[h], id) # {}
    BY <1>2, <2>2, <2>4, <2>5
  <2>7. Matches(data[SourceGroup], "LT", Extra.upper) \subseteq DOMAIN op.rows
    BY <1>1, <2>2 DEF Reachable
  <2>8. op'.kind = "alter" =>
          \A r \in Matches(data'[SourceGroup], "LT", Extra.upper) : Named(data'[ExtraGroup], r.id) # {}
    BY <1>2, <2>2, <2>3, <2>7, NamedIn
  <2> QED BY <2>2, <2>6, <2>8 DEF Reachable, Altering
<1>9. CASE AlterDelete
  <2>1. PICK times : CallTo(SourceGroup, DeleteWhere("LT", Extra.upper), times)
    BY <1>1, <1>9, AlterCalls
  <2>2. /\ UNCHANGED <<map, due>> /\ Altering({"delete"}) /\ ~Altering({"write"}) /\ map # NoTable
        /\ ExtraGroup # SourceGroup /\ op'.kind = "alter" /\ op'.at = "write"
    BY <1>9, OpCases, WholeMap, SourceIn DEF AlterDelete, Altering
  <2>3. Asked \subseteq Asked' /\ ExtraGroup \in Asked'
    BY <2>2, AskedFacts DEF MapAsked, Altering
  <2>4. /\ \A h \in Groups : h # SourceGroup => data'[h] = data[h]
        /\ \A r \in DOMAIN data[SourceGroup] : r \in DOMAIN data'[SourceGroup] \/ Holds("LT", r.key, Extra.upper)
    BY <1>2, <2>1, DeleteData
  <2>5. \A r \in DOMAIN data[SourceGroup] : Holds("LT", r.key, Extra.upper) => Named(data[ExtraGroup], r.id) # {}
    BY <1>1, <2>2 DEF Reachable, Matches
  <2>6. ASSUME NEW id \in due PROVE \E h \in Asked' : Named(data'[h], id) # {}
    <3>1. PICK h \in Asked : Named(data[h], id) # {}
      BY <1>2
    <3>2. PICK r \in DOMAIN data[h] : r.id = id
      BY <3>1, NamedIn
    <3>3. CASE r \in DOMAIN data'[h]
      BY <2>3, <3>2, <3>3, NamedIn
    <3>4. CASE r \notin DOMAIN data'[h]
      <4>1. h = SourceGroup /\ Holds("LT", r.key, Extra.upper)
        BY <1>2, <2>4, <3>2, <3>4
      <4>2. Named(data'[ExtraGroup], id) # {}
        BY <1>2, <2>2, <2>4, <2>5, <3>2, <4>1
      <4> QED BY <2>3, <4>2
    <3> QED BY <3>3, <3>4
  <2> QED BY <2>2, <2>6 DEF Reachable, Altering
<1>10. CASE \E a \in Addrs : Failover(a)
  <2>1. PICK a \in Addrs : Failover(a)
    BY <1>10
  <2>2. Group[a] \in Groups /\ DOMAIN data = Groups
    BY <1>1 DEF Groups, Stored
  <2>3. PICK keep \in SUBSET DOMAIN data[Group[a]] :
          /\ data' = [data EXCEPT ![Group[a]] = Only(data[Group[a]], keep)]
          /\ gap' = gap \cup (IF keep # DOMAIN data[Group[a]] THEN {"behind"} ELSE {})
                         \cup (IF Configured[a] # leader[Group[a]] THEN {"misnamed"} ELSE {})
                         \cup (IF Announced[a] = NoAddr THEN {"unnotified"}
                               ELSE IF Announced[a] # a THEN {"elsewhere"} ELSE {})
    BY <2>1, Zenon DEF Failover
  <2>4. keep = DOMAIN data[Group[a]]
    BY <1>1, <2>3
  <2>5. \A g \in Groups : DOMAIN data'[g] = DOMAIN data[g]
    BY <2>2, <2>3, <2>4 DEF Only
  <2>6. UNCHANGED <<map, op, due>>
    BY <2>1 DEF Failover
  <2> QED BY <1>1, <2>5, <2>6, ReachableFrame
<1> QED BY <1>1, <1>3, <1>4, <1>5, <1>6, <1>7, <1>8, <1>9, <1>10, StepKinds

\* A row whose INSERT was acknowledged is on a shard that a SELECT asks, however
\* the statements after it went: an INSERT is acknowledged when all its groups
\* are, ALTER copies before it deletes and deletes before it writes the map.
THEOREM AcknowledgedRowsAreFound == Spec => []AckedVisible
<1> DEFINE Inv == Straight => Shape /\ Stored /\ Reachable
<1>1. Init => Inv
  <2> SUFFICES ASSUME Init PROVE Reachable
    BY InitShape, InitRows
  <2>1. due = {} /\ op.kind = "none"
    BY DEF Init, NoOp
  <2> QED BY <2>1 DEF Reachable, Altering
<1>2. Inv /\ [Next]_vars => Inv'
  <2> SUFFICES ASSUME Shape, Stored, Reachable, [Next]_vars, Straight' PROVE (Shape /\ Stored /\ Reachable)'
    BY GapGrows
  <2>1. Shape'
    BY NextShape
  <2> QED BY <2>1, NextStored, NextReachable
<1>3. Inv => AckedVisible
  <2> SUFFICES ASSUME Reachable, Quiet, gap \cap {"late", "moved", "behind"} = {}, NEW id \in due
               PROVE  \E i \in DOMAIN map : Named(RowsAt(i), id) # {}
    BY DEF AckedVisible, Straight
  <2>1. PICK g \in Asked : Named(data[g], id) # {}
    BY DEF Reachable, Quiet
  <2>2. Asked = MapAsked
    BY AskedFacts DEF Quiet, NoOp, Altering
  <2> QED BY <2>1, <2>2 DEF MapAsked, RowsAt
<1> HIDE DEF Inv
<1> QED BY <1>1, <1>2, <1>3, PTL DEF Spec
=============================================================================
