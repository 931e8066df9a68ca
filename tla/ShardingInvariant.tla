--------------------------- MODULE ShardingInvariant -------------------------
(***************************************************************************)
(* The inductive invariants behind the properties of module Sharding: what *)
(* the map and the statement under way look like, which addresses they     *)
(* name, and which rows each group holds at each step of a statement.      *)
(***************************************************************************)
EXTENDS Sharding

-----------------------------------------------------------------------------
(* The map and the statement, as long as no map is astray.                 *)

\* Every new leader announced itself by its own address, and ALTER's partition is
\* on a group of its own.
Straight == gap \cap Astray = {}

\* Two maps that differ in the nodes they name, not in their groups.
Like(m, n) ==
  /\ m \in Seq(Partitions(Addrs))
  /\ DOMAIN m = DOMAIN n
  /\ \A i \in DOMAIN m : /\ m[i].max = n[i].max /\ m[i].upper = n[i].upper
                         /\ Group[m[i].addr] = Group[n[i].addr]

\* The map of CREATE TABLE, and the one with the partition of ALTER TABLE.
Grown == AddPartition(FirstMap, Extra)
FirstGroups == {Group[FirstMap[i].addr] : i \in DOMAIN FirstMap}
ExtraGroup == Group[Extra.addr]
IsFirst == Like(map, FirstMap)
IsGrown == Like(map, Grown) /\ ExtraGroup \notin FirstGroups

Rows == [id : 1..nrows, key : Keys]
Places == SUBSET DOMAIN map
NewParts == {p \in Partitions(Addrs) : ~p.max /\ p.upper = Extra.upper /\ Group[p.addr] = ExtraGroup}
Broadcasts == [do : {"delete"}, cmp : {"EQ"}, lit : Literals] \cup
              {u \in [do : {"update"}, from : Literals, to : Literals] : u.from # u.to}

Altering(stages) == op.kind = "alter" /\ op.at \in stages

\* The statement's record, and what the map is while it runs.
OpShape ==
  \/ op = NoOp
  \/ op \in [kind : {"create"}, todo : Places \ {{}}] /\ (IsFirst \/ IsGrown)
  \/ op \in [kind : {"drop"}, todo : Places] /\ (IsFirst \/ IsGrown)
  \/ op \in [kind : {"insert"}, rows : SUBSET Rows, todo : Places] /\ (IsFirst \/ IsGrown)
  \/ op \in [kind : {"broadcast"}, what : Broadcasts, todo : Places \ {{}}] /\ (IsFirst \/ IsGrown)
  \/ op \in [kind : {"alter"}, at : {"create", "select", "empty", "delete", "write"}, part : NewParts]
       /\ IsFirst /\ ExtraGroup \notin FirstGroups
  \/ op.kind = "alter" /\ op.at = "insert" /\ op.part \in NewParts
       /\ IsFirst /\ ExtraGroup \notin FirstGroups

Shape ==
  /\ leader \in [Groups -> Addrs] /\ \A g \in Groups : Group[leader[g]] = g
  /\ \A x \in notices : /\ x \in [old : Addrs, new : Addrs]
                        /\ x.old = Configured[x.new]
  /\ map = NoTable \/ map = Torn \/ IsFirst \/ IsGrown
  /\ nrows \in Nat
  /\ OpShape

-----------------------------------------------------------------------------
(* Which addresses the map names.                                          *)

\* The leader of its group, or a node whose successor's notice is under way.
Led(a) == LET l == leader[Group[a]] IN a = l \/ [old |-> a, new |-> l] \in notices

Leading ==
  gap \cap {"misnamed", "unnotified"} = {} =>
    /\ \A x \in notices : x.new = leader[Group[x.new]]
    /\ map # Torn => \A i \in DOMAIN map : Led(map[i].addr)
    /\ op.kind = "alter" => Led(op.part.addr)

-----------------------------------------------------------------------------
(* Where rows are.                                                         *)

\* The group of a key's partition.
Home(m, k) == Group[m[shard_for_value(m, k)].addr]

\* As long as no call is carried out late: what the groups hold came from an INSERT,
\* and a group without the table holds nothing.
Stored ==
  "late" \notin gap =>
    /\ late = {}
    /\ has \in [Groups -> BOOLEAN] /\ DOMAIN data = Groups
    /\ \A g \in Groups : DOMAIN data[g] \subseteq Rows
    /\ \A g \in Groups : ~has[g] => DOMAIN data[g] = {}
    /\ Altering({"insert"}) => DOMAIN op.rows \subseteq Rows

\* The rows a group may hold: those of its partition, under the map of CREATE
\* TABLE or, in the group that ALTER adds, under the new map.
Belongs(g, k) ==
  /\ g \in FirstGroups => Home(FirstMap, k) = g
  /\ g = ExtraGroup /\ ExtraGroup \notin FirstGroups => Home(Grown, k) = g

\* The new map counts for every group from ALTER's DELETE on.
Settled(g, k) == g \in FirstGroups => Home(Grown, k) = g

Placed ==
  gap \cap {"rekeyed", "late", "undeleted"} = {} =>
    /\ \A g \in Groups : \A r \in DOMAIN data[g] :
         /\ Belongs(g, r.key)
         /\ IsGrown \/ Altering({"empty", "write"}) => Settled(g, r.key)
    /\ Altering({"insert"}) => \A r \in DOMAIN op.rows : Home(Grown, r.key) = ExtraGroup
    /\ op.kind = "broadcast" /\ op.what.do = "update" =>
         Home(map, op.what.from) = Home(map, op.what.to)

\* The rows of a group, or of these groups, have different ids.
Different(b) == \A r, s \in DOMAIN b : r.id = s.id => r = s /\ b[r] = 1
Once(G) ==
  \A g, h \in G : \A r \in DOMAIN data[g], s \in DOMAIN data[h] :
    r.id = s.id => g = h /\ r = s /\ data[g][r] = 1

\* What ALTER has copied, of which only the source holds other copies, to be
\* deleted.
SourceGroup == Group[FirstMap[First({i \in DOMAIN FirstMap : FirstMap[i].max})].addr]
CopyOf(b) ==
  /\ Different(b)
  /\ \A r \in DOMAIN b, g \in FirstGroups : \A s \in DOMAIN data[g] :
       r.id = s.id => g = SourceGroup /\ Holds("LT", s.key, Extra.upper)

Single ==
  gap \cap {"twice", "late", "undeleted"} = {} =>
    /\ Once(FirstGroups)
    /\ IsGrown \/ Altering({"empty", "write"}) => Once(FirstGroups \cup {ExtraGroup})
    /\ Altering({"select", "insert"}) => DOMAIN data[ExtraGroup] = {}
    /\ Altering({"insert"}) => CopyOf(op.rows)
    /\ Altering({"delete"}) => CopyOf(data[ExtraGroup])
    /\ op.kind = "insert" =>
         /\ \A r, s \in op.rows : r.id = s.id => r = s
         /\ \A r \in op.rows : shard_for_value(map, r.key) \in op.todo => Held(r.id) = {}

\* The groups a SELECT asks, now or when ALTER has written its map.
Asked == {Group[map[i].addr] : i \in DOMAIN map} \cup
         (IF Altering({"write"}) THEN {ExtraGroup} ELSE {})

Reachable ==
  gap \cap {"late", "moved", "behind"} = {} /\ map # Torn =>
    /\ map = NoTable \/ op.kind \in {"create", "drop"} => due = {}
    /\ \A id \in due : \E g \in Asked : Named(data[g], id) # {}
    /\ op.kind = "insert" =>
         \A r \in op.rows : shard_for_value(map, r.key) \notin op.todo =>
           Named(data[Home(map, r.key)], r.id) # {}
    /\ op.kind = "broadcast" /\ op.what.do = "delete" =>
         \A id \in due : \A r \in Held(id) : r.key # op.what.lit
    /\ Altering({"insert"}) => Matches(data[SourceGroup], "LT", Extra.upper) \subseteq DOMAIN op.rows
    /\ Altering({"delete"}) =>
         \A r \in Matches(data[SourceGroup], "LT", Extra.upper) : Named(data[ExtraGroup], r.id) # {}
=============================================================================
