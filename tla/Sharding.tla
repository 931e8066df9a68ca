------------------------------- MODULE Sharding -------------------------------
(***************************************************************************)
(* The shard coordinator (server/shard_coordinator.cpp) and one table      *)
(* spread over shard groups.  The coordinator runs one statement at a time *)
(* (mu_), but a statement is a sequence of calls to shards, each of which  *)
(* may fail, be answered too late, or be carried out twice by the pool's   *)
(* retry (server/shard_client_pool.cpp); the coordinator may be killed     *)
(* between two of them; and a shard's leader may change meanwhile.         *)
(*                                                                         *)
(* A shard group is one copy of the data with several addresses: a         *)
(* follower forwards what it is sent to its leader, and that the copies    *)
(* agree is the subject of module Replication.  An address stands for the  *)
(* node it reaches from the coordinator.  Rows are [id, key] with key the  *)
(* partition column; a shard holds a bag of them.                          *)
(*                                                                         *)
(* "due" are the rows whose INSERT was acknowledged and that no later      *)
(* DELETE or DROP was told to remove; "gap" names the events after which   *)
(* the shards may hold something else.  Both are ghosts.                   *)
(***************************************************************************)
EXTENDS ShardMap

CONSTANTS
  Group,       \* the shard group of each address
  Configured,  \* each node's --leader-addr, NoAddr for the first leader
  Announced,   \* what a node calls itself as a new leader: 127.0.0.1 and its port, as the
               \* coordinator's host takes it; NoAddr without --coordinator-addr
  NoAddr,
  FirstMap,    \* the partitions of CREATE TABLE
  Extra,       \* the partition of ALTER TABLE ... ADD PARTITION
  Keys,        \* values of the partition column
  MaxRows,     \* bound: rows inserted
  MaxStatements, MaxFaults, MaxCrashes, MaxFailovers,  \* bounds on events
  MaxTrouble   \* bound: faults, crashes and failovers together

ASSUME ShardingAssumption ==
  /\ DOMAIN Configured = DOMAIN Group
  /\ Keys \subseteq Int \cup {Null}
  /\ {MaxRows, MaxStatements, MaxFaults, MaxCrashes, MaxFailovers, MaxTrouble} \subseteq Nat

Addrs == DOMAIN Group
Literals == Keys \ {Null}
Groups == {Group[a] : a \in Addrs}

\* Every group has a first leader, and the other nodes are started with a first
\* leader of their group as --leader-addr.
ASSUME LeadersAssumption ==
  /\ NoAddr \notin Addrs
  /\ Announced \in [Addrs -> Addrs \cup {NoAddr}]
  /\ \A g \in Groups : \E a \in Addrs : Group[a] = g /\ Configured[a] = NoAddr
  /\ \A a \in Addrs : Configured[a] # NoAddr =>
       Configured[a] \in Addrs /\ Group[Configured[a]] = Group[a]
                            /\ Configured[Configured[a]] = NoAddr

\* The partitions of CREATE TABLE are on different groups (on a node that has the
\* table CREATE fails) and one is MAXVALUE; that of ALTER TABLE has a bound.
ASSUME PartitionsAssumption ==
  /\ IsMap(FirstMap, Addrs)
  /\ \A i, j \in DOMAIN FirstMap : Group[FirstMap[i].addr] = Group[FirstMap[j].addr] => i = j
  /\ Extra \in Partitions(Addrs) /\ ~Extra.max

NoTable == <<>>
Torn == <<MaxPartition(NoAddr)>>
NoOp == [kind |-> "none"]

VARIABLES
  map,      \* shard_map.bin, and the copy of it in the coordinator's catalog
  has,      \* does the group have the table
  data,     \* the group's rows
  alive,    \* is the node up
  leader,   \* each group's leader
  notices,  \* NOTIFY_LEADER frames under way
  late,     \* calls the pool has given up that the shard will still carry out
  op,       \* the statement the coordinator is in, and what is left of it
  nrows, due, gap, left

vars == <<map, has, data, alive, leader, notices, late, op, nrows, due, gap, left>>
shards == <<has, data>>
nodes == <<alive, leader, notices>>
Spend(what) == left[what] > 0 /\ left' = [left EXCEPT ![what] = @ - 1]
Trouble(what) ==
  /\ left[what] > 0 /\ left["trouble"] > 0
  /\ left' = [left EXCEPT ![what] = @ - 1, !["trouble"] = @ - 1]

-----------------------------------------------------------------------------
(* One call to a shard.                                                    *)

Create == [do |-> "create"]
Drop == [do |-> "drop"]
InsertRows(rows) == [do |-> "insert", rows |-> rows]
DeleteWhere(cmp, lit) == [do |-> "delete", cmp |-> cmp, lit |-> lit]
UpdateKey(from, to) == [do |-> "update", from |-> from, to |-> to]

\* A bag of rows: how many copies there are of each.
EmptyBag == [r \in {} |-> 0]
SetToBag(S) == [r \in S |-> 1]
CopiesIn(b, r) == IF r \in DOMAIN b THEN b[r] ELSE 0
b (+) c == [r \in DOMAIN b \cup DOMAIN c |-> CopiesIn(b, r) + CopiesIn(c, r)]

Matches(b, cmp, lit) == {r \in DOMAIN b : Holds(cmp, r.key, lit)}
Named(b, id) == {r \in DOMAIN b : r.id = id}
Only(b, S) == [r \in S |-> b[r]]

\* The statement fails on a shard without the table; CREATE on one with it.
Valid(g, what) == IF what.do = "create" THEN ~has[g] ELSE has[g]

\* The rows of UPDATE ... SET key = to WHERE key = from; a row that gets the key
\* joins the one that is equal to it, if there is one.
Rekeyed(b, from, to) ==
  LET hit == Matches(b, "EQ", from)
      kept == Only(b, DOMAIN b \ hit)
  IN  kept (+) [r \in {[id |-> h.id, key |-> to] : h \in hit} |-> b[[id |-> r.id, key |-> from]]]

\* The group's rows after the statement, or after both of two.
Effect(b, what) ==
  CASE what.do = "insert" -> b (+) what.rows
    [] what.do = "delete" -> Only(b, DOMAIN b \ Matches(b, what.cmp, what.lit))
    [] what.do = "update" -> Rekeyed(b, what.from, what.to)
    [] what.do = "drop" -> EmptyBag
    [] OTHER -> b
Twice(b, what) == Effect(Effect(b, what), what)

\* ShardClientPool::execute.  An answer that does not come is followed by a
\* reconnect and the same statement again, whatever became of the first.
Outcome(times, isLate, ok, cost) == [times |-> times, late |-> isLate, ok |-> ok, cost |-> cost]
Outcomes(addr, what) ==
  IF ~alive[addr] \/ ~Valid(Group[addr], what)
  THEN {Outcome(0, FALSE, FALSE, 0)}
  ELSE {Outcome(1, FALSE, TRUE, 0)} \cup
       (IF 0 \in {left["fault"], left["trouble"]} THEN {}
        ELSE {Outcome(0, FALSE, FALSE, 1), Outcome(1, FALSE, FALSE, 1),
              Outcome(2, FALSE, what.do # "create", 1), Outcome(2, FALSE, FALSE, 1),
              Outcome(0, TRUE, FALSE, 1), Outcome(1, TRUE, TRUE, 1)})

Run(g, what, times) ==
  /\ data' = [data EXCEPT ![g] = CASE times = 0 -> @ [] times = 1 -> Effect(@, what)
                                   [] OTHER -> Twice(@, what)]
  /\ has' = IF times = 0 THEN has
            ELSE [has EXCEPT ![g] = (what.do = "create") \/ (@ /\ what.do # "drop")]

\* One call with one of its outcomes; ok is what the caller is told.
Call(addr, what, out) ==
  /\ Run(Group[addr], what, out.times)
  /\ late' = IF out.late THEN late \cup {[group |-> Group[addr], what |-> what]} ELSE late
  /\ left' = [left EXCEPT !["fault"] = @ - out.cost, !["trouble"] = @ - out.cost]
  /\ gap' = gap \cup (IF out.times = 2 /\ what.do = "insert" THEN {"twice"} ELSE {})
                \cup (IF out.late THEN {"late"} ELSE {})
                \cup (IF out.times = 0 /\ op.kind = "alter" /\ what.do = "delete"
                      THEN {"undeleted"} ELSE {})

\* Calls the first of the partitions left; an error ends the statement.
StepOrStop(what) ==
  LET i == First(op.todo)
      rest == op.todo \ {i}
  IN  \E out \in Outcomes(map[i].addr, what) :
        /\ Call(map[i].addr, what, out)
        /\ op' = IF out.ok /\ rest # {} THEN [op EXCEPT !.todo = rest] ELSE NoOp

\* A statement given up by the pool arrives after all.
Arrive == \E l \in late :
  /\ late' = late \ {l}
  /\ IF Valid(l.group, l.what) THEN Run(l.group, l.what, 1) ELSE UNCHANGED shards
  /\ UNCHANGED <<map, nodes, op, nrows, due, gap, left>>

-----------------------------------------------------------------------------
(* ShardCoordinator::execute, statement by statement.                      *)

Begin(what) == op = NoOp /\ Spend("statement") /\ op' = what
HasMap == map \notin {NoTable, Torn}

\* A statement names the group's leader of the moment.
Current(p) == [p EXCEPT !.addr = leader[Group[p.addr]]]

\* CREATE TABLE: the local table and map first, then each partition's node; an
\* error ends the statement and undoes nothing.
CreateStart ==
  /\ map = NoTable
  /\ map' = [i \in DOMAIN FirstMap |-> Current(FirstMap[i])]
  /\ Begin([kind |-> "create", todo |-> DOMAIN map'])
  /\ UNCHANGED <<shards, nodes, late, nrows, due, gap>>
CreateStep ==
  /\ op.kind = "create"
  /\ StepOrStop(Create)
  /\ UNCHANGED <<map, nodes, nrows, due>>

\* DROP TABLE: the nodes' results are ignored; the local table goes last.
DropStart ==
  /\ HasMap
  /\ Begin([kind |-> "drop", todo |-> DOMAIN map])
  /\ due' = {}
  /\ UNCHANGED <<map, shards, nodes, late, nrows, gap>>
DropStep ==
  /\ op.kind = "drop" /\ op.todo # {}
  /\ LET i == First(op.todo)
     IN  /\ \E out \in Outcomes(map[i].addr, Drop) : Call(map[i].addr, Drop, out)
         /\ op' = [op EXCEPT !.todo = @ \ {i}]
  /\ UNCHANGED <<map, nodes, nrows, due>>
DropEnd ==
  /\ op.kind = "drop" /\ op.todo = {}
  /\ map' = NoTable
  /\ op' = NoOp
  /\ UNCHANGED <<shards, nodes, late, nrows, due, gap, left>>

\* route_insert_: the rows are grouped by shard_for_value and sent group by
\* group, in no particular order; an error leaves the groups already sent.
InsertStart(keys) ==
  LET rows == {[id |-> nrows + i, key |-> keys[i]] : i \in DOMAIN keys}
  IN  /\ HasMap /\ nrows + Len(keys) <= MaxRows
      /\ Begin([kind |-> "insert", rows |-> rows,
                todo |-> {shard_for_value(map, r.key) : r \in rows}])
      /\ nrows' = nrows + Len(keys)
      /\ UNCHANGED <<map, shards, nodes, late, due, gap>>

\* Mutant: only the last group's result is looked at.
InsertStep_LastResult ==
  /\ op.kind = "insert"
  /\ \E i \in op.todo :
       LET what == InsertRows(SetToBag({r \in op.rows : shard_for_value(map, r.key) = i}))
           last == op.todo = {i}
       IN  \E out \in Outcomes(map[i].addr, what) :
             /\ Call(map[i].addr, what, out)
             /\ op' = IF ~last THEN [op EXCEPT !.todo = @ \ {i}] ELSE NoOp
             /\ due' = IF out.ok /\ last THEN due \cup {r.id : r \in op.rows} ELSE due
  /\ UNCHANGED <<map, nodes, nrows>>

InsertStep ==
  /\ op.kind = "insert"
  /\ \E i \in op.todo :
       LET what == InsertRows(SetToBag({r \in op.rows : shard_for_value(map, r.key) = i}))
           last == op.todo = {i}
       IN  \E out \in Outcomes(map[i].addr, what) :
             /\ Call(map[i].addr, what, out)
             /\ op' = IF out.ok /\ ~last THEN [op EXCEPT !.todo = @ \ {i}] ELSE NoOp
             /\ due' = IF out.ok /\ last THEN due \cup {r.id : r \in op.rows} ELSE due
  /\ UNCHANGED <<map, nodes, nrows>>

\* route_delete_ and route_update_: the statement goes to every distinct address
\* until one fails; the partition column is no obstacle to an UPDATE.
Distinct(m) == {i \in DOMAIN m : \A j \in 1 .. (i - 1) : m[j].addr # m[i].addr}
Held(id) == UNION {Named(data[g], id) : g \in Groups}
DeleteStart(lit) ==
  /\ HasMap
  /\ Begin([kind |-> "broadcast", what |-> DeleteWhere("EQ", lit), todo |-> Distinct(map)])
  /\ due' = {id \in due : \A r \in Held(id) : r.key # lit}
  /\ UNCHANGED <<map, shards, nodes, late, nrows, gap>>
UpdateStart(from, to) ==
  /\ HasMap /\ from # to
  /\ Begin([kind |-> "broadcast", what |-> UpdateKey(from, to), todo |-> Distinct(map)])
  /\ gap' = IF shard_for_value(map, from) # shard_for_value(map, to)
            THEN gap \cup {"rekeyed"} ELSE gap
  /\ UNCHANGED <<map, shards, nodes, late, nrows, due>>
BroadcastStep ==
  /\ op.kind = "broadcast"
  /\ StepOrStop(op.what)
  /\ UNCHANGED <<map, nodes, nrows, due>>

\* handle_alter_partition_: the new shard gets the table, then copies of the
\* MAXVALUE partition's rows below the bound; those are deleted at the source,
\* whatever comes of it; the new map is written last.
Source == map[First({i \in DOMAIN map : map[i].max})].addr
Moving == LET b == data[Group[Source]] IN Only(b, Matches(b, "LT", Extra.upper))
Target == op.part.addr
\* A partition of that name must not be in the map; its node may have another
\* partition of the table, as long as CREATE succeeds there.
AlterStart ==
  /\ HasMap /\ Len(map) = Len(FirstMap)
  /\ Begin([kind |-> "alter", at |-> "create", part |-> Current(Extra)])
  /\ gap' = IF \E i \in DOMAIN map : Group[map[i].addr] = Group[Extra.addr]
            THEN gap \cup {"shared"} ELSE gap
  /\ UNCHANGED <<map, shards, nodes, late, nrows, due>>
AlterCreate ==
  /\ op.kind = "alter" /\ op.at = "create"
  /\ \E out \in Outcomes(Target, Create) :
       /\ Call(Target, Create, out)
       /\ op' = IF out.ok THEN [op EXCEPT !.at = "select"] ELSE NoOp
  /\ UNCHANGED <<map, nodes, nrows, due>>
AlterSelect ==
  /\ op.kind = "alter" /\ op.at = "select"
  /\ op' = IF ~alive[Source] \/ ~has[Group[Source]] THEN NoOp
           ELSE IF Moving = EmptyBag THEN [op EXCEPT !.at = "empty"]
           ELSE [kind |-> "alter", at |-> "insert", part |-> op.part, rows |-> Moving]
  /\ UNCHANGED <<map, shards, nodes, late, nrows, due, gap, left>>

\* Mutant: the rows moved are not deleted where they came from.
AlterInsert_Copying ==
  /\ op.kind = "alter" /\ op.at = "insert"
  /\ \E out \in Outcomes(Target, InsertRows(op.rows)) :
       /\ Call(Target, InsertRows(op.rows), out)
       /\ op' = IF out.ok THEN [kind |-> "alter", at |-> "write", part |-> op.part] ELSE NoOp
  /\ UNCHANGED <<map, nodes, nrows, due>>

AlterInsert ==
  /\ op.kind = "alter" /\ op.at = "insert"
  /\ \E out \in Outcomes(Target, InsertRows(op.rows)) :
       /\ Call(Target, InsertRows(op.rows), out)
       /\ op' = IF out.ok THEN [kind |-> "alter", at |-> "delete", part |-> op.part] ELSE NoOp
  /\ UNCHANGED <<map, nodes, nrows, due>>
AlterDelete ==
  /\ op.kind = "alter" /\ op.at = "delete"
  /\ LET what == DeleteWhere("LT", Extra.upper)
     IN  \E out \in Outcomes(Source, what) : Call(Source, what, out)
  /\ op' = [op EXCEPT !.at = "write"]
  /\ UNCHANGED <<map, nodes, nrows, due>>
AlterWrite ==
  /\ op.kind = "alter" /\ op.at \in {"empty", "write"}
  /\ map' = AddPartition(map, op.part)
  /\ op' = NoOp
  /\ UNCHANGED <<shards, nodes, late, nrows, due, gap, left>>

-----------------------------------------------------------------------------
(* Failures.                                                               *)

\* The coordinator is killed and started again: the catalog and the map are as
\* they were last written.
Crash ==
  /\ op # NoOp
  /\ Trouble("crash")
  /\ op' = NoOp
  /\ gap' = IF op.kind = "alter" /\ op.at = "write" THEN gap \cup {"moved"} ELSE gap
  /\ UNCHANGED <<map, shards, nodes, late, nrows, due>>

\* A group's leader dies and another of its nodes, which may not have every
\* row yet, wins the election.  become_leader_ tells the coordinator, naming its
\* own configured leader as the one replaced; a node without one, or without a
\* coordinator, tells nothing.
Failover(a) ==
  LET g == Group[a]
  IN  /\ alive[a] /\ leader[g] # a
      /\ Trouble("failover")
      /\ alive' = [alive EXCEPT ![leader[g]] = FALSE]
      /\ leader' = [leader EXCEPT ![g] = a]
      /\ notices' = IF NoAddr \in {Configured[a], Announced[a]} THEN notices
                    ELSE notices \cup {[old |-> Configured[a], new |-> Announced[a]]}
      /\ \E keep \in SUBSET DOMAIN data[g] :
           /\ data' = [data EXCEPT ![g] = Only(@, keep)]
           /\ gap' = gap \cup (IF keep # DOMAIN data[g] THEN {"behind"} ELSE {})
                         \cup (IF Configured[a] # leader[g] THEN {"misnamed"} ELSE {})
                         \cup (IF Announced[a] = NoAddr THEN {"unnotified"}
                               ELSE IF Announced[a] # a THEN {"elsewhere"} ELSE {})
      /\ UNCHANGED <<map, has, late, op, nrows, due>>

\* The coordinator is away for all five attempts to tell it.
LoseNotice == \E x \in notices :
  /\ notices' = notices \ {x}
  /\ Trouble("fault")
  /\ gap' = gap \cup {"unnotified"}
  /\ UNCHANGED <<map, shards, alive, leader, late, op, nrows, due>>

\* Mutant: the addresses are taken the wrong way round.
notify_leader_Swapped(m, old, new) ==
  [i \in DOMAIN m |-> IF m[i].addr = new THEN [m[i] EXCEPT !.addr = old] ELSE m[i]]

\* notify_leader, between two statements (mu_): the address is replaced in every
\* partition that has it, and the map written.
notify_leader(m, old, new) == [i \in DOMAIN m |-> IF m[i].addr = old THEN [m[i] EXCEPT !.addr = new] ELSE m[i]]
Notify == \E x \in notices :
  /\ op = NoOp /\ map # Torn
  /\ notices' = notices \ {x}
  /\ map' = notify_leader(map, x.old, x.new)
  /\ UNCHANGED <<shards, alive, leader, late, op, nrows, due, gap, left>>

\* ShardMapFile::write truncates the file before it writes it, for ALTER, for
\* CREATE and for a notice that changes the map; a coordinator that finds half a
\* map does not start.  (Killed before CREATE's write it has a table without a map,
\* which only DROP can use: NoTable.)
CrashInWrite ==
  /\ \/ op.kind = "alter" /\ op.at \in {"empty", "write"} /\ UNCHANGED notices
     \/ op = NoOp /\ map = NoTable /\ UNCHANGED notices
     \/ /\ op = NoOp /\ HasMap
        /\ \E x \in notices : /\ notify_leader(map, x.old, x.new) # map
                              /\ notices' = notices \ {x}
  /\ Trouble("crash")
  /\ map' = Torn
  /\ op' = NoOp
  /\ UNCHANGED <<shards, alive, leader, late, nrows, due, gap>>

-----------------------------------------------------------------------------
Init ==
  /\ map = NoTable
  /\ has = [g \in Groups |-> FALSE] /\ data = [g \in Groups |-> EmptyBag]
  /\ alive = [a \in Addrs |-> TRUE]
  /\ leader = [g \in Groups |-> CHOOSE a \in Addrs : Group[a] = g /\ Configured[a] = NoAddr]
  /\ notices = {} /\ late = {} /\ op = NoOp /\ nrows = 0 /\ due = {} /\ gap = {}
  /\ left = [statement |-> MaxStatements, fault |-> MaxFaults, crash |-> MaxCrashes,
             failover |-> MaxFailovers, trouble |-> MaxTrouble]

Next ==
  \/ CreateStart \/ CreateStep \/ DropStart \/ DropStep \/ DropEnd
  \/ \E k \in 1..2 : \E keys \in [1..k -> Keys] : InsertStart(keys)
  \/ InsertStep
  \/ \E lit \in Literals : DeleteStart(lit)
  \/ \E from, to \in Literals : UpdateStart(from, to)
  \/ BroadcastStep
  \/ AlterStart \/ AlterCreate \/ AlterSelect \/ AlterInsert \/ AlterDelete \/ AlterWrite
  \/ Arrive \/ Crash \/ CrashInWrite \/ Notify
  \/ LoseNotice
  \/ \E a \in Addrs : Failover(a)

Spec == Init /\ [][Next]_vars

-----------------------------------------------------------------------------
(* Properties.                                                             *)

\* Every variable has its type: the map is none, half a map, or partitions of
\* known addresses, and every row came from an INSERT.
TypeOK ==
  /\ map = Torn \/ \A i \in DOMAIN map : map[i].addr \in Addrs
  /\ \A g \in Groups : DOMAIN data[g] \subseteq [id : 1..nrows, key : Keys]
  /\ has \in [Groups -> BOOLEAN] /\ alive \in [Addrs -> BOOLEAN]
  /\ leader \in [Groups -> Addrs] /\ nrows \in 0..MaxRows
  /\ notices \subseteq [old : Addrs, new : Addrs]
  /\ \A l \in late : l.group \in Groups
  /\ op.kind \in {"none", "create", "drop", "insert", "broadcast", "alter"}

\* Between two statements fan_out_select_ merges, without looking at them, the
\* rows of the partitions.
Quiet == op = NoOp /\ map # Torn
RowsAt(i) == data[Group[map[i].addr]]

\* The map may name a node of another group, or a group twice, from now on.
Astray == {"elsewhere", "shared"}

\* An acknowledged row is on a shard the coordinator asks: no INSERT whose groups
\* half failed is acknowledged, no ALTER loses what it moves, no half-done DELETE,
\* DROP or CREATE takes it along.  Except: a call carried out after the pool gave
\* it up, a kill between ALTER's DELETE and its map, a failover to a node behind,
\* a map astray.
AckedVisible ==
  Quiet /\ gap \cap ({"late", "moved", "behind"} \cup Astray) = {} =>
    \A id \in due : \E i \in DOMAIN map : Named(RowsAt(i), id) # {}

\* No SELECT over all partitions returns a row twice, whatever ALTERs failed on
\* the way, unless the pool's retry repeated an INSERT that had been carried out,
\* ALTER's best-effort DELETE was not, or the map is astray.
OneCopy ==
  Quiet /\ gap \cap ({"twice", "late", "undeleted"} \cup Astray) = {} =>
    \A id \in 1..nrows : \A i, j \in DOMAIN map :
      \A r \in Named(RowsAt(i), id), s \in Named(RowsAt(j), id) :
        i = j /\ r = s /\ RowsAt(i)[r] = 1

\* prune_partitions leaves out no shard that holds a matching row, before and
\* after partitions are added; LE at a bound is the exception, and so are rows
\* an UPDATE of the partition column left where they were.
PruneComplete ==
  Quiet /\ gap \cap ({"rekeyed", "late", "undeleted"} \cup Astray) = {} =>
    \A cmp \in Comparisons, lit \in Literals :
      \A i \in DOMAIN map \ prune_partitions(map, cmp, lit) :
        \A r \in Matches(data[Group[map[i].addr]], cmp, lit) : AtBound(map, cmp, r.key, lit)

\* The partitions as CREATE and ALTER named them.
Declared == IF Len(map) = Len(FirstMap) THEN FirstMap ELSE AddPartition(FirstMap, Extra)

\* When every notice of a new leader has been handled, the map sends each
\* partition's statements to the leader of the group it was declared on, across
\* CREATE, ALTER and failovers in any order.  The exceptions: a new leader that was
\* configured with another leader than the one it replaces (a second failover of a
\* group), or whose notice never reaches the coordinator, and a map astray (a new
\* leader on another host announces a loopback address).
RoutesToLeader ==
  Quiet /\ notices = {} /\ gap \cap ({"misnamed", "unnotified"} \cup Astray) = {} =>
    \A i \in DOMAIN map : map[i].addr = leader[Group[Declared[i].addr]]

\* README: the coordinator "routes every write and read to the correct shard
\* automatically"; a SELECT's shards include every shard with a matching row.
ReadsRouted ==
  Quiet /\ gap = {} =>
    \A cmp \in Comparisons, lit \in Literals :
      \A i \in DOMAIN map \ prune_partitions(map, cmp, lit) :
        Matches(data[Group[map[i].addr]], cmp, lit) = {}

\* README: after a failover, "subsequent writes to that partition are routed to
\* the new leader without operator intervention or restart".
WritesFollowLeader ==
  Quiet /\ notices = {} /\ "unnotified" \notin gap =>
    \A i \in DOMAIN map : map[i].addr = leader[Group[Declared[i].addr]]
=============================================================================
