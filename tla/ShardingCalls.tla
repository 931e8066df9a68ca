--------------------------- MODULE ShardingCalls ----------------------------
(***************************************************************************)
(* What the calls of a statement do to the rows of the groups, once, twice *)
(* or not at all, and that the groups hold rows of the table (Stored).     *)
(***************************************************************************)
EXTENDS ShardingProofs

-----------------------------------------------------------------------------
(* What one statement does to the rows of a group.                         *)

\* The keys of rows are integers or Null, literals are integers.
LEMMA KeyFacts ==
  /\ \A k \in Keys : k \in Int \cup {Null}
  /\ \A k \in Literals : k \in Int /\ k # Null /\ k \in Keys
  /\ \A k \in Keys, lit \in Literals : Holds("EQ", k, lit) <=> k = lit
  /\ \A r \in Rows : r.key \in Keys /\ r.id \in 1..nrows
BY ShardingAssumption, NullAssumption DEF Literals, Holds, Rows

\* INSERT, DELETE and DROP, carried out once or twice.
LEMMA EffectFacts ==
  ASSUME NEW b, NEW what
  PROVE  /\ what.do = "create" => Effect(b, what) = b /\ Twice(b, what) = b
         /\ what.do = "drop" => DOMAIN Effect(b, what) = {} /\ DOMAIN Twice(b, what) = {}
         /\ what.do = "insert" =>
              /\ DOMAIN Effect(b, what) = DOMAIN b \cup DOMAIN what.rows
              /\ DOMAIN Twice(b, what) = DOMAIN b \cup DOMAIN what.rows
              /\ \A r \in DOMAIN b \ DOMAIN what.rows : Effect(b, what)[r] = b[r] + 0
              /\ \A r \in DOMAIN what.rows \ DOMAIN b : Effect(b, what)[r] = 0 + what.rows[r]
         /\ what.do = "delete" =>
              /\ DOMAIN Effect(b, what) = {r \in DOMAIN b : ~Holds(what.cmp, r.key, what.lit)}
              /\ DOMAIN Twice(b, what) = {r \in DOMAIN b : ~Holds(what.cmp, r.key, what.lit)}
              /\ \A r \in DOMAIN Effect(b, what) : Effect(b, what)[r] = b[r]
              /\ \A r \in DOMAIN Twice(b, what) : Twice(b, what)[r] = b[r]
<1>1. CASE what.do = "create"
  BY <1>1 DEF Effect, Twice
<1>2. CASE what.do = "drop"
  BY <1>2 DEF Effect, Twice, EmptyBag
<1>3. CASE what.do = "insert"
  <2>1. \A c : Effect(c, what) = c (+) what.rows
    BY <1>3 DEF Effect
  <2>2. \A c : /\ DOMAIN Effect(c, what) = DOMAIN c \cup DOMAIN what.rows
               /\ \A r \in DOMAIN c \ DOMAIN what.rows : Effect(c, what)[r] = c[r] + 0
               /\ \A r \in DOMAIN what.rows \ DOMAIN c : Effect(c, what)[r] = 0 + what.rows[r]
    <3> SUFFICES ASSUME NEW c
                 PROVE  /\ DOMAIN Effect(c, what) = DOMAIN c \cup DOMAIN what.rows
                        /\ \A r \in DOMAIN c \ DOMAIN what.rows : Effect(c, what)[r] = c[r] + 0
                        /\ \A r \in DOMAIN what.rows \ DOMAIN c : Effect(c, what)[r] = 0 + what.rows[r]
      BY Zenon
    <3>1. Effect(c, what) = [e \in (DOMAIN c) \cup (DOMAIN what.rows) |->
                               (IF e \in DOMAIN c THEN c[e] ELSE 0)
                               + (IF e \in DOMAIN what.rows THEN what.rows[e] ELSE 0)]
      BY <2>1, Zenon DEF (+), CopiesIn
    <3> QED BY <3>1
  <2>3. DOMAIN Twice(b, what) = DOMAIN b \cup DOMAIN what.rows
    BY <2>2 DEF Twice
  <2> QED BY <2>2, <2>3, <1>3, Zenon
<1>4. CASE what.do = "delete"
  <2>1. \A c : /\ DOMAIN Effect(c, what) = {r \in DOMAIN c : ~Holds(what.cmp, r.key, what.lit)}
               /\ \A r \in DOMAIN Effect(c, what) : Effect(c, what)[r] = c[r]
    BY <1>4 DEF Effect, Only, Matches
  <2> QED BY <2>1, <1>4, Zenon DEF Twice
<1> QED BY <1>1, <1>2, <1>3, <1>4

\* UPDATE of the key: rows change it or stay, ids stay, and different ids stay
\* different.
Rekeys(b, c, from, to) ==
  /\ DOMAIN c \subseteq Rows
  /\ \A r \in DOMAIN c : r \in DOMAIN b \/ (r.key = to /\ [id |-> r.id, key |-> from] \in DOMAIN b)
  /\ \A r \in DOMAIN b : \E s \in DOMAIN c : s.id = r.id
  /\ Different(b) => Different(c)

\* What one UPDATE does is such a change.
LEMMA RekeyedOnce ==
  ASSUME NEW b, DOMAIN b \subseteq Rows, NEW from \in Literals, NEW to \in Literals, from # to
  PROVE  Rekeys(b, Rekeyed(b, from, to), from, to)
<1> DEFINE hit == {r \in DOMAIN b : r.key = from}
           kept == Only(b, DOMAIN b \ hit)
           moved == [r \in {[id |-> h.id, key |-> to] : h \in hit} |-> b[[id |-> r.id, key |-> from]]]
           c == Rekeyed(b, from, to)
<1>1. Matches(b, "EQ", from) = hit
  BY KeyFacts DEF Matches
<1>2. c = kept (+) moved
  BY <1>1, Zenon DEF Rekeyed
<1>3. /\ DOMAIN kept = DOMAIN b \ hit /\ \A r \in DOMAIN kept : kept[r] = b[r]
      /\ DOMAIN moved = {[id |-> h.id, key |-> to] : h \in hit}
      /\ \A r \in DOMAIN moved : moved[r] = b[[id |-> r.id, key |-> from]]
  BY DEF Only
<1>4. /\ DOMAIN c = DOMAIN kept \cup DOMAIN moved
      /\ \A r \in DOMAIN c : c[r] = (IF r \in DOMAIN kept THEN kept[r] ELSE 0)
                                    + (IF r \in DOMAIN moved THEN moved[r] ELSE 0)
  BY <1>2 DEF (+), CopiesIn
<1> HIDE DEF kept, moved, c
<1>5. \A r \in hit : r = [id |-> r.id, key |-> from]
  BY DEF Rows
<1>6. DOMAIN c \subseteq Rows
  <2>1. \A h \in hit : [id |-> h.id, key |-> to] \in Rows
    BY KeyFacts DEF Rows
  <2> QED BY <2>1, <1>3, <1>4
<1>7. \A r \in DOMAIN c : r \in DOMAIN b \/ (r.key = to /\ [id |-> r.id, key |-> from] \in DOMAIN b)
  <2>1. \A r \in DOMAIN moved : r.key = to /\ [id |-> r.id, key |-> from] \in DOMAIN b
    <3> SUFFICES ASSUME NEW h \in hit
                 PROVE  LET r == [id |-> h.id, key |-> to]
                        IN  r.key = to /\ [id |-> r.id, key |-> from] \in DOMAIN b
      BY <1>3
    <3> QED BY <1>5
  <2> QED BY <2>1, <1>3, <1>4
<1>8. \A r \in DOMAIN b : \E s \in DOMAIN c : s.id = r.id
  <2>1. \A r \in hit : [id |-> r.id, key |-> to] \in DOMAIN c
    BY <1>3, <1>4
  <2>2. \A r \in DOMAIN b \ hit : r \in DOMAIN c
    BY <1>3, <1>4
  <2> HIDE DEF hit
  <2>3. \A r \in hit : \E s \in DOMAIN c : s.id = r.id
    BY <2>1, Zenon
  <2> QED BY <2>2, <2>3
<1>9. ASSUME Different(b) PROVE Different(c)
  <2>1. \A r \in DOMAIN moved : /\ [id |-> r.id, key |-> from] \in hit /\ r.key = to
                                /\ r = [id |-> r.id, key |-> to] /\ moved[r] = 1
    BY <1>3, <1>5, <1>9 DEF Different
  <2>2. \A r \in DOMAIN kept, s \in DOMAIN moved : r.id # s.id
    <3> SUFFICES ASSUME NEW r \in DOMAIN kept, NEW s \in DOMAIN moved, r.id = s.id PROVE FALSE
      OBVIOUS
    <3> DEFINE h == [id |-> s.id, key |-> from]
    <3>1. h \in hit /\ h.id = s.id
      BY <2>1
    <3> HIDE DEF h
    <3>2. r = h
      BY <3>1, <1>3, <1>9 DEF Different
    <3> QED BY <3>1, <3>2, <1>3
  <2>3. \A r \in DOMAIN kept : kept[r] = 1
    BY <1>3, <1>9 DEF Different
  <2>4. \A r, s \in DOMAIN c : r.id = s.id => r = s
    <3>1. \A r, s \in DOMAIN kept : r.id = s.id => r = s
      BY <1>3, <1>9 DEF Different
    <3>2. \A r, s \in DOMAIN moved : r.id = s.id => r = s
      BY <2>1, Zenon
    <3> QED BY <1>4, <2>2, <3>1, <3>2
  <2>5. \A r \in DOMAIN c : c[r] = 1
    <3>1. DOMAIN kept \cap DOMAIN moved = {}
      BY <2>2
    <3>2. \A r \in DOMAIN kept : c[r] = 1 + 0
      BY <1>4, <2>3, <3>1
    <3>3. \A r \in DOMAIN moved : c[r] = 0 + 1
      BY <1>4, <2>1, <3>1, Zenon
    <3> QED BY <1>4, <3>2, <3>3
  <2> QED BY <2>4, <2>5 DEF Different
<1> QED BY <1>6, <1>7, <1>8, <1>9 DEF Rekeys, c

\* So is what it does when it runs once, twice or not at all.
LEMMA UpdateFacts ==
  ASSUME NEW b, DOMAIN b \subseteq Rows, NEW what \in Broadcasts, what.do = "update"
  PROVE  /\ Rekeys(b, b, what.from, what.to)
         /\ Rekeys(b, Effect(b, what), what.from, what.to)
         /\ Rekeys(b, Twice(b, what), what.from, what.to)
<1>1. what.from \in Literals /\ what.to \in Literals /\ what.from # what.to
  BY DEF Broadcasts
<1>2. \A c : Effect(c, what) = Rekeyed(c, what.from, what.to)
  BY DEF Effect
<1> DEFINE c == Effect(b, what)
           d == Effect(c, what)
<1>3. Rekeys(b, c, what.from, what.to)
  BY <1>1, <1>2, RekeyedOnce
<1>4. Rekeys(c, d, what.from, what.to)
  <2>1. DOMAIN c \subseteq Rows
    BY <1>3 DEF Rekeys
  <2> QED BY <2>1, <1>1, <1>2, RekeyedOnce
<1>5. Rekeys(b, d, what.from, what.to)
  <2> HIDE DEF c, d
  <2>1. DOMAIN d \subseteq Rows /\ (Different(b) => Different(d))
    BY <1>3, <1>4 DEF Rekeys
  <2>2. \A r \in DOMAIN b : \E s \in DOMAIN d : s.id = r.id
    BY <1>3, <1>4 DEF Rekeys
  <2>3. ASSUME NEW r \in DOMAIN d
        PROVE  r \in DOMAIN b \/ (r.key = what.to /\ [id |-> r.id, key |-> what.from] \in DOMAIN b)
    <3> DEFINE o == [id |-> r.id, key |-> what.from]
    <3>1. r \in DOMAIN c \/ (r.key = what.to /\ o \in DOMAIN c)
      BY <1>4 DEF Rekeys
    <3>2. r \in DOMAIN c => r \in DOMAIN b \/ (r.key = what.to /\ o \in DOMAIN b)
      BY <1>3 DEF Rekeys
    <3>3. o \in DOMAIN c => o \in DOMAIN b
      <4>1. o.key = what.from
        OBVIOUS
      <4> HIDE DEF o
      <4> QED BY <4>1, <1>1, <1>3, Zenon DEF Rekeys
    <3> QED BY <3>1, <3>2, <3>3
  <2> QED BY <2>1, <2>2, <2>3 DEF Rekeys
<1>6. Rekeys(b, b, what.from, what.to)
  BY DEF Rekeys
<1> QED BY <1>3, <1>5, <1>6 DEF Twice

-----------------------------------------------------------------------------
(* One call.                                                               *)

\* A call that was answered ran, and only a valid statement runs.
LEMMA OutcomeFacts ==
  ASSUME NEW addr, NEW what, NEW out \in Outcomes(addr, what)
  PROVE  /\ out.times \in {0, 1, 2} /\ out.late \in BOOLEAN /\ out.ok \in BOOLEAN
         /\ out.ok => out.times # 0
         /\ out.times # 0 => Valid(Group[addr], what)
<1>1. CASE ~alive[addr] \/ ~Valid(Group[addr], what)
  <2>1. out = Outcome(0, FALSE, FALSE, 0)
    BY <1>1, Zenon DEF Outcomes
  <2> QED BY <2>1 DEF Outcome
<1>2. CASE ~(~alive[addr] \/ ~Valid(Group[addr], what))
  <2>1. out \in {Outcome(1, FALSE, TRUE, 0),
                 Outcome(0, FALSE, FALSE, 1), Outcome(1, FALSE, FALSE, 1),
                 Outcome(2, FALSE, TRUE, 1), Outcome(2, FALSE, FALSE, 1),
                 Outcome(0, TRUE, FALSE, 1), Outcome(1, TRUE, TRUE, 1)}
    <3>1. (what.do # "create") = TRUE \/ (what.do # "create") = FALSE
      OBVIOUS
    <3> QED BY <1>2, <3>1, Zenon DEF Outcomes
  <2> DEFINE Fine == /\ out.times \in {0, 1, 2} /\ out.late \in BOOLEAN /\ out.ok \in BOOLEAN
                     /\ out.ok => out.times # 0
  <2>2. out = Outcome(1, FALSE, TRUE, 0) => Fine
    BY DEF Outcome
  <2>3. out = Outcome(0, FALSE, FALSE, 1) => Fine
    BY DEF Outcome
  <2>4. out = Outcome(1, FALSE, FALSE, 1) => Fine
    BY DEF Outcome
  <2>5. out = Outcome(2, FALSE, TRUE, 1) => Fine
    BY DEF Outcome
  <2>6. out = Outcome(2, FALSE, FALSE, 1) => Fine
    BY DEF Outcome
  <2>7. out = Outcome(0, TRUE, FALSE, 1) => Fine
    BY DEF Outcome
  <2>8. out = Outcome(1, TRUE, TRUE, 1) => Fine
    BY DEF Outcome
  <2> HIDE DEF Fine
  <2>9. Fine
    BY <2>1, <2>2, <2>3, <2>4, <2>5, <2>6, <2>7, <2>8, Zenon
  <2> QED BY <1>2, <2>9 DEF Fine
<1> QED BY <1>1, <1>2

\* As long as nothing is late, a call changes the rows of one group: not at all, or
\* by the statement, or by the statement twice.
CallTo(g, what, times) ==
  /\ "late" \notin gap /\ late' = {}
  /\ times \in {0, 1, 2}
  /\ times # 0 => Valid(g, what)
  /\ DOMAIN data' = Groups /\ has' \in [Groups -> BOOLEAN]
  /\ \A h \in Groups : h # g \/ times = 0 => data'[h] = data[h] /\ has'[h] = has[h]
  /\ times = 1 => data'[g] = Effect(data[g], what)
  /\ times = 2 => data'[g] = Twice(data[g], what)
  /\ times # 0 => has'[g] = ((what.do = "create") \/ (has[g] /\ what.do # "drop"))
  /\ times = 2 /\ what.do = "insert" => "twice" \in gap'
  /\ times = 0 /\ op.kind = "alter" /\ what.do = "delete" => "undeleted" \in gap'

\* Without late calls, a call runs its statement on the group it reaches.
LEMMA CallFacts ==
  ASSUME Shape, Stored, NEW addr \in Addrs, NEW what, NEW out \in Outcomes(addr, what),
         Call(addr, what, out), "late" \notin gap'
  PROVE  CallTo(Group[addr], what, out.times)
<1> DEFINE g == Group[addr]
<1>1. g \in Groups
  BY DEF Groups
<1>2. "late" \notin gap /\ ~out.late
  BY OutcomeFacts DEF Call
<1>3. late = {} /\ has \in [Groups -> BOOLEAN] /\ DOMAIN data = Groups
  BY <1>2 DEF Stored
<1>4. late' = {}
  BY <1>2, <1>3 DEF Call
<1>5. out.times \in {0, 1, 2} /\ (out.times # 0 => Valid(g, what))
  BY OutcomeFacts
<1>6. data' = [data EXCEPT ![g] = CASE out.times = 0 -> data[g] [] out.times = 1 -> Effect(data[g], what)
                                    [] OTHER -> Twice(data[g], what)]
  BY DEF Call, Run
<1>7. has' = IF out.times = 0 THEN has
             ELSE [has EXCEPT ![g] = (what.do = "create") \/ (has[g] /\ what.do # "drop")]
  BY DEF Call, Run
<1>8. has' \in [Groups -> BOOLEAN]
  BY <1>1, <1>3, <1>7
<1>9. DOMAIN data' = Groups
  BY <1>3, <1>6
<1>10. \A h \in Groups : h # g \/ out.times = 0 => data'[h] = data[h] /\ has'[h] = has[h]
  BY <1>1, <1>3, <1>6, <1>7
<1>11. out.times = 1 => data'[g] = Effect(data[g], what)
  BY <1>1, <1>3, <1>6
<1>12. out.times = 2 => data'[g] = Twice(data[g], what)
  BY <1>1, <1>3, <1>6
<1>13. out.times # 0 => has'[g] = ((what.do = "create") \/ (has[g] /\ what.do # "drop"))
  BY <1>1, <1>3, <1>7
<1>14. /\ out.times = 2 /\ what.do = "insert" => "twice" \in gap'
       /\ out.times = 0 /\ op.kind = "alter" /\ what.do = "delete" => "undeleted" \in gap'
  BY DEF Call
<1> QED BY <1>2, <1>4, <1>5, <1>8, <1>9, <1>10, <1>11, <1>12, <1>13, <1>14 DEF CallTo

\* A step after which the groups hold no more than before.
Shrinks ==
  /\ DOMAIN data' = Groups
  /\ \A g \in Groups : /\ DOMAIN data'[g] \subseteq DOMAIN data[g]
                       /\ \A r \in DOMAIN data'[g] : data'[g][r] = data[g][r]

\* CREATE, DROP and DELETE add no rows.
LEMMA CallShrinks ==
  ASSUME NEW g \in Groups, NEW what, NEW times, CallTo(g, what, times),
         what.do \in {"create", "drop", "delete"}
  PROVE  Shrinks
<1>1. \A h \in Groups : h # g \/ times = 0 => data'[h] = data[h]
  BY DEF CallTo
<1>2. /\ DOMAIN Effect(data[g], what) \subseteq DOMAIN data[g]
      /\ \A r \in DOMAIN Effect(data[g], what) : Effect(data[g], what)[r] = data[g][r]
      /\ DOMAIN Twice(data[g], what) \subseteq DOMAIN data[g]
      /\ \A r \in DOMAIN Twice(data[g], what) : Twice(data[g], what)[r] = data[g][r]
  <2>1. CASE what.do = "create"
    BY <2>1, EffectFacts, Zenon
  <2>2. CASE what.do = "drop"
    BY <2>2, EffectFacts, Zenon
  <2>3. CASE what.do = "delete"
    <3>1. /\ DOMAIN Effect(data[g], what) = {r \in DOMAIN data[g] : ~Holds(what.cmp, r.key, what.lit)}
          /\ DOMAIN Twice(data[g], what) = {r \in DOMAIN data[g] : ~Holds(what.cmp, r.key, what.lit)}
          /\ \A r \in DOMAIN Effect(data[g], what) : Effect(data[g], what)[r] = data[g][r]
          /\ \A r \in DOMAIN Twice(data[g], what) : Twice(data[g], what)[r] = data[g][r]
      BY <2>3, EffectFacts, Zenon
    <3> QED BY <3>1
  <2> QED BY <2>1, <2>2, <2>3
<1>3. /\ DOMAIN data'[g] \subseteq DOMAIN data[g]
      /\ \A r \in DOMAIN data'[g] : data'[g][r] = data[g][r]
  BY <1>1, <1>2 DEF CallTo
<1> QED BY <1>1, <1>3 DEF Shrinks, CallTo

\* A failover leaves every group with a part of its rows.
LEMMA FailoverShrinks ==
  ASSUME Stored, NEW a \in Addrs, Failover(a), "late" \notin gap'
  PROVE  /\ Shrinks /\ "late" \notin gap
         /\ "behind" \notin gap' => \A g \in Groups : DOMAIN data'[g] = DOMAIN data[g]
<1>1. PICK keep \in SUBSET DOMAIN data[Group[a]] :
        /\ data' = [data EXCEPT ![Group[a]] = Only(data[Group[a]], keep)]
        /\ keep # DOMAIN data[Group[a]] => "behind" \in gap'
  BY Zenon DEF Failover
<1>2. "late" \notin gap /\ DOMAIN data = Groups /\ Group[a] \in Groups
  BY DEF Failover, Stored, Groups
<1>3. \A g \in Groups : data'[g] = IF g = Group[a] THEN Only(data[g], keep) ELSE data[g]
  BY <1>1, <1>2
<1> QED BY <1>1, <1>2, <1>3 DEF Shrinks, Only

-----------------------------------------------------------------------------
(* Rows come from INSERTs.                                                 *)

\* The statement ends, goes on to its next shard, or stays where it is.
SameTask ==
  \/ op' = NoOp
  \/ op' = op
  \/ /\ op.kind \in {"create", "drop", "insert", "broadcast"} /\ op'.kind = op.kind
     /\ op'.todo \subseteq op.todo
     /\ op.kind = "insert" => op'.rows = op.rows
     /\ op.kind = "broadcast" => op'.what = op.what

\* The statement that goes on is the one that was running.
LEMMA SameTaskFacts ==
  ASSUME SameTask
  PROVE  /\ \A S : Altering(S)' => Altering(S) /\ op' = op
         /\ op'.kind = "broadcast" => op.kind = "broadcast" /\ op'.what = op.what
         /\ op'.kind = "insert" => /\ op.kind = "insert" /\ op'.rows = op.rows
                                   /\ op'.todo \subseteq op.todo
BY DEF SameTask, Altering, NoOp

\* A step that adds no rows keeps Stored.
LEMMA StoredFrame ==
  ASSUME Shape, Stored, Shrinks, "late" \notin gap, late' = {}, nrows' \in Nat, nrows <= nrows',
         has' \in [Groups -> BOOLEAN],
         \A g \in Groups : ~has'[g] => ~has[g] \/ DOMAIN data'[g] = {},
         Altering({"insert"})' => DOMAIN op'.rows \subseteq Rows
  PROVE  Stored'
<1>1. Rows \subseteq Rows' /\ nrows \in Nat
  BY DEF Rows, Shape
<1> QED BY <1>1 DEF Stored, Shrinks

-----------------------------------------------------------------------------
(* The calls of each statement.                                            *)

\* handle_alter_partition_ takes rows from the group of the MAXVALUE partition.
LEMMA SourceFacts ==
  ASSUME IsFirst
  PROVE  Source \in Addrs /\ Group[Source] = SourceGroup /\ SourceGroup \in FirstGroups
<1>1. {i \in DOMAIN map : map[i].max} = {i \in DOMAIN FirstMap : FirstMap[i].max}
  BY DEF IsFirst, Like
<1>2. Source = map[AtMax].addr /\ SourceGroup = Group[FirstMap[AtMax].addr]
  BY <1>1, Zenon DEF Source, AtMax, SourceGroup
<1>3. AtMax \in DOMAIN FirstMap /\ AtMax \in DOMAIN map
  BY GrownFacts DEF IsFirst, Like
<1> QED BY <1>2, <1>3, WholeMap DEF IsFirst, Like, FirstGroups

\* Calls that go from shard to shard: CREATE, DROP, DELETE and UPDATE.
RoundCall(what) ==
  \E i \in op.todo, times \in {0, 1, 2} :
    /\ i \in DOMAIN map /\ Group[map[i].addr] \in Groups
    /\ CallTo(Group[map[i].addr], what, times)
    /\ SameTask

\* A step of CREATE, DELETE or UPDATE is one call of the round.
LEMMA StepOrStopCall ==
  ASSUME Shape, Stored, NEW what, StepOrStop(what), "late" \notin gap',
         op.kind \in {"create", "broadcast"}, UNCHANGED map
  PROVE  RoundCall(what)
<1> DEFINE i == First(op.todo)
<1>1. PICK out \in Outcomes(map[i].addr, what) :
        /\ Call(map[i].addr, what, out)
        /\ op' = NoOp \/ op' = [op EXCEPT !.todo = op.todo \ {i}]
  BY DEF StepOrStop
<1>2. op.todo # {} /\ (IsFirst \/ IsGrown)
  BY OpCases
<1>3. i \in op.todo /\ i \in DOMAIN map
  BY <1>2, NextPlace
<1>4. map[i].addr \in Addrs /\ Group[map[i].addr] \in Groups
  BY <1>2, <1>3, WholeMap
<1> HIDE DEF i
<1>5. CallTo(Group[map[i].addr], what, out.times) /\ out.times \in {0, 1, 2}
  BY <1>1, <1>4, CallFacts, OutcomeFacts
<1>6. SameTask
  <2>1. CASE op.kind = "create"
    BY <1>1, <2>1, OpCases DEF SameTask
  <2>2. CASE op.kind = "broadcast"
    BY <1>1, <2>2, OpCases DEF SameTask
  <2> QED BY <2>1, <2>2
<1> QED BY <1>3, <1>4, <1>5, <1>6 DEF RoundCall

\* A step of DROP is one call of the round.
LEMMA DropStepCall ==
  ASSUME Shape, Stored, DropStep, "late" \notin gap'
  PROVE  RoundCall(Drop)
<1> DEFINE i == First(op.todo)
<1>1. PICK out \in Outcomes(map[i].addr, Drop) : Call(map[i].addr, Drop, out)
  BY DEF DropStep
<1>2. op' = [op EXCEPT !.todo = op.todo \ {i}] /\ op.todo # {} /\ op.kind = "drop"
  BY DEF DropStep
<1>3. i \in op.todo /\ i \in DOMAIN map /\ (IsFirst \/ IsGrown)
  BY <1>2, NextPlace, OpCases
<1>4. map[i].addr \in Addrs /\ Group[map[i].addr] \in Groups
  BY <1>3, WholeMap
<1> HIDE DEF i
<1>5. CallTo(Group[map[i].addr], Drop, out.times) /\ out.times \in {0, 1, 2}
  BY <1>1, <1>4, CallFacts, OutcomeFacts
<1>6. SameTask
  BY <1>2, OpCases DEF SameTask
<1> QED BY <1>3, <1>4, <1>5, <1>6 DEF RoundCall

\* INSERT sends each group the rows of its partition.
InsertCall(i, times) ==
  /\ i \in op.todo /\ i \in DOMAIN map /\ Group[map[i].addr] \in Groups
  /\ CallTo(Group[map[i].addr],
            InsertRows(SetToBag({r \in op.rows : shard_for_value(map, r.key) = i})), times)
  /\ SameTask
  /\ op' = NoOp \/ (times # 0 /\ op'.kind = "insert" /\ op'.todo = op.todo \ {i} /\ op'.rows = op.rows)
  /\ due' = due \/ (times # 0 /\ op.todo = {i} /\ op' = NoOp /\ due' = due \cup {r.id : r \in op.rows})

\* A step of INSERT sends one shard its rows.
LEMMA InsertStepCall ==
  ASSUME Shape, Stored, InsertStep, "late" \notin gap'
  PROVE  \E i, times : InsertCall(i, times)
<1> DEFINE what(i) == InsertRows(SetToBag({r \in op.rows : shard_for_value(map, r.key) = i}))
<1>0. PICK i \in op.todo : \E out \in Outcomes(map[i].addr, what(i)) :
        /\ Call(map[i].addr, what(i), out)
        /\ op' = IF out.ok /\ op.todo # {i} THEN [op EXCEPT !.todo = op.todo \ {i}] ELSE NoOp
        /\ due' = IF out.ok /\ op.todo = {i} THEN due \cup {r.id : r \in op.rows} ELSE due
  BY Zenon DEF InsertStep
<1>1. PICK out \in Outcomes(map[i].addr, what(i)) :
        /\ Call(map[i].addr, what(i), out)
        /\ op' = IF out.ok /\ op.todo # {i} THEN [op EXCEPT !.todo = op.todo \ {i}] ELSE NoOp
        /\ due' = IF out.ok /\ op.todo = {i} THEN due \cup {r.id : r \in op.rows} ELSE due
  BY <1>0, Zenon
<1>2. /\ op \in [kind : {"insert"}, rows : SUBSET Rows, todo : Places] /\ (IsFirst \/ IsGrown)
      /\ i \in DOMAIN map
  BY OpCases DEF InsertStep, Places
<1>3. map[i].addr \in Addrs /\ Group[map[i].addr] \in Groups
  BY <1>2, WholeMap
<1> HIDE DEF what
<1>4. CallTo(Group[map[i].addr], what(i), out.times)
  BY <1>1, <1>3, CallFacts
<1>5. out.ok \in BOOLEAN /\ (out.ok => out.times # 0)
  BY OutcomeFacts
<1>6. SameTask
  BY <1>1, <1>2 DEF SameTask
<1>7. op' = NoOp \/ (out.times # 0 /\ op'.kind = "insert" /\ op'.todo = op.todo \ {i} /\ op'.rows = op.rows)
  BY <1>1, <1>2, <1>5
<1>8. due' = due \/ (out.times # 0 /\ op.todo = {i} /\ op' = NoOp /\ due' = due \cup {r.id : r \in op.rows})
  BY <1>1, <1>5
<1>9. InsertCall(i, out.times)
  BY <1>2, <1>3, <1>4, <1>6, <1>7, <1>8 DEF InsertCall, what
<1> QED BY <1>9

\* The three calls of ALTER.
LEMMA AlterCalls ==
  ASSUME Shape, Stored, "late" \notin gap'
  PROVE  /\ AlterCreate => \E times :
              /\ CallTo(ExtraGroup, Create, times)
              /\ op' = NoOp \/ (times # 0 /\ op' = [kind |-> "alter", at |-> "select", part |-> op.part])
         /\ AlterInsert => \E times :
              /\ CallTo(ExtraGroup, InsertRows(op.rows), times)
              /\ op' = NoOp \/ (times # 0 /\ op' = [kind |-> "alter", at |-> "delete", part |-> op.part])
         /\ AlterDelete => \E times : CallTo(SourceGroup, DeleteWhere("LT", Extra.upper), times)
<1>1. op.kind = "alter" => Target \in Addrs /\ Group[Target] = ExtraGroup
  BY OpCases DEF Target, NewParts, Partitions
<1>2. op.kind = "alter" => Source \in Addrs /\ Group[Source] = SourceGroup
  BY OpCases, SourceFacts
<1>3. ASSUME AlterCreate
      PROVE  \E times : /\ CallTo(ExtraGroup, Create, times)
                        /\ op' = NoOp \/ (times # 0 /\ op' = [kind |-> "alter", at |-> "select", part |-> op.part])
  <2>1. PICK out \in Outcomes(Target, Create) :
          /\ Call(Target, Create, out)
          /\ op' = IF out.ok THEN [op EXCEPT !.at = "select"] ELSE NoOp
    BY <1>3 DEF AlterCreate
  <2>2. CallTo(ExtraGroup, Create, out.times)
    BY <1>1, <1>3, <2>1, CallFacts DEF AlterCreate
  <2>3. out.ok \in BOOLEAN /\ (out.ok => out.times # 0)
    BY OutcomeFacts
  <2>4. [op EXCEPT !.at = "select"] = [kind |-> "alter", at |-> "select", part |-> op.part]
    BY <1>3, OpCases DEF AlterCreate
  <2> QED BY <2>1, <2>2, <2>3, <2>4
<1>4. ASSUME AlterInsert
      PROVE  \E times :
               /\ CallTo(ExtraGroup, InsertRows(op.rows), times)
               /\ op' = NoOp \/ (times # 0 /\ op' = [kind |-> "alter", at |-> "delete", part |-> op.part])
  <2>1. PICK out \in Outcomes(Target, InsertRows(op.rows)) :
          /\ Call(Target, InsertRows(op.rows), out)
          /\ op' = IF out.ok THEN [kind |-> "alter", at |-> "delete", part |-> op.part] ELSE NoOp
    BY <1>4 DEF AlterInsert
  <2>2. CallTo(ExtraGroup, InsertRows(op.rows), out.times)
    BY <1>1, <1>4, <2>1, CallFacts DEF AlterInsert
  <2>3. out.ok \in BOOLEAN /\ (out.ok => out.times # 0)
    BY OutcomeFacts
  <2> QED BY <2>1, <2>2, <2>3
<1>5. ASSUME AlterDelete
      PROVE  \E times : CallTo(SourceGroup, DeleteWhere("LT", Extra.upper), times)
  BY <1>2, <1>5, CallFacts DEF AlterDelete
<1> QED BY <1>3, <1>4, <1>5

\* What an INSERT, a DELETE or an UPDATE leaves in the group it is sent to.
LEMMA InsertData ==
  ASSUME NEW g \in Groups, NEW rows, NEW times, CallTo(g, InsertRows(rows), times)
  PROVE  /\ times \in {0, 1, 2}
         /\ \A h \in Groups : h # g \/ times = 0 => data'[h] = data[h]
         /\ times # 0 => DOMAIN data'[g] = DOMAIN data[g] \cup DOMAIN rows
         /\ times = 1 =>
              /\ \A r \in DOMAIN data[g] \ DOMAIN rows : data'[g][r] = data[g][r] + 0
              /\ \A r \in DOMAIN rows \ DOMAIN data[g] : data'[g][r] = 0 + rows[r]
         /\ times = 2 => "twice" \in gap'
<1> DEFINE what == InsertRows(rows)
           b == data[g]
<1>1. what.do = "insert" /\ what.rows = rows
  BY DEF InsertRows
<1>2. /\ times \in {0, 1, 2}
      /\ \A h \in Groups : h # g \/ times = 0 => data'[h] = data[h]
      /\ times = 1 => data'[g] = Effect(b, what)
      /\ times = 2 => data'[g] = Twice(b, what)
      /\ times = 2 /\ what.do = "insert" => "twice" \in gap'
  BY DEF CallTo
<1> HIDE DEF what, b
<1>3. what.do = "insert" =>
              /\ DOMAIN Effect(b, what) = DOMAIN b \cup DOMAIN what.rows
              /\ DOMAIN Twice(b, what) = DOMAIN b \cup DOMAIN what.rows
              /\ \A r \in DOMAIN b \ DOMAIN what.rows : Effect(b, what)[r] = b[r] + 0
              /\ \A r \in DOMAIN what.rows \ DOMAIN b : Effect(b, what)[r] = 0 + what.rows[r]
  BY EffectFacts, Zenon
<1>4. /\ times # 0 => DOMAIN data'[g] = DOMAIN b \cup DOMAIN rows
      /\ times = 1 => /\ \A r \in DOMAIN b \ DOMAIN rows : data'[g][r] = b[r] + 0
                      /\ \A r \in DOMAIN rows \ DOMAIN b : data'[g][r] = 0 + rows[r]
  BY <1>1, <1>2, <1>3
<1> QED BY <1>1, <1>2, <1>4 DEF b

\* What a call of DELETE leaves of the rows.
LEMMA DeleteData ==
  ASSUME NEW g \in Groups, NEW cmp, NEW lit, NEW times, CallTo(g, DeleteWhere(cmp, lit), times)
  PROVE  /\ times \in {0, 1, 2}
         /\ \A h \in Groups : h # g \/ times = 0 => data'[h] = data[h]
         /\ times # 0 => /\ DOMAIN data'[g] = {r \in DOMAIN data[g] : ~Holds(cmp, r.key, lit)}
                         /\ \A r \in DOMAIN data'[g] : data'[g][r] = data[g][r]
         /\ times = 0 /\ op.kind = "alter" => "undeleted" \in gap'
<1> DEFINE what == DeleteWhere(cmp, lit)
           b == data[g]
<1>1. what.do = "delete" /\ what.cmp = cmp /\ what.lit = lit
  BY DEF DeleteWhere
<1>2. /\ times \in {0, 1, 2}
      /\ \A h \in Groups : h # g \/ times = 0 => data'[h] = data[h]
      /\ times = 1 => data'[g] = Effect(b, what)
      /\ times = 2 => data'[g] = Twice(b, what)
      /\ times = 0 /\ op.kind = "alter" /\ what.do = "delete" => "undeleted" \in gap'
  BY DEF CallTo
<1> HIDE DEF what, b
<1>3. what.do = "delete" =>
              /\ DOMAIN Effect(b, what) = {r \in DOMAIN b : ~Holds(what.cmp, r.key, what.lit)}
              /\ DOMAIN Twice(b, what) = {r \in DOMAIN b : ~Holds(what.cmp, r.key, what.lit)}
              /\ \A r \in DOMAIN Effect(b, what) : Effect(b, what)[r] = b[r]
              /\ \A r \in DOMAIN Twice(b, what) : Twice(b, what)[r] = b[r]
  BY EffectFacts, Zenon
<1>4. times # 0 => /\ DOMAIN data'[g] = {r \in DOMAIN b : ~Holds(cmp, r.key, lit)}
                   /\ \A r \in DOMAIN data'[g] : data'[g][r] = b[r]
  BY <1>1, <1>2, <1>3
<1> QED BY <1>1, <1>2, <1>4 DEF b

\* What a call of UPDATE makes of the rows.
LEMMA UpdateData ==
  ASSUME NEW g \in Groups, DOMAIN data[g] \subseteq Rows, NEW what \in Broadcasts,
         what.do = "update", NEW times, CallTo(g, what, times)
  PROVE  /\ times \in {0, 1, 2}
         /\ \A h \in Groups : h # g \/ times = 0 => data'[h] = data[h]
         /\ Rekeys(data[g], data'[g], what.from, what.to)
BY UpdateFacts DEF CallTo

-----------------------------------------------------------------------------
(* The rows are the rows inserted.                                         *)

\* The steps that call no shard.
Resting ==
  \/ CreateStart \/ DropStart \/ DropEnd
  \/ \E k \in 1..2 : \E keys \in [1..k -> Keys] : InsertStart(keys)
  \/ \E lit \in Literals : DeleteStart(lit)
  \/ \E from, to \in Literals : UpdateStart(from, to)
  \/ AlterStart \/ AlterSelect \/ AlterWrite \/ Crash \/ CrashInWrite \/ Notify \/ LoseNotice
  \/ UNCHANGED vars

\* A step without a call leaves the groups alone.
LEMMA RestingFacts ==
  ASSUME Shape, Resting
  PROVE  /\ UNCHANGED <<has, data, late>> /\ gap \subseteq gap'
         /\ nrows' \in Nat /\ nrows <= nrows'
<1>1. nrows \in Nat
  BY DEF Shape
<1>2. CASE \E k \in 1..2 : \E keys \in [1..k -> Keys] : InsertStart(keys)
  <2>1. PICK k \in 1..2 : \E keys \in [1..k -> Keys] : InsertStart(keys)
    BY <1>2, Zenon
  <2>2. nrows' = nrows + k
    BY <2>1, InsertStartShape, Zenon
  <2>3. UNCHANGED <<has, data, late, gap>>
    BY <2>1 DEF InsertStart, shards
  <2> QED BY <1>1, <2>2, <2>3
<1>3. CASE CreateStart \/ DropStart \/ DropEnd
  BY <1>1, <1>3 DEF CreateStart, DropStart, DropEnd, shards
<1>6. CASE \E lit \in Literals : DeleteStart(lit)
  BY <1>1, <1>6 DEF DeleteStart, shards
<1>5. CASE \E from, to \in Literals : UpdateStart(from, to)
  <2>1. PICK from, to \in Literals : UpdateStart(from, to)
    BY <1>5
  <2>2. UNCHANGED <<has, data, late, nrows>>
    BY <2>1 DEF UpdateStart, shards
  <2>3. gap' = gap \/ gap' = gap \cup {"rekeyed"}
    BY <2>1 DEF UpdateStart
  <2> QED BY <1>1, <2>2, <2>3
<1>4. CASE AlterStart \/ AlterSelect \/ AlterWrite \/ Crash \/ CrashInWrite \/ Notify \/ LoseNotice
           \/ UNCHANGED vars
  BY <1>1, <1>4 DEF AlterStart, AlterSelect, AlterWrite, Crash, CrashInWrite, Notify, LoseNotice,
                    vars, shards
<1> QED BY <1>2, <1>3, <1>4, <1>5, <1>6 DEF Resting

\* In particular it adds no rows.
LEMMA RestingShrinks ==
  ASSUME Shape, Stored, Resting, "late" \notin gap'
  PROVE  Shrinks /\ "late" \notin gap
BY RestingFacts DEF Stored, Shrinks

\* One of three things happens to the rows.
LEMMA StepKinds ==
  ASSUME Shape, Stored, [Next]_vars, "late" \notin gap'
  PROVE  \/ Resting
         \/ CreateStep \/ DropStep \/ InsertStep \/ BroadcastStep
         \/ AlterCreate \/ AlterInsert \/ AlterDelete
         \/ \E a \in Addrs : Failover(a)
<1>1. ~Arrive
  BY DEF Stored, Arrive
<1> QED BY <1>1 DEF Next, Resting

\* The SELECT of ALTER TABLE returns the rows below the new bound, of one group.
LEMMA MovingRows ==
  ASSUME Shape, Stored, op.kind = "alter", "late" \notin gap
  PROVE  /\ DOMAIN Moving = {r \in DOMAIN data[SourceGroup] : Holds("LT", r.key, Extra.upper)}
         /\ \A r \in DOMAIN Moving : Moving[r] = data[SourceGroup][r]
         /\ DOMAIN Moving \subseteq Rows
         /\ SourceGroup \in FirstGroups /\ SourceGroup \in Groups
<1>1. Group[Source] = SourceGroup /\ SourceGroup \in FirstGroups /\ SourceGroup \in Groups
  BY OpCases, SourceFacts, FirstFacts
<1> QED BY <1>1 DEF Moving, Only, Matches, Stored

\* Every step keeps Stored.
LEMMA NextStored ==
  ASSUME Shape, Stored, [Next]_vars
  PROVE  Stored'
<1> SUFFICES ASSUME "late" \notin gap' PROVE Stored'
  BY DEF Stored
<1>1. /\ nrows \in Nat
      /\ "late" \notin gap => /\ late = {} /\ has \in [Groups -> BOOLEAN] /\ DOMAIN data = Groups
                              /\ \A g \in Groups : DOMAIN data[g] \subseteq Rows
                              /\ \A g \in Groups : ~has[g] => DOMAIN data[g] = {}
                              /\ Altering({"insert"}) => DOMAIN op.rows \subseteq Rows
  BY DEF Shape, Stored
<1>2. CASE Resting
  <2>1. Shrinks /\ "late" \notin gap
    BY <1>2, RestingShrinks
  <2>2. Altering({"insert"})' => DOMAIN op'.rows \subseteq Rows
    <3>1. CASE AlterSelect
      <4>1. op'.kind = "alter" /\ op'.at = "insert" => op'.rows = Moving
        BY <3>1, OpCases DEF AlterSelect, NoOp
      <4> QED BY <3>1, <4>1, <2>1, MovingRows DEF Altering, AlterSelect
    <3>2. CASE LoseNotice \/ UNCHANGED vars
      BY <3>2, <1>1, <2>1 DEF LoseNotice, vars, Altering
    <3>3. CASE CreateStart \/ DropStart \/ DropEnd \/ (\E lit \in Literals : DeleteStart(lit))
               \/ (\E from, to \in Literals : UpdateStart(from, to)) \/ AlterStart \/ AlterWrite
               \/ Crash \/ CrashInWrite \/ Notify
               \/ (\E k \in 1..2 : \E keys \in [1..k -> Keys] : InsertStart(keys))
      <4>1. CASE CreateStart \/ DropStart \/ DropEnd \/ AlterStart \/ AlterWrite
        BY <4>1 DEF CreateStart, DropStart, DropEnd, AlterStart, AlterWrite, Begin, NoOp, Altering
      <4>2. CASE \/ \E lit \in Literals : DeleteStart(lit)
                 \/ \E from, to \in Literals : UpdateStart(from, to)
                 \/ \E k \in 1..2 : \E keys \in [1..k -> Keys] : InsertStart(keys)
        BY <4>2 DEF DeleteStart, UpdateStart, InsertStart, Begin, NoOp, Altering
      <4>3. CASE Crash \/ CrashInWrite \/ Notify
        BY <4>3 DEF Crash, CrashInWrite, Notify, NoOp, Altering
      <4> QED BY <3>3, <4>1, <4>2, <4>3
    <3> QED BY <1>2, <3>1, <3>2, <3>3 DEF Resting
  <2> QED BY <1>1, <1>2, <2>1, <2>2, RestingFacts, StoredFrame
<1>3. ASSUME NEW what, what.do \in {"create", "drop", "delete"}, NEW g \in Groups, NEW times,
             CallTo(g, what, times), nrows' = nrows,
             Altering({"insert"})' => Altering({"insert"}) /\ op' = op
      PROVE  Stored'
  <2>1. Shrinks
    BY <1>3, CallShrinks
  <2>2. /\ "late" \notin gap /\ late' = {} /\ has' \in [Groups -> BOOLEAN]
        /\ \A h \in Groups : h # g \/ times = 0 => has'[h] = has[h]
        /\ times # 0 => has'[g] = ((what.do = "create") \/ (has[g] /\ what.do # "drop"))
    BY <1>3 DEF CallTo
  <2>3. times # 0 /\ what.do = "drop" => DOMAIN data'[g] = {}
    <3>1. what.do = "drop" => DOMAIN Effect(data[g], what) = {} /\ DOMAIN Twice(data[g], what) = {}
      BY EffectFacts, Zenon
    <3> QED BY <1>3, <3>1 DEF CallTo
  <2>4. \A h \in Groups : ~has'[h] => ~has[h] \/ DOMAIN data'[h] = {}
    BY <2>2, <2>3
  <2> QED BY <1>1, <1>3, <2>1, <2>2, <2>4, StoredFrame
<1>4. CASE CreateStep
  <2>1. RoundCall(Create) /\ nrows' = nrows
    BY <1>4, StepOrStopCall DEF CreateStep
  <2> QED BY <1>3, <2>1, SameTaskFacts DEF RoundCall, Create
<1>5. CASE DropStep
  <2>1. RoundCall(Drop) /\ nrows' = nrows
    BY <1>5, DropStepCall DEF DropStep
  <2> QED BY <1>3, <2>1, SameTaskFacts DEF RoundCall, Drop
\* A call that adds rows or changes them.
<1>6. ASSUME NEW what, what.do \in {"insert", "update"}, NEW g \in Groups, NEW times,
             CallTo(g, what, times), nrows' = nrows, ~Altering({"insert"})',
             DOMAIN data'[g] \subseteq Rows
      PROVE  Stored'
  <2>1. /\ "late" \notin gap /\ late' = {} /\ has' \in [Groups -> BOOLEAN] /\ DOMAIN data' = Groups
        /\ \A h \in Groups : h # g \/ times = 0 => has'[h] = has[h] /\ data'[h] = data[h]
        /\ times # 0 => has'[g] = has[g] /\ has[g]
    BY <1>1, <1>6 DEF CallTo, Valid
  <2>2. Rows' = Rows
    BY <1>6 DEF Rows
  <2> QED BY <1>1, <1>6, <2>1, <2>2 DEF Stored
<1>7. CASE InsertStep
  <2>1. PICK i, times : InsertCall(i, times)
    BY <1>7, InsertStepCall
  <2> DEFINE g == Group[map[i].addr]
             S == {r \in op.rows : shard_for_value(map, r.key) = i}
  <2>2. g \in Groups /\ CallTo(g, InsertRows(SetToBag(S)), times) /\ ~Altering({"insert"})'
    BY <1>7, <2>1, SameTaskFacts, Zenon DEF InsertCall, InsertStep, Altering
  <2>3. DOMAIN data'[g] \subseteq DOMAIN data[g] \cup S
    <3>1. DOMAIN SetToBag(S) = S
      BY DEF SetToBag
    <3> HIDE DEF g, S
    <3> QED BY <2>2, <3>1, InsertData
  <2>4. S \subseteq Rows /\ DOMAIN data[g] \subseteq Rows
    BY <1>1, <1>7, <2>2, OpCases DEF InsertStep, CallTo
  <2> QED BY <1>6, <1>7, <2>2, <2>3, <2>4 DEF InsertStep, InsertRows
<1>8. CASE BroadcastStep
  <2>1. RoundCall(op.what) /\ nrows' = nrows /\ op.kind = "broadcast" /\ op.what \in Broadcasts
    BY <1>8, StepOrStopCall, OpCases DEF BroadcastStep
  <2>2. PICK i \in op.todo, times \in {0, 1, 2} :
          Group[map[i].addr] \in Groups /\ CallTo(Group[map[i].addr], op.what, times) /\ SameTask
    BY <2>1 DEF RoundCall
  <2>3. ~Altering({"insert"})'
    BY <2>1, <2>2, SameTaskFacts, Zenon DEF Altering
  <2>4. CASE op.what.do = "delete"
    BY <1>3, <2>1, <2>2, <2>3, <2>4
  <2>5. CASE op.what.do = "update"
    <3> DEFINE g == Group[map[i].addr]
    <3>1. DOMAIN data[g] \subseteq Rows
      BY <1>1, <2>2 DEF CallTo
    <3> HIDE DEF g
    <3>2. Rekeys(data[g], data'[g], op.what.from, op.what.to)
      BY <2>1, <2>2, <2>5, <3>1, UpdateFacts DEF CallTo, g
    <3> QED BY <1>6, <2>1, <2>2, <2>3, <2>5, <3>2 DEF Rekeys, g
  <2> QED BY <2>1, <2>4, <2>5 DEF Broadcasts
<1>9. CASE AlterCreate
  <2>1. PICK times : /\ CallTo(ExtraGroup, Create, times)
                     /\ op' = NoOp \/ (times # 0 /\ op' = [kind |-> "alter", at |-> "select", part |-> op.part])
    BY <1>9, AlterCalls
  <2>2. ~Altering({"insert"})'
    BY <1>9, <2>1, OpCases DEF Altering, AlterCreate, NoOp
  <2> QED BY <1>3, <1>9, <2>1, <2>2, FirstFacts DEF AlterCreate, Create
<1>10. CASE AlterInsert
  <2>1. PICK times : /\ CallTo(ExtraGroup, InsertRows(op.rows), times)
                     /\ op' = NoOp \/ op' = [kind |-> "alter", at |-> "delete", part |-> op.part]
    BY <1>10, AlterCalls
  <2>2. ~Altering({"insert"})'
    BY <2>1 DEF Altering, NoOp
  <2>3. DOMAIN data'[ExtraGroup] \subseteq DOMAIN data[ExtraGroup] \cup DOMAIN op.rows
    BY <2>1, InsertData, FirstFacts
  <2>4. DOMAIN data'[ExtraGroup] \subseteq Rows
    BY <1>1, <1>10, <2>1, <2>3, FirstFacts DEF CallTo, AlterInsert, Altering
  <2> QED BY <1>6, <1>10, <2>1, <2>2, <2>4, FirstFacts DEF AlterInsert, InsertRows
<1>11. CASE AlterDelete
  <2>1. PICK times : CallTo(SourceGroup, DeleteWhere("LT", Extra.upper), times)
    BY <1>11, AlterCalls
  <2>2. ~Altering({"insert"})'
    BY <1>11, OpCases DEF Altering, AlterDelete
  <2>3. SourceGroup \in Groups
    BY <1>11, OpCases, SourceFacts, FirstFacts DEF AlterDelete
  <2> QED BY <1>3, <1>11, <2>1, <2>2, <2>3 DEF AlterDelete, DeleteWhere
<1>12. CASE \E a \in Addrs : Failover(a)
  <2>1. PICK a \in Addrs : Failover(a)
    BY <1>12
  <2>2. Shrinks /\ "late" \notin gap
    BY <2>1, FailoverShrinks
  <2>3. late' = late /\ nrows' = nrows /\ has' = has /\ op' = op
    BY <2>1 DEF Failover
  <2>4. Altering({"insert"})' => DOMAIN op'.rows \subseteq Rows
    BY <1>1, <2>2, <2>3 DEF Altering
  <2> QED BY <1>1, <2>2, <2>3, <2>4, StoredFrame
<1> QED BY <1>2, <1>4, <1>5, <1>7, <1>8, <1>9, <1>10, <1>11, <1>12, StepKinds

-----------------------------------------------------------------------------
(* The groups the map leads to.                                            *)

\* The groups of the map's partitions, which are different ones.
LEMMA LikeGroups ==
  ASSUME NEW m, Like(m, FirstMap) \/ (Like(m, Grown) /\ ExtraGroup \notin FirstGroups)
  PROVE  /\ ~(Like(m, FirstMap) /\ Like(m, Grown))
         /\ Like(m, FirstMap) => {Group[m[i].addr] : i \in DOMAIN m} = FirstGroups
         /\ Like(m, Grown) => {Group[m[i].addr] : i \in DOMAIN m} = FirstGroups \cup {ExtraGroup}
         /\ \A i, j \in DOMAIN m : Group[m[i].addr] = Group[m[j].addr] => i = j
<1> DEFINE n == Len(FirstMap)
<1>1. /\ n \in Nat /\ DOMAIN FirstMap = 1 .. n
      /\ \A i, j \in 1 .. n : Group[FirstMap[i].addr] = Group[FirstMap[j].addr] => i = j
  BY FirstFacts, PartitionsAssumption
<1>2. /\ AtMax \in 1 .. n /\ DOMAIN Grown = 1 .. (n + 1)
      /\ \A i \in 1 .. (n + 1) : Grown[i] = IF i < AtMax THEN FirstMap[i] ELSE
                                             IF i = AtMax THEN Extra ELSE FirstMap[i - 1]
  BY <1>1, GrownFacts
<1> HIDE DEF n
<1>3. /\ \A i \in 1 .. n : Group[FirstMap[i].addr] \in FirstGroups
      /\ \A g \in FirstGroups : \E i \in 1 .. n : Group[FirstMap[i].addr] = g
  BY <1>1 DEF FirstGroups
<1>4. /\ Like(m, FirstMap) => /\ DOMAIN m = 1 .. n
                             /\ \A i \in 1 .. n : Group[m[i].addr] = Group[FirstMap[i].addr]
      /\ Like(m, Grown) => /\ DOMAIN m = 1 .. (n + 1)
                          /\ \A i \in 1 .. (n + 1) : Group[m[i].addr] = Group[Grown[i].addr]
  BY <1>1, <1>2 DEF Like
<1>5. ~(Like(m, FirstMap) /\ Like(m, Grown))
  <2>1. n + 1 \in 1 .. (n + 1) /\ n + 1 \notin 1 .. n
    BY <1>1
  <2> QED BY <1>4, <2>1, Zenon
<1>6. /\ \A i \in 1 .. (n + 1) : i < AtMax => i \in 1 .. n /\ Group[Grown[i].addr] = Group[FirstMap[i].addr]
      /\ Group[Grown[AtMax].addr] = ExtraGroup
      /\ \A i \in 1 .. (n + 1) : i > AtMax =>
           i - 1 \in 1 .. n /\ i - 1 >= AtMax /\ Group[Grown[i].addr] = Group[FirstMap[i - 1].addr]
  BY <1>1, <1>2 DEF ExtraGroup
<1>7. ASSUME Like(m, Grown), ExtraGroup \notin FirstGroups
      PROVE  /\ {Group[m[i].addr] : i \in DOMAIN m} = FirstGroups \cup {ExtraGroup}
             /\ \A i, j \in DOMAIN m : Group[m[i].addr] = Group[m[j].addr] => i = j
  <2>1. \A i \in 1 .. (n + 1) : i < AtMax \/ i = AtMax \/ i > AtMax
    BY <1>1, <1>2
  <2>2. \A i \in DOMAIN m : Group[m[i].addr] \in FirstGroups \cup {ExtraGroup}
    BY <1>3, <1>4, <1>6, <1>7, <2>1
  <2>3. ASSUME NEW i \in 1 .. n
        PROVE  \E j \in DOMAIN m : Group[m[j].addr] = Group[FirstMap[i].addr]
    <3>1. CASE i < AtMax
      <4>1. i \in 1 .. (n + 1)
        BY <1>1
      <4> QED BY <1>4, <1>6, <1>7, <3>1, <4>1
    <3>2. CASE ~(i < AtMax)
      <4>1. i + 1 \in 1 .. (n + 1) /\ i + 1 > AtMax /\ (i + 1) - 1 = i
        BY <1>1, <1>2, <3>2
      <4> QED BY <1>4, <1>6, <1>7, <4>1
    <3> QED BY <3>1, <3>2
  <2>4. AtMax \in DOMAIN m /\ Group[m[AtMax].addr] = ExtraGroup
    BY <1>1, <1>2, <1>4, <1>6, <1>7
  <2>5. \A g \in FirstGroups \cup {ExtraGroup} : \E i \in DOMAIN m : Group[m[i].addr] = g
    BY <1>3, <2>3, <2>4
  <2>6. ASSUME NEW i \in DOMAIN m, NEW j \in DOMAIN m, Group[m[i].addr] = Group[m[j].addr]
        PROVE  i = j
    <3> DEFINE At(x) == IF x < AtMax THEN x ELSE x - 1
    <3>1. i \in 1 .. (n + 1) /\ j \in 1 .. (n + 1) /\ Group[Grown[i].addr] = Group[Grown[j].addr]
      BY <1>4, <1>7, <2>6
    <3>2. \A x \in 1 .. (n + 1) : x # AtMax => At(x) \in 1 .. n /\ Group[Grown[x].addr] = Group[FirstMap[At(x)].addr]
      BY <1>6, <2>1, <1>1, <1>2
    <3>3. i = AtMax <=> j = AtMax
      BY <1>3, <1>4, <1>6, <1>7, <3>1, <3>2
    <3>4. i # AtMax /\ j # AtMax => At(i) = At(j)
      BY <1>1, <3>1, <3>2
    <3> QED BY <1>1, <1>2, <3>1, <3>3, <3>4
  <2> QED BY <2>2, <2>5, <2>6
<1>8. ASSUME Like(m, FirstMap)
      PROVE  /\ {Group[m[i].addr] : i \in DOMAIN m} = FirstGroups
             /\ \A i, j \in DOMAIN m : Group[m[i].addr] = Group[m[j].addr] => i = j
  BY <1>1, <1>3, <1>4, <1>8
<1> QED BY <1>5, <1>7, <1>8

\* The groups of the map.
LEMMA MapGroups ==
  /\ IsFirst => ~IsGrown
  /\ IsFirst => {Group[map[i].addr] : i \in DOMAIN map} = FirstGroups
  /\ IsGrown => {Group[map[i].addr] : i \in DOMAIN map} = FirstGroups \cup {ExtraGroup}
  /\ IsFirst \/ IsGrown =>
       \A i, j \in DOMAIN map : Group[map[i].addr] = Group[map[j].addr] => i = j
BY LikeGroups DEF IsFirst, IsGrown

\* The same of the next map.
LEMMA NextMap ==
  /\ IsFirst' => ~IsGrown'
  /\ IsFirst' \/ IsGrown' => map' # NoTable
  /\ map' = Torn => ~IsGrown'
<1>1. IsFirst' => ~IsGrown'
  BY LikeGroups DEF IsFirst, IsGrown
<1>2. FirstMap # <<>> /\ Grown # <<>> /\ FirstMap \in Seq(Partitions(Addrs)) /\ Grown \in Seq(Partitions(Addrs))
  BY FirstFacts, GrownFacts
<1>3. Len(FirstMap) # 0 /\ Len(Grown) # 0
  BY <1>2
<1>4. IsFirst' \/ IsGrown' => Len(map') # 0
  BY <1>2, <1>3, LikeRoutes DEF IsFirst, IsGrown
<1>5. map' = Torn => ~IsGrown'
  <2>1. 1 \in DOMAIN Torn /\ Torn[1].addr = NoAddr
    BY DEF Torn, MaxPartition
  <2>2. IsGrown' => \A i \in DOMAIN map' : map'[i].addr \in Addrs
    BY MapFacts DEF IsGrown, Like
  <2> QED BY <2>1, <2>2, LeadersAssumption
<1> QED BY <1>1, <1>4, <1>5 DEF NoTable

\* A row routed to a group belongs there, and a row that belongs to a group of the
\* map is routed to it.
LEMMA RoutedBelongs ==
  ASSUME IsFirst \/ IsGrown, NEW k \in Keys, NEW g
  PROVE  /\ Home(map, k) = g => Belongs(g, k) /\ (IsGrown => Settled(g, k))
         /\ \A i \in DOMAIN map : Group[map[i].addr] = g /\ Belongs(g, k) /\ (IsGrown => Settled(g, k))
              => Home(map, k) = g
<1>1. /\ Home(FirstMap, k) \in FirstGroups
      /\ Home(Grown, k) = ExtraGroup \/ Home(Grown, k) = Home(FirstMap, k)
  BY HomeGrown, KeyFacts, Zenon
<1>2. /\ IsFirst => Home(map, k) = Home(FirstMap, k)
      /\ IsGrown => Home(map, k) = Home(Grown, k) /\ ExtraGroup \notin FirstGroups
  BY LikeRoutes, FirstFacts, GrownFacts DEF IsFirst, IsGrown
<1>3. CASE IsFirst
  BY <1>1, <1>2, <1>3, MapGroups DEF Belongs
<1>4. CASE IsGrown
  BY <1>1, <1>2, <1>4, MapGroups DEF Belongs, Settled
<1> QED BY <1>3, <1>4
=============================================================================
