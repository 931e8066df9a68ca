----------------------------- MODULE MCSharding -----------------------------
(* Instances of module Sharding for TLC: groups a, b and c with three, two    *)
(* and one nodes, partitions below 1, below 2 and MAXVALUE, or two of them.    *)
EXTENDS Sharding, TLC

CONSTANTS a1, a2, a3, b1, b2, c1

Nodes == a1 :> "a" @@ a2 :> "a" @@ a3 :> "a" @@ b1 :> "b" @@ b2 :> "b" @@ c1 :> "c"
Leaders == a1 :> NoAddr @@ a2 :> a1 @@ a3 :> a1 @@ b1 :> NoAddr @@ b2 :> b1 @@ c1 :> NoAddr
\* b2 runs on another host, on a port that c1 has on the coordinator's.
Loopback == a1 :> a1 @@ a2 :> a2 @@ a3 :> a3 @@ b1 :> b1 @@ b2 :> c1 @@ c1 :> c1
TwoPartitions == <<Partition(1, b1), MaxPartition(a1)>>
NewPartition == Partition(2, c1)
MCKeys == {0, 1, 2}

\* The two followers of a1 are configured alike.
Followers == Permutations({a2, a3})
=============================================================================
