----------------------------- MODULE MCElection -----------------------------
(* Instances of Election for TLC. *)
EXTENDS Election, TLC

CONSTANTS n1, n2, n3

\* n3's WAL is one record shorter than the others'.
LsnThree == (n1 :> 1) @@ (n2 :> 1) @@ (n3 :> 0)

\* Both nodes of a pair have the same WAL.
LsnPair == (n1 :> 1) @@ (n2 :> 1)

\* Two nodes of three with equal WALs and no configured leader.
EqualPeers == Permutations({n1, n2})
=============================================================================
