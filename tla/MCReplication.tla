---------------------------- MODULE MCReplication ----------------------------
EXTENDS Replication

CONSTANTS MaxFlushes, MaxRejects, MaxFaults

Limits == [flush |-> MaxFlushes, reject |-> MaxRejects, fault |-> MaxFaults]
=============================================================================
