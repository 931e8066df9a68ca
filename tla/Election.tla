------------------------------ MODULE Election ------------------------------
(***************************************************************************)
(* Leader election among the nodes of one replica group:                   *)
(* replication/election.cpp, with the part of                              *)
(* replication/replication_manager.cpp that follows the election's role    *)
(* (leader_, the address the WAL consumer pulls from).                     *)
(*                                                                         *)
(* Each node runs one election thread, loop_, which handles one queued     *)
(* message at a time or, when its wait expires with an empty queue, sends  *)
(* heartbeats (a leader) or starts an election (any other role).  A        *)
(* message is carried by a thread and a connection of its own, so messages *)
(* overtake one another and may never arrive: msgs is the set of messages  *)
(* in flight or queued, and nothing forces a delivery.  A delivered        *)
(* message leaves the set: no connection delivers twice.                   *)
(*                                                                         *)
(* The answer to a vote request is sent back, one byte long, on the        *)
(* connection of the request.  The requester's end drops it               *)
(* (fire_and_forget_ keeps the frame's type and closes), and a             *)
(* REPL_VOTE_RESP frame of fewer than 9 bytes is ignored by                *)
(* handle_repl_frame.  VoteReplies = FALSE is that transport.  With        *)
(* VoteReplies = TRUE the answer reaches handle_vote_resp_ with the        *)
(* voter's term: more than the server delivers, so what can never happen   *)
(* there cannot happen in the server either.  It is used to check the      *)
(* rules of voting and counting, never that anything is reached.           *)
(*                                                                         *)
(* A handler changes the election's state and the disk in one step: until  *)
(* it sends something nobody sees the two apart, and a crash in between    *)
(* leaves what a crash before it leaves.  The manager's callback is a step *)
(* of its own, for leader_ follows role_ only then.  What the handler      *)
(* sends after the callback is sent with it.                               *)
(***************************************************************************)
EXTENDS Naturals, FiniteSets

CONSTANTS
  Nodes,        \* the nodes of peer_addrs (every node lists itself too)
  None,         \* an empty node id
  BootLeader,   \* the node configured with --role leader, or None
  Lsn,          \* get_wal_lsn_() of each node while the elections run
  VoteReplies,  \* whether answers to vote requests reach the candidate
  MaxTerm,      \* bound: no election is started beyond this term
  MaxInFlight,  \* bound: no periodic heartbeat is sent over so many messages
  MaxRestarts,  \* bound: number of crashes
  MaxWork       \* bound: terms and crashes together

ASSUME ElectionAssumption ==
  /\ IsFiniteSet(Nodes)
  /\ None \notin Nodes
  /\ BootLeader \in Nodes \cup {None}
  /\ Lsn \in [Nodes -> Nat]
  /\ VoteReplies \in BOOLEAN
  /\ MaxTerm \in Nat
  /\ MaxInFlight \in Nat
  /\ MaxRestarts \in Nat
  /\ MaxWork \in Nat

VARIABLES
  up,              \* the process runs
  role,            \* role_
  current_term,    \* current_term_
  voted_for,       \* voted_for_
  votes_received,  \* votes_received_
  current_leader,  \* current_leader_
  persisted,       \* election_state.bin: a term and a vote
  leader_,         \* ReplicationManager::leader_: the node accepts writes
  leader_addr,     \* WalConsumer::leader_addr_: the node the WAL is pulled from
  todo,            \* what the election thread's handler has yet to do: call back, send
  msgs,            \* messages in flight or queued
  restarts,        \* crashes so far
  elected          \* history: the <<node, term>> pairs of become_leader_

electionVars == <<role, current_term, voted_for, votes_received, current_leader>>
replVars == <<leader_, leader_addr>>
vars == <<up, electionVars, persisted, replVars, todo, msgs, restarts, elected>>

Message ==
  [type : {"Heartbeat", "VoteReq", "VoteResp"}, term : Nat, from : Nodes,
   to : Nodes, granted : BOOLEAN]

Persistent == [term : Nat, vote : Nodes \cup {None}]

\* A quorum as start_election_ and handle_vote_resp_ compute it.
majority == (Cardinality(Nodes) + 1) \div 2

Peers(n) == Nodes \ {n}

\* The frames send_to_peers_ hands to one thread per peer.
ToPeers(n, type, term) ==
  {[type |-> type, term |-> term, from |-> n, to |-> p, granted |-> FALSE] :
     p \in Peers(n)}

\* The answer to vote request m, if the transport carries it at all.
VoteReply(m, term, grant) ==
  IF VoteReplies
    THEN {[type |-> "VoteResp", term |-> term, from |-> m.to, to |-> m.from,
           granted |-> grant]}
    ELSE {}

\* The configured address of the leader: empty on the configured leader.
ConfiguredAddr(n) == IF n = BootLeader THEN None ELSE BootLeader

\* The election thread's next wait is reached once a handler has nothing left to do.
Nothing == [call |-> "none", send |-> {}]
Waits(n) == up[n] /\ todo[n].call = "none"
Then(n, call, send) == todo' = [todo EXCEPT ![n] = [call |-> call, send |-> send]]

-----------------------------------------------------------------------------
(* ReplicationManager: the callbacks of the election *)

\* become_leader_ of the manager: stop pulling the WAL, accept writes.
on_became_leader(n) ==
  /\ leader_' = [leader_ EXCEPT ![n] = TRUE]
  /\ UNCHANGED leader_addr

\* The mutant forgets to leave the leader role.
on_became_follower_Ignored(n) == UNCHANGED replVars

\* become_follower_ of the manager: nothing unless the node was accepting
\* writes; otherwise stop accepting them and pull from current_leader_ as it
\* stands when the callback runs.
on_became_follower(n) ==
  IF leader_[n]
    THEN /\ leader_' = [leader_ EXCEPT ![n] = FALSE]
         /\ leader_addr' = IF current_leader[n] # None
                             THEN [leader_addr EXCEPT ![n] = current_leader[n]]
                             ELSE leader_addr
    ELSE UNCHANGED replVars

-----------------------------------------------------------------------------
(* ElectionManager *)

\* election_state.bin is replaced as a whole: temporary file, fsync, rename.
persist_state(n, term, vote) ==
  persisted' = [persisted EXCEPT ![n] = [term |-> term, vote |-> vote]]

Init ==
  /\ up = [n \in Nodes |-> TRUE]
  /\ role = [n \in Nodes |-> IF n = BootLeader THEN "Leader" ELSE "Follower"]
  /\ current_term = [n \in Nodes |-> IF n = BootLeader THEN 1 ELSE 0]
  /\ voted_for = [n \in Nodes |-> None]
  /\ votes_received = [n \in Nodes |-> 0]
  /\ current_leader = [n \in Nodes |-> IF n = BootLeader THEN n ELSE None]
  /\ persisted = [n \in Nodes |-> [term |-> 0, vote |-> None]]
  /\ leader_ = [n \in Nodes |-> n = BootLeader]
  /\ leader_addr = [n \in Nodes |-> ConfiguredAddr(n)]
  /\ todo = [n \in Nodes |-> Nothing]
  /\ msgs = {}
  /\ restarts = 0
  /\ elected = {}

\* loop_'s wait expires at a leader: send_heartbeats_.
SendHeartbeats(n) ==
  /\ Waits(n)
  /\ role[n] = "Leader"
  /\ Cardinality(msgs) < MaxInFlight
  /\ msgs' = msgs \cup ToPeers(n, "Heartbeat", current_term[n])
  /\ UNCHANGED <<up, electionVars, persisted, replVars, todo, restarts, elected>>

\* The mutant never takes office on its own vote.
Wins_MoreThanOwn(votes) == votes > 1 /\ votes >= majority

\* The test of both places that may end an election.
Wins(votes) == votes >= majority

\* loop_'s wait expires at a follower or a candidate: start_election_, and
\* become_leader_ at once when the node's own vote is a quorum.
StartElection(n) ==
  LET term == current_term[n] + 1
      requests == ToPeers(n, "VoteReq", term)
  IN
  /\ Waits(n)
  /\ role[n] # "Leader"
  /\ term <= MaxTerm /\ term + restarts <= MaxWork
  /\ current_term' = [current_term EXCEPT ![n] = term]
  /\ voted_for' = [voted_for EXCEPT ![n] = n]
  /\ persist_state(n, term, n)
  /\ msgs' = msgs \cup requests
  /\ \/ /\ Wins(1)
        /\ role' = [role EXCEPT ![n] = "Leader"]
        /\ current_leader' = [current_leader EXCEPT ![n] = n]
        /\ votes_received' = [votes_received EXCEPT ![n] = 0]
        /\ elected' = elected \cup {<<n, term>>}
        /\ Then(n, "leader", ToPeers(n, "Heartbeat", term))
     \/ /\ ~ Wins(1)
        /\ role' = [role EXCEPT ![n] = "Candidate"]
        /\ votes_received' = [votes_received EXCEPT ![n] = 1]
        /\ UNCHANGED <<current_leader, elected, todo>>
  /\ UNCHANGED <<up, replVars, restarts>>

\* The manager's callback, and what the handler sends behind it.
CallBack(n) ==
  /\ up[n]
  /\ \/ todo[n].call = "leader" /\ on_became_leader(n)
     \/ todo[n].call = "follower" /\ on_became_follower(n)
  /\ msgs' = msgs \cup todo[n].send
  /\ todo' = [todo EXCEPT ![n] = Nothing]
  /\ UNCHANGED <<up, electionVars, persisted, restarts, elected>>

Deliver(m, type) ==
  /\ m.type = type
  /\ Waits(m.to)
  /\ msgs' = msgs \ {m}

\* handle_heartbeat_.  A leader that hears a rival of its own term steps down
\* and persists an empty vote, while voted_for_ stays as it is.
HandleHeartbeat(m) ==
  LET n == m.to IN
  /\ Deliver(m, "Heartbeat")
  /\ \/ /\ m.term < current_term[n]
        /\ UNCHANGED <<electionVars, persisted, todo>>
     \/ /\ m.term >= current_term[n]
        /\ current_term' = [current_term EXCEPT ![n] = m.term]
        /\ role' = [role EXCEPT ![n] = "Follower"]
        /\ current_leader' = [current_leader EXCEPT ![n] = m.from]
        /\ voted_for' = IF m.term > current_term[n]
                          THEN [voted_for EXCEPT ![n] = None]
                          ELSE voted_for
        /\ IF m.term > current_term[n] \/ role[n] = "Leader"
             THEN persist_state(n, m.term, None)
             ELSE UNCHANGED persisted
        /\ IF role[n] # "Follower" THEN Then(n, "follower", {}) ELSE UNCHANGED todo
        /\ UNCHANGED votes_received
  /\ UNCHANGED <<up, replVars, restarts, elected>>

\* The mutant grants a vote whatever the length of the candidate's log.
Grants_Behind(m, vote) == vote \in {None, m.from}

\* The condition of a grant on the log and on the vote of m's term.
Grants(m, vote) == Lsn[m.from] >= Lsn[m.to] /\ vote \in {None, m.from}

\* handle_vote_req_.  A higher term is adopted in memory, and reaches the
\* disk only with a grant.
HandleVoteReq(m) ==
  LET n == m.to
      higher == m.term > current_term[n]
      term == IF higher THEN m.term ELSE current_term[n]
      vote == IF higher THEN None ELSE voted_for[n]
      grant == m.term >= term /\ Grants(m, vote)
  IN
  /\ m.type = "VoteReq"
  /\ Waits(n)
  /\ current_term' = [current_term EXCEPT ![n] = term]
  /\ voted_for' = [voted_for EXCEPT ![n] = IF grant THEN m.from ELSE vote]
  /\ role' = IF higher THEN [role EXCEPT ![n] = "Follower"] ELSE role
  /\ IF grant THEN persist_state(n, term, m.from) ELSE UNCHANGED persisted
  /\ UNCHANGED <<current_leader, votes_received>>
  /\ IF higher /\ role[n] # "Follower"
       THEN Then(n, "follower", VoteReply(m, term, grant)) /\ msgs' = msgs \ {m}
       ELSE msgs' = (msgs \ {m}) \cup VoteReply(m, term, grant) /\ UNCHANGED todo
  /\ UNCHANGED <<up, replVars, restarts, elected>>

\* handle_vote_resp_, and become_leader_ with the quorum's last vote.  A
\* higher term deposes the node without persisting anything and without the
\* manager's callback.
HandleVoteResp(m) ==
  LET n == m.to
      higher == m.term > current_term[n]
      counted == role[n] = "Candidate" /\ m.term = current_term[n] /\ m.granted
      votes == votes_received[n] + 1
  IN
  /\ Deliver(m, "VoteResp")
  /\ \/ /\ higher
        /\ current_term' = [current_term EXCEPT ![n] = m.term]
        /\ voted_for' = [voted_for EXCEPT ![n] = None]
        /\ role' = [role EXCEPT ![n] = "Follower"]
        /\ current_leader' = [current_leader EXCEPT ![n] = None]
        /\ UNCHANGED <<votes_received, todo, elected>>
     \/ /\ counted
        /\ Wins(votes)
        /\ role' = [role EXCEPT ![n] = "Leader"]
        /\ current_leader' = [current_leader EXCEPT ![n] = n]
        /\ votes_received' = [votes_received EXCEPT ![n] = 0]
        /\ elected' = elected \cup {<<n, m.term>>}
        /\ Then(n, "leader", ToPeers(n, "Heartbeat", m.term))
        /\ UNCHANGED <<current_term, voted_for>>
     \/ /\ counted
        /\ ~ Wins(votes)
        /\ votes_received' = [votes_received EXCEPT ![n] = votes]
        /\ UNCHANGED <<role, current_term, voted_for, current_leader, todo, elected>>
     \/ /\ ~ higher
        /\ ~ counted
        /\ UNCHANGED <<electionVars, todo, elected>>
  /\ UNCHANGED <<up, persisted, replVars, restarts>>

\* The process dies: everything but election_state.bin is gone.
Crash(n) ==
  /\ up[n]
  /\ restarts < MaxRestarts
  /\ \A p \in Nodes : current_term[p] + restarts < MaxWork
  /\ restarts' = restarts + 1
  /\ up' = [up EXCEPT ![n] = FALSE]
  /\ role' = [role EXCEPT ![n] = "Follower"]
  /\ current_term' = [current_term EXCEPT ![n] = 0]
  /\ voted_for' = [voted_for EXCEPT ![n] = None]
  /\ votes_received' = [votes_received EXCEPT ![n] = 0]
  /\ current_leader' = [current_leader EXCEPT ![n] = None]
  /\ leader_' = [leader_ EXCEPT ![n] = FALSE]
  /\ leader_addr' = [leader_addr EXCEPT ![n] = None]
  /\ todo' = [todo EXCEPT ![n] = Nothing]
  /\ UNCHANGED <<persisted, msgs, elected>>

\* The mutant finds no state file.
load_state_Empty(n) == [term |-> 0, vote |-> None]

\* load_state_: the term and vote of election_state.bin.
load_state(n) == persisted[n]

\* ReplicationManager::start and ElectionManager::start: load_state_, and the
\* configured leader takes office whatever it loaded.
Restart(n) ==
  LET term == load_state(n).term
      boot == n = BootLeader
  IN
  /\ ~ up[n]
  /\ up' = [up EXCEPT ![n] = TRUE]
  /\ role' = [role EXCEPT ![n] = IF boot THEN "Leader" ELSE "Follower"]
  /\ current_term' = [current_term EXCEPT ![n] =
                        IF boot /\ term = 0 THEN 1 ELSE term]
  /\ voted_for' = [voted_for EXCEPT ![n] = load_state(n).vote]
  /\ current_leader' = [current_leader EXCEPT ![n] = IF boot THEN n ELSE None]
  /\ leader_' = [leader_ EXCEPT ![n] = boot]
  /\ leader_addr' = [leader_addr EXCEPT ![n] = ConfiguredAddr(n)]
  /\ UNCHANGED <<votes_received, persisted, todo, msgs, restarts, elected>>

Next ==
  \/ \E n \in Nodes : SendHeartbeats(n)
  \/ \E n \in Nodes : StartElection(n)
  \/ \E n \in Nodes : CallBack(n)
  \/ \E m \in msgs : HandleHeartbeat(m)
  \/ \E m \in msgs : HandleVoteReq(m)
  \/ \E m \in msgs : HandleVoteResp(m)
  \/ \E n \in Nodes : Crash(n)
  \/ \E n \in Nodes : Restart(n)

\* The election thread of a running node keeps waking up, its wait being timed, and
\* its callbacks return: the WAL consumer they may have to stop waits on timers only.
\* Nothing is assumed of the messages, nor of a process that died.
Fairness == \A n \in Nodes : WF_vars(StartElection(n)) /\ WF_vars(CallBack(n))

Spec == Init /\ [][Next]_vars /\ Fairness

-----------------------------------------------------------------------------
(* Properties *)

\* Types.  Of the state file: the persisted term is never ahead of the term
\* the running node is in.
TypeOK ==
  /\ up \in [Nodes -> BOOLEAN]
  /\ role \in [Nodes -> {"Follower", "Candidate", "Leader"}]
  /\ current_term \in [Nodes -> Nat]
  /\ voted_for \in [Nodes -> Nodes \cup {None}]
  /\ votes_received \in [Nodes -> Nat]
  /\ current_leader \in [Nodes -> Nodes \cup {None}]
  /\ persisted \in [Nodes -> Persistent]
  /\ leader_ \in [Nodes -> BOOLEAN]
  /\ leader_addr \in [Nodes -> Nodes \cup {None}]
  /\ todo \in [Nodes -> [call : {"none", "leader", "follower"}, send : SUBSET Message]]
  /\ msgs \in SUBSET Message
  /\ restarts \in Nat
  /\ elected \in SUBSET (Nodes \X Nat)
  /\ \A n \in Nodes : up[n] => persisted[n].term <= current_term[n]

\* At most one node wins the election of a term, through crashes, restarts
\* and late messages: a vote is on disk before the answer leaves, and a
\* candidate counts one answer per voter.
ElectedOnce ==
  \A e, f \in elected : e[2] = f[2] => e[1] = f[1]

\* A node that won an election is not behind a quorum of the group: its WAL
\* is at least as long as that of every member of some quorum, itself
\* included (the guarantee behind the comparison of WAL LSNs).
WinnerNotBehind ==
  \A e \in elected :
    Cardinality({n \in Nodes : Lsn[n] <= Lsn[e[1]]}) >= majority

\* A candidate that a quorum has durably voted for in its term is elected: as
\* long as it is still a candidate, one of the answers is on its way to it.
WinnerBecomesLeader ==
  \A n \in Nodes :
    (/\ up[n] /\ role[n] = "Candidate"
     /\ Cardinality({v \in Nodes :
          persisted[v] = [term |-> current_term[n], vote |-> n]}) >= majority)
    => \E m \in msgs \cup UNION {todo[v].send : v \in Nodes} : m.type = "VoteResp" /\ m.to = n

\* A node accepts writes exactly while its election thread is in the leader role, on
\* the transport the server uses; the two differ only between a change of the role
\* and the manager's callback, which is then on its way.
WritesFollowRole ==
  \A n \in Nodes : Waits(n) => (leader_[n] <=> role[n] = "Leader")

\* The term in election_state.bin never goes back, whatever is delivered,
\* however late, and wherever the node restarts.
PersistedTermGrows ==
  [][\A n \in Nodes : persisted'[n].term >= persisted[n].term]_vars

\* In a group of two, the survivor takes over: once the other node is down,
\* a running node ends up accepting writes, or dies itself, or the other comes back.
\* (The premise leaves it one more term within the model's bounds.)
SurvivorTakesOver ==
  \A n \in Nodes :
    (/\ up[n] /\ current_term[n] < MaxTerm /\ MaxTerm + MaxRestarts <= MaxWork
     /\ \A m \in msgs : m.to = n => m.term < MaxTerm
     /\ \A p \in Peers(n) : ~ up[p])
      ~> (leader_[n] \/ ~ up[n] \/ \E p \in Peers(n) : up[p])

-----------------------------------------------------------------------------
(* Claims of the documentation *)

\* README: "The winner becomes leader for the new term": two nodes in office
\* are in different terms.
OneLeaderPerTerm ==
  \A n, p \in Nodes :
    (/\ up[n] /\ role[n] = "Leader"
     /\ up[p] /\ role[p] = "Leader"
     /\ current_term[n] = current_term[p]) => n = p

\* README: "Election state (term, voted-for) is persisted to survive
\* restarts": a node that comes back does not take office in a term another
\* node is leading.
RestartHasNoRival ==
  [][\A n, p \in Nodes :
       (/\ ~ up[n] /\ up'[n] /\ role'[n] = "Leader"
        /\ up[p] /\ role[p] = "Leader")
       => current_term[p] # current_term'[n]]_vars

\* README: "Followers replay incoming WAL records in order, staying behind
\* the leader": a node that stepped down does not pull the WAL from itself.
FollowersPullFromOthers ==
  \A n \in Nodes : (up[n] /\ ~ leader_[n]) => leader_addr[n] # n

=============================================================================
