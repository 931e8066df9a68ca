--------------------------- MODULE ElectionProofs ---------------------------
(***************************************************************************)
(* For every group, every configured leader, every log length and bound:   *)
(* the types, the terms on disk, and on the server's transport the roles   *)
(* and who can be in office.  TypeOK is inductive as it stands; its last   *)
(* conjunct, that the persisted term is never ahead of the running node's, *)
(* is what PersistedTermGrows follows from.                                *)
(***************************************************************************)
EXTENDS ElectionInvariant, TLAPS

-----------------------------------------------------------------------------
(* Types *)

\* Frames are messages: what send_to_peers_ and a vote's answer put in msgs.
LEMMA FrameTypes ==
  /\ \A n \in Nodes, term \in Nat, type \in {"Heartbeat", "VoteReq"} :
       ToPeers(n, type, term) \in SUBSET Message
  /\ \A m \in Message, term \in Nat, grant \in BOOLEAN :
       VoteReply(m, term, grant) \in SUBSET Message
<1>1. ASSUME NEW n \in Nodes, NEW term \in Nat,
             NEW type \in {"Heartbeat", "VoteReq"}
      PROVE  ToPeers(n, type, term) \in SUBSET Message
  <2>1. \A p \in Peers(n) :
          [type |-> type, term |-> term, from |-> n, to |-> p,
           granted |-> FALSE] \in Message
    BY DEF Peers, Message
  <2> QED
    BY <2>1, Zenon DEF ToPeers
<1>2. ASSUME NEW m \in Message, NEW term \in Nat, NEW grant \in BOOLEAN
      PROVE  VoteReply(m, term, grant) \in SUBSET Message
  <2>1. [type |-> "VoteResp", term |-> term, from |-> m.to, to |-> m.from,
         granted |-> grant] \in Message
    BY DEF Message
  <2> QED
    BY <2>1, Zenon DEF VoteReply
<1> QED
  BY <1>1, <1>2

\* What a handler leaves to do, and having nothing to do, is well typed.
Todo == [call : {"none", "leader", "follower"}, send : SUBSET Message]

LEMMA TodoTypes ==
  ASSUME TypeOK, NEW n \in Nodes
  PROVE  /\ Nothing \in Todo
         /\ todo[n].send \in SUBSET Message
         /\ \A call \in {"leader", "follower"}, send \in SUBSET Message :
              Then(n, call, send) => todo' \in [Nodes -> Todo]
<1>1. Nothing \in Todo
  BY DEF Nothing, Todo
<1>2. todo \in [Nodes -> Todo]
  BY DEF TypeOK, Todo
<1>3. todo[n].send \in SUBSET Message
  BY <1>2 DEF Todo
<1>4. ASSUME NEW call \in {"leader", "follower"}, NEW send \in SUBSET Message,
             Then(n, call, send)
      PROVE  todo' \in [Nodes -> Todo]
  <2>1. [call |-> call, send |-> send] \in Todo
    BY DEF Todo
  <2> QED
    BY <1>2, <1>4, <2>1, Zenon DEF Then
<1> QED
  BY <1>1, <1>3, <1>4

\* A callback of the manager, and what is sent behind it, keeps the types.
LEMMA CallBackTypes ==
  ASSUME TypeOK, NEW n \in Nodes, CallBack(n)
  PROVE  TypeOK'
<1>1. /\ leader_' \in [Nodes -> BOOLEAN]
      /\ leader_addr' \in [Nodes -> Nodes \cup {None}]
  BY Zenon DEF CallBack, TypeOK, on_became_leader, on_became_follower, replVars
<1>2. msgs' \in SUBSET Message
  BY TodoTypes DEF CallBack, TypeOK
<1>3. todo' \in [Nodes -> Todo]
  BY TodoTypes, Zenon DEF CallBack, TypeOK, Todo
<1> QED
  BY <1>1, <1>2, <1>3 DEF CallBack, electionVars, TypeOK, Todo

\* The state of a fresh group is well typed.
LEMMA InitTypes == Init => TypeOK
BY ElectionAssumption
   DEF Init, TypeOK, Persistent, ConfiguredAddr, Message, Nothing

\* A node starting an election keeps the types.
LEMMA StartElectionTypes ==
  ASSUME TypeOK, NEW n \in Nodes, StartElection(n)
  PROVE  TypeOK'
<1> DEFINE term == current_term[n] + 1
<1>1. term \in Nat
  BY DEF TypeOK
<1>2. /\ ToPeers(n, "VoteReq", term) \in SUBSET Message
      /\ ToPeers(n, "Heartbeat", term) \in SUBSET Message
  BY <1>1, FrameTypes
<1>3. /\ current_term' = [current_term EXCEPT ![n] = term]
      /\ voted_for' = [voted_for EXCEPT ![n] = n]
      /\ persisted' = [persisted EXCEPT ![n] = [term |-> term, vote |-> n]]
      /\ msgs' = msgs \cup ToPeers(n, "VoteReq", term)
      /\ UNCHANGED <<up, leader_, leader_addr, restarts>>
      /\ \/ /\ role' = [role EXCEPT ![n] = "Leader"]
            /\ current_leader' = [current_leader EXCEPT ![n] = n]
            /\ votes_received' = [votes_received EXCEPT ![n] = 0]
            /\ elected' = elected \cup {<<n, term>>}
            /\ Then(n, "leader", ToPeers(n, "Heartbeat", term))
         \/ /\ role' = [role EXCEPT ![n] = "Candidate"]
            /\ votes_received' = [votes_received EXCEPT ![n] = 1]
            /\ UNCHANGED <<current_leader, elected, todo>>
  BY DEF StartElection, persist_state, replVars
<1> HIDE DEF term
<1>4. /\ current_leader' \in [Nodes -> Nodes \cup {None}]
      /\ role' \in [Nodes -> {"Follower", "Candidate", "Leader"}]
  <2>1. /\ current_leader \in [Nodes -> Nodes \cup {None}]
        /\ role \in [Nodes -> {"Follower", "Candidate", "Leader"}]
    BY DEF TypeOK
  <2> QED
    BY <1>3, <2>1
<1>10. votes_received' \in [Nodes -> Nat]
  BY <1>3 DEF TypeOK
<1>8. elected' \in SUBSET (Nodes \X Nat)
  BY <1>1, <1>3 DEF TypeOK
<1>9. msgs' \in SUBSET Message
  BY <1>2, <1>3 DEF TypeOK
<1>5. todo' \in [Nodes -> Todo]
  BY <1>2, <1>3, TodoTypes DEF TypeOK, Todo
<1>6. /\ up' \in [Nodes -> BOOLEAN]
      /\ current_term' \in [Nodes -> Nat]
      /\ voted_for' \in [Nodes -> Nodes \cup {None}]
      /\ persisted' \in [Nodes -> Persistent]
      /\ restarts' \in Nat
  BY <1>1, <1>3 DEF TypeOK, Persistent
<1>7. \A p \in Nodes : up'[p] => persisted'[p].term <= current_term'[p]
  BY <1>1, <1>3 DEF TypeOK, Persistent
<1> QED
  BY <1>3, <1>4, <1>5, <1>6, <1>7, <1>8, <1>9, <1>10 DEF TypeOK, Todo

\* handle_heartbeat_ keeps the types.
LEMMA HandleHeartbeatTypes ==
  ASSUME TypeOK, NEW m \in msgs, HandleHeartbeat(m)
  PROVE  TypeOK'
<1> DEFINE n == m.to
<1>1. /\ m \in Message /\ n \in Nodes /\ m.from \in Nodes /\ m.term \in Nat
      /\ up[n]
  BY DEF TypeOK, Message, HandleHeartbeat, Deliver, Waits
<1>2. /\ msgs' \in SUBSET Message
      /\ UNCHANGED <<up, leader_, leader_addr, restarts, elected>>
  BY DEF TypeOK, HandleHeartbeat, Deliver, replVars
<1>3. CASE m.term < current_term[n]
  <2>1. UNCHANGED <<role, current_term, voted_for, votes_received,
                    current_leader, persisted, todo>>
    BY <1>1, <1>3 DEF HandleHeartbeat, electionVars, TypeOK
  <2> QED
    BY <1>2, <2>1 DEF TypeOK
<1>4. CASE m.term >= current_term[n]
  <2>1. /\ current_term' = [current_term EXCEPT ![n] = m.term]
        /\ role' = [role EXCEPT ![n] = "Follower"]
        /\ current_leader' = [current_leader EXCEPT ![n] = m.from]
        /\ \/ voted_for' = [voted_for EXCEPT ![n] = None]
           \/ voted_for' = voted_for
        /\ \/ persisted' = [persisted EXCEPT ![n] = [term |-> m.term, vote |-> None]]
           \/ persisted' = persisted
        /\ Then(n, "follower", {}) \/ UNCHANGED todo
        /\ UNCHANGED votes_received
    BY <1>1, <1>4 DEF HandleHeartbeat, persist_state, TypeOK
  <2> HIDE DEF n
  <2>2. /\ current_term' \in [Nodes -> Nat]
        /\ role' \in [Nodes -> {"Follower", "Candidate", "Leader"}]
        /\ current_leader' \in [Nodes -> Nodes \cup {None}]
        /\ voted_for' \in [Nodes -> Nodes \cup {None}]
        /\ votes_received' \in [Nodes -> Nat]
    BY <1>1, <2>1 DEF TypeOK
  <2>5. persisted' \in [Nodes -> Persistent]
    <3>1. [term |-> m.term, vote |-> None] \in Persistent
      BY <1>1 DEF Persistent
    <3> QED
      BY <1>1, <2>1, <3>1 DEF TypeOK
  <2>3. todo' \in [Nodes -> Todo]
    BY <1>1, <2>1, TodoTypes DEF TypeOK, Todo
  <2>4. \A p \in Nodes : up'[p] => persisted'[p].term <= current_term'[p]
    BY <1>1, <1>2, <1>4, <2>1 DEF TypeOK, Persistent
  <2> QED
    BY <1>2, <2>2, <2>3, <2>4, <2>5 DEF TypeOK, Todo
<1> QED
  BY <1>1, <1>3, <1>4 DEF TypeOK

\* handle_vote_req_ keeps the types.
LEMMA HandleVoteReqTypes ==
  ASSUME TypeOK, NEW m \in msgs, HandleVoteReq(m)
  PROVE  TypeOK'
<1> DEFINE n == m.to
           term == IF m.term > current_term[n] THEN m.term ELSE current_term[n]
           vote == IF m.term > current_term[n] THEN None ELSE voted_for[n]
           grant == m.term >= term /\ Grants(m, vote)
<1>1. /\ m \in Message /\ n \in Nodes /\ m.from \in Nodes /\ m.term \in Nat
      /\ term \in Nat /\ term >= current_term[n]
      /\ vote \in Nodes \cup {None}
      /\ grant \in BOOLEAN
  BY DEF TypeOK, Message, Grants
<1>2. /\ \/ /\ msgs' = (msgs \ {m}) \cup VoteReply(m, term, grant)
            /\ UNCHANGED todo
         \/ /\ msgs' = msgs \ {m}
            /\ Then(n, "follower", VoteReply(m, term, grant))
      /\ current_term' = [current_term EXCEPT ![n] = term]
      /\ voted_for' = [voted_for EXCEPT ![n] = IF grant THEN m.from ELSE vote]
      /\ role' = [role EXCEPT ![n] = "Follower"] \/ role' = role
      /\ \/ persisted' = [persisted EXCEPT ![n] = [term |-> term, vote |-> m.from]]
         \/ persisted' = persisted
      /\ UNCHANGED <<current_leader, votes_received, up, leader_, leader_addr,
                     restarts, elected>>
  BY DEF HandleVoteReq, persist_state, replVars
<1> HIDE DEF n, term, vote, grant
<1>3. msgs' \in SUBSET Message
  BY <1>1, <1>2, FrameTypes DEF TypeOK
<1>4. /\ current_term' \in [Nodes -> Nat]
      /\ role' \in [Nodes -> {"Follower", "Candidate", "Leader"}]
      /\ current_leader' \in [Nodes -> Nodes \cup {None}]
      /\ voted_for' \in [Nodes -> Nodes \cup {None}]
      /\ votes_received' \in [Nodes -> Nat]
  <2>1. /\ current_term \in [Nodes -> Nat]
        /\ role \in [Nodes -> {"Follower", "Candidate", "Leader"}]
        /\ current_leader \in [Nodes -> Nodes \cup {None}]
        /\ voted_for \in [Nodes -> Nodes \cup {None}]
        /\ votes_received \in [Nodes -> Nat]
    BY DEF TypeOK
  <2> QED
    BY <1>1, <1>2, <2>1
<1>7. persisted' \in [Nodes -> Persistent]
  <2>1. persisted \in [Nodes -> Persistent]
    BY DEF TypeOK
  <2>2. [term |-> term, vote |-> m.from] \in Persistent
    BY <1>1 DEF Persistent
  <2> QED
    BY <1>2, <2>1, <2>2, Zenon
<1>5. todo' \in [Nodes -> Todo]
  BY <1>1, <1>2, FrameTypes, TodoTypes DEF TypeOK, Todo
<1>6. \A p \in Nodes : up'[p] => persisted'[p].term <= current_term'[p]
  BY <1>1, <1>2 DEF TypeOK, Persistent
<1> QED
  BY <1>2, <1>3, <1>4, <1>5, <1>6, <1>7 DEF TypeOK, Todo

\* handle_vote_resp_ keeps the types.
LEMMA HandleVoteRespTypes ==
  ASSUME TypeOK, NEW m \in msgs, HandleVoteResp(m)
  PROVE  TypeOK'
<1> DEFINE n == m.to
<1>1. /\ m \in Message /\ n \in Nodes /\ m.term \in Nat
      /\ votes_received[n] + 1 \in Nat
      /\ ToPeers(n, "Heartbeat", m.term) \in SUBSET Message
  BY FrameTypes DEF TypeOK, Message
<1>2. msgs' \in SUBSET Message /\ UNCHANGED <<up, persisted, leader_, leader_addr, restarts>>
  BY DEF HandleVoteResp, Deliver, replVars, TypeOK
<1>3. CASE /\ m.term > current_term[n]
           /\ current_term' = [current_term EXCEPT ![n] = m.term]
           /\ voted_for' = [voted_for EXCEPT ![n] = None]
           /\ role' = [role EXCEPT ![n] = "Follower"]
           /\ current_leader' = [current_leader EXCEPT ![n] = None]
           /\ UNCHANGED <<votes_received, todo, elected>>
  <2> HIDE DEF n
  <2>1. \A p \in Nodes : up'[p] => persisted'[p].term <= current_term'[p]
    BY <1>1, <1>2, <1>3 DEF TypeOK, Persistent
  <2> QED
    BY <1>1, <1>2, <1>3, <2>1 DEF TypeOK
<1>4. CASE /\ role' = [role EXCEPT ![n] = "Leader"]
           /\ current_leader' = [current_leader EXCEPT ![n] = n]
           /\ votes_received' = [votes_received EXCEPT ![n] = 0]
           /\ elected' = elected \cup {<<n, m.term>>}
           /\ Then(n, "leader", ToPeers(n, "Heartbeat", m.term))
           /\ UNCHANGED <<current_term, voted_for>>
  <2> HIDE DEF n
  <2>1. todo' \in [Nodes -> Todo]
    BY <1>1, <1>4, TodoTypes
  <2>2. /\ role' \in [Nodes -> {"Follower", "Candidate", "Leader"}]
        /\ current_leader' \in [Nodes -> Nodes \cup {None}]
        /\ votes_received' \in [Nodes -> Nat]
    BY <1>4 DEF TypeOK
  <2>3. elected' \in SUBSET (Nodes \X Nat)
    BY <1>1, <1>4 DEF TypeOK
  <2> QED
    BY <1>2, <1>4, <2>1, <2>2, <2>3 DEF TypeOK, Todo
<1>5. CASE /\ votes_received' = [votes_received EXCEPT ![n] = votes_received[n] + 1]
           /\ UNCHANGED <<role, current_term, voted_for, current_leader, todo, elected>>
  <2> HIDE DEF n
  <2> QED
    BY <1>1, <1>2, <1>5 DEF TypeOK
<1>6. CASE UNCHANGED <<role, current_term, voted_for, votes_received, current_leader,
                       todo, elected>>
  BY <1>2, <1>6 DEF TypeOK
<1> QED
  BY <1>3, <1>4, <1>5, <1>6
     DEF HandleVoteResp, electionVars

\* Crashes and restarts keep the types.
LEMMA CrashTypes ==
  ASSUME TypeOK, NEW n \in Nodes, Crash(n) \/ Restart(n)
  PROVE  TypeOK'
<1>1. CASE Crash(n)
  <2>1. todo' \in [Nodes -> Todo]
    BY <1>1, TodoTypes, Zenon DEF Crash, TypeOK, Todo
  <2> QED
    BY <1>1, <2>1 DEF Crash, TypeOK, Todo
<1>2. CASE Restart(n)
  <2>1. persisted[n].term \in Nat /\ persisted[n].vote \in Nodes \cup {None}
    BY DEF TypeOK, Persistent
  <2>2. ConfiguredAddr(n) \in Nodes \cup {None}
    BY ElectionAssumption DEF ConfiguredAddr
  <2>3. current_term' \in [Nodes -> Nat] /\ up' \in [Nodes -> BOOLEAN]
    BY <1>2, <2>1 DEF Restart, load_state, TypeOK
  <2>4. \A p \in Nodes : up'[p] => persisted'[p].term <= current_term'[p]
    BY <1>2, <2>1 DEF Restart, load_state, TypeOK
  <2>5. /\ leader_' \in [Nodes -> BOOLEAN]
        /\ leader_addr' \in [Nodes -> Nodes \cup {None}]
    BY <1>2, <2>2 DEF Restart, TypeOK
  <2>6. /\ role' \in [Nodes -> {"Follower", "Candidate", "Leader"}]
        /\ voted_for' \in [Nodes -> Nodes \cup {None}]
        /\ current_leader' \in [Nodes -> Nodes \cup {None}]
    BY <1>2, <2>1 DEF Restart, load_state, TypeOK
  <2> QED
    BY <1>2, <2>3, <2>4, <2>5, <2>6 DEF Restart, TypeOK
<1> QED
  BY <1>1, <1>2

\* Every step keeps the types.
LEMMA NextTypes == TypeOK /\ [Next]_vars => TypeOK'
<1> SUFFICES ASSUME TypeOK, [Next]_vars
             PROVE  TypeOK'
  OBVIOUS
<1>1. ASSUME NEW n \in Nodes, SendHeartbeats(n)
      PROVE  TypeOK'
  <2>1. ToPeers(n, "Heartbeat", current_term[n]) \in SUBSET Message
    BY FrameTypes DEF TypeOK
  <2> QED
    BY <1>1, <2>1 DEF SendHeartbeats, TypeOK, electionVars, replVars
<1>2. CASE UNCHANGED vars
  BY <1>2 DEF vars, electionVars, replVars, TypeOK
<1> QED
  BY <1>1, <1>2, StartElectionTypes, CallBackTypes, HandleHeartbeatTypes,
     HandleVoteReqTypes, HandleVoteRespTypes, CrashTypes DEF Next

\* For every group and every configuration the state is well typed, and a
\* running node's term is never behind the one it persisted.
THEOREM ElectionTypes == Spec => []TypeOK
BY InitTypes, NextTypes, PTL DEF Spec

-----------------------------------------------------------------------------
(* The term on disk *)

\* For every group and every configuration, election_state.bin never goes
\* back to an earlier term, through late messages, crashes and restarts.
THEOREM TermsGrow == Spec => PersistedTermGrows
<1> DEFINE Grows == \A n \in Nodes : persisted'[n].term >= persisted[n].term
<1>1. ASSUME TypeOK, [Next]_vars
      PROVE  Grows
  <2>1. (persisted' = persisted) => Grows
    BY <1>1 DEF TypeOK, Persistent
  <2>2. ASSUME NEW n \in Nodes, NEW term \in Nat, NEW vote \in Nodes \cup {None},
               up[n], term >= current_term[n], persist_state(n, term, vote)
        PROVE  Grows
    BY <1>1, <2>2 DEF TypeOK, Persistent, persist_state
  <2> HIDE DEF Grows
  <2>3. ASSUME NEW n \in Nodes, StartElection(n)
        PROVE  Grows
    <3>1. /\ up[n]
          /\ persist_state(n, current_term[n] + 1, n)
          /\ current_term[n] + 1 \in Nat /\ current_term[n] + 1 >= current_term[n]
      BY <1>1, <2>3 DEF StartElection, TypeOK, Waits
    <3> QED
      BY <3>1, <2>2
  <2>4. ASSUME NEW m \in msgs, HandleHeartbeat(m)
        PROVE  Grows
    <3>1. m.to \in Nodes /\ m.term \in Nat /\ up[m.to]
      BY <1>1, <2>4 DEF TypeOK, Message, HandleHeartbeat, Deliver, Waits
    <3>2. \/ persisted' = persisted
          \/ m.term >= current_term[m.to] /\ persist_state(m.to, m.term, None)
      BY <2>4 DEF HandleHeartbeat
    <3> QED
      BY <3>1, <3>2, <2>1, <2>2
  <2>5. ASSUME NEW m \in msgs, HandleVoteReq(m)
        PROVE  Grows
    <3> DEFINE n == m.to
               term == IF m.term > current_term[n] THEN m.term ELSE current_term[n]
    <3>1. /\ n \in Nodes /\ m.from \in Nodes /\ up[n]
          /\ term \in Nat /\ term >= current_term[n]
      BY <1>1, <2>5 DEF TypeOK, Message, HandleVoteReq, Waits
    <3>2. \/ persisted' = persisted
          \/ persist_state(n, term, m.from)
      BY <2>5 DEF HandleVoteReq
    <3> HIDE DEF n, term
    <3> QED
      BY <3>1, <3>2, <2>1, <2>2
  <2>6. ASSUME \/ UNCHANGED vars
               \/ \E n \in Nodes : SendHeartbeats(n) \/ CallBack(n) \/ Crash(n) \/ Restart(n)
               \/ \E m \in msgs : HandleVoteResp(m)
        PROVE  persisted' = persisted
    BY <2>6 DEF vars, SendHeartbeats, CallBack, Crash, Restart, HandleVoteResp
  <2> QED
    BY <1>1, <2>1, <2>3, <2>4, <2>5, <2>6 DEF Next
<1> QED
  BY <1>1, ElectionTypes, PTL DEF Spec, PersistedTermGrows

-----------------------------------------------------------------------------
(* The role of the replication manager *)

\* What a step puts in flight or leaves to send is no answer to a vote request.
LEMMA NextSilent ==
  ASSUME VoteReplies = FALSE, TypeOK, NoReplies, [Next]_vars
  PROVE  NoReplies'
<1>1. /\ \A n, type, term : \A m \in ToPeers(n, type, term) : m.type = type
      /\ \A m, term, grant : VoteReply(m, term, grant) = {}
  BY DEF ToPeers, VoteReply
<1>2. /\ msgs' \subseteq msgs => \A m \in msgs' : m.type # "VoteResp"
      /\ todo' = todo => \A n \in Nodes : \A m \in todo'[n].send : m.type # "VoteResp"
  BY Zenon DEF NoReplies
<1>3. ASSUME NEW n \in Nodes, NEW call, NEW send, \A m \in send : m.type # "VoteResp",
             Then(n, call, send)
      PROVE  \A p \in Nodes : \A m \in todo'[p].send : m.type # "VoteResp"
  BY <1>3 DEF NoReplies, TypeOK, Then
<1>12. ASSUME NEW n \in Nodes, todo' = [todo EXCEPT ![n] = Nothing]
       PROVE  \A p \in Nodes : \A m \in todo'[p].send : m.type # "VoteResp"
  BY <1>12 DEF NoReplies, TypeOK, Nothing
<1>4. ASSUME NEW n \in Nodes, SendHeartbeats(n)
      PROVE  NoReplies'
  BY <1>1, <1>4 DEF SendHeartbeats, NoReplies
<1>5. ASSUME NEW n \in Nodes, StartElection(n)
      PROVE  NoReplies'
  <2>1. \A m \in msgs' : m.type # "VoteResp"
    BY <1>1, <1>5 DEF StartElection, NoReplies
  <2>2. \/ Then(n, "leader", ToPeers(n, "Heartbeat", current_term[n] + 1))
        \/ todo' = todo
    BY <1>5 DEF StartElection
  <2>3. \A p \in Nodes : \A m \in todo'[p].send : m.type # "VoteResp"
    BY <1>1, <1>2, <1>3, <2>2
  <2> QED
    BY <2>1, <2>3 DEF NoReplies
<1>6. ASSUME NEW n \in Nodes, CallBack(n)
      PROVE  NoReplies'
  <2>1. \A m \in msgs' : m.type # "VoteResp"
    BY <1>6 DEF CallBack, NoReplies
  <2>2. \A p \in Nodes : \A m \in todo'[p].send : m.type # "VoteResp"
    BY <1>6, <1>12 DEF CallBack
  <2> QED
    BY <2>1, <2>2 DEF NoReplies
<1>7. ASSUME NEW m \in msgs, HandleHeartbeat(m)
      PROVE  NoReplies'
  <2>1. m.to \in Nodes
    BY DEF TypeOK, Message
  <2>2. msgs' \subseteq msgs /\ (Then(m.to, "follower", {}) \/ todo' = todo)
    BY <1>7 DEF HandleHeartbeat, Deliver
  <2> QED
    BY <1>2, <1>3, <2>1, <2>2 DEF NoReplies
<1>8. ASSUME NEW m \in msgs, HandleVoteReq(m)
      PROVE  NoReplies'
  <2>1. m.to \in Nodes
    BY DEF TypeOK, Message
  <2>2. msgs' \subseteq msgs /\ (Then(m.to, "follower", {}) \/ todo' = todo)
    BY <1>1, <1>8 DEF HandleVoteReq
  <2> QED
    BY <1>2, <1>3, <2>1, <2>2 DEF NoReplies
<1>9. ASSUME NEW m \in msgs, HandleVoteResp(m)
      PROVE  FALSE
  BY <1>9 DEF HandleVoteResp, Deliver, NoReplies
<1>10. ASSUME NEW n \in Nodes, Crash(n) \/ Restart(n)
       PROVE  NoReplies'
  <2>1. msgs' = msgs /\ (todo' = todo \/ todo' = [todo EXCEPT ![n] = Nothing])
    BY <1>10 DEF Crash, Restart
  <2>2. \A p \in Nodes : \A m \in todo'[p].send : m.type # "VoteResp"
    BY <1>2, <1>12, <2>1
  <2> QED
    BY <2>1, <2>2 DEF NoReplies
<1>11. CASE UNCHANGED vars
  BY <1>11 DEF vars, NoReplies
<1> QED
  BY <1>4, <1>5, <1>6, <1>7, <1>8, <1>9, <1>10, <1>11 DEF Next

\* A step on the server's transport keeps the two roles together.
LEMMA NextRoles ==
  ASSUME VoteReplies = FALSE, RoleInv, [Next]_vars
  PROVE  RoleInv'
<1> DEFINE Agree == CalledForRole' /\ WritesFollowRole'
<1>0. TypeOK /\ TypeOK' /\ NoReplies'
  BY NextTypes, NextSilent DEF RoleInv
<1>1. ASSUME NEW n \in Nodes, SendHeartbeats(n)
      PROVE  Agree
  BY <1>1 DEF SendHeartbeats, RoleInv, CalledForRole, WritesFollowRole, Waits,
              electionVars, replVars
<1>2. ASSUME NEW n \in Nodes, UNCHANGED <<up, leader_>>, up[n], todo[n].call = "none",
             \/ /\ role' = [role EXCEPT ![n] = "Leader"]
                /\ \E send : Then(n, "leader", send)
             \/ /\ role' = [role EXCEPT ![n] = "Follower"]
                /\ \E send : Then(n, "follower", send)
             \/ role[n] # "Leader" /\ UNCHANGED todo
                /\ \E r \in {"Follower", "Candidate"} : role' = [role EXCEPT ![n] = r]
             \/ UNCHANGED <<role, todo>>
      PROVE  Agree
  <2>1. role \in [Nodes -> {"Follower", "Candidate", "Leader"}] /\ DOMAIN todo = Nodes
    BY <1>0 DEF TypeOK
  <2>2. \A p \in Nodes \ {n} : role'[p] = role[p] /\ todo'[p] = todo[p]
    BY <1>2, <2>1 DEF Then
  <2>3. \/ role'[n] = "Leader" /\ todo'[n].call = "leader"
        \/ role'[n] # "Leader" /\ todo'[n].call = "follower"
        \/ role'[n] # "Leader" /\ role[n] # "Leader" /\ todo'[n] = todo[n]
        \/ role'[n] = role[n] /\ todo'[n] = todo[n]
    BY <1>2, <2>1 DEF Then
  <2> QED
    BY <1>2, <2>2, <2>3 DEF RoleInv, CalledForRole, WritesFollowRole, Waits
<1>3. ASSUME NEW n \in Nodes, StartElection(n)
      PROVE  Agree
  BY <1>2, <1>3 DEF StartElection, replVars, Waits
<1>4. ASSUME NEW n \in Nodes, CallBack(n)
      PROVE  Agree
  BY <1>0, <1>4 DEF CallBack, on_became_leader, on_became_follower, electionVars, replVars,
                    Nothing, RoleInv, CalledForRole, WritesFollowRole, Waits, TypeOK
<1>5. ASSUME NEW m \in msgs, HandleHeartbeat(m)
      PROVE  Agree
  <2>1. m.to \in Nodes /\ up[m.to] /\ todo[m.to].call = "none" /\ UNCHANGED <<up, leader_>>
    BY <1>0, <1>5 DEF TypeOK, Message, HandleHeartbeat, Deliver, Waits, replVars
  <2>2. \/ UNCHANGED <<role, todo>>
        \/ /\ role' = [role EXCEPT ![m.to] = "Follower"]
           /\ IF role[m.to] # "Follower" THEN Then(m.to, "follower", {}) ELSE UNCHANGED todo
    BY <1>5 DEF HandleHeartbeat, electionVars
  <2> QED
    BY <1>2, <2>1, <2>2
<1>6. ASSUME NEW m \in msgs, HandleVoteReq(m)
      PROVE  Agree
  <2>1. m.to \in Nodes /\ up[m.to] /\ todo[m.to].call = "none" /\ UNCHANGED <<up, leader_>>
    BY <1>0, <1>6 DEF TypeOK, Message, HandleVoteReq, Waits, replVars
  <2>2. \/ UNCHANGED <<role, todo>>
        \/ /\ role' = [role EXCEPT ![m.to] = "Follower"]
           /\ \/ \E send : Then(m.to, "follower", send)
              \/ role[m.to] = "Follower" /\ UNCHANGED todo
    BY <1>6 DEF HandleVoteReq
  <2> QED
    BY <1>2, <2>1, <2>2
<1>7. ASSUME NEW m \in msgs, HandleVoteResp(m)
      PROVE  FALSE
  BY <1>7 DEF HandleVoteResp, Deliver, RoleInv, NoReplies
<1>8. ASSUME NEW n \in Nodes, Crash(n)
      PROVE  Agree
  BY <1>0, <1>8 DEF Crash, Nothing, RoleInv, CalledForRole, WritesFollowRole, Waits, TypeOK
<1>9. ASSUME NEW n \in Nodes, Restart(n)
      PROVE  Agree
  BY <1>0, <1>9 DEF Restart, RoleInv, CalledForRole, WritesFollowRole, Waits, TypeOK
<1>10. ASSUME UNCHANGED vars
       PROVE  Agree
  BY <1>10 DEF vars, electionVars, replVars, RoleInv, CalledForRole, WritesFollowRole, Waits
<1> HIDE DEF Agree
<1>11. Agree
  BY <1>1, <1>3, <1>4, <1>5, <1>6, <1>7, <1>8, <1>9, <1>10 DEF Next
<1> QED
  BY <1>0, <1>11 DEF RoleInv, Agree

\* On the server's transport, for every group and every configuration, a node
\* accepts writes exactly while its election thread is in the leader role,
\* but for the time between a change of the role and the manager's callback.
THEOREM RolesAgree ==
  ASSUME VoteReplies = FALSE
  PROVE  Spec => []WritesFollowRole
<1>1. Init => RoleInv
  <2> SUFFICES ASSUME Init
               PROVE  RoleInv
    OBVIOUS
  <2>1. \A n \in Nodes : leader_[n] <=> n = BootLeader
    BY Zenon DEF Init
  <2>2. \A n \in Nodes : role[n] = "Leader" <=> n = BootLeader
    BY DEF Init
  <2>3. \A n \in Nodes : todo[n].call = "none" /\ todo[n].send = {}
    BY DEF Init, Nothing
  <2>4. msgs = {}
    BY DEF Init
  <2> QED
    BY <2>1, <2>2, <2>3, <2>4, InitTypes DEF RoleInv, NoReplies, CalledForRole,
                                             WritesFollowRole
<1>2. RoleInv /\ [Next]_vars => RoleInv'
  BY NextRoles
<1>3. RoleInv => WritesFollowRole
  BY DEF RoleInv
<1> QED
  BY <1>1, <1>2, <1>3, PTL DEF Spec

-----------------------------------------------------------------------------
(* Who can be in office *)

\* A step of a group whose quorum is more than one node elects nobody.
LEMMA NextOffice ==
  ASSUME VoteReplies = FALSE, ~ Wins(1), OfficeInv, [Next]_vars
  PROVE  OfficeInv'
<1>0. TypeOK /\ TypeOK' /\ NoReplies' /\ NoReplies
  BY NextTypes, NextSilent DEF OfficeInv
<1>1. ASSUME NEW n \in Nodes, UNCHANGED <<elected, leader_>>,
             \/ UNCHANGED role
             \/ \E r \in {"Follower", "Candidate"} : role' = [role EXCEPT ![n] = r],
             UNCHANGED todo \/ \E send : Then(n, "follower", send)
      PROVE  OnlyConfiguredLeads'
  <2>1. role \in [Nodes -> {"Follower", "Candidate", "Leader"}] /\ DOMAIN todo = Nodes
    BY <1>0 DEF TypeOK
  <2>2. \A p \in Nodes : role'[p] = "Leader" => role[p] = "Leader"
    BY <1>1, <2>1
  <2>3. \A p \in Nodes : todo'[p].call = "leader" => todo[p].call = "leader"
    BY <1>1, <2>1 DEF Then
  <2> QED
    BY <1>1, <2>2, <2>3 DEF OfficeInv, OnlyConfiguredLeads
<1>2. ASSUME NEW n \in Nodes, SendHeartbeats(n)
      PROVE  OnlyConfiguredLeads'
  BY <1>1, <1>2 DEF SendHeartbeats, electionVars, replVars
<1>3. ASSUME NEW n \in Nodes, StartElection(n)
      PROVE  OnlyConfiguredLeads'
  BY <1>1, <1>3 DEF StartElection, replVars
<1>4. ASSUME NEW n \in Nodes, CallBack(n)
      PROVE  OnlyConfiguredLeads'
  <2>1. DOMAIN todo = Nodes /\ DOMAIN leader_ = Nodes
    BY <1>0 DEF TypeOK
  <2>2. UNCHANGED <<role, elected>> /\ todo' = [todo EXCEPT ![n] = Nothing]
    BY <1>4 DEF CallBack, electionVars
  <2>3. \A p \in Nodes : todo'[p].call = "leader" => todo[p].call = "leader"
    BY <2>1, <2>2 DEF Nothing
  <2>4. \A p \in Nodes : leader_'[p] => leader_[p] \/ todo[p].call = "leader"
    BY <1>4, <2>1 DEF CallBack, on_became_leader, on_became_follower, replVars
  <2> QED
    BY <2>2, <2>3, <2>4 DEF OfficeInv, OnlyConfiguredLeads
<1>5. ASSUME NEW m \in msgs, HandleHeartbeat(m)
      PROVE  OnlyConfiguredLeads'
  <2>1. m.to \in Nodes
    BY <1>0 DEF TypeOK, Message
  <2> QED
    BY <1>1, <1>5, <2>1 DEF HandleHeartbeat, electionVars, replVars
<1>6. ASSUME NEW m \in msgs, HandleVoteReq(m)
      PROVE  OnlyConfiguredLeads'
  <2>1. m.to \in Nodes
    BY <1>0 DEF TypeOK, Message
  <2> QED
    BY <1>1, <1>6, <2>1 DEF HandleVoteReq, replVars
<1>7. ASSUME NEW m \in msgs, HandleVoteResp(m)
      PROVE  FALSE
  BY <1>0, <1>7 DEF HandleVoteResp, Deliver, NoReplies
<1>8. ASSUME NEW n \in Nodes, Crash(n) \/ Restart(n)
      PROVE  OnlyConfiguredLeads'
  <2>0. DOMAIN todo = Nodes /\ DOMAIN leader_ = Nodes /\ DOMAIN role = Nodes
    BY <1>0 DEF TypeOK
  <2>1. UNCHANGED elected
    BY <1>8 DEF Crash, Restart
  <2>2. \A p \in Nodes : role'[p] = "Leader" => role[p] = "Leader" \/ p = BootLeader
    BY <1>8, <2>0 DEF Crash, Restart
  <2>3. \A p \in Nodes : todo'[p].call = "leader" => todo[p].call = "leader"
    <3>1. todo' = [todo EXCEPT ![n] = Nothing] \/ UNCHANGED todo
      BY <1>8 DEF Crash, Restart
    <3> QED
      BY <2>0, <3>1 DEF Nothing
  <2>4. \A p \in Nodes : leader_'[p] => leader_[p] \/ p = BootLeader
    <3>1. \/ leader_' = [leader_ EXCEPT ![n] = FALSE]
          \/ leader_' = [leader_ EXCEPT ![n] = (n = BootLeader)]
      BY <1>8 DEF Crash, Restart
    <3> QED
      BY <2>0, <3>1
  <2> QED
    BY <2>1, <2>2, <2>3, <2>4 DEF OfficeInv, OnlyConfiguredLeads
<1>9. ASSUME UNCHANGED vars
      PROVE  OnlyConfiguredLeads'
  BY <1>9 DEF vars, electionVars, replVars, OfficeInv, OnlyConfiguredLeads
<1>10. OnlyConfiguredLeads'
  BY <1>2, <1>3, <1>4, <1>5, <1>6, <1>7, <1>8, <1>9 DEF Next
<1> QED
  BY <1>0, <1>10 DEF OfficeInv

\* On the server's transport, in every group whose quorum is more than one node
\* (three nodes or more), through every time-out, crash, restart and late message:
\* no election is ever won, and no node but the configured leader ever accepts
\* writes.  Two nodes of such a group never do so at once, and none takes over.
THEOREM OnlyTheConfiguredLeader ==
  ASSUME VoteReplies = FALSE, ~ Wins(1)
  PROVE  Spec => []OnlyConfiguredLeads
<1>1. Init => OfficeInv
  <2> SUFFICES ASSUME Init
               PROVE  OfficeInv
    OBVIOUS
  <2>1. \A n \in Nodes : leader_[n] <=> n = BootLeader
    BY Zenon DEF Init
  <2>2. \A n \in Nodes : role[n] = "Leader" <=> n = BootLeader
    BY DEF Init
  <2>3. \A n \in Nodes : todo[n].call = "none" /\ todo[n].send = {}
    BY DEF Init, Nothing
  <2>4. msgs = {} /\ elected = {}
    BY DEF Init
  <2> QED
    BY <2>1, <2>2, <2>3, <2>4, InitTypes DEF OfficeInv, NoReplies, OnlyConfiguredLeads
<1>2. OfficeInv /\ [Next]_vars => OfficeInv'
  BY NextOffice
<1>3. OfficeInv => OnlyConfiguredLeads
  BY DEF OfficeInv
<1> QED
  BY <1>1, <1>2, <1>3, PTL DEF Spec

=============================================================================
