------------------------- MODULE ElectionInvariant --------------------------
(***************************************************************************)
(* The invariants behind the theorems about Election on the transport the  *)
(* server has, where no answer to a vote request is delivered.             *)
(***************************************************************************)
EXTENDS Election

\* No answer to a vote request is in flight or about to be sent, so
\* handle_vote_resp_, the one place that changes role_ without telling the
\* manager, is never reached.
NoReplies ==
  /\ \A m \in msgs : m.type # "VoteResp"
  /\ \A n \in Nodes : \A m \in todo[n].send : m.type # "VoteResp"

\* A callback on its way is the one of the role the node is in, and dies with
\* the process.
CalledForRole ==
  \A n \in Nodes :
    /\ todo[n].call = "leader" => role[n] = "Leader"
    /\ todo[n].call = "follower" => role[n] # "Leader"
    /\ ~ up[n] => todo[n].call = "none"

RoleInv == TypeOK /\ NoReplies /\ CalledForRole /\ WritesFollowRole

\* Nobody has won an election; only the configured leader is in the leader role,
\* is called back to take office, or accepts writes.
OnlyConfiguredLeads ==
  /\ elected = {}
  /\ \A n \in Nodes :
       role[n] = "Leader" \/ todo[n].call = "leader" \/ leader_[n] => n = BootLeader

OfficeInv == TypeOK /\ NoReplies /\ OnlyConfiguredLeads
=============================================================================
