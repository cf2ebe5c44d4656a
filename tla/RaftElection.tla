---------------------------- MODULE RaftElection ----------------------------
(***************************************************************************)
(* Leader election of the relay coordinators, labs/24-raft-election.       *)
(*                                                                         *)
(* A DeterministicRaftCluster runs one call at a time: trigger_timeout,    *)
(* send_heartbeat, restart_node, set_partition and heal each run to their  *)
(* end before the next begins, so each is one action here.  What remains   *)
(* open is the order of the calls, which a caller chooses freely.          *)
(*                                                                         *)
(* Nodes are numbered in the sorted order of their names, because          *)
(* reachable_from sorts and trigger_timeout asks its peers in that order.  *)
(* Every node of this lab keeps the default LogPosition, so the            *)
(* up_to_date test always holds; ReplicatedLog has nodes whose logs        *)
(* differ.                                                                 *)
(***************************************************************************)
EXTENDS Integers, FiniteSets, FiniteSetsExt

CONSTANTS
    N,        \* number of nodes
    MaxTerm   \* bound: no election starts beyond this term

ASSUME NAssumption == N \in Nat /\ N >= 3
ASSUME MaxTermAssumption == MaxTerm \in Nat

Node == 1..N
Term == 0..MaxTerm
Nil  == 0                    \* no vote, no known leader
Role == {"follower", "candidate", "leader"}

VARIABLES
    currentTerm,    \* persistent_state.current_term of each node
    votedFor,       \* persistent_state.voted_for
    role,           \* role, lost by a restart
    leaderId,       \* leader_id, lost by a restart
    partition,      \* the cluster's PartitionMap: a set of disjoint groups
    leaderByTerm    \* the cluster's _leader_by_term

persistent == <<currentTerm, votedFor>>
vars == <<currentTerm, votedFor, role, leaderId, partition, leaderByTerm>>

-----------------------------------------------------------------------------

(***************************************************************************)
(* The operators below whose names begin with Bug are deliberate mistakes, *)
(* each a variant of the definition that follows it; nothing refers to     *)
(* them.  Substituted for that definition, each must break the property    *)
(* the README lists beside it.                                             *)
(***************************************************************************)

\* The maps from_groups accepts: no empty group, no overlap, every node placed.
Partitions ==
    {P \in SUBSET ((SUBSET Node) \ {{}}) :
        /\ UNION P = Node
        /\ \A g, h \in P : g # h => g \cap h = {}}

BugHealedDropsGroups == {}
Healed == {Node}

\* reachable_from without the node itself.
Peers(n) == (UNION {g \in partition : n \in g}) \ {n}

BugMajorityOffByOne == N \div 2
Majority == (N \div 2) + 1

Init ==
    /\ currentTerm = [n \in Node |-> 0]
    /\ votedFor = [n \in Node |-> Nil]
    /\ role = [n \in Node |-> "follower"]
    /\ leaderId = [n \in Node |-> Nil]
    /\ partition = Healed
    /\ leaderByTerm = [t \in Term |-> Nil]

-----------------------------------------------------------------------------

\* Peers that know a later term than the request: their reply makes the
\* candidate observe that term and stops the poll.
Ahead(n, t) == {p \in Peers(n) : currentTerm[p] > t}

\* Peers whose receive_vote_request handles the request at term t, in name
\* order up to the first peer that is ahead.
Polled(n, t) ==
    {p \in Peers(n) : currentTerm[p] <= t /\ \A a \in Ahead(n, t) : p < a}

\* can_vote: a lower term clears the voter's earlier vote first.
BugKeepsOldVote(p, n, t) == votedFor[p] \in {Nil, n}
WouldGrant(p, n, t) == currentTerm[p] < t \/ votedFor[p] \in {Nil, n}

Granted(n, t) == {n} \cup {p \in Polled(n, t) : WouldGrant(p, n, t)}

\* The term of the first peer that is ahead, if the poll met one.
TermAfterPoll(n, t) ==
    IF Ahead(n, t) = {} THEN t ELSE currentTerm[Min(Ahead(n, t))]

\* The majority is counted after the loop, also when the loop was left because
\* the candidate had just stepped down.
Elected(n, t) == Cardinality(Granted(n, t)) >= Majority

\* _record_leader keeps an earlier leader of the term and raises
\* LeadershipConflict; the node has become leader by then.
RecordLeader(n, t) ==
    leaderByTerm' =
        IF leaderByTerm[t] = Nil THEN [leaderByTerm EXCEPT ![t] = n]
                                 ELSE leaderByTerm

\* trigger_timeout: start_election, the poll of the reachable peers, and
\* become_leader when enough votes came in.
TriggerTimeout(n) ==
    LET t == currentTerm[n] + 1
        after == TermAfterPoll(n, t)
        steppedDown == Ahead(n, t) # {}
        yes == Granted(n, t) \ {n}
        polled == Polled(n, t)
    IN  /\ t \in Term
        /\ currentTerm' = [m \in Node |->
              IF m = n THEN after ELSE IF m \in polled THEN t ELSE currentTerm[m]]
        /\ votedFor' = [m \in Node |->
              IF m = n THEN IF steppedDown THEN Nil ELSE n
              ELSE IF m \in yes THEN n
              ELSE IF m \in polled /\ currentTerm[m] < t THEN Nil
              ELSE votedFor[m]]
        /\ role' = [m \in Node |->
              IF m = n THEN IF Elected(n, t) THEN "leader"
                            ELSE IF steppedDown THEN "follower" ELSE "candidate"
              ELSE IF m \in yes \/ (m \in polled /\ currentTerm[m] < t) THEN "follower"
              ELSE role[m]]
        /\ leaderId' = [m \in Node |->
              IF m = n THEN IF Elected(n, t) THEN n ELSE Nil
              ELSE IF m \in yes \/ (m \in polled /\ currentTerm[m] < t) THEN Nil
              ELSE leaderId[m]]
        /\ IF Elected(n, t) THEN RecordLeader(n, after) ELSE UNCHANGED leaderByTerm
        /\ UNCHANGED partition

\* send_heartbeat: every reachable peer gets the heartbeat of the term the
\* leader had at the start, also those after the one that made it step down.
SendHeartbeat(n) ==
    LET t == currentTerm[n]
        accepting == Peers(n) \ Ahead(n, t)
        steppedDown == Ahead(n, t) # {}
    IN  /\ role[n] = "leader"
        /\ currentTerm' = [m \in Node |->
              IF m = n THEN IF steppedDown THEN Max({currentTerm[a] : a \in Ahead(n, t)}) ELSE t
              ELSE IF m \in accepting THEN t ELSE currentTerm[m]]
        /\ votedFor' = [m \in Node |->
              IF \/ m = n /\ steppedDown
                 \/ m \in accepting /\ currentTerm[m] < t
              THEN Nil ELSE votedFor[m]]
        /\ role' = [m \in Node |->
              IF m \in accepting \/ (m = n /\ steppedDown) THEN "follower" ELSE role[m]]
        /\ leaderId' = [m \in Node |->
              IF m \in accepting THEN n
              ELSE IF m = n /\ steppedDown THEN Nil ELSE leaderId[m]]
        /\ UNCHANGED <<partition, leaderByTerm>>

\* restart_node: the PersistentVoteState survives, the rest does not.
BugRestartForgetsVote(n) ==
    /\ role' = [role EXCEPT ![n] = "follower"]
    /\ leaderId' = [leaderId EXCEPT ![n] = Nil]
    /\ votedFor' = [votedFor EXCEPT ![n] = Nil]
    /\ UNCHANGED <<currentTerm, partition, leaderByTerm>>
RestartNode(n) ==
    /\ role' = [role EXCEPT ![n] = "follower"]
    /\ leaderId' = [leaderId EXCEPT ![n] = Nil]
    /\ UNCHANGED <<persistent, partition, leaderByTerm>>

\* set_partition and heal.
SetPartition(P) ==
    /\ partition' = P
    /\ UNCHANGED <<persistent, role, leaderId, leaderByTerm>>

Heal == SetPartition(Healed)

Next ==
    \/ \E n \in Node : TriggerTimeout(n)
    \/ \E n \in Node : SendHeartbeat(n)
    \/ \E n \in Node : RestartNode(n)
    \/ \E P \in Partitions : SetPartition(P)
    \/ Heal

Spec == Init /\ [][Next]_vars

-----------------------------------------------------------------------------

\* Every variable keeps its type.
TypeOK ==
    /\ currentTerm \in [Node -> Term]
    /\ votedFor \in [Node -> Node \cup {Nil}]
    /\ role \in [Node -> Role]
    /\ leaderId \in [Node -> Node \cup {Nil}]
    /\ partition \in Partitions
    /\ leaderByTerm \in [Term -> Node \cup {Nil}]

\* Node q can no longer help another candidate in term t: it voted for n in
\* that term or has left the term behind.
Pledged(q, n, t) ==
    currentTerm[q] > t \/ (currentTerm[q] = t /\ votedFor[q] = n)

\* A leader that still holds its own vote was elected in the term it is in;
\* the majority that elected it cannot elect anybody else in that term.  This
\* is what makes a term have one leader, across restarts, partitions and later
\* elections (trigger_timeout, receive_vote_request).
LeaderKeepsMajority ==
    \A n \in Node : role[n] = "leader" /\ votedFor[n] = n =>
        Cardinality({q \in Node : Pledged(q, n, currentTerm[n])}) >= Majority

\* Two leaders that both hold their own vote are never in the same term.
VotedLeaderUnique ==
    \A m, n \in Node :
        /\ role[m] = "leader" /\ votedFor[m] = m
        /\ role[n] = "leader" /\ votedFor[n] = n
        /\ currentTerm[m] = currentTerm[n]
        => m = n

\* One vote per term, also across restart_node: a node that stays in its term
\* keeps the vote it gave, and no node goes back to an earlier term.
VoteOncePerTerm ==
    [][\A n \in Node :
          /\ currentTerm'[n] >= currentTerm[n]
          /\ currentTerm'[n] = currentTerm[n] /\ votedFor[n] # Nil
             => votedFor'[n] = votedFor[n]]_vars

\* After a split vote one more timeout settles the election: when every node
\* is reachable and none is in a later term, a node that starts an election (it
\* enters the next term with its own vote) comes out of it as the leader of
\* that term and nobody else is.
HealedTimeoutElects ==
    [][\A n \in Node :
          /\ partition = Healed
          /\ \A p \in Node : currentTerm[p] <= currentTerm[n]
          /\ currentTerm'[n] = currentTerm[n] + 1
          /\ votedFor'[n] = n
          => /\ role'[n] = "leader"
             /\ \A p \in Node : role'[p] = "leader" => p = n]_vars

=============================================================================
