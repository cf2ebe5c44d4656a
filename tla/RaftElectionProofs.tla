------------------------- MODULE RaftElectionProofs -------------------------
(***************************************************************************)
(* Proofs about RaftElection, for every number of nodes and every bound on *)
(* the terms.                                                              *)
(***************************************************************************)
EXTENDS RaftElection, FiniteSetTheorems, WellFoundedInduction, TLAPS

\* A nonempty set of naturals has the minimum Min chooses.
LEMMA MinOfNat ==
    ASSUME NEW S \in SUBSET Nat, S # {}
    PROVE  Min(S) \in S /\ \A x \in S : Min(S) <= x
<1>1. PICK x \in S : \A y \in S : ~ (<<y, x>> \in OpToRel(<, Nat))
  BY NatLessThanWellFounded, WFMin
<1>2. ASSUME NEW y \in S, y < x PROVE FALSE
  <2>1. <<y, x>> \in Nat \X Nat /\ <<y, x>>[1] < <<y, x>>[2]
    BY <1>2
  <2>2. <<y, x>> \in OpToRel(<, Nat)
    BY <2>1 DEF OpToRel
  <2>3. QED
    BY <1>1, <2>2
<1>3. \A y \in S : x <= y
  BY <1>2
<1>4. QED
  BY <1>3 DEF Min

\* A nonempty set of naturals with a bound has the maximum Max chooses.
LEMMA MaxOfNat ==
    ASSUME NEW b \in Nat, NEW S \in SUBSET (0..b), S # {}
    PROVE  Max(S) \in S /\ \A x \in S : Max(S) >= x
<1> DEFINE T == {b - x : x \in S}
<1>1. T \in SUBSET Nat /\ T # {}
  <2>1. \A x \in S : b - x \in Nat
    OBVIOUS
  <2>2. PICK x \in S : TRUE
    OBVIOUS
  <2>3. b - x \in T
    OBVIOUS
  <2>4. QED
    BY <2>1, <2>3
<1>2. PICK x \in S : \A y \in S : b - x <= b - y
  <2>1. Min(T) \in T /\ \A t \in T : Min(T) <= t
    BY <1>1, MinOfNat
  <2>2. QED
    BY <2>1
<1>3. \A y \in S : x >= y
  BY <1>2
<1>4. QED
  BY <1>3 DEF Max

\* Facts about the parameters: node 0 is nobody, and two majorities overlap.
LEMMA NodeFacts ==
    /\ IsFiniteSet(Node) /\ Cardinality(Node) = N
    /\ Nil \notin Node
    /\ Majority \in Nat /\ 2 * Majority > N /\ Majority <= N
<1>1. IsFiniteSet(Node) /\ Cardinality(Node) = N
  BY FS_Interval, NAssumption DEF Node
<1>2. QED
  BY <1>1, NAssumption DEF Node, Nil, Majority

LEMMA MajoritiesMeet ==
    ASSUME NEW Q \in SUBSET Node, NEW R \in SUBSET Node,
           Cardinality(Q) >= Majority, Cardinality(R) >= Majority
    PROVE  Q \cap R # {}
<1>1. Cardinality(Q) \in Nat /\ Cardinality(R) \in Nat
  BY NodeFacts, FS_Subset, FS_CardinalityType
<1>2. Cardinality(Q) + Cardinality(R) > Cardinality(Node)
  BY <1>1, NodeFacts, NAssumption
<1>3. QED
  BY <1>2, NodeFacts, FS_MajoritiesIntersect

\* A superset of a majority is a majority.
LEMMA MajorityGrows ==
    ASSUME NEW Q \in SUBSET Node, NEW R \in SUBSET Node, Q \subseteq R,
           Cardinality(Q) >= Majority
    PROVE  Cardinality(R) >= Majority
<1>1. IsFiniteSet(R) /\ IsFiniteSet(Q)
  BY NodeFacts, FS_Subset
<1>2. Cardinality(Q) <= Cardinality(R)
  BY <1>1, FS_Subset
<1>3. QED
  BY <1>1, <1>2, NodeFacts, FS_CardinalityType

\* The poll leaves a candidate at the term it asked for or, when it stepped
\* down, at a later one.
LEMMA PollTerm ==
    ASSUME TypeOK, NEW n \in Node, currentTerm[n] + 1 \in Term
    PROVE  LET t == currentTerm[n] + 1 IN
           /\ TermAfterPoll(n, t) \in Term
           /\ Ahead(n, t) = {} => TermAfterPoll(n, t) = t
           /\ Ahead(n, t) # {} => TermAfterPoll(n, t) > t
<1> DEFINE t == currentTerm[n] + 1
<1>1. Ahead(n, t) \in SUBSET Node
  BY DEF Ahead, Peers, TypeOK, Partitions
<1>2. CASE Ahead(n, t) = {}
  BY <1>2 DEF TermAfterPoll
<1>3. CASE Ahead(n, t) # {}
  <2>1. Min(Ahead(n, t)) \in Ahead(n, t)
    BY <1>1, <1>3, MinOfNat, NAssumption DEF Node
  <2>2. QED
    BY <2>1, <1>1, <1>3 DEF TermAfterPoll, Ahead, TypeOK
<1>4. QED
  BY <1>2, <1>3

\* A leader that meets later terms takes one of them.
LEMMA HeartbeatTerm ==
    ASSUME TypeOK, NEW n \in Node, Ahead(n, currentTerm[n]) # {}
    PROVE  LET after == Max({currentTerm[a] : a \in Ahead(n, currentTerm[n])}) IN
           after \in Term /\ after > currentTerm[n]
<1> DEFINE A == Ahead(n, currentTerm[n])
           S == {currentTerm[a] : a \in A}
<1>1. A \in SUBSET Node
  BY DEF Ahead, Peers, TypeOK, Partitions
<1>2. S \in SUBSET (0..MaxTerm) /\ S # {}
  BY <1>1 DEF TypeOK, Term
<1>3. Max(S) \in S
  BY <1>2, MaxOfNat, MaxTermAssumption
<1>4. QED
  BY ZenonT(60), <1>3, <1>1 DEF Ahead, TypeOK, Term

-----------------------------------------------------------------------------

\* The state has the types of the fields of the code after every call.
THEOREM TypeCorrect == Spec => []TypeOK
<1>1. Init => TypeOK
  <2>1. Healed \in Partitions
    BY NAssumption DEF Healed, Partitions, Node
  <2>2. QED
    BY <2>1, MaxTermAssumption DEF Init, TypeOK, Term, Role
<1>2. TypeOK /\ [Next]_vars => TypeOK'
  <2> SUFFICES ASSUME TypeOK, [Next]_vars PROVE TypeOK'
    OBVIOUS
  <2>1. ASSUME NEW n \in Node, TriggerTimeout(n) PROVE TypeOK'
    <3> DEFINE t == currentTerm[n] + 1
    <3>1. t \in Term /\ TermAfterPoll(n, t) \in Term
      BY <2>1, PollTerm DEF TriggerTimeout
    <3>2. currentTerm' \in [Node -> Term]
      BY <2>1, <3>1 DEF TriggerTimeout, TypeOK
    <3>3. votedFor' \in [Node -> Node \cup {Nil}] /\ leaderId' \in [Node -> Node \cup {Nil}]
      BY <2>1 DEF TriggerTimeout, TypeOK
    <3>4. role' \in [Node -> Role]
      BY <2>1 DEF TriggerTimeout, TypeOK, Role
    <3>5. leaderByTerm' \in [Term -> Node \cup {Nil}]
      BY <2>1, <3>1 DEF TriggerTimeout, RecordLeader, TypeOK
    <3>6. QED
      BY <2>1, <3>2, <3>3, <3>4, <3>5 DEF TriggerTimeout, TypeOK
  <2>2. ASSUME NEW n \in Node, SendHeartbeat(n) PROVE TypeOK'
    <3>1. currentTerm' \in [Node -> Term]
      BY <2>2, HeartbeatTerm DEF SendHeartbeat, TypeOK
    <3>2. votedFor' \in [Node -> Node \cup {Nil}] /\ leaderId' \in [Node -> Node \cup {Nil}]
      BY <2>2 DEF SendHeartbeat, TypeOK
    <3>3. role' \in [Node -> Role]
      BY <2>2 DEF SendHeartbeat, TypeOK, Role
    <3>4. QED
      BY <2>2, <3>1, <3>2, <3>3 DEF SendHeartbeat, TypeOK
  <2>3. ASSUME NEW n \in Node, RestartNode(n) PROVE TypeOK'
    BY <2>3 DEF RestartNode, persistent, TypeOK, Role
  <2>4. ASSUME NEW P \in Partitions, SetPartition(P) PROVE TypeOK'
    BY <2>4 DEF SetPartition, persistent, TypeOK
  <2>5. CASE Heal
    <3>1. Healed \in Partitions
      BY NAssumption DEF Healed, Partitions, Node
    <3>2. QED
      BY <2>5, <3>1 DEF Heal, SetPartition, persistent, TypeOK
  <2>6. CASE UNCHANGED vars
    BY <2>6 DEF vars, TypeOK
  <2>7. QED
    BY <2>1, <2>2, <2>3, <2>4, <2>5, <2>6 DEF Next
<1>3. QED
  BY <1>1, <1>2, PTL DEF Spec

-----------------------------------------------------------------------------

\* The step rule behind VoteOncePerTerm.
VoteRule ==
    \A n \in Node :
        /\ currentTerm'[n] >= currentTerm[n]
        /\ currentTerm'[n] = currentTerm[n] /\ votedFor[n] # Nil
           => votedFor'[n] = votedFor[n]

LEMMA StepKeepsVotes ==
    ASSUME TypeOK, [Next]_vars
    PROVE  VoteRule
<1>1. ASSUME NEW n \in Node, TriggerTimeout(n) PROVE VoteRule
  <2> DEFINE t == currentTerm[n] + 1
  <2>1. t \in Term /\ TermAfterPoll(n, t) \in Term /\ TermAfterPoll(n, t) >= t
    BY <1>1, PollTerm DEF TriggerTimeout, Term
  <2>2. SUFFICES ASSUME NEW m \in Node
                 PROVE  /\ currentTerm'[m] >= currentTerm[m]
                        /\ currentTerm'[m] = currentTerm[m] /\ votedFor[m] # Nil
                           => votedFor'[m] = votedFor[m]
    BY DEF VoteRule
  <2>3. CASE m = n
    <3>1. currentTerm'[m] > currentTerm[m]
      BY <1>1, <2>1, <2>3 DEF TriggerTimeout, TypeOK, Term
    <3>2. QED
      BY <3>1 , <1>1, <2>1, <2>3 DEF TriggerTimeout, TypeOK, Term
  <2>4. CASE m # n /\ m \in Polled(n, t)
    <3>1. currentTerm[m] <= t /\ currentTerm'[m] = t /\ m \notin {n}
      BY <1>1, <2>4 DEF TriggerTimeout, Polled
    <3>2. CASE currentTerm[m] = t /\ votedFor[m] # Nil
      <4>1. m \in Granted(n, t) => votedFor[m] = n
        BY <2>4, <3>2 DEF Granted, WouldGrant, TypeOK, Term
      <4>2. votedFor'[m] = votedFor[m]
        BY <1>1, <2>4, <3>2, <4>1 DEF TriggerTimeout, TypeOK, Term
      <4>3. QED
        BY <3>1, <3>2, <4>2, <2>1 DEF Term
    <3>3. QED
      BY <3>1, <3>2, <2>1 DEF TypeOK, Term
  <2>5. CASE m # n /\ m \notin Polled(n, t)
    BY <1>1, <2>5 DEF TriggerTimeout, Granted, TypeOK, Term
  <2>6. QED
    BY <2>3, <2>4, <2>5
<1>2. ASSUME NEW n \in Node, SendHeartbeat(n) PROVE VoteRule
  <2>1. SUFFICES ASSUME NEW m \in Node
                 PROVE  /\ currentTerm'[m] >= currentTerm[m]
                        /\ currentTerm'[m] = currentTerm[m] /\ votedFor[m] # Nil
                           => votedFor'[m] = votedFor[m]
    BY DEF VoteRule
  <2>2. CASE m = n
    <3>1. n \notin Peers(n)
      BY DEF Peers
    <3>2. CASE Ahead(n, currentTerm[n]) = {}
      BY <1>2, <2>2, <3>1, <3>2 DEF SendHeartbeat, TypeOK, Term
    <3>3. CASE Ahead(n, currentTerm[n]) # {}
      <4>1. currentTerm'[n] > currentTerm[n]
        BY <1>2, <3>3, HeartbeatTerm DEF SendHeartbeat
      <4>2. QED
        BY SMTT(30), <2>2, <4>1, HeartbeatTerm, <1>2, <3>3 DEF SendHeartbeat, TypeOK, Term
    <3>4. QED
      BY <3>2, <3>3
  <2>3. CASE m # n /\ m \in Peers(n) \ Ahead(n, currentTerm[n])
    <3>1. currentTerm[m] <= currentTerm[n]
      BY <2>3 DEF Ahead, TypeOK, Term
    <3>2. QED
      BY <1>2, <2>3, <3>1 DEF SendHeartbeat, TypeOK, Term
  <2>4. CASE m # n /\ m \notin Peers(n) \ Ahead(n, currentTerm[n])
    BY <1>2, <2>4 DEF SendHeartbeat, TypeOK, Term
  <2>5. QED
    BY <2>2, <2>3, <2>4
<1>3. CASE UNCHANGED persistent
  BY <1>3 DEF persistent, VoteRule, TypeOK, Term
<1>4. (\E n \in Node : RestartNode(n)) \/ (\E P \in Partitions : SetPartition(P)) \/ Heal
        \/ UNCHANGED vars => UNCHANGED persistent
  BY DEF RestartNode, SetPartition, Heal, persistent, vars
<1>5. QED
  BY <1>1, <1>2, <1>3, <1>4 DEF Next

\* A node votes once in a term and its term never goes back, whatever it is
\* restarted or partitioned from.
THEOREM VotesAreFinal == Spec => VoteOncePerTerm
<1>1. TypeOK /\ [Next]_vars => [VoteRule]_vars
  BY StepKeepsVotes
<1>2. QED
  BY <1>1, TypeCorrect, PTL DEF Spec, VoteOncePerTerm, VoteRule

-----------------------------------------------------------------------------

\* A leader with its own vote was one already, in the same term, or has just
\* been elected by a majority that is now in its term and voted for it.
LEMMA LeaderStep ==
    ASSUME TypeOK, TypeOK', [Next]_vars,
           NEW m \in Node, role'[m] = "leader", votedFor'[m] = m
    PROVE  \/ /\ role[m] = "leader" /\ votedFor[m] = m
              /\ currentTerm'[m] = currentTerm[m]
           \/ \E Q \in SUBSET Node :
                 /\ Cardinality(Q) >= Majority
                 /\ \A q \in Q : currentTerm'[q] = currentTerm'[m] /\ votedFor'[q] = m
<1> DEFINE Elects == \E Q \in SUBSET Node :
                        /\ Cardinality(Q) >= Majority
                        /\ \A q \in Q : currentTerm'[q] = currentTerm'[m] /\ votedFor'[q] = m
           Stays == role[m] = "leader" /\ votedFor[m] = m /\ currentTerm'[m] = currentTerm[m]
<1>1. ASSUME NEW n \in Node, TriggerTimeout(n), m = n
      PROVE  Elects
  <2> DEFINE t == currentTerm[n] + 1
  <2>1. Ahead(n, t) = {} /\ Elected(n, t)
    BY <1>1, NodeFacts DEF TriggerTimeout, TypeOK
  <2>2. currentTerm'[n] = t
    BY <1>1, <2>1, PollTerm DEF TriggerTimeout
  <2>3. Granted(n, t) \in SUBSET Node
    BY DEF Granted, Polled, Peers, TypeOK, Partitions
  <2>4. ASSUME NEW q \in Granted(n, t)
        PROVE  currentTerm'[q] = t /\ votedFor'[q] = n
    <3>1. CASE q = n
      BY <3>1, <1>1, <2>1, <2>2 DEF TriggerTimeout
    <3>2. CASE q # n
      BY <3>2, <1>1, <2>3 DEF TriggerTimeout, Granted
    <3>3. QED
      BY <3>1, <3>2
  <2>5. QED
    BY <1>1, <2>1, <2>2, <2>3, <2>4 DEF Elected
<1>2. ASSUME NEW n \in Node, TriggerTimeout(n), m # n
      PROVE  Stays
  <2> DEFINE t == currentTerm[n] + 1
  <2>1. m \notin Granted(n, t) /\ ~(m \in Polled(n, t) /\ currentTerm[m] < t)
    BY <1>2 DEF TriggerTimeout, TypeOK
  <2>2. role[m] = "leader" /\ votedFor[m] = m
    BY <1>2, <2>1 DEF TriggerTimeout
  <2>3. m \in Polled(n, t) => currentTerm[m] = t
    BY <2>1 DEF Polled, TypeOK, Term
  <2>4. QED
    BY <1>2, <2>2, <2>3 DEF TriggerTimeout
<1>3. ASSUME NEW n \in Node, SendHeartbeat(n)
      PROVE  Stays
  <2> DEFINE t == currentTerm[n]
  <2>1. m \notin Peers(n) \ Ahead(n, t)
    BY <1>3 DEF SendHeartbeat
  <2>2. m = n => Ahead(n, t) = {}
    BY <1>3 DEF SendHeartbeat
  <2>3. QED
    BY <1>3, <2>1, <2>2 DEF SendHeartbeat
<1>4. ASSUME NEW n \in Node, RestartNode(n)
      PROVE  Stays
  BY <1>4 DEF RestartNode, persistent, TypeOK
<1>5. ASSUME (\E P \in Partitions : SetPartition(P)) \/ Heal \/ UNCHANGED vars
      PROVE  Stays
  BY <1>5 DEF SetPartition, Heal, persistent, vars
<1>6. QED
  BY <1>1, <1>2, <1>3, <1>4, <1>5 DEF Next

\* The inductive invariant: the majority behind a leader of its own vote
\* cannot elect a second one, and without that a second one is not excluded,
\* so neither conjunct is inductive alone.
LeaderInv == LeaderKeepsMajority /\ VotedLeaderUnique

LEMMA MajorityStays ==
    ASSUME TypeOK, TypeOK', LeaderKeepsMajority, [Next]_vars
    PROVE  LeaderKeepsMajority'
<1> SUFFICES ASSUME NEW m \in Node, role'[m] = "leader", votedFor'[m] = m
             PROVE  Cardinality({q \in Node : Pledged(q, m, currentTerm[m])'}) >= Majority
  BY DEF LeaderKeepsMajority
<1>1. VoteRule
  BY StepKeepsVotes
<1>2. CASE role[m] = "leader" /\ votedFor[m] = m /\ currentTerm'[m] = currentTerm[m]
  <2>1. Cardinality({q \in Node : Pledged(q, m, currentTerm[m])}) >= Majority
    BY <1>2 DEF LeaderKeepsMajority
  <2>2. currentTerm[m] \in Term
    BY DEF TypeOK
  <2>3. \A q \in Node : Pledged(q, m, currentTerm[m]) => Pledged(q, m, currentTerm[m])'
    BY <1>1, <1>2, <2>2, NodeFacts DEF Pledged, VoteRule, TypeOK, Term
  <2>4. QED
    BY <2>1, <2>3, MajorityGrows
<1>3. CASE \E Q \in SUBSET Node :
              /\ Cardinality(Q) >= Majority
              /\ \A q \in Q : currentTerm'[q] = currentTerm'[m] /\ votedFor'[q] = m
  <2>1. PICK Q \in SUBSET Node :
              /\ Cardinality(Q) >= Majority
              /\ \A q \in Q : currentTerm'[q] = currentTerm'[m] /\ votedFor'[q] = m
    BY <1>3
  <2>2. Q \subseteq {q \in Node : Pledged(q, m, currentTerm[m])'}
    BY <2>1 DEF Pledged
  <2>3. QED
    BY <2>1, <2>2, MajorityGrows
<1>4. QED
  BY <1>2, <1>3, LeaderStep

\* A leader just elected shares a voter with the majority behind any other
\* leader of the term, so it is that leader.
LEMMA NewLeaderIsOnly ==
    ASSUME TypeOK', LeaderKeepsMajority',
           NEW m \in Node, NEW n \in Node,
           role'[n] = "leader", votedFor'[n] = n, currentTerm'[m] = currentTerm'[n],
           NEW Q \in SUBSET Node, Cardinality(Q) >= Majority,
           \A q \in Q : currentTerm'[q] = currentTerm'[m] /\ votedFor'[q] = m
    PROVE  m = n
<1> DEFINE R == {q \in Node : Pledged(q, n, currentTerm[n])'}
<1>1. Cardinality(R) >= Majority
  BY DEF LeaderKeepsMajority
<1>2. PICK q \in Node : q \in Q /\ q \in R
  <2>1. R \in SUBSET Node
    OBVIOUS
  <2>2. QED
    BY <1>1, <2>1, MajoritiesMeet
<1>3. QED
  BY <1>2 DEF Pledged, TypeOK, Term

\* Both halves together, as an invariant of the specification.
THEOREM LeadersOfATerm == Spec => []LeaderInv
<1>1. Init => LeaderInv
  BY DEF Init, LeaderInv, LeaderKeepsMajority, VotedLeaderUnique
<1>2. TypeOK /\ TypeOK' /\ LeaderInv /\ [Next]_vars => LeaderInv'
  <2> SUFFICES ASSUME TypeOK, TypeOK', LeaderInv, [Next]_vars PROVE LeaderInv'
    OBVIOUS
  <2>1. LeaderKeepsMajority'
    BY MajorityStays DEF LeaderInv
  <2>2. ASSUME NEW m \in Node, role'[m] = "leader", votedFor'[m] = m,
               NEW n \in Node, role'[n] = "leader", votedFor'[n] = n,
               currentTerm'[m] = currentTerm'[n]
        PROVE  m = n
    <3> DEFINE Stays(p) == role[p] = "leader" /\ votedFor[p] = p /\ currentTerm'[p] = currentTerm[p]
    <3>1. CASE Stays(m) /\ Stays(n)
      BY <2>2, <3>1 DEF LeaderInv, VotedLeaderUnique
    <3>2. CASE ~Stays(m)
      BY <2>1, <2>2, <3>2, LeaderStep, NewLeaderIsOnly
    <3>3. CASE ~Stays(n)
      BY <2>1, <2>2, <3>3, LeaderStep, NewLeaderIsOnly
    <3>4. QED
      BY <3>1, <3>2, <3>3
  <2>3. QED
    BY <2>1, <2>2 DEF LeaderInv, VotedLeaderUnique
<1>3. QED
  BY <1>1, <1>2, TypeCorrect, PTL DEF Spec

\* The majority behind a leader that holds its own vote stays behind it
\* (receive_vote_request never gives a second vote of a term).
THEOREM LeadersKeepTheirMajority == Spec => []LeaderKeepsMajority
<1>1. LeaderInv => LeaderKeepsMajority
  BY DEF LeaderInv
<1>2. QED
  BY <1>1, LeadersOfATerm, PTL

\* A term has at most one leader among those that hold their own vote, for
\* every number of nodes, every partition schedule and every order of timeouts,
\* heartbeats and restarts.
THEOREM OneVotedLeader == Spec => []VotedLeaderUnique
<1>1. LeaderInv => VotedLeaderUnique
  BY DEF LeaderInv
<1>2. QED
  BY <1>1, LeadersOfATerm, PTL
-----------------------------------------------------------------------------

\* In a healed cluster nobody is ahead of a node that is ahead of all, and everybody
\* grants it the vote of its next term.
LEMMA AllGrant ==
    ASSUME TypeOK, NEW n \in Node, partition = Healed,
           \A p \in Node : currentTerm[p] <= currentTerm[n]
    PROVE  LET t == currentTerm[n] + 1
           IN Ahead(n, t) = {} /\ Granted(n, t) = Node /\ Elected(n, t)
<1> DEFINE t == currentTerm[n] + 1
<1>1. Peers(n) = Node \ {n}
  BY DEF Peers, Healed
<1>2. \A p \in Node : currentTerm[p] \in Nat /\ currentTerm[p] < t
  BY DEF TypeOK, Term
<1>3. Ahead(n, t) = {}
  BY <1>1, <1>2 DEF Ahead
<1>4. Granted(n, t) = Node
  BY <1>1, <1>2, <1>3 DEF Granted, Polled, WouldGrant
<1>5. Cardinality(Node) = N
  BY NAssumption, FS_Interval DEF Node
<1>6. N >= Majority
  BY NAssumption DEF Majority
<1>7. QED
  BY <1>3, <1>4, <1>5, <1>6 DEF Elected

\* When all nodes are reachable, the timeout of a node that nobody is ahead of elects it and
\* nobody else: lab 24 settles a split vote with one more timeout.
THEOREM HealedTimeoutAlwaysElects == Spec => HealedTimeoutElects
<1> DEFINE Elects ==
      \A n \in Node :
          /\ partition = Healed
          /\ \A p \in Node : currentTerm[p] <= currentTerm[n]
          /\ currentTerm'[n] = currentTerm[n] + 1
          /\ votedFor'[n] = n
          => /\ role'[n] = "leader"
             /\ \A p \in Node : role'[p] = "leader" => p = n
<1>1. ASSUME TypeOK, [Next]_vars PROVE Elects
  <2> SUFFICES ASSUME NEW n \in Node, partition = Healed,
                      \A p \in Node : currentTerm[p] <= currentTerm[n],
                      currentTerm'[n] = currentTerm[n] + 1, votedFor'[n] = n
               PROVE  /\ role'[n] = "leader"
                      /\ \A p \in Node : role'[p] = "leader" => p = n
    OBVIOUS
  <2>0. n # Nil /\ currentTerm[n] \in Nat /\ currentTerm'[n] # currentTerm[n]
    BY <1>1 DEF TypeOK, Term, Node, Nil
  <2>1. CASE TriggerTimeout(n)
    BY <1>1, <2>1, AllGrant DEF TriggerTimeout
  <2>2. ASSUME NEW m \in Node \ {n}, TriggerTimeout(m) PROVE FALSE
    <3> DEFINE t == currentTerm[m] + 1
    <3>1. n \in Polled(m, t)
      BY <2>0, <2>2 DEF TriggerTimeout
    <3>2. currentTerm'[n] = t /\ currentTerm[n] < t
      BY <1>1, <2>0, <2>2, <3>1 DEF TriggerTimeout, TypeOK, Term
    <3>3. votedFor'[n] \in {m, Nil}
      BY <2>2, <3>1, <3>2 DEF TriggerTimeout
    <3>4. QED
      BY <2>0, <2>2, <3>3
  <2>3. ASSUME NEW m \in Node, SendHeartbeat(m) PROVE FALSE
    <3> DEFINE t == currentTerm[m]
    <3>1. CASE n = m
      <4>1. Ahead(m, t) # {}
        BY <2>0, <2>3, <3>1 DEF SendHeartbeat
      <4>2. votedFor'[n] = Nil
        BY <2>3, <3>1, <4>1 DEF SendHeartbeat
      <4>3. QED
        BY <2>0, <4>2
    <3>2. CASE n # m
      <4>1. n \in Peers(m) \ Ahead(m, t) /\ currentTerm'[n] = t
        BY <2>0, <2>3, <3>2 DEF SendHeartbeat
      <4>2. currentTerm[n] < t
        BY <1>1, <2>0, <2>3, <4>1 DEF TypeOK, Term
      <4>3. votedFor'[n] = Nil
        BY <2>3, <4>1, <4>2 DEF SendHeartbeat
      <4>4. QED
        BY <2>0, <4>3
    <3>3. QED
      BY <3>1, <3>2
  <2>4. CASE UNCHANGED persistent
    BY <2>0, <2>4 DEF persistent
  <2>5. (\E m \in Node : RestartNode(m)) \/ (\E P \in Partitions : SetPartition(P)) \/ Heal
          \/ UNCHANGED vars => UNCHANGED persistent
    BY DEF RestartNode, SetPartition, Heal, persistent, vars
  <2>6. QED
    BY <1>1, <2>1, <2>2, <2>3, <2>4, <2>5 DEF Next
<1>2. TypeOK /\ [Next]_vars => [Elects]_vars
  BY <1>1
<1>3. QED
  BY <1>2, TypeCorrect, PTL DEF Spec, HealedTimeoutElects
=============================================================================
