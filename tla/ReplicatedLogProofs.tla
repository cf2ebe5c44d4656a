------------------------ MODULE ReplicatedLogProofs ------------------------
(***************************************************************************)
(* Proofs about ReplicatedLog: for every number of nodes, every partition  *)
(* schedule and every order of calls, as long as no candidate became       *)
(* leader after it had stepped down.                                       *)
(***************************************************************************)
EXTENDS ReplicatedLog, FiniteSetTheorems, SequenceTheorems, WellFoundedInduction, TLAPS

Role == {"follower", "candidate", "leader"}
Entry == [term : Term, command : Command]
Store == [log : Seq(Entry), commit : Nat, applied : Seq(Entry)]

TypeOK ==
    /\ currentTerm \in [Node -> Term]
    /\ votedFor \in [Node -> Node \cup {Nil}]
    /\ role \in [Node -> Role]
    /\ running \in [Node -> BOOLEAN]
    /\ partition \in Partitions
    /\ store \in [Node -> Store]
    /\ \A n \in Node : store[n].commit <= Len(store[n].log)
    /\ matchIndex \in [Node -> [Node -> Nat]]
    /\ usurped \in BOOLEAN
    /\ committed \in Seq(Entry)

-----------------------------------------------------------------------------
(* The inductive invariant. *)

Log(n) == store[n].log
Leads(n) == role[n] = "leader"

\* Two sequences have the same first k elements.
Agree(a, b, k) == k <= Len(a) /\ k <= Len(b) /\ \A j \in 1..k : a[j] = b[j]

IsMajority(Q) == Cardinality(Q) >= Majority

\* q no longer votes for anybody but n in term t, as in RaftElection.
Pledged(q, n, t) == currentTerm[q] > t \/ (currentTerm[q] = t /\ votedFor[q] = n)
Elected(n, t) == currentTerm[n] >= t /\ IsMajority({q \in Node : Pledged(q, n, t)})

\* A leader has a majority behind it, and a term has one leader.
LeadersElected == \A n \in Node : Leads(n) => Elected(n, currentTerm[n])
OneLeader ==
    \A m, n \in Node : Leads(m) /\ Leads(n) /\ currentTerm[m] = currentTerm[n] => m = n

\* An entry's term had a leader; terms do not fall along a log.
EntriesElected ==
    \A m \in Node : \A i \in 1..Len(Log(m)) : \E n \in Node : Elected(n, Log(m)[i].term)
TermsRise ==
    \A m \in Node : \A j \in 1..Len(Log(m)) :
        /\ Log(m)[j].term <= currentTerm[m]
        /\ \A i \in 1..j : Log(m)[i].term <= Log(m)[j].term

\* Up to their entries of one term, logs are prefixes of each other, and of the log of
\* the leader of that term.
TermChain ==
    \A m, n \in Node : \A i \in 1..Len(Log(m)), j \in 1..Len(Log(n)) :
        Log(m)[i].term = Log(n)[j].term /\ i <= j => Agree(Log(m), Log(n), i)
LeaderHasItsTerm ==
    \A m, n \in Node : \A i \in 1..Len(Log(m)) :
        Leads(n) /\ Log(m)[i].term = currentTerm[n] => Agree(Log(m), Log(n), i)

\* An acknowledgement is for entries the leader has, from a node that is in its term.
Acknowledged ==
    \A n, p \in Node : Leads(n) =>
        /\ matchIndex[n][p] <= Len(Log(n))
        /\ matchIndex[n][p] > 0 => currentTerm[p] >= currentTerm[n]

\* A majority has left the term of leader n without acknowledging entry i, so that
\* n can commit it no more.
Blocked(n, i) ==
    \E R \in SUBSET Node :
        IsMajority(R) /\ \A q \in R : currentTerm[q] > currentTerm[n] /\ matchIndex[n][q] < i

\* Who must have entry i of leader n: later leaders, logs with entries of later
\* terms, and the nodes that acknowledged it.
Bound(m, n, i) ==
    \/ Leads(m) /\ currentTerm[m] > currentTerm[n]
    \/ \E j \in 1..Len(Log(m)) : Log(m)[j].term > currentTerm[n]
    \/ matchIndex[n][m] >= i

EntriesKept ==
    \A n \in Node : \A i \in 1..Len(Log(n)) :
        Leads(n) /\ Log(n)[i].term = currentTerm[n] =>
            Blocked(n, i) \/ \A m \in Node : Bound(m, n, i) => Agree(Log(n), Log(m), i)

\* A log C was committed in the term of its last entry: leaders of that term and of later
\* ones have it, and so do logs with entries of later terms and a majority of nodes.
CommittedIn(C) == IF C = <<>> THEN 0 ELSE C[Len(C)].term
Holds(m, C) == Agree(C, Log(m), Len(C))
Held(C) ==
    /\ \A m \in Node : Leads(m) /\ currentTerm[m] >= CommittedIn(C) => Holds(m, C)
    /\ \A m \in Node :
          (\E j \in 1..Len(Log(m)) : Log(m)[j].term > CommittedIn(C)) => Holds(m, C)
    /\ \E Q \in SUBSET Node :
          IsMajority(Q) /\ \A q \in Q : currentTerm[q] >= CommittedIn(C) /\ Holds(q, C)

\* How much of the log a node takes for committed, or has applied.
Known(s) == IF s.commit >= Len(s.applied) THEN s.commit ELSE Len(s.applied)

\* It is committed, and leaders of the node's term or a later one have it.
Sound(s, C) == Agree(s.log, C, s.commit) /\ Agree(s.applied, C, Len(s.applied))
KnownIn(C) ==
    /\ \A m \in Node : Sound(store[m], C)
    /\ \A m, n \in Node : Leads(n) /\ currentTerm[n] >= currentTerm[m] =>
          Agree(C, Log(n), Known(store[m]))

LogSafe ==
    /\ LeadersElected /\ OneLeader /\ EntriesElected
    /\ TermsRise /\ TermChain /\ LeaderHasItsTerm
    /\ Acknowledged /\ EntriesKept

Safe == LogSafe /\ Held(committed) /\ KnownIn(committed)

LogInv == ~usurped => Safe

-----------------------------------------------------------------------------
(* Facts about numbers, majorities and sequences. *)

\* Min chooses the least of some naturals.
LEMMA MinOfNat ==
    ASSUME NEW S \in SUBSET Nat, S # {}
    PROVE  Min(S) \in S /\ \A y \in S : Min(S) <= y
<1>1. PICK x \in S : \A y \in S : ~ (<<y, x>> \in OpToRel(<, Nat))
  BY NatLessThanWellFounded, WFMin
<1>2. ASSUME NEW y \in S, y < x PROVE FALSE
  <2>1. <<y, x>> \in Nat \X Nat /\ <<y, x>>[1] < <<y, x>>[2]
    BY <1>2
  <2>2. <<y, x>> \in OpToRel(<, Nat)
    BY <2>1 DEF OpToRel
  <2>3. QED
    BY <1>1, <2>2
<1>3. \A y \in S : x <= y
  BY <1>2
<1>4. QED
  BY <1>3 DEF Min

\* Max chooses the greatest of some naturals below a bound.
LEMMA MaxOfNat ==
    ASSUME NEW b \in Nat, NEW S \in SUBSET (0..b), S # {}
    PROVE  Max(S) \in S /\ \A y \in S : Max(S) >= y
<1>0. \A y \in S : y \in Int
  OBVIOUS
<1> DEFINE T == {b - x : x \in S}
<1>1. T \in SUBSET Nat /\ T # {}
  <2>1. \A x \in S : b - x \in Nat
    OBVIOUS
  <2>2. PICK x \in S : TRUE
    OBVIOUS
  <2>3. b - x \in T
    OBVIOUS
  <2>4. QED
    BY <2>1, <2>3
<1>2. PICK d \in T : \A e \in T : ~ (<<e, d>> \in OpToRel(<, Nat))
  BY <1>1, NatLessThanWellFounded, WFMin
<1>3. PICK x \in S : d = b - x
  OBVIOUS
<1>4. ASSUME NEW y \in S, y > x PROVE FALSE
  <2>1. b - y \in T /\ b - y < d
    BY <1>3, <1>4
  <2>2. <<b - y, d>> \in Nat \X Nat /\ <<b - y, d>>[1] < <<b - y, d>>[2]
    BY <1>1, <2>1
  <2>3. <<b - y, d>> \in OpToRel(<, Nat)
    BY <2>2 DEF OpToRel
  <2>4. QED
    BY <1>2, <2>1, <2>3
<1>5. \A y \in S : x >= y
  <2>1. ASSUME NEW y \in S PROVE x >= y
    <3>1. y \in Int /\ x \in Int
      BY <1>0
    <3>2. QED
      BY <1>4, <3>1
  <2>2. QED
    BY <2>1
<1>6. QED
  BY <1>5 DEF Max

\* Node 0 is nobody, and a majority is more than half.
LEMMA NodeFacts ==
    /\ IsFiniteSet(Node) /\ Cardinality(Node) = N
    /\ Nil \notin Node
    /\ Majority \in Nat /\ 2 * Majority > N /\ Majority <= N
<1>1. IsFiniteSet(Node) /\ Cardinality(Node) = N
  BY FS_Interval, NAssumption DEF Node
<1>2. QED
  BY <1>1, NAssumption DEF Node, Nil, Majority

\* Two majorities have a node in common.
LEMMA MajoritiesMeet ==
    ASSUME NEW Q \in SUBSET Node, NEW R \in SUBSET Node, IsMajority(Q), IsMajority(R)
    PROVE  \E q \in Node : q \in Q /\ q \in R
<1>1. Cardinality(Q) \in Nat /\ Cardinality(R) \in Nat
  BY NodeFacts, FS_Subset, FS_CardinalityType
<1>2. Cardinality(Q) + Cardinality(R) > Cardinality(Node)
  BY <1>1, NodeFacts, NAssumption DEF IsMajority
<1>3. Q \cap R # {}
  BY <1>2, NodeFacts, FS_MajoritiesIntersect
<1>4. QED
  BY <1>3

\* A majority has a member, and what contains it is one.
LEMMA MajorityGrows ==
    ASSUME NEW Q \in SUBSET Node, NEW R \in SUBSET Node, Q \subseteq R, IsMajority(Q)
    PROVE  IsMajority(R)
<1>1. IsFiniteSet(R) /\ IsFiniteSet(Q)
  BY NodeFacts, FS_Subset
<1>2. Cardinality(Q) <= Cardinality(R)
  BY <1>1, FS_Subset
<1>3. QED
  BY <1>1, <1>2, NodeFacts, FS_CardinalityType DEF IsMajority

\* All nodes are a majority.
LEMMA AllAreMajority == IsMajority(Node)
  BY NodeFacts, NAssumption DEF IsMajority

\* Agreement is handed on between sequences.
LEMMA AgreeTrans ==
    ASSUME NEW a \in Seq(Entry), NEW b \in Seq(Entry), NEW c \in Seq(Entry),
           NEW i \in Nat, NEW j \in Nat, NEW k \in Nat,
           Agree(a, b, i), Agree(b, c, j), k <= i, k <= j
    PROVE  Agree(a, c, k)
  BY SMTT(30) DEF Agree

LEMMA AgreeSym ==
    ASSUME NEW a, NEW b, NEW i, Agree(a, b, i)
    PROVE  Agree(b, a, i)
  BY DEF Agree

LEMMA AgreeLess ==
    ASSUME NEW a \in Seq(Entry), NEW b \in Seq(Entry),
           NEW i \in Nat, NEW k \in Nat, Agree(a, b, i), k <= i
    PROVE  Agree(a, b, k)
  BY DEF Agree

\* The same as a prefix in the sense of the library.
LEMMA AgreeIsPrefix ==
    ASSUME NEW a \in Seq(Entry), NEW b \in Seq(Entry), Agree(a, b, Len(a))
    PROVE  IsPrefix(a, b)
<1>1. SubSeq(a, 1, Len(a)) = SubSeq(b, 1, Len(a))
  BY DEF Agree
<1>2. QED
  BY <1>1 DEF IsPrefix, Agree

-----------------------------------------------------------------------------
(* What the operations of one node do to its store. *)

\* A store with one field changed.
LEMMA StoreWith ==
    ASSUME NEW s \in Store
    PROVE  /\ \A x : [s EXCEPT !.applied = x] = [log |-> s.log, commit |-> s.commit, applied |-> x]
           /\ \A x : [s EXCEPT !.commit = x] = [log |-> s.log, commit |-> x, applied |-> s.applied]
           /\ \A x : [s EXCEPT !.log = x] = [log |-> x, commit |-> s.commit, applied |-> s.applied]
  BY DEF Store

LEMMA StoreWithTwo ==
    ASSUME NEW s \in Store, NEW x, NEW y
    PROVE  /\ [s EXCEPT !.log = x, !.commit = y] = [log |-> x, commit |-> y, applied |-> s.applied]
           /\ [s EXCEPT !.commit = x, !.applied = y] = [log |-> s.log, commit |-> x, applied |-> y]
<1>1. [s EXCEPT !.log = x, !.commit = y] = [[s EXCEPT !.log = x] EXCEPT !.commit = y]
  OBVIOUS
<1>2. [s EXCEPT !.commit = x, !.applied = y] = [[s EXCEPT !.commit = x] EXCEPT !.applied = y]
  OBVIOUS
<1>3. /\ [[log |-> x, commit |-> s.commit, applied |-> s.applied] EXCEPT !.commit = y]
            = [log |-> x, commit |-> y, applied |-> s.applied]
      /\ [[log |-> s.log, commit |-> x, applied |-> s.applied] EXCEPT !.applied = y]
            = [log |-> s.log, commit |-> x, applied |-> y]
  OBVIOUS
<1>4. QED
  BY <1>1, <1>2, <1>3, StoreWith

\* apply_committed_entries: what was applied stays, what was missing comes from the log.
LEMMA ApplyIs ==
    ASSUME NEW s \in Store, s.commit <= Len(s.log)
    PROVE  LET r == ApplyCommitted(s) IN
           /\ r \in Store /\ r.log = s.log /\ r.commit = s.commit
           /\ Len(r.applied) = IF Len(s.applied) < s.commit THEN s.commit ELSE Len(s.applied)
           /\ \A j \in 1..Len(r.applied) :
                 r.applied[j] = IF j <= Len(s.applied) THEN s.applied[j] ELSE s.log[j]
<1> DEFINE rest == SubSeq(s.log, Len(s.applied) + 1, s.commit)
<1>1. s.log \in Seq(Entry) /\ s.applied \in Seq(Entry) /\ s.commit \in Nat
      /\ s = [log |-> s.log, commit |-> s.commit, applied |-> s.applied]
  BY DEF Store
<1>2. ApplyCommitted(s) = [log |-> s.log, commit |-> s.commit, applied |-> s.applied \o rest]
  BY StoreWith DEF ApplyCommitted
<1>3. /\ rest \in Seq(Entry)
      /\ Len(rest) = IF Len(s.applied) < s.commit THEN s.commit - Len(s.applied) ELSE 0
      /\ \A i \in 1..Len(rest) : rest[i] = s.log[Len(s.applied) + i]
  <2>1. \A i \in (Len(s.applied) + 1)..s.commit : s.log[i] \in Entry
    BY <1>1
  <2>2. Len(s.applied) \in Nat
    BY <1>1
  <2>3. QED
    BY <1>1, <2>1, <2>2, SubSeqProperties
<1> HIDE DEF rest
<1>4. /\ s.applied \o rest \in Seq(Entry)
      /\ Len(s.applied \o rest) = Len(s.applied) + Len(rest)
      /\ \A j \in 1..(Len(s.applied) + Len(rest)) :
            (s.applied \o rest)[j] = IF j <= Len(s.applied) THEN s.applied[j]
                                     ELSE rest[j - Len(s.applied)]
  BY <1>1, <1>3, ConcatProperties
<1> DEFINE r == ApplyCommitted(s)
<1>5. r.log = s.log /\ r.commit = s.commit /\ r.applied = s.applied \o rest
  BY <1>2
<1>6. r \in Store
  BY <1>1, <1>2, <1>4 DEF Store
<1>7. Len(r.applied) = IF Len(s.applied) < s.commit THEN s.commit ELSE Len(s.applied)
  BY <1>1, <1>3, <1>4, <1>5
<1>8. ASSUME NEW j \in 1..Len(r.applied)
      PROVE  r.applied[j] = IF j <= Len(s.applied) THEN s.applied[j] ELSE s.log[j]
  <2>1. Len(s.applied) \in Nat /\ Len(rest) \in Nat
    BY <1>1, <1>3
  <2>2. j > Len(s.applied) => rest[j - Len(s.applied)] = s.log[Len(s.applied) + (j - Len(s.applied))]
    BY <1>3, <1>4, <1>5, <2>1
  <2>3. QED
    BY <1>4, <1>5, <2>1, <2>2
<1>9. QED
  BY <1>5, <1>6, <1>7, <1>8

\* rebuild_state_machine: exactly the committed part of the log is applied.
LEMMA RebuildIs ==
    ASSUME NEW s \in Store
    PROVE  LET r == Rebuild(s) IN
           /\ r \in Store /\ r.log = s.log /\ r.commit = Lesser(s.commit, Len(s.log))
           /\ Len(r.applied) = r.commit
           /\ \A j \in 1..Len(r.applied) : r.applied[j] = s.log[j]
<1> DEFINE c == Lesser(s.commit, Len(s.log))
           e == [log |-> s.log, commit |-> c, applied |-> <<>>]
<1>1. c \in Nat /\ c <= Len(s.log) /\ s.log \in Seq(Entry)
  BY DEF Lesser, Store
<1>2. Rebuild(s) = ApplyCommitted(e)
  BY StoreWithTwo DEF Rebuild
<1>3. <<>> \in Seq(Entry) /\ Len(<<>>) = 0
  OBVIOUS
<1>4. e \in Store /\ e.log = s.log /\ e.commit = c /\ e.applied = <<>>
  BY <1>1, <1>3 DEF Store
<1> HIDE DEF c, e
<1>5. /\ ApplyCommitted(e) \in Store /\ ApplyCommitted(e).log = s.log
      /\ ApplyCommitted(e).commit = c
      /\ Len(ApplyCommitted(e).applied) = IF 0 < c THEN c ELSE 0
      /\ \A j \in 1..Len(ApplyCommitted(e).applied) : ApplyCommitted(e).applied[j] = s.log[j]
  BY <1>1, <1>3, <1>4, ApplyIs
<1>6. QED
  BY <1>1, <1>2, <1>5 DEF c

\* _replace_log: the machine keeps what it applied unless the commit index is below that.
LEMMA ReplaceIs ==
    ASSUME NEW s \in Store, NEW L \in Seq(Entry)
    PROVE  LET r == ReplaceLog(s, L) IN
           /\ r \in Store /\ r.log = L /\ r.commit = Lesser(s.commit, Len(L))
           /\ \/ r.applied = s.applied
              \/ /\ Len(r.applied) = r.commit
                 /\ \A j \in 1..Len(r.applied) : r.applied[j] = L[j]
<1> DEFINE c == Lesser(s.commit, Len(L))
           e == [log |-> L, commit |-> c, applied |-> s.applied]
<1>1. c \in Nat /\ c <= Len(L)
  BY DEF Lesser, Store
<1>2. [s EXCEPT !.log = L, !.commit = c] = e
  BY StoreWithTwo
<1>3. e \in Store /\ e.log = L /\ e.commit = c /\ e.applied = s.applied
  BY <1>1 DEF Store
<1> HIDE DEF c, e
<1>4. ReplaceLog(s, L) = IF Len(e.applied) > e.commit THEN Rebuild(e) ELSE e
  BY <1>2, <1>3 DEF ReplaceLog, c
<1>5. Lesser(c, Len(L)) = c
  BY <1>1 DEF Lesser
<1>6. CASE Len(e.applied) > e.commit
  BY <1>3, <1>4, <1>5, <1>6, RebuildIs DEF c
<1>7. CASE ~(Len(e.applied) > e.commit)
  BY <1>3, <1>4, <1>7 DEF c
<1>8. QED
  BY <1>6, <1>7

\* A store whose log is replaced by one that has all it knew, with a commit index that is
\* sound for that log, is sound again and knows no more than before or than the index.
LEMMA ReceiveIs ==
    ASSUME NEW s \in Store, NEW L \in Seq(Entry), NEW c \in Nat, c <= Len(L),
           NEW C \in Seq(Entry), Sound(s, C), Agree(C, L, Known(s)), Agree(C, L, c)
    PROVE  LET r == ReceiveAppend(s, L, c) IN
           /\ r \in Store /\ r.log = L /\ r.commit = c
           /\ Sound(r, C) /\ Agree(C, L, Known(r))
           /\ Known(r) <= Known(s) \/ Known(r) <= c
<1> DEFINE q == ReplaceLog(s, L)
           e == [log |-> L, commit |-> c, applied |-> q.applied]
           r == ApplyCommitted(e)
<1>1. /\ q \in Store /\ q.log = L /\ q.commit = Lesser(s.commit, Len(L))
      /\ \/ q.applied = s.applied
         \/ /\ Len(q.applied) = q.commit
            /\ \A j \in 1..Len(q.applied) : q.applied[j] = L[j]
  BY ReplaceIs
<1> HIDE DEF q
<1>2. Lesser(c, Len(L)) = c
  BY DEF Lesser
<1>3. ReceiveAppend(s, L, c) = r
  BY <1>1, <1>2, StoreWith DEF ReceiveAppend, q
<1>4. e \in Store /\ e.log = L /\ e.commit = c /\ e.applied = q.applied
  BY <1>1 DEF Store
<1> HIDE DEF e
<1>5. /\ r \in Store /\ r.log = L /\ r.commit = c
      /\ Len(r.applied) = IF Len(q.applied) < c THEN c ELSE Len(q.applied)
      /\ \A j \in 1..Len(r.applied) :
            r.applied[j] = IF j <= Len(q.applied) THEN q.applied[j] ELSE L[j]
  BY <1>4, ApplyIs
<1> HIDE DEF r
<1>6. /\ Len(s.applied) \in Nat /\ s.commit \in Nat /\ Len(L) \in Nat /\ Len(C) \in Nat
      /\ Len(q.applied) \in Nat
  BY <1>1 DEF Store
<1>7. /\ Len(q.applied) <= Known(s)
      /\ Len(q.applied) <= Len(C)
      /\ \A j \in 1..Len(q.applied) : q.applied[j] = C[j]
  <2>1. CASE q.applied = s.applied
    BY <1>6, <2>1 DEF Known, Sound, Agree
  <2>2. CASE /\ Len(q.applied) = q.commit
             /\ \A j \in 1..Len(q.applied) : q.applied[j] = L[j]
    <3>1. q.commit <= s.commit /\ s.commit <= Known(s)
      BY <1>1, <1>6 DEF Lesser, Known
    <3>2. \A j \in 1..Len(q.applied) : j \in 1..Known(s)
      BY <1>6, <2>2, <3>1 DEF Known
    <3>3. QED
      BY <1>6, <2>2, <3>1, <3>2 DEF Agree, Known
  <2>3. QED
    BY <1>1, <2>1, <2>2
<1>8. /\ Len(r.applied) <= Len(C)
      /\ \A j \in 1..Len(r.applied) : r.applied[j] = C[j]
  BY <1>5, <1>6, <1>7 DEF Agree
<1>9. Sound(r, C)
  BY <1>5, <1>6, <1>8, AgreeSym DEF Sound, Agree
<1>10. Known(r) <= Known(s) \/ Known(r) <= c
  BY <1>5, <1>6, <1>7 DEF Known
<1>11. Known(r) \in Nat /\ Known(s) \in Nat
  BY <1>5, <1>6 DEF Known
<1>12. Agree(C, L, Known(r))
  BY <1>10, <1>11, AgreeLess
<1>13. QED
  BY <1>3, <1>5, <1>9, <1>10, <1>12

-----------------------------------------------------------------------------
(* Every step is of one of three kinds: no log and no leader is new, a candidate wins, or *)
(* a leader hands its log to the nodes that accept it.                                    *)

\* Votes of a term are final and terms do not fall.
VoteRule ==
    \A n \in Node :
        /\ currentTerm'[n] >= currentTerm[n]
        /\ currentTerm'[n] = currentTerm[n] /\ votedFor[n] # Nil => votedFor'[n] = votedFor[n]

Stays(m) == Leads(m) /\ currentTerm'[m] = currentTerm[m] /\ matchIndex'[m] = matchIndex[m]

Idle ==
    /\ VoteRule
    /\ \A m \in Node : Log(m)' = Log(m)
    /\ \A m \in Node : Leads(m)' => Stays(m)

\* Node n wins the term after its own with the votes of V.
Votes(q, n, t) ==
    /\ currentTerm[q] <= t /\ currentTerm'[q] = t /\ votedFor'[q] = n
    /\ q # n => /\ currentTerm[q] < t \/ votedFor[q] \in {Nil, n}
                /\ AtLeast(LastPosition(store[n]), LastPosition(store[q]))
Wins(n, V) ==
    /\ VoteRule
    /\ \A m \in Node : Log(m)' = Log(m)
    /\ \A m \in Node \ {n} : Leads(m)' => Stays(m)
    /\ currentTerm'[n] = currentTerm[n] + 1
    /\ \A p \in Node : matchIndex'[n][p] = IF p = n THEN Len(Log(n)) ELSE 0
    /\ n \in V /\ IsMajority(V) /\ \A q \in V : Votes(q, n, currentTerm[n] + 1)

\* Leader n hands log L, its own with entries of its term behind it, to the nodes of A.
Extends(L, n) ==
    /\ Agree(Log(n), L, Len(Log(n)))
    /\ \A j \in (Len(Log(n)) + 1)..Len(L) : L[j].term = currentTerm[n]
Round(n, L, A) ==
    /\ VoteRule /\ Leads(n) /\ n \notin A /\ Extends(L, n)
    /\ \A m \in A : currentTerm[m] <= currentTerm[n] /\ currentTerm'[m] = currentTerm[n] /\ ~Leads(m)'
    /\ \A m \in Node : Log(m)' = IF m \in A \cup {n} THEN L ELSE Log(m)
    /\ \A m \in Node \ {n} : Leads(m)' => Stays(m)
    /\ Leads(n)' =>
          /\ currentTerm'[n] = currentTerm[n]
          /\ \A p \in Node :
                matchIndex'[n][p] = IF p \in A \cup {n} THEN Len(L) ELSE matchIndex[n][p]

\* The types that the steps below compute with.
LEMMA Types ==
    ASSUME TypeOK
    PROVE  /\ \A m \in Node : /\ store[m] \in Store /\ Log(m) \in Seq(Entry) /\ Len(Log(m)) \in Nat
                              /\ store[m].commit \in Nat /\ store[m].applied \in Seq(Entry)
                              /\ currentTerm[m] \in Nat
                              /\ \A i \in 1..Len(Log(m)) : Log(m)[i].term \in Nat
           /\ \A m, n \in Node : matchIndex[m][n] \in Nat
<1>1. \A m \in Node : store[m] \in Store /\ currentTerm[m] \in Nat
  BY DEF TypeOK, Term
<1>2. ASSUME NEW s \in Store
      PROVE  /\ s.log \in Seq(Entry) /\ Len(s.log) \in Nat /\ s.commit \in Nat
             /\ s.applied \in Seq(Entry)
             /\ \A i \in 1..Len(s.log) : s.log[i].term \in Nat
  <2>1. s.log \in Seq(Entry) /\ s.commit \in Nat /\ s.applied \in Seq(Entry)
    BY DEF Store
  <2>2. \A i \in 1..Len(s.log) : s.log[i] \in Entry
    BY <2>1
  <2>3. \A e \in Entry : e.term \in Nat
    BY DEF Entry, Term
  <2>4. QED
    BY <2>1, <2>2, <2>3
<1>3. QED
  BY <1>1, <1>2 DEF Log, TypeOK

\* The same of the next state.
LEMMA TypesNext ==
    ASSUME TypeOK'
    PROVE  /\ \A m \in Node : /\ store'[m] \in Store /\ Log(m)' \in Seq(Entry) /\ Len(Log(m)') \in Nat
                              /\ store'[m].commit \in Nat /\ store'[m].applied \in Seq(Entry)
                              /\ currentTerm'[m] \in Nat
                              /\ \A i \in 1..Len(Log(m)') : Log(m)'[i].term \in Nat
           /\ \A m, n \in Node : matchIndex'[m][n] \in Nat
<1>1. \A m \in Node : store'[m] \in Store /\ currentTerm'[m] \in Nat
  BY DEF TypeOK, Term
<1>2. ASSUME NEW s \in Store
      PROVE  /\ s.log \in Seq(Entry) /\ Len(s.log) \in Nat /\ s.commit \in Nat
             /\ s.applied \in Seq(Entry)
             /\ \A i \in 1..Len(s.log) : s.log[i].term \in Nat
  <2>1. s.log \in Seq(Entry) /\ s.commit \in Nat /\ s.applied \in Seq(Entry)
    BY DEF Store
  <2>2. \A i \in 1..Len(s.log) : s.log[i] \in Entry
    BY <2>1
  <2>3. \A e \in Entry : e.term \in Nat
    BY DEF Entry, Term
  <2>4. QED
    BY <2>1, <2>2, <2>3
<1>3. QED
  BY <1>1, <1>2 DEF Log, TypeOK

\* Nobody who was elected loses the majority behind him.
LEMMA ElectedStays ==
    ASSUME TypeOK, TypeOK', VoteRule, NEW n \in Node, NEW t \in Nat, Elected(n, t)
    PROVE  Elected(n, t)'
<1> DEFINE Q == {q \in Node : Pledged(q, n, t)}
           R == {q \in Node : Pledged(q, n, t)'}
<1>1. Q \subseteq R
  BY Types, TypesNext, NodeFacts DEF Pledged, VoteRule
<1>2. IsMajority(R)
  BY <1>1, MajorityGrows DEF Elected
<1>3. currentTerm'[n] >= t
  BY Types, TypesNext DEF Elected, VoteRule
<1>4. Elected(n, t)' <=> currentTerm'[n] >= t /\ IsMajority(R)
  BY DEF Elected, IsMajority
<1>5. QED
  BY <1>2, <1>3, <1>4

\* What blocks an entry blocks it for good.
LEMMA BlockedStays ==
    ASSUME TypeOK, TypeOK', VoteRule, NEW n \in Node, NEW i \in Nat, Blocked(n, i),
           currentTerm'[n] = currentTerm[n],
           \A q \in Node : currentTerm[q] > currentTerm[n] => matchIndex'[n][q] = matchIndex[n][q]
    PROVE  Blocked(n, i)'
<1>1. PICK R \in SUBSET Node :
          IsMajority(R) /\ \A q \in R : currentTerm[q] > currentTerm[n] /\ matchIndex[n][q] < i
  BY DEF Blocked
<1>2. ASSUME NEW q \in R
      PROVE  currentTerm'[q] > currentTerm'[n] /\ matchIndex'[n][q] < i
  <2>1. /\ q \in Node /\ currentTerm[q] \in Nat /\ currentTerm'[q] \in Nat
        /\ currentTerm[n] \in Nat
    BY Types, TypesNext
  <2>2. currentTerm'[q] >= currentTerm[q]
    BY <2>1 DEF VoteRule
  <2>3. QED
    BY <1>1, <2>1, <2>2
<1>3. IsMajority(R)' /\ \A q \in R : (currentTerm[q] > currentTerm[n] /\ matchIndex[n][q] < i)'
  BY <1>1, <1>2 DEF IsMajority
<1>4. QED
  BY <1>3, Zenon DEF Blocked

-----------------------------------------------------------------------------
(* Steps that change no log. *)

\* Facts about the entries and their terms outlive such a step.
LEMMA SameLogs ==
    ASSUME TypeOK, TypeOK', VoteRule, \A m \in Node : Log(m)' = Log(m),
           EntriesElected, TermsRise, TermChain
    PROVE  EntriesElected' /\ TermsRise' /\ TermChain'
<1>1. ASSUME NEW m \in Node, NEW i \in 1..Len(Log(m)')
      PROVE  \E n \in Node : Elected(n, Log(m)[i].term)'
  <2>1. Log(m)' = Log(m) /\ i \in 1..Len(Log(m)) /\ Log(m)[i].term \in Nat
    BY Types
  <2>2. PICK n \in Node : Elected(n, Log(m)[i].term)
    BY <2>1 DEF EntriesElected
  <2>3. PICK t \in Nat : t = Log(m)[i].term
    BY <2>1
  <2>4. Elected(n, t)'
    BY <2>2, <2>3, ElectedStays
  <2>5. Log(m)'[i].term = t
    BY <2>1, <2>3
  <2>6. QED
    BY <2>4, <2>5
<1>2. EntriesElected'
  BY <1>1 DEF EntriesElected
<1>3. ASSUME NEW m \in Node, NEW j \in 1..Len(Log(m)')
      PROVE  /\ Log(m)'[j].term <= currentTerm'[m]
             /\ \A i \in 1..j : Log(m)'[i].term <= Log(m)'[j].term
  <2>1. /\ Log(m)' = Log(m) /\ j \in 1..Len(Log(m)) /\ Log(m)[j].term \in Nat
        /\ currentTerm[m] \in Nat /\ currentTerm'[m] \in Nat /\ currentTerm'[m] >= currentTerm[m]
    BY Types, TypesNext DEF VoteRule
  <2>2. QED
    BY <2>1 DEF TermsRise
<1>4. TermsRise'
  BY <1>3 DEF TermsRise
<1>5. TermChain'
  BY DEF TermChain
<1>6. QED
  BY <1>2, <1>4, <1>5

\* The majority that holds a committed log still holds it.
LEMMA MajorityHolds ==
    ASSUME TypeOK, TypeOK', VoteRule, NEW C \in Seq(Entry), Held(C),
           \A q \in Node : currentTerm[q] >= CommittedIn(C) /\ Holds(q, C) => Holds(q, C)'
    PROVE  \E Q \in SUBSET Node :
              IsMajority(Q) /\ \A q \in Q : currentTerm'[q] >= CommittedIn(C) /\ Holds(q, C)'
<1>1. PICK Q \in SUBSET Node :
          IsMajority(Q) /\ \A q \in Q : currentTerm[q] >= CommittedIn(C) /\ Holds(q, C)
  BY DEF Held
<1>2. CommittedIn(C) \in Nat
  <2>1. ASSUME C # <<>> PROVE C[Len(C)] \in Entry
    BY <2>1
  <2>2. QED
    BY <2>1 DEF CommittedIn, Entry, Term
<1>3. ASSUME NEW q \in Q PROVE currentTerm'[q] >= CommittedIn(C) /\ Holds(q, C)'
  <2>1. q \in Node /\ currentTerm[q] \in Nat /\ currentTerm'[q] \in Nat
    BY Types, TypesNext
  <2>2. QED
    BY <1>1, <1>2, <2>1 DEF VoteRule
<1>4. QED
  BY <1>1, <1>3

\* An idle step preserves what is known of logs and leaders.
LEMMA IdleSafe ==
    ASSUME TypeOK, TypeOK', LogSafe, Idle
    PROVE  LogSafe'
<1> USE DEF Leads
<1>1. VoteRule /\ (\A m \in Node : Log(m)' = Log(m)) /\ (\A m \in Node : Leads(m)' => Stays(m))
  BY DEF Idle
<1>2. EntriesElected' /\ TermsRise' /\ TermChain'
  BY <1>1, SameLogs DEF LogSafe
<1>3. LeadersElected'
  <2>1. ASSUME NEW n \in Node, Leads(n)' PROVE Elected(n, currentTerm[n])'
    <3>1. PICK t \in Nat : t = currentTerm[n]
      BY Types
    <3>2. Elected(n, t) /\ currentTerm'[n] = t
      BY <1>1, <2>1, <3>1 DEF LogSafe, LeadersElected, Stays
    <3>3. Elected(n, t)'
      BY <1>1, <3>2, ElectedStays
    <3>4. QED
      BY <3>2, <3>3
  <2>2. QED
    BY <2>1 DEF LeadersElected
<1>4. OneLeader'
  BY <1>1 DEF LogSafe, OneLeader, Stays
<1>5. LeaderHasItsTerm'
  BY <1>1 DEF LogSafe, LeaderHasItsTerm, Stays
<1>6. Acknowledged'
  <2>1. ASSUME NEW n \in Node, NEW p \in Node, Leads(n)'
        PROVE  /\ matchIndex'[n][p] <= Len(Log(n)')
               /\ matchIndex'[n][p] > 0 => currentTerm'[p] >= currentTerm'[n]
    <3>1. currentTerm[p] \in Nat /\ currentTerm'[p] \in Nat /\ currentTerm[n] \in Nat
      BY Types, TypesNext
    <3>2. Stays(n) /\ Log(n)' = Log(n) /\ currentTerm'[p] >= currentTerm[p]
      BY <1>1, <2>1 DEF VoteRule
    <3>3. QED
      BY <3>1, <3>2 DEF LogSafe, Acknowledged, Stays
  <2>2. QED
    BY <2>1 DEF Acknowledged
<1>7. EntriesKept'
  <2>1. ASSUME NEW n \in Node, NEW i \in 1..Len(Log(n)'), Leads(n)',
               Log(n)'[i].term = currentTerm'[n]
        PROVE  Blocked(n, i)' \/ \A m \in Node : Bound(m, n, i)' => Agree(Log(n)', Log(m)', i)
    <3>1. Stays(n) /\ Log(n)' = Log(n) /\ i \in Nat
      BY <1>1, <2>1
    <3>2. CASE Blocked(n, i)
      BY <1>1, <3>1, <3>2, BlockedStays DEF Stays
    <3>3. CASE \A m \in Node : Bound(m, n, i) => Agree(Log(n), Log(m), i)
      <4>1. ASSUME NEW m \in Node, Bound(m, n, i)' PROVE Bound(m, n, i)
        BY <1>1, <3>1, <4>1 DEF Bound, Stays
      <4>2. QED
        BY <1>1, <3>3, <4>1
    <3>4. QED
      BY <2>1, <3>1, <3>2, <3>3 DEF LogSafe, EntriesKept, Stays
  <2>2. QED
    BY <2>1 DEF EntriesKept
<1>8. QED
  BY <1>2, <1>3, <1>4, <1>5, <1>6, <1>7 DEF LogSafe

\* Nor does it lose what was committed or known.
LEMMA IdleHeld ==
    ASSUME TypeOK, TypeOK', Idle, NEW C \in Seq(Entry), Held(C)
    PROVE  Held(C)'
<1>1. VoteRule /\ (\A m \in Node : Log(m)' = Log(m)) /\ (\A m \in Node : Leads(m)' => Stays(m))
  BY DEF Idle
<1>2. \A m \in Node : Holds(m, C) => Holds(m, C)'
  BY <1>1 DEF Holds
<1>3. \E Q \in SUBSET Node :
          IsMajority(Q) /\ \A q \in Q : currentTerm'[q] >= CommittedIn(C) /\ Holds(q, C)'
  BY <1>1, <1>2, MajorityHolds
<1>4. \A m \in Node : Leads(m)' /\ currentTerm'[m] >= CommittedIn(C) => Holds(m, C)'
  BY <1>1, <1>2 DEF Held, Stays
<1>5. \A m \in Node :
          (\E j \in 1..Len(Log(m)') : Log(m)'[j].term > CommittedIn(C)) => Holds(m, C)'
  BY <1>1, <1>2 DEF Held
<1>6. QED
  BY <1>3, <1>4, <1>5 DEF Held, IsMajority, CommittedIn

LEMMA IdleKnown ==
    ASSUME TypeOK, TypeOK', Idle, NEW C \in Seq(Entry), KnownIn(C),
           \A m \in Node : Sound(store'[m], C) /\ Known(store'[m]) <= Known(store[m])
    PROVE  KnownIn(C)'
<1>1. ASSUME NEW m \in Node, NEW n \in Node, Leads(n)', currentTerm'[n] >= currentTerm'[m]
      PROVE  Agree(C, Log(n)', Known(store'[m]))
  <2>1. Log(n)' = Log(n) /\ Stays(n) /\ currentTerm'[m] >= currentTerm[m]
    BY <1>1 DEF Idle, VoteRule
  <2>2. /\ currentTerm'[m] \in Nat /\ currentTerm[m] \in Nat /\ currentTerm[n] \in Nat
        /\ Log(n) \in Seq(Entry)
        /\ Known(store[m]) \in Nat /\ Known(store'[m]) \in Nat
    BY SMTT(30), Types, TypesNext DEF Known
  <2>3. Agree(C, Log(n), Known(store[m]))
    BY <1>1, <2>1, <2>2 DEF KnownIn, Stays
  <2>4. QED
    BY <2>1, <2>2, <2>3, AgreeLess
<1>2. QED
  BY <1>1 DEF KnownIn

-----------------------------------------------------------------------------
(* A candidate wins. *)

\* Nobody has been elected for the term a candidate wins.
LEMMA NotElectedBefore ==
    ASSUME TypeOK, NEW n \in Node, NEW V \in SUBSET Node, Wins(n, V), NEW m \in Node
    PROVE  ~Elected(m, currentTerm[n] + 1)
<1> DEFINE t == currentTerm[n] + 1
           P == {q \in Node : Pledged(q, m, t)}
<1>1. SUFFICES ASSUME Elected(m, t) PROVE FALSE
  OBVIOUS
<1>2. IsMajority(V) /\ \A q \in V : Votes(q, n, t)
  BY DEF Wins
<1>3. IsMajority(P) /\ currentTerm[m] >= t
  BY <1>1 DEF Elected
<1>4. PICK q \in Node : q \in P /\ q \in V
  BY <1>2, <1>3, MajoritiesMeet
<1>5. currentTerm[n] \in Nat /\ currentTerm[q] \in Nat /\ currentTerm[m] \in Nat
  BY Types
<1>6. currentTerm[q] = t /\ votedFor[q] = m
  BY <1>2, <1>4, <1>5 DEF Votes, Pledged
<1>7. m # n /\ q # n
  BY <1>3, <1>5, <1>6
<1>8. votedFor[q] \in {Nil, n}
  BY <1>2, <1>4, <1>5, <1>6, <1>7 DEF Votes
<1>9. QED
  BY <1>6, <1>7, <1>8, NodeFacts

\* Whoever is voted for has every entry that its voter has and that all logs with later
\* entries have.
LEMMA VoterHasIt ==
    ASSUME TypeOK, TermsRise, TermChain, NEW q \in Node, NEW n \in Node,
           AtLeast(LastPosition(store[n]), LastPosition(store[q])),
           NEW S \in Seq(Entry), NEW i \in 1..Len(S), Agree(S, Log(q), i),
           \A m \in Node : (\E j \in 1..Len(Log(m)) : Log(m)[j].term > S[i].term)
                              => Agree(S, Log(m), i)
    PROVE  Agree(S, Log(n), i)
<1> DEFINE ln == Len(Log(n))
           lq == Len(Log(q))
<1>1. /\ Log(n) \in Seq(Entry) /\ Log(q) \in Seq(Entry) /\ ln \in Nat /\ lq \in Nat
      /\ \A j \in 1..ln : Log(n)[j].term \in Nat
      /\ \A j \in 1..lq : Log(q)[j].term \in Nat
  BY Types
<1>2. i \in 1..lq /\ lq \in 1..lq /\ S[i] = Log(q)[i] /\ i \in 1..i /\ i \in Nat
  BY <1>1 DEF Agree
<1>3. Log(q)[i].term <= Log(q)[lq].term
  BY <1>2 DEF TermsRise
<1>4. Log(q) # <<>> /\ LastPosition(store[q]) = [term |-> Log(q)[lq].term, index |-> lq]
  BY <1>1, <1>2 DEF LastPosition, Log, Last
<1>5. Log(n) # <<>>
  <2>1. SUFFICES ASSUME Log(n) = <<>> PROVE FALSE
    OBVIOUS
  <2>2. LastPosition(store[n]) = [term |-> 0, index |-> 0]
    BY <2>1 DEF LastPosition, Log
  <2>3. 0 > Log(q)[lq].term \/ (0 = Log(q)[lq].term /\ 0 >= lq)
    BY <1>4, <2>2 DEF AtLeast
  <2>4. Log(q)[lq].term \in Nat /\ lq \in Nat /\ lq >= 1
    BY <1>1, <1>2
  <2>5. QED
    BY <2>3, <2>4
<1>6. ln \in 1..ln /\ LastPosition(store[n]) = [term |-> Log(n)[ln].term, index |-> ln]
  BY <1>1, <1>5 DEF LastPosition, Log, Last
<1>7. Log(n)[ln].term > Log(q)[lq].term \/ (Log(n)[ln].term = Log(q)[lq].term /\ ln >= lq)
  BY <1>4, <1>6 DEF AtLeast
<1> DEFINE tn == Log(n)[ln].term
           tq == Log(q)[lq].term
           ti == Log(q)[i].term
<1>8. tn \in Nat /\ tq \in Nat /\ ti \in Nat /\ S[i].term = ti
  BY <1>1, <1>2, <1>6
<1>9. CASE tn > ti
  BY <1>6, <1>8, <1>9
<1>10. CASE tn = tq /\ ln >= lq
  <2>1. Agree(Log(q), Log(n), lq)
    BY <1>2, <1>6, <1>10 DEF TermChain
  <2>2. i <= lq
    BY <1>2
  <2>3. QED
    BY <1>1, <1>2, <2>1, <2>2, AgreeTrans
<1>11. tn > ti \/ (tn = tq /\ ln >= lq)
  <2>1. tn > tq \/ (tn = tq /\ ln >= lq)
    BY <1>7
  <2>2. ti <= tq
    BY <1>3
  <2> HIDE DEF tn, tq, ti, ln, lq
  <2>3. QED
    BY <1>8, <2>1, <2>2
<1>12. QED
  BY <1>9, <1>10, <1>11

\* A won election preserves what is known of logs and leaders.
LEMMA WinsSafe ==
    ASSUME TypeOK, TypeOK', LogSafe, NEW n \in Node, NEW V \in SUBSET Node, Wins(n, V)
    PROVE  LogSafe'
<1> DEFINE t == currentTerm[n] + 1
<1>1. /\ VoteRule /\ (\A m \in Node : Log(m)' = Log(m))
      /\ (\A m \in Node : m # n /\ Leads(m)' => Stays(m))
      /\ currentTerm'[n] = t /\ t \in Nat
      /\ \A p \in Node : matchIndex'[n][p] = IF p = n THEN Len(Log(n)) ELSE 0
      /\ n \in V /\ IsMajority(V) /\ \A q \in V : Votes(q, n, t)
  BY Types DEF Wins
<1>2. \A m \in Node : ~Elected(m, t)
  BY NotElectedBefore
<1>3. \A m \in Node : \A i \in 1..Len(Log(m)) : Log(m)[i].term # t
  BY <1>2 DEF LogSafe, EntriesElected
<1>4. \A m \in Node : Leads(m) => currentTerm[m] # t
  BY <1>2 DEF LogSafe, LeadersElected
<1> HIDE DEF t
<1>5. EntriesElected' /\ TermsRise' /\ TermChain'
  BY <1>1, SameLogs DEF LogSafe
<1>6. LeadersElected'
  <2>1. ASSUME NEW m \in Node, Leads(m)', m # n PROVE Elected(m, currentTerm[m])'
    <3>1. PICK u \in Nat : u = currentTerm[m]
      BY Types
    <3>2. Elected(m, u) /\ currentTerm'[m] = u
      BY <1>1, <2>1, <3>1 DEF LogSafe, LeadersElected, Stays
    <3>3. Elected(m, u)'
      BY <1>1, <3>2, ElectedStays
    <3>4. QED
      BY <3>2, <3>3
  <2>2. Elected(n, currentTerm[n])'
    <3> DEFINE P == {q \in Node : Pledged(q, n, currentTerm[n])'}
    <3>1. V \subseteq P
      BY <1>1 DEF Votes, Pledged
    <3>2. IsMajority(P)
      BY <1>1, <3>1, MajorityGrows
    <3>3. currentTerm'[n] >= currentTerm'[n]
      BY <1>1
    <3>4. QED
      BY <3>2, <3>3 DEF Elected, IsMajority
  <2>3. QED
    BY <2>1, <2>2 DEF LeadersElected
<1>7. OneLeader'
  <2>1. ASSUME NEW m \in Node, NEW x \in Node, Leads(m)', Leads(x)',
               currentTerm'[m] = currentTerm'[x]
        PROVE  m = x
    <3>1. CASE m # n /\ x # n
      BY <1>1, <2>1, <3>1 DEF LogSafe, OneLeader, Stays
    <3>2. \A y \in Node : Leads(y)' /\ y # n => currentTerm'[y] # t
      BY <1>1, <1>4 DEF Stays
    <3>3. QED
      BY <1>1, <2>1, <3>1, <3>2
  <2>2. QED
    BY <2>1 DEF OneLeader
<1>8. LeaderHasItsTerm'
  <2>1. ASSUME NEW m \in Node, NEW x \in Node, NEW i \in 1..Len(Log(m)'),
               Leads(x)', Log(m)'[i].term = currentTerm'[x]
        PROVE  Agree(Log(m)', Log(x)', i)
    <3>1. x # n
      BY <1>1, <1>3, <2>1
    <3>2. QED
      BY <1>1, <2>1, <3>1 DEF LogSafe, LeaderHasItsTerm, Stays
  <2>2. QED
    BY <2>1 DEF LeaderHasItsTerm
<1>9. Acknowledged'
  <2>1. ASSUME NEW x \in Node, NEW p \in Node, Leads(x)'
        PROVE  /\ matchIndex'[x][p] <= Len(Log(x)')
               /\ matchIndex'[x][p] > 0 => currentTerm'[p] >= currentTerm'[x]
    <3>1. /\ currentTerm[p] \in Nat /\ currentTerm'[p] \in Nat /\ currentTerm[x] \in Nat
          /\ currentTerm'[x] \in Nat /\ Len(Log(n)) \in Nat
      BY Types, TypesNext
    <3>2. CASE x = n
      BY <1>1, <3>1, <3>2
    <3>3. CASE x # n
      <4>1. Stays(x) /\ Log(x)' = Log(x) /\ currentTerm'[p] >= currentTerm[p]
        BY <1>1, <2>1, <3>3 DEF VoteRule
      <4>2. QED
        BY <3>1, <4>1 DEF LogSafe, Acknowledged, Stays
    <3>4. QED
      BY <3>2, <3>3
  <2>2. QED
    BY <2>1 DEF Acknowledged
<1>10. EntriesKept'
  <2>1. ASSUME NEW x \in Node, NEW i \in 1..Len(Log(x)'), Leads(x)',
               Log(x)'[i].term = currentTerm'[x]
        PROVE  Blocked(x, i)' \/ \A m \in Node : Bound(m, x, i)' => Agree(Log(x)', Log(m)', i)
    <3>1. x # n
      BY <1>1, <1>3, <2>1
    <3>2. Stays(x) /\ Leads(x) /\ Log(x)' = Log(x) /\ i \in Nat /\ i \in 1..Len(Log(x))
      BY <1>1, <2>1, <3>1 DEF Stays
    <3>3. Log(x)[i].term = currentTerm[x] /\ Log(x) \in Seq(Entry)
      BY <2>1, <3>2, Types DEF Stays
    <3>4. CASE Blocked(x, i)
      BY <1>1, <3>2, <3>4, BlockedStays DEF Stays
    <3>5. CASE \A m \in Node : Bound(m, x, i) => Agree(Log(x), Log(m), i)
      <4>1. ASSUME NEW m \in Node, m # n \/ ~(currentTerm'[n] > currentTerm'[x]),
                   Bound(m, x, i)'
            PROVE  Agree(Log(x), Log(m), i)
        <5>1. Bound(m, x, i)
          BY <1>1, <3>2, <4>1 DEF Bound, Stays
        <5>2. QED
          BY <3>5, <5>1
      <4>2. CASE ~(t > currentTerm[x])
        BY <1>1, <3>2, <4>1, <4>2 DEF Stays
      <4>3. CASE t > currentTerm[x] /\ \A q \in V : matchIndex[x][q] < i
        <5>1. \A q \in V : currentTerm'[q] > currentTerm'[x] /\ matchIndex'[x][q] < i
          BY <1>1, <3>2, <4>3 DEF Votes, Stays
        <5>2. Blocked(x, i)'
          BY <1>1, <5>1 DEF Blocked, IsMajority
        <5>3. QED
          BY <5>2
      <4>4. CASE t > currentTerm[x] /\ \E q \in V : ~(matchIndex[x][q] < i)
        <5>1. PICK q \in V : ~(matchIndex[x][q] < i)
          BY <4>4
        <5>2. q \in Node /\ matchIndex[x][q] >= i
          BY <3>2, <5>1, Types
        <5>3. Agree(Log(x), Log(q), i)
          BY <3>5, <5>2 DEF Bound
        <5>4. \A m \in Node : (\E j \in 1..Len(Log(m)) : Log(m)[j].term > Log(x)[i].term)
                                 => Agree(Log(x), Log(m), i)
          BY <3>3, <3>5 DEF Bound
        <5>5. q # n => AtLeast(LastPosition(store[n]), LastPosition(store[q]))
          BY <1>1 DEF Votes
        <5>6. Agree(Log(x), Log(n), i)
          BY <3>2, <3>3, <5>2, <5>3, <5>4, <5>5, VoterHasIt DEF LogSafe
        <5>7. QED
          BY <1>1, <4>1, <5>6
      <4>5. QED
        BY <4>2, <4>3, <4>4
    <3>6. QED
      BY <3>2, <3>3, <3>4, <3>5 DEF LogSafe, EntriesKept
  <2>2. QED
    BY <2>1 DEF EntriesKept
<1>11. QED
  BY <1>5, <1>6, <1>7, <1>8, <1>9, <1>10 DEF LogSafe

\* The winner has everything that was committed.
LEMMA WinnerHolds ==
    ASSUME TypeOK, LogSafe, NEW n \in Node, NEW V \in SUBSET Node, Wins(n, V),
           NEW C \in Seq(Entry), Held(C)
    PROVE  Holds(n, C)
<1>1. PICK Q \in SUBSET Node : IsMajority(Q) /\ \A q \in Q : Holds(q, C)
  BY DEF Held
<1>2. IsMajority(V)
  BY DEF Wins
<1>3. PICK q \in Node : q \in Q /\ q \in V
  BY <1>1, <1>2, MajoritiesMeet
<1>4. Holds(q, C) /\ (q # n => AtLeast(LastPosition(store[n]), LastPosition(store[q])))
  BY <1>1, <1>3 DEF Wins, Votes
<1>5. CASE C = <<>>
  BY <1>5, Types DEF Holds, Agree
<1>6. CASE C # <<>> /\ q # n
  <2>1. Len(C) \in 1..Len(C) /\ CommittedIn(C) = C[Len(C)].term
    BY <1>6 DEF CommittedIn
  <2>2. \A m \in Node : (\E j \in 1..Len(Log(m)) : Log(m)[j].term > C[Len(C)].term)
                           => Agree(C, Log(m), Len(C))
    BY <2>1 DEF Held, Holds
  <2>3. QED
    BY <1>4, <1>6, <2>1, <2>2, VoterHasIt DEF Holds, LogSafe
<1>7. QED
  BY <1>4, <1>5, <1>6

\* So it neither loses what was committed nor what a node knows to be.
LEMMA WinsHeld ==
    ASSUME TypeOK, TypeOK', LogSafe, NEW n \in Node, NEW V \in SUBSET Node, Wins(n, V),
           NEW C \in Seq(Entry), Held(C)
    PROVE  Held(C)'
<1>1. /\ VoteRule /\ (\A m \in Node : Log(m)' = Log(m))
      /\ (\A m \in Node : m # n /\ Leads(m)' => Stays(m))
  BY DEF Wins
<1>2. \A m \in Node : Holds(m, C) => Holds(m, C)'
  BY <1>1 DEF Holds
<1>3. \E Q \in SUBSET Node :
          IsMajority(Q) /\ \A q \in Q : currentTerm'[q] >= CommittedIn(C) /\ Holds(q, C)'
  BY <1>1, <1>2, MajorityHolds
<1>4. \A m \in Node : Leads(m)' /\ currentTerm'[m] >= CommittedIn(C) => Holds(m, C)'
  BY <1>1, <1>2, WinnerHolds DEF Held, Stays
<1>5. \A m \in Node :
          (\E j \in 1..Len(Log(m)') : Log(m)'[j].term > CommittedIn(C)) => Holds(m, C)'
  BY <1>1, <1>2 DEF Held
<1>6. QED
  BY <1>3, <1>4, <1>5 DEF Held, IsMajority, CommittedIn

LEMMA WinsKnown ==
    ASSUME TypeOK, TypeOK', LogSafe, NEW n \in Node, NEW V \in SUBSET Node, Wins(n, V),
           store' = store, NEW C \in Seq(Entry), Held(C), KnownIn(C)
    PROVE  KnownIn(C)'
<1>1. ASSUME NEW m \in Node, NEW x \in Node, Leads(x)', currentTerm'[x] >= currentTerm'[m]
      PROVE  Agree(C, Log(x)', Known(store'[m]))
  <2>1. /\ currentTerm'[m] \in Nat /\ currentTerm[m] \in Nat /\ currentTerm'[x] \in Nat
        /\ Log(n) \in Seq(Entry) /\ Known(store[m]) \in Nat
        /\ currentTerm'[m] >= currentTerm[m]
        /\ Log(x)' = Log(x)
    BY Types, TypesNext DEF Known, Wins, VoteRule
  <2>2. CASE x = n
    <3>1. Agree(C, Log(n), Len(C)) /\ Len(C) \in Nat
      BY WinnerHolds DEF Holds
    <3>2. Known(store[m]) <= Len(C)
      BY DEF KnownIn, Sound, Known, Agree
    <3>3. QED
      BY <2>1, <2>2, <3>1, <3>2, AgreeLess
  <2>3. CASE x # n
    <3>1. Stays(x)
      BY <1>1, <2>3 DEF Wins
    <3>2. QED
      BY <1>1, <2>1, <3>1 DEF KnownIn, Stays
  <2>4. QED
    BY <2>2, <2>3
<1>2. \A m \in Node : Sound(store'[m], C)
  BY DEF KnownIn
<1>3. QED
  BY <1>1, <1>2 DEF KnownIn

-----------------------------------------------------------------------------
(* A leader hands out its log. *)

\* What is in a log is in one that extends it.
LEMMA ExtendsKeeps ==
    ASSUME TypeOK, NEW n \in Node, NEW L \in Seq(Entry), Extends(L, n),
           NEW S \in Seq(Entry), NEW i \in Nat, Agree(S, Log(n), i)
    PROVE  Agree(S, L, i)
<1>1. Log(n) \in Seq(Entry) /\ Len(Log(n)) \in Nat
  BY Types
<1>2. Agree(Log(n), L, Len(Log(n))) /\ i <= Len(Log(n))
  BY <1>1 DEF Extends, Agree
<1>3. QED
  BY <1>1, <1>2, AgreeTrans

\* The entries of the log handed out are those of the leader and new ones of its term.
LEMMA ExtendedEntries ==
    ASSUME TypeOK, TermsRise, NEW n \in Node, NEW L \in Seq(Entry), Extends(L, n)
    PROVE  /\ Len(L) \in Nat /\ Len(Log(n)) \in Nat /\ Len(Log(n)) <= Len(L)
           /\ \A j \in 1..Len(L) :
                 /\ L[j].term \in Nat /\ L[j].term <= currentTerm[n]
                 /\ \/ j \in 1..Len(Log(n)) /\ L[j] = Log(n)[j] /\ Agree(L, Log(n), j)
                    \/ j > Len(Log(n)) /\ L[j].term = currentTerm[n]
                 /\ \A i \in 1..j : L[i].term <= L[j].term
<1>1. /\ Log(n) \in Seq(Entry) /\ Len(Log(n)) \in Nat /\ currentTerm[n] \in Nat
      /\ \A i \in 1..Len(Log(n)) : Log(n)[i].term \in Nat
  BY Types
<1>2. Len(Log(n)) <= Len(L) /\ Len(L) \in Nat /\ \A j \in 1..Len(Log(n)) : Log(n)[j] = L[j]
  BY DEF Extends, Agree
<1>3. ASSUME NEW j \in 1..Len(L)
      PROVE  /\ L[j].term \in Nat /\ L[j].term <= currentTerm[n]
             /\ \/ j \in 1..Len(Log(n)) /\ L[j] = Log(n)[j]
                \/ j > Len(Log(n)) /\ L[j].term = currentTerm[n]
  <2>1. CASE j \in 1..Len(Log(n))
    BY <1>1, <1>2, <2>1 DEF TermsRise
  <2>2. CASE j > Len(Log(n))
    BY <1>1, <1>2, <2>2 DEF Extends
  <2>3. QED
    BY <1>1, <2>1, <2>2
<1>4. ASSUME NEW j \in 1..Len(Log(n)) PROVE Agree(L, Log(n), j)
  BY <1>1, <1>2 DEF Agree
<1>5. ASSUME NEW j \in 1..Len(L), NEW i \in 1..j PROVE L[i].term <= L[j].term
  <2>1. i \in 1..Len(L) /\ L[i].term \in Nat /\ L[j].term \in Nat
    BY <1>2, <1>3
  <2>2. CASE j \in 1..Len(Log(n))
    <3>1. i \in 1..Len(Log(n)) /\ L[i] = Log(n)[i] /\ L[j] = Log(n)[j]
      BY <1>1, <1>2, <2>2
    <3>2. QED
      BY <2>2, <3>1 DEF TermsRise
  <2>3. CASE j > Len(Log(n))
    <3>1. L[j].term = currentTerm[n]
      BY <1>1, <1>3, <2>3
    <3>2. QED
      BY <1>3, <2>1, <3>1
  <2>4. QED
    BY <1>1, <2>2, <2>3
<1>6. QED
  BY <1>1, <1>2, <1>3, <1>4, <1>5

\* Once a later leader was elected, a leader's new entry cannot be committed.
LEMMA NewIsBlocked ==
    ASSUME TypeOK, TypeOK', Acknowledged, NEW n \in Node, NEW L \in Seq(Entry),
           NEW A \in SUBSET Node, Round(n, L, A), Leads(n)', NEW i \in Nat, i > Len(Log(n)),
           NEW c \in Node, NEW t \in Nat, Elected(c, t), t > currentTerm[n]
    PROVE  Blocked(n, i)'
<1> DEFINE R == {q \in Node : Pledged(q, c, t)}
<1>1. IsMajority(R)
  BY DEF Elected
<1>2. ASSUME NEW q \in R
      PROVE  currentTerm'[q] > currentTerm'[n] /\ matchIndex'[n][q] < i
  <2>1. /\ q \in Node /\ currentTerm[q] \in Nat /\ currentTerm'[q] \in Nat /\ currentTerm[n] \in Nat
        /\ matchIndex[n][q] \in Nat /\ Len(Log(n)) \in Nat
    BY Types, TypesNext
  <2>2. currentTerm[q] > currentTerm[n]
    BY <2>1 DEF Pledged
  <2>3. q \notin A \cup {n}
    BY <2>1, <2>2 DEF Round
  <2>4. /\ currentTerm'[n] = currentTerm[n] /\ currentTerm'[q] >= currentTerm[q]
        /\ matchIndex'[n][q] = matchIndex[n][q]
    BY <2>1, <2>3 DEF Round, VoteRule
  <2>5. matchIndex[n][q] <= Len(Log(n))
    BY <2>1 DEF Acknowledged, Round
  <2>6. QED
    BY <2>1, <2>2, <2>4, <2>5
<1>3. QED
  BY <1>1, <1>2 DEF Blocked, IsMajority

\* What a round says of the nodes.
LEMMA RoundFacts ==
    ASSUME TypeOK, TypeOK', LogSafe, NEW n \in Node, NEW L \in Seq(Entry),
           NEW A \in SUBSET Node, Round(n, L, A)
    PROVE  /\ VoteRule /\ Leads(n) /\ n \notin A /\ Extends(L, n)
           /\ \A m \in Node : m \in A \cup {n} => Log(m)' = L
           /\ \A m \in Node : m \notin A \cup {n} => Log(m)' = Log(m)
           /\ \A m \in Node : Leads(m)' =>
                 /\ Leads(m) /\ currentTerm'[m] = currentTerm[m] /\ m \notin A
                 /\ m # n => Stays(m) /\ Log(m)' = Log(m)
                 /\ \A q \in Node : currentTerm[q] > currentTerm[m] =>
                       matchIndex'[m][q] = matchIndex[m][q]
<1>1. ASSUME NEW m \in Node, Leads(m)'
      PROVE  /\ Leads(m) /\ currentTerm'[m] = currentTerm[m] /\ m \notin A
             /\ m # n => Stays(m) /\ Log(m)' = Log(m)
             /\ \A q \in Node : currentTerm[q] > currentTerm[m] =>
                   matchIndex'[m][q] = matchIndex[m][q]
  <2>1. m \notin A
    BY <1>1 DEF Round
  <2>2. CASE m # n
    BY <1>1, <2>1, <2>2 DEF Round, Stays
  <2>3. CASE m = n
    <3>1. Leads(n) /\ currentTerm'[n] = currentTerm[n]
      BY <1>1, <2>3 DEF Round
    <3>2. ASSUME NEW q \in Node, currentTerm[q] > currentTerm[n]
          PROVE  matchIndex'[n][q] = matchIndex[n][q]
      <4>1. currentTerm[q] \in Nat /\ currentTerm[n] \in Nat
        BY Types
      <4>2. q \notin A \cup {n}
        BY <3>2, <4>1 DEF Round
      <4>3. QED
        BY <1>1, <2>3, <4>2 DEF Round
    <3>3. QED
      BY <2>1, <2>3, <3>1, <3>2
  <2>4. QED
    BY <2>2, <2>3
<1>2. QED
  BY <1>1 DEF Round

\* A round preserves what is known of leaders and of terms.
LEMMA RoundLeaders ==
    ASSUME TypeOK, TypeOK', LogSafe, NEW n \in Node, NEW L \in Seq(Entry),
           NEW A \in SUBSET Node, Round(n, L, A)
    PROVE  LeadersElected' /\ OneLeader' /\ EntriesElected' /\ TermsRise' /\ Acknowledged'
<1> DEFINE M == A \cup {n}
<1>1. /\ VoteRule /\ Leads(n) /\ n \notin A /\ Extends(L, n)
      /\ \A m \in Node : m \in M => Log(m)' = L
      /\ \A m \in Node : m \notin M => Log(m)' = Log(m)
      /\ \A m \in Node : Leads(m)' =>
            Leads(m) /\ currentTerm'[m] = currentTerm[m] /\ m \notin A /\ (m # n => Stays(m))
  BY RoundFacts
<1>2. /\ Len(L) \in Nat /\ Len(Log(n)) \in Nat /\ Len(Log(n)) <= Len(L)
      /\ \A j \in 1..Len(L) :
            /\ L[j].term \in Nat /\ L[j].term <= currentTerm[n]
            /\ \/ j \in 1..Len(Log(n)) /\ L[j] = Log(n)[j]
               \/ j > Len(Log(n)) /\ L[j].term = currentTerm[n]
            /\ \A i \in 1..j : L[i].term <= L[j].term
  BY <1>1, ExtendedEntries DEF LogSafe
<1> HIDE DEF M
<1>3. LeadersElected'
  <2>1. ASSUME NEW m \in Node, Leads(m)' PROVE Elected(m, currentTerm[m])'
    <3>1. PICK u \in Nat : u = currentTerm[m]
      BY Types
    <3>2. Elected(m, u) /\ currentTerm'[m] = u
      BY <1>1, <2>1, <3>1 DEF LogSafe, LeadersElected
    <3>3. Elected(m, u)'
      BY <1>1, <3>2, ElectedStays
    <3>4. QED
      BY <3>2, <3>3
  <2>2. QED
    BY <2>1 DEF LeadersElected
<1>4. OneLeader'
  <2>1. ASSUME NEW m \in Node, NEW x \in Node, Leads(m)', Leads(x)',
               currentTerm'[m] = currentTerm'[x]
        PROVE  m = x
    <3>1. Leads(m) /\ Leads(x) /\ currentTerm[m] = currentTerm[x]
      BY <1>1, <2>1
    <3>2. QED
      BY <3>1 DEF LogSafe, OneLeader
  <2>2. QED
    BY <2>1 DEF OneLeader
<1>5. EntriesElected'
  <2>1. ASSUME NEW m \in Node, NEW i \in 1..Len(Log(m)')
        PROVE  \E c \in Node : Elected(c, Log(m)[i].term)'
    <3>1. PICK c \in Node, u \in Nat : u = Log(m)'[i].term /\ Elected(c, u)
      <4>1. Log(m)'[i].term \in Nat
        BY TypesNext
      <4>2. CASE m \notin M
        BY <1>1, <4>1, <4>2 DEF LogSafe, EntriesElected
      <4>3. CASE m \in M /\ i \in 1..Len(Log(n)) /\ L[i] = Log(n)[i]
        BY <1>1, <4>1, <4>3 DEF LogSafe, EntriesElected
      <4>4. CASE m \in M /\ L[i].term = currentTerm[n]
        BY <1>1, <4>1, <4>4 DEF LogSafe, LeadersElected
      <4>5. QED
        BY <1>1, <1>2, <4>2, <4>3, <4>4
    <3>2. Elected(c, u)'
      BY <1>1, <3>1, ElectedStays
    <3>3. QED
      BY <3>1, <3>2
  <2>2. QED
    BY <2>1 DEF EntriesElected
<1>6. TermsRise'
  <2>1. ASSUME NEW m \in Node, NEW j \in 1..Len(Log(m)')
        PROVE  /\ Log(m)'[j].term <= currentTerm'[m]
               /\ \A i \in 1..j : Log(m)'[i].term <= Log(m)'[j].term
    <3>1. /\ currentTerm[m] \in Nat /\ currentTerm'[m] \in Nat /\ currentTerm[n] \in Nat
          /\ currentTerm'[m] >= currentTerm[m] /\ Log(m)'[j].term \in Nat
      BY <1>1, Types, TypesNext DEF VoteRule
    <3>2. CASE m \notin M
      BY <1>1, <3>1, <3>2 DEF LogSafe, TermsRise
    <3>3. CASE m \in M
      <4>1. currentTerm'[m] >= currentTerm[n]
        BY <3>1, <3>3 DEF M, Round
      <4>2. QED
        BY <1>1, <1>2, <3>1, <3>3, <4>1
    <3>4. QED
      BY <3>2, <3>3
  <2>2. QED
    BY <2>1 DEF TermsRise
<1>7. Acknowledged'
  <2>1. ASSUME NEW x \in Node, NEW p \in Node, Leads(x)'
        PROVE  /\ matchIndex'[x][p] <= Len(Log(x)')
               /\ matchIndex'[x][p] > 0 => currentTerm'[p] >= currentTerm'[x]
    <3>1. /\ currentTerm[p] \in Nat /\ currentTerm'[p] \in Nat /\ currentTerm[x] \in Nat
          /\ currentTerm'[x] = currentTerm[x] /\ currentTerm'[p] >= currentTerm[p]
          /\ matchIndex[x][p] \in Nat /\ Len(Log(x)) \in Nat
          /\ matchIndex[x][p] <= Len(Log(x))
          /\ matchIndex[x][p] > 0 => currentTerm[p] >= currentTerm[x]
      BY <1>1, <2>1, Types, TypesNext DEF LogSafe, Acknowledged, VoteRule
    <3>2. CASE x # n
      <4>1. Log(x)' = Log(x) /\ Stays(x)
        BY <1>1, <2>1, <3>2 DEF M
      <4>2. QED
        BY <3>1, <4>1 DEF Stays
    <3>3. CASE x = n /\ p \notin M
      <4>1. matchIndex'[n][p] = matchIndex[n][p] /\ Log(n)' = L
        BY <1>1, <2>1, <3>3 DEF M, Round
      <4>2. QED
        BY <1>2, <3>1, <3>3, <4>1
    <3>4. CASE x = n /\ p \in M
      <4>1. matchIndex'[n][p] = Len(L) /\ Log(n)' = L
        BY <1>1, <2>1, <3>4 DEF M, Round
      <4>2. currentTerm'[p] >= currentTerm[n]
        BY <3>1, <3>4 DEF M, Round
      <4>3. QED
        BY <1>2, <3>1, <3>4, <4>1, <4>2
    <3>5. QED
      BY <3>2, <3>3, <3>4
  <2>2. QED
    BY <2>1 DEF Acknowledged
<1>8. QED
  BY <1>3, <1>4, <1>5, <1>6, <1>7

\* It keeps the logs one chain per term.
LEMMA RoundChain ==
    ASSUME TypeOK, TypeOK', LogSafe, NEW n \in Node, NEW L \in Seq(Entry),
           NEW A \in SUBSET Node, Round(n, L, A)
    PROVE  TermChain' /\ LeaderHasItsTerm'
<1> DEFINE M == A \cup {n}
<1>1. /\ VoteRule /\ Leads(n) /\ n \notin A /\ Extends(L, n)
      /\ \A m \in Node : m \in M => Log(m)' = L
      /\ \A m \in Node : m \notin M => Log(m)' = Log(m)
      /\ \A m \in Node : Leads(m)' =>
            /\ Leads(m) /\ currentTerm'[m] = currentTerm[m] /\ m \notin A
            /\ m # n => Log(m)' = Log(m)
  BY RoundFacts
<1>2. /\ Len(L) \in Nat /\ Len(Log(n)) \in Nat
      /\ \A j \in 1..Len(L) :
            \/ j \in 1..Len(Log(n)) /\ L[j] = Log(n)[j] /\ Agree(L, Log(n), j)
            \/ j > Len(Log(n)) /\ L[j].term = currentTerm[n]
  BY <1>1, ExtendedEntries DEF LogSafe
<1> HIDE DEF M
\* Logs that have an entry of L up to one of the same term.
<1>3. ASSUME NEW x \in Node, NEW i \in 1..Len(L), NEW j \in 1..Len(Log(x)),
             L[i].term = Log(x)[j].term, i <= j
      PROVE  Agree(L, Log(x), i)
  <2>1. Log(x) \in Seq(Entry) /\ Log(n) \in Seq(Entry) /\ i \in Nat /\ j \in Nat
    BY Types
  <2>2. CASE i \in 1..Len(Log(n)) /\ L[i] = Log(n)[i] /\ Agree(L, Log(n), i)
    <3>1. Agree(Log(n), Log(x), i)
      BY <1>3, <2>2 DEF LogSafe, TermChain
    <3>2. QED
      BY <2>1, <2>2, <3>1, AgreeTrans
  <2>3. CASE i > Len(Log(n)) /\ L[i].term = currentTerm[n]
    <3>1. Agree(Log(x), Log(n), j)
      BY <1>1, <1>3, <2>3 DEF LogSafe, LeaderHasItsTerm
    <3>2. j <= Len(Log(n))
      BY <3>1 DEF Agree
    <3>3. QED
      BY <1>2, <1>3, <2>1, <2>3, <3>2
  <2>4. QED
    BY <1>2, <2>2, <2>3
<1>4. ASSUME NEW x \in Node, NEW i \in 1..Len(Log(x)), NEW j \in 1..Len(L),
             Log(x)[i].term = L[j].term, i <= j
      PROVE  Agree(Log(x), L, i)
  <2>1. Log(x) \in Seq(Entry) /\ i \in Nat
    BY Types
  <2>2. Agree(Log(x), Log(n), i)
    BY <1>1, <1>2, <1>4 DEF LogSafe, TermChain, LeaderHasItsTerm
  <2>3. QED
    BY <1>1, <2>1, <2>2, ExtendsKeeps
<1>5. TermChain'
  <2>1. ASSUME NEW m \in Node, NEW x \in Node, NEW i \in 1..Len(Log(m)'),
               NEW j \in 1..Len(Log(x)'), Log(m)'[i].term = Log(x)'[j].term, i <= j
        PROVE  Agree(Log(m)', Log(x)', i)
    <3>1. CASE m \in M /\ x \in M
      <4>1. Log(m)' = L /\ Log(x)' = L /\ i \in 1..Len(L)
        BY <1>1, <3>1
      <4>2. QED
        BY <1>2, <4>1 DEF Agree
    <3>2. CASE m \in M /\ x \notin M
      BY <1>1, <1>3, <2>1, <3>2
    <3>3. CASE m \notin M /\ x \in M
      BY <1>1, <1>4, <2>1, <3>3
    <3>4. CASE m \notin M /\ x \notin M
      BY <1>1, <2>1, <3>4 DEF LogSafe, TermChain
    <3>5. QED
      BY <3>1, <3>2, <3>3, <3>4
  <2>2. QED
    BY <2>1 DEF TermChain
<1>6. LeaderHasItsTerm'
  <2>1. ASSUME NEW m \in Node, NEW x \in Node, NEW i \in 1..Len(Log(m)'),
               Leads(x)', Log(m)'[i].term = currentTerm'[x]
        PROVE  Agree(Log(m)', Log(x)', i)
    <3>1. Leads(x) /\ currentTerm'[x] = currentTerm[x] /\ x \notin A
      BY <1>1, <2>1
    <3>2. CASE x = n /\ m \in M
      <4>1. Log(m)' = L /\ Log(x)' = L /\ i \in 1..Len(L)
        BY <1>1, <3>2 DEF M
      <4>2. QED
        BY <1>2, <4>1 DEF Agree
    <3>3. CASE x = n /\ m \notin M
      <4>1. Log(m)' = Log(m) /\ Log(x)' = L /\ Log(m) \in Seq(Entry) /\ i \in Nat
        BY <1>1, <3>3, Types DEF M
      <4>2. Agree(Log(m), Log(n), i)
        BY <2>1, <3>1, <3>3, <4>1 DEF LogSafe, LeaderHasItsTerm
      <4>3. QED
        BY <1>1, <4>1, <4>2, ExtendsKeeps
    <3>4. CASE x # n /\ m \notin M
      BY <1>1, <2>1, <3>1, <3>4 DEF LogSafe, LeaderHasItsTerm
    <3>5. CASE x # n /\ m \in M
      <4>1. Log(m)' = L /\ Log(x)' = Log(x) /\ i \in 1..Len(L) /\ L[i].term = currentTerm[x]
        BY <1>1, <2>1, <3>1, <3>5
      <4>2. L[i].term # currentTerm[n]
        BY <1>1, <3>1, <3>5, <4>1 DEF LogSafe, OneLeader
      <4>3. i \in 1..Len(Log(n)) /\ L[i] = Log(n)[i] /\ Agree(L, Log(n), i)
        BY <1>2, <4>1, <4>2
      <4>4. Agree(Log(n), Log(x), i)
        BY <3>1, <4>1, <4>3 DEF LogSafe, LeaderHasItsTerm
      <4>5. Log(x) \in Seq(Entry) /\ Log(n) \in Seq(Entry) /\ i \in Nat
        BY Types
      <4>6. QED
        BY <4>1, <4>3, <4>4, <4>5, AgreeTrans
    <3>6. QED
      BY <3>2, <3>3, <3>4, <3>5
  <2>2. QED
    BY <2>1 DEF LeaderHasItsTerm
<1>7. QED
  BY <1>5, <1>6

\* And who must have an entry still has it.
LEMMA RoundKeeps ==
    ASSUME TypeOK, TypeOK', LogSafe, NEW n \in Node, NEW L \in Seq(Entry),
           NEW A \in SUBSET Node, Round(n, L, A)
    PROVE  EntriesKept'
<1> DEFINE M == A \cup {n}
<1>1. /\ VoteRule /\ Leads(n) /\ n \notin A /\ Extends(L, n)
      /\ \A m \in Node : m \in M => Log(m)' = L
      /\ \A m \in Node : m \notin M => Log(m)' = Log(m)
      /\ \A m \in Node : Leads(m)' =>
            /\ Leads(m) /\ currentTerm'[m] = currentTerm[m] /\ m \notin A
            /\ m # n => Stays(m) /\ Log(m)' = Log(m)
            /\ \A q \in Node : currentTerm[q] > currentTerm[m] =>
                  matchIndex'[m][q] = matchIndex[m][q]
  BY RoundFacts
<1>2. /\ Len(L) \in Nat /\ Len(Log(n)) \in Nat
      /\ \A j \in 1..Len(L) :
            /\ L[j].term \in Nat /\ L[j].term <= currentTerm[n]
            /\ \/ j \in 1..Len(Log(n)) /\ L[j] = Log(n)[j]
               \/ j > Len(Log(n)) /\ L[j].term = currentTerm[n]
  BY <1>1, ExtendedEntries DEF LogSafe
<1>3. ASSUME NEW x \in Node, NEW i \in 1..Len(Log(x)'), Leads(x)',
             Log(x)'[i].term = currentTerm'[x]
      PROVE  Blocked(x, i)' \/ \A m \in Node : Bound(m, x, i)' => Agree(Log(x)', Log(m)', i)
  <2>1. /\ Leads(x) /\ currentTerm'[x] = currentTerm[x] /\ x \notin A
        /\ \A q \in Node : currentTerm[q] > currentTerm[x] => matchIndex'[x][q] = matchIndex[x][q]
        /\ x # n => Stays(x) /\ Log(x)' = Log(x)
        /\ i \in Nat /\ i >= 1
        /\ currentTerm[x] \in Nat /\ currentTerm[n] \in Nat /\ Log(n) \in Seq(Entry)
    BY <1>1, <1>3, Types
  <2>2. CASE Blocked(x, i)
    BY <1>1, <2>1, <2>2, BlockedStays
  <2>3. CASE x # n /\ \A m \in Node : Bound(m, x, i) => Agree(Log(x), Log(m), i)
    <3>1. Stays(x) /\ Log(x)' = Log(x) /\ Log(x) \in Seq(Entry)
      BY <2>1, <2>3, Types
    <3>2. ASSUME NEW m \in Node, Bound(m, x, i)', m \notin M
          PROVE  Agree(Log(x)', Log(m)', i)
      <4>1. Log(m)' = Log(m) /\ (Leads(m)' => Leads(m) /\ currentTerm'[m] = currentTerm[m])
        BY <1>1, <3>2
      <4>2. Bound(m, x, i)
        BY <3>1, <3>2, <4>1 DEF Bound, Stays
      <4>3. QED
        BY <2>3, <3>1, <4>1, <4>2
    <3>3. ASSUME NEW m \in Node, Bound(m, x, i)', m \in M
          PROVE  Agree(Log(x)', Log(m)', i)
      <4>1. Log(m)' = L /\ (Leads(m)' => m = n)
        BY <1>1, <3>3 DEF M
      <4>2. Bound(n, x, i)
        <5>1. \/ Leads(m)' /\ currentTerm'[m] > currentTerm'[x]
              \/ \E j \in 1..Len(L) : L[j].term > currentTerm[x]
              \/ matchIndex[x][m] >= i
          BY <2>1, <3>1, <3>3, <4>1 DEF Bound, Stays
        <5>2. CASE Leads(m)' /\ currentTerm'[m] > currentTerm'[x]
          <6>1. m = n /\ Leads(m) /\ currentTerm'[m] = currentTerm[m]
            BY <1>1, <4>1, <5>2
          <6>2. QED
            BY <2>1, <5>2, <6>1 DEF Bound
        <5>3. CASE \E j \in 1..Len(L) : L[j].term > currentTerm[x]
          <6>1. PICK j \in 1..Len(L) : L[j].term > currentTerm[x]
            BY <5>3
          <6>2. CASE j \in 1..Len(Log(n)) /\ L[j] = Log(n)[j]
            BY <6>1, <6>2 DEF Bound
          <6>3. CASE L[j].term = currentTerm[n]
            BY <1>1, <6>1, <6>3 DEF Bound
          <6>4. QED
            BY <1>2, <6>2, <6>3
        <5>4. CASE matchIndex[x][m] >= i
          <6>1. CASE m = n
            BY <5>4, <6>1 DEF Bound
          <6>2. CASE m # n
            <7>1. /\ matchIndex[x][m] \in Nat /\ currentTerm[m] \in Nat
                  /\ matchIndex[x][m] > 0 => currentTerm[m] >= currentTerm[x]
              BY <2>1, Types DEF LogSafe, Acknowledged
            <7>2. currentTerm[m] <= currentTerm[n]
              BY <3>3, <6>2 DEF M, Round
            <7>3. currentTerm[x] # currentTerm[n]
              BY <1>1, <2>1, <2>3 DEF LogSafe, OneLeader
            <7>4. currentTerm[n] > currentTerm[x]
              BY <2>1, <5>4, <7>1, <7>2, <7>3
            <7>5. QED
              BY <1>1, <7>4 DEF Bound
          <6>3. QED
            BY <6>1, <6>2
        <5>5. QED
          BY <5>1, <5>2, <5>3, <5>4
      <4>3. Agree(Log(x), Log(n), i)
        BY <2>3, <4>2
      <4>4. QED
        BY <1>1, <2>1, <3>1, <4>1, <4>3, ExtendsKeeps
    <3>4. QED
      BY <3>2, <3>3
  <2>4. CASE x = n /\ i <= Len(Log(n)) /\ \A m \in Node : Bound(m, n, i) => Agree(Log(n), Log(m), i)
    <3>1. ASSUME NEW m \in Node, Bound(m, n, i)' PROVE Agree(Log(x)', Log(m)', i)
      <4>1. Log(x)' = L /\ i \in 1..Len(L)
        BY <1>1, <1>3, <2>4
      <4>2. CASE m \in M
        BY <1>1, <1>2, <4>1, <4>2 DEF Agree
      <4>3. CASE m \notin M
        <5>1. /\ Log(m)' = Log(m) /\ (Leads(m)' => Leads(m) /\ currentTerm'[m] = currentTerm[m])
              /\ matchIndex'[n][m] = matchIndex[n][m]
          BY <1>1, <1>3, <2>4, <4>3 DEF Round
        <5>2. Bound(m, n, i)
          BY <2>1, <2>4, <3>1, <5>1 DEF Bound
        <5>3. Agree(Log(m), Log(n), i) /\ Log(m) \in Seq(Entry)
          BY <2>4, <5>2, AgreeSym, Types
        <5>4. QED
          BY <1>1, <2>1, <4>1, <5>1, <5>3, ExtendsKeeps, AgreeSym
      <4>4. QED
        BY <4>2, <4>3
    <3>2. QED
      BY <2>4, <3>1
  <2>5. CASE x = n /\ i > Len(Log(n))
    <3>1. CASE \E c \in Node : \E t \in Nat : t > currentTerm[n] /\ Elected(c, t)
      BY <1>3, <2>1, <2>5, <3>1, NewIsBlocked DEF LogSafe
    <3>2. CASE ~ \E c \in Node : \E t \in Nat : t > currentTerm[n] /\ Elected(c, t)
      <4>1. ASSUME NEW m \in Node, Bound(m, n, i)' PROVE Agree(Log(x)', Log(m)', i)
        <5>1. Log(x)' = L /\ i \in 1..Len(L)
          BY <1>1, <1>3, <2>5
        <5>2. CASE m \in M
          BY <1>1, <1>2, <5>1, <5>2 DEF Agree
        <5>3. CASE m \notin M
          <6>1. /\ Log(m)' = Log(m) /\ (Leads(m)' => Leads(m) /\ currentTerm'[m] = currentTerm[m])
                /\ matchIndex'[n][m] = matchIndex[n][m] /\ currentTerm'[n] = currentTerm[n]
            BY <1>1, <1>3, <2>5, <5>3 DEF Round
          <6>2. matchIndex[n][m] <= Len(Log(n)) /\ matchIndex[n][m] \in Nat
            BY <1>1, Types DEF LogSafe, Acknowledged
          <6>3. ~(matchIndex[n][m] >= i)
            BY <1>2, <2>1, <2>5, <6>2
          <6>4. ~(Leads(m) /\ currentTerm[m] > currentTerm[n])
            BY <3>2, Types DEF LogSafe, LeadersElected
          <6>5. ~ \E j \in 1..Len(Log(m)) : Log(m)[j].term > currentTerm[n]
            BY <3>2, Types DEF LogSafe, EntriesElected
          <6>6. QED
            BY <4>1, <6>1, <6>3, <6>4, <6>5 DEF Bound
        <5>4. QED
          BY <5>2, <5>3
      <4>2. QED
        BY <2>5, <4>1
    <3>3. QED
      BY <3>1, <3>2
  <2>6. CASE i <= Len(Log(x))
    <3>1. i \in 1..Len(Log(x)) /\ Log(x)[i].term = currentTerm[x]
      <4>1. i \in 1..Len(Log(x))
        BY <2>1, <2>6, Types
      <4>2. CASE x # n
        BY <1>3, <2>1, <4>1, <4>2
      <4>3. CASE x = n
        <5>1. i \in 1..Len(L) /\ Log(x)' = L
          BY <1>1, <1>3, <4>3
        <5>2. L[i] = Log(n)[i]
          BY <1>2, <4>1, <4>3, <5>1
        <5>3. QED
          BY <1>3, <2>1, <4>1, <4>3, <5>1, <5>2
      <4>4. QED
        BY <4>2, <4>3
    <3>2. Blocked(x, i) \/ \A m \in Node : Bound(m, x, i) => Agree(Log(x), Log(m), i)
      BY <2>1, <3>1 DEF LogSafe, EntriesKept
    <3>3. QED
      BY <2>2, <2>3, <2>4, <2>6, <3>2
  <2>7. CASE i > Len(Log(x))
    <3>1. x = n
      BY <1>1, <1>3, <2>1, <2>7, Types
    <3>2. QED
      BY <2>5, <2>7, <3>1
  <2>8. QED
    BY <2>1, <2>6, <2>7, Types
<1>4. QED
  BY <1>3 DEF EntriesKept

LEMMA RoundSafe ==
    ASSUME TypeOK, TypeOK', LogSafe, NEW n \in Node, NEW L \in Seq(Entry),
           NEW A \in SUBSET Node, Round(n, L, A)
    PROVE  LogSafe'
  BY RoundLeaders, RoundChain, RoundKeeps DEF LogSafe

\* The term of a committed log is a number.
LEMMA CommittedTerm ==
    ASSUME NEW C \in Seq(Entry)
    PROVE  CommittedIn(C) \in Nat
<1>1. ASSUME C # <<>> PROVE C[Len(C)] \in Entry
  BY <1>1
<1>2. QED
  BY <1>1 DEF CommittedIn, Entry, Term

\* A round loses nothing that was committed.
LEMMA RoundHeld ==
    ASSUME TypeOK, TypeOK', LogSafe, NEW n \in Node, NEW L \in Seq(Entry),
           NEW A \in SUBSET Node, Round(n, L, A), NEW C \in Seq(Entry), Held(C)
    PROVE  Held(C)'
<1> DEFINE M == A \cup {n}
<1>1. /\ VoteRule /\ Leads(n) /\ n \notin A /\ Extends(L, n)
      /\ \A m \in Node : m \in M => Log(m)' = L
      /\ \A m \in Node : m \notin M => Log(m)' = Log(m)
      /\ \A m \in Node : Leads(m)' => Leads(m) /\ currentTerm'[m] = currentTerm[m]
  BY RoundFacts
<1>2. \A m \in Node : m \in M => currentTerm[m] <= currentTerm[n]
  BY Types DEF Round
<1> HIDE DEF M
<1>3. CommittedIn(C) \in Nat /\ Len(C) \in Nat /\ currentTerm[n] \in Nat
  BY CommittedTerm, Types
<1>4. ASSUME currentTerm[n] >= CommittedIn(C), NEW m \in Node, m \in M PROVE Holds(m, C)'
  <2>1. Holds(n, C)
    BY <1>1, <1>4 DEF Held
  <2>2. Agree(C, L, Len(C))
    BY <1>1, <1>3, <2>1, ExtendsKeeps DEF Holds
  <2>3. QED
    BY <1>1, <1>4, <2>2 DEF Holds
<1>5. ASSUME NEW m \in Node, m \notin M, Holds(m, C) PROVE Holds(m, C)'
  BY <1>1, <1>5 DEF Holds
<1>6. ASSUME NEW m \in Node, currentTerm[m] >= CommittedIn(C), Holds(m, C) PROVE Holds(m, C)'
  <2>1. CASE m \in M
    <3>1. currentTerm[n] >= CommittedIn(C)
      BY <1>2, <1>3, <1>6, <2>1, Types
    <3>2. QED
      BY <1>4, <2>1, <3>1
  <2>2. QED
    BY <1>5, <1>6, <2>1
<1>7. \E Q \in SUBSET Node :
          IsMajority(Q) /\ \A q \in Q : currentTerm'[q] >= CommittedIn(C) /\ Holds(q, C)'
  BY <1>1, <1>6, MajorityHolds
<1>8. \A m \in Node : Leads(m)' /\ currentTerm'[m] >= CommittedIn(C) => Holds(m, C)'
  BY <1>1, <1>6 DEF Held
<1>9. ASSUME NEW m \in Node, NEW j \in 1..Len(Log(m)'), Log(m)'[j].term > CommittedIn(C)
      PROVE  Holds(m, C)'
  <2>1. CASE m \notin M
    <3>1. Holds(m, C)
      BY <1>1, <1>9, <2>1 DEF Held
    <3>2. QED
      BY <1>5, <2>1, <3>1
  <2>2. CASE m \in M
    <3>1. Log(m)' = L /\ L[j].term \in Nat /\ L[j].term <= currentTerm[n]
      BY <1>1, <1>9, <2>2, ExtendedEntries DEF LogSafe
    <3>2. currentTerm[n] >= CommittedIn(C)
      BY <1>3, <1>9, <3>1
    <3>3. QED
      BY <1>4, <2>2, <3>2
  <2>3. QED
    BY <2>1, <2>2
<1>10. QED
  BY <1>7, <1>8, <1>9 DEF Held, IsMajority, CommittedIn

\* _advance_commit_index: the log up to an entry of the leader's own term that a majority
\* acknowledged is committed.
LEMMA CommitHeld ==
    ASSUME TypeOK', LogSafe', NEW n \in Node, Leads(n)', NEW D \in Seq(Entry),
           Len(D) > 0, Agree(D, Log(n)', Len(D)), D[Len(D)].term = currentTerm'[n],
           IsMajority({p \in Node : matchIndex'[n][p] >= Len(D)})
    PROVE  Held(D)'
<1> DEFINE k == Len(D)
           Q == {p \in Node : matchIndex'[n][p] >= k}
<1>1. k \in Nat /\ k > 0 /\ k \in 1..Len(Log(n)') /\ Log(n)'[k] = D[k]
  BY TypesNext DEF Agree
<1>2. CommittedIn(D) = currentTerm'[n]
  BY DEF CommittedIn
<1>3. ~Blocked(n, k)'
  <2>1. SUFFICES ASSUME Blocked(n, k)' PROVE FALSE
    OBVIOUS
  <2>2. PICK R \in SUBSET Node : IsMajority(R) /\ \A q \in R : matchIndex'[n][q] < k
    BY <2>1 DEF Blocked, IsMajority
  <2>3. PICK q \in Node : q \in Q /\ q \in R
    BY <2>2, MajoritiesMeet
  <2>4. matchIndex'[n][q] \in Nat
    BY TypesNext
  <2>5. QED
    BY <1>1, <2>2, <2>3, <2>4
<1>4. \A m \in Node : Bound(m, n, k)' => Agree(Log(n)', Log(m)', k)
  BY <1>1, <1>3 DEF LogSafe, EntriesKept
<1>5. ASSUME NEW m \in Node, Agree(Log(n)', Log(m)', k) PROVE Holds(m, D)'
  BY <1>1, <1>5, AgreeTrans, TypesNext DEF Holds
<1> HIDE DEF k, Q
<1>6. ASSUME NEW m \in Node, Leads(m)', currentTerm'[m] >= CommittedIn(D) PROVE Holds(m, D)'
  <2>1. CASE currentTerm'[m] > currentTerm'[n]
    BY <1>4, <1>5, <1>6, <2>1 DEF Bound
  <2>2. CASE currentTerm'[m] = currentTerm'[n]
    <3>1. m = n
      BY <1>6, <2>2 DEF LogSafe, OneLeader
    <3>2. QED
      BY <3>1 DEF Holds
  <2>3. QED
    BY <1>2, <1>6, <2>1, <2>2, TypesNext
<1>7. ASSUME NEW m \in Node, NEW j \in 1..Len(Log(m)'), Log(m)'[j].term > CommittedIn(D)
      PROVE  Holds(m, D)'
  BY <1>2, <1>4, <1>5, <1>7 DEF Bound
<1>8. ASSUME NEW q \in Q PROVE currentTerm'[q] >= CommittedIn(D) /\ Holds(q, D)'
  <2>1. q \in Node /\ matchIndex'[n][q] >= k
    BY DEF Q
  <2>2. matchIndex'[n][q] > 0
    BY <1>1, <2>1, TypesNext
  <2>3. currentTerm'[q] >= currentTerm'[n]
    BY <2>1, <2>2 DEF LogSafe, Acknowledged
  <2>4. QED
    BY <1>2, <1>4, <1>5, <2>1, <2>3 DEF Bound
<1>9. IsMajority(Q) /\ Q \in SUBSET Node
  BY DEF Q, k
<1>10. QED
  BY <1>6, <1>7, <1>8, <1>9 DEF Held, IsMajority, CommittedIn

\* What was committed twice is committed once: one log is a prefix of the other.
LEMMA CommittedAgree ==
    ASSUME NEW C \in Seq(Entry), NEW D \in Seq(Entry), Held(C)', Held(D)'
    PROVE  IF Len(D) > Len(C) THEN Agree(C, D, Len(C)) ELSE Agree(D, C, Len(D))
<1>1. PICK Q \in SUBSET Node : IsMajority(Q) /\ \A q \in Q : Holds(q, C)'
  BY DEF Held, IsMajority
<1>2. PICK R \in SUBSET Node : IsMajority(R) /\ \A q \in R : Holds(q, D)'
  BY DEF Held, IsMajority
<1>3. PICK q \in Node : q \in Q /\ q \in R
  BY <1>1, <1>2, MajoritiesMeet
<1>4. Holds(q, C)' /\ Holds(q, D)'
  BY <1>1, <1>2, <1>3
<1>5. QED
  BY <1>4 DEF Holds, Agree

\* A round, in which what is committed may grow from C to D, leaves every node with a
\* prefix of D: its own share of C, the leader's, or what the round has committed.
LEMMA RoundKnown ==
    ASSUME TypeOK, TypeOK', LogSafe, NEW n \in Node, NEW L \in Seq(Entry),
           NEW A \in SUBSET Node, Round(n, L, A),
           NEW C \in Seq(Entry), NEW D \in Seq(Entry), KnownIn(C), Agree(C, D, Len(C)),
           NEW k \in Nat,
           \A x \in Node : Leads(x)' /\ currentTerm'[x] >= currentTerm[n] => Agree(D, Log(x)', k),
           \A m \in A \cup {n} :
              /\ Sound(store'[m], D)
              /\ \/ Known(store'[m]) <= Known(store[m])
                 \/ Known(store'[m]) <= Known(store[n])
                 \/ Known(store'[m]) <= k,
           \A m \in Node \ (A \cup {n}) : store'[m] = store[m]
    PROVE  KnownIn(D)'
<1> DEFINE M == A \cup {n}
<1>1. /\ VoteRule /\ Leads(n) /\ n \notin A /\ Extends(L, n)
      /\ \A m \in Node : Leads(m)' => Leads(m) /\ currentTerm'[m] = currentTerm[m] /\ m \notin A
      /\ \A m \in Node : m \notin M => Log(m)' = Log(m)
      /\ Log(n)' = L
  BY RoundFacts
<1>2. \A m \in Node : Known(store[m]) \in Nat /\ Known(store'[m]) \in Nat
  BY Types, TypesNext DEF Known
<1>3. \A m \in Node : Known(store[m]) <= Len(C)
  BY DEF KnownIn, Sound, Known, Agree
\* What a leader has of C it has of D, after the round too.
<1>4. ASSUME NEW x \in Node, Leads(x)', NEW i \in Nat, i <= Len(C), Agree(C, Log(x), i)
      PROVE  Agree(D, Log(x)', i)
  <2>1. Agree(D, C, i) /\ Log(x) \in Seq(Entry) /\ Len(C) \in Nat
    BY <1>4, AgreeSym, AgreeLess, Types
  <2>2. Agree(D, Log(x), i)
    BY <1>4, <2>1, AgreeTrans
  <2>3. CASE x = n
    BY <1>1, <2>2, <2>3, ExtendsKeeps
  <2>4. CASE x # n
    BY <1>1, <1>4, <2>2, <2>4
  <2>5. QED
    BY <2>3, <2>4
<1>5. ASSUME NEW m \in Node, NEW x \in Node, Leads(x)', currentTerm[x] >= currentTerm[m]
      PROVE  Agree(D, Log(x)', Known(store[m]))
  <2>1. Agree(C, Log(x), Known(store[m]))
    BY <1>1, <1>5 DEF KnownIn
  <2>2. QED
    BY <1>2, <1>3, <1>4, <1>5, <2>1
<1> HIDE DEF M
<1>6. ASSUME NEW m \in Node, NEW x \in Node, Leads(x)', currentTerm'[x] >= currentTerm'[m]
      PROVE  Agree(D, Log(x)', Known(store'[m]))
  <2>1. /\ currentTerm[m] \in Nat /\ currentTerm'[m] \in Nat /\ currentTerm[n] \in Nat
        /\ currentTerm[x] \in Nat /\ currentTerm'[x] = currentTerm[x]
        /\ currentTerm'[m] >= currentTerm[m] /\ Log(x)' \in Seq(Entry)
    BY <1>1, <1>6, Types, TypesNext DEF VoteRule
  <2>2. currentTerm[x] >= currentTerm[m]
    BY <1>6, <2>1
  <2>3. CASE m \notin M
    <3>1. store'[m] = store[m]
      BY <2>3 DEF M
    <3>2. QED
      BY <1>5, <1>6, <2>2, <3>1
  <2>4. CASE m \in M
    <3>1. currentTerm'[m] >= currentTerm[n]
      BY <1>1, <2>1, <2>4 DEF M, Round, VoteRule
    <3>2. currentTerm[x] >= currentTerm[n]
      BY <1>6, <2>1, <3>1
    <3>3. /\ Agree(D, Log(x)', Known(store[m])) /\ Agree(D, Log(x)', Known(store[n]))
          /\ Agree(D, Log(x)', k)
      BY <1>5, <1>6, <2>1, <2>2, <3>2
    <3>4. \/ Known(store'[m]) <= Known(store[m])
          \/ Known(store'[m]) <= Known(store[n])
          \/ Known(store'[m]) <= k
      BY <2>4 DEF M
    <3>5. QED
      BY <1>2, <2>1, <3>3, <3>4, AgreeLess
  <2>5. QED
    BY <2>3, <2>4
<1>7. ASSUME NEW m \in Node PROVE Sound(store'[m], D)
  <2>1. CASE m \in M
    BY <2>1 DEF M
  <2>2. CASE m \notin M
    <3>1. store'[m] = store[m]
      BY <2>2 DEF M
    <3>2. /\ store[m].log \in Seq(Entry) /\ store[m].applied \in Seq(Entry)
          /\ store[m].commit \in Nat /\ Len(store[m].applied) \in Nat /\ Len(C) \in Nat
      BY Types DEF Log
    <3>3. Agree(store[m].log, C, store[m].commit) /\ Agree(store[m].applied, C, Len(store[m].applied))
      BY DEF KnownIn, Sound
    <3>4. store[m].commit <= Len(C) /\ Len(store[m].applied) <= Len(C)
      BY <3>3 DEF Agree
    <3>5. QED
      BY SMTT(30), <3>1, <3>2, <3>3, <3>4, AgreeTrans DEF Sound
  <2>3. QED
    BY <2>1, <2>2
<1>8. QED
  BY <1>6, <1>7 DEF KnownIn

-----------------------------------------------------------------------------
(* Types. *)

\* A store whose commit index is within its log.
Within(s) == s \in Store /\ s.commit <= Len(s.log)

LEMMA ReceiveType ==
    ASSUME NEW s \in Store, NEW L \in Seq(Entry), NEW c \in Nat
    PROVE  Within(ReceiveAppend(s, L, c)) /\ ReceiveAppend(s, L, c).log = L
<1> DEFINE q == ReplaceLog(s, L)
           d == Lesser(c, Len(L))
           e == [log |-> L, commit |-> d, applied |-> q.applied]
<1>1. q \in Store /\ q.log = L
  BY ReplaceIs
<1>2. d \in Nat /\ d <= Len(L)
  BY DEF Lesser
<1> HIDE DEF q, d
<1>3. ReceiveAppend(s, L, c) = ApplyCommitted(e)
  BY <1>1, StoreWith DEF ReceiveAppend, q, d
<1>4. e \in Store /\ e.log = L /\ e.commit = d
  BY <1>1, <1>2 DEF Store
<1> HIDE DEF e
<1>5. /\ ApplyCommitted(e) \in Store /\ ApplyCommitted(e).log = L
      /\ ApplyCommitted(e).commit = d
  BY <1>2, <1>4, ApplyIs
<1>6. QED
  BY <1>2, <1>3, <1>5 DEF Within

\* The term a poll leaves a candidate with is that of a node.
LEMMA PollTerm ==
    ASSUME TypeOK, NEW n \in Node, NEW t \in Term
    PROVE  TermAfterPoll(n, t) \in Term
<1>1. Ahead(n, t) \subseteq Node
  <2>1. UNION partition = Node
    BY DEF TypeOK, Partitions
  <2>2. QED
    BY <2>1 DEF Ahead, Peers
<1>2. Ahead(n, t) # {} => Min(Ahead(n, t)) \in Node
  BY <1>1, MinOfNat DEF Node
<1>3. QED
  BY <1>2 DEF TermAfterPoll, TypeOK

LEMMA PeersAreNodes ==
    ASSUME TypeOK, NEW n \in Node
    PROVE  Peers(n) \subseteq Node \ {n}
<1>1. UNION partition = Node
  BY DEF TypeOK, Partitions
<1>2. QED
  BY <1>1 DEF Peers

\* The latest term that a leader has seen among its peers is the term of one of them.
LEMMA SeenTerm ==
    ASSUME TypeOK, NEW n \in Node, NEW t, Ahead(n, t) # {}
    PROVE  Max({currentTerm[a] : a \in Ahead(n, t)}) \in {currentTerm[a] : a \in Ahead(n, t)}
<1> DEFINE S == {currentTerm[a] : a \in Ahead(n, t)}
<1>1. Ahead(n, t) \subseteq Node
  BY PeersAreNodes DEF Ahead
<1>2. S \subseteq 0..MaxTerm
  BY <1>1 DEF TypeOK, Term
<1>3. S # {}
  OBVIOUS
<1>4. QED
  BY <1>2, <1>3, MaxOfNat, BoundsAssumption

LEMMA InitTypes == Init => TypeOK
<1> SUFFICES ASSUME Init PROVE TypeOK
  OBVIOUS
<1>1. 0 \in Term
  BY BoundsAssumption DEF Term
<1>2. Healed \in Partitions
  <2>1. Node # {}
    BY NAssumption DEF Node
  <2>2. QED
    BY <2>1 DEF Healed, Partitions
<1>3. <<>> \in Seq(Entry) /\ Len(<<>>) = 0
  OBVIOUS
<1>4. NoMatch \in [Node -> Nat]
  BY DEF NoMatch
<1>5. currentTerm \in [Node -> Term] /\ votedFor \in [Node -> Node \cup {Nil}]
  BY <1>1 DEF Init, Nil
<1>6. role \in [Node -> Role] /\ running \in [Node -> BOOLEAN]
  BY DEF Init, Role
<1>7. store \in [Node -> Store] /\ \A n \in Node : store[n].commit <= Len(store[n].log)
  BY <1>3 DEF Init, Store
<1>8. QED
  BY <1>2, <1>3, <1>4, <1>5, <1>6, <1>7 DEF Init, TypeOK

LEMMA TimeoutTypes ==
    ASSUME TypeOK, NEW n \in Node, TriggerTimeout(n)
    PROVE  TypeOK'
<1> DEFINE t == currentTerm[n] + 1
           polled == Polled(n, t)
           yes == Granted(n, t) \ {n}
           deposed == yes \cup {p \in polled : currentTerm[p] < t}
           elected == Cardinality(Granted(n, t)) >= Majority
           steppedDown == Ahead(n, t) # {}
<1>1. t \in Term
  BY DEF TriggerTimeout
<1>2. currentTerm' \in [Node -> Term]
  BY <1>1, PollTerm DEF TriggerTimeout, TypeOK
<1>3. votedFor' \in [Node -> Node \cup {Nil}]
  BY DEF TriggerTimeout, TypeOK
<1>4. role' \in [Node -> Role]
  BY DEF TriggerTimeout, TypeOK, Role
<1>5. matchIndex' \in [Node -> [Node -> Nat]]
  <2>1. NoMatch \in [Node -> Nat] /\ [NoMatch EXCEPT ![n] = Len(store[n].log)] \in [Node -> Nat]
    BY Types DEF NoMatch, Log
  <2>2. QED
    BY <2>1 DEF TriggerTimeout, TypeOK
<1>6. usurped' \in BOOLEAN
  BY DEF TriggerTimeout, TypeOK
<1>7. QED
  BY <1>2, <1>3, <1>4, <1>5, <1>6 DEF TriggerTimeout, TypeOK

LEMMA AcceptTypes ==
    ASSUME TypeOK, NEW n \in Node, FollowersAccept(n)
    PROVE  /\ currentTerm' \in [Node -> Term]
           /\ votedFor' \in [Node -> Node \cup {Nil}]
           /\ role' \in [Node -> Role]
<1> DEFINE ahead == Ahead(n, currentTerm[n])
           seen == {currentTerm[a] : a \in ahead}
<1>1. seen \subseteq Term
  BY PeersAreNodes DEF TypeOK, Ahead
<1>2. ahead # {} => Max(seen) \in Term
  BY <1>1, SeenTerm
<1>3. currentTerm' \in [Node -> Term]
  BY <1>2 DEF FollowersAccept, TypeOK
<1>4. votedFor' \in [Node -> Node \cup {Nil}] /\ role' \in [Node -> Role]
  BY DEF FollowersAccept, TypeOK, Role
<1>5. QED
  BY <1>3, <1>4

LEMMA MatchType ==
    ASSUME TypeOK, NEW n \in Node, NEW L \in Seq(Entry)
    PROVE  MatchAfter(n, L) \in [Node -> Nat]
  BY DEF MatchAfter, NoMatch, TypeOK

LEMMA ReplicateTypes ==
    ASSUME TypeOK, NEW n \in Node, ReplicateFromLeader(n)
    PROVE  TypeOK'
<1> DEFINE accepting == Peers(n) \ Ahead(n, currentTerm[n])
<1>1. \A m \in Node : store[m] \in Store /\ store[m].commit <= Len(store[m].log)
  BY DEF TypeOK
<1>2. store[n].log \in Seq(Entry) /\ store[n].commit \in Nat
  BY Types DEF Log
<1>3. \A m \in Node : Within(store'[m])
  BY <1>1, <1>2, ReceiveType DEF ReplicateFromLeader, Within
<1>4. store' \in [Node -> Store] /\ \A m \in Node : store'[m].commit <= Len(store'[m].log)
  BY <1>3 DEF ReplicateFromLeader, Within
<1>5. matchIndex' \in [Node -> [Node -> Nat]]
  <2>1. NoMatch \in [Node -> Nat] /\ MatchAfter(n, store[n].log) \in [Node -> Nat]
    BY <1>2, MatchType DEF NoMatch
  <2>2. QED
    BY <2>1 DEF ReplicateFromLeader, TypeOK
<1>6. /\ currentTerm' \in [Node -> Term] /\ votedFor' \in [Node -> Node \cup {Nil}]
      /\ role' \in [Node -> Role]
  BY AcceptTypes DEF ReplicateFromLeader
<1>7. QED
  BY <1>4, <1>5, <1>6 DEF ReplicateFromLeader, TypeOK

\* submit_command: the log with the new entry, what of it can be committed, and how far
\* the leader's commit index goes.
SubmitLog(n, c) == Append(store[n].log, [term |-> currentTerm[n], command |-> c])
SubmitNew(n, c) ==
    Committable(n, [store[n] EXCEPT !.log = SubmitLog(n, c)], MatchAfter(n, SubmitLog(n, c)))
SubmitCommit(n, c) ==
    IF SubmitNew(n, c) = {} THEN store[n].commit ELSE Max(SubmitNew(n, c))

LEMMA SubmitLogIs ==
    ASSUME TypeOK, NEW n \in Node, NEW c \in Command
    PROVE  SubmitLog(n, c) \in Seq(Entry) /\ Extends(SubmitLog(n, c), n)
<1> DEFINE e == [term |-> currentTerm[n], command |-> c]
<1>1. e \in Entry
  BY DEF TypeOK, Entry
<1>2. Log(n) \in Seq(Entry) /\ Len(Log(n)) \in Nat /\ e.term = currentTerm[n]
  BY Types
<1> HIDE DEF e
<1>3. /\ Append(Log(n), e) \in Seq(Entry) /\ Len(Append(Log(n), e)) = Len(Log(n)) + 1
      /\ Append(Log(n), e)[Len(Log(n)) + 1] = e
      /\ \A i \in 1..Len(Log(n)) : Append(Log(n), e)[i] = Log(n)[i]
  BY <1>1, <1>2, AppendProperties
<1>4. SubmitLog(n, c) = Append(Log(n), e)
  BY DEF SubmitLog, Log, e
<1>5. QED
  BY <1>2, <1>3, <1>4 DEF Extends, Agree

\* A leader commits an entry of its own term that a majority acknowledged, and not when
\* it has stepped down.
LEMMA SubmitCommitIs ==
    ASSUME TypeOK, NEW n \in Node, NEW c \in Command
    PROVE  /\ SubmitCommit(n, c) \in Nat
           /\ SubmitCommit(n, c) <= Len(SubmitLog(n, c))
           /\ SubmitCommit(n, c) >= store[n].commit
           /\ SubmitNew(n, c) # {} =>
                 LET k == SubmitCommit(n, c)  L == SubmitLog(n, c) IN
                 /\ k \in 1..Len(L) /\ L[k].term = currentTerm[n]
                 /\ IsMajority({p \in Node : MatchAfter(n, L)[p] >= k})
                 /\ Ahead(n, currentTerm[n]) = {}
<1> DEFINE L == SubmitLog(n, c)
           s == [store[n] EXCEPT !.log = L]
           match == MatchAfter(n, L)
           new == SubmitNew(n, c)
           k == SubmitCommit(n, c)
<1>1. /\ L \in Seq(Entry) /\ Len(L) \in Nat /\ store[n].commit \in Nat
      /\ Len(Log(n)) <= Len(L) /\ store[n].commit <= Len(Log(n)) /\ Len(Log(n)) \in Nat
  BY SubmitLogIs, Types DEF Extends, Agree, TypeOK, Log
<1>2. s.log = L /\ s.commit = store[n].commit
  BY StoreWith, Types
<1> HIDE DEF s, L, match
<1>3. new = {i \in (store[n].commit + 1)..Len(L) :
               /\ L[i].term = currentTerm[n]
               /\ Cardinality({p \in Node : match[p] >= i}) >= Majority}
  BY <1>2 DEF SubmitNew, Committable, s, L, match
<1>4. CASE new = {}
  BY <1>1, <1>4 DEF SubmitCommit, L
<1>5. CASE new # {}
  <2>1. new \subseteq 0..Len(L)
    BY <1>1, <1>3
  <2>2. k \in new
    BY <1>1, <1>5, <2>1, MaxOfNat DEF SubmitCommit
  <2>3. k \in 1..Len(L) /\ k >= store[n].commit /\ k \in Nat /\ k <= Len(L) /\ k > 0
    BY <1>1, <1>3, <2>2
  <2>4. L[k].term = currentTerm[n] /\ IsMajority({p \in Node : match[p] >= k})
    BY <1>3, <2>2 DEF IsMajority
  <2>5. Ahead(n, currentTerm[n]) = {}
    <3>1. SUFFICES ASSUME Ahead(n, currentTerm[n]) # {} PROVE FALSE
      OBVIOUS
    <3>2. \A p \in Node : match[p] = 0
      BY <3>1 DEF match, MatchAfter, NoMatch
    <3>3. PICK p \in Node : p \in {q \in Node : match[q] >= k}
      BY <2>4, AllAreMajority, MajoritiesMeet
    <3>4. QED
      BY <2>3, <3>2, <3>3
  <2>6. QED
    BY <2>3, <2>4, <2>5 DEF L, match
<1>6. QED
  BY <1>4, <1>5

\* What submit_command does to the stores.
LEMMA SubmitStores ==
    ASSUME TypeOK, NEW n \in Node, NEW c \in Command, SubmitCommand(n, c)
    PROVE  LET L == SubmitLog(n, c)  k == SubmitCommit(n, c)
               A == Peers(n) \ Ahead(n, currentTerm[n]) IN
           /\ store' \in [Node -> Store]
           /\ \A m \in Node : Within(store'[m])
           /\ store'[n] = ApplyCommitted([log |-> L, commit |-> k, applied |-> store[n].applied])
           /\ Log(n)' = L
           /\ \A m \in A : Log(m)' = L
           /\ \A m \in A : store'[m] =
                 LET first == ReceiveAppend(store[m], L, store[n].commit) IN
                 IF SubmitNew(n, c) = {} THEN first ELSE ReceiveAppend(first, L, k)
           /\ \A m \in Node \ (A \cup {n}) : store'[m] = store[m]
<1> DEFINE L == SubmitLog(n, c)
           k == SubmitCommit(n, c)
           new == SubmitNew(n, c)
           A == Peers(n) \ Ahead(n, currentTerm[n])
           e == [log |-> L, commit |-> k, applied |-> store[n].applied]
           first(m) == ReceiveAppend(store[m], L, store[n].commit)
<1>1. /\ L \in Seq(Entry) /\ k \in Nat /\ k <= Len(L)
      /\ store[n] \in Store /\ store[n].commit \in Nat /\ store[n].applied \in Seq(Entry)
      /\ \A m \in Node : Within(store[m])
  BY SubmitLogIs, SubmitCommitIs, Types DEF TypeOK, Within
<1>2. A \subseteq Node \ {n}
  BY PeersAreNodes
<1>3. [[store[n] EXCEPT !.log = L] EXCEPT !.commit = k] = e
  <2>1. [store[n] EXCEPT !.log = L]
            = [log |-> L, commit |-> store[n].commit, applied |-> store[n].applied]
    BY <1>1, StoreWith
  <2> HIDE DEF L, k, new, A
  <2>2. [[log |-> L, commit |-> store[n].commit, applied |-> store[n].applied] EXCEPT !.commit = k]
            = [log |-> L, commit |-> k, applied |-> store[n].applied]
    OBVIOUS
  <2>3. QED
    BY <2>1, <2>2
<1>4. store' = [m \in Node |->
              IF m = n THEN ApplyCommitted([[store[n] EXCEPT !.log = L] EXCEPT !.commit = k])
              ELSE IF m \notin A THEN store[m]
              ELSE IF new = {} THEN first(m) ELSE ReceiveAppend(first(m), L, k)]
  BY DEF SubmitCommand, SubmitLog, SubmitNew, SubmitCommit
<1> HIDE DEF L, k, new, A
<1>5. Within(ApplyCommitted(e)) /\ ApplyCommitted(e).log = L
  <2>1. e \in Store /\ e.log = L /\ e.commit = k
    BY <1>1 DEF Store
  <2> HIDE DEF e
  <2>2. QED
    BY <1>1, <2>1, ApplyIs DEF Within
<1>6. ASSUME NEW m \in A
      PROVE  /\ Within(first(m)) /\ first(m).log = L
             /\ Within(ReceiveAppend(first(m), L, k)) /\ ReceiveAppend(first(m), L, k).log = L
  <2>1. store[m] \in Store
    BY <1>1, <1>2 DEF Within
  <2>2. Within(first(m)) /\ first(m).log = L
    BY <1>1, <2>1, ReceiveType
  <2> HIDE DEF first
  <2>3. QED
    BY <1>1, <2>2, ReceiveType DEF Within
<1>7. /\ store'[n] = ApplyCommitted(e)
      /\ \A m \in A : store'[m] = IF new = {} THEN first(m) ELSE ReceiveAppend(first(m), L, k)
      /\ \A m \in Node \ (A \cup {n}) : store'[m] = store[m]
  BY <1>2, <1>3, <1>4
<1> HIDE DEF e, first
<1>8. \A m \in Node : Within(store'[m])
  BY <1>1, <1>2, <1>5, <1>6, <1>7
<1>9. store' \in [Node -> Store]
  BY <1>4, <1>8 DEF Within
<1>10. Log(n)' = L /\ \A m \in A : Log(m)' = L
  BY <1>5, <1>6, <1>7 DEF Log
<1>11. QED
  BY <1>7, <1>8, <1>9, <1>10 DEF L, k, new, A, e, first

LEMMA SubmitTypes ==
    ASSUME TypeOK, NEW n \in Node, NEW c \in Command, SubmitCommand(n, c)
    PROVE  TypeOK'
<1> DEFINE L == SubmitLog(n, c)
           k == SubmitCommit(n, c)
<1>1. L \in Seq(Entry) /\ k \in Nat /\ k <= Len(L)
  BY SubmitLogIs, SubmitCommitIs
<1>2. /\ committed' = (IF k > Len(committed) THEN SubSeq(L, 1, k) ELSE committed)
      /\ matchIndex' = [m \in Node |->
            IF m = n THEN MatchAfter(n, L)
            ELSE IF m \in Peers(n) \ Ahead(n, currentTerm[n]) THEN NoMatch ELSE matchIndex[m]]
      /\ FollowersAccept(n) /\ UNCHANGED <<running, partition, usurped>>
  BY DEF SubmitCommand, SubmitLog, SubmitCommit, SubmitNew
<1> HIDE DEF L, k
<1>3. SubSeq(L, 1, k) \in Seq(Entry)
  BY <1>1
<1>4. committed' \in Seq(Entry)
  BY <1>2, <1>3 DEF TypeOK
<1>5. matchIndex' \in [Node -> [Node -> Nat]]
  <2>1. NoMatch \in [Node -> Nat] /\ MatchAfter(n, L) \in [Node -> Nat]
    BY <1>1, MatchType DEF NoMatch
  <2>2. QED
    BY <1>2, <2>1 DEF TypeOK
<1>6. /\ currentTerm' \in [Node -> Term] /\ votedFor' \in [Node -> Node \cup {Nil}]
      /\ role' \in [Node -> Role]
  BY <1>2, AcceptTypes
<1>7. store' \in [Node -> Store] /\ \A m \in Node : store'[m].commit <= Len(store'[m].log)
  BY SubmitStores DEF Within
<1>8. QED
  BY <1>2, <1>4, <1>5, <1>6, <1>7 DEF TypeOK

\* crash_node, restart_node and set_partition.
LEMMA RebuildType ==
    ASSUME NEW s \in Store
    PROVE  Within(Rebuild(s))
<1>1. s.commit \in Nat /\ Len(s.log) \in Nat
  BY DEF Store
<1>2. QED
  BY <1>1, RebuildIs DEF Within, Lesser

LEMMA CrashTypes ==
    ASSUME TypeOK, NEW n \in Node, CrashNode(n)
    PROVE  TypeOK'
<1>1. NoMatch \in [Node -> Nat]
  BY DEF NoMatch
<1>2. /\ role' \in [Node -> Role] /\ running' \in [Node -> BOOLEAN]
      /\ matchIndex' \in [Node -> [Node -> Nat]]
  BY <1>1 DEF CrashNode, TypeOK, Role
<1>3. QED
  BY <1>2 DEF CrashNode, TypeOK, votes

LEMMA RestartTypes ==
    ASSUME TypeOK, NEW n \in Node, RestartNode(n)
    PROVE  TypeOK'
<1>1. NoMatch \in [Node -> Nat]
  BY DEF NoMatch
<1>2. /\ role' \in [Node -> Role] /\ running' \in [Node -> BOOLEAN]
      /\ matchIndex' \in [Node -> [Node -> Nat]]
  BY <1>1 DEF RestartNode, TypeOK, Role
<1>3. /\ \A m \in Node : Within(store[m])
      /\ store' = [m \in Node |-> IF m = n THEN Rebuild(store[n]) ELSE store[m]]
  BY DEF RestartNode, TypeOK, Within
<1>4. Within(Rebuild(store[n]))
  BY <1>3, RebuildType DEF Within
<1>5. store' \in [Node -> Store] /\ \A m \in Node : store'[m].commit <= Len(store'[m].log)
  BY <1>3, <1>4 DEF Within
<1>6. QED
  BY <1>2, <1>5 DEF RestartNode, TypeOK, votes

LEMMA PartitionTypes ==
    ASSUME TypeOK, NEW P \in Cuts, SetPartition(P)
    PROVE  TypeOK'
  BY CutsAssumption DEF SetPartition, TypeOK, votes

LEMMA StepTypes ==
    ASSUME TypeOK, [Next]_vars
    PROVE  TypeOK'
<1>1. CASE UNCHANGED vars
  BY <1>1 DEF vars, TypeOK
<1>2. CASE Next
  BY <1>2, TimeoutTypes, ReplicateTypes, SubmitTypes, CrashTypes, RestartTypes, PartitionTypes
     DEF Next
<1>3. QED
  BY <1>1, <1>2

\* Logs hold entries, nodes vote for nodes, a commit index is within its log, whatever the
\* elections did.
THEOREM LogTypes == Spec => []TypeOK
<1>1. TypeOK /\ [Next]_vars => TypeOK'
  BY StepTypes
<1>2. QED
  BY InitTypes, <1>1, PTL DEF Spec

-----------------------------------------------------------------------------
(* The calls as steps of the three kinds. *)

LEMMA TimeoutIsElection ==
    ASSUME TypeOK, NEW n \in Node, TriggerTimeout(n), ~usurped'
    PROVE  Idle \/ Wins(n, Granted(n, currentTerm[n] + 1))
<1> DEFINE t == currentTerm[n] + 1
           polled == Polled(n, t)
           V == Granted(n, t)
           yes == V \ {n}
           deposed == yes \cup {p \in polled : currentTerm[p] < t}
           elected == Cardinality(V) >= Majority
           steppedDown == Ahead(n, t) # {}
<1>1. /\ currentTerm[n] \in Nat /\ t \in Nat /\ t > currentTerm[n]
      /\ \A m \in Node : currentTerm[m] \in Nat
  BY Types
<1>2. Peers(n) \subseteq Node \ {n}
  BY PeersAreNodes
<1>3. /\ polled \subseteq Node \ {n} /\ \A m \in polled : currentTerm[m] <= t
      /\ V \subseteq Node /\ n \in V /\ yes \subseteq polled
      /\ \A q \in yes : WouldGrant(q, n, t)
  BY <1>1, <1>2 DEF Polled, Granted
<1>4. /\ currentTerm' = [m \in Node |->
            IF m = n THEN TermAfterPoll(n, t) ELSE IF m \in polled THEN t ELSE currentTerm[m]]
      /\ votedFor' = [m \in Node |->
            IF m = n THEN IF steppedDown THEN Nil ELSE n
            ELSE IF m \in yes THEN n
            ELSE IF m \in deposed THEN Nil ELSE votedFor[m]]
      /\ role' = [m \in Node |->
            IF m = n THEN IF elected THEN "leader"
                          ELSE IF steppedDown THEN "follower" ELSE "candidate"
            ELSE IF m \in deposed THEN "follower" ELSE role[m]]
      /\ matchIndex' = [m \in Node |->
            IF m = n /\ elected THEN [NoMatch EXCEPT ![n] = Len(store[n].log)]
            ELSE IF m \in deposed \cup {n} THEN NoMatch ELSE matchIndex[m]]
      /\ elected => ~steppedDown
      /\ store' = store
  BY DEF TriggerTimeout
<1>5. TermAfterPoll(n, t) \in Nat /\ TermAfterPoll(n, t) >= t
      /\ (~steppedDown => TermAfterPoll(n, t) = t)
  <2>1. CASE steppedDown
    <3>1. Ahead(n, t) \in SUBSET Nat /\ Ahead(n, t) \subseteq Node
      BY <1>2 DEF Ahead, Node
    <3>2. Min(Ahead(n, t)) \in Ahead(n, t)
      BY <2>1, <3>1, MinOfNat
    <3>3. QED
      BY <1>1, <2>1, <3>1, <3>2 DEF TermAfterPoll, Ahead
  <2>2. CASE ~steppedDown
    BY <1>1, <2>2 DEF TermAfterPoll
  <2>3. QED
    BY <2>1, <2>2
<1> HIDE DEF t, polled, V
<1>6. VoteRule
  <2>1. ASSUME NEW m \in Node
        PROVE  /\ currentTerm'[m] >= currentTerm[m]
               /\ currentTerm'[m] = currentTerm[m] /\ votedFor[m] # Nil
                     => votedFor'[m] = votedFor[m]
    <3>1. CASE m = n
      BY <1>1, <1>4, <1>5, <3>1
    <3>2. CASE m # n /\ m \notin polled
      BY <1>1, <1>3, <1>4, <3>2
    <3>3. CASE m \in polled
      <4>1. currentTerm'[m] = t /\ currentTerm[m] <= t /\ m # n
        BY <1>3, <1>4, <3>3
      <4>2. CASE m \in yes
        BY <1>1, <1>3, <1>4, <4>1, <4>2 DEF WouldGrant
      <4>3. CASE m \notin yes
        BY <1>1, <1>4, <4>1, <4>3
      <4>4. QED
        BY <4>2, <4>3
    <3>4. QED
      BY <3>1, <3>2, <3>3
  <2>2. QED
    BY <2>1 DEF VoteRule
<1>7. \A m \in Node : Log(m)' = Log(m)
  BY <1>4 DEF Log
<1>8. ASSUME NEW m \in Node, m # n, Leads(m)' PROVE Stays(m)
  <2>1. m \notin deposed /\ Leads(m)
    BY <1>4, <1>8 DEF Leads
  <2>2. matchIndex'[m] = matchIndex[m]
    BY <1>4, <1>8, <2>1
  <2>3. m \in polled => currentTerm[m] = t
    BY <1>1, <1>3, <2>1
  <2>4. currentTerm'[m] = currentTerm[m]
    BY <1>4, <1>8, <2>3
  <2>5. QED
    BY <2>1, <2>2, <2>4 DEF Stays
<1>9. CASE ~elected
  <2>1. ~Leads(n)'
    BY <1>4, <1>9 DEF Leads
  <2>2. QED
    BY <1>6, <1>7, <1>8, <2>1 DEF Idle
<1>10. CASE elected
  <2>1. currentTerm'[n] = t
    BY <1>4, <1>5, <1>10
  <2>2. \A p \in Node : matchIndex'[n][p] = IF p = n THEN Len(Log(n)) ELSE 0
    BY <1>4, <1>10 DEF NoMatch, Log
  <2>3. ASSUME NEW q \in V PROVE Votes(q, n, t)
    <3>1. CASE q = n
      BY <1>1, <1>4, <1>10, <2>1, <3>1 DEF Votes
    <3>2. CASE q # n
      <4>1. q \in yes /\ q \in polled /\ q \in Node
        BY <1>3, <3>2
      <4>2. currentTerm'[q] = t /\ currentTerm[q] <= t /\ votedFor'[q] = n
        BY <1>3, <1>4, <3>2, <4>1
      <4>3. QED
        BY <1>3, <4>1, <4>2 DEF Votes, WouldGrant
    <3>3. QED
      BY <3>1, <3>2
  <2>4. IsMajority(V)
    BY <1>10 DEF IsMajority
  <2>5. QED
    BY <1>3, <1>6, <1>7, <1>8, <2>1, <2>2, <2>3, <2>4 DEF Wins, t, V
<1>11. QED
  BY <1>9, <1>10

LEMMA AcceptIsRound ==
    ASSUME TypeOK, NEW n \in Node, Leads(n), FollowersAccept(n), NEW L \in Seq(Entry),
           Extends(L, n), NEW A, A = Peers(n) \ Ahead(n, currentTerm[n]),
           \A m \in A \cup {n} : Log(m)' = L,
           \A m \in Node \ (A \cup {n}) : Log(m)' = Log(m),
           matchIndex' = [m \in Node |-> IF m = n THEN MatchAfter(n, L)
                                         ELSE IF m \in A THEN NoMatch ELSE matchIndex[m]]
    PROVE  A \in SUBSET Node /\ Round(n, L, A)
<1> DEFINE t == currentTerm[n]
           ahead == Ahead(n, t)
           steppedDown == ahead # {}
           top == Max({currentTerm[a] : a \in ahead})
<1>1. A \subseteq Node /\ n \notin A
  BY PeersAreNodes
<1>2. \A m \in Node : currentTerm[m] \in Nat
  BY Types
<1>3. \A m \in A : currentTerm[m] <= t
  BY <1>1, <1>2 DEF Ahead
<1>4. steppedDown => top > t /\ top \in Nat
  <2>1. SUFFICES ASSUME steppedDown PROVE top > t /\ top \in Nat
    OBVIOUS
  <2>2. PICK a \in ahead : top = currentTerm[a]
    BY <2>1, SeenTerm
  <2>3. a \in Node /\ currentTerm[a] > t
    BY PeersAreNodes DEF Ahead
  <2>4. QED
    BY <1>2, <2>2, <2>3
<1>5. /\ currentTerm' = [m \in Node |->
            IF m = n /\ steppedDown THEN top ELSE IF m \in A THEN t ELSE currentTerm[m]]
      /\ votedFor' = [m \in Node |->
            IF (m = n /\ steppedDown) \/ (m \in A /\ currentTerm[m] < t) THEN Nil ELSE votedFor[m]]
      /\ role' = [m \in Node |->
            IF m \in A \/ (m = n /\ steppedDown) THEN "follower" ELSE role[m]]
  BY DEF FollowersAccept
<1> HIDE DEF t, ahead, top
<1>6. VoteRule
  <2>1. ASSUME NEW m \in Node
        PROVE  /\ currentTerm'[m] >= currentTerm[m]
               /\ currentTerm'[m] = currentTerm[m] /\ votedFor[m] # Nil
                     => votedFor'[m] = votedFor[m]
    <3>1. t = currentTerm[n] /\ t \in Nat /\ currentTerm[m] \in Nat
      BY <1>2 DEF t
    <3>2. CASE m = n /\ steppedDown
      <4>1. currentTerm'[m] = top /\ top > currentTerm[m] /\ top \in Nat
        BY <1>4, <1>5, <3>1, <3>2
      <4>2. QED
        BY <3>1, <4>1
    <3>3. CASE m \in A
      BY <1>1, <1>3, <1>5, <3>1, <3>3
    <3>4. CASE m \notin A /\ ~(m = n /\ steppedDown)
      BY <1>5, <3>1, <3>4
    <3>5. QED
      BY <3>2, <3>3, <3>4
  <2>2. QED
    BY <2>1 DEF VoteRule
<1>7. \A m \in A : currentTerm[m] <= currentTerm[n] /\ currentTerm'[m] = currentTerm[n] /\ ~Leads(m)'
  BY <1>1, <1>3, <1>5 DEF Leads, t
<1>8. \A m \in Node \ {n} : Leads(m)' => Stays(m)
  <2>1. ASSUME NEW m \in Node, m # n, Leads(m)' PROVE Stays(m)
    <3>1. m \notin A /\ Leads(m)
      BY <1>5, <2>1 DEF Leads
    <3>2. QED
      BY <1>5, <2>1, <3>1 DEF Stays
  <2>2. QED
    BY <2>1
<1>9. ASSUME Leads(n)'
      PROVE  /\ currentTerm'[n] = currentTerm[n]
             /\ \A p \in Node :
                   matchIndex'[n][p] = IF p \in A \cup {n} THEN Len(L) ELSE matchIndex[n][p]
  <2>1. ahead = {}
    BY <1>5, <1>9 DEF Leads
  <2>2. A = Peers(n) /\ Ahead(n, currentTerm[n]) = {}
    BY <2>1 DEF ahead, t
  <2>3. \A p \in Node : matchIndex'[n][p] = IF p = n \/ p \in Peers(n) THEN Len(L) ELSE matchIndex[n][p]
    BY <2>2 DEF MatchAfter
  <2>4. currentTerm'[n] = currentTerm[n]
    BY <1>1, <1>5, <2>1
  <2>5. QED
    BY <2>2, <2>3, <2>4
<1>10. \A m \in Node : Log(m)' = IF m \in A \cup {n} THEN L ELSE Log(m)
  OBVIOUS
<1>11. QED
  BY <1>1, <1>6, <1>7, <1>8, <1>9, <1>10 DEF Round

\* A leader may send what it knows to be committed.
LEMMA LeaderKnows ==
    ASSUME TypeOK, NEW n \in Node, Leads(n), NEW C \in Seq(Entry), KnownIn(C)
    PROVE  /\ Agree(C, Log(n), store[n].commit) /\ store[n].commit <= Known(store[n])
           /\ \A m \in Node : currentTerm[m] <= currentTerm[n] =>
                 Agree(C, Log(n), Known(store[m]))
<1>1. \A m \in Node : /\ currentTerm[m] \in Nat /\ store[m].commit \in Nat
                      /\ Len(store[m].applied) \in Nat /\ Log(m) \in Seq(Entry)
  BY Types
<1>2. ASSUME NEW m \in Node, currentTerm[m] <= currentTerm[n]
      PROVE  Agree(C, Log(n), Known(store[m]))
  BY <1>1, <1>2 DEF KnownIn
<1>3. store[n].commit <= Known(store[n]) /\ Known(store[n]) \in Nat
  BY <1>1 DEF Known
<1>4. Agree(C, Log(n), Known(store[n]))
  BY <1>1, <1>2
<1>5. Agree(C, Log(n), store[n].commit)
  BY <1>1, <1>3, <1>4, AgreeLess
<1>6. QED
  BY <1>2, <1>3, <1>5

LEMMA ReplicateSafe ==
    ASSUME TypeOK, TypeOK', Safe, NEW n \in Node, ReplicateFromLeader(n)
    PROVE  Safe'
<1> DEFINE A == Peers(n) \ Ahead(n, currentTerm[n])
           L == Log(n)
<1>1. /\ Leads(n) /\ FollowersAccept(n)
      /\ store' = [m \in Node |->
            IF m \in A THEN ReceiveAppend(store[m], L, store[n].commit) ELSE store[m]]
      /\ matchIndex' = [m \in Node |-> IF m = n THEN MatchAfter(n, L)
                                       ELSE IF m \in A THEN NoMatch ELSE matchIndex[m]]
      /\ committed' = committed
  BY DEF ReplicateFromLeader, Leads, Log
<1>2. PICK C \in Seq(Entry) : C = committed
  BY DEF TypeOK
<1>3. LogSafe /\ Held(C) /\ KnownIn(C)
  BY <1>2 DEF Safe
<1>4. /\ A \subseteq Node \ {n} /\ L \in Seq(Entry) /\ Len(L) \in Nat /\ store[n].commit \in Nat
      /\ store[n].commit <= Len(L)
  BY PeersAreNodes, Types DEF TypeOK, Log
<1>5. \A m \in A : /\ store[m] \in Store /\ currentTerm[m] <= currentTerm[n]
                   /\ currentTerm[m] \in Nat
  BY <1>4, Types DEF Ahead
<1>6. Extends(L, n)
  BY <1>4 DEF Extends, Agree
<1>7. /\ \A m \in A : store'[m] = ReceiveAppend(store[m], L, store[n].commit)
      /\ \A m \in Node \ A : store'[m] = store[m]
  BY <1>1, <1>4
<1> HIDE DEF A, L
<1>8. \A m \in A \cup {n} : Log(m)' = L
  <2>1. \A m \in A : store'[m].log = L
    BY <1>4, <1>5, <1>7, ReceiveType
  <2>2. QED
    BY <1>4, <1>7, <2>1 DEF Log, L
<1>9. \A m \in Node \ (A \cup {n}) : Log(m)' = Log(m)
  BY <1>7 DEF Log
<1>10. A \in SUBSET Node /\ Round(n, L, A)
  BY <1>1, <1>4, <1>6, <1>8, <1>9, AcceptIsRound DEF A
<1>11. LogSafe' /\ Held(C)'
  BY <1>3, <1>4, <1>10, RoundSafe, RoundHeld
<1>12. ASSUME NEW m \in A
       PROVE  /\ Sound(store'[m], C)
              /\ Known(store'[m]) <= Known(store[m]) \/ Known(store'[m]) <= Known(store[n])
  <2>1. /\ Agree(C, L, Known(store[m])) /\ Agree(C, L, store[n].commit)
        /\ store[n].commit <= Known(store[n])
    BY <1>1, <1>3, <1>4, <1>5, LeaderKnows DEF L
  <2>2. Sound(store[m], C)
    BY <1>3, <1>4 DEF KnownIn
  <2>3. /\ Sound(store'[m], C)
        /\ Known(store'[m]) <= Known(store[m]) \/ Known(store'[m]) <= store[n].commit
    BY <1>4, <1>5, <1>7, <2>1, <2>2, ReceiveIs
  <2>4. /\ Known(store'[m]) \in Nat /\ Known(store[n]) \in Nat
    BY <1>4, Types, TypesNext DEF Known
  <2>5. QED
    BY <1>4, <2>1, <2>3, <2>4
<1>13. /\ Sound(store'[n], C) /\ Known(store'[n]) <= Known(store[n])
  <2>1. store'[n] = store[n]
    BY <1>4, <1>7
  <2>2. Known(store[n]) \in Nat
    BY Types DEF Known
  <2>3. QED
    BY <1>3, <2>1, <2>2 DEF KnownIn
<1>14. KnownIn(C)'
  <2>1. Agree(C, C, Len(C)) /\ 0 \in Nat
    BY DEF Agree
  <2>2. \A x \in Node : Agree(C, Log(x)', 0)
    BY TypesNext DEF Agree
  <2>3. \A m \in A \cup {n} :
           /\ Sound(store'[m], C)
           /\ \/ Known(store'[m]) <= Known(store[m])
              \/ Known(store'[m]) <= Known(store[n])
              \/ Known(store'[m]) <= 0
    BY <1>12, <1>13
  <2>4. \A m \in Node \ (A \cup {n}) : store'[m] = store[m]
    BY <1>7
  <2>5. QED
    BY <1>3, <1>4, <1>10, <2>1, <2>2, <2>3, <2>4, RoundKnown
<1>15. committed' = C
  BY <1>1, <1>2
<1>16. QED
  BY <1>11, <1>14, <1>15 DEF Safe, Held, KnownIn, Holds, CommittedIn

\* What a submission commits, and that everybody it reaches takes a prefix of that.
LEMMA SubmitSafe ==
    ASSUME TypeOK, TypeOK', Safe, NEW n \in Node, NEW c \in Command, SubmitCommand(n, c)
    PROVE  Safe'
<1> DEFINE A == Peers(n) \ Ahead(n, currentTerm[n])
           new == SubmitNew(n, c)
           s == store[n]
<1>1. PICK L \in Seq(Entry), k \in Nat : L = SubmitLog(n, c) /\ k = SubmitCommit(n, c)
  BY SubmitLogIs, SubmitCommitIs
<1>2. PICK C \in Seq(Entry), E \in Seq(Entry) : C = committed /\ E = committed'
  BY DEF TypeOK
<1> DEFINE first(m) == ReceiveAppend(store[m], L, s.commit)
           top == IF new = {} THEN 0 ELSE k
<1>3. LogSafe /\ Held(C) /\ KnownIn(C) /\ Len(C) \in Nat
  BY <1>2 DEF Safe
<1>4. /\ A \subseteq Node \ {n} /\ L \in Seq(Entry) /\ Len(L) \in Nat /\ Extends(L, n)
      /\ k \in Nat /\ k <= Len(L) /\ k >= s.commit
      /\ s \in Store /\ s.commit \in Nat /\ s.applied \in Seq(Entry) /\ s.commit <= Len(L)
      /\ Len(s.applied) \in Nat
  <2>1. A \subseteq Node \ {n}
    BY PeersAreNodes
  <2>2. Extends(L, n) /\ k <= Len(L) /\ k >= s.commit
    BY <1>1, SubmitLogIs, SubmitCommitIs
  <2>3. /\ s \in Store /\ s.commit \in Nat /\ s.applied \in Seq(Entry)
        /\ Len(s.applied) \in Nat
    BY Types
  <2>4. QED
    BY <2>1, <2>2, <2>3
<1>5. \A m \in A : store[m] \in Store /\ currentTerm[m] <= currentTerm[n]
  BY <1>4, Types DEF Ahead
<1>6. /\ store'[n] = ApplyCommitted([log |-> L, commit |-> k, applied |-> s.applied])
      /\ \A m \in A \cup {n} : Log(m)' = L
      /\ \A m \in A : store'[m] = IF new = {} THEN first(m) ELSE ReceiveAppend(first(m), L, k)
      /\ \A m \in Node \ (A \cup {n}) : store'[m] = store[m]
  BY <1>1, SubmitStores
<1>7. new # {} =>
         /\ k \in 1..Len(L) /\ L[k].term = currentTerm[n]
         /\ IsMajority({p \in Node : MatchAfter(n, L)[p] >= k})
         /\ Ahead(n, currentTerm[n]) = {}
  BY <1>1, SubmitCommitIs
<1>8. new = {} => k = s.commit
  BY <1>1 DEF SubmitCommit
<1>9. /\ Leads(n) /\ FollowersAccept(n)
      /\ matchIndex' = [m \in Node |-> IF m = n THEN MatchAfter(n, L)
                                       ELSE IF m \in A THEN NoMatch ELSE matchIndex[m]]
      /\ E = IF k > Len(C) THEN SubSeq(L, 1, k) ELSE C
      /\ new # {} => currentTerm'[n] = currentTerm[n] /\ Leads(n)'
  <2>1. /\ Leads(n) /\ FollowersAccept(n)
        /\ matchIndex' = [m \in Node |-> IF m = n THEN MatchAfter(n, L)
                                         ELSE IF m \in A THEN NoMatch ELSE matchIndex[m]]
        /\ E = IF k > Len(C) THEN SubSeq(L, 1, k) ELSE C
    BY <1>1, <1>2 DEF SubmitCommand, Leads, SubmitLog, SubmitCommit, SubmitNew
  <2>2. new # {} => currentTerm'[n] = currentTerm[n] /\ Leads(n)'
    BY <1>4, <1>7, <2>1 DEF FollowersAccept, Leads
  <2>3. QED
    BY <2>1, <2>2
<1> HIDE DEF A, new, first
<1>10. A \in SUBSET Node /\ Round(n, L, A)
  <2>1. \A m \in Node \ (A \cup {n}) : Log(m)' = Log(m)
    BY <1>6 DEF Log
  <2>2. QED
    BY <1>4, <1>6, <1>9, <2>1, AcceptIsRound DEF A
<1>11. LogSafe' /\ Held(C)'
  BY <1>3, <1>4, <1>10, RoundSafe, RoundHeld
\* The leader's share of C.
<1>12. /\ Agree(C, Log(n), s.commit) /\ s.commit <= Known(s)
       /\ \A m \in Node : currentTerm[m] <= currentTerm[n] => Agree(C, Log(n), Known(store[m]))
       /\ s.commit <= Len(C)
  BY <1>3, <1>4, <1>9, LeaderKnows DEF Agree
\* What the leader has committed in its own term.
<1>13. ASSUME new # {}
       PROVE  \E B \in Seq(Entry) :
                 /\ Len(B) = k /\ Agree(B, L, k) /\ B = SubSeq(L, 1, k)
                 /\ CommittedIn(B) = currentTerm[n] /\ Held(B)'
  <2>1. k \in 1..Len(L) /\ L[k].term = currentTerm[n]
    BY <1>7, <1>13
  <2>2. PICK B \in Seq(Entry) : B = SubSeq(L, 1, k) /\ Len(B) = k /\ \A j \in 1..k : B[j] = L[j]
    <3> DEFINE B == SubSeq(L, 1, k)
    <3>1. \A i \in 1..k : L[i] \in Entry
      BY <2>1
    <3>2. /\ B \in Seq(Entry) /\ Len(B) = IF 1 <= k THEN k - 1 + 1 ELSE 0
          /\ \A i \in 1..(k - 1 + 1) : B[i] = L[1 + i - 1]
      BY <3>1, SubSeqProperties
    <3> HIDE DEF B
    <3>3. B \in Seq(Entry) /\ Len(B) = k /\ \A j \in 1..k : B[j] = L[j]
      BY <2>1, <3>2
    <3>4. QED
      BY <3>3 DEF B
  <2>3. Agree(B, L, k) /\ B[k] = L[k] /\ B # <<>> /\ k > 0
    <3>1. k >= 1 /\ k <= Len(L) /\ k \in 1..k
      BY <2>1
    <3>2. B # <<>>
      BY <2>2, <3>1
    <3>3. QED
      BY SMTT(30), <2>2, <3>1, <3>2 DEF Agree
  <2>4. IsMajority({p \in Node : matchIndex'[n][p] >= k})
    BY <1>7, <1>9, <1>13
  <2>5. Log(n)' = L /\ currentTerm'[n] = currentTerm[n] /\ Leads(n)'
    BY <1>6, <1>9, <1>13
  <2>6. Held(B)'
    BY <1>11, <2>1, <2>2, <2>3, <2>4, <2>5, CommitHeld
  <2>7. QED
    BY <2>1, <2>2, <2>3, <2>6 DEF CommittedIn
\* What was committed grows to E, of which k entries are this leader's.
<1>15. Agree(C, E, Len(C)) /\ Agree(E, L, k) /\ Held(E)'
  <2>1. CASE new = {}
    <3>1. k = s.commit /\ E = C
      BY <1>3, <1>4, <1>8, <1>9, <1>12, <2>1
    <3>2. Agree(C, L, s.commit)
      BY <1>4, <1>12, ExtendsKeeps
    <3>3. QED
      BY <1>11, <3>1, <3>2 DEF Agree
  <2>2. CASE new # {}
    <3>1. PICK B \in Seq(Entry) : Len(B) = k /\ Agree(B, L, k) /\ B = SubSeq(L, 1, k) /\ Held(B)'
      BY <1>13, <2>2
    <3>2. IF k > Len(C) THEN Agree(C, B, Len(C)) ELSE Agree(B, C, k)
      BY <1>11, <3>1, CommittedAgree
    <3>3. CASE k > Len(C)
      BY <1>9, <3>1, <3>2, <3>3
    <3>4. CASE ~(k > Len(C))
      <4>1. E = C /\ Agree(C, B, k)
        BY <1>9, <3>2, <3>4, AgreeSym
      <4>2. Agree(C, L, k)
        <5>1. Agree(C, B, k) /\ Agree(B, L, k)
          BY <3>1, <4>1
        <5>2. QED
          BY <5>1, AgreeTrans
      <4>3. QED
        BY <1>11, <4>1, <4>2 DEF Agree
    <3>5. QED
      BY <3>3, <3>4
  <2>3. QED
    BY <2>1, <2>2
<1>16. ASSUME NEW i \in Nat, i <= Len(C), NEW S \in Seq(Entry), Agree(C, S, i)
       PROVE  Agree(E, S, i)
  BY <1>3, <1>15, <1>16, AgreeSym, AgreeLess, AgreeTrans
<1>17. \A m \in Node : Known(store[m]) \in Nat /\ Known(store'[m]) \in Nat /\ Known(store[m]) <= Len(C)
  BY SMTT(30), <1>3, Types, TypesNext DEF Known, KnownIn, Sound, Agree
<1>18. ASSUME NEW m \in Node PROVE Sound(store[m], E)
  <2>1. /\ store[m].log \in Seq(Entry) /\ store[m].applied \in Seq(Entry)
        /\ store[m].commit \in Nat /\ Len(store[m].applied) \in Nat
    BY Types DEF Log
  <2>2. /\ Agree(store[m].log, C, store[m].commit)
        /\ Agree(store[m].applied, C, Len(store[m].applied))
    BY <1>3 DEF KnownIn, Sound
  <2>3. store[m].commit <= Len(C) /\ Len(store[m].applied) <= Len(C)
    BY <2>2 DEF Agree
  <2>4. Agree(store[m].log, E, store[m].commit)
    BY SMTT(30), <1>3, <1>15, <2>1, <2>2, <2>3, AgreeTrans
  <2>5. Agree(store[m].applied, E, Len(store[m].applied))
    BY <1>3, <1>15, <2>1, <2>2, <2>3, AgreeTrans
  <2>6. QED
    BY <2>4, <2>5 DEF Sound
<1>19. ASSUME NEW m \in A
       PROVE  /\ Sound(store'[m], E)
              /\ \/ Known(store'[m]) <= Known(store[m])
                 \/ Known(store'[m]) <= Known(store[n])
                 \/ Known(store'[m]) <= top
  <2>1. m \in Node /\ store[m] \in Store /\ currentTerm[m] <= currentTerm[n]
    BY <1>4, <1>5
  <2>2. Agree(C, L, Known(store[m])) /\ Agree(C, L, s.commit)
    BY <1>4, <1>12, <1>17, <2>1, ExtendsKeeps
  <2>3. Agree(E, L, Known(store[m])) /\ Agree(E, L, s.commit) /\ Sound(store[m], E)
    BY <1>4, <1>12, <1>16, <1>17, <1>18, <2>1, <2>2
  <2>4. /\ first(m) \in Store /\ Sound(first(m), E) /\ Agree(E, L, Known(first(m)))
        /\ Known(first(m)) <= Known(store[m]) \/ Known(first(m)) <= s.commit
    <3>1. s.commit \in Nat /\ s.commit <= Len(L)
      BY <1>4
    <3>2. QED
      BY <2>1, <2>3, <3>1, ReceiveIs DEF first
  <2> HIDE DEF first
  <2>5. Known(first(m)) \in Nat
    BY <2>4 DEF Known, Store
  <2>6. CASE new = {}
    BY <1>4, <1>6, <1>12, <1>17, <2>1, <2>4, <2>5, <2>6
  <2>7. CASE new # {}
    <3>1. /\ Sound(store'[m], E)
          /\ Known(store'[m]) <= Known(first(m)) \/ Known(store'[m]) <= k
      BY <1>4, <1>6, <1>15, <2>4, <2>7, ReceiveIs
    <3>2. s.commit <= Known(store[n])
      BY <1>12
    <3>3. QED
      BY <1>4, <1>17, <2>1, <2>4, <2>5, <2>7, <3>1, <3>2
  <2>8. QED
    BY <2>6, <2>7
<1>20. /\ Sound(store'[n], E)
       /\ \/ Known(store'[n]) <= Known(store[n])
          \/ Known(store'[n]) <= top
  <2> DEFINE e == [log |-> L, commit |-> k, applied |-> s.applied]
             r == ApplyCommitted(e)
  <2>1. e \in Store /\ e.log = L /\ e.commit = k /\ e.applied = s.applied
    BY <1>4 DEF Store
  <2> HIDE DEF e
  <2>2. /\ r \in Store /\ r.log = L /\ r.commit = k
        /\ Len(r.applied) = IF Len(s.applied) < k THEN k ELSE Len(s.applied)
        /\ \A j \in 1..Len(r.applied) : r.applied[j] = IF j <= Len(s.applied) THEN s.applied[j] ELSE L[j]
    BY <1>4, <2>1, ApplyIs
  <2>3. store'[n] = r
    BY <1>6 DEF e
  <2> HIDE DEF r
  <2>4. Agree(L, E, k) /\ Agree(s.applied, E, Len(s.applied))
    BY <1>15, <1>18, AgreeSym DEF Sound
  <2>5. Len(E) \in Nat /\ Len(r.applied) \in Nat
    BY <1>4, <2>2
  <2>6. Agree(r.applied, E, Len(r.applied))
    BY <1>4, <2>2, <2>4, <2>5 DEF Agree
  <2>7. Sound(r, E)
    BY <2>2, <2>4, <2>6 DEF Sound
  <2>8. Known(r) = Len(r.applied) /\ (Len(s.applied) < k \/ Len(r.applied) = Len(s.applied))
    BY <1>4, <2>2, <2>5 DEF Known
  <2>9. Len(s.applied) <= Known(s) /\ s.commit <= Known(s)
    BY <1>4 DEF Known
  <2>10. CASE new = {}
    BY <1>4, <1>8, <1>17, <2>2, <2>3, <2>7, <2>8, <2>9, <2>10
  <2>11. CASE new # {}
    BY <1>4, <1>17, <2>2, <2>3, <2>7, <2>8, <2>9, <2>11
  <2>12. QED
    BY <2>10, <2>11
<1>21. ASSUME NEW x \in Node, Leads(x)', currentTerm'[x] >= currentTerm[n]
       PROVE  Agree(E, Log(x)', top)
  <2>1. Log(x)' \in Seq(Entry)
    BY TypesNext
  <2>2. CASE new = {}
    BY <2>1, <2>2 DEF Agree
  <2>3. CASE new # {}
    <3>1. PICK B \in Seq(Entry) :
              Agree(B, L, k) /\ Len(B) = k /\ CommittedIn(B) = currentTerm[n] /\ Held(B)'
      BY <1>13, <2>3
    <3>2. Agree(B, Log(x)', k)
      BY <1>21, <3>1 DEF Held, Holds, CommittedIn
    <3>3. Agree(E, B, k)
      BY <1>4, <1>15, <3>1, AgreeSym, AgreeTrans
    <3>4. QED
      BY <1>4, <2>1, <2>3, <3>2, <3>3, AgreeTrans
  <2>4. QED
    BY <2>2, <2>3
<1>22. KnownIn(E)'
  <2>1. top \in Nat
    BY <1>4
  <2>2. \A m \in A \cup {n} :
           /\ Sound(store'[m], E)
           /\ \/ Known(store'[m]) <= Known(store[m])
              \/ Known(store'[m]) <= Known(store[n])
              \/ Known(store'[m]) <= top
    BY <1>19, <1>20
  <2> HIDE DEF top
  <2>3. QED
    BY <1>3, <1>4, <1>6, <1>10, <1>15, <1>21, <2>1, <2>2, RoundKnown
<1>23. QED
  BY <1>2, <1>11, <1>15, <1>22 DEF Safe, Held, KnownIn, Holds, CommittedIn

-----------------------------------------------------------------------------
(* The invariant. *)

LEMMA TimeoutSafe ==
    ASSUME TypeOK, TypeOK', Safe, NEW n \in Node, TriggerTimeout(n), ~usurped'
    PROVE  Safe'
<1> DEFINE V == Granted(n, currentTerm[n] + 1)
<1>1. store' = store /\ committed' = committed
  BY DEF TriggerTimeout
<1>2. PICK C \in Seq(Entry) : C = committed
  BY DEF TypeOK
<1>3. LogSafe /\ Held(C) /\ KnownIn(C)
  BY <1>2 DEF Safe
<1>4. V \in SUBSET Node
  BY PeersAreNodes DEF Granted, Polled
<1>5. CASE Idle
  <2>1. \A m \in Node : Sound(store'[m], C) /\ Known(store'[m]) <= Known(store[m])
    BY <1>1, <1>3, Types DEF KnownIn, Known
  <2>2. LogSafe' /\ Held(C)' /\ KnownIn(C)'
    BY <1>3, <1>5, <2>1, IdleSafe, IdleHeld, IdleKnown
  <2>3. QED
    BY <1>1, <1>2, <2>2 DEF Safe, Held, KnownIn, Holds, CommittedIn
<1>6. CASE Wins(n, V)
  <2>1. LogSafe' /\ Held(C)' /\ KnownIn(C)'
    BY <1>1, <1>3, <1>4, <1>6, WinsSafe, WinsHeld, WinsKnown
  <2>2. QED
    BY <1>1, <1>2, <2>1 DEF Safe, Held, KnownIn, Holds, CommittedIn
<1>7. QED
  BY <1>5, <1>6, TimeoutIsElection

\* A step after which nobody leads who did not, and no node knows more than before.
LEMMA QuietSafe ==
    ASSUME TypeOK, TypeOK', Safe, Idle, committed' = committed,
           \A m \in Node : \/ store'[m] = store[m]
                           \/ store'[m] = Rebuild(store[m])
    PROVE  Safe'
<1>1. PICK C \in Seq(Entry) : C = committed
  BY DEF TypeOK
<1>2. LogSafe /\ Held(C) /\ KnownIn(C)
  BY <1>1 DEF Safe
<1>3. ASSUME NEW m \in Node
      PROVE  Sound(store'[m], C) /\ Known(store'[m]) <= Known(store[m])
  <2> DEFINE s == store[m]
             r == Rebuild(s)
  <2>1. /\ s \in Store /\ s.commit \in Nat /\ Len(s.applied) \in Nat /\ Sound(s, C)
        /\ s.commit <= Len(s.log)
    BY <1>2, Types DEF KnownIn, TypeOK
  <2>2. CASE store'[m] = s
    BY <2>1, <2>2 DEF Known
  <2>3. CASE store'[m] = r
    <3>1. Lesser(s.commit, Len(s.log)) = s.commit
      BY <2>1 DEF Lesser
    <3>2. /\ r.log = s.log /\ r.commit = s.commit /\ Len(r.applied) = s.commit
          /\ \A j \in 1..Len(r.applied) : r.applied[j] = s.log[j]
      BY <2>1, <3>1, RebuildIs
    <3> HIDE DEF r
    <3>3. Known(r) <= Known(s)
      BY <2>1, <3>2 DEF Known
    <3>4. Sound(r, C)
      BY <2>1, <3>2 DEF Sound, Agree
    <3>5. QED
      BY <2>3, <3>3, <3>4
  <2>4. QED
    BY <2>2, <2>3
<1>4. LogSafe' /\ Held(C)' /\ KnownIn(C)'
  BY <1>2, <1>3, IdleSafe, IdleHeld, IdleKnown
<1>5. QED
  BY <1>1, <1>4 DEF Safe, Held, KnownIn, Holds, CommittedIn

LEMMA CrashSafe ==
    ASSUME TypeOK, TypeOK', Safe, NEW n \in Node, CrashNode(n)
    PROVE  Safe'
<1>1. VoteRule /\ \A m \in Node : Log(m)' = Log(m)
  BY Types DEF CrashNode, votes, VoteRule, Log
<1>2. \A m \in Node : Leads(m)' => Stays(m)
  BY DEF CrashNode, TypeOK, votes, Stays, Leads
<1>3. QED
  BY <1>1, <1>2, QuietSafe DEF CrashNode, Idle

LEMMA RestartSafe ==
    ASSUME TypeOK, TypeOK', Safe, NEW n \in Node, RestartNode(n)
    PROVE  Safe'
<1>1. store' = [m \in Node |-> IF m = n THEN Rebuild(store[n]) ELSE store[m]]
  BY DEF RestartNode, TypeOK
<1>2. \A m \in Node : Log(m)' = Log(m)
  BY <1>1, RebuildIs, Types DEF Log
<1>3. VoteRule
  BY Types DEF RestartNode, votes, VoteRule
<1>4. \A m \in Node : Leads(m)' => Stays(m)
  BY DEF RestartNode, TypeOK, votes, Stays, Leads
<1>5. QED
  BY <1>1, <1>2, <1>3, <1>4, QuietSafe DEF RestartNode, Idle

LEMMA PartitionSafe ==
    ASSUME TypeOK, TypeOK', Safe, NEW P \in Cuts, SetPartition(P)
    PROVE  Safe'
<1>1. Idle
  BY Types DEF SetPartition, votes, Idle, VoteRule, Stays, Leads, Log
<1>2. QED
  BY <1>1, QuietSafe DEF SetPartition

LEMMA StutterSafe ==
    ASSUME TypeOK, TypeOK', Safe, UNCHANGED vars
    PROVE  Safe'
<1>1. Idle
  BY Types DEF vars, Idle, VoteRule, Stays, Leads, Log
<1>2. QED
  BY <1>1, QuietSafe DEF vars

LEMMA InitSafe == Init => Safe
<1> SUFFICES ASSUME Init PROVE Safe
  OBVIOUS
<1>1. /\ \A m \in Node : Log(m) = <<>> /\ ~Leads(m) /\ currentTerm[m] = 0
      /\ \A m \in Node : store[m] = [log |-> <<>>, commit |-> 0, applied |-> <<>>]
      /\ committed = <<>> /\ Len(<<>>) = 0
  BY DEF Init, Log, Leads
<1>2. LogSafe
  BY <1>1 DEF LogSafe, LeadersElected, OneLeader, EntriesElected, TermsRise, TermChain,
              LeaderHasItsTerm, Acknowledged, EntriesKept
<1>3. Held(committed)
  <2>1. \A q \in Node : currentTerm[q] >= CommittedIn(committed) /\ Holds(q, committed)
    BY <1>1 DEF CommittedIn, Holds, Agree
  <2>2. QED
    BY <2>1, AllAreMajority DEF Held
<1>4. KnownIn(committed)
  BY <1>1 DEF KnownIn, Sound, Known, Agree
<1>5. QED
  BY <1>2, <1>3, <1>4 DEF Safe

LEMMA StepSafe ==
    ASSUME TypeOK, TypeOK', LogInv, [Next]_vars
    PROVE  LogInv'
<1> SUFFICES ASSUME ~usurped' PROVE Safe'
  BY DEF LogInv
<1>1. ~usurped
  BY ZenonT(60) DEF Next, vars, TriggerTimeout, ReplicateFromLeader, SubmitCommand, CrashNode,
         RestartNode, SetPartition
<1>2. Safe
  BY <1>1 DEF LogInv
<1>3. CASE UNCHANGED vars
  BY <1>2, <1>3, StutterSafe
<1>4. ASSUME NEW n \in Node, TriggerTimeout(n) PROVE Safe'
  BY <1>2, <1>4, TimeoutSafe
<1>5. ASSUME NEW n \in Node, ReplicateFromLeader(n) PROVE Safe'
  BY <1>2, <1>5, ReplicateSafe
<1>6. ASSUME NEW n \in Node, NEW c \in Command, SubmitCommand(n, c) PROVE Safe'
  BY <1>2, <1>6, SubmitSafe
<1>7. ASSUME NEW n \in Node, CrashNode(n) PROVE Safe'
  BY <1>2, <1>7, CrashSafe
<1>8. ASSUME NEW n \in Node, RestartNode(n) PROVE Safe'
  BY <1>2, <1>8, RestartSafe
<1>9. ASSUME NEW P \in Cuts, SetPartition(P) PROVE Safe'
  BY <1>2, <1>9, PartitionSafe
<1>10. QED
  BY <1>3, <1>4, <1>5, <1>6, <1>7, <1>8, <1>9 DEF Next

\* As long as no candidate became leader after it had stepped down: logs of one term are
\* prefixes of each other, an entry that may have been committed is in the log of every
\* later leader, and what a node takes for committed was.
THEOREM LogInvariant == Spec => []LogInv
<1>1. Init => LogInv
  BY InitSafe DEF LogInv
<1>2. LogInv /\ TypeOK /\ TypeOK' /\ [Next]_vars => LogInv'
  BY StepSafe
<1>3. QED
  BY <1>1, <1>2, LogTypes, PTL DEF Spec

-----------------------------------------------------------------------------
(* What follows of it. *)

\* No two replicas apply different commands at one place: what one has applied is a
\* prefix of what the other has.
THEOREM AppliedLogsAgree == Spec => []AppliedAgree
<1>1. TypeOK /\ LogInv => AppliedAgree
  <2> SUFFICES ASSUME TypeOK, LogInv, ~usurped, NEW m \in Node, NEW n \in Node
               PROVE  LET a == store[m].applied  b == store[n].applied IN
                      IsPrefix(a, b) \/ IsPrefix(b, a)
    BY DEF AppliedAgree
  <2> DEFINE a == store[m].applied
             b == store[n].applied
  <2>1. /\ a \in Seq(Entry) /\ b \in Seq(Entry) /\ committed \in Seq(Entry)
        /\ Len(a) \in Nat /\ Len(b) \in Nat
    BY Types DEF TypeOK
  <2>2. Agree(a, committed, Len(a)) /\ Agree(b, committed, Len(b))
    BY DEF LogInv, Safe, KnownIn, Sound
  <2> HIDE DEF a, b
  <2>3. CASE Len(a) <= Len(b)
    <3>1. Agree(a, b, Len(a))
      BY <2>1, <2>2, <2>3 DEF Agree
    <3>2. QED
      BY <2>1, <3>1, AgreeIsPrefix DEF a, b
  <2>4. CASE Len(b) <= Len(a)
    <3>1. Agree(b, a, Len(b))
      BY <2>1, <2>2, <2>4 DEF Agree
    <3>2. QED
      BY <2>1, <3>1, AgreeIsPrefix DEF a, b
  <2>5. QED
    BY <2>1, <2>3, <2>4
<1>2. QED
  BY <1>1, LogTypes, LogInvariant, PTL

\* Two logs with an entry of the same term at one position are the same up to it.
THEOREM LogsMatch == Spec => []LogMatching
<1>1. TypeOK /\ LogInv => LogMatching
  <2> SUFFICES ASSUME TypeOK, LogInv, ~usurped, NEW m \in Node, NEW n \in Node,
                      NEW i \in 1..Lesser(Len(store[m].log), Len(store[n].log)),
                      store[m].log[i].term = store[n].log[i].term
               PROVE  SubSeq(store[m].log, 1, i) = SubSeq(store[n].log, 1, i)
    BY DEF LogMatching
  <2>1. /\ Log(m) \in Seq(Entry) /\ Log(n) \in Seq(Entry)
        /\ Len(Log(m)) \in Nat /\ Len(Log(n)) \in Nat
    BY Types
  <2>2. i \in 1..Len(Log(m)) /\ i \in 1..Len(Log(n)) /\ i \in Nat
    BY <2>1 DEF Lesser, Log
  <2>3. Agree(Log(m), Log(n), i)
    BY <2>2 DEF LogInv, Safe, LogSafe, TermChain, Log
  <2>4. SubSeq(Log(m), 1, i) = SubSeq(Log(n), 1, i)
    BY <2>1, <2>2, <2>3 DEF Agree
  <2>5. QED
    BY <2>4 DEF Log
<1>2. QED
  BY <1>1, LogTypes, LogInvariant, PTL

\* The leader of the latest term has everything that was ever committed: no leader
\* overwrites a committed job.
THEOREM LeadersKeepCommitted == Spec => []CommittedAreKept
<1>1. TypeOK /\ LogInv => CommittedAreKept
  <2> SUFFICES ASSUME TypeOK, LogInv, ~usurped, NEW n \in Node, Leads(n),
                      \A m \in Node : currentTerm[m] <= currentTerm[n]
               PROVE  IsPrefix(committed, store[n].log)
    BY DEF CommittedAreKept, LeaderKeepsCommitted, Leads
  <2>1. committed \in Seq(Entry) /\ Log(n) \in Seq(Entry)
    BY Types DEF TypeOK
  <2>2. PICK Q \in SUBSET Node : IsMajority(Q) /\ \A q \in Q : currentTerm[q] >= CommittedIn(committed)
    BY DEF LogInv, Safe, Held
  <2>3. PICK q \in Node : q \in Q
    BY <2>2, AllAreMajority, MajoritiesMeet
  <2>4. currentTerm[n] >= CommittedIn(committed)
    BY <2>1, <2>2, <2>3, CommittedTerm, Types
  <2>5. Agree(committed, Log(n), Len(committed))
    BY <2>4 DEF LogInv, Safe, Held, Holds
  <2>6. QED
    BY <2>1, <2>5, AgreeIsPrefix DEF Log
<1>2. QED
  BY <1>1, LogTypes, LogInvariant, PTL

-----------------------------------------------------------------------------
(* The job that the logs tell of. *)

\* FoldLeft takes the last entry off until none is left; tasks of shorter logs are
\* among its values.
Folds(g, log, k) ==
    g = [s \in SUBSET (1..k) |->
            IF s = {} THEN NoTask
            ELSE LET x == Max(s) IN Apply(g[s \ {x}], log[x].command)]

LEMMA FoldExists ==
    ASSUME NEW log, NEW k \in Nat
    PROVE  \E g : Folds(g, log, k)
<1> DEFINE T == {i \in Nat : ~\E g : Folds(g, log, i)}
<1>1. SUFFICES ASSUME T # {} PROVE FALSE
  OBVIOUS
<1>2. PICK i \in T : \A j \in T : i <= j
  BY <1>1, MinOfNat
<1>3. CASE i = 0
  <2> DEFINE g == [s \in SUBSET (1..0) |-> NoTask]
  <2>1. \A s \in SUBSET (1..0) : s = {}
    OBVIOUS
  <2>2. Folds(g, log, 0)
    BY <2>1 DEF Folds
  <2>3. QED
    BY <1>2, <1>3, <2>2
<1>4. CASE i # 0
  <2>1. i - 1 \in Nat /\ i - 1 \notin T
    BY <1>2, <1>4
  <2>2. PICK g : Folds(g, log, i - 1)
    BY <2>1
  <2> DEFINE Next1(s) == IF s = {} THEN NoTask
                         ELSE LET x == Max(s) IN Apply(g[s \ {x}], log[x].command)
             h == [s \in SUBSET (1..i) |-> Next1(s)]
  <2>3. \A s \in SUBSET (1..(i - 1)) : g[s] = Next1(s) /\ s \in SUBSET (1..i)
    <3>1. 1..(i - 1) \subseteq 1..i
      BY <1>2, <2>1
    <3>2. \A s \in SUBSET (1..(i - 1)) : g[s] = Next1(s)
      BY <2>2 DEF Folds
    <3>3. QED
      BY <3>1, <3>2
  <2>4. ASSUME NEW s \in SUBSET (1..i), s # {}
        PROVE  s \ {Max(s)} \in SUBSET (1..(i - 1))
    <3>1. s \in SUBSET (0..i) /\ i \in Nat
      BY <1>2
    <3>2. Max(s) \in s /\ \A y \in s : Max(s) >= y
      BY <2>4, <3>1, MaxOfNat
    <3>3. ASSUME NEW y \in s, y # Max(s)
          PROVE  y \in 1..(i - 1)
      <4>1. PICK m : m = Max(s)
        OBVIOUS
      <4>2. m \in 1..i /\ y \in 1..i /\ y <= m /\ y # m
        BY <3>2, <3>3, <4>1
      <4>3. QED
        BY <3>1, <4>2
    <3>4. QED
      BY <3>3
  <2>5. \A s \in SUBSET (1..i) : s # {} => h[s \ {Max(s)}] = g[s \ {Max(s)}]
    BY <2>3, <2>4
  <2> HIDE DEF Next1
  <2>6. h = [s \in SUBSET (1..i) |->
               IF s = {} THEN NoTask
               ELSE LET x == Max(s) IN Apply(h[s \ {x}], log[x].command)]
    BY <2>5 DEF Next1
  <2>7. QED
    BY <1>2, <2>6 DEF Folds
<1>5. QED
  BY <1>3, <1>4

\* The task after the first i entries.
LEMMA TaskUnfolds ==
    ASSUME NEW n, NEW log \in Seq(Entry), store[n].applied = log
    PROVE  \E f : /\ f[0] = NoTask
                  /\ \A i \in 1..Len(log) : f[i] = Apply(f[i - 1], log[i].command)
                  /\ Task(n) = f[Len(log)]
<1> DEFINE g == CHOOSE g : Folds(g, log, Len(log))
           f == [i \in 0..Len(log) |-> g[1..i]]
<1>1. DOMAIN log = 1..Len(log) /\ Len(log) \in Nat
  OBVIOUS
<1>2. Folds(g, log, Len(log))
  BY <1>1, FoldExists
<1>3. Task(n) = g[1..Len(log)]
  BY <1>1 DEF Task, FoldLeft, MapThenFoldSet, Folds
<1> HIDE DEF g
<1>4. \A s \in SUBSET (1..Len(log)) :
         g[s] = IF s = {} THEN NoTask ELSE Apply(g[s \ {Max(s)}], log[Max(s)].command)
  BY <1>2 DEF Folds
<1>5. f[0] = NoTask
  <2>1. 1..0 = {} /\ (1..0) \in SUBSET (1..Len(log)) /\ 0 \in 0..Len(log)
    BY <1>1
  <2>2. g[1..0] = NoTask
    BY <1>4, <2>1
  <2>3. QED
    BY <2>1, <2>2
<1>6. ASSUME NEW i \in 1..Len(log)
      PROVE  f[i] = Apply(f[i - 1], log[i].command)
  <2>1. (1..i) \in SUBSET (1..Len(log)) /\ i \in 1..i
    BY <1>1
  <2>2. Max(1..i) \in 1..i /\ Max(1..i) >= i
    <3>1. (1..i) \in SUBSET (0..i) /\ i \in Nat
      BY <1>1
    <3>2. QED
      BY <2>1, <3>1, MaxOfNat
  <2>3. Max(1..i) = i /\ (1..i) \ {i} = 1..(i - 1)
    BY <1>1, <2>2
  <2>4. g[1..i] = Apply(g[1..(i - 1)], log[i].command)
    BY <1>4, <2>1, <2>3
  <2>5. QED
    BY <1>1, <2>4
<1>7. Task(n) = f[Len(log)]
  BY <1>1, <1>3
<1> HIDE DEF f
<1>8. QED
  BY <1>5, <1>6, <1>7

\* f is the task after each entry of a log of length k.
Replays(f, log, k) ==
    f[0] = NoTask /\ \A i \in 1..k : f[i] = Apply(f[i - 1], log[i].command)

\* Nobody owns a task that is not started.
Owned(task) ==
    /\ task \in [status : {"none", "queued", "running", "completed"}, worker : Worker \cup {Nil}]
    /\ task.status \in {"none", "queued"} => task.worker = Nil

\* A command does not change the owner of a task that has one.
LEMMA ApplyKeepsOwner ==
    ASSUME NEW task, Owned(task), NEW c \in Command
    PROVE  /\ Owned(Apply(task, c))
           /\ task.worker # Nil => Apply(task, c).worker = task.worker
<1>1. c.kind \in {"enqueue", "start", "complete"} /\ c.worker \in Worker
  BY CommandAssumption
<1>2. CASE c.kind = "enqueue" /\ task.status = "none"
  BY <1>2 DEF Apply, Owned
<1>3. CASE c.kind = "start" /\ task.status = "queued"
  BY <1>1, <1>3 DEF Apply, Owned
<1>4. CASE c.kind = "complete" /\ task.status = "running" /\ task.worker = c.worker
  BY <1>4 DEF Apply, Owned
<1>5. CASE ~ (\/ c.kind = "enqueue" /\ task.status = "none"
              \/ c.kind = "start" /\ task.status = "queued"
              \/ c.kind = "complete" /\ task.status = "running" /\ task.worker = c.worker)
  BY <1>5 DEF Apply
<1>6. QED
  BY <1>2, <1>3, <1>4, <1>5

\* So the owner after a part of a log is the owner after all of it.
LEMMA OwnerStays ==
    ASSUME NEW log \in Seq(Entry), NEW f, Replays(f, log, Len(log)),
           NEW a \in 0..Len(log), f[a].worker # Nil
    PROVE  f[Len(log)].worker = f[a].worker
<1> DEFINE Good(i) == /\ Owned(f[i])
                      /\ i >= a => f[i].worker = f[a].worker
           T == {i \in 0..Len(log) : ~Good(i)}
<1>0. Len(log) \in Nat
  OBVIOUS
<1>1. SUFFICES ASSUME T # {} PROVE FALSE
  <2>1. SUFFICES Good(Len(log))
    BY <1>0
  <2>2. QED
    BY <1>0, <1>1
<1>2. PICK i \in T : \A j \in T : i <= j
  <2>1. T \in SUBSET Nat
    BY <1>0
  <2> HIDE DEF T
  <2>2. QED
    BY <1>1, <2>1, MinOfNat
<1>3. CASE i = 0
  <2>1. f[0] = NoTask
    BY DEF Replays
  <2>2. Owned(f[0])
    BY <2>1 DEF Owned, NoTask
  <2>3. i >= a => a = i
    BY <1>3
  <2>4. QED
    BY <1>2, <1>3, <2>2, <2>3
<1>4. CASE i # 0
  <2>1. i \in 1..Len(log) /\ i - 1 \in 0..Len(log) /\ i - 1 \notin T
    BY <1>0, <1>2, <1>4
  <2>2. Owned(f[i - 1]) /\ (i - 1 >= a => f[i - 1].worker = f[a].worker)
    BY <2>1
  <2>3. f[i] = Apply(f[i - 1], log[i].command) /\ log[i].command \in Command
    <3>1. log[i] \in Entry
      BY <2>1
    <3>2. QED
      BY <2>1, <3>1 DEF Replays, Entry
  <2>4. Owned(f[i]) /\ (f[i - 1].worker # Nil => f[i].worker = f[i - 1].worker)
    BY <2>2, <2>3, ApplyKeepsOwner
  <2>5. i >= a => i = a \/ i - 1 >= a
    BY <1>0, <2>1
  <2>6. QED
    BY <1>2, <2>2, <2>4, <2>5
<1>5. QED
  BY <1>3, <1>4

\* Logs that agree replay to the same tasks.
LEMMA SameReplay ==
    ASSUME NEW a, NEW b, NEW k \in Nat, NEW l \in Nat, k <= l,
           \A j \in 1..k : a[j] = b[j],
           NEW f, NEW g, Replays(f, a, k), Replays(g, b, l)
    PROVE  f[k] = g[k]
<1> DEFINE T == {i \in 0..k : f[i] # g[i]}
<1>1. SUFFICES ASSUME T # {} PROVE FALSE
  <2>1. k \in 0..k
    OBVIOUS
  <2>2. QED
    BY <1>1, <2>1
<1>2. PICK i \in T : \A j \in T : i <= j
  <2>1. T \in SUBSET Nat
    OBVIOUS
  <2> HIDE DEF T
  <2>2. QED
    BY <1>1, <2>1, MinOfNat
<1>3. i # 0
  BY <1>2 DEF Replays
<1>4. i \in 1..k /\ i \in 1..l /\ i - 1 \in 0..k /\ i - 1 \notin T
  BY <1>2, <1>3
<1>5. f[i] = Apply(f[i - 1], a[i].command) /\ g[i] = Apply(g[i - 1], b[i].command)
  BY <1>4 DEF Replays
<1>6. QED
  BY <1>2, <1>4, <1>5

\* The owner after a log is the owner after every log that continues it.
LEMMA OwnerOfPrefix ==
    ASSUME TypeOK, NEW m \in Node, NEW n \in Node,
           Agree(store[m].applied, store[n].applied, Len(store[m].applied)),
           Task(m).worker # Nil
    PROVE  Task(n).worker = Task(m).worker
<1> DEFINE a == store[m].applied
           b == store[n].applied
<1>1. a \in Seq(Entry) /\ b \in Seq(Entry) /\ Len(a) \in Nat /\ Len(b) \in Nat
  BY Types
<1>2. PICK f : Replays(f, a, Len(a)) /\ Task(m) = f[Len(a)]
  BY <1>1, TaskUnfolds DEF Replays
<1>3. PICK g : Replays(g, b, Len(b)) /\ Task(n) = g[Len(b)]
  BY <1>1, TaskUnfolds DEF Replays
<1>4. Len(a) <= Len(b) /\ \A j \in 1..Len(a) : a[j] = b[j]
  BY DEF Agree
<1> HIDE DEF a, b
<1>5. f[Len(a)] = g[Len(a)]
  BY SMTT(30), <1>1, <1>2, <1>3, <1>4, SameReplay
<1>6. Len(a) \in 0..Len(b)
  BY <1>1, <1>4
<1>7. g[Len(b)].worker = g[Len(a)].worker
  BY <1>1, <1>2, <1>3, <1>5, <1>6, OwnerStays
<1>8. QED
  BY <1>2, <1>3, <1>5, <1>7

\* The job is claimed by one worker: no two replicas show different owners, whatever
\* part of the log they have applied.
THEOREM OneOwnerAlways == Spec => []OneOwner
<1>1. TypeOK /\ LogInv => OneOwner
  <2> SUFFICES ASSUME TypeOK, LogInv, ~usurped, NEW m \in Node, NEW n \in Node,
                      Task(m).worker # Nil, Task(n).worker # Nil
               PROVE  Task(m).worker = Task(n).worker
    BY DEF OneOwner
  <2> DEFINE a == store[m].applied
             b == store[n].applied
  <2>1. /\ a \in Seq(Entry) /\ b \in Seq(Entry) /\ Len(a) \in Nat /\ Len(b) \in Nat
        /\ Agree(a, committed, Len(a)) /\ Agree(b, committed, Len(b))
    BY Types DEF LogInv, Safe, KnownIn, Sound
  <2>2. CASE Len(a) <= Len(b)
    <3>1. Agree(a, b, Len(a))
      BY <2>1, <2>2 DEF Agree
    <3>2. QED
      BY <3>1, OwnerOfPrefix
  <2>3. CASE Len(b) <= Len(a)
    <3>1. Agree(b, a, Len(b))
      BY <2>1, <2>3 DEF Agree
    <3>2. QED
      BY <3>1, OwnerOfPrefix
  <2>4. QED
    BY <2>1, <2>2, <2>3
<1>2. QED
  BY <1>1, LogTypes, LogInvariant, PTL
=============================================================================
