------------------------ MODULE PartitionedStoreProofs ------------------------
(* Theorems about the store of PartitionedStore, for every set of nodes and
   keys, every order of preference and every quorum configuration. *)
EXTENDS PartitionedStore, TLAPS

\* What % does on the numbers a read computes with.
LEMMA Remainders ==
    ASSUME NEW c \in Nat \ {0}
    PROVE  /\ \A x \in Nat : x % c \in 0..(c - 1)
           /\ \A s \in 0..(c - 1) : s % c = s
           /\ c % c = 0
  <1>1. \A x \in Nat : x % c \in 0..(c - 1)
    BY SMT
  <1>2. \A s \in 0..(c - 1) : s % c = s
    BY SMT
  <1>3. c % c = 0
    BY SMT
  <1>4. QED
    BY <1>1, <1>2, <1>3

\* What the configuration and the ring give.
LEMMA Configured ==
    ASSUME quorum \in Quorum
    PROVE  /\ quorum.copies \in Nat \ {0} /\ quorum.read \in 1..quorum.copies
           /\ quorum.write \in 1..quorum.copies
           /\ \A k \in Key, i \in 1..quorum.copies : Owner(k, i) \in Node
  <1>1. /\ quorum \in [copies : Nat, read : Nat, write : Nat]
        /\ quorum.read \in 1..quorum.copies /\ quorum.write \in 1..quorum.copies
    BY QuorumAssumption
  <1>2. ASSUME NEW k \in Key, NEW i \in 1..quorum.copies
        PROVE  Owner(k, i) \in Node
    <2>1. Preference[k] \in Seq(Node) /\ quorum.copies <= Len(Preference[k])
      BY QuorumAssumption
    <2>2. i \in 1..Len(Preference[k])
      BY <1>1, <2>1
    <2>3. QED
      BY <2>1, <2>2 DEF Owner
  <1>3. QED
    BY <1>1, <1>2

\* A read asks owners only, at least one, and one that acknowledged every write when
\* the quorums overlap.
LEMMA ContactedMeets ==
    ASSUME quorum \in Quorum, NEW offset \in Nat
    PROVE  /\ Contacted(offset) \subseteq 1..quorum.copies
           /\ Contacted(offset) # {}
           /\ Strong => \E i \in Contacted(offset) : i \in 1..quorum.write
  <1> DEFINE c == quorum.copies
             s == offset % c
             at(i) == ((s + i) % c) + 1
  <1>1. /\ c \in Nat \ {0} /\ quorum.read \in 1..c /\ quorum.write \in 1..c
    BY Configured
  <1>2. s \in 0..(c - 1)
    BY <1>1, Remainders
  <1>3. Contacted(offset) = {at(i) : i \in 0..(quorum.read - 1)}
    BY DEF Contacted
  <1> HIDE DEF c, s
  <1>4. \A i \in 0..(quorum.read - 1) : at(i) \in 1..c
    <2>1. \A i \in 0..(quorum.read - 1) : s + i \in Nat
      BY <1>1, <1>2
    <2>2. \A i \in 0..(quorum.read - 1) : (s + i) % c \in 0..(c - 1)
      BY <1>1, <2>1, Remainders
    <2>3. QED
      BY <1>1, <2>2
  <1>5. at(0) = s + 1 /\ 0 \in 0..(quorum.read - 1)
    <2>1. s + 0 = s
      BY <1>1, <1>2
    <2>2. (s + 0) % c = s
      <3>1. s % c = s
        BY <1>1, <1>2, Remainders, Zenon
      <3>2. QED
        BY <2>1, <3>1, Zenon
    <2>3. 0 \in 0..(quorum.read - 1)
      BY <1>1
    <2>4. QED
      BY <2>2, <2>3, Zenon
  <1>6. ASSUME Strong
        PROVE  \E i \in Contacted(offset) : i \in 1..quorum.write
    <2>1. quorum.read + quorum.write > c
      BY <1>6 DEF Strong, c
    <2>2. CASE s + 1 <= quorum.write
      <3>1. at(0) \in Contacted(offset)
        BY <1>3, <1>5
      <3>2. at(0) \in 1..quorum.write
        BY <1>1, <1>2, <1>5, <2>2
      <3>3. QED
        BY <3>1, <3>2
    <2>3. CASE s + 1 > quorum.write
      <3>1. c - s \in 0..(quorum.read - 1) /\ s + (c - s) = c
        BY <1>1, <1>2, <2>1, <2>3
      <3>2. at(c - s) = 1
        BY <1>1, <3>1, Remainders
      <3>3. at(c - s) \in Contacted(offset)
        BY <1>3, <3>1
      <3>4. 1 \in 1..quorum.write
        BY <1>1
      <3>5. QED
        BY <3>2, <3>3, <3>4
    <2>4. QED
      BY <1>1, <1>2, <2>2, <2>3
  <1>7. QED
    BY <1>3, <1>4, <1>5, <1>6 DEF c

-----------------------------------------------------------------------------

\* The owners that acknowledge a key hold all that is known of it; to the other
\* owners the rest is on its way; nothing else is on its way.
Placed ==
    /\ \A k \in Key, i \in 1..quorum.write : Known(k) \subseteq VersionsOf(Owner(k, i), k)
    /\ \A k \in Key, i \in 1..quorum.copies : \A v \in Known(k) :
          v \in replica[Owner(k, i)] \/ <<Owner(k, i), v>> \in pending
    /\ \A u \in pending : u[2].key \in Key /\ u[2] \in Known(u[2].key)

IInv == TypeOK /\ Placed

\* A read of owners that hold everything known sees its heads.
LEMMA PlacedReads ==
    ASSUME IInv
    PROVE  ReadsSeeHeads
  <1>1. quorum \in Quorum
    BY DEF IInv, TypeOK
  <1>2. ASSUME Strong \/ pending = {}, NEW k \in Key, NEW offset \in 0..(quorum.copies - 1)
        PROVE  Read(k, offset) = Heads(Known(k))
    <2> DEFINE visible == UNION {VersionsOf(Owner(k, i), k) : i \in Contacted(offset)}
    <2>1. /\ Contacted(offset) \subseteq 1..quorum.copies /\ Contacted(offset) # {}
          /\ Strong => \E i \in Contacted(offset) : i \in 1..quorum.write
      BY <1>1, ContactedMeets, Configured
    <2>2. visible \subseteq Known(k)
      BY <2>1 DEF Known
    <2>3. \E i \in Contacted(offset) : Known(k) \subseteq VersionsOf(Owner(k, i), k)
      <3>1. CASE Strong
        BY <2>1, <3>1 DEF IInv, Placed
      <3>2. CASE pending = {}
        <4>1. PICK i \in Contacted(offset) : i \in 1..quorum.copies
          BY <2>1
        <4>2. \A v \in Known(k) : v \in replica[Owner(k, i)]
          BY <3>2, <4>1 DEF IInv, Placed
        <4>3. \A v \in Known(k) : v.key = k
          BY DEF Known, VersionsOf
        <4>4. QED
          BY <4>2, <4>3 DEF VersionsOf
      <3>3. QED
        BY <1>2, <3>1, <3>2
    <2>4. visible = Known(k)
      BY <2>2, <2>3
    <2>5. QED
      BY <2>4 DEF Read
  <1>3. QED
    BY <1>2 DEF ReadsSeeHeads

\* A write reaches every acknowledging owner and is on its way to the others.
LEMMA WriteKeepsPlaced ==
    ASSUME IInv, NEW k \in Key, NEW observed \in SUBSET (1..last), WriteTask(k, observed)
    PROVE  IInv'
  <1> DEFINE version == [id |-> last + 1, key |-> k, parents |-> observed]
  <1>1. /\ quorum \in Quorum /\ quorum' = quorum
        /\ last \in 0..MaxVersions /\ last < MaxVersions /\ last' = last + 1
        /\ replica \in [Node -> SUBSET Version] /\ pending \subseteq Node \X Version
    BY DEF IInv, TypeOK, WriteTask
  <1>2. /\ replica' = [n \in Node |-> IF n \in Acknowledging(k)
                                     THEN replica[n] \union {version} ELSE replica[n]]
        /\ pending' = pending \union (Deferred(k) \X {version})
    BY DEF WriteTask
  <1>3. version \in Version /\ version.key = k
    BY <1>1, BoundAssumption DEF Version, VersionId
  <1>4. /\ quorum.copies \in Nat \ {0} /\ quorum.write \in 1..quorum.copies
        /\ \A l \in Key, i \in 1..quorum.copies : Owner(l, i) \in Node
    BY <1>1, Configured
  <1> HIDE DEF version
  <1>5. Deferred(k) \subseteq Node
    BY <1>4 DEF Deferred
  <1>6. TypeOK'
    <2>1. quorum' \in Quorum
      BY <1>1
    <2>2. replica' \in [Node -> SUBSET Version]
      BY <1>1, <1>2, <1>3
    <2>3. pending' \subseteq Node \X Version
      BY <1>1, <1>2, <1>3, <1>5
    <2>4. last' \in 0..MaxVersions
      BY <1>1, BoundAssumption
    <2>5. QED
      BY <2>1, <2>2, <2>3, <2>4 DEF TypeOK
  <1>7. \A l \in Key, i \in 1..quorum.copies :
           VersionsOf(Owner(l, i), l)' =
              IF l = k /\ Owner(l, i) \in Acknowledging(k)
              THEN VersionsOf(Owner(l, i), l) \union {version} ELSE VersionsOf(Owner(l, i), l)
    BY <1>2, <1>3, <1>4 DEF VersionsOf, Owner
  <1>8. \A i \in 1..quorum.write : i \in 1..quorum.copies /\ Owner(k, i) \in Acknowledging(k)
    BY <1>4 DEF Acknowledging
  <1>9. Known(k)' = Known(k) \union {version}
    <2>1. 1 \in 1..quorum.write
      BY <1>4
    <2>2. version \in VersionsOf(Owner(k, 1), k)' /\ 1 \in 1..quorum.copies
      BY <1>7, <1>8, <2>1
    <2>3. Known(k)' = UNION {VersionsOf(Owner(k, i), k)' : i \in 1..quorum.copies}
      BY <1>1 DEF Known, Owner
    <2>4. QED
      BY <1>7, <2>2, <2>3 DEF Known
  <1>10. \A l \in Key \ {k} : Known(l)' = Known(l)
    <2>1. \A l \in Key : Known(l)' = UNION {VersionsOf(Owner(l, i), l)' : i \in 1..quorum.copies}
      BY <1>1 DEF Known, Owner
    <2>2. QED
      BY <1>7, <2>1 DEF Known
  <1>11. ASSUME NEW l \in Key, NEW i \in 1..quorum.write
         PROVE  Known(l)' \subseteq VersionsOf(Owner(l, i), l)'
    <2>1. Known(l) \subseteq VersionsOf(Owner(l, i), l)
      BY DEF IInv, Placed
    <2>2. QED
      BY <1>7, <1>8, <1>9, <1>10, <2>1
  <1>12. ASSUME NEW l \in Key, NEW i \in 1..quorum.copies, NEW v \in Known(l)'
         PROVE  v \in replica'[Owner(l, i)] \/ <<Owner(l, i), v>> \in pending'
    <2>1. CASE v \in Known(l)
      <3>1. v \in replica[Owner(l, i)] \/ <<Owner(l, i), v>> \in pending
        BY <2>1 DEF IInv, Placed
      <3>2. QED
        BY <1>2, <1>4, <3>1
    <2>2. CASE v \notin Known(l)
      <3>1. l = k /\ v = version
        BY <1>9, <1>10, <2>2
      <3>2. CASE i \in 1..quorum.write
        BY <1>2, <1>4, <1>8, <3>1, <3>2
      <3>3. CASE i \notin 1..quorum.write
        <4>1. i \in (quorum.write + 1)..quorum.copies
          BY <1>4, <3>3
        <4>2. Owner(k, i) \in Deferred(k)
          BY <4>1 DEF Deferred
        <4>3. QED
          BY <1>2, <3>1, <4>2
      <3>4. QED
        BY <3>2, <3>3
    <2>3. QED
      BY <2>1, <2>2
  <1>13. ASSUME NEW u \in pending'
         PROVE  u[2].key \in Key /\ u[2] \in Known(u[2].key)'
    <2>1. CASE u \in pending
      <3>1. u[2].key \in Key /\ u[2] \in Known(u[2].key)
        BY <2>1 DEF IInv, Placed
      <3>2. QED
        BY <1>9, <1>10, <3>1
    <2>2. CASE u \notin pending
      BY <1>2, <1>3, <1>9, <2>2
    <2>3. QED
      BY <2>1, <2>2
  <1>14. Placed'
    BY <1>1, <1>11, <1>12, <1>13 DEF Placed, Owner
  <1>15. QED
    BY <1>6, <1>14 DEF IInv

\* Replication delivers everything at once and makes nothing new known.
LEMMA ReplicationKeepsPlaced ==
    ASSUME IInv, ReplicatePending
    PROVE  IInv'
  <1>1. /\ quorum \in Quorum /\ quorum' = quorum /\ last' = last
        /\ replica \in [Node -> SUBSET Version] /\ pending \subseteq Node \X Version
        /\ replica' = [n \in Node |-> replica[n] \union Arriving(n)] /\ pending' = {}
    BY DEF IInv, TypeOK, ReplicatePending
  <1>2. /\ quorum.write \in 1..quorum.copies /\ quorum.copies \in Nat \ {0}
        /\ \A l \in Key, i \in 1..quorum.copies : Owner(l, i) \in Node
    BY <1>1, Configured
  <1>3. \A n \in Node : \A v \in Arriving(n) : v \in Version /\ v.key \in Key /\ v \in Known(v.key)
    BY <1>1 DEF Arriving, IInv, Placed
  <1>4. TypeOK'
    BY <1>1, <1>3 DEF IInv, TypeOK
  <1>5. \A l \in Key, i \in 1..quorum.copies :
           /\ VersionsOf(Owner(l, i), l) \subseteq VersionsOf(Owner(l, i), l)'
           /\ VersionsOf(Owner(l, i), l)' \subseteq Known(l)
    <2>1. ASSUME NEW l \in Key, NEW i \in 1..quorum.copies
          PROVE  /\ VersionsOf(Owner(l, i), l) \subseteq VersionsOf(Owner(l, i), l)'
                 /\ VersionsOf(Owner(l, i), l)' \subseteq Known(l)
      <3>1. replica'[Owner(l, i)] = replica[Owner(l, i)] \union Arriving(Owner(l, i))
        BY <1>1, <1>2
      <3>2. VersionsOf(Owner(l, i), l)' = {v \in replica'[Owner(l, i)] : v.key = l}
        BY DEF VersionsOf, Owner
      <3>3. {v \in replica[Owner(l, i)] : v.key = l} \subseteq Known(l)
        BY DEF Known, VersionsOf
      <3>4. QED
        BY <1>2, <1>3, <3>1, <3>2, <3>3 DEF VersionsOf
    <2>2. QED
      BY <2>1
  <1>6. \A l \in Key : Known(l)' = Known(l)
    <2>1. \A l \in Key : Known(l)' = UNION {VersionsOf(Owner(l, i), l)' : i \in 1..quorum.copies}
      BY <1>1 DEF Known, Owner
    <2>2. QED
      BY <1>5, <2>1 DEF Known
  <1>7. ASSUME NEW l \in Key, NEW i \in 1..quorum.copies, NEW v \in Known(l)
        PROVE  v \in replica'[Owner(l, i)]
    <2>1. v \in replica[Owner(l, i)] \/ <<Owner(l, i), v>> \in pending
      BY DEF IInv, Placed
    <2>2. <<Owner(l, i), v>> \in pending => v \in Arriving(Owner(l, i))
      BY DEF Arriving
    <2>3. QED
      BY <1>1, <1>2, <2>1, <2>2
  <1>8. \A l \in Key, i \in 1..quorum.write : Known(l)' \subseteq VersionsOf(Owner(l, i), l)'
    <2>1. \A l \in Key, i \in 1..quorum.write : i \in 1..quorum.copies
      BY <1>2
    <2>2. \A l \in Key, i \in 1..quorum.write :
             Known(l) \subseteq VersionsOf(Owner(l, i), l)
      BY DEF IInv, Placed
    <2>3. QED
      BY <1>5, <1>6, <2>1, <2>2
  <1>9. Placed'
    BY <1>1, <1>6, <1>7, <1>8 DEF Placed, Owner
  <1>10. QED
    BY <1>4, <1>9 DEF IInv

\* Reads see the newest versions of a key from whatever owner they start at, whenever
\* the quorums overlap and otherwise once nothing waits, for every configuration.
THEOREM ReadsSeeHeadsAlways == Spec => []ReadsSeeHeads
  <1>1. Init => IInv
    <2>1. ASSUME Init
          PROVE  TypeOK
      BY <2>1, BoundAssumption DEF Init, TypeOK
    <2>2. ASSUME Init
          PROVE  Placed
      <3>1. quorum \in Quorum /\ replica = [n \in Node |-> {}] /\ pending = {}
        BY <2>2 DEF Init
      <3>2. \A k \in Key, i \in 1..quorum.copies : Owner(k, i) \in Node
        BY <3>1, Configured
      <3>3. \A k \in Key : Known(k) = {}
        BY <3>1, <3>2 DEF Known, VersionsOf
      <3>4. QED
        BY <3>1, <3>3 DEF Placed
    <2>3. QED
      BY <2>1, <2>2 DEF IInv
  <1>2. IInv /\ [Next]_vars => IInv'
    <2>1. ASSUME IInv, UNCHANGED vars
          PROVE  IInv'
      BY <2>1 DEF vars, IInv, TypeOK, Placed, Known, VersionsOf, Owner
    <2>2. QED
      BY <2>1, WriteKeepsPlaced, ReplicationKeepsPlaced DEF Next
  <1>3. IInv => ReadsSeeHeads
    BY PlacedReads
  <1>4. QED
    BY <1>1, <1>2, <1>3, PTL DEF Spec

-----------------------------------------------------------------------------

\* Versions have parents with lower ids, and what is known was written.
Ordered ==
    \A k \in Key : \A v \in Known(k) : v.id <= last /\ \A p \in v.parents : p < v.id

\* An owner that holds a version holds everything older that is known of the key: what
\* waits is delivered in one piece, and an acknowledging owner has all of it.
NoGaps ==
    \A k \in Key, i \in 1..quorum.copies :
        \A v \in VersionsOf(Owner(k, i), k), u \in Known(k) :
            u.id < v.id => u \in VersionsOf(Owner(k, i), k)

HInv == IInv /\ Ordered /\ NoGaps

\* What is known after a write: the new version of its key, and what was known before.
LEMMA KnownAfterWrite ==
    ASSUME IInv, NEW k \in Key, NEW observed \in SUBSET (1..last), WriteTask(k, observed)
    PROVE  LET new == [id |-> last + 1, key |-> k, parents |-> observed] IN
           /\ quorum' = quorum /\ last' = last + 1 /\ last \in Nat
           /\ \A l \in Key, i \in 1..quorum.copies :
                 VersionsOf(Owner(l, i), l)' =
                    IF l = k /\ Owner(l, i) \in Acknowledging(k)
                    THEN VersionsOf(Owner(l, i), l) \union {new} ELSE VersionsOf(Owner(l, i), l)
           /\ \A l \in Key : Known(l)' \subseteq IF l = k THEN Known(l) \union {new} ELSE Known(l)
  <1> DEFINE new == [id |-> last + 1, key |-> k, parents |-> observed]
  <1>1. /\ quorum \in Quorum /\ quorum' = quorum /\ last' = last + 1 /\ last \in Nat
        /\ replica' = [n \in Node |-> IF n \in Acknowledging(k)
                                     THEN replica[n] \union {new} ELSE replica[n]]
    BY BoundAssumption DEF IInv, TypeOK, WriteTask
  <1>2. \A l \in Key, i \in 1..quorum.copies : Owner(l, i) \in Node
    BY <1>1, Configured
  <1>3. new.key = k
    OBVIOUS
  <1> HIDE DEF new
  <1>4. \A l \in Key, i \in 1..quorum.copies :
           VersionsOf(Owner(l, i), l)' =
              IF l = k /\ Owner(l, i) \in Acknowledging(k)
              THEN VersionsOf(Owner(l, i), l) \union {new} ELSE VersionsOf(Owner(l, i), l)
    BY <1>1, <1>2, <1>3 DEF VersionsOf, Owner
  <1>5. \A l \in Key : Known(l)' = UNION {VersionsOf(Owner(l, i), l)' : i \in 1..quorum.copies}
    BY <1>1 DEF Known, Owner
  <1>6. \A l \in Key : Known(l)' \subseteq IF l = k THEN Known(l) \union {new} ELSE Known(l)
    BY <1>4, <1>5 DEF Known
  <1>7. QED
    BY <1>1, <1>4, <1>6 DEF new

\* The new version is the newest, so a gap could only be below it, at owners that
\* acknowledge and so hold everything.
LEMMA WriteLeavesNoGaps ==
    ASSUME HInv, NEW k \in Key, NEW observed \in SUBSET (1..last), WriteTask(k, observed)
    PROVE  HInv'
  <1> DEFINE new == [id |-> last + 1, key |-> k, parents |-> observed]
  <1>1. IInv /\ Ordered /\ NoGaps /\ IInv'
    BY WriteKeepsPlaced DEF HInv
  <1>2. /\ quorum' = quorum /\ last' = last + 1 /\ last \in Nat
        /\ \A l \in Key, i \in 1..quorum.copies :
              VersionsOf(Owner(l, i), l)' =
                 IF l = k /\ Owner(l, i) \in Acknowledging(k)
                 THEN VersionsOf(Owner(l, i), l) \union {new} ELSE VersionsOf(Owner(l, i), l)
        /\ \A l \in Key : Known(l)' \subseteq IF l = k THEN Known(l) \union {new} ELSE Known(l)
    BY <1>1, KnownAfterWrite
  <1>3. new.id = last + 1 /\ new.parents = observed /\ \A p \in observed : p < last + 1
    BY <1>2
  <1> HIDE DEF new
  <1>4. ASSUME NEW l \in Key, NEW v \in Known(l), v.id \notin Int \/ v.id > last PROVE FALSE
    <2>1. v \in Version
      BY <1>1, Configured DEF IInv, TypeOK, Known, VersionsOf
    <2>2. v.id \in Int
      BY <2>1, BoundAssumption DEF Version, VersionId
    <2>3. QED
      BY <1>1, <1>2, <1>4, <2>2 DEF Ordered
  <1>5. Ordered'
    <2>1. ASSUME NEW l \in Key, NEW v \in Known(l)'
          PROVE  v.id <= last' /\ \A p \in v.parents : p < v.id
      <3>1. CASE v \in Known(l)
        BY <1>1, <1>2, <1>4, <3>1 DEF Ordered
      <3>2. CASE v = new
        BY <1>2, <1>3, <3>2
      <3>3. QED
        BY <1>2, <2>1, <3>1, <3>2
    <2>2. QED
      BY <2>1 DEF Ordered
  <1>6. NoGaps'
    <2>1. ASSUME NEW l \in Key, NEW i \in 1..quorum.copies,
                 NEW v \in VersionsOf(Owner(l, i), l)', NEW u \in Known(l)', u.id < v.id
          PROVE  u \in VersionsOf(Owner(l, i), l)'
      <3>1. CASE u \in Known(l) /\ v \in VersionsOf(Owner(l, i), l)
        BY <1>1, <1>2, <2>1, <3>1 DEF NoGaps
      <3>2. CASE v \notin VersionsOf(Owner(l, i), l)
        <4>1. l = k /\ v = new /\ Owner(l, i) \in Acknowledging(k)
          BY <1>2, <2>1, <3>2
        <4>2. PICK j \in 1..quorum.write : Owner(l, i) = Owner(k, j)
          BY <4>1 DEF Acknowledging
        <4>3. Known(k) \subseteq VersionsOf(Owner(l, i), k)
          BY <1>1, <4>1, <4>2 DEF IInv, Placed
        <4>4. u \in Known(k) \union {new}
          BY <1>2, <4>1
        <4>5. QED
          BY <1>2, <4>1, <4>3, <4>4
      <3>3. CASE u \notin Known(l) /\ v \in VersionsOf(Owner(l, i), l)
        <4>1. u = new
          BY <1>2, <2>1, <3>3
        <4>2. v \in Known(l)
          BY <3>3 DEF Known
        <4>3. v.id \in Int /\ v.id <= last /\ last \in Int
          BY <1>2, <1>4, <4>2
        <4>4. last + 1 < v.id
          BY <1>3, <2>1, <4>1
        <4>5. QED
          BY <4>3, <4>4
      <3>4. QED
        BY <3>1, <3>2, <3>3
    <2>2. QED
      BY <1>2, <2>1 DEF NoGaps, Owner
  <1>7. QED
    BY <1>1, <1>5, <1>6 DEF HInv

\* Replication gives every owner everything.
LEMMA ReplicationLeavesNoGaps ==
    ASSUME HInv, ReplicatePending
    PROVE  HInv'
  <1>1. IInv /\ Ordered /\ IInv' /\ quorum' = quorum /\ last' = last /\ pending' = {}
    BY ReplicationKeepsPlaced DEF HInv, ReplicatePending
  <1>2. \A l \in Key, i \in 1..quorum.copies : Known(l)' \subseteq VersionsOf(Owner(l, i), l)'
    <2>1. ASSUME NEW l \in Key, NEW i \in 1..quorum.copies, NEW v \in Known(l)'
          PROVE  v \in replica'[Owner(l, i)] /\ v.key = l
      <3>1. v \in replica'[Owner(l, i)] \/ <<Owner(l, i), v>> \in pending'
        BY <1>1 DEF IInv, Placed, Owner
      <3>2. v.key = l
        BY DEF Known, VersionsOf
      <3>3. QED
        BY <1>1, <3>1, <3>2
    <2>2. QED
      BY <2>1 DEF VersionsOf, Owner
  <1>3. \A l \in Key : Known(l)' \subseteq Known(l)
    <2>1. /\ quorum \in Quorum /\ replica \in [Node -> SUBSET Version]
          /\ replica' = [n \in Node |-> replica[n] \union Arriving(n)]
          /\ \A l \in Key, i \in 1..quorum.copies : Owner(l, i) \in Node
      BY <1>1, Configured DEF IInv, TypeOK, ReplicatePending
    <2>2. \A n \in Node : \A v \in Arriving(n) : v \in Known(v.key)
      BY <1>1 DEF Arriving, IInv, Placed
    <2>3. ASSUME NEW l \in Key, NEW v \in Known(l)' PROVE v \in Known(l)
      <3>1. PICK i \in 1..quorum.copies : v \in replica'[Owner(l, i)] /\ v.key = l
        BY <1>1 DEF Known, VersionsOf, Owner
      <3>2. v \in replica[Owner(l, i)] \/ v \in Arriving(Owner(l, i))
        BY <2>1, <3>1
      <3>3. QED
        BY <2>1, <2>2, <3>1, <3>2 DEF Known, VersionsOf
    <2>4. QED
      BY <2>3
  <1>4. Ordered'
    BY <1>1, <1>3 DEF Ordered
  <1>5. NoGaps'
    BY <1>1, <1>2 DEF NoGaps, Owner
  <1>6. QED
    BY <1>1, <1>4, <1>5 DEF HInv

\* Without gaps a read sees every version older than one it returns, so the version that
\* names a superseded one as its parent is in sight.
LEMMA NoGapsConcurrent ==
    ASSUME HInv
    PROVE  SiblingsConcurrent
  <1>1. IInv /\ Ordered /\ NoGaps /\ quorum \in Quorum
    BY DEF HInv, IInv, TypeOK
  <1>2. ASSUME NEW k \in Key, NEW offset \in 0..(quorum.copies - 1),
               NEW v \in Read(k, offset), NEW w \in Read(k, offset),
               v.id \in Superseded(w, Known(k))
        PROVE  FALSE
    <2> DEFINE visible == UNION {VersionsOf(Owner(k, i), k) : i \in Contacted(offset)}
               S == {id \in VersionId : id < w.id /\ id # v.id}
    <2>1. Contacted(offset) \subseteq 1..quorum.copies
      BY <1>1, ContactedMeets, Configured
    <2>2. visible \subseteq Known(k)
      BY <2>1 DEF Known
    <2>3. /\ v \in visible /\ w \in visible
          /\ \A x \in visible : v.id \notin x.parents
      BY DEF Read, Heads
    <2>4. \A x \in Known(k) : x.id < w.id => x \in visible
      BY <1>1, <2>1, <2>3 DEF NoGaps
    <2>5. \A x \in Known(k) : x \in Version
      BY <1>1, Configured DEF IInv, TypeOK, Known, VersionsOf
    <2>6. \A x \in Known(k) : x.parents \subseteq VersionId /\ x.id \in Int
                                /\ \A p \in x.parents : p \in Int /\ p < x.id
      BY <1>1, <2>5, BoundAssumption DEF Version, VersionId, Ordered
    <2>7. w.parents \subseteq S
      BY <2>2, <2>3, <2>6
    <2>8. ASSUME NEW x \in Known(k), x.id \in S PROVE x.parents \subseteq S
      <3>1. x.id < w.id /\ x \in visible
        BY <2>4, <2>8
      <3>2. v.id \notin x.parents
        BY <2>3, <3>1
      <3>3. w.id \in Int
        BY <2>2, <2>3, <2>6
      <3>4. QED
        BY <2>6, <3>1, <3>2, <3>3
    <2>9. S \in SUBSET VersionId /\ v.id \notin S
      OBVIOUS
    <2>10. QED
      BY <1>2, <2>7, <2>8, <2>9 DEF Superseded
  <1>3. QED
    BY <1>2 DEF SiblingsConcurrent

\* A read, even a stale one, never returns a version together with one that supersedes
\* it, although heads are found by direct parents alone, for every configuration.
THEOREM SiblingsConcurrentAlways == Spec => []SiblingsConcurrent
  <1>1. Init => HInv
    <2>1. ASSUME Init
          PROVE  /\ IInv
                 /\ quorum \in Quorum /\ replica = [n \in Node |-> {}]
      <3>1. TypeOK /\ quorum \in Quorum /\ replica = [n \in Node |-> {}] /\ pending = {}
        BY <2>1, BoundAssumption DEF Init, TypeOK
      <3>2. \A k \in Key, i \in 1..quorum.copies : Owner(k, i) \in Node
        BY <3>1, Configured
      <3>3. \A k \in Key : Known(k) = {}
        BY <3>1, <3>2 DEF Known, VersionsOf
      <3>4. Placed
        BY <3>1, <3>3 DEF Placed
      <3>5. QED
        BY <3>1, <3>4 DEF IInv
    <2>2. ASSUME Init
          PROVE  \A k \in Key : Known(k) = {}
      <3>1. \A k \in Key, i \in 1..quorum.copies : Owner(k, i) \in Node
        BY <2>1, <2>2, Configured
      <3>2. QED
        BY <2>1, <2>2, <3>1 DEF Known, VersionsOf
    <2>3. QED
      BY <2>1, <2>2 DEF HInv, Ordered, NoGaps
  <1>2. HInv /\ [Next]_vars => HInv'
    <2>1. ASSUME HInv, UNCHANGED vars
          PROVE  HInv'
      BY <2>1 DEF vars, HInv, Ordered, NoGaps, IInv, TypeOK, Placed, Known, VersionsOf, Owner
    <2>2. QED
      BY <2>1, WriteLeavesNoGaps, ReplicationLeavesNoGaps DEF Next
  <1>3. HInv => SiblingsConcurrent
    BY NoGapsConcurrent
  <1>4. QED
    BY <1>1, <1>2, <1>3, PTL DEF Spec
=============================================================================
