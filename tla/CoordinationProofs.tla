-------------------------- MODULE CoordinationProofs --------------------------
(***************************************************************************)
(* Proofs about the parts of MCCoordination: the fenced lease and the      *)
(* Redis-style lock for every set of clients, every ttl, interval and      *)
(* bound; the quorum register and the logical clocks for every cluster;    *)
(* the project scheduler for every set of nodes, reports, submissions,     *)
(* quotas and times; the workflow engine for every graph and plan.         *)
(***************************************************************************)
EXTENDS MCCoordination, Sequences, FiniteSetTheorems, WellFoundedInduction, TLAPS

(* The fenced lease. *)

\* What the fields range over once the bounds on the data are left aside.
Shape ==
    /\ now \in Nat
    /\ fenceCounter \in Nat
    /\ lease \in [owner : Client, fence : Nat, expires : Nat] \cup {NoLease}
    /\ held \in [Client -> [owner : Client, fence : Nat, expires : Nat] \cup {NoLease}]
    /\ value \in [owner : Client, fence : Nat] \cup {Nobody}
    /\ highestFence \in Nat
    /\ ledgerFence \in Nat
    /\ decisions \in [Interval -> [owner : Client, fence : Nat] \cup {Nobody}]
    /\ grantee \in [Fence -> Client \cup {None}]

\* The counter is ahead of everything that carries a fence, and the lease on
\* record is the last one granted.
CounterLeads ==
    /\ fenceCounter \in Fence
    /\ lease # NoLease => lease.fence = fenceCounter /\ fenceCounter > 0
    /\ highestFence <= fenceCounter
    /\ ledgerFence <= fenceCounter
    /\ \A c \in Client : held[c].fence <= fenceCounter
    /\ value.fence = highestFence
    /\ \A i \in Interval : decisions[i].fence <= ledgerFence

LeaseInv == Shape /\ CounterLeads /\ OnlyHolderEndsLease /\ FenceNamesItsHolder

\* Every fence on record is a number, also that of nobody.
LEMMA FencesAreNumbers ==
    ASSUME Shape
    PROVE  /\ lease.fence \in Nat /\ value.fence \in Nat
           /\ \A c \in Client : held[c].fence \in Nat
           /\ \A i \in Interval : decisions[i].fence \in Nat
BY DEF Shape, NoLease, Nobody

LEMMA InitInv == Init => LeaseInv
BY BoundsAssumption DEF Init, LeaseInv, Shape, CounterLeads, OnlyHolderEndsLease,
   FenceNamesItsHolder, Fence, NoLease, Nobody, None

\* The next grant has a fence nobody has seen.
LEMMA CountStep ==
    ASSUME LeaseInv, NEW c \in Client, Count(c)
    PROVE  /\ fenceCounter' = fenceCounter + 1
           /\ fenceCounter' \in Fence
           /\ grantee' \in [Fence -> Client \cup {None}]
           /\ \A f \in Fence : f <= fenceCounter => grantee'[f] = grantee[f]
           /\ grantee'[fenceCounter + 1] = c
           /\ ~Live
BY DEF LeaseInv, Shape, CounterLeads, Count, NextFence, Fence

LEMMA AcquireInv ==
    ASSUME LeaseInv, NEW c \in Client, Acquire(c)
    PROVE  LeaseInv'
<1> DEFINE g == [owner |-> c, fence |-> fenceCounter + 1, expires |-> now + Ttl]
<1>1. /\ lease' = g /\ held' = [held EXCEPT ![c] = g]
      /\ g \in [owner : Client, fence : Nat, expires : Nat]
      /\ UNCHANGED <<now, value, highestFence, ledgerFence, decisions, released>>
      /\ Count(c)
  BY PositiveAssumption DEF Acquire, Granted, NextFence, LeaseInv, Shape
<1>2. /\ fenceCounter' = fenceCounter + 1
      /\ fenceCounter' \in Fence
      /\ grantee' \in [Fence -> Client \cup {None}]
      /\ \A f \in Fence : f <= fenceCounter => grantee'[f] = grantee[f]
      /\ grantee'[fenceCounter + 1] = c
      /\ ~Live
  BY <1>1, CountStep
<1>3. Shape'
  BY <1>1, <1>2 DEF LeaseInv, Shape
<1>4. CounterLeads'
  <2>1. \A d \in Client : held'[d] = g \/ held'[d] = held[d]
    BY <1>1 DEF LeaseInv, Shape
  <2>2. \A d \in Client : held'[d].fence <= fenceCounter'
    BY <1>2, <2>1, FencesAreNumbers DEF LeaseInv, Shape, CounterLeads
  <2>3. highestFence <= fenceCounter' /\ ledgerFence <= fenceCounter' /\ fenceCounter' > 0
    BY <1>2 DEF LeaseInv, Shape, CounterLeads
  <2>4. QED
    BY <1>1, <1>2, <2>2, <2>3 DEF LeaseInv, CounterLeads
<1>5. OnlyHolderEndsLease'
  <2> SUFFICES ASSUME NEW d \in Client, held'[d] # NoLease, held'[d].expires > now',
                      held'[d].fence \notin released'
               PROVE  lease' = held'[d]
    BY DEF OnlyHolderEndsLease
  <2>1. CASE d = c
    BY <1>1, <2>1 DEF LeaseInv, Shape
  <2>2. CASE d # c
    BY <1>1, <1>2, <2>2 DEF LeaseInv, Shape, OnlyHolderEndsLease, Live
  <2>3. QED
    BY <2>1, <2>2
<1>6. FenceNamesItsHolder'
  <2>1. \A f \in Nat : f <= fenceCounter => f \in Fence /\ grantee'[f] = grantee[f]
    BY <1>2, BoundsAssumption DEF LeaseInv, CounterLeads, Shape, Fence
  <2>2. value' # Nobody => grantee'[value'.fence] = value'.owner
    BY <1>1, <2>1 DEF LeaseInv, Shape, CounterLeads, FenceNamesItsHolder
  <2>3. ASSUME NEW i \in Interval, decisions'[i] # Nobody
        PROVE  grantee'[decisions'[i].fence] = decisions'[i].owner
    <3>1. decisions[i].fence \in Nat /\ decisions[i].fence <= fenceCounter
      BY <1>1, <2>3 DEF LeaseInv, Shape, CounterLeads
    <3>2. QED
      BY <1>1, <2>1, <2>3, <3>1 DEF LeaseInv, FenceNamesItsHolder
  <2>4. ASSUME NEW d \in Client, held'[d] # NoLease
        PROVE  grantee'[held'[d].fence] = d
    <3>1. CASE d = c
      BY <1>1, <1>2, <3>1 DEF LeaseInv, Shape
    <3>2. CASE d # c
      BY <1>1, <2>1, <2>4, <3>2 DEF LeaseInv, Shape, CounterLeads, FenceNamesItsHolder
    <3>3. QED
      BY <3>1, <3>2
  <2>5. QED
    BY <2>2, <2>3, <2>4 DEF FenceNamesItsHolder
<1>7. QED
  BY <1>3, <1>4, <1>5, <1>6 DEF LeaseInv

LEMMA ReleaseInv ==
    ASSUME LeaseInv, NEW c \in Client, Release(c)
    PROVE  LeaseInv'
<1>1. UNCHANGED <<now, fenceCounter, held, value, highestFence, ledgerFence, decisions, grantee>>
  BY DEF Release
<1>2. lease' = lease \/ lease' = NoLease
  BY DEF Release
<1>3. Shape' /\ CounterLeads' /\ FenceNamesItsHolder'
  BY <1>1, <1>2 DEF LeaseInv, Shape, CounterLeads, FenceNamesItsHolder
<1>4. OnlyHolderEndsLease'
  <2> SUFFICES ASSUME NEW d \in Client, held[d] # NoLease, held[d].expires > now,
                      held[d].fence \notin released'
               PROVE  lease' = held[d]
    BY <1>1 DEF OnlyHolderEndsLease
  <2>1. lease = held[d] /\ Live
    BY DEF Release, LeaseInv, OnlyHolderEndsLease, Live
  <2>2. lease # held[c]
    BY <2>1 DEF Release
  <2>3. QED
    BY <2>1, <2>2 DEF Release
<1>5. QED
  BY <1>3, <1>4 DEF LeaseInv

LEMMA WriteInv ==
    ASSUME LeaseInv, NEW c \in Client, Write(c)
    PROVE  LeaseInv'
<1>1. held[c] \in [owner : Client, fence : Nat, expires : Nat] /\ held[c].fence <= fenceCounter
  BY DEF LeaseInv, Shape, CounterLeads, Write
<1>2. QED
  BY <1>1 DEF Write, LeaseInv, Shape, CounterLeads, OnlyHolderEndsLease, FenceNamesItsHolder, Live

\* What a decision by client c with fence f leaves, when f is a fence of c.
LEMMA RecordKeeps ==
    ASSUME Shape, NEW c \in Client, NEW f \in Nat, RecordInterval(c, f), LedgerAccepts(f),
           \A i \in Interval : decisions[i].fence <= ledgerFence
    PROVE  /\ ledgerFence' = f
           /\ decisions' \in [Interval -> [owner : Client, fence : Nat] \cup {Nobody}]
           /\ \A i \in Interval : \/ decisions'[i] = decisions[i]
                                  \/ decisions'[i] = [owner |-> c, fence |-> f]
           /\ \A i \in Interval : decisions'[i].fence <= ledgerFence'
<1> DEFINE d == [owner |-> c, fence |-> f]
<1>1. d \in [owner : Client, fence : Nat] /\ d.fence = f
  OBVIOUS
<1>2. /\ ledgerFence' = f /\ ledgerFence <= f
      /\ decisions' = decisions \/ decisions' = [decisions EXCEPT ![CurrentInterval] = d]
  BY DEF RecordInterval, LedgerAccepts, Shape
<1>3. decisions' \in [Interval -> [owner : Client, fence : Nat] \cup {Nobody}]
  BY <1>1, <1>2 DEF Shape
<1>4. \A i \in Interval : decisions'[i] = decisions[i] \/ decisions'[i] = d
  BY <1>2 DEF Shape
<1>5. \A i \in Interval : decisions'[i].fence <= ledgerFence'
  BY <1>1, <1>2, <1>4, FencesAreNumbers DEF Shape
<1>6. QED
  BY <1>2, <1>3, <1>4, <1>5

LEMMA RecordInv ==
    ASSUME LeaseInv, NEW c \in Client, Record(c)
    PROVE  LeaseInv'
<1> DEFINE f == held[c].fence
<1>1. f \in Nat /\ f <= fenceCounter /\ grantee[f] = c
  BY DEF LeaseInv, Shape, CounterLeads, FenceNamesItsHolder, Record
<1>2. /\ ledgerFence' = f
      /\ decisions' \in [Interval -> [owner : Client, fence : Nat] \cup {Nobody}]
      /\ \A i \in Interval : \/ decisions'[i] = decisions[i]
                             \/ decisions'[i] = [owner |-> c, fence |-> f]
      /\ \A i \in Interval : decisions'[i].fence <= ledgerFence'
  BY <1>1, RecordKeeps DEF Record, LeaseInv, CounterLeads
<1>3. UNCHANGED <<now, fenceCounter, lease, held, value, highestFence, grantee, released>>
  BY DEF Record
<1>4. QED
  BY <1>1, <1>2, <1>3 DEF LeaseInv, Shape, CounterLeads, OnlyHolderEndsLease, FenceNamesItsHolder

LEMMA TryScheduleInv ==
    ASSUME LeaseInv, NEW c \in Client, TrySchedule(c)
    PROVE  LeaseInv'
<1> DEFINE f == fenceCounter + 1
<1>1. /\ fenceCounter' = f
      /\ fenceCounter' \in Fence
      /\ grantee' \in [Fence -> Client \cup {None}]
      /\ \A h \in Fence : h <= fenceCounter => grantee'[h] = grantee[h]
      /\ grantee'[f] = c
      /\ ~Live
  BY CountStep DEF TrySchedule
<1>2. LedgerAccepts(NextFence) /\ NextFence = f /\ f \in Nat
  BY DEF LeaseInv, CounterLeads, Shape, LedgerAccepts, NextFence
<1>3. RecordInterval(c, f) /\ lease' = NoLease
      /\ UNCHANGED <<now, held, value, highestFence, released>>
  BY <1>2 DEF TrySchedule
<1>4. /\ ledgerFence' = f
      /\ decisions' \in [Interval -> [owner : Client, fence : Nat] \cup {Nobody}]
      /\ \A i \in Interval : \/ decisions'[i] = decisions[i]
                             \/ decisions'[i] = [owner |-> c, fence |-> f]
      /\ \A i \in Interval : decisions'[i].fence <= ledgerFence'
  BY <1>2, <1>3, RecordKeeps DEF LeaseInv, CounterLeads
<1>5. Shape'
  BY <1>1, <1>2, <1>3, <1>4 DEF LeaseInv, Shape
<1>6. CounterLeads'
  <2>1. \A d \in Client : held'[d].fence <= fenceCounter'
    BY <1>1, <1>3, FencesAreNumbers DEF LeaseInv, Shape, CounterLeads
  <2>2. highestFence <= fenceCounter' /\ ledgerFence' <= fenceCounter'
    BY <1>1, <1>2, <1>4 DEF LeaseInv, Shape, CounterLeads
  <2>3. QED
    BY <1>1, <1>3, <1>4, <2>1, <2>2 DEF LeaseInv, CounterLeads
<1>7. OnlyHolderEndsLease'
  BY <1>1, <1>3 DEF LeaseInv, OnlyHolderEndsLease, Live
<1>8. FenceNamesItsHolder'
  <2>1. \A h \in Nat : h <= fenceCounter => h \in Fence /\ grantee'[h] = grantee[h]
    BY <1>1, BoundsAssumption DEF LeaseInv, CounterLeads, Shape, Fence
  <2>2. value' # Nobody => grantee'[value'.fence] = value'.owner
    BY <1>3, <2>1 DEF LeaseInv, Shape, CounterLeads, FenceNamesItsHolder
  <2>3. ASSUME NEW i \in Interval, decisions'[i] # Nobody
        PROVE  grantee'[decisions'[i].fence] = decisions'[i].owner
    <3>1. CASE decisions'[i] = [owner |-> c, fence |-> f]
      BY <1>1, <3>1
    <3>2. CASE decisions'[i] = decisions[i]
      <4>1. decisions[i].fence \in Nat /\ decisions[i].fence <= fenceCounter
        BY <3>2, <2>3 DEF LeaseInv, Shape, CounterLeads
      <4>2. QED
        BY <2>1, <2>3, <3>2, <4>1 DEF LeaseInv, FenceNamesItsHolder
    <3>3. QED
      BY <1>4, <3>1, <3>2
  <2>4. \A d \in Client : held'[d] # NoLease => grantee'[held'[d].fence] = d
    BY <1>3, <2>1 DEF LeaseInv, Shape, CounterLeads, FenceNamesItsHolder
  <2>5. QED
    BY <2>2, <2>3, <2>4 DEF FenceNamesItsHolder
<1>9. QED
  BY <1>5, <1>6, <1>7, <1>8 DEF LeaseInv

LEMMA AdvanceInv == ASSUME LeaseInv, Advance PROVE LeaseInv'
<1>1. now' = now + 1
      /\ UNCHANGED <<fenceCounter, lease, held, value, highestFence, ledgerFence,
                     decisions, grantee, released>>
  BY DEF Advance
<1>2. Shape' /\ CounterLeads' /\ FenceNamesItsHolder'
  BY <1>1 DEF LeaseInv, Shape, CounterLeads, FenceNamesItsHolder
<1>3. OnlyHolderEndsLease'
  <2> SUFFICES ASSUME NEW d \in Client, held[d] # NoLease, held[d].expires > now + 1,
                      held[d].fence \notin released
               PROVE  lease = held[d]
    BY <1>1 DEF OnlyHolderEndsLease
  <2>1. held[d].expires > now
    BY DEF LeaseInv, Shape
  <2>2. QED
    BY <2>1 DEF LeaseInv, OnlyHolderEndsLease
<1>4. QED
  BY <1>2, <1>3 DEF LeaseInv

\* The inductive invariant holds in every state.
THEOREM LeaseInvariant == Spec => []LeaseInv
<1>1. LeaseInv /\ [Next]_vars => LeaseInv'
  <2>1. LeaseInv /\ UNCHANGED vars => LeaseInv'
    BY DEF LeaseInv, Shape, CounterLeads, OnlyHolderEndsLease, FenceNamesItsHolder, vars
  <2>2. QED
    BY <2>1, AcquireInv, ReleaseInv, WriteInv, RecordInv, TryScheduleInv, AdvanceInv DEF Next
<1>2. QED
  BY <1>1, InitInv, PTL DEF Spec

\* The active holder is never fenced out, so try_schedule never leaves a lease
\* behind.
THEOREM HolderAlwaysAccepted == Spec => []HolderIsAccepted
<1>1. LeaseInv => HolderIsAccepted
  BY DEF LeaseInv, Shape, CounterLeads, HolderIsAccepted, Live
<1>2. QED
  BY <1>1, LeaseInvariant, PTL

\* A lease ends by its holder's release or by the clock and by nothing else.
THEOREM LeaseEndsByHolderOrClock == Spec => []OnlyHolderEndsLease
<1>1. LeaseInv => OnlyHolderEndsLease
  BY DEF LeaseInv
<1>2. QED
  BY <1>1, LeaseInvariant, PTL

\* Whatever was written or decided under a fence came from its grantee.
THEOREM FencesNameHolders == Spec => []FenceNamesItsHolder
<1>1. LeaseInv => FenceNamesItsHolder
  BY DEF LeaseInv
<1>2. QED
  BY <1>1, LeaseInvariant, PTL

\* A paused earlier holder cannot overwrite what the active holder wrote.
THEOREM ActiveHolderKeepsValue == Spec => HolderKeepsItsValue
<1>1. LeaseInv /\ [Next]_vars => [Live /\ value.fence = lease.fence => value' = value]_vars
  <2> SUFFICES ASSUME LeaseInv, Next, Live, value.fence = lease.fence
               PROVE  value' = value
    OBVIOUS
  <2>1. ASSUME NEW c \in Client, Write(c) PROVE value' = value
    <3>1. held[c].fence = highestFence /\ highestFence > 0
      <4>1. held[c].fence >= highestFence /\ held[c].fence <= fenceCounter
        BY <2>1 DEF Write, StoreAccepts, LeaseInv, CounterLeads
      <4>2. highestFence = fenceCounter /\ fenceCounter > 0
        BY DEF LeaseInv, CounterLeads, Live
      <4>3. QED
        BY SMTT(30), <4>1, <4>2, FencesAreNumbers DEF LeaseInv, Shape
    <3>2. value # Nobody /\ value \in [owner : Client, fence : Nat]
      <4>1. value.fence > 0
        BY <3>1 DEF LeaseInv, CounterLeads
      <4>2. Nobody.fence = 0
        BY DEF Nobody
      <4>3. QED
        BY <4>1, <4>2 DEF LeaseInv, Shape
    <3>3. grantee[value.fence] = value.owner /\ grantee[held[c].fence] = c
      BY <2>1, <3>2 DEF LeaseInv, FenceNamesItsHolder, Write
    <3>4. value.fence = held[c].fence /\ value.owner = c
      BY <3>1, <3>3 DEF LeaseInv, CounterLeads
    <3>5. QED
      BY <2>1, <3>2, <3>4 DEF Write
  <2>2. QED
    BY <2>1 DEF Next, Acquire, Release, Record, TrySchedule, Advance, Count
<1>2. QED
  BY <1>1, LeaseInvariant, PTL DEF Spec, HolderKeepsItsValue

\* The decision of an interval is made once.
THEOREM DecisionsStand == Spec => DecisionStands
<1>1. LeaseInv /\ [Next]_vars =>
        [\A i \in Interval : decisions[i] # Nobody => decisions'[i] = decisions[i]]_vars
  <2> SUFFICES ASSUME LeaseInv, Next, NEW i \in Interval, decisions[i] # Nobody
               PROVE  decisions'[i] = decisions[i]
    OBVIOUS
  <2>1. ASSUME NEW c \in Client, NEW f \in Nat, RecordInterval(c, f)
        PROVE  decisions'[i] = decisions[i]
    BY <2>1 DEF RecordInterval, LeaseInv, Shape
  <2>2. ASSUME NEW c \in Client, Record(c) PROVE decisions'[i] = decisions[i]
    BY <2>2, <2>1 DEF Record, LeaseInv, Shape, NoLease
  <2>3. ASSUME NEW c \in Client, TrySchedule(c) PROVE decisions'[i] = decisions[i]
    <3>1. NextFence \in Nat
      BY DEF NextFence, LeaseInv, Shape
    <3>2. QED
      BY <2>3, <2>1, <3>1 DEF TrySchedule
  <2>4. QED
    BY <2>2, <2>3 DEF Next, Acquire, Release, Write, Advance
<1>2. QED
  BY <1>1, LeaseInvariant, PTL DEF Spec, DecisionStands

-----------------------------------------------------------------------------
(* The Redis-style lock, for any number of clients whose releases come late. *)

RedisInv ==
    /\ now \in Nat
    /\ record \in [owner : Client, expires : Int] \union {Redis!NoLock}
    /\ handle \in [Client -> Int]
    /\ HolderOwnsTheLock

\* While a handle has not run out its record stands, so that nobody else acquires and
\* a late release finds another owner.
LEMMA OwnersRecordStands ==
    ASSUME RedisInv, ~naive, NEW c \in Client, handle[c] > now
    PROVE  /\ record = [owner |-> c, expires |-> handle[c]]
           /\ Redis!Current = record /\ record # Redis!NoLock /\ record.owner = c
<1>1. record = [owner |-> c, expires |-> handle[c]]
  BY DEF RedisInv, HolderOwnsTheLock, Redis!HolderOwnsTheLock
<1>2. record.owner = c /\ record.expires > now
  BY <1>1 DEF RedisInv
<1>3. record # Redis!NoLock
  BY <1>2, NoneAssumption DEF Redis!NoLock, Redis!None, None
<1>. QED  BY <1>1, <1>2, <1>3 DEF Redis!Current

LEMMA RedisStep ==
    ASSUME RedisInv, [Redis!Next]_(Redis!vars)
    PROVE  RedisInv'
<1>. Ttl \in Nat /\ MaxTime \in Nat
  BY PositiveAssumption, BoundsAssumption
<1>1. ASSUME NEW c \in Client, Redis!Acquire(c) PROVE RedisInv'
  <2>1. \A d \in Client : ~naive => ~(handle[d] > now)
    BY <1>1, OwnersRecordStands DEF Redis!Acquire
  <2>2. /\ now' = now /\ naive' = naive
        /\ record' = [owner |-> c, expires |-> now + Ttl]
        /\ handle' = [handle EXCEPT ![c] = now + Ttl]
    BY <1>1 DEF Redis!Acquire
  <2>. QED  BY <2>1, <2>2 DEF RedisInv, HolderOwnsTheLock, Redis!HolderOwnsTheLock
<1>2. ASSUME NEW c \in Client, Redis!ReleaseNaive(c) PROVE RedisInv'
  BY <1>2
     DEF Redis!ReleaseNaive, Redis!NoHandle, RedisInv, HolderOwnsTheLock, Redis!HolderOwnsTheLock
<1>3. ASSUME NEW c \in Client, Redis!ReleaseCompareAndDelete(c) PROVE RedisInv'
  <2>1. /\ now' = now /\ naive' = naive
        /\ record' = IF Redis!Current.owner = c THEN Redis!NoLock ELSE Redis!Current
        /\ handle' = [handle EXCEPT ![c] = 0]
    BY <1>3 DEF Redis!ReleaseCompareAndDelete, Redis!NoHandle
  <2>2. ASSUME ~naive, NEW d \in Client, handle'[d] > now
        PROVE  record' = [owner |-> d, expires |-> handle'[d]]
    <3>1. d # c /\ handle'[d] = handle[d]
      BY <2>1, <2>2 DEF RedisInv
    <3>. QED  BY <2>1, <2>2, <3>1, OwnersRecordStands
  <2>3. record' \in [owner : Client, expires : Int] \union {Redis!NoLock}
    BY <2>1 DEF RedisInv, Redis!Current
  <2>. QED  BY <2>1, <2>2, <2>3 DEF RedisInv, HolderOwnsTheLock, Redis!HolderOwnsTheLock
<1>4. CASE Redis!ScriptFlush \/ UNCHANGED Redis!vars
  BY <1>4 DEF Redis!ScriptFlush, Redis!vars, RedisInv, HolderOwnsTheLock, Redis!HolderOwnsTheLock
<1>5. CASE Redis!Advance
  BY <1>5 DEF Redis!Advance, RedisInv, HolderOwnsTheLock, Redis!HolderOwnsTheLock
<1>. QED  BY <1>1, <1>2, <1>3, <1>4, <1>5 DEF Redis!Next

\* Compare-and-delete preserves the holder of the lock, however late the releases of
\* earlier holders arrive, unless the naive release is used.
THEOREM CompareAndDeletePreserves == Redis!Spec => []HolderOwnsTheLock
<1>1. Redis!Init => RedisInv
  BY DEF Redis!Init, RedisInv, HolderOwnsTheLock, Redis!HolderOwnsTheLock, Redis!NoHandle
<1>2. RedisInv => HolderOwnsTheLock
  BY DEF RedisInv
<1>. QED  BY <1>1, <1>2, RedisStep, PTL DEF Redis!Spec

-----------------------------------------------------------------------------
(* The quorum register, for any number of nodes and keys, any sizes of quorums and
   any partitions. *)

Versions == [Node -> [Key -> Nat]]

\* Every node is at the last write of a key or behind it, and the nodes of the write's
\* quorum are there until the next write.
Holders(k) == {m \in Node : store[m][k] = written[k]}

Kept(k) ==
    /\ \A m \in Node : store[m][k] <= written[k]
    /\ written[k] # 0 => \E W \in SUBSET Holders(k) : Cardinality(W) = quorum.write

RegisterInv ==
    /\ tick \in Nat
    /\ store \in Versions
    /\ written \in [Key -> 0..tick]
    /\ UNION groups = Node
    /\ quorum \in Quorum
    /\ \A k \in Key : Kept(k)
    /\ Register!ReadsLatest

\* The register counts as everybody does.
LEMMA SameCount == \A S : Register!Cardinality(S) = Cardinality(S)
  BY DEF Cardinality, Register!Cardinality

LEMMA ClusterIsFinite == IsFiniteSet(Node) /\ Cardinality(Node) \in Nat \ {0}
  BY ClusterAssumption, FS_CardinalityType, FS_EmptySet

LEMMA QuorumSizes ==
    ASSUME NEW q \in Quorum
    PROVE  q.read \in 1..Cardinality(Node) /\ q.write \in 1..Cardinality(Node)
  BY QuorumAssumption

\* What Max chooses from a nonempty set of naturals with a bound.
LEMMA NewestOf ==
    ASSUME NEW b \in Nat, NEW S \in SUBSET (0..b), S # {}
    PROVE  Register!Max(S) \in S /\ \A x \in S : x <= Register!Max(S)
<1> DEFINE Above == {u \in Nat : \A x \in S : x <= u}
<1>1. b \in Above
  OBVIOUS
<1>2. PICK u \in Above : \A v \in Above : ~(<<v, u>> \in OpToRel(<, Nat))
  BY <1>1, NatLessThanWellFounded, WFMin
<1>3. u \in S
  <2>1. SUFFICES ASSUME u \notin S PROVE FALSE
    OBVIOUS
  <2>2. u \in Nat /\ \A x \in S : x \in Nat /\ x <= u
    OBVIOUS
  <2>3. \A x \in S : x < u
    BY <2>1, <2>2
  <2>4. PICK v \in S : v \in Nat /\ v < u
    BY <2>2, <2>3
  <2>5. u - 1 \in Nat /\ u - 1 < u
    BY <2>2, <2>4
  <2>6. \A x \in S : x <= u - 1
    BY <2>2, <2>3
  <2>7. u - 1 \in Above
    BY <2>5, <2>6
  <2>8. <<u - 1, u>> \in Nat \X Nat /\ <<u - 1, u>>[1] < <<u - 1, u>>[2]
    BY <2>2, <2>5
  <2>9. <<u - 1, u>> \in OpToRel(<, Nat)
    BY <2>8 DEF OpToRel
  <2>. QED  BY <1>2, <2>7, <2>9
<1>4. \A x \in S : u >= x
  BY <1>2
<1>. QED  BY <1>3, <1>4 DEF Register!Max

\* Two sets of nodes whose sizes exceed the cluster together have a node in common.
LEMMA QuorumsMeet ==
    ASSUME NEW R \in SUBSET Node, NEW W \in SUBSET Node,
           Cardinality(R) + Cardinality(W) > Cardinality(Node)
    PROVE  R \intersect W # {}
  BY ClusterIsFinite, FS_MajoritiesIntersect

\* What a coordinator selects are nodes, and at least one of them.
LEMMA SelectionsAreNodes ==
    ASSUME UNION groups = Node, NEW n \in Node, NEW q \in 1..Cardinality(Node),
           NEW S \in Register!Selections(n, q)
    PROVE  S \subseteq Node /\ Cardinality(S) = q /\ S # {}
<1>1. Register!Reachable(n) \subseteq Node
  BY DEF Register!Reachable
<1>2. S \subseteq Node /\ Cardinality(S) = q
  BY <1>1, SameCount DEF Register!Selections
<1>. QED  BY <1>2, FS_EmptySet

\* A read of any nodes finds one of their versions, none of them is newer, and the
\* whole cluster's newest is the last write.
LEMMA LatestOf ==
    ASSUME RegisterInv, NEW k \in Key, NEW S \in SUBSET Node, S # {}
    PROVE  /\ Register!Latest(k, S) \in {store[m][k] : m \in S}
           /\ \A m \in S : store[m][k] <= Register!Latest(k, S)
           /\ Register!Latest(k, S) \in Nat /\ Register!Latest(k, S) <= written[k]
<1> DEFINE T == {store[m][k] : m \in S}
<1>1. written[k] \in Nat /\ T \in SUBSET (0..written[k]) /\ T # {}
  BY DEF RegisterInv, Versions, Kept
<1>. HIDE DEF T
<1>2. Register!Max(T) \in T /\ \A x \in T : x <= Register!Max(T)
  BY <1>1, NewestOf
<1>3. Register!Latest(k, S) = Register!Max(T)
  BY DEF Register!Latest, T
<1>4. \A m \in S : store[m][k] \in T
  BY DEF T
<1>5. Register!Max(T) \in Nat /\ Register!Max(T) <= written[k]
  <2>1. Register!Max(T) \in 0..written[k]
    BY <1>1, <1>2
  <2>. QED  BY <1>1, <2>1
<1>. QED  BY <1>2, <1>3, <1>4, <1>5 DEF T

LEMMA ClusterLatest ==
    ASSUME RegisterInv, NEW k \in Key
    PROVE  Register!Latest(k, Node) = written[k]
<1>1. /\ Register!Latest(k, Node) \in Nat /\ Register!Latest(k, Node) <= written[k]
      /\ \A m \in Node : store[m][k] <= Register!Latest(k, Node)
      /\ written[k] \in Nat
  BY LatestOf, ClusterAssumption DEF RegisterInv
<1>2. CASE written[k] = 0
  BY <1>1, <1>2
<1>3. CASE written[k] # 0
  <2>1. PICK W \in SUBSET Holders(k) : Cardinality(W) = quorum.write
    BY <1>3 DEF RegisterInv, Kept
  <2>2. quorum.write \in 1..Cardinality(Node)
    BY QuorumSizes DEF RegisterInv
  <2>3. PICK m \in W : TRUE
    BY <2>1, <2>2, FS_EmptySet
  <2>4. m \in Node /\ store[m][k] = written[k]
    BY <2>3 DEF Holders
  <2>. QED  BY <1>1, <2>4
<1>. QED  BY <1>2, <1>3

\* A write puts a version that nobody has had on a whole quorum.
LEMMA WriteKeeps ==
    ASSUME RegisterInv, NEW k \in Key, NEW n \in Node, Register!WriteTask(k, n)
    PROVE  RegisterInv'
<1>1. PICK S \in Register!Selections(n, quorum.write) :
         store' = [m \in Node |->
             IF m \in S THEN [store[m] EXCEPT ![k] = Register!Newer(@, tick + 1)] ELSE store[m]]
  BY DEF Register!WriteTask
<1>2. S \subseteq Node /\ Cardinality(S) = quorum.write
  BY QuorumSizes, SelectionsAreNodes DEF RegisterInv
<1>3. /\ tick \in Nat /\ tick' = tick + 1 /\ UNCHANGED <<groups, quorum, result>>
      /\ written \in [Key -> 0..tick] /\ written' = [written EXCEPT ![k] = tick + 1]
      /\ store \in Versions
  BY DEF Register!WriteTask, RegisterInv
<1>4. \A m \in Node : Register!Newer(store[m][k], tick + 1) = tick + 1
  <2>. SUFFICES ASSUME NEW m \in Node PROVE Register!Newer(store[m][k], tick + 1) = tick + 1
    OBVIOUS
  <2>1. store[m][k] \in Nat /\ store[m][k] <= written[k] /\ written[k] \in 0..tick
    BY <1>3 DEF RegisterInv, Kept, Versions
  <2>2. store[m][k] <= tick + 1
    BY <1>3, <2>1
  <2>. QED  BY <2>2 DEF Register!Newer
<1>5. store' = [m \in Node |-> IF m \in S THEN [store[m] EXCEPT ![k] = tick + 1] ELSE store[m]]
  BY <1>1, <1>4
<1>6. store' \in Versions
  BY <1>3, <1>5 DEF Versions
<1>7. written' \in [Key -> 0..tick']
  BY <1>3
<1>8. ASSUME NEW j \in Key PROVE Kept(j)'
  <2>1. CASE j = k
    <3>1. written'[j] = tick + 1
      BY <1>3, <2>1
    <3>2. \A m \in Node : store'[m][j] = IF m \in S THEN tick + 1 ELSE store[m][j]
      BY <1>3, <1>5, <2>1 DEF Versions
    <3>3. \A m \in Node : store'[m][j] <= written'[j]
      <4>. SUFFICES ASSUME NEW m \in Node PROVE store'[m][j] <= written'[j]
        OBVIOUS
      <4>1. store[m][j] \in Nat /\ store[m][j] <= written[j] /\ written[j] \in 0..tick
        BY <1>3 DEF RegisterInv, Kept, Versions
      <4>. QED  BY <1>3, <3>1, <3>2, <4>1
    <3>4. S \subseteq Holders(j)'
      BY <1>2, <3>1, <3>2 DEF Holders
    <3>. QED  BY <1>2, <1>3, <3>3, <3>4 DEF Kept
  <2>2. CASE j # k
    <3>1. written'[j] = written[j] /\ \A m \in Node : store'[m][j] = store[m][j]
      BY <1>3, <1>5, <2>2 DEF Versions
    <3>2. Holders(j)' = Holders(j)
      BY <3>1 DEF Holders
    <3>3. Kept(j)
      BY DEF RegisterInv
    <3>. QED  BY <1>3, <3>1, <3>2, <3>3 DEF Kept
  <2>. QED  BY <2>1, <2>2
<1>9. Register!ReadsLatest'
  BY <1>3
     DEF RegisterInv, Register!ReadsLatest, Register!Intersect, Register!Majority
<1>. QED  BY <1>3, <1>6, <1>7, <1>8, <1>9 DEF RegisterInv

\* A read of a quorum that meets the last write's quorum returns the last write; any
\* other knows from the whole cluster whether it did.
LEMMA ReadKeeps ==
    ASSUME RegisterInv, NEW k \in Key, NEW n \in Node, Register!ReadTask(k, n)
    PROVE  RegisterInv'
<1>1. PICK S \in Register!Selections(n, quorum.read) :
         /\ Register!Latest(k, S) # 0
         /\ result' = [key |-> k, version |-> Register!Latest(k, S), asked |-> S,
                       stale |-> Register!Latest(k, S) < Register!Latest(k, Node),
                       written |-> written[k]]
  BY DEF Register!ReadTask, Register!Nothing
<1>2. S \subseteq Node /\ Cardinality(S) = quorum.read /\ S # {}
  BY QuorumSizes, SelectionsAreNodes DEF RegisterInv
<1>3. UNCHANGED <<tick, store, groups, quorum, written>>
  BY DEF Register!ReadTask
<1>4. /\ Register!Latest(k, S) \in Nat /\ Register!Latest(k, S) <= written[k]
      /\ \A m \in S : store[m][k] <= Register!Latest(k, S)
      /\ Register!Latest(k, Node) = written[k] /\ written[k] \in Nat
  BY <1>2, LatestOf, ClusterLatest DEF RegisterInv
<1>5. result'.stale <=> result'.version # result'.written
  <2>1. result'.stale = (Register!Latest(k, S) < written[k])
           /\ result'.version = Register!Latest(k, S) /\ result'.written = written[k]
    BY <1>1, <1>4
  <2>2. Register!Latest(k, S) < written[k] <=> Register!Latest(k, S) # written[k]
    BY <1>4
  <2>. QED  BY <2>1, <2>2
<1>6. ASSUME Register!Intersect(quorum) PROVE result'.version = result'.written
  <2>1. written[k] # 0
    BY <1>1, <1>4
  <2>2. PICK W \in SUBSET Holders(k) : Cardinality(W) = quorum.write
    BY <2>1 DEF RegisterInv, Kept
  <2>3. W \subseteq Node
    BY <2>2 DEF Holders
  <2>4. PICK m \in S : m \in W
    BY <1>2, <1>6, <2>2, <2>3, QuorumsMeet, SameCount DEF Register!Intersect
  <2>5. store[m][k] = written[k] /\ m \in S
    BY <2>2, <2>4 DEF Holders
  <2>6. written[k] <= Register!Latest(k, S)
    BY <1>4, <2>5
  <2>. QED  BY <1>1, <1>4, <2>6
<1>7. Register!ReadsLatest'
  BY <1>3, <1>5, <1>6
     DEF RegisterInv, Register!ReadsLatest, Register!Intersect, Register!Majority
<1>. QED  BY <1>3, <1>7 DEF RegisterInv, Kept, Holders

LEMMA RegisterStep ==
    ASSUME RegisterInv, [Register!Next]_(Register!vars)
    PROVE  RegisterInv'
<1>1. ASSUME NEW g \in Partition, Register!SetPartition(g) PROVE RegisterInv'
  BY <1>1
     DEF Register!SetPartition, Register!Covers, RegisterInv, Kept, Holders,
         Register!ReadsLatest, Register!Intersect, Register!Majority
<1>2. CASE UNCHANGED Register!vars
  BY <1>2
     DEF Register!vars, RegisterInv, Kept, Holders,
         Register!ReadsLatest, Register!Intersect, Register!Majority
<1>. QED  BY <1>1, <1>2, WriteKeeps, ReadKeeps DEF Register!Next

LEMMA RegisterInitially == Register!Init => RegisterInv
<1>. SUFFICES ASSUME Register!Init PROVE RegisterInv
  OBVIOUS
<1>1. /\ tick = 0 /\ groups = {Node} /\ quorum \in Quorum
      /\ store = [m \in Node |-> [k \in Key |-> 0]] /\ written = [k \in Key |-> 0]
      /\ result = [key |-> "none"]
  BY DEF Register!Init, Register!Nothing, Register!Healed
<1>2. \A k \in Key : Kept(k)
  BY <1>1 DEF Kept
<1>3. Register!ReadsLatest
  <2>1. /\ quorum.read \in Nat /\ quorum.write \in Nat /\ Cardinality(Node) \in Nat
    BY <1>1, QuorumSizes, ClusterIsFinite
  <2>2. quorum.read >= Register!Majority /\ quorum.write >= Register!Majority
            => Register!Intersect(quorum)
    BY <2>1, SameCount DEF Register!Majority, Register!Intersect
  <2>. QED  BY <1>1, <2>2, KeyAssumption DEF Register!ReadsLatest
<1>. QED  BY <1>1, <1>2, <1>3 DEF RegisterInv, Versions

-----------------------------------------------------------------------------
(* The logical clocks, for any replicas and tasks and any order of observations. *)

Stamp == [counter : Nat, node : Node]
Vector == [Node -> Nat]
Update == [task : Task, actor : Node, lamport : Nat, vector : Vector,
           past : SUBSET Stamp, told : SUBSET Stamp]

\* Two vectors in order, and the entry of its actor in the vector of an update.
Within(v, w) == \A a \in Node : v[a] <= w[a]
Own(u) == u.vector[u.actor]

ClockTypes ==
    /\ updates \subseteq Update
    /\ lamport \in [Node -> Nat]
    /\ vectors \in [Node -> [Task -> Vector]]
    /\ knows \in [Node -> SUBSET Stamp]
    /\ seen \in [Node -> [Task -> SUBSET Stamp]]

\* An actor is ahead of what it recorded, and everybody of what they know: stamps are
\* never used twice, and what an update could know of has smaller counters.
StampsGrow ==
    /\ \A u \in updates : u.lamport <= lamport[u.actor]
    /\ \A u, v \in updates : Clocks!Id(u) = Clocks!Id(v) => u = v
    /\ \A r \in Node : \A i \in knows[r] : i.counter <= lamport[r]
    /\ \A u \in updates : \A i \in u.past : i.counter < u.lamport
    /\ \A r \in Node, t \in Task : seen[r][t] \subseteq knows[r]
    /\ \A u \in updates : u.told \subseteq u.past

\* What is known was recorded.
Recorded ==
    LET ids == {Clocks!Id(u) : u \in updates}
    IN /\ \A r \in Node, t \in Task : seen[r][t] \subseteq ids
       /\ \A u \in updates : u.told \subseteq ids

\* Nobody has more of a replica's own updates of a task than the replica itself.
OwnLeads ==
    /\ \A r, a \in Node, t \in Task : vectors[r][t][a] <= vectors[a][t][a]
    /\ \A u \in updates, a \in Node : u.vector[a] <= vectors[a][u.task][a]

\* A vector has reached an update's own entry exactly where the update has been seen,
\* and then it includes the whole vector of the update.
VectorsTell ==
    /\ \A r \in Node : \A u \in updates :
          /\ Clocks!Id(u) \in seen[r][u.task] <=> Own(u) <= vectors[r][u.task][u.actor]
          /\ Clocks!Id(u) \in seen[r][u.task] => Within(u.vector, vectors[r][u.task])
    /\ \A u, v \in updates : u # v /\ u.task = v.task =>
          /\ Clocks!Id(u) \in v.told <=> Own(u) <= v.vector[u.actor]
          /\ Clocks!Id(u) \in v.told => Within(u.vector, v.vector)

ClockInv == ClockTypes /\ StampsGrow /\ Recorded /\ OwnLeads /\ VectorsTell

LEMMA StampOf ==
    ASSUME NEW u \in Update
    PROVE  /\ Clocks!Id(u) \in Stamp /\ Clocks!Id(u).counter = u.lamport
           /\ Clocks!Id(u).node = u.actor
           /\ u.vector \in Vector /\ Own(u) \in Nat
  BY DEF Update, Stamp, Vector, Own, Clocks!Id

LEMMA ClocksTell == ClockInv => Clocks!ClocksTellCausality
<1>. SUFFICES ASSUME ClockInv, NEW u \in updates, NEW v \in updates, u # v
              PROVE  /\ Clocks!Earlier(u, v) \/ Clocks!Earlier(v, u)
                     /\ Clocks!Id(u) \in v.past => Clocks!Earlier(u, v)
                     /\ u.task = v.task =>
                           Clocks!Compare(u.vector, v.vector) =
                               IF Clocks!Id(u) \in v.told THEN "before"
                               ELSE IF Clocks!Id(v) \in u.told THEN "after" ELSE "concurrent"
  BY DEF Clocks!ClocksTellCausality
<1>1. u \in Update /\ v \in Update
  BY DEF ClockInv, ClockTypes
<1>2. /\ u.lamport \in Nat /\ v.lamport \in Nat
      /\ u.actor \in Node /\ v.actor \in Node /\ u.actor \in Nat /\ v.actor \in Nat
      /\ u.vector \in Vector /\ v.vector \in Vector
  BY <1>1, ClusterAssumption DEF Update
<1>3. u.lamport # v.lamport \/ u.actor # v.actor
  <2>1. Clocks!Id(u) # Clocks!Id(v)
    BY DEF ClockInv, StampsGrow
  <2>. QED  BY <2>1 DEF Clocks!Id
<1>4. Clocks!Earlier(u, v) \/ Clocks!Earlier(v, u)
  BY <1>2, <1>3 DEF Clocks!Earlier
<1>5. /\ Clocks!Id(u) \in v.past => u.lamport < v.lamport
      /\ Clocks!Id(v) \in u.past => v.lamport < u.lamport
  BY <1>1, StampOf DEF ClockInv, StampsGrow
<1>6. Clocks!Id(u) \in v.past => Clocks!Earlier(u, v)
  BY <1>5 DEF Clocks!Earlier
<1>7. ~(Clocks!Id(u) \in v.told /\ Clocks!Id(v) \in u.told)
  <2>1. v.told \subseteq v.past /\ u.told \subseteq u.past
    BY DEF ClockInv, StampsGrow
  <2>. QED  BY <1>2, <1>5, <2>1
<1>8. ASSUME u.task = v.task
      PROVE  Clocks!Compare(u.vector, v.vector) =
                 IF Clocks!Id(u) \in v.told THEN "before"
                 ELSE IF Clocks!Id(v) \in u.told THEN "after" ELSE "concurrent"
  <2>1. /\ Clocks!Id(u) \in v.told <=> Own(u) <= v.vector[u.actor]
        /\ Clocks!Id(u) \in v.told => Within(u.vector, v.vector)
        /\ Clocks!Id(v) \in u.told <=> Own(v) <= u.vector[v.actor]
        /\ Clocks!Id(v) \in u.told => Within(v.vector, u.vector)
    BY <1>8 DEF ClockInv, VectorsTell
  <2>. DEFINE less == \E r \in Node : u.vector[r] < v.vector[r]
              greater == \E r \in Node : u.vector[r] > v.vector[r]
  <2>2. Clocks!Id(u) \notin v.told => greater
    BY <1>2, <2>1 DEF Own, Vector
  <2>3. Clocks!Id(v) \notin u.told => less
    BY <1>2, <2>1 DEF Own, Vector
  <2>4. Clocks!Id(u) \in v.told => ~greater
    BY <1>2, <2>1 DEF Within, Vector
  <2>5. Clocks!Id(v) \in u.told => ~less
    BY <1>2, <2>1 DEF Within, Vector
  <2>6. Clocks!Compare(u.vector, v.vector) =
            CASE ~less /\ ~greater -> "equal"
              [] less /\ ~greater -> "before"
              [] greater /\ ~less -> "after"
              [] OTHER -> "concurrent"
    BY DEF Clocks!Compare
  <2>. HIDE DEF less, greater
  <2>. QED  BY <1>7, <2>2, <2>3, <2>4, <2>5, <2>6
<1>. QED  BY <1>4, <1>6, <1>8

\* A new update has a stamp that nobody knows of and an entry that nobody has reached.
LEMMA LocalUpdateKeeps ==
    ASSUME ClockInv, NEW r \in Node, NEW t \in Task, Clocks!RecordLocalUpdate(r, t)
    PROVE  ClockInv'
<1>1. PICK vec, w :
         /\ vec = [vectors[r][t] EXCEPT ![r] = @ + 1]
         /\ w = [task |-> t, actor |-> r, lamport |-> lamport[r] + 1, vector |-> vec,
                 past |-> knows[r], told |-> seen[r][t]]
         /\ updates' = updates \union {w}
         /\ lamport' = [lamport EXCEPT ![r] = @ + 1]
         /\ vectors' = [vectors EXCEPT ![r][t] = vec]
         /\ knows' = [knows EXCEPT ![r] = @ \union {Clocks!Id(w)}]
         /\ seen' = [seen EXCEPT ![r][t] = @ \union {Clocks!Id(w)}]
  BY DEF Clocks!RecordLocalUpdate
<1>2. ClockTypes
  BY DEF ClockInv
<1>3. /\ lamport[r] \in Nat /\ vectors[r][t] \in Vector /\ vec \in Vector
      /\ knows[r] \subseteq Stamp /\ seen[r][t] \subseteq Stamp
  BY <1>1, <1>2 DEF ClockTypes, Vector
<1>4. /\ w \in Update /\ w.task = t /\ w.actor = r /\ w.lamport = lamport[r] + 1
      /\ w.vector = vec /\ w.past = knows[r] /\ w.told = seen[r][t]
  BY <1>1, <1>3 DEF Update
<1>5. Own(w) = vectors[r][t][r] + 1 /\ \A a \in Node : a # r => vec[a] = vectors[r][t][a]
  BY <1>1, <1>3, <1>4 DEF Own, Vector
<1>6. /\ \A q \in Node : lamport'[q] = IF q = r THEN lamport[r] + 1 ELSE lamport[q]
      /\ \A q \in Node, s \in Task :
            vectors'[q][s] = IF q = r /\ s = t THEN vec ELSE vectors[q][s]
      /\ \A q \in Node : knows'[q] = IF q = r THEN knows[r] \union {Clocks!Id(w)} ELSE knows[q]
      /\ \A q \in Node, s \in Task :
            seen'[q][s] = IF q = r /\ s = t THEN seen[r][t] \union {Clocks!Id(w)} ELSE seen[q][s]
  BY <1>1, <1>2 DEF ClockTypes
<1>7. ClockTypes'
  <2>1. Clocks!Id(w) \in Stamp
    BY <1>4, StampOf
  <2>2. updates' \subseteq Update
    BY <1>1, <1>2, <1>4 DEF ClockTypes
  <2>3. lamport' \in [Node -> Nat] /\ knows' \in [Node -> SUBSET Stamp]
    BY <1>1, <1>2, <1>3, <2>1 DEF ClockTypes
  <2>4. vectors' \in [Node -> [Task -> Vector]]
    BY <1>1, <1>2, <1>3 DEF ClockTypes
  <2>5. seen' \in [Node -> [Task -> SUBSET Stamp]]
    BY <1>1, <1>2, <1>3, <2>1 DEF ClockTypes
  <2>. QED  BY <2>2, <2>3, <2>4, <2>5 DEF ClockTypes
<1>8. \A u \in updates : /\ u \in Update /\ u.task \in Task /\ u.actor \in Node /\ Own(u) \in Nat
                         /\ u.vector \in Vector /\ u.lamport \in Nat
                         /\ Clocks!Id(u) # Clocks!Id(w)
  <2>. SUFFICES ASSUME NEW u \in updates
                PROVE  /\ u \in Update /\ u.task \in Task /\ u.actor \in Node /\ Own(u) \in Nat
                       /\ u.vector \in Vector /\ u.lamport \in Nat
                       /\ Clocks!Id(u) # Clocks!Id(w)
    OBVIOUS
  <2>1. u \in Update
    BY <1>2 DEF ClockTypes
  <2>2. u.task \in Task /\ u.actor \in Node /\ u.lamport \in Nat /\ u.vector \in Vector
    BY <2>1 DEF Update
  <2>3. u.lamport <= lamport[u.actor]
    BY DEF ClockInv, StampsGrow
  <2>4. Clocks!Id(u) # Clocks!Id(w)
    <3>1. SUFFICES ASSUME u.lamport = w.lamport, u.actor = w.actor PROVE FALSE
      BY <2>1, <1>4, StampOf
    <3>. QED  BY <1>3, <1>4, <2>3, <3>1
  <2>. QED  BY <2>1, <2>2, <2>4, StampOf
<1>9. /\ \A q \in Node, s \in Task : Clocks!Id(w) \notin seen[q][s]
      /\ \A u \in updates : Clocks!Id(w) \notin u.told
  BY <1>8 DEF ClockInv, Recorded
<1>10. StampsGrow'
  <2>1. \A u \in updates' : u.lamport <= lamport'[u.actor]
    BY <1>1, <1>3, <1>4, <1>6, <1>8 DEF ClockInv, StampsGrow
  <2>2. \A u, v \in updates' : Clocks!Id(u) = Clocks!Id(v) => u = v
    BY <1>1, <1>8 DEF ClockInv, StampsGrow
  <2>3. \A q \in Node : \A i \in knows'[q] : i.counter <= lamport'[q]
    <3>. SUFFICES ASSUME NEW q \in Node, NEW i \in knows'[q] PROVE i.counter <= lamport'[q]
      OBVIOUS
    <3>1. CASE i = Clocks!Id(w) /\ q = r
      BY <1>3, <1>4, <1>6, <3>1, StampOf
    <3>2. CASE i \in knows[q]
      <4>1. i.counter <= lamport[q] /\ i \in Stamp /\ lamport[q] \in Nat
        BY <1>2, <3>2 DEF ClockTypes, ClockInv, StampsGrow
      <4>2. i.counter \in Nat
        BY <4>1 DEF Stamp
      <4>. QED  BY <1>3, <1>6, <4>1, <4>2
    <3>. QED  BY <1>6, <3>1, <3>2
  <2>4. \A u \in updates' : \A i \in u.past : i.counter < u.lamport
    <3>1. \A i \in w.past : i.counter < w.lamport
      <4>. SUFFICES ASSUME NEW i \in knows[r] PROVE i.counter < lamport[r] + 1
        BY <1>4
      <4>1. i.counter <= lamport[r] /\ i.counter \in Nat
        BY <1>3 DEF ClockInv, StampsGrow, Stamp
      <4>. QED  BY <1>3, <4>1
    <3>. QED  BY <1>1, <3>1 DEF ClockInv, StampsGrow
  <2>5. \A q \in Node, s \in Task : seen'[q][s] \subseteq knows'[q]
    BY <1>6 DEF ClockInv, StampsGrow
  <2>6. \A u \in updates' : u.told \subseteq u.past
    BY <1>1, <1>4 DEF ClockInv, StampsGrow
  <2>. QED  BY <2>1, <2>2, <2>3, <2>4, <2>5, <2>6 DEF StampsGrow
<1>11. Recorded'
  <2> DEFINE ids == {Clocks!Id(u) : u \in updates}  later == {Clocks!Id(u) : u \in updates'}
  <2>1. ids \subseteq later /\ Clocks!Id(w) \in later
    BY <1>1
  <2>2. /\ \A q \in Node, s \in Task : seen[q][s] \subseteq ids
        /\ \A u \in updates : u.told \subseteq ids
    BY DEF ClockInv, Recorded
  <2>. HIDE DEF ids, later
  <2>3. \A q \in Node, s \in Task : seen'[q][s] \subseteq later
    BY <1>6, <2>1, <2>2
  <2>4. \A u \in updates' : u.told \subseteq later
    BY <1>1, <1>4, <2>1, <2>2
  <2>5. ids' = later
    BY DEF ids, later, Clocks!Id
  <2>. QED  BY <2>3, <2>4 DEF Recorded, later, Clocks!Id
<1>12. OwnLeads'
  <2>1. \A q, a \in Node, s \in Task : vectors[q][s][a] \in Nat
    BY <1>2 DEF ClockTypes, Vector
  <2>2. \A q, a \in Node, s \in Task : vectors[q][s][a] <= vectors[a][s][a]
    BY DEF ClockInv, OwnLeads
  <2>3. \A a \in Node, s \in Task :
           vectors'[a][s][a] = IF a = r /\ s = t THEN vectors[a][s][a] + 1 ELSE vectors[a][s][a]
    BY <1>1, <1>3, <1>6 DEF Vector
  <2>4. \A q, a \in Node, s \in Task : vectors'[q][s][a] <= vectors'[a][s][a]
    <3>. SUFFICES ASSUME NEW q \in Node, NEW a \in Node, NEW s \in Task
                  PROVE  vectors'[q][s][a] <= vectors'[a][s][a]
      OBVIOUS
    <3>1. CASE q = a
      BY <1>6, <1>3, <2>1, <2>3, <3>1
    <3>2. CASE q # a
      <4>1. vectors'[q][s][a] = vectors[q][s][a]
        BY <1>5, <1>6, <3>2
      <4>. QED  BY <2>1, <2>2, <2>3, <4>1
    <3>. QED  BY <3>1, <3>2
  <2>5. \A u \in updates', a \in Node : u.vector[a] <= vectors'[a][u.task][a]
    <3>. SUFFICES ASSUME NEW u \in updates', NEW a \in Node
                  PROVE  u.vector[a] <= vectors'[a][u.task][a]
      OBVIOUS
    <3>1. CASE u = w
      <4>1. u.vector[a] = vectors'[r][t][a] /\ u.task = t
        BY <1>4, <1>6, <3>1
      <4>. QED  BY <2>4, <4>1
    <3>2. CASE u \in updates
      <4>1. /\ u.task \in Task /\ u.vector[a] \in Nat
            /\ u.vector[a] <= vectors[a][u.task][a]
        BY <1>8, <3>2 DEF ClockInv, OwnLeads, Vector
      <4>. QED  BY <2>1, <2>3, <4>1
    <3>. QED  BY <1>1, <3>1, <3>2
  <2>. QED  BY <2>4, <2>5 DEF OwnLeads
<1>13. VectorsTell'
  <2>1. \A q, a \in Node, s \in Task : vectors[q][s][a] \in Nat
    BY <1>2 DEF ClockTypes, Vector
  \* Of what was recorded before, the new vector tells what the old one told.
  <2>2. ASSUME NEW u \in updates, u.task = t
        PROVE  /\ Clocks!Id(u) \in seen[r][t] <=> Own(u) <= vec[u.actor]
               /\ Clocks!Id(u) \in seen[r][t] => Within(u.vector, vec)
    <3>1. /\ Clocks!Id(u) \in seen[r][t] <=> Own(u) <= vectors[r][t][u.actor]
          /\ Clocks!Id(u) \in seen[r][t] => Within(u.vector, vectors[r][t])
      BY <2>2 DEF ClockInv, VectorsTell
    <3>2. u.actor \in Node /\ Own(u) \in Nat /\ \A a \in Node : u.vector[a] \in Nat
      BY <1>8 DEF Vector
    <3>3. u.actor = r => Own(u) <= vectors[r][t][r]
      BY <2>2, <3>2 DEF ClockInv, OwnLeads, Own
    <3>4. \A a \in Node : vectors[r][t][a] <= vec[a] /\ vec[a] \in Nat
      BY <1>3, <1>4, <1>5, <2>1 DEF Own, Vector
    <3>5. Own(u) <= vectors[r][t][u.actor] <=> Own(u) <= vec[u.actor]
      BY <1>5, <2>1, <3>2, <3>3, <3>4
    <3>6. Within(u.vector, vectors[r][t]) => Within(u.vector, vec)
      BY <2>1, <3>2, <3>4 DEF Within
    <3>. QED  BY <3>1, <3>5, <3>6
  <2>3. ASSUME NEW q \in Node, NEW u \in updates'
        PROVE  /\ Clocks!Id(u) \in seen'[q][u.task] <=> Own(u) <= vectors'[q][u.task][u.actor]
               /\ Clocks!Id(u) \in seen'[q][u.task] => Within(u.vector, vectors'[q][u.task])
    <3>1. CASE u = w
      <4>1. CASE q = r
        <5>1. Clocks!Id(w) \in seen'[q][t] /\ vectors'[q][t] = vec
          BY <1>6, <4>1
        <5>2. Own(w) = vec[r]
          BY <1>4 DEF Own
        <5>3. vec[r] <= vec[r] /\ Within(vec, vec)
          BY <1>3 DEF Vector, Within
        <5>. QED  BY <1>4, <3>1, <5>1, <5>2, <5>3
      <4>2. CASE q # r
        <5>1. Clocks!Id(w) \notin seen'[q][t] /\ vectors'[q][t] = vectors[q][t]
          BY <1>6, <1>9, <4>2
        <5>2. vectors[q][t][r] <= vectors[r][t][r]
          BY DEF ClockInv, OwnLeads
        <5>3. ~(Own(w) <= vectors[q][t][r])
          BY <1>5, <2>1, <5>2
        <5>. QED  BY <1>4, <3>1, <5>1, <5>3
      <4>. QED  BY <4>1, <4>2
    <3>2. CASE u \in updates
      <4>1. Clocks!Id(u) # Clocks!Id(w) /\ u.task \in Task
        BY <1>8, <3>2
      <4>2. CASE q = r /\ u.task = t
        <5>1. /\ Clocks!Id(u) \in seen'[q][u.task] <=> Clocks!Id(u) \in seen[r][t]
              /\ vectors'[q][u.task] = vec
          BY <1>6, <4>1, <4>2
        <5>. QED  BY <2>2, <3>2, <4>2, <5>1
      <4>3. CASE ~(q = r /\ u.task = t)
        <5>1. seen'[q][u.task] = seen[q][u.task] /\ vectors'[q][u.task] = vectors[q][u.task]
          BY <1>6, <4>1, <4>3
        <5>. QED  BY <3>2, <5>1 DEF ClockInv, VectorsTell
      <4>. QED  BY <4>2, <4>3
    <3>. QED  BY <1>1, <3>1, <3>2
  <2>4. ASSUME NEW u \in updates', NEW v \in updates', u # v, u.task = v.task
        PROVE  /\ Clocks!Id(u) \in v.told <=> Own(u) <= v.vector[u.actor]
               /\ Clocks!Id(u) \in v.told => Within(u.vector, v.vector)
    <3>1. CASE u \in updates /\ v \in updates
      BY <2>4, <3>1 DEF ClockInv, VectorsTell
    <3>2. CASE u \in updates /\ v = w
      BY <1>4, <2>2, <2>4, <3>2
    <3>3. CASE u = w /\ v \in updates
      <4>1. Clocks!Id(u) \notin v.told
        BY <1>9, <3>3
      <4>2. v.vector[r] <= vectors[r][t][r] /\ v.vector[r] \in Nat
        BY <1>4, <1>8, <2>4, <3>3 DEF ClockInv, OwnLeads, Vector
      <4>3. ~(Own(w) <= v.vector[r])
        BY <1>5, <2>1, <4>2
      <4>. QED  BY <1>4, <3>3, <4>1, <4>3
    <3>. QED  BY <1>1, <2>4, <3>1, <3>2, <3>3
  <2>. QED  BY <2>3, <2>4 DEF VectorsTell, Own, Within, Clocks!Id
<1>. QED  BY <1>7, <1>10, <1>11, <1>12, <1>13 DEF ClockInv

\* Who observes an update has seen it and all it was told of, and its merged vector
\* reaches exactly so far.
LEMMA ObserveKeeps ==
    ASSUME ClockInv, NEW r \in Node, NEW w \in updates, Clocks!ObserveRemoteUpdate(r, w)
    PROVE  ClockInv'
<1>1. ClockTypes
  BY DEF ClockInv
<1>2. /\ w \in Update /\ w.task \in Task /\ w.actor \in Node /\ w.lamport \in Nat
      /\ w.vector \in Vector /\ w.past \subseteq Stamp /\ w.told \subseteq Stamp
      /\ Clocks!Id(w) \in Stamp /\ Clocks!Id(w).counter = w.lamport
  BY <1>1, StampOf DEF ClockTypes, Update
<1>3. PICK t, top, merged :
         /\ t = w.task /\ top = Clocks!Observed(r, w)
         /\ merged = Clocks!Merge(vectors[r][t], w.vector)
         /\ updates' = updates
         /\ lamport' = [lamport EXCEPT ![r] = top]
         /\ vectors' = [vectors EXCEPT ![r][t] = merged]
         /\ knows' = [knows EXCEPT ![r] = @ \union {Clocks!Id(w)} \union w.past]
         /\ seen' = [seen EXCEPT ![r][t] = @ \union {Clocks!Id(w)} \union w.told]
  BY DEF Clocks!ObserveRemoteUpdate
<1>4. \A q, a \in Node, s \in Task :
         vectors[q][s] \in Vector /\ vectors[q][s][a] \in Nat /\ lamport[q] \in Nat
  BY <1>1 DEF ClockTypes, Vector
<1>5. top \in Nat /\ lamport[r] <= top /\ w.lamport <= top
  BY <1>2, <1>3, <1>4 DEF Clocks!Observed, Clocks!Larger
<1>6. /\ merged \in Vector
      /\ \A a \in Node : /\ w.vector[a] \in Nat /\ merged[a] \in Nat
                         /\ vectors[r][t][a] <= merged[a] /\ w.vector[a] <= merged[a]
                         /\ merged[a] = vectors[r][t][a] \/ merged[a] = w.vector[a]
  <2>1. \A a \in Node : w.vector[a] \in Nat /\ vectors[r][t][a] \in Nat
    BY <1>2, <1>3, <1>4 DEF Vector
  <2>2. merged = [a \in Node |-> IF vectors[r][t][a] > w.vector[a] THEN vectors[r][t][a]
                                                                   ELSE w.vector[a]]
    BY <1>3 DEF Clocks!Merge, Clocks!Larger
  <2>. QED  BY <2>1, <2>2 DEF Vector
<1>7. /\ \A q \in Node : lamport'[q] = IF q = r THEN top ELSE lamport[q]
      /\ \A q \in Node, s \in Task :
            vectors'[q][s] = IF q = r /\ s = t THEN merged ELSE vectors[q][s]
      /\ \A q \in Node :
            knows'[q] = IF q = r THEN knows[r] \union {Clocks!Id(w)} \union w.past ELSE knows[q]
      /\ \A q \in Node, s \in Task :
            seen'[q][s] = IF q = r /\ s = t THEN seen[r][t] \union {Clocks!Id(w)} \union w.told
                                            ELSE seen[q][s]
  BY <1>1, <1>3 DEF ClockTypes
<1>8. ClockTypes'
  <2>1. updates' \subseteq Update
    BY <1>1, <1>3 DEF ClockTypes
  <2>2. lamport' \in [Node -> Nat] /\ knows' \in [Node -> SUBSET Stamp]
    BY <1>1, <1>2, <1>3, <1>5 DEF ClockTypes
  <2>3. vectors' \in [Node -> [Task -> Vector]]
    BY <1>1, <1>2, <1>3, <1>6 DEF ClockTypes
  <2>4. seen' \in [Node -> [Task -> SUBSET Stamp]]
    BY <1>1, <1>2, <1>3 DEF ClockTypes
  <2>. QED  BY <2>1, <2>2, <2>3, <2>4 DEF ClockTypes
<1>9. \A u \in updates : /\ u.task \in Task /\ u.actor \in Node /\ u.vector \in Vector
                         /\ u.lamport \in Nat /\ Own(u) \in Nat
  BY <1>1, StampOf DEF ClockTypes, Update
<1>10. StampsGrow'
  <2>1. \A u \in updates' : u.lamport <= lamport'[u.actor]
    <3>. SUFFICES ASSUME NEW u \in updates PROVE u.lamport <= lamport'[u.actor]
      BY <1>3
    <3>1. /\ u.lamport <= lamport[u.actor] /\ u.lamport \in Nat /\ u.actor \in Node
          /\ lamport[u.actor] \in Nat
      BY <1>4, <1>9, <1>2 DEF ClockInv, StampsGrow
    <3>. QED  BY <1>5, <1>7, <3>1
  <2>2. \A u, v \in updates' : Clocks!Id(u) = Clocks!Id(v) => u = v
    BY <1>3 DEF ClockInv, StampsGrow
  <2>3. \A q \in Node : \A i \in knows'[q] : i.counter <= lamport'[q]
    <3>. SUFFICES ASSUME NEW q \in Node, NEW i \in knows'[q] PROVE i.counter <= lamport'[q]
      OBVIOUS
    <3>1. ASSUME i \in Stamp, i.counter <= lamport[q] PROVE i.counter <= lamport'[q]
      <4>1. i.counter \in Nat /\ lamport[q] \in Nat
        BY <1>2, <1>4, <3>1 DEF Stamp
      <4>. QED  BY <1>5, <1>7, <3>1, <4>1
    <3>2. CASE i \in knows[q]
      BY <1>1, <3>1, <3>2 DEF ClockTypes, ClockInv, StampsGrow
    <3>3. CASE q = r /\ i = Clocks!Id(w)
      BY <1>2, <1>5, <1>7, <3>3
    <3>4. CASE q = r /\ i \in w.past
      <4>1. i.counter < w.lamport /\ i.counter \in Nat
        BY <1>2, <3>4 DEF ClockInv, StampsGrow, Stamp
      <4>. QED  BY <1>2, <1>5, <1>7, <3>4, <4>1
    <3>. QED  BY <1>7, <3>2, <3>3, <3>4
  <2>4. \A u \in updates' : (\A i \in u.past : i.counter < u.lamport) /\ u.told \subseteq u.past
    BY <1>3 DEF ClockInv, StampsGrow
  <2>5. \A q \in Node, s \in Task : seen'[q][s] \subseteq knows'[q]
    <3>1. w.told \subseteq w.past /\ \A q \in Node, s \in Task : seen[q][s] \subseteq knows[q]
      BY DEF ClockInv, StampsGrow
    <3>. QED  BY <1>7, <3>1, <1>2, <1>3
  <2>. QED  BY <2>1, <2>2, <2>3, <2>4, <2>5 DEF StampsGrow
<1>11. Recorded'
  <2> DEFINE ids == {Clocks!Id(u) : u \in updates}
  <2>1. Clocks!Id(w) \in ids
    OBVIOUS
  <2>2. /\ \A q \in Node, s \in Task : seen[q][s] \subseteq ids
        /\ \A u \in updates : u.told \subseteq ids
    BY DEF ClockInv, Recorded
  <2>. HIDE DEF ids
  <2>3. \A q \in Node, s \in Task : seen'[q][s] \subseteq ids
    BY <1>2, <1>3, <1>7, <2>1, <2>2
  <2>. QED  BY <1>3, <2>2, <2>3 DEF Recorded, ids, Clocks!Id
<1>12. OwnLeads'
  <2>1. /\ \A q, a \in Node, s \in Task : vectors[q][s][a] <= vectors[a][s][a]
        /\ \A u \in updates, a \in Node : u.vector[a] <= vectors[a][u.task][a]
    BY DEF ClockInv, OwnLeads
  <2>2. \A a \in Node, s \in Task : vectors'[a][s][a] = vectors[a][s][a]
    <3>. SUFFICES ASSUME NEW a \in Node, NEW s \in Task
                  PROVE  vectors'[a][s][a] = vectors[a][s][a]
      OBVIOUS
    <3>1. CASE a = r /\ s = t
      <4>1. w.vector[r] <= vectors[r][t][r] /\ w.vector[r] \in Nat /\ vectors[r][t][r] \in Nat
        BY <1>2, <1>3, <1>4, <1>6, <2>1
      <4>2. merged[r] = vectors[r][t][r]
        BY <1>6, <4>1
      <4>. QED  BY <1>7, <3>1, <4>2
    <3>2. CASE ~(a = r /\ s = t)
      BY <1>7, <3>2
    <3>. QED  BY <3>1, <3>2
  <2>3. \A q, a \in Node, s \in Task : vectors'[q][s][a] <= vectors[a][s][a]
    <3>. SUFFICES ASSUME NEW q \in Node, NEW a \in Node, NEW s \in Task
                  PROVE  vectors'[q][s][a] <= vectors[a][s][a]
      OBVIOUS
    <3>1. CASE q = r /\ s = t
      <4>1. vectors'[q][s][a] = merged[a]
        BY <1>7, <3>1
      <4>2. vectors[r][t][a] <= vectors[a][t][a] /\ w.vector[a] <= vectors[a][t][a]
        BY <1>2, <1>3, <2>1
      <4>. QED  BY <1>6, <3>1, <4>1, <4>2
    <3>2. CASE ~(q = r /\ s = t)
      BY <1>7, <2>1, <3>2
    <3>. QED  BY <3>1, <3>2
  <2>. QED  BY <1>3, <1>9, <2>1, <2>2, <2>3 DEF OwnLeads
<1>13. VectorsTell'
  <2>1. ASSUME NEW q \in Node, NEW u \in updates
        PROVE  /\ Clocks!Id(u) \in seen'[q][u.task] <=> Own(u) <= vectors'[q][u.task][u.actor]
               /\ Clocks!Id(u) \in seen'[q][u.task] => Within(u.vector, vectors'[q][u.task])
    <3>1. /\ Clocks!Id(u) \in seen[q][u.task] <=> Own(u) <= vectors[q][u.task][u.actor]
          /\ Clocks!Id(u) \in seen[q][u.task] => Within(u.vector, vectors[q][u.task])
      BY DEF ClockInv, VectorsTell
    <3>2. u.task \in Task /\ u.actor \in Node /\ Own(u) \in Nat /\ \A a \in Node : u.vector[a] \in Nat
      BY <1>9 DEF Vector
    <3>3. CASE q = r /\ u.task = t
      <4>1. /\ seen'[q][u.task] = seen[r][t] \union {Clocks!Id(w)} \union w.told
            /\ vectors'[q][u.task] = merged
        BY <1>7, <3>2, <3>3
      <4>2. \A v \in Vector : (\A a \in Node : v[a] <= merged[a]) /\ Within(u.vector, v)
                                  => Within(u.vector, merged)
        BY <1>6, <3>2 DEF Within, Vector
      <4>3. CASE u = w
        <5>1. Own(w) <= merged[w.actor] /\ Within(w.vector, merged)
          BY <1>2, <1>6 DEF Own, Within
        <5>. QED  BY <4>1, <4>3, <5>1
      <4>4. CASE u # w
        <5>1. /\ Clocks!Id(u) \in w.told <=> Own(u) <= w.vector[u.actor]
              /\ Clocks!Id(u) \in w.told => Within(u.vector, w.vector)
          BY <1>3, <3>3, <4>4 DEF ClockInv, VectorsTell
        <5>2. Clocks!Id(u) # Clocks!Id(w)
          BY <4>4 DEF ClockInv, StampsGrow
        <5>3. Clocks!Id(u) \in seen'[q][u.task] <=>
                  Clocks!Id(u) \in seen[r][t] \/ Clocks!Id(u) \in w.told
          BY <4>1, <5>2
        <5>4. Own(u) <= merged[u.actor] <=>
                  Own(u) <= vectors[r][t][u.actor] \/ Own(u) <= w.vector[u.actor]
          BY <1>3, <1>2, <1>4, <1>6, <3>2
        <5>5. Clocks!Id(u) \in seen[r][t] \/ Clocks!Id(u) \in w.told => Within(u.vector, merged)
          BY <1>2, <1>3, <1>4, <1>6, <3>1, <3>3, <4>2, <5>1
        <5>. QED  BY <3>1, <3>3, <4>1, <5>1, <5>3, <5>4, <5>5
      <4>. QED  BY <4>3, <4>4
    <3>4. CASE ~(q = r /\ u.task = t)
      <4>1. seen'[q][u.task] = seen[q][u.task] /\ vectors'[q][u.task] = vectors[q][u.task]
        BY <1>7, <3>2, <3>4
      <4>. QED  BY <3>1, <4>1
    <3>. QED  BY <3>3, <3>4
  <2>. QED  BY <1>3, <2>1 DEF ClockInv, VectorsTell, Own, Within, Clocks!Id
<1>. QED  BY <1>8, <1>10, <1>11, <1>12, <1>13 DEF ClockInv

LEMMA ClocksInitially == Clocks!Init => ClockInv
<1>. SUFFICES ASSUME Clocks!Init PROVE ClockInv
  OBVIOUS
<1>1. /\ updates = {} /\ lamport = [r \in Node |-> 0]
      /\ vectors = [r \in Node |-> [t \in Task |-> [a \in Node |-> 0]]]
      /\ knows = [r \in Node |-> {}] /\ seen = [r \in Node |-> [t \in Task |-> {}]]
  BY DEF Clocks!Init, Clocks!Zero
<1>2. ClockTypes
  BY <1>1 DEF ClockTypes, Vector
<1>3. StampsGrow /\ Recorded
  BY <1>1 DEF StampsGrow, Recorded
<1>4. OwnLeads /\ VectorsTell
  BY <1>1 DEF OwnLeads, VectorsTell
<1>. QED  BY <1>2, <1>3, <1>4 DEF ClockInv

LEMMA ClockStep ==
    ASSUME ClockInv, [Clocks!Next]_(Clocks!vars)
    PROVE  ClockInv'
<1>1. CASE UNCHANGED Clocks!vars
  BY <1>1
     DEF Clocks!vars, ClockInv, ClockTypes, StampsGrow, Recorded, OwnLeads, VectorsTell, Own,
         Within, Clocks!Id
<1>. QED  BY <1>1, LocalUpdateKeeps, ObserveKeeps DEF Clocks!Next

\* Replicas that meet in any order agree: of any number of nodes, a quorum that meets the
\* last write's quorum reads the last write whatever partitions came between, and the
\* vectors and stamps tell which update could have caused which.
THEOREM ReplicasAlwaysAgree == Register!Spec /\ Clocks!Spec => []ReplicasAgree
<1>1. RegisterInv /\ ClockInv => ReplicasAgree
  BY ClocksTell DEF RegisterInv, ReplicasAgree
<1>2. Register!Spec => []RegisterInv
  BY RegisterInitially, RegisterStep, PTL DEF Register!Spec
<1>3. Clocks!Spec => []ClockInv
  BY ClocksInitially, ClockStep, PTL DEF Clocks!Spec
<1>. QED  BY <1>1, <1>2, <1>3, PTL

-----------------------------------------------------------------------------
(* Counting, adding and folding, for the project scheduler. *)

LEMMA ProjectCounts ==
    /\ \A S : Project!Cardinality(S) = Cardinality(S)
    /\ \A S : Project!Max(S) = CHOOSE x \in S : \A y \in S : x >= y
  BY DEF Project!Cardinality, Cardinality, Project!Max

LEMMA LeastNat ==
    ASSUME NEW S \in SUBSET Nat, S # {}
    PROVE  \E x \in S : \A y \in S : x <= y
  <1>1. PICK x \in S : \A y \in S : ~ (<<y, x>> \in OpToRel(<, Nat))
    BY NatLessThanWellFounded, WFMin
  <1>2. ASSUME NEW y \in S, y < x PROVE FALSE
    <2>1. <<y, x>> \in Nat \X Nat /\ <<y, x>>[1] < <<y, x>>[2]
      BY <1>2
    <2>2. <<y, x>> \in OpToRel(<, Nat)
      BY <2>1 DEF OpToRel
    <2>3. QED
      BY <1>1, <2>2
  <1>3. QED
    BY <1>2

\* Induction over finite sets, with a set of sets in place of a predicate: whatever
\* holds of s if it holds of s without any one of its elements, holds of all.
LEMMA BySize ==
    ASSUME NEW D, IsFiniteSet(D), NEW G,
           \A s \in SUBSET D : (\A x \in s : s \ {x} \in G) => s \in G
    PROVE  \A s \in SUBSET D : s \in G
  <1> DEFINE T == {n \in Nat : \E s \in SUBSET D : Cardinality(s) = n /\ s \notin G}
  <1>1. \A s \in SUBSET D : IsFiniteSet(s) /\ Cardinality(s) \in Nat
    BY FS_Subset, FS_CardinalityType
  <1>2. SUFFICES T = {}
    BY <1>1
  <1>3. SUFFICES ASSUME T # {} PROVE FALSE
    OBVIOUS
  <1>4. PICK n \in T : \A m \in T : n <= m
    BY <1>3, LeastNat
  <1>5. PICK s \in SUBSET D : Cardinality(s) = n /\ s \notin G
    BY <1>4
  <1>6. ASSUME NEW x \in s PROVE s \ {x} \in G
    <2>1. s \ {x} \in SUBSET D /\ IsFiniteSet(s)
      BY <1>1
    <2>2. Cardinality(s \ {x}) = n - 1
      BY <1>5, <2>1, FS_RemoveElement, Zenon
    <2>3. Cardinality(s \ {x}) \in Nat /\ ~ (n <= Cardinality(s \ {x}))
      BY <1>1, <2>1, <2>2
    <2>4. QED
      BY <1>4, <2>1, <2>3
  <1>7. QED
    BY <1>5, <1>6

\* g[s] is the sum of f over s, element by element, for the subsets of D.
IsSum(g, f, D) ==
    g = [s \in SUBSET D |->
            IF s = {} THEN 0 ELSE LET x == CHOOSE x \in s : TRUE IN f[x] + g[s \ {x}]]

LEMMA SumUnfolds ==
    ASSUME NEW g, NEW f, NEW D, IsSum(g, f, D)
    PROVE  /\ g[{}] = 0
           /\ \A s \in SUBSET D : s # {} =>
                 \E x \in s : x = (CHOOSE y \in s : TRUE) /\ g[s] = f[x] + g[s \ {x}]
  <1>1. \A s \in SUBSET D : g[s] = IF s = {} THEN 0
                                   ELSE LET x == CHOOSE x \in s : TRUE IN f[x] + g[s \ {x}]
    BY DEF IsSum
  <1>2. QED
    BY <1>1

\* A sum is a natural, and any element may be added last.
LEMMA SumAny ==
    ASSUME NEW D, IsFiniteSet(D), NEW f \in [D -> Nat], NEW g, IsSum(g, f, D)
    PROVE  /\ \A s \in SUBSET D : g[s] \in Nat
           /\ \A s \in SUBSET D : \A x \in s : g[s] = f[x] + g[s \ {x}]
  <1> DEFINE Good(s) == g[s] \in Nat /\ \A x \in s : g[s] = f[x] + g[s \ {x}]
             G == {s \in SUBSET D : \A t \in SUBSET s : Good(t)}
  <1>1. ASSUME NEW s \in SUBSET D, \A x \in s : s \ {x} \in G
        PROVE  s \in G
    <2>1. ASSUME NEW t \in SUBSET s, NEW x \in s, x \notin t
          PROVE  Good(t)
      <3>1. t \in SUBSET (s \ {x})
        BY <2>1
      <3> HIDE DEF Good
      <3>2. QED
        BY <1>1, <3>1
    <2>2. Good(s)
      <3>1. CASE s = {}
        BY <3>1, SumUnfolds
      <3>2. CASE s # {}
        <4>1. PICK c \in s : g[s] = f[c] + g[s \ {c}]
          BY SMTT(30), <3>2, SumUnfolds
        <4>2. f[c] \in Nat /\ Good(s \ {c})
          <5>1. Good(s \ {c})
            BY <2>1
          <5>2. QED
            BY <5>1
        <4>3. g[s] \in Nat
          BY <4>1, <4>2
        <4>4. ASSUME NEW x \in s, x # c
              PROVE  g[s] = f[x] + g[s \ {x}]
          <5> DEFINE rest == (s \ {c}) \ {x}
          <5>1. g[s \ {c}] = f[x] + g[rest]
            BY <4>2, <4>4
          <5>2. Good(s \ {x}) /\ Good(rest)
            <6>1. rest \in SUBSET s /\ c \notin rest /\ (s \ {x}) \in SUBSET s
              OBVIOUS
            <6> HIDE DEF Good, rest
            <6>2. QED
              BY <2>1, <6>1
          <5>3. (s \ {x}) \ {c} = rest /\ c \in s \ {x}
            BY <4>4
          <5>4. g[s \ {x}] = f[c] + g[rest] /\ g[rest] \in Nat
            <6> HIDE DEF rest
            <6>1. QED
              BY <5>2, <5>3
          <5>5. f[x] \in Nat
            OBVIOUS
          <5> DEFINE r == g[rest]
          <5>6. g[s] = f[c] + (f[x] + r) /\ g[s \ {x}] = f[c] + r /\ r \in Nat
            BY <4>1, <5>1, <5>4
          <5> HIDE DEF r, Good, G
          <5>7. QED
            BY <5>6, <5>5, <4>2
        <4>5. QED
          BY <4>1, <4>3, <4>4
      <3>3. QED
        BY <3>1, <3>2
    <2> HIDE DEF Good
    <2>3. \A t \in SUBSET s : Good(t)
      BY <2>1, <2>2
    <2>4. QED
      BY <2>3
  <1> HIDE DEF G
  <1>2. \A s \in SUBSET D : s \in G
    BY <1>1, BySize
  <1>3. QED
    BY <1>2 DEF G

\* The sum over s depends on the values in s only.
LEMMA SumSame ==
    ASSUME NEW D, NEW E, IsFiniteSet(D), NEW f, NEW k, NEW g, NEW h,
           IsSum(g, f, D), IsSum(h, k, E), D \subseteq E, \A x \in D : f[x] = k[x]
    PROVE  g[D] = h[D]
  <1> DEFINE G == {s \in SUBSET D : g[s] = h[s]}
  <1>1. ASSUME NEW s \in SUBSET D, \A x \in s : s \ {x} \in G
        PROVE  s \in G
    <2>1. CASE s = {}
      <3>1. g[{}] = 0 /\ h[{}] = 0
        BY SumUnfolds
      <3>2. QED
        BY <2>1, <3>1
    <2>2. CASE s # {}
      <3>1. s \in SUBSET E
        OBVIOUS
      <3>2. PICK x \in s : x = (CHOOSE y \in s : TRUE) /\ g[s] = f[x] + g[s \ {x}]
        BY <2>2, SumUnfolds
      <3>3. PICK z \in s : z = (CHOOSE y \in s : TRUE) /\ h[s] = k[z] + h[s \ {z}]
        BY <2>2, <3>1, SumUnfolds
      <3>4. QED
        BY <1>1, <3>2, <3>3
    <2>3. QED
      BY <2>1, <2>2
  <1> HIDE DEF G
  <1>2. \A s \in SUBSET D : s \in G
    BY <1>1, BySize
  <1>3. QED
    BY <1>2 DEF G

\* The first k of a set are k at most: their ranks differ and are below k.
LEMMA FirstOfSize ==
    ASSUME NEW S \in SUBSET Int, IsFiniteSet(S), NEW k \in Nat
    PROVE  /\ Project!First(S, k) \subseteq S
           /\ IsFiniteSet(Project!First(S, k)) /\ Cardinality(Project!First(S, k)) <= k
  <1> DEFINE below(x) == {y \in S : y < x}
             rank == [x \in S |-> Cardinality(below(x))]
             F == {x \in S : rank[x] < k}
             g == [x \in F |-> rank[x]]
  <1>1. \A x \in S : IsFiniteSet(below(x)) /\ rank[x] \in Nat /\ rank[x] = Cardinality(below(x))
    <2>1. \A x \in S : below(x) \in SUBSET S
      OBVIOUS
    <2>2. QED
      BY <2>1, FS_Subset, FS_CardinalityType
  <1>2. ASSUME NEW x \in S, NEW z \in S, x < z
        PROVE  rank[x] < rank[z]
    <2>1. below(x) \in SUBSET below(z) /\ below(x) # below(z)
      <3>1. x \in Int /\ z \in Int /\ \A y \in S : y \in Int
        OBVIOUS
      <3>2. (\A y \in S : y < x => y < z) /\ ~ (x < x)
        BY <1>2, <3>1
      <3>3. x \in below(z) /\ x \notin below(x)
        BY <1>2, <3>2
      <3>4. below(x) \in SUBSET below(z)
        BY <3>2
      <3> HIDE DEF below
      <3>5. QED
        BY <3>3, <3>4
    <2> HIDE DEF below, rank
    <2>2. Cardinality(below(x)) <= Cardinality(below(z)) /\ Cardinality(below(x)) # Cardinality(below(z))
      BY <1>1, <2>1, FS_Subset
    <2>3. QED
      BY <1>1, <2>2
  <1>3. Project!First(S, k) = F
    BY ProjectCounts DEF Project!First
  <1> HIDE DEF rank, below
  <1>4. \A x, z \in S : rank[x] = rank[z] => x = z
    BY <1>1, <1>2
  <1>5. g \in Injection(F, 0..(k - 1))
    <2>1. \A x \in F : rank[x] \in 0..(k - 1)
      BY <1>1
    <2>2. \A x, z \in F : g[x] = g[z] => x = z
      BY <1>4
    <2>3. g \in [F -> 0..(k - 1)]
      <3> HIDE DEF F
      <3>1. QED
        BY <2>1
    <2> HIDE DEF g, F
    <2>4. QED
      BY <2>2, <2>3 DEF Injection, IsInjective
  <1>6. IsFiniteSet(0..(k - 1)) /\ Cardinality(0..(k - 1)) = k
    BY FS_Interval
  <1>7. F \subseteq S
    OBVIOUS
  <1> HIDE DEF F, g
  <1>8. IsFiniteSet(F) /\ Cardinality(F) <= k
    BY <1>5, <1>6, FS_Injection
  <1>9. QED
    BY <1>3, <1>7, <1>8

\* A finite set of numbers has a last one.
LEMMA LastOfInts ==
    ASSUME NEW D, IsFiniteSet(D), D # {}, NEW f, \A x \in D : f[x] \in Int
    PROVE  \E x \in D : \A y \in D : f[y] <= f[x]
  <1> DEFINE G == {s \in SUBSET D : s = {} \/ \E x \in s : \A y \in s : f[y] <= f[x]}
  <1>1. ASSUME NEW s \in SUBSET D, \A x \in s : s \ {x} \in G, s # {}
        PROVE  s \in G
    <2>1. PICK z \in s : TRUE
      BY <1>1
    <2>2. CASE s \ {z} = {}
      BY <2>1, <2>2
    <2>3. CASE s \ {z} # {}
      <3>1. PICK x \in s \ {z} : \A y \in s \ {z} : f[y] <= f[x]
        BY <1>1, <2>3
      <3>2. CASE f[z] <= f[x]
        BY <3>1, <3>2
      <3>3. CASE ~ (f[z] <= f[x])
        <4>1. \A y \in s : f[y] <= f[z]
          BY <3>1, <3>3
        <4>2. QED
          BY <4>1
      <3>4. QED
        BY <3>2, <3>3
    <2>4. QED
      BY <2>2, <2>3
  <1>2. \A s \in SUBSET D : (\A x \in s : s \ {x} \in G) => s \in G
    <2> HIDE DEF G
    <2>1. {} \in G
      BY DEF G
    <2>2. QED
      BY <1>1, <2>1
  <1> HIDE DEF G
  <1>3. D \in G
    BY <1>2, BySize
  <1>4. QED
    BY <1>3 DEF G

\* The largest of a finite set of numbers.
LEMMA ProjectMax ==
    ASSUME NEW S \in SUBSET Int, IsFiniteSet(S), S # {}
    PROVE  Project!Max(S) \in S /\ \A y \in S : y <= Project!Max(S)
  <1> DEFINE f == [x \in S |-> x]
  <1>1. PICK x \in S : \A y \in S : f[y] <= f[x]
    <2>1. \A x \in S : f[x] \in Int
      OBVIOUS
    <2> HIDE DEF f
    <2>2. QED
      BY <2>1, LastOfInts
  <1>2. \A y \in S : x >= y
    BY <1>1
  <1>3. Project!Max(S) \in S /\ \A y \in S : Project!Max(S) >= y
    BY <1>2, ProjectCounts
  <1>4. QED
    BY <1>3

\* The folds of the module take off the element that is dealt with last; k says which
\* fold it is: a sum of f, a recovery or a pass that starts from the books in base.
FoldBase(k) == IF k.fold = "sum" THEN 0 ELSE k.base
FoldLast(k, s) ==
    CASE k.fold = "sum" -> CHOOSE x \in s : TRUE
      [] k.fold = "recovery" -> Project!LastReserved(s)
      [] OTHER -> Project!LastQueued(k.base, s)
FoldStep(k, t, x) ==
    CASE k.fold = "sum" -> k.f[x] + t
      [] k.fold = "recovery" -> Project!Expire(t, x)
      [] OTHER -> Project!Placed(t, x, k.now, k.lease)
IsFold(g, k, D) ==
    g = [s \in SUBSET D |->
            IF s = {} THEN FoldBase(k)
            ELSE FoldStep(k, g[s \ {FoldLast(k, s)}], FoldLast(k, s))]

LEMMA FoldExists ==
    ASSUME NEW k, NEW D, IsFiniteSet(D), \A s \in SUBSET D : s # {} => FoldLast(k, s) \in s
    PROVE  \E g : IsFold(g, k, D)
  <1> DEFINE Small(n) == {s \in SUBSET D : Cardinality(s) <= n}
             Step(s, g) == IF s = {} THEN FoldBase(k)
                           ELSE FoldStep(k, g[s \ {FoldLast(k, s)}], FoldLast(k, s))
             Folds(g, n) == g = [s \in Small(n) |-> Step(s, g)]
             T == {n \in Nat : ~\E g : Folds(g, n)}
  <1>1. \A s \in SUBSET D : IsFiniteSet(s) /\ Cardinality(s) \in Nat
    BY FS_Subset, FS_CardinalityType
  <1>2. T = {}
    <2>1. SUFFICES ASSUME T # {} PROVE FALSE
      OBVIOUS
    <2>2. PICK n \in T : \A m \in T : n <= m
      BY <2>1, LeastNat
    <2>3. CASE n = 0
      <3> DEFINE g == [s \in Small(0) |-> FoldBase(k)]
      <3>1. \A s \in Small(0) : s = {}
        BY <1>1, FS_EmptySet
      <3>2. Folds(g, 0)
        BY <3>1
      <3> HIDE DEF Folds
      <3>3. QED
        BY <2>2, <2>3, <3>2
    <2>4. CASE n # 0
      <3>1. n - 1 \in Nat /\ n - 1 \notin T
        <4>1. n \in Nat
          BY <2>2
        <4> HIDE DEF T
        <4>2. QED
          BY <2>2, <2>4, <4>1
      <3>2. PICK g : Folds(g, n - 1)
        BY <3>1
      <3> DEFINE h == [s \in Small(n) |-> Step(s, g)]
      <3>3. ASSUME NEW s \in Small(n), s # {}
            PROVE  s \ {FoldLast(k, s)} \in Small(n - 1)
        <4>1. s \in SUBSET D /\ s \ {FoldLast(k, s)} \in SUBSET D /\ FoldLast(k, s) \in s
          BY <3>3
        <4>2. Cardinality(s \ {FoldLast(k, s)}) = Cardinality(s) - 1
          BY <1>1, <4>1, FS_RemoveElement, Zenon
        <4>3. QED
          BY <1>1, <4>1, <4>2, <3>1
      <3>4. \A s \in Small(n - 1) : s \in Small(n) /\ g[s] = Step(s, g)
        <4> HIDE DEF Step
        <4>1. \A s \in Small(n - 1) : g[s] = Step(s, g)
          BY <3>2
        <4>2. \A s \in Small(n - 1) : s \in Small(n)
          BY <1>1, <3>1
        <4>3. QED
          BY <4>1, <4>2
      <3>5. \A s \in Small(n - 1) : h[s] = g[s]
        <4> HIDE DEF Step, Small
        <4>1. QED
          BY <3>4
      <3>6. \A s \in Small(n) : s # {} => h[s \ {FoldLast(k, s)}] = g[s \ {FoldLast(k, s)}]
        <4> HIDE DEF h, Small
        <4>1. QED
          BY <3>3, <3>5
      <3>7. \A s \in Small(n) : Step(s, h) = Step(s, g)
        <4> HIDE DEF h, Small
        <4>1. QED
          BY <3>6
      <3>8. Folds(h, n)
        <4> HIDE DEF Step, Small
        <4>1. QED
          BY <3>7
      <3>9. QED
        BY <2>2, <3>8
    <2>5. QED
      BY <2>3, <2>4
  <1>3. PICK g : Folds(g, Cardinality(D))
    <2>1. Cardinality(D) \in Nat
      BY FS_CardinalityType
    <2>2. QED
      BY <1>2, <2>1
  <1>4. Small(Cardinality(D)) = SUBSET D
    BY FS_Subset
  <1>5. QED
    BY <1>3, <1>4 DEF IsFold

LEMMA SumExists ==
    ASSUME NEW f, NEW D, IsFiniteSet(D)
    PROVE  \E g : IsSum(g, f, D)
  <1> DEFINE k == [fold |-> "sum", f |-> f]
  <1>1. \A s : FoldLast(k, s) = CHOOSE x \in s : TRUE
    BY DEF FoldLast
  <1>2. FoldBase(k) = 0 /\ \A t, x : FoldStep(k, t, x) = f[x] + t
    BY DEF FoldBase, FoldStep
  <1> HIDE DEF k
  <1>3. PICK g : IsFold(g, k, D)
    BY <1>1, FoldExists
  <1>4. g = [s \in SUBSET D |->
               IF s = {} THEN 0 ELSE LET x == CHOOSE x \in s : TRUE IN f[x] + g[s \ {x}]]
    BY <1>1, <1>2, <1>3 DEF IsFold
  <1>5. QED
    BY <1>4 DEF IsSum

\* A sum over a function that has one more argument.
LEMMA SumAdd ==
    ASSUME NEW D, IsFiniteSet(D), NEW x, x \notin D, NEW f \in [D -> Nat],
           NEW k \in [D \union {x} -> Nat], \A y \in D : k[y] = f[y]
    PROVE  /\ Project!SumFunction(k) = Project!SumFunction(f) + k[x]
           /\ Project!SumFunction(f) \in Nat
  <1> DEFINE E == D \union {x}
             g == CHOOSE g : IsSum(g, f, D)
             h == CHOOSE h : IsSum(h, k, E)
  <1>1. IsFiniteSet(E)
    BY FS_AddElement, Zenon
  <1>2. IsSum(g, f, D) /\ IsSum(h, k, E)
    BY <1>1, SumExists
  <1>3. DOMAIN f = D /\ DOMAIN k = E
    OBVIOUS
  <1>4. Project!SumFunction(f) = g[D] /\ Project!SumFunction(k) = h[E]
    BY <1>3 DEF Project!SumFunction, Project!SumFunctionOnSet, Project!FoldFunctionOnSet,
       Project!MapThenFoldSet, IsSum
  <1> HIDE DEF g, h
  <1>5. h[E] = k[x] + h[D]
    <2>1. E \ {x} = D /\ x \in E
      OBVIOUS
    <2>2. k \in [E -> Nat]
      OBVIOUS
    <2> HIDE DEF E
    <2>3. h[E] = k[x] + h[E \ {x}]
      BY <1>1, <1>2, <2>1, <2>2, SumAny
    <2>4. QED
      BY <2>1, <2>3
  <1>6. h[D] = g[D]
    <2>1. D \subseteq E
      OBVIOUS
    <2> HIDE DEF E
    <2>2. QED
      BY <1>2, <2>1, SumSame
  <1>7. g[D] \in Nat
    BY <1>2, SumAny
  <1>8. k[x] \in Nat
    OBVIOUS
  <1>9. QED
    BY <1>4, <1>5, <1>6, <1>7, <1>8

LEMMA SumNone == \A f : DOMAIN f = {} => Project!SumFunction(f) = 0
  <1>1. ASSUME NEW f, DOMAIN f = {} PROVE Project!SumFunction(f) = 0
    <2> DEFINE g == CHOOSE g : IsSum(g, f, {})
    <2>1. IsSum(g, f, {})
      BY SumExists, FS_EmptySet
    <2>2. Project!SumFunction(f) = g[{}]
      BY <1>1 DEF Project!SumFunction, Project!SumFunctionOnSet, Project!FoldFunctionOnSet,
         Project!MapThenFoldSet, IsSum
    <2> HIDE DEF g
    <2>3. QED
      BY <2>1, <2>2, SumUnfolds
  <1>2. QED
    BY <1>1

-----------------------------------------------------------------------------
(* The order in which a pass goes, and the node that it chooses. *)

LEMMA LessPair ==
    ASSUME NEW a \in Int, NEW b \in Int, NEW c \in Int, NEW d \in Int
    PROVE  Project!Less(<<a, b>>, <<c, d>>) <=> a < c \/ (a = c /\ b < d)
  <1>1. DOMAIN <<a, b>> = 1..2
    OBVIOUS
  <1>2. (\E i \in 1..2 : <<a, b>>[i] < <<c, d>>[i] /\ \A k \in 1..(i - 1) : <<a, b>>[k] = <<c, d>>[k])
        <=> a < c \/ (a = c /\ b < d)
    <2>1. 1..(1 - 1) = {} /\ 1..(2 - 1) = {1} /\ 1..2 = {1, 2}
      OBVIOUS
    <2>2. QED
      BY <2>1
  <1>3. QED
    BY <1>1, <1>2 DEF Project!Less

LEMMA LessTriple ==
    ASSUME NEW a \in Int, NEW b \in Int, NEW c \in Int, NEW d \in Int, NEW e \in Int, NEW f \in Int
    PROVE  Project!Less(<<a, b, c>>, <<d, e, f>>) <=>
              a < d \/ (a = d /\ b < e) \/ (a = d /\ b = e /\ c < f)
  <1>1. DOMAIN <<a, b, c>> = 1..3
    OBVIOUS
  <1>2. (\E i \in 1..3 : /\ <<a, b, c>>[i] < <<d, e, f>>[i]
                         /\ \A k \in 1..(i - 1) : <<a, b, c>>[k] = <<d, e, f>>[k])
        <=> a < d \/ (a = d /\ b < e) \/ (a = d /\ b = e /\ c < f)
    <2>1. 1..(1 - 1) = {} /\ 1..(2 - 1) = {1} /\ 1..(3 - 1) = {1, 2} /\ 1..3 = {1, 2, 3}
      OBVIOUS
    <2>2. QED
      BY <2>1
  <1>3. QED
    BY <1>1, <1>2 DEF Project!Less

\* Of finitely many elements with two numbers each, one is not below any other.
LEMMA LastOfPairs ==
    ASSUME NEW D, IsFiniteSet(D), D # {}, NEW f, NEW g, \A x \in D : f[x] \in Int /\ g[x] \in Int
    PROVE  \E x \in D : \A y \in D : f[y] < f[x] \/ (f[y] = f[x] /\ g[y] <= g[x])
  <1>1. PICK m \in D : \A y \in D : f[y] <= f[m]
    BY LastOfInts
  <1> DEFINE M == {y \in D : f[y] = f[m]}
  <1>2. IsFiniteSet(M) /\ M # {} /\ M \subseteq D
    BY FS_Subset
  <1>3. PICK x \in M : \A y \in M : g[y] <= g[x]
    <2>1. \A y \in M : g[y] \in Int
      OBVIOUS
    <2> HIDE DEF M
    <2>2. QED
      BY <1>2, <2>1, LastOfInts
  <1>4. ASSUME NEW y \in D
        PROVE  f[y] < f[x] \/ (f[y] = f[x] /\ g[y] <= g[x])
    <2>1. f[y] <= f[m] /\ f[x] = f[m] /\ f[y] \in Int /\ f[m] \in Int
      BY <1>1
    <2>2. CASE f[y] = f[m]
      <3>1. y \in M
        BY <2>2
      <3>2. QED
        BY <1>3, <2>1, <2>2, <3>1
    <2>3. CASE f[y] # f[m]
      BY <2>1, <2>3
    <2>4. QED
      BY <2>2, <2>3
  <1>5. QED
    BY <1>4

LEMMA LastReservedIn ==
    ASSUME NEW D, IsFiniteSet(D), D # {}, \A a \in D : a.id \in Int
    PROVE  Project!LastReserved(D) \in D
  <1> DEFINE f == [a \in D |-> a.id]
  <1>1. PICK a \in D : \A b \in D : f[b] <= f[a]
    <2>1. \A a \in D : f[a] \in Int
      OBVIOUS
    <2> HIDE DEF f
    <2>2. QED
      BY <2>1, LastOfInts
  <1>2. \A b \in D : b.id <= a.id
    BY <1>1
  <1>3. QED
    BY <1>2 DEF Project!LastReserved

LEMMA LastQueuedIn ==
    ASSUME NEW s, NEW D, IsFiniteSet(D), D # {},
           \A j \in D : s.jobs[j].priority \in Int /\ s.jobs[j].sequence \in Int
    PROVE  Project!LastQueued(s, D) \in D
  <1> DEFINE f == [j \in D |-> -s.jobs[j].priority]
             g == [j \in D |-> s.jobs[j].sequence]
  <1>1. PICK j \in D : \A i \in D : f[i] < f[j] \/ (f[i] = f[j] /\ g[i] <= g[j])
    <2>1. \A j \in D : f[j] \in Int /\ g[j] \in Int
      OBVIOUS
    <2> HIDE DEF f, g
    <2>2. QED
      BY <2>1, LastOfPairs
  <1>2. ASSUME NEW i \in D
        PROVE  ~Project!Less(Project!Rank(s, j), Project!Rank(s, i))
    <2>1. \A x \in D : Project!Rank(s, x) = <<f[x], g[x]>> /\ f[x] \in Int /\ g[x] \in Int
      BY DEF Project!Rank
    <2>2. f[i] < f[j] \/ (f[i] = f[j] /\ g[i] <= g[j])
      BY <1>1
    <2> HIDE DEF f, g
    <2>3. Project!Less(<<f[j], g[j]>>, <<f[i], g[i]>>) <=> f[j] < f[i] \/ (f[j] = f[i] /\ g[j] < g[i])
      BY <2>1, LessPair
    <2>4. QED
      BY <2>1, <2>2, <2>3
  <1> HIDE DEF f, g
  <1>3. QED
    BY <1>2 DEF Project!LastQueued

\* f and g give the first two parts of the scores.
Scored(s, D, f, g) ==
    \A n \in D : f[n] \in Int /\ g[n] \in Int /\ Project!Score(s, n) = <<f[n], g[n], n>>

\* The best candidate is one.
LEMMA BestIn ==
    ASSUME NEW s, NEW D, D \subseteq Int, IsFiniteSet(D), D # {}, NEW f, NEW g, Scored(s, D, f, g)
    PROVE  \E n \in D : \A m \in D \ {n} : Project!Less(Project!Score(s, n), Project!Score(s, m))
  <1> USE DEF Scored
  <1> DEFINE a == [n \in D |-> -f[n]]
             b == [n \in D |-> -g[n]]
  <1>1. PICK k \in D : \A i \in D : a[i] < a[k] \/ (a[i] = a[k] /\ b[i] <= b[k])
    <2>1. \A n \in D : a[n] \in Int /\ b[n] \in Int
      OBVIOUS
    <2> HIDE DEF a, b
    <2>2. QED
      BY <2>1, LastOfPairs
  <1> DEFINE M == {n \in D : f[n] = f[k] /\ g[n] = g[k]}
             c == [n \in M |-> -n]
  <1>2. IsFiniteSet(M) /\ M # {} /\ M \subseteq D
    BY FS_Subset
  <1>3. PICK n \in M : \A m \in M : c[m] <= c[n]
    <2>1. \A m \in M : c[m] \in Int
      OBVIOUS
    <2> HIDE DEF M, c
    <2>2. QED
      BY <1>2, <2>1, LastOfInts
  <1>4. ASSUME NEW m \in D \ {n}
        PROVE  Project!Less(Project!Score(s, n), Project!Score(s, m))
    <2>1. /\ f[n] \in Int /\ g[n] \in Int /\ n \in Int /\ f[m] \in Int /\ g[m] \in Int /\ m \in Int
          /\ f[n] = f[k] /\ g[n] = g[k]
      OBVIOUS
    <2>2. a[m] = -f[m] /\ a[k] = -f[k] /\ b[m] = -g[m] /\ b[k] = -g[k]
      OBVIOUS
    <2>3. f[k] < f[m] \/ (f[m] = f[k] /\ g[k] <= g[m])
      BY <1>1, <2>1, <2>2
    <2>4. f[m] = f[k] /\ g[m] = g[k] => n < m
      <3>1. SUFFICES ASSUME m \in M PROVE n < m
        OBVIOUS
      <3>2. c[m] <= c[n] /\ c[m] = -m /\ c[n] = -n
        BY <1>3, <3>1
      <3>3. QED
        BY <2>1, <3>2
    <2>5. f[n] < f[m] \/ (f[n] = f[m] /\ g[n] < g[m]) \/ (f[n] = f[m] /\ g[n] = g[m] /\ n < m)
      BY <2>1, <2>3, <2>4
    <2>6. Project!Less(<<f[n], g[n], n>>, <<f[m], g[m], m>>)
      BY <2>1, <2>5, LessTriple
    <2>7. QED
      BY <2>6
  <1>5. QED
    BY <1>4

-----------------------------------------------------------------------------
(* The project scheduler: what the books s = [jobs, allocations, log] always tell. *)

ProjectJob ==
    [state : {"queued", "scheduled", "running", "succeeded", "failed", "cancelled"},
     attempts : Nat, project : {sub.project : sub \in Submission}, max : Nat \ {0},
     request : {sub.request : sub \in Submission}, priority : Int, sequence : Nat]
Event ==
    [event : {"submitted", "reserved", "running", "lease-expired", "succeeded", "failed",
              "cancelled"},
     job : Project!Job, node : Int, term : Int]

\* A job that is not there was never heard of.
SoundJob(s, j) ==
    IF s.jobs[j] = Project!NoJob THEN Project!About(s, j) = {}
    ELSE LET job == s.jobs[j]
         IN /\ job \in ProjectJob /\ job.request.cores \in Nat /\ job.request.memory \in Nat
            /\ Project!About(s, j) # {}
            /\ job.state = Project!StateAfter(s, j)
            /\ job.attempts = Project!Reservations(s, j) /\ job.attempts <= job.max
            /\ job.state = "queued" => job.attempts < job.max
            /\ job.state \in Project!Active => \E a \in s.allocations : a.job = j

SoundHeld(s, a) ==
    /\ a.job \in Project!Job /\ s.jobs[a.job] # Project!NoJob
    /\ s.jobs[a.job].state \in Project!Active
    /\ a.node = Project!LastAbout(s, a.job).node
    /\ a.id \in Int /\ a.node \in Int /\ a.memory \in Nat
    /\ IsFiniteSet(a.cpus) /\ IsFiniteSet(a.gpus)

Book(s) == s = [jobs |-> s.jobs, allocations |-> s.allocations, log |-> s.log]

Sound(s) ==
    /\ Book(s)
    /\ s.log \in Seq(Event) /\ DOMAIN s.jobs = Project!Job
    /\ IsFiniteSet(s.allocations)
    /\ \A j \in Project!Job : SoundJob(s, j)
    /\ \A a \in s.allocations : SoundHeld(s, a)
    /\ \A a, b \in s.allocations : a.job = b.job => a = b
    /\ Project!Apart(s)
    /\ Project!QuotasKept(s)

\* One event e is appended and job becomes the job that it is about.
Moves(s, t, e, job) ==
    /\ Book(t)
    /\ t.log = Append(s.log, e)
    /\ t.jobs = [s.jobs EXCEPT ![e.job] = job]

\* What the event e of a log tells of job i.
Told(s, t, e, i) ==
    /\ Project!Reservations(s, i) \in Nat
    /\ Project!About(s, i) = {} => Project!Reservations(s, i) = 0
    /\ i # e.job => /\ Project!About(t, i) = Project!About(s, i)
                    /\ Project!Reservations(t, i) = Project!Reservations(s, i)
                    /\ Project!About(s, i) # {} =>
                          Project!LastAbout(t, i) = Project!LastAbout(s, i)
    /\ i = e.job => /\ Project!About(t, i) # {} /\ Project!LastAbout(t, i) = e
                    /\ Project!Reservations(t, i) = Project!Reservations(s, i)
                          + IF e.event = "reserved" THEN 1 ELSE 0

LEMMA EventTold ==
    ASSUME NEW s, NEW t, s.log \in Seq(Event), NEW e \in Event, t.log = Append(s.log, e),
           NEW i \in Project!Job
    PROVE  Told(s, t, e, i)
  <1> DEFINE n == Len(s.log)
             A(r) == Project!About(r, i)
             R(r) == {k \in A(r) : r.log[k].event = "reserved"}
  <1>1. n \in Nat /\ DOMAIN s.log = 1..n /\ DOMAIN t.log = 1..(n + 1)
    OBVIOUS
  <1>2. (\A k \in 1..n : t.log[k] = s.log[k]) /\ t.log[n + 1] = e
    OBVIOUS
  <1>3. A(s) = {k \in 1..n : s.log[k].job = i} /\ A(t) = {k \in 1..(n + 1) : t.log[k].job = i}
    BY <1>1 DEF Project!About
  <1>4. \A r : Project!Reservations(r, i) = Cardinality(R(r))
    BY ProjectCounts DEF Project!Reservations
  <1>5. A(s) \in SUBSET (1..n) /\ IsFiniteSet(1..n) /\ A(s) \in SUBSET Int
    <2> HIDE DEF n
    <2>1. QED
      BY <1>1, <1>3, FS_Interval
  <1>6. IsFiniteSet(A(s)) /\ IsFiniteSet(R(s)) /\ Cardinality(R(s)) \in Nat
    <2>1. R(s) \in SUBSET A(s)
      OBVIOUS
    <2> HIDE DEF R, A, n
    <2>2. QED
      BY <1>5, <2>1, FS_Subset, FS_CardinalityType
  <1>7. A(s) = {} => Cardinality(R(s)) = 0
    <2>1. A(s) = {} => R(s) = {}
      OBVIOUS
    <2> HIDE DEF R, A
    <2>2. QED
      BY <2>1, FS_EmptySet
  <1>8. \A r : Project!LastAbout(r, i) = r.log[Project!Max(A(r))]
    BY DEF Project!LastAbout
  <1>9. CASE i # e.job
    <2>1. A(t) = A(s)
      <3> HIDE DEF n
      <3>1. \A k \in 1..(n + 1) : k \in 1..n \/ k = n + 1
        BY <1>1
      <3>2. 1..n \subseteq 1..(n + 1)
        BY <1>1
      <3>3. QED
        BY <1>2, <1>3, <1>9, <3>1, <3>2
    <2>2. R(t) = R(s)
      <3> HIDE DEF n
      <3>1. QED
        BY <1>2, <1>5, <2>1
    <2>3. A(s) # {} => Project!LastAbout(t, i) = Project!LastAbout(s, i)
      <3> HIDE DEF n, A
      <3>1. A(s) # {} => Project!Max(A(s)) \in 1..n
        BY <1>5, <1>6, ProjectMax
      <3>2. QED
        BY <1>2, <1>8, <2>1, <3>1
    <2> HIDE DEF n, R
    <2>4. QED
      BY <1>4, <1>6, <1>7, <1>9, <2>1, <2>2, <2>3 DEF Told
  <1>10. CASE i = e.job
    <2>1. A(t) = A(s) \union {n + 1} /\ n + 1 \notin A(s)
      <3> HIDE DEF n
      <3>1. \A k \in 1..(n + 1) : k \in 1..n \/ k = n + 1
        BY <1>1
      <3>2. 1..n \subseteq 1..(n + 1) /\ n + 1 \in 1..(n + 1) /\ n + 1 \notin 1..n
        BY <1>1
      <3>3. QED
        BY <1>2, <1>3, <1>10, <3>1, <3>2
    <2>2. Project!Max(A(t)) = n + 1
      <3> HIDE DEF n, A
      <3>1. A(t) \in SUBSET Int /\ A(t) # {} /\ n + 1 \in A(t)
        BY <1>1, <1>5, <2>1
      <3>2. IsFiniteSet(A(t))
        <4>1. IsFiniteSet(A(s) \union {n + 1})
          BY <1>6, FS_AddElement, Zenon
        <4>2. QED
          BY <2>1, <4>1
      <3>3. Project!Max(A(t)) \in A(t) /\ n + 1 <= Project!Max(A(t))
        BY <3>1, <3>2, ProjectMax
      <3>4. \A k \in A(t) : k \in 1..n \/ k = n + 1
        BY <1>5, <2>1
      <3>5. QED
        BY <1>1, <3>3, <3>4
    <2>3. R(t) = IF e.event = "reserved" THEN R(s) \union {n + 1} ELSE R(s)
      <3> HIDE DEF n
      <3>1. \A k \in A(s) : t.log[k] = s.log[k]
        BY <1>2, <1>5
      <3>2. QED
        BY <1>2, <2>1, <3>1
    <2>4. n + 1 \notin R(s)
      BY <2>1
    <2>5. Cardinality(R(t)) = Cardinality(R(s)) + IF e.event = "reserved" THEN 1 ELSE 0
      <3> HIDE DEF R, A, n
      <3>1. Cardinality(R(s) \union {n + 1}) = Cardinality(R(s)) + 1
        BY <1>6, <2>4, FS_AddElement, Zenon
      <3>2. CASE e.event = "reserved"
        BY <2>3, <3>1, <3>2
      <3>3. CASE e.event # "reserved"
        BY <1>6, <2>3, <3>3
      <3>4. QED
        BY <3>2, <3>3
    <2>6. Project!LastAbout(t, i) = e /\ A(t) # {}
      <3> HIDE DEF n, A
      <3>1. QED
        BY <1>2, <1>8, <2>1, <2>2
    <2> HIDE DEF n, R
    <2>7. QED
      BY <1>4, <1>6, <1>7, <1>10, <2>5, <2>6 DEF Told
  <1>11. QED
    BY <1>9, <1>10

\* The other jobs and what they hold.
LEMMA OthersSound ==
    ASSUME NEW s, NEW t, Sound(s), NEW e \in Event, NEW job, Moves(s, t, e, job),
           \A a : a.job # e.job => (a \in t.allocations <=> a \in s.allocations)
    PROVE  /\ \A i \in Project!Job : i # e.job => SoundJob(t, i)
           /\ \A a \in t.allocations : a.job # e.job => SoundHeld(t, a)
           /\ DOMAIN t.jobs = Project!Job /\ t.log \in Seq(Event)
  <1>1. s.log \in Seq(Event) /\ t.log = Append(s.log, e) /\ DOMAIN s.jobs = Project!Job
    BY DEF Sound, Moves
  <1>2. t.log \in Seq(Event) /\ DOMAIN t.jobs = Project!Job
        /\ \A i \in Project!Job : i # e.job => t.jobs[i] = s.jobs[i]
    BY <1>1 DEF Moves
  <1>3. ASSUME NEW i \in Project!Job, i # e.job
        PROVE  /\ Project!About(t, i) = Project!About(s, i)
               /\ Project!Reservations(t, i) = Project!Reservations(s, i)
               /\ Project!About(s, i) # {} => Project!LastAbout(t, i) = Project!LastAbout(s, i)
    BY <1>1, <1>3, EventTold DEF Told
  <1>4. ASSUME NEW i \in Project!Job, i # e.job
        PROVE  SoundJob(t, i)
    <2>1. SoundJob(s, i)
      BY DEF Sound
    <2>2. t.jobs[i] = s.jobs[i]
      BY <1>2, <1>4
    <2>3. CASE s.jobs[i] = Project!NoJob
      BY <1>3, <1>4, <2>1, <2>2, <2>3 DEF SoundJob
    <2>4. CASE s.jobs[i] # Project!NoJob
      <3>1. Project!About(s, i) # {} /\ s.jobs[i].state = Project!StateAfter(s, i)
        BY <2>1, <2>4 DEF SoundJob
      <3>2. Project!StateAfter(t, i) = Project!StateAfter(s, i)
        BY <1>3, <1>4, <2>2, <3>1 DEF Project!StateAfter
      <3>3. (\E a \in s.allocations : a.job = i) => \E a \in t.allocations : a.job = i
        BY <1>4
      <3>4. QED
        BY <1>3, <1>4, <2>1, <2>2, <2>4, <3>2, <3>3 DEF SoundJob
    <2>5. QED
      BY <2>3, <2>4
  <1>5. ASSUME NEW a \in t.allocations, a.job # e.job
        PROVE  SoundHeld(t, a)
    <2>1. a \in s.allocations /\ SoundHeld(s, a)
      BY <1>5 DEF Sound
    <2>2. a.job \in Project!Job /\ s.jobs[a.job] # Project!NoJob /\ t.jobs[a.job] = s.jobs[a.job]
      BY <1>2, <1>5, <2>1 DEF SoundHeld
    <2>3. Project!About(s, a.job) # {}
      BY <2>2 DEF Sound, SoundJob
    <2>4. Project!LastAbout(t, a.job) = Project!LastAbout(s, a.job)
      BY <1>3, <1>5, <2>2, <2>3
    <2>5. QED
      BY <2>1, <2>2, <2>4 DEF SoundHeld
  <1>6. QED
    BY <1>2, <1>4, <1>5

\* What an allocation uses.
Sized(a) == Cardinality(a.cpus) \in Nat /\ a.memory \in Nat /\ Cardinality(a.gpus) \in Nat

\* What project p holds grows by the allocation a.
Grown(s, t, a, p) ==
    /\ {Cardinality(Project!Of(s, p)), Project!Cores(s, p), Project!Memory(s, p),
        Project!Gpus(s, p)} \subseteq Nat
    /\ a.project = p => /\ Cardinality(Project!Of(t, p)) = Cardinality(Project!Of(s, p)) + 1
                        /\ Project!Cores(t, p) = Project!Cores(s, p) + Cardinality(a.cpus)
                        /\ Project!Memory(t, p) = Project!Memory(s, p) + a.memory
                        /\ Project!Gpus(t, p) = Project!Gpus(s, p) + Cardinality(a.gpus)
    /\ a.project # p => /\ Cardinality(Project!Of(t, p)) = Cardinality(Project!Of(s, p))
                        /\ Project!Cores(t, p) = Project!Cores(s, p)
                        /\ Project!Memory(t, p) = Project!Memory(s, p)
                        /\ Project!Gpus(t, p) = Project!Gpus(s, p)

LEMMA OneMoreHeld ==
    ASSUME NEW s, NEW t, NEW a, a \notin s.allocations, IsFiniteSet(s.allocations),
           t.allocations = s.allocations \union {a}, \A b \in t.allocations : Sized(b), NEW p
    PROVE  Grown(s, t, a, p)
  <1> DEFINE D == Project!Of(s, p)
             E == D \union {a}
             cores(S) == [b \in S |-> Cardinality(b.cpus)]
             memory(S) == [b \in S |-> b.memory]
             gpus(S) == [b \in S |-> Cardinality(b.gpus)]
  <1>1. /\ D = {b \in s.allocations : b.project = p}
        /\ Project!Of(t, p) = {b \in t.allocations : b.project = p}
    BY DEF Project!Of
  <1>2. IsFiniteSet(D) /\ a \notin D /\ \A b \in E : Sized(b)
    <2>1. D \in SUBSET s.allocations /\ a \in t.allocations /\ s.allocations \subseteq t.allocations
      BY <1>1
    <2> HIDE DEF D
    <2>2. QED
      BY <2>1, FS_Subset
  <1>3. \A r : /\ Project!Cores(r, p) = Project!SumFunction(cores(Project!Of(r, p)))
               /\ Project!Memory(r, p) = Project!SumFunction(memory(Project!Of(r, p)))
               /\ Project!Gpus(r, p) = Project!SumFunction(gpus(Project!Of(r, p)))
    BY ProjectCounts DEF Project!Cores, Project!Memory, Project!Gpus
  <1> HIDE DEF D
  <1>4. Cardinality(D) \in Nat /\ Cardinality(E) = Cardinality(D) + 1
    <2>1. Cardinality(E) = Cardinality(D) + 1
      BY <1>2, FS_AddElement, Zenon
    <2>2. QED
      BY <1>2, <2>1, FS_CardinalityType
  <1>5. /\ Project!SumFunction(cores(E)) = Project!SumFunction(cores(D)) + Cardinality(a.cpus)
        /\ Project!SumFunction(cores(D)) \in Nat
    <2>1. cores(D) \in [D -> Nat] /\ cores(E) \in [D \union {a} -> Nat]
          /\ cores(E)[a] = Cardinality(a.cpus) /\ \A y \in D : cores(E)[y] = cores(D)[y]
      BY <1>2 DEF Sized
    <2>2. PICK f \in [D -> Nat], k \in [D \union {a} -> Nat] : f = cores(D) /\ k = cores(E)
      BY <2>1
    <2> HIDE DEF cores, E
    <2>3. \A y \in D : k[y] = f[y]
      BY <2>1, <2>2
    <2>4. Project!SumFunction(k) = Project!SumFunction(f) + k[a] /\ Project!SumFunction(f) \in Nat
      BY <1>2, <2>3, SumAdd
    <2>5. QED
      BY <2>1, <2>2, <2>4
  <1>6. /\ Project!SumFunction(memory(E)) = Project!SumFunction(memory(D)) + a.memory
        /\ Project!SumFunction(memory(D)) \in Nat
    <2>1. memory(D) \in [D -> Nat] /\ memory(E) \in [D \union {a} -> Nat]
          /\ memory(E)[a] = a.memory /\ \A y \in D : memory(E)[y] = memory(D)[y]
      BY <1>2 DEF Sized
    <2>2. PICK f \in [D -> Nat], k \in [D \union {a} -> Nat] : f = memory(D) /\ k = memory(E)
      BY <2>1
    <2> HIDE DEF memory, E
    <2>3. \A y \in D : k[y] = f[y]
      BY <2>1, <2>2
    <2>4. Project!SumFunction(k) = Project!SumFunction(f) + k[a] /\ Project!SumFunction(f) \in Nat
      BY <1>2, <2>3, SumAdd
    <2>5. QED
      BY <2>1, <2>2, <2>4
  <1>7. /\ Project!SumFunction(gpus(E)) = Project!SumFunction(gpus(D)) + Cardinality(a.gpus)
        /\ Project!SumFunction(gpus(D)) \in Nat
    <2>1. gpus(D) \in [D -> Nat] /\ gpus(E) \in [D \union {a} -> Nat]
          /\ gpus(E)[a] = Cardinality(a.gpus) /\ \A y \in D : gpus(E)[y] = gpus(D)[y]
      BY <1>2 DEF Sized
    <2>2. PICK f \in [D -> Nat], k \in [D \union {a} -> Nat] : f = gpus(D) /\ k = gpus(E)
      BY <2>1
    <2> HIDE DEF gpus, E
    <2>3. \A y \in D : k[y] = f[y]
      BY <2>1, <2>2
    <2>4. Project!SumFunction(k) = Project!SumFunction(f) + k[a] /\ Project!SumFunction(f) \in Nat
      BY <1>2, <2>3, SumAdd
    <2>5. QED
      BY <2>1, <2>2, <2>4
  <1> HIDE DEF cores, memory, gpus
  <1>8. D = Project!Of(s, p)
    BY DEF D
  <1>9. CASE a.project = p
    <2>1. Project!Of(t, p) = E
      BY <1>1, <1>9
    <2> HIDE DEF E
    <2>2. QED
      BY <1>3, <1>4, <1>5, <1>6, <1>7, <1>8, <1>9, <2>1 DEF Grown
  <1>10. CASE a.project # p
    <2>1. Project!Of(t, p) = D
      BY <1>1, <1>10
    <2> HIDE DEF E
    <2>2. QED
      BY <1>3, <1>4, <1>5, <1>6, <1>7, <1>8, <1>10, <2>1 DEF Grown
  <1>11. QED
    BY <1>9, <1>10

LEMMA HeldAreSized ==
    ASSUME NEW s, Sound(s)
    PROVE  \A a \in s.allocations : Sized(a)
  <1>1. \A a \in s.allocations : IsFiniteSet(a.cpus) /\ IsFiniteSet(a.gpus) /\ a.memory \in Nat
    BY DEF Sound, SoundHeld
  <1>2. QED
    BY <1>1, FS_CardinalityType DEF Sized

QuotaNumbers ==
    \A p \in DOMAIN Quota : {Quota[p].jobs, Quota[p].cores, Quota[p].memory, Quota[p].gpus} \subseteq Nat

LEMMA QuotasAreNumbers == QuotaNumbers
  BY QuotaAssumption DEF QuotaNumbers

\* Whatever holds less is within its quotas, and its allocations are apart.
LEMMA ReleaseKeeps ==
    ASSUME NEW s, NEW t, Sound(s), NEW a \in s.allocations, t.allocations = s.allocations \ {a}
    PROVE  /\ IsFiniteSet(t.allocations)
           /\ Project!Apart(t) /\ Project!QuotasKept(t)
           /\ \A b, c \in t.allocations : b.job = c.job => b = c
  <1>1. IsFiniteSet(s.allocations) /\ \A b \in s.allocations : Sized(b)
    BY HeldAreSized DEF Sound
  <1>2. IsFiniteSet(t.allocations)
    <2>1. IsFiniteSet(s.allocations \ {a})
      BY <1>1, FS_RemoveElement, Zenon
    <2>2. QED
      BY <2>1
  <1>3. a \notin t.allocations /\ s.allocations = t.allocations \union {a}
    OBVIOUS
  <1>4. ASSUME NEW p \in DOMAIN Quota
        PROVE  /\ Cardinality(Project!Of(t, p)) <= Quota[p].jobs
               /\ Project!Cores(t, p) <= Quota[p].cores
               /\ Project!Memory(t, p) <= Quota[p].memory
               /\ Project!Gpus(t, p) <= Quota[p].gpus
    <2>1. /\ Cardinality(Project!Of(s, p)) <= Quota[p].jobs
          /\ Project!Cores(s, p) <= Quota[p].cores
          /\ Project!Memory(s, p) <= Quota[p].memory
          /\ Project!Gpus(s, p) <= Quota[p].gpus
      BY ProjectCounts DEF Sound, Project!QuotasKept
    <2>2. Sized(a)
      BY <1>1
    <2> DEFINE n == Cardinality(Project!Of(t, p))
               c == Project!Cores(t, p)
               m == Project!Memory(t, p)
               g == Project!Gpus(t, p)
    <2>3. /\ {n, c, m, g} \subseteq Nat
          /\ \/ /\ Cardinality(Project!Of(s, p)) = n + 1
                /\ Project!Cores(s, p) = c + Cardinality(a.cpus)
                /\ Project!Memory(s, p) = m + a.memory
                /\ Project!Gpus(s, p) = g + Cardinality(a.gpus)
             \/ /\ Cardinality(Project!Of(s, p)) = n
                /\ Project!Cores(s, p) = c /\ Project!Memory(s, p) = m /\ Project!Gpus(s, p) = g
      <3>1. Grown(t, s, a, p)
        BY <1>1, <1>2, <1>3, OneMoreHeld
      <3>2. QED
        BY <3>1 DEF Grown
    <2>4. {Quota[p].jobs, Quota[p].cores, Quota[p].memory, Quota[p].gpus} \subseteq Nat
      BY QuotasAreNumbers DEF QuotaNumbers
    <2> HIDE DEF n, c, m, g
    <2>5. n <= Quota[p].jobs /\ c <= Quota[p].cores /\ m <= Quota[p].memory /\ g <= Quota[p].gpus
      BY <2>1, <2>2, <2>3, <2>4 DEF Sized
    <2>6. QED
      BY <2>5 DEF n, c, m, g
  <1>5. Project!QuotasKept(t)
    BY <1>4, ProjectCounts DEF Project!QuotasKept
  <1>6. QED
    BY <1>2, <1>3, <1>5 DEF Sound, Project!Apart

LEMMA SameHeld ==
    ASSUME NEW s, NEW t, Sound(s), t.allocations = s.allocations
    PROVE  /\ IsFiniteSet(t.allocations)
           /\ Project!Apart(t) /\ Project!QuotasKept(t)
           /\ \A b, c \in t.allocations : b.job = c.job => b = c
  <1>1. \A p : Project!Of(t, p) = Project!Of(s, p)
    BY DEF Project!Of
  <1>2. \A p : /\ Project!Cores(t, p) = Project!Cores(s, p)
               /\ Project!Memory(t, p) = Project!Memory(s, p)
               /\ Project!Gpus(t, p) = Project!Gpus(s, p)
    BY <1>1 DEF Project!Cores, Project!Memory, Project!Gpus
  <1>3. Project!QuotasKept(s) => Project!QuotasKept(t)
    BY <1>1, <1>2 DEF Project!QuotasKept
  <1>4. QED
    BY <1>3 DEF Sound, Project!Apart

\* A job of the books.
LEMMA JobIs ==
    ASSUME NEW s, Sound(s), NEW j \in Project!Job, s.jobs[j] # Project!NoJob
    PROVE  /\ s.jobs[j] \in ProjectJob
           /\ s.jobs[j].attempts \in Nat /\ s.jobs[j].max \in Nat \ {0}
           /\ s.jobs[j].request.cores \in Nat /\ s.jobs[j].request.memory \in Nat
           /\ Project!About(s, j) # {}
           /\ s.jobs[j].attempts = Project!Reservations(s, j)
           /\ s.jobs[j].attempts <= s.jobs[j].max
           /\ s.jobs[j].state = "queued" => s.jobs[j].attempts < s.jobs[j].max
           /\ s.jobs[j].state \in Project!Active => \E a \in s.allocations : a.job = j
  <1>1. SoundJob(s, j)
    BY DEF Sound
  <1>2. s.jobs[j] \in ProjectJob
    BY <1>1 DEF SoundJob
  <1>3. s.jobs[j].attempts \in Nat /\ s.jobs[j].max \in Nat \ {0}
    BY <1>2 DEF ProjectJob
  <1>4. QED
    BY <1>1, <1>2, <1>3 DEF SoundJob

\* A job ends or waits again, and what it held is released.
LEMMA EndsSound ==
    ASSUME NEW s, NEW t, Sound(s), NEW e \in Event, NEW state,
           s.jobs[e.job] # Project!NoJob,
           Moves(s, t, e, [s.jobs[e.job] EXCEPT !.state = state]),
           t.allocations = {a \in s.allocations : a.job # e.job},
           \/ /\ e.event = "lease-expired"
              /\ state = IF s.jobs[e.job].attempts < s.jobs[e.job].max THEN "queued" ELSE "failed"
           \/ e.event = state /\ state \in {"succeeded", "failed", "cancelled"}
    PROVE  Sound(t)
  <1> DEFINE j == e.job
             job == [s.jobs[j] EXCEPT !.state = state]
  <1>1. j \in Project!Job /\ DOMAIN s.jobs = Project!Job /\ s.log \in Seq(Event)
    BY DEF Sound, Event
  <1>2. /\ \A i \in Project!Job : i # j => SoundJob(t, i)
        /\ \A a \in t.allocations : SoundHeld(t, a)
        /\ DOMAIN t.jobs = Project!Job /\ t.log \in Seq(Event)
    BY OthersSound
  <1>3. t.jobs[j] = job /\ t.log = Append(s.log, e) /\ Book(t)
    BY <1>1 DEF Moves
  <1>4. /\ s.jobs[j] \in ProjectJob
        /\ s.jobs[j].attempts \in Nat /\ s.jobs[j].max \in Nat \ {0}
        /\ s.jobs[j].request.cores \in Nat /\ s.jobs[j].request.memory \in Nat
        /\ s.jobs[j].attempts = Project!Reservations(s, j)
        /\ s.jobs[j].attempts <= s.jobs[j].max
    BY <1>1, JobIs
  <1>5. job \in ProjectJob /\ job # Project!NoJob /\ job.state = state
        /\ job.attempts = s.jobs[j].attempts /\ job.max = s.jobs[j].max /\ job.request = s.jobs[j].request
    BY <1>4 DEF ProjectJob, Project!NoJob
  <1>6. /\ Project!About(t, j) # {} /\ Project!LastAbout(t, j) = e
        /\ Project!Reservations(t, j) = Project!Reservations(s, j)
    <2>1. e.event # "reserved" /\ Project!Reservations(s, j) \in Nat
      BY <1>4
    <2>2. Told(s, t, e, j)
      BY <1>1, <1>3, EventTold
    <2>3. QED
      BY <1>1, <2>1, <2>2 DEF Told
  <1> HIDE DEF job
  <1>7. Project!StateAfter(t, j) = state /\ (state = "queued" => job.attempts < job.max)
    BY <1>3, <1>4, <1>5, <1>6 DEF Project!StateAfter
  <1>8. SoundJob(t, j)
    <2>1. state \notin Project!Active
      BY DEF Project!Active
    <2>2. QED
      BY <1>3, <1>4, <1>5, <1>6, <1>7, <2>1 DEF SoundJob
  <1>9. /\ IsFiniteSet(t.allocations)
        /\ Project!Apart(t) /\ Project!QuotasKept(t)
        /\ \A b, c \in t.allocations : b.job = c.job => b = c
    <2>1. CASE \E a \in s.allocations : a.job = j
      <3>1. PICK a \in s.allocations : a.job = j
        BY <2>1
      <3>2. t.allocations = s.allocations \ {a}
        BY <3>1 DEF Sound
      <3>3. QED
        BY <3>2, ReleaseKeeps
    <2>2. CASE ~ \E a \in s.allocations : a.job = j
      <3>1. t.allocations = s.allocations
        BY <2>2
      <3>2. QED
        BY <3>1, SameHeld
    <2>3. QED
      BY <2>1, <2>2
  <1>10. QED
    BY <1>2, <1>3, <1>8, <1>9 DEF Sound

\* A scheduled job starts to run.
LEMMA RunsSound ==
    ASSUME NEW s, NEW t, Sound(s), NEW e \in Event, e.event = "running",
           NEW a \in s.allocations, a.job = e.job, a.node = e.node,
           Moves(s, t, e, [s.jobs[e.job] EXCEPT !.state = "running"]),
           t.allocations = s.allocations
    PROVE  Sound(t)
  <1> DEFINE j == e.job
             job == [s.jobs[j] EXCEPT !.state = "running"]
  <1>1. j \in Project!Job /\ DOMAIN s.jobs = Project!Job /\ s.log \in Seq(Event)
    BY DEF Sound, Event
  <1>2. /\ \A i \in Project!Job : i # j => SoundJob(t, i)
        /\ \A b \in t.allocations : b.job # j => SoundHeld(t, b)
        /\ DOMAIN t.jobs = Project!Job /\ t.log \in Seq(Event)
    BY OthersSound
  <1>3. t.jobs[j] = job /\ t.log = Append(s.log, e) /\ Book(t)
    BY <1>1 DEF Moves
  <1>4. SoundHeld(s, a)
    BY DEF Sound
  <1>5. /\ s.jobs[j] # Project!NoJob /\ s.jobs[j] \in ProjectJob
        /\ s.jobs[j].attempts \in Nat /\ s.jobs[j].max \in Nat \ {0}
        /\ s.jobs[j].request.cores \in Nat /\ s.jobs[j].request.memory \in Nat
        /\ s.jobs[j].attempts = Project!Reservations(s, j)
        /\ s.jobs[j].attempts <= s.jobs[j].max
    BY <1>1, <1>4, JobIs DEF SoundHeld
  <1>6. job \in ProjectJob /\ job # Project!NoJob /\ job.state = "running"
        /\ job.attempts = s.jobs[j].attempts /\ job.max = s.jobs[j].max /\ job.request = s.jobs[j].request
    BY <1>5 DEF ProjectJob, Project!NoJob
  <1>7. /\ Project!About(t, j) # {} /\ Project!LastAbout(t, j) = e
        /\ Project!Reservations(t, j) = Project!Reservations(s, j)
    <2>1. Told(s, t, e, j)
      BY <1>1, <1>3, EventTold
    <2>2. QED
      BY <1>1, <1>5, <2>1 DEF Told
  <1> HIDE DEF job
  <1>8. SoundJob(t, j)
    <2>1. Project!StateAfter(t, j) = "running"
      BY <1>7 DEF Project!StateAfter
    <2>2. QED
      BY <1>3, <1>5, <1>6, <1>7, <2>1 DEF SoundJob
  <1>9. SoundHeld(t, a)
    BY <1>1, <1>3, <1>4, <1>6, <1>7 DEF SoundHeld, Project!Active
  <1>10. \A b \in t.allocations : SoundHeld(t, b)
    <2>1. \A b \in t.allocations : b.job = j => b = a
      BY DEF Sound
    <2>2. QED
      BY <1>2, <1>9, <2>1
  <1>11. QED
    BY <1>2, <1>3, <1>8, <1>10, SameHeld DEF Sound

\* A job is submitted.
LEMMA SubmittedSound ==
    ASSUME NEW s, NEW t, Sound(s), NEW e \in Event, e.event = "submitted",
           s.jobs[e.job] = Project!NoJob, NEW job \in ProjectJob,
           job.request.cores \in Nat, job.request.memory \in Nat,
           job.state = "queued", job.attempts = 0,
           Moves(s, t, e, job), t.allocations = s.allocations
    PROVE  Sound(t)
  <1> DEFINE j == e.job
  <1>1. j \in Project!Job /\ DOMAIN s.jobs = Project!Job /\ s.log \in Seq(Event)
    BY DEF Sound, Event
  <1>2. /\ \A i \in Project!Job : i # j => SoundJob(t, i)
        /\ \A b \in t.allocations : b.job # j => SoundHeld(t, b)
        /\ DOMAIN t.jobs = Project!Job /\ t.log \in Seq(Event)
    BY OthersSound
  <1>3. t.jobs[j] = job /\ t.log = Append(s.log, e) /\ Book(t)
    BY <1>1 DEF Moves
  <1>4. \A b \in s.allocations : b.job # j
    BY DEF Sound, SoundHeld
  <1>5. Project!About(s, j) = {}
    BY <1>1 DEF Sound, SoundJob
  <1>6. /\ Project!About(t, j) # {} /\ Project!LastAbout(t, j) = e
        /\ Project!Reservations(t, j) = 0
    <2>1. Told(s, t, e, j)
      BY <1>1, <1>3, EventTold
    <2>2. QED
      BY <1>1, <1>5, <2>1 DEF Told
  <1>7. SoundJob(t, j)
    <2>1. Project!StateAfter(t, j) = "queued"
      BY <1>6 DEF Project!StateAfter
    <2>2. job.max \in Nat \ {0} /\ job # Project!NoJob
      BY DEF ProjectJob, Project!NoJob
    <2>3. "queued" \notin Project!Active
      BY DEF Project!Active
    <2>4. 0 <= job.max /\ 0 < job.max
      BY <2>2
    <2>5. QED
      BY <1>3, <1>6, <2>1, <2>2, <2>3, <2>4 DEF SoundJob
  <1>8. QED
    BY <1>2, <1>3, <1>4, <1>7, SameHeld DEF Sound

LEMMA SumIsNat ==
    ASSUME NEW D, IsFiniteSet(D), NEW f \in [D -> Nat]
    PROVE  Project!SumFunction(f) \in Nat
  <1> DEFINE g == CHOOSE g : IsSum(g, f, D)
  <1>1. IsSum(g, f, D)
    BY SumExists
  <1>2. DOMAIN f = D
    OBVIOUS
  <1>3. Project!SumFunction(f) = g[D]
    BY <1>2 DEF Project!SumFunction, Project!SumFunctionOnSet, Project!FoldFunctionOnSet,
       Project!MapThenFoldSet, IsSum
  <1> HIDE DEF g
  <1>4. QED
    BY <1>1, <1>3, SumAny

LEMMA UnionIsFinite ==
    ASSUME NEW D, IsFiniteSet(D), \A a \in D : IsFiniteSet(a.cpus)
    PROVE  IsFiniteSet(UNION {a.cpus : a \in D})
  <1> DEFINE U(S) == UNION {a.cpus : a \in S}
             G == {S \in SUBSET D : IsFiniteSet(U(S))}
  <1>1. ASSUME NEW S \in SUBSET D, \A x \in S : S \ {x} \in G
        PROVE  S \in G
    <2>1. CASE S = {}
      <3>1. U(S) = {}
        BY <2>1
      <3> HIDE DEF U
      <3>2. QED
        BY <3>1, FS_EmptySet
    <2>2. CASE S # {}
      <3>1. PICK x \in S : TRUE
        BY <2>2
      <3>2. U(S) = U(S \ {x}) \union x.cpus
        OBVIOUS
      <3>3. IsFiniteSet(U(S \ {x})) /\ IsFiniteSet(x.cpus)
        BY <1>1
      <3> HIDE DEF U
      <3>4. IsFiniteSet(U(S \ {x}) \union x.cpus)
        BY <3>3, FS_Union, Zenon
      <3>5. QED
        BY <3>2, <3>4
    <2>3. QED
      BY <2>1, <2>2
  <1> HIDE DEF G
  <1>2. D \in G
    BY ZenonT(60), <1>1, BySize
  <1>3. QED
    BY <1>2 DEF G

\* An allocation takes free CPUs and GPUs, and not more than the job asks for.
Takes(s, n, q, cpus, gpus) ==
    /\ IsFiniteSet(cpus) /\ Cardinality(cpus) <= q.cores
    /\ IsFiniteSet(gpus) /\ Cardinality(gpus) <= q.gpus
    /\ \A b \in s.allocations : b.node = n =>
          cpus \intersect b.cpus = {} /\ gpus \intersect b.gpus = {}

\* The quota of a project has room for what is asked.
Allows(s, p, q) ==
    p \in DOMAIN Quota =>
        /\ Cardinality(Project!Of(s, p)) + 1 <= Quota[p].jobs
        /\ Project!Cores(s, p) + q.cores <= Quota[p].cores
        /\ Project!Memory(s, p) + q.memory <= Quota[p].memory
        /\ Project!Gpus(s, p) + q.gpus <= Quota[p].gpus

\* A job gets an allocation that nobody shares and that its quota allows.
LEMMA ReservedSound ==
    ASSUME NEW s, NEW t, Sound(s), NEW e \in Event, e.event = "reserved",
           NEW a, a.job = e.job, a.node = e.node, a.id \in Int,
           s.jobs[e.job] # Project!NoJob, s.jobs[e.job].state = "queued",
           NEW q, q = s.jobs[e.job].request, q.gpus \in Nat,
           Moves(s, t, e, [s.jobs[e.job] EXCEPT !.state = "scheduled", !.attempts = @ + 1]),
           t.allocations = s.allocations \union {a},
           a.memory = q.memory, a.project = s.jobs[e.job].project,
           Takes(s, a.node, q, a.cpus, a.gpus), Allows(s, a.project, q)
    PROVE  Sound(t)
  <1> DEFINE j == e.job
             job == [s.jobs[j] EXCEPT !.state = "scheduled", !.attempts = @ + 1]
  <1>1. j \in Project!Job /\ DOMAIN s.jobs = Project!Job /\ s.log \in Seq(Event)
    BY DEF Sound, Event
  <1>2. /\ \A i \in Project!Job : i # j => SoundJob(t, i)
        /\ \A b \in t.allocations : b.job # j => SoundHeld(t, b)
        /\ DOMAIN t.jobs = Project!Job /\ t.log \in Seq(Event)
    BY OthersSound
  <1>3. t.jobs[j] = job /\ t.log = Append(s.log, e) /\ Book(t)
    BY <1>1 DEF Moves
  <1>4. \A b \in s.allocations : b.job # j
    BY DEF Sound, SoundHeld, Project!Active
  <1>5. /\ s.jobs[j] \in ProjectJob
        /\ s.jobs[j].attempts \in Nat /\ s.jobs[j].max \in Nat \ {0}
        /\ s.jobs[j].request.cores \in Nat /\ s.jobs[j].request.memory \in Nat
        /\ s.jobs[j].attempts = Project!Reservations(s, j)
        /\ s.jobs[j].attempts < s.jobs[j].max
    <2>1. j \in Project!Job /\ s.jobs[j] # Project!NoJob /\ s.jobs[j].state = "queued"
      BY <1>1
    <2> HIDE DEF j, job
    <2>2. QED
      BY <2>1, JobIs
  <1>6. job \in ProjectJob /\ job # Project!NoJob /\ job.state = "scheduled"
        /\ job.attempts = s.jobs[j].attempts + 1 /\ job.max = s.jobs[j].max
        /\ job.request = s.jobs[j].request
    <2>1. PICK old \in ProjectJob, n \in Nat : old = s.jobs[j] /\ n = old.attempts + 1
      BY <1>5
    <2>2. /\ [old EXCEPT !.state = "scheduled"] \in ProjectJob
          /\ [old EXCEPT !.state = "scheduled"].state = "scheduled"
          /\ [old EXCEPT !.state = "scheduled"].max = old.max
          /\ [old EXCEPT !.state = "scheduled"].request = old.request
      BY DEF ProjectJob
    <2>3. PICK new \in ProjectJob : new = [old EXCEPT !.state = "scheduled"]
      BY <2>2
    <2>4. /\ [new EXCEPT !.attempts = n] \in ProjectJob
          /\ [new EXCEPT !.attempts = n].attempts = n
          /\ [new EXCEPT !.attempts = n].state = new.state
          /\ [new EXCEPT !.attempts = n].max = new.max
          /\ [new EXCEPT !.attempts = n].request = new.request
      BY DEF ProjectJob
    <2>5. job = [new EXCEPT !.attempts = n]
      BY <2>1, <2>3 DEF ProjectJob
    <2>6. \A x \in ProjectJob : x # Project!NoJob
      BY DEF ProjectJob, Project!NoJob
    <2>7. QED
      BY <2>1, <2>2, <2>3, <2>4, <2>5, <2>6
  <1>7. /\ Project!About(t, j) # {} /\ Project!LastAbout(t, j) = e
        /\ Project!Reservations(t, j) = Project!Reservations(s, j) + 1
    <2>1. Told(s, t, e, j)
      BY <1>1, <1>3, EventTold
    <2>2. QED
      BY <1>1, <2>1 DEF Told
  <1> HIDE DEF job
  <1>8. SoundJob(t, j)
    <2>1. Project!StateAfter(t, j) = "scheduled"
      BY <1>7 DEF Project!StateAfter
    <2>2. job.attempts <= job.max
      BY <1>5, <1>6
    <2>3. a \in t.allocations /\ a.job = j
      OBVIOUS
    <2>4. QED
      BY <1>3, <1>5, <1>6, <1>7, <2>1, <2>2, <2>3 DEF SoundJob
  <1>9. SoundHeld(t, a)
    <2>1. a.node \in Int
      BY DEF Event
    <2>2. QED
      BY <1>1, <1>3, <1>5, <1>6, <1>7, <2>1 DEF SoundHeld, Project!Active, Takes
  <1>10. \A b \in t.allocations : SoundHeld(t, b)
    BY <1>2, <1>4, <1>9
  <1>11. \A b, c \in t.allocations : b.job = c.job => b = c
    BY <1>4 DEF Sound
  <1>12. IsFiniteSet(t.allocations)
    <2>1. IsFiniteSet(s.allocations \union {a})
      BY FS_AddElement, Zenon DEF Sound
    <2>2. QED
      BY <2>1
  <1>13. Project!Apart(t)
    BY DEF Sound, Project!Apart, Takes
  <1>14. ASSUME NEW p \in DOMAIN Quota
         PROVE  /\ Cardinality(Project!Of(t, p)) <= Quota[p].jobs
                /\ Project!Cores(t, p) <= Quota[p].cores
                /\ Project!Memory(t, p) <= Quota[p].memory
                /\ Project!Gpus(t, p) <= Quota[p].gpus
    <2>1. \A b \in t.allocations : Sized(b)
      <3>1. Sized(a)
        BY <1>5, FS_CardinalityType DEF Sized, Takes
      <3>2. QED
        BY <3>1, HeldAreSized
    <2>2. Grown(s, t, a, p)
      BY <1>4, <2>1, OneMoreHeld DEF Sound
    <2>3. Sized(a)
      BY <2>1
    <2>4. {Quota[p].jobs, Quota[p].cores, Quota[p].memory, Quota[p].gpus} \subseteq Nat
      BY QuotasAreNumbers DEF QuotaNumbers
    <2>5. CASE a.project = p
      <3>1. /\ Cardinality(Project!Of(s, p)) + 1 <= Quota[p].jobs
            /\ Project!Cores(s, p) + q.cores <= Quota[p].cores
            /\ Project!Memory(s, p) + q.memory <= Quota[p].memory
            /\ Project!Gpus(s, p) + q.gpus <= Quota[p].gpus
        BY <2>5 DEF Allows
      <3>2. /\ Cardinality(a.cpus) <= q.cores /\ Cardinality(a.gpus) <= q.gpus /\ a.memory = q.memory
            /\ q.cores \in Nat /\ q.memory \in Nat /\ q.gpus \in Nat
        BY <1>5 DEF Takes
      <3>3. /\ Cardinality(Project!Of(t, p)) = Cardinality(Project!Of(s, p)) + 1
            /\ Project!Cores(t, p) = Project!Cores(s, p) + Cardinality(a.cpus)
            /\ Project!Memory(t, p) = Project!Memory(s, p) + a.memory
            /\ Project!Gpus(t, p) = Project!Gpus(s, p) + Cardinality(a.gpus)
        BY <2>2, <2>5 DEF Grown
      <3>4. /\ Cardinality(Project!Of(s, p)) \in Nat /\ Project!Cores(s, p) \in Nat
            /\ Project!Memory(s, p) \in Nat /\ Project!Gpus(s, p) \in Nat
        BY <2>2 DEF Grown
      <3>5. /\ Cardinality(a.cpus) \in Nat /\ a.memory \in Nat /\ Cardinality(a.gpus) \in Nat
        BY <2>3 DEF Sized
      <3>6. /\ Quota[p].jobs \in Nat /\ Quota[p].cores \in Nat
            /\ Quota[p].memory \in Nat /\ Quota[p].gpus \in Nat
        BY <2>4
      <3>7. Cardinality(Project!Of(t, p)) <= Quota[p].jobs
        BY <3>1, <3>3
      <3>8. Project!Cores(t, p) <= Quota[p].cores
        <4> DEFINE had == Project!Cores(s, p)
                   has == Project!Cores(t, p)
                   taken == Cardinality(a.cpus)
                   asked == q.cores
                   bound == Quota[p].cores
        <4>1. /\ had \in Nat /\ taken \in Nat /\ asked \in Nat /\ bound \in Nat
              /\ had + asked <= bound /\ taken <= asked /\ has = had + taken
          BY <3>1, <3>2, <3>3, <3>4, <3>5, <3>6
        <4> HIDE DEF had, has, taken, asked, bound
        <4>2. has <= bound
          BY <4>1
        <4>3. QED
          BY <4>2 DEF has, bound
      <3>9. Project!Memory(t, p) <= Quota[p].memory
        BY <3>1, <3>2, <3>3
      <3>10. Project!Gpus(t, p) <= Quota[p].gpus
        <4> DEFINE had == Project!Gpus(s, p)
                   has == Project!Gpus(t, p)
                   taken == Cardinality(a.gpus)
                   asked == q.gpus
                   bound == Quota[p].gpus
        <4>1. /\ had \in Nat /\ taken \in Nat /\ asked \in Nat /\ bound \in Nat
              /\ had + asked <= bound /\ taken <= asked /\ has = had + taken
          BY <3>1, <3>2, <3>3, <3>4, <3>5, <3>6
        <4> HIDE DEF had, has, taken, asked, bound
        <4>2. has <= bound
          BY <4>1
        <4>3. QED
          BY <4>2 DEF has, bound
      <3>11. QED
        BY <3>7, <3>8, <3>9, <3>10
    <2>6. CASE a.project # p
      <3>1. /\ Cardinality(Project!Of(s, p)) <= Quota[p].jobs
            /\ Project!Cores(s, p) <= Quota[p].cores
            /\ Project!Memory(s, p) <= Quota[p].memory
            /\ Project!Gpus(s, p) <= Quota[p].gpus
        BY ProjectCounts DEF Sound, Project!QuotasKept
      <3>2. QED
        BY <2>2, <2>6, <3>1 DEF Grown
    <2>7. QED
      BY <2>5, <2>6
  <1>15. Project!QuotasKept(t)
    BY <1>14, ProjectCounts DEF Project!QuotasKept
  <1>16. QED
    BY <1>2, <1>3, <1>8, <1>10, <1>11, <1>12, <1>13, <1>15 DEF Sound

\* What a job asks for stays what it was in the present state.
Fixed(s) ==
    \A j \in Project!Job : s.jobs[j] # Project!NoJob =>
        /\ s.jobs[j].project = jobs[j].project
        /\ s.jobs[j].request = jobs[j].request

\* The allocations in gone are released while the state of job j changes.
Changes(s, t, e, job, gone) ==
    /\ Moves(s, t, e, job)
    /\ t.allocations = s.allocations \ gone

LEMMA TransitionIs ==
    ASSUME NEW s, NEW j, NEW state, NEW event, NEW n, NEW gone,
           NEW e, e = [event |-> event, job |-> j, node |-> n, term |-> term],
           NEW t, t = Project!Released(Project!Transition(s, j, state, event, n), gone)
    PROVE  Changes(s, t, e, [s.jobs[e.job] EXCEPT !.state = state], gone)
  <1>1. Project!Logged(s, event, j, n) = Append(s.log, e)
    BY DEF Project!Logged
  <1>2. t = [jobs |-> [s.jobs EXCEPT ![j] = [s.jobs[j] EXCEPT !.state = state]],
             allocations |-> s.allocations \ gone, log |-> Append(s.log, e)]
    BY <1>1 DEF Project!Transition, Project!Released
  <1>3. e.job = j
    OBVIOUS
  <1>4. QED
    BY <1>2, <1>3 DEF Changes, Moves, Book

\* A job whose state changes asks for what it did.
LEMMA FixedStays ==
    ASSUME NEW s, NEW t, Sound(s), Fixed(s), NEW e, e.job \in Project!Job,
           s.jobs[e.job] # Project!NoJob, NEW job, Moves(s, t, e, job),
           job.project = s.jobs[e.job].project, job.request = s.jobs[e.job].request
    PROVE  Fixed(t)
  <1>1. DOMAIN s.jobs = Project!Job
    BY DEF Sound
  <1>2. QED
    BY <1>1 DEF Fixed, Moves

LEMMA StateOnly ==
    ASSUME NEW job \in ProjectJob, NEW state
    PROVE  /\ [job EXCEPT !.state = state].project = job.project
           /\ [job EXCEPT !.state = state].request = job.request
  BY DEF ProjectJob

\* One lease runs out.
LEMMA ExpireSound ==
    ASSUME term \in Int, NEW s, Sound(s), Fixed(s), NEW a \in s.allocations
    PROVE  /\ Sound(Project!Expire(s, a)) /\ Fixed(Project!Expire(s, a))
           /\ Project!Expire(s, a).allocations = s.allocations \ {a}
  <1>1. /\ a.job \in Project!Job /\ s.jobs[a.job] # Project!NoJob /\ a.node \in Int
        /\ s.jobs[a.job] \in ProjectJob
    <2>1. a.job \in Project!Job /\ s.jobs[a.job] # Project!NoJob /\ a.node \in Int
      BY DEF Sound, SoundHeld
    <2>2. QED
      BY <2>1, JobIs
  <1>2. PICK e : e = [event |-> "lease-expired", job |-> a.job, node |-> a.node, term |-> term]
    OBVIOUS
  <1>3. PICK state : state = IF s.jobs[a.job].attempts < s.jobs[a.job].max
                             THEN "queued" ELSE "failed"
    OBVIOUS
  <1>4. PICK t : t = Project!Released(
                        Project!Transition(s, a.job, state, "lease-expired", a.node), {a})
    OBVIOUS
  <1>5. Project!Expire(s, a) = t
    BY <1>3, <1>4 DEF Project!Expire
  <1>6. e \in Event /\ e.job = a.job /\ e.event = "lease-expired"
    BY <1>1, <1>2 DEF Event
  <1>7. Changes(s, t, e, [s.jobs[e.job] EXCEPT !.state = state], {a})
    BY <1>2, <1>4, TransitionIs
  <1>8. /\ Moves(s, t, e, [s.jobs[e.job] EXCEPT !.state = state])
        /\ t.allocations = s.allocations \ {a}
    BY <1>7 DEF Changes
  <1>9. t.allocations = {b \in s.allocations : b.job # e.job}
    BY <1>6, <1>8 DEF Sound
  <1>10. Sound(t)
    <2>1. state = IF s.jobs[e.job].attempts < s.jobs[e.job].max THEN "queued" ELSE "failed"
      BY <1>3, <1>6
    <2>2. QED
      BY <1>1, <1>6, <1>8, <1>9, <2>1, EndsSound
  <1>11. Fixed(t)
    <2>1. PICK job : job = [s.jobs[e.job] EXCEPT !.state = state]
      OBVIOUS
    <2>2. job.project = s.jobs[e.job].project /\ job.request = s.jobs[e.job].request
      BY <1>1, <1>6, <2>1, StateOnly
    <2>3. QED
      BY <1>1, <1>6, <1>8, <2>1, <2>2, FixedStays
  <1>12. QED
    BY <1>5, <1>8, <1>10, <1>11

\* Recovery, an allocation after the other.
IsRecovery(g, s, D) ==
    g = [S \in SUBSET D |->
            IF S = {} THEN s
            ELSE LET x == Project!LastReserved(S) IN Project!Expire(g[S \ {x}], x)]

LEMMA RecoveryExists ==
    ASSUME NEW s, NEW D, IsFiniteSet(D), \A a \in D : a.id \in Int
    PROVE  \E g : IsRecovery(g, s, D)
  <1> DEFINE k == [fold |-> "recovery", base |-> s]
  <1>1. \A S : FoldLast(k, S) = Project!LastReserved(S)
    BY DEF FoldLast
  <1>2. FoldBase(k) = s /\ \A t, x : FoldStep(k, t, x) = Project!Expire(t, x)
    BY DEF FoldBase, FoldStep
  <1>3. \A S \in SUBSET D : S # {} => Project!LastReserved(S) \in S
    BY FS_Subset, LastReservedIn
  <1> HIDE DEF k
  <1>4. PICK g : IsFold(g, k, D)
    BY <1>1, <1>3, FoldExists
  <1>5. g = [S \in SUBSET D |->
               IF S = {} THEN s
               ELSE LET x == Project!LastReserved(S) IN Project!Expire(g[S \ {x}], x)]
    BY <1>1, <1>2, <1>4 DEF IsFold
  <1>6. QED
    BY <1>5 DEF IsRecovery

LEMMA RecoveredSound ==
    ASSUME term \in Int, NEW s, Sound(s), Fixed(s), NEW time
    PROVE  Sound(Project!Recovered(s, time)) /\ Fixed(Project!Recovered(s, time))
  <1> DEFINE D == {a \in s.allocations : a.until <= time}
             g == CHOOSE g : IsRecovery(g, s, D)
             G == {S \in SUBSET D : /\ Sound(g[S]) /\ Fixed(g[S])
                                    /\ g[S].allocations = s.allocations \ S}
  <1>1. IsFiniteSet(D) /\ \A S \in SUBSET D : IsFiniteSet(S) /\ \A a \in S : a.id \in Int
    <2>1. D \in SUBSET s.allocations
      OBVIOUS
    <2>2. IsFiniteSet(D)
      <3> HIDE DEF D
      <3>1. QED
        BY <2>1, FS_Subset DEF Sound
    <2>3. QED
      BY <2>2, FS_Subset DEF Sound, SoundHeld
  <1>2. IsRecovery(g, s, D)
    <2> HIDE DEF D
    <2>1. QED
      BY <1>1, RecoveryExists
  <1>3. Project!Recovered(s, time) = g[D]
    BY DEF Project!Recovered, Project!MapThenFoldSet, IsRecovery
  <1>4. D \subseteq s.allocations
    OBVIOUS
  <1> HIDE DEF g, D
  <1>5. \A S \in SUBSET D : g[S] = IF S = {} THEN s
            ELSE Project!Expire(g[S \ {Project!LastReserved(S)}], Project!LastReserved(S))
    BY <1>2 DEF IsRecovery
  <1>6. ASSUME NEW S \in SUBSET D, \A x \in S : S \ {x} \in G
        PROVE  S \in G
    <2>1. CASE S = {}
      <3>1. g[S] = s
        BY <1>5, <2>1
      <3>2. QED
        BY <2>1, <3>1
    <2>2. CASE S # {}
      <3>1. PICK x \in S : x = Project!LastReserved(S)
        BY <1>1, <2>2, LastReservedIn
      <3>2. PICK r : r = g[S \ {x}]
        OBVIOUS
      <3>3. g[S] = Project!Expire(r, x)
        BY <1>5, <2>2, <3>1, <3>2
      <3>4. S \ {x} \in G
        BY <1>6
      <3>5. Sound(r) /\ Fixed(r) /\ r.allocations = s.allocations \ (S \ {x})
        BY <3>2, <3>4
      <3>6. x \in r.allocations
        BY <1>4, <3>5
      <3> HIDE DEF G
      <3>7. PICK t : t = Project!Expire(r, x)
        OBVIOUS
      <3>8. Sound(t) /\ Fixed(t) /\ t.allocations = r.allocations \ {x}
        BY <3>5, <3>6, <3>7, ExpireSound
      <3>9. t.allocations = s.allocations \ S
        BY <3>5, <3>8
      <3>10. QED
        BY <3>3, <3>7, <3>8, <3>9 DEF G
    <2>3. QED
      BY <2>1, <2>2
  <1> HIDE DEF G
  <1>7. \A S \in SUBSET D : (\A x \in S : S \ {x} \in G) => S \in G
    BY <1>6
  <1>8. \A S \in SUBSET D : S \in G
    BY <1>1, <1>7, BySize
  <1>9. D \in G
    BY <1>8
  <1>10. QED
    BY <1>3, <1>9 DEF G

-----------------------------------------------------------------------------
(* Placing jobs *)

NodesOK ==
    nodes \in [Machine -> {Project!Absent} \union [at : Int, report : Report]]

\* What a job that waits may ask for.
LEMMA RequestIs ==
    ASSUME NEW s, Sound(s), NEW j \in Project!Job, s.jobs[j] # Project!NoJob
    PROVE  LET q == s.jobs[j].request
           IN /\ q.cores \in Nat /\ q.memory \in Nat /\ q.gpus \in Nat
              /\ q.affinity \subseteq Int /\ IsFiniteSet(q.affinity)
  <1>1. /\ s.jobs[j] \in ProjectJob
        /\ s.jobs[j].request.cores \in Nat /\ s.jobs[j].request.memory \in Nat
    BY JobIs
  <1>2. PICK sub \in Submission : s.jobs[j].request = sub.request
    BY <1>1 DEF ProjectJob
  <1>3. /\ sub.request.gpus \in Nat
        /\ sub.request.affinity \subseteq Int /\ IsFiniteSet(sub.request.affinity)
    BY SubmissionAssumption
  <1>4. QED
    BY <1>1, <1>2, <1>3

\* What is used on a node can be counted.
LEMMA UsedCounts ==
    ASSUME NEW s, Sound(s), NEW n
    PROVE  Cardinality(Project!UsedCpus(s, n)) \in Nat /\ Project!UsedMemory(s, n) \in Nat
  <1> DEFINE D == Project!On(s, n)
             f == [a \in D |-> a.memory]
  <1>1. D \in SUBSET s.allocations
    BY DEF Project!On
  <1> HIDE DEF D
  <1>2. IsFiniteSet(D)
    BY <1>1, FS_Subset DEF Sound
  <1>3. \A a \in D : IsFiniteSet(a.cpus) /\ a.memory \in Nat
    BY <1>1 DEF Sound, SoundHeld
  <1>4. Project!UsedCpus(s, n) = UNION {a.cpus : a \in D} /\ Project!UsedMemory(s, n) = Project!SumFunction(f)
    BY DEF D, Project!UsedCpus, Project!UsedMemory
  <1>5. f \in [D -> Nat]
    BY <1>3
  <1> HIDE DEF f
  <1>6. Project!SumFunction(f) \in Nat
    BY <1>2, <1>5, SumIsNat
  <1>7. Cardinality(UNION {a.cpus : a \in D}) \in Nat
    <2>1. IsFiniteSet(UNION {a.cpus : a \in D})
      BY <1>2, <1>3, UnionIsFinite
    <2>2. QED
      BY <2>1, FS_CardinalityType
  <1>8. QED
    BY <1>4, <1>6, <1>7

\* A node that is registered reported itself.
LEMMA Reported ==
    ASSUME NodesOK, NEW n \in Machine, nodes[n] # Project!Absent
    PROVE  /\ nodes[n].at \in Int
           /\ nodes[n].report.cpus \subseteq Int /\ IsFiniteSet(nodes[n].report.cpus)
           /\ nodes[n].report.memory \in Int
           /\ DOMAIN nodes[n].report.gpus \subseteq Int /\ IsFiniteSet(DOMAIN nodes[n].report.gpus)
  <1>1. nodes[n] \in [at : Int, report : Report]
    BY DEF NodesOK
  <1>2. PICK r \in Report : r = nodes[n].report /\ nodes[n].at \in Int
    BY <1>1
  <1>3. /\ r.cpus \subseteq Int /\ IsFiniteSet(r.cpus) /\ r.memory \in Int
        /\ DOMAIN r.gpus \subseteq Int /\ IsFiniteSet(DOMAIN r.gpus)
    BY MachineAssumption
  <1>4. QED
    BY <1>2, <1>3

\* The node that is chosen is a candidate.
LEMMA ChosenIn ==
    ASSUME NodesOK, NEW s, Sound(s), NEW j, NEW time,
           NEW D, D = Project!Candidates(s, j, time), D # {}
    PROVE  (CHOOSE n \in D : \A m \in D \ {n} :
               Project!Less(Project!Score(s, n), Project!Score(s, m))) \in D
  <1> DEFINE f == [n \in D |-> Cardinality(nodes[n].report.cpus) - Cardinality(Project!UsedCpus(s, n))]
             g == [n \in D |-> nodes[n].report.memory - Project!UsedMemory(s, n)]
  <1>1. D \in SUBSET Machine /\ \A n \in D : nodes[n] # Project!Absent
    BY DEF Project!Candidates
  <1>2. IsFiniteSet(D) /\ D \subseteq Int
    <2>1. IsFiniteSet(Machine) /\ Machine \subseteq Int
      BY MachineAssumption
    <2>2. QED
      BY <1>1, <2>1, FS_Subset
  <1>3. ASSUME NEW n \in D
        PROVE  f[n] \in Int /\ g[n] \in Int /\ Project!Score(s, n) = <<f[n], g[n], n>>
    <2>1. /\ Cardinality(nodes[n].report.cpus) \in Nat /\ nodes[n].report.memory \in Int
          /\ Cardinality(Project!UsedCpus(s, n)) \in Nat /\ Project!UsedMemory(s, n) \in Nat
      BY <1>1, Reported, UsedCounts, FS_CardinalityType
    <2>2. Project!Score(s, n) = <<f[n], g[n], n>>
      BY ProjectCounts DEF Project!Score
    <2>3. QED
      BY <2>1, <2>2
  <1> HIDE DEF f, g
  <1>4. Scored(s, D, f, g)
    BY <1>3 DEF Scored
  <1>5. PICK n \in D : \A m \in D \ {n} : Project!Less(Project!Score(s, n), Project!Score(s, m))
    BY <1>2, <1>4, BestIn
  <1>6. QED
    BY <1>5

\* A reservation takes the first that are free.
LEMMA ReserveTakes ==
    ASSUME NodesOK, NEW s, NEW n \in Machine, nodes[n] # Project!Absent, NEW q,
           q.cores \in Nat, q.gpus \in Nat, q.affinity \subseteq Int, IsFiniteSet(q.affinity)
    PROVE  Takes(s, n, q, Project!First(Project!FreeCpus(s, q, n), q.cores),
                 {nodes[n].report.gpus[i].id : i \in Project!First(Project!FreeGpus(s, q, n), q.gpus)})
  <1> DEFINE r == nodes[n].report
             C == Project!FreeCpus(s, q, n)
             cpus == Project!First(C, q.cores)
             F == Project!FreeGpus(s, q, n)
             I == Project!First(F, q.gpus)
             gpus == {r.gpus[i].id : i \in I}
  <1>1. /\ r.cpus \subseteq Int /\ IsFiniteSet(r.cpus)
        /\ DOMAIN r.gpus \subseteq Int /\ IsFiniteSet(DOMAIN r.gpus)
    BY Reported
  <1>2. C \in SUBSET q.affinity \/ C \in SUBSET r.cpus
    BY DEF Project!FreeCpus, Project!EligibleCpus
  <1>3. F \in SUBSET DOMAIN r.gpus
    BY DEF Project!FreeGpus, Project!EligibleGpus
  <1>4. C \cap Project!UsedCpus(s, n) = {}
    BY DEF Project!FreeCpus
  <1>5. \A i \in F : r.gpus[i].id \notin Project!UsedGpus(s, n)
    BY DEF Project!FreeGpus
  <1> HIDE DEF C, F, r
  <1>6. C \in SUBSET Int /\ IsFiniteSet(C) /\ F \in SUBSET Int /\ IsFiniteSet(F)
    BY <1>1, <1>2, <1>3, FS_Subset
  <1>7. cpus \subseteq C /\ IsFiniteSet(cpus) /\ Cardinality(cpus) <= q.cores
    BY <1>6, FirstOfSize
  <1>8. I \subseteq F /\ IsFiniteSet(I) /\ Cardinality(I) <= q.gpus
    BY <1>6, FirstOfSize
  <1> HIDE DEF cpus, I
  <1>9. IsFiniteSet(gpus) /\ Cardinality(gpus) <= Cardinality(I)
    <2> DEFINE f == [i \in I |-> r.gpus[i].id]
    <2>1. f \in [I -> gpus] /\ \A y \in gpus : \E i \in I : f[i] = y
      OBVIOUS
    <2> HIDE DEF f, gpus
    <2>2. f \in Surjection(I, gpus)
      BY <2>1 DEF Surjection
    <2>3. QED
      BY <1>8, <2>2, FS_Surjection
  <1>10. Cardinality(gpus) <= q.gpus
    BY <1>8, <1>9, FS_CardinalityType
  <1>11. ASSUME NEW b \in s.allocations, b.node = n
         PROVE  cpus \intersect b.cpus = {} /\ gpus \intersect b.gpus = {}
    <2>1. b.cpus \subseteq Project!UsedCpus(s, n) /\ b.gpus \subseteq Project!UsedGpus(s, n)
      BY <1>11 DEF Project!UsedCpus, Project!UsedGpus, Project!On
    <2>2. QED
      BY <1>4, <1>5, <1>7, <1>8, <2>1
  <1> HIDE DEF gpus
  <1>12. Takes(s, n, q, cpus, gpus)
    BY <1>7, <1>9, <1>10, <1>11 DEF Takes
  <1>13. QED
    BY <1>12 DEF cpus, gpus, C, I, F, r

\* A queued job stays queued or is reserved on a candidate.
LEMMA PlacedSound ==
    ASSUME NodesOK, term \in Int, NEW s, Sound(s), Fixed(s), NEW j \in Project!Job,
           s.jobs[j].state = "queued", s.jobs[j] # Project!NoJob, NEW time, NEW seconds,
           NEW t, t = Project!Placed(s, j, time, seconds)
    PROVE  /\ Sound(t) /\ Fixed(t)
           /\ \A i \in Project!Job : i # j => t.jobs[i] = s.jobs[i]
  <1>1. PICK D : D = Project!Candidates(s, j, time)
    OBVIOUS
  <1>2. CASE ~ (Project!WithinQuota(s, j) /\ D # {})
    <2>1. t = s
      BY <1>1, <1>2 DEF Project!Placed
    <2>2. QED
      BY <2>1
  <1>3. CASE Project!WithinQuota(s, j) /\ D # {}
    <2>1. PICK n \in D :
             n = CHOOSE k \in D : \A m \in D \ {k} :
                    Project!Less(Project!Score(s, k), Project!Score(s, m))
      BY <1>1, <1>3, ChosenIn
    <2>2. t = Project!Reserve(s, j, n, time, seconds)
      BY <1>1, <1>3, <2>1 DEF Project!Placed
    <2>3. n \in Machine /\ nodes[n] # Project!Absent /\ n \in Int
      BY <1>1, MachineAssumption DEF Project!Candidates
    <2>4. PICK q : q = s.jobs[j].request
      OBVIOUS
    <2>5. /\ q.cores \in Nat /\ q.memory \in Nat /\ q.gpus \in Nat
          /\ q.affinity \subseteq Int /\ IsFiniteSet(q.affinity)
      BY <2>4, RequestIs
    <2>6. PICK cpus, gpus :
             /\ cpus = Project!First(Project!FreeCpus(s, q, n), q.cores)
             /\ gpus = {nodes[n].report.gpus[i].id :
                           i \in Project!First(Project!FreeGpus(s, q, n), q.gpus)}
      OBVIOUS
    <2>7. Takes(s, n, q, cpus, gpus)
      BY <2>3, <2>5, <2>6, ReserveTakes
    <2>8. PICK a : a = [id |-> Len(s.log) + 1, job |-> j, node |-> n, project |-> s.jobs[j].project,
                        cpus |-> cpus, memory |-> q.memory, gpus |-> gpus, until |-> time + seconds]
      OBVIOUS
    <2>9. PICK e : e = [event |-> "reserved", job |-> j, node |-> n, term |-> term]
      OBVIOUS
    <2>10. PICK job : job = [s.jobs[j] EXCEPT !.state = "scheduled", !.attempts = @ + 1]
      OBVIOUS
    <2>11. t = [jobs |-> [s.jobs EXCEPT ![j] = job], allocations |-> s.allocations \union {a},
                log |-> Append(s.log, e)]
      <3>2. Project!Logged(s, "reserved", j, n) = Append(s.log, e)
        BY <2>9 DEF Project!Logged
      <3>3. Project!Reserve(s, j, n, time, seconds) =
               [jobs |-> [s.jobs EXCEPT ![j] = job],
                allocations |-> s.allocations \union {a}, log |-> Append(s.log, e)]
        BY <2>4, <2>6, <2>8, <2>10, <3>2 DEF Project!Reserve
      <3>4. QED
        BY <2>2, <3>3
    <2>12. e \in Event /\ e.event = "reserved" /\ e.job = j /\ e.node = n
      BY <2>3, <2>9 DEF Event
    <2>13. Moves(s, t, e, job) /\ t.allocations = s.allocations \union {a}
      BY <2>11, <2>12 DEF Moves, Book
    <2>14. /\ a.job = e.job /\ a.node = e.node /\ a.id \in Int /\ a.node = n
           /\ a.memory = q.memory /\ a.project = s.jobs[j].project /\ a.cpus = cpus /\ a.gpus = gpus
      <3>1. Len(s.log) \in Nat
        BY DEF Sound
      <3>2. QED
        BY <2>8, <2>12, <3>1
    <2>15. Takes(s, a.node, q, a.cpus, a.gpus)
      BY <2>7, <2>14
    <2>16. jobs[j].project = a.project /\ jobs[j].request = q
      BY <2>4, <2>14 DEF Fixed
    <2>17. Allows(s, a.project, q)
      BY <1>3, <2>16, ProjectCounts DEF Project!WithinQuota, Allows
    <2>18. Sound(t)
      <3>1. Moves(s, t, e, [s.jobs[e.job] EXCEPT !.state = "scheduled", !.attempts = @ + 1])
        BY <2>10, <2>12, <2>13
      <3>2. q = s.jobs[e.job].request /\ s.jobs[e.job].project = a.project
        BY <2>4, <2>12, <2>14
      <3>3. s.jobs[e.job] # Project!NoJob /\ s.jobs[e.job].state = "queued"
        BY <2>12
      <3>4. QED
        BY <2>5, <2>12, <2>13, <2>14, <2>15, <2>17, <3>1, <3>2, <3>3, ReservedSound
    <2>19. Fixed(t)
      <3>1. job.project = s.jobs[j].project /\ job.request = s.jobs[j].request
        <4>1. s.jobs[j] \in ProjectJob
          BY JobIs
        <4>2. QED
          BY <2>10, <4>1 DEF ProjectJob
      <3>2. QED
        BY <2>12, <2>13, <3>1, FixedStays
    <2>20. \A i \in Project!Job : i # j => t.jobs[i] = s.jobs[i]
      BY <2>11 DEF Sound
    <2>21. QED
      BY <2>18, <2>19, <2>20
  <1>4. QED
    BY <1>2, <1>3

\* A pass, a job after the other.
IsPass(g, s, D, time, seconds) ==
    g = [S \in SUBSET D |->
            IF S = {} THEN s
            ELSE LET x == Project!LastQueued(s, S) IN Project!Placed(g[S \ {x}], x, time, seconds)]

LEMMA PassExists ==
    ASSUME NEW s, NEW D, IsFiniteSet(D), NEW time, NEW seconds,
           \A j \in D : s.jobs[j].priority \in Int /\ s.jobs[j].sequence \in Int
    PROVE  \E g : IsPass(g, s, D, time, seconds)
  <1> DEFINE k == [fold |-> "pass", base |-> s, now |-> time, lease |-> seconds]
  <1>1. \A S : FoldLast(k, S) = Project!LastQueued(s, S)
    BY DEF FoldLast
  <1>2. FoldBase(k) = s /\ \A t, x : FoldStep(k, t, x) = Project!Placed(t, x, time, seconds)
    BY DEF FoldBase, FoldStep
  <1>3. \A S \in SUBSET D : S # {} => Project!LastQueued(s, S) \in S
    BY FS_Subset, LastQueuedIn
  <1> HIDE DEF k
  <1>4. PICK g : IsFold(g, k, D)
    BY <1>1, <1>3, FoldExists
  <1>5. g = [S \in SUBSET D |->
               IF S = {} THEN s
               ELSE LET x == Project!LastQueued(s, S) IN Project!Placed(g[S \ {x}], x, time, seconds)]
    BY <1>1, <1>2, <1>4 DEF IsFold
  <1>6. QED
    BY <1>5 DEF IsPass

LEMMA PassSound ==
    ASSUME NodesOK, term \in Int, NEW s, Sound(s), Fixed(s), NEW time, NEW seconds
    PROVE  Sound(Project!Pass(s, time, seconds))
  <1> DEFINE D == Project!Queued(s)
             g == CHOOSE g : IsPass(g, s, D, time, seconds)
             G == {S \in SUBSET D : /\ Sound(g[S]) /\ Fixed(g[S])
                                    /\ \A i \in D \ S : g[S].jobs[i] = s.jobs[i]}
  <1>1. D = {j \in Project!Job : s.jobs[j].state = "queued"}
    BY DEF Project!Queued
  <1>2. \A j \in Project!Job : s.jobs[j].state = "queued" => s.jobs[j] # Project!NoJob
    BY DEF Project!NoJob
  <1>3. \A j \in D : s.jobs[j].priority \in Int /\ s.jobs[j].sequence \in Int
    BY <1>1, <1>2, JobIs DEF ProjectJob
  <1>4. IsFiniteSet(D)
    <2>1. IsFiniteSet(Project!Job)
      BY FS_Interval, QuotaAssumption DEF Project!Job
    <2>2. D \in SUBSET Project!Job
      BY <1>1
    <2> HIDE DEF D
    <2>3. QED
      BY <2>1, <2>2, FS_Subset
  <1>5. Project!Pass(s, time, seconds) = g[D]
    BY DEF Project!Pass, Project!MapThenFoldSet, IsPass
  <1> HIDE DEF D
  <1>6. IsPass(g, s, D, time, seconds)
    BY <1>3, <1>4, PassExists
  <1> HIDE DEF g
  <1>7. \A S \in SUBSET D : g[S] = IF S = {} THEN s
            ELSE Project!Placed(g[S \ {Project!LastQueued(s, S)}], Project!LastQueued(s, S), time, seconds)
    BY <1>6 DEF IsPass
  <1>8. ASSUME NEW S \in SUBSET D, \A x \in S : S \ {x} \in G
        PROVE  S \in G
    <2>1. CASE S = {}
      <3>1. g[S] = s
        BY <1>7, <2>1
      <3>2. QED
        BY <2>1, <3>1
    <2>2. CASE S # {}
      <3>1. PICK x \in S : x = Project!LastQueued(s, S)
        <4>1. IsFiniteSet(S) /\ \A j \in S : s.jobs[j].priority \in Int /\ s.jobs[j].sequence \in Int
          BY <1>3, <1>4, FS_Subset
        <4>2. QED
          BY <2>2, <4>1, LastQueuedIn
      <3>2. PICK r : r = g[S \ {x}]
        OBVIOUS
      <3>3. g[S] = Project!Placed(r, x, time, seconds)
        BY <1>7, <2>2, <3>1, <3>2
      <3>4. S \ {x} \in G
        BY <1>8
      <3>5. Sound(r) /\ Fixed(r) /\ \A i \in D \ (S \ {x}) : r.jobs[i] = s.jobs[i]
        BY <3>2, <3>4
      <3>6. x \in Project!Job /\ r.jobs[x].state = "queued" /\ r.jobs[x] # Project!NoJob
        <4>1. x \in D /\ r.jobs[x] = s.jobs[x]
          BY <3>5
        <4>2. QED
          BY <1>1, <1>2, <4>1
      <3> HIDE DEF G
      <3>7. PICK t : t = Project!Placed(r, x, time, seconds)
        OBVIOUS
      <3>8. Sound(t) /\ Fixed(t) /\ \A i \in Project!Job : i # x => t.jobs[i] = r.jobs[i]
        BY <3>5, <3>6, <3>7, PlacedSound
      <3>9. \A i \in D \ S : t.jobs[i] = s.jobs[i]
        <4>1. \A i \in D \ S : i \in Project!Job /\ i # x /\ i \in D \ (S \ {x})
          BY <1>1
        <4>2. QED
          BY <3>5, <3>8, <4>1
      <3>10. QED
        BY <3>3, <3>7, <3>8, <3>9 DEF G
    <2>3. QED
      BY <2>1, <2>2
  <1> HIDE DEF G
  <1>9. \A S \in SUBSET D : (\A x \in S : S \ {x} \in G) => S \in G
    BY <1>8
  <1>10. \A S \in SUBSET D : S \in G
    BY <1>4, <1>9, BySize
  <1>11. D \in G
    BY <1>10
  <1>12. QED
    BY <1>5, <1>11 DEF G

-----------------------------------------------------------------------------
(* The calls of the project scheduler *)

ProjectInv == NodesOK /\ term \in Int /\ Sound(Project!Books)

LEMMA BooksAre ==
    /\ Project!Books.jobs = jobs /\ Project!Books.allocations = allocations
    /\ Project!Books.log = log /\ Fixed(Project!Books)
  BY DEF Project!Books, Fixed

\* A call leaves the books that it computes.
LEMMA KeepSound ==
    ASSUME NEW t, Sound(t), Project!Keep(t)
    PROVE  Sound(Project!Books')
  <1>1. Project!Books' = t
    BY DEF Sound, Book, Project!Keep, Project!Books
  <1>2. QED
    BY <1>1

LEMMA TransitionAlone ==
    ASSUME NEW s, NEW j, NEW state, NEW event, NEW n,
           NEW e, e = [event |-> event, job |-> j, node |-> n, term |-> term],
           NEW t, t = Project!Transition(s, j, state, event, n)
    PROVE  Moves(s, t, e, [s.jobs[e.job] EXCEPT !.state = state]) /\ t.allocations = s.allocations
  <1>1. Project!Logged(s, event, j, n) = Append(s.log, e)
    BY DEF Project!Logged
  <1>2. t = [jobs |-> [s.jobs EXCEPT ![j] = [s.jobs[j] EXCEPT !.state = state]],
             allocations |-> s.allocations, log |-> Append(s.log, e)]
    BY <1>1 DEF Project!Transition
  <1>3. e.job = j
    OBVIOUS
  <1>4. QED
    BY <1>2, <1>3 DEF Moves, Book

LEMMA HeartbeatKeeps ==
    ASSUME ProjectInv, NEW n \in Machine, NEW r \in Report, NEW at \in Times,
           Project!Heartbeat(n, r, at)
    PROVE  NodesOK' /\ term' \in Int /\ Sound(Project!Books')
  <1>1. at \in Int
    BY QuotaAssumption
  <1>2. nodes' = [nodes EXCEPT ![n] = [at |-> at, report |-> r]]
    BY DEF Project!Heartbeat
  <1>3. NodesOK'
    BY <1>1, <1>2 DEF ProjectInv, NodesOK
  <1>4. Project!Books' = Project!Books /\ term' = term
    BY DEF Project!Heartbeat, Project!Books
  <1>5. QED
    BY <1>3, <1>4 DEF ProjectInv

LEMMA BecomeLeaderKeeps ==
    ASSUME ProjectInv, NEW c, NEW n \in 1..MaxTerm, Project!BecomeLeader(c, n)
    PROVE  NodesOK' /\ term' \in Int /\ Sound(Project!Books')
  <1>1. nodes' = nodes /\ term' = n
    BY DEF Project!BecomeLeader
  <1>2. Project!Books' = Project!Books
    BY DEF Project!BecomeLeader, Project!Books
  <1>3. QED
    BY <1>1, <1>2 DEF ProjectInv, NodesOK

\* The calls that change the books only.
LEMMA BooksOnly ==
    ASSUME ProjectInv, UNCHANGED <<nodes, leader, term>>, Sound(Project!Books')
    PROVE  NodesOK' /\ term' \in Int /\ Sound(Project!Books')
  BY DEF ProjectInv, NodesOK

LEMMA SubmitKeeps ==
    ASSUME ProjectInv, NEW j \in Project!Job, NEW sub \in Submission, Project!Submit(j, sub)
    PROVE  UNCHANGED <<nodes, leader, term>> /\ Sound(Project!Books')
  <1>1. PICK s, t : s = Project!Books /\ t = Project!Books'
    OBVIOUS
  <1>2. PICK e : e = [event |-> "submitted", job |-> j, node |-> 0, term |-> term]
    OBVIOUS
  <1>3. e \in Event /\ e.job = j /\ e.event = "submitted"
    BY <1>2 DEF ProjectInv, Event
  <1>4. PICK job : job = [state |-> "queued", attempts |-> 0, project |-> sub.project,
                          max |-> sub.max, request |-> sub.request, priority |-> sub.priority,
                          sequence |-> Project!Submissions + 1]
    OBVIOUS
  <1>5. Project!Submissions \in Nat
    <2>1. log \in Seq(Event)
      BY BooksAre DEF ProjectInv, Sound
    <2>2. DOMAIN log = 1..Len(log) /\ Len(log) \in Nat
      BY <2>1
    <2> DEFINE S == {i \in DOMAIN log : log[i].event = "submitted"}
    <2>3. S \in SUBSET (1..Len(log)) /\ IsFiniteSet(1..Len(log))
      <3>1. PICK n \in Nat : n = Len(log)
        BY <2>2
      <3>2. IsFiniteSet(1..n)
        BY FS_Interval
      <3>3. S \in SUBSET (DOMAIN log)
        OBVIOUS
      <3>4. QED
        BY <2>2, <3>1, <3>2, <3>3
    <2>4. Project!Submissions = Cardinality(S)
      BY ProjectCounts DEF Project!Submissions
    <2> HIDE DEF S
    <2>5. QED
      BY <2>3, <2>4, FS_Subset, FS_CardinalityType
  <1>6. /\ sub.request.cores \in Nat /\ sub.request.memory \in Nat
        /\ sub.max \in Nat \ {0} /\ sub.priority \in Int
    BY SubmissionAssumption DEF Project!Submit, Project!ValidRequest
  <1>7. job \in ProjectJob
    BY <1>4, <1>5, <1>6 DEF ProjectJob
  <1>8. /\ job.request.cores \in Nat /\ job.request.memory \in Nat
        /\ job.state = "queued" /\ job.attempts = 0
    BY <1>4, <1>6
  <1>9. /\ s.jobs[e.job] = Project!NoJob
        /\ Moves(s, t, e, job) /\ t.allocations = s.allocations
    <2>1. Project!Logged(Project!Books, "submitted", j, 0) = Append(log, e)
      BY <1>2, BooksAre DEF Project!Logged
    <2>2. /\ jobs[j] = Project!NoJob /\ jobs' = [jobs EXCEPT ![j] = job]
          /\ log' = Append(log, e) /\ allocations' = allocations
      BY <1>4, <2>1 DEF Project!Submit
    <2>3. QED
      BY <1>1, <1>3, <2>2 DEF Project!Books, Moves, Book
  <1>10. Sound(s)
    BY <1>1 DEF ProjectInv
  <1>11. Sound(t)
    BY <1>3, <1>7, <1>8, <1>9, <1>10, SubmittedSound
  <1>12. QED
    BY <1>1, <1>11 DEF Project!Submit

LEMMA ScheduleKeeps ==
    ASSUME ProjectInv, NEW c, NEW time, NEW seconds, Project!Schedule(c, time, seconds)
    PROVE  UNCHANGED <<nodes, leader, term>> /\ Sound(Project!Books')
  <1>1. PICK s : s = Project!Recovered(Project!Books, time)
    OBVIOUS
  <1>2. Sound(s) /\ Fixed(s)
    BY <1>1, BooksAre, RecoveredSound DEF ProjectInv
  <1>3. PICK t : t = Project!Pass(s, time, seconds)
    OBVIOUS
  <1>4. Sound(t)
    BY <1>2, <1>3, PassSound DEF ProjectInv
  <1>5. Project!Keep(t) /\ UNCHANGED <<nodes, leader, term>>
    BY <1>1, <1>3 DEF Project!Schedule
  <1>6. QED
    BY <1>4, <1>5, KeepSound

LEMMA RecoverExpiredKeeps ==
    ASSUME ProjectInv, NEW c, NEW time, Project!RecoverExpired(c, time)
    PROVE  UNCHANGED <<nodes, leader, term>> /\ Sound(Project!Books')
  <1>1. PICK s : s = Project!Recovered(Project!Books, time)
    OBVIOUS
  <1>2. Sound(s)
    BY <1>1, BooksAre, RecoveredSound DEF ProjectInv
  <1>3. Project!Keep(s) /\ UNCHANGED <<nodes, leader, term>>
    BY <1>1 DEF Project!RecoverExpired
  <1>4. QED
    BY <1>2, <1>3, KeepSound

\* The job that holds an allocation.
LEMMA HolderIs ==
    ASSUME ProjectInv, NEW a \in allocations
    PROVE  a.job \in Project!Job /\ jobs[a.job] # Project!NoJob /\ a.node \in Int
  BY BooksAre DEF ProjectInv, Sound, SoundHeld

LEMMA MarkRunningKeeps ==
    ASSUME ProjectInv, NEW c, NEW a \in allocations, Project!MarkRunning(c, a)
    PROVE  UNCHANGED <<nodes, leader, term>> /\ Sound(Project!Books')
  <1>1. PICK s : s = Project!Books /\ Sound(s) /\ a \in s.allocations
    BY BooksAre DEF ProjectInv
  <1>2. PICK e : e = [event |-> "running", job |-> a.job, node |-> a.node, term |-> term]
    OBVIOUS
  <1>3. e \in Event /\ e.event = "running" /\ a.job = e.job /\ a.node = e.node
    BY <1>2, HolderIs DEF ProjectInv, Event
  <1>4. PICK t : t = Project!Transition(s, a.job, "running", "running", a.node)
    OBVIOUS
  <1>5. Moves(s, t, e, [s.jobs[e.job] EXCEPT !.state = "running"]) /\ t.allocations = s.allocations
    BY <1>2, <1>4, TransitionAlone
  <1>6. Sound(t)
    BY <1>1, <1>3, <1>5, RunsSound
  <1>7. Project!Keep(t) /\ UNCHANGED <<nodes, leader, term>>
    BY <1>1, <1>4 DEF Project!MarkRunning
  <1>8. QED
    BY <1>6, <1>7, KeepSound

LEMMA CompleteKeeps ==
    ASSUME ProjectInv, NEW c, NEW a \in allocations, NEW state \in {"succeeded", "failed"},
           Project!Complete(c, a, state)
    PROVE  UNCHANGED <<nodes, leader, term>> /\ Sound(Project!Books')
  <1>1. PICK s : s = Project!Books /\ Sound(s) /\ a \in s.allocations /\ s.jobs = jobs
    BY BooksAre DEF ProjectInv
  <1>2. PICK e : e = [event |-> state, job |-> a.job, node |-> a.node, term |-> term]
    OBVIOUS
  <1>3. e \in Event /\ e.event = state /\ a.job = e.job
    BY <1>2, HolderIs DEF ProjectInv, Event
  <1>4. PICK t : t = Project!Released(Project!Transition(s, a.job, state, state, a.node), {a})
    OBVIOUS
  <1>5. Changes(s, t, e, [s.jobs[e.job] EXCEPT !.state = state], {a})
    BY <1>2, <1>4, TransitionIs
  <1>6. /\ Moves(s, t, e, [s.jobs[e.job] EXCEPT !.state = state])
        /\ t.allocations = {b \in s.allocations : b.job # e.job}
    BY <1>1, <1>3, <1>5 DEF Changes, Sound
  <1>7. s.jobs[e.job] # Project!NoJob
    BY <1>1, <1>3, HolderIs
  <1>8. Sound(t)
    BY <1>1, <1>3, <1>6, <1>7, EndsSound
  <1>9. Project!Keep(t) /\ UNCHANGED <<nodes, leader, term>>
    BY <1>1, <1>4 DEF Project!Complete
  <1>10. QED
    BY <1>8, <1>9, KeepSound

LEMMA CancelKeeps ==
    ASSUME ProjectInv, NEW c, NEW j \in Project!Job, Project!Cancel(c, j)
    PROVE  UNCHANGED <<nodes, leader, term>> /\ Sound(Project!Books')
  <1>1. PICK s : s = Project!Books /\ Sound(s) /\ s.jobs = jobs /\ s.allocations = allocations
    BY BooksAre DEF ProjectInv
  <1>2. PICK gone : gone = {a \in allocations : a.job = j}
    OBVIOUS
  <1>3. PICK n : n = IF gone = {} THEN 0 ELSE (CHOOSE a \in gone : TRUE).node
    OBVIOUS
  <1>4. n \in Int
    <2>1. \A a \in gone : a.node \in Int
      BY <1>2, HolderIs
    <2>2. QED
      BY <1>3, <2>1
  <1>5. PICK e : e = [event |-> "cancelled", job |-> j, node |-> n, term |-> term]
    OBVIOUS
  <1>6. e \in Event /\ e.event = "cancelled" /\ e.job = j
    BY <1>4, <1>5 DEF ProjectInv, Event
  <1>7. PICK t : t = Project!Released(Project!Transition(s, j, "cancelled", "cancelled", n), gone)
    OBVIOUS
  <1>8. Changes(s, t, e, [s.jobs[e.job] EXCEPT !.state = "cancelled"], gone)
    BY <1>5, <1>7, TransitionIs
  <1>9. /\ Moves(s, t, e, [s.jobs[e.job] EXCEPT !.state = "cancelled"])
        /\ t.allocations = {b \in s.allocations : b.job # e.job}
    BY <1>1, <1>2, <1>6, <1>8 DEF Changes
  <1>10. s.jobs[e.job] # Project!NoJob
    BY <1>1, <1>6 DEF Project!Cancel, Project!Live, Project!Active, Project!NoJob
  <1>11. Sound(t)
    BY <1>1, <1>6, <1>9, <1>10, EndsSound
  <1>12. Project!Keep(t) /\ UNCHANGED <<nodes, leader, term>>
    BY <1>1, <1>2, <1>3, <1>7 DEF Project!Cancel
  <1>13. QED
    BY <1>11, <1>12, KeepSound

LEMMA ProjectStarts == Project!Init => ProjectInv
  <1> SUFFICES ASSUME Project!Init PROVE ProjectInv
    OBVIOUS
  <1>1. /\ nodes = [n \in Machine |-> Project!Absent] /\ term = 0
        /\ jobs = [j \in Project!Job |-> Project!NoJob] /\ allocations = {} /\ log = <<>>
    BY DEF Project!Init
  <1>2. PICK s : s = Project!Books
    OBVIOUS
  <1>3. s.jobs = jobs /\ s.allocations = {} /\ s.log = <<>> /\ Book(s)
    BY <1>1, <1>2 DEF Project!Books, Book
  <1>4. \A j \in Project!Job : SoundJob(s, j)
    BY <1>1, <1>3 DEF SoundJob, Project!About
  <1>5. Project!QuotasKept(s)
    <2>1. \A p : Project!Of(s, p) = {}
      BY <1>3 DEF Project!Of
    <2>2. \A p : /\ Cardinality(Project!Of(s, p)) = 0 /\ Project!Cores(s, p) = 0
                 /\ Project!Memory(s, p) = 0 /\ Project!Gpus(s, p) = 0
      BY <2>1, SumNone, FS_EmptySet DEF Project!Cores, Project!Memory, Project!Gpus
    <2>3. QED
      BY <2>2, QuotasAreNumbers, ProjectCounts DEF QuotaNumbers, Project!QuotasKept
  <1>6. IsFiniteSet(s.allocations) /\ Project!Apart(s)
    BY <1>3, FS_EmptySet DEF Project!Apart
  <1>7. Sound(s)
    BY <1>1, <1>3, <1>4, <1>5, <1>6 DEF Sound
  <1>8. QED
    BY <1>1, <1>2, <1>7 DEF ProjectInv, NodesOK

LEMMA ProjectStep == ProjectInv /\ [Project!Next]_projectVars => ProjectInv'
  <1> SUFFICES ASSUME ProjectInv, [Project!Next]_projectVars
               PROVE  NodesOK' /\ term' \in Int /\ Sound(Project!Books')
    BY DEF ProjectInv
  <1>1. CASE UNCHANGED projectVars
    <2>1. Project!Books' = Project!Books /\ UNCHANGED <<nodes, term>>
      BY <1>1 DEF projectVars, Project!Books
    <2>2. QED
      BY <2>1 DEF ProjectInv, NodesOK
  <1>2. CASE \E c \in Client, n \in 1..MaxTerm : Project!BecomeLeader(c, n)
    BY <1>2, BecomeLeaderKeeps
  <1>3. CASE \E n \in Machine, r \in Report, at \in Times : Project!Heartbeat(n, r, at)
    BY <1>3, HeartbeatKeeps
  <1>4. CASE \E sub \in Submission :
                Project!NextJob \in Project!Job /\ Project!Submit(Project!NextJob, sub)
    BY <1>4, SubmitKeeps, BooksOnly
  <1>5. CASE \E c \in Client, time \in Times, seconds \in LeaseSeconds :
                Project!Schedule(c, time, seconds)
    BY <1>5, ScheduleKeeps, BooksOnly
  <1>6. CASE \E c \in Client, time \in Times : Project!RecoverExpired(c, time)
    BY <1>6, RecoverExpiredKeeps, BooksOnly
  <1>7. CASE \E c \in Client, a \in allocations :
                \/ Project!MarkRunning(c, a)
                \/ Project!Complete(c, a, "succeeded") \/ Project!Complete(c, a, "failed")
    BY <1>7, MarkRunningKeeps, CompleteKeeps, BooksOnly
  <1>8. CASE \E c \in Client, j \in Project!Job : Project!Cancel(c, j)
    BY <1>8, CancelKeeps, BooksOnly
  <1>9. QED
    BY <1>1, <1>2, <1>3, <1>4, <1>5, <1>6, <1>7, <1>8 DEF Project!Next

\* What the books tell of a job, from what they always tell.
LEMMA AccountedFor == ProjectInv => JobsAccounted
  <1> SUFFICES ASSUME ProjectInv PROVE JobsAccounted
    OBVIOUS
  <1>1. PICK s : s = Project!Books /\ Sound(s) /\ s.jobs = jobs /\ s.allocations = allocations
    BY BooksAre DEF ProjectInv
  <1>2. ASSUME NEW j \in Project!Job, jobs[j] # Project!NoJob
        PROVE  Project!JobTold(s, j)
    <2> DEFINE H == {a \in s.allocations : a.job = j}
    <2>1. SoundJob(s, j)
      BY <1>1 DEF Sound
    <2>2. Cardinality(H) = IF s.jobs[j].state \in Project!Active THEN 1 ELSE 0
      <3>1. CASE s.jobs[j].state \in Project!Active
        <4>1. PICK a \in s.allocations : a.job = j
          BY <1>1, <1>2, <2>1, <3>1 DEF SoundJob
        <4>2. H = {a}
          BY <1>1, <4>1 DEF Sound
        <4> HIDE DEF H
        <4>3. QED
          BY <3>1, <4>2, FS_Singleton
      <3>2. CASE s.jobs[j].state \notin Project!Active
        <4>1. H = {}
          BY <1>1, <3>2 DEF Sound, SoundHeld
        <4> HIDE DEF H
        <4>2. QED
          BY <3>2, <4>1, FS_EmptySet
      <3>3. QED
        BY <3>1, <3>2
    <2>3. QED
      BY <1>1, <1>2, <2>1, <2>2, ProjectCounts DEF SoundJob, Project!JobTold
  <1>3. \A a \in allocations : a.node = Project!LastAbout(s, a.job).node
    BY <1>1 DEF Sound, SoundHeld
  <1>4. Project!Apart(s) /\ Project!QuotasKept(s)
    BY <1>1 DEF Sound
  <1>5. QED
    BY <1>1, <1>2, <1>3, <1>4 DEF JobsAccounted, Project!QuotaKept, Project!LogTellsAll

\* For any nodes, reports, submissions, quotas and times, and for any callers of whom one
\* leads after the other, what the scheduler has booked stays within the quotas and is
\* apart, and its log alone tells every job's state, attempts and allocation.
THEOREM JobsAlwaysAccounted == Project!Spec => []JobsAccounted
  <1>1. ProjectInv /\ [Project!Next]_(Project!vars) => ProjectInv'
    BY ProjectStep DEF Project!vars, projectVars
  <1>2. Project!Spec => []ProjectInv
    BY ProjectStarts, <1>1, PTL DEF Project!Spec
  <1>3. QED
    BY <1>2, AccountedFor, PTL

-----------------------------------------------------------------------------

(* The workflow engine. *)

\* The tasks that wait for one of T directly.
Children(deps, T) == {t \in FlowTask : deps[t] \cap T # {}}

\* D is the least set that contains the children of S and of its own.
IsBelow(deps, S, D) ==
    /\ D \subseteq FlowTask
    /\ Children(deps, S) \subseteq D /\ Children(deps, D) \subseteq D
    /\ \A X : Children(deps, S) \subseteq X /\ Children(deps, X) \subseteq X => D \subseteq X

FlowTypes ==
    /\ flow \in Workflow /\ Engine!Acyclic(flow.deps)
    /\ phase \in {"running", "plan exhausted", "finished"}
    /\ engineClock \in Nat
    /\ taskState \in [FlowTask -> {"pending", "running", "succeeded", "failed", "skipped"}]
    /\ IsFiniteSet(running)
    /\ \A r \in running \union records :
          r.task \in FlowTask /\ r.started \in Nat /\ r.finished \in Nat

\* While a run goes on, what is pending and free of its dependencies is ready, what has
\* begun is free of them, and what is running has one attempt under way.
Fed ==
    /\ ready = {t \in FlowTask : taskState[t] = "pending" /\ flow.deps[t] \subseteq Engine!Succeeded}
    /\ \A t \in FlowTask : taskState[t] # "pending" => flow.deps[t] \subseteq Engine!Succeeded
    /\ \A t \in FlowTask : taskState[t] = "running" <=> \E r \in running : r.task = t
    /\ \A t \in FlowTask : taskState[t] # "skipped"

\* What has ended lies in the past, what runs ends later, and the records tell why.
Timed ==
    /\ \A r \in running : engineClock <= r.finished
    /\ \A r \in records : r.finished <= engineClock
    /\ \A q, r \in running : q.task = r.task => q = r
    /\ \A t \in Engine!Succeeded : \E s \in records : s.task = t /\ s.disposition = "success"

\* Attempts begin after what they depend on.
InOrder ==
    \A r \in records \union running : \A d \in flow.deps[r.task] :
        \E s \in records : s.task = d /\ s.disposition = "success" /\ s.finished <= r.started

\* A run that is over has decided every task.
Decided ==
    \A t \in FlowTask :
        /\ taskState[t] \in {"succeeded", "failed", "skipped"}
        /\ taskState[t] = "skipped" <=> \E f \in FlowTask : /\ taskState[f] = "failed"
                                                            /\ t \in Engine!Descendants(flow.deps, {f})

EngineInv ==
    /\ FlowTypes /\ Timed /\ InOrder
    /\ phase # "finished" => Fed
    /\ phase = "finished" => Decided

LEMMA EngineCounts == \A S : Engine!Cardinality(S) = Cardinality(S)
  BY DEF Engine!Cardinality, Cardinality

\* The sets that Descendants collects, up to the n-th.
Collects(f, deps, S, n) ==
    f = [i \in 0..n |-> IF i = 0 THEN Children(deps, S)
                        ELSE f[i - 1] \union Children(deps, f[i - 1])]

LEMMA CollectsExists ==
    ASSUME NEW deps, NEW S, NEW n \in Nat
    PROVE  \E f : Collects(f, deps, S, n)
  <1> DEFINE T == {k \in Nat : ~ \E f : Collects(f, deps, S, k)}
             more(X) == X \union Children(deps, X)
  <1>1. SUFFICES ASSUME T # {} PROVE FALSE
    BY <1>1
  <1>2. PICK i \in T : \A j \in T : i <= j
    <2>1. T \in SUBSET Nat
      OBVIOUS
    <2> HIDE DEF T
    <2>2. QED
      BY <1>1, <2>1, LeastNat
  <1>3. CASE i = 0
    <2>1. Collects([k \in 0..0 |-> Children(deps, S)], deps, S, 0)
      BY DEF Collects
    <2>2. QED
      BY <1>2, <1>3, <2>1
  <1>4. CASE i # 0
    <2>1. i - 1 \in Nat /\ i - 1 \notin T /\ i \in Nat
      BY <1>2, <1>4
    <2>2. PICK f : Collects(f, deps, S, i - 1)
      BY <2>1
    <2> DEFINE h == [k \in 0..i |-> IF k = i THEN more(f[i - 1]) ELSE f[k]]
    <2> HIDE DEF more
    <2>3. ASSUME NEW k \in 0..i
          PROVE  h[k] = IF k = 0 THEN Children(deps, S) ELSE more(h[k - 1])
      <3>1. CASE k = i
        <4>1. h[i - 1] = f[i - 1] /\ h[i] = more(f[i - 1])
          BY <2>1, <1>4
        <4>2. QED
          BY <1>4, <3>1, <4>1
      <3>2. CASE k # i
        <4>1. k \in 0..(i - 1) /\ h[k] = f[k]
          BY <2>1, <3>2
        <4>2. f[k] = IF k = 0 THEN Children(deps, S) ELSE more(f[k - 1])
          BY <2>2, <4>1 DEF Collects, more
        <4>3. k # 0 => k - 1 \in 0..i /\ k - 1 # i
          BY <2>1, <4>1
        <4>4. k # 0 => h[k - 1] = f[k - 1]
          BY <4>3
        <4>5. QED
          BY <4>1, <4>2, <4>4
      <3>3. QED
        BY <3>1, <3>2
    <2>4. h = [k \in 0..i |-> h[k]]
      OBVIOUS
    <2> HIDE DEF h
    <2>5. Collects(h, deps, S, i)
      BY <2>3, <2>4 DEF Collects, more
    <2>6. QED
      BY <1>2, <2>5
  <1>5. QED
    BY <1>3, <1>4

\* Collecting as often as there are tasks reaches all that can be reached.
LEMMA DescendantsAre ==
    ASSUME NEW deps, NEW S
    PROVE  IsBelow(deps, S, Engine!Descendants(deps, S))
  <1> DEFINE n == Cardinality(FlowTask)
             f == CHOOSE g : Collects(g, deps, S, n)
  <1>1. IsFiniteSet(FlowTask) /\ n \in Nat
    BY WorkflowAssumption, FS_CardinalityType
  <1>2. Collects(f, deps, S, n)
    BY <1>1, CollectsExists
  <1>3. Engine!Descendants(deps, S) = f[n]
    BY EngineCounts DEF Engine!Descendants, Collects, Children
  <1> HIDE DEF f, n
  <1>4. /\ f[0] = Children(deps, S)
        /\ \A i \in 1..n : i - 1 \in 0..n /\ f[i] = f[i - 1] \union Children(deps, f[i - 1])
    <2>1. \A i \in 0..n : f[i] = IF i = 0 THEN Children(deps, S)
                               ELSE f[i - 1] \union Children(deps, f[i - 1])
      BY <1>2 DEF Collects
    <2>2. 0 \in 0..n /\ \A i \in 1..n : i \in 0..n /\ i - 1 \in 0..n /\ i # 0
      BY <1>1
    <2>3. QED
      BY <2>1, <2>2
  <1> DEFINE Fine(i) == /\ f[i] \subseteq FlowTask /\ Children(deps, S) \subseteq f[i]
                        /\ \A X : Children(deps, S) \subseteq X /\ Children(deps, X) \subseteq X
                              => f[i] \subseteq X
                        /\ Children(deps, f[i]) \subseteq f[i] \/ i <= Cardinality(f[i])
             T == {i \in 0..n : ~Fine(i)}
  <1>5. \A s \in SUBSET FlowTask : IsFiniteSet(s) /\ Cardinality(s) \in Nat /\ Cardinality(s) <= n
    BY <1>1, FS_Subset, FS_CardinalityType DEF n
  <1>6. T = {}
    <2>1. SUFFICES ASSUME T # {} PROVE FALSE
      BY <2>1
    <2>2. PICK i \in T : \A j \in T : i <= j
      <3>1. T \in SUBSET Nat
        OBVIOUS
      <3> HIDE DEF T
      <3>2. QED
        BY <2>1, <3>1, LeastNat
    <2>3. CASE i = 0
      <3>1. f[0] \subseteq FlowTask
        BY <1>4 DEF Children
      <3>2. 0 <= Cardinality(f[0])
        BY <1>5, <3>1
      <3>3. QED
        BY <1>4, <2>2, <2>3, <3>1, <3>2
    <2>4. CASE i # 0
      <3>1. i \in 1..n /\ i - 1 \in 0..n /\ i - 1 \notin T /\ i \in Nat
        BY <1>1, <2>2, <2>4
      <3>2. Fine(i - 1) /\ f[i] = f[i - 1] \union Children(deps, f[i - 1])
        BY <1>4, <3>1
      <3> DEFINE a == f[i - 1]
                 b == f[i]
      <3>3. /\ a \subseteq FlowTask /\ Children(deps, S) \subseteq a
            /\ \A X : Children(deps, S) \subseteq X /\ Children(deps, X) \subseteq X => a \subseteq X
            /\ Children(deps, a) \subseteq a \/ i - 1 <= Cardinality(a)
            /\ b = a \union Children(deps, a)
        BY <3>2
      <3> HIDE DEF a, b
      <3>4. b \subseteq FlowTask /\ Children(deps, S) \subseteq b
        BY <3>3 DEF Children
      <3>5. ASSUME NEW X, Children(deps, S) \subseteq X, Children(deps, X) \subseteq X
            PROVE  b \subseteq X
        BY <3>3, <3>5 DEF Children
      <3>6. Children(deps, b) \subseteq b \/ i <= Cardinality(b)
        <4>1. CASE Children(deps, a) \subseteq a
          <5>1. b = a
            BY <3>3, <4>1
          <5>2. QED
            BY <4>1, <5>1
        <4>2. CASE ~(Children(deps, a) \subseteq a)
          <5>1. PICK x \in Children(deps, a) : x \notin a
            BY <4>2
          <5>2. IsFiniteSet(a) /\ Cardinality(a \union {x}) = Cardinality(a) + 1
            BY <1>5, <3>3, <5>1, FS_AddElement, Zenon
          <5>3. a \union {x} \subseteq b /\ IsFiniteSet(b)
            BY <1>5, <3>3, <3>4, <5>1
          <5>4. Cardinality(a \union {x}) <= Cardinality(b)
            BY <5>3, FS_Subset
          <5>5. Cardinality(a) \in Nat /\ Cardinality(b) \in Nat
            BY <1>5, <3>3, <3>4
          <5>6. QED
            BY <3>1, <3>3, <4>2, <5>2, <5>4, <5>5
        <4>3. QED
          BY <4>1, <4>2
      <3>7. Fine(i)
        BY <3>4, <3>5, <3>6 DEF b
      <3>8. QED
        BY <2>2, <3>7
    <2>5. QED
      BY <2>3, <2>4
  <1>7. Fine(n)
    BY <1>1, <1>6
  <1> DEFINE D == f[n]
  <1>8. /\ D \subseteq FlowTask /\ Children(deps, S) \subseteq D
        /\ \A X : Children(deps, S) \subseteq X /\ Children(deps, X) \subseteq X => D \subseteq X
        /\ Children(deps, D) \subseteq D \/ n <= Cardinality(D)
    BY <1>7
  <1> HIDE DEF D
  <1>9. Children(deps, D) \subseteq D
    <2>1. CASE n <= Cardinality(D)
      <3>1. Cardinality(D) = n
        BY <1>1, <1>5, <1>8, <2>1
      <3>2. D = FlowTask
        BY <1>1, <1>8, <3>1, FS_Subset DEF n
      <3>3. QED
        BY <3>2 DEF Children
    <2>2. QED
      BY <1>8, <2>1
  <1>10. QED
    BY <1>3, <1>8, <1>9 DEF IsBelow, D

\* Descendants of a set are those of its members.
LEMMA BelowMembers ==
    ASSUME NEW deps, NEW S, NEW t
    PROVE  t \in Engine!Descendants(deps, S) <=> \E s \in S : t \in Engine!Descendants(deps, {s})
  <1> DEFINE D == Engine!Descendants(deps, S)
             E(s) == Engine!Descendants(deps, {s})
             U == UNION {E(s) : s \in S}
  <1>1. IsBelow(deps, S, D)
    BY DescendantsAre
  <1>2. \A s \in S : IsBelow(deps, {s}, E(s))
    BY DescendantsAre
  <1> HIDE DEF D, E
  <1>3. ASSUME NEW s \in S PROVE E(s) \subseteq D
    <2>1. Children(deps, {s}) \subseteq Children(deps, S)
      BY DEF Children
    <2>2. Children(deps, {s}) \subseteq D /\ Children(deps, D) \subseteq D
      BY <1>1, <2>1 DEF IsBelow
    <2>3. QED
      BY <1>2, <2>2 DEF IsBelow
  <1>4. D \subseteq U
    <2>1. Children(deps, S) \subseteq U
      <3>1. ASSUME NEW x \in Children(deps, S) PROVE x \in U
        <4>1. PICK s \in S : x \in Children(deps, {s})
          BY DEF Children
        <4>2. x \in E(s)
          BY <1>2, <4>1 DEF IsBelow
        <4>3. QED
          BY <4>2
      <3>2. QED
        BY <3>1
    <2>2. Children(deps, U) \subseteq U
      <3>1. ASSUME NEW x \in Children(deps, U) PROVE x \in U
        <4>1. PICK s \in S : x \in Children(deps, E(s))
          BY DEF Children
        <4>2. x \in E(s)
          BY <1>2, <4>1 DEF IsBelow
        <4>3. QED
          BY <4>2
      <3>2. QED
        BY <3>1
    <2> HIDE DEF U
    <2>3. QED
      BY <1>1, <2>1, <2>2 DEF IsBelow
  <1>5. t \in D <=> \E s \in S : t \in E(s)
    BY <1>3, <1>4
  <1>6. QED
    BY <1>5 DEF D, E

\* In a graph without cycles some member of a set of tasks depends on no other: the one with
\* the most below it.
LEMMA SomeFirst ==
    ASSUME NEW deps, Engine!Acyclic(deps), NEW Q \in SUBSET FlowTask, Q # {}
    PROVE  \E t \in Q : deps[t] \cap Q = {}
  <1> DEFINE E(s) == Engine!Descendants(deps, {s})
             T == {Cardinality(FlowTask \ E(s)) : s \in Q}
  <1>1. \A s : IsBelow(deps, {s}, E(s))
    BY DescendantsAre
  <1>2. \A s \in FlowTask : s \notin E(s)
    BY DEF Engine!Acyclic
  <1> HIDE DEF E
  <1>3. \A s : IsFiniteSet(FlowTask \ E(s)) /\ Cardinality(FlowTask \ E(s)) \in Nat
    BY WorkflowAssumption, FS_Subset, FS_CardinalityType
  <1>4. PICK m \in T : \A k \in T : m <= k
    <2>1. T \in SUBSET Nat /\ T # {}
      BY <1>3
    <2> HIDE DEF T
    <2>2. QED
      BY <2>1, LeastNat
  <1>5. PICK t \in Q : m = Cardinality(FlowTask \ E(t))
    BY <1>4
  <1>6. SUFFICES ASSUME NEW d \in Q, d \in deps[t] PROVE FALSE
    BY <1>5
  <1>7. t \in E(d) /\ E(t) \subseteq E(d)
    <2>1. t \in Children(deps, {d})
      BY <1>6 DEF Children
    <2>2. t \in E(d) /\ Children(deps, E(d)) \subseteq E(d)
      BY <1>1, <2>1 DEF IsBelow
    <2>3. Children(deps, {t}) \subseteq E(d)
      BY <2>2 DEF Children
    <2>4. QED
      BY <1>1, <2>2, <2>3 DEF IsBelow
  <1> DEFINE a == FlowTask \ E(d)
             b == FlowTask \ E(t)
  <1>8. a \subseteq b /\ a # b
    BY <1>2, <1>7
  <1>9. IsFiniteSet(b) /\ Cardinality(a) \in Nat /\ Cardinality(b) \in Nat
    BY <1>3
  <1>10. Cardinality(b) <= Cardinality(a)
    BY <1>4, <1>5
  <1> HIDE DEF a, b
  <1>11. Cardinality(a) <= Cardinality(b) /\ (Cardinality(a) = Cardinality(b) => a = b)
    BY <1>8, <1>9, FS_Subset
  <1>12. QED
    BY <1>8, <1>9, <1>10, <1>11

\* The least of finitely many numbers is one of them.
LEMMA EngineMin ==
    ASSUME NEW S \in SUBSET Nat, S # {}
    PROVE  Engine!Min(S) \in S /\ \A x \in S : Engine!Min(S) <= x
  <1>1. PICK m \in S : \A x \in S : m <= x
    BY LeastNat
  <1>2. QED
    BY <1>1 DEF Engine!Min

LEMMA EngineFirst ==
    ASSUME NEW S \in SUBSET FlowTask, S # {}
    PROVE  Engine!Min(S) \in S
  <1> DEFINE f == [x \in S |-> 0 - x]
  <1>1. IsFiniteSet(S) /\ S \subseteq Int
    BY WorkflowAssumption, FS_Subset
  <1>2. \A x \in S : f[x] = 0 - x /\ f[x] \in Int
    BY <1>1
  <1> HIDE DEF f
  <1>3. PICK x \in S : \A y \in S : f[y] <= f[x]
    BY <1>1, <1>2, LastOfInts
  <1>4. \A y \in S : x <= y
    <2>1. ASSUME NEW y \in S PROVE x <= y
      <3>1. f[y] <= f[x] /\ f[x] = 0 - x /\ f[y] = 0 - y /\ x \in Int /\ y \in Int
        BY <1>1, <1>2, <1>3
      <3>2. QED
        BY <3>1
    <2>2. QED
      BY <2>1
  <1>5. QED
    BY <1>4 DEF Engine!Min

LEMMA EngineStarts == Engine!Init => EngineInv
  <1> SUFFICES ASSUME Engine!Init PROVE EngineInv
    OBVIOUS
  <1> USE DEF Engine!Init
  <1>1. IsFiniteSet(running)
    BY FS_EmptySet
  <1>2. FlowTypes
    BY <1>1 DEF FlowTypes
  <1>3. Engine!Succeeded = {}
    BY DEF Engine!Succeeded
  <1>4. Fed
    BY <1>3 DEF Fed
  <1>5. Timed /\ InOrder
    BY <1>3 DEF Timed, InOrder
  <1>6. QED
    BY <1>2, <1>4, <1>5 DEF EngineInv

\* The graph of a run.
LEMMA GraphIs ==
    ASSUME FlowTypes
    PROVE  flow.deps \in [FlowTask -> SUBSET FlowTask]
  BY WorkflowAssumption DEF FlowTypes

\* A ready task begins its next attempt.
LEMMA StartKeeps == ASSUME EngineInv, Engine!Start PROVE EngineInv'
  <1> DEFINE t == Engine!Min(ready)
  <1>1. FlowTypes /\ Timed /\ InOrder /\ Fed /\ phase = "running" /\ ready # {}
    BY DEF EngineInv, Engine!Start
  <1>2. t \in ready
    <2>1. ready \in SUBSET FlowTask /\ ready # {}
      BY <1>1 DEF Fed
    <2>2. QED
      BY <2>1, EngineFirst
  <1>3. t \in FlowTask /\ taskState[t] = "pending" /\ flow.deps[t] \subseteq Engine!Succeeded
    BY <1>1, <1>2 DEF Fed
  <1>4. CASE /\ phase' = "plan exhausted"
             /\ UNCHANGED <<ready, running, attempts, taskState, flow, slots, engineClock, records>>
    <2>1. FlowTypes' /\ Fed'
      BY <1>1, <1>4 DEF FlowTypes, Fed, Engine!Succeeded
    <2>2. Timed' /\ InOrder'
      BY <1>1, <1>4 DEF Timed, InOrder, Engine!Succeeded
    <2>3. QED
      BY <1>4, <2>1, <2>2 DEF EngineInv
  <1>5. CASE ~(phase' = "plan exhausted")
    <2>1. PICK r : /\ r.task = t /\ r.started = engineClock /\ r.finished \in Nat
                   /\ engineClock <= r.finished
                   /\ running' = running \union {r}
      <3>1. PICK d \in Engine!Disposition, length \in Duration :
               running' = running \union
                  {[task |-> t, attempt |-> attempts[t] + 1, disposition |-> d,
                    started |-> engineClock, finished |-> engineClock + length]}
        BY <1>5 DEF Engine!Start
      <3>2. engineClock + length \in Nat /\ engineClock <= engineClock + length
        BY <1>1, WorkflowAssumption DEF FlowTypes
      <3>3. QED
        BY <3>1, <3>2
    <2>2. /\ ready' = ready \ {t} /\ taskState' = [taskState EXCEPT ![t] = "running"]
          /\ UNCHANGED <<phase, flow, slots, engineClock, records>>
      BY <1>5 DEF Engine!Start
    <2> HIDE DEF t
    <2>3. FlowTypes'
      <3>1. IsFiniteSet(running')
        BY <1>1, <2>1, FS_AddElement DEF FlowTypes
      <3>2. \A q \in running' \union records' :
               q.task \in FlowTask /\ q.started \in Nat /\ q.finished \in Nat
        BY <1>1, <1>3, <2>1, <2>2 DEF FlowTypes
      <3>3. QED
        BY <1>1, <1>3, <2>2, <3>1, <3>2 DEF FlowTypes
    <2>4. \A u \in FlowTask : taskState'[u] = IF u = t THEN "running" ELSE taskState[u]
      BY <1>1, <2>2 DEF FlowTypes
    <2>5. Engine!Succeeded' = Engine!Succeeded
      BY <1>3, <2>4 DEF Engine!Succeeded
    <2>6. Fed'
      <3>1. ready' = {u \in FlowTask : taskState'[u] = "pending" /\ flow'.deps[u] \subseteq Engine!Succeeded'}
        BY <1>1, <2>2, <2>4, <2>5 DEF Fed
      <3>2. \A u \in FlowTask : taskState'[u] # "pending" => flow'.deps[u] \subseteq Engine!Succeeded'
        BY <1>1, <1>3, <2>2, <2>4, <2>5 DEF Fed
      <3>3. \A u \in FlowTask : taskState'[u] = "running" <=> \E q \in running' : q.task = u
        BY <1>1, <2>1, <2>4 DEF Fed
      <3>4. \A u \in FlowTask : taskState'[u] # "skipped"
        BY <1>1, <2>4 DEF Fed
      <3>5. QED
        BY <3>1, <3>2, <3>3, <3>4 DEF Fed
    <2>7. Timed'
      <3>1. \A q \in running : q.task # t
        BY <1>1, <1>3 DEF Fed, FlowTypes
      <3>2. \A p, q \in running' : p.task = q.task => p = q
        BY <1>1, <2>1, <3>1 DEF Timed
      <3>3. \A q \in running' : engineClock' <= q.finished
        BY <1>1, <2>1, <2>2 DEF Timed
      <3>4. QED
        BY <1>1, <2>2, <2>5, <3>2, <3>3 DEF Timed
    <2>8. InOrder'
      <3>1. ASSUME NEW d \in flow.deps[t]
            PROVE  \E s \in records : s.task = d /\ s.disposition = "success" /\ s.finished <= r.started
        <4>1. d \in Engine!Succeeded
          BY <1>3
        <4>2. PICK s \in records : s.task = d /\ s.disposition = "success"
          BY <1>1, <4>1 DEF Timed
        <4>3. s.finished <= engineClock
          BY <1>1, <4>2 DEF Timed
        <4>4. QED
          BY <2>1, <4>2, <4>3
      <3>2. \A q \in records' \union running' : q = r \/ q \in records \union running
        BY <2>1, <2>2
      <3>3. QED
        BY <1>1, <2>1, <2>2, <3>1, <3>2 DEF InOrder
    <2>9. QED
      BY <1>1, <2>2, <2>3, <2>6, <2>7, <2>8 DEF EngineInv
  <1>6. QED
    BY <1>4, <1>5 DEF Engine!Start

\* The clock moves to the next completion, and what that unblocks becomes ready.
LEMMA CompletionKeeps == ASSUME EngineInv, Engine!Complete PROVE EngineInv'
  <1> DEFINE next == Engine!NextCompletion
             due == {r \in running : r.finished <= next}
             ended == [t \in {r.task : r \in due} |->
                          Engine!Verdict(CHOOSE r \in due : r.task = t)]
             done == Engine!Succeeded \union {t \in DOMAIN ended : ended[t] = "succeeded"}
             waits == {t \in DOMAIN ended : ended[t] = "pending"}
  <1>1. FlowTypes /\ Timed /\ InOrder /\ Fed /\ phase = "running" /\ running # {}
    BY DEF EngineInv, Engine!Complete
  <1>2. /\ engineClock' = next /\ running' = running \ due /\ records' = records \union due
        /\ taskState' = [t \in FlowTask |-> IF t \in DOMAIN ended THEN ended[t] ELSE taskState[t]]
        /\ ready' = ready \union waits \union Engine!Unblocked(done, Engine!Succeeded)
        /\ UNCHANGED <<flow, slots, attempts, phase>>
    BY DEF Engine!Complete
  <1>3. next \in Nat /\ engineClock <= next /\ \A r \in running : next <= r.finished
    <2> DEFINE S == {r.finished : r \in running}
    <2>1. S \in SUBSET Nat /\ S # {}
      BY <1>1 DEF FlowTypes
    <2>2. next = Engine!Min(S)
      BY DEF Engine!NextCompletion
    <2> HIDE DEF S, next
    <2>3. next \in S /\ \A x \in S : next <= x
      BY <2>1, <2>2, EngineMin
    <2>4. QED
      BY <1>1, <2>1, <2>3 DEF S, Timed
  <1> HIDE DEF next
  <1>4. \A r \in due : /\ r \in running /\ r.task \in FlowTask /\ r.task \in DOMAIN ended
                       /\ ended[r.task] = Engine!Verdict(r)
    <2>1. ASSUME NEW r \in due PROVE ended[r.task] = Engine!Verdict(r)
      <3>1. (CHOOSE q \in due : q.task = r.task) = r
        BY <1>1 DEF Timed
      <3>2. QED
        BY <3>1
    <2>2. QED
      BY <1>1, <2>1 DEF FlowTypes
  <1>5. \A t \in DOMAIN ended : \E r \in due : r.task = t /\ ended[t] = Engine!Verdict(r)
    BY <1>4
  <1>6. DOMAIN ended \subseteq FlowTask
    <2> HIDE DEF ended, due
    <2>1. QED
      BY <1>4, <1>5
  <1> DEFINE over == DOMAIN ended
  <1>7. \A t \in over : taskState[t] = "running" /\ flow.deps[t] \subseteq Engine!Succeeded
    BY <1>1, <1>5, <1>6 DEF Fed
  <1>8. \A t \in over : ended[t] \in {"succeeded", "pending", "failed"}
    BY <1>5 DEF Engine!Verdict
  <1>9. \A t \in over : ended[t] = "succeeded" => \E r \in due : r.task = t /\ r.disposition = "success"
    <2>1. \A r : Engine!Verdict(r) = "succeeded" => r.disposition = "success"
      BY DEF Engine!Verdict
    <2>2. QED
      BY <1>5, <2>1
  <1>10. \A r \in running : r.task \in over => r \in due
    BY <1>1, <1>5 DEF Timed
  <1>11. done = Engine!Succeeded \union {t \in over : ended[t] = "succeeded"}
         /\ waits = {t \in over : ended[t] = "pending"}
    OBVIOUS
  <1>12. \A t \in FlowTask : taskState'[t] = IF t \in over THEN ended[t] ELSE taskState[t]
    BY <1>2
  <1>0. over = {r.task : r \in due}
    OBVIOUS
  <1>13. taskState' \in [FlowTask -> {"pending", "running", "succeeded", "failed", "skipped"}]
    BY <1>1, <1>2, <1>8 DEF FlowTypes
  <1> HIDE DEF ended, done, waits, over
  <1>14. Engine!Succeeded' = done
    <2>1. \A t \in FlowTask : taskState'[t] = "succeeded" <=> t \in done
      BY <1>7, <1>11, <1>12 DEF Engine!Succeeded
    <2>2. done \subseteq FlowTask
      BY <1>6, <1>11 DEF Engine!Succeeded, over
    <2>3. QED
      BY <2>1, <2>2 DEF Engine!Succeeded
  <1>15. FlowTypes'
    <2>1. IsFiniteSet(running')
      BY <1>1, <1>2, FS_Subset DEF FlowTypes
    <2>2. \A r \in running' \union records' : r \in running \union records
      BY <1>2
    <2>3. QED
      BY <1>1, <1>2, <1>3, <1>13, <2>1, <2>2 DEF FlowTypes
  <1>16. Fed'
    <2>1. \A t \in FlowTask : taskState'[t] # "pending" => flow.deps[t] \subseteq done
      BY <1>1, <1>7, <1>11, <1>12 DEF Fed
    <2>2. \A t \in FlowTask : t \in ready' <=> taskState'[t] = "pending" /\ flow.deps[t] \subseteq done
      <3>1. ASSUME NEW t \in FlowTask
            PROVE  t \in ready' <=> taskState'[t] = "pending" /\ flow.deps[t] \subseteq done
        <4>1. t \in ready' <=> \/ taskState[t] = "pending" /\ flow.deps[t] \subseteq Engine!Succeeded
                               \/ t \in over /\ ended[t] = "pending"
                               \/ flow.deps[t] \subseteq done /\ ~(flow.deps[t] \subseteq Engine!Succeeded)
          BY <1>1, <1>2, <1>11 DEF Fed, Engine!Unblocked
        <4>2. CASE t \in over
          BY <1>7, <1>11, <1>12, <4>1, <4>2
        <4>3. CASE t \notin over
          BY <1>1, <1>11, <1>12, <4>1, <4>3 DEF Fed
        <4>4. QED
          BY <4>2, <4>3
      <3>2. QED
        BY <3>1
    <2>3. ready' \subseteq FlowTask
      BY <1>1, <1>2, <1>6, <1>11 DEF Fed, Engine!Unblocked, over
    <2>4. \A t \in FlowTask : taskState'[t] = "running" <=> \E r \in running' : r.task = t
      <3>1. ASSUME NEW t \in FlowTask
            PROVE  taskState'[t] = "running" <=> \E r \in running' : r.task = t
        <4>1. CASE t \in over
          BY <1>2, <1>8, <1>10, <1>12, <4>1
        <4>2. CASE t \notin over
          <5>1. \A r \in due : r.task # t
            BY <1>0, <4>2
          <5>2. (\E r \in running' : r.task = t) <=> \E r \in running : r.task = t
            BY <1>2, <5>1
          <5>3. QED
            BY <1>1, <1>12, <4>2, <5>2 DEF Fed
        <4>3. QED
          BY <4>1, <4>2
      <3>2. QED
        BY <3>1
    <2>5. \A t \in FlowTask : taskState'[t] # "skipped"
      BY <1>1, <1>8, <1>12 DEF Fed
    <2>6. ready' = {t \in FlowTask : taskState'[t] = "pending" /\ flow'.deps[t] \subseteq Engine!Succeeded'}
      BY <1>2, <1>14, <2>2, <2>3
    <2>7. QED
      BY <1>2, <1>14, <2>1, <2>4, <2>5, <2>6 DEF Fed
  <1>17. Timed'
    <2>1. \A r \in running' : engineClock' <= r.finished
      BY <1>2, <1>3
    <2>2. \A r \in records' : r.finished <= engineClock'
      <3>1. ASSUME NEW r \in records PROVE r.finished <= next
        <4>1. r.finished \in Nat /\ r.finished <= engineClock /\ engineClock \in Nat
          BY <1>1 DEF Timed, FlowTypes
        <4>2. QED
          BY <1>3, <4>1
      <3>2. QED
        BY <1>2, <3>1
    <2>3. \A t \in done : \E s \in records' : s.task = t /\ s.disposition = "success"
      <3>1. ASSUME NEW t \in done PROVE \E s \in records' : s.task = t /\ s.disposition = "success"
        <4>1. CASE t \in Engine!Succeeded
          BY <1>1, <1>2, <4>1 DEF Timed
        <4>2. CASE t \in over /\ ended[t] = "succeeded"
          BY <1>2, <1>9, <4>2
        <4>3. QED
          BY <1>11, <4>1, <4>2
      <3>2. QED
        BY <3>1
    <2>4. QED
      BY <1>1, <1>2, <1>14, <2>1, <2>2, <2>3 DEF Timed
  <1>18. InOrder'
    <2>1. \A r \in records' \union running' : r \in records \union running
      BY <1>2
    <2>2. records \subseteq records' /\ flow' = flow
      BY <1>2
    <2>3. QED
      BY <1>1, <2>1, <2>2 DEF InOrder
  <1>19. phase' # "finished"
    BY <1>1, <1>2
  <1>20. QED
    BY <1>15, <1>16, <1>17, <1>18, <1>19 DEF EngineInv

\* When nothing is ready and nothing runs, what is still pending is below a failure, and
\* nothing else is.
LEMMA FinishKeeps == ASSUME EngineInv, Engine!Finish PROVE EngineInv'
  <1> DEFINE deps == flow.deps
             F == {u \in FlowTask : taskState[u] = "failed"}
             P == {u \in FlowTask : taskState[u] = "pending"}
             B == Engine!CutOff(F)
  <1>1. FlowTypes /\ Timed /\ InOrder /\ Fed /\ running = {} /\ ready = {}
    BY DEF EngineInv, Engine!Finish
  <1>2. /\ taskState' = [t \in FlowTask |-> IF taskState[t] = "pending" /\ t \in B THEN "skipped"
                                            ELSE taskState[t]]
        /\ phase' = "finished"
        /\ UNCHANGED <<flow, slots, engineClock, ready, running, attempts, records>>
    BY DEF Engine!Finish
  <1>3. B = Engine!Descendants(deps, F)
    BY DEF Engine!CutOff
  <1>4. IsBelow(deps, F, B)
    BY <1>3, DescendantsAre
  <1>5. deps \in [FlowTask -> SUBSET FlowTask] /\ Engine!Acyclic(deps)
    BY <1>1, GraphIs DEF FlowTypes
  <1>6. \A u \in FlowTask : taskState[u] \in {"pending", "succeeded", "failed"}
    BY <1>1 DEF FlowTypes, Fed
  <1>7. \A u \in FlowTask : u \in Engine!Succeeded <=> taskState[u] = "succeeded"
    BY DEF Engine!Succeeded
  <1>8. \A u \in FlowTask \ P : deps[u] \subseteq Engine!Succeeded
    BY <1>1 DEF Fed
  <1>9. \A u \in P : ~(deps[u] \subseteq Engine!Succeeded)
    BY <1>1 DEF Fed
  <1>10. \A u \in FlowTask : u \in F <=> taskState[u] = "failed"
    OBVIOUS
  <1>11. \A u \in FlowTask : u \in P <=> taskState[u] = "pending"
    OBVIOUS
  <1>12. F \subseteq FlowTask /\ P \subseteq FlowTask
    OBVIOUS
  <1> HIDE DEF B, F, P, deps
  <1>13. B \subseteq P
    <2>1. Children(deps, F) \subseteq P
      BY <1>7, <1>8, <1>10, <1>12 DEF Children
    <2>2. Children(deps, P) \subseteq P
      BY <1>7, <1>8, <1>11, <1>12 DEF Children
    <2>3. QED
      BY <1>4, <2>1, <2>2 DEF IsBelow
  <1>14. P \subseteq B
    <2> DEFINE Q == P \ B
    <2>1. SUFFICES ASSUME Q # {} PROVE FALSE
      OBVIOUS
    <2>2. PICK t \in Q : deps[t] \cap Q = {}
      <3>1. Q \in SUBSET FlowTask
        BY <1>12
      <3> HIDE DEF Q
      <3>2. QED
        BY <1>5, <2>1, <3>1, SomeFirst
    <2>3. t \in P /\ t \notin B /\ t \in FlowTask
      BY <1>12, <2>2
    <2>4. PICK d \in deps[t] : d \notin Engine!Succeeded
      BY <1>9, <2>3
    <2>5. d \in FlowTask /\ (d \in P \/ d \in F)
      BY <1>5, <1>6, <1>7, <1>10, <1>11, <2>3, <2>4
    <2>6. CASE d \in F
      <3>1. t \in Children(deps, F)
        BY <2>3, <2>4, <2>6 DEF Children
      <3>2. QED
        BY <1>4, <2>3, <3>1 DEF IsBelow
    <2>7. CASE d \in P
      <3>1. d \in B
        BY <2>2, <2>4, <2>7
      <3>2. t \in Children(deps, B)
        BY <2>3, <2>4, <3>1 DEF Children
      <3>3. QED
        BY <1>4, <2>3, <3>2 DEF IsBelow
    <2>8. QED
      BY <2>5, <2>6, <2>7
  <1>15. \A u \in FlowTask : taskState'[u] = IF u \in P THEN "skipped" ELSE taskState[u]
    BY <1>2, <1>11, <1>13, <1>14
  <1>16. taskState' \in [FlowTask -> {"pending", "running", "succeeded", "failed", "skipped"}]
    BY <1>1, <1>2 DEF FlowTypes
  <1>17. Decided'
    <2>1. ASSUME NEW t \in FlowTask
          PROVE  /\ taskState'[t] \in {"succeeded", "failed", "skipped"}
                 /\ taskState'[t] = "skipped" <=> \E f \in FlowTask :
                       taskState'[f] = "failed" /\ t \in Engine!Descendants(flow.deps, {f})
      <3>1. taskState'[t] \in {"succeeded", "failed", "skipped"} /\ (taskState'[t] = "skipped" <=> t \in P)
        BY <1>6, <1>11, <1>15
      <3>2. t \in P <=> \E f \in F : t \in Engine!Descendants(deps, {f})
        BY <1>3, <1>13, <1>14, BelowMembers
      <3>3. \A f \in FlowTask : taskState'[f] = "failed" <=> f \in F
        BY <1>10, <1>11, <1>15
      <3>4. QED
        BY <1>12, <3>1, <3>2, <3>3 DEF deps
    <2>2. QED
      BY <1>2, <2>1 DEF Decided
  <1>18. FlowTypes'
    BY <1>1, <1>2, <1>16 DEF FlowTypes
  <1>19. Engine!Succeeded' = Engine!Succeeded
    BY <1>11, <1>15 DEF Engine!Succeeded
  <1>20. Timed' /\ InOrder'
    BY <1>1, <1>2, <1>19 DEF Timed, InOrder
  <1>21. QED
    BY <1>2, <1>17, <1>18, <1>20 DEF EngineInv

LEMMA EngineStep == EngineInv /\ [Engine!Next]_engineVars => EngineInv'
  <1> SUFFICES ASSUME EngineInv, [Engine!Next]_engineVars PROVE EngineInv'
    OBVIOUS
  <1>1. CASE Engine!Start
    BY <1>1, StartKeeps
  <1>2. CASE Engine!Complete
    BY <1>2, CompletionKeeps
  <1>3. CASE Engine!Finish
    BY <1>3, FinishKeeps
  <1>4. CASE UNCHANGED engineVars
    <2>1. UNCHANGED <<flow, slots, engineClock, ready, running, taskState, attempts, records, phase>>
      BY <1>4 DEF engineVars
    <2>2. Engine!Succeeded' = Engine!Succeeded
      BY <2>1 DEF Engine!Succeeded
    <2>3. /\ FlowTypes => FlowTypes'
          /\ Timed => Timed'
          /\ InOrder => InOrder'
      <3>1. FlowTypes => FlowTypes'
        BY <2>1 DEF FlowTypes
      <3>2. Timed => Timed'
        BY <2>1, <2>2 DEF Timed
      <3>3. InOrder => InOrder'
        BY <2>1 DEF InOrder
      <3>4. QED
        BY <3>1, <3>2, <3>3
    <2>4. (Fed => Fed') /\ (Decided => Decided')
      BY <2>1, <2>2 DEF Fed, Decided
    <2>5. QED
      BY <2>1, <2>3, <2>4 DEF EngineInv
  <1>5. QED
    BY <1>1, <1>2, <1>3, <1>4 DEF Engine!Next

\* The workflow engine of lab 30: a finished run has decided every task, exactly the
\* descendants of a failure are skipped, and no attempt began before all that its task
\* depends on had succeeded; for every graph, plan of outcomes and number of slots.
THEOREM VerdictsAlwaysRight == Engine!Spec => []VerdictsRight
  <1>1. EngineInv => VerdictsRight
    BY DEF EngineInv, Decided, InOrder, VerdictsRight, Engine!VerdictsRight
  <1>2. EngineInv /\ [Engine!Next]_(Engine!vars) => EngineInv'
    BY EngineStep DEF Engine!vars, engineVars
  <1>3. Engine!Spec => []EngineInv
    BY EngineStarts, <1>2, PTL DEF Engine!Spec
  <1>4. QED
    BY <1>1, <1>3, PTL

-----------------------------------------------------------------------------

(* The bound of greedy list scheduling. *)

Span(r) == r.finished - r.started

\* What has been worked: attempts that have ended, and those under way up to now.
Worked(at) == Engine!TimeOf(records) + Engine!SumFunction([r \in running |-> at - r.started])

\* Of n slots, no more than n - 1 were idle at a time, and for no more than x.
Idle(n, clock, work, x) == n * clock <= work + (n - 1) * x
IdleFor(x) == Idle(slots, engineClock, Worked(engineClock), x)

\* Attempts are told apart by their numbers, and none begins in the future.
Numbered ==
    /\ slots \in Nat \ {0} /\ attempts \in [FlowTask -> Nat]
    /\ IsFiniteSet(records) /\ running \cap records = {}
    /\ \A r \in records \union running :
          /\ r.attempt \in Nat /\ r.attempt <= attempts[r.task]
          /\ r.started <= r.finished /\ r.started <= engineClock

\* Slots were idle only while the chain that ends in whatever is available was worked on.
Greedy ==
    /\ \A t \in ready : IdleFor(Engine!Chain[t])
    /\ \A r \in running : IdleFor(Engine!Chain[r.task] + (engineClock - r.started))
    /\ ready = {} /\ running = {} =>
          IdleFor(0) \/ \E t \in FlowTask : IdleFor(Engine!Chain[t])

GreedyInv ==
    /\ EngineInv /\ Numbered /\ Greedy
    /\ phase = "finished" => ready = {} /\ running = {}

LEMMA SumOfPart ==
    ASSUME NEW D, IsFiniteSet(D), NEW f, NEW g, IsSum(g, f, D), NEW k, DOMAIN k \subseteq D,
           \A x \in DOMAIN k : k[x] = f[x]
    PROVE  Project!SumFunction(k) = g[DOMAIN k] /\ Engine!SumFunction(k) = g[DOMAIN k]
  <1> DEFINE S == DOMAIN k
             h == CHOOSE h : IsSum(h, k, S)
  <1>1. IsFiniteSet(S)
    BY FS_Subset
  <1>2. IsSum(h, k, S)
    BY <1>1, SumExists
  <1>3. Project!SumFunction(k) = h[S]
    BY DEF Project!SumFunction, Project!SumFunctionOnSet, Project!FoldFunctionOnSet,
       Project!MapThenFoldSet, IsSum
  <1>4. Engine!SumFunction(k) = h[S]
    BY DEF Engine!SumFunction, Engine!SumFunctionOnSet, Engine!FoldFunctionOnSet,
       Engine!MapThenFoldSet, IsSum
  <1> HIDE DEF h
  <1>5. h[S] = g[S]
    BY <1>1, <1>2, SumSame
  <1>6. QED
    BY <1>3, <1>4, <1>5

LEMMA SumUnion ==
    ASSUME NEW D, IsFiniteSet(D), NEW f \in [D -> Nat], NEW g, IsSum(g, f, D),
           NEW S \in SUBSET D, NEW T \in SUBSET D, S \cap T = {}
    PROVE  g[S \union T] = g[S] + g[T]
  <1> DEFINE G == {s \in SUBSET D : s \cap T = {} => g[s \union T] = g[s] + g[T]}
  <1>0. g[{}] = 0 /\ \A s \in SUBSET D : g[s] \in Nat
    BY SumAny, SumUnfolds
  <1>1. ASSUME NEW s \in SUBSET D, \A x \in s : s \ {x} \in G
        PROVE  s \in G
    <2>1. SUFFICES ASSUME s \cap T = {} PROVE g[s \union T] = g[s] + g[T]
      OBVIOUS
    <2>2. CASE s = {}
      <3>1. s \union T = T
        BY <2>2
      <3>2. QED
        BY <1>0, <2>2, <3>1
    <2>3. CASE s # {}
      <3>1. PICK x \in s : TRUE
        BY <2>3
      <3>2. (s \union T) \ {x} = (s \ {x}) \union T /\ (s \ {x}) \cap T = {}
        BY <2>1
      <3>3. g[(s \ {x}) \union T] = g[s \ {x}] + g[T]
        BY <1>1, <3>2
      <3>4. g[s \union T] = f[x] + g[(s \union T) \ {x}]
        <4>1. s \union T \in SUBSET D /\ x \in s \union T
          OBVIOUS
        <4>2. QED
          BY <4>1, SumAny
      <3>5. g[s] = f[x] + g[s \ {x}]
        BY SumAny
      <3>6. f[x] \in Nat /\ g[s \ {x}] \in Nat /\ g[T] \in Nat
        BY <1>0
      <3> DEFINE a == g[s \ {x}]
                 b == g[T]
                 c == f[x]
      <3>7. /\ a \in Nat /\ b \in Nat /\ c \in Nat
            /\ g[s \union T] = c + (a + b) /\ g[s] = c + a
        BY <3>2, <3>3, <3>4, <3>5, <3>6
      <3> HIDE DEF a, c, b
      <3>8. g[s \union T] = g[s] + b
        BY <3>7
      <3>9. QED
        BY <3>8 DEF b
    <2>4. QED
      BY <2>2, <2>3
  <1> HIDE DEF G
  <1>2. S \in G
    BY <1>1, BySize
  <1>3. QED
    BY <1>2 DEF G

\* Multiplication by a sum.
LEMMA Multiples ==
    /\ \A a, b, c \in Nat : a * (b + c) = a * b + a * c /\ (b + c) * a = b * a + c * a
    /\ \A a, b \in Nat : a * b \in Nat /\ a * 0 = 0 /\ 0 * a = 0 /\ 1 * a = a
  BY SMT

LEMMA MultiplesGrow ==
    ASSUME NEW a \in Nat, NEW b \in Nat, NEW c \in Nat, b <= c
    PROVE  a * b <= a * c /\ b * a <= c * a
  <1>1. PICK d \in Nat : c = b + d
    <2>1. c - b \in Nat /\ c = b + (c - b)
      OBVIOUS
    <2>2. QED
      BY <2>1
  <1>2. a * c = a * b + a * d /\ c * a = b * a + d * a
    BY <1>1, Multiples
  <1>3. a * b \in Nat /\ a * d \in Nat /\ b * a \in Nat /\ d * a \in Nat
    BY Multiples
  <1>4. QED
    BY <1>2, <1>3

LEMMA SumRaised ==
    ASSUME NEW D, IsFiniteSet(D), NEW f \in [D -> Nat], NEW g, IsSum(g, f, D),
           NEW m \in [D -> Nat], NEW h, IsSum(h, m, D), NEW delta \in Nat,
           \A x \in D : m[x] = f[x] + delta
    PROVE  h[D] = g[D] + Cardinality(D) * delta
  <1> DEFINE G == {s \in SUBSET D : h[s] = g[s] + Cardinality(s) * delta}
  <1>0. /\ g[{}] = 0 /\ \A s \in SUBSET D : g[s] \in Nat
        /\ h[{}] = 0 /\ \A s \in SUBSET D : h[s] \in Nat
    BY SumAny, SumUnfolds
  <1>1. ASSUME NEW s \in SUBSET D, \A x \in s : s \ {x} \in G
        PROVE  s \in G
    <2>1. CASE s = {}
      <3>1. Cardinality({}) = 0 /\ 0 * delta = 0
        BY FS_EmptySet, Multiples
      <3>2. QED
        BY <1>0, <2>1, <3>1
    <2>2. CASE s # {}
      <3>1. PICK x \in s : TRUE
        BY <2>2
      <3>2. h[s \ {x}] = g[s \ {x}] + Cardinality(s \ {x}) * delta
        BY <1>1
      <3>3. g[s] = f[x] + g[s \ {x}] /\ h[s] = m[x] + h[s \ {x}]
        BY SumAny
      <3>4. IsFiniteSet(s) /\ Cardinality(s \ {x}) = Cardinality(s) - 1
        <4>1. IsFiniteSet(s)
          BY FS_Subset
        <4>2. QED
          BY <3>1, <4>1, FS_RemoveElement, Zenon
      <3> DEFINE n == Cardinality(s \ {x})
                 a == g[s \ {x}]
                 c == f[x]
      <3>5. n \in Nat /\ Cardinality(s) = n + 1
        BY <3>4, FS_CardinalityType, FS_Subset
      <3>6. (n + 1) * delta = n * delta + delta /\ n * delta \in Nat
        BY <3>5, Multiples
      <3>7. /\ a \in Nat /\ c \in Nat /\ g[s] = c + a
            /\ h[s] = (c + delta) + (a + n * delta)
            /\ Cardinality(s) * delta = n * delta + delta
        BY <1>0, <3>2, <3>3, <3>5, <3>6
      <3> HIDE DEF a, c, n
      <3>8. h[s] = g[s] + Cardinality(s) * delta
        <4> DEFINE p == n * delta
        <4>1. p \in Nat /\ h[s] = (c + delta) + (a + p) /\ Cardinality(s) * delta = p + delta
          BY <3>6, <3>7
        <4> HIDE DEF p
        <4>2. QED
          BY <3>7, <4>1
      <3>9. QED
        BY <3>8
    <2>3. QED
      BY <2>1, <2>2
  <1> HIDE DEF G
  <1>2. D \in G
    BY <1>1, BySize
  <1>3. QED
    BY <1>2 DEF G

\* The sum over a function, over two parts of one, over one that is raised everywhere, and
\* over one argument.
LEMMA TotalOf ==
    ASSUME NEW D, IsFiniteSet(D), NEW f \in [D -> Nat]
    PROVE  Engine!SumFunction(f) \in Nat
  <1>1. PICK g : IsSum(g, f, D)
    BY SumExists
  <1>2. Engine!SumFunction(f) = g[D]
    BY <1>1, SumOfPart
  <1>3. g[D] \in Nat
    BY <1>1, SumAny
  <1>4. QED
    BY <1>2, <1>3

LEMMA TotalParts ==
    ASSUME NEW D, IsFiniteSet(D), NEW f \in [D -> Nat],
           NEW S \in SUBSET D, NEW T \in SUBSET D, S \cap T = {}, S \union T = D,
           NEW a \in [S -> Nat], NEW b \in [T -> Nat],
           \A x \in S : a[x] = f[x], \A x \in T : b[x] = f[x]
    PROVE  Engine!SumFunction(f) = Engine!SumFunction(a) + Engine!SumFunction(b)
  <1>1. PICK g : IsSum(g, f, D)
    BY SumExists
  <1>2. Engine!SumFunction(f) = g[D]
    BY <1>1, SumOfPart
  <1>3. Engine!SumFunction(a) = g[S]
    BY <1>1, SumOfPart
  <1>4. Engine!SumFunction(b) = g[T]
    BY <1>1, SumOfPart
  <1>5. g[S \union T] = g[S] + g[T]
    BY <1>1, SumUnion
  <1>6. QED
    BY <1>2, <1>3, <1>4, <1>5

LEMMA TotalRaised ==
    ASSUME NEW D, IsFiniteSet(D), NEW f \in [D -> Nat], NEW m \in [D -> Nat], NEW delta \in Nat,
           \A x \in D : m[x] = f[x] + delta
    PROVE  Engine!SumFunction(m) = Engine!SumFunction(f) + Cardinality(D) * delta
  <1>1. PICK g : IsSum(g, f, D)
    BY SumExists
  <1>2. PICK h : IsSum(h, m, D)
    BY SumExists
  <1>3. h[D] = g[D] + Cardinality(D) * delta
    BY <1>1, <1>2, SumRaised
  <1>4. Engine!SumFunction(f) = g[D]
    BY <1>1, SumOfPart
  <1>5. Engine!SumFunction(m) = h[D]
    BY <1>2, SumOfPart
  <1>6. QED
    BY <1>3, <1>4, <1>5

LEMMA TotalOfOne ==
    ASSUME NEW D, IsFiniteSet(D), NEW f \in [D -> Nat], NEW x \in D, D \ {x} = {}
    PROVE  Engine!SumFunction(f) = f[x]
  <1>1. PICK g : IsSum(g, f, D)
    BY SumExists
  <1>2. Engine!SumFunction(f) = g[D]
    BY <1>1, SumOfPart
  <1>3. g[{}] = 0
    BY <1>1, SumUnfolds
  <1>4. PICK y \in D : g[D] = f[y] + g[D \ {y}]
    BY <1>1, SumUnfolds
  <1>5. y = x /\ g[D] = f[x] + g[{}] /\ f[x] \in Nat
    BY <1>4
  <1>6. QED
    BY <1>2, <1>3, <1>5

LEMMA TotalOfNone == \A f : DOMAIN f = {} => Engine!SumFunction(f) = 0
  <1>1. SUFFICES ASSUME NEW f, DOMAIN f = {} PROVE Engine!SumFunction(f) = 0
    OBVIOUS
  <1>2. PICK g : IsSum(g, f, {})
    BY FS_EmptySet, SumExists
  <1>3. Engine!SumFunction(f) = g[{}]
    BY <1>1, <1>2, FS_EmptySet, SumOfPart
  <1>4. QED
    BY <1>2, <1>3, SumUnfolds

\* The time of two sets of attempts, and of one attempt.
LEMMA TimeOfParts ==
    ASSUME NEW S, NEW T, IsFiniteSet(S), IsFiniteSet(T), S \cap T = {},
           \A r \in S \union T : Span(r) \in Nat
    PROVE  /\ Engine!TimeOf(S \union T) = Engine!TimeOf(S) + Engine!TimeOf(T)
           /\ Engine!TimeOf(S) \in Nat /\ Engine!TimeOf(T) \in Nat
  <1> DEFINE D == S \union T
             f == [r \in D |-> Span(r)]
             a == [r \in S |-> Span(r)]
             b == [r \in T |-> Span(r)]
  <1>1. IsFiniteSet(D)
    BY FS_Union
  <1>2. f \in [D -> Nat] /\ a \in [S -> Nat] /\ b \in [T -> Nat]
    OBVIOUS
  <1>3. /\ Engine!TimeOf(D) = Engine!SumFunction(f)
        /\ Engine!TimeOf(S) = Engine!SumFunction(a)
        /\ Engine!TimeOf(T) = Engine!SumFunction(b)
    BY DEF Engine!TimeOf, Span
  <1>4. (\A x \in S : a[x] = f[x]) /\ (\A x \in T : b[x] = f[x])
    OBVIOUS
  <1>5. S \in SUBSET D /\ T \in SUBSET D /\ D = S \union T
    OBVIOUS
  <1> HIDE DEF f, a, b, D
  <1>6. Engine!SumFunction(f) = Engine!SumFunction(a) + Engine!SumFunction(b)
    BY <1>1, <1>2, <1>4, <1>5, TotalParts
  <1>7. Engine!SumFunction(a) \in Nat /\ Engine!SumFunction(b) \in Nat
    BY <1>2, TotalOf
  <1>8. QED
    BY <1>3, <1>5, <1>6, <1>7

LEMMA TimeOfOne ==
    ASSUME NEW r, Span(r) \in Nat
    PROVE  Engine!TimeOf({r}) = Span(r)
  <1> DEFINE f == [q \in {r} |-> Span(q)]
  <1>1. f \in [{r} -> Nat] /\ f[r] = Span(r)
    OBVIOUS
  <1>2. Engine!TimeOf({r}) = Engine!SumFunction(f)
    BY DEF Engine!TimeOf, Span
  <1> HIDE DEF f
  <1>3. QED
    BY <1>1, <1>2, FS_Singleton, TotalOfOne

\* The greatest of finitely many numbers is one of them.
LEMMA EngineMax ==
    ASSUME NEW S \in SUBSET Nat, IsFiniteSet(S), S # {}
    PROVE  Engine!Max(S) \in S /\ \A x \in S : x <= Engine!Max(S)
  <1> DEFINE f == [x \in S |-> x]
  <1>1. \A x \in S : f[x] = x /\ f[x] \in Int
    OBVIOUS
  <1> HIDE DEF f
  <1>2. PICK x \in S : \A y \in S : f[y] <= f[x]
    BY <1>1, LastOfInts
  <1>3. \A y \in S : x >= y
    BY <1>1, <1>2
  <1>4. QED
    BY <1>3 DEF Engine!Max

\* The busy time of a task within a set of attempts, and the longest chain up to each task.
BusyIn(R, t) == Engine!TimeOf({r \in R : r.task = t})
Longest(c, deps, R, t) == BusyIn(R, t) + Engine!Max({0} \union {c[d] : d \in deps[t]})
IsChain(c, deps, R) == c = [t \in FlowTask |-> Longest(c, deps, R, t)]
ChainIn(deps, R) == CHOOSE c : IsChain(c, deps, R)

\* A graph that a run has, and attempts whose time adds up.
Countable(deps, R) ==
    /\ deps \in [FlowTask -> SUBSET FlowTask] /\ Engine!Acyclic(deps)
    /\ \A t \in FlowTask : BusyIn(R, t) \in Nat

LEMMA ChainIs == Engine!Chain = ChainIn(flow.deps, records)
  BY DEF Engine!Chain, ChainIn, IsChain, Longest, BusyIn, Engine!Busy

LEMMA NextChainIs == Engine!Chain' = ChainIn(flow'.deps, records')
  BY DEF Engine!Chain, ChainIn, IsChain, Longest, BusyIn, Engine!Busy

\* In a graph without cycles the chains are well defined: what a task's chain rests on can
\* be settled first.
LEMMA ChainExists ==
    ASSUME NEW deps, NEW R, Countable(deps, R)
    PROVE  IsChain(ChainIn(deps, R), deps, R)
  <1> DEFINE Settles(c, W) == \A t \in W : deps[t] \subseteq W /\ c[t] = Longest(c, deps, R, t)
             G == {W \in SUBSET FlowTask : \E c : DOMAIN c = FlowTask /\ c = [t \in FlowTask |-> c[t]]
                                                  /\ Settles(c, W)}
             T == {Cardinality(FlowTask \ W) : W \in G}
  <1>1. \A W : IsFiniteSet(FlowTask \ W) /\ Cardinality(FlowTask \ W) \in Nat
    BY WorkflowAssumption, FS_Subset, FS_CardinalityType
  <1>2. {} \in G
    <2> DEFINE c == [t \in FlowTask |-> 0]
    <2>1. DOMAIN c = FlowTask /\ c = [t \in FlowTask |-> c[t]] /\ Settles(c, {})
      OBVIOUS
    <2>2. QED
      BY <2>1
  <1>3. PICK m \in T : \A k \in T : m <= k
    <2>1. T \in SUBSET Nat /\ T # {}
      BY <1>1, <1>2
    <2> HIDE DEF T
    <2>2. QED
      BY <2>1, LeastNat
  <1>4. PICK W \in G : m = Cardinality(FlowTask \ W)
    BY <1>3
  <1>5. W = FlowTask
    <2>1. SUFFICES ASSUME FlowTask \ W # {} PROVE FALSE
      BY <1>4
    <2>2. PICK u \in FlowTask \ W : deps[u] \cap (FlowTask \ W) = {}
      BY <2>1, SomeFirst DEF Countable
    <2>3. deps[u] \subseteq W /\ u \in FlowTask /\ u \notin W
      BY <2>2 DEF Countable
    <2>4. PICK c : DOMAIN c = FlowTask /\ c = [t \in FlowTask |-> c[t]] /\ Settles(c, W)
      BY <1>4
    <2> DEFINE e == [t \in FlowTask |-> IF t = u THEN Longest(c, deps, R, u) ELSE c[t]]
               V == W \union {u}
    <2>5. \A t \in FlowTask \ {u} : e[t] = c[t]
      OBVIOUS
    <2>6. e[u] = Longest(c, deps, R, u)
      BY <2>3
    <2>7. W \in SUBSET FlowTask
      BY <1>4
    <2>8. \A t \in V : deps[t] \subseteq W
      BY <2>3, <2>4
    <2>9. DOMAIN e = FlowTask /\ e = [t \in FlowTask |-> e[t]]
      OBVIOUS
    <2> HIDE DEF e
    <2>10. \A t \in V : Longest(e, deps, R, t) = Longest(c, deps, R, t)
      <3>1. ASSUME NEW t \in V PROVE {e[d] : d \in deps[t]} = {c[d] : d \in deps[t]}
        BY <2>3, <2>5, <2>7, <2>8
      <3>2. QED
        BY <3>1 DEF Longest
    <2>11. \A t \in V : e[t] = Longest(c, deps, R, t)
      BY <2>3, <2>4, <2>5, <2>6, <2>7
    <2>12. Settles(e, V)
      BY <2>8, <2>10, <2>11
    <2>13. V \in G
      BY <2>3, <2>7, <2>9, <2>12
    <2> DEFINE a == FlowTask \ V
               b == FlowTask \ W
    <2>14. Cardinality(b) <= Cardinality(a)
      <3> HIDE DEF G, V
      <3>1. Cardinality(FlowTask \ V) \in T
        BY <2>13
      <3>2. QED
        BY <1>3, <1>4, <3>1
    <2>15. a \subseteq b /\ a # b
      BY <2>3
    <2>16. IsFiniteSet(b) /\ Cardinality(a) \in Nat /\ Cardinality(b) \in Nat
      BY <1>1
    <2> HIDE DEF a, b
    <2>17. Cardinality(a) <= Cardinality(b) /\ (Cardinality(a) = Cardinality(b) => a = b)
      BY <2>15, <2>16, FS_Subset
    <2>18. QED
      BY <2>14, <2>15, <2>16, <2>17
  <1>6. PICK c : DOMAIN c = FlowTask /\ c = [t \in FlowTask |-> c[t]] /\ Settles(c, FlowTask)
    BY <1>4, <1>5
  <1>7. IsChain(c, deps, R)
    BY <1>6 DEF IsChain
  <1>8. QED
    BY <1>7 DEF ChainIn

\* A chain ends with its task's own attempts, which follow the longest of the chains that
\* it depends on.
LEMMA ChainBounds ==
    ASSUME NEW deps, NEW R, Countable(deps, R)
    PROVE  \A t \in FlowTask :
              LET c == ChainIn(deps, R) IN
              /\ c[t] \in Nat /\ BusyIn(R, t) <= c[t]
              /\ \A d \in deps[t] : BusyIn(R, t) + c[d] <= c[t]
              /\ c[t] = BusyIn(R, t) \/ \E d \in deps[t] : c[t] = BusyIn(R, t) + c[d]
  <1> DEFINE c == ChainIn(deps, R)
             Q == {t \in FlowTask : c[t] \notin Nat}
             M(t) == Engine!Max({0} \union {c[d] : d \in deps[t]})
  <1>1. \A t \in FlowTask : c[t] = BusyIn(R, t) + M(t)
    BY ChainExists DEF IsChain, Longest
  <1>2. \A t \in FlowTask : deps[t] \subseteq FlowTask /\ BusyIn(R, t) \in Nat
    BY DEF Countable
  <1> HIDE DEF c
  <1>3. ASSUME NEW t \in FlowTask, deps[t] \cap Q = {}
        PROVE  /\ M(t) \in {0} \union {c[d] : d \in deps[t]} /\ M(t) \in Nat
               /\ \A d \in deps[t] : c[d] <= M(t)
    <2> DEFINE S == {0} \union {c[d] : d \in deps[t]}
    <2>1. S \in SUBSET Nat /\ S # {}
      BY <1>2, <1>3
    <2>2. IsFiniteSet(S)
      <3>1. IsFiniteSet(deps[t])
        BY <1>2, WorkflowAssumption, FS_Subset
      <3>2. IsFiniteSet({c[d] : d \in deps[t]})
        <4> DEFINE e == [d \in deps[t] |-> c[d]]
                   T == {c[d] : d \in deps[t]}
        <4>1. e \in Surjection(deps[t], T)
          BY DEF Surjection
        <4> HIDE DEF e, T
        <4>2. IsFiniteSet(T)
          BY <3>1, <4>1, FS_Surjection
        <4>3. QED
          BY <4>2 DEF T
      <3>3. QED
        BY <3>2, FS_AddElement
    <2>3. M(t) = Engine!Max(S) /\ \A d \in deps[t] : c[d] \in S
      OBVIOUS
    <2> HIDE DEF S, M
    <2>4. M(t) \in S /\ \A x \in S : x <= M(t)
      BY <2>1, <2>2, <2>3, EngineMax
    <2>5. M(t) \in Nat /\ \A d \in deps[t] : c[d] <= M(t)
      BY <2>1, <2>3, <2>4
    <2>6. QED
      BY <2>4, <2>5 DEF S
  <1> HIDE DEF M
  <1>4. Q = {}
    <2>1. SUFFICES ASSUME Q # {} PROVE FALSE
      OBVIOUS
    <2>2. PICK t \in Q : deps[t] \cap Q = {}
      BY <2>1, SomeFirst DEF Countable
    <2>3. M(t) \in Nat
      BY <1>3, <2>2
    <2>4. QED
      BY <1>1, <1>2, <2>2, <2>3
  <1>5. SUFFICES ASSUME NEW t \in FlowTask
                 PROVE  /\ c[t] \in Nat /\ BusyIn(R, t) <= c[t]
                        /\ \A d \in deps[t] : BusyIn(R, t) + c[d] <= c[t]
                        /\ c[t] = BusyIn(R, t) \/ \E d \in deps[t] : c[t] = BusyIn(R, t) + c[d]
    BY DEF c
  <1>6. deps[t] \cap Q = {}
    BY <1>4
  <1>7. \A u \in FlowTask : c[u] \in Nat
    BY <1>4
  <1>8. PICK x \in {0} \union {c[d] : d \in deps[t]} :
           x = M(t) /\ x \in Nat /\ \A d \in deps[t] : c[d] <= x
    BY <1>3, <1>6
  <1>9. c[t] = BusyIn(R, t) + x /\ BusyIn(R, t) \in Nat /\ c[t] \in Nat
    BY <1>1, <1>2, <1>7, <1>8
  <1>10. \A d \in deps[t] : c[d] \in Nat
    BY <1>2, <1>7
  <1>11. QED
    BY <1>8, <1>9, <1>10

\* More attempts make chains longer: a task's own by what it was busy more.
LEMMA ChainGrows ==
    ASSUME NEW deps, NEW R, NEW S, Countable(deps, R), Countable(deps, S),
           \A t \in FlowTask : BusyIn(R, t) <= BusyIn(S, t)
    PROVE  \A t \in FlowTask :
              /\ ChainIn(deps, R)[t] <= ChainIn(deps, S)[t]
              /\ \A more \in Nat : BusyIn(R, t) + more <= BusyIn(S, t) =>
                     ChainIn(deps, R)[t] + more <= ChainIn(deps, S)[t]
  <1> DEFINE b == ChainIn(deps, R)
             c == ChainIn(deps, S)
             Q == {t \in FlowTask : ~(b[t] <= c[t])}
  <1>1. \A t \in FlowTask :
           /\ b[t] \in Nat
           /\ b[t] = BusyIn(R, t) \/ \E d \in deps[t] : b[t] = BusyIn(R, t) + b[d]
    BY ChainBounds
  <1>2. \A t \in FlowTask :
           /\ c[t] \in Nat /\ BusyIn(S, t) <= c[t]
           /\ \A d \in deps[t] : BusyIn(S, t) + c[d] <= c[t]
    BY ChainBounds
  <1>3. \A t \in FlowTask : deps[t] \subseteq FlowTask /\ BusyIn(R, t) \in Nat /\ BusyIn(S, t) \in Nat
    BY DEF Countable
  <1> HIDE DEF b, c
  <1>4. ASSUME NEW t \in FlowTask, deps[t] \cap Q = {}, NEW more \in Nat,
               BusyIn(R, t) + more <= BusyIn(S, t)
        PROVE  b[t] + more <= c[t]
    <2>1. CASE b[t] = BusyIn(R, t)
      BY <1>2, <1>3, <1>4, <2>1
    <2>2. ASSUME NEW d \in deps[t], b[t] = BusyIn(R, t) + b[d]
          PROVE  b[t] + more <= c[t]
      <3>1. d \in FlowTask /\ b[d] <= c[d]
        BY <1>3, <1>4
      <3>2. b[d] \in Nat /\ c[d] \in Nat /\ c[t] \in Nat /\ BusyIn(S, t) + c[d] <= c[t]
        BY <1>1, <1>2, <3>1
      <3>3. BusyIn(R, t) \in Nat /\ BusyIn(S, t) \in Nat
        BY <1>3
      <3>4. QED
        BY <1>4, <2>2, <3>1, <3>2, <3>3
    <2>3. QED
      BY <1>1, <2>1, <2>2
  <1>5. Q = {}
    <2>1. SUFFICES ASSUME Q # {} PROVE FALSE
      OBVIOUS
    <2>2. PICK t \in Q : deps[t] \cap Q = {}
      BY <2>1, SomeFirst DEF Countable
    <2>3. BusyIn(R, t) + 0 <= BusyIn(S, t)
      BY <1>3, <2>2
    <2>4. b[t] + 0 <= c[t]
      BY <1>4, <2>2, <2>3
    <2>5. QED
      BY <1>1, <2>2, <2>4
  <1>6. QED
    BY <1>4, <1>5 DEF b, c

\* What idleness a longer chain allows; and a time in which one slot works at least, or all.
LEMMA IdleGrows ==
    ASSUME NEW n \in Nat \ {0}, NEW clock \in Nat, NEW work \in Nat,
           NEW x \in Nat, NEW y \in Nat, x <= y, Idle(n, clock, work, x)
    PROVE  Idle(n, clock, work, y)
  <1>1. PICK m \in Nat : n - 1 = m
    OBVIOUS
  <1>2. m * x <= m * y /\ m * x \in Nat /\ m * y \in Nat
    BY MultiplesGrow, Multiples
  <1> DEFINE p == m * x
             q == m * y
             c == n * clock
  <1>3. p <= q /\ p \in Nat /\ q \in Nat /\ c \in Nat
    BY <1>2, Multiples
  <1>4. c <= work + p
    BY <1>1 DEF Idle
  <1> HIDE DEF p, q, c
  <1>5. c <= work + q
    BY <1>3, <1>4
  <1>6. QED
    BY <1>1, <1>5 DEF Idle, c, q

LEMMA IdleMoves ==
    ASSUME NEW n \in Nat \ {0}, NEW clock \in Nat, NEW work \in Nat, NEW x \in Nat,
           NEW k \in Nat \ {0}, NEW delta \in Nat, Idle(n, clock, work, x)
    PROVE  /\ Idle(n, clock + delta, work + k * delta, x + delta)
           /\ n <= k => Idle(n, clock + delta, work + k * delta, x)
  <1>1. PICK m \in Nat : n = m + 1 /\ n - 1 = m
    <2>1. n - 1 \in Nat /\ n = (n - 1) + 1
      OBVIOUS
    <2>2. QED
      BY <2>1
  <1> DEFINE c == n * clock
             d == n * delta
             e == k * delta
             p == m * x
             q == m * delta
  <1>2. c \in Nat /\ d \in Nat /\ e \in Nat /\ p \in Nat /\ q \in Nat
    BY Multiples
  <1>3. n * (clock + delta) = c + d /\ m * (x + delta) = p + q
    BY Multiples
  <1>4. d = q + delta
    BY <1>1, Multiples
  <1>5. delta <= e
    <2>1. 1 * delta <= k * delta /\ 1 * delta = delta
      BY MultiplesGrow, Multiples
    <2>2. QED
      BY <2>1
  <1>6. n <= k => d <= e
    BY MultiplesGrow
  <1>7. c <= work + p
    BY <1>1 DEF Idle
  <1> HIDE DEF c, d, e, p, q
  <1>8. c + d <= work + e + (p + q)
    BY <1>2, <1>4, <1>5, <1>7
  <1>9. n <= k => c + d <= work + e + p
    BY <1>2, <1>6, <1>7
  <1>10. Idle(n, clock + delta, work + k * delta, x + delta)
    BY <1>1, <1>3, <1>8 DEF Idle, e
  <1>11. n <= k => Idle(n, clock + delta, work + k * delta, x)
    BY <1>1, <1>3, <1>9 DEF Idle, e, p
  <1>12. QED
    BY <1>10, <1>11

LEMMA BusyIsTime ==
    ASSUME NEW R, IsFiniteSet(R), \A r \in R : Span(r) \in Nat
    PROVE  \A t : BusyIn(R, t) \in Nat
  <1>1. SUFFICES ASSUME NEW t PROVE BusyIn(R, t) \in Nat
    OBVIOUS
  <1> DEFINE S == {r \in R : r.task = t}
  <1>2. IsFiniteSet(S) /\ S \cap {} = {} /\ \A r \in S \union {} : Span(r) \in Nat
    BY FS_Subset
  <1> HIDE DEF S
  <1>3. Engine!TimeOf(S) \in Nat
    BY <1>2, FS_EmptySet, TimeOfParts
  <1>4. QED
    BY <1>3 DEF BusyIn, S

\* What the invariant says of the times of a run.
LEMMA GreedyFacts ==
    ASSUME EngineInv, Numbered
    PROVE  /\ Countable(flow.deps, records)
           /\ \A r \in records \union running : Span(r) \in Nat /\ engineClock - r.started \in Nat
           /\ \A t \in FlowTask : Engine!Chain[t] \in Nat
           /\ Worked(engineClock) \in Nat
  <1>1. FlowTypes
    BY DEF EngineInv
  <1>2. \A r \in records \union running :
           /\ r.started \in Nat /\ r.finished \in Nat /\ engineClock \in Nat
           /\ r.started <= r.finished /\ r.started <= engineClock
    BY <1>1 DEF FlowTypes, Numbered
  <1>3. \A r \in records \union running : Span(r) \in Nat /\ engineClock - r.started \in Nat
    BY <1>2 DEF Span
  <1>4. \A t : BusyIn(records, t) \in Nat
    BY <1>3, BusyIsTime DEF Numbered
  <1>5. Countable(flow.deps, records)
    BY <1>1, <1>4, GraphIs DEF FlowTypes, Countable
  <1>6. \A t \in FlowTask : Engine!Chain[t] \in Nat
    BY <1>5, ChainIs, ChainBounds
  <1>7. Worked(engineClock) \in Nat
    <2> DEFINE f == [r \in running |-> engineClock - r.started]
    <2>1. f \in [running -> Nat] /\ IsFiniteSet(running)
      BY <1>1, <1>3 DEF FlowTypes
    <2>2. Engine!TimeOf(records) \in Nat
      <3>1. IsFiniteSet(records) /\ records \cap {} = {} /\ records \union {} = records
        BY DEF Numbered
      <3>2. QED
        BY <1>3, <3>1, FS_EmptySet, TimeOfParts
    <2>3. Worked(engineClock) = Engine!TimeOf(records) + Engine!SumFunction(f)
      BY DEF Worked
    <2> HIDE DEF f
    <2>4. Engine!SumFunction(f) \in Nat
      BY <2>1, TotalOf
    <2>5. QED
      BY <2>2, <2>3, <2>4
  <1>8. QED
    BY <1>3, <1>5, <1>6, <1>7

LEMMA GreedyStarts == Engine!Init => GreedyInv
  <1> SUFFICES ASSUME Engine!Init PROVE GreedyInv
    OBVIOUS
  <1>1. EngineInv
    BY EngineStarts
  <1>2. /\ slots \in Nat \ {0} /\ engineClock = 0 /\ records = {} /\ running = {}
        /\ attempts = [t \in FlowTask |-> 0] /\ phase = "running"
        /\ ready \subseteq FlowTask
    BY WorkflowAssumption DEF Engine!Init
  <1>3. Numbered
    BY <1>2, FS_EmptySet DEF Numbered
  <1>4. Worked(engineClock) \in Nat /\ \A t \in FlowTask : Engine!Chain[t] \in Nat
    BY <1>1, <1>3, GreedyFacts
  <1>5. \A x \in Nat : IdleFor(x)
    <2>1. SUFFICES ASSUME NEW x \in Nat PROVE IdleFor(x)
      OBVIOUS
    <2>2. slots * 0 = 0 /\ slots - 1 \in Nat
      BY <1>2, Multiples
    <2>3. (slots - 1) * x \in Nat
      BY <2>2, Multiples
    <2> DEFINE p == (slots - 1) * x
               w == Worked(engineClock)
    <2>4. p \in Nat /\ w \in Nat
      BY <1>4, <2>3
    <2>5. IdleFor(x) <=> 0 <= w + p
      BY <1>2, <2>2 DEF IdleFor, Idle
    <2> HIDE DEF p, w
    <2>6. QED
      BY <2>4, <2>5
  <1>6. Greedy
    BY <1>2, <1>4, <1>5 DEF Greedy
  <1>7. QED
    BY <1>1, <1>2, <1>3, <1>6 DEF GreedyInv

\* An attempt that begins has worked for no time yet, and takes its number after all others.
LEMMA GreedyStart ==
    ASSUME GreedyInv, Engine!Start, EngineInv'
    PROVE  Numbered' /\ Greedy' /\ phase' # "finished"
  <1> DEFINE t == Engine!Min(ready)
  <1>1. /\ EngineInv /\ Numbered /\ Greedy /\ FlowTypes /\ Fed /\ Timed
        /\ phase = "running" /\ ready # {}
    BY DEF GreedyInv, EngineInv, Engine!Start
  <1>2. t \in ready
    <2>1. ready \in SUBSET FlowTask /\ ready # {}
      BY <1>1 DEF Fed
    <2>2. QED
      BY <2>1, EngineFirst
  <1>3. t \in FlowTask
    BY <1>1, <1>2 DEF Fed
  <1>4. UNCHANGED <<flow, slots, engineClock, records>>
    BY DEF Engine!Start
  <1>5. Engine!Chain' = Engine!Chain
    BY <1>4, ChainIs, NextChainIs
  <1>6. CASE /\ phase' = "plan exhausted" /\ UNCHANGED <<ready, running, attempts>>
    <2>1. Numbered'
      BY <1>1, <1>4, <1>6 DEF Numbered
    <2>2. Worked(engineClock)' = Worked(engineClock)
      BY <1>4, <1>6 DEF Worked
    <2>3. \A x : IdleFor(x)' <=> IdleFor(x)
      BY <1>4, <2>2 DEF IdleFor
    <2>4. Greedy'
      BY <1>1, <1>4, <1>5, <1>6, <2>3 DEF Greedy
    <2>5. QED
      BY <1>6, <2>1, <2>4
  <1>7. CASE ~(phase' = "plan exhausted")
    <2>1. PICK r : /\ r.task = t /\ r.started = engineClock /\ r.finished \in Nat
                   /\ engineClock <= r.finished /\ r.attempt = attempts[t] + 1
                   /\ running' = running \union {r}
      <3>1. PICK d \in Engine!Disposition, length \in Duration :
               running' = running \union
                  {[task |-> t, attempt |-> attempts[t] + 1, disposition |-> d,
                    started |-> engineClock, finished |-> engineClock + length]}
        BY <1>7 DEF Engine!Start
      <3>2. engineClock + length \in Nat /\ engineClock <= engineClock + length
        BY <1>1, WorkflowAssumption DEF FlowTypes
      <3>3. QED
        BY <3>1, <3>2
    <2>2. /\ ready' = ready \ {t} /\ attempts' = [attempts EXCEPT ![t] = @ + 1] /\ phase' = phase
      BY <1>7 DEF Engine!Start
    <2> HIDE DEF t
    <2>3. /\ engineClock \in Nat /\ attempts \in [FlowTask -> Nat] /\ attempts[t] \in Nat
          /\ r.attempt \in Nat
      BY <1>1, <1>3, <2>1 DEF FlowTypes, Numbered
    <2>4. \A u \in FlowTask : attempts'[u] \in Nat /\ attempts[u] <= attempts'[u]
      BY <1>3, <2>2, <2>3
    <2>5. attempts' \in [FlowTask -> Nat] /\ attempts'[t] = r.attempt
      BY <1>3, <2>1, <2>2, <2>3
    <2>6. r \notin records \union running
      <3>1. SUFFICES ASSUME r \in records \union running PROVE FALSE
        OBVIOUS
      <3>2. r.attempt <= attempts[t]
        BY <1>1, <2>1, <3>1 DEF Numbered
      <3>3. QED
        BY <2>1, <2>3, <3>2
    <2>7. Numbered'
      <3>1. running' \cap records' = {}
        BY <1>1, <1>4, <2>1, <2>6 DEF Numbered
      <3>2. ASSUME NEW q \in records' \union running'
            PROVE  /\ q.attempt \in Nat /\ q.attempt <= attempts'[q.task]
                   /\ q.started <= q.finished /\ q.started <= engineClock'
        <4>1. CASE q = r
          BY <1>4, <2>1, <2>3, <2>5, <4>1
        <4>2. CASE q \in records \union running
          <5>1. /\ q.attempt \in Nat /\ q.attempt <= attempts[q.task] /\ q.task \in FlowTask
                /\ q.started <= q.finished /\ q.started <= engineClock
            BY <1>1, <4>2 DEF Numbered, FlowTypes
          <5>2. attempts[q.task] \in Nat /\ attempts'[q.task] \in Nat
                /\ attempts[q.task] <= attempts'[q.task]
            BY <2>3, <2>4, <5>1
          <5>3. QED
            BY <1>4, <5>1, <5>2
        <4>3. QED
          BY <1>4, <2>1, <4>1, <4>2
      <3>3. QED
        BY <1>1, <1>4, <2>5, <3>1, <3>2 DEF Numbered
    <2>8. Worked(engineClock)' = Worked(engineClock)
      <3> DEFINE f == [q \in running |-> engineClock - q.started]
                 h == [q \in running' |-> engineClock - q.started]
                 one == {r}
                 z == [q \in one |-> engineClock - q.started]
      <3>1. IsFiniteSet(running') /\ running \in SUBSET running' /\ one \in SUBSET running'
            /\ running \cap one = {} /\ running \union one = running'
        BY <1>1, <2>1, <2>6, FS_AddElement DEF FlowTypes
      <3>2. engineClock - r.started = 0
        BY <2>1, <2>3
      <3>3. f \in [running -> Nat]
        BY <1>1, GreedyFacts
      <3>4. h \in [running' -> Nat] /\ z \in [one -> Nat] /\ z[r] = 0
        BY <2>1, <3>2, <3>3
      <3>5. (\A q \in running : f[q] = h[q]) /\ (\A q \in one : z[q] = h[q])
        BY <3>1
      <3>6. Worked(engineClock) = Engine!TimeOf(records) + Engine!SumFunction(f)
        BY DEF Worked
      <3>7. Worked(engineClock)' = Engine!TimeOf(records) + Engine!SumFunction(h)
        BY <1>4 DEF Worked
      <3> HIDE DEF f, h, z, one
      <3>8. Engine!SumFunction(h) = Engine!SumFunction(f) + Engine!SumFunction(z)
        BY <3>1, <3>3, <3>4, <3>5, TotalParts
      <3>9. Engine!SumFunction(z) = 0
        <4>1. IsFiniteSet(one) /\ r \in one /\ one \ {r} = {}
          BY FS_Singleton DEF one
        <4>2. QED
          BY <3>4, <4>1, TotalOfOne
      <3>10. Engine!SumFunction(f) \in Nat
        BY <1>1, <3>3, TotalOf DEF FlowTypes
      <3>11. QED
        BY <3>6, <3>7, <3>8, <3>9, <3>10
    <2>9. \A x : IdleFor(x)' <=> IdleFor(x)
      BY <1>4, <2>8 DEF IdleFor
    <2>10. Greedy'
      <3>1. \A u \in ready' : IdleFor(Engine!Chain[u])'
        BY <1>1, <1>5, <2>2, <2>9 DEF Greedy
      <3>2. ASSUME NEW q \in running' PROVE IdleFor(Engine!Chain[q.task] + (engineClock - q.started))'
        <4>1. CASE q = r
          <5>1. Engine!Chain[t] \in Nat
            BY <1>1, <1>3, GreedyFacts
          <5>2. Engine!Chain[t] + (engineClock - r.started) = Engine!Chain[t]
            BY <2>1, <2>3, <5>1
          <5>3. IdleFor(Engine!Chain[t])
            BY <1>1, <1>2 DEF Greedy
          <5>4. QED
            BY <1>4, <1>5, <2>1, <2>9, <4>1, <5>2, <5>3
        <4>2. CASE q \in running
          BY <1>1, <1>4, <1>5, <2>9, <4>2 DEF Greedy
        <4>3. QED
          BY <2>1, <4>1, <4>2
      <3>3. running' # {}
        BY <2>1
      <3>4. QED
        BY <3>1, <3>2, <3>3 DEF Greedy
    <2>11. QED
      BY <1>1, <2>2, <2>7, <2>10
  <1>8. QED
    BY <1>6, <1>7 DEF Engine!Start

\* When the clock moves to the next completion, every running attempt has worked for that
\* time, and the chains of those that end have grown by the whole of their attempts.
LEMMA GreedyComplete ==
    ASSUME GreedyInv, Engine!Complete, EngineInv'
    PROVE  Numbered' /\ Greedy' /\ phase' # "finished"
  <1> DEFINE next == Engine!NextCompletion
             due == {r \in running : r.finished <= next}
             ended == [t \in {r.task : r \in due} |->
                          Engine!Verdict(CHOOSE r \in due : r.task = t)]
             done == Engine!Succeeded \union {t \in DOMAIN ended : ended[t] = "succeeded"}
             waits == {t \in DOMAIN ended : ended[t] = "pending"}
             delta == next - engineClock
             k == Cardinality(running)
  <1>1. /\ EngineInv /\ Numbered /\ Greedy /\ FlowTypes /\ Fed /\ Timed
        /\ phase = "running" /\ running # {} /\ ~(ready # {} /\ Engine!HasSlot)
    BY DEF GreedyInv, EngineInv, Engine!Complete
  <1>2. /\ engineClock' = next /\ running' = running \ due /\ records' = records \union due
        /\ ready' = ready \union waits \union Engine!Unblocked(done, Engine!Succeeded)
        /\ UNCHANGED <<flow, slots, attempts, phase>>
    BY DEF Engine!Complete
  <1>3. /\ next \in Nat /\ engineClock <= next /\ \A r \in running : next <= r.finished
        /\ \E r \in running : r.finished = next
    <2> DEFINE S == {r.finished : r \in running}
    <2>1. S \in SUBSET Nat /\ S # {}
      BY <1>1 DEF FlowTypes
    <2>2. next = Engine!Min(S)
      BY DEF Engine!NextCompletion
    <2> HIDE DEF S, next
    <2>3. next \in S /\ \A x \in S : next <= x
      BY <2>1, <2>2, EngineMin
    <2>4. QED
      BY <1>1, <2>1, <2>3 DEF S, Timed
  <1> HIDE DEF next
  <1>4. /\ \A t \in waits : \E r \in due : r.task = t
        /\ \A d \in done \ Engine!Succeeded : \E r \in due : r.task = d
    OBVIOUS
  <1> HIDE DEF ended, done, waits
  <1>5. delta \in Nat /\ engineClock + delta = next /\ engineClock \in Nat
    BY <1>1, <1>3 DEF FlowTypes
  <1>6. k \in Nat \ {0} /\ (ready # {} => slots <= k) /\ slots \in Nat \ {0}
    <2>1. k \in Nat /\ k # 0
      BY <1>1, FS_CardinalityType, FS_EmptySet DEF FlowTypes
    <2>2. slots \in Nat \ {0}
      BY <1>1 DEF Numbered
    <2>3. ready # {} => ~(k < slots)
      BY <1>1, EngineCounts DEF Engine!HasSlot
    <2> HIDE DEF k
    <2>4. QED
      BY <2>1, <2>2, <2>3
  <1>7. /\ \A r \in due : /\ r \in running /\ r.finished = next /\ r.task \in FlowTask
                          /\ r.started \in Nat /\ r.started <= engineClock
                          /\ Span(r) = (engineClock - r.started) + delta
                          /\ Span(r) = next - r.started
        /\ due # {}
    <2>1. ASSUME NEW r \in due
          PROVE  /\ r \in running /\ r.finished = next /\ r.task \in FlowTask
                 /\ r.started \in Nat /\ r.started <= engineClock
                 /\ Span(r) = (engineClock - r.started) + delta
                 /\ Span(r) = next - r.started
      <3>1. /\ r \in running /\ r.finished \in Nat /\ r.task \in FlowTask
            /\ r.started \in Nat /\ r.started <= engineClock
        BY <1>1 DEF FlowTypes, Numbered
      <3>2. r.finished = next
        BY <1>3, <3>1
      <3>3. QED
        BY <1>3, <1>5, <3>1, <3>2 DEF Span
    <2>2. due # {}
      BY <1>3
    <2>3. QED
      BY <2>1, <2>2
  <1> HIDE DEF delta, k
  <1>8. Numbered'
    <2>1. running' \cap records' = {} /\ IsFiniteSet(records')
      <3>1. IsFiniteSet(due)
        BY <1>1, FS_Subset DEF FlowTypes
      <3>2. QED
        BY <1>1, <1>2, <3>1, FS_Union DEF Numbered
    <2>2. ASSUME NEW q \in records' \union running'
          PROVE  /\ q.attempt \in Nat /\ q.attempt <= attempts[q.task]
                 /\ q.started <= q.finished /\ q.started <= next
      <3>1. q \in records \union running
        BY <1>2
      <3>2. /\ q.attempt \in Nat /\ q.attempt <= attempts[q.task] /\ q.started \in Nat
            /\ q.started <= q.finished /\ q.started <= engineClock
        BY <1>1, <3>1 DEF Numbered, FlowTypes
      <3>3. QED
        BY <1>3, <1>5, <3>2
    <2>3. QED
      BY <1>1, <1>2, <2>1, <2>2 DEF Numbered
  <1>9. /\ Countable(flow.deps, records) /\ Countable(flow.deps, records')
        /\ \A r \in records \union running : Span(r) \in Nat /\ engineClock - r.started \in Nat
        /\ \A t \in FlowTask : Engine!Chain[t] \in Nat /\ Engine!Chain'[t] \in Nat
        /\ Worked(engineClock) \in Nat
    <2>1. /\ Countable(flow.deps, records)
          /\ \A r \in records \union running : Span(r) \in Nat /\ engineClock - r.started \in Nat
          /\ \A t \in FlowTask : Engine!Chain[t] \in Nat
          /\ Worked(engineClock) \in Nat
      BY <1>1, GreedyFacts
    <2>2. IsFiniteSet(records') /\ \A r \in records' : Span(r) \in Nat
      BY <1>2, <1>8, <2>1 DEF Numbered
    <2>3. Countable(flow.deps, records')
      BY <2>1, <2>2, BusyIsTime DEF Countable
    <2>4. \A t \in FlowTask : Engine!Chain'[t] \in Nat
      BY <1>2, <2>3, NextChainIs, ChainBounds
    <2>5. QED
      BY <2>1, <2>3, <2>4
  <1>10. /\ \A t : BusyIn(records', t) \in Nat /\ BusyIn(records, t) \in Nat
         /\ \A t : BusyIn(records, t) <= BusyIn(records', t)
         /\ \A r \in due : BusyIn(records, r.task) + Span(r) <= BusyIn(records', r.task)
    <2> DEFINE of(R, t) == {r \in R : r.task = t}
    <2>1. \A t : of(records', t) = of(records, t) \union of(due, t)
      BY <1>2
    <2>2. IsFiniteSet(records) /\ IsFiniteSet(due) /\ records \cap due = {}
      <3>1. IsFiniteSet(due)
        BY <1>1, FS_Subset DEF FlowTypes
      <3>2. QED
        BY <1>1, <3>1 DEF Numbered
    <2>3. \A r \in records \union due : Span(r) \in Nat
      BY <1>9
    <2>4. ASSUME NEW t
          PROVE  /\ BusyIn(records', t) = BusyIn(records, t) + BusyIn(due, t)
                 /\ BusyIn(records, t) \in Nat /\ BusyIn(due, t) \in Nat
      <3> DEFINE S == of(records, t)
                 T == of(due, t)
      <3>1. IsFiniteSet(S) /\ IsFiniteSet(T) /\ S \cap T = {} /\ \A r \in S \union T : Span(r) \in Nat
        BY <2>2, <2>3, FS_Subset
      <3>2. /\ BusyIn(records', t) = Engine!TimeOf(S \union T)
            /\ BusyIn(records, t) = Engine!TimeOf(S) /\ BusyIn(due, t) = Engine!TimeOf(T)
        BY <2>1 DEF BusyIn
      <3> HIDE DEF S, T
      <3>3. /\ Engine!TimeOf(S \union T) = Engine!TimeOf(S) + Engine!TimeOf(T)
            /\ Engine!TimeOf(S) \in Nat /\ Engine!TimeOf(T) \in Nat
        BY <3>1, TimeOfParts
      <3>4. QED
        BY <3>2, <3>3
    <2>5. ASSUME NEW r \in due PROVE BusyIn(due, r.task) = Span(r)
      <3>1. of(due, r.task) = {r}
        BY <1>1, <1>7 DEF Timed
      <3>2. Span(r) \in Nat
        BY <2>3
      <3>3. QED
        BY <3>1, <3>2, TimeOfOne DEF BusyIn
    <2> HIDE DEF of
    <2>6. ASSUME NEW t
          PROVE  BusyIn(records', t) \in Nat /\ BusyIn(records, t) <= BusyIn(records', t)
      <3> DEFINE p == BusyIn(records, t)
                 q == BusyIn(due, t)
      <3>1. BusyIn(records', t) = p + q /\ p \in Nat /\ q \in Nat
        BY <2>4
      <3> HIDE DEF p, q
      <3>2. BusyIn(records', t) \in Nat /\ p <= BusyIn(records', t)
        BY <3>1
      <3>3. QED
        BY <3>2 DEF p
    <2>7. \A r \in due : BusyIn(records, r.task) + Span(r) <= BusyIn(records', r.task)
      <3>1. ASSUME NEW r \in due
            PROVE  BusyIn(records, r.task) + Span(r) <= BusyIn(records', r.task)
        <4>1. BusyIn(records', r.task) = BusyIn(records, r.task) + Span(r)
          BY <2>4, <2>5
        <4>2. BusyIn(records', r.task) \in Nat
          BY <2>6
        <4>3. QED
          BY <4>1, <4>2
      <3>2. QED
        BY <3>1
    <2>8. QED
      BY <2>4, <2>6, <2>7
  <1>11. /\ \A t \in FlowTask : Engine!Chain[t] <= Engine!Chain'[t]
         /\ \A r \in due : Engine!Chain[r.task] + Span(r) <= Engine!Chain'[r.task]
    <2>1. \A t \in FlowTask :
             /\ ChainIn(flow.deps, records)[t] <= ChainIn(flow.deps, records')[t]
             /\ \A more \in Nat : BusyIn(records, t) + more <= BusyIn(records', t) =>
                  ChainIn(flow.deps, records)[t] + more <= ChainIn(flow.deps, records')[t]
      BY <1>9, <1>10, ChainGrows
    <2>2. \A r \in due : Span(r) \in Nat /\ r.task \in FlowTask
      BY <1>7, <1>9
    <2>3. Engine!Chain = ChainIn(flow.deps, records) /\ Engine!Chain' = ChainIn(flow.deps, records')
      BY <1>2, ChainIs, NextChainIs
    <2>4. QED
      BY <1>10, <2>1, <2>2, <2>3
  <1>12. Worked(engineClock)' = Worked(engineClock) + k * delta
    <2> DEFINE f == [r \in running |-> engineClock - r.started]
               m == [r \in running |-> next - r.started]
               a == [r \in due |-> next - r.started]
               b == [r \in running' |-> next - r.started]
    <2>1. /\ IsFiniteSet(running) /\ due \in SUBSET running /\ running' \in SUBSET running
          /\ due \cap running' = {} /\ due \union running' = running
      BY <1>1, <1>2 DEF FlowTypes
    <2>2. \A r \in running : /\ engineClock - r.started \in Nat
                             /\ next - r.started = (engineClock - r.started) + delta
                             /\ next - r.started \in Nat
      <3>1. ASSUME NEW r \in running
            PROVE  /\ engineClock - r.started \in Nat
                   /\ next - r.started = (engineClock - r.started) + delta
                   /\ next - r.started \in Nat
        <4>1. engineClock - r.started \in Nat /\ r.started \in Nat
          BY <1>1, <1>9 DEF FlowTypes
        <4>2. QED
          BY <1>5, <4>1
      <3>2. QED
        BY <3>1
    <2>3. /\ f \in [running -> Nat] /\ m \in [running -> Nat]
          /\ a \in [due -> Nat] /\ b \in [running' -> Nat]
      BY <2>1, <2>2
    <2>4. /\ \A r \in running : m[r] = f[r] + delta
          /\ \A r \in due : a[r] = m[r]
          /\ \A r \in running' : b[r] = m[r]
      BY <2>1, <2>2
    <2>5. Worked(engineClock) = Engine!TimeOf(records) + Engine!SumFunction(f)
      BY DEF Worked
    <2>6. Worked(engineClock)' = Engine!TimeOf(records \union due) + Engine!SumFunction(b)
      BY <1>2 DEF Worked
    <2>7. Engine!TimeOf(due) = Engine!SumFunction(a)
      <3>1. [r \in due |-> r.finished - r.started] = a
        BY <1>7
      <3> HIDE DEF a
      <3>2. QED
        BY <3>1 DEF Engine!TimeOf
    <2>8. /\ Engine!TimeOf(records \union due) = Engine!TimeOf(records) + Engine!TimeOf(due)
          /\ Engine!TimeOf(records) \in Nat /\ Engine!TimeOf(due) \in Nat
      <3>1. IsFiniteSet(records) /\ IsFiniteSet(due) /\ records \cap due = {}
        BY <1>1, <2>1, FS_Subset DEF Numbered
      <3>2. \A r \in records \union due : Span(r) \in Nat
        BY <1>9
      <3> HIDE DEF due
      <3>3. QED
        BY <3>1, <3>2, TimeOfParts
    <2> HIDE DEF f, m, a, b, due
    <2>9. Engine!SumFunction(m) = Engine!SumFunction(a) + Engine!SumFunction(b)
      BY <2>1, <2>3, <2>4, TotalParts
    <2>10. Engine!SumFunction(m) = Engine!SumFunction(f) + k * delta
      BY <1>5, <2>1, <2>3, <2>4, TotalRaised DEF k
    <2>11. /\ Engine!SumFunction(f) \in Nat /\ Engine!SumFunction(a) \in Nat
           /\ Engine!SumFunction(b) \in Nat
      BY <2>1, <2>3, FS_Subset, TotalOf
    <2>12. k * delta \in Nat
      BY <1>5, <1>6, Multiples
    <2> DEFINE e == k * delta
    <2>13. e \in Nat /\ Engine!SumFunction(a) + Engine!SumFunction(b) = Engine!SumFunction(f) + e
      BY <2>9, <2>10, <2>12
    <2> HIDE DEF e
    <2>14. Worked(engineClock)' = Worked(engineClock) + e
      BY <2>5, <2>6, <2>7, <2>8, <2>11, <2>13
    <2>15. QED
      BY <2>14 DEF e
  <1> DEFINE w == Worked(engineClock)
             v == w + k * delta
             Late(x) == Idle(slots, next, v, x)
  <1>13. /\ \A x \in Nat : IdleFor(x) => Late(x + delta)
         /\ \A x \in Nat : IdleFor(x) /\ ready # {} => Late(x)
         /\ \A x, y \in Nat : Late(x) /\ x <= y => Late(y)
    <2>1. w \in Nat /\ slots \in Nat \ {0}
      BY <1>6, <1>9
    <2>2. \A x : IdleFor(x) <=> Idle(slots, engineClock, w, x)
      BY DEF IdleFor
    <2> HIDE DEF w
    <2>3. v \in Nat
      <3>1. k * delta \in Nat
        BY <1>5, <1>6, Multiples
      <3>2. QED
        BY <2>1, <3>1
    <2>4. ASSUME NEW x \in Nat, IdleFor(x)
          PROVE  Late(x + delta) /\ (ready # {} => Late(x))
      <3>1. Idle(slots, engineClock, w, x)
        BY <2>2, <2>4
      <3>2. /\ Idle(slots, engineClock + delta, v, x + delta)
            /\ slots <= k => Idle(slots, engineClock + delta, v, x)
        BY <1>5, <1>6, <2>1, <3>1, IdleMoves
      <3> HIDE DEF v
      <3>3. QED
        BY <1>5, <1>6, <3>2
    <2> HIDE DEF v
    <2>5. ASSUME NEW x \in Nat, NEW y \in Nat, Late(x), x <= y
          PROVE  Late(y)
      BY <1>3, <2>1, <2>3, <2>5, IdleGrows
    <2> HIDE DEF Late
    <2>6. QED
      BY <2>4, <2>5
  <1> HIDE DEF w
  <1>14. \A t : IdleFor(Engine!Chain[t])' <=> Late(Engine!Chain'[t])
    BY <1>2, <1>12 DEF IdleFor, w
  <1>15. \A r : IdleFor(Engine!Chain[r.task] + (engineClock - r.started))'
                  <=> Late(Engine!Chain'[r.task] + (next - r.started))
    BY <1>2, <1>12 DEF IdleFor, w
  <1> HIDE DEF Late, v
  <1>16. ASSUME NEW r \in due PROVE Late(Engine!Chain'[r.task])
    <2> DEFINE x == Engine!Chain[r.task] + (engineClock - r.started)
               y == Engine!Chain'[r.task]
    <2>1. /\ Engine!Chain[r.task] \in Nat /\ y \in Nat /\ engineClock - r.started \in Nat
          /\ r \in running
      BY <1>7, <1>9
    <2>2. IdleFor(x) /\ x \in Nat
      BY <1>1, <2>1 DEF Greedy
    <2>3. Engine!Chain[r.task] + ((engineClock - r.started) + delta) <= y
      BY <1>7, <1>11
    <2>4. x + delta \in Nat /\ x + delta <= y
      BY <1>5, <2>1, <2>3
    <2> HIDE DEF x, y
    <2>5. Late(x + delta)
      BY <1>13, <2>2
    <2>6. Late(y)
      BY <1>13, <2>1, <2>4, <2>5
    <2>7. QED
      BY <2>6 DEF y
  <1>17. ASSUME NEW t \in ready' PROVE Late(Engine!Chain'[t])
    <2>0. Fed' /\ t \in FlowTask
      <3>1. Fed'
        BY <1>1, <1>2 DEF EngineInv
      <3>2. QED
        BY <3>1 DEF Fed
    <2>1. CASE t \in ready
      <3>1. IdleFor(Engine!Chain[t]) /\ ready # {}
        BY <1>1, <2>1 DEF Greedy
      <3>2. /\ Engine!Chain[t] \in Nat /\ Engine!Chain'[t] \in Nat
            /\ Engine!Chain[t] <= Engine!Chain'[t]
        BY <1>9, <1>11, <2>0
      <3>3. QED
        BY <1>13, <3>1, <3>2
    <2>2. CASE t \in waits
      BY <1>4, <1>16, <2>2
    <2>3. CASE t \in Engine!Unblocked(done, Engine!Succeeded)
      <3>1. PICK d \in flow.deps[t] : d \in done \ Engine!Succeeded
        BY <2>3 DEF Engine!Unblocked
      <3>2. PICK r \in due : r.task = d
        BY <1>4, <3>1
      <3>3. Late(Engine!Chain'[d])
        BY <1>16, <3>2
      <3>4. BusyIn(records', t) + Engine!Chain'[d] <= Engine!Chain'[t]
        BY <1>2, <1>9, <2>0, <3>1, ChainBounds, NextChainIs
      <3>5. /\ Engine!Chain'[d] \in Nat /\ Engine!Chain'[t] \in Nat
            /\ BusyIn(records', t) \in Nat
        BY <1>7, <1>9, <1>10, <2>0, <3>2
      <3>6. Engine!Chain'[d] <= Engine!Chain'[t]
        BY <3>4, <3>5
      <3>7. QED
        BY <1>13, <3>3, <3>5, <3>6
    <2>4. QED
      BY <1>2, <2>1, <2>2, <2>3
  <1>18. ASSUME NEW r \in running'
         PROVE  Late(Engine!Chain'[r.task] + (next - r.started))
    <2> DEFINE x == Engine!Chain[r.task] + (engineClock - r.started)
               y == Engine!Chain'[r.task] + (next - r.started)
    <2>1. r \in running /\ r.task \in FlowTask /\ r.started \in Nat
      BY <1>1, <1>2 DEF FlowTypes
    <2>2. /\ Engine!Chain[r.task] \in Nat /\ Engine!Chain'[r.task] \in Nat
          /\ engineClock - r.started \in Nat /\ Engine!Chain[r.task] <= Engine!Chain'[r.task]
      BY <1>9, <1>11, <2>1
    <2>3. IdleFor(x)
      BY <1>1, <2>1 DEF Greedy
    <2>4. x \in Nat /\ x + delta \in Nat /\ y \in Nat /\ x + delta <= y
      BY <1>3, <1>5, <2>1, <2>2
    <2> HIDE DEF x, y
    <2>5. Late(x + delta)
      BY <1>13, <2>3, <2>4
    <2>6. Late(y)
      BY <1>13, <2>4, <2>5
    <2>7. QED
      BY <2>6 DEF y
  <1>19. Greedy'
    <2>1. ready' # {} \/ running' # {} \/ \E t \in FlowTask : IdleFor(Engine!Chain[t])'
      BY <1>7, <1>14, <1>16
    <2>2. \A t \in ready' : IdleFor(Engine!Chain[t])'
      BY <1>14, <1>17
    <2>3. \A r \in running' : IdleFor(Engine!Chain[r.task] + (engineClock - r.started))'
      BY <1>15, <1>18
    <2>4. QED
      BY <2>1, <2>2, <2>3 DEF Greedy
  <1>20. QED
    BY <1>1, <1>2, <1>8, <1>19

LEMMA GreedyStep == GreedyInv /\ [Engine!Next]_engineVars => GreedyInv'
  <1> SUFFICES ASSUME GreedyInv, [Engine!Next]_engineVars PROVE GreedyInv'
    OBVIOUS
  <1>1. EngineInv'
    BY EngineStep DEF GreedyInv
  <1>2. CASE Engine!Start
    BY <1>1, <1>2, GreedyStart DEF GreedyInv
  <1>3. CASE Engine!Complete
    BY <1>1, <1>3, GreedyComplete DEF GreedyInv
  <1>4. CASE Engine!Finish \/ UNCHANGED engineVars
    <2>1. UNCHANGED <<flow, slots, engineClock, ready, running, attempts, records>>
      BY <1>4 DEF Engine!Finish, engineVars
    <2>2. Engine!Chain' = Engine!Chain /\ Worked(engineClock)' = Worked(engineClock)
      BY <2>1, ChainIs, NextChainIs DEF Worked
    <2>3. \A x : IdleFor(x)' <=> IdleFor(x)
      BY <2>1, <2>2 DEF IdleFor
    <2>4. Numbered'
      BY <2>1 DEF GreedyInv, Numbered
    <2>5. Greedy'
      BY <2>1, <2>2, <2>3 DEF GreedyInv, Greedy
    <2>6. phase' = "finished" => ready' = {} /\ running' = {}
      BY <1>4, <2>1 DEF GreedyInv, Engine!Finish, engineVars
    <2>7. QED
      BY <1>1, <2>4, <2>5, <2>6 DEF GreedyInv
  <1>5. QED
    BY <1>2, <1>3, <1>4 DEF Engine!Next

\* When the run is over, no chain is longer than the longest.
LEMMA GreedyBounds == GreedyInv => GreedyBound
  <1> SUFFICES ASSUME GreedyInv, phase = "finished"
               PROVE  slots * engineClock <= Engine!TimeOf(records) +
                        (slots - 1) * Engine!Max({0} \union {Engine!Chain[t] : t \in FlowTask})
    BY DEF GreedyBound, Engine!GreedyBound
  <1> DEFINE S == {0} \union {Engine!Chain[t] : t \in FlowTask}
             w == Worked(engineClock)
  <1>1. /\ EngineInv /\ Numbered /\ slots \in Nat \ {0} /\ engineClock \in Nat /\ running = {}
        /\ IdleFor(0) \/ \E t \in FlowTask : IdleFor(Engine!Chain[t])
    BY DEF GreedyInv, EngineInv, Greedy, Numbered, FlowTypes
  <1>2. w \in Nat /\ \A t \in FlowTask : Engine!Chain[t] \in Nat
    BY <1>1, GreedyFacts
  <1>3. PICK x \in S : IdleFor(x) /\ x \in Nat
    BY <1>1, <1>2
  <1>4. S \in SUBSET Nat /\ S # {} /\ IsFiniteSet(S)
    <2>1. IsFiniteSet({Engine!Chain[t] : t \in FlowTask})
      <3> DEFINE f == [t \in FlowTask |-> Engine!Chain[t]]
                 T == {Engine!Chain[t] : t \in FlowTask}
      <3>1. f \in Surjection(FlowTask, T)
        BY DEF Surjection
      <3> HIDE DEF f, T
      <3>2. IsFiniteSet(T)
        BY <3>1, WorkflowAssumption, FS_Surjection
      <3>3. QED
        BY <3>2 DEF T
    <2>2. IsFiniteSet(S)
      BY <2>1, FS_AddElement
    <2>3. QED
      BY <1>2, <2>2
  <1>5. w = Engine!TimeOf(records) /\ Engine!TimeOf(records) \in Nat
    <2> DEFINE f == [r \in running |-> engineClock - r.started]
    <2>1. w = Engine!TimeOf(records) + Engine!SumFunction(f) /\ DOMAIN f = {}
      BY <1>1 DEF Worked
    <2> HIDE DEF f
    <2>2. Engine!SumFunction(f) = 0
      BY <2>1, TotalOfNone
    <2>3. Engine!TimeOf(records) \in Nat
      <3>1. /\ IsFiniteSet(records) /\ records \cap {} = {} /\ records \union {} = records
            /\ \A r \in records : Span(r) \in Nat
        BY <1>1, GreedyFacts DEF Numbered
      <3>2. QED
        BY <3>1, FS_EmptySet, TimeOfParts
    <2>4. QED
      BY <2>1, <2>2, <2>3
  <1> DEFINE y == Engine!Max(S)
  <1> HIDE DEF S, w
  <1>6. y \in S /\ x <= y
    BY <1>3, <1>4, EngineMax
  <1>7. y \in Nat
    BY <1>4, <1>6
  <1> HIDE DEF y
  <1>8. Idle(slots, engineClock, w, x)
    BY <1>3 DEF IdleFor, w
  <1>9. Idle(slots, engineClock, w, y)
    BY <1>1, <1>2, <1>3, <1>6, <1>7, <1>8, IdleGrows
  <1>10. QED
    BY <1>5, <1>9 DEF Idle, y, S

\* The workflow engine again: for every graph without cycles, plan of outcomes, order of the
\* ids and number of slots, a finished run has idled no longer than its longest chain allows.
THEOREM GreedyAlwaysBounded == Engine!Spec => []GreedyBound
  <1>1. GreedyInv /\ [Engine!Next]_(Engine!vars) => GreedyInv'
    BY GreedyStep DEF Engine!vars, engineVars
  <1>2. Engine!Spec => []GreedyInv
    BY GreedyStarts, <1>1, PTL DEF Engine!Spec
  <1>3. QED
    BY GreedyBounds, <1>2, PTL
=============================================================================
