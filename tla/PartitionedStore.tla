-------------------------- MODULE PartitionedStore --------------------------
(***************************************************************************)
(* The ReplicatedTaskStore of labs/28-partitioned-store and the            *)
(* ConsistentHashRing that names the owners of its keys.  Writes make      *)
(* immutable versions that the first owners of a key take at once and the  *)
(* others when replication is run; reads ask some of the owners, starting  *)
(* at any of them.  What a version says is left out.                       *)
(***************************************************************************)
EXTENDS Integers, FiniteSets, SequencesExt

(* A ring is the sequence of the nodes that own its points, in the order   *)
(* of their hashes; a key is placed by the number of points at or before   *)
(* its hash.                                                               *)

\* The points from a key's place onwards, once around.
Walk(ring, place) == [i \in 1..Len(ring) |-> ring[((place + i - 1) % Len(ring)) + 1]]

\* The positions at which a node is met for the first time.
FirstMet(walk) == {i \in DOMAIN walk : \A j \in 1..(i - 1) : walk[j] # walk[i]}

\* owners_for_key for every count: its first owners are the first nodes of this.
Preferred(ring, place) ==
    LET walk == Walk(ring, place)
        first == SetToSortSeq(FirstMet(walk), <)
    IN [n \in DOMAIN first |-> walk[first[n]]]

\* A ring without one of its nodes, and where a key is placed there.
Leaving(ring, node) == SelectSeq(ring, LAMBDA n : n # node)
PlaceWithout(ring, place, node) == Cardinality({i \in 1..place : ring[i] # node})

\* A node that leaves, or joins, moves only what it owned, or owns from then on:
\* nobody else's place in the order of a key changes.
MovesOnlyItsOwn(ring) ==
    \A place \in 0..Len(ring), node \in ToSet(ring) :
        Preferred(Leaving(ring, node), PlaceWithout(ring, place, node))
            = SelectSeq(Preferred(ring, place), LAMBDA n : n # node)

-----------------------------------------------------------------------------

CONSTANTS
    Node, Key,
    Preference,     \* the nodes in the order in which the ring prefers them for a key
    Quorum,         \* the QuorumConfigs a store may have
    MaxVersions     \* bound on the versions written

\* QuorumConfig and the store refuse any other configuration, and a ring names
\* every node once for a key.
ASSUME QuorumAssumption ==
    /\ \A q \in Quorum : /\ q \in [copies : Nat, read : Nat, write : Nat]
                         /\ q.read \in 1..q.copies /\ q.write \in 1..q.copies
    /\ \A k \in Key, q \in Quorum :
          /\ Preference[k] \in Seq(Node) /\ IsInjective(Preference[k])
          /\ q.copies <= Len(Preference[k])

ASSUME BoundAssumption == MaxVersions \in Nat

VARIABLES
    quorum,
    replica,    \* the versions each node holds
    pending,    \* the replica updates that wait: pairs of a node and a version
    last        \* the id of the newest version

vars == <<quorum, replica, pending, last>>

VersionId == 1..MaxVersions
Version == [id : VersionId, key : Key, parents : SUBSET VersionId]

Init ==
    /\ quorum \in Quorum
    /\ replica = [n \in Node |-> {}]
    /\ pending = {}
    /\ last = 0

-----------------------------------------------------------------------------

Owner(k, i) == Preference[k][i]

Acknowledging(k) == {Owner(k, i) : i \in 1..quorum.write}
Deferred(k) == {Owner(k, i) : i \in (quorum.write + 1)..quorum.copies}

VersionsOf(n, k) == {v \in replica[n] : v.key = k}

\* Everything that some owner of a key holds.
Known(k) == UNION {VersionsOf(Owner(k, i), k) : i \in 1..quorum.copies}

\* _head_versions: what no other version in sight names as a parent.
Heads(versions) ==
    {v \in versions : \A w \in versions : v.id \notin w.parents}

BugTooFew(offset) ==
    {(((offset % quorum.copies) + i) % quorum.copies) + 1 : i \in 0..(quorum.read - 2)}

\* The places, in a key's order, that a read asks.
Contacted(offset) ==
    {(((offset % quorum.copies) + i) % quorum.copies) + 1 : i \in 0..(quorum.read - 1)}

\* read_task; it raises when nothing is in sight.
Read(k, offset) == Heads(UNION {VersionsOf(Owner(k, i), k) : i \in Contacted(offset)})

\* write_task: a version may observe any versions the owners know.
WriteTask(k, observed) ==
    /\ last < MaxVersions
    /\ observed \subseteq {v.id : v \in Known(k)}
    /\ LET version == [id |-> last + 1, key |-> k, parents |-> observed]
       IN /\ replica' = [n \in Node |-> IF n \in Acknowledging(k)
                                        THEN replica[n] \union {version} ELSE replica[n]]
          /\ pending' = pending \union (Deferred(k) \X {version})
    /\ last' = last + 1
    /\ UNCHANGED quorum

BugNewestOnly(n) ==
    {v \in Version : <<n, v>> \in pending /\ \A u \in pending : u[2].key = v.key => u[2].id <= v.id}

Arriving(n) == {u[2] : u \in {w \in pending : w[1] = n}}

\* replicate_pending: everything that waits is applied.
ReplicatePending ==
    /\ pending # {}
    /\ replica' = [n \in Node |-> replica[n] \union Arriving(n)]
    /\ pending' = {}
    /\ UNCHANGED <<quorum, last>>

Next ==
    \/ \E k \in Key, observed \in SUBSET (1..last) : WriteTask(k, observed)
    \/ ReplicatePending

Spec == Init /\ [][Next]_vars

-----------------------------------------------------------------------------

TypeOK ==
    /\ quorum \in Quorum
    /\ replica \in [Node -> SUBSET Version]
    /\ pending \subseteq Node \X Version
    /\ last \in 0..MaxVersions

Strong == quorum.read + quorum.write > quorum.copies

\* A read sees the newest versions, whatever owner it starts at: always when the read
\* and the write quorum overlap, and otherwise once nothing waits to be replicated.
ReadsSeeHeads ==
    Strong \/ pending = {} =>
        \A k \in Key, offset \in 0..(quorum.copies - 1) : Read(k, offset) = Heads(Known(k))

\* The ids a version supersedes, directly or not: those in every set that has its
\* parents and, with the id of a version, the parents of that one.
Superseded(v, versions) ==
    {id \in VersionId : \A S \in SUBSET VersionId :
        v.parents \subseteq S /\ (\A w \in versions : w.id \in S => w.parents \subseteq S)
            => id \in S}

\* Siblings are concurrent: even a stale read never returns a version together with
\* one that supersedes it, although heads are found by direct parents alone.
SiblingsConcurrent ==
    \A k \in Key, offset \in 0..(quorum.copies - 1) :
        \A v, w \in Read(k, offset) : v.id \notin Superseded(w, Known(k))
=============================================================================
