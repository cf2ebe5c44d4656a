----------------------------- MODULE QuorumRegister -----------------------------
(* The quorum register of lab 23: replicas that keep the newest version of every
   task, partitions that come and go, and coordinators that read and write any
   quorum they reach.  A read or a write is one step.  The clock gives every write
   a tick of its own, so that a version is its tick. *)
EXTENDS Integers, FiniteSets, FiniteSetsExt

CONSTANTS Node,        \* naturals, so that they are sorted as text ids are
          Key, Quorum, \* the [read, write] quorums that callers may agree on
          Partition,   \* the partitions of Node the network may fall into
          MaxTick      \* bound

VARIABLES tick, store, groups,
          quorum,      \* the sizes the callers use
          written,     \* the last version each write of a key returned
          result       \* what the last read returned
vars == <<tick, store, groups, quorum, written, result>>

Nothing == 0
Healed == {Node}
Majority == Cardinality(Node) \div 2 + 1

\* quorums_intersect.
Intersect(q) == q.read + q.write > Cardinality(Node)

\* from_groups takes no others.
Covers(g) == UNION g = Node /\ {} \notin g /\ \A a, b \in g : a # b => a \intersect b = {}

Init ==
    /\ tick = 0
    /\ store = [n \in Node |-> [k \in Key |-> Nothing]]
    /\ groups = Healed
    /\ quorum \in Quorum
    /\ written = [k \in Key |-> Nothing]
    /\ result = [key |-> "none"]

Reachable(n) == CHOOSE g \in groups : n \in g

BugTakesWhatItReaches(n, required) == {S \in SUBSET Reachable(n) : Cardinality(S) <= required /\ S # {}}

\* The quorums a coordinator may be given: any that it reaches entirely, the first of
\* what it reaches among them.
Selections(n, required) == {S \in SUBSET Reachable(n) : Cardinality(S) = required}

SetPartition(g) ==
    /\ Covers(g)
    /\ groups' = g
    /\ UNCHANGED <<tick, store, quorum, written, result>>

Newer(old, new) == IF old <= new THEN new ELSE old

\* Without a quorum it raises before the clock advances.
WriteTask(k, n) ==
    /\ tick < MaxTick
    /\ \E S \in Selections(n, quorum.write) :
          store' = [m \in Node |-> IF m \in S THEN [store[m] EXCEPT ![k] = Newer(@, tick + 1)]
                                   ELSE store[m]]
    /\ tick' = tick + 1
    /\ written' = [written EXCEPT ![k] = tick + 1]
    /\ UNCHANGED <<groups, quorum, result>>

Latest(k, S) == Max({store[m][k] : m \in S})

\* UnknownTask is raised when no replica of the quorum has a version.
ReadTask(k, n) ==
    /\ \E S \in Selections(n, quorum.read) :
          /\ Latest(k, S) # Nothing
          /\ result' = [key |-> k, version |-> Latest(k, S), asked |-> S,
                        stale |-> Latest(k, S) < Latest(k, Node), written |-> written[k]]
    /\ UNCHANGED <<tick, store, groups, quorum, written>>

Next ==
    \/ \E g \in Partition : SetPartition(g)
    \/ \E k \in Key, n \in Node : WriteTask(k, n) \/ ReadTask(k, n)

Spec == Init /\ [][Next]_vars

-----------------------------------------------------------------------------

\* Whatever partitions reads and writes went through: with quorums that intersect a read
\* returns the version the last write returned; otherwise it says that it is stale
\* exactly when it does not.  Majorities intersect.
ReadsLatest ==
    /\ result.key \in Key =>
          /\ Intersect(quorum) => result.version = result.written
          /\ result.stale <=> result.version # result.written
    /\ quorum.read >= Majority /\ quorum.write >= Majority => Intersect(quorum)
=============================================================================
