----------------------------- MODULE LogicalClocks -----------------------------
(* The replicas of lab 22: each records updates of its own and observes those of
   others, late, in any order and more than once, and stamps what it records with
   a Lamport clock for all tasks and a vector clock per task.  Wall time is left
   out.  What an update could know of, through any task and through its own task
   alone, is kept for the properties. *)
EXTENDS Integers, FiniteSets

CONSTANTS Replica, Task,
          MaxUpdates, MaxCounter    \* bounds

VARIABLES updates,     \* all updates ever recorded
          lamport, vectors,
          knows,       \* the updates each replica could know of
          seen         \* those that a task's own updates told it
vars == <<updates, lamport, vectors, knows, seen>>

Zero == [r \in Replica |-> 0]
Larger(a, b) == IF a > b THEN a ELSE b

Init ==
    /\ updates = {}
    /\ lamport = Zero
    /\ vectors = [r \in Replica |-> [t \in Task |-> Zero]]
    /\ knows = [r \in Replica |-> {}]
    /\ seen = [r \in Replica |-> [t \in Task |-> {}]]

Merge(v, w) == [r \in Replica |-> Larger(v[r], w[r])]

\* A missing entry counts as zero.
Compare(v, w) ==
    LET less == \E r \in Replica : v[r] < w[r]
        greater == \E r \in Replica : v[r] > w[r]
    IN CASE ~less /\ ~greater -> "equal"
         [] less /\ ~greater -> "before"
         [] greater /\ ~less -> "after"
         [] OTHER -> "concurrent"

Id(u) == [counter |-> u.lamport, node |-> u.actor]

RecordLocalUpdate(r, t) ==
    LET vector == [vectors[r][t] EXCEPT ![r] = @ + 1]
        update == [task |-> t, actor |-> r, lamport |-> lamport[r] + 1, vector |-> vector,
                   past |-> knows[r], told |-> seen[r][t]]
    IN /\ Cardinality(updates) < MaxUpdates
       /\ updates' = updates \union {update}
       /\ lamport' = [lamport EXCEPT ![r] = @ + 1]
       /\ vectors' = [vectors EXCEPT ![r][t] = vector]
       /\ knows' = [knows EXCEPT ![r] = @ \union {Id(update)}]
       /\ seen' = [seen EXCEPT ![r][t] = @ \union {Id(update)}]

Observed(r, u) == Larger(lamport[r], u.lamport) + 1

ObserveRemoteUpdate(r, u) ==
    /\ Observed(r, u) <= MaxCounter
    /\ vectors' = [vectors EXCEPT ![r][u.task] = Merge(@, u.vector)]
    /\ lamport' = [lamport EXCEPT ![r] = Observed(r, u)]
    /\ knows' = [knows EXCEPT ![r] = @ \union {Id(u)} \union u.past]
    /\ seen' = [seen EXCEPT ![r][u.task] = @ \union {Id(u)} \union u.told]
    /\ UNCHANGED updates

Next == \E r \in Replica :
    \/ \E t \in Task : RecordLocalUpdate(r, t)
    \/ \E u \in updates : ObserveRemoteUpdate(r, u)

Spec == Init /\ [][Next]_vars

-----------------------------------------------------------------------------

\* logical_order sorts by these.
Earlier(u, v) ==
    \/ u.lamport < v.lamport
    \/ u.lamport = v.lamport /\ u.actor < v.actor

\* In whatever order updates are observed: the vectors of one task's updates tell which
\* was told of which and which are concurrent, as far as that task's own updates go; the
\* Lamport order keeps to what could be known through any task; and no two updates
\* share a stamp.
ClocksTellCausality ==
    \A u, v \in updates : u # v =>
        /\ Earlier(u, v) \/ Earlier(v, u)
        /\ Id(u) \in v.past => Earlier(u, v)
        /\ u.task = v.task =>
              Compare(u.vector, v.vector) =
                  IF Id(u) \in v.told THEN "before"
                  ELSE IF Id(v) \in u.told THEN "after" ELSE "concurrent"
=============================================================================
