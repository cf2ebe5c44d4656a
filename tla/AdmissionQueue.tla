--------------------------- MODULE AdmissionQueue ---------------------------
(***************************************************************************)
(* The AdmissionController of labs/33-load-shedding: a few workers, a      *)
(* bounded queue before them and a caller who brings the time.  The queue  *)
(* is advanced lazily, when a message is submitted or the caller asks for  *)
(* it, by everything that was due until then.  Messages are numbered in    *)
(* the order of their submission.                                          *)
(***************************************************************************)
EXTENDS Integers, FiniteSets, Sequences

CONSTANTS
    Workers, QueueLimit, ServiceTime,
    MaxMessages,    \* bound on the messages submitted
    MaxTime         \* bound on the caller's clock

VARIABLES
    now,            \* the latest time the caller has brought
    pending,        \* _queue
    inflight,       \* _inflight
    completed,
    submitted       \* how many messages were submitted so far

vars == <<now, pending, inflight, completed, submitted>>

Init ==
    /\ now = 0
    /\ pending = <<>>
    /\ inflight = {}
    /\ completed = {}
    /\ submitted = 0

Started(m, accepted, at) ==
    [id |-> m, accepted |-> accepted, started |-> at, completes |-> at + ServiceTime]

\* The item that completes next; of several the one that started first.
NextDue(busy) ==
    CHOOSE i \in busy : \A j \in busy :
        i.completes < j.completes \/ (i.completes = j.completes /\ i.id <= j.id)

BugStartsLate(s, item, at) == Started(Head(s.pending).id, Head(s.pending).accepted, at)

\* The first one waiting takes over the moment a worker becomes free.
TakesOver(s, item, at) == Started(Head(s.pending).id, Head(s.pending).accepted, item.completes)

CompleteOne(s, at) ==
    IF s.inflight = {} \/ NextDue(s.inflight).completes > at THEN s
    ELSE LET item == NextDue(s.inflight)
             left == s.inflight \ {item}
         IN [completed |-> s.completed \union {item},
             inflight |-> IF s.pending = <<>> THEN left
                          ELSE left \union {TakesOver(s, item, at)},
             pending |-> IF s.pending = <<>> THEN <<>> ELSE Tail(s.pending)]

State == [pending |-> pending, inflight |-> inflight, completed |-> completed]

\* advance_to: complete until nothing is due, which is after that many at most.
Advanced(at) ==
    LET most == Len(pending) + Cardinality(inflight)
        after[k \in 0..most] == IF k = 0 THEN State ELSE CompleteOne(after[k - 1], at)
    IN after[most]

Becomes(s) ==
    /\ pending' = s.pending
    /\ inflight' = s.inflight
    /\ completed' = s.completed

AdvanceTo(at) ==
    /\ at > now
    /\ now' = at
    /\ Becomes(Advanced(at))
    /\ UNCHANGED submitted

HasRoom(s) == Cardinality(s.inflight) < Workers \/ Len(s.pending) < QueueLimit

\* submit: started at once, queued or shed.
Submit(at) ==
    LET s == Advanced(at)  m == submitted + 1
    IN /\ m <= MaxMessages
       /\ now' = at
       /\ submitted' = m
       /\ \/ /\ Cardinality(s.inflight) < Workers
             /\ Becomes([s EXCEPT !.inflight = @ \union {Started(m, at, at)}])
          \/ /\ Cardinality(s.inflight) >= Workers /\ Len(s.pending) < QueueLimit
             /\ Becomes([s EXCEPT !.pending = Append(@, [id |-> m, accepted |-> at])])
          \/ /\ ~HasRoom(s)
             /\ Becomes(s)

LatestOf(items) == (CHOOSE i \in items : \A j \in items : j.completes <= i.completes).completes

\* drain: everything accepted is completed.  Whoever comes afterwards brings a
\* time at which that has happened.
Drain ==
    /\ inflight # {}
    /\ Becomes(Advanced(MaxTime + (QueueLimit + 1) * ServiceTime))
    /\ now' = LatestOf(completed')
    /\ UNCHANGED submitted

Next ==
    \/ \E at \in 0..MaxTime : AdvanceTo(at)
    \/ \E at \in now..MaxTime : Submit(at)
    \/ Drain

Spec == Init /\ [][Next]_vars

-----------------------------------------------------------------------------

Rounds == (QueueLimit + Workers - 1) \div Workers

\* Overload keeps latency bounded: whoever is accepted waits for no more services
\* than it takes the workers to go through a full queue, and is served in turn,
\* however rarely the controller is advanced.
LatencyBounded ==
    \A c \in completed \union inflight :
        /\ c.completes - c.accepted <= ServiceTime * (1 + Rounds)
        /\ \A d \in completed \union inflight : c.id < d.id => c.started <= d.started
        /\ \A k \in 1..Len(pending) : c.id < pending[k].id
=============================================================================
