------------------------------ MODULE WorkerPool ------------------------------
(* The worker pool of lab 11 over a queue with visibility timeouts.  Callers
   submit while worker threads reserve, run a handler and acknowledge; a lease
   that runs out puts its task back in front of the others.  The queue guards
   itself with one condition and the snapshots with one lock, so that a worker
   may be preempted between any two of its calls.  A KeyError ends its thread,
   and so does an answer of the handler that is no disposition. *)
EXTENDS Integers, FiniteSets, Sequences

CONSTANTS Worker, Task, Timeout,
          MaxTime, MaxDeliveries, MaxPuts    \* bounds

VARIABLES clock, entries,
          submitting,    \* calls of submit between the queue and the snapshot
          snapshots, worker, stopped, dead
vars == <<clock, entries, submitting, snapshots, worker, stopped, dead>>

NoSnapshot == "none"
Idle == [at |-> "loop"]

Init ==
    /\ clock = 0
    /\ entries = <<>>
    /\ submitting = [t \in Task |-> 0]
    /\ snapshots = [t \in Task |-> NoSnapshot]
    /\ worker = [w \in Worker |-> Idle]
    /\ stopped = FALSE
    /\ dead = {}

\* submit puts the task on the queue before its snapshot exists; a task may be submitted
\* again, and its snapshot is then queued whatever became of the first.
Put(t) ==
    /\ Len(entries) < MaxPuts
    /\ submitting' = [submitting EXCEPT ![t] = @ + 1]
    /\ entries' = Append(entries, [task |-> t, visible |-> clock, lease |-> 0, acked |-> FALSE])
    /\ UNCHANGED <<clock, snapshots, worker, stopped, dead>>

Announce(t) ==
    /\ submitting[t] > 0
    /\ submitting' = [submitting EXCEPT ![t] = @ - 1]
    /\ snapshots' = [snapshots EXCEPT ![t] = "queued"]
    /\ UNCHANGED <<clock, entries, worker, stopped, dead>>

Shutdown == stopped' = TRUE /\ UNCHANGED <<clock, entries, submitting, snapshots, worker, dead>>

Advance ==
    /\ clock < MaxTime
    /\ clock' = clock + 1
    /\ UNCHANGED <<entries, submitting, snapshots, worker, stopped, dead>>

-----------------------------------------------------------------------------
(* One worker; a lease is the position of its entry and its delivery count *)

Goes(w, state) == worker' = [worker EXCEPT ![w] = state]

Visible == {i \in DOMAIN entries : ~entries[i].acked /\ entries[i].visible <= clock}

Leased(i) == [entries EXCEPT ![i].lease = @ + 1, ![i].visible = clock + Timeout]

\* The oldest entry that is visible; reserve answers None when none becomes so in time.
Reserve(w) ==
    /\ worker[w] = Idle /\ ~stopped
    /\ Visible # {}
    /\ LET i == CHOOSE j \in Visible : \A k \in Visible : j <= k
       IN /\ entries[i].lease < MaxDeliveries
          /\ entries' = Leased(i)
          /\ Goes(w, [at |-> "reserved", entry |-> i, lease |-> entries[i].lease + 1,
                      until |-> clock + Timeout])
    /\ UNCHANGED <<clock, submitting, snapshots, stopped, dead>>

Dies(w) == dead' = dead \union {w} /\ Goes(w, Idle)

\* _record, which ends the thread when submit has not written the snapshot yet.
Record(w, state, after) ==
    LET t == entries[worker[w].entry].task
    IN IF snapshots[t] = NoSnapshot
       THEN Dies(w) /\ UNCHANGED snapshots
       ELSE /\ snapshots' = [snapshots EXCEPT ![t] = state]
            /\ Goes(w, after)
            /\ UNCHANGED dead

RecordRunning(w) ==
    /\ worker[w].at = "reserved"
    /\ Record(w, "running", [worker[w] EXCEPT !.at = "handling"])
    /\ UNCHANGED <<clock, entries, submitting, stopped>>

\* The handler succeeds, fails or raises, or answers with what is no disposition; a lost
\* worker gives nothing back but the snapshot.
Handle(w, outcome) ==
    /\ worker[w].at = "handling"
    /\ Goes(w, [worker[w] EXCEPT !.at = outcome])
    /\ UNCHANGED <<clock, entries, submitting, snapshots, stopped, dead>>

RecordLost(w) ==
    /\ worker[w].at = "lost"
    /\ Record(w, "queued", Idle)
    /\ UNCHANGED <<clock, entries, submitting, stopped>>

BugAnyLease(w) == ~entries[worker[w].entry].acked

Holds(w) ==
    LET e == entries[worker[w].entry]
    IN ~e.acked /\ e.lease = worker[w].lease

\* A lease that was given on or whose task is acknowledged is unknown to the queue.
Acknowledge(w) ==
    /\ worker[w].at \in {"succeeded", "failed", "unsupported"}
    /\ IF Holds(w)
       THEN /\ entries' = [entries EXCEPT ![worker[w].entry].acked = TRUE]
            /\ Goes(w, [at |-> "acknowledged", entry |-> worker[w].entry,
                        lease |-> worker[w].lease, outcome |-> worker[w].at])
            /\ UNCHANGED dead
       ELSE Dies(w) /\ UNCHANGED entries
    /\ UNCHANGED <<clock, submitting, snapshots, stopped>>

RecordOutcome(w) ==
    /\ worker[w].at = "acknowledged"
    /\ IF worker[w].outcome = "unsupported" THEN Dies(w) /\ UNCHANGED snapshots
       ELSE Record(w, worker[w].outcome, Idle)
    /\ UNCHANGED <<clock, entries, submitting, stopped>>

Step(w) ==
    /\ w \notin dead
    /\ \/ Reserve(w) \/ RecordRunning(w)
       \/ \E outcome \in {"succeeded", "failed", "lost", "unsupported"} : Handle(w, outcome)
       \/ RecordLost(w) \/ Acknowledge(w) \/ RecordOutcome(w)

Next ==
    \/ \E t \in Task : Put(t) \/ Announce(t)
    \/ Shutdown \/ Advance
    \/ \E w \in Worker : Step(w)

Spec == Init /\ [][Next]_vars

-----------------------------------------------------------------------------

\* Workers whose lease of an entry still runs.
HoldersOf(i) ==
    {w \in Worker : /\ worker[w].at \in {"reserved", "handling", "succeeded", "failed", "unsupported"}
                    /\ worker[w].entry = i /\ worker[w].until > clock}

\* However long handlers run and threads are preempted: one worker at a time has a
\* running lease of a task; what is not acknowledged comes back within the timeout,
\* also when its worker died; a task with a final snapshot has been acknowledged;
\* and every acknowledgement was the last delivery's.
LeasesHold ==
    /\ \A i \in DOMAIN entries :
          /\ Cardinality(HoldersOf(i)) <= 1
          /\ ~entries[i].acked => entries[i].visible <= clock + Timeout
    /\ \A t \in Task : snapshots[t] \in {"succeeded", "failed"} =>
          \E i \in DOMAIN entries : entries[i].task = t /\ entries[i].acked
    /\ \A w \in Worker : worker[w].at = "acknowledged" =>
          worker[w].lease = entries[worker[w].entry].lease
=============================================================================
