--------------------------- MODULE ProjectScheduler ---------------------------
(* The resource scheduler of lab 38: heartbeats, submission, placement under
   quotas, the life cycle of a job and the recovery of leases, for callers of
   whom one leads.  Its calls come one after another and each is one step; the
   caller brings the time.  Every change of a job is an entry of the log. *)
EXTENDS Integers, Sequences, FiniteSets, FiniteSetsExt

CONSTANTS Caller, Node,      \* node ids, naturals so that ties break as on text ids
          Submission,        \* [project, request, priority, max]
          Report,            \* what a node reports of itself
          Quota,             \* some projects' quotas
          Now, Lease, HeartbeatTimeout,
          MaxTerm, MaxJobs, MaxLog    \* bounds; MaxLog is below 10

Job == 1..MaxJobs

VARIABLES nodes, jobs, allocations, log, leader, term
vars == <<nodes, jobs, allocations, log, leader, term>>

Absent == [at |-> -1]
NoJob == [state |-> "none"]
NoLeader == "none"
Active == {"scheduled", "running"}
Live == Active \union {"queued"}

\* What ResourceRequest, NodeInventory and ProjectQuota accept.  A class of 0 and
\* an empty numa stand for None.
ValidRequest(q) ==
    /\ q.cores > 0 /\ q.memory > 0
    /\ q.class # 0 => q.gpus > 0
    /\ q.affinity # {} => Cardinality(q.affinity) >= q.cores
ValidReport(r) ==
    /\ r.cpus # {} /\ r.memory > 0
    /\ \A d \in DOMAIN r.numa : r.numa[d] \subseteq r.cpus
    /\ IsInjective([i \in DOMAIN r.gpus |-> r.gpus[i].id])

-----------------------------------------------------------------------------
(* Fitting a job on a node; s is a state of the books [jobs, allocations, log] *)

EligibleCpus(q, r) ==
    {c \in IF q.affinity # {} THEN q.affinity ELSE r.cpus :
        q.numa # {} => \E d \in q.numa \intersect DOMAIN r.numa : c \in r.numa[d]}
EligibleGpus(q, r) ==
    {i \in DOMAIN r.gpus : /\ q.class # 0 => r.gpus[i].class = q.class
                           /\ q.numa # {} => r.gpus[i].numa \in q.numa}
StaticFit(q, r) ==
    /\ q.labels \subseteq r.labels /\ q.memory <= r.memory
    /\ Cardinality(EligibleCpus(q, r)) >= q.cores
    /\ Cardinality(EligibleGpus(q, r)) >= q.gpus

On(s, n) == {a \in s.allocations : a.node = n}
UsedCpus(s, n) == UNION {a.cpus : a \in On(s, n)}
UsedGpus(s, n) == UNION {a.gpus : a \in On(s, n)}
UsedMemory(s, n) == SumFunction([a \in On(s, n) |-> a.memory])
FreeCpus(s, q, n) == EligibleCpus(q, nodes[n].report) \ UsedCpus(s, n)
FreeGpus(s, q, n) ==
    {i \in EligibleGpus(q, nodes[n].report) : nodes[n].report.gpus[i].id \notin UsedGpus(s, n)}

AvailableFit(s, q, n) ==
    /\ StaticFit(q, nodes[n].report)
    /\ Cardinality(FreeCpus(s, q, n)) >= q.cores
    /\ UsedMemory(s, n) + q.memory <= nodes[n].report.memory
    /\ Cardinality(FreeGpus(s, q, n)) >= q.gpus

\* The best fit leaves least; eligible GPUs are on the NUMA node that is asked for
\* already, so that the penalty for remote ones never counts.
Score(s, n) ==
    <<Cardinality(nodes[n].report.cpus) - Cardinality(UsedCpus(s, n)),
      nodes[n].report.memory - UsedMemory(s, n), n>>
Less(a, b) ==
    \E i \in DOMAIN a : a[i] < b[i] /\ \A k \in 1..(i - 1) : a[k] = b[k]

\* What a project's allocations take together.
Of(s, p) == {a \in s.allocations : a.project = p}
Cores(s, p) == SumFunction([a \in Of(s, p) |-> Cardinality(a.cpus)])
Memory(s, p) == SumFunction([a \in Of(s, p) |-> a.memory])
Gpus(s, p) == SumFunction([a \in Of(s, p) |-> Cardinality(a.gpus)])

WithinQuota(s, j) ==
    LET p == jobs[j].project
        q == jobs[j].request
    IN p \in DOMAIN Quota =>
          /\ Cardinality(Of(s, p)) + 1 <= Quota[p].jobs
          /\ Cores(s, p) + q.cores <= Quota[p].cores
          /\ Memory(s, p) + q.memory <= Quota[p].memory
          /\ Gpus(s, p) + q.gpus <= Quota[p].gpus

-----------------------------------------------------------------------------
(* Changes of the books *)

Books == [jobs |-> jobs, allocations |-> allocations, log |-> log]
Keep(s) == jobs' = s.jobs /\ allocations' = s.allocations /\ log' = s.log

Logged(s, event, j, n) ==
    Append(s.log, [event |-> event, job |-> j, node |-> n, term |-> term])

Transition(s, j, state, event, n) ==
    [jobs |-> [s.jobs EXCEPT ![j].state = state],
     allocations |-> s.allocations,
     log |-> Logged(s, event, j, n)]

Released(s, held) ==
    [jobs |-> s.jobs, allocations |-> s.allocations \ held, log |-> s.log]

First(S, k) == {x \in S : Cardinality({y \in S : y < x}) < k}

Reserve(s, j, n, now, lease) ==
    LET job == s.jobs[j]
        q == job.request
        id == Len(s.log) + 1
        gpus == {nodes[n].report.gpus[i].id : i \in First(FreeGpus(s, q, n), q.gpus)}
    IN [jobs |-> [s.jobs EXCEPT ![j] = [job EXCEPT !.state = "scheduled", !.attempts = @ + 1]],
        allocations |-> s.allocations \union
            {[id |-> id, job |-> j, node |-> n, project |-> job.project,
              cpus |-> First(FreeCpus(s, q, n), q.cores), memory |-> q.memory,
              gpus |-> gpus, until |-> now + lease]},
        log |-> Logged(s, "reserved", j, n)]

Expire(s, a) ==
    LET again == s.jobs[a.job].attempts < s.jobs[a.job].max
    IN Released(Transition(s, a.job, IF again THEN "queued" ELSE "failed",
                           "lease-expired", a.node), {a})

\* A fold takes the last element off, so that the others are dealt with before it.
LastReserved(due) == CHOOSE a \in due : \A b \in due : b.id <= a.id

Recovered(s, now) ==
    MapThenFoldSet(LAMBDA a, t : Expire(t, a), s, LAMBDA a : a, LastReserved,
                   {a \in s.allocations : a.until <= now})

Candidates(s, j, now) ==
    {n \in Node : /\ nodes[n] # Absent
                  /\ now - nodes[n].at <= HeartbeatTimeout
                  /\ AvailableFit(s, jobs[j].request, n)}

Placed(s, j, now, lease) ==
    LET candidates == Candidates(s, j, now)
        best == CHOOSE n \in candidates :
                    \A m \in candidates \ {n} : Less(Score(s, n), Score(s, m))
    IN IF WithinQuota(s, j) /\ candidates # {} THEN Reserve(s, j, best, now, lease) ELSE s

Rank(s, j) == <<-s.jobs[j].priority, s.jobs[j].sequence>>
LastQueued(s, todo) == CHOOSE j \in todo : \A i \in todo : ~Less(Rank(s, j), Rank(s, i))
Queued(s) == {j \in Job : s.jobs[j].state = "queued"}

Pass(s, now, lease) ==
    MapThenFoldSet(LAMBDA j, t : Placed(t, j, now, lease), s, LAMBDA j : j,
                   LAMBDA todo : LastQueued(s, todo), Queued(s))

-----------------------------------------------------------------------------
(* The calls; one that raises changes nothing and is no step *)

Init ==
    /\ nodes = [n \in Node |-> Absent]
    /\ jobs = [j \in Job |-> NoJob]
    /\ allocations = {}
    /\ log = <<>>
    /\ leader = NoLeader
    /\ term = 0

BecomeLeader(c, t) ==
    /\ t > term
    /\ leader' = c
    /\ term' = t
    /\ UNCHANGED <<nodes, jobs, allocations, log>>

Heartbeat(n, report, at) ==
    /\ ValidReport(report)
    /\ at >= nodes[n].at
    /\ nodes' = [nodes EXCEPT ![n] = [at |-> at, report |-> report]]
    /\ UNCHANGED <<jobs, allocations, log, leader, term>>

Registered == {n \in Node : nodes[n] # Absent}
Submissions == Cardinality({i \in DOMAIN log : log[i].event = "submitted"})

\* Job ids are compared for being equal only: callers use them one after another.
NextJob == Cardinality({j \in Job : jobs[j] # NoJob}) + 1

\* Whoever submits need not lead.
Submit(j, sub) ==
    /\ jobs[j] = NoJob
    /\ ValidRequest(sub.request)
    /\ Registered # {} => \E n \in Registered : StaticFit(sub.request, nodes[n].report)
    /\ jobs' = [jobs EXCEPT ![j] =
           [state |-> "queued", attempts |-> 0, project |-> sub.project, max |-> sub.max,
            request |-> sub.request, priority |-> sub.priority, sequence |-> Submissions + 1]]
    /\ log' = Logged(Books, "submitted", j, 0)
    /\ UNCHANGED <<nodes, allocations, leader, term>>

Schedule(c, now, lease) ==
    /\ c = leader
    /\ Keep(Pass(Recovered(Books, now), now, lease))
    /\ UNCHANGED <<nodes, leader, term>>

RecoverExpired(c, now) ==
    /\ c = leader
    /\ Keep(Recovered(Books, now))
    /\ UNCHANGED <<nodes, leader, term>>

MarkRunning(c, a) ==
    /\ c = leader
    /\ jobs[a.job].state = "scheduled"
    /\ Keep(Transition(Books, a.job, "running", "running", a.node))
    /\ UNCHANGED <<nodes, leader, term>>

Complete(c, a, state) ==
    /\ c = leader
    /\ jobs[a.job].state \in Active
    /\ Keep(Released(Transition(Books, a.job, state, state, a.node), {a}))
    /\ UNCHANGED <<nodes, leader, term>>

BugKeepsAllocation(c, j) ==
    /\ c = leader
    /\ jobs[j].state \in Live
    /\ Keep(Transition(Books, j, "cancelled", "cancelled", 0))
    /\ UNCHANGED <<nodes, leader, term>>

Cancel(c, j) ==
    /\ c = leader
    /\ jobs[j].state \in Live
    /\ LET held == {a \in allocations : a.job = j}
           after == Transition(Books, j, "cancelled", "cancelled",
                               IF held = {} THEN 0 ELSE (CHOOSE a \in held : TRUE).node)
       IN Keep(Released(after, held))
    /\ UNCHANGED <<nodes, leader, term>>

Next ==
    /\ Len(log) < MaxLog
    /\ \/ \E c \in Caller, t \in 1..MaxTerm : BecomeLeader(c, t)
       \/ \E n \in Node, r \in Report, at \in Now : Heartbeat(n, r, at)
       \/ \E sub \in Submission : NextJob \in Job /\ Submit(NextJob, sub)
       \/ \E c \in Caller, now \in Now, lease \in Lease : Schedule(c, now, lease)
       \/ \E c \in Caller, now \in Now : RecoverExpired(c, now)
       \/ \E c \in Caller, a \in allocations :
             MarkRunning(c, a) \/ Complete(c, a, "succeeded") \/ Complete(c, a, "failed")
       \/ \E c \in Caller, j \in Job : Cancel(c, j)

Spec == Init /\ [][Next]_vars

-----------------------------------------------------------------------------

\* What every project with a quota holds is within it.
QuotasKept(s) ==
    \A p \in DOMAIN Quota :
        /\ Cardinality(Of(s, p)) <= Quota[p].jobs
        /\ Cores(s, p) <= Quota[p].cores
        /\ Memory(s, p) <= Quota[p].memory
        /\ Gpus(s, p) <= Quota[p].gpus

About(s, j) == {i \in DOMAIN s.log : s.log[i].job = j}
LastAbout(s, j) == s.log[Max(About(s, j))]
Reservations(s, j) == Cardinality({i \in About(s, j) : s.log[i].event = "reserved"})

\* The state in which the last event about a job leaves it.
StateAfter(s, j) ==
    LET event == LastAbout(s, j).event
    IN CASE event = "submitted" -> "queued"
         [] event = "reserved" -> "scheduled"
         [] event = "lease-expired" ->
               IF Reservations(s, j) < s.jobs[j].max THEN "queued" ELSE "failed"
         [] OTHER -> event

JobTold(s, j) ==
    /\ s.jobs[j].state = StateAfter(s, j)
    /\ s.jobs[j].attempts = Reservations(s, j) /\ s.jobs[j].attempts <= s.jobs[j].max
    /\ Cardinality({a \in s.allocations : a.job = j}) =
          IF s.jobs[j].state \in Active THEN 1 ELSE 0

\* Two allocations on one node share no CPU and no GPU.
Apart(s) ==
    \A a, b \in s.allocations : a # b /\ a.node = b.node =>
        a.cpus \intersect b.cpus = {} /\ a.gpus \intersect b.gpus = {}

\* However calls, leaders and heartbeats follow each other, what a project holds
\* stays within its quota.
QuotaKept == QuotasKept(Books)

\* The log alone tells the state of every job, how often it was attempted, and which
\* job holds an allocation, on the node of its last event; no two allocations share a
\* CPU or a GPU.
LogTellsAll ==
    /\ \A j \in Job : jobs[j] # NoJob => JobTold(Books, j)
    /\ \A a \in allocations : a.node = LastAbout(Books, a.job).node
    /\ Apart(Books)
=============================================================================
