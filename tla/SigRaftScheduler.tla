-------------------------- MODULE SigRaftScheduler --------------------------
(* The resource scheduler of the SigRaft service: node heartbeats, submission,
   placement passes and lease recovery.  Requests run on the threads of a
   ThreadingHTTPServer and the scheduler has no lock, so a thread may be
   preempted between storing a task and registering it, between any two
   placements of a pass, and within a placement between the check of a node, the
   choice of its devices and the stores.  What one request writes at the end, its
   counter, dispatch and job, is one step, as is recovery.  While one thread
   serves at a time, requests are served one after another. *)
EXTENDS Integers, FiniteSets, FiniteSetsExt

CONSTANTS Thread,      \* the server's handler threads
          Node,        \* node ids, naturals so that ties break as on text ids
          Request,     \* resource requests, a subset of SchedulerResources
          Report,      \* what a node reports of itself, a subset of Inventory
          Priority, MaxAttempts,    \* the values submissions carry
          Now, Lease,               \* caller clocks and lease lengths
          HeartbeatTimeout,
          MaxTasks     \* bound on submissions

Task == 1..MaxTasks

ASSUME SchedulerAssumption ==
    /\ Node \subseteq Nat /\ Now \subseteq Nat /\ Lease \subseteq Nat \ {0}
    /\ Priority \subseteq 0..100 /\ MaxAttempts \subseteq Nat \ {0}
    /\ HeartbeatTimeout \in Nat /\ MaxTasks \in Nat

\* What SchedulerNode accepts.  GPUs are listed in order; numa maps a NUMA node
\* to its CPUs.
ValidReport(r) ==
    /\ IsFiniteSet(r.cpus) /\ r.cpus \subseteq Int /\ r.cpus # {}
    /\ r.memory \in Nat \ {0}
    /\ IsFiniteSet(DOMAIN r.gpus) /\ DOMAIN r.gpus = 1..Cardinality(DOMAIN r.gpus)
    /\ \A d \in DOMAIN r.numa : r.numa[d] \subseteq r.cpus

\* What SchedulerResources accepts.  A class of 0 and an empty numa stand for None.
ValidRequest(q) ==
    /\ q.cores \in Nat \ {0} /\ q.memory \in Nat \ {0} /\ q.gpus \in Nat
    /\ q.class # 0 => q.gpus > 0
    /\ Cardinality(q.numa) <= 1
    /\ IsFiniteSet(q.affinity) /\ q.affinity \subseteq Int
    /\ q.affinity # {} => Cardinality(q.affinity) >= q.cores

ASSUME InputAssumption ==
    /\ \A r \in Report : ValidReport(r)
    /\ \A q \in Request : ValidRequest(q)

VARIABLES nodes,       \* the last heartbeat of each node
          tasks,       \* the task ids the service has stored
          jobs,        \* the scheduler's job of each task
          dispatches,  \* the outstanding allocations
          sequence, revision,
          handler,     \* what each thread is in the middle of
          hand,        \* the placement in which it was preempted
          serving      \* the threads at work
vars == <<nodes, tasks, jobs, dispatches, sequence, revision, handler, hand, serving>>

Unknown == [at |-> 0]     \* no heartbeat yet
NoJob == [state |-> "none"]
Idle == [at |-> "idle"]
Nothing == [at |-> "nothing"]

Registered == {n \in Node : nodes[n] # Unknown}
Known == {t \in Task : jobs[t] # NoJob}

-----------------------------------------------------------------------------
(* Fitting a request on a node *)

EligibleCpus(q, r) ==
    LET cpus == IF q.affinity # {} THEN q.affinity ELSE r.cpus
        allowed == UNION {r.numa[d] : d \in q.numa \intersect DOMAIN r.numa}
    IN IF q.numa = {} THEN cpus ELSE cpus \intersect allowed

\* The positions of the report's GPU list that may serve the request.
EligibleGpus(q, r) ==
    {i \in DOMAIN r.gpus : /\ q.class # 0 => r.gpus[i].class = q.class
                           /\ q.numa # {} => r.gpus[i].numa \in q.numa}

StaticFit(q, r) ==
    /\ q.labels \subseteq r.labels
    /\ q.memory <= r.memory
    /\ Cardinality(EligibleCpus(q, r)) >= q.cores
    /\ Cardinality(EligibleGpus(q, r)) >= q.gpus

\* A request is refused at submission only if some node is known.
Valid(q) == Registered # {} => \E n \in Registered : StaticFit(q, nodes[n].report)

On(n, held) == {d \in held : d.node = n}
UsedCpus(n, held) == UNION {d.cpus : d \in On(n, held)}
UsedGpus(n, held) == UNION {d.gpus : d \in On(n, held)}
UsedMemory(n, held) ==
    SumFunction([d \in On(n, held) |-> jobs[d.task].request.memory])

BugForgetsCpusInUse(q, r, n, held) == EligibleCpus(q, r)

\* r is what node n reported when it was looked at.
CpusLeft(q, r, n, held) == EligibleCpus(q, r) \ UsedCpus(n, held)
GpusLeft(q, r, n, held) ==
    {i \in EligibleGpus(q, r) : r.gpus[i].id \notin UsedGpus(n, held)}

FreeCpus(q, n, held) == CpusLeft(q, nodes[n].report, n, held)
FreeGpus(q, n, held) == GpusLeft(q, nodes[n].report, n, held)

BugIgnoresMemoryInUse(q, n, held) ==
    /\ StaticFit(q, nodes[n].report)
    /\ Cardinality(FreeCpus(q, n, held)) >= q.cores
    /\ Cardinality(FreeGpus(q, n, held)) >= q.gpus

AvailableFit(q, n, held) ==
    /\ StaticFit(q, nodes[n].report)
    /\ Cardinality(FreeCpus(q, n, held)) >= q.cores
    /\ UsedMemory(n, held) + q.memory <= nodes[n].report.memory
    /\ Cardinality(FreeGpus(q, n, held)) >= q.gpus

Fresh(n, now) == now <= nodes[n].at + HeartbeatTimeout

\* The first k of a set of integers.
FirstOf(S, k) == {x \in S : Cardinality({y \in S : y < x}) < k}

\* What a node would have left.  _score subtracts the request as well, which is
\* the same for every node, and CPUs in use need not be CPUs of the node.
LeftCpus(n) == Cardinality(nodes[n].report.cpus) - Cardinality(UsedCpus(n, dispatches))
LeftMemory(n) == nodes[n].report.memory - UsedMemory(n, dispatches)

BetterScore(m, n) ==
    \/ LeftCpus(m) < LeftCpus(n)
    \/ LeftCpus(m) = LeftCpus(n) /\ LeftMemory(m) < LeftMemory(n)
    \/ LeftCpus(m) = LeftCpus(n) /\ LeftMemory(m) = LeftMemory(n) /\ m < n

-----------------------------------------------------------------------------
(* Requests *)

Init ==
    /\ nodes = [n \in Node |-> Unknown]
    /\ tasks = {}
    /\ jobs = [t \in Task |-> NoJob]
    /\ dispatches = {}
    /\ sequence = 0
    /\ revision = 0
    /\ handler = [h \in Thread |-> Idle]
    /\ hand = [h \in Thread |-> Nothing]
    /\ serving \in SUBSET Thread \ {{}}

Heartbeat(h, n, report, at) ==
    /\ handler[h] = Idle
    /\ nodes[n] # Unknown => at >= nodes[n].at
    /\ nodes' = [nodes EXCEPT ![n] = [at |-> at, report |-> report]]
    /\ UNCHANGED <<tasks, jobs, dispatches, sequence, revision, handler, hand>>

\* POST /scheduler/jobs up to and including service.submit_task.
StoreTask(h, q, priority, max) ==
    LET task == Cardinality(tasks) + 1
    IN /\ handler[h] = Idle
       /\ task \in Task
       /\ Valid(q)
       /\ tasks' = tasks \union {task}
       /\ handler' = [handler EXCEPT ![h] =
             [at |-> "registering", task |-> task, request |-> q,
              priority |-> priority, max |-> max]]
       /\ UNCHANGED <<nodes, jobs, dispatches, sequence, revision, hand>>

\* The rest of it: scheduler.submit validates again before it registers.
Register(h) ==
    LET p == handler[h]
    IN /\ p.at = "registering"
       /\ p.task \notin Known
       /\ Valid(p.request)
       /\ sequence' = sequence + 1
       /\ revision' = revision + 1
       /\ jobs' = [jobs EXCEPT ![p.task] =
             [state |-> "queued", task |-> p.task, request |-> p.request,
              priority |-> p.priority, sequence |-> sequence', max |-> p.max,
              attempts |-> 0, alloc |-> 0, node |-> 0, expires |-> 0]]
       /\ handler' = [handler EXCEPT ![h] = Idle]
       /\ UNCHANGED <<nodes, tasks, dispatches, hand>>

\* It raises: the client gets 400 and the stored task stays.
Refuse(h) ==
    /\ handler[h].at = "registering"
    /\ handler[h].task \in Known \/ ~Valid(handler[h].request)
    /\ handler' = [handler EXCEPT ![h] = Idle]
    /\ UNCHANGED <<nodes, tasks, jobs, dispatches, sequence, revision, hand>>

-----------------------------------------------------------------------------
(* A placement pass.  alloc, node and expires are 0 when they are None. *)

Expired(now) == {t \in Known : jobs[t].state = "scheduled" /\ jobs[t].expires <= now}

BugMarksRunning(job) == [job EXCEPT !.state = "running", !.alloc = 0, !.node = 0]

Recovered(job) ==
    [job EXCEPT !.state = IF job.attempts < job.max THEN "queued" ELSE "failed",
                !.alloc = 0, !.node = 0, !.expires = 0]

BugKeepsDispatch(h, now, lease) ==
    LET expired == Expired(now)
        recovered == [t \in Task |-> IF t \in expired THEN Recovered(jobs[t]) ELSE jobs[t]]
    IN /\ handler[h] = Idle
       /\ jobs' = recovered
       /\ revision' = revision + Cardinality(expired)
       /\ handler' = [handler EXCEPT ![h] =
             [at |-> "placing", now |-> now, lease |-> lease, since |-> revision',
              queued |-> {recovered[t] : t \in {u \in Known : recovered[u].state = "queued"}}]]
       /\ UNCHANGED <<nodes, tasks, dispatches, sequence, hand>>

\* recover, then the queued jobs as they are now.  since is not in the code: it
\* tells the allocations of this pass from the earlier ones.
BeginPass(h, now, lease) ==
    LET expired == Expired(now)
        recovered == [t \in Task |-> IF t \in expired THEN Recovered(jobs[t]) ELSE jobs[t]]
    IN /\ handler[h] = Idle
       /\ jobs' = recovered
       /\ dispatches' = {d \in dispatches : d.id \notin {jobs[t].alloc : t \in expired}}
       /\ revision' = revision + Cardinality(expired)
       /\ handler' = [handler EXCEPT ![h] =
             [at |-> "placing", now |-> now, lease |-> lease, since |-> revision',
              queued |-> {recovered[t] : t \in {u \in Known : recovered[u].state = "queued"}}]]
       /\ UNCHANGED <<nodes, tasks, sequence, hand>>

Before(j, k) ==
    \/ j.priority > k.priority
    \/ j.priority = k.priority /\ j.sequence < k.sequence

Candidates(q, now, held) == {n \in Registered : Fresh(n, now) /\ AvailableFit(q, n, held)}

Dispatch(q, n, id, task) ==
    [id |-> id, task |-> task, node |-> n,
     cpus |-> FirstOf(FreeCpus(q, n, dispatches), q.cores),
     gpus |-> {nodes[n].report.gpus[i].id : i \in FirstOf(FreeGpus(q, n, dispatches), q.gpus)}]

\* d becomes outstanding.  The job is written back from the copy the pass read, not from jobs.
Reserve(h, job, d) ==
    /\ revision' = revision + 1
    /\ dispatches' = dispatches \union {d}
    /\ jobs' = [jobs EXCEPT ![job.task] =
          [job EXCEPT !.state = "scheduled", !.attempts = job.attempts + 1,
                      !.alloc = revision', !.node = d.node,
                      !.expires = handler[h].now + handler[h].lease]]

\* A thread that is about to place the first job of its pass.
Places(h, job) ==
    /\ handler[h].at = "placing" /\ hand[h] = Nothing
    /\ job \in handler[h].queued
    /\ \A k \in handler[h].queued \ {job} : Before(job, k)

BugStopsAtMisfit(h) ==
    /\ handler[h].at = "placing"
    /\ \E job \in handler[h].queued :
          LET fit == Candidates(job.request, handler[h].now, dispatches)
          IN /\ Places(h, job)
             /\ handler' = [handler EXCEPT ![h].queued = IF fit = {} THEN {} ELSE @ \ {job}]
             /\ \/ /\ fit = {}
                   /\ UNCHANGED <<jobs, dispatches, revision>>
                \/ \E n \in fit :
                      /\ \A m \in fit \ {n} : BetterScore(n, m)
                      /\ Reserve(h, job, Dispatch(job.request, n, revision + 1, job.task))
    /\ UNCHANGED <<nodes, tasks, sequence, hand>>

\* A placement without a preemption.
Place(h) ==
    /\ handler[h].at = "placing"
    /\ \E job \in handler[h].queued :
          LET fit == Candidates(job.request, handler[h].now, dispatches)
          IN /\ Places(h, job)
             /\ handler' = [handler EXCEPT ![h].queued = @ \ {job}]
             /\ \/ /\ fit = {}
                   /\ UNCHANGED <<jobs, dispatches, revision>>
                \/ \E n \in fit :
                      /\ \A m \in fit \ {n} : BetterScore(n, m)
                      /\ Reserve(h, job, Dispatch(job.request, n, revision + 1, job.task))
    /\ UNCHANGED <<nodes, tasks, sequence, hand>>

\* One with: a node that fits is chosen.  The scores are computed after the check, of
\* whatever is outstanding by then, so it need not be the best one.
Choose(h) ==
    /\ serving # {h}
    /\ handler[h].at = "placing"
    /\ \E job \in handler[h].queued :
          /\ Places(h, job)
          /\ \E n \in Candidates(job.request, handler[h].now, dispatches) :
                hand' = [hand EXCEPT ![h] =
                    [at |-> "chosen", job |-> job, node |-> n, report |-> nodes[n].report]]
    /\ UNCHANGED <<nodes, tasks, jobs, dispatches, sequence, revision, handler>>

\* _reserve looks again at what is in use, and takes what is left of the report it holds,
\* be it less than was asked for.
Take(h) ==
    LET c == hand[h]
        q == c.job.request
        gpus == GpusLeft(q, c.report, c.node, dispatches)
    IN /\ c.at = "chosen"
       /\ hand' = [hand EXCEPT ![h] =
             [at |-> "taken", job |-> c.job, node |-> c.node,
              cpus |-> FirstOf(CpusLeft(q, c.report, c.node, dispatches), q.cores),
              gpus |-> {c.report.gpus[i].id : i \in FirstOf(gpus, q.gpus)}]]
       /\ UNCHANGED <<nodes, tasks, jobs, dispatches, sequence, revision, handler>>

Store(h) ==
    LET c == hand[h]
    IN /\ c.at = "taken"
       /\ handler' = [handler EXCEPT ![h].queued = @ \ {c.job}]
       /\ hand' = [hand EXCEPT ![h] = Nothing]
       /\ Reserve(h, c.job, [id |-> revision + 1, task |-> c.job.task, node |-> c.node,
                             cpus |-> c.cpus, gpus |-> c.gpus])
       /\ UNCHANGED <<nodes, tasks, sequence>>

EndPass(h) ==
    /\ handler[h].at = "placing"
    /\ handler[h].queued = {}
    /\ handler' = [handler EXCEPT ![h] = Idle]
    /\ UNCHANGED <<nodes, tasks, jobs, dispatches, sequence, revision, hand>>

\* A dict that another thread resizes while a pass iterates over it raises
\* RuntimeError, which no handler catches: the rest of the pass is lost.
Interrupted(h) ==
    /\ handler[h].at = "placing"
    /\ handler[h].queued # {}
    /\ hand[h].at # "taken"
    /\ serving # {h}
    /\ handler' = [handler EXCEPT ![h] = Idle]
    /\ hand' = [hand EXCEPT ![h] = Nothing]
    /\ UNCHANGED <<nodes, tasks, jobs, dispatches, sequence, revision>>

Next ==
    /\ \E h \in serving :
          \/ \E n \in Node, r \in Report, at \in Now : Heartbeat(h, n, r, at)
          \/ \E q \in Request, p \in Priority, m \in MaxAttempts : StoreTask(h, q, p, m)
          \/ Register(h)
          \/ Refuse(h)
          \/ \E now \in Now, lease \in Lease : BeginPass(h, now, lease)
          \/ Place(h) \/ Choose(h) \/ Take(h) \/ Store(h)
          \/ EndPass(h)
          \/ Interrupted(h)
    /\ UNCHANGED serving

Spec == Init /\ [][Next]_vars

-----------------------------------------------------------------------------
(* Properties *)

Job == [state: {"queued", "scheduled", "failed"}, task: Task, request: Request,
        priority: Priority, sequence: Nat, max: MaxAttempts,
        attempts: Nat, alloc: Nat, node: Nat, expires: Nat]

Handler ==
    {Idle}
      \union [at: {"registering"}, task: Task, request: Request,
              priority: Priority, max: MaxAttempts]
      \union [at: {"placing"}, now: Now, lease: Lease, since: Nat, queued: SUBSET Job]

Hand ==
    {Nothing}
      \union [at: {"chosen"}, job: Job, node: Node, report: Report]
      \union [at: {"taken"}, job: Job, node: Node, cpus: SUBSET Int,
              gpus: SUBSET UNION {{r.gpus[i].id : i \in DOMAIN r.gpus} : r \in Report}]

\* What a thread was preempted with belongs to its pass.
HandsHold ==
    /\ hand \in [Thread -> Hand]
    /\ \A h \in Thread : hand[h] # Nothing =>
          /\ handler[h].at = "placing" /\ hand[h].job \in handler[h].queued
          /\ hand[h].node \in Registered

\* Every variable has its type: only three of the six states declared for a job
\* are ever entered, and what is allocated belongs to a known task and node.
TypeOK ==
    /\ nodes \in [Node -> {Unknown} \union [at: Nat, report: Report]]
    /\ tasks \subseteq Task
    /\ jobs \in [Task -> {NoJob} \union Job]
    /\ \A t \in Known : jobs[t].task = t
    /\ \A d \in dispatches : d.id \in 1..revision /\ d.task \in Known /\ d.node \in Registered
    /\ sequence \in Nat /\ revision \in Nat
    /\ serving \subseteq Thread
    /\ handler \in [Thread -> Handler]
    /\ \A h \in Thread : handler[h].at = "placing" =>
          \A job \in handler[h].queued : job.task \in Known
    /\ HandsHold

\* An outstanding dispatch is the current allocation of a scheduled job, and every
\* scheduled job has one: recover pops what _reserve stored, and nothing leaks.
DispatchesMatchJobs ==
    /\ \A d \in dispatches : /\ jobs[d.task].state = "scheduled"
                             /\ jobs[d.task].alloc = d.id
                             /\ jobs[d.task].node = d.node
    /\ \A t \in Known : jobs[t].state = "scheduled" =>
          \E d \in dispatches : d.id = jobs[t].alloc /\ d.task = t

OneAtATime == \A g, h \in serving : g = h

\* Allocations and scheduled jobs correspond while requests are served one at a
\* time; with two threads they need not.
SerialDispatchesMatchJobs == OneAtATime => DispatchesMatchJobs

\* Two allocations of a node never hold the same CPU or GPU, whatever the node
\* reported in between.
DevicesNotShared ==
    \A d, e \in dispatches :
        d # e /\ d.node = e.node => d.cpus \intersect e.cpus = {} /\ d.gpus \intersect e.gpus = {}

\* So it is while requests are served one at a time: two passes may both look at a node
\* before either stores what it takes.
SerialDevicesNotShared == OneAtATime => DevicesNotShared

\* The attempts on a job's record are max_attempts at most, it waits only with some
\* left and fails only when it has used them all.
AttemptsWithinBudget ==
    \A t \in Known : /\ jobs[t].attempts <= jobs[t].max
                     /\ jobs[t].state = "queued" => jobs[t].attempts < jobs[t].max
                     /\ jobs[t].state = "failed" => jobs[t].attempts = jobs[t].max

\* While requests are served one at a time, what _reserve commits is what the job asked
\* for, on a node heard from in time, within the memory that node last reported.
SerialPlacementsFit ==
    [][OneAtATime => \A d \in dispatches' \ dispatches :
          LET q == jobs[d.task].request
          IN /\ Cardinality(d.cpus) = q.cores
             /\ Cardinality(d.gpus) = q.gpus
             /\ UsedMemory(d.node, dispatches') <= nodes[d.node].report.memory
             /\ \E h \in Thread : /\ handler[h].at = "placing"
                                  /\ Fresh(d.node, handler[h].now)]_vars

\* When a pass ends, a job still queued fits on no fresh node, not even with the
\* lower-ranked jobs this pass placed after it taken away again.
PassedOverOnlyWhenFull ==
    \A h \in Thread :
        handler[h].at = "placing" /\ handler[h].queued = {} =>
            \A t \in Known : jobs[t].state = "queued" =>
                Candidates(jobs[t].request, handler[h].now,
                    {d \in dispatches : ~ (/\ d.id > handler[h].since
                                           /\ Before(jobs[t], jobs[d.task]))}) = {}

\* A serial pass leaves out no job that fits on what was free at its rank.
SerialPassedOverOnlyWhenFull == OneAtATime => PassedOverOnlyWhenFull

\* A task stored by POST /scheduler/jobs is registered with the scheduler, or its
\* request is still in progress: no client is told 400 of a task that stays.
NoOrphanTask ==
    \A t \in tasks : \/ t \in Known
                     \/ \E h \in Thread : handler[h].at = "registering" /\ handler[h].task = t
=============================================================================
