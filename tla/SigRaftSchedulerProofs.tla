----------------------- MODULE SigRaftSchedulerProofs -----------------------
(* Theorems about the scheduler of SigRaftScheduler, for every set of threads,
   nodes, requests, reports, clocks and leases, by inductive invariants.  The
   first part holds however the handler threads interleave; the second assumes
   that one request is served at a time. *)
EXTENDS SigRaftScheduler, FiniteSetTheorems, TLAPS

\* A pass works on copies of jobs that were queued when it began.
CopiesQueued ==
    \A h \in Thread : handler[h].at = "placing" =>
        \A job \in handler[h].queued : job.state = "queued" /\ job.attempts < job.max

\* An undone attempt keeps the type of a job, and its task, attempts and limit.
LEMMA RecoveredJob ==
    ASSUME NEW job \in Job
    PROVE  /\ Recovered(job) \in Job
           /\ Recovered(job).task = job.task
           /\ Recovered(job).attempts = job.attempts
           /\ Recovered(job).max = job.max
           /\ Recovered(job).request = job.request
           /\ Recovered(job).alloc = 0
           /\ Recovered(job).state = IF job.attempts < job.max THEN "queued" ELSE "failed"
  BY DEF Recovered, Job

\* No job and no idle handler is mistaken for a real one.
LEMMA Distinct ==
    /\ NoJob \notin Job
    /\ \A p \in Handler : p # Idle => \/ p \in [at: {"registering"}, task: Task, request: Request,
                                               priority: Priority, max: MaxAttempts]
                                      \/ p \in [at: {"placing"}, now: Now, lease: Lease,
                                               since: Nat, queued: SUBSET Job]
    /\ \A p \in Handler : p.at = "registering" =>
          p \in [at: {"registering"}, task: Task, request: Request,
                 priority: Priority, max: MaxAttempts]
    /\ \A p \in Handler : p.at = "placing" =>
          p \in [at: {"placing"}, now: Now, lease: Lease, since: Nat, queued: SUBSET Job]
    /\ Idle \in Handler
  <1>1. NoJob \notin Job
    BY DEF NoJob, Job
  <1>2. QED
    BY <1>1 DEF Handler, Idle

\* The only jobs a pass changes are the expired ones, and it knows the same tasks.
LEMMA PassKeepsJobs ==
    ASSUME TypeOK, NEW h \in Thread, NEW now \in Now, NEW lease \in Lease,
           BeginPass(h, now, lease)
    PROVE  /\ jobs' \in [Task -> {NoJob} \union Job]
           /\ Known' = Known
           /\ \A t \in Known : /\ jobs[t] \in Job /\ jobs'[t] \in Job
                               /\ t \in Expired(now) => jobs'[t] = Recovered(jobs[t])
                               /\ t \notin Expired(now) => jobs'[t] = jobs[t]
           /\ Expired(now) \subseteq Known
           /\ IsFiniteSet(Expired(now)) /\ Cardinality(Expired(now)) \in Nat
           /\ handler' = [handler EXCEPT ![h] =
                 [at |-> "placing", now |-> now, lease |-> lease, since |-> revision',
                  queued |-> {jobs'[t] : t \in {u \in Known : jobs'[u].state = "queued"}}]]
  <1>1. \A t \in Known : jobs[t] \in Job
    BY DEF TypeOK, Known
  <1>2. Expired(now) \subseteq Known
    BY DEF Expired
  <1>3. /\ jobs' = [t \in Task |-> IF t \in Expired(now) THEN Recovered(jobs[t]) ELSE jobs[t]]
        /\ handler' = [handler EXCEPT ![h] =
              [at |-> "placing", now |-> now, lease |-> lease, since |-> revision',
               queued |-> {jobs'[t] : t \in {u \in Known : jobs'[u].state = "queued"}}]]
    BY DEF BeginPass
  <1>4. jobs' \in [Task -> {NoJob} \union Job]
    BY <1>1, <1>2, <1>3, RecoveredJob DEF TypeOK, Known
  <1>5. \A t \in Known : /\ jobs'[t] \in Job
                         /\ t \in Expired(now) => jobs'[t] = Recovered(jobs[t])
                         /\ t \notin Expired(now) => jobs'[t] = jobs[t]
    BY <1>1, <1>2, <1>3, RecoveredJob DEF Known
  <1>6. Known' = Known
    <2>1. Known \subseteq Known'
      BY <1>5, Distinct DEF Known
    <2>2. Known' \subseteq Known
      BY <1>2, <1>3 DEF Known
    <2>3. QED
      BY <2>1, <2>2
  <1>7. IsFiniteSet(Expired(now))
    <2>1. IsFiniteSet(Task)
      BY FS_Interval, SchedulerAssumption DEF Task
    <2>2. QED
      BY <1>2, <2>1, FS_Subset DEF Known
  <1>8. Cardinality(Expired(now)) \in Nat
    BY <1>7, FS_CardinalityType
  <1>9. QED
    BY <1>1, <1>2, <1>3, <1>4, <1>5, <1>6, <1>7, <1>8

\* What becomes outstanding for a job.
Placement(p, job) == p.id = revision + 1 /\ p.task = job.task /\ p.node \in Registered

\* A placement, preempted or not, either skips the job or reserves a known node for it.
LEMMA PlaceCases ==
    ASSUME TypeOK, NEW h \in Thread, Place(h) \/ Store(h)
    PROVE  /\ handler[h] \in [at: {"placing"}, now: Now, lease: Lease, since: Nat, queued: SUBSET Job]
           /\ UNCHANGED <<nodes, tasks, sequence>>
           /\ \E job \in handler[h].queued :
                 /\ job \in Job /\ job.task \in Known
                 /\ handler' = [handler EXCEPT ![h] =
                       [handler[h] EXCEPT !.queued = handler[h].queued \ {job}]]
                 /\ \/ UNCHANGED <<jobs, dispatches, revision>>
                    \/ \E p : Placement(p, job) /\ Reserve(h, job, p)
  <1>0. Store(h) => hand[h] # Nothing
    BY DEF Store, Nothing
  <1>1. handler[h] \in [at: {"placing"}, now: Now, lease: Lease, since: Nat, queued: SUBSET Job]
    <2>1. handler[h] \in Handler /\ handler[h].at = "placing"
      BY <1>0 DEF Place, TypeOK, HandsHold
    <2>2. QED
      BY <2>1, Distinct
  <1>2. UNCHANGED <<nodes, tasks, sequence>>
    BY DEF Place, Store
  <1>3. PICK job \in handler[h].queued :
           /\ handler' = [handler EXCEPT ![h].queued = @ \ {job}]
           /\ \/ UNCHANGED <<jobs, dispatches, revision>>
              \/ \E p : Placement(p, job) /\ Reserve(h, job, p)
    <2>1. CASE Place(h)
      <3>1. PICK job \in handler[h].queued :
               /\ handler' = [handler EXCEPT ![h].queued = @ \ {job}]
               /\ \/ UNCHANGED <<jobs, dispatches, revision>>
                  \/ \E n \in Candidates(job.request, handler[h].now, dispatches) :
                        Reserve(h, job, Dispatch(job.request, n, revision + 1, job.task))
        BY <2>1 DEF Place
      <3>2. \A n \in Registered : Placement(Dispatch(job.request, n, revision + 1, job.task), job)
        BY DEF Placement, Dispatch
      <3>3. QED
        BY <3>1, <3>2 DEF Candidates
    <2>2. CASE Store(h)
      <3> DEFINE job == hand[h].job
                 p == [id |-> revision + 1, task |-> job.task, node |-> hand[h].node,
                       cpus |-> hand[h].cpus, gpus |-> hand[h].gpus]
      <3>1. /\ handler' = [handler EXCEPT ![h].queued = @ \ {job}]
            /\ Reserve(h, job, p)
        BY <2>2 DEF Store
      <3>2. job \in handler[h].queued /\ hand[h].node \in Registered
        BY <1>0, <2>2 DEF TypeOK, HandsHold
      <3>3. Placement(p, job)
        BY <3>2 DEF Placement
      <3> HIDE DEF job, p
      <3>4. QED
        BY <3>1, <3>2, <3>3
    <2>3. QED
      BY <2>1, <2>2
  <1>4. job \in Job /\ job.task \in Known
    BY <1>1 DEF TypeOK
  <1>5. handler' = [handler EXCEPT ![h] =
           [handler[h] EXCEPT !.queued = handler[h].queued \ {job}]]
    BY <1>3
  <1>7. QED
    BY <1>1, <1>2, <1>3, <1>4, <1>5

\* What _reserve writes, spelled out for a well-typed pass.
LEMMA ReserveEffect ==
    ASSUME TypeOK, NEW h \in Thread, NEW job \in Job, NEW p, Placement(p, job),
           handler[h] \in [at: {"placing"}, now: Now, lease: Lease, since: Nat, queued: SUBSET Job],
           job.task \in Known, Reserve(h, job, p)
    PROVE  /\ revision' = revision + 1
           /\ dispatches' = dispatches \union {p}
           /\ jobs' \in [Task -> {NoJob} \union Job]
           /\ jobs'[job.task] \in Job
           /\ jobs'[job.task].task = job.task
           /\ jobs'[job.task].state = "scheduled"
           /\ jobs'[job.task].attempts = job.attempts + 1
           /\ jobs'[job.task].max = job.max
           /\ jobs'[job.task].request = job.request
           /\ jobs'[job.task].alloc = revision + 1
           /\ jobs'[job.task].node = p.node
           /\ \A t \in Task : t # job.task => jobs'[t] = jobs[t]
           /\ Known' = Known
  <1> DEFINE node == p.node
             new == [job EXCEPT !.state = "scheduled", !.attempts = job.attempts + 1,
                                !.alloc = revision + 1, !.node = node,
                                !.expires = handler[h].now + handler[h].lease]
  <1>1. /\ revision' = revision + 1
        /\ dispatches' = dispatches \union {p}
        /\ jobs' = [jobs EXCEPT ![job.task] =
              [job EXCEPT !.state = "scheduled", !.attempts = job.attempts + 1,
                          !.alloc = revision', !.node = node,
                          !.expires = handler[h].now + handler[h].lease]]
    BY DEF Reserve
  <1>a. jobs' = [jobs EXCEPT ![job.task] = new]
    BY <1>1
  <1>b. handler[h].now \in Now /\ handler[h].lease \in Lease
    OBVIOUS
  <1>2. handler[h].now + handler[h].lease \in Nat
    <2>1. Now \subseteq Nat /\ Lease \subseteq Nat
      BY SchedulerAssumption
    <2>2. handler[h].now \in Nat /\ handler[h].lease \in Nat
      BY <1>b, <2>1
    <2>3. QED
      BY <2>2
  <1>3. node \in Nat
    BY SchedulerAssumption DEF Placement, Registered
  <1> HIDE DEF node
  <1>4. revision + 1 \in Nat
    BY DEF TypeOK
  <1> DEFINE end == handler[h].now + handler[h].lease
  <1>c. job.attempts + 1 \in Nat
    BY DEF Job
  <1>5. new \in Job
    <2> HIDE DEF end
    <2>1. end \in Nat
      BY <1>2 DEF end
    <2>2. [job EXCEPT !.state = "scheduled", !.attempts = job.attempts + 1,
                      !.alloc = revision + 1, !.node = node, !.expires = end] \in Job
      BY <2>1, <1>3, <1>4, <1>c DEF Job
    <2>3. QED
      BY <2>2 DEF end
  <1>6. /\ new.task = job.task /\ new.state = "scheduled" /\ new.attempts = job.attempts + 1
        /\ new.max = job.max /\ new.request = job.request /\ new.alloc = revision + 1 /\ new.node = node
    BY DEF Job
  <1> HIDE DEF new
  <1>7. job.task \in Task
    BY DEF Known
  <1>8. /\ jobs'[job.task] = new
        /\ \A t \in Task : t # job.task => jobs'[t] = jobs[t]
        /\ jobs' \in [Task -> {NoJob} \union Job]
    BY <1>a, <1>5, <1>7 DEF TypeOK
  <1>9. Known' = Known
    <2>1. new # NoJob
      BY <1>5, Distinct
    <2>2. QED
      BY <2>1, <1>8 DEF Known
  <1>10. QED
    BY <1>1, <1>5, <1>6, <1>8, <1>9 DEF node

\* A new registration: only its task's job changes.
LEMMA RegisterEffect ==
    ASSUME TypeOK, NEW h \in Thread, Register(h)
    PROVE  /\ handler[h].task \in Task
           /\ jobs' \in [Task -> {NoJob} \union Job]
           /\ jobs'[handler[h].task] \in Job
           /\ jobs'[handler[h].task].task = handler[h].task
           /\ jobs'[handler[h].task].state = "queued"
           /\ jobs'[handler[h].task].attempts = 0
           /\ jobs'[handler[h].task].max \in MaxAttempts
           /\ \A t \in Task : t # handler[h].task => jobs'[t] = jobs[t]
           /\ Known' = Known \union {handler[h].task}
  <1> DEFINE p == handler[h]
             new == [state |-> "queued", task |-> p.task, request |-> p.request,
                     priority |-> p.priority, sequence |-> sequence + 1, max |-> p.max,
                     attempts |-> 0, alloc |-> 0, node |-> 0, expires |-> 0]
  <1>1. p \in [at: {"registering"}, task: Task, request: Request,
               priority: Priority, max: MaxAttempts]
    <2>1. p \in Handler /\ p.at = "registering"
      BY DEF Register, TypeOK
    <2>2. QED
      BY <2>1, Distinct
  <1>2. sequence + 1 \in Nat
    BY DEF TypeOK
  <1>3. new \in Job
    BY <1>1, <1>2 DEF Job
  <1>4. jobs' = [jobs EXCEPT ![p.task] = new]
    BY DEF Register
  <1>5. /\ new.task = p.task /\ new.state = "queued" /\ new.attempts = 0 /\ new.max = p.max
    OBVIOUS
  <1> HIDE DEF new
  <1>6. p.task \in Task /\ p.max \in MaxAttempts
    BY <1>1
  <1>7. /\ jobs'[p.task] = new
        /\ \A t \in Task : t # p.task => jobs'[t] = jobs[t]
        /\ jobs' \in [Task -> {NoJob} \union Job]
    BY <1>3, <1>4, <1>6 DEF TypeOK
  <1>8. Known' = Known \union {p.task}
    BY <1>3, <1>6, <1>7, Distinct DEF Known
  <1>9. QED
    BY <1>3, <1>5, <1>6, <1>7, <1>8

\* The threads that serve stay the same.
LEMMA Serving ==
    ASSUME TypeOK, [Next]_vars
    PROVE  serving' = serving /\ serving \subseteq Thread
  BY DEF Next, vars, TypeOK

-----------------------------------------------------------------------------
(* Counting and adding *)

LEMMA LeastNat ==
    ASSUME NEW S \in SUBSET Nat, S # {}
    PROVE  \E x \in S : \A y \in S : x <= y
  <1>1. PICK x \in S : \A y \in S : ~ (<<y, x>> \in OpToRel(<, Nat))
    BY NatLessThanWellFounded, WFMin
  <1>2. ASSUME NEW y \in S, y < x PROVE FALSE
    <2>1. <<y, x>> \in Nat \X Nat /\ <<y, x>>[1] < <<y, x>>[2]
      BY <1>2
    <2>2. <<y, x>> \in OpToRel(<, Nat)
      BY <2>1 DEF OpToRel
    <2>3. QED
      BY <1>1, <2>2
  <1>3. QED
    BY <1>2

\* The first k of a set that has so many are k: ranks are a bijection.
LEMMA FirstOfSize ==
    ASSUME NEW S \in SUBSET Int, IsFiniteSet(S), NEW k \in Nat, k <= Cardinality(S)
    PROVE  IsFiniteSet(FirstOf(S, k)) /\ Cardinality(FirstOf(S, k)) = k
  <1> DEFINE below(x) == {y \in S : y < x}
             rank == [x \in S |-> Cardinality(below(x))]
             c == Cardinality(S)
  <1>1. c \in Nat
    BY FS_CardinalityType
  <1>2. ASSUME NEW x \in S
        PROVE  rank[x] \in Nat /\ rank[x] < c
    <2>1. below(x) \in SUBSET S /\ x \notin below(x)
      OBVIOUS
    <2>2. IsFiniteSet(below(x)) /\ Cardinality(below(x)) <= c /\ (c = Cardinality(below(x)) => S = below(x))
      BY <2>1, FS_Subset
    <2>3. Cardinality(below(x)) \in Nat
      BY <2>2, FS_CardinalityType
    <2>4. rank[x] = Cardinality(below(x))
      OBVIOUS
    <2>5. QED
      BY <1>1, <2>1, <2>2, <2>3, <2>4
  <1>3. ASSUME NEW x \in S, NEW z \in S, x < z
        PROVE  rank[x] < rank[z]
    <2>1. below(x) \in SUBSET below(z) /\ x \in below(z) /\ x \notin below(x)
      <3>1. x \in Int /\ z \in Int /\ \A y \in S : y \in Int
        OBVIOUS
      <3>2. (\A y \in S : y < x => y < z) /\ ~ (x < x)
        BY <1>3, <3>1
      <3>3. QED
        BY <1>3, <3>2
    <2>2. IsFiniteSet(below(z))
      <3>1. below(z) \in SUBSET S
        OBVIOUS
      <3>2. QED
        BY <3>1, FS_Subset
    <2>3. Cardinality(below(x)) <= Cardinality(below(z)) /\ Cardinality(below(x)) # Cardinality(below(z))
      <3>1. below(x) # below(z)
        BY <2>1
      <3> HIDE DEF below
      <3>2. QED
        BY <2>1, <2>2, <3>1, FS_Subset
    <2>4. rank[x] = Cardinality(below(x)) /\ rank[z] = Cardinality(below(z))
      OBVIOUS
    <2> HIDE DEF below, rank
    <2>5. rank[x] \in Nat /\ rank[z] \in Nat
      BY <1>2
    <2>6. QED
      BY <2>3, <2>4, <2>5
  <1>4. FirstOf(S, k) = {x \in S : rank[x] < k}
    BY DEF FirstOf
  <1>5. rank \in [S -> 0..(c - 1)]
    <2>1. \A x \in S : rank[x] \in 0..(c - 1)
      <3> HIDE DEF rank, c
      <3>1. QED
        BY <1>1, <1>2
    <2>2. QED
      BY <2>1
  <1> HIDE DEF rank, below
  <1>6. \A x, z \in S : rank[x] = rank[z] => x = z
    BY <1>2, <1>3
  <1>7. rank \in Injection(S, 0..(c - 1))
    BY <1>5, <1>6 DEF Injection, IsInjective
  <1>8. IsFiniteSet(0..(c - 1)) /\ Cardinality(0..(c - 1)) = c
    <2> HIDE DEF c
    <2>1. QED
      BY <1>1, FS_Interval
  <1>9. rank \in Surjection(S, 0..(c - 1))
    BY <1>7, <1>8, FS_Injection
  <1> DEFINE F == {x \in S : rank[x] < k}
             g == [x \in F |-> rank[x]]
  <1>10. g \in Bijection(F, 0..(k - 1))
    <2>1. g \in [F -> 0..(k - 1)]
      <3>1. \A x \in F : rank[x] \in 0..(k - 1)
        BY <1>2
      <3> HIDE DEF F
      <3>2. QED
        BY <3>1
    <2>2. \A x, z \in F : g[x] = g[z] => x = z
      BY <1>6
    <2>3. \A i \in 0..(k - 1) : \E x \in F : g[x] = i
      <3>1. ASSUME NEW i \in 0..(k - 1)
            PROVE  \E x \in F : g[x] = i
        <4>1. i \in 0..(c - 1) /\ i < k
          <5> HIDE DEF c
          <5>1. QED
            BY <1>1 DEF c
        <4>2. PICK x \in S : rank[x] = i
          BY <1>9, <4>1 DEF Surjection
        <4>3. x \in F /\ g[x] = i
          BY <4>1, <4>2
        <4>4. QED
          BY <4>3
      <3>2. QED
        BY <3>1
    <2> HIDE DEF g, F
    <2>4. QED
      BY <2>1, <2>2, <2>3 DEF Bijection, Injection, Surjection, IsInjective
  <1>11. IsFiniteSet(F)
    <2>1. F \in SUBSET S
      OBVIOUS
    <2>2. QED
      BY <2>1, FS_Subset
  <1>12. Cardinality(0..(k - 1)) = k
    BY FS_Interval
  <1>13. Cardinality(F) = k
    <2> HIDE DEF F, g
    <2>1. QED
      BY <1>10, <1>11, <1>12, FS_Bijection DEF ExistsBijection
  <1>14. QED
    BY <1>4, <1>11, <1>13

\* g[s] is the sum of f over s, element by element, for the subsets of D.
IsSum(g, f, D) ==
    g = [s \in SUBSET D |->
            IF s = {} THEN 0 ELSE LET x == CHOOSE x \in s : TRUE IN f[x] + g[s \ {x}]]

LEMMA SumExists ==
    ASSUME NEW f, NEW D, IsFiniteSet(D)
    PROVE  \E g : IsSum(g, f, D)
  <1> DEFINE Pick(s) == CHOOSE x \in s : TRUE
             Small(n) == {s \in SUBSET D : Cardinality(s) <= n}
             Step(s, g) == IF s = {} THEN 0 ELSE f[Pick(s)] + g[s \ {Pick(s)}]
             Sums(g, n) == g = [s \in Small(n) |-> Step(s, g)]
             T == {n \in Nat : ~\E g : Sums(g, n)}
  <1>1. \A s \in SUBSET D : IsFiniteSet(s) /\ Cardinality(s) \in Nat
    BY FS_Subset, FS_CardinalityType
  <1>2. T = {}
    <2>1. SUFFICES ASSUME T # {} PROVE FALSE
      OBVIOUS
    <2>2. PICK n \in T : \A m \in T : n <= m
      BY <2>1, LeastNat
    <2>3. CASE n = 0
      <3> DEFINE g == [s \in Small(0) |-> 0]
      <3>1. \A s \in Small(0) : s = {}
        BY <1>1, FS_EmptySet
      <3>2. Sums(g, 0)
        BY <3>1
      <3> HIDE DEF Sums
      <3>3. QED
        BY <2>2, <2>3, <3>2
    <2>4. CASE n # 0
      <3>1. n - 1 \in Nat /\ n - 1 \notin T
        <4>1. n \in Nat
          BY <2>2
        <4> HIDE DEF T
        <4>2. QED
          BY <2>2, <2>4, <4>1
      <3>2. PICK g : Sums(g, n - 1)
        BY <3>1
      <3> DEFINE h == [s \in Small(n) |-> Step(s, g)]
      <3>3. ASSUME NEW s \in Small(n), s # {}
            PROVE  s \ {Pick(s)} \in Small(n - 1)
        <4>1. Pick(s) \in s
          BY <3>3
        <4>2. s \in SUBSET D /\ s \ {Pick(s)} \in SUBSET D
          OBVIOUS
        <4> HIDE DEF Pick
        <4>3. Cardinality(s \ {Pick(s)}) = Cardinality(s) - 1
          BY <1>1, <4>1, <4>2, FS_RemoveElement
        <4>4. QED
          BY <1>1, <4>2, <4>3, <3>1
      <3>4. \A s \in Small(n - 1) : s \in Small(n) /\ g[s] = Step(s, g)
        <4> HIDE DEF Step
        <4>1. \A s \in Small(n - 1) : g[s] = Step(s, g)
          BY <3>2
        <4>2. \A s \in Small(n - 1) : s \in Small(n)
          BY <1>1, <3>1
        <4>3. QED
          BY <4>1, <4>2
      <3>5. \A s \in Small(n - 1) : h[s] = g[s]
        <4> HIDE DEF Step, Small
        <4>1. QED
          BY <3>4
      <3>6. \A s \in Small(n) : s # {} => h[s \ {Pick(s)}] = g[s \ {Pick(s)}]
        <4> HIDE DEF h, Small, Pick
        <4>1. QED
          BY <3>3, <3>5
      <3>7. \A s \in Small(n) : Step(s, h) = Step(s, g)
        <4> HIDE DEF h, Small, Pick
        <4>1. QED
          BY <3>6
      <3>8. Sums(h, n)
        <4> HIDE DEF Step, Small
        <4>1. QED
          BY <3>7
      <3>9. QED
        BY <2>2, <3>8
    <2>5. QED
      BY <2>3, <2>4
  <1>3. PICK g : Sums(g, Cardinality(D))
    <2>1. Cardinality(D) \in Nat
      BY FS_CardinalityType
    <2>2. QED
      BY <1>2, <2>1
  <1>4. Small(Cardinality(D)) = SUBSET D
    BY FS_Subset
  <1>5. QED
    BY <1>3, <1>4 DEF IsSum

LEMMA SumUnfolds ==
    ASSUME NEW g, NEW f, NEW D, IsSum(g, f, D)
    PROVE  /\ g[{}] = 0
           /\ \A s \in SUBSET D : s # {} =>
                 \E x \in s : x = (CHOOSE y \in s : TRUE) /\ g[s] = f[x] + g[s \ {x}]
  <1>1. \A s \in SUBSET D : g[s] = IF s = {} THEN 0
                                   ELSE LET x == CHOOSE x \in s : TRUE IN f[x] + g[s \ {x}]
    BY DEF IsSum
  <1>2. QED
    BY <1>1

\* A sum is a natural, and any element may be added last.
LEMMA SumAny ==
    ASSUME NEW D, IsFiniteSet(D), NEW f \in [D -> Nat], NEW g, IsSum(g, f, D)
    PROVE  /\ \A s \in SUBSET D : g[s] \in Nat
           /\ \A s \in SUBSET D : \A x \in s : g[s] = f[x] + g[s \ {x}]
  <1> DEFINE Good(s) == g[s] \in Nat /\ \A x \in s : g[s] = f[x] + g[s \ {x}]
             T == {n \in Nat : \E s \in SUBSET D : Cardinality(s) = n /\ ~Good(s)}
  <1>1. \A s \in SUBSET D : IsFiniteSet(s) /\ Cardinality(s) \in Nat
    BY FS_Subset, FS_CardinalityType
  <1>2. SUFFICES T = {}
    BY <1>1
  <1>3. SUFFICES ASSUME T # {} PROVE FALSE
    OBVIOUS
  <1>4. PICK n \in T : \A m \in T : n <= m
    BY <1>3, LeastNat
  <1>5. PICK s \in SUBSET D : Cardinality(s) = n /\ ~Good(s)
    BY <1>4
  <1>6. ASSUME NEW t \in SUBSET s, NEW x \in s, x \notin t
        PROVE  Good(t)
    <2>1. t \in SUBSET D /\ IsFiniteSet(s) /\ IsFiniteSet(t)
      BY <1>1
    <2>2. Cardinality(t) <= Cardinality(s) /\ Cardinality(s) # Cardinality(t)
      BY <1>6, <2>1, FS_Subset
    <2>3. Cardinality(t) \in Nat /\ Cardinality(t) < n
      BY <1>1, <1>5, <2>1, <2>2
    <2>4. Cardinality(t) \notin T
      <3> HIDE DEF T
      <3>1. n \in Nat
        BY <1>4 DEF T
      <3>2. QED
        BY <1>4, <2>3, <3>1
    <2> HIDE DEF Good
    <2>5. QED
      BY <2>1, <2>3, <2>4
  <1>7. s # {}
    <2>1. g[{}] = 0
      BY SumUnfolds
    <2>2. QED
      BY <1>5, <2>1
  <1>8. PICK c \in s : g[s] = f[c] + g[s \ {c}]
    BY <1>7, SumUnfolds
  <1>9. f[c] \in Nat /\ Good(s \ {c})
    <2>1. Good(s \ {c})
      BY <1>6
    <2>2. QED
      BY <2>1
  <1>10. g[s] \in Nat
    BY <1>8, <1>9
  <1>11. ASSUME NEW x \in s
         PROVE  g[s] = f[x] + g[s \ {x}]
    <2>1. CASE x = c
      BY <1>8, <2>1
    <2>2. CASE x # c
      <3>1. g[s \ {c}] = f[x] + g[(s \ {c}) \ {x}]
        BY <1>9, <2>2
      <3>2. Good(s \ {x})
        BY <1>6
      <3>3. g[s \ {x}] = f[c] + g[(s \ {x}) \ {c}]
        BY <2>2, <3>2
      <3>4. (s \ {x}) \ {c} = (s \ {c}) \ {x}
        OBVIOUS
      <3> DEFINE rest == g[(s \ {c}) \ {x}]
      <3>5. g[(s \ {c}) \ {x}] \in Nat
        <4>1. (s \ {c}) \ {x} \in SUBSET s /\ c \notin (s \ {c}) \ {x}
          OBVIOUS
        <4>2. Good((s \ {c}) \ {x})
          BY <1>6, <4>1
        <4>3. QED
          BY <4>2
      <3>6. f[x] \in Nat
        OBVIOUS
      <3>7. g[s] = f[c] + (f[x] + rest) /\ g[s \ {x}] = f[c] + rest
        BY <1>8, <3>1, <3>3, <3>4
      <3>8. rest \in Nat /\ f[c] \in Nat /\ f[x] \in Nat
        BY <1>9, <3>5, <3>6
      <3> HIDE DEF rest, Good, T
      <3>9. QED
        BY <3>7, <3>8
    <2>3. QED
      BY <2>1, <2>2
  <1>12. QED
    BY <1>5, <1>10, <1>11

\* The sum over s depends on the values in s only.
LEMMA SumSame ==
    ASSUME NEW D, NEW E, IsFiniteSet(D), NEW f, NEW k, NEW g, NEW h,
           IsSum(g, f, D), IsSum(h, k, E), D \subseteq E, \A x \in D : f[x] = k[x]
    PROVE  g[D] = h[D]
  <1> DEFINE T == {n \in Nat : \E s \in SUBSET D : Cardinality(s) = n /\ g[s] # h[s]}
  <1>1. \A s \in SUBSET D : IsFiniteSet(s) /\ Cardinality(s) \in Nat
    BY FS_Subset, FS_CardinalityType
  <1>2. SUFFICES T = {}
    BY <1>1
  <1>3. SUFFICES ASSUME T # {} PROVE FALSE
    OBVIOUS
  <1>4. PICK n \in T : \A m \in T : n <= m
    BY <1>3, LeastNat
  <1>5. PICK s \in SUBSET D : Cardinality(s) = n /\ g[s] # h[s]
    BY <1>4
  <1>6. s # {} /\ s \in SUBSET E
    <2>1. g[{}] = 0 /\ h[{}] = 0
      BY SumUnfolds
    <2>2. QED
      BY <1>5, <2>1
  <1>7. PICK x \in s : x = (CHOOSE y \in s : TRUE) /\ g[s] = f[x] + g[s \ {x}]
    BY <1>6, SumUnfolds
  <1>8. h[s] = k[x] + h[s \ {x}]
    <2>1. PICK z \in s : z = (CHOOSE y \in s : TRUE) /\ h[s] = k[z] + h[s \ {z}]
      BY <1>6, SumUnfolds
    <2>2. QED
      BY <1>7, <2>1
  <1>9. g[s \ {x}] = h[s \ {x}]
    <2>1. s \ {x} \in SUBSET D /\ IsFiniteSet(s)
      BY <1>1
    <2>2. Cardinality(s \ {x}) = n - 1
      BY <1>5, <2>1, FS_RemoveElement
    <2>3. Cardinality(s \ {x}) \in Nat /\ ~ (n <= Cardinality(s \ {x}))
      BY <1>1, <2>1, <2>2
    <2>4. QED
      BY <1>4, <2>1, <2>3
  <1>10. QED
    BY <1>5, <1>7, <1>8, <1>9

\* One more summand is added.
LEMMA SumAdd ==
    ASSUME NEW D, IsFiniteSet(D), NEW x, x \notin D, NEW f \in [D -> Nat],
           NEW k \in [D \union {x} -> Nat], \A y \in D : k[y] = f[y]
    PROVE  SumFunction(k) = SumFunction(f) + k[x] /\ SumFunction(f) \in Nat
  <1> DEFINE E == D \union {x}
             g == CHOOSE g : IsSum(g, f, D)
             h == CHOOSE h : IsSum(h, k, E)
  <1>1. IsFiniteSet(E)
    BY FS_AddElement
  <1>2. IsSum(g, f, D) /\ IsSum(h, k, E)
    BY <1>1, SumExists
  <1>3. SumFunction(f) = g[D] /\ SumFunction(k) = h[E]
    BY DEF SumFunction, SumFunctionOnSet, FoldFunctionOnSet, MapThenFoldSet, IsSum
  <1> HIDE DEF g, h
  <1>4. h[E] = k[x] + h[D]
    <2>1. E \ {x} = D /\ x \in E
      OBVIOUS
    <2>2. k \in [E -> Nat]
      OBVIOUS
    <2> HIDE DEF E
    <2>3. h[E] = k[x] + h[E \ {x}]
      BY <1>1, <1>2, <2>1, <2>2, SumAny
    <2>4. QED
      BY <2>1, <2>3
  <1>5. h[D] = g[D]
    BY <1>2, SumSame
  <1>6. g[D] \in Nat
    BY <1>2, SumAny
  <1>7. k[x] \in Nat
    OBVIOUS
  <1>8. QED
    BY <1>3, <1>4, <1>5, <1>6, <1>7

-----------------------------------------------------------------------------
(* However the threads interleave *)

LEMMA InitTypes == Init => TypeOK
  <1> SUFFICES ASSUME Init PROVE TypeOK
    OBVIOUS
  <1>1. Known = {}
    BY DEF Init, Known
  <1>2. \A h \in Thread : handler[h] = Idle /\ Idle.at # "placing"
    BY DEF Init, Idle
  <1>3. handler \in [Thread -> Handler]
    BY Distinct DEF Init
  <1>4. HandsHold
    BY DEF Init, HandsHold, Hand
  <1>5. QED
    BY <1>1, <1>2, <1>3, <1>4 DEF Init, TypeOK

LEMMA HandsStay ==
    ASSUME TypeOK, NEW h \in Thread,
           \A g \in Thread \ {h} : handler'[g] = handler[g],
           Registered \subseteq Registered',
           \/ hand[h] = Nothing /\ hand' = hand
           \/ hand' = [hand EXCEPT ![h] = Nothing]
    PROVE  HandsHold'
  <1>1. hand' \in [Thread -> Hand]
    BY DEF TypeOK, HandsHold, Hand
  <1>2. hand'[h] = Nothing /\ \A g \in Thread \ {h} : hand'[g] = hand[g]
    BY DEF TypeOK, HandsHold
  <1>3. QED
    BY <1>1, <1>2 DEF TypeOK, HandsHold

\* A thread is preempted only in a placement of its own pass.
LEMMA NextHands == ASSUME TypeOK, [Next]_vars PROVE HandsHold'
  <1>a. HandsHold /\ handler \in [Thread -> Handler]
    BY DEF TypeOK
  <1>1. ASSUME NEW h \in Thread, NEW n \in Node, NEW r \in Report, NEW at \in Now,
               Heartbeat(h, n, r, at)
        PROVE  HandsHold'
    <2>1. Registered \subseteq Registered'
      BY <1>1 DEF Heartbeat, TypeOK, Registered, Unknown
    <2>2. hand' = hand /\ handler' = handler
      BY <1>1 DEF Heartbeat
    <2>3. QED
      BY <1>a, <2>1, <2>2 DEF HandsHold
  <1>2. ASSUME NEW h \in Thread, NEW q \in Request, NEW p \in Priority, NEW m \in MaxAttempts,
               StoreTask(h, q, p, m)
        PROVE  HandsHold'
    <2>1. /\ \A g \in Thread \ {h} : handler'[g] = handler[g]
          /\ Registered' = Registered /\ hand' = hand /\ handler[h] = Idle
      BY <1>2, <1>a DEF StoreTask, Registered
    <2>2. hand[h] = Nothing
      BY <1>a, <2>1 DEF HandsHold, Idle
    <2>3. QED
      BY <2>1, <2>2, HandsStay
  <1>3. ASSUME NEW h \in Thread, Register(h) \/ Refuse(h) \/ EndPass(h)
        PROVE  HandsHold'
    <2>1. /\ \A g \in Thread \ {h} : handler'[g] = handler[g]
          /\ Registered' = Registered /\ hand' = hand
          /\ handler[h].at = "registering" \/ handler[h].queued = {}
      BY <1>3, <1>a DEF Register, Refuse, EndPass, Registered
    <2>2. hand[h] = Nothing
      BY <1>a, <2>1 DEF HandsHold
    <2>3. QED
      BY <2>1, <2>2, HandsStay
  <1>4. ASSUME NEW h \in Thread, Interrupted(h)
        PROVE  HandsHold'
    <2>1. /\ \A g \in Thread \ {h} : handler'[g] = handler[g]
          /\ Registered' = Registered /\ hand' = [hand EXCEPT ![h] = Nothing]
      BY <1>4, <1>a DEF Interrupted, Registered
    <2>2. QED
      BY <2>1, HandsStay
  <1>5. ASSUME NEW h \in Thread, NEW now \in Now, NEW lease \in Lease, BeginPass(h, now, lease)
        PROVE  HandsHold'
    <2>1. /\ \A g \in Thread \ {h} : handler'[g] = handler[g]
          /\ Registered' = Registered /\ hand' = hand /\ handler[h] = Idle
      BY <1>5, <1>a DEF BeginPass, Registered
    <2>2. hand[h] = Nothing
      BY <1>a, <2>1 DEF HandsHold, Idle
    <2>3. QED
      BY <2>1, <2>2, HandsStay
  <1>6. ASSUME NEW h \in Thread, Place(h) \/ Store(h)
        PROVE  HandsHold'
    <2>1. /\ \A g \in Thread \ {h} : handler'[g] = handler[g]
          /\ Registered' = Registered
          /\ \/ hand[h] = Nothing /\ hand' = hand
             \/ hand' = [hand EXCEPT ![h] = Nothing]
      BY <1>6, <1>a DEF Place, Places, Store, Registered
    <2>2. QED
      BY <2>1, HandsStay
  <1>7. ASSUME NEW h \in Thread, Choose(h)
        PROVE  HandsHold'
    <2>1. PICK job \in handler[h].queued :
             \E n \in Candidates(job.request, handler[h].now, dispatches) : hand' = [hand EXCEPT ![h] =
                 [at |-> "chosen", job |-> job, node |-> n, report |-> nodes[n].report]]
      BY <1>7 DEF Choose
    <2>a. PICK n \in Candidates(job.request, handler[h].now, dispatches) :
             hand' = [hand EXCEPT ![h] =
                 [at |-> "chosen", job |-> job, node |-> n, report |-> nodes[n].report]]
      BY <2>1
    <2>2. n \in Registered /\ nodes[n].report \in Report /\ n \in Node
      BY <2>a DEF Candidates, Registered, TypeOK, Unknown
    <2>3. handler[h].at = "placing" /\ handler' = handler /\ nodes' = nodes
      BY <1>7 DEF Choose
    <2>4. job \in Job
      BY <1>a, <2>3, Distinct
    <2> DEFINE new == [at |-> "chosen", job |-> job, node |-> n, report |-> nodes[n].report]
    <2>5. new \in Hand /\ new.job = job /\ new.node = n
      BY <2>2, <2>4 DEF Hand
    <2> HIDE DEF new
    <2>6. hand' = [hand EXCEPT ![h] = new]
      BY <2>a DEF new
    <2>7. Registered' = Registered
      BY <2>3 DEF Registered
    <2>8. QED
      BY <1>a, <2>1, <2>2, <2>3, <2>5, <2>6, <2>7 DEF HandsHold
  <1>8. ASSUME NEW h \in Thread, Take(h)
        PROVE  HandsHold'
    <2> DEFINE c == hand[h]
               q == c.job.request
               gpus == FirstOf(GpusLeft(q, c.report, c.node, dispatches), q.gpus)
               ids == {c.report.gpus[i].id : i \in gpus}
               cpus == FirstOf(CpusLeft(q, c.report, c.node, dispatches), q.cores)
               new == [at |-> "taken", job |-> c.job, node |-> c.node, cpus |-> cpus, gpus |-> ids]
    <2>1. c.at = "chosen" /\ hand' = [hand EXCEPT ![h] = new] /\ handler' = handler /\ nodes' = nodes
      BY <1>8 DEF Take
    <2>2. c \in [at: {"chosen"}, job: Job, node: Node, report: Report]
      BY <1>a, <2>1 DEF HandsHold, Hand, Nothing
    <2>3. c.job \in Job /\ c.node \in Node /\ c.report \in Report /\ c # Nothing
      BY <2>2 DEF Nothing
    <2>4. cpus \in SUBSET Int
      <3>1. q \in Request
        BY <2>3 DEF Job
      <3>2. q.affinity \subseteq Int /\ c.report.cpus \subseteq Int
        BY <2>3, <3>1, InputAssumption DEF ValidRequest, ValidReport
      <3>3. EligibleCpus(q, c.report) \subseteq Int
        BY <3>2 DEF EligibleCpus
      <3>4. QED
        BY <3>3 DEF FirstOf, CpusLeft
    <2>5. ids \in SUBSET UNION {{r.gpus[i].id : i \in DOMAIN r.gpus} : r \in Report}
      <3>1. gpus \subseteq DOMAIN c.report.gpus
        BY DEF FirstOf, GpusLeft, EligibleGpus
      <3> HIDE DEF gpus
      <3>2. ids \subseteq {c.report.gpus[i].id : i \in DOMAIN c.report.gpus}
        BY <3>1
      <3> HIDE DEF ids
      <3>3. QED
        BY <2>3, <3>2
    <2> HIDE DEF cpus, ids
    <2>6. new \in Hand /\ new.job = c.job /\ new.node = c.node
      BY <2>3, <2>4, <2>5 DEF Hand
    <2> HIDE DEF new
    <2>7. Registered' = Registered
      BY <2>1 DEF Registered
    <2>8. QED
      BY <1>a, <2>1, <2>3, <2>6, <2>7 DEF HandsHold
  <1>9. CASE UNCHANGED vars
    BY <1>9, <1>a DEF vars, HandsHold, Registered
  <1>10. QED
    BY <1>1, <1>2, <1>3, <1>4, <1>5, <1>6, <1>7, <1>8, <1>9, Serving DEF Next

LEMMA NextTypes == TypeOK /\ [Next]_vars => TypeOK'
  <1> SUFFICES ASSUME TypeOK, [Next]_vars PROVE TypeOK'
    OBVIOUS
  <1>0. serving' = serving /\ serving \subseteq Thread
    BY Serving
  <1>h. HandsHold'
    BY NextHands
  <1> USE Distinct, <1>0, <1>h
  <1>1. ASSUME NEW h \in Thread, NEW n \in Node, NEW r \in Report, NEW at \in Now,
               Heartbeat(h, n, r, at)
        PROVE  TypeOK'
    <2>1. nodes' \in [Node -> {Unknown} \union [at: Nat, report: Report]]
      BY <1>1, SchedulerAssumption DEF Heartbeat, TypeOK
    <2>2. Registered \subseteq Registered'
      BY <1>1 DEF Heartbeat, TypeOK, Registered, Unknown
    <2>3. Known' = Known
      BY <1>1 DEF Heartbeat, Known
    <2>4. QED
      BY <1>1, <2>1, <2>2, <2>3 DEF Heartbeat, TypeOK
  <1>2. ASSUME NEW h \in Thread, NEW q \in Request, NEW p \in Priority, NEW m \in MaxAttempts,
               StoreTask(h, q, p, m)
        PROVE  TypeOK'
    <2> DEFINE task == Cardinality(tasks) + 1
               new == [at |-> "registering", task |-> task, request |-> q,
                       priority |-> p, max |-> m]
    <2>1. /\ task \in Task
          /\ handler' = [handler EXCEPT ![h] = new]
          /\ tasks' = tasks \union {task}
          /\ UNCHANGED <<nodes, jobs, dispatches, sequence, revision>>
      BY <1>2 DEF StoreTask
    <2> HIDE DEF task
    <2>2. new \in Handler /\ new.at # "placing"
      BY <2>1 DEF Handler
    <2> HIDE DEF new
    <2>3. Known' = Known /\ Registered' = Registered
      BY <2>1 DEF Known, Registered
    <2>4. handler' \in [Thread -> Handler]
      BY <2>1, <2>2 DEF TypeOK
    <2>5. \A g \in Thread : handler'[g].at = "placing" => handler'[g] = handler[g]
      BY <2>1, <2>2 DEF TypeOK
    <2>6. QED
      BY <2>1, <2>3, <2>4, <2>5 DEF TypeOK
  <1>3. ASSUME NEW h \in Thread, Register(h)
        PROVE  TypeOK'
    <2>1. /\ revision' = revision + 1 /\ sequence' = sequence + 1
          /\ handler' = [handler EXCEPT ![h] = Idle]
          /\ UNCHANGED <<nodes, tasks, dispatches>>
      BY <1>3 DEF Register
    <2>2. handler' \in [Thread -> Handler]
      BY <2>1 DEF TypeOK
    <2>3. \A g \in Thread : handler'[g].at = "placing" => handler'[g] = handler[g]
      BY <2>1 DEF TypeOK, Idle
    <2>4. Known \subseteq Known' /\ Registered' = Registered
      BY <1>3, <2>1, RegisterEffect DEF Registered
    <2>5. \A t \in Known' : jobs'[t].task = t
      BY <1>3, RegisterEffect DEF TypeOK, Known
    <2>6. \A d \in dispatches' : d.id \in 1..revision' /\ d.task \in Known' /\ d.node \in Registered'
      BY <2>1, <2>4 DEF TypeOK
    <2>7. QED
      BY <1>3, <2>1, <2>2, <2>3, <2>4, <2>5, <2>6, RegisterEffect DEF TypeOK
  <1>4. ASSUME NEW h \in Thread, Refuse(h) \/ EndPass(h) \/ Interrupted(h)
        PROVE  TypeOK'
    <2>1. /\ handler' = [handler EXCEPT ![h] = Idle]
          /\ UNCHANGED <<nodes, tasks, jobs, dispatches, sequence, revision>>
      BY <1>4 DEF Refuse, EndPass, Interrupted
    <2>2. handler' \in [Thread -> Handler]
      BY <2>1 DEF TypeOK
    <2>3. \A g \in Thread : handler'[g].at = "placing" => handler'[g] = handler[g]
      BY <2>1 DEF TypeOK, Idle
    <2>4. Known' = Known /\ Registered' = Registered
      BY <2>1 DEF Known, Registered
    <2>5. QED
      BY <2>1, <2>2, <2>3, <2>4 DEF TypeOK
  <1>5. ASSUME NEW h \in Thread, NEW now \in Now, NEW lease \in Lease, BeginPass(h, now, lease)
        PROVE  TypeOK'
    <2> DEFINE queued == {jobs'[t] : t \in {u \in Known : jobs'[u].state = "queued"}}
               new == [at |-> "placing", now |-> now, lease |-> lease, since |-> revision',
                       queued |-> queued]
    <2>1. /\ handler' = [handler EXCEPT ![h] = new]
          /\ revision' = revision + Cardinality(Expired(now))
          /\ dispatches' \subseteq dispatches
          /\ UNCHANGED <<nodes, tasks, sequence>>
      BY <1>5, PassKeepsJobs DEF BeginPass
    <2>2. revision' \in Nat /\ revision' >= revision
      BY <1>5, <2>1, PassKeepsJobs DEF TypeOK
    <2>3. \A t \in Known : jobs'[t] \in Job /\ jobs'[t].task = t
      BY <1>5, PassKeepsJobs, RecoveredJob DEF TypeOK
    <2>4. queued \subseteq Job /\ \A job \in queued : job.task \in Known
      BY <2>3
    <2> HIDE DEF queued
    <2>5. new \in Handler /\ new.queued = queued
      BY <2>2, <2>4 DEF Handler
    <2> HIDE DEF new
    <2>6. handler' \in [Thread -> Handler]
      BY <2>1, <2>5 DEF TypeOK
    <2>7. Known' = Known /\ Registered' = Registered
      BY <1>5, <2>1, PassKeepsJobs DEF Registered
    <2>8. \A g \in Thread : handler'[g].at = "placing" =>
             \A job \in handler'[g].queued : job.task \in Known
      BY <2>1, <2>4, <2>5 DEF TypeOK
    <2>9. \A d \in dispatches' : d.id \in 1..revision' /\ d.task \in Known /\ d.node \in Registered
      BY <2>1, <2>2 DEF TypeOK
    <2>10. jobs' \in [Task -> {NoJob} \union Job]
      BY <1>5, PassKeepsJobs
    <2>11. QED
      BY <2>1, <2>2, <2>3, <2>6, <2>7, <2>8, <2>9, <2>10 DEF TypeOK
  <1>6. ASSUME NEW h \in Thread, Place(h) \/ Store(h)
        PROVE  TypeOK'
    <2>1. PICK job \in handler[h].queued :
             /\ job \in Job /\ job.task \in Known
             /\ handler' = [handler EXCEPT ![h] =
                   [handler[h] EXCEPT !.queued = handler[h].queued \ {job}]]
             /\ \/ UNCHANGED <<jobs, dispatches, revision>>
                \/ \E p : Placement(p, job) /\ Reserve(h, job, p)
      BY <1>6, PlaceCases
    <2>2. /\ handler[h] \in [at: {"placing"}, now: Now, lease: Lease, since: Nat, queued: SUBSET Job]
          /\ UNCHANGED <<nodes, tasks, sequence>>
      BY <1>6, PlaceCases
    <2> DEFINE new == [handler[h] EXCEPT !.queued = handler[h].queued \ {job}]
    <2>3. new \in Handler /\ new.queued \subseteq handler[h].queued
      BY <2>2 DEF Handler
    <2>4. handler' = [handler EXCEPT ![h] = new] /\ handler[h].at = "placing"
      BY <2>1, <2>2
    <2> HIDE DEF new
    <2>5. handler' \in [Thread -> Handler]
      BY <2>3, <2>4 DEF TypeOK
    <2>6. \A g \in Thread : handler'[g].at = "placing" =>
             \A j \in handler'[g].queued : j.task \in Known
      BY <2>3, <2>4 DEF TypeOK
    <2>7. Registered' = Registered
      BY <2>2 DEF Registered
    <2>8. CASE UNCHANGED <<jobs, dispatches, revision>>
      <3>1. Known' = Known
        BY <2>8 DEF Known
      <3>2. QED
        BY <2>2, <2>5, <2>6, <2>7, <2>8, <3>1 DEF TypeOK
    <2>9. CASE \E p : Placement(p, job) /\ Reserve(h, job, p)
      <3>1. PICK p : Placement(p, job) /\ Reserve(h, job, p)
        BY <2>9
      <3>2. /\ revision' = revision + 1
            /\ dispatches' = dispatches \union {p}
            /\ jobs' \in [Task -> {NoJob} \union Job]
            /\ jobs'[job.task].task = job.task
            /\ \A t \in Task : t # job.task => jobs'[t] = jobs[t]
            /\ Known' = Known
        BY <2>1, <2>2, <3>1, ReserveEffect
      <3>3. p.id = revision + 1 /\ p.task = job.task /\ p.node \in Registered
        BY <3>1 DEF Placement
      <3>4. \A d \in dispatches' : d.id \in 1..revision' /\ d.task \in Known /\ d.node \in Registered
        BY <2>1, <3>1, <3>2, <3>3 DEF TypeOK
      <3>5. \A t \in Known : jobs'[t].task = t
        BY <3>2 DEF TypeOK, Known
      <3>6. revision' \in Nat
        BY <3>2 DEF TypeOK
      <3>7. QED
        BY <2>2, <2>5, <2>6, <2>7, <3>2, <3>4, <3>5, <3>6 DEF TypeOK
    <2>10. QED
      BY <2>1, <2>8, <2>9
  <1>7. CASE UNCHANGED <<nodes, tasks, jobs, dispatches, sequence, revision, handler>>
    BY <1>7 DEF TypeOK, Known, Registered
  <1>8. QED
    BY <1>1, <1>2, <1>3, <1>4, <1>5, <1>6, <1>7, Serving DEF Next, Choose, Take, vars

\* Requests other than a placement or a submission leave handlers idle or as they
\* were, so every copy in hand afterwards was made by this step or in hand before.
LEMMA NextCopies ==
    TypeOK /\ TypeOK' /\ CopiesQueued /\ AttemptsWithinBudget /\ [Next]_vars => CopiesQueued'
  <1> SUFFICES ASSUME TypeOK, TypeOK', CopiesQueued, AttemptsWithinBudget, [Next]_vars,
                      NEW g \in Thread, handler'[g].at = "placing",
                      NEW job \in handler'[g].queued
               PROVE  job.state = "queued" /\ job.attempts < job.max
    BY DEF CopiesQueued
  <1>1. CASE handler'[g] = handler[g]
    BY <1>1 DEF CopiesQueued
  <1>2. ASSUME NEW h \in Thread, NEW now \in Now, NEW lease \in Lease, BeginPass(h, now, lease),
               handler'[g] # handler[g]
        PROVE  job.state = "queued" /\ job.attempts < job.max
    <2> DEFINE queued == {jobs'[t] : t \in {u \in Known : jobs'[u].state = "queued"}}
    <2>1. handler' = [handler EXCEPT ![h] =
             [at |-> "placing", now |-> now, lease |-> lease, since |-> revision',
              queued |-> queued]]
      BY <1>2, PassKeepsJobs
    <2> HIDE DEF queued
    <2>2. job \in queued
      BY <1>2, <2>1 DEF TypeOK
    <2>3. PICK t \in Known : job = jobs'[t] /\ jobs'[t].state = "queued"
      BY <2>2 DEF queued
    <2>4. CASE t \in Expired(now)
      BY <1>2, <2>3, <2>4, PassKeepsJobs, RecoveredJob
    <2>5. CASE t \notin Expired(now)
      <3>1. job = jobs[t]
        BY <1>2, <2>3, <2>5, PassKeepsJobs
      <3>2. QED
        BY <2>3, <3>1 DEF AttemptsWithinBudget
    <2>6. QED
      BY <2>4, <2>5
  <1>3. ASSUME NEW h \in Thread, Place(h) \/ Store(h)
        PROVE  job.state = "queued" /\ job.attempts < job.max
    <2>1. PICK j \in handler[h].queued :
             handler' = [handler EXCEPT ![h] =
                   [handler[h] EXCEPT !.queued = handler[h].queued \ {j}]]
      BY <1>3, PlaceCases
    <2>2. handler[h] \in [at: {"placing"}, now: Now, lease: Lease, since: Nat, queued: SUBSET Job]
      BY <1>3, PlaceCases
    <2>3. handler[g].at = "placing" /\ job \in handler[g].queued
      BY <2>1, <2>2 DEF TypeOK
    <2>4. QED
      BY <2>3 DEF CopiesQueued
  <1>4. ASSUME NEW h \in Thread,
               Register(h) \/ Refuse(h) \/ EndPass(h) \/ Interrupted(h)
        PROVE  handler'[g] = handler[g]
    BY <1>4 DEF Register, Refuse, EndPass, Interrupted, TypeOK, Idle
  <1>5. ASSUME NEW h \in Thread, NEW n \in Node, NEW r \in Report, NEW at \in Now,
               Heartbeat(h, n, r, at)
        PROVE  handler'[g] = handler[g]
    BY <1>5 DEF Heartbeat
  <1>6. ASSUME NEW h \in Thread, NEW q \in Request, NEW p \in Priority, NEW m \in MaxAttempts,
               StoreTask(h, q, p, m)
        PROVE  handler'[g] = handler[g]
    BY <1>6 DEF StoreTask, TypeOK
  <1>7. CASE UNCHANGED handler
    BY <1>1, <1>7
  <1>8. QED
    BY <1>1, <1>2, <1>3, <1>4, <1>5, <1>6, <1>7, Serving DEF Next, Choose, Take, vars

LEMMA NextAttempts ==
    TypeOK /\ CopiesQueued /\ AttemptsWithinBudget /\ [Next]_vars => AttemptsWithinBudget'
  <1> DEFINE Within(job) == /\ job.attempts <= job.max
                            /\ job.state = "queued" => job.attempts < job.max
                            /\ job.state = "failed" => job.attempts = job.max
  <1> SUFFICES ASSUME TypeOK, CopiesQueued, AttemptsWithinBudget, [Next]_vars, NEW t \in Known'
               PROVE  Within(jobs'[t])
    BY DEF AttemptsWithinBudget
  <1>0. t \in Task
    BY DEF Known
  <1>1. ASSUME jobs'[t] = jobs[t]
        PROVE  Within(jobs'[t])
    BY <1>0, <1>1 DEF AttemptsWithinBudget, Known
  <1>2. ASSUME NEW h \in Thread, NEW now \in Now, NEW lease \in Lease, BeginPass(h, now, lease)
        PROVE  Within(jobs'[t])
    <2>1. t \in Known /\ jobs[t] \in Job /\ Within(jobs[t])
      BY <1>2, PassKeepsJobs DEF AttemptsWithinBudget
    <2>2. CASE t \in Expired(now)
      <3>1. jobs'[t] = Recovered(jobs[t])
        BY <1>2, <2>1, <2>2, PassKeepsJobs
      <3>2. jobs[t].attempts \in Nat /\ jobs[t].max \in Nat
        BY <2>1, SchedulerAssumption DEF Job
      <3>3. QED
        BY <2>1, <3>1, <3>2, RecoveredJob
    <2>3. CASE t \notin Expired(now)
      BY <1>2, <2>1, <2>3, PassKeepsJobs
    <2>4. QED
      BY <2>2, <2>3
  <1>3. ASSUME NEW h \in Thread, Place(h) \/ Store(h)
        PROVE  Within(jobs'[t])
    <2>1. PICK job \in handler[h].queued :
             /\ job \in Job /\ job.task \in Known
             /\ \/ UNCHANGED <<jobs, dispatches, revision>>
                \/ \E p : Placement(p, job) /\ Reserve(h, job, p)
      BY <1>3, PlaceCases
    <2>2. handler[h] \in [at: {"placing"}, now: Now, lease: Lease, since: Nat, queued: SUBSET Job]
      BY <1>3, PlaceCases
    <2>3. job.attempts < job.max /\ job.attempts \in Nat /\ job.max \in Nat
      BY <2>1, <2>2, SchedulerAssumption DEF CopiesQueued, Job
    <2>4. ASSUME NEW p, Placement(p, job), Reserve(h, job, p)
          PROVE  Within(jobs'[t])
      <3>1. CASE t = job.task
        <4>1. /\ jobs'[t].attempts = job.attempts + 1
              /\ jobs'[t].max = job.max
              /\ jobs'[t].state = "scheduled"
          BY <2>1, <2>2, <2>4, <3>1, ReserveEffect
        <4>2. QED
          BY <2>3, <4>1
      <3>2. CASE t # job.task
        BY <1>0, <1>1, <2>1, <2>2, <2>4, <3>2, ReserveEffect
      <3>3. QED
        BY <3>1, <3>2
    <2>5. QED
      BY <1>1, <2>1, <2>4
  <1>4. ASSUME NEW h \in Thread, Register(h)
        PROVE  Within(jobs'[t])
    <2>1. CASE t = handler[h].task
      <3>1. /\ jobs'[t].attempts = 0 /\ jobs'[t].max \in MaxAttempts
            /\ jobs'[t].state = "queued"
        BY <1>4, <2>1, RegisterEffect
      <3>2. jobs'[t].max \in Nat /\ jobs'[t].max # 0
        <4>1. \A m \in MaxAttempts : m \in Nat /\ m # 0
          BY SchedulerAssumption
        <4>2. QED
          BY <3>1, <4>1
      <3>3. QED
        BY <3>1, <3>2
    <2>2. CASE t # handler[h].task
      BY <1>0, <1>1, <1>4, <2>2, RegisterEffect
    <2>3. QED
      BY <2>1, <2>2
  <1>5. ASSUME UNCHANGED jobs
        PROVE  Within(jobs'[t])
    BY <1>1, <1>5
  <1>6. QED
    BY <1>2, <1>3, <1>4, <1>5, Serving 
    DEF Next, Heartbeat, StoreTask, Refuse, Choose, Take, EndPass, Interrupted, vars

Inv == TypeOK /\ CopiesQueued /\ AttemptsWithinBudget

\* The inductive invariant, for any number of handler threads.
THEOREM SchedulerInvariant == Spec => []Inv
  <1>1. Init => Inv
    <2> SUFFICES ASSUME Init PROVE Inv
      OBVIOUS
    <2>1. TypeOK
      BY InitTypes
    <2>2. Known = {} /\ dispatches = {} /\ \A h \in Thread : handler[h].at # "placing"
      BY DEF Init, Known, Idle
    <2>3. QED
      BY <2>1, <2>2 DEF Inv, CopiesQueued, AttemptsWithinBudget
  <1>2. Inv /\ [Next]_vars => Inv'
    BY NextTypes, NextCopies, NextAttempts DEF Inv
  <1>3. QED
    BY <1>1, <1>2, PTL DEF Spec

\* Every variable keeps its type, so a job is queued, scheduled or failed and a
\* dispatch names a known task and a registered node.
THEOREM SchedulerTypes == Spec => []TypeOK
  BY SchedulerInvariant, PTL DEF Inv

\* recover never requeues a job beyond max_attempts and never fails one early,
\* even when passes of several threads overlap.
THEOREM AttemptsBounded == Spec => []AttemptsWithinBudget
  BY SchedulerInvariant, PTL DEF Inv

-----------------------------------------------------------------------------
(* Placements fit *)

\* The copy that a pass holds of a job asks for what the job asks for.
CopiesAskAlike ==
    \A h \in Thread : handler[h].at = "placing" =>
        \A job \in handler[h].queued : jobs[job.task].request = job.request

FitInv == CopiesAskAlike /\ IsFiniteSet(dispatches)

\* A job is never forgotten and never asks for something else.
LEMMA RequestsStay ==
    ASSUME Inv, FitInv, [Next]_vars, NEW t \in Known
    PROVE  t \in Known' /\ jobs'[t].request = jobs[t].request
  <1> USE DEF Inv
  <1>0. t \in Task
    BY DEF Known
  <1>1. ASSUME NEW h \in Thread, Place(h) \/ Store(h)
        PROVE  t \in Known' /\ jobs'[t].request = jobs[t].request
    <2>1. PICK job \in handler[h].queued :
             /\ job \in Job /\ job.task \in Known
             /\ \/ UNCHANGED <<jobs, dispatches, revision>>
                \/ \E p : Placement(p, job) /\ Reserve(h, job, p)
      BY <1>1, PlaceCases
    <2>2. handler[h] \in [at: {"placing"}, now: Now, lease: Lease, since: Nat, queued: SUBSET Job]
      BY <1>1, PlaceCases
    <2>3. CASE UNCHANGED jobs
      BY <2>3 DEF Known
    <2>4. ASSUME NEW p, Placement(p, job), Reserve(h, job, p)
          PROVE  t \in Known' /\ jobs'[t].request = jobs[t].request
      <3>1. /\ Known' = Known
            /\ jobs'[job.task].request = job.request
            /\ t # job.task => jobs'[t] = jobs[t]
        BY <1>0, <2>1, <2>2, <2>4, ReserveEffect
      <3>2. jobs[job.task].request = job.request
        BY <2>2 DEF FitInv, CopiesAskAlike
      <3>3. QED
        BY <3>1, <3>2
    <2>5. QED
      BY <2>1, <2>3, <2>4
  <1>2. ASSUME NEW h \in Thread, Register(h)
        PROVE  t \in Known' /\ jobs'[t].request = jobs[t].request
    <2>1. handler[h].task \notin Known
      BY <1>2 DEF Register
    <2>2. QED
      BY <1>0, <1>2, <2>1, RegisterEffect
  <1>3. ASSUME NEW h \in Thread, NEW now \in Now, NEW lease \in Lease, BeginPass(h, now, lease)
        PROVE  t \in Known' /\ jobs'[t].request = jobs[t].request
    BY <1>3, PassKeepsJobs, RecoveredJob
  <1>4. CASE UNCHANGED jobs
    BY <1>4 DEF Known
  <1>5. QED
    BY <1>1, <1>2, <1>3, <1>4, Serving 
    DEF Next, Heartbeat, StoreTask, Refuse, Choose, Take, EndPass, Interrupted, vars

LEMMA InitFit == Init => FitInv
  BY FS_EmptySet DEF Init, FitInv, CopiesAskAlike, Idle

LEMMA NextFit == Inv /\ Inv' /\ FitInv /\ [Next]_vars => FitInv'
  <1> SUFFICES ASSUME Inv, Inv', FitInv, [Next]_vars
               PROVE  FitInv'
    OBVIOUS
  <1> USE DEF Inv
  <1>1. IsFiniteSet(dispatches')
    <2>1. ASSUME NEW h \in Thread, Place(h) \/ Store(h)
          PROVE  \/ dispatches' = dispatches
                 \/ \E d : dispatches' = dispatches \union {d}
      BY <2>1 DEF Place, Store, Reserve
    <2>2. ASSUME NEW h \in Thread, NEW now \in Now, NEW lease \in Lease, BeginPass(h, now, lease)
          PROVE  dispatches' \in SUBSET dispatches
      BY <2>2 DEF BeginPass
    <2>3. \/ dispatches' \in SUBSET dispatches
          \/ \E d : dispatches' = dispatches \union {d}
      BY <2>1, <2>2, Serving
      DEF Next, Heartbeat, StoreTask, Register, Refuse, Choose, Take, EndPass, Interrupted, vars
    <2>4. QED
      BY <2>3, FS_Subset, FS_AddElement DEF FitInv
  <1>2. ASSUME NEW g \in Thread, handler'[g].at = "placing", NEW job \in handler'[g].queued
        PROVE  jobs'[job.task].request = job.request
    <2>1. ASSUME handler[g].at = "placing", job \in handler[g].queued
          PROVE  jobs'[job.task].request = job.request
      <3>1. job.task \in Known /\ jobs[job.task].request = job.request
        BY <2>1 DEF TypeOK, FitInv, CopiesAskAlike
      <3>2. QED
        BY <3>1, RequestsStay
    <2>2. CASE handler'[g] = handler[g]
      BY <1>2, <2>1, <2>2
    <2>3. ASSUME NEW h \in Thread, NEW now \in Now, NEW lease \in Lease, BeginPass(h, now, lease),
                 handler'[g] # handler[g]
          PROVE  jobs'[job.task].request = job.request
      <3> DEFINE queued == {jobs'[t] : t \in {u \in Known : jobs'[u].state = "queued"}}
      <3>1. handler' = [handler EXCEPT ![h] =
               [at |-> "placing", now |-> now, lease |-> lease, since |-> revision',
                queued |-> queued]]
        BY <2>3, PassKeepsJobs
      <3> HIDE DEF queued
      <3>2. job \in queued
        BY <1>2, <2>3, <3>1 DEF TypeOK
      <3>3. PICK t \in Known : job = jobs'[t]
        BY <3>2 DEF queued
      <3>4. job.task = t
        <4>1. Known' = Known
          BY <2>3, PassKeepsJobs
        <4>2. QED
          BY <3>3, <4>1 DEF TypeOK
      <3>5. QED
        BY <3>3, <3>4
    <2>4. ASSUME NEW h \in Thread, Place(h) \/ Store(h)
          PROVE  jobs'[job.task].request = job.request
      <3>1. PICK j \in handler[h].queued :
               handler' = [handler EXCEPT ![h] =
                     [handler[h] EXCEPT !.queued = handler[h].queued \ {j}]]
        BY <2>4, PlaceCases
      <3>2. handler[h] \in [at: {"placing"}, now: Now, lease: Lease, since: Nat, queued: SUBSET Job]
        BY <2>4, PlaceCases
      <3>3. handler[g].at = "placing" /\ job \in handler[g].queued
        BY <1>2, <3>1, <3>2 DEF TypeOK
      <3>4. QED
        BY <2>1, <3>3
    <2>5. ASSUME NEW h \in Thread,
                 Register(h) \/ Refuse(h) \/ EndPass(h) \/ Interrupted(h)
          PROVE  handler'[g] = handler[g]
      BY <1>2, <2>5 DEF Register, Refuse, EndPass, Interrupted, TypeOK, Idle
    <2>6. ASSUME NEW h \in Thread, NEW n \in Node, NEW r \in Report, NEW at \in Now,
                 Heartbeat(h, n, r, at)
          PROVE  handler'[g] = handler[g]
      BY <2>6 DEF Heartbeat
    <2>7. ASSUME NEW h \in Thread, NEW q \in Request, NEW p \in Priority, NEW m \in MaxAttempts,
                 StoreTask(h, q, p, m)
          PROVE  handler'[g] = handler[g]
      BY <1>2, <2>7 DEF StoreTask, TypeOK
    <2>8. CASE UNCHANGED handler
      BY <2>2, <2>8
    <2>9. QED
      BY <2>2, <2>3, <2>4, <2>5, <2>6, <2>7, <2>8, Serving DEF Next, Choose, Take, vars
  <1>3. QED
    BY <1>1, <1>2 DEF FitInv, CopiesAskAlike

\* A node reports a GPU once, which SchedulerNode does not check.
DistinctGpus ==
    \A r \in Report : \A i, j \in DOMAIN r.gpus : r.gpus[i].id = r.gpus[j].id => i = j

\* A node that fits has enough free devices, which are finitely many.
LEMMA FreeDevices ==
    ASSUME TypeOK, NEW q \in Request, NEW n \in Registered, NEW held
    PROVE  /\ FreeCpus(q, n, held) \in SUBSET Int /\ IsFiniteSet(FreeCpus(q, n, held))
           /\ FreeGpus(q, n, held) \in SUBSET (Int \intersect DOMAIN nodes[n].report.gpus)
           /\ IsFiniteSet(FreeGpus(q, n, held))
           /\ q.cores \in Nat /\ q.memory \in Nat /\ q.gpus \in Nat
           /\ nodes[n].report \in Report
  <1> DEFINE r == nodes[n].report
  <1>1. r \in Report
    BY DEF TypeOK, Registered
  <1> HIDE DEF r
  <1>2. /\ IsFiniteSet(r.cpus) /\ r.cpus \subseteq Int
        /\ IsFiniteSet(DOMAIN r.gpus) /\ DOMAIN r.gpus \subseteq Int
    <2>1. ValidReport(r)
      BY <1>1, InputAssumption
    <2>2. IsFiniteSet(DOMAIN r.gpus) /\ DOMAIN r.gpus = 1..Cardinality(DOMAIN r.gpus)
      BY <2>1 DEF ValidReport
    <2>3. DOMAIN r.gpus \subseteq Int
      <3>1. PICK c : c = Cardinality(DOMAIN r.gpus)
        OBVIOUS
      <3>2. c \in Nat /\ DOMAIN r.gpus = 1..c
        BY <2>2, <3>1, FS_CardinalityType
      <3>3. QED
        BY <3>2
    <2>4. QED
      BY <2>1, <2>3 DEF ValidReport
  <1>3. /\ q.cores \in Nat /\ q.memory \in Nat /\ q.gpus \in Nat
        /\ IsFiniteSet(q.affinity) /\ q.affinity \subseteq Int
    BY InputAssumption DEF ValidRequest
  <1>4. EligibleCpus(q, r) \in SUBSET q.affinity \/ EligibleCpus(q, r) \in SUBSET r.cpus
    BY DEF EligibleCpus
  <1>5. EligibleCpus(q, r) \in SUBSET Int /\ IsFiniteSet(EligibleCpus(q, r))
    BY <1>2, <1>3, <1>4, FS_Subset
  <1>6. FreeCpus(q, n, held) \in SUBSET EligibleCpus(q, r)
    BY DEF FreeCpus, CpusLeft, r
  <1>7. FreeGpus(q, n, held) \in SUBSET DOMAIN r.gpus
    BY DEF FreeGpus, GpusLeft, EligibleGpus, r
  <1>8. IsFiniteSet(FreeCpus(q, n, held)) /\ IsFiniteSet(FreeGpus(q, n, held))
    BY <1>2, <1>5, <1>6, <1>7, FS_Subset
  <1>9. QED
    BY <1>1, <1>2, <1>3, <1>5, <1>6, <1>7, <1>8 DEF r

\* The devices of a new allocation are as many as were asked for.
LEMMA DispatchSize ==
    ASSUME TypeOK, DistinctGpus, NEW q \in Request, NEW n \in Registered, NEW id, NEW task,
           AvailableFit(q, n, dispatches)
    PROVE  /\ Cardinality(Dispatch(q, n, id, task).cpus) = q.cores
           /\ Cardinality(Dispatch(q, n, id, task).gpus) = q.gpus
  <1> DEFINE cpus == FreeCpus(q, n, dispatches)
             free == FreeGpus(q, n, dispatches)
             gpus == FirstOf(free, q.gpus)
             gpu == nodes[n].report.gpus
  <1>1. q.cores <= Cardinality(cpus) /\ q.gpus <= Cardinality(free)
    <2>1. Cardinality(cpus) >= q.cores /\ Cardinality(free) >= q.gpus
      BY DEF AvailableFit
    <2>2. QED
      BY <2>1
  <1>2. /\ cpus \in SUBSET Int /\ IsFiniteSet(cpus)
        /\ free \in SUBSET (Int \intersect DOMAIN gpu) /\ IsFiniteSet(free)
        /\ q.cores \in Nat /\ q.gpus \in Nat /\ nodes[n].report \in Report
    BY FreeDevices
  <1> HIDE DEF cpus, free
  <1>3. Cardinality(FirstOf(cpus, q.cores)) = q.cores
    BY <1>1, <1>2, FirstOfSize
  <1>4. IsFiniteSet(gpus) /\ Cardinality(gpus) = q.gpus
    BY <1>1, <1>2, FirstOfSize
  <1> DEFINE ids == {gpu[i].id : i \in gpus}
             name == [i \in gpus |-> gpu[i].id]
  <1>5. Cardinality(ids) = q.gpus
    <2>1. gpus \subseteq DOMAIN gpu
      BY <1>2 DEF FirstOf
    <2>2. \A i, j \in gpus : gpu[i].id = gpu[j].id => i = j
      BY <1>2, <2>1 DEF DistinctGpus
    <2> HIDE DEF gpus, gpu
    <2>3. name \in [gpus -> ids] /\ \A i \in gpus : name[i] = gpu[i].id
      OBVIOUS
    <2>4. name \in Bijection(gpus, ids)
      <3>1. \A x \in ids : \E i \in gpus : name[i] = x
        OBVIOUS
      <3>2. \A i, j \in gpus : name[i] = name[j] => i = j
        BY <2>2, <2>3
      <3> HIDE DEF name, ids
      <3>3. QED
        BY <2>3, <3>1, <3>2 DEF Bijection, Injection, Surjection, IsInjective
    <2> HIDE DEF name, ids
    <2>5. QED
      BY <1>4, <2>4, FS_Bijection DEF ExistsBijection
  <1>6. QED
    BY <1>3, <1>5 DEF Dispatch, cpus, free

\* What a node holds afterwards is what it held and what the new job asks for.
LEMMA MemoryAdds ==
    ASSUME Inv, FitInv, NEW d, d \notin dispatches, d.task \in Known
    PROVE  UsedMemory(d.node, dispatches \union {d})
              = UsedMemory(d.node, dispatches) + jobs[d.task].request.memory
  <1> DEFINE mine == On(d.node, dispatches)
             more == On(d.node, dispatches \union {d})
             f == [e \in mine |-> jobs[e.task].request.memory]
             k == [e \in more |-> jobs[e.task].request.memory]
  <1>1. more = mine \union {d} /\ d \notin mine
    BY DEF On
  <1>2. IsFiniteSet(mine)
    <2>1. mine \in SUBSET dispatches
      BY DEF On
    <2>2. QED
      BY <2>1, FS_Subset DEF FitInv
  <1>3. \A t \in Known : jobs[t].request.memory \in Nat
    <2>1. \A t \in Known : jobs[t] \in Job
      BY DEF Inv, TypeOK, Known
    <2>2. \A t \in Known : jobs[t].request \in Request
      BY <2>1 DEF Job
    <2>3. QED
      BY <2>2, InputAssumption DEF ValidRequest
  <1>4. \A e \in more : e.task \in Known
    BY DEF On, Inv, TypeOK
  <1>5. UsedMemory(d.node, dispatches) = SumFunction(f)
    BY DEF UsedMemory
  <1>6. UsedMemory(d.node, dispatches \union {d}) = SumFunction(k)
    BY DEF UsedMemory
  <1> HIDE DEF mine, more
  <1>7. /\ f \in [mine -> Nat]
        /\ k \in [mine \union {d} -> Nat]
        /\ \A e \in mine : k[e] = f[e]
        /\ k[d] = jobs[d.task].request.memory
    <2>1. k \in [more -> Nat]
      BY <1>3, <1>4
    <2>2. f \in [mine -> Nat]
      BY <1>1, <1>3, <1>4
    <2>3. \A e \in mine : k[e] = f[e]
      BY <1>1
    <2>4. k[d] = jobs[d.task].request.memory
      BY <1>1
    <2>5. QED
      BY <1>1, <2>1, <2>2, <2>3, <2>4
  <1> HIDE DEF f, k
  <1>8. SumFunction(k) = SumFunction(f) + k[d]
    BY <1>1, <1>2, <1>7, SumAdd
  <1>9. QED
    BY <1>5, <1>6, <1>7, <1>8

-----------------------------------------------------------------------------
(* One request at a time *)

\* Who does not serve is idle.
OthersIdle == \A h \in Thread \ serving : handler[h] = Idle

IdsUnique == \A d, e \in dispatches : d.id = e.id => d = e

\* With no other thread, the copies a pass works on are the jobs themselves, and
\* what a submission validated stays valid until it registers.
CopiesCurrent ==
    \A h \in Thread :
        /\ handler[h].at = "placing" =>
              \A job \in handler[h].queued : jobs[job.task] = job
        /\ handler[h].at = "registering" => Valid(handler[h].request)

\* A job leaves "queued" by its own placement, "scheduled" by its own expiry.
LEMMA MatchAfterPass ==
    ASSUME Inv, IdsUnique, DispatchesMatchJobs,
           NEW h \in Thread, NEW now \in Now, NEW lease \in Lease, BeginPass(h, now, lease)
    PROVE  DispatchesMatchJobs'
  <1> USE DEF Inv
  <1> DEFINE gone == {jobs[t].alloc : t \in Expired(now)}
  <1>1. dispatches' = {d \in dispatches : d.id \notin gone}
    BY DEF BeginPass
  <1>2. \A d \in dispatches : /\ d.task \in Known /\ jobs[d.task].state = "scheduled"
                              /\ jobs[d.task].alloc = d.id /\ jobs[d.task].node = d.node
    BY DEF DispatchesMatchJobs, TypeOK
  <1>3. \A d \in dispatches' : d.task \notin Expired(now)
    BY <1>1, <1>2
  <1>4. \A d \in dispatches' : jobs'[d.task] = jobs[d.task]
    BY <1>1, <1>2, <1>3, PassKeepsJobs
  <1>5. ASSUME NEW t \in Known', jobs'[t].state = "scheduled"
        PROVE  \E d \in dispatches' : d.id = jobs'[t].alloc /\ d.task = t
    <2>1. t \in Known
      BY PassKeepsJobs
    <2>2. t \notin Expired(now)
      BY <1>5, <2>1, PassKeepsJobs, RecoveredJob
    <2>3. jobs'[t] = jobs[t]
      BY <2>1, <2>2, PassKeepsJobs
    <2>4. PICK d \in dispatches : d.id = jobs[t].alloc /\ d.task = t
      BY <1>5, <2>1, <2>3 DEF DispatchesMatchJobs
    <2>5. d.id \notin gone
      <3>1. ASSUME NEW u \in Expired(now), jobs[u].alloc = d.id
            PROVE  FALSE
        <4>1. u \in Known /\ jobs[u].state = "scheduled"
          BY DEF Expired
        <4>2. PICK e \in dispatches : e.id = jobs[u].alloc /\ e.task = u
          BY <4>1 DEF DispatchesMatchJobs
        <4>3. e = d
          BY <2>4, <3>1, <4>2 DEF IdsUnique
        <4>4. QED
          BY <2>2, <2>4, <3>1, <4>2, <4>3
      <3>2. QED
        BY <3>1
    <2>6. QED
      BY <1>1, <2>3, <2>4, <2>5
  <1>6. \A d \in dispatches' : /\ jobs'[d.task].state = "scheduled"
                               /\ jobs'[d.task].alloc = d.id
                               /\ jobs'[d.task].node = d.node
    BY <1>1, <1>2, <1>4
  <1>7. QED
    BY <1>5, <1>6 DEF DispatchesMatchJobs

LEMMA MatchAfterPlace ==
    ASSUME Inv, IdsUnique, DispatchesMatchJobs, CopiesCurrent, NEW h \in Thread, Place(h) \/ Store(h)
    PROVE  DispatchesMatchJobs' /\ IdsUnique'
  <1> USE DEF Inv
  <1>1. PICK job \in handler[h].queued :
           /\ job \in Job /\ job.task \in Known
           /\ \/ UNCHANGED <<jobs, dispatches, revision>>
              \/ \E p : Placement(p, job) /\ Reserve(h, job, p)
    BY PlaceCases
  <1>2. handler[h] \in [at: {"placing"}, now: Now, lease: Lease, since: Nat, queued: SUBSET Job]
    BY PlaceCases
  <1>3. CASE UNCHANGED <<jobs, dispatches, revision>>
    BY <1>3 DEF DispatchesMatchJobs, IdsUnique, Known
  <1>4. ASSUME NEW p, Placement(p, job), Reserve(h, job, p)
        PROVE  DispatchesMatchJobs' /\ IdsUnique'
    <2>1. p.id = revision + 1 /\ p.task = job.task
      BY <1>4 DEF Placement
    <2>2. /\ dispatches' = dispatches \union {p}
          /\ jobs'[job.task].state = "scheduled"
          /\ jobs'[job.task].alloc = revision + 1
          /\ jobs'[job.task].node = p.node
          /\ \A t \in Task : t # job.task => jobs'[t] = jobs[t]
          /\ Known' = Known
      BY <1>1, <1>2, <1>4, ReserveEffect
    <2>3. jobs[job.task].state = "queued"
      BY <1>1, <1>2 DEF CopiesCurrent, CopiesQueued
    <2>4. \A d \in dispatches : /\ d.task # job.task /\ d.task \in Task
                                /\ d.id # revision + 1
      BY <2>3 DEF DispatchesMatchJobs, TypeOK, Known
    <2>5. IdsUnique'
      BY <2>1, <2>2, <2>4 DEF IdsUnique
    <2>6. \A d \in dispatches' : /\ jobs'[d.task].state = "scheduled"
                                 /\ jobs'[d.task].alloc = d.id
                                 /\ jobs'[d.task].node = d.node
      BY <2>1, <2>2, <2>4 DEF DispatchesMatchJobs
    <2>7. ASSUME NEW t \in Known', jobs'[t].state = "scheduled"
          PROVE  \E d \in dispatches' : d.id = jobs'[t].alloc /\ d.task = t
      BY <2>1, <2>2, <2>7 DEF DispatchesMatchJobs, Known
    <2>8. QED
      BY <2>5, <2>6, <2>7 DEF DispatchesMatchJobs
  <1>5. QED
    BY <1>1, <1>3, <1>4

LEMMA NextMatch ==
    Inv /\ IdsUnique /\ DispatchesMatchJobs /\ CopiesCurrent /\ [Next]_vars
        => DispatchesMatchJobs' /\ IdsUnique'
  <1> SUFFICES ASSUME Inv, IdsUnique, DispatchesMatchJobs, CopiesCurrent, [Next]_vars
               PROVE  DispatchesMatchJobs' /\ IdsUnique'
    OBVIOUS
  <1>1. ASSUME NEW h \in Thread, NEW now \in Now, NEW lease \in Lease, BeginPass(h, now, lease)
        PROVE  DispatchesMatchJobs' /\ IdsUnique'
    <2>1. IdsUnique'
      BY <1>1 DEF BeginPass, IdsUnique
    <2>2. QED
      BY <1>1, <2>1, MatchAfterPass
  <1>2. ASSUME NEW h \in Thread, Place(h) \/ Store(h)
        PROVE  DispatchesMatchJobs' /\ IdsUnique'
    BY <1>2, MatchAfterPlace
  <1>3. ASSUME NEW h \in Thread, Register(h)
        PROVE  DispatchesMatchJobs' /\ IdsUnique'
    <2>1. /\ UNCHANGED dispatches /\ handler[h].task \notin Known
          /\ jobs'[handler[h].task].state = "queued"
          /\ \A t \in Task : t # handler[h].task => jobs'[t] = jobs[t]
          /\ Known' = Known \union {handler[h].task}
      BY <1>3, RegisterEffect DEF Register, Inv
    <2>2. \A t \in Known : jobs'[t] = jobs[t]
      BY <2>1 DEF Known
    <2>3. \A d \in dispatches : d.task \in Known
      BY DEF Inv, TypeOK
    <2>4. QED
      BY <2>1, <2>2, <2>3 DEF DispatchesMatchJobs, IdsUnique
  <1>4. CASE UNCHANGED <<jobs, dispatches>>
    BY <1>4 DEF DispatchesMatchJobs, IdsUnique, Known
  <1>5. QED
    BY <1>1, <1>2, <1>3, <1>4, Serving 
    DEF Inv, Next, Heartbeat, StoreTask, Refuse, Choose, Take, EndPass, Interrupted, vars

LEMMA NextCurrent ==
    ASSUME OneAtATime, OthersIdle, Inv, CopiesCurrent, [Next]_vars
    PROVE  CopiesCurrent'
  <1>a. serving' = serving /\ serving \subseteq Thread
    BY Serving DEF Inv
  <1> USE <1>a DEF Inv
  <1>0. ASSUME NEW h \in serving, NEW new, handler' = [handler EXCEPT ![h] = new],
               new.at = "placing" => \A job \in new.queued : jobs'[job.task] = job,
               new.at = "registering" => Valid(new.request)'
        PROVE  CopiesCurrent'
    BY <1>0 DEF CopiesCurrent, OneAtATime, OthersIdle, Idle, TypeOK
  <1>1. ASSUME NEW h \in serving, handler' = [handler EXCEPT ![h] = Idle]
        PROVE  CopiesCurrent'
    BY <1>0, <1>1 DEF Idle
  <1>2. ASSUME NEW h \in serving, NEW n \in Node, NEW r \in Report, NEW at \in Now,
               Heartbeat(h, n, r, at)
        PROVE  CopiesCurrent'
    BY <1>2 DEF Heartbeat, CopiesCurrent, OneAtATime, OthersIdle, Idle
  <1>3. ASSUME NEW h \in serving, NEW q \in Request, NEW p \in Priority, NEW m \in MaxAttempts,
               StoreTask(h, q, p, m)
        PROVE  CopiesCurrent'
    <2> DEFINE new == [at |-> "registering", task |-> Cardinality(tasks) + 1, request |-> q,
                       priority |-> p, max |-> m]
    <2>1. handler' = [handler EXCEPT ![h] = new] /\ Valid(q) /\ UNCHANGED nodes
      BY <1>3 DEF StoreTask
    <2>2. Valid(q)'
      BY <2>1 DEF Valid, Registered
    <2>3. new.at = "registering" /\ new.request = q
      OBVIOUS
    <2> HIDE DEF new
    <2>4. QED
      BY <1>0, <2>1, <2>2, <2>3
  <1>4. ASSUME NEW h \in serving, NEW now \in Now, NEW lease \in Lease, BeginPass(h, now, lease)
        PROVE  CopiesCurrent'
    <2> DEFINE queued == {jobs'[t] : t \in {u \in Known : jobs'[u].state = "queued"}}
               new == [at |-> "placing", now |-> now, lease |-> lease, since |-> revision',
                       queued |-> queued]
    <2>1. handler' = [handler EXCEPT ![h] = new]
      BY <1>4, PassKeepsJobs
    <2>2. \A t \in Known : jobs'[t].task = t
      BY <1>4, PassKeepsJobs, RecoveredJob DEF TypeOK
    <2>3. \A job \in queued : jobs'[job.task] = job
      BY <2>2
    <2> HIDE DEF queued
    <2>4. new.at = "placing" /\ new.queued = queued
      OBVIOUS
    <2> HIDE DEF new
    <2>5. QED
      BY <1>0, <2>1, <2>3, <2>4
  <1>5. ASSUME NEW h \in serving, Place(h) \/ Store(h)
        PROVE  CopiesCurrent'
    <2>1. PICK job \in handler[h].queued :
             /\ job \in Job /\ job.task \in Known
             /\ handler' = [handler EXCEPT ![h] =
                   [handler[h] EXCEPT !.queued = handler[h].queued \ {job}]]
             /\ \/ UNCHANGED <<jobs, dispatches, revision>>
                \/ \E p : Placement(p, job) /\ Reserve(h, job, p)
      BY <1>5, PlaceCases
    <2>2. handler[h] \in [at: {"placing"}, now: Now, lease: Lease, since: Nat, queued: SUBSET Job]
      BY <1>5, PlaceCases
    <2> DEFINE new == [handler[h] EXCEPT !.queued = handler[h].queued \ {job}]
    <2>3. new.at = "placing" /\ new.queued = handler[h].queued \ {job}
      BY <2>2
    <2>4. \A k \in handler[h].queued : jobs[k.task] = k /\ k.task \in Task
      BY <2>2 DEF CopiesCurrent, TypeOK, Known
    <2>5. \A k \in handler[h].queued \ {job} : k.task # job.task
      BY <2>1, <2>4
    <2>6. \A k \in handler[h].queued \ {job} : jobs'[k.task] = k
      BY <2>1, <2>2, <2>4, <2>5, ReserveEffect
    <2>7. handler' = [handler EXCEPT ![h] = new]
      BY <2>1
    <2> HIDE DEF new
    <2>8. QED
      BY <1>0, <2>3, <2>6, <2>7
  <1>6. CASE UNCHANGED <<nodes, jobs, handler>>
    BY <1>6 DEF CopiesCurrent, Valid, Registered
  <1>7. QED
    BY <1>1, <1>2, <1>3, <1>4, <1>5, <1>6, Serving 
    DEF Next, Register, Refuse, Choose, Take, EndPass, Interrupted, vars

LEMMA NextNoOrphan ==
    ASSUME Inv, CopiesCurrent, NoOrphanTask, [Next]_vars
    PROVE  NoOrphanTask'
  <1> USE DEF Inv
  <1> DEFINE Handled(t) == \E h \in Thread : handler[h].at = "registering" /\ handler[h].task = t
  <1> SUFFICES ASSUME NEW t \in tasks' PROVE t \in Known' \/ Handled(t)'
    BY DEF NoOrphanTask
  <1>1. ASSUME NEW h \in Thread, NEW q \in Request, NEW p \in Priority, NEW m \in MaxAttempts,
               StoreTask(h, q, p, m)
        PROVE  t \in Known' \/ Handled(t)'
    <2> DEFINE task == Cardinality(tasks) + 1
               new == [at |-> "registering", task |-> task, request |-> q,
                       priority |-> p, max |-> m]
    <2>1. /\ tasks' = tasks \union {task} /\ UNCHANGED jobs
          /\ handler' = [handler EXCEPT ![h] = new] /\ handler[h] = Idle
      BY <1>1 DEF StoreTask
    <2>2. new.at = "registering" /\ new.task = task /\ Idle.at # "registering"
      BY DEF Idle
    <2> HIDE DEF new, task
    <2>3. Known' = Known
      BY <2>1 DEF Known
    <2>4. QED
      BY <2>1, <2>2, <2>3 DEF NoOrphanTask, TypeOK
  <1>2. ASSUME NEW h \in Thread, Register(h)
        PROVE  t \in Known' \/ Handled(t)'
    <2>1. /\ Known' = Known \union {handler[h].task} /\ UNCHANGED tasks
          /\ handler' = [handler EXCEPT ![h] = Idle]
      BY <1>2, RegisterEffect DEF Register
    <2>2. QED
      BY <2>1 DEF NoOrphanTask, TypeOK
  <1>3. ASSUME NEW h \in Thread, Refuse(h)
        PROVE  t \in Known' \/ Handled(t)'
    <2>1. /\ handler[h].task \in Known /\ UNCHANGED <<tasks, jobs>>
          /\ handler' = [handler EXCEPT ![h] = Idle]
      BY <1>3 DEF Refuse, CopiesCurrent
    <2>2. Known' = Known
      BY <2>1 DEF Known
    <2>3. QED
      BY <2>1, <2>2 DEF NoOrphanTask, TypeOK
  <1>4. ASSUME NEW h \in Thread, handler[h].at # "registering", UNCHANGED tasks, Known' = Known,
               \A g \in Thread : g # h => handler'[g] = handler[g]
        PROVE  t \in Known' \/ Handled(t)'
    BY <1>4 DEF NoOrphanTask
  <1>5. ASSUME NEW h \in Thread, EndPass(h) \/ Interrupted(h)
        PROVE  t \in Known' \/ Handled(t)'
    BY <1>4, <1>5 DEF EndPass, Interrupted, TypeOK, Known
  <1>6. ASSUME NEW h \in Thread, NEW now \in Now, NEW lease \in Lease, BeginPass(h, now, lease)
        PROVE  t \in Known' \/ Handled(t)'
    <2>1. Known' = Known
      BY <1>6, PassKeepsJobs
    <2>2. QED
      BY <1>4, <1>6, <2>1 DEF BeginPass, TypeOK, Idle
  <1>7. ASSUME NEW h \in Thread, Place(h) \/ Store(h)
        PROVE  t \in Known' \/ Handled(t)'
    <2>1. handler[h] \in [at: {"placing"}, now: Now, lease: Lease, since: Nat, queued: SUBSET Job]
      BY <1>7, PlaceCases
    <2>2. UNCHANGED tasks
      BY <1>7, PlaceCases
    <2>3. Known' = Known
      <3>1. PICK job \in handler[h].queued :
               /\ job \in Job /\ job.task \in Known
               /\ \/ UNCHANGED <<jobs, dispatches, revision>>
                  \/ \E p : Placement(p, job) /\ Reserve(h, job, p)
        BY <1>7, PlaceCases
      <3>2. CASE UNCHANGED <<jobs, dispatches, revision>>
        BY <3>2 DEF Known
      <3>3. QED
        BY <2>1, <3>1, <3>2, ReserveEffect
    <2>4. \A g \in Thread : g # h => handler'[g] = handler[g]
      BY <1>7 DEF Place, Store, TypeOK
    <2>5. QED
      BY <1>4, <2>1, <2>2, <2>3, <2>4
  <1>8. ASSUME NEW h \in Thread, NEW n \in Node, NEW r \in Report, NEW at \in Now,
               Heartbeat(h, n, r, at)
        PROVE  t \in Known' \/ Handled(t)'
    BY <1>4, <1>8 DEF Heartbeat, Known, Idle
  <1>9. CASE UNCHANGED <<tasks, jobs, handler>>
    BY <1>9 DEF NoOrphanTask, Known
  <1>10. QED
    BY <1>1, <1>2, <1>3, <1>5, <1>6, <1>7, <1>8, <1>9, Serving DEF Next, Choose, Take, vars

\* With no other thread nobody is preempted in a placement.
HandsEmpty == \A h \in Thread : hand[h] = Nothing

LEMMA NotPreempted ==
    ASSUME OneAtATime, OthersIdle, Inv, HandsEmpty, [Next]_vars
    PROVE  HandsEmpty' /\ \A h \in serving : ~Choose(h) /\ ~Take(h) /\ ~Store(h)
  <1>1. ASSUME NEW h \in serving
        PROVE  ~Choose(h) /\ ~Take(h) /\ ~Store(h)
    <2>1. h \in Thread /\ serving = {h}
      BY DEF OneAtATime, Inv, TypeOK
    <2>2. QED
      BY <2>1 DEF Choose, Take, Store, HandsEmpty, Nothing
  <1>2. HandsEmpty'
    <2>1. hand' = hand \/ \E h \in Thread : hand' = [hand EXCEPT ![h] = Nothing]
      BY <1>1, Serving DEF Inv, Next, Heartbeat, StoreTask, Register, Refuse, BeginPass, Place, EndPass,
         Interrupted, vars
    <2>2. QED
      BY <2>1 DEF HandsEmpty, Inv, TypeOK, HandsHold
  <1>3. QED
    BY <1>1, <1>2

\* A placement takes devices nobody on the node holds.
LEMMA DispatchTakesFree ==
    ASSUME NEW q, NEW n, NEW id, NEW task
    PROVE  /\ Dispatch(q, n, id, task).cpus \intersect UsedCpus(n, dispatches) = {}
           /\ Dispatch(q, n, id, task).gpus \intersect UsedGpus(n, dispatches) = {}
           /\ Dispatch(q, n, id, task).node = n
  <1>1. FirstOf(FreeCpus(q, n, dispatches), q.cores) \intersect UsedCpus(n, dispatches) = {}
    BY DEF FirstOf, FreeCpus, CpusLeft
  <1>2. \A i \in FirstOf(FreeGpus(q, n, dispatches), q.gpus) :
           nodes[n].report.gpus[i].id \notin UsedGpus(n, dispatches)
    BY DEF FirstOf, FreeGpus, GpusLeft
  <1>3. QED
    BY <1>1, <1>2 DEF Dispatch

LEMMA NextDevices ==
    ASSUME OneAtATime, OthersIdle, Inv, HandsEmpty, DevicesNotShared, [Next]_vars
    PROVE  DevicesNotShared'
  <1> USE DEF Inv
  <1>1. ASSUME dispatches' \subseteq dispatches
        PROVE  DevicesNotShared'
    BY <1>1 DEF DevicesNotShared
  <1>2. ASSUME NEW h \in Thread, Place(h)
        PROVE  DevicesNotShared'
    <2>1. PICK job \in handler[h].queued :
             \/ UNCHANGED <<jobs, dispatches, revision>>
             \/ \E n \in Registered :
                   Reserve(h, job, Dispatch(job.request, n, revision + 1, job.task))
      BY <1>2 DEF Place, Candidates
    <2>2. ASSUME NEW n \in Registered,
                 Reserve(h, job, Dispatch(job.request, n, revision + 1, job.task))
          PROVE  DevicesNotShared'
      <3> DEFINE new == Dispatch(job.request, n, revision + 1, job.task)
      <3>1. dispatches' = dispatches \union {new}
        BY <2>2 DEF Reserve
      <3>2. /\ new.cpus \intersect UsedCpus(n, dispatches) = {}
            /\ new.gpus \intersect UsedGpus(n, dispatches) = {}
            /\ new.node = n
        BY DispatchTakesFree
      <3> HIDE DEF new
      <3>3. \A d \in dispatches : d.node = n => /\ d.cpus \intersect new.cpus = {}
                                                /\ d.gpus \intersect new.gpus = {}
        BY <3>2 DEF UsedCpus, UsedGpus, On
      <3>4. QED
        BY <3>1, <3>2, <3>3 DEF DevicesNotShared
    <2>3. QED
      BY <1>1, <2>1, <2>2
  <1>3. ASSUME NEW h \in Thread, NEW now \in Now, NEW lease \in Lease, BeginPass(h, now, lease)
        PROVE  DevicesNotShared'
    BY <1>1, <1>3 DEF BeginPass
  <1>4. CASE UNCHANGED dispatches
    BY <1>1, <1>4
  <1>5. QED
    BY <1>2, <1>3, <1>4, Serving, NotPreempted
    DEF Next, Heartbeat, StoreTask, Register, Refuse, EndPass, Interrupted, vars

\* What is free depends on the reports and on what is held alone.
LEMMA CandidatesKept ==
    ASSUME NEW q, NEW now, NEW held, nodes' = nodes,
           \A d \in held : jobs'[d.task].request = jobs[d.task].request
    PROVE  Candidates(q, now, held)' = Candidates(q, now, held)
  <1>1. Registered' = Registered
    BY DEF Registered
  <1>2. ASSUME NEW n
        PROVE  UsedMemory(n, held)' = UsedMemory(n, held)
    <2>1. [d \in On(n, held) |-> jobs'[d.task].request.memory] =
          [d \in On(n, held) |-> jobs[d.task].request.memory]
      BY DEF On
    <2>2. QED
      BY <2>1 DEF UsedMemory, On
  <1>3. ASSUME NEW n
        PROVE  AvailableFit(q, n, held)' <=> AvailableFit(q, n, held)
    BY <1>2 DEF AvailableFit, FreeCpus, FreeGpus, CpusLeft, GpusLeft, UsedCpus, UsedGpus, On
  <1>4. QED
    BY <1>1, <1>3 DEF Candidates, Fresh

\* What was held when a pass took its turn at a job.
HeldAt(h, t) ==
    {d \in dispatches : ~ (d.id > handler[h].since /\ Before(jobs[t], jobs[d.task]))}

\* A pass goes through the jobs by rank: what it has placed and what it has passed over
\* come before what is left, and what it passed over fitted nowhere at its turn.
Ranked ==
    \A h \in Thread : handler[h].at = "placing" =>
        /\ handler[h].since <= revision
        /\ \A d \in dispatches : d.id > handler[h].since =>
              \A k \in handler[h].queued : Before(jobs[d.task], k)
        /\ \A t \in Known : jobs[t].state = "queued" /\ jobs[t] \notin handler[h].queued =>
              /\ \A k \in handler[h].queued : Before(jobs[t], k)
              /\ Candidates(jobs[t].request, handler[h].now, HeldAt(h, t)) = {}

LEMMA BeforeIsAsymmetric ==
    ASSUME NEW j \in Job, NEW k \in Job, Before(j, k)
    PROVE  ~Before(k, j)
  <1>1. /\ j.priority \in Priority /\ k.priority \in Priority
        /\ j.sequence \in Nat /\ k.sequence \in Nat
    BY DEF Job
  <1>2. j.priority \in 0..100 /\ k.priority \in 0..100
    BY <1>1, SchedulerAssumption
  <1>3. QED
    BY <1>1, <1>2 DEF Before

\* The ends of a pass and what serves no pass.
LEMMA RankedTrivially ==
    ASSUME \A h \in Thread : handler'[h].at # "placing"
    PROVE  Ranked'
  BY DEF Ranked

LEMMA PlaceKeepsRanked ==
    ASSUME Inv, CopiesCurrent, DispatchesMatchJobs, Ranked, NEW h \in Thread, Place(h),
           \A g \in Thread \ {h} : handler'[g].at # "placing"
    PROVE  Ranked'
  <1> USE DEF Inv
  <1>1. PICK job \in handler[h].queued :
           LET fit == Candidates(job.request, handler[h].now, dispatches)
           IN /\ \A k \in handler[h].queued \ {job} : Before(job, k)
              /\ handler' = [handler EXCEPT ![h].queued = @ \ {job}]
              /\ \/ fit = {} /\ UNCHANGED <<jobs, dispatches, revision>>
                 \/ \E n \in fit : Reserve(h, job, Dispatch(job.request, n, revision + 1, job.task))
    BY DEF Place, Places
  <1>2. /\ handler[h] \in [at: {"placing"}, now: Now, lease: Lease, since: Nat, queued: SUBSET Job]
        /\ nodes' = nodes
    BY PlaceCases
  <1>3. /\ job \in Job /\ job.task \in Known /\ jobs[job.task] = job
        /\ job.state = "queued"
    BY <1>2 DEF TypeOK, CopiesCurrent, CopiesQueued
  <1>4. /\ handler'[h].queued = handler[h].queued \ {job} /\ handler'[h].at = "placing"
        /\ handler'[h].since = handler[h].since /\ handler'[h].now = handler[h].now
    BY <1>1, <1>2 DEF TypeOK
  <1>5. \A t \in Known : jobs[t] \in Job
    BY DEF TypeOK, Known
  <1> DEFINE since == handler[h].since
             left == handler[h].queued \ {job}
  <1>6. CASE /\ Candidates(job.request, handler[h].now, dispatches) = {}
             /\ UNCHANGED <<jobs, dispatches, revision>>
    <2>1. Known' = Known
      BY <1>6 DEF Known
    <2>2. \A d \in dispatches' : d.id > since => \A k \in left : Before(jobs'[d.task], k)
      BY <1>2, <1>6 DEF Ranked
    <2>3. ASSUME NEW t \in Known, jobs[t].state = "queued", jobs[t] \notin left
          PROVE  /\ \A k \in left : Before(jobs[t], k)
                 /\ Candidates(jobs[t].request, handler[h].now, HeldAt(h, t)) = {}
      <3>1. CASE jobs[t] # job
        BY <1>2, <2>3, <3>1 DEF Ranked
      <3>2. CASE jobs[t] = job
        <4>1. \A d \in dispatches : d.id > since => ~Before(jobs[t], jobs[d.task])
          <5>1. ASSUME NEW d \in dispatches, d.id > since
                PROVE  ~Before(job, jobs[d.task])
            <6>1. Before(jobs[d.task], job)
              BY <1>2, <5>1 DEF Ranked
            <6>2. jobs[d.task] \in Job
              BY <1>5 DEF TypeOK
            <6>3. QED
              BY <1>3, <6>1, <6>2, BeforeIsAsymmetric
          <5>2. QED
            BY <3>2, <5>1
        <4>2. HeldAt(h, t) = dispatches
          BY <4>1 DEF HeldAt
        <4>3. QED
          BY <1>1, <1>6, <3>2, <4>2
      <3>3. QED
        BY <3>1, <3>2
    <2>4. ASSUME NEW t \in Known, jobs[t].state = "queued", jobs[t] \notin left
          PROVE  Candidates(jobs[t].request, handler[h].now, HeldAt(h, t))' = {}
      <3>1. PICK held : held = HeldAt(h, t)
        OBVIOUS
      <3>2. HeldAt(h, t)' = held
        BY <1>4, <1>6, <3>1 DEF HeldAt, Before
      <3>3. PICK q, now : q = jobs[t].request /\ now = handler[h].now
        OBVIOUS
      <3>4. Candidates(q, now, held)' = Candidates(q, now, held)
        BY <1>2, <1>6, CandidatesKept
      <3>5. Candidates(q, now, held) = {}
        BY <2>3, <2>4, <3>1, <3>3
      <3>6. jobs'[t].request = q /\ handler'[h].now = now
        BY <1>4, <1>6, <3>3
      <3>7. QED
        BY <3>2, <3>4, <3>5, <3>6
    <2>5. QED
      BY <1>2, <1>4, <1>6, <2>1, <2>2, <2>3, <2>4 DEF Ranked
  <1>7. ASSUME NEW n \in Candidates(job.request, handler[h].now, dispatches),
               Reserve(h, job, Dispatch(job.request, n, revision + 1, job.task))
        PROVE  Ranked'
    <2> DEFINE new == Dispatch(job.request, n, revision + 1, job.task)
    <2>0. Placement(new, job)
      BY DEF Candidates, Placement, Dispatch
    <2>1. /\ dispatches' = dispatches \union {new}
          /\ jobs'[job.task].state = "scheduled"
          /\ \A t \in Task : t # job.task => jobs'[t] = jobs[t]
          /\ Known' = Known
      BY <1>2, <1>3, <1>7, <2>0, ReserveEffect
    <2>2. new.id = revision + 1 /\ new.task = job.task
      BY DEF Dispatch
    <2> HIDE DEF new
    <2>3. /\ jobs'[job.task].priority = job.priority /\ jobs'[job.task].sequence = job.sequence
          /\ jobs'[job.task].request = job.request
      BY <1>3, <1>7 DEF Reserve, Job, Known, TypeOK
    <2>4. \A t \in Known : /\ jobs'[t].priority = jobs[t].priority
                           /\ jobs'[t].sequence = jobs[t].sequence
                           /\ jobs'[t].request = jobs[t].request
      BY <1>3, <2>1, <2>3 DEF Known
    <2>5. \A t \in Known : \A k : /\ Before(jobs'[t], k) <=> Before(jobs[t], k)
                                  /\ Before(k, jobs'[t]) <=> Before(k, jobs[t])
      BY <2>4 DEF Before
    <2>6. \A d \in dispatches : d.task \in Known
      BY DEF TypeOK
    <2>7. \A d \in dispatches' : d.id > since => \A k \in left : Before(jobs'[d.task], k)
      <3>1. ASSUME NEW d \in dispatches, d.id > since, NEW k \in left
            PROVE  Before(jobs'[d.task], k)
        BY <1>2, <2>5, <2>6, <3>1 DEF Ranked
      <3>2. ASSUME NEW k \in left
            PROVE  Before(jobs'[new.task], k)
        BY <1>1, <1>3, <2>2, <2>5
      <3>3. QED
        BY <2>1, <3>1, <3>2
    <2>8. ASSUME NEW t \in Known, jobs'[t].state = "queued", jobs'[t] \notin left
          PROVE  /\ \A k \in left : Before(jobs'[t], k)
                 /\ Candidates(jobs[t].request, handler[h].now, HeldAt(h, t))' = {}
      <3>1. t # job.task /\ jobs'[t] = jobs[t] /\ t \in Task
        BY <2>1, <2>8 DEF Known
      <3>2. jobs[t] # job /\ jobs[t].state = "queued" /\ jobs[t] \notin handler[h].queued
        BY <1>3, <2>8, <3>1 DEF TypeOK
      <3>3. /\ \A k \in handler[h].queued : Before(jobs[t], k)
            /\ Candidates(jobs[t].request, handler[h].now, HeldAt(h, t)) = {}
        BY <1>2, <3>2 DEF Ranked
      <3>4. PICK held : held = HeldAt(h, t)
        OBVIOUS
      <3>5. HeldAt(h, t)' = held
        <4>1. new.id > since /\ Before(jobs'[t], jobs'[new.task])
          <5>1. revision + 1 > since
            BY <1>2 DEF Ranked, TypeOK
          <5>2. QED
            BY <1>3, <2>2, <2>5, <3>1, <3>3, <5>1
        <4>2. \A d \in dispatches : Before(jobs'[t], jobs'[d.task]) <=> Before(jobs[t], jobs[d.task])
          BY <2>5, <2>6, <3>1
        <4>3. QED
          BY <1>4, <2>1, <3>4, <4>1, <4>2 DEF HeldAt
      <3>6. PICK q, now : q = jobs[t].request /\ now = handler[h].now
        OBVIOUS
      <3>7. \A d \in held : jobs'[d.task].request = jobs[d.task].request
        BY <2>4, <2>6, <3>4 DEF HeldAt
      <3>8. Candidates(q, now, held)' = Candidates(q, now, held)
        BY <1>2, <3>7, CandidatesKept
      <3>9. jobs'[t].request = q /\ handler'[h].now = now
        BY <1>4, <3>1, <3>6
      <3>10. QED
        BY <3>1, <3>3, <3>4, <3>5, <3>6, <3>8, <3>9
    <2>9. handler[h].since <= revision'
      BY <1>2, <1>7 DEF Ranked, Reserve, TypeOK
    <2>10. QED
      BY <1>4, <2>1, <2>7, <2>8, <2>9 DEF Ranked
  <1>8. QED
    BY <1>1, <1>6, <1>7

\* Only a pass that goes on has to be looked at.
LEMMA NextRanked ==
    ASSUME OneAtATime, OthersIdle, Inv, HandsEmpty, CopiesCurrent, DispatchesMatchJobs, Ranked, [Next]_vars
    PROVE  Ranked'
  <1> USE DEF Inv
  <1>1. \A g \in Thread, h \in serving : g # h => handler[g].at # "placing"
    BY DEF OneAtATime, OthersIdle, Idle
  <1>2. ASSUME NEW h \in serving, NEW new, new.at # "placing", handler' = [handler EXCEPT ![h] = new]
        PROVE  Ranked'
    BY <1>1, <1>2, RankedTrivially DEF TypeOK
  <1>3. ASSUME NEW h \in serving, NEW now \in Now, NEW lease \in Lease, BeginPass(h, now, lease)
        PROVE  Ranked'
    <2>0. h \in Thread
      BY DEF TypeOK
    <2> DEFINE queued == {jobs'[t] : t \in {u \in Known : jobs'[u].state = "queued"}}
               new == [at |-> "placing", now |-> now, lease |-> lease, since |-> revision',
                       queued |-> queued]
    <2>1. /\ handler' = [handler EXCEPT ![h] = new] /\ Known' = Known
          /\ revision' = revision + Cardinality(Expired(now)) /\ dispatches' \subseteq dispatches
      <3>1. /\ revision' = revision + Cardinality(Expired(now))
            /\ dispatches' \subseteq dispatches
        BY <1>3 DEF BeginPass
      <3>2. QED
        BY <1>3, <2>0, <3>1, PassKeepsJobs
    <2>2. revision' \in Nat /\ \A d \in dispatches' : d.id \in Nat /\ d.id <= revision'
      <3>1. Cardinality(Expired(now)) \in Nat
        BY <1>3, <2>0, PassKeepsJobs
      <3>2. revision \in Nat /\ \A d \in dispatches : d.id \in 1..revision
        BY DEF TypeOK
      <3>3. QED
        BY <2>1, <3>1, <3>2
    <2>3. \A t \in Known : jobs'[t].state = "queued" => jobs'[t] \in queued
      OBVIOUS
    <2> HIDE DEF queued
    <2>4. \A g \in Thread : handler'[g].at = "placing" => handler'[g] = new
      BY <1>1, <2>1 DEF TypeOK
    <2>5. new.since = revision' /\ new.queued = queued
      OBVIOUS
    <2> HIDE DEF new
    <2>6. QED
      BY <2>1, <2>2, <2>3, <2>4, <2>5 DEF Ranked
  <1>4. ASSUME NEW h \in serving, Place(h)
        PROVE  Ranked'
    <2>1. h \in Thread /\ \A g \in Thread \ {h} : handler'[g] = handler[g]
      BY <1>4 DEF TypeOK, Place
    <2>2. QED
      BY <1>1, <1>4, <2>1, PlaceKeepsRanked
  <1>5. ASSUME NEW h \in serving, Register(h) \/ Refuse(h) \/ EndPass(h) \/ Interrupted(h)
        PROVE  Ranked'
    BY <1>2, <1>5 DEF Register, Refuse, EndPass, Interrupted, Idle
  <1>6. ASSUME NEW h \in serving, NEW n \in Node, NEW r \in Report, NEW at \in Now,
               Heartbeat(h, n, r, at)
        PROVE  Ranked'
    BY <1>1, <1>6, RankedTrivially DEF Heartbeat, Idle
  <1>7. ASSUME NEW h \in serving, NEW q \in Request, NEW p \in Priority, NEW m \in MaxAttempts,
               StoreTask(h, q, p, m)
        PROVE  Ranked'
    BY <1>1, <1>7, RankedTrivially DEF StoreTask, TypeOK
  <1>8. CASE UNCHANGED <<nodes, jobs, dispatches, revision, handler>>
    <2>1. ASSUME NEW t, NEW h \in Thread
          PROVE  Candidates(jobs[t].request, handler[h].now, HeldAt(h, t))' =
                 Candidates(jobs[t].request, handler[h].now, HeldAt(h, t))
      <3>1. PICK held, q, now : /\ held = HeldAt(h, t) /\ q = jobs[t].request
                                /\ now = handler[h].now
        OBVIOUS
      <3>2. HeldAt(h, t)' = held /\ jobs'[t].request = q /\ handler'[h].now = now
        BY <1>8, <3>1 DEF HeldAt, Before
      <3>3. Candidates(q, now, held)' = Candidates(q, now, held)
        BY <1>8, CandidatesKept
      <3>4. QED
        BY <3>1, <3>2, <3>3
    <2>2. Known' = Known
      BY <1>8 DEF Known
    <2>3. QED
      BY <1>8, <2>1, <2>2 DEF Ranked, Before
  <1>9. QED
    BY <1>3, <1>4, <1>5, <1>6, <1>7, <1>8, NotPreempted DEF Next, vars

\* What holds while requests are served one after another.
Serial ==
    /\ IdsUnique /\ DispatchesMatchJobs /\ CopiesCurrent
    /\ NoOrphanTask /\ Ranked /\ DevicesNotShared /\ HandsEmpty

SerialInv == Inv /\ OthersIdle /\ (OneAtATime => Serial)

\* Whoever serves, the others stay idle.
LEMMA NextIdle ==
    ASSUME TypeOK, OthersIdle, [Next]_vars
    PROVE  OthersIdle' /\ (OneAtATime' <=> OneAtATime)
  <1>1. serving' = serving /\ serving \subseteq Thread
    BY DEF Next, vars, TypeOK
  <1>2. \A g \in Thread \ serving : handler'[g] = handler[g]
    BY ZenonT(60), <1>1 DEF Next, Heartbeat, StoreTask, Register, Refuse, BeginPass, Place, EndPass,
       Choose, Take, Store, Interrupted, vars, TypeOK
  <1>3. QED
    BY <1>1, <1>2 DEF OthersIdle, OneAtATime

\* The inductive invariant of the scheduler when requests may be served one after another.
THEOREM SerialInvariant == Spec => []SerialInv
  <1>1. Init => SerialInv
    <2> SUFFICES ASSUME Init PROVE SerialInv
      OBVIOUS
    <2>1. /\ Known = {} /\ dispatches = {} /\ tasks = {}
          /\ \A h \in Thread : handler[h] = Idle /\ handler[h].at = "idle" /\ hand[h] = Nothing
      BY DEF Init, Known, Idle
    <2>2. QED
      BY <2>1, InitTypes DEF SerialInv, Serial, OthersIdle, Inv, CopiesQueued,
         AttemptsWithinBudget, DevicesNotShared, IdsUnique, DispatchesMatchJobs, CopiesCurrent,
         NoOrphanTask, Ranked, HandsEmpty
  <1>2. SerialInv /\ [Next]_vars => SerialInv'
    <2> SUFFICES ASSUME SerialInv, [Next]_vars PROVE SerialInv'
      OBVIOUS
    <2>1. Inv'
      BY NextTypes, NextCopies, NextAttempts DEF Inv, SerialInv
    <2>2. OthersIdle' /\ (OneAtATime' <=> OneAtATime)
      BY NextIdle DEF SerialInv, Inv
    <2>3. ASSUME OneAtATime
          PROVE  Serial'
      <3>1. Serial /\ Inv /\ OthersIdle
        BY <2>3 DEF SerialInv
      <3>2. DispatchesMatchJobs' /\ IdsUnique'
        BY <3>1, NextMatch DEF Serial
      <3>3. CopiesCurrent' /\ NoOrphanTask' /\ Ranked'
        BY <2>3, <3>1, NextCurrent, NextNoOrphan, NextRanked DEF Serial
      <3>4. HandsEmpty' /\ DevicesNotShared'
        BY <2>3, <3>1, NotPreempted, NextDevices DEF Serial
      <3>5. QED
        BY <3>2, <3>3, <3>4 DEF Serial
    <2>4. QED
      BY <2>1, <2>2, <2>3 DEF SerialInv
  <1>3. QED
    BY <1>1, <1>2, PTL DEF Spec

\* One request at a time, the outstanding dispatches are exactly the allocations
\* of the scheduled jobs: nothing is placed twice and nothing leaks.
THEOREM OneAllocationPerJob == Spec => []SerialDispatchesMatchJobs
  <1>1. SerialInv => SerialDispatchesMatchJobs
    BY DEF SerialInv, Serial, SerialDispatchesMatchJobs
  <1>2. QED
    BY <1>1, SerialInvariant, PTL

\* One request at a time, a pass leaves out only what fitted on no fresh node when it had
\* its turn, whatever the ranks, requests and reports.
THEOREM NobodyPassedOver == Spec => []SerialPassedOverOnlyWhenFull
  <1>1. SerialInv => SerialPassedOverOnlyWhenFull
    BY DEF SerialInv, Serial, SerialPassedOverOnlyWhenFull, PassedOverOnlyWhenFull, Ranked, HeldAt
  <1>2. QED
    BY <1>1, SerialInvariant, PTL

\* One request at a time, POST /scheduler/jobs never leaves a stored task behind
\* that the scheduler does not know.
THEOREM SubmissionsComplete == Spec => [](OneAtATime => NoOrphanTask)
  <1>1. SerialInv => (OneAtATime => NoOrphanTask)
    BY DEF SerialInv, Serial
  <1>2. QED
    BY <1>1, SerialInvariant, PTL

\* One request at a time, _reserve never hands one CPU or GPU to two allocations of a node.
THEOREM DevicesExclusive == Spec => []SerialDevicesNotShared
  <1>1. SerialInv => SerialDevicesNotShared
    BY DEF SerialInv, Serial, SerialDevicesNotShared
  <1>2. QED
    BY <1>1, SerialInvariant, PTL

\* One request at a time, what _reserve commits is what was asked for and still free, on
\* a fresh node whose memory is not exceeded.  The hypothesis is needed: of a
\* GPU that is listed twice a job may be given one for two.
THEOREM PlacementsAlwaysFit ==
    ASSUME DistinctGpus
    PROVE  Spec => SerialPlacementsFit
  <1> DEFINE Fits(d) ==
          LET q == jobs[d.task].request
          IN /\ Cardinality(d.cpus) = q.cores
             /\ Cardinality(d.gpus) = q.gpus
             /\ UsedMemory(d.node, dispatches') <= nodes[d.node].report.memory
             /\ \E h \in Thread : /\ handler[h].at = "placing"
                                  /\ Fresh(d.node, handler[h].now)
  <1>1. ASSUME SerialInv, OneAtATime, FitInv, [Next]_vars, NEW d \in dispatches' \ dispatches
        PROVE  Fits(d)
    <2>0. Inv /\ OthersIdle /\ HandsEmpty
      BY <1>1 DEF SerialInv, Serial
    <2>1. PICK h \in Thread : Place(h)
      BY <1>1, <2>0, Serving, NotPreempted
      DEF Inv, Next, Heartbeat, StoreTask, Register, Refuse, BeginPass, EndPass, Interrupted, vars
    <2>2. PICK job \in handler[h].queued :
             \/ UNCHANGED <<jobs, dispatches, revision>>
             \/ \E n \in Candidates(job.request, handler[h].now, dispatches) :
                   Reserve(h, job, Dispatch(job.request, n, revision + 1, job.task))
      BY <2>1 DEF Place
    <2>3. PICK n \in Candidates(job.request, handler[h].now, dispatches) :
             Reserve(h, job, Dispatch(job.request, n, revision + 1, job.task))
      BY <1>1, <2>2
    <2> DEFINE q == job.request
    <2>4. /\ n \in Registered /\ Fresh(n, handler[h].now) /\ AvailableFit(q, n, dispatches)
          /\ handler[h].at = "placing"
      BY <2>1, <2>3 DEF Candidates, Place
    <2>5. dispatches' = dispatches \union {d} /\ d = Dispatch(q, n, revision + 1, job.task)
      BY <1>1, <2>0, <2>3 DEF Reserve
    <2>6. d.task = job.task /\ d.node = n
      BY <2>5 DEF Dispatch
    <2>7. job \in Job /\ job.task \in Known
      <3>1. handler[h] \in Handler
        BY <1>1, <2>0 DEF Inv, TypeOK
      <3>2. job \in Job
        BY <2>4, <3>1, Distinct
      <3>3. QED
        BY <1>1, <2>0, <2>4, <3>2 DEF Inv, TypeOK
    <2>8. q \in Request /\ jobs[d.task].request = q
      BY <1>1, <2>0, <2>4, <2>6, <2>7 DEF Job, FitInv, CopiesAskAlike
    <2> HIDE DEF q
    <2>9. Cardinality(d.cpus) = q.cores /\ Cardinality(d.gpus) = q.gpus
      BY <1>1, <2>0, <2>4, <2>5, <2>8, DispatchSize DEF Inv
    <2>10. UsedMemory(n, dispatches') = UsedMemory(n, dispatches) + q.memory
      BY <1>1, <2>0, <2>5, <2>6, <2>7, <2>8, MemoryAdds
    <2>11. UsedMemory(n, dispatches') <= nodes[n].report.memory
      BY <2>4, <2>10 DEF AvailableFit
    <2>12. QED
      BY <2>4, <2>6, <2>8, <2>9, <2>11
  <1>2. SerialInv /\ FitInv /\ [Next]_vars =>
            [OneAtATime => \A d \in dispatches' \ dispatches : Fits(d)]_vars
    BY <1>1
  <1>3. Spec => []FitInv
    BY SchedulerInvariant, InitFit, NextFit, PTL DEF Spec
  <1>4. QED
    BY <1>2, <1>3, SerialInvariant, PTL DEF Spec, SerialPlacementsFit
=============================================================================
