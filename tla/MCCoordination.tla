---------------------------- MODULE MCCoordination ----------------------------
(***************************************************************************)
(* Small instances of the labs in which several parties agree on who holds *)
(* what and whose turn it is: the two lock services of lab 26, the project *)
(* scheduler of lab 38, the workflow engine of lab 30, the quorum register *)
(* of lab 23 and the logical clocks of lab 22.  A behaviour is of one of   *)
(* them; the others keep their initial state, so that the state spaces     *)
(* add up.                                                                 *)
(***************************************************************************)
EXTENDS FencedLease, FiniteSets, TLC

CONSTANTS
    c1, c2, c3,
    Node, Key, Quorum, Partition, MaxTick,      \* of QuorumRegister
    Task, MaxUpdates, MaxCounter,               \* of LogicalClocks, over the same nodes
    Machine, Submission, Report, Quota, Times, LeaseSeconds, HeartbeatTimeout,
    MaxTerm, MaxJobs, MaxLog,                   \* of ProjectScheduler
    FlowTask, Workflow, MaxParallel, Duration       \* of DagEngine

\* Labs 22 and 23 take any node ids, and every quorum has one node at least and the
\* whole cluster at most.
ASSUME ClusterAssumption == Node \subseteq Nat /\ IsFiniteSet(Node) /\ Node # {}
ASSUME QuorumAssumption ==
    \A q \in Quorum : {q.read, q.write} \subseteq 1..Cardinality(Node)
ASSUME KeyAssumption == "none" \notin Key

\* Lab 38 has finitely many nodes, CPUs and GPUs and takes positive numbers, except that
\* a job or a project may do without GPUs.
ASSUME MachineAssumption ==
    /\ Machine \subseteq Nat \ {0} /\ IsFiniteSet(Machine)
    /\ \A r \in Report : /\ r.cpus \subseteq Int /\ IsFiniteSet(r.cpus) /\ r.memory \in Int
                         /\ DOMAIN r.gpus \subseteq Int /\ IsFiniteSet(DOMAIN r.gpus)
ASSUME SubmissionAssumption ==
    \A sub \in Submission :
        /\ sub.priority \in Int /\ sub.max \in Nat \ {0}
        /\ sub.request.cores \in Int /\ sub.request.memory \in Int /\ sub.request.gpus \in Nat
        /\ sub.request.affinity \subseteq Int /\ IsFiniteSet(sub.request.affinity)
ASSUME QuotaAssumption ==
    /\ \A p \in DOMAIN Quota : /\ {Quota[p].jobs, Quota[p].cores, Quota[p].memory} \subseteq Nat \ {0}
                              /\ Quota[p].gpus \in Nat
    /\ Times \subseteq Int /\ LeaseSeconds \subseteq Int /\ MaxJobs \in Nat

\* Lab 30 has finitely many tasks, in the order of their ids, which depend on one another
\* only; and time does not run backwards, although AttemptOutcome takes any duration.
ASSUME WorkflowAssumption ==
    /\ FlowTask \subseteq Int /\ IsFiniteSet(FlowTask)
    /\ \A w \in Workflow : w.deps \in [FlowTask -> SUBSET FlowTask]
    /\ MaxParallel \subseteq Nat \ {0} /\ Duration \subseteq Nat

\* Clients are told apart by nothing but their names.
Symmetry == Permutations(Client)

VARIABLES
    component,
    record, handle, scriptLoaded, naive,
    nodes, jobs, allocations, log, leader, term,
    flow, slots, engineClock, ready, running, taskState, attempts, records, phase,
    tick, store, groups, quorum, written, result,
    updates, lamport, vectors, knows, seen

leaseVars == vars
redisVars == <<record, handle, scriptLoaded, naive>>
projectVars == <<nodes, jobs, allocations, log, leader, term>>
engineVars == <<flow, slots, engineClock, ready, running, taskState, attempts, records, phase>>
registerVars == <<tick, store, groups, quorum, written, result>>
clockVars == <<updates, lamport, vectors, knows, seen>>

Redis == INSTANCE RedisLock WITH lock <- record

\* One project has a quota.  Jobs ask for a core, for a GPU of some class on one NUMA
\* node, or for a core that only one of the reports has.
Gpu == [id |-> 1, class |-> 1, numa |-> 0]
MCReport ==
    {[cpus |-> {0, 1}, memory |-> 2, gpus |-> <<Gpu>>, numa |-> (0 :> {0, 1}), labels |-> {}],
     [cpus |-> {0}, memory |-> 2, gpus |-> <<>>, numa |-> (0 :> {0}), labels |-> {}]}
Asks(cores, gpus, class, numa, affinity) ==
    [cores |-> cores, memory |-> 1, gpus |-> gpus, class |-> class, numa |-> numa,
     affinity |-> affinity, labels |-> {}]
MCSubmission ==
    {[project |-> "p", request |-> Asks(1, 0, 0, {}, {}), priority |-> 0, max |-> 1],
     [project |-> "p", request |-> Asks(1, 1, 1, {0}, {}), priority |-> 1, max |-> 2],
     [project |-> "q", request |-> Asks(1, 0, 0, {}, {1}), priority |-> 1, max |-> 2]}

MCQuota == [p \in {"p"} |-> [jobs |-> 2, cores |-> 1, memory |-> 2, gpus |-> 1]]

Project == INSTANCE ProjectScheduler WITH
    Caller <- Client, Node <- Machine, Now <- Times, Lease <- LeaseSeconds

\* A diamond, a chain against the order of the ids, a fan that competes with a single
\* long task, and a cycle that is refused.
Graph(d1, d2, d3, d4) == <<d1, d2, d3, d4>>
MCWorkflow ==
    {[deps |-> g, tries |-> <<1, 2, 1, 1>>] :
        g \in {Graph({}, {1}, {1}, {2, 3}), Graph({2}, {3}, {}, {}), Graph({}, {}, {}, {1, 3}),
               Graph({2}, {1}, {}, {})}}

Engine == INSTANCE DagEngine WITH Task <- FlowTask, now <- engineClock, state <- taskState

\* Any sizes of quorums.
MCQuorum == [read : 1..3, write : 1..3]

\* Every way to cut three nodes apart, and one that forgets a node.
MCPartition == {{1..3}, {{1}, {2, 3}}, {{1, 2}, {3}}, {{1}, {2}, {3}}, {{1}, {2}}}

Register == INSTANCE QuorumRegister
Clocks == INSTANCE LogicalClocks WITH Replica <- Node

MCInit ==
    /\ component \in {"fenced", "redis", "project", "engine", "register", "clocks"}
    /\ Init
    /\ Redis!Init
    /\ Project!Init
    /\ Engine!Init
    /\ component # "engine" =>
          flow = (CHOOSE w \in Workflow : TRUE) /\ slots = CHOOSE n \in MaxParallel : TRUE
    /\ Register!Init
    /\ Clocks!Init
    /\ component # "register" => quorum = CHOOSE q \in Quorum : TRUE

\* The lock services share the clock.
MCNext ==
    /\ \/ component = "fenced" /\ Next /\ UNCHANGED redisVars
       \/ component = "redis" /\ Redis!Next /\ UNCHANGED <<fenceCounter, lease, held, value,
              highestFence, ledgerFence, decisions, grantee, released>>
       \/ component = "project" /\ Project!Next
       \/ component = "engine" /\ Engine!Next
       \/ component = "register" /\ Register!Next
       \/ component = "clocks" /\ Clocks!Next
    /\ component \notin {"fenced", "redis"} => UNCHANGED <<leaseVars, redisVars>>
    /\ component # "project" => UNCHANGED projectVars
    /\ component # "engine" => UNCHANGED engineVars
    /\ component # "register" => UNCHANGED registerVars
    /\ component # "clocks" => UNCHANGED clockVars
    /\ UNCHANGED component

MCSpec ==
    MCInit /\ [][MCNext]_<<component, leaseVars, redisVars, projectVars, engineVars, registerVars,
                           clockVars>>

-----------------------------------------------------------------------------

\* As in RedisLock: compare-and-delete never ends a later holder's lock.
HolderOwnsTheLock == Redis!HolderOwnsTheLock

\* What the project scheduler of lab 38 has booked stays within the quotas, and its log
\* alone tells every job's state, attempts and allocation, across changes of leader,
\* expired leases and cancellations.
JobsAccounted == Project!QuotaKept /\ Project!LogTellsAll

\* A finished run of lab 30 has decided every task, in the order of the graph.
VerdictsRight == Engine!VerdictsRight

\* A run of lab 30 keeps the bound of greedy list scheduling.
GreedyBound == Engine!GreedyBound

\* Replicas that meet in any order agree: overlapping quorums of lab 23 read the last
\* write through every partition, and the clocks of lab 22 tell what could have caused
\* what.
ReplicasAgree == Register!ReadsLatest /\ Clocks!ClocksTellCausality
=============================================================================
