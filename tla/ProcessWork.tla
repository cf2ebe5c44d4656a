------------------------------ MODULE ProcessWork ------------------------------
(* Lab 11's work over child processes, and where its workers are put: on the CPUs
   of NUMA nodes, on accelerators, and over which path an accelerator and a network
   adapter exchange data.  run_process_queue feeds a bounded queue, ends it with
   one None per child and collects the results; a child may be killed.
   count_deliveries_with_manager has every child count its share of the task ids in
   one shared dictionary under one lock.  sum_shared_bytes cuts a segment into
   slices.  A behaviour is of one of the first two.  Reading /sys and /proc and
   binding a process are I/O and left out. *)
EXTENDS Integers, FiniteSets, Sequences, SequencesExt, FiniteSetsExt, Functions

CONSTANTS Workers,     \* how many are asked for
          Items,       \* the items, or the task id of each delivery
          Kills        \* bound on the children killed

VARIABLES job,         \* which of the functions runs
          parent,      \* what the parent does next
          input, output,
          child,       \* what each child does
          counts,           \* the manager's dictionary
          holder,           \* who has the manager's lock, or the reader's of the queue
          killed
vars == <<job, parent, input, output, child, counts, holder, killed>>

None == 0
Smaller(a, b) == IF a < b THEN a ELSE b
Child == 1..Smaller(Workers, Len(Items))
Capacity == 2 * Workers

\* tasks[index::workers]
Chunk(c) == {i \in DOMAIN Items : i % Cardinality(Child) = c % Cardinality(Child)}

Init ==
    /\ job \in {"queue", "count"}
    /\ parent = [at |-> IF job = "queue" THEN "putting" ELSE "joining", n |-> 0]
    /\ input = <<>> /\ output = <<>>
    /\ child = [c \in Child |-> [at |-> IF job = "queue" THEN "waiting" ELSE "counting",
                                 item |-> None, todo |-> Chunk(c)]]
    /\ counts = [t \in Range(Items) |-> 0]
    /\ holder = None
    /\ killed = {}

Sentinels == Cardinality(Child)

Moves(c, at, item) == child' = [child EXCEPT ![c].at = at, ![c].item = item]

\* The parent puts every item, then one None per child; put blocks on a full queue.
Put ==
    LET n == parent.n + 1
    IN /\ parent.at = "putting" /\ Len(input) < Capacity
       /\ input' = Append(input, IF n <= Len(Items) THEN n ELSE None)
       /\ parent' = IF n = Len(Items) + Sentinels THEN [at |-> "collecting", n |-> 0]
                    ELSE [parent EXCEPT !.n = n]
       /\ UNCHANGED <<job, output, child, counts, holder, killed>>

Collect ==
    /\ parent.at = "collecting" /\ parent.n < Len(output)
    /\ parent' = [at |-> IF parent.n + 1 = Len(Items) THEN "joining" ELSE "collecting",
                  n |-> parent.n + 1]
    /\ UNCHANGED <<job, input, output, child, counts, holder, killed>>

Left(c) == child[c].at \notin {"ended", "killed"}

\* The error leaves no child at work: those of the queue are terminated, and those that
\* count fail with their next call, because the manager is gone.
Raise ==
    /\ parent' = [parent EXCEPT !.at = "raised"]
    /\ child' = [c \in Child |->
                     IF Left(c) THEN [child[c] EXCEPT !.at = "stopped"] ELSE child[c]]
    /\ UNCHANGED <<job, input, output, counts, holder, killed>>

\* get waits ten seconds for a result, whatever the children are doing.
GiveUp ==
    /\ parent.at = "collecting" /\ parent.n = Len(output)
    /\ Raise

\* A child that died of anything but its None has an exit code, which join finds.
Join ==
    /\ parent.at = "joining"
    /\ \A c \in Child : ~Left(c)
    /\ \/ /\ \A c \in Child : child[c].at = "ended"
          /\ parent' = [parent EXCEPT !.at = "done"]
          /\ UNCHANGED <<job, input, output, child, counts, holder, killed>>
       \/ (\E c \in Child : child[c].at = "killed") /\ Raise

\* join waits ten seconds for a child; one that has not ended by then has no exit code.
GiveUpJoin ==
    /\ parent.at = "joining"
    /\ \E c \in Child : Left(c)
    /\ Raise

-----------------------------------------------------------------------------
(* Children *)

\* A lock admits one child at a time: the reader's end of the queue has one, and the
\* manager, for which get and set are two calls, keeps another.
Free(c) == holder = None

\* get takes the lock of the queue and holds it while it waits for a message.
Lock(c) ==
    /\ child[c].at = "waiting" /\ Free(c)
    /\ holder' = c
    /\ Moves(c, "receiving", None)
    /\ UNCHANGED <<job, parent, input, output, counts, killed>>

Receive(c) ==
    /\ child[c].at = "receiving" /\ input # <<>>
    /\ input' = Tail(input)
    /\ holder' = None
    /\ Moves(c, IF Head(input) = None THEN "ended" ELSE "working", Head(input))
    /\ UNCHANGED <<job, parent, output, counts, killed>>

Transform(c) ==
    /\ child[c].at = "working"
    /\ output' = Append(output, child[c].item)
    /\ Moves(c, "waiting", None)
    /\ UNCHANGED <<job, parent, input, counts, holder, killed>>

Acquire(c) ==
    /\ child[c].at = "counting" /\ child[c].todo # {} /\ Free(c)
    /\ holder' = c
    /\ Moves(c, "reading", None)
    /\ UNCHANGED <<job, parent, input, output, counts, killed>>

Delivered(c) == CHOOSE i \in child[c].todo : \A k \in child[c].todo : i <= k

ReadCount(c) ==
    /\ child[c].at = "reading"
    /\ Moves(c, "writing", counts[Items[Delivered(c)]])
    /\ UNCHANGED <<job, parent, input, output, counts, holder, killed>>

WriteCount(c) ==
    /\ child[c].at = "writing"
    /\ counts' = [counts EXCEPT ![Items[Delivered(c)]] = child[c].item + 1]
    /\ child' = [child EXCEPT ![c].at = "releasing", ![c].todo = @ \ {Delivered(c)}]
    /\ UNCHANGED <<job, parent, input, output, holder, killed>>

Release(c) ==
    /\ child[c].at = "releasing"
    /\ holder' = None
    /\ Moves(c, "counting", None)
    /\ UNCHANGED <<job, parent, input, output, counts, killed>>

EndCount(c) ==
    /\ child[c].at = "counting" /\ child[c].todo = {}
    /\ Moves(c, "ended", None)
    /\ UNCHANGED <<job, parent, input, output, counts, holder, killed>>

\* The environment kills a child anywhere, with the item it works on and the lock it holds.
Kill(c) ==
    /\ Cardinality(killed) < Kills
    /\ child[c].at \notin {"ended", "killed", "stopped"}
    /\ killed' = killed \union {c}
    /\ Moves(c, "killed", None)
    /\ UNCHANGED <<job, parent, input, output, counts, holder>>

Work ==
    \/ Put \/ Collect \/ Join
    \/ \E c \in Child :
          \/ Lock(c) \/ Receive(c) \/ Transform(c)
          \/ Acquire(c) \/ ReadCount(c) \/ WriteCount(c) \/ Release(c) \/ EndCount(c)

Next == Work \/ GiveUp \/ GiveUpJoin \/ \E c \in Child : Kill(c)

Spec == Init /\ [][Next]_vars

-----------------------------------------------------------------------------
(* Placement *)

\* A Linux cpulist is a sequence of ranges; one that goes backwards is refused.
ParsesCpus(ranges) == \A i \in DOMAIN ranges : ranges[i][1] <= ranges[i][2]
CpuList(ranges) ==
    FlattenSeq([i \in DOMAIN ranges |->
        [k \in 1..(ranges[i][2] - ranges[i][1] + 1) |-> ranges[i][1] + k - 1]])

\* A topology is [nodes, allowed]: its nodes in order, each [id, ranges], and the CPUs
\* the process may use, none of which stands for all.
Allowed(t, cpu) == t.allowed = {} \/ cpu \in t.allowed
AllowedCpus(t, node) == SelectSeq(CpuList(node.ranges), LAMBDA c : Allowed(t, c))

Eligible(t) ==
    SelectSeq([i \in DOMAIN t.nodes |-> [id |-> t.nodes[i].id, cpus |-> AllowedCpus(t, t.nodes[i])]],
              LAMBDA node : node.cpus # <<>>)

Rotation(w, nodes) == w \div nodes

\* Workers go round the nodes, and on each node round its CPUs.
NumaWorkers(t, workers) ==
    LET nodes == Eligible(t)
        node(w) == nodes[(w % Len(nodes)) + 1]
    IN [w \in 0..(workers - 1) |->
           [node |-> node(w).id,
            cpu |-> node(w).cpus[(Rotation(w, Len(nodes)) % Len(node(w).cpus)) + 1]]]

(* A device is [address, numa, ancestors, class]; an unknown NUMA node is -1 *)

AcceleratorClass == {"03", "12"}
NetworkClass == {"02"}
Discovered(devices, classes) == SelectSeq(devices, LAMBDA d : d.class \in classes)

OnNode(devices, n) == SelectSeq(devices, LAMBDA d : d.numa = n)

\* <<>> when no node has enough.
SingleNode(devices, workers) ==
    LET enough == {n \in {devices[i].numa : i \in DOMAIN devices} :
                      Len(OnNode(devices, n)) >= workers}
    IN IF enough = {} THEN <<>> ELSE SubSeq(OnNode(devices, Min(enough)), 1, workers)

Before(d, e) ==
    \/ d.numa < e.numa
    \/ d.numa = e.numa /\ d.address < e.address

AcrossNodes(devices, workers) ==
    IF Len(devices) < workers THEN <<>>
    ELSE SubSeq(SortSeq(devices, Before), 1, workers)

AcceleratorWorkers(devices, workers, single) ==
    IF single THEN SingleNode(devices, workers) ELSE AcrossNodes(devices, workers)

\* Bridges shared by two devices, from the root on.
SharedDepth(d, e) ==
    Max({k \in 0..Len(d.ancestors) :
            k <= Len(e.ancestors) /\ SubSeq(d.ancestors, 1, k) = SubSeq(e.ancestors, 1, k)})

PeerToPeer(d, e, bridges, redirected) ==
    /\ ~redirected
    /\ d.ancestors # <<>> /\ e.ancestors # <<>> => d.ancestors[1] = e.ancestors[1]
    /\ SharedDepth(d, e) >= bridges

\* Staging goes through memory near the adapter.
Transfer(gpu, nic, bridges, redirected) ==
    IF PeerToPeer(gpu, nic, bridges, redirected)
    THEN [mechanism |-> "peer_to_peer"]
    ELSE [mechanism |-> "host_staged", numa |-> nic.numa]

\* What keeps an observed path from a site's policy.
RoceProblems(config, policy) ==
    {p \in {"flow control", "priority", "notification", "mtu"} :
        CASE p = "flow control" -> policy.pfc /\ ~config.pfc
          [] p = "priority" -> policy.pfc /\ config.pfc /\ config.priority \notin 0..7
          [] p = "notification" -> policy.ecn /\ ~config.ecn
          [] OTHER -> config.mtu < policy.mtu}

-----------------------------------------------------------------------------

\* The bytes of slice i of a payload, as sum_shared_bytes cuts it.
Slice(i, workers, length) == ((i * length) \div workers)..(((i + 1) * length) \div workers - 1)

\* Whatever the children's order, and whichever of them are killed, a run that ends well
\* has one result per item and nothing left to do, and every delivery was counted once.
ResultsWhole ==
    /\ parent.at = "done" /\ job = "queue" =>
          /\ Range(output) = DOMAIN Items /\ Len(output) = Len(Items)
          /\ input = <<>>
    /\ parent.at = "done" /\ job = "count" =>
          \A t \in Range(Items) : counts[t] = Cardinality({i \in DOMAIN Items : Items[i] = t})

\* Results are whole.  A run comes to its end without any time-out unless a child was
\* killed, and then a time-out ends it but for one case: put has none, and waits for ever
\* when the queue is full and its reader's lock died with a child, or all children did.
RunsWhole ==
    /\ ResultsWhole
    /\ parent.at \in {"done", "raised"} \/ ENABLED Work
       \/ (killed # {} /\ parent.at \in {"collecting", "joining"})
       \/ (parent.at = "putting" /\ (holder \in killed \/ killed = Child))

\* The slices cover every byte once.
SlicesCover(workers, length) ==
    LET cut == 0..(Smaller(workers, length) - 1)
    IN \A b \in 0..(length - 1) :
          Cardinality({i \in cut : b \in Slice(i, Smaller(workers, length), length)}) = 1

Count(f, Test(_)) == Cardinality({x \in DOMAIN f : Test(f[x])})

\* Workers stay on allowed CPUs, nodes differ by one worker at most, and so do the
\* CPUs of one node.
NumaBalanced(t, workers) ==
    LET plan == NumaWorkers(t, workers)
        nodes == Range(Eligible(t))
        onCpu(n, c) == Count(plan, LAMBDA p : p.node = n.id /\ p.cpu = c)
        onNode(n) == Count(plan, LAMBDA p : p.node = n.id)
    IN Eligible(t) # <<>> =>
       /\ \A w \in DOMAIN plan : Allowed(t, plan[w].cpu)
       /\ \A m, n \in nodes : onNode(m) <= onNode(n) + 1
       /\ \A n \in nodes : \A c, d \in Range(n.cpus) : onCpu(n, c) <= onCpu(n, d) + 1

\* No device is assigned twice, one node holds them all when that is asked for, and a
\* request is refused only when it cannot be met.
AcceleratorsApart(devices, workers, single) ==
    LET plan == AcceleratorWorkers(devices, workers, single)
        numas == {d.numa : d \in Range(devices)}
    IN /\ plan # <<>> => /\ Len(plan) = workers /\ IsInjective(plan)
                         /\ Range(plan) \subseteq Range(devices)
                         /\ single => Cardinality({d.numa : d \in Range(plan)}) = 1
       /\ plan = <<>> =>
             IF single THEN \A n \in numas : Cardinality({d \in Range(devices) : d.numa = n}) < workers
             ELSE Cardinality(Range(devices)) < workers
=============================================================================
