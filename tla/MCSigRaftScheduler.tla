------------------------- MODULE MCSigRaftScheduler -------------------------
(***************************************************************************)
(* Small instances of SigRaftScheduler for TLC.  A behaviour is of one     *)
(* scenario: requests served one at a time on two nodes, or on two threads *)
(* that share one node and ask for less.                                   *)
(***************************************************************************)
EXTENDS SigRaftScheduler, TLC

CONSTANT Scenario      \* the scenarios of a run

VARIABLE scenario

\* Threads are told apart by nothing but their names.
Symmetry == Permutations(Thread)

Ask(cores, memory, gpus, class, numa, affinity) ==
    [cores |-> cores, memory |-> memory, gpus |-> gpus, class |-> class,
     numa |-> numa, affinity |-> affinity, labels |-> {}]
Gpu(id, class, numa) == [id |-> id, class |-> class, numa |-> numa]
Host(cpus, memory, gpus, numa, labels) ==
    [cpus |-> cpus, memory |-> memory, gpus |-> gpus, numa |-> numa, labels |-> labels]

\* A job pinned to two CPUs and one that wants a GPU of NUMA node 0.
SerialRequest == {Ask(2, 1, 0, 0, {}, {1, 2}), Ask(1, 2, 1, 7, {0}, {})}

\* A node with three CPUs and a GPU on NUMA node 0, and the same node shrunk to two.
SerialReport ==
    {Host({0, 1, 2}, 3, <<Gpu(5, 7, 0), Gpu(4, 7, 1)>>, 0 :> {0, 1} @@ 1 :> {2}, {"linux"}),
     Host({0, 1}, 1, <<>>, 0 :> {0}, {})}

ThreadsRequest == {Ask(1, 1, 1, 0, {}, {})}
ThreadsReport == {Host({0, 1}, 2, <<Gpu(5, 7, 0), Gpu(4, 7, 0)>>, <<>>, {}), Host({0}, 1, <<>>, <<>>, {})}

AnyRequest == SerialRequest \union ThreadsRequest
AnyReport == SerialReport \union ThreadsReport

Serial == INSTANCE SigRaftScheduler WITH
    Request <- SerialRequest, Report <- SerialReport, MaxAttempts <- {2}
Threads == INSTANCE SigRaftScheduler WITH
    Node <- {1}, Request <- ThreadsRequest, Report <- ThreadsReport,
    Priority <- {0}, MaxAttempts <- {1}, Now <- {0, 2}

MCInit ==
    /\ scenario \in Scenario
    /\ Init
    /\ IF scenario = "serial" THEN \E h \in Thread : serving = {h} ELSE serving = Thread

MCNext ==
    /\ \/ scenario = "serial" /\ Serial!Next
       \/ scenario = "threads" /\ Threads!Next
    /\ UNCHANGED scenario

MCSpec == MCInit /\ [][MCNext]_<<vars, scenario>>

=============================================================================
