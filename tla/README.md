# A verification of the SigRaft labs

This directory holds TLA+ specifications of the programs in `labs/`, the TLC
configurations that check them on small instances, and theorems about them that
the TLA+ proof system checks for every value of their constants.

The repository is a course: 39 labs, each a small Python package, that lead to
SigRaft, a service that keeps jobs, places them on nodes and tells watchers about
them (lab 39). Most labs are a simulation of one protocol or one mechanism, with the
clock, the network and the failures passed in by the caller; a few are real servers
with real threads (labs 11, 12, 27, 39). The specifications cover the labs whose
correctness depends on an order of events or on a failure half way, and the pure
algorithms that such code rests on.

`src/` below stands for the repository; `PROJECT.json` maps every definition to the
lines that it models.

## 1. Inventory

### 1.1 Modelled parts

| Part | State | Operations | What is hard |
|---|---|---|---|
| Leader election, lab 24 `simulation.py` | per node term, vote, role, leader; the partition; the leader of each term | `trigger_timeout`, `send_heartbeat`, `restart_node`, `set_partition`, `heal` | votes of an earlier term, restarts, any order of calls |
| Replicated log, lab 25 `simulation.py` | the same, and per node log, commit index, state machine, and per leader the match index | `trigger_timeout`, `submit_command`, `replicate_from_leader`, `crash_node`, `restart_node`, partitions | entries of earlier terms, a commit index that follows the leader's, replay after a crash |
| Locks and leases, lab 26 `simulation.py` | clock, Redis record and script cache; fence counter, lease, store, schedule ledger | `acquire`, `release_*`, `script_flush`, `write`, `try_schedule`, `record` | holders that pause beyond their lease, late releases, a clock that moves at any moment |
| Quorum register, lab 23 | versions per replica, partition, clock | `write_task`, `read_task`, `set_partition` | which replicas a quorum meets after a change of partition |
| Logical clocks, lab 22 `clocks.py`, `relay.py` | Lamport and vector clocks per replica | `record_local_update`, `observe_remote_update`, `logical_order` | updates that arrive late, twice and out of order |
| Project scheduler, lab 38 `scheduler.py` | nodes, jobs, allocations, log, leader and term | every call of the scheduler | deposed leaders, quotas, expired leases, cancellations in between |
| SigRaft scheduler, lab 39 `scheduler.py` | nodes, jobs, dispatches, revision | `heartbeat`, `submit`, `schedule`, `recover`, called by the handler threads of `sigraft_service.py` | no lock: passes of two threads interleave, between the choice of a node and the reservation too; nodes that shrink under outstanding dispatches; leases that expire |
| Job store and watchers, lab 39 `sigraft_service.py`, `job_events.py`, `websocket_transport.py` | jobs, subscriptions with bounded mailboxes, one session and one sender thread per connection, the listener | `submit_task`, `transition_task`, `subscribe_task`, `unsubscribe_task`, `watch`, `unwatch`, `stop_watch`, `_send_events`, `close` | slow or vanished clients, overflow, joins that time out, shutdown at any moment |
| Configuration reload, lab 39 `config.py`, `analytics_service.py` | snapshot, generation and status, live settings per subsystem, the watcher's token and flags, the report | `reload_bytes` in two phases, `poll_once`, `request_reload`, `stop`, `refresh_once` | the file changes between probe and read, a subsystem refuses half way or fails to roll back, an error that ends a thread, two threads and a signal handler |
| Compute pools, lab 20 `compute_pool.py` | per pool the pending submissions; the ledger actor with its order of eviction, attempts and task ids in flight | `submit`, `drain`, `shutdown`, `_execute`, `reserve`, `record`, `release` | pools share a ledger, Ray retries, workers are lost, entries are evicted |
| Publisher, pipeline, request channels, lab 20 `patterns.py` | subscriptions, tasks waiting and in flight, the router's replies | `subscribe`, `drain`, `submit`, `pull`, `acknowledge`, `request_stop`, REQ and DEALER calls | full subscriptions, a task submitted again while it waits, runs or is done, lost replies |
| Worker pool, lab 11 `worker_pool.py` and its queue | entries with leases and delivery counts, snapshots, worker threads | `submit`, `reserve`, `acknowledge`, the workers' loop, `request_shutdown` | leases that run out under a worker, a task submitted again, threads that die of a `KeyError` or of an unsupported answer |
| Processes, lab 11 `multicore.py` | a bounded queue, the children, a manager's dictionary and lock, slices of a segment | `run_process_queue`, `count_deliveries_with_manager`, `sum_shared_bytes` | children that are killed with an item or a lock in their hands, waits that time out under slow children |
| Placement, lab 11 `numa.py`, `accelerators.py` | none | plans of workers on CPUs, devices and transfer paths | nodes with gaps, too few devices |
| RPC, lab 19 `rpc.py`, `api.py` | replay cache and tasks per server worker, deadlines per client | a client's call with its attempts; the handlers of the service | lost, delayed and doubled requests under one deadline, one cache per worker |
| Event stream, lab 21 `stream.py` | history, sessions, outbound queues, tokens | publish, connect with replay, keepalive, expiry, restart | slow clients, a connection that closes during its replay |
| Tasks by page, lab 21 `graphql_api.py` | tasks, cursors, a subscription | submit, page, subscribe | tasks added between two pages |
| Stateless service, lab 27 | instances with counts and drains, a shared repository with etags | every endpoint that changes state, the drain | handlers in threads between the middleware's steps |
| Admission queue, lab 33 `backpressure.py` | waiting and running messages | `submit`, `advance_to`, `drain` | time only passes when a caller brings it |
| Retrying consumer, lab 33 `backpressure.py` | breaker, token budget, dead letters | `process`, redelivery | failures of many messages at once |
| Reconciler, lab 37 `core.py`, `adapters.py` | resources of a service, requests under way | `plan`, `apply`, `list_all`, `run_mutation` over OpenStack, Kubernetes and Harbor | unknown outcomes, requests applied after they were given up, others that delete, resources that come and go between pages |
| Echo servers, lab 12 `echo.py`, `datagram.py` | sockets, threads and the sets `close` reads; datagrams under way | connections, `close`, exchanges with retries | `close` between any two steps of three kinds of threads; stale answers |
| Partitioned store, lab 28 `store.py` | versions per replica, the replication backlog | `write_task`, `replicate_pending`, `read_task`, `owners_for_key` | reads of stale slices, siblings |
| Task repository, lab 29 `repository.py` | items with etags and expiry | `create_task`, `get_task`, `patch_task`, `query_tasks` | two clients that patch what they read earlier, expiry and creation anew |
| Workflow engine, lab 30 `engine.py` | ready, running and decided tasks | `run` | retries, failures and completions at one instant |
| Azure relay, lab 9 `relay_azure.py` | documents, messages, submitters | store, announce, take, finish, remove, list by page | re-sends of the SDK, calls carried out after they were given up, listings during changes |
| Framing, lab 16 | ring buffer, partial frames | `send_frame`, `feed`, `finish` | streams cut anywhere, frames that are too large |
| Trees and graphs, lab 6 | red-black index, search tree, rooted tree, graphs, plan | insertion, deletion, renaming, rebalancing, searches, shortest paths, routing, orders | shapes that only a sequence of calls reaches; negative edges |
| Local runtimes and rollout, lab 32 `local_runtime.py`, `sdk_adapters.py`, `checkpoint.py` | the workload's state, the deployment and its status | selection, define and start, negotiation, promotion, watch | calls that fail after their effect, status that lags |
| Infrastructure plans, lab 36 `infrastructure.py` | what stands in the cloud | validation, `apply`, `destroy` | commands that fail with or without their effect, resources that exist some time after their command has returned |
| Release, lab 39 `release.py`, `fabric_executor.py` | stages, evidence, hosts of two environments | validation, stages, deployment and restore | steps that fail between staging and production, a rollback that fails |

### 1.2 How the parts interact

In lab 39 an HTTP server with one thread per request calls the job store
(which has a lock) and then the scheduler (which has none):
`POST /scheduler/jobs` stores a task and registers it, `POST /scheduler/run` is one
placement pass, `POST /scheduler/nodes` replaces a node's report. The WebSocket
listener shares the job store: `transition_task` puts an event into the mailbox of
every subscription under the store's lock, and the sender thread of the connection
takes it out again. The configuration watcher publishes settings to four subsystems,
among them the limits that the HTTP handlers read and the analytics runtime, which
rebuilds its report in a thread of its own. The labs before 39 do not call each
other; lab 25 repeats the election of lab 24, lab 39 repeats the placement of lab 38,
and the stores of labs 27 to 29 share the record of a task.

### 1.3 Not modelled

`PROJECT.json` lists every part with the reason. They are of four kinds.

* *No state that outlives a call, and no order of calls to get wrong*: the packet
  parser (lab 13), the query language (15), the stack machine and the adder (10),
  validated models (18), wire formats and the native checksum (14, 17), the first
  service (1, 5), the command line and its polling client (4), Redfish clients and
  inventories (37, 39), the RPC contract and the event loop demonstration (19).
* *Behaviour that belongs to a library or another system*: Celery and live ZeroMQ
  sockets (20), trace context and export (34), Airflow (31), the Azure CLI (8), GraphQL
  and telemetry wrappers of SigRaft, the stacks under `local/` and `onprem/`.
* *Floating point*: the operational data analysis (35).
* *Tools that run other programs*: packaging, the quality gate, diagnostics (2, 3, 7).

Within modelled parts these operations are left out: in lab 26 the counters and the
unfenced store, which exist to show a race; in lab 37 TLS and the
mapping of properties; in lab 21 schema, scopes and batching; in lab 39 authentication, routing
and answers without a change of state; in lab 32 the rendering of commands and the
checks of labels; in lab 12 a second `start()` after `close()`.

## 2. The modules

| Module | Models | Theorems in | Checked in |
|---|---|---|---|
| `RaftElection` | lab 24 | `RaftElectionProofs` | itself |
| `ReplicatedLog` | lab 25 | `ReplicatedLogProofs` | `MCReplicatedLog` |
| `FencedLease`, `RedisLock` | lab 26 | `CoordinationProofs` | `MCCoordination` |
| `QuorumRegister`, `LogicalClocks` | labs 23 and 22 | `CoordinationProofs` | `MCCoordination` |
| `ProjectScheduler` | lab 38 | `CoordinationProofs` | `MCCoordination` |
| `SigRaftScheduler` | lab 39, scheduler and its handler threads | `SigRaftSchedulerProofs` | `MCSigRaftScheduler` |
| `JobWatch` | what a watcher is promised: the abstract specification of `SigRaftJobs` | `SigRaftJobsProofs` | `MCSigRaftJobs` |
| `SigRaftJobs` | lab 39, job store, subscriptions, WebSocket threads | `SigRaftJobsProofs` | `MCSigRaftJobs` |
| `ConfigReload` | lab 39, watcher, subsystems, report | `SigRaftJobsProofs` | `MCSigRaftJobs` |
| `ComputePool` | lab 20, Ray pools | `RelayLoadProofs` | `MCRelayLoad` |
| `RetryingConsumer` | lab 33, the consumer | `RelayClientsProofs` | `MCRelayLoad` |
| `TaskRepository` | lab 29 | `RelayClientsProofs` | `MCRelayLoad` |
| `AdmissionQueue` | lab 33, the queue | `RelayLoadProofs` | `MCRelayLoad` |
| `WorkerPool` | lab 11, the leased queue | `RelayLoadProofs` | `MCRelayLoad` |
| `IdempotentCalls`, `StatelessService` | labs 19 and 27 | `RelayClientsProofs` | `MCRelayLoad` |
| `ProcessWork` | lab 11, processes and placement | `RelayClientsProofs` | `MCRelayLoad` |
| `WorkPipeline` | lab 20, the pipeline | `RelayClientsProofs` | `MCRelayLoad` |
| `EventStream`, `Reconciler` | labs 21 and 37 | `RelayLoadProofs` | `MCRelayLoad` |
| `EchoService` | lab 12 | | `MCRelayLoad` |
| `PartitionedStore` | lab 28, with its ring | `PartitionedStoreProofs` | `MCRelayData` |
| `DagEngine` | lab 30 | `CoordinationProofs` | `MCCoordination` |
| `TaskPages`, `FrameReader`, `AzureRelay`, `TreesAndGraphs` | labs 21, 16, 9 and 6 | | `MCRelayData` |
| `ReleasePipeline`, `CloudPlan` | labs 39 and 36 | | `MCRelayData` |
| `ContainerDeploy` | lab 32, the local runtimes; promotion and its watch | | `MCRelayData`; the rollout alone in `rollout_watch` |

A proof module extends the MC module where the component is instantiated there, so that
a theorem speaks of the property that the run checks; the MC module then declares the
component's parameters as constants with named assumptions, and its configuration gives
their values.

`Bug...` operators are plausible mistakes of the code. Each stands before the
definition that it would replace, and for every property that is checked there is
one that breaks it: this shows that the property depends on the code.

### 2.1 How state and actions correspond to the code

* **RaftElection.** One variable per attribute of `RaftNode`; `partition` is the
  set of groups of `PartitionMap`; `leaderByTerm` is the cluster's table behind
  `LeadershipConflict`. A call of the cluster is one action, as the simulation is
  synchronous: `TriggerTimeout` is the start of the election and all vote requests with
  their answers; the heartbeats of a leader are calls of their own (`SendHeartbeat`). The
  order in which peers are polled matters and is kept: a higher term that is found stops
  the poll. Where the code raises, the action still has the effects that precede the exception.
* **ReplicatedLog.** As in RaftElection, with `store[n]` for log, commit index and
  state machine of a node. `SubmitCommand` is the append, the replication, the
  advance of the commit index and the second replication. The table of leaders behind
  lab 25's `LeadershipConflict` is left out: the error is raised after the node has become
  leader, and changes nothing. Two history variables:
  `committed`, the entries any leader has committed, and `usurped`, set when
  somebody becomes leader of a term for which it has not been elected (see 6).
* **FencedLease, RedisLock.** One action per method. Handles of earlier grants
  are kept per client so that late calls with them happen. `Advance` is the manual
  clock. The release script is one step, as in Redis; `naive` remembers that
  somebody used `release_naive`.
* **SigRaftScheduler.** A request is a handler thread that goes through the steps
  between which other threads can run: `StoreTask` and then `Register` or `Refuse`
  for a submission; `BeginPass` (which recovers and sorts), the placement of one queued
  job after the other, and `EndPass` for a pass. A placement reads twice what is free:
  to find the best node (`Choose`) and to take the devices (`Take`); `Store` writes the
  allocation and the job. Others may run between any two of these, and change what was read;
  `Place` is the case in which none does. `handler[h].queued` holds the copies of the jobs
  that the pass has sorted, as the loop does. `Interrupted` is a pass that raises because a
  dictionary changed while it was iterated over. `serving` is the set of threads that are
  at work, chosen at the start: properties of serial service are stated for one
  (`OneAtATime`). CPUs, GPUs, memory, NUMA nodes,
  labels and affinity are kept, because placement depends on them.
* **SigRaftJobs.** `history[t]` is the sequence of states of a job, `box[c]` the
  subscription of a connection with its mailbox, `session[c]` and `sender[c]` the
  program counters of its two threads, `wire[c]` the events that the present watch has sent. `Watch` holds the
  store's lock and is one step; `Acknowledge`, `Check`, `Get` and `Send` are steps of
  their own. `JoinTimeout` is the first join in `stop_watch`, which gives up after its
  timeout and closes the connection; `GiveUpJoin` is the second one, after which `stop_watch`
  raises and the session ends. `close` raises likewise when a session outlives its bound (`Down`).
* **ConfigReload.** The program counters `watcher.at` and `refresher.at` name the
  places between which the other threads, the signal handler (`RequestReload`), an
  editor (`Edit`) and shutdown can act. `Prepare`, `Commit` and `RollBack` visit the
  subsystems in their order of registration, one step each. Three of them belong to the service,
  and of their changes only the building of a report can fail; the fourth is an embedder's,
  whose prepare, commit and rollback may all raise, a commit with its effect or without. A rollback
  goes on to the other changes, and `torn` remembers that one was left undone. A refresh
  that fails with an `AnalysisError` keeps the thread; any other error ends it (`Ended`).
* **ComputePool.** `run[k]` is one submission on its way: entered, scheduled,
  running, settled, awaiting or ready. The ledger's methods are single steps, since
  Ray runs the actor's methods one at a time. `LoseWorker` is the loss of a worker
  process, `Retry` Ray's retry of a `RetryableComputeError`.
* **AdmissionQueue, RetryingConsumer.** The caller brings the time. `Advanced` is the
  loop of `advance_to`. `Process` is one delivery with any outcome, and the caller
  redelivers after the delay it was told, or later.
* **PartitionedStore.** The ring is a sequence of points with their owners;
  hashes are positions. A write names the versions that its writer has observed.
  `ReplicatePending` delivers the whole backlog, as the method does.
* **TaskRepository.** Clients act on what they have `seen`, so that patches with old
  etags happen. Every operation first purges what has expired.
* **DagEngine.** `Start`, `Complete` and `Finish` are the three parts of the loop in
  `run`; each started attempt may have any outcome and duration, and a plan may end.
* **QuorumRegister, LogicalClocks.** A coordinator may use any quorum that it reaches, of which
  the first replicas that answer, which the code takes, are one. The simulated clock gives every
  write its own tick, so a version is its tick. In LogicalClocks each update carries what it
  could know of (`past`) and what its own task told it (`told`); the properties compare the
  stamps with these.
* **ProjectScheduler.** Callers take turns, since the lab is single-threaded; each call
  is one action and names its caller, of whom one leads. `log` is the list of events
  that the code appends. The loops of recovery and of a placement pass are folds over the
  books, which take off the element that the loop deals with last.
* **WorkerPool.** The queue and the snapshots have a lock each, so that a worker can be
  preempted between any two calls: `Reserve`, `RecordRunning`, `Handle`, `RecordLost`,
  `Acknowledge`, `RecordOutcome`. A task may be submitted again at any time. A `KeyError`, or
  an answer of the handler that is no disposition, ends the thread (`dead`).
* **ProcessWork.** `parent` and `child` are program counters; `Kill` ends a child of either job
  anywhere, also with the manager's lock in its hands or with the lock of the queue's reader,
  which `get` holds while it waits (`Lock`, `Receive`). The waits of the parent for a result and
  for the end of a child may time out whatever the children do (`GiveUp`, `GiveUpJoin`), and
  then the run raises. The arithmetic of an item is left out. The placement of workers is
  operators only, whose topologies are initial states of `MCRelayLoad`.
* **IdempotentCalls.** A client follows a script. An attempt is one step with a choice
  of the fault (lost request, turned away, delivered once or twice, lost reply), the
  server worker that it reaches and the delay, since `FakeTransport.send` runs to its end.
  `effects` stands for `effects_applied` and adds which call applied what.
* **EventStream.** Publishing calls all sessions before it returns and is one step.
  A connection that is closed keeps the frames it had queued, which the client
  still drains.
* **WorkPipeline.** A task that is submitted again is one more copy, known by its number, since
  the code compares ids only; the entry that says who works on a task has its id alone.
  Publisher, pipeline and router have variables of their own; a request and its reply are one
  step, of which the reply may be lost.
* **Reconciler.** `Plan`, `Look`, `Request`, `Recheck` and `Wait` are the requests of one
  `plan` and `apply`; `late` holds requests that the client has given up and that may
  still `Arrive`. `Control` is the service's own controller. `Cataloguing` is `list_all`,
  a page a step, while names come and go (`Change`), and `run_mutation`, out of which an error may
  come that is neither a refusal nor an unknown outcome, with or without an effect ("escaped").
* **StatelessService.** The middleware runs on the event loop and the handlers in
  threads: `Check`, `Start`, `Handle` and `Finish` are steps.
* **EchoService.** `acceptor`, `handler[k]` and `closer` are the program counters of the
  accept thread, the connection threads and the thread in `close`; `CloseListener`,
  `TakeKnown`, `CloseClients`, `JoinAcceptor` and `JoinThreads` are the places between which the
  others run. The second half of the module is the datagram server and its client.
* **TaskPages.** A page is read in one step and tasks are added between them.
* **FrameReader.** The ring keeps its storage, read position and size, and `Feed` writes
  and drains by turns, as the code does. Bytes are digits to a small base.
* **AzureRelay.** `Call` is one call of the adapters by a submitter, `Fail` the ways in
  which it may fail: lost on its way there, lost on its way back, re-sent by the SDK,
  or carried out later (`Arrive`).
* **TreesAndGraphs.** Structures are records as in the code, with the order of
  insertion of nodes and edges; searches and traversals are recursive operators that follow the
  code's queues and stacks. The references that they are checked against quantify over
  all paths.
* **ReleasePipeline.** A pipeline is a record of what the validators look at: the stages,
  what each depends on and its condition, and its steps as tokens. Any pipeline that is
  one edit away from the shipped one is an initial state if the validator lets it through,
  and `Start`, `Step` and `Roll` run it. A step has what `Outcome` allows: on Azure `emit` writes the
  evidence that was verified, on premises it only asks the registry; restoring an image and
  rolling back may fail with or without their effect.
* **CloudPlan.** Likewise, any configuration one edit away from a good one that validation
  accepts is applied and destroyed, and any command may fail with or without its effect.
  `commanded` is what commands were run for and `built` what stands: the resources of a stack come
  some time after `stack create` has returned, or never (`CreateResources`).
* **ContainerDeploy.** `Plan` selects, `Define`, `Start`, `Connect` and `Command`
  are the calls of the adapters, of which any may fail after its effect; a connect that fails
  leaves its connection open. In the rollout the deployment controller and the kubelet are
  external; `Publish` updates the status, which lags behind.

### 2.2 Abstractions

Names, actions and payloads are model values or a few numbers. Time is a small
integer. Text of errors, logging and HTTP framing are left out; an error is
the effect it leaves behind. Validation is reduced to whether it succeeds, except where
it decides what happens later: in the schedulers, and in the labs that deploy.

## 3. The runs

| Run | Instance | What it shows |
|---|---|---|
| `raft_election_3` | 3 nodes, 4 terms, every partition | a node votes once per term, restarts included (`VoteOncePerTerm`); two leaders with their own votes are in different terms (`VotedLeaderUnique`); when all nodes are reachable, one timeout of a node that nobody is ahead of elects it (`HealedTimeoutElects`) |
| `replicated_log` | 3 nodes; 3 terms and 2 entries with partitions, 2 terms with crashes besides, or 2 terms, 3 competing commands of the job and a cut that leaves one leader alone with its own; one node down at a time | `AppliedAgree`, `LogMatching`, `CommittedAreKept`, `OneOwner`, in every behaviour in which leaders were elected for their term |
| `replicated_log_restart` (violation) | 3 nodes, 2 terms | finding 6.2 |
| `replicated_log_usurper` (violation) | 5 nodes, 2 terms | finding 6.1 |
| `coordination` | locks: 3 clients, lease of 2, clock to 4, 3 fences; lab 38: 2 nodes, 2 jobs, 2 terms, logs of 5; lab 23: 3 replicas, 4 writes, 9 pairs of quorums, 5 partitions; lab 22: 3 replicas, 2 tasks, 3 updates; lab 30: 4 tasks in 3 graphs and a cycle, 1 to 3 slots, durations 0, 1 and 3 | the holder is never fenced out (`HolderIsAccepted`); only the holder or the clock ends a lease; a paused holder cannot overwrite its successor; compare-and-delete ends no later holder's lock; quotas hold and the log tells all (`JobsAccounted`); quorums that intersect read the last write and `stale` is right, and clocks tell what was known (`ReplicasAgree`); every task of a workflow is decided and started after what it depends on (`VerdictsRight`), and no slot idles (`GreedyBound`) |
| `scheduler` | serial: 2 nodes, 2 jobs of 2 shapes and priorities, 2 reports; threads: 2 threads, 1 node, 2 jobs alike | attempts stay within their budget whatever interleaves; with requests one at a time, no device is in two allocations, placements are what was asked and fit, dispatches and scheduled jobs correspond, and a pass leaves out only what did not fit at its rank. With two threads none of these four holds (6.3) |
| `scheduler_race` (violation) | the threads of `scheduler` | finding 6.3 |
| `job_watchers` | one connection and 2 jobs, or two connections for one subscription to a job that does not fail, mailbox of 2; or a configuration with 2 valid revisions, one invalid, 2 edits, 1 request, 2 failures | a watch that has not overflowed loses nothing and shows states in order (`NothingLost`, and `ShowsHistory`, the refinement of `JobWatch`); `stop_watch` and `close` end although clients stop reading; all subsystems run with what is published whatever fails half way, but for the one whose own rollback raised, until the next reload; a stale report does not stay while the refresh thread lives; edits are adopted unless one of three races hits them |
| `config_reload_missed` (violation) | 1 edit, 1 request, no failure | finding 6.4 |
| `relay_load` | fifteen components, two of them with two sets of bounds, given in `RelayLoad.cfg` and `MCRelayLoad` | an action runs once at a time and its entry is not evicted (`RunsAlone`); admission bounds latency; retries are paid for; an open breaker spares its dependency; no patch is lost (`ItemMatchesHistory`); leased work is done by one worker at a time, processes that return have every result, calls take effect once and in time, and workers are placed evenly (`WorkDoneOnce`); streams, pipelines, patches, reconciliations and echoes tell their clients one story (`ClientsSeeOneStory`) |
| `relay_data` | nine components, the bounds of each in `MCRelayData` | reads see the heads; siblings are concurrent; pages, frames and submissions come whole (`ReadsWhole`); trees and graphs answer like their definitions (`AnswersRight`); deployments keep their order when steps fail (`DeploymentsSafe`). An assumption of the module checks on every ring of up to 6 points and 3 nodes that a change of members moves only the keys of the node that comes or goes |
| `rollout_watch` (violation) | 2 promotions | finding 6.5 |

Where a run has several scenarios or components, a behaviour is of one of them and
the others stay in their initial state, so that the state spaces add up instead of
multiplying. A property of a composed run joins what the components promise of one kind;
its parts carry their own names and comments in the components' modules. `WorkDoneOnce`,
`ClientsSeeOneStory`, `ReadsWhole`, `AnswersRight`, `DeploymentsSafe` and `ReplicasAgree` are such
conjunctions. Each has one mutant, which breaks one part; that the others depend on the code too
is shown by their proofs where there is one, and else by no mutant.

### 3.1 Why the bounds are enough

* Two disjoint majorities, a split vote, a stale leader and its successor need three
  nodes; the second leader of one term needs five (`replicated_log_usurper`). Three
  terms allow an entry of the first to be overwritten in the second and a leader
  of the third to meet it; that is the case in which counting replicas for an earlier
  term would commit wrongly.
* A lease of two ticks under a clock of four gives a holder, its pause beyond the
  expiry, the next holder and the end of the next lease; three clients give a late
  release, a holder and a contender.
* Lab 38: a quota of one core with jobs that want one each, a report that takes away the
  GPU and a CPU, and two terms give a job that must wait for the quota, one that no longer fits,
  and a deposed leader. Three replicas have quorums that do and do not intersect.
* One node and two threads are enough for two passes that read the same job; its two GPUs hold
  both jobs, and a report takes them away. Threads are alike (`SYMMETRY`). The
  serial scenario has two nodes, since the score chooses between nodes, reports
  that shrink a node below what it holds, and leases that run out twice, up to the last attempt.
* A mailbox of two holds, overflows and is drained within the three states of a job. In the
  service a mailbox holds 32 events, and no job has more than three: its overflow is the contract of
  `job_events.py`, which a client of the module may reach with a smaller mailbox, but the service does not.
* A ledger of one entry evicts at every new task id, the worst case. Three submissions race
  without a lost worker, and two with one. Lab 27 has two versions on two instances, and three,
  which a lost update needs, on one.
* Lab 19: two clients with one key and different bodies, two attempts more and a deadline of
  three ticks give the conflict, the retry that is replayed and the one that comes too late, on
  one worker or two; a second call without a key is applied twice when it is doubled. Lab 21: an
  outbound queue of two overflows in a replay of three.
* Lab 37: two faults and one deletion allow a request to be given up, applied late, and its
  effect to be deleted before the retry; a listing of three names by pages of one, with two
  changes, can lose its marker, repeat a name and miss one. Lab 12: a send of more than one chunk
  and a connection that ends at once; three exchanges of which a retried one leaves an
  answer behind for the next.
* Four versions give a chain, two siblings and their merge.
* The graphs of lab 30 are a diamond with a retry, a chain against the order of the ids, a
  fan beside a long task, and a cycle that is refused. In lab 6 six keys give every rotation
  and every deletion case, and three edges with a negative weight give shortcuts
  and negative cycles.
* Lab 16: rings of 5 and 6 bytes just hold a frame of the largest size, so that every frame
  wraps around. Lab 36: one edit changes one thing that validation looks at.

`CHECK_DEADLOCK FALSE` stands where the system may stop: a workflow that has
finished, messages that are used up, clients that have gone, a clock at its bound.

### 3.2 Fairness

Two modules have liveness properties, both run by `job_watchers`.

* `SigRaftJobs`: the threads of the process are scheduled, hence weak fairness of
  the session's steps, of the sender's `Check` and `Get`, and of the listener's
  shutdown. `Send` on an open connection is *not* fair: a client may stop reading, and
  then `send` blocks for ever. On a closed connection it raises, so it is fair there.
  Clients need never do anything.
* `ConfigReload`: the watcher and the refresh thread are scheduled, and their waits
  have timeouts, hence weak fairness of each thread's steps (`ConfigFairness`). Edits,
  requests, failures and shutdown are not fair.

`WorkDoneOnce` and `ClientsSeeOneStory` say besides, as invariants, that threads and processes
do not wait for each other for ever. The parent of `ProcessWork` comes to its end without any
time-out unless a child was killed; then a time-out ends it, but for the `put` of a task, which
has none, when the queue is full and nobody is left to read it (`RunsWhole`). And where no
server thread of `EchoService` can move after `close`, all of them have ended.

## 4. What is proved

The theorems hold for every value of the constants that satisfies the named
assumptions, and are checked by `tlapm` down to the last leaf.

* **RaftElection** (`N >= 3`). `TypeCorrect`; `VotesAreFinal`, from the type invariant
  and the fact that each step keeps or raises a term (`StepKeepsVotes`);
  `OneVotedLeader`. The last needs a strengthening, because "two leaders are not in
  the same term" does not say why: `LeaderInv` adds that a majority stays *pledged* to
  every leader that holds its own vote, i.e. voted for it in its term or has left the
  term behind. Pledges are kept by `VoteOncePerTerm`, and two majorities meet
  (`MajoritiesMeet`). `HealedTimeoutAlwaysElects` is about one step: nobody is ahead of the
  candidate, so everybody grants it the vote (`AllGrant`).
* **ReplicatedLog** (any set of nodes, terms and commands). `LogSafe`, which joins
  `LogMatching`, `AppliedAgree` and `CommittedAreKept`, is no invariant of itself. `LogInv`
  adds why, where nobody led unelected: a majority stays *pledged* to the leader of a term,
  which is the only one (`LeadersElected`, `OneLeader`); terms do not fall along a log, and
  logs that meet in a term agree up to there, with its leader's too (`TermChain`,
  `LeaderHasItsTerm`); an acknowledgement is for entries that the peer has (`Acknowledged`);
  an entry of a leader's own term is in the log of everybody whom it must have reached
  (`Bound`), unless a majority has left the term without it (`Blocked`, `EntriesKept`); and what
  was committed is held by a majority, by every later leader and by every log with a later
  entry (`Held`). A call is proved by the rounds of which it consists: idle calls, an election
  that wins, and one exchange of a leader with a peer (`Idle`, `Wins`, `Round`). TLC had
  checked the invariant on two million states, with crashes in all three terms. The theorems
  `AppliedLogsAgree`, `LogsMatch` and `LeadersKeepCommitted` are restricted, like the
  properties, to behaviours without the irregular election of finding 6.1.
  `OneOwnerAlways` says of the task, a fold over the applied entries, that two replicas
  never show different owners of the job: the fold is unfolded entry by entry (`Replays`, where
  a least counterexample takes the place of an induction), a command never changes an owner
  that is there (`ApplyKeepsOwner`), and logs that agree up to an index show one task there.
* **FencedLease, RedisLock** (lifetimes positive). `LeaseInv` says that the counter
  leads every fence in use, a lease is its holder's until released or expired, and a
  fence names one grant. From it `HolderAlwaysAccepted`, `LeaseEndsByHolderOrClock`,
  `FencesNameHolders`, `ActiveHolderKeepsValue` and `DecisionsStand`.
  `CompareAndDeletePreserves`: a record's token names one grant, so that nobody deletes
  the lock of a later holder unless `release_naive` was used.
* **ProjectScheduler** (any nodes, reports, submissions, quotas, times and callers).
  `JobsAlwaysAccounted`, from `Sound`, which is about books and not about a state, so that it
  can be followed through the inner steps of a call: every job is in the state in
  which the last event about it leaves it and has been attempted as often as it was reserved, a
  queued job has an attempt left, whoever holds an allocation is active and holds one, and
  allocations are apart and within the quotas. `EventTold` says what one more event changes;
  `EndsSound`, `RunsSound`, `SubmittedSound` and `ReservedSound` are the steps of a job. Recovery and
  the pass are folds: `FoldExists` unfolds them and `BySize`, a least counterexample, follows
  them element by element (`RecoveredSound`, `PassSound`), in whatever order they go. What a
  project holds is a sum that grows by what is added (`OneMoreHeld`), and the first `k` of a set
  are `k` at most (`FirstOfSize`), so that a reservation takes no more than the quota was asked for.
* **DagEngine** (any tasks, graphs, plans and slots). `VerdictsAlwaysRight`, from `EngineInv`:
  what is ready is exactly what is pending and free of its dependencies, what has begun is free
  of them, and a success is on record (`Fed`, `Timed`). That leaves the end of a run, where
  nothing is ready: a task is pending if and only if it is below a failure. It rests on two facts
  about graphs. Collecting children as often as there are tasks gives the least closed set
  (`DescendantsAre`: either it is closed, or the n-th collection has n members). And without
  cycles some task of any set depends on none of it (`SomeFirst`: the one with most below it),
  so that no set of pending tasks can wait for itself. Durations are not negative, which
  `AttemptOutcome` does not check. `GreedyAlwaysBounded` is the bound of list scheduling. It speaks
  of finished runs only; `GreedyInv` says of every state, for whatever is ready or running, that
  slots were idle no longer than the chain which ends in it was worked on (`Greedy`). A completion
  keeps that because either all slots worked until then or nothing was ready, and then every
  running attempt lengthens its own chain by as much (`IdleMoves`, `ChainGrows`). That chains are
  well defined is again `SomeFirst` (`ChainExists`); the times are sums (`TotalParts`,
  `TotalRaised`).
* **QuorumRegister, LogicalClocks** (`ReplicasAlwaysAgree`, any replicas, tasks, clocks and
  quorums). Where quorums intersect, a write quorum holds the last version, and so every read
  quorum meets it. Every Lamport stamp is above those in its past, every vector
  is what its past contains.
* **SigRaftScheduler** (any threads, nodes, requests and reports). For any interleaving, also
  within a placement: `SchedulerTypes` and `AttemptsBounded`, by the invariant that the copies a
  pass holds were queued with attempts left. All else is for one thread at work: nothing comes
  between its steps then (`NotPreempted`), so that a reservation takes only what is free. That
  gives `DevicesExclusive` and, as a property of steps, `PlacementsAlwaysFit`, which adds that a
  copy asks for what its job asks for; it rests on two facts about the model's operators, that
  the first `k` of a set are `k` (`FirstOfSize`, the ranks are a bijection), and that a sum over
  a finite set grows by the element that is added, whatever order it is taken in (`SumAdd`). Its
  hypothesis is that a report names a GPU once, which the code does not check (section 6).
  `OneAllocationPerJob`, `NobodyPassedOver` and `SubmissionsComplete` follow by `SerialInv`,
  which adds that ids are unique and copies current, and `Ranked`: what a pass has placed or
  passed over comes before what is left, and what it passed over fitted nowhere when it was its
  turn. With two threads all five properties fail (finding 6.3, and for the last the hazard at
  `sigraft_service.py:417`).
* **SigRaftJobs** (any jobs, connections and mailbox sizes). `WatchInv` joins the types, what
  the two threads of a connection may be doing together (`Threads`), and `Continues`: what
  was sent, what is in a thread's hand and what is in the mailbox are the history from where
  the watch began, without a gap. From it `WatchersLoseNothing`, and `WatchRefinement`: every
  step is a step of `JobWatch` or stutters.
* **ConfigReload** (any subsystems). `PublishedTogetherAlways`, from `ConfigInv`: in each
  phase of a reload it says which prefix of the subsystems runs with the new settings. It holds
  whatever raises in prepare, commit or rollback, because the rollback goes on after a failure: only the
  subsystem whose own rollback raised may be left with other settings, and only until a reload is
  applied.
* **ComputePool** (a ledger of at least one entry). `RunsAloneAlways`, from `Shape` and
  the property itself. The argument rests on `TouchedKeeps`: eviction never forgets
  a task id that is in flight, also when every entry is.
* **AdmissionQueue** (at least one worker, any queue limit and service time).
  `LatencyAlwaysBounded`, where the bound itself says nothing of who still waits. `WaitsWell`
  adds it: for the message at place `z * workers + r`, `r` workers will be free `z` services
  before the latest time at which it may start. When a service ends everybody moves up one
  place, and that worker is taken out of the count (`TakeOverKeeps`); at a multiple of the
  number of workers all of them count, since no service starts after another one ends that
  still runs. `Advanced` is a recursive function, of which `CompletionsExist` says that there is
  one and `AdvancedKeeps`, by a least counterexample, that it ends with nothing due.
* **RetryingConsumer** (any policy and messages). `RetriesAlwaysPaidFor`, over tokens and
  fresh messages: spent and remaining tokens together never exceed what was there at first and what
  has been paid in (`BudgetInv`). `DependencyAlwaysSpared`, a property of steps, from what the
  breaker's counters say of the calls made (`BreakerInv`).
* **TaskRepository** (any clients, keys and lifetimes). `ItemsAlwaysMatchHistory`, from
  `EtagsTell`: an etag names one state of one item, so that a patch that is accepted was
  made from the item as it is.
* **WorkerPool** (any workers, tasks and timeout). `LeasesAlwaysHold`, from `LeaseOf`: a worker
  at work has the latest lease of its entry, which ends when the entry is visible again, or
  an earlier one that has run out; and from `LeasesDiffer`: a lease is handed out once, so
  that two workers whose leases run cannot have the same entry. Tasks may be submitted again, and
  threads may die.
* **ProcessWork** (any items, children, deliveries and lengths, any children killed anywhere and
  any wait timed out). `ResultsAlwaysWhole`, from `ProcessInv`: what the parent has put is what waits
  in the queue and what children have taken, in the order of the queue; every `None` ends one child; as
  long as nobody is killed nothing is lost between a child's hand and the results; and what the
  manager's dictionary counts is what no child has still to do, because it changes under a lock
  only. A run that ends well has seen every child end, so that none was killed, every `None` was taken
  and all that stood before it.
  `SlicesAlwaysCover`: the slices of a shared segment join without gap or overlap, for any
  length and number of workers.
* **IdempotentCalls** (any clients, servers and scripts of requests). `CallsTakeEffectOnce`, from
  `CallInv`: a replay cache knows the key of whatever its server applied under one
  (`CacheTells`), what was applied without a key belongs to a call that has ended
  (`KeylessEnded`), and what a call was told was so and stays so (`AnswerStands`: effects and
  caches only grow). `Arrivals` says what a request does that arrives once or twice. The
  script's bodies must not read like the ways in which a call fails.
* **StatelessService** (any instances, clients and keys). `UpdatesAlwaysChain`, from `Current`:
  the etag of a task is the last write of its key, and a field shows the last write that
  carried it. A write whose etag is the stored one is then the next of its key's
  chain (`WriteKeeps`), whatever other instances wrote since it was read. `Before`, a CHOOSE, has
  one value (`BeforeIsUnique`).
* **EventStream** (any clients, limits of the queue, publications and expiries).
  `StreamsAlwaysContinuous`, from `SessionGood`: from where its client is, every event in a
  connection's queue is the next one and every ping names the last, and while the connection is
  open the queue ends with what was published. `Replay` and `Events` are recursive functions. There
  is one that unfolds as they do (`ReplaysExist`, `EventsAre`), and a least counterexample follows it
  event by event (`ReplayGood`), through a connection that closes on the way.
* **WorkPipeline** (any subscribers, high-water mark, submissions and clients; no worker is called
  `nobody`, for the code's `None`). `PipelinesAlwaysAccount`, from `PipelineInv`: with what it has
  not yet drained, a subscriber's events are in order and are counted (`Accounts`); every copy of a
  task is at one place (`CopiesPlaced`, where `CopiesNumbered` tells copies apart); a task has an
  entry from when it leaves the queue until it is finished, and the entry names the worker of its
  only copy (`OwnersGood`), so that entries without names mean that only a task submitted again
  can still be in somebody's hands; and the router answers an id once (`HandleGood`).
* **Reconciler** (finitely many clients, names and resources on a page; any desired values,
  attempts, faults and deletions). `ReconcilersAlwaysConverge`, from `CloudInv`. A client that has
  seen what it wants has reached it (`Knows`), a resource shown as ready runs as it is described
  (`Honest`), and one client alone creates only where there is nothing, unless a request
  was applied after it had been given up (`Single`). A page holds what comes next after its
  cursor (`PagesContinue`), also by Harbor's page numbers as long as nothing changes
  (`ListedPages`), so that a listing is always ahead of what it has yet to read. A mutation that
  cannot be repeated is applied once at most, and not at all when it was refused.
* **PartitionedStore** (read and write quorums within the number of copies).
  `ReadsSeeHeadsAlways`, from `Placed`: the owners that acknowledge hold all that is
  known, and the rest is on its way to the others. `ContactedMeets` is the arithmetic
  of the rotated slice: with overlapping quorums it contains one that acknowledged.
  `SiblingsConcurrentAlways`: a version's past is closed (`Ordered`, `NoGaps`), hence of two
  versions that no replica has replaced neither is in the past of the other.

Model-checked only:

* Liveness (`UnwatchEnds`, `CloseReturns`, `ReportCatchesUp`, `EditsAdoptedUnlessRaced`):
  `ENABLED` and leads-to from weak fairness are beyond this prover.
* What a fold, a sum or a recursive function computes for every input, beyond those of
  `OneOwner`, `SerialPlacementsFit`, `LatencyBounded`, `JobsAccounted`, `VerdictsRight`, `GreedyBound` and
  `StreamContinuous`.
  The induction itself is only to be had as a least counterexample among the naturals, one for
  each such definition.
* The parts of `WorkDoneOnce` but `LeasesHold`, `TakesEffectOnce`, `DeadlineKept`, `ResultsWhole`
  and `SlicesCover`, and those of `ClientsSeeOneStory` but `UpdatesChain`, `StreamContinuous`,
  `PipelineAccounts` and `Converges`. That somebody can move (`RunsWhole`) is `ENABLED`.
* `ReadsWhole`, `AnswersRight` and `DeploymentsSafe`. They belong to `MCRelayData`, which reaches
  the RECURSIVE operators of `FrameReader` and `TreesAndGraphs`; elsewhere recursion is written
  as recursive functions or with folds.

## 5. Hazards

`PROJECT.json` lists what a test would hardly reach, each at its line and with the
properties that would catch it. Three have no property and are kept for what they say about
the code: a task that nobody schedules when a heartbeat comes between its storing and its
registration (`SubmissionsComplete` proves that it takes two threads), a
waiter of the compute pool that is answered another action's outcome, and a datagram's late
answer that the next exchange takes for its own.

## 6. Where the code and its documents disagree

1. *A leader nobody elected* (`replicated_log_usurper`; the same in lab 24). When a
   poll finds a higher term the candidate steps down and stops polling, but the votes it
   had so far, cast for the earlier term, are still counted. With a majority before
   the break it becomes leader of the higher term (lab 25 `simulation.py:499-505`, lab
   24 `simulation.py:264`). Lab 25 says that a committed job survives a replacement
   leader; the run shows a second leader of the latest term that lacks one. In lab 24
   the same step leads to `LeadershipConflict`. All other log properties
   exclude these behaviours by `usurped`, and hold without them.
2. *Committed work that a restart forgets* (`replicated_log_restart`). A follower takes
   over a commit index that is lower than its own (`simulation.py:376`), and a restart
   replays only up to it. This needs no irregular election.
3. *A job placed twice* (`scheduler_race`). Two `/scheduler/run` requests run on two
   threads without a lock; both place the same job, and recovery releases only the last
   allocation. In the same way two passes that both look at a node before either has stored its
   allocation take the same device, or more memory than there is; hence properties of
   allocations are stated for requests that are served one at a time.
4. *An edit that is never loaded* (`config_reload_missed`). The first token is taken from
   the file at a later time than the settings, so an edit in between is never seen;
   an edit between probe and read, or a request between `is_set()` and `clear()`
   (`config.py:509-510`), is lost as well. `EditsAdoptedUnlessRaced` shows that there
   is no fourth way.
5. *A rollout that is reported too early* (`rollout_watch`). `watch_relay_rollout` looks at the
   numbers of available and of updated replicas (`sdk_adapters.py:215-223`), but not
   at their total. During a surge a ready pod of the image before counts as available while
   a new one that is not ready counts as updated. `DoneIsStarted` says what is certain.

Observed while modelling, without a run of their own: attempts are counted while the circuit is
open (`backpressure.py:374`), so messages may be dead-lettered at their first real failure; a
half-open breaker lets every call through while the lab speaks of limited probes; when one task
of a batch fails, `drain` loses the outcomes of the others (`compute_pool.py:423`); with three
pools a waiter of an evicted id can be answered with the outcome of another action
(`ComputePool!AnswersItsAction`, found by simulation with 4 submissions); when a datagram
exchange of lab 12 is retried, the answer to its first attempt is taken for the answer to the
next exchange, although the lab calls retrying an echo safe (`AnswersInTurn` bounds it: answers
are taken in the order of their exchanges, and no more of them than were sent); Harbor and
Kubernetes refuse a second resource of a name where OpenStack makes one
(`Reconciler!NotMultiplied`), and `list_all` over Harbor's numbered pages can miss a resource
that was there throughout, or return one twice, when another comes or goes
(`Reconciler!ListsAll`); `SchedulerNode` of lab 39 accepts a heartbeat that names a GPU twice,
and a job that asked for two may then be given one (`DistinctGpus`; lab 38 refuses such a node;
the same goes for a CPU, which the model, where CPUs are a set, leaves out); an error of the
refresh that is no `AnalysisError`, as pandas' own on an empty file, ends the refresh thread for
good (`analytics_service.py:372`), and the report stays as it is; when a rollback has raised, a
reload of unchanged bytes still reports "unchanged", and no error (`config.py`); a 502 or 504
that reaches `run_mutation` as `ServiceUnavailable`, and a write that times out, escape it,
although the request may have been applied (`core.py:226-236`); `stack create` runs without
`--wait` (`infrastructure.py:411-420`), where `delete` has it, so that `apply` may report
success before the stack's resources exist; the on-premises validator does not ask for
`verify-evidence`, so that a pipeline without it is accepted (`release.py:525-656`); and a
connect to a machine's monitor that fails leaves its connection open (`local_runtime.py:555`).

## 7. Plan

Done: all modules of section 2, and the theorems of section 4. What is worth proving
next: the echoes of `EchoService`, the part of `ClientsSeeOneStory` that is left, and the
delivery of `WorkDoneOnce`.

Left to model are the operations named in 1.3 within modelled parts, of which the restart
of an echo server comes first.
