----------------------------- MODULE MCRelayLoad -----------------------------
(***************************************************************************)
(* Small instances of the labs in which clients, workers and servers race  *)
(* under load and failures: the compute pools and the pipeline of lab 20,  *)
(* the admission queue and the retrying consumer of lab 33, the worker     *)
(* pool, the processes and the placement of lab 11, the calls of lab 19,   *)
(* the streams of lab 21, the stateless service of lab 27, the task        *)
(* repository of lab 29, the reconciler of lab 37 and the echo servers of  *)
(* lab 12.  A behaviour is of one of them; the others keep their initial   *)
(* state, so that the state spaces add up.                                 *)
(***************************************************************************)
EXTENDS ComputePool, TLC

CONSTANTS
    t1, t2, p1, p2,
    QueueWorkers, QueueLimit, ServiceTime, QueueMessages, QueueTime,  \* lab 33, see AdmissionQueue
    Message, MaxAttempts, Threshold, RecoveryTimeout, HalfOpenSuccesses,   \* lab 33, for which
    TokensPerRetry, InitialTokens, MaxTokens, Delays, ConsumerTime,        \* see RetryingConsumer
    Timeout, WorkTime, MaxDeliveries, MaxPuts,    \* the workers of lab 11, see WorkerPool
    ProcessWorkers, Deliveries, MaxKills,         \* and its processes, see ProcessWork
    Client, Script, ClientRetries, CallDelay, CallTime,   \* lab 19, see IdempotentCalls
    Key, DefaultTtl, Ttl, MaxEtag, RepositoryTime,        \* lab 29, see TaskRepository
    ServiceKey, MaxVersion,                       \* lab 27, see StatelessService
    OutboundLimit, IdleInterval, TokenLife, MaxEvents, StreamTime,    \* lab 21, see EventStream
    Subscriber, Requester, RequestId, HighWater, MaxSubmits,          \* lab 20, see WorkPipeline
    Applier, Attempts, ApplyTime, RetryAfter, Desired, MaxFaults, MaxDeletes,   \* lab 37, see
    Name, PageSize, MaxChanges                                                  \* Reconciler

\* What the policies of lab 33 accept, in whole units of time and of a fresh message.
ASSUME ConsumerAssumption ==
    /\ IsFiniteSet(Message)
    /\ TokensPerRetry \in Nat \ {0} /\ InitialTokens \in Nat /\ MaxTokens \in Nat
    /\ Threshold \in Nat \ {0} /\ RecoveryTimeout \in Nat

\* What AdmissionController accepts, which counts in whole milliseconds.
ASSUME QueueAssumption ==
    /\ QueueWorkers \in Nat \ {0} /\ QueueLimit \in Nat /\ ServiceTime \in Nat \ {0}
    /\ QueueTime \in Nat

\* A visibility timeout is positive, as are the times that items live.
ASSUME TimeAssumption == Timeout \in Nat \ {0} /\ DefaultTtl \in Nat \ {0} /\ Ttl \subseteq Nat

\* Of no items the functions over processes return at once.
ASSUME ProcessAssumption ==
    /\ ProcessWorkers \in Nat \ {0} /\ MaxKills \in Nat
    /\ Deliveries \in Seq(STRING) /\ Deliveries # <<>>

\* Names and bodies are text, no body reads like a failure of its call, and the time a call
\* may take is a number.
CallRequest == [method : {"GET", "POST"}, id : STRING, key : STRING, budget : Nat,
                body : STRING \ {"deadline", "failure", "conflict", "not found"}]
ASSUME ScriptAssumption ==
    /\ ClientRetries \in Nat /\ CallDelay \subseteq Nat
    /\ Script \in [Client -> Seq(CallRequest)]

\* A token expires at some time.
ASSUME StreamAssumption == TokenLife \in Int

\* No worker has the name that stands for none.
ASSUME OwnerAssumption == "nobody" \notin Pool

\* A service holds finitely many resources, and a page at least one.
ASSUME CloudAssumption ==
    /\ IsFiniteSet(Applier)
    /\ Name \subseteq Nat \ {0} /\ IsFiniteSet(Name) /\ PageSize \in Nat \ {0}

\* Neither the pools nor the task ids are told apart.  They also stand for the clients,
\* workers and instances of other labs that are alike.
Alike == Permutations(Task) \union Permutations(Pool)

VARIABLES
    component,
    now, waiting, inflight, completed, submitted,
    clock, breaker, tokens, delivery, deadLetters, calls, retries,
    workerClock, entries, submitting, snapshots, worker, stopped, dead,
    job, parent, input, output, child, counts, holder, killed,
    callClock, rpc, outcomes, cache, tasks, effects,
    streamClock, published, session, applied,
    queue, owner, stopping, sequence, subscription, received, accepted, working,
    finished, refused, replied, asked, requests,
    service, resources, apply, late, tardy, reached, faults, deletes,
    names, listing, mutation,
    draining, inFlight, ready, stored, counter, request, known, history,
    stop, listener, acceptor, conn, sock, handler, registered, closer,
    storeClock, items, latest, read, fate,
    dropFirst, serving, datagrams, replies, exchange, answers,
    placement

poolVars == vars
queueVars == <<now, waiting, inflight, completed, submitted>>
consumerVars == <<clock, breaker, tokens, delivery, deadLetters, calls, retries>>
workerVars == <<workerClock, entries, submitting, snapshots, worker, stopped, dead>>
processVars == <<job, parent, input, output, child, counts, holder, killed>>
callVars == <<callClock, rpc, outcomes, cache, tasks, effects>>
streamVars == <<streamClock, published, session, applied>>
pipelineVars == <<queue, owner, stopping, sequence, subscription, received, accepted, working,
                  finished, refused, replied, asked, requests>>
cloudVars == <<service, resources, apply, late, tardy, reached, faults, deletes>>
catalogVars == <<names, listing, mutation>>
serviceVars == <<draining, inFlight, ready, stored, counter, request, known, history>>
repositoryVars == <<storeClock, items, latest, read, fate>>
echoVars == <<stop, listener, acceptor, conn, sock, handler, registered, closer>>
datagramVars == <<dropFirst, serving, datagrams, replies, exchange, answers>>

\* Three submissions evict entries; of two, one may lose its worker.
Submitted == Next /\ lost' = 0
Interrupted == Next /\ Cardinality({k \in Submission : run'[k] # NotYet}) < MaxSubmissions

Queue == INSTANCE AdmissionQueue WITH
    Workers <- QueueWorkers, MaxMessages <- QueueMessages, MaxTime <- QueueTime,
    pending <- waiting

\* The first of three attempts may be retried at once or a little later.
MCDelays == <<{0, 1}, {1, 2}, {1, 2}>>

Consumer == INSTANCE RetryingConsumer WITH
    MaxTime <- ConsumerTime, now <- clock

LeasedWork == INSTANCE WorkerPool WITH
    Worker <- Pool, MaxTime <- WorkTime, clock <- workerClock

MCDeliveries == <<"a", "a", "b", "b", "a">>

Processes == INSTANCE ProcessWork WITH
    Workers <- ProcessWorkers, Items <- Deliveries, Kills <- MaxKills

\* The slices of lab 11 cover a segment, also when processes outnumber its items.
ASSUME SlicesCoverSegment == \A count \in 1..6, length \in 1..8 : Processes!SlicesCover(count, length)

\* Nodes whose CPUs are ranges with gaps, of which the process may use some; and devices
\* on known nodes and one unknown.
MCPlacement ==
    [nodes : {<<[id |-> 0, ranges |-> r], [id |-> 1, ranges |-> q]>> :
                 r \in {<<<<0, 1>>>>, <<<<0, 0>>, <<2, 2>>>>},
                 q \in {<<>>, <<<<4, 6>>>>, <<<<4, 4>>>>}},
     allowed : {{}, {0, 4}, {0, 2, 4, 5}}, workers : 1..7]
    \union
    UNION {[devices : {[i \in 1..n |->
                 [address |-> 4 - i, numa |-> f[i], ancestors |-> <<>>, class |-> "03"]] :
                 f \in [1..n -> {-1, 0, 1}]},
            workers : 1..3, single : BOOLEAN] : n \in 0..3}

\* Two clients use one idempotency key for the same task with other bodies; the second
\* submits the task again without a key.
MCScript ==
    [c1 |-> <<[method |-> "POST", id |-> "t1", body |-> "x", key |-> "k1", budget |-> 3],
              [method |-> "GET", id |-> "t1", body |-> "", key |-> "none", budget |-> 2]>>,
     c2 |-> <<[method |-> "POST", id |-> "t1", body |-> "y", key |-> "k1", budget |-> 2],
              [method |-> "POST", id |-> "t1", body |-> "z", key |-> "none", budget |-> 2]>>]

Calls == INSTANCE IdempotentCalls WITH
    Server <- Pool, MaxRetries <- ClientRetries, Delay <- CallDelay, MaxTime <- CallTime,
    clock <- callClock, call <- rpc

Stream == INSTANCE EventStream WITH
    Client <- Task, MaxTime <- StreamTime, clock <- streamClock

Pipeline == INSTANCE WorkPipeline WITH
    Worker <- Pool, Client <- Requester, waiting <- asked, pending <- requests

\* Two clients want different states of one resource; a listing goes through three.
MCDesired == [c \in {1, 2} |-> c]

Cloud == INSTANCE Reconciler WITH
    Client <- Applier, Timeout <- ApplyTime, Services <- {"openstack", "kubernetes", "harbor"},
    run <- apply

Repository == INSTANCE TaskRepository WITH
    MaxTime <- RepositoryTime, now <- storeClock, etag <- latest, seen <- read, history <- fate

Service == INSTANCE StatelessService WITH
    Instance <- Pool, Client <- Task, Key <- ServiceKey, MaxEtag <- MaxVersion,
    tasks <- stored, call <- request
\* Fewer versions over both instances, and all of them on one.
Spread == Service!Next /\ counter' < MaxVersion
Alone(i) == Service!Next /\ \A c \in Task : request'[c].instance \in {0, i}

\* Of two connections one sends what fills more than a chunk and the other only comes and goes.
Echo == INSTANCE EchoService WITH
    Conn <- {"k1", "k2"}, ReadSize <- 2, Buffer <- 1, MaxAttempts <- 2, MaxExchanges <- 3,
    MaxBytes <- [k \in {"k1", "k2"} |-> IF k = "k1" THEN 2 ELSE 0],
    known <- registered, requests <- datagrams

MCInit ==
    /\ component \in {"pool", "lossy pool", "queue", "consumer", "workers", "processes", "calls", "stream",
                      "pipeline", "cloud", "catalog", "service", "repository", "echo", "datagrams",
                      "placement"} \union Pool
    /\ IF component = "placement" THEN placement \in MCPlacement
       ELSE placement = [devices |-> <<>>, workers |-> 1, single |-> FALSE]
    /\ Init
    /\ Queue!Init
    /\ Consumer!Init
    /\ LeasedWork!Init
    /\ Processes!Init
    /\ Calls!Init
    /\ Stream!Init
    /\ Pipeline!Init
    /\ Cloud!Init
    /\ Service!Init
    /\ Repository!Init
    /\ Echo!Init
    /\ component # "datagrams" => ~dropFirst
    /\ component # "processes" => job = "queue"
    /\ component \notin {"cloud", "catalog"} => service = "harbor"
    /\ component # "catalog" => names = {} /\ ~mutation.idempotent

MCNext ==
    /\ \/ component = "pool" /\ Submitted
       \/ component = "lossy pool" /\ Interrupted
       \/ component = "queue" /\ Queue!Next
       \/ component = "consumer" /\ Consumer!Next
       \/ component = "workers" /\ LeasedWork!Next
       \/ component = "processes" /\ Processes!Next
       \/ component = "calls" /\ Calls!Next
       \/ component = "stream" /\ Stream!Next
       \/ component = "pipeline" /\ Pipeline!Next
       \/ component = "cloud" /\ Cloud!Reconciling
       \/ component = "catalog" /\ Cloud!Cataloguing
       \/ component = "service" /\ Spread
       \/ component \in Pool /\ Alone(component)
       \/ component = "repository" /\ Repository!Next
       \/ component = "echo" /\ Echo!Connections
       \/ component = "datagrams" /\ Echo!Datagrams
    /\ component \notin {"pool", "lossy pool"} => UNCHANGED poolVars
    /\ component # "queue" => UNCHANGED queueVars
    /\ component # "consumer" => UNCHANGED consumerVars
    /\ component # "workers" => UNCHANGED workerVars
    /\ component # "processes" => UNCHANGED processVars
    /\ component # "calls" => UNCHANGED callVars
    /\ component # "stream" => UNCHANGED streamVars
    /\ component # "pipeline" => UNCHANGED pipelineVars
    /\ component # "cloud" => UNCHANGED cloudVars
    /\ component # "catalog" => UNCHANGED catalogVars
    /\ component \notin {"service"} \union Pool => UNCHANGED serviceVars
    /\ component # "repository" => UNCHANGED repositoryVars
    /\ component # "echo" => UNCHANGED echoVars
    /\ component # "datagrams" => UNCHANGED datagramVars
    /\ UNCHANGED <<component, placement>>

MCSpec ==
    MCInit /\ [][MCNext]_<<component, poolVars, queueVars, consumerVars, workerVars, processVars,
                           callVars, streamVars, pipelineVars, cloudVars, catalogVars,
                           serviceVars, repositoryVars, echoVars, datagramVars,
                           placement>>

-----------------------------------------------------------------------------

\* Whoever the admission queue of lab 33 accepts waits no longer than it takes to
\* serve a full queue, and is served in turn.
LatencyBounded == Queue!LatencyBounded

\* The retry budget of lab 33 has paid for every retry.
RetriesPaidFor == Consumer!RetriesPaidFor

\* An item of lab 29 is what its creation and the acknowledged patches made of it.
ItemMatchesHistory == Repository!ItemMatchesHistory

\* An open breaker of lab 33 keeps its dependency from being called.
DependencySpared == Consumer!DependencySpared

\* Work is done once by whoever holds it: leases of lab 11 have one holder at a time and
\* come back when they run out, a run of its processes that returns has every result
\* although some are killed or waited for too long, its workers are spread over CPUs and
\* devices evenly and apart, and a request of lab 19 that is repeated takes effect once and
\* is answered in time or not.
WorkDoneOnce ==
    /\ component = "workers" => LeasedWork!LeasesHold
    /\ component = "processes" => Processes!RunsWhole
    /\ component = "placement" =>
       IF "nodes" \in DOMAIN placement THEN Processes!NumaBalanced(placement, placement.workers)
       ELSE Processes!AcceleratorsApart(placement.devices, placement.workers, placement.single)
    /\ component = "calls" => Calls!TakesEffectOnce /\ Calls!DeadlineKept

\* What clients read and write over several connections and instances stays one story:
\* the streams of lab 21 continue where they broke off, the pipeline of lab 20 accounts
\* for every copy it accepted and every event it announced, patches of lab 27 chain by etag
\* over all instances, lab 37's reconciler reports what it brought about, and lab 12 echoes
\* what it was sent, ends every thread on close, and answers datagrams in their order and no
\* more often than they were sent.
ClientsSeeOneStory ==
    /\ component = "stream" => Stream!StreamContinuous
    /\ component = "pipeline" => Pipeline!PipelineAccounts
    /\ component \in {"service"} \union Pool => Service!UpdatesChain
    /\ component \in {"cloud", "catalog"} => Cloud!Converges
    /\ component \in {"echo", "datagrams"} => Echo!EchoRight
=============================================================================
