----------------------------- MODULE MCRelayData -----------------------------
(***************************************************************************)
(* Small instances of the labs that keep, order, ship and deploy relay     *)
(* tasks: the partitioned store of lab 28 over a small ring, the           *)
(* pages of lab 21, the frames of lab 16, the Azure relay of lab 9, the    *)
(* structures of lab 6, and the deployments of labs 32, 36 and 39.  A      *)
(* behaviour is of one of them; the others keep their initial state, so    *)
(* that the state spaces add up.                                           *)
(***************************************************************************)
EXTENDS PartitionedStore, TLC

CONSTANT Component    \* the components of a run

\* A ring of three nodes with two virtual nodes each, and two keys on it.
ThreeNodes == {"a", "b", "c"}
SmallRing == <<"a", "b", "b", "c", "a", "c">>
MCPreference == [k \in {"k1", "k2"} |-> Preferred(SmallRing, IF k = "k1" THEN 0 ELSE 2)]

MCQuorum == {[copies |-> c, read |-> r, write |-> w] : c \in {2, 3}, r \in 1..2, w \in 1..2}
                \union {[copies |-> 3, read |-> 1, write |-> 3]}

\* A ring change moves only the keys of the node that comes or goes, on every ring of
\* up to three nodes and six points.
ASSUME RingMovesLittle ==
    \A length \in 1..6 : \A ring \in [1..length -> ThreeNodes] : MovesOnlyItsOwn(ring)

VARIABLES
    component,
    listed, refused, page, stream,
    outgoing, sent, closed, wire, fed, buffer, received, outcome,
    container, queue, document, announced, messages, at, retries, repeated, late, tardy, reset,
    listing, faults,
    subject, index, search, size, content, graph, after, rooted,
    kind, pipeline, evidence, status, step, target, host, verified, analysed, approved,
    config, environment, todo, destroying, built, ended, runs,
    machine, policy, requested, stage, unit, connected, mishaps,
    manifest, image, generation, pods, reported, broken, watch, watched

storeVars == vars
pageVars == <<listed, refused, page, stream>>
frameVars == <<outgoing, sent, closed, wire, fed, buffer, received, outcome>>
azureVars == <<container, queue, document, announced, messages, at, retries, repeated, late, tardy,
               reset, listing, faults>>
structureVars == <<subject, index, search, size, content, graph, after, rooted>>
releaseVars == <<kind, pipeline, evidence, status, step, target, host, verified, analysed,
                 approved>>
planVars == <<config, environment, todo, destroying, built, ended, runs>>
runtimeVars == <<machine, policy, requested, stage, unit, connected, mishaps>>
rolloutVars == <<manifest, image, generation, pods, reported, broken, watch, watched>>

Pages == INSTANCE TaskPages WITH
    Id <- {"a", "b", "c"}, Action <- {"x", "y"}, First <- {1, 2}, records <- listed

\* Headers of two digits to base 3, payloads up to a size the reader refuses, and rings
\* that just hold one frame.
Frames == INSTANCE FrameReader WITH
    HeaderSize <- 2, Base <- 3, MaxSize <- 3, Capacities <- {5, 6}, MaxFrames <- 3,
    Payload <- {<<>>, <<2, 1>>, <<0, 1, 2>>, <<1, 1, 1, 1>>}

\* Two submitters of tasks of their own, and listings of one document a page.
Azure == INSTANCE AzureRelay WITH
    Submitter <- 1..2, TaskOf <- [s \in 1..2 |-> s], PageSize <- 1, MaxRetries <- 1,
    MaxFaults <- 2, sent <- announced

Structures == INSTANCE TreesAndGraphs WITH
    Priority <- {0, 1}, Task <- 1..3, Value <- {0, 1}, Weight <- {-1, 2}, MaxEdges <- 3

Release == INSTANCE ReleasePipeline WITH Host <- {1, 2}
Plan == INSTANCE CloudPlan WITH MaxRuns <- 3
Deployment == INSTANCE ContainerDeploy WITH
    MaxFaults <- 1, MaxPromotions <- 2, host <- machine, faults <- mishaps, status <- reported

\* What chooses among many initial states has one of them where it does not run.
Chosen ==
    /\ component # "store" => quorum = [copies |-> 2, read |-> 1, write |-> 1]
    /\ component # "structures" => subject = "search"
    /\ component # "release" =>
          kind = "azure" /\ pipeline = Release!Shipped("azure") /\ evidence = Release!Good
    /\ component # "plan" =>
          config = Plan!Sample /\ environment = [secret \in {"PG", "MQ", "MU"} |-> "missing"]
    /\ component # "runtime" =>
          /\ requested = "auto" /\ policy = [minimum |-> "container", accelerated |-> FALSE]
          /\ machine = [linux |-> TRUE, kvm |-> TRUE, namespaces |-> TRUE, tools |-> {}]
    /\ component # "rollout" =>
          /\ broken = {}
          /\ manifest = CHOOSE m \in Deployment!Manifests : Deployment!Accepted(m)

MCInit ==
    /\ component \in Component
    /\ Chosen
    /\ Init
    /\ Pages!Init
    /\ Frames!Init
    /\ component # "frames" => DOMAIN buffer.storage = 1..5
    /\ Azure!Init
    /\ Structures!Init
    /\ Release!Init
    /\ Plan!Init
    /\ Deployment!RuntimeInit
    /\ Deployment!RolloutInit

MCNext ==
    /\ \/ component = "store" /\ Next
       \/ component = "pages" /\ Pages!Next
       \/ component = "frames" /\ Frames!Next
       \/ component = "azure" /\ Azure!Next
       \/ component = "structures" /\ Structures!Next
       \/ component = "release" /\ Release!Next
       \/ component = "plan" /\ Plan!Next
       \/ component = "runtime" /\ Deployment!RuntimeNext
       \/ component = "rollout" /\ Deployment!RolloutNext
    /\ component # "store" => UNCHANGED storeVars
    /\ component # "pages" => UNCHANGED pageVars
    /\ component # "frames" => UNCHANGED frameVars
    /\ component # "azure" => UNCHANGED azureVars
    /\ component # "structures" => UNCHANGED structureVars
    /\ component # "release" => UNCHANGED releaseVars
    /\ component # "plan" => UNCHANGED planVars
    /\ component # "runtime" => UNCHANGED runtimeVars
    /\ component # "rollout" => UNCHANGED rolloutVars
    /\ UNCHANGED component

MCSpec ==
    MCInit /\ [][MCNext]_<<component, storeVars, pageVars,
                           frameVars, azureVars, structureVars, releaseVars, planVars,
                           runtimeVars, rolloutVars>>

-----------------------------------------------------------------------------

\* What arrives in pieces arrives whole and once: the pages and subscriptions of lab 21
\* while tasks are added, the frames of lab 16 however they are cut, and the submissions
\* and listings of lab 9 although its SDK sends again.
ReadsWhole ==
    /\ component = "pages" => Pages!PagesComplete
    /\ component = "frames" => Frames!FramesIntact
    /\ component = "azure" => Azure!SubmissionsKept

\* The trees and graphs of lab 6 answer like maps and like the definitions over all
\* paths.
AnswersRight == component = "structures" => Structures!AnswersRight

\* Deployments keep their order when steps fail: lab 39 promotes what was staged and ends
\* on one digest, lab 36 lets nothing stand without what it stands on, lab 32 starts a
\* runtime as isolated as was asked and keeps every replica serving through a rollout.
DeploymentsSafe ==
    /\ component = "release" => Release!ReleaseSafe
    /\ component = "plan" => Plan!PlanSafe
    /\ component = "runtime" => Deployment!LocalRuntimeSafe
    /\ component = "rollout" => Deployment!RolloutSafe

\* Lab 32's sdk_adapters.py:198: the watch returns "whether a watched relay deployment
\* reaches its desired replicas".
DoneIsRolledOut == component = "rollout" => Deployment!DoneIsRolledOut
=============================================================================
