---------------------------- MODULE ContainerDeploy ----------------------------
(* Lab 32.  First its local runtimes: which one a host and a policy lead to, by choice or on
   request, whether the plan can be launched as it stands, and how it is launched.  Apart
   from these the rolling update of the relay's deployment: the manifests the validator
   lets through, the promotion of an image by patching, and the watch that says when it
   has been rolled out.  The deployment controller and the kubelet are Kubernetes's. *)
EXTENDS Integers, Sequences, SequencesExt

CONSTANTS MaxFaults, MaxPromotions    \* bounds

VARIABLES host, policy, requested,    \* the question
          stage,                      \* how far the answer has been carried out
          unit,                       \* the container or domain of the plan's name
          connected,                  \* the QMP connection
          faults
runtimeVars == <<host, policy, requested, stage, unit, connected, faults>>
VARIABLES manifest,
          image, generation,   \* what the deployment asks for
          pods,                \* pods of each image by state
          status,              \* what the controller has published
          broken,              \* images whose pods never become ready
          watch, watched       \* the watch, and the image it was started for
rolloutVars == <<manifest, image, generation, pods, status, broken, watch, watched>>
vars == <<runtimeVars, rolloutVars>>

Tools == {"qemu", "docker", "docker_binding", "lxc", "kata", "libvirt"}
Hosts == [linux : BOOLEAN, kvm : BOOLEAN, namespaces : BOOLEAN, tools : SUBSET Tools]

Rank == [container |-> 1, utility |-> 2, vm |-> 3]
Descriptor == [
    docker      |-> [isolation |-> "container", linux |-> FALSE, kvm |-> FALSE, namespaces |-> FALSE],
    lxc         |-> [isolation |-> "container", linux |-> TRUE,  kvm |-> FALSE, namespaces |-> TRUE],
    kata        |-> [isolation |-> "utility",   linux |-> TRUE,  kvm |-> TRUE,  namespaces |-> FALSE],
    libvirt_kvm |-> [isolation |-> "vm",        linux |-> TRUE,  kvm |-> TRUE,  namespaces |-> FALSE],
    qemu_kvm    |-> [isolation |-> "vm",        linux |-> TRUE,  kvm |-> TRUE,  namespaces |-> FALSE],
    qemu_tcg    |-> [isolation |-> "vm",        linux |-> FALSE, kvm |-> FALSE, namespaces |-> FALSE]]
Runtimes == DOMAIN Descriptor

\* _validate_runtime; every runtime keeps the workload non-root and its root read-only.
Meets(runtime) ==
    LET d == Descriptor[runtime] IN
    /\ d.linux => host.linux
    /\ Rank[d.isolation] >= Rank[policy.minimum]
    /\ policy.accelerated => d.kvm
    /\ d.kvm => host.kvm
    /\ d.namespaces => host.namespaces

CandidateOrder(minimum) ==
    CASE minimum = "vm" -> <<"libvirt_kvm", "qemu_kvm", "qemu_tcg">>
      [] minimum = "utility" -> <<"kata", "libvirt_kvm", "qemu_kvm", "qemu_tcg">>
      [] minimum = "container" -> <<"docker", "lxc", "kata", "libvirt_kvm", "qemu_kvm", "qemu_tcg">>

\* plan_runtime: the first candidate that meets the policy, or the one asked for.
Selected ==
    LET candidates == IF requested = "auto" THEN CandidateOrder(policy.minimum) ELSE <<requested>>
        fit == SelectSeq(candidates, Meets)
    IN IF fit = <<>> THEN "refused" ELSE fit[1]

\* _build_plan_details: the program that runs a plan, the accelerator it asks for, who the
\* workload is to the host's kernel and whether it can write its root.
QemuPlan(kind) ==
    [needs |-> "qemu", accelerator |-> kind, user |-> "guest", root |-> "read only"]
LibvirtPlan ==
    [needs |-> "libvirt", accelerator |-> "kvm", user |-> "guest", root |-> "read only"]
DockerPlan ==
    [needs |-> "docker", accelerator |-> "none", user |-> "uid", root |-> "read only"]
LxcPlan ==
    [needs |-> "lxc", accelerator |-> "none", user |-> "remapped", root |-> "read only"]
KataPlan ==
    [needs |-> "kata", accelerator |-> "kvm", user |-> "uid", root |-> "read only"]
Details(runtime) ==
    CASE runtime = "qemu_tcg" -> QemuPlan("tcg")
      [] runtime = "qemu_kvm" -> QemuPlan("kvm")
      [] runtime = "libvirt_kvm" -> LibvirtPlan
      [] runtime = "docker" -> DockerPlan
      [] runtime = "lxc" -> LxcPlan
      [] runtime = "kata" -> KataPlan

\* _launch_issues
LaunchReady(runtime) ==
    /\ runtime \in {"qemu_tcg", "qemu_kvm", "libvirt_kvm"} => "qemu" \in host.tools
    /\ runtime = "docker" => host.tools \cap {"docker", "docker_binding"} # {}
    /\ runtime = "lxc" => "lxc" \in host.tools
    /\ runtime = "kata" => {"kata", "docker"} \subseteq host.tools
    /\ runtime = "libvirt_kvm" => "libvirt" \in host.tools

-----------------------------------------------------------------------------
(* start_docker_container, define_libvirt_domain and negotiate_qmp, which a caller may
   repeat.  unit is what the runtime keeps under the plan's name. *)

RuntimeInit ==
    /\ host \in Hosts
    /\ policy \in [minimum : DOMAIN Rank, accelerated : BOOLEAN]
    /\ requested \in Runtimes \cup {"auto"}
    /\ stage = "asked" /\ unit = "none" /\ connected = FALSE /\ faults = 0

Asked == UNCHANGED <<host, policy, requested>>

Plan ==
    /\ stage = "asked" /\ Asked
    /\ stage' = IF Selected = "refused" THEN "refused" ELSE "planned"
    /\ UNCHANGED <<unit, connected, faults>>

\* Docker refuses a name that is taken; libvirt redefines a domain.
Define ==
    /\ stage = "planned" /\ Selected \in {"docker", "libvirt_kvm"} /\ Asked
    /\ IF Selected = "docker" /\ unit # "none" THEN stage' = "failed" /\ UNCHANGED unit
       ELSE stage' = "defined" /\ unit' = IF unit = "none" THEN "defined" ELSE unit
    /\ UNCHANGED <<connected, faults>>

\* Starting what runs is nothing to Docker and an error to libvirt.
Start ==
    /\ stage = "defined" /\ Asked
    /\ IF unit = "running" /\ Selected = "libvirt_kvm" THEN stage' = "failed" /\ UNCHANGED unit
       ELSE stage' = "started" /\ unit' = "running"
    /\ UNCHANGED <<connected, faults>>

Connect ==
    /\ stage = "planned" /\ Selected \in {"qemu_tcg", "qemu_kvm"} /\ Asked
    /\ stage' = "qmp_capabilities" /\ connected' = TRUE /\ UNCHANGED <<unit, faults>>

Command ==
    /\ stage \in {"qmp_capabilities", "query-status"} /\ Asked
    /\ IF stage = "qmp_capabilities" THEN stage' = "query-status" /\ UNCHANGED connected
       ELSE stage' = "negotiated" /\ connected' = FALSE
    /\ UNCHANGED <<unit, faults>>

\* A call fails, before or after it had its effect.  Only what follows the connect is under
\* the try that closes the connection.
Fault ==
    /\ stage \in {"planned", "defined", "qmp_capabilities", "query-status"} /\ faults < MaxFaults
    /\ Asked /\ faults' = faults + 1
    /\ IF stage = "planned" /\ Selected \in {"qemu_tcg", "qemu_kvm"}
       THEN stage' = "unconnected" /\ connected' \in {connected, TRUE}
       ELSE stage' = "failed" /\ connected' = FALSE
    /\ unit' \in {unit} \cup (IF stage = "defined" THEN {"running"}
                              ELSE IF stage = "planned" /\ unit = "none"
                                      /\ Selected \in {"docker", "libvirt_kvm"} THEN {"defined"}
                              ELSE {})

Repeat ==
    /\ stage \in {"failed", "unconnected", "started", "negotiated"} /\ stage' = "planned"
    /\ Asked /\ UNCHANGED <<unit, connected, faults>>

RuntimeNext == Plan \/ Define \/ Start \/ Connect \/ Command \/ Fault \/ Repeat

-----------------------------------------------------------------------------
(* The rolling update. *)

Images == {1, 2}
Sum(f) == f[1] + f[2]

\* _validate_deployment, as far as the update depends on it.
Strategy(m) == m.replicas >= 2 /\ m.maxUnavailable = 0 /\ m.maxSurge = 1
Accepted(m) ==
    /\ Strategy(m)
    /\ {m.readiness, m.liveness} = {"readyz", "livez"} /\ m.startup = "livez"
    /\ m.rollback # m.current    \* _validate_rollout

Manifests == [replicas : 1..2, maxUnavailable : 0..1, maxSurge : 0..1, readiness : {"readyz", "livez"},
              liveness : {"readyz", "livez"}, startup : {"livez"}, current : {1}, rollback : Images]

RolloutInit ==
    /\ manifest \in {m \in Manifests : Accepted(m)}
    /\ image = 1 /\ generation = 1 /\ broken \in SUBSET {2}
    /\ pods = [starting |-> [i \in Images |-> 0],
               ready |-> [i \in Images |-> IF i = 1 THEN manifest.replicas ELSE 0]]
    /\ status = [observed |-> 1, updated |-> manifest.replicas, available |-> manifest.replicas]
    /\ watch = "idle" /\ watched = 1

Of(i) == pods.starting[i] + pods.ready[i]
All == Sum(pods.starting) + Sum(pods.ready)

\* promote_relay, and watch_relay_rollout right after it.
Promote(i) ==
    /\ watch # "watching" /\ generation <= MaxPromotions /\ i # image
    /\ image' = i /\ generation' = generation + 1
    /\ watch' = "watching" /\ watched' = i
    /\ UNCHANGED <<manifest, pods, status, broken>>

\* One event of the watch carries the deployment as it is.
RolledOut(s) == /\ s.observed >= generation
                /\ s.available = manifest.replicas /\ s.updated = manifest.replicas
WatchEvent ==
    /\ watch = "watching" /\ RolledOut(status)
    /\ watch' = "done"
    /\ UNCHANGED <<manifest, image, generation, pods, status, broken, watched>>
WatchTimeout ==
    /\ watch = "watching" /\ watch' = "timed out"
    /\ UNCHANGED <<manifest, image, generation, pods, status, broken, watched>>

-----------------------------------------------------------------------------
(* Kubernetes. *)

Kubernetes == UNCHANGED <<manifest, image, generation, broken, watch, watched>>

Publish ==
    /\ status' = [observed |-> generation, updated |-> Of(image), available |-> Sum(pods.ready)]
    /\ UNCHANGED pods /\ Kubernetes

Surge ==
    /\ status.observed = generation /\ Of(image) < manifest.replicas
    /\ All < manifest.replicas + manifest.maxSurge
    /\ pods' = [pods EXCEPT !.starting[image] = @ + 1]
    /\ UNCHANGED status /\ Kubernetes

BecomeReady(i) ==
    /\ pods.starting[i] > 0 /\ i \notin broken
    /\ pods' = [pods EXCEPT !.starting[i] = @ - 1, !.ready[i] = @ + 1]
    /\ UNCHANGED status /\ Kubernetes

\* Old pods go first when they are not ready, and otherwise as far as enough others serve.
ScaleDown(i) ==
    /\ status.observed = generation /\ i # image
    /\ \/ pods.starting[i] > 0 /\ pods' = [pods EXCEPT !.starting[i] = @ - 1]
       \/ /\ pods.starting[i] = 0 /\ pods.ready[i] > 0
          /\ Sum(pods.ready) - 1 >= manifest.replicas - manifest.maxUnavailable
          /\ pods' = [pods EXCEPT !.ready[i] = @ - 1]
    /\ UNCHANGED status /\ Kubernetes

RolloutNext ==
    \/ \E i \in Images : Promote(i) \/ BecomeReady(i) \/ ScaleDown(i)
    \/ WatchEvent \/ WatchTimeout \/ Publish \/ Surge

-----------------------------------------------------------------------------

\* What is planned can run on the host and isolates as much as was asked; leaving the choice
\* open never refuses what a request would be granted, and software emulation is chosen
\* only where hardware cannot be used; a plan that is ready finds its program.
SelectionSound ==
    stage # "asked" =>
        /\ stage # "refused" =>
             LET d == Details(Selected) IN
             /\ d.accelerator = "kvm" => host.linux /\ host.kvm
             /\ policy.accelerated => d.accelerator = "kvm"
             /\ d.user # "root" /\ d.root = "read only"
             /\ policy.minimum = "vm" => Selected \notin {"docker", "lxc", "kata"}
             /\ policy.minimum = "utility" => Selected \notin {"docker", "lxc"}
             /\ LaunchReady(Selected) => \/ d.needs \in host.tools
                                         \/ Selected = "docker" /\ "docker_binding" \in host.tools
        /\ requested = "auto" =>
             /\ (stage = "refused") <=> \A r \in Runtimes : ~Meets(r)
             /\ Selected = "qemu_tcg" => ~(host.linux /\ host.kvm)

\* A launch that returns has its workload running and its connection closed, and a launch
\* that failed once it was connected leaves no connection either, not even that of a connect
\* that failed before it.  (Such a connect leaves its connection until then, and what is left
\* of a container stops every later launch of that name: Docker never gets past Define again.)
LaunchSettles ==
    /\ stage = "started" => unit = "running"
    /\ stage \in {"failed", "negotiated", "started"} => ~connected

LocalRuntimeSafe == SelectionSound /\ LaunchSettles

\* checkpoint.py:182: every replica keeps serving while images change, broken ones too.
KeepsServing == Sum(pods.ready) >= manifest.replicas

\* What holds of the watch: when it ends well, the controller had seen its promotion and
\* made as many pods of its image as the deployment wants.
DoneIsStarted == watch = "done" /\ watched = image => Of(image) = manifest.replicas

RolloutSafe == KeepsServing /\ DoneIsStarted

\* sdk_adapters.py:198: it returns "whether a watched relay deployment reaches its desired
\* replicas"; a pod of the image before may be one of those counted as available.
DoneIsRolledOut == watch = "done" => pods.ready[watched] = manifest.replicas
=============================================================================
