------------------------------- MODULE CloudPlan -------------------------------
(* The on-premises cloud of lab 36: which configurations and environments are let
   through, and what apply and destroy leave behind when a command fails.  A network is
   an interval of addresses; what a command does to the cloud is external. *)
EXTENDS Integers, Sequences, SequencesExt, FiniteSets

CONSTANTS MaxRuns    \* bound

VARIABLES config, environment,
          todo, destroying,    \* the commands of this run, and whether it destroys
          built,               \* what exists in the cloud
          ended, runs          \* how the last run ended
vars == <<config, environment, todo, destroying, built, ended, runs>>

-----------------------------------------------------------------------------
(* load_config *)

Sample ==
    [complete |-> FALSE, allow |-> TRUE, host |-> 9, reserve |-> 2,
     machines |-> <<[role |-> "control", vcpus |-> 2, address |-> 1, dns |-> 1],
                    [role |-> "storage", vcpus |-> 2, address |-> 2, dns |-> 1],
                    [role |-> "worker", vcpus |-> 3, address |-> 3, dns |-> 1]>>,
     networks |-> [management |-> <<1, 4>>, provider |-> <<5, 6>>,
                   storage |-> <<7, 8>>, tenant |-> <<9, 9>>],
     secrets |-> [postgresql |-> "PG", rabbitmq |-> "MQ", minio_user |-> "MU"]]

\* Configurations one edit away from the sample.
Edited ==
    {Sample} \cup {[Sample EXCEPT !.complete = TRUE], [Sample EXCEPT !.allow = FALSE]}
    \cup {[Sample EXCEPT !.host = n] : n \in {6, 8}}
    \cup {[Sample EXCEPT !.machines[m].address = a] : m \in 1..3, a \in {1, 3, 4, 5}}
    \cup {[Sample EXCEPT !.machines[m].dns = 7] : m \in 1..3}
    \cup {[Sample EXCEPT !.machines[m].role = r] : m \in 1..3, r \in {"worker", "control"}}
    \cup {[Sample EXCEPT !.networks[n] = <<f, 9>>] : n \in DOMAIN Sample.networks, f \in {2, 9}}
    \cup {[Sample EXCEPT !.secrets.rabbitmq = "PG"]}

In(address, network) == network[1] <= address /\ address <= network[2]
Overlap(n1, n2) == n1[1] <= n2[2] /\ n2[1] <= n1[2]

\* calculate_requirements; memory and disk are summed in the same way.
Needed(c) == FoldSeq(LAMBDA m, sum : m.vcpus + sum, 0, c.machines)

Fits(c) == Needed(c) + c.reserve <= c.host

Valid(c) ==
    /\ {c.machines[i].role : i \in DOMAIN c.machines} = {"control", "storage", "worker"}
    /\ c.complete => Len(c.machines) >= 5
    /\ \A n1, n2 \in DOMAIN c.networks : n1 # n2 => ~Overlap(c.networks[n1], c.networks[n2])
    /\ \A i \in DOMAIN c.machines : /\ In(c.machines[i].address, c.networks.management)
                                    /\ In(c.machines[i].dns, c.networks.management)
    /\ \A i, j \in DOMAIN c.machines : i # j => c.machines[i].address # c.machines[j].address
    /\ \A k1, k2 \in DOMAIN c.secrets : k1 # k2 => c.secrets[k1] # c.secrets[k2]
    /\ Fits(c)

\* validate_environment: users are not passwords, they may be short and alike.
Passwords == {"postgresql", "rabbitmq"}
EnvironmentValid(c, env) ==
    /\ \A k \in DOMAIN c.secrets : env[c.secrets[k]] # "missing"
    /\ \A k \in Passwords : env[c.secrets[k]] # "short"
    /\ \A k1, k2 \in Passwords : k1 # k2 => env[c.secrets[k1]] # env[c.secrets[k2]]

-----------------------------------------------------------------------------
(* make_plan, destroy and what their commands do. *)

Plan == <<"collections", "prerequisites", "vms", "openstack", "stack", "kubernetes",
          "platform", "validate">>
Teardown == <<"remove platform", "delete stack", "remove vms">>

Commanded == {"vms", "openstack", "stack", "kubernetes", "platform"}
Parts == Commanded \cup {"resources"}    \* of the stack
Needs == [p \in Parts |-> CASE p = "vms" -> {}
                            [] p \in {"openstack", "kubernetes"} -> {"vms"}
                            [] p = "stack" -> {"openstack"}
                            [] p = "resources" -> {"stack"}
                            [] p = "platform" -> {"kubernetes"}]

\* The playbooks converge; the stack must not exist when it is created, and must when it is
\* deleted.  Its creation returns before its resources are there; its deletion waits.
Feasible(command) ==
    CASE command \in Commanded -> Needs[command] \subseteq built /\ (command = "stack" => "stack" \notin built)
      [] command = "remove platform" -> "kubernetes" \in built
      [] command = "delete stack" -> "stack" \in built
      [] OTHER -> TRUE
Result(command) ==
    CASE command \in Commanded -> built \cup {command}
      [] command = "remove platform" -> built \ {"platform"}
      [] command = "delete stack" -> built \ {"stack", "resources"}
      [] command = "remove vms" -> built \ {"vms", "openstack", "kubernetes"}
      [] OTHER -> built

Init ==
    /\ config \in {c \in Edited : Valid(c)}
    /\ environment \in [{"PG", "MQ", "MU"} -> {"missing", "short", "s1", "s2"}]
    /\ todo = <<>> /\ destroying = FALSE /\ built = {} /\ ended = "none" /\ runs = 0

\* _execute up to its loop; artifacts and environment are checked before applying alone.
Begin(confirmation, destroy) ==
    /\ todo = <<>> /\ runs < MaxRuns /\ runs' = runs + 1
    /\ IF /\ config.allow
          /\ confirmation = IF destroy THEN "DESTROY" ELSE "APPLY"
          /\ ~destroy => EnvironmentValid(config, environment)
       THEN todo' = (IF destroy THEN Teardown ELSE Plan) /\ ended' = "none"
       ELSE todo' = <<>> /\ ended' = "refused"
    /\ destroying' = destroy
    /\ UNCHANGED <<config, environment, built>>

AfterFailure(rest) == <<>>
Run ==
    /\ todo # <<>>
    /\ \/ /\ Feasible(Head(todo))
          /\ built' = Result(Head(todo)) /\ todo' = Tail(todo)
          /\ ended' = IF todo' = <<>> THEN "complete" ELSE ended
       \/ \* A command fails, with its effect or without.
          /\ built' \in {built} \cup IF Feasible(Head(todo)) THEN {Result(Head(todo))} ELSE {}
          /\ todo' = AfterFailure(Tail(todo)) /\ ended' = "failed"
    /\ UNCHANGED <<config, environment, destroying, runs>>

\* Heat comes to the resources of the stack at any time, or fails to.
CreateResources ==
    /\ "stack" \in built /\ "resources" \notin built
    /\ built' = built \cup {"resources"}
    /\ UNCHANGED <<config, environment, todo, destroying, ended, runs>>

Next ==
    \/ \E confirmation \in {"", "APPLY", "DESTROY"}, destroy \in BOOLEAN : Begin(confirmation, destroy)
    \/ Run
    \/ CreateResources

-----------------------------------------------------------------------------

\* What was let through can stand: machines leave the host its reserve and each address
\* lies in the management network alone and is one machine's; services whose passwords are
\* set have different ones.
BuiltIsSound ==
    built # {} =>
        /\ config.allow
        /\ Needed(config) <= config.host - config.reserve
        /\ \A i \in DOMAIN config.machines : LET a == config.machines[i].address IN
             /\ {n \in DOMAIN config.networks : In(a, config.networks[n])} = {"management"}
             /\ Cardinality({j \in DOMAIN config.machines : config.machines[j].address = a}) = 1
        /\ environment[config.secrets.postgresql] # environment[config.secrets.rabbitmq]

\* infrastructure.py:594: teardown is in dependency order, whatever failed before: nothing
\* stands without what it stands on, and a destruction that ends well leaves nothing, not
\* even resources that were still being created when it began.  An application that ends
\* well has all that was commanded, the resources of the stack perhaps not yet or never.
DependencyOrder ==
    /\ \A p \in built : Needs[p] \subseteq built
    /\ ended = "complete" => IF destroying THEN built = {} ELSE Commanded \subseteq built

PlanSafe == BuiltIsSound /\ DependencyOrder
=============================================================================
