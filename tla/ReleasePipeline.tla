---------------------------- MODULE ReleasePipeline ----------------------------
(* The release of SigRaft (lab 39): which evidence and which pipelines the offline
   validators accept, on Azure and on premises, and what an accepted pipeline does to
   the hosts of staging and production when it is run.  Scripts are tokens for what the
   validators look for in them. *)
EXTENDS Integers, Sequences, SequencesExt, FiniteSets

CONSTANTS Host

VARIABLES kind, pipeline,     \* the accepted pipeline of this behaviour
          evidence,
          status, step,       \* each stage's status and next step
          target, host,       \* the digest each environment is to run; what its hosts run
          verified, analysed, approved    \* of staging, and by a person
vars == <<kind, pipeline, evidence, status, step, target, host, verified, analysed, approved>>

-----------------------------------------------------------------------------
(* ReleaseEvidence.validate_for_deploy *)

Digests == {"new", "old"}
DigestsFit(e) ==
    /\ {e.digest, e.previous, e.staging, e.production} \subseteq Digests
    /\ e.digest # e.previous
    /\ e.staging = e.digest /\ e.production = e.digest

ValidForDeploy(e, commit) ==
    /\ e.commit = commit
    /\ e.gates = {TRUE}
    /\ e.repository /\ e.components
    /\ DigestsFit(e)

Good == [commit |-> "head", gates |-> {TRUE}, repository |-> TRUE, components |-> TRUE,
         digest |-> "new", previous |-> "old", staging |-> "new", production |-> "new"]
Evidences ==
    {Good} \cup {[Good EXCEPT !.commit = "stale"], [Good EXCEPT !.gates = {}],
                 [Good EXCEPT !.gates = {TRUE, FALSE}], [Good EXCEPT !.components = FALSE],
                 [Good EXCEPT !.digest = "malformed"], [Good EXCEPT !.previous = "new"],
                 [Good EXCEPT !.staging = "old"], [Good EXCEPT !.production = "old"]}

-----------------------------------------------------------------------------
(* The pipelines of artifacts/, and those one edit away from them. *)

Stages(k) ==
    IF k = "azure"
    THEN <<"Quality", "Infrastructure", "Build", "DeployStaging", "DeployProduction", "Rollback">>
    ELSE <<"Quality", "Build", "DeployStaging", "AnalyseStaging", "ProductionApproval",
           "DeployProduction", "Rollback">>

Shipped(k) ==
    [order |-> Stages(k), onFailure |-> TRUE,
     deps |-> [s \in ToSet(Stages(k)) |->
        IF s = "Quality" THEN {}
        ELSE {Stages(k)[CHOOSE i \in 1..6 : Stages(k)[i + 1] = s]}
             \cup (IF k = "azure" /\ s \in {"DeployProduction", "Rollback"} THEN {"Build"} ELSE {})],
     steps |-> [s \in ToSet(Stages(k)) |->
        CASE s = "Quality" -> <<"docs", "archive", "evidence">>
          [] s = "Infrastructure" -> <<"preview", "converge">>
          [] s = "Build" -> IF k = "azure" THEN <<"build", "emit">> ELSE <<"build", "copy", "emit">>
          [] s = "DeployStaging" -> IF k = "azure" THEN <<"set", "verify", "probe", "analyse">>
                                    ELSE <<"set", "verify">>
          [] s = "AnalyseStaging" -> <<"probe", "analyse">>
          [] s = "ProductionApproval" -> <<"approve">>
          [] s = "DeployProduction" -> <<"set", "verify">>
          [] s = "Rollback" -> <<"restore">>]]

Edits(p) ==
    {p, [p EXCEPT !.onFailure = FALSE], [p EXCEPT !.order = Reverse(@)]}
    \cup {[p EXCEPT !.deps[s] = {}] : s \in DOMAIN p.deps}
    \cup {[p EXCEPT !.deps[s] = @ \ {d}] : s \in DOMAIN p.deps, d \in DOMAIN p.deps}
    \cup {[p EXCEPT !.steps[s] = Reverse(@)] : s \in DOMAIN p.steps}
    \cup {[p EXCEPT !.steps[s] = Tail(@)] : s \in DOMAIN p.steps}
    \cup {[p EXCEPT !.steps[s] = Front(@)] : s \in DOMAIN p.steps}

Has(p, s, scripts) == scripts \subseteq ToSet(p.steps[s])
Count(p, s, script) == Cardinality({i \in DOMAIN p.steps[s] : p.steps[s][i] = script})

\* validate_pipeline_definition: what must be there, and what must come before what.
BugNoStagingFirst(p) ==
    /\ p.deps["Infrastructure"] = {"Quality"}
    /\ "Infrastructure" \in p.deps["Build"] /\ "Build" \in p.deps["DeployStaging"]
    /\ "Build" \in p.deps["DeployProduction"]
    /\ {"DeployProduction", "Build"} \subseteq p.deps["Rollback"]
AzureOrder(p) ==
    /\ p.deps["Infrastructure"] = {"Quality"}
    /\ "Infrastructure" \in p.deps["Build"] /\ "Build" \in p.deps["DeployStaging"]
    /\ {"DeployStaging", "Build"} \subseteq p.deps["DeployProduction"]
    /\ {"DeployProduction", "Build"} \subseteq p.deps["Rollback"]

AcceptedAzure(p) ==
    /\ AzureOrder(p) /\ p.onFailure
    /\ Has(p, "Quality", {"docs", "archive", "evidence"})
    /\ Has(p, "Infrastructure", {"preview", "converge"})
    /\ Count(p, "Build", "build") = 1 /\ Has(p, "Build", {"emit"})
    /\ \A s \in {"DeployStaging", "DeployProduction"} : Has(p, s, {"set", "verify"})
    /\ Has(p, "DeployStaging", {"probe", "analyse"})
    /\ Has(p, "Rollback", {"restore"})

\* validate_onprem_pipeline: stages in their order, each after the one before.
Before(p, s, a, b) == /\ Has(p, s, {a, b})
                      /\ SelectInSeq(p.steps[s], LAMBDA x : x = a)
                           < SelectInSeq(p.steps[s], LAMBDA x : x = b)
AcceptedOnPrem(p) ==
    /\ p.order = Stages("onprem")
    /\ p.deps = Shipped("onprem").deps /\ p.onFailure
    /\ Before(p, "Quality", "docs", "archive")
    /\ Count(p, "Build", "build") = 1 /\ Has(p, "Build", {"copy", "emit"})
    /\ \A s \in {"DeployStaging", "DeployProduction"} : Has(p, s, {"set", "verify"})
    /\ Has(p, "AnalyseStaging", {"probe", "analyse"})
    /\ p.steps["ProductionApproval"] = <<"approve">>    \* manual, without commands
    /\ Has(p, "Rollback", {"restore"})

Accepted(k) == {p \in Edits(Shipped(k)) :
                   IF k = "azure" THEN AcceptedAzure(p) ELSE AcceptedOnPrem(p)}

-----------------------------------------------------------------------------
(* Running one. *)

Env == {"staging", "production"}
Init ==
    /\ kind \in {"azure", "onprem"} /\ pipeline \in Accepted(kind) /\ evidence \in Evidences
    /\ status = [s \in ToSet(Stages(kind)) |-> "waiting"]
    /\ step = [s \in ToSet(Stages(kind)) |-> 1]
    /\ target = [e \in Env |-> "old"]
    /\ host = [e \in Env |-> [h \in Host |-> [digest |-> "old", ready |-> TRUE]]]
    /\ verified = FALSE /\ analysed = FALSE /\ approved = FALSE

Runs(s) == IF s = "Rollback" THEN status["DeployProduction"] = "failed"
           ELSE \A d \in pipeline.deps[s] : status[d] = "succeeded"

Start(s) ==
    /\ status[s] = "waiting" /\ Runs(s)
    /\ status' = [status EXCEPT ![s] = "running"]
    /\ UNCHANGED <<kind, pipeline, evidence, step, target, host, verified, analysed, approved>>

EnvOf(s) == IF s = "DeployStaging" THEN "staging" ELSE "production"

\* The digests the variables of the pipeline stand for: on Azure those of the evidence, which
\* "emit" validates once more; on premises what the registry says of the image and what ran
\* before it, filled in by whoever carries the plan out.
Digest == IF kind = "azure" THEN evidence.digest ELSE "new"
Previous == IF kind = "azure" THEN evidence.previous ELSE "old"

\* FabricExecutorTask.verify: every host is ready and runs the expected digest.
AllPass(e) == \A h \in Host : host[e][h].ready /\ host[e][h].digest = Digest

\* Of the steps the pipeline does not decide itself, any may fail; on premises "emit" asks the
\* registry.
Outcome(s, script) ==
    CASE script = "evidence" \/ (script = "emit" /\ kind = "azure") ->
            {ValidForDeploy(evidence, "head")}
      [] script = "verify" -> {AllPass(EnvOf(s))}
      [] OTHER -> BOOLEAN

\* Setting an image may have its effect and fail nevertheless.
Told(script, ok) ==
    CASE script = "set" -> {Digest} \cup (IF ok THEN {} ELSE {"as before"})
      [] script = "restore" -> {Previous} \cup (IF ok THEN {} ELSE {"as before"})
      [] OTHER -> {"as before"}

Step(s) ==
    /\ status[s] = "running"
    /\ LET script == pipeline.steps[s][step[s]] IN
       \E ok \in Outcome(s, script) :
         /\ step' = [step EXCEPT ![s] = @ + 1]
         /\ status' = [status EXCEPT ![s] = IF ~ok THEN "failed"
                          ELSE IF step[s] = Len(pipeline.steps[s]) THEN "succeeded" ELSE @]
         /\ \E digest \in Told(script, ok) :
              target' = IF digest = "as before" THEN target
                        ELSE [target EXCEPT ![EnvOf(s)] = digest]
         /\ verified' = (verified \/ (ok /\ s = "DeployStaging" /\ script = "verify"))
         /\ analysed' = (analysed \/ (ok /\ script = "analyse"))
         /\ approved' = (approved \/ (ok /\ script = "approve"))
    /\ UNCHANGED <<kind, pipeline, evidence, host>>

\* The rolling update of a deployment; a new build may never become ready.
Roll(e, h) ==
    /\ host[e][h].digest # target[e]
    /\ \E ready \in (IF target[e] = "old" THEN {TRUE} ELSE BOOLEAN) :
         host' = [host EXCEPT ![e][h] = [digest |-> target[e], ready |-> ready]]
    /\ UNCHANGED <<kind, pipeline, evidence, status, step, target, verified, analysed, approved>>

Next ==
    \/ \E s \in DOMAIN status : Start(s) \/ Step(s)
    \/ \E e \in Env, h \in Host : Roll(e, h)

-----------------------------------------------------------------------------

\* A build that production is to run was verified on every staging host and analysed there,
\* and on premises somebody approved it; it has valid evidence on Azure, and on premises if
\* the pipeline looks at it, which its validator does not ask for.
PromotedWasStaged ==
    target["production"] # "old" =>
        /\ kind = "azure" \/ Has(pipeline, "Quality", {"evidence"}) => evidence = Good
        /\ verified /\ analysed /\ (kind = "onprem" => approved)

\* When nothing is left to run, production runs the promoted digest on all hosts, ready, if
\* its deployment succeeded, and otherwise the previous one, unless the rollback failed too.
AtRest == /\ \A s \in DOMAIN status : status[s] # "running" /\ ~(status[s] = "waiting" /\ Runs(s))
          /\ \A e \in Env, h \in Host : host[e][h].digest = target[e]
EndsOnOneDigest ==
    AtRest => \A h \in Host : LET now == host["production"][h] IN
        IF status["DeployProduction"] = "succeeded" THEN now.digest = "new" /\ now.ready
        ELSE status["Rollback"] = "failed" \/ now.digest = "old"

ReleaseSafe == PromotedWasStaged /\ EndsOnOneDigest
=============================================================================
