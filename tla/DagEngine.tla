------------------------------ MODULE DagEngine ------------------------------
(***************************************************************************)
(* DagEngine.run of labs/30-dag-engine: the loop that starts ready tasks   *)
(* in the order of their ids while a slot is free, moves its clock to the  *)
(* next completion and skips what a failure has cut off.  Any plan of      *)
(* outcomes is possible, also one that ends too early.  Tasks are numbers, *)
(* in the order of their ids.                                              *)
(***************************************************************************)
EXTENDS Integers, FiniteSets, FiniteSetsExt, Functions

CONSTANTS
    Task,
    Workflow,       \* the graphs to run: depends_on and max_attempts of every task
    MaxParallel,    \* the values of max_parallel
    Duration        \* the durations a plan may name

Disposition == {"success", "retry", "failure"}

VARIABLES
    flow,       \* the graph of this run
    slots,      \* its max_parallel
    now, ready, running,
    state, attempts,
    records,    \* the attempts that have ended
    phase

vars == <<flow, slots, now, ready, running, state, attempts, records, phase>>

\* The tasks that depend on one of a set, directly or not.
Descendants(deps, S) ==
    LET children(T) == {t \in Task : deps[t] \cap T # {}}
        below[n \in 0..Cardinality(Task)] ==
            IF n = 0 THEN children(S) ELSE below[n - 1] \union children(below[n - 1])
    IN below[Cardinality(Task)]

\* validate: graphlib finds a cycle.
Acyclic(deps) == \A t \in Task : t \notin Descendants(deps, {t})

Init ==
    /\ flow \in {w \in Workflow : Acyclic(w.deps)}
    /\ slots \in MaxParallel
    /\ now = 0
    /\ ready = {t \in Task : flow.deps[t] = {}}
    /\ running = {}
    /\ state = [t \in Task |-> "pending"]
    /\ attempts = [t \in Task |-> 0]
    /\ records = {}
    /\ phase = "running"

HasSlot == Cardinality(running) < slots

\* The first ready task gets a slot; its plan may have no further outcome.
Start ==
    /\ phase = "running" /\ ready # {} /\ HasSlot
    /\ LET t == Min(ready)
       IN \/ /\ \E d \in Disposition, length \in Duration :
                   running' = running \union
                       {[task |-> t, attempt |-> attempts[t] + 1, disposition |-> d,
                         started |-> now, finished |-> now + length]}
             /\ ready' = ready \ {t}
             /\ attempts' = [attempts EXCEPT ![t] = @ + 1]
             /\ state' = [state EXCEPT ![t] = "running"]
             /\ UNCHANGED phase
          \/ /\ phase' = "plan exhausted"
             /\ UNCHANGED <<ready, running, attempts, state>>
    /\ UNCHANGED <<flow, slots, now, records>>

BugLastCompletion == Max({r.finished : r \in running})

NextCompletion == Min({r.finished : r \in running})

Retries(r) == r.disposition = "retry" /\ r.attempt < flow.tries[r.task]

\* What becomes of the task of an attempt that has ended.
Verdict(r) ==
    IF r.disposition = "success" THEN "succeeded" ELSE IF Retries(r) THEN "pending" ELSE "failed"

\* The tasks that the sorter hands out once these have succeeded.
Unblocked(done, before) ==
    {t \in Task : flow.deps[t] \subseteq done /\ ~(flow.deps[t] \subseteq before)}

Succeeded == {t \in Task : state[t] = "succeeded"}

\* The clock moves on when nothing more can start.
Complete ==
    /\ phase = "running" /\ running # {} /\ ~(ready # {} /\ HasSlot)
    /\ LET due == {r \in running : r.finished <= NextCompletion}
           ended == [t \in {r.task : r \in due} |-> Verdict(CHOOSE r \in due : r.task = t)]
           done == Succeeded \union {t \in DOMAIN ended : ended[t] = "succeeded"}
       IN /\ now' = NextCompletion
          /\ running' = running \ due
          /\ records' = records \union due
          /\ state' = [t \in Task |-> IF t \in DOMAIN ended THEN ended[t] ELSE state[t]]
          /\ ready' = ready \union {t \in DOMAIN ended : ended[t] = "pending"}
                            \union Unblocked(done, Succeeded)
    /\ UNCHANGED <<flow, slots, attempts, phase>>

BugChildrenOnly(failed) == {t \in Task : flow.deps[t] \cap failed # {}}

CutOff(failed) == Descendants(flow.deps, failed)

Finish ==
    /\ phase = "running" /\ running = {} /\ ready = {}
    /\ state' = [t \in Task |->
          IF state[t] = "pending" /\ t \in CutOff({u \in Task : state[u] = "failed"})
          THEN "skipped" ELSE state[t]]
    /\ phase' = "finished"
    /\ UNCHANGED <<flow, slots, now, ready, running, attempts, records>>

Next == Start \/ Complete \/ Finish

Spec == Init /\ [][Next]_vars

-----------------------------------------------------------------------------

\* A finished run has decided every task: exactly the descendants of a failure are
\* skipped, and every attempt began after all the tasks it depends on had succeeded.
VerdictsRight ==
    /\ phase = "finished" => \A t \in Task :
          /\ state[t] \in {"succeeded", "failed", "skipped"}
          /\ state[t] = "skipped" <=> \E f \in Task : /\ state[f] = "failed"
                                                      /\ t \in Descendants(flow.deps, {f})
    /\ \A r \in records \union running : \A d \in flow.deps[r.task] :
          \E s \in records : s.task = d /\ s.disposition = "success" /\ s.finished <= r.started

TimeOf(S) == SumFunction([r \in S |-> r.finished - r.started])
Busy(t) == TimeOf({r \in records : r.task = t})

\* The longest time a chain of dependent tasks took, up to each task.
Chain[t \in Task] ==
    Busy(t) + Max({0} \union {Chain[d] : d \in flow.deps[t]})

\* No slot idles while a task could use it: a finished run has taken no longer than
\* the bound of greedy list scheduling, whatever the order of the ids, the retries
\* and the failures.
GreedyBound ==
    phase = "finished" =>
        slots * now <= TimeOf(records) + (slots - 1) * Max({0} \union {Chain[t] : t \in Task})
=============================================================================
