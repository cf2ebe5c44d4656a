---------------------------- MODULE MCSigRaftJobs ----------------------------
(***************************************************************************)
(* Small instances of the two parts of the SigRaft service whose threads   *)
(* must come to an end or catch up: SigRaftJobs and ConfigReload.  A       *)
(* behaviour is of one scenario: one connection that watches two jobs in   *)
(* turn, of which the second only starts, while the listener stays up; two *)
(* connections that compete for the one subscription to a job that does    *)
(* not fail while the listener may stop; or a configuration that is edited *)
(* and reloaded, with at most three edits and failures together.           *)
(***************************************************************************)
EXTENDS SigRaftJobs

CONSTANTS t1, t2, c1, c2,
          Valid, Invalid, Enabled,                 \* of ConfigReload
          MaxEdits, MaxRequests, MaxFailures

VARIABLES
    scenario,
    file, polling, snapshot, result, live, report, token, requested, watcher, refresher,
    ended, edits, requests, failures, torn, owed, raced

jobVars == vars
configVars == <<file, polling, snapshot, result, live, report, token, requested, watcher,
                refresher, ended, edits, requests, failures, torn, owed, raced>>

Config == INSTANCE ConfigReload WITH stop <- ended

MCInit ==
    /\ scenario \in {"alone", "rivals", "config"}
    /\ Init
    /\ Config!Init
    /\ scenario # "config" => file = (CHOOSE r \in Valid : TRUE) /\ polling

MCNext ==
    /\ \/ /\ scenario = "alone"
          /\ ServiceStep(t1) \/ Submit(t2) \/ Transition(t2, "running") \/ ConnectionStep(c1)
       \/ /\ scenario = "rivals"
          /\ \/ Submit(t1) \/ Transition(t1, "running") \/ Transition(t1, "succeeded")
             \/ (\E c \in Connection : ConnectionStep(c)) \/ ListenerStep
          /\ \A c \in Connection : watches'[c] <= 1
          /\ watches'[c2] > 0 => watches'[c1] > 0   \* c1 is the name of the first to watch
       \/ scenario = "config" /\ Config!Next /\ edits' + failures' <= 3
    /\ IF scenario = "config" THEN UNCHANGED jobVars ELSE UNCHANGED configVars
    /\ UNCHANGED scenario

\* The threads of ConfigReload run where there is a configuration to reload.
ConfigFairness ==
    /\ WF_configVars(scenario = "config" /\ Config!WatcherStep /\ UNCHANGED <<jobVars, scenario>>)
    /\ WF_configVars(scenario = "config" /\ Config!RefresherStep /\ UNCHANGED <<jobVars, scenario>>)

MCSpec == MCInit /\ [][MCNext]_<<jobVars, configVars, scenario>> /\ Fairness /\ ConfigFairness

-----------------------------------------------------------------------------

\* As in ConfigReload: subsystems run with the published settings outside of the phases.
PublishedTogether == Config!PublishedTogether

\* As in ConfigReload: the report comes to the settings in force.
ReportCatchesUp == Config!ReportCatchesUp

\* As in ConfigReload: edits and requests are adopted unless they came at a bad moment.
EditsAdoptedUnlessRaced == Config!EditsAdoptedUnlessRaced
=============================================================================
