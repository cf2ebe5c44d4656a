--------------------------- MODULE MCReplicatedLog ---------------------------
(***************************************************************************)
(* Small instances of ReplicatedLog for TLC.  A behaviour is of one        *)
(* scenario: three terms, or two and crashes, with entries that differ in  *)
(* their terms only, or two terms in which the leader of the first may be  *)
(* cut off with claims of the job of its own while the second's commit.    *)
(***************************************************************************)
EXTENDS ReplicatedLog

CONSTANT Scenario    \* the scenarios of a run

VARIABLE scenario

\* A claim by either of two workers, after the job is there.
Claims == {[kind |-> "enqueue", worker |-> 1]}
            \cup {[kind |-> "start", worker |-> w] : w \in {1, 2}}

\* One kind of command: entries differ in their terms.
Enqueues == {[kind |-> "enqueue", worker |-> 1]}

\* Of three nodes, the first or the last one cut off; any node may crash besides.
OneCutOff == {Healed, {{1}, {2, 3}}, {{1, 2}, {3}}}

\* Of five nodes, the last one cut off; then the first two away from the rest.
TwoCuts == {Healed, {1..4, {5}}, {{1, 5}, {2, 3, 4}}}

Elections == INSTANCE ReplicatedLog WITH
    Command <- Enqueues, MaxLog <- MaxLog - 1, MaxDown <- 0
Crashes == INSTANCE ReplicatedLog WITH
    Command <- Enqueues, MaxLog <- MaxLog - 1, MaxTerm <- 2
Claiming == INSTANCE ReplicatedLog WITH
    MaxTerm <- 2, MaxDown <- 0, Cuts <- {Healed, {{1, 2}, {3}}}

MCInit == scenario \in Scenario /\ Init

MCNext ==
    /\ \/ scenario = "elections" /\ Elections!Next
       \/ scenario = "crashes" /\ Crashes!Next
       \/ scenario = "claims" /\ Claiming!Next
    /\ UNCHANGED scenario

MCSpec == MCInit /\ [][MCNext]_<<vars, scenario>>
=============================================================================
