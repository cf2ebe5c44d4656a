---------------------------- MODULE ConfigReload ----------------------------
(***************************************************************************)
(* Configuration reload of the SigRaft service.  The watcher thread probes *)
(* and reads a file that others edit, and takes a valid candidate through  *)
(* the two phases of ConfigManager; the refresh thread of the analysis     *)
(* report reads and publishes between the phases; a signal handler asks    *)
(* for a reload at any moment.                                             *)
(*                                                                         *)
(* A revision stands for the settings it parses to and for its own digest. *)
(* Waits may always end by their timeout, so the wake events, which only   *)
(* end them sooner, are left out.                                          *)
(***************************************************************************)
EXTENDS Naturals, Sequences

CONSTANTS
    Valid,          \* the revisions parse_config accepts
    Invalid,        \* those it refuses
    Enabled,        \* the valid revisions whose analysis is enabled
    MaxEdits,       \* bound on the edits of the file
    MaxRequests,    \* bound on the requests for a reload
    MaxFailures     \* bound on the calls that raise: builds, prepares, commits, rollbacks

Missing == "missing"        \* the file cannot be read; as a token: None
NoReport == "no report"

\* The subsystems in the order of their registration.  The last one stands for a
\* subsystem of the embedder's, whose prepare, commit and rollback may each raise.
Subsystem == <<"request-limits", "telemetry-sampler", "operational-analysis", "embedded">>
Analysis == 3
Embedded == 4

VARIABLES
    file,           \* the revision on disk
    polling,        \* poll_changes
    snapshot,       \* the published revision and its generation
    result,         \* last_result of the reload status
    live,           \* the revision whose settings each subsystem runs with
    report,         \* the revision the analysis report was built from
    token,          \* the watcher's _token
    requested,      \* the watcher's _requested event
    watcher, refresher,     \* what the two threads are doing
    stop,           \* how far shutdown has come
    edits, requests, failures,
    torn,           \* auxiliary: a rollback of the embedder's subsystem raised, and
                    \* no reload has been applied since
    owed,           \* auxiliary: a request after which the file was not read yet
    raced           \* auxiliary: an edit or a request came at a bad moment

envVars == <<edits, requests, failures>>
vars == <<file, polling, snapshot, result, live, report, token, requested,
          watcher, refresher, stop, envVars, torn, owed, raced>>

Waiting == [at |-> "waiting"]
Ended == [at |-> "ended"]

\* What build_analysis_report makes of the settings.
ReportOf(r) == IF r \in Enabled THEN r ELSE NoReport

\* create_service reads the file once; the watcher is built later.
Init ==
    /\ file \in Valid
    /\ polling \in BOOLEAN
    /\ snapshot = [revision |-> file, generation |-> 1]
    /\ result = "initial"
    /\ live = [s \in DOMAIN Subsystem |-> file]
    /\ report = ReportOf(file)
    /\ token = Missing
    /\ requested = FALSE
    /\ watcher = [at |-> "starting"]
    /\ refresher = Waiting
    /\ stop = "none"
    /\ edits = 0 /\ requests = 0 /\ failures = 0
    /\ torn = FALSE /\ owed = FALSE /\ raced = FALSE

-----------------------------------------------------------------------------
(* The file, the signal handler and shutdown *)

Edit(r) ==
    /\ edits < MaxEdits
    /\ r # file
    /\ file' = r
    /\ edits' = edits + 1
    /\ raced' = (raced \/ watcher.at \in {"starting", "reading"})
    /\ UNCHANGED <<polling, snapshot, result, live, report, torn, token, requested,
                   watcher, refresher, stop, requests, failures, owed>>

RequestReload ==
    /\ requests < MaxRequests
    /\ watcher.at # "starting"
    /\ requested' = TRUE
    /\ requests' = requests + 1
    /\ owed' = TRUE
    /\ raced' = (raced \/ (watcher.at = "clearing" /\ ~watcher.force))
    /\ UNCHANGED <<file, polling, snapshot, result, live, report, torn, token,
                   watcher, refresher, stop, edits, failures>>

\* The watcher is stopped and joined before the refresh thread.
Shutdown ==
    /\ \/ stop = "none" /\ watcher.at # "starting" /\ stop' = "watcher"
       \/ stop = "watcher" /\ watcher = Ended /\ stop' = "both"
    /\ UNCHANGED <<file, polling, snapshot, result, live, report, torn, token, requested,
                   watcher, refresher, envVars, owed, raced>>

-----------------------------------------------------------------------------
(* The watcher thread: _run and poll_once *)

Construct ==
    /\ watcher.at = "starting"
    /\ token' = file
    /\ watcher' = Waiting
    /\ UNCHANGED <<file, polling, snapshot, result, live, report, torn, requested,
                   refresher, stop, envVars, owed, raced>>

\* After a wait: is_set() of _requested ...
Look ==
    /\ watcher = Waiting
    /\ watcher' = IF stop # "none" THEN Ended ELSE [at |-> "clearing", force |-> requested]
    /\ UNCHANGED <<file, polling, snapshot, result, live, report, torn, token, requested,
                   refresher, stop, envVars, owed, raced>>

\* ... and then clear().
Clear ==
    /\ watcher.at = "clearing"
    /\ requested' = FALSE
    /\ watcher' = IF watcher.force \/ polling THEN [at |-> "probing", force |-> watcher.force]
                                              ELSE Waiting
    /\ UNCHANGED <<file, polling, snapshot, result, live, report, torn, token,
                   refresher, stop, envVars, owed, raced>>

\* A file that cannot be probed is read all the same, and its token is not kept.
Probe ==
    /\ watcher.at = "probing"
    /\ watcher' = IF file # Missing /\ ~watcher.force /\ file = token
                  THEN Waiting ELSE [at |-> "reading", probed |-> file]
    /\ UNCHANGED <<file, polling, snapshot, result, live, report, torn, token, requested,
                   refresher, stop, envVars, owed, raced>>

BugKeepsTokenOfRefused(probed, applied) == IF probed # Missing THEN probed ELSE token

TokenAfter(probed, applied) == IF applied /\ probed # Missing THEN probed ELSE token

Parses(r) == r \in Valid

\* reload_file up to the comparison of the revisions.
Read ==
    /\ watcher.at = "reading"
    /\ owed' = FALSE
    /\ \/ /\ ~Parses(file)
          /\ result' = "failed"
          /\ token' = TokenAfter(watcher.probed, FALSE)
          /\ watcher' = Waiting
       \/ /\ file = snapshot.revision
          /\ result' = "unchanged"
          /\ token' = TokenAfter(watcher.probed, TRUE)
          /\ watcher' = Waiting
       \/ /\ Parses(file) /\ file # snapshot.revision
          /\ watcher' = [at |-> "preparing", probed |-> watcher.probed,
                         candidate |-> file, changes |-> <<>>]
          /\ UNCHANGED <<result, token>>
    /\ UNCHANGED <<file, polling, snapshot, live, report, torn, requested,
                   refresher, stop, envVars, raced>>

-----------------------------------------------------------------------------
(* The two phases of reload_bytes *)

Fails == failures < MaxFailures /\ failures' = failures + 1

\* A change remembers what its subsystem would go back to.  Building the analysis
\* report may fail, and so may the prepare of the embedder's subsystem.
Prepare ==
    LET w == watcher  s == Len(w.changes) + 1
    IN /\ w.at = "preparing" /\ s \in DOMAIN Subsystem
       /\ \/ /\ watcher' = [w EXCEPT !.changes = Append(@, [old |-> live[s], report |-> report])]
             /\ UNCHANGED failures
          \/ /\ s \in {Analysis, Embedded} /\ Fails
             /\ watcher' = [w EXCEPT !.at = "undoing"]
       /\ UNCHANGED <<file, polling, snapshot, result, live, report, torn, token, requested,
                      refresher, stop, edits, requests, owed, raced>>

\* _set, _set_ratio, _publish: the analysis publishes its report with its settings.
Publish(s, r, built) ==
    /\ live' = [live EXCEPT ![s] = r]
    /\ report' = IF s = Analysis THEN built ELSE report

PrepareDone ==
    /\ watcher.at = "preparing" /\ Len(watcher.changes) = Len(Subsystem)
    /\ watcher' = [at |-> "committing", probed |-> watcher.probed,
                   candidate |-> watcher.candidate, changes |-> watcher.changes, done |-> 0]
    /\ UNCHANGED <<file, polling, snapshot, result, live, report, torn, token, requested,
                   refresher, stop, envVars, owed, raced>>

\* The commit of the embedder's subsystem may raise before or after its effect.
Commit ==
    LET w == watcher  s == w.done + 1
    IN /\ w.at = "committing" /\ s \in DOMAIN Subsystem
       /\ \/ /\ Publish(s, w.candidate, ReportOf(w.candidate))
             /\ watcher' = [w EXCEPT !.done = s]
             /\ UNCHANGED failures
          \/ /\ s = Embedded /\ Fails
             /\ watcher' = [at |-> "undoing", probed |-> w.probed, changes |-> w.changes]
             /\ live' \in {live, [live EXCEPT ![s] = w.candidate]}
             /\ UNCHANGED report
       /\ UNCHANGED <<file, polling, snapshot, result, torn, token, requested,
                      refresher, stop, edits, requests, owed, raced>>

\* All committed: the snapshot of the next generation.
PublishSnapshot ==
    LET w == watcher
    IN /\ w.at = "committing" /\ w.done = Len(Subsystem)
       /\ snapshot' = [revision |-> w.candidate, generation |-> snapshot.generation + 1]
       /\ result' = "applied"
       /\ torn' = FALSE
       /\ token' = TokenAfter(w.probed, TRUE)
       /\ watcher' = Waiting
       /\ UNCHANGED <<file, polling, live, report, requested,
                      refresher, stop, envVars, owed, raced>>

BugRaiseEndsRollback(changes, raised) ==
    IF raised THEN <<>> ELSE SubSeq(changes, 1, Len(changes) - 1)

\* The changes the rollback has still to visit: it goes on after one that raised.
StillToUndo(changes, raised) == SubSeq(changes, 1, Len(changes) - 1)

\* _rollback: every prepared change, the last one first.  Those of the service only
\* assign; the embedder's may raise, and its subsystem stays as it is.
RollBack ==
    LET w == watcher  s == Len(w.changes)
    IN /\ w.at = "undoing"
       /\ \/ /\ w.changes # <<>>
             /\ Publish(s, w.changes[s].old, w.changes[s].report)
             /\ watcher' = [w EXCEPT !.changes = StillToUndo(w.changes, FALSE)]
             /\ UNCHANGED <<result, token, torn, failures>>
          \/ /\ s = Embedded /\ Fails
             /\ torn' = TRUE
             /\ watcher' = [w EXCEPT !.changes = StillToUndo(w.changes, TRUE)]
             /\ UNCHANGED <<live, report, result, token>>
          \/ /\ w.changes = <<>>
             /\ result' = "failed"
             /\ token' = TokenAfter(w.probed, FALSE)
             /\ watcher' = Waiting
             /\ UNCHANGED <<live, report, torn, failures>>
       /\ UNCHANGED <<file, polling, snapshot, requested,
                      refresher, stop, edits, requests, owed, raced>>

-----------------------------------------------------------------------------
(* The refresh thread: refresh_once reads the settings, builds without the lock
   and publishes the report by itself. *)

StartRefresh ==
    /\ refresher = Waiting /\ watcher.at # "starting"
    /\ refresher' = IF stop = "both" THEN Ended
                    ELSE [at |-> "building", settings |-> live[Analysis]]
    /\ UNCHANGED <<file, polling, snapshot, result, live, report, torn, token, requested,
                   watcher, stop, envVars, owed, raced>>

BugLeavesDisabled ==
    /\ refresher.at = "building"
    /\ \/ /\ report' = IF refresher.settings \in Enabled THEN refresher.settings ELSE report
          /\ refresher' = Waiting
          /\ UNCHANGED failures
       \/ Fails /\ refresher' \in {Waiting, Ended} /\ UNCHANGED report
    /\ UNCHANGED <<file, polling, snapshot, result, live, torn, token, requested,
                   watcher, stop, edits, requests, owed, raced>>

\* An AnalysisError keeps the report and the thread; any other error ends the thread.
FinishRefresh ==
    /\ refresher.at = "building"
    /\ \/ /\ report' = ReportOf(refresher.settings)
          /\ refresher' = Waiting
          /\ UNCHANGED failures
       \/ Fails /\ refresher' \in {Waiting, Ended} /\ UNCHANGED report
    /\ UNCHANGED <<file, polling, snapshot, result, live, torn, token, requested,
                   watcher, stop, edits, requests, owed, raced>>

-----------------------------------------------------------------------------

WatcherStep ==
    \/ Construct \/ Look \/ Clear \/ Probe \/ Read
    \/ Prepare \/ PrepareDone \/ Commit \/ PublishSnapshot \/ RollBack

RefresherStep == StartRefresh \/ FinishRefresh

Next ==
    \/ \E r \in Valid \union Invalid \union {Missing} : Edit(r)
    \/ RequestReload
    \/ Shutdown
    \/ WatcherStep
    \/ RefresherStep

\* Both threads are scheduled and their waits time out.
Fairness == WF_vars(WatcherStep) /\ WF_vars(RefresherStep)

Spec == Init /\ [][Next]_vars /\ Fairness

-----------------------------------------------------------------------------

\* Outside of the two phases every subsystem runs with the settings of the published
\* snapshot, whatever failed in between (reload_bytes and its rollback): a rollback
\* that raises leaves behind its own subsystem at most, until a reload is applied.
PublishedTogether ==
    watcher.at \notin {"preparing", "committing", "undoing"} =>
        \A s \in DOMAIN Subsystem : live[s] = snapshot.revision \/ (s = Embedded /\ torn)

\* A report built from earlier settings may be published after a reload, and a build
\* may fail, but it does not stay so: the refresh thread comes to the settings in
\* force, unless the service stops or an error that is no AnalysisError ended the thread.
ReportCatchesUp ==
    []<>(report = ReportOf(live[Analysis]) \/ stop # "none" \/ refresher = Ended)

\* A valid file that differs from what is published, and that the watcher should
\* adopt: it polls, or somebody has asked.
Behind == file \in Valid /\ file # snapshot.revision /\ (polling \/ owed)

\* What the README says: with watching enabled edits are detected by their content,
\* and without it a request reloads the file.
EditsAdopted == []<>(~Behind \/ stop # "none")

\* It is so unless an edit came before the watcher took its first token or between
\* the probe and the read, or a request between is_set() and clear().  A reload
\* that failed is tried again, because the token changes only when one is applied.
EditsAdoptedUnlessRaced == []<>(~Behind \/ stop # "none" \/ raced)
=============================================================================
