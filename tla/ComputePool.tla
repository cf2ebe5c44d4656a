----------------------------- MODULE ComputePool -----------------------------
(***************************************************************************)
(* The Ray compute pools of labs/20-zeromq-patterns: submissions of one or *)
(* more RelayComputePools that share the ledger actor, and the remote      *)
(* executions that reserve a task id there, run the action and record what *)
(* came of it.                                                             *)
(*                                                                         *)
(* The actor's calls are serialized, so each is a step.  Ray starts an     *)
(* execution again when it raised the retryable error or its worker was    *)
(* lost, at most MaxRetries times.                                         *)
(***************************************************************************)
EXTENDS Integers, FiniteSets, SequencesExt

CONSTANTS
    Task, Pool,
    Fingerprint,        \* what may be submitted under a task id: action and target
    Flaky, Failing,     \* the targets *.part and *.missing
    MaxPending, MaxRetries, MaxEntries,
    MaxSubmissions,     \* bound on the calls of submit
    MaxLost             \* bound on the workers that are lost

\* RayComputeSettings refuses any other limit.
ASSUME LimitAssumption ==
    /\ MaxPending \in Nat \ {0} /\ MaxEntries \in Nat \ {0}
    /\ MaxRetries \in Nat

None == "none"
NoOutcome == [state |-> "none"]
ErrorRaised == [state |-> "error raised"]
SubmitRaised == [state |-> "submit raised"]
SharesReference == [state |-> "shares a reference"]
Submission == 1..MaxSubmissions

VARIABLES
    ledger,         \* order, fingerprints, attempts, outcomes and in-flight ids
    run,            \* each submission: what it asks for and how far it is
    pending,        \* the submissions whose references a pool has not collected
    collected,      \* the outcomes a pool keeps for its next drain
    closed,
    lost

vars == <<ledger, run, pending, collected, closed, lost>>

NotYet == [at |-> "not yet"]

Init ==
    /\ ledger = [order |-> <<>>, fingerprint |-> [t \in Task |-> None],
                 attempts |-> [t \in Task |-> 0], outcome |-> [t \in Task |-> NoOutcome],
                 inFlight |-> {}]
    /\ run = [k \in Submission |-> NotYet]
    /\ pending = [p \in Pool |-> {}]
    /\ collected = [p \in Pool |-> <<>>]
    /\ closed = [p \in Pool |-> FALSE]
    /\ lost = 0

-----------------------------------------------------------------------------
(* _LedgerState *)

Without(order, S) == SelectSeq(order, LAMBDA u : u \notin S)

Forgotten(l, S) ==
    [l EXCEPT !.order = Without(@, S),
              !.fingerprint = [u \in Task |-> IF u \in S THEN None ELSE @[u]],
              !.attempts = [u \in Task |-> IF u \in S THEN 0 ELSE @[u]],
              !.outcome = [u \in Task |-> IF u \in S THEN NoOutcome ELSE @[u]]]

BugAnyEntry(l) == DOMAIN l.order

\* The entries that _evict may forget: not those in flight.
Evictable(l) == {i \in DOMAIN l.order : l.order[i] \notin l.inFlight}

\* _evict forgets the oldest of them, as many as there are entries too many.
Evicted(l) ==
    LET rank(i) == Cardinality({j \in Evictable(l) : j <= i})
    IN {l.order[i] : i \in {k \in Evictable(l) : rank(k) <= Len(l.order) - MaxEntries}}

\* _touch: the newest entry may be the one that has to go.
Touched(l, t) ==
    LET moved == [l EXCEPT !.order = Append(Without(@, {t}), t)]
    IN Forgotten(moved, Evicted(moved))

Reserved(l, t, f) ==
    Touched([l EXCEPT !.inFlight = @ \union {t}, !.fingerprint[t] = f, !.attempts[t] = @ + 1], t)

Recorded(l, t, outcome) ==
    Touched([l EXCEPT !.outcome[t] = outcome, !.inFlight = @ \ {t}], t)

Released(l, t) == [l EXCEPT !.inFlight = @ \ {t}]

-----------------------------------------------------------------------------
(* _execute, on a worker of the cluster *)

Goes(k, where) == run' = [run EXCEPT ![k].at = where]

Ends(k, result) == run' = [run EXCEPT ![k].at = "ready", ![k].result = result]

\* Ray starts the execution again or gives up on it.
Retry(k) ==
    run' = IF run[k].retries < MaxRetries
           THEN [run EXCEPT ![k].at = "scheduled", ![k].retries = @ + 1, ![k].result = NoOutcome]
           ELSE [run EXCEPT ![k].at = "ready", ![k].result = ErrorRaised]

Reserve(k) ==
    LET r == run[k]  t == run[k].task
    IN /\ r.at = "scheduled"
       /\ \/ /\ ledger.fingerprint[t] \notin {None, r.fingerprint}
             /\ Ends(k, ErrorRaised)
             /\ UNCHANGED ledger
          \/ /\ ledger.fingerprint[t] \in {None, r.fingerprint} /\ ledger.outcome[t] # NoOutcome
             /\ Ends(k, ledger.outcome[t])
             /\ ledger' = Touched(ledger, t)
          \/ /\ ledger.fingerprint[t] \in {None, r.fingerprint} /\ ledger.outcome[t] = NoOutcome
             /\ t \in ledger.inFlight
             /\ Goes(k, "awaiting")
             /\ UNCHANGED ledger
          \/ /\ ledger.fingerprint[t] \in {None, r.fingerprint} /\ ledger.outcome[t] = NoOutcome
             /\ t \notin ledger.inFlight
             /\ ledger' = Reserved(ledger, t, r.fingerprint)
             /\ run' = [run EXCEPT ![k].at = "running", ![k].attempt = ledger.attempts[t] + 1]
       /\ UNCHANGED <<pending, collected, closed, lost>>

\* _run_action and the call of the ledger that follows it; the result is on its way.
Settle(k) ==
    LET r == run[k]
        outcome == [task |-> r.task, fingerprint |-> r.fingerprint,
                    state |-> IF r.fingerprint \in Failing THEN "failed" ELSE "succeeded"]
    IN /\ r.at = "running"
       /\ ~(r.fingerprint \in Flaky /\ r.attempt < 2)
       /\ ledger' = Recorded(ledger, r.task, outcome)
       /\ run' = [run EXCEPT ![k].at = "settled", ![k].result = outcome]
       /\ UNCHANGED <<pending, collected, closed, lost>>

Return(k) ==
    /\ run[k].at = "settled"
    /\ Goes(k, "ready")
    /\ UNCHANGED <<ledger, pending, collected, closed, lost>>

RaiseRetryable(k) ==
    /\ run[k].at = "running"
    /\ run[k].fingerprint \in Flaky /\ run[k].attempt < 2
    /\ ledger' = Released(ledger, run[k].task)
    /\ Retry(k)
    /\ UNCHANGED <<pending, collected, closed, lost>>

\* _await_settled_outcome asks by the task id alone.
Await(k) ==
    /\ run[k].at = "awaiting"
    /\ \/ ledger.outcome[run[k].task] # NoOutcome /\ Ends(k, ledger.outcome[run[k].task])
       \/ Retry(k)
    /\ UNCHANGED <<ledger, pending, collected, closed, lost>>

\* A worker process is lost; a reservation it holds stays.
LoseWorker(k) ==
    /\ run[k].at \in {"running", "settled", "awaiting"}
    /\ lost < MaxLost
    /\ lost' = lost + 1
    /\ Retry(k)
    /\ UNCHANGED <<ledger, pending, collected, closed>>

-----------------------------------------------------------------------------
(* RelayComputePool *)

\* A caller of submit finds the pool open; the check is not under the lock.
Enter(k, p, t, f) ==
    /\ run[k] = NotYet
    /\ k > 1 => run[k - 1] # NotYet
    /\ ~closed[p]
    /\ run' = [run EXCEPT ![k] = [at |-> "entered", pool |-> p, task |-> t, fingerprint |-> f,
                                  attempt |-> 0, retries |-> 0, result |-> NoOutcome]]
    /\ UNCHANGED <<ledger, pending, collected, closed, lost>>

Full(p) == Cardinality(pending[p]) >= MaxPending

Refused(k) == Ends(k, SubmitRaised)

\* The rest of submit: an active id is answered with its reference or a conflict;
\* at the limit a finished reference is collected first, and when that one raises,
\* so does submit.
Submit(k) ==
    LET p == run[k].pool
        active == {j \in pending[p] : run[j].task = run[k].task}
    IN /\ run[k].at = "entered"
       /\ \/ /\ active # {}
             /\ \E j \in active : IF run[j].fingerprint = run[k].fingerprint
                                 THEN Ends(k, SharesReference) ELSE Refused(k)
             /\ UNCHANGED <<pending, collected>>
          \/ /\ active = {} /\ ~Full(p)
             /\ Goes(k, "scheduled")
             /\ pending' = [pending EXCEPT ![p] = @ \union {k}]
             /\ UNCHANGED collected
          \/ /\ active = {} /\ Full(p)
             /\ \E j \in pending[p] :
                   /\ run[j].at = "ready"
                   /\ IF run[j].result = ErrorRaised
                      THEN /\ Refused(k)
                           /\ pending' = [pending EXCEPT ![p] = @ \ {j}]
                           /\ UNCHANGED collected
                      ELSE /\ Goes(k, "scheduled")
                           /\ pending' = [pending EXCEPT ![p] = (@ \ {j}) \union {k}]
                           /\ collected' = [collected EXCEPT ![p] = Append(@, run[j].result)]
       /\ UNCHANGED <<ledger, closed, lost>>

Errs(k) == run[k].at = "ready" /\ run[k].result = ErrorRaised

\* ray.get of everything pending: it waits for all or raises at an error; in either
\* case the references are gone, but what was collected before stays when it raises.
Drains(p) ==
    /\ \/ /\ \A k \in pending[p] : run[k].at = "ready" /\ ~Errs(k)
          /\ collected' = [collected EXCEPT ![p] = <<>>]
       \/ /\ \E k \in pending[p] : Errs(k)
          /\ UNCHANGED collected
    /\ pending' = [pending EXCEPT ![p] = {}]

Drain(p) ==
    /\ pending[p] # {} \/ collected[p] # <<>>
    /\ Drains(p)
    /\ UNCHANGED <<ledger, run, closed, lost>>

\* shutdown of a pool that does not own the cluster: closed is set before drain gets
\* the lock, and Drain is the rest of it.
Shutdown(p) ==
    /\ ~closed[p]
    /\ closed' = [closed EXCEPT ![p] = TRUE]
    /\ UNCHANGED <<ledger, run, pending, collected, lost>>

Next ==
    \/ \E k \in Submission :
          \/ Reserve(k) \/ Settle(k) \/ Return(k) \/ RaiseRetryable(k) \/ Await(k) \/ LoseWorker(k)
          \/ \E p \in Pool, t \in Task, f \in Fingerprint : Enter(k, p, t, f)
          \/ Submit(k)
    \/ \E p \in Pool : Drain(p) \/ Shutdown(p)

Spec == Init /\ [][Next]_vars

-----------------------------------------------------------------------------

Outcome == [task : Task, fingerprint : Fingerprint, state : {"succeeded", "failed"}]

TypeOK ==
    /\ ToSet(ledger.order) \subseteq Task /\ IsInjective(ledger.order)
    /\ \A t \in Task : /\ ledger.outcome[t] \in Outcome \union {NoOutcome}
                       /\ ledger.fingerprint[t] \in Fingerprint \union {None}
    /\ ledger.inFlight \subseteq Task
    /\ \A k \in Submission : run[k] = NotYet \/ /\ run[k].retries \in 0..MaxRetries
                                                /\ run[k].result \in Outcome \union {NoOutcome, ErrorRaised, SubmitRaised, SharesReference}
    /\ \A p \in Pool : pending[p] \subseteq Submission /\ Cardinality(pending[p]) <= MaxPending
    /\ lost \in 0..MaxLost

\* An action runs once at a time: of all executions of a task id, in whatever pools,
\* at most one is running it, and until it settles the ledger knows its fingerprint
\* and its attempt, however full it is.
RunsAlone ==
    \A k \in Submission : run[k].at = "running" =>
        /\ \A j \in Submission \ {k} : run[j].at = "running" => run[j].task # run[k].task
        /\ run[k].task \in ledger.inFlight
        /\ ledger.fingerprint[run[k].task] = run[k].fingerprint
        /\ ledger.attempts[run[k].task] = run[k].attempt

\* What a submission is answered is the outcome of the action it asked for.
AnswersItsAction ==
    \A k \in Submission :
        run[k] # NotYet /\ run[k].result \in Outcome => run[k].result.fingerprint = run[k].fingerprint
=============================================================================
