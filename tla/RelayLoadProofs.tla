--------------------------- MODULE RelayLoadProofs ---------------------------
(* Theorems about components of MCRelayLoad: the compute pools, for every set
   of tasks, pools and actions, every limit of the ledger and any number of
   submissions and lost workers; the leases of the worker pool, the latency of the
   admission queue, the event streams and the reconcilers of the clouds. *)
EXTENDS MCRelayLoad, FiniteSetTheorems, SequenceTheorems, TLAPS

Result == Outcome \union {NoOutcome, ErrorRaised, SubmitRaised, SharesReference}

Place == {"entered", "scheduled", "running", "settled", "awaiting", "ready"}

Execution == [at : Place, pool : Pool, task : Task, fingerprint : Fingerprint,
              attempt : Nat, retries : Nat, result : Result]

\* The fields of a ledger, apart from the order of its entries.
LedgerShape(l) ==
    l \in [order : {l.order}, fingerprint : [Task -> Fingerprint \union {None}],
           attempts : [Task -> Nat], outcome : [Task -> Outcome \union {NoOutcome}],
           inFlight : SUBSET Task]

Shape ==
    /\ LedgerShape(ledger)
    /\ run \in [Submission -> {NotYet} \union Execution]

\* Touching an entry forgets nothing about those in flight, however many it evicts.
LEMMA TouchedKeeps ==
    ASSUME NEW l, LedgerShape(l), NEW t
    PROVE  /\ LedgerShape(Touched(l, t))
           /\ Touched(l, t).inFlight = l.inFlight
           /\ \A u \in l.inFlight : /\ Touched(l, t).fingerprint[u] = l.fingerprint[u]
                                    /\ Touched(l, t).attempts[u] = l.attempts[u]
  <1> DEFINE moved == [l EXCEPT !.order = Append(Without(@, {t}), t)]
             S == Evicted(moved)
  <1>1. /\ moved.fingerprint = l.fingerprint /\ moved.attempts = l.attempts
        /\ moved.outcome = l.outcome /\ moved.inFlight = l.inFlight
        /\ moved \in [order : {moved.order}, fingerprint : [Task -> Fingerprint \union {None}],
                      attempts : [Task -> Nat], outcome : [Task -> Outcome \union {NoOutcome}],
                      inFlight : SUBSET Task]
    BY DEF LedgerShape
  <1>2. \A u \in l.inFlight : u \notin S
    BY <1>1 DEF Evicted, Evictable
  <1>3. Touched(l, t) = Forgotten(moved, S)
    BY DEF Touched
  <1> HIDE DEF moved, S
  <1>4. /\ LedgerShape(Forgotten(moved, S))
        /\ Forgotten(moved, S).inFlight = moved.inFlight
        /\ Forgotten(moved, S).fingerprint =
              [u \in Task |-> IF u \in S THEN None ELSE moved.fingerprint[u]]
        /\ Forgotten(moved, S).attempts = [u \in Task |-> IF u \in S THEN 0 ELSE moved.attempts[u]]
    BY <1>1 DEF Forgotten, LedgerShape
  <1>5. QED
    BY <1>1, <1>2, <1>3, <1>4 DEF LedgerShape

\* A reservation is known, and those in flight before stay as they were.
LEMMA ReservedFacts ==
    ASSUME NEW l, LedgerShape(l), NEW t \in Task, NEW f \in Fingerprint
    PROVE  /\ LedgerShape(Reserved(l, t, f))
           /\ Reserved(l, t, f).inFlight = l.inFlight \union {t}
           /\ Reserved(l, t, f).fingerprint[t] = f
           /\ Reserved(l, t, f).attempts[t] = l.attempts[t] + 1
           /\ \A u \in l.inFlight \ {t} :
                 /\ Reserved(l, t, f).fingerprint[u] = l.fingerprint[u]
                 /\ Reserved(l, t, f).attempts[u] = l.attempts[u]
  <1> DEFINE marked == [l EXCEPT !.inFlight = @ \union {t}, !.fingerprint[t] = f, !.attempts[t] = @ + 1]
  <1>1. /\ LedgerShape(marked)
        /\ marked.inFlight = l.inFlight \union {t}
        /\ marked.fingerprint = [l.fingerprint EXCEPT ![t] = f]
        /\ marked.attempts = [l.attempts EXCEPT ![t] = @ + 1]
    <2> DEFINE present == [l.fingerprint EXCEPT ![t] = f]
               tried == [l.attempts EXCEPT ![t] = @ + 1]
               busy == l.inFlight \union {t}
    <2>1. /\ present \in [Task -> Fingerprint \union {None}]
          /\ tried \in [Task -> Nat] /\ busy \in SUBSET Task
      BY DEF LedgerShape
    <2>2. marked = [l EXCEPT !.inFlight = busy, !.fingerprint = present, !.attempts = tried]
      OBVIOUS
    <2> HIDE DEF present, tried, busy, marked
    <2>3. LedgerShape(marked) /\ marked.inFlight = busy /\ marked.fingerprint = present
                              /\ marked.attempts = tried
      BY <2>1, <2>2 DEF LedgerShape
    <2>4. QED
      BY <2>3 DEF present, tried, busy
  <1>2. Reserved(l, t, f) = Touched(marked, t)
    BY DEF Reserved
  <1> HIDE DEF marked
  <1>3. /\ l.fingerprint \in [Task -> Fingerprint \union {None}]
        /\ l.attempts \in [Task -> Nat] /\ l.inFlight \subseteq Task
    BY DEF LedgerShape
  <1>4. /\ LedgerShape(Touched(marked, t))
        /\ Touched(marked, t).inFlight = marked.inFlight
        /\ \A u \in marked.inFlight : /\ Touched(marked, t).fingerprint[u] = marked.fingerprint[u]
                                      /\ Touched(marked, t).attempts[u] = marked.attempts[u]
    BY <1>1, TouchedKeeps DEF LedgerShape
  <1>5. /\ Touched(marked, t).fingerprint[t] = f
        /\ Touched(marked, t).attempts[t] = l.attempts[t] + 1
    BY <1>1, <1>3, <1>4
  <1>6. ASSUME NEW u \in l.inFlight \ {t}
        PROVE  /\ Touched(marked, t).fingerprint[u] = l.fingerprint[u]
               /\ Touched(marked, t).attempts[u] = l.attempts[u]
    BY <1>1, <1>3, <1>4
  <1>7. QED
    BY <1>1, <1>2, <1>4, <1>5, <1>6

\* A recorded outcome ends one reservation and leaves the others as they were.
LEMMA RecordedFacts ==
    ASSUME NEW l, LedgerShape(l), NEW t \in Task, NEW o \in Outcome
    PROVE  /\ LedgerShape(Recorded(l, t, o))
           /\ Recorded(l, t, o).inFlight = l.inFlight \ {t}
           /\ \A u \in l.inFlight \ {t} :
                 /\ Recorded(l, t, o).fingerprint[u] = l.fingerprint[u]
                 /\ Recorded(l, t, o).attempts[u] = l.attempts[u]
  <1> DEFINE settled == [l EXCEPT !.outcome[t] = o, !.inFlight = @ \ {t}]
  <1>1. /\ LedgerShape(settled)
        /\ settled.inFlight = l.inFlight \ {t}
        /\ settled.fingerprint = l.fingerprint /\ settled.attempts = l.attempts
    BY DEF LedgerShape
  <1>2. Recorded(l, t, o) = Touched(settled, t)
    BY DEF Recorded
  <1> HIDE DEF settled
  <1>3. /\ LedgerShape(Touched(settled, t))
        /\ Touched(settled, t).inFlight = settled.inFlight
        /\ \A u \in settled.inFlight : /\ Touched(settled, t).fingerprint[u] = settled.fingerprint[u]
                                       /\ Touched(settled, t).attempts[u] = settled.attempts[u]
    BY <1>1, TouchedKeeps
  <1>4. QED
    BY <1>1, <1>2, <1>3

\* A released reservation changes nothing else.
LEMMA ReleasedFacts ==
    ASSUME NEW l, LedgerShape(l), NEW t \in Task
    PROVE  /\ LedgerShape(Released(l, t))
           /\ Released(l, t).inFlight = l.inFlight \ {t}
           /\ Released(l, t).fingerprint = l.fingerprint
           /\ Released(l, t).attempts = l.attempts
  BY DEF LedgerShape, Released

\* A submission that has a place is not one that has not been made.
LEMMA Placed ==
    ASSUME Shape, NEW k \in Submission, run[k].at \in Place
    PROVE  run[k] \in Execution
  <1>1. NotYet.at \notin Place
    BY DEF NotYet, Place
  <1>2. run[k] \in {NotYet} \union Execution
    BY DEF Shape
  <1>3. QED
    BY <1>1, <1>2

-----------------------------------------------------------------------------

LedgerInv == Shape /\ RunsAlone

\* A step that runs nothing anew and leaves those in flight as they are.
LEMMA NothingNew ==
    ASSUME LedgerInv,
           ledger'.inFlight = ledger.inFlight,
           \A u \in ledger.inFlight : /\ ledger'.fingerprint[u] = ledger.fingerprint[u]
                                      /\ ledger'.attempts[u] = ledger.attempts[u],
           \A k \in Submission : run'[k].at = "running" => run'[k] = run[k]
    PROVE  RunsAlone'
  BY DEF LedgerInv, RunsAlone

\* The moves of one execution keep the shape.
LEMMA Moves ==
    ASSUME Shape, NEW k \in Submission, run[k] \in Execution
    PROVE  /\ \A where \in Place : Goes(k, where) => run' \in [Submission -> {NotYet} \union Execution]
           /\ \A result \in Result : Ends(k, result) => run' \in [Submission -> {NotYet} \union Execution]
           /\ Retry(k) => run' \in [Submission -> {NotYet} \union Execution]
  <1>1. ASSUME NEW where \in Place, Goes(k, where)
        PROVE  run' \in [Submission -> {NotYet} \union Execution]
    <2>1. [run[k] EXCEPT !.at = where] \in Execution
      BY DEF Execution
    <2>2. QED
      BY <1>1, <2>1 DEF Goes, Shape
  <1>2. ASSUME NEW result \in Result, Ends(k, result)
        PROVE  run' \in [Submission -> {NotYet} \union Execution]
    <2>1. [run[k] EXCEPT !.at = "ready", !.result = result] \in Execution
      BY DEF Execution, Place
    <2>2. QED
      BY <1>2, <2>1 DEF Ends, Shape
  <1>3. ASSUME Retry(k)
        PROVE  run' \in [Submission -> {NotYet} \union Execution]
    <2>0. run[k].retries \in Nat /\ NoOutcome \in Result /\ "scheduled" \in Place
      BY DEF Execution, Result, Place
    <2>1. [run[k] EXCEPT !.at = "scheduled", !.retries = @ + 1, !.result = NoOutcome] \in Execution
      <3> DEFINE more == run[k].retries + 1
      <3>1. more \in Nat
        BY <2>0
      <3>2. [run[k] EXCEPT !.at = "scheduled", !.retries = @ + 1, !.result = NoOutcome] =
            [run[k] EXCEPT !.at = "scheduled", !.retries = more, !.result = NoOutcome]
        OBVIOUS
      <3> HIDE DEF more
      <3>3. [run[k] EXCEPT !.at = "scheduled", !.retries = more, !.result = NoOutcome] \in Execution
        BY <2>0, <3>1 DEF Execution
      <3>4. QED
        BY <3>2, <3>3
    <2>2. [run[k] EXCEPT !.at = "ready", !.result = ErrorRaised] \in Execution
      BY DEF Execution, Place, Result
    <2>3. QED
      BY <1>3, <2>1, <2>2 DEF Retry, Shape
  <1>4. QED
    BY <1>1, <1>2, <1>3

\* Nothing runs after a move to another place than running.
LEMMA MovesNothingNew ==
    ASSUME Shape, NEW k \in Submission, run[k] \in Execution,
           \/ \E where \in Place \ {"running"} : Goes(k, where)
           \/ \E result \in Result : Ends(k, result)
           \/ Retry(k)
    PROVE  /\ run' \in [Submission -> {NotYet} \union Execution]
           /\ \A j \in Submission \ {k} : run'[j] = run[j]
           /\ run'[k].at # "running"
           /\ \A j \in Submission : run'[j].at = "running" => run'[j] = run[j]
  <1>1. run' \in [Submission -> {NotYet} \union Execution]
    BY Moves
  <1>2. run \in [Submission -> {NotYet} \union Execution]
    BY DEF Shape
  <1>3. CASE \E where \in Place \ {"running"} : Goes(k, where)
    <2>1. PICK where \in Place \ {"running"} : Goes(k, where)
      BY <1>3
    <2>2. [run[k] EXCEPT !.at = where].at = where
      BY DEF Execution
    <2>3. run' = [run EXCEPT ![k] = [run[k] EXCEPT !.at = where]]
      BY <2>1 DEF Goes
    <2>4. run'[k].at = where /\ \A j \in Submission \ {k} : run'[j] = run[j]
      BY <1>2, <2>2, <2>3
    <2>5. where # "running"
      BY <2>1
    <2>6. QED
      BY <1>1, <2>4, <2>5
  <1>4. CASE \E result \in Result : Ends(k, result)
    <2>1. PICK result \in Result : Ends(k, result)
      BY <1>4
    <2>2. [run[k] EXCEPT !.at = "ready", !.result = result].at = "ready"
      BY DEF Execution
    <2>3. QED
      BY <1>1, <1>2, <2>1, <2>2 DEF Ends
  <1>5. CASE Retry(k)
    <2>1. /\ [run[k] EXCEPT !.at = "scheduled", !.retries = @ + 1, !.result = NoOutcome].at = "scheduled"
          /\ [run[k] EXCEPT !.at = "ready", !.result = ErrorRaised].at = "ready"
      BY DEF Execution
    <2>2. QED
      BY <1>1, <1>2, <1>5, <2>1 DEF Retry
  <1>6. QED
    BY <1>3, <1>4, <1>5

\* Every step keeps the invariant.
LEMMA LedgerStep ==
    ASSUME LedgerInv, [Next]_vars
    PROVE  LedgerInv'
  <1> USE DEF LedgerInv
  <1>1. ASSUME NEW k \in Submission, Reserve(k)
        PROVE  LedgerInv'
    <2> DEFINE t == run[k].task
               f == run[k].fingerprint
    <2>1. run[k] \in Execution
      BY <1>1, Placed DEF Reserve, Place
    <2>2. t \in Task /\ f \in Fingerprint
      BY <2>1 DEF Execution
    <2>3. CASE Ends(k, ErrorRaised) /\ UNCHANGED ledger
      <3>1. \E result \in Result : Ends(k, result)
        BY <2>3 DEF Result
      <3>2. QED
        BY <2>1, <2>3, <3>1, MovesNothingNew, NothingNew DEF Shape
    <2>4. CASE /\ ledger.outcome[t] # NoOutcome
               /\ Ends(k, ledger.outcome[t])
               /\ ledger' = Touched(ledger, t)
      <3>1. ledger.outcome[t] \in Result
        BY <2>2 DEF Shape, LedgerShape, Result
      <3>2. LedgerShape(ledger)
        BY DEF Shape
      <3>3. QED
        BY <2>1, <2>4, <3>1, <3>2, MovesNothingNew, NothingNew, TouchedKeeps DEF Shape
    <2>5. CASE Goes(k, "awaiting") /\ UNCHANGED ledger
      <3>1. \E where \in Place \ {"running"} : Goes(k, where)
        BY <2>5 DEF Place
      <3>2. QED
        BY <2>1, <2>5, <3>1, MovesNothingNew, NothingNew DEF Shape
    <2>6. CASE /\ t \notin ledger.inFlight
               /\ ledger' = Reserved(ledger, t, f)
               /\ run' = [run EXCEPT ![k].at = "running", ![k].attempt = ledger.attempts[t] + 1]
      <3> DEFINE attempt == ledger.attempts[t] + 1
                 started == [run[k] EXCEPT !.at = "running", !.attempt = attempt]
      <3>1. attempt \in Nat
        BY <2>2 DEF Shape, LedgerShape
      <3>2. run' = [run EXCEPT ![k] = started]
        BY <2>6
      <3> HIDE DEF attempt
      <3>3. /\ started \in Execution /\ started.at = "running" /\ started.task = t
            /\ started.fingerprint = f /\ started.attempt = attempt
        BY <2>1, <3>1 DEF Execution, Place
      <3> HIDE DEF started
      <3>4. LedgerShape(ledger) /\ ledger.inFlight \subseteq Task
        BY DEF Shape, LedgerShape
      <3>5. /\ LedgerShape(ledger')
            /\ ledger'.inFlight = ledger.inFlight \union {t}
            /\ ledger'.fingerprint[t] = f
            /\ ledger'.attempts[t] = attempt
            /\ \A u \in ledger.inFlight \ {t} : /\ ledger'.fingerprint[u] = ledger.fingerprint[u]
                                                 /\ ledger'.attempts[u] = ledger.attempts[u]
        BY <2>2, <2>6, <3>4, ReservedFacts DEF attempt
      <3>6. run'[k] = started /\ \A j \in Submission \ {k} : run'[j] = run[j]
        BY <3>2 DEF Shape
      <3>7. \A j \in Submission \ {k} : run[j].at = "running" => run[j].task # t
        BY <2>6 DEF RunsAlone
      <3>8. RunsAlone'
        <4> HIDE DEF t, f
        <4>1. run'[k].at = "running" /\ run'[k].task = t /\ run'[k].fingerprint = f
                                     /\ run'[k].attempt = attempt
          BY <3>3, <3>6
        <4>2. ASSUME NEW j \in Submission \ {k}, run[j].at = "running"
              PROVE  /\ run[j].task \in ledger.inFlight \ {t}
                     /\ ledger.fingerprint[run[j].task] = run[j].fingerprint
                     /\ ledger.attempts[run[j].task] = run[j].attempt
                     /\ \A i \in Submission \ {j, k} : run[i].at = "running" => run[i].task # run[j].task
          BY <3>7, <4>2 DEF RunsAlone
        <4>3. ASSUME NEW j \in Submission \ {k}, run'[j].at = "running"
              PROVE  /\ run'[j].task \in ledger'.inFlight
                     /\ ledger'.fingerprint[run'[j].task] = run'[j].fingerprint
                     /\ ledger'.attempts[run'[j].task] = run'[j].attempt
                     /\ \A i \in Submission \ {j} : run'[i].at = "running" => run'[i].task # run'[j].task
          BY <3>5, <3>6, <4>1, <4>2, <4>3
        <4>4. QED
          BY <3>5, <3>6, <3>7, <4>1, <4>3 DEF RunsAlone
      <3>9. Shape'
        BY <3>2, <3>3, <3>5 DEF Shape
      <3>10. QED
        BY <3>8, <3>9
    <2>7. QED
      BY <1>1, <2>3, <2>4, <2>5, <2>6 DEF Reserve
  <1>2. ASSUME NEW k \in Submission, Settle(k)
        PROVE  LedgerInv'
    <2> DEFINE t == run[k].task
               o == [task |-> run[k].task, fingerprint |-> run[k].fingerprint,
                     state |-> IF run[k].fingerprint \in Failing THEN "failed" ELSE "succeeded"]
               ended == [run[k] EXCEPT !.at = "settled", !.result = o]
    <2>1. run[k] \in Execution
      BY <1>2, Placed DEF Settle, Place
    <2>2. t \in Task /\ o \in Outcome
      BY <2>1 DEF Execution, Outcome
    <2>3. run[k].at = "running" /\ ledger' = Recorded(ledger, t, o) /\ run' = [run EXCEPT ![k] = ended]
      BY <1>2 DEF Settle
    <2> HIDE DEF o
    <2>4. ended \in Execution /\ ended.at = "settled"
      BY <2>1, <2>2 DEF Execution, Place, Result
    <2> HIDE DEF ended
    <2>5. LedgerShape(ledger)
      BY DEF Shape
    <2>6. /\ LedgerShape(ledger')
          /\ ledger'.inFlight = ledger.inFlight \ {t}
          /\ \A u \in ledger.inFlight \ {t} : /\ ledger'.fingerprint[u] = ledger.fingerprint[u]
                                               /\ ledger'.attempts[u] = ledger.attempts[u]
      BY <2>2, <2>3, <2>5, RecordedFacts
    <2>7. run'[k] = ended /\ \A j \in Submission \ {k} : run'[j] = run[j]
      BY <2>3 DEF Shape
    <2>8. \A j \in Submission \ {k} : run[j].at = "running" => run[j].task # t
      BY <2>3 DEF RunsAlone
    <2>9. RunsAlone'
      BY <2>4, <2>6, <2>7, <2>8 DEF RunsAlone
    <2>10. Shape'
      BY <2>3, <2>4, <2>6 DEF Shape
    <2>11. QED
      BY <2>9, <2>10
  <1>3. ASSUME NEW k \in Submission, RaiseRetryable(k)
        PROVE  LedgerInv'
    <2> DEFINE t == run[k].task
    <2>1. run[k] \in Execution /\ t \in Task
      BY <1>3, Placed DEF RaiseRetryable, Place, Execution
    <2>2. run[k].at = "running" /\ ledger' = Released(ledger, t) /\ Retry(k)
      BY <1>3 DEF RaiseRetryable
    <2>3. LedgerShape(ledger)
      BY DEF Shape
    <2>4. /\ LedgerShape(ledger') /\ ledger'.inFlight = ledger.inFlight \ {t}
          /\ ledger'.fingerprint = ledger.fingerprint /\ ledger'.attempts = ledger.attempts
      BY <2>1, <2>2, <2>3, ReleasedFacts
    <2>5. /\ run' \in [Submission -> {NotYet} \union Execution]
          /\ \A j \in Submission \ {k} : run'[j] = run[j]
          /\ run'[k].at # "running"
      BY <2>1, <2>2, MovesNothingNew
    <2>6. \A j \in Submission \ {k} : run[j].at = "running" => run[j].task # t
      BY <2>2 DEF RunsAlone
    <2>7. RunsAlone'
      BY <2>4, <2>5, <2>6 DEF RunsAlone
    <2>8. QED
      BY <2>4, <2>5, <2>7 DEF Shape
  <1>4. ASSUME NEW k \in Submission, Return(k) \/ Await(k) \/ LoseWorker(k) \/ Submit(k)
        PROVE  LedgerInv'
    <2>1. run[k] \in Execution
      BY <1>4, Placed DEF Return, Await, LoseWorker, Submit, Place
    <2>2. \/ \E where \in Place \ {"running"} : Goes(k, where)
          \/ \E result \in Result : Ends(k, result)
          \/ Retry(k)
      <3>1. ledger.outcome[run[k].task] \in Result
        BY <2>1 DEF Shape, LedgerShape, Result, Execution
      <3>2. /\ "ready" \in Place \ {"running"} /\ "scheduled" \in Place \ {"running"}
            /\ SubmitRaised \in Result /\ SharesReference \in Result
        BY DEF Place, Result
      <3>3. CASE Return(k)
        BY <3>2, <3>3 DEF Return
      <3>4. CASE Await(k)
        BY <3>1, <3>4 DEF Await
      <3>5. CASE LoseWorker(k)
        BY <3>5 DEF LoseWorker
      <3>6. CASE Submit(k)
        BY <3>2, <3>6 DEF Submit, Refused
      <3>7. QED
        BY <1>4, <3>3, <3>4, <3>5, <3>6
    <2>3. ledger' = ledger
      BY <1>4 DEF Return, Await, LoseWorker, Submit
    <2>4. /\ run' \in [Submission -> {NotYet} \union Execution]
          /\ \A j \in Submission : run'[j].at = "running" => run'[j] = run[j]
      BY <2>1, <2>2, MovesNothingNew
    <2>5. QED
      BY <2>3, <2>4, NothingNew DEF Shape
  <1>5. ASSUME NEW k \in Submission, NEW p \in Pool, NEW t \in Task, NEW f \in Fingerprint,
               Enter(k, p, t, f)
        PROVE  LedgerInv'
    <2> DEFINE entered == [at |-> "entered", pool |-> p, task |-> t, fingerprint |-> f,
                           attempt |-> 0, retries |-> 0, result |-> NoOutcome]
    <2>1. entered \in Execution /\ entered.at # "running"
      BY DEF Execution, Place, Result
    <2>2. run' = [run EXCEPT ![k] = entered] /\ ledger' = ledger
      BY <1>5 DEF Enter
    <2> HIDE DEF entered
    <2>3. /\ run' \in [Submission -> {NotYet} \union Execution]
          /\ \A j \in Submission : run'[j].at = "running" => run'[j] = run[j]
      BY <2>1, <2>2 DEF Shape
    <2>4. QED
      BY <2>2, <2>3, NothingNew DEF Shape
  <1>6. ASSUME NEW p \in Pool, Drain(p) \/ Shutdown(p)
        PROVE  LedgerInv'
    BY <1>6 DEF Drain, Shutdown, Shape, RunsAlone
  <1>7. CASE UNCHANGED vars
    BY <1>7 DEF vars, Shape, RunsAlone
  <1>8. QED
    BY <1>1, <1>2, <1>3, <1>4, <1>5, <1>6, <1>7 DEF Next

\* An action runs once at a time under every task id, its reservation and attempt
\* known to the ledger until it settles: for every limit of the ledger, any pools that
\* share it and any workers lost.
THEOREM RunsAloneAlways == Spec => []RunsAlone
  <1>1. Init => LedgerInv
    <2>1. ASSUME Init
          PROVE  LedgerShape(ledger)
      BY <2>1 DEF Init, LedgerShape
    <2>2. ASSUME Init
          PROVE  run \in [Submission -> {NotYet} \union Execution] /\ RunsAlone
      BY <2>2 DEF Init, RunsAlone, NotYet
    <2>3. QED
      BY <2>1, <2>2 DEF LedgerInv, Shape
  <1>2. LedgerInv /\ [Next]_vars => LedgerInv'
    BY LedgerStep
  <1>3. LedgerInv => RunsAlone
    BY DEF LedgerInv
  <1>4. QED
    BY <1>1, <1>2, <1>3, PTL DEF Spec

-----------------------------------------------------------------------------
(* Leases of the worker pool *)

LeasedEntry == [task : Task, visible : Nat, lease : Nat, acked : BOOLEAN]

AtWork == {"reserved", "handling", "succeeded", "failed", "lost", "unsupported"}

Acknowledged ==
    [at : {"acknowledged"}, entry : Nat, lease : Nat,
     outcome : {"succeeded", "failed", "unsupported"}]

WorkerState ==
    {LeasedWork!Idle}
      \union [at : AtWork, entry : Nat, lease : Nat, until : Nat]
      \union Acknowledged

LeaseTypes ==
    /\ workerClock \in Nat
    /\ entries \in Seq(LeasedEntry)
    /\ snapshots \in [Task -> {LeasedWork!NoSnapshot, "queued", "running", "succeeded", "failed"}]
    /\ worker \in [Pool -> WorkerState]

\* A worker's lease is the last one handed out, which ends when its entry becomes
\* visible again, or has run out.
LeaseOf(w) ==
    LET e == entries[worker[w].entry]
    IN /\ worker[w].at \in AtWork =>
            /\ worker[w].entry \in DOMAIN entries
            /\ \/ worker[w].lease = e.lease /\ worker[w].until = e.visible
               \/ worker[w].lease < e.lease /\ worker[w].until <= workerClock
       /\ worker[w].at = "acknowledged" =>
            /\ worker[w].entry \in DOMAIN entries
            /\ e.acked /\ worker[w].lease = e.lease

\* A lease is handed out once.
LeasesDiffer ==
    \A w, v \in Pool :
        worker[w].at \in AtWork /\ worker[v].at \in AtWork /\ w # v
        /\ worker[w].entry = worker[v].entry => worker[w].lease # worker[v].lease

\* What is left comes back in time.
EntriesDue ==
    \A i \in DOMAIN entries :
        ~entries[i].acked => entries[i].visible <= workerClock + Timeout

\* Some entry of a task that is said to be done is off the queue.
DoneIsOff ==
    \A t \in Task : snapshots[t] \in {"succeeded", "failed"} =>
        \E i \in DOMAIN entries : entries[i].task = t /\ entries[i].acked

PoolInv ==
    LeaseTypes /\ DoneIsOff /\ (\A w \in Pool : LeaseOf(w)) /\ LeasesDiffer /\ EntriesDue

LEMMA LeastNat ==
    ASSUME NEW S \in SUBSET Nat, S # {}
    PROVE  \E x \in S : \A y \in S : x <= y
  <1>1. PICK x \in S : \A y \in S : ~ (<<y, x>> \in OpToRel(<, Nat))
    BY NatLessThanWellFounded, WFMin
  <1>2. ASSUME NEW y \in S, y < x PROVE FALSE
    <2>1. <<y, x>> \in Nat \X Nat /\ <<y, x>>[1] < <<y, x>>[2]
      BY <1>2
    <2>2. <<y, x>> \in OpToRel(<, Nat)
      BY <2>1 DEF OpToRel
    <2>3. QED
      BY <1>1, <2>2
  <1>3. QED
    BY <1>2

LEMMA StatesApart ==
    /\ LeasedWork!Idle \in WorkerState
    /\ LeasedWork!Idle.at \notin AtWork \union {"acknowledged"}
    /\ \A s \in WorkerState : s.at \in AtWork =>
          s \in [at : AtWork, entry : Nat, lease : Nat, until : Nat]
    /\ \A s \in WorkerState : s.at = "acknowledged" =>
          s \in Acknowledged
  BY DEF LeasedWork!Idle, WorkerState, Acknowledged, AtWork

\* A step of one worker that leaves the queue and the clock alone, keeps its lease if it
\* is still at work, and says that a task is done only if it is.
LEMMA WorkerMoves ==
    ASSUME PoolInv, UNCHANGED <<workerClock, entries>>, NEW w \in Pool, NEW s \in WorkerState,
           worker' = [worker EXCEPT ![w] = s],
           s.at \in AtWork => /\ worker[w].at \in AtWork /\ s.entry = worker[w].entry
                              /\ s.lease = worker[w].lease /\ s.until = worker[w].until,
           s.at # "acknowledged",
           \/ UNCHANGED snapshots
           \/ \E i \in DOMAIN entries, q \in {"queued", "running", "succeeded", "failed"} :
                 /\ snapshots' = [snapshots EXCEPT ![entries[i].task] = q]
                 /\ q \in {"succeeded", "failed"} => entries[i].acked
    PROVE  PoolInv'
  <1>1. /\ \A v \in Pool \ {w} : worker'[v] = worker[v]
        /\ worker'[w] = s
    BY DEF PoolInv, LeaseTypes
  <1>2. \A i \in DOMAIN entries : entries[i] \in LeasedEntry
    BY DEF PoolInv, LeaseTypes
  <1>3. LeaseTypes'
    <2>1. snapshots' \in [Task -> {LeasedWork!NoSnapshot, "queued", "running", "succeeded", "failed"}]
      BY <1>2 DEF PoolInv, LeaseTypes, LeasedEntry
    <2>2. QED
      BY <2>1 DEF PoolInv, LeaseTypes
  <1>4. \A t \in Task : \/ snapshots'[t] = snapshots[t]
                        \/ \E i \in DOMAIN entries :
                              /\ entries[i].task = t
                              /\ snapshots'[t] \in {"succeeded", "failed"} => entries[i].acked
    BY <1>2 DEF PoolInv, LeaseTypes, LeasedEntry
  <1>6. \A v \in Pool : LeaseOf(v)'
    <2>1. ASSUME NEW v \in Pool
          PROVE  LeaseOf(v)'
      <3>1. LeaseOf(v) /\ LeaseOf(w)
        BY DEF PoolInv
      <3>2. CASE v = w
        BY <1>1, <3>1, <3>2 DEF LeaseOf
      <3>3. CASE v # w
        BY <1>1, <3>1, <3>3 DEF LeaseOf
      <3>4. QED
        BY <3>2, <3>3
    <2>2. QED
      BY <2>1
  <1>7. LeasesDiffer'
    BY <1>1 DEF PoolInv, LeasesDiffer
  <1>8. DoneIsOff'
    <2>1. ASSUME NEW t \in Task, snapshots'[t] \in {"succeeded", "failed"}
          PROVE  \E i \in DOMAIN entries : entries[i].task = t /\ entries[i].acked
      BY <1>4, <2>1 DEF PoolInv, DoneIsOff
    <2>2. QED
      BY <2>1 DEF DoneIsOff
  <1>9. EntriesDue'
    BY DEF PoolInv, EntriesDue
  <1>10. QED
    BY <1>3, <1>6, <1>7, <1>8, <1>9 DEF PoolInv

\* The outcome of _record for a worker that is not idle.
LEMMA RecordMoves ==
    ASSUME PoolInv, UNCHANGED <<workerClock, entries>>, NEW w \in Pool,
           worker[w].at \in AtWork \union {"acknowledged"},
           NEW state \in {"queued", "running", "succeeded", "failed"}, NEW after \in WorkerState,
           LeasedWork!Record(w, state, after),
           after.at \in AtWork => /\ worker[w].at \in AtWork /\ after.entry = worker[w].entry
                                  /\ after.lease = worker[w].lease /\ after.until = worker[w].until,
           after.at # "acknowledged",
           state \in {"succeeded", "failed"} => worker[w].at = "acknowledged"
    PROVE  PoolInv'
  <1>1. LeaseOf(w) /\ worker[w].entry \in DOMAIN entries
    BY DEF PoolInv, LeaseOf
  <1>2. state \in {"succeeded", "failed"} => entries[worker[w].entry].acked
    BY <1>1 DEF LeaseOf
  <1>3. CASE snapshots[entries[worker[w].entry].task] = LeasedWork!NoSnapshot
    <2>1. worker' = [worker EXCEPT ![w] = LeasedWork!Idle] /\ UNCHANGED snapshots
      BY <1>3 DEF LeasedWork!Record, LeasedWork!Dies, LeasedWork!Goes
    <2>2. QED
      BY <2>1, StatesApart, WorkerMoves
  <1>4. CASE snapshots[entries[worker[w].entry].task] # LeasedWork!NoSnapshot
    <2>1. /\ worker' = [worker EXCEPT ![w] = after]
          /\ snapshots' = [snapshots EXCEPT ![entries[worker[w].entry].task] = state]
      BY <1>4 DEF LeasedWork!Record, LeasedWork!Goes
    <2>2. QED
      BY <1>1, <1>2, <2>1, WorkerMoves
  <1>5. QED
    BY <1>3, <1>4

LEMMA PutKeeps ==
    ASSUME PoolInv, NEW t \in Task, LeasedWork!Put(t)
    PROVE  PoolInv'
  <1> DEFINE new == [task |-> t, visible |-> workerClock, lease |-> 0, acked |-> FALSE]
  <1>1. /\ entries' = Append(entries, new)
        /\ UNCHANGED <<workerClock, snapshots, worker>>
    BY DEF LeasedWork!Put
  <1>2. new \in LeasedEntry
    BY DEF PoolInv, LeaseTypes, LeasedEntry
  <1>3. new.task = t /\ new.visible = workerClock /\ ~new.acked
    OBVIOUS
  <1> HIDE DEF new
  <1>4. entries \in Seq(LeasedEntry)
    BY DEF PoolInv, LeaseTypes
  <1>5. /\ DOMAIN entries' = DOMAIN entries \union {Len(entries) + 1}
        /\ \A i \in DOMAIN entries : entries'[i] = entries[i]
        /\ entries'[Len(entries) + 1] = new
        /\ Len(entries) + 1 \notin DOMAIN entries
        /\ entries' \in Seq(LeasedEntry)
    BY <1>1, <1>2, <1>4
  <1>6. LeaseTypes'
    BY <1>1, <1>5 DEF PoolInv, LeaseTypes
  <1>7. DoneIsOff'
    BY <1>1, <1>5 DEF PoolInv, DoneIsOff
  <1>8. \A v \in Pool : LeaseOf(v)'
    BY <1>1, <1>5 DEF PoolInv, LeaseOf
  <1>9. LeasesDiffer'
    BY <1>1 DEF PoolInv, LeasesDiffer
  <1>10. EntriesDue'
    <2>1. workerClock <= workerClock + Timeout
      BY TimeAssumption DEF PoolInv, LeaseTypes
    <2>2. QED
      BY <1>1, <1>3, <1>5, <2>1 DEF PoolInv, EntriesDue
  <1>11. QED
    BY <1>6, <1>7, <1>8, <1>9, <1>10 DEF PoolInv

\* A lease is handed out only of an entry that is visible, when all leases of it have run out.
LEMMA ReserveKeeps ==
    ASSUME PoolInv, NEW w \in Pool, LeasedWork!Reserve(w)
    PROVE  PoolInv'
  <1>1. PICK i \in LeasedWork!Visible :
           /\ entries' = LeasedWork!Leased(i)
           /\ worker' = [worker EXCEPT ![w] = [at |-> "reserved", entry |-> i,
                              lease |-> entries[i].lease + 1, until |-> workerClock + Timeout]]
    <2> DEFINE seen == LeasedWork!Visible
               i == CHOOSE j \in seen : \A k \in seen : j <= k
    <2>1. seen \in SUBSET Nat
      BY DEF LeasedWork!Visible, PoolInv, LeaseTypes
    <2>2. seen # {}
      BY DEF LeasedWork!Reserve
    <2>3. \E j \in seen : \A k \in seen : j <= k
      <3> HIDE DEF seen
      <3>1. QED
        BY <2>1, <2>2, LeastNat
    <2>4. i \in seen
      BY <2>3
    <2>5. /\ entries' = LeasedWork!Leased(i)
          /\ worker' = [worker EXCEPT ![w] = [at |-> "reserved", entry |-> i,
                             lease |-> entries[i].lease + 1, until |-> workerClock + Timeout]]
      BY DEF LeasedWork!Reserve, LeasedWork!Goes
    <2> HIDE DEF i
    <2>6. QED
      BY <2>4, <2>5
  <1>2. UNCHANGED <<workerClock, snapshots>> /\ worker[w] = LeasedWork!Idle
    BY DEF LeasedWork!Reserve
  <1>3. /\ workerClock \in Nat /\ Timeout \in Nat /\ entries \in Seq(LeasedEntry)
        /\ \A j \in DOMAIN entries : entries[j] \in LeasedEntry
    BY TimeAssumption DEF PoolInv, LeaseTypes
  <1>4. i \in DOMAIN entries /\ ~entries[i].acked /\ entries[i].visible <= workerClock
    BY DEF LeasedWork!Visible
  <1> DEFINE new == [entries[i] EXCEPT !.lease = @ + 1, !.visible = workerClock + Timeout]
             state == [at |-> "reserved", entry |-> i, lease |-> entries[i].lease + 1,
                       until |-> workerClock + Timeout]
  <1>5. /\ new \in LeasedEntry /\ new.task = entries[i].task /\ new.lease = entries[i].lease + 1
        /\ new.visible = workerClock + Timeout /\ ~new.acked
    <2>1. entries[i] \in LeasedEntry
      BY <1>3, <1>4
    <2>2. workerClock + Timeout \in Nat /\ entries[i].lease + 1 \in Nat
      BY <1>3, <2>1 DEF LeasedEntry
    <2>3. QED
      BY <1>4, <2>1, <2>2 DEF LeasedEntry
  <1>6. entries' = [entries EXCEPT ![i] = new]
    BY <1>1 DEF LeasedWork!Leased
  <1>7. /\ state \in WorkerState /\ state.at = "reserved" /\ state.entry = i
        /\ state.lease = entries[i].lease + 1 /\ state.until = workerClock + Timeout
    BY <1>3, <1>4 DEF WorkerState, AtWork, LeasedEntry
  <1> HIDE DEF new, state
  <1>8. /\ DOMAIN entries' = DOMAIN entries /\ entries'[i] = new
        /\ \A j \in DOMAIN entries \ {i} : entries'[j] = entries[j]
        /\ entries' \in Seq(LeasedEntry)
    BY <1>3, <1>4, <1>5, <1>6
  <1>9. worker'[w] = state /\ \A v \in Pool \ {w} : worker'[v] = worker[v]
    BY <1>1 DEF PoolInv, LeaseTypes, state
  <1>10. LeaseTypes'
    <2>1. worker' \in [Pool -> WorkerState]
      BY <1>1, <1>7 DEF PoolInv, LeaseTypes, state
    <2>2. QED
      BY <1>2, <1>8, <2>1 DEF PoolInv, LeaseTypes
  <1>11. \A j \in DOMAIN entries : entries'[j].task = entries[j].task
    BY <1>5, <1>8
  <1>12. DoneIsOff'
    <2>1. \A j \in DOMAIN entries : entries[j].acked => entries'[j].acked
      BY <1>4, <1>8
    <2>2. QED
      BY <1>2, <1>8, <1>11, <2>1 DEF PoolInv, DoneIsOff
  <1>13. \A v \in Pool \ {w} : worker[v].at \in AtWork /\ worker[v].entry = i =>
             worker[v].lease <= entries[i].lease /\ worker[v].until <= workerClock
             /\ worker[v].lease \in Nat
    <2>1. ASSUME NEW v \in Pool \ {w}, worker[v].at \in AtWork, worker[v].entry = i
          PROVE  /\ worker[v].lease <= entries[i].lease /\ worker[v].until <= workerClock
                 /\ worker[v].lease \in Nat
      <3>1. LeaseOf(v) /\ worker[v] \in WorkerState
        BY DEF PoolInv, LeaseTypes
      <3>2. worker[v].lease \in Nat /\ entries[i].lease \in Nat
        BY <1>3, <1>4, <2>1, <3>1, StatesApart DEF LeasedEntry
      <3>3. QED
        BY <1>4, <2>1, <3>1, <3>2 DEF LeaseOf
    <2>2. QED
      BY <2>1
  <1>14. entries[i].lease \in Nat
    BY <1>3, <1>4 DEF LeasedEntry
  <1>15. \A v \in Pool : LeaseOf(v)'
    <2>1. LeaseOf(w)'
      BY <1>4, <1>5, <1>7, <1>8, <1>9 DEF LeaseOf, AtWork
    <2>2. ASSUME NEW v \in Pool \ {w}, worker[v].entry = i
          PROVE  LeaseOf(v)'
      <3>1. LeaseOf(v)
        BY DEF PoolInv
      <3>2. worker[v].at # "acknowledged"
        BY <1>4, <2>2, <3>1 DEF LeaseOf
      <3>3. worker[v].at \in AtWork =>
               worker[v].lease < new.lease /\ worker[v].until <= workerClock
        BY <1>5, <1>13, <1>14, <2>2
      <3>4. QED
        BY <1>2, <1>4, <1>8, <1>9, <2>2, <3>2, <3>3 DEF LeaseOf
    <2>3. ASSUME NEW v \in Pool \ {w}, worker[v].entry # i
          PROVE  LeaseOf(v)'
      BY <1>2, <1>8, <1>9, <2>3 DEF PoolInv, LeaseOf
    <2>4. QED
      BY <2>1, <2>2, <2>3
  <1>16. LeasesDiffer'
    <2>1. \A v \in Pool \ {w} : worker[v].at \in AtWork /\ worker[v].entry = i =>
             worker[v].lease # state.lease
      BY <1>7, <1>13, <1>14
    <2>2. QED
      BY <1>7, <1>9, <2>1 DEF PoolInv, LeasesDiffer
  <1>17. EntriesDue'
    BY <1>2, <1>3, <1>4, <1>5, <1>8, <1>11 DEF PoolInv, EntriesDue
  <1>18. QED
    BY <1>10, <1>12, <1>15, <1>16, <1>17 DEF PoolInv

\* An acknowledgement that the queue accepts is the last delivery's.
LEMMA AcknowledgeKeeps ==
    ASSUME PoolInv, NEW w \in Pool, LeasedWork!Acknowledge(w)
    PROVE  PoolInv'
  <1>1. worker[w].at \in {"succeeded", "failed", "unsupported"} /\ UNCHANGED <<workerClock, snapshots>>
    BY DEF LeasedWork!Acknowledge
  <1>2. CASE ~LeasedWork!Holds(w)
    <2>1. worker' = [worker EXCEPT ![w] = LeasedWork!Idle] /\ UNCHANGED entries
      BY <1>2 DEF LeasedWork!Acknowledge, LeasedWork!Dies, LeasedWork!Goes
    <2>2. QED
      BY <1>1, <2>1, StatesApart, WorkerMoves
  <1>3. CASE LeasedWork!Holds(w)
    <2> DEFINE i == worker[w].entry
               new == [entries[i] EXCEPT !.acked = TRUE]
               state == [at |-> "acknowledged", entry |-> i, lease |-> worker[w].lease,
                         outcome |-> worker[w].at]
    <2>1. entries' = [entries EXCEPT ![i].acked = TRUE] /\ worker' = [worker EXCEPT ![w] = state]
      BY <1>3 DEF LeasedWork!Acknowledge, LeasedWork!Goes
    <2>2. LeaseOf(w) /\ worker[w] \in WorkerState /\ worker[w].at \in AtWork
      BY <1>1 DEF PoolInv, LeaseTypes, AtWork
    <2>3. i \in DOMAIN entries /\ worker[w].lease = entries[i].lease /\ i \in Nat /\ worker[w].lease \in Nat
      BY <1>3, <2>2, StatesApart DEF LeaseOf, LeasedWork!Holds
    <2>4. entries \in Seq(LeasedEntry) /\ \A j \in DOMAIN entries : entries[j] \in LeasedEntry
      BY DEF PoolInv, LeaseTypes
    <2>5. /\ state \in WorkerState /\ state.at = "acknowledged" /\ state.entry = i
          /\ state.lease = worker[w].lease
      BY <1>1, <2>3 DEF WorkerState, Acknowledged
    <2>6. /\ new \in LeasedEntry /\ new.task = entries[i].task /\ new.lease = entries[i].lease
          /\ new.visible = entries[i].visible /\ new.acked
      BY <2>3, <2>4 DEF LeasedEntry
    <2>7. entries' = [entries EXCEPT ![i] = new]
      BY <2>1
    <2> HIDE DEF new, state, i
    <2>8. /\ DOMAIN entries' = DOMAIN entries /\ entries'[i] = new
          /\ \A j \in DOMAIN entries \ {i} : entries'[j] = entries[j]
          /\ entries' \in Seq(LeasedEntry)
      BY <2>3, <2>4, <2>6, <2>7
    <2>9. /\ worker'[w] = state /\ worker' \in [Pool -> WorkerState]
          /\ \A v \in Pool \ {w} : worker'[v] = worker[v]
      BY <2>1, <2>5 DEF PoolInv, LeaseTypes
    <2>10. \A j \in DOMAIN entries : /\ entries'[j].task = entries[j].task
                                     /\ entries'[j].lease = entries[j].lease
                                     /\ entries'[j].visible = entries[j].visible
                                     /\ entries[j].acked => entries'[j].acked
      BY <2>6, <2>8
    <2>11. LeaseTypes'
      BY <1>1, <2>8, <2>9 DEF PoolInv, LeaseTypes
    <2>12. DoneIsOff'
      BY <1>1, <2>8, <2>10 DEF PoolInv, DoneIsOff
    <2>13. \A v \in Pool : LeaseOf(v)'
      <3>1. LeaseOf(w)'
        BY <2>3, <2>5, <2>6, <2>8, <2>9 DEF LeaseOf, AtWork
      <3>2. \A v \in Pool \ {w} : LeaseOf(v)'
        BY <1>1, <2>8, <2>9, <2>10 DEF PoolInv, LeaseOf
      <3>3. QED
        BY <3>1, <3>2
    <2>14. LeasesDiffer'
      <3>1. state.at \notin AtWork
        BY <2>5 DEF AtWork
      <3>2. QED
        BY <2>9, <3>1 DEF PoolInv, LeasesDiffer
    <2>15. EntriesDue'
      BY <1>1, <2>8, <2>10 DEF PoolInv, EntriesDue
    <2>16. QED
      BY <2>11, <2>12, <2>13, <2>14, <2>15 DEF PoolInv
  <1>4. QED
    BY <1>2, <1>3

LEMMA PoolStep ==
    ASSUME PoolInv, [LeasedWork!Next]_workerVars
    PROVE  PoolInv'
  <1>1. ASSUME NEW t \in Task, LeasedWork!Put(t) PROVE PoolInv'
    BY <1>1, PutKeeps
  <1>2. ASSUME NEW t \in Task, LeasedWork!Announce(t) PROVE PoolInv'
    <2>1. /\ snapshots' = [snapshots EXCEPT ![t] = "queued"]
          /\ UNCHANGED <<workerClock, entries, worker>>
      BY <1>2 DEF LeasedWork!Announce
    <2>2. \A u \in Task : snapshots'[u] = IF u = t THEN "queued" ELSE snapshots[u]
      BY <2>1 DEF PoolInv, LeaseTypes
    <2>3. LeaseTypes'
      BY <2>1 DEF PoolInv, LeaseTypes
    <2>4. DoneIsOff'
      BY <2>1, <2>2 DEF PoolInv, DoneIsOff
    <2>5. (\A w \in Pool : LeaseOf(w)') /\ LeasesDiffer'
      BY <2>1 DEF PoolInv, LeaseOf, LeasesDiffer
    <2>6. EntriesDue'
      BY <2>1 DEF PoolInv, EntriesDue
    <2>7. QED
      BY <2>3, <2>4, <2>5, <2>6 DEF PoolInv
  <1>3. CASE LeasedWork!Shutdown \/ UNCHANGED workerVars
    <2>1. UNCHANGED <<workerClock, entries, snapshots, worker>>
      BY <1>3 DEF LeasedWork!Shutdown, workerVars
    <2>2. QED
      BY <2>1 DEF PoolInv, LeaseTypes, DoneIsOff, LeaseOf, LeasesDiffer, EntriesDue
  <1>4. CASE LeasedWork!Advance
    <2>1. workerClock' = workerClock + 1 /\ UNCHANGED <<entries, snapshots, worker>>
      BY <1>4 DEF LeasedWork!Advance
    <2>2. LeaseTypes' /\ DoneIsOff' /\ LeasesDiffer'
      BY <2>1 DEF PoolInv, LeaseTypes, DoneIsOff, LeasesDiffer
    <2>3. \A w \in Pool : LeaseOf(w)'
      <3>1. ASSUME NEW w \in Pool, worker[w].at \in AtWork, worker[w].until <= workerClock
            PROVE  worker[w].until <= workerClock + 1
        <4>1. worker[w].until \in Nat /\ workerClock \in Nat
          BY <3>1, StatesApart DEF PoolInv, LeaseTypes
        <4>2. QED
          BY <3>1, <4>1
      <3>2. QED
        BY <2>1, <3>1 DEF PoolInv, LeaseOf
    <2>4. EntriesDue'
      <3>0. \A i \in DOMAIN entries : entries[i] \in LeasedEntry
        BY DEF PoolInv, LeaseTypes
      <3>1. \A i \in DOMAIN entries : entries[i].visible \in Nat
        BY <3>0 DEF LeasedEntry
      <3>2. workerClock \in Nat /\ Timeout \in Nat
        BY TimeAssumption DEF PoolInv, LeaseTypes
      <3>3. \A i \in DOMAIN entries : entries[i].visible <= workerClock + Timeout
               => entries[i].visible <= (workerClock + 1) + Timeout
        BY <3>1, <3>2
      <3>4. QED
        BY <2>1, <3>3 DEF PoolInv, EntriesDue
    <2>5. QED
      BY <2>2, <2>3, <2>4 DEF PoolInv
  <1>5. ASSUME NEW w \in Pool, LeasedWork!Step(w) PROVE PoolInv'
    <2>0. worker[w] \in WorkerState /\ \A u \in AtWork : u # "acknowledged"
      BY DEF PoolInv, LeaseTypes, AtWork
    <2>1. CASE LeasedWork!Reserve(w)
      BY <2>1, ReserveKeeps
    <2>2. CASE LeasedWork!RecordRunning(w)
      <3> DEFINE after == [worker[w] EXCEPT !.at = "handling"]
      <3>1. /\ worker[w].at = "reserved" /\ worker[w].at \in AtWork
            /\ LeasedWork!Record(w, "running", after)
            /\ UNCHANGED <<workerClock, entries>>
        BY <2>2 DEF LeasedWork!RecordRunning, AtWork
      <3>2. /\ after \in WorkerState /\ after.at = "handling" /\ after.entry = worker[w].entry
            /\ after.lease = worker[w].lease /\ after.until = worker[w].until
        BY <2>0, <3>1, StatesApart DEF WorkerState, AtWork
      <3> HIDE DEF after
      <3>3. QED
        BY <3>1, <3>2, RecordMoves
    <2>3. ASSUME NEW outcome \in {"succeeded", "failed", "lost", "unsupported"},
                 LeasedWork!Handle(w, outcome)
          PROVE  PoolInv'
      <3> DEFINE after == [worker[w] EXCEPT !.at = outcome]
      <3>1. /\ worker[w].at = "handling" /\ worker[w].at \in AtWork
            /\ worker' = [worker EXCEPT ![w] = after]
            /\ UNCHANGED <<workerClock, entries, snapshots>>
        BY <2>3 DEF LeasedWork!Handle, LeasedWork!Goes, AtWork
      <3>2. /\ after \in WorkerState /\ after.at = outcome /\ after.entry = worker[w].entry
            /\ after.lease = worker[w].lease /\ after.until = worker[w].until
        BY <2>0, <3>1, StatesApart DEF WorkerState, AtWork
      <3> HIDE DEF after
      <3>3. QED
        BY <3>1, <3>2, WorkerMoves
    <2>4. CASE LeasedWork!RecordLost(w)
      <3>1. /\ worker[w].at \in AtWork
            /\ LeasedWork!Record(w, "queued", LeasedWork!Idle)
            /\ UNCHANGED <<workerClock, entries>>
        BY <2>4 DEF LeasedWork!RecordLost, AtWork
      <3>2. QED
        BY <3>1, StatesApart, RecordMoves
    <2>5. CASE LeasedWork!Acknowledge(w)
      BY <2>5, AcknowledgeKeeps
    <2>6. CASE LeasedWork!RecordOutcome(w)
      <3>1. worker[w].at = "acknowledged" /\ UNCHANGED <<workerClock, entries>>
        BY <2>6 DEF LeasedWork!RecordOutcome
      <3>2. worker[w].outcome \in {"succeeded", "failed", "unsupported"}
        BY <2>0, <3>1, StatesApart DEF Acknowledged
      <3>3. CASE worker[w].outcome = "unsupported"
        <4>1. worker' = [worker EXCEPT ![w] = LeasedWork!Idle] /\ UNCHANGED snapshots
          BY <2>6, <3>3 DEF LeasedWork!RecordOutcome, LeasedWork!Dies, LeasedWork!Goes
        <4>2. QED
          BY <3>1, <4>1, StatesApart, WorkerMoves
      <3>4. CASE worker[w].outcome \in {"succeeded", "failed"}
        <4>1. LeasedWork!Record(w, worker[w].outcome, LeasedWork!Idle)
          BY <2>6, <3>4 DEF LeasedWork!RecordOutcome
        <4>2. QED
          BY <3>1, <3>4, <4>1, StatesApart, RecordMoves
      <3>5. QED
        BY <3>2, <3>3, <3>4
    <2>7. QED
      BY <1>5, <2>1, <2>2, <2>3, <2>4, <2>5, <2>6 DEF LeasedWork!Step
  <1>6. QED
    BY <1>1, <1>2, <1>3, <1>4, <1>5 DEF LeasedWork!Next

\* An instance counts like the module that instantiates it.
LEMMA CountedAlike == \A S : LeasedWork!Cardinality(S) = Cardinality(S)
  BY DEF LeasedWork!Cardinality, Cardinality

\* What the invariant says of leases.
LEMMA PoolInvHolds == PoolInv => LeasedWork!LeasesHold
  <1> SUFFICES ASSUME PoolInv PROVE LeasedWork!LeasesHold
    OBVIOUS
  <1>1. ASSUME NEW i \in DOMAIN entries
        PROVE  Cardinality(LeasedWork!HoldersOf(i)) <= 1
    <2> DEFINE S == LeasedWork!HoldersOf(i)
    <2>1. \A w, v \in S : w = v
      <3>1. ASSUME NEW w \in S
            PROVE  /\ w \in Pool /\ worker[w].at \in AtWork /\ worker[w].entry = i
                   /\ worker[w].lease = entries[i].lease
        <4>1. /\ w \in Pool /\ worker[w].at \in AtWork /\ worker[w].entry = i
              /\ worker[w].until > workerClock
          BY DEF LeasedWork!HoldersOf, AtWork
        <4>2. LeaseOf(w) /\ worker[w].until \in Nat /\ workerClock \in Nat
          BY <4>1, StatesApart DEF PoolInv, LeaseTypes
        <4>3. QED
          BY <4>1, <4>2 DEF LeaseOf
      <3>2. QED
        BY <3>1 DEF PoolInv, LeasesDiffer
    <2> HIDE DEF S
    <2>2. S = {} \/ \E w : S = {w}
      BY <2>1
    <2>3. Cardinality(S) \in {0, 1}
      BY <2>2, FS_EmptySet, FS_Singleton
    <2>4. QED
      BY <2>3 DEF S
  <1>2. \A w \in Pool : worker[w].at = "acknowledged" =>
           worker[w].lease = entries[worker[w].entry].lease
    BY DEF PoolInv, LeaseOf
  <1>3. EntriesDue
    BY DEF PoolInv
  <1>4. \A i \in DOMAIN entries :
           /\ Cardinality(LeasedWork!HoldersOf(i)) <= 1
           /\ ~entries[i].acked => entries[i].visible <= workerClock + Timeout
    BY <1>1, <1>3 DEF EntriesDue
  <1>5. DoneIsOff
    BY DEF PoolInv
  <1>6. QED
    BY <1>2, <1>4, <1>5, CountedAlike DEF LeasedWork!LeasesHold, DoneIsOff

\* However long handlers run and threads are preempted, a task of lab 11 is in the
\* hands of one worker while its lease runs, comes back when it has run out, and is said
\* to be done only when a delivery of it was acknowledged, the last one of its entry.
THEOREM LeasesAlwaysHold == LeasedWork!Spec => []LeasedWork!LeasesHold
  <1>1. LeasedWork!Init => PoolInv
    <2> SUFFICES ASSUME LeasedWork!Init PROVE PoolInv
      OBVIOUS
    <2>1. LeaseTypes
      BY StatesApart DEF LeasedWork!Init, LeaseTypes
    <2>2. DOMAIN entries = {} /\ \A w \in Pool : worker[w] = LeasedWork!Idle
      BY DEF LeasedWork!Init
    <2>3. \A t \in Task : snapshots[t] = LeasedWork!NoSnapshot
      BY DEF LeasedWork!Init
    <2>4. LeasedWork!NoSnapshot \notin {"succeeded", "failed"}
      BY DEF LeasedWork!NoSnapshot
    <2>5. QED
      BY <2>1, <2>2, <2>3, <2>4, StatesApart
      DEF PoolInv, DoneIsOff, LeaseOf, LeasesDiffer, EntriesDue
  <1>2. PoolInv /\ [LeasedWork!Next]_workerVars => PoolInv'
    BY PoolStep
  <1>3. QED
    BY <1>1, <1>2, PoolInvHolds, PTL DEF LeasedWork!Spec, LeasedWork!vars, workerVars

-----------------------------------------------------------------------------
(* Latency in the admission queue *)

LongestWait == ServiceTime * Queue!Rounds

WaitingItem == [id : Nat, accepted : Nat]
ServedItem == [id : Nat, accepted : Nat, started : Nat, completes : Nat]

QueueTypes(q) ==
    /\ q \in [pending : Seq(WaitingItem), inflight : SUBSET ServedItem,
              completed : SUBSET ServedItem]
    /\ IsFiniteSet(q.inflight) /\ Cardinality(q.inflight) <= QueueWorkers
    /\ q.pending # <<>> => Cardinality(q.inflight) = QueueWorkers
    /\ Len(q.pending) <= QueueLimit

\* Who is served was started in time, in the order of arrival, and before whoever waits.
ServedWell(q) ==
    \A c \in q.completed \union q.inflight :
        /\ c.completes = c.started + ServiceTime
        /\ c.accepted <= c.started /\ c.started <= c.accepted + LongestWait
        /\ \A d \in q.completed \union q.inflight : c.id < d.id => c.started <= d.started
        /\ \A i \in q.inflight : c.started <= i.completes
        /\ \A k \in DOMAIN q.pending : c.id < q.pending[k].id

\* The workers that will be free z services before a deadline.
FreeBy(q, deadline, z) == {i \in q.inflight : i.completes + z * ServiceTime <= deadline}

\* Who waits at place z * QueueWorkers + r will be started in time, because r workers
\* are free for him z services before.
WaitsWell(q) ==
    \A k \in DOMAIN q.pending :
        /\ \A j \in DOMAIN q.pending : j < k => q.pending[j].id < q.pending[k].id
        /\ \A i \in q.inflight : q.pending[k].accepted <= i.completes
        /\ \A z \in Nat, r \in 1..QueueWorkers : k = z * QueueWorkers + r =>
              Cardinality(FreeBy(q, q.pending[k].accepted + LongestWait, z)) >= r

QueueGood(q) == QueueTypes(q) /\ ServedWell(q) /\ WaitsWell(q)

\* Nothing is in the future.
QueueKnown(q, m, t) ==
    /\ \A c \in q.completed \union q.inflight : c.id <= m /\ c.started <= t
    /\ \A c \in q.completed \union q.inflight : c.accepted <= QueueTime
    /\ \A k \in DOMAIN q.pending : q.pending[k].id <= m /\ q.pending[k].accepted <= QueueTime

QueueInv ==
    /\ now \in Nat /\ submitted \in Nat
    /\ QueueGood(Queue!State) /\ QueueKnown(Queue!State, submitted, now)

LEMMA Products ==
    ASSUME NEW a \in Nat, NEW b \in Nat
    PROVE  a * b \in Nat /\ (a + 1) * b = a * b + b /\ 0 * b = 0 /\ a * b = b * a
  OBVIOUS

LEMMA ProductsGrow ==
    ASSUME NEW a \in Nat, NEW b \in Nat, NEW c \in Nat, a <= b
    PROVE  a * c <= b * c
  <1>1. b - a \in Nat /\ (b - a) * c \in Nat
    BY Products
  <1>2. b * c = a * c + (b - a) * c
    OBVIOUS
  <1>3. QED
    BY <1>1, <1>2, Products

\* A full queue is gone through in Rounds services, which are not more than its places.
LEMMA RoundsFacts ==
    /\ Queue!Rounds \in Nat /\ Queue!Rounds <= QueueLimit
    /\ \A z \in Nat, r \in 1..QueueWorkers :
          z * QueueWorkers + r <= QueueLimit => z + 1 <= Queue!Rounds
  <1> DEFINE a == QueueLimit + QueueWorkers - 1
             b == QueueWorkers
             d == Queue!Rounds
  <1>1. a \in Nat /\ b \in Nat /\ b > 0 /\ QueueLimit \in Nat
    BY QueueAssumption
  <1>2. d \in Nat /\ d * b <= a /\ a < (d + 1) * b
    BY <1>1 DEF Queue!Rounds
  <1> HIDE DEF d
  <1>3. d <= QueueLimit
    <2>1. SUFFICES ASSUME QueueLimit + 1 <= d PROVE FALSE
      BY <1>1, <1>2
    <2>2. (QueueLimit + 1) * b <= d * b
      BY <1>1, <1>2, <2>1, ProductsGrow
    <2>3. (QueueLimit + 1) * b = QueueLimit * b + b /\ QueueLimit * b \in Nat
      BY <1>1, Products
    <2>4. QueueLimit * 1 <= QueueLimit * b
      BY <1>1, ProductsGrow, Products
    <2>5. QED
      BY <1>1, <1>2, <2>2, <2>3, <2>4
  <1>4. ASSUME NEW z \in Nat, NEW r \in 1..QueueWorkers, z * QueueWorkers + r <= QueueLimit
        PROVE  z + 1 <= d
    <2>1. SUFFICES ASSUME d + 1 <= z + 1 PROVE FALSE
      BY <1>2
    <2>2. (d + 1) * b <= (z + 1) * b
      BY <1>1, <1>2, <2>1, ProductsGrow
    <2>3. (z + 1) * b = z * b + b /\ z * b \in Nat /\ (d + 1) * b \in Nat
      BY <1>1, <1>2, Products
    <2>4. r \in Int /\ r >= 1
      BY <1>1
    <2>5. QED
      BY <1>1, <1>2, <1>4, <2>2, <2>3, <2>4
  <1>5. QED
    BY <1>2, <1>3, <1>4 DEF d

LEMMA WaitFacts ==
    /\ LongestWait \in Nat
    /\ LongestWait <= QueueLimit * ServiceTime
    /\ \A z \in Nat : z + 1 <= Queue!Rounds => ServiceTime + z * ServiceTime <= LongestWait
  <1>1. ServiceTime \in Nat /\ QueueLimit \in Nat /\ Queue!Rounds \in Nat
    BY QueueAssumption, RoundsFacts
  <1>2. LongestWait = Queue!Rounds * ServiceTime /\ LongestWait \in Nat
    BY <1>1, Products DEF LongestWait
  <1>3. Queue!Rounds * ServiceTime <= QueueLimit * ServiceTime
    BY <1>1, RoundsFacts, ProductsGrow
  <1>4. ASSUME NEW z \in Nat, z + 1 <= Queue!Rounds
        PROVE  ServiceTime + z * ServiceTime <= LongestWait
    <2>1. (z + 1) * ServiceTime <= Queue!Rounds * ServiceTime
      BY <1>1, <1>4, ProductsGrow
    <2>2. (z + 1) * ServiceTime = z * ServiceTime + ServiceTime /\ z * ServiceTime \in Nat
      BY <1>1, Products
    <2>3. QED
      BY <1>1, <1>2, <2>1, <2>2
  <1>5. QED
    BY <1>2, <1>3, <1>4

\* Of the items that are served one completes first.
LEMMA NextDueIs ==
    ASSUME NEW S \in SUBSET ServedItem, S # {}
    PROVE  /\ Queue!NextDue(S) \in S
           /\ \A j \in S : Queue!NextDue(S).completes <= j.completes
  <1> DEFINE First(i) == \A j \in S :
                 i.completes < j.completes \/ (i.completes = j.completes /\ i.id <= j.id)
             times == {i.completes : i \in S}
  <1>1. \A i \in S : i.completes \in Nat /\ i.id \in Nat
    BY DEF ServedItem
  <1>2. PICK t \in times : \A u \in times : t <= u
    <2>1. times \in SUBSET Nat /\ times # {}
      BY <1>1
    <2> HIDE DEF times
    <2>2. QED
      BY <2>1, LeastNat
  <1> DEFINE ids == {i.id : i \in {j \in S : j.completes = t}}
  <1>3. PICK n \in ids : \A m \in ids : n <= m
    <2>1. ids \in SUBSET Nat /\ ids # {}
      BY <1>1, <1>2
    <2> HIDE DEF ids
    <2>2. QED
      BY <2>1, LeastNat
  <1>4. PICK i \in S : i.completes = t /\ i.id = n
    BY <1>3
  <1>5. ASSUME NEW j \in S
        PROVE  i.completes < j.completes \/ (i.completes = j.completes /\ i.id <= j.id)
    <2>1. t <= j.completes
      BY <1>2
    <2>2. CASE j.completes = t
      <3>1. j.id \in ids
        BY <2>2
      <3>2. QED
        BY <1>3, <1>4, <2>2, <3>1
    <2>3. CASE j.completes # t
      BY <1>1, <1>4, <2>1, <2>3
    <2>4. QED
      BY <2>2, <2>3
  <1>6. \E x \in S : First(x)
    BY <1>5
  <1>7. Queue!NextDue(S) = CHOOSE x \in S : First(x)
    BY DEF Queue!NextDue
  <1>8. Queue!NextDue(S) \in S /\ First(Queue!NextDue(S))
    <2> HIDE DEF First
    <2>1. QED
      BY <1>6, <1>7
  <1>9. QED
    BY <1>1, <1>8
Left(q) == Len(q.pending) + Cardinality(q.inflight)

Served(q) == q.completed \union q.inflight

\* The first item that is due, and what is known of it.
Due(q, item) ==
    item \in q.inflight /\ \A j \in q.inflight : item.completes <= j.completes

LEMMA CardOfPart ==
    ASSUME NEW S, IsFiniteSet(S), NEW T \in SUBSET S
    PROVE  IsFiniteSet(T) /\ Cardinality(T) <= Cardinality(S)
           /\ Cardinality(T) \in Nat /\ Cardinality(S) \in Nat
  BY FS_Subset, FS_CardinalityType

LEMMA SomeOf ==
    ASSUME NEW S, IsFiniteSet(S), Cardinality(S) >= 1
    PROVE  \E x \in S : TRUE
  <1>1. Cardinality(S) # 0
    BY FS_CardinalityType
  <1>2. S # {}
    BY <1>1, FS_EmptySet
  <1>3. QED
    BY <1>2

LEMMA WithoutOne ==
    ASSUME NEW S, IsFiniteSet(S), NEW x
    PROVE  /\ IsFiniteSet(S \ {x}) /\ Cardinality(S \ {x}) \in Nat /\ Cardinality(S) \in Nat
           /\ Cardinality(S \ {x}) + 1 >= Cardinality(S)
  <1>1. Cardinality(S) \in Nat
    BY FS_CardinalityType
  <1>2. CASE x \in S
    <2>1. IsFiniteSet(S \ {x}) /\ Cardinality(S \ {x}) = Cardinality(S) - 1
      BY <1>2, FS_RemoveElement
    <2>2. Cardinality(S \ {x}) \in Nat
      BY <2>1, FS_CardinalityType
    <2>3. QED
      BY <1>1, <2>1, <2>2
  <1>3. CASE x \notin S
    <2>1. S \ {x} = S
      BY <1>3
    <2>2. IsFiniteSet(S \ {x}) /\ Cardinality(S \ {x}) = Cardinality(S)
      BY <2>1, Zenon
    <2>3. QED
      BY <1>1, <2>2
  <1>4. QED
    BY <1>2, <1>3

\* Nobody waits: a service that ends leaves its worker free.
LEMMA DropKeeps ==
    ASSUME NEW q, QueueGood(q), NEW at \in Nat, NEW m \in Nat, QueueKnown(q, m, at),
           NEW item, Due(q, item), q.pending = <<>>,
           NEW p, p = [completed |-> q.completed \union {item}, inflight |-> q.inflight \ {item},
                       pending |-> <<>>]
    PROVE  /\ QueueGood(p) /\ QueueKnown(p, m, at)
           /\ Left(p) = Left(q) - 1 /\ Served(p) = Served(q)
  <1>1. /\ q.inflight \in SUBSET ServedItem /\ q.completed \in SUBSET ServedItem
        /\ IsFiniteSet(q.inflight) /\ Cardinality(q.inflight) <= QueueWorkers
    BY DEF QueueGood, QueueTypes
  <1>2. /\ p.completed = q.completed \union {item} /\ p.inflight = q.inflight \ {item}
        /\ p.pending = <<>> /\ item \in q.inflight
    BY DEF Due
  <1>3. /\ IsFiniteSet(p.inflight) /\ Cardinality(p.inflight) = Cardinality(q.inflight) - 1
        /\ Cardinality(q.inflight) \in Nat
    BY <1>1, <1>2, FS_RemoveElement, FS_CardinalityType
  <1>4. p.completed \union p.inflight = q.completed \union q.inflight
    BY <1>2
  <1>5. QueueTypes(p)
    <2>1. p \in [pending : Seq(WaitingItem), inflight : SUBSET ServedItem,
                 completed : SUBSET ServedItem]
      BY <1>1, <1>2
    <2>2. Cardinality(p.inflight) <= QueueWorkers /\ Len(p.pending) <= QueueLimit
      BY <1>1, <1>2, <1>3, QueueAssumption
    <2>3. QED
      BY <1>2, <1>3, <2>1, <2>2 DEF QueueTypes
  <1>6. ServedWell(p)
    BY <1>2, <1>4 DEF QueueGood, ServedWell
  <1>7. WaitsWell(p)
    BY <1>2 DEF WaitsWell
  <1>8. QueueKnown(p, m, at)
    BY <1>2, <1>4 DEF QueueKnown
  <1>9. Left(p) = Left(q) - 1
    BY <1>2, <1>3 DEF Left
  <1>10. QED
    BY <1>4, <1>5, <1>6, <1>7, <1>8, <1>9 DEF QueueGood, Served

\* Somebody waits: the first one takes over.
LEMMA TakeOverKeeps ==
    ASSUME NEW q, QueueGood(q), NEW at \in Nat, NEW m \in Nat, QueueKnown(q, m, at),
           NEW item, Due(q, item), item.completes <= at, q.pending # <<>>,
           NEW p, p = [completed |-> q.completed \union {item},
                       inflight |-> (q.inflight \ {item}) \union {Queue!TakesOver(q, item, at)},
                       pending |-> Tail(q.pending)]
    PROVE  /\ QueueGood(p) /\ QueueKnown(p, m, at)
           /\ Left(p) = Left(q) - 1 /\ Served(q) \subseteq Served(p)
  <1>1. /\ q.inflight \in SUBSET ServedItem /\ q.completed \in SUBSET ServedItem
        /\ IsFiniteSet(q.inflight) /\ Cardinality(q.inflight) = QueueWorkers
        /\ q.pending \in Seq(WaitingItem) /\ Len(q.pending) <= QueueLimit
        /\ QueueWorkers \in Nat /\ ServiceTime \in Nat
    BY QueueAssumption DEF QueueGood, QueueTypes
  <1>2. PICK first, new :
          /\ first = q.pending[1]
          /\ new = [id |-> first.id, accepted |-> first.accepted, started |-> item.completes,
                    completes |-> item.completes + ServiceTime]
    OBVIOUS
  <1>3. /\ Head(q.pending) = first /\ first \in WaitingItem /\ 1 \in DOMAIN q.pending
        /\ DOMAIN q.pending = 1..Len(q.pending) /\ Len(q.pending) \in Nat
        /\ item \in ServedItem /\ item \in q.inflight
    BY <1>1, <1>2 DEF Due
  <1>4. /\ first.id \in Nat /\ first.accepted \in Nat /\ item.completes \in Nat
        /\ \A c \in ServedItem : c.id \in Nat /\ c.started \in Nat /\ c.completes \in Nat
                                 /\ c.accepted \in Nat
    BY <1>3 DEF WaitingItem, ServedItem
  <1>5. /\ p.completed = q.completed \union {item}
        /\ p.inflight = (q.inflight \ {item}) \union {new}
        /\ p.pending = Tail(q.pending)
    BY <1>2, <1>3 DEF Queue!TakesOver, Queue!Started
  <1>6. /\ new \in ServedItem /\ new.id = first.id /\ new.accepted = first.accepted
        /\ new.started = item.completes /\ new.completes = item.completes + ServiceTime
    BY <1>1, <1>2, <1>4 DEF ServedItem
  <1>7. /\ p.pending \in Seq(WaitingItem) /\ Len(p.pending) = Len(q.pending) - 1
        /\ \A k \in DOMAIN p.pending : /\ k \in Nat \ {0} /\ k + 1 \in DOMAIN q.pending
                                        /\ p.pending[k] = q.pending[k + 1]
                                        /\ q.pending[k + 1] \in WaitingItem
    BY <1>1, <1>3, <1>5
  <1>8. \A c \in q.completed \union q.inflight :
          /\ c \in ServedItem
          /\ c.completes = c.started + ServiceTime
          /\ c.accepted <= c.started /\ c.started <= c.accepted + LongestWait
          /\ \A d \in q.completed \union q.inflight : c.id < d.id => c.started <= d.started
          /\ \A i \in q.inflight : c.started <= i.completes
          /\ \A k \in DOMAIN q.pending : c.id < q.pending[k].id
    BY <1>1 DEF QueueGood, ServedWell
  <1>9. \A k \in DOMAIN q.pending :
          /\ \A j \in DOMAIN q.pending : j < k => q.pending[j].id < q.pending[k].id
          /\ \A i \in q.inflight : q.pending[k].accepted <= i.completes
          /\ \A z \in Nat, r \in 1..QueueWorkers : k = z * QueueWorkers + r =>
                Cardinality(FreeBy(q, q.pending[k].accepted + LongestWait, z)) >= r
    BY DEF QueueGood, WaitsWell
  <1> HIDE DEF LongestWait
  <1>10. LongestWait \in Nat
    BY WaitFacts
  <1>11. \A c \in q.completed \union q.inflight : c.id < new.id
    BY <1>2, <1>3, <1>6, <1>8
  <1>12. /\ IsFiniteSet(p.inflight) /\ Cardinality(p.inflight) = QueueWorkers
         /\ IsFiniteSet(q.inflight \ {item})
    <2>1. /\ IsFiniteSet(q.inflight \ {item})
          /\ Cardinality(q.inflight \ {item}) = Cardinality(q.inflight) - 1
      BY <1>1, <1>3, FS_RemoveElement
    <2>2. new \notin q.inflight \ {item}
      BY <1>4, <1>6, <1>11
    <2>3. /\ IsFiniteSet((q.inflight \ {item}) \union {new})
          /\ Cardinality((q.inflight \ {item}) \union {new}) = Cardinality(q.inflight \ {item}) + 1
      BY <2>1, <2>2, FS_AddElement
    <2>4. /\ IsFiniteSet(p.inflight)
          /\ Cardinality(p.inflight) = Cardinality(q.inflight \ {item}) + 1
      BY <1>5, <2>3, Zenon
    <2>5. QED
      BY <1>1, <2>1, <2>4
  <1>13. \A i \in p.inflight : item.completes <= i.completes /\ i \in ServedItem
    <2>1. ASSUME NEW i \in p.inflight PROVE item.completes <= i.completes /\ i \in ServedItem
      <3>1. CASE i = new
        BY <1>1, <1>4, <1>6, <3>1
      <3>2. CASE i \in q.inflight
        BY <1>1, <3>2 DEF Due
      <3>3. QED
        BY <1>5, <3>1, <3>2
    <2>2. QED
      BY <2>1
  <1>14. new.started <= new.accepted + LongestWait
    <2>1. 0 \in Nat /\ 1 \in 1..QueueWorkers /\ 1 = 0 * QueueWorkers + 1
      BY QueueAssumption
    <2>2. Cardinality(FreeBy(q, first.accepted + LongestWait, 0)) >= 1
      BY <1>2, <1>3, <1>9, <2>1
    <2>3. FreeBy(q, first.accepted + LongestWait, 0) \subseteq q.inflight
      BY DEF FreeBy
    <2>4. \E x \in FreeBy(q, first.accepted + LongestWait, 0) : TRUE
      BY <1>1, <2>2, <2>3, FS_Subset, SomeOf
    <2>5. PICK i \in q.inflight : i.completes + 0 * ServiceTime <= first.accepted + LongestWait
      BY <2>4 DEF FreeBy
    <2>6. 0 * ServiceTime = 0 /\ i.completes \in Nat /\ item.completes <= i.completes
      BY <1>1, <1>4, Products DEF Due
    <2>7. i.completes <= first.accepted + LongestWait
      BY <2>5, <2>6
    <2>8. QED
      BY <1>4, <1>6, <1>10, <2>6, <2>7
  <1>15. QueueTypes(p)
    <2>1. p \in [pending : Seq(WaitingItem), inflight : SUBSET ServedItem,
                 completed : SUBSET ServedItem]
      <3>1. p.inflight \in SUBSET ServedItem /\ p.completed \in SUBSET ServedItem
        BY <1>1, <1>3, <1>5, <1>6
      <3>2. p = [completed |-> p.completed, inflight |-> p.inflight, pending |-> p.pending]
        OBVIOUS
      <3>3. QED
        BY <1>7, <3>1, <3>2
    <2>2. Len(p.pending) <= QueueLimit
      BY <1>1, <1>3, <1>7, QueueAssumption
    <2>3. QED
      BY <1>1, <1>12, <2>1, <2>2 DEF QueueTypes
  <1>16. ServedWell(p)
    <2>1. ASSUME NEW c \in p.completed \union p.inflight
          PROVE  /\ c.completes = c.started + ServiceTime
                 /\ c.accepted <= c.started /\ c.started <= c.accepted + LongestWait
                 /\ \A d \in p.completed \union p.inflight : c.id < d.id => c.started <= d.started
                 /\ \A i \in p.inflight : c.started <= i.completes
                 /\ \A k \in DOMAIN p.pending : c.id < p.pending[k].id
      <3>1. CASE c = new
        <4>1. c.accepted <= c.started
          BY <1>2, <1>3, <1>6, <1>9, <3>1
        <4>2. ASSUME NEW d \in p.completed \union p.inflight PROVE ~(c.id < d.id) \/ d = new
          <5>1. d = new \/ d \in q.completed \union q.inflight
            BY <1>3, <1>5
          <5>2. CASE d \in q.completed \union q.inflight
            <6>1. d.id < new.id /\ d \in ServedItem
              BY <1>8, <1>11, <5>2
            <6>2. d.id \in Nat /\ new.id \in Nat
              BY <1>4, <1>6, <6>1
            <6>3. QED
              BY <3>1, <6>1, <6>2
          <5>3. QED
            BY <5>1, <5>2
        <4>3. \A k \in DOMAIN p.pending : 1 < k + 1
          BY <1>7
        <4>4. \A k \in DOMAIN p.pending : c.id < p.pending[k].id
          BY <1>2, <1>3, <1>6, <1>7, <1>9, <3>1, <4>3
        <4>5. ~(new.id < new.id)
          BY <1>4, <1>6
        <4>6. QED
          BY <1>6, <1>13, <1>14, <3>1, <4>1, <4>2, <4>4, <4>5
      <3>2. CASE c \in q.completed \union q.inflight
        <4>1. c.started <= item.completes /\ c \in ServedItem
          BY <1>3, <1>8, <3>2
        <4>2. ASSUME NEW d \in p.completed \union p.inflight, c.id < d.id
              PROVE  c.started <= d.started
          <5>1. d = new \/ d \in q.completed \union q.inflight
            BY <1>3, <1>5
          <5>2. QED
            BY <1>6, <1>8, <3>2, <4>1, <4>2, <5>1
        <4>3. ASSUME NEW i \in p.inflight PROVE c.started <= i.completes
          BY <1>4, <1>13, <4>1
        <4>4. \A k \in DOMAIN p.pending : c.id < p.pending[k].id
          BY <1>7, <1>8, <3>2
        <4>5. QED
          BY <1>8, <3>2, <4>2, <4>3, <4>4
      <3>3. QED
        BY <1>3, <1>5, <3>1, <3>2
    <2>2. QED
      BY <2>1 DEF ServedWell
  <1>17. WaitsWell(p)
    <2>1. ASSUME NEW k \in DOMAIN p.pending
          PROVE  /\ \A j \in DOMAIN p.pending : j < k => p.pending[j].id < p.pending[k].id
                 /\ \A i \in p.inflight : p.pending[k].accepted <= i.completes
      <3>1. \A j \in DOMAIN p.pending : j < k => j + 1 < k + 1
        BY <1>7
      <3>2. \A j \in DOMAIN p.pending : j < k => p.pending[j].id < p.pending[k].id
        BY <1>7, <1>9, <3>1
      <3>3. p.pending[k].accepted \in Nat /\ p.pending[k].accepted <= item.completes
        BY <1>3, <1>7, <1>9 DEF WaitingItem
      <3>4. ASSUME NEW i \in p.inflight PROVE p.pending[k].accepted <= i.completes
        BY <1>4, <1>13, <3>3
      <3>5. QED
        BY <3>2, <3>4
    <2>2. ASSUME NEW k \in DOMAIN p.pending, NEW z \in Nat, NEW r \in 1..QueueWorkers,
                 k = z * QueueWorkers + r
          PROVE  Cardinality(FreeBy(p, p.pending[k].accepted + LongestWait, z)) >= r
      <3>1. PICK D : D = p.pending[k].accepted + LongestWait
        OBVIOUS
      <3>2. SUFFICES Cardinality(FreeBy(p, D, z)) >= r
        BY <3>1
      <3>3. D \in Nat /\ D = q.pending[k + 1].accepted + LongestWait
        <4>1. PICK w \in WaitingItem : w = q.pending[k + 1] /\ p.pending[k] = w
          BY <1>7
        <4>2. w.accepted \in Nat
          BY DEF WaitingItem
        <4>3. D = w.accepted + LongestWait
          BY <3>1, <4>1
        <4>4. QED
          BY <1>10, <4>1, <4>2, <4>3
      <3>4. PICK zs \in Nat, zw \in Nat :
               /\ zs = z * ServiceTime /\ (z + 1) * ServiceTime = zs + ServiceTime
               /\ zw = z * QueueWorkers /\ (z + 1) * QueueWorkers = zw + QueueWorkers
        BY <1>1, Products
      <3>5. /\ FreeBy(p, D, z) \subseteq p.inflight /\ FreeBy(q, D, z) \subseteq q.inflight
            /\ FreeBy(q, D, z + 1) \subseteq q.inflight
        BY DEF FreeBy
      <3>6. k = zw + r /\ k \in Nat /\ k + 1 \in DOMAIN q.pending
        BY <1>7, <2>2, <3>4
      <3>7. CASE r + 1 \in 1..QueueWorkers
        <4>1. k + 1 = zw + (r + 1)
          BY <3>6, <3>7
        <4>2. Cardinality(FreeBy(q, D, z)) >= r + 1
          BY <1>9, <3>3, <3>4, <3>6, <3>7, <4>1
        <4>3. FreeBy(q, D, z) \ {item} \subseteq FreeBy(p, D, z)
          BY <1>5 DEF FreeBy
        <4>4. IsFiniteSet(FreeBy(q, D, z)) /\ IsFiniteSet(FreeBy(p, D, z))
          BY <1>1, <1>12, <3>5, FS_Subset
        <4>5. /\ Cardinality(FreeBy(q, D, z) \ {item}) + 1 >= Cardinality(FreeBy(q, D, z))
              /\ Cardinality(FreeBy(q, D, z)) \in Nat
              /\ Cardinality(FreeBy(q, D, z) \ {item}) \in Nat
          BY <4>4, WithoutOne
        <4>6. /\ Cardinality(FreeBy(q, D, z) \ {item}) <= Cardinality(FreeBy(p, D, z))
              /\ Cardinality(FreeBy(p, D, z)) \in Nat
          BY <4>3, <4>4, CardOfPart
        <4>7. r \in Nat
          BY <1>1
        <4>8. QED
          BY <4>2, <4>5, <4>6, <4>7
      <3>8. CASE r = QueueWorkers
        <4>1. k + 1 = (z + 1) * QueueWorkers + 1
          BY <1>1, <3>4, <3>6, <3>8
        <4>2. z + 1 \in Nat /\ 1 \in 1..QueueWorkers
          BY QueueAssumption
        <4>3. Cardinality(FreeBy(q, D, z + 1)) >= 1
          BY <1>9, <3>3, <3>6, <4>1, <4>2
        <4>4. \E x \in FreeBy(q, D, z + 1) : TRUE
          BY <1>1, <3>5, <4>3, FS_Subset, SomeOf
        <4>5. PICK i \in q.inflight : i.completes + (z + 1) * ServiceTime <= D
          BY <4>4 DEF FreeBy
        <4>6. i.completes \in Nat /\ item.completes <= i.completes
          BY <1>1, <1>4 DEF Due
        <4>7. i.completes + (zs + ServiceTime) <= D
          BY <3>4, <4>5
        <4>8. ServiceTime \in Nat /\ item.completes \in Nat
          BY <1>1, <1>4
        <4>9. item.completes + ServiceTime + zs <= D
          <5>1. D \in Nat
            BY <3>3
          <5>2. QED
            BY <4>6, <4>7, <4>8, <5>1
        <4>10. ASSUME NEW j \in p.inflight PROVE j.completes + zs <= D
          <5>1. j.completes <= item.completes + ServiceTime /\ j.completes \in Nat
            <6>1. CASE j = new
              BY <1>1, <1>4, <1>6, <6>1
            <6>2. CASE j \in q.inflight
              <7>1. j \in ServedItem /\ j.completes = j.started + ServiceTime
                    /\ j.started <= item.completes
                BY <1>3, <1>8, <6>2
              <7>2. j.started \in Nat
                BY <1>4, <7>1
              <7>3. QED
                BY <4>8, <7>1, <7>2
            <6>3. QED
              BY <1>5, <6>1, <6>2
          <5>2. D \in Nat
            BY <3>3
          <5>3. QED
            BY <4>8, <4>9, <5>1, <5>2
        <4>11. FreeBy(p, D, z) = p.inflight
          BY <3>4, <4>10 DEF FreeBy
        <4>12. Cardinality(FreeBy(p, D, z)) = Cardinality(p.inflight)
          BY <4>11, Zenon
        <4>13. Cardinality(p.inflight) = r /\ r \in Nat
          BY <1>1, <1>12, <3>8
        <4>14. QED
          BY <4>12, <4>13
      <3>9. QED
        BY <1>1, <3>7, <3>8
    <2>3. QED
      BY <2>1, <2>2 DEF WaitsWell
  <1>18. QueueKnown(p, m, at)
    <2>1. /\ \A c \in q.completed \union q.inflight : c.id <= m /\ c.started <= at
          /\ \A c \in q.completed \union q.inflight : c.accepted <= QueueTime
          /\ \A k \in DOMAIN q.pending : q.pending[k].id <= m /\ q.pending[k].accepted <= QueueTime
      BY DEF QueueKnown
    <2>2. new.id <= m /\ new.started <= at /\ new.accepted <= QueueTime
      BY <1>2, <1>3, <1>6, <2>1
    <2>3. \A c \in p.completed \union p.inflight : c = new \/ c \in q.completed \union q.inflight
      BY <1>3, <1>5
    <2>4. QED
      BY <1>7, <2>1, <2>2, <2>3 DEF QueueKnown
  <1>19. Left(p) = Left(q) - 1
    BY <1>1, <1>3, <1>7, <1>12 DEF Left
  <1>20. Served(q) \subseteq Served(p)
    BY <1>5 DEF Served
  <1>21. QED
    BY <1>15, <1>16, <1>17, <1>18, <1>19, <1>20 DEF QueueGood
\* Nothing more is due.
Idle(q, at) == \A i \in q.inflight : i.completes > at

LEMMA CompleteKeeps ==
    ASSUME NEW q, QueueGood(q), NEW at \in Nat, NEW m \in Nat, QueueKnown(q, m, at),
           NEW p, p = Queue!CompleteOne(q, at)
    PROVE  /\ QueueGood(p) /\ QueueKnown(p, m, at) /\ Served(q) \subseteq Served(p)
           /\ \/ p = q /\ Idle(q, at)
              \/ ~Idle(q, at) /\ Left(p) = Left(q) - 1
  <1>1. q.inflight \in SUBSET ServedItem
    BY DEF QueueGood, QueueTypes
  <1>2. CASE q.inflight = {}
    BY <1>2 DEF Queue!CompleteOne, Idle, Served
  <1>3. CASE q.inflight # {}
    <2>1. PICK item : item = Queue!NextDue(q.inflight)
      OBVIOUS
    <2>2. Due(q, item)
      BY <1>1, <1>3, <2>1, NextDueIs DEF Due
    <2>3. item.completes \in Nat /\ \A i \in q.inflight : i.completes \in Nat
      BY <1>1, <2>2 DEF Due, ServedItem
    <2>4. CASE item.completes > at
      <3>1. p = q
        BY <2>1, <2>4 DEF Queue!CompleteOne
      <3>2. Idle(q, at)
        BY <2>2, <2>3, <2>4 DEF Idle, Due
      <3>3. QED
        BY <3>1, <3>2
    <2>5. CASE ~(item.completes > at)
      <3>1. ~Idle(q, at) /\ item.completes <= at
        BY <2>2, <2>3, <2>5 DEF Idle, Due
      <3>2. CASE q.pending = <<>>
        <4>1. p = [completed |-> q.completed \union {item}, inflight |-> q.inflight \ {item},
                   pending |-> <<>>]
          BY <1>3, <2>1, <2>5, <3>2 DEF Queue!CompleteOne
        <4>2. QED
          BY <2>2, <3>1, <3>2, <4>1, DropKeeps
      <3>3. CASE q.pending # <<>>
        <4>1. p = [completed |-> q.completed \union {item},
                   inflight |-> (q.inflight \ {item}) \union {Queue!TakesOver(q, item, at)},
                   pending |-> Tail(q.pending)]
          BY <1>3, <2>1, <2>5, <3>3 DEF Queue!CompleteOne
        <4>2. QED
          BY <2>2, <3>1, <3>3, <4>1, TakeOverKeeps
      <3>4. QED
        BY <3>2, <3>3
    <2>6. QED
      BY <2>4, <2>5
  <1>4. QED
    BY <1>2, <1>3

\* f is what n completions make of a state.
Completions(f, q, at, n) ==
    f = [k \in 0..n |-> IF k = 0 THEN q ELSE Queue!CompleteOne(f[k - 1], at)]

LEMMA CompletionsExist ==
    ASSUME NEW q, NEW at, NEW n \in Nat
    PROVE  \E f : Completions(f, q, at, n)
  <1> DEFINE T == {k \in Nat : ~ \E f : Completions(f, q, at, k)}
  <1>1. SUFFICES ASSUME T # {} PROVE FALSE
    BY <1>1
  <1>2. PICK i \in T : \A j \in T : i <= j
    <2>1. T \in SUBSET Nat
      OBVIOUS
    <2> HIDE DEF T
    <2>2. QED
      BY <1>1, <2>1, LeastNat
  <1>3. CASE i = 0
    <2>1. Completions([k \in 0..0 |-> q], q, at, 0)
      BY DEF Completions
    <2>2. QED
      BY <1>2, <1>3, <2>1
  <1>4. CASE i # 0
    <2>1. i - 1 \in Nat /\ i - 1 \notin T /\ i \in Nat
      BY <1>2, <1>4
    <2>2. PICK f : Completions(f, q, at, i - 1)
      BY <2>1
    <2> DEFINE h == [k \in 0..i |-> IF k = i THEN Queue!CompleteOne(f[i - 1], at) ELSE f[k]]
    <2>3. ASSUME NEW k \in 0..i
          PROVE  h[k] = IF k = 0 THEN q ELSE Queue!CompleteOne(h[k - 1], at)
      <3>1. CASE k = i
        <4>1. h[i - 1] = f[i - 1] /\ h[i] = Queue!CompleteOne(f[i - 1], at)
          BY <2>1, <1>4
        <4>2. QED
          BY <1>4, <3>1, <4>1
      <3>2. CASE k # i
        <4>1. k \in 0..(i - 1) /\ h[k] = f[k]
          BY <2>1, <3>2
        <4>2. f[k] = IF k = 0 THEN q ELSE Queue!CompleteOne(f[k - 1], at)
          BY <2>2, <4>1 DEF Completions
        <4>3. k # 0 => k - 1 \in 0..i /\ k - 1 # i
          BY <2>1, <4>1
        <4>4. k # 0 => h[k - 1] = f[k - 1]
          BY <4>3
        <4>5. QED
          BY <4>1, <4>2, <4>4
      <3>3. QED
        BY <3>1, <3>2
    <2>4. h = [k \in 0..i |-> h[k]]
      OBVIOUS
    <2> HIDE DEF h
    <2>5. Completions(h, q, at, i)
      BY <2>3, <2>4 DEF Completions
    <2>6. QED
      BY <1>2, <2>5
  <1>5. QED
    BY <1>3, <1>4

\* When a state is advanced nothing due is left, and who was served still is.
LEMMA AdvancedKeeps ==
    ASSUME NEW q, q = Queue!State, QueueGood(q), NEW at \in Nat, NEW m \in Nat, QueueKnown(q, m, at),
           NEW p, p = Queue!Advanced(at)
    PROVE  /\ QueueGood(p) /\ QueueKnown(p, m, at) /\ Served(q) \subseteq Served(p)
           /\ Idle(p, at)
  <1>1. PICK n : n = Left(q)
    OBVIOUS
  <1>2. n \in Nat
    BY <1>1, FS_CardinalityType DEF Left, QueueGood, QueueTypes
  <1> DEFINE f == CHOOSE f : Completions(f, q, at, n)
  <1>3. Completions(f, q, at, n)
    BY <1>2, CompletionsExist
  <1>4. Queue!Cardinality(inflight) = Cardinality(inflight)
    BY DEF Queue!Cardinality, Cardinality
  <1>5. n = Len(waiting) + Queue!Cardinality(inflight)
    BY <1>1, <1>4 DEF Left, Queue!State
  <1>6. p = f[n]
    BY <1>5 DEF Queue!Advanced, Completions
  <1> HIDE DEF f
  <1>7. f[0] = q /\ \A k \in 1..n : f[k] = Queue!CompleteOne(f[k - 1], at)
    <2>1. \A k \in 0..n : f[k] = IF k = 0 THEN q ELSE Queue!CompleteOne(f[k - 1], at)
      BY <1>3 DEF Completions
    <2>2. 0 \in 0..n /\ \A k \in 1..n : k \in 0..n /\ k # 0
      BY <1>2
    <2>3. QED
      BY <2>1, <2>2
  <1> DEFINE Fine(k) == /\ QueueGood(f[k]) /\ QueueKnown(f[k], m, at)
                        /\ Served(q) \subseteq Served(f[k])
                        /\ Idle(f[k], at) \/ Left(f[k]) = n - k
             T == {k \in 0..n : ~Fine(k)}
  <1>8. T = {}
    <2>1. SUFFICES ASSUME T # {} PROVE FALSE
      BY <2>1
    <2>2. PICK i \in T : \A j \in T : i <= j
      <3>1. T \in SUBSET Nat
        OBVIOUS
      <3> HIDE DEF T
      <3>2. QED
        BY <2>1, <3>1, LeastNat
    <2>3. CASE i = 0
      <3>1. Left(f[0]) = n - 0
        BY <1>1, <1>2, <1>7
      <3>2. QED
        BY <1>7, <2>2, <2>3, <3>1
    <2>4. CASE i # 0
      <3>1. i \in 1..n /\ i - 1 \in 0..n /\ i - 1 \notin T /\ i \in Nat
        BY <1>2, <2>2, <2>4
      <3>2. Fine(i - 1) /\ f[i] = Queue!CompleteOne(f[i - 1], at)
        BY <1>7, <3>1
      <3>3. /\ QueueGood(f[i]) /\ QueueKnown(f[i], m, at) /\ Served(f[i - 1]) \subseteq Served(f[i])
            /\ \/ f[i] = f[i - 1] /\ Idle(f[i - 1], at)
               \/ ~Idle(f[i - 1], at) /\ Left(f[i]) = Left(f[i - 1]) - 1
        BY <3>2, CompleteKeeps
      <3>4. Idle(f[i], at) \/ Left(f[i]) = n - i
        <4>1. CASE f[i] = f[i - 1] /\ Idle(f[i - 1], at)
          BY <4>1
        <4>2. CASE ~Idle(f[i - 1], at) /\ Left(f[i]) = Left(f[i - 1]) - 1
          <5>1. Left(f[i - 1]) = n - (i - 1) /\ Left(f[i]) = Left(f[i - 1]) - 1
            BY <3>2, <4>2
          <5>2. QED
            BY <1>2, <3>1, <5>1
        <4>3. QED
          BY <3>3, <4>1, <4>2
      <3>5. Served(q) \subseteq Served(f[i])
        BY <3>2, <3>3
      <3>6. QED
        BY <2>2, <3>3, <3>4, <3>5
    <2>5. QED
      BY <2>3, <2>4
  <1>9. Fine(n)
    BY <1>2, <1>8
  <1>10. Idle(p, at)
    <2>1. CASE Left(p) = n - n
      <3>1. /\ Len(p.pending) \in Nat /\ Cardinality(p.inflight) \in Nat
            /\ IsFiniteSet(p.inflight)
        BY <1>6, <1>9, FS_CardinalityType DEF QueueGood, QueueTypes
      <3>2. Cardinality(p.inflight) = 0
        BY <1>2, <2>1, <3>1 DEF Left
      <3>3. p.inflight = {}
        BY <3>1, <3>2, FS_EmptySet
      <3>4. QED
        BY <3>3 DEF Idle
    <2>2. QED
      BY <1>6, <1>9, <2>1
  <1>11. QED
    BY <1>6, <1>9, <1>10
\* A message that finds a free worker is started at once.
LEMMA StartsWell ==
    ASSUME NEW q, QueueGood(q), NEW at \in Nat, at <= QueueTime, NEW m \in Nat,
           QueueKnown(q, m, at), Idle(q, at), Cardinality(q.inflight) < QueueWorkers,
           NEW p, p = [q EXCEPT !.inflight = @ \union {Queue!Started(m + 1, at, at)}]
    PROVE  QueueGood(p) /\ QueueKnown(p, m + 1, at)
  <1>1. /\ q.inflight \in SUBSET ServedItem /\ q.completed \in SUBSET ServedItem
        /\ IsFiniteSet(q.inflight) /\ q.pending = <<>>
        /\ q \in [pending : Seq(WaitingItem), inflight : SUBSET ServedItem,
                  completed : SUBSET ServedItem]
        /\ QueueWorkers \in Nat /\ ServiceTime \in Nat /\ QueueLimit \in Nat
    <2>1. QueueWorkers \in Nat /\ ServiceTime \in Nat /\ QueueLimit \in Nat
      BY QueueAssumption
    <2>2. Cardinality(q.inflight) \in Nat
      BY FS_CardinalityType DEF QueueGood, QueueTypes
    <2>3. Cardinality(q.inflight) # QueueWorkers
      BY <2>1, <2>2
    <2>4. QED
      BY <2>1, <2>3 DEF QueueGood, QueueTypes
  <1>2. PICK new : new = [id |-> m + 1, accepted |-> at, started |-> at, completes |-> at + ServiceTime]
    OBVIOUS
  <1>3. /\ new \in ServedItem /\ new.id = m + 1 /\ new.accepted = at /\ new.started = at
        /\ new.completes = at + ServiceTime
    BY <1>1, <1>2 DEF ServedItem
  <1>4. p = [q EXCEPT !.inflight = @ \union {new}]
    BY <1>2 DEF Queue!Started
  <1>5. /\ p.completed = q.completed /\ p.inflight = q.inflight \union {new}
        /\ p.pending = <<>>
        /\ p \in [pending : Seq(WaitingItem), inflight : SUBSET ServedItem,
                  completed : SUBSET ServedItem]
    BY <1>1, <1>3, <1>4
  <1>6. \A c \in q.completed \union q.inflight :
          /\ c \in ServedItem /\ c.id <= m /\ c.started <= at /\ c.accepted <= QueueTime
    BY <1>1 DEF QueueKnown
  <1>7. \A c \in ServedItem : /\ c.id \in Nat /\ c.started \in Nat /\ c.completes \in Nat
                             /\ c.accepted \in Nat
    BY DEF ServedItem
  <1>8. LongestWait \in Nat
    BY WaitFacts
  <1> HIDE DEF LongestWait
  <1>9. QueueTypes(p)
    <2>1. IsFiniteSet(p.inflight) /\ Cardinality(p.inflight) <= Cardinality(q.inflight) + 1
      <3>1. /\ IsFiniteSet(q.inflight \union {new})
            /\ Cardinality(q.inflight \union {new}) \in
                  {Cardinality(q.inflight), Cardinality(q.inflight) + 1}
        BY <1>1, FS_AddElement
      <3>2. /\ IsFiniteSet(p.inflight)
            /\ Cardinality(p.inflight) \in {Cardinality(q.inflight), Cardinality(q.inflight) + 1}
        BY <1>5, <3>1, Zenon
      <3>3. Cardinality(q.inflight) \in Nat
        BY <1>1, FS_CardinalityType
      <3>4. QED
        BY <3>2, <3>3
    <2>2. Cardinality(q.inflight) \in Nat /\ Cardinality(p.inflight) \in Nat
      BY <1>1, <2>1, FS_CardinalityType
    <2>3. Cardinality(p.inflight) <= QueueWorkers
      BY <1>1, <2>1, <2>2
    <2>4. Len(p.pending) <= QueueLimit
      BY <1>1, <1>5
    <2>5. QED
      BY <1>5, <2>1, <2>3, <2>4 DEF QueueTypes
  <1>10. ServedWell(p)
    <2>1. ASSUME NEW c \in p.completed \union p.inflight
          PROVE  /\ c.completes = c.started + ServiceTime
                 /\ c.accepted <= c.started /\ c.started <= c.accepted + LongestWait
                 /\ \A d \in p.completed \union p.inflight : c.id < d.id => c.started <= d.started
                 /\ \A i \in p.inflight : c.started <= i.completes
                 /\ \A k \in DOMAIN p.pending : c.id < p.pending[k].id
      <3>1. CASE c = new
        <4>1. ASSUME NEW d \in p.completed \union p.inflight, c.id < d.id
              PROVE  c.started <= d.started
          <5>1. d = new \/ d \in q.completed \union q.inflight
            BY <1>5
          <5>2. CASE d \in q.completed \union q.inflight
            BY <1>3, <1>6, <1>7, <3>1, <4>1, <5>2
          <5>3. QED
            BY <1>3, <3>1, <5>1, <5>2
        <4>2. ASSUME NEW i \in p.inflight PROVE c.started <= i.completes
          <5>1. CASE i = new
            BY <1>1, <1>3, <3>1, <5>1
          <5>2. CASE i \in q.inflight
            BY <1>3, <1>6, <1>7, <3>1, <5>2 DEF Idle
          <5>3. QED
            BY <1>5, <5>1, <5>2
        <4>3. c.started <= c.accepted + LongestWait
          BY <1>3, <1>8, <3>1
        <4>4. QED
          BY <1>3, <1>5, <3>1, <4>1, <4>2, <4>3
      <3>2. CASE c \in q.completed \union q.inflight
        <4>1. ASSUME NEW d \in p.completed \union p.inflight, c.id < d.id
              PROVE  c.started <= d.started
          <5>1. d = new \/ d \in q.completed \union q.inflight
            BY <1>5
          <5>2. CASE d \in q.completed \union q.inflight
            BY <3>2, <4>1, <5>2 DEF QueueGood, ServedWell
          <5>3. QED
            BY <1>3, <1>6, <3>2, <5>1, <5>2
        <4>2. ASSUME NEW i \in p.inflight PROVE c.started <= i.completes
          <5>1. CASE i = new
            <6>1. c.started \in Nat /\ c.started <= at
              BY <1>6, <1>7, <3>2
            <6>2. QED
              BY <1>1, <1>3, <5>1, <6>1
          <5>2. CASE i \in q.inflight
            BY <3>2, <5>2 DEF QueueGood, ServedWell
          <5>3. QED
            BY <1>5, <5>1, <5>2
        <4>3. QED
          BY <1>5, <3>2, <4>1, <4>2 DEF QueueGood, ServedWell
      <3>3. QED
        BY <1>5, <3>1, <3>2
    <2>2. QED
      BY <2>1 DEF ServedWell
  <1>11. WaitsWell(p)
    BY <1>5 DEF WaitsWell
  <1>12. QueueKnown(p, m + 1, at)
    <2>1. ASSUME NEW c \in p.completed \union p.inflight
          PROVE  c.id <= m + 1 /\ c.started <= at /\ c.accepted <= QueueTime
      <3>1. CASE c = new
        BY <1>3, <3>1
      <3>2. CASE c \in q.completed \union q.inflight
        BY <1>6, <1>7, <3>2
      <3>3. QED
        BY <1>5, <3>1, <3>2
    <2>2. QED
      BY <1>5, <2>1 DEF QueueKnown
  <1>13. QED
    BY <1>9, <1>10, <1>11, <1>12 DEF QueueGood

\* A message that finds no free worker but a place waits for no more than a full queue.
LEMMA QueuesWell ==
    ASSUME NEW q, QueueGood(q), NEW at \in Nat, at <= QueueTime, NEW m \in Nat,
           QueueKnown(q, m, at), Idle(q, at), Cardinality(q.inflight) >= QueueWorkers,
           Len(q.pending) < QueueLimit,
           NEW p, p = [q EXCEPT !.pending = Append(@, [id |-> m + 1, accepted |-> at])]
    PROVE  QueueGood(p) /\ QueueKnown(p, m + 1, at)
  <1>1. /\ q.inflight \in SUBSET ServedItem /\ q.completed \in SUBSET ServedItem
        /\ IsFiniteSet(q.inflight) /\ q.pending \in Seq(WaitingItem)
        /\ q \in [pending : Seq(WaitingItem), inflight : SUBSET ServedItem,
                  completed : SUBSET ServedItem]
        /\ QueueWorkers \in Nat /\ ServiceTime \in Nat /\ QueueLimit \in Nat
        /\ Cardinality(q.inflight) <= QueueWorkers
    BY QueueAssumption DEF QueueGood, QueueTypes
  <1>2. Cardinality(q.inflight) = QueueWorkers
    BY <1>1, FS_CardinalityType
  <1>3. PICK new : new = [id |-> m + 1, accepted |-> at]
    OBVIOUS
  <1>4. new \in WaitingItem /\ new.id = m + 1 /\ new.accepted = at
    BY <1>3 DEF WaitingItem
  <1>5. PICK n \in Nat : n = Len(q.pending)
    BY <1>1
  <1>6. /\ p.completed = q.completed /\ p.inflight = q.inflight
        /\ p.pending = Append(q.pending, new)
        /\ p \in [pending : Seq(WaitingItem), inflight : SUBSET ServedItem,
                  completed : SUBSET ServedItem]
    <2>1. PICK old \in Seq(WaitingItem) : old = q.pending
      BY <1>1
    <2>2. Append(old, new) \in Seq(WaitingItem)
      BY <1>4
    <2>3. PICK longer \in Seq(WaitingItem) : longer = Append(old, new)
      BY <2>2
    <2>4. p = [q EXCEPT !.pending = longer]
      BY <1>3, <2>1, <2>3
    <2>5. QED
      BY <1>1, <2>1, <2>3, <2>4
  <1>7. /\ DOMAIN q.pending = 1..n /\ DOMAIN p.pending = 1..(n + 1) /\ Len(p.pending) = n + 1
        /\ \A k \in 1..n : p.pending[k] = q.pending[k]
        /\ p.pending[n + 1] = new
    BY <1>1, <1>4, <1>5, <1>6
  <1>8. \A c \in q.completed \union q.inflight :
          /\ c \in ServedItem /\ c.id <= m /\ c.started <= at /\ c.accepted <= QueueTime
          /\ c.completes = c.started + ServiceTime
    BY <1>1 DEF QueueKnown, QueueGood, ServedWell
  <1>9. \A c \in ServedItem : /\ c.id \in Nat /\ c.started \in Nat /\ c.completes \in Nat
                             /\ c.accepted \in Nat
    BY DEF ServedItem
  <1>10. \A k \in 1..n : /\ q.pending[k] \in WaitingItem
                         /\ q.pending[k].id <= m /\ q.pending[k].accepted <= QueueTime
    BY <1>1, <1>7 DEF QueueKnown
  <1>11. n + 1 <= QueueLimit
    BY <1>1, <1>5
  <1> HIDE DEF LongestWait
  <1>12. QueueTypes(p)
    <2>1. IsFiniteSet(p.inflight) /\ Cardinality(p.inflight) = QueueWorkers
      BY <1>1, <1>2, <1>6
    <2>2. QED
      BY <1>1, <1>6, <1>7, <1>11, <2>1 DEF QueueTypes
  <1>13. ServedWell(p)
    <2>1. ASSUME NEW c \in p.completed \union p.inflight, NEW k \in DOMAIN p.pending
          PROVE  c.id < p.pending[k].id
      <3>1. CASE k \in 1..n
        BY <1>6, <1>7, <3>1 DEF QueueGood, ServedWell
      <3>2. CASE k = n + 1
        BY <1>4, <1>6, <1>7, <1>8, <1>9, <3>2
      <3>3. QED
        BY <1>7, <3>1, <3>2
    <2>2. QED
      BY <1>6, <2>1 DEF QueueGood, ServedWell
  <1>14. WaitsWell(p)
    <2>1. ASSUME NEW k \in DOMAIN p.pending, NEW j \in DOMAIN p.pending, j < k
          PROVE  p.pending[j].id < p.pending[k].id
      <3>1. j \in 1..n
        BY <1>7, <2>1
      <3>2. CASE k \in 1..n
        BY <1>7, <2>1, <3>1, <3>2 DEF QueueGood, WaitsWell
      <3>3. CASE k = n + 1
        <4>1. q.pending[j].id \in Nat /\ q.pending[j].id <= m
          BY <1>10, <3>1 DEF WaitingItem
        <4>2. QED
          BY <1>4, <1>7, <3>1, <3>3, <4>1
      <3>4. QED
        BY <1>7, <3>2, <3>3
    <2>2. ASSUME NEW k \in DOMAIN p.pending, NEW i \in p.inflight
          PROVE  p.pending[k].accepted <= i.completes
      <3>1. CASE k \in 1..n
        BY <1>6, <1>7, <3>1 DEF QueueGood, WaitsWell
      <3>2. CASE k = n + 1
        <4>1. i.completes \in Nat /\ i.completes > at
          BY <1>6, <1>8, <1>9 DEF Idle
        <4>2. QED
          BY <1>4, <1>7, <3>2, <4>1
      <3>3. QED
        BY <1>7, <3>1, <3>2
    <2>3. ASSUME NEW k \in DOMAIN p.pending, NEW z \in Nat, NEW r \in 1..QueueWorkers,
                 k = z * QueueWorkers + r
          PROVE  Cardinality(FreeBy(p, p.pending[k].accepted + LongestWait, z)) >= r
      <3>1. CASE k \in 1..n
        <4>1. PICK D : D = p.pending[k].accepted + LongestWait /\ D = q.pending[k].accepted + LongestWait
          BY <1>7, <3>1
        <4>2. Cardinality(FreeBy(q, D, z)) >= r
          BY <1>7, <2>3, <3>1, <4>1 DEF QueueGood, WaitsWell
        <4>3. FreeBy(p, D, z) = FreeBy(q, D, z)
          BY <1>6 DEF FreeBy
        <4>4. QED
          BY <4>1, <4>2, <4>3
      <3>2. CASE k = n + 1
        <4>1. z * QueueWorkers + r <= QueueLimit
          BY <1>11, <2>3, <3>2
        <4>2. ServiceTime + z * ServiceTime <= LongestWait /\ LongestWait \in Nat
          BY <4>1, RoundsFacts, WaitFacts
        <4>3. PICK zs \in Nat : zs = z * ServiceTime
          BY <1>1, Products
        <4>4. PICK D \in Nat : D = at + LongestWait /\ D = p.pending[k].accepted + LongestWait
          BY <1>4, <1>7, <3>2, <4>2
        <4>5. ServiceTime + zs <= LongestWait
          BY <4>2, <4>3
        <4>6. ASSUME NEW i \in p.inflight PROVE i.completes + zs <= D
          <5>1. i.started \in Nat /\ i.started <= at /\ i.completes = i.started + ServiceTime
            BY <1>6, <1>8, <1>9
          <5>2. ServiceTime \in Nat /\ LongestWait \in Nat
            BY <1>1, <4>2
          <5>3. QED
            BY <4>4, <4>5, <5>1, <5>2
        <4>7. FreeBy(p, D, z) = p.inflight
          BY <4>3, <4>6 DEF FreeBy
        <4>8. Cardinality(FreeBy(p, D, z)) = Cardinality(q.inflight)
          BY <1>6, <4>7, Zenon
        <4>9. QueueWorkers >= r
          BY <1>1
        <4>10. QED
          BY <1>2, <4>4, <4>8, <4>9
      <3>3. QED
        BY <1>7, <3>1, <3>2
    <2>4. QED
      BY <2>1, <2>2, <2>3 DEF WaitsWell
  <1>15. QueueKnown(p, m + 1, at)
    <2>1. ASSUME NEW k \in DOMAIN p.pending
          PROVE  p.pending[k].id <= m + 1 /\ p.pending[k].accepted <= QueueTime
      <3>1. CASE k \in 1..n
        <4>1. q.pending[k].id \in Nat /\ q.pending[k].id <= m
          BY <1>10, <3>1 DEF WaitingItem
        <4>2. QED
          BY <1>7, <1>10, <3>1, <4>1
      <3>2. CASE k = n + 1
        BY <1>4, <1>7, <3>2
      <3>3. QED
        BY <1>7, <3>1, <3>2
    <2>2. ASSUME NEW c \in p.completed \union p.inflight
          PROVE  c.id <= m + 1 /\ c.started <= at /\ c.accepted <= QueueTime
      BY <1>6, <1>8, <1>9
    <2>3. QED
      BY <2>1, <2>2 DEF QueueKnown
  <1>16. QED
    BY <1>12, <1>13, <1>14, <1>15 DEF QueueGood
LEMMA StateParts ==
    ASSUME NEW q, QueueTypes(q)
    PROVE  q = [pending |-> q.pending, inflight |-> q.inflight, completed |-> q.completed]
  BY DEF QueueTypes

\* What the queue becomes is its next state.
LEMMA BecomesState ==
    ASSUME NEW q, QueueTypes(q), Queue!Becomes(q)
    PROVE  Queue!State' = q
  BY StateParts DEF Queue!Becomes, Queue!State

LEMMA QueueSubmits ==
    ASSUME QueueInv, NEW at \in now..QueueTime, Queue!Submit(at)
    PROVE  QueueInv'
  <1>1. /\ at \in Nat /\ at <= QueueTime /\ now <= at
        /\ submitted \in Nat /\ now \in Nat /\ now' = at /\ submitted' = submitted + 1
    BY QueueAssumption DEF QueueInv, Queue!Submit
  <1>2. PICK q : q = Queue!State
    OBVIOUS
  <1>3. PICK m : m = submitted
    OBVIOUS
  <1>4. QueueGood(q) /\ QueueKnown(q, m, at)
    <2>1. QueueGood(q) /\ QueueKnown(q, m, now)
      BY <1>2, <1>3 DEF QueueInv
    <2>2. \A c \in q.completed \union q.inflight : c.started \in Nat
      BY <2>1 DEF QueueGood, QueueTypes, ServedItem
    <2>3. QED
      BY <1>1, <2>1, <2>2 DEF QueueKnown
  <1>5. PICK s : s = Queue!Advanced(at)
    OBVIOUS
  <1>6. QueueGood(s) /\ QueueKnown(s, m, at) /\ Idle(s, at)
    BY <1>1, <1>2, <1>3, <1>4, <1>5, AdvancedKeeps
  <1>7. Queue!Cardinality(s.inflight) = Cardinality(s.inflight)
    BY DEF Queue!Cardinality, Cardinality
  <1>8. PICK p : QueueGood(p) /\ QueueKnown(p, m + 1, at) /\ Queue!Becomes(p)
    <2>1. CASE /\ Queue!Cardinality(s.inflight) < QueueWorkers
               /\ Queue!Becomes([s EXCEPT !.inflight = @ \union {Queue!Started(m + 1, at, at)}])
      BY <1>1, <1>3, <1>6, <1>7, <2>1, StartsWell
    <2>2. CASE /\ Queue!Cardinality(s.inflight) >= QueueWorkers /\ Len(s.pending) < QueueLimit
               /\ Queue!Becomes([s EXCEPT !.pending = Append(@, [id |-> m + 1, accepted |-> at])])
      BY <1>1, <1>3, <1>6, <1>7, <2>2, QueuesWell
    <2>3. CASE Queue!Becomes(s)
      <3>1. /\ \A c \in s.completed \union s.inflight : c.id \in Nat
            /\ \A k \in DOMAIN s.pending : s.pending[k].id \in Nat
        <4>1. \A k \in DOMAIN s.pending : s.pending[k] \in WaitingItem
          BY <1>6 DEF QueueGood, QueueTypes
        <4>2. QED
          BY <1>6, <4>1 DEF QueueGood, QueueTypes, ServedItem, WaitingItem
      <3>2. QueueKnown(s, m + 1, at)
        BY <1>1, <1>3, <1>6, <3>1 DEF QueueKnown
      <3>3. QED
        BY <1>6, <2>3, <3>2
    <2>4. QED
      BY <1>3, <1>5, <2>1, <2>2, <2>3 DEF Queue!Submit
  <1>9. Queue!State' = p
    BY <1>8, BecomesState DEF QueueGood
  <1>10. QED
    BY <1>1, <1>3, <1>8, <1>9 DEF QueueInv

LEMMA QueueAdvances ==
    ASSUME QueueInv, NEW at \in 0..QueueTime, Queue!AdvanceTo(at)
    PROVE  QueueInv'
  <1>1. /\ at \in Nat /\ now <= at /\ submitted \in Nat /\ now \in Nat
        /\ now' = at /\ submitted' = submitted
    BY QueueAssumption DEF QueueInv, Queue!AdvanceTo
  <1>2. PICK q, m, s : q = Queue!State /\ m = submitted /\ s = Queue!Advanced(at)
    OBVIOUS
  <1>3. QueueGood(q) /\ QueueKnown(q, m, at)
    <2>1. QueueGood(q) /\ QueueKnown(q, m, now)
      BY <1>2 DEF QueueInv
    <2>2. \A c \in q.completed \union q.inflight : c.started \in Nat
      BY <2>1 DEF QueueGood, QueueTypes, ServedItem
    <2>3. QED
      BY <1>1, <2>1, <2>2 DEF QueueKnown
  <1>4. QueueGood(s) /\ QueueKnown(s, m, at)
    BY <1>1, <1>2, <1>3, AdvancedKeeps
  <1>5. Queue!State' = s
    BY <1>2, <1>4, BecomesState DEF QueueGood, Queue!AdvanceTo
  <1>6. QED
    BY <1>1, <1>2, <1>4, <1>5 DEF QueueInv

\* Nobody who was accepted is still served when all who could be are due.
LEMMA QueueDrains ==
    ASSUME QueueInv, Queue!Drain
    PROVE  QueueInv'
  <1>1. PICK q, m, at, s : /\ q = Queue!State /\ m = submitted
                          /\ at = QueueTime + (QueueLimit + 1) * ServiceTime
                          /\ s = Queue!Advanced(at)
    OBVIOUS
  <1>2. /\ at \in Nat /\ QueueTime \in Nat /\ ServiceTime \in Nat /\ LongestWait \in Nat
        /\ QueueTime + LongestWait + ServiceTime <= at
    <2>1. QueueTime \in Nat /\ ServiceTime \in Nat /\ QueueLimit \in Nat
      BY QueueAssumption
    <2>2. PICK a \in Nat : a = QueueLimit * ServiceTime /\ (QueueLimit + 1) * ServiceTime = a + ServiceTime
      BY <2>1, Products
    <2>3. LongestWait \in Nat /\ LongestWait <= a
      BY <2>2, WaitFacts
    <2>4. at = QueueTime + (a + ServiceTime)
      BY <1>1, <2>2
    <2> HIDE DEF LongestWait
    <2>5. QED
      BY <2>1, <2>3, <2>4
  <1>3. /\ m \in Nat /\ q.inflight # {} /\ submitted' = submitted
        /\ Queue!Becomes(s) /\ now' = Queue!LatestOf(completed')
    BY <1>1 DEF QueueInv, Queue!Drain, Queue!State
  <1> HIDE DEF LongestWait
  <1>4. ASSUME NEW x, QueueGood(x), NEW t, QueueKnown(x, m, t),
               NEW c \in x.completed \union x.inflight
        PROVE  /\ c \in ServedItem /\ c.started \in Nat /\ c.completes \in Nat
               /\ c.started <= c.completes /\ c.completes <= at /\ c.started <= at
    <2>1. /\ c \in ServedItem /\ c.completes = c.started + ServiceTime
          /\ c.started <= c.accepted + LongestWait /\ c.accepted <= QueueTime
      BY <1>4 DEF QueueGood, QueueTypes, ServedWell, QueueKnown
    <2>2. c.started \in Nat /\ c.accepted \in Nat
      BY <2>1 DEF ServedItem
    <2>3. QED
      BY <1>2, <2>1, <2>2
  <1>5. QueueGood(q) /\ QueueKnown(q, m, now)
    BY <1>1 DEF QueueInv
  <1>6. QueueKnown(q, m, at)
    BY <1>4, <1>5 DEF QueueKnown
  <1>7. /\ QueueGood(s) /\ QueueKnown(s, m, at) /\ Served(q) \subseteq Served(s) /\ Idle(s, at)
    BY <1>1, <1>2, <1>3, <1>5, <1>6, AdvancedKeeps
  <1>8. s.inflight = {}
    <2>1. SUFFICES ASSUME NEW i \in s.inflight PROVE FALSE
      OBVIOUS
    <2>2. i.completes > at /\ i.completes <= at /\ i.completes \in Nat
      BY <1>4, <1>7 DEF Idle
    <2>3. QED
      BY <1>2, <2>2
  <1>9. s.completed # {}
    BY <1>3, <1>7, <1>8 DEF Served
  <1>10. PICK last \in s.completed : \A j \in s.completed : j.completes <= last.completes
    <2> DEFINE ahead == {at - c.completes : c \in s.completed}
    <2>1. ahead \in SUBSET Nat /\ ahead # {}
      BY <1>2, <1>4, <1>7, <1>9
    <2>2. PICK x \in ahead : \A y \in ahead : x <= y
      <3> HIDE DEF ahead
      <3>1. QED
        BY <2>1, LeastNat
    <2>3. PICK c \in s.completed : x = at - c.completes
      BY <2>2
    <2>4. ASSUME NEW j \in s.completed PROVE j.completes <= c.completes
      <3>1. at - j.completes \in ahead
        OBVIOUS
      <3>2. at - c.completes <= at - j.completes
        BY <2>2, <2>3, <3>1
      <3>3. j.completes \in Nat /\ c.completes \in Nat
        BY <1>4, <1>7
      <3>4. QED
        BY <1>2, <3>2, <3>3
    <2>5. QED
      BY <2>4
  <1>11. completed' = s.completed
    BY <1>3 DEF Queue!Becomes
  <1>12. /\ now' \in Nat /\ \A j \in s.completed : j.completes <= now'
    <2> DEFINE pick == CHOOSE i \in s.completed : \A j \in s.completed : j.completes <= i.completes
    <2>1. pick \in s.completed /\ \A j \in s.completed : j.completes <= pick.completes
      BY <1>10
    <2>2. now' = pick.completes
      BY <1>3, <1>11 DEF Queue!LatestOf
    <2> HIDE DEF pick
    <2>3. pick.completes \in Nat
      BY <1>4, <1>7, <2>1
    <2>4. QED
      BY <2>1, <2>2, <2>3
  <1>13. PICK t \in Nat : t = now'
    BY <1>12
  <1>14. QueueKnown(s, m, t)
    <2>1. ASSUME NEW c \in s.completed PROVE c.started <= t
      <3>1. c.started \in Nat /\ c.completes \in Nat /\ c.started <= c.completes
            /\ c.completes <= t
        BY <1>4, <1>7, <1>12, <1>13
      <3>2. QED
        BY <3>1
    <2>2. QED
      BY <1>7, <1>8, <2>1 DEF QueueKnown
  <1>15. Queue!State' = s
    BY <1>3, <1>7, BecomesState DEF QueueGood
  <1>16. QED
    BY <1>1, <1>3, <1>7, <1>13, <1>14, <1>15 DEF QueueInv

LEMMA QueueStep == QueueInv /\ [Queue!Next]_(Queue!vars) => QueueInv'
  <1> SUFFICES ASSUME QueueInv, [Queue!Next]_(Queue!vars) PROVE QueueInv'
    OBVIOUS
  <1>1. CASE UNCHANGED Queue!vars
    BY <1>1 DEF Queue!vars, QueueInv, Queue!State
  <1>2. CASE Queue!Next
    BY <1>2, QueueAdvances, QueueSubmits, QueueDrains DEF Queue!Next
  <1>3. QED
    BY <1>1, <1>2

LEMMA QueueInit == Queue!Init => QueueInv
  <1> SUFFICES ASSUME Queue!Init PROVE QueueInv
    OBVIOUS
  <1>1. PICK q : q = Queue!State
    OBVIOUS
  <1>2. /\ q = [pending |-> <<>>, inflight |-> {}, completed |-> {}]
        /\ now = 0 /\ submitted = 0
    BY <1>1 DEF Queue!Init, Queue!State
  <1>3. /\ q.pending = <<>> /\ q.inflight = {} /\ q.completed = {}
        /\ q \in [pending : Seq(WaitingItem), inflight : SUBSET ServedItem,
                  completed : SUBSET ServedItem]
    BY <1>2
  <1>4. IsFiniteSet(q.inflight) /\ Cardinality(q.inflight) = 0 /\ Len(q.pending) = 0
    BY <1>3, FS_EmptySet, Zenon
  <1>5. QueueTypes(q)
    BY <1>3, <1>4, QueueAssumption DEF QueueTypes
  <1>6. ServedWell(q) /\ WaitsWell(q) /\ QueueKnown(q, 0, 0)
    BY <1>3 DEF ServedWell, WaitsWell, QueueKnown
  <1>7. QED
    BY <1>1, <1>2, <1>5, <1>6 DEF QueueInv, QueueGood

LEMMA QueueInvBounds == QueueInv => LatencyBounded
  <1> SUFFICES ASSUME QueueInv PROVE Queue!LatencyBounded
    BY DEF LatencyBounded
  <1>1. PICK q : q = Queue!State /\ QueueGood(q)
    BY DEF QueueInv
  <1>2. q.pending = waiting /\ q.inflight = inflight /\ q.completed = completed
    BY <1>1 DEF Queue!State
  <1>3. /\ LongestWait \in Nat /\ ServiceTime \in Nat
        /\ ServiceTime * (1 + Queue!Rounds) = ServiceTime + LongestWait
    <2>1. ServiceTime \in Nat /\ Queue!Rounds \in Nat
      BY QueueAssumption, RoundsFacts
    <2>2. QED
      BY <2>1, WaitFacts DEF LongestWait
  <1> HIDE DEF LongestWait
  <1>4. ASSUME NEW c \in completed \union inflight
        PROVE  /\ c.completes - c.accepted <= ServiceTime * (1 + Queue!Rounds)
               /\ \A d \in completed \union inflight : c.id < d.id => c.started <= d.started
               /\ \A k \in 1..Len(waiting) : c.id < waiting[k].id
    <2>1. /\ c \in ServedItem /\ c.completes = c.started + ServiceTime
          /\ c.started <= c.accepted + LongestWait
          /\ \A d \in completed \union inflight : c.id < d.id => c.started <= d.started
          /\ \A k \in DOMAIN waiting : c.id < waiting[k].id
      BY <1>1, <1>2 DEF QueueGood, QueueTypes, ServedWell
    <2>2. c.started \in Nat /\ c.accepted \in Nat
      BY <2>1 DEF ServedItem
    <2>3. c.completes - c.accepted <= ServiceTime + LongestWait
      BY <1>3, <2>1, <2>2
    <2>4. DOMAIN waiting = 1..Len(waiting)
      BY <1>1, <1>2 DEF QueueGood, QueueTypes
    <2>5. QED
      BY <1>3, <2>1, <2>3, <2>4
  <1>5. QED
    BY <1>4 DEF Queue!LatencyBounded

\* LatencyBounded of the admission queue (labs/33-load-shedding): whatever arrives
\* and however rarely it is advanced, whoever is accepted waits for no more services than
\* the workers need for a full queue, and is served in turn.
THEOREM LatencyAlwaysBounded == Queue!Spec => []LatencyBounded
  <1>1. QED
    BY QueueInit, QueueStep, QueueInvBounds, PTL DEF Queue!Spec

-----------------------------------------------------------------------------

(* The event streams of lab 21. *)

Frame == [type : {"event", "ping"}, n : Nat]
OpenSession == [open : {TRUE}, frames : Seq(Frame), expires : Int, sentAt : Int, last : Nat]
ClosedSession == [open : {FALSE}, frames : Seq(Frame), code : Int]

\* The last event that a client knows who has applied k and takes the first i frames.
Reached(frames, k, i) == IF i = 0 THEN k ELSE frames[i].n

\* Every event is the next one, and every ping names the last.
Continues(frames, k) ==
    \A i \in DOMAIN frames :
        frames[i].n = IF frames[i].type = "event" THEN Reached(frames, k, i - 1) + 1
                      ELSE Reached(frames, k, i - 1)

\* A session that continues after k, and has queued everything up to n while it is open.
SessionGood(s, k, n) ==
    /\ s \in OpenSession \union ClosedSession
    /\ Continues(s.frames, k)
    /\ Reached(s.frames, k, Len(s.frames)) <= n
    /\ s.open => s.last = n /\ Reached(s.frames, k, Len(s.frames)) = n

UpTo(n) == [i \in 1..n |-> i]
Between(k, n) == [i \in 1..(n - k) |-> k + i]

StreamInv ==
    /\ streamClock \in Int /\ published \in Nat
    /\ applied \in [Task -> Seq(Nat)] /\ DOMAIN session = Task
    /\ session = [c \in Task |-> session[c]]
    /\ \A c \in Task : /\ applied[c] = UpTo(Len(applied[c]))
                       /\ SessionGood(session[c], Len(applied[c]), published)

\* What a client knows of never falls along its frames.
LEMMA ReachedGrows ==
    ASSUME NEW frames \in Seq(Frame), NEW k \in Nat, Continues(frames, k)
    PROVE  \A i \in 0..Len(frames) : Reached(frames, k, i) \in Nat /\ k <= Reached(frames, k, i)
  <1> DEFINE T == {i \in 0..Len(frames) : ~(Reached(frames, k, i) \in Nat /\ k <= Reached(frames, k, i))}
  <1>1. SUFFICES ASSUME T # {} PROVE FALSE
    OBVIOUS
  <1>2. PICK i \in T : \A j \in T : i <= j
    <2>1. T \in SUBSET Nat
      OBVIOUS
    <2> HIDE DEF T
    <2>2. QED
      BY <1>1, <2>1, LeastNat
  <1>3. i # 0
    BY <1>2 DEF Reached
  <1>4. i - 1 \in 0..Len(frames) /\ i - 1 \notin T /\ i \in DOMAIN frames
    BY <1>2, <1>3
  <1>5. Reached(frames, k, i - 1) \in Nat /\ k <= Reached(frames, k, i - 1)
    BY <1>4
  <1>6. Reached(frames, k, i) = frames[i].n
    BY <1>3 DEF Reached
  <1>7. Reached(frames, k, i) \in {Reached(frames, k, i - 1), Reached(frames, k, i - 1) + 1}
    BY <1>4, <1>6 DEF Continues
  <1>8. QED
    BY <1>2, <1>5, <1>7

\* Joining what comes up to m and what comes between m and n.
LEMMA Joined ==
    ASSUME NEW k \in Nat, NEW m \in Nat, k <= m
    PROVE  /\ UpTo(k) \o Between(k, m) = UpTo(m)
           /\ Len(UpTo(m)) = m /\ UpTo(m) \in Seq(Nat)
           /\ Len(Between(k, m)) = m - k /\ Between(k, m) \in Seq(Nat)
  <1>1. UpTo(m) \in Seq(Nat) /\ Len(UpTo(m)) = m /\ UpTo(k) \in Seq(Nat) /\ Len(UpTo(k)) = k
    BY DEF UpTo
  <1>2. Between(k, m) \in Seq(Nat) /\ Len(Between(k, m)) = m - k
    <2>1. PICK d \in Nat : d = m - k
      OBVIOUS
    <2>2. [i \in 1..d |-> k + i] \in Seq(Nat) /\ Len([i \in 1..d |-> k + i]) = d
      OBVIOUS
    <2>3. QED
      BY <2>1, <2>2 DEF Between
  <1> DEFINE a == UpTo(k)
             b == Between(k, m)
  <1>3. /\ \A i \in 1..k : a[i] = i
        /\ \A i \in 1..(m - k) : b[i] = k + i
        /\ \A i \in 1..m : UpTo(m)[i] = i
    BY DEF UpTo, Between
  <1> HIDE DEF a, b
  <1>4. a \o b \in Seq(Nat) /\ Len(a \o b) = m
    <2>1. a \in Seq(Nat) /\ b \in Seq(Nat) /\ Len(a) = k /\ Len(b) = m - k
      BY <1>1, <1>2 DEF a, b
    <2>2. a \o b \in Seq(Nat) /\ Len(a \o b) = Len(a) + Len(b)
      BY <2>1, ConcatProperties
    <2>3. k + (m - k) = m
      OBVIOUS
    <2>4. QED
      BY <2>1, <2>2, <2>3
  <1>5. \A i \in 1..m : (a \o b)[i] = i
    BY <1>1, <1>2, <1>3, <1>4 DEF a, b
  <1>6. a \o b = UpTo(m)
    <2>1. PICK x \in Seq(Nat), y \in Seq(Nat) : x = a \o b /\ y = UpTo(m)
      BY <1>1, <1>4
    <2>2. Len(x) = m /\ Len(y) = m
      BY <1>1, <1>4, <2>1
    <2>3. \A i \in 1..Len(x) : x[i] = y[i]
      BY <1>3, <1>5, <2>1, <2>2
    <2>4. x = y
      BY <2>2, <2>3, SeqEqual
    <2>5. QED
      BY <2>1, <2>4
  <1>7. QED
    BY <1>1, <1>2, <1>6 DEF a, b

\* What Events collects of the first i frames.
Collects(u, frames) ==
    u = [i \in 0..Len(frames) |->
            IF i = 0 THEN <<>>
            ELSE IF frames[i].type = "event" THEN Append(u[i - 1], frames[i].n) ELSE u[i - 1]]

\* The events of a queue are those from where its client is to where the queue ends.
LEMMA EventsAre ==
    ASSUME NEW frames \in Seq(Frame), NEW k \in Nat, Continues(frames, k)
    PROVE  Stream!Events(frames) = Between(k, Reached(frames, k, Len(frames)))
  <1> DEFINE u == [i \in 0..Len(frames) |-> Between(k, Reached(frames, k, i))]
             v == CHOOSE w : Collects(w, frames)
             n == Len(frames)
  <1>1. Stream!Events(frames) = v[n]
    BY DEF Stream!Events, Collects
  <1>2. n \in Nat
    OBVIOUS
  <1>3. Between(k, Reached(frames, k, 0)) = <<>>
    BY DEF Between, Reached
  <1>4. ASSUME NEW i \in 1..n
        PROVE  Between(k, Reached(frames, k, i)) =
                 IF frames[i].type = "event"
                 THEN Append(Between(k, Reached(frames, k, i - 1)), frames[i].n)
                 ELSE Between(k, Reached(frames, k, i - 1))
    <2> DEFINE p == Reached(frames, k, i - 1)
               q == Reached(frames, k, i)
    <2>1. p \in Nat /\ k <= p /\ q = frames[i].n
      BY ReachedGrows DEF Reached
    <2>2. q = IF frames[i].type = "event" THEN p + 1 ELSE p
      BY <2>1 DEF Continues
    <2> HIDE DEF p, q
    <2>3. Between(k, p + 1) = Append(Between(k, p), p + 1)
      <3>1. PICK m \in Nat : m = p + 1 /\ k <= m
        BY <2>1
      <3>2. PICK d \in Nat : d = p - k /\ d + 1 = m - k /\ k + (d + 1) = m
        BY <2>1, <3>1
      <3> DEFINE a == Between(k, p)
                 b == Between(k, m)
      <3>3. a \in Seq(Nat) /\ Len(a) = d
        BY <2>1, <3>2, Joined
      <3>4. b \in Seq(Nat) /\ Len(b) = d + 1
        BY <3>1, <3>2, Joined
      <3>5. (\A j \in 1..d : a[j] = k + j) /\ (\A j \in 1..(d + 1) : b[j] = k + j)
        BY <3>2 DEF Between
      <3> HIDE DEF a, b
      <3>6. Append(a, m) \in Seq(Nat) /\ Len(Append(a, m)) = d + 1
        BY <3>3
      <3>7. \A j \in 1..(d + 1) : Append(a, m)[j] = b[j]
        BY <3>2, <3>3, <3>5
      <3>8. Append(a, m) = b
        BY <3>4, <3>6, <3>7
      <3>9. QED
        BY <3>1, <3>8 DEF a, b
    <2>4. QED
      BY <2>1, <2>2, <2>3 DEF p, q
  <1> HIDE DEF n
  <1>5. Collects(u, frames)
    <2>1. \A i \in 0..n : u[i] = IF i = 0 THEN <<>>
             ELSE IF frames[i].type = "event" THEN Append(u[i - 1], frames[i].n) ELSE u[i - 1]
      <3>1. ASSUME NEW i \in 0..n
            PROVE  u[i] = IF i = 0 THEN <<>>
                     ELSE IF frames[i].type = "event" THEN Append(u[i - 1], frames[i].n) ELSE u[i - 1]
        <4>1. CASE i = 0
          BY <1>3, <4>1 DEF n
        <4>2. CASE i # 0
          <5>1. i \in 1..n /\ i - 1 \in 0..n
            BY <1>2, <4>2
          <5>2. u[i] = Between(k, Reached(frames, k, i)) /\ u[i - 1] = Between(k, Reached(frames, k, i - 1))
            BY <5>1 DEF n
          <5> HIDE DEF u
          <5>3. QED
            BY <1>4, <4>2, <5>1, <5>2
        <4>3. QED
          BY <4>1, <4>2
      <3>2. QED
        BY <3>1
    <2>2. u = [i \in 0..n |-> u[i]]
      BY DEF n
    <2> HIDE DEF u
    <2>3. QED
      BY <2>1, <2>2 DEF Collects, n
  <1>6. Collects(v, frames)
    BY <1>5
  <1> DEFINE T == {i \in 0..n : v[i] # u[i]}
  <1> HIDE DEF u, v
  <1>7. T = {}
    <2>1. SUFFICES ASSUME T # {} PROVE FALSE
      OBVIOUS
    <2>2. PICK i \in T : \A j \in T : i <= j
      <3>1. T \in SUBSET Nat
        BY <1>2
      <3> HIDE DEF T
      <3>2. QED
        BY <2>1, <3>1, LeastNat
    <2>3. \A w : Collects(w, frames) => \A j \in 0..n : w[j] =
             IF j = 0 THEN <<>>
             ELSE IF frames[j].type = "event" THEN Append(w[j - 1], frames[j].n) ELSE w[j - 1]
      BY DEF Collects, n
    <2>4. CASE i = 0
      BY <1>5, <1>6, <2>2, <2>3, <2>4
    <2>5. CASE i # 0
      <3>1. i - 1 \in 0..n /\ i - 1 \notin T
        BY <1>2, <2>2, <2>5
      <3>2. v[i - 1] = u[i - 1]
        BY <3>1
      <3>3. QED
        BY <1>5, <1>6, <2>2, <2>3, <2>5, <3>2
    <2>6. QED
      BY <2>4, <2>5
  <1>8. v[n] = u[n]
    BY <1>2, <1>7
  <1>9. QED
    BY <1>1, <1>2, <1>8 DEF u, n

\* The first frames of a queue continue as all of them do.
LEMMA FirstFrames ==
    ASSUME NEW frames \in Seq(Frame), NEW k \in Nat, Continues(frames, k), NEW i \in 0..Len(frames)
    PROVE  Stream!Events(SubSeq(frames, 1, i)) = Between(k, Reached(frames, k, i))
  <1> DEFINE g == SubSeq(frames, 1, i)
  <1>1. g \in Seq(Frame) /\ Len(g) = i /\ \A j \in 1..i : g[j] = frames[j]
    <2>1. \A j \in 1..i : frames[j] \in Frame
      OBVIOUS
    <2>2. QED
      BY <2>1
  <1> HIDE DEF g
  <1>2. \A j \in 0..i : Reached(g, k, j) = Reached(frames, k, j)
    BY <1>1 DEF Reached
  <1>3. Continues(g, k)
    <2>1. ASSUME NEW j \in DOMAIN g
          PROVE  g[j].n = IF g[j].type = "event" THEN Reached(g, k, j - 1) + 1
                          ELSE Reached(g, k, j - 1)
      <3>1. j \in DOMAIN frames /\ g[j] = frames[j] /\ j - 1 \in 0..i
        BY <1>1, <2>1
      <3>2. QED
        BY <1>2, <3>1 DEF Continues
    <2>2. QED
      BY <2>1 DEF Continues
  <1>4. Stream!Events(g) = Between(k, Reached(g, k, i))
    BY <1>1, <1>3, EventsAre
  <1>5. i \in 0..i
    OBVIOUS
  <1>6. QED
    BY <1>2, <1>4, <1>5 DEF g

\* One more frame that continues a queue, unless the queue is full and the session closes.
LEMMA SentContinues ==
    ASSUME streamClock \in Int, NEW k \in Nat, NEW s \in OpenSession, Continues(s.frames, k),
           NEW frame \in Frame,
           frame.n = IF frame.type = "event" THEN Reached(s.frames, k, Len(s.frames)) + 1
                     ELSE Reached(s.frames, k, Len(s.frames))
    PROVE  LET t == Stream!Sent(s, frame) IN
           /\ t \in OpenSession \union ClosedSession /\ Continues(t.frames, k)
           /\ t.open => t.last = s.last /\ Reached(t.frames, k, Len(t.frames)) = frame.n
           /\ ~t.open => t.frames = s.frames
  <1> DEFINE t == Stream!Sent(s, frame)
             more == Append(s.frames, frame)
             n == Len(s.frames)
  <1>1. s.frames \in Seq(Frame) /\ n \in Nat
    BY DEF OpenSession
  <1>2. CASE n >= OutboundLimit
    <2>1. t = [open |-> FALSE, frames |-> s.frames, code |-> 4002]
      BY <1>2 DEF Stream!Sent, Stream!Closed
    <2> HIDE DEF t
    <2>2. t \in ClosedSession /\ t.frames = s.frames /\ ~t.open
      BY <1>1, <2>1 DEF ClosedSession
    <2>3. QED
      BY <2>2 DEF t
  <1>3. CASE ~(n >= OutboundLimit)
    <2>1. t = [s EXCEPT !.frames = more, !.sentAt = streamClock]
      BY <1>3 DEF Stream!Sent
    <2>2. more \in Seq(Frame) /\ Len(more) = n + 1 /\ more[n + 1] = frame
          /\ \A i \in 1..n : more[i] = s.frames[i]
      BY <1>1
    <2> HIDE DEF t, more
    <2>3. t \in OpenSession /\ t.open /\ t.frames = more /\ t.last = s.last
      BY <2>1, <2>2 DEF OpenSession
    <2>4. \A i \in 0..n : Reached(more, k, i) = Reached(s.frames, k, i)
      BY <1>1, <2>2 DEF Reached
    <2>5. Continues(more, k)
      <3>1. ASSUME NEW i \in DOMAIN more
            PROVE  more[i].n = IF more[i].type = "event" THEN Reached(more, k, i - 1) + 1
                               ELSE Reached(more, k, i - 1)
        <4>1. i \in 1..(n + 1)
          BY <2>2
        <4>2. CASE i = n + 1
          <5>1. i - 1 = n /\ n \in 0..n
            BY <1>1, <4>2
          <5>2. Reached(more, k, i - 1) = Reached(s.frames, k, n)
            BY <2>4, <5>1
          <5> HIDE DEF n
          <5>3. QED
            BY <2>2, <4>2, <5>2 DEF n
        <4>3. CASE i # n + 1
          <5>1. i \in 1..n /\ i - 1 \in 0..n
            BY <1>1, <4>1, <4>3
          <5>2. i \in DOMAIN s.frames
            BY <1>1, <5>1
          <5>3. QED
            BY <2>2, <2>4, <5>1, <5>2 DEF Continues
        <4>4. QED
          BY <4>2, <4>3
      <3>2. QED
        BY <3>1 DEF Continues
    <2>6. Reached(more, k, Len(more)) = frame.n
      BY <1>1, <2>2 DEF Reached
    <2>7. QED
      BY <2>3, <2>5, <2>6 DEF t
  <1>4. QED
    BY <1>2, <1>3

\* The next event after what a session has.
LEMMA DeliveredGood ==
    ASSUME streamClock \in Int, NEW k \in Nat, NEW n \in Nat, NEW s,
           SessionGood(s, k, n), s.open
    PROVE  SessionGood(Stream!Delivered(s, n + 1), k, n + 1)
  <1> DEFINE r == [s EXCEPT !.last = n + 1]
             f == Stream!Event(n + 1)
             t == Stream!Sent(r, f)
  <1>1. s \in OpenSession /\ Continues(s.frames, k) /\ Reached(s.frames, k, Len(s.frames)) = n
    BY DEF SessionGood, ClosedSession
  <1>2. r \in OpenSession /\ r.frames = s.frames /\ r.last = n + 1
    <2>1. PICK m \in Nat : m = n + 1
      OBVIOUS
    <2>2. [s EXCEPT !.last = m] \in OpenSession /\ [s EXCEPT !.last = m].frames = s.frames
          /\ [s EXCEPT !.last = m].last = m
      BY <1>1 DEF OpenSession
    <2>3. QED
      BY <2>1, <2>2
  <1>3. f \in Frame /\ f.n = n + 1 /\ f.type = "event"
    BY DEF Stream!Event, Frame
  <1>4. Stream!Delivered(s, n + 1) = t
    BY DEF Stream!Delivered
  <1> HIDE DEF r, f
  <1>5. /\ t \in OpenSession \union ClosedSession /\ Continues(t.frames, k)
        /\ t.open => t.last = n + 1 /\ Reached(t.frames, k, Len(t.frames)) = n + 1
        /\ ~t.open => t.frames = s.frames
    BY <1>1, <1>2, <1>3, SentContinues
  <1>6. t.open \in BOOLEAN
    BY <1>5 DEF OpenSession, ClosedSession
  <1> HIDE DEF t
  <1>7. Reached(t.frames, k, Len(t.frames)) <= n + 1
    BY <1>1, <1>5
  <1>8. QED
    BY <1>4, <1>5, <1>7 DEF SessionGood

\* A session that has closed falls behind.
LEMMA ClosedGood ==
    ASSUME NEW k \in Nat, NEW n \in Nat, NEW s, SessionGood(s, k, n), ~s.open
    PROVE  SessionGood(s, k, n + 1)
  <1>1. s.frames \in Seq(Frame) /\ Continues(s.frames, k)
    BY DEF SessionGood, OpenSession, ClosedSession
  <1>2. Reached(s.frames, k, Len(s.frames)) \in Nat
    BY <1>1, ReachedGrows
  <1>3. QED
    BY <1>2 DEF SessionGood

\* Replaying up to what has been published.
Replays(u, s, from, to) ==
    u = [n \in from..to |-> IF n = from THEN s
                            ELSE IF u[n - 1].open THEN Stream!Delivered(u[n - 1], n) ELSE u[n - 1]]

\* There is a function that unfolds as Replay does.
LEMMA ReplaysExist ==
    ASSUME NEW s, NEW from \in Nat, NEW to \in Nat, from <= to
    PROVE  \E u : Replays(u, s, from, to)
  <1> DEFINE T == {d \in Nat : ~ \E u : Replays(u, s, from, from + d)}
             more(t, n) == IF t.open THEN Stream!Delivered(t, n) ELSE t
  <1>1. T = {}
    <2>1. SUFFICES ASSUME T # {} PROVE FALSE
      OBVIOUS
    <2>2. PICK d \in T : \A e \in T : d <= e
      <3>1. T \in SUBSET Nat
        OBVIOUS
      <3> HIDE DEF T
      <3>2. QED
        BY <2>1, <3>1, LeastNat
    <2>3. CASE d = 0
      <3>1. Replays([n \in from..(from + 0) |-> s], s, from, from + 0)
        BY DEF Replays
      <3>2. QED
        BY <2>2, <2>3, <3>1
    <2>4. CASE d # 0
      <3>1. d - 1 \in Nat /\ d - 1 \notin T
        BY <2>2, <2>4
      <3>2. PICK u : Replays(u, s, from, from + (d - 1))
        BY <3>1
      <3>3. PICK m \in Nat : m = from + (d - 1) /\ m + 1 = from + d /\ from <= m
        BY <3>1
      <3> DEFINE h == [n \in from..(m + 1) |-> IF n = m + 1 THEN more(u[m], m + 1) ELSE u[n]]
      <3> HIDE DEF more
      <3>4. ASSUME NEW n \in from..(m + 1)
            PROVE  h[n] = IF n = from THEN s ELSE more(h[n - 1], n)
        <4>1. CASE n = m + 1
          <5>1. m \in from..(m + 1) /\ m # m + 1 /\ n - 1 = m /\ n # from
            BY <3>3, <4>1
          <5>2. h[m] = u[m] /\ h[n] = more(u[m], m + 1)
            BY <4>1, <5>1
          <5> HIDE DEF h
          <5>3. QED
            BY <4>1, <5>1, <5>2
        <4>2. CASE n # m + 1
          <5>1. n \in from..m /\ h[n] = u[n]
            BY <3>3, <4>2
          <5>2. u[n] = IF n = from THEN s ELSE more(u[n - 1], n)
            BY <3>2, <3>3, <5>1 DEF Replays, more
          <5>3. n # from => n - 1 \in from..(m + 1) /\ n - 1 # m + 1
            BY <3>3, <5>1
          <5>4. n # from => h[n - 1] = u[n - 1]
            BY <5>3
          <5> HIDE DEF h
          <5>5. QED
            BY <5>1, <5>2, <5>4
        <4>3. QED
          BY <4>1, <4>2
      <3>5. h = [n \in from..(m + 1) |-> h[n]]
        OBVIOUS
      <3> HIDE DEF h
      <3>6. Replays(h, s, from, m + 1)
        BY <3>4, <3>5 DEF Replays, more
      <3>7. QED
        BY <2>2, <3>3, <3>6
    <2>5. QED
      BY <2>3, <2>4
  <1>2. PICK d \in Nat : to = from + d
    <2>1. to - from \in Nat /\ to = from + (to - from)
      OBVIOUS
    <2>2. QED
      BY <2>1
  <1>3. QED
    BY <1>1, <1>2

\* A replay ends with a session that has queued all of it, or has closed on the way.
LEMMA ReplayGood ==
    ASSUME streamClock \in Int, NEW s, NEW from \in Nat, NEW to \in Nat, from <= to,
           SessionGood(s, from, from)
    PROVE  SessionGood(Stream!Replay(s, from, to), from, to)
  <1> DEFINE u == CHOOSE w : Replays(w, s, from, to)
             T == {n \in from..to : ~ SessionGood(u[n], from, n)}
  <1>1. Stream!Replay(s, from, to) = u[to]
    BY DEF Stream!Replay, Replays
  <1>2. Replays(u, s, from, to)
    BY ReplaysExist
  <1> HIDE DEF u
  <1>3. \A n \in from..to : u[n] =
           IF n = from THEN s
           ELSE IF u[n - 1].open THEN Stream!Delivered(u[n - 1], n) ELSE u[n - 1]
    BY <1>2 DEF Replays
  <1>4. T = {}
    <2>1. SUFFICES ASSUME T # {} PROVE FALSE
      OBVIOUS
    <2>2. PICK n \in T : \A m \in T : n <= m
      <3>1. T \in SUBSET Nat
        OBVIOUS
      <3> HIDE DEF T
      <3>2. QED
        BY <2>1, <3>1, LeastNat
    <2>3. n \in from..to /\ ~ SessionGood(u[n], from, n)
      BY <2>2
    <2>4. n # from
      BY <1>3, <2>3
    <2>5. PICK m \in Nat : n = m + 1 /\ m = n - 1 /\ m \in from..to
      BY <2>3, <2>4
    <2>6. m \notin T
      BY <2>2, <2>5
    <2>7. SessionGood(u[m], from, m)
      BY <2>5, <2>6
    <2>8. CASE u[m].open
      <3>1. u[n] = Stream!Delivered(u[m], m + 1)
        BY <1>3, <2>3, <2>4, <2>5, <2>8
      <3>2. SessionGood(Stream!Delivered(u[m], m + 1), from, m + 1)
        BY <2>7, <2>8, DeliveredGood
      <3>3. QED
        BY <2>3, <2>5, <3>1, <3>2
    <2>9. CASE ~u[m].open
      <3>1. u[n] = u[m]
        BY <1>3, <2>3, <2>4, <2>5, <2>9
      <3>2. SessionGood(u[m], from, m + 1)
        BY <2>7, <2>9, ClosedGood
      <3>3. QED
        BY <2>3, <2>5, <3>1, <3>2
    <2>10. QED
      BY <2>8, <2>9
  <1>5. to \in from..to /\ to \notin T
    BY <1>4
  <1>6. QED
    BY <1>1, <1>5

\* Initially there is nothing to continue.
LEMMA StreamStarts == Stream!Init => StreamInv
  <1> SUFFICES ASSUME Stream!Init PROVE StreamInv
    OBVIOUS
  <1>1. /\ streamClock = 0 /\ published = 0 /\ applied = [c \in Task |-> <<>>]
        /\ session = [c \in Task |-> [open |-> FALSE, frames |-> <<>>, code |-> 0]]
    BY DEF Stream!Init, Stream!Closed
  <1> DEFINE s == [open |-> FALSE, frames |-> <<>>, code |-> 0]
  <1>2. s \in ClosedSession /\ s.frames = <<>> /\ ~s.open
    BY DEF ClosedSession
  <1> HIDE DEF s
  <1>3. SessionGood(s, 0, 0)
    BY <1>2 DEF SessionGood, Continues, Reached
  <1>4. UpTo(0) = <<>>
    BY DEF UpTo
  <1>5. \A c \in Task : applied[c] = <<>> /\ session[c] = s
    BY <1>1 DEF s
  <1>6. \A c \in Task : applied[c] = UpTo(Len(applied[c])) /\ SessionGood(session[c], Len(applied[c]), published)
    BY <1>1, <1>3, <1>4, <1>5
  <1>7. applied \in [Task -> Seq(Nat)] /\ DOMAIN session = Task /\ session = [c \in Task |-> session[c]]
    BY <1>1
  <1>8. QED
    BY <1>1, <1>6, <1>7 DEF StreamInv

\* A client who has applied k knows of no more than was published, and a connection that has
\* closed as it is leaves its frames.
LEMMA GoodFacts ==
    ASSUME NEW k \in Nat, NEW n \in Nat, NEW s, SessionGood(s, k, n)
    PROVE  /\ s.frames \in Seq(Frame) /\ s.open \in BOOLEAN /\ k <= n
           /\ Reached(s.frames, k, Len(s.frames)) \in Nat
           /\ k <= Reached(s.frames, k, Len(s.frames))
           /\ \A code \in Int : SessionGood(Stream!Closed(s.frames, code), k, n)
  <1>1. s.frames \in Seq(Frame) /\ s.open \in BOOLEAN /\ Continues(s.frames, k)
    BY DEF SessionGood, OpenSession, ClosedSession
  <1>2. /\ Reached(s.frames, k, Len(s.frames)) \in Nat
        /\ k <= Reached(s.frames, k, Len(s.frames))
    BY <1>1, ReachedGrows
  <1>3. Reached(s.frames, k, Len(s.frames)) <= n
    BY DEF SessionGood
  <1>4. ASSUME NEW code \in Int PROVE SessionGood(Stream!Closed(s.frames, code), k, n)
    <2> DEFINE t == Stream!Closed(s.frames, code)
    <2>1. t \in ClosedSession /\ t.frames = s.frames /\ ~t.open
      BY <1>1 DEF Stream!Closed, ClosedSession
    <2> HIDE DEF t
    <2>2. SessionGood(t, k, n)
      BY <1>1, <1>3, <2>1 DEF SessionGood
    <2>3. QED
      BY <2>2 DEF t
  <1>5. QED
    BY <1>1, <1>2, <1>3, <1>4

\* A step that leaves what one client has applied and gives it a good session.
LEMMA OneSession ==
    ASSUME StreamInv, NEW c \in Task, NEW t, SessionGood(t, Len(applied[c]), published),
           session' = [session EXCEPT ![c] = t], UNCHANGED <<streamClock, published, applied>>
    PROVE  StreamInv'
  <1>1. \A d \in Task : session'[d] = IF d = c THEN t ELSE session[d]
    BY DEF StreamInv
  <1>2. DOMAIN session' = Task /\ session' = [d \in Task |-> session'[d]]
    BY DEF StreamInv
  <1>3. \A d \in Task : /\ applied'[d] = UpTo(Len(applied'[d]))
                        /\ SessionGood(session'[d], Len(applied'[d]), published')
    BY <1>1 DEF StreamInv
  <1>4. QED
    BY <1>2, <1>3 DEF StreamInv

\* No step leaves a gap.
LEMMA StreamStep == StreamInv /\ [Stream!Next]_streamVars => StreamInv'
  <1> SUFFICES ASSUME StreamInv, [Stream!Next]_streamVars PROVE StreamInv'
    OBVIOUS
  <1>1. /\ streamClock \in Int /\ published \in Nat
        /\ \A c \in Task : Len(applied[c]) \in Nat /\ SessionGood(session[c], Len(applied[c]), published)
    BY DEF StreamInv
  <1>2. CASE Stream!Publish
    <2>1. /\ published' = published + 1 /\ UNCHANGED <<streamClock, applied>>
          /\ session' = [c \in Task |-> IF session[c].open THEN Stream!Delivered(session[c], published + 1)
                                        ELSE session[c]]
      BY <1>2 DEF Stream!Publish
    <2>2. ASSUME NEW c \in Task PROVE SessionGood(session'[c], Len(applied[c]), published + 1)
      <3> DEFINE s == session[c]
                 k == Len(applied[c])
      <3>1. SessionGood(s, k, published) /\ k \in Nat /\ s.open \in BOOLEAN
        BY <1>1, GoodFacts
      <3>2. session'[c] = IF s.open THEN Stream!Delivered(s, published + 1) ELSE s
        BY <2>1
      <3> HIDE DEF s, k
      <3>3. CASE s.open
        <4>1. SessionGood(Stream!Delivered(s, published + 1), k, published + 1)
          BY <1>1, <3>1, <3>3, DeliveredGood
        <4>2. QED
          BY <3>2, <3>3, <4>1 DEF k
      <3>4. CASE ~s.open
        <4>1. SessionGood(s, k, published + 1)
          BY <1>1, <3>1, <3>4, ClosedGood
        <4>2. QED
          BY <3>2, <3>4, <4>1 DEF k
      <3>5. QED
        BY <3>3, <3>4
    <2>3. DOMAIN session' = Task /\ session' = [c \in Task |-> session'[c]] /\ published' \in Nat
      BY <1>1, <2>1
    <2>4. QED
      BY <2>1, <2>2, <2>3 DEF StreamInv
  <1>3. CASE Stream!Advance
    <2>1. streamClock' \in Int /\ UNCHANGED <<published, session, applied>>
      BY <1>1, <1>3 DEF Stream!Advance
    <2>2. QED
      BY <2>1 DEF StreamInv
  <1>4. ASSUME NEW c \in Task, NEW expires \in Int, Stream!Connect(c, expires)
        PROVE  StreamInv'
    <2> DEFINE k == Len(applied[c])
               s == [open |-> TRUE, frames |-> <<>>, expires |-> expires, sentAt |-> streamClock,
                     last |-> k]
               t == IF expires <= streamClock THEN Stream!Closed(<<>>, 4001)
                    ELSE Stream!Replay(s, k, published)
    <2>1. session' = [session EXCEPT ![c] = t] /\ UNCHANGED <<streamClock, published, applied>>
      BY <1>4 DEF Stream!Connect, Stream!ResumeAfter
    <2>2. k \in Nat /\ k <= published
      BY <1>1, GoodFacts
    <2>3. s \in OpenSession /\ s.frames = <<>> /\ s.last = k
      BY <1>1, <2>2 DEF OpenSession
    <2> HIDE DEF k, s
    <2>4. SessionGood(s, k, k)
      BY <2>2, <2>3 DEF SessionGood, Continues, Reached
    <2>5. SessionGood(Stream!Replay(s, k, published), k, published)
      BY <1>1, <2>2, <2>4, ReplayGood
    <2>6. SessionGood(Stream!Closed(<<>>, 4001), k, published)
      <3> DEFINE e == Stream!Closed(<<>>, 4001)
      <3>1. e \in ClosedSession /\ e.frames = <<>> /\ ~e.open
        BY DEF Stream!Closed, ClosedSession
      <3> HIDE DEF e
      <3>2. SessionGood(e, k, published)
        BY <2>2, <3>1 DEF SessionGood, Continues, Reached
      <3>3. QED
        BY <3>2 DEF e
    <2>7. SessionGood(t, k, published)
      BY <2>5, <2>6
    <2> HIDE DEF t
    <2>8. QED
      BY <2>1, <2>7, OneSession DEF k
  <1>5. ASSUME NEW c \in Task, Stream!Tick(c) PROVE StreamInv'
    <2> DEFINE k == Len(applied[c])
               s == session[c]
               f == Stream!Ping(s.last)
               t == IF s.expires <= streamClock THEN Stream!Closed(s.frames, 4001)
                    ELSE Stream!Sent(s, f)
    <2>1. /\ session' = [session EXCEPT ![c] = t] /\ UNCHANGED <<streamClock, published, applied>>
          /\ s.open
      BY <1>5 DEF Stream!Tick
    <2>2. k \in Nat /\ SessionGood(s, k, published)
      BY <1>1
    <2> HIDE DEF k, s
    <2>3. SessionGood(Stream!Closed(s.frames, 4001), k, published)
      <3>1. \A code \in Int : SessionGood(Stream!Closed(s.frames, code), k, published)
        BY <1>1, <2>2, GoodFacts
      <3>2. PICK code \in Int : code = 4001
        OBVIOUS
      <3>3. SessionGood(Stream!Closed(s.frames, code), k, published)
        BY <3>1
      <3>4. QED
        BY <3>2, <3>3
    <2>4. /\ s \in OpenSession /\ Continues(s.frames, k) /\ s.last = published
          /\ Reached(s.frames, k, Len(s.frames)) = published
      BY <2>1, <2>2 DEF SessionGood, ClosedSession
    <2>5. f \in Frame /\ f.type = "ping" /\ f.n = published
      BY <1>1, <2>4 DEF Stream!Ping, Frame
    <2> HIDE DEF f
    <2>6. SessionGood(Stream!Sent(s, f), k, published)
      <3> DEFINE r == Stream!Sent(s, f)
      <3>1. /\ r \in OpenSession \union ClosedSession /\ Continues(r.frames, k)
            /\ r.open => r.last = published /\ Reached(r.frames, k, Len(r.frames)) = published
            /\ ~r.open => r.frames = s.frames
        BY <1>1, <2>2, <2>4, <2>5, SentContinues
      <3>2. r.open \in BOOLEAN
        BY <3>1 DEF OpenSession, ClosedSession
      <3> HIDE DEF r
      <3>3. Reached(r.frames, k, Len(r.frames)) <= published
        BY <1>1, <2>4, <3>1, <3>2
      <3>4. SessionGood(r, k, published)
        BY <3>1, <3>3 DEF SessionGood
      <3>5. QED
        BY <3>4 DEF r
    <2>7. SessionGood(t, k, published)
      BY <2>3, <2>6
    <2> HIDE DEF t
    <2>8. QED
      BY <2>1, <2>7, OneSession DEF k
  <1>6. ASSUME NEW c \in Task, Stream!CloseForRestart(c) PROVE StreamInv'
    <2> DEFINE k == Len(applied[c])
               s == session[c]
               t == Stream!Closed(s.frames, 1001)
    <2>1. session' = [session EXCEPT ![c] = t] /\ UNCHANGED <<streamClock, published, applied>>
      BY <1>6 DEF Stream!CloseForRestart
    <2>2. k \in Nat /\ SessionGood(s, k, published)
      BY <1>1
    <2> HIDE DEF k, s
    <2>3. SessionGood(t, k, published)
      <3>1. \A code \in Int : SessionGood(Stream!Closed(s.frames, code), k, published)
        BY <1>1, <2>2, GoodFacts
      <3>2. PICK code \in Int : code = 1001
        OBVIOUS
      <3>3. SessionGood(Stream!Closed(s.frames, code), k, published)
        BY <3>1
      <3>4. QED
        BY <3>2, <3>3
    <2> HIDE DEF t
    <2>4. QED
      BY <2>1, <2>3, OneSession DEF k
  <1>7. ASSUME NEW c \in Task, Stream!Drain(c) PROVE StreamInv'
    <2> DEFINE k == Len(applied[c])
               s == session[c]
               m == Reached(s.frames, k, Len(s.frames))
               t == [s EXCEPT !.frames = <<>>]
    <2>1. /\ applied' = [applied EXCEPT ![c] = applied[c] \o Stream!Events(s.frames)]
          /\ session' = [session EXCEPT ![c] = t] /\ UNCHANGED <<streamClock, published>>
      BY <1>7 DEF Stream!Drain
    <2>2. k \in Nat /\ SessionGood(s, k, published) /\ applied[c] = UpTo(k)
      BY <1>1 DEF StreamInv
    <2> HIDE DEF k, s
    <2>3. s.frames \in Seq(Frame) /\ m \in Nat /\ k <= m /\ m <= published
          /\ Continues(s.frames, k)
      BY <1>1, <2>2, GoodFacts DEF SessionGood
    <2>4. Stream!Events(s.frames) = Between(k, m)
      BY <2>2, <2>3, EventsAre
    <2> DEFINE more == applied[c] \o Stream!Events(s.frames)
    <2>5. s.open => s.last = published /\ m = published
      BY <2>2 DEF SessionGood
    <2> HIDE DEF m
    <2>6. more = UpTo(m) /\ Len(more) = m /\ more \in Seq(Nat)
      <3>1. more = UpTo(k) \o Between(k, m)
        BY <2>2, <2>4
      <3> HIDE DEF more
      <3>2. QED
        BY <2>2, <2>3, <3>1, Joined
    <2>7. /\ t \in OpenSession \union ClosedSession /\ t.frames = <<>>
          /\ t.open = s.open
          /\ t.open => t.last = s.last
      <3>1. PICK none \in Seq(Frame) : none = <<>>
        BY EmptySeq
      <3>2. CASE s \in OpenSession
        <4>1. t = [open |-> s.open, frames |-> none, expires |-> s.expires,
                   sentAt |-> s.sentAt, last |-> s.last]
          BY <3>1, <3>2 DEF OpenSession
        <4>2. s.open \in {TRUE} /\ s.expires \in Int /\ s.sentAt \in Int /\ s.last \in Nat
          BY <3>2 DEF OpenSession
        <4> HIDE DEF t
        <4>3. QED
          BY <3>1, <4>1, <4>2 DEF OpenSession
      <3>3. CASE s \in ClosedSession
        <4>1. t = [open |-> s.open, frames |-> none, code |-> s.code]
          BY <3>1, <3>3 DEF ClosedSession
        <4>2. s.open \in {FALSE} /\ s.code \in Int
          BY <3>3 DEF ClosedSession
        <4> HIDE DEF t
        <4>3. QED
          BY <3>1, <4>1, <4>2 DEF ClosedSession
      <3>4. QED
        BY <2>2, <3>2, <3>3 DEF SessionGood
    <2> HIDE DEF t
    <2>8. SessionGood(t, m, published)
      <3>1. Continues(t.frames, m)
        BY <2>7 DEF Continues
      <3>2. Reached(t.frames, m, Len(t.frames)) = m
        BY <2>7 DEF Reached
      <3>3. t.open => t.last = published /\ Reached(t.frames, m, Len(t.frames)) = published
        <4>1. SUFFICES ASSUME t.open
                       PROVE  t.last = published /\ Reached(t.frames, m, Len(t.frames)) = published
          OBVIOUS
        <4>2. s.open
          BY <2>7, <4>1
        <4>3. QED
          BY <2>5, <2>7, <3>2, <4>1, <4>2
      <3>4. Reached(t.frames, m, Len(t.frames)) <= published
        BY <2>3, <3>2
      <3>5. QED
        BY <2>7, <3>1, <3>3, <3>4 DEF SessionGood
    <2> HIDE DEF more
    <2>9. /\ \A d \in Task : session'[d] = IF d = c THEN t ELSE session[d]
          /\ \A d \in Task : applied'[d] = IF d = c THEN more ELSE applied[d]
      BY <2>1 DEF StreamInv, more
    <2>10. /\ DOMAIN session' = Task /\ session' = [d \in Task |-> session'[d]]
           /\ applied' \in [Task -> Seq(Nat)]
      BY <2>1, <2>6 DEF StreamInv, more
    <2>11. \A d \in Task : /\ applied'[d] = UpTo(Len(applied'[d]))
                           /\ SessionGood(session'[d], Len(applied'[d]), published')
      BY <2>1, <2>6, <2>8, <2>9 DEF StreamInv
    <2>12. QED
      BY <2>1, <2>10, <2>11 DEF StreamInv
  <1>8. CASE UNCHANGED streamVars
    BY <1>8 DEF streamVars, StreamInv
  <1>9. QED
    <2>1. streamClock \in Int /\ streamClock + TokenLife \in Int
      BY <1>1, StreamAssumption
    <2>2. QED
      BY <1>2, <1>3, <1>4, <1>5, <1>6, <1>7, <1>8, <2>1 DEF Stream!Next

\* Lab 21: for any clients, limits of the queue, publications, expiries, restarts and
\* reconnections, a client applies every event once and in order, an open session has queued
\* all that was published, and a ping names the last event before it.
THEOREM StreamsAlwaysContinuous == Stream!Spec => []Stream!StreamContinuous
  <1>1. StreamInv => Stream!StreamContinuous
    <2> SUFFICES ASSUME StreamInv, NEW c \in Task
                 PROVE  LET s == session[c]
                            all == applied[c] \o Stream!Events(s.frames)
                        IN /\ all = [i \in DOMAIN all |-> i]
                           /\ s.open => Len(all) = published /\ s.last = published
                           /\ \A i \in DOMAIN s.frames : s.frames[i].type = "ping" =>
                                s.frames[i].n = Len(applied[c]) + Len(Stream!Events(SubSeq(s.frames, 1, i)))
      BY DEF Stream!StreamContinuous
    <2> DEFINE s == session[c]
               k == Len(applied[c])
               m == Reached(s.frames, k, Len(s.frames))
               all == applied[c] \o Stream!Events(s.frames)
    <2>1. k \in Nat /\ SessionGood(s, k, published) /\ applied[c] = UpTo(k) /\ published \in Nat
      BY DEF StreamInv
    <2> HIDE DEF k, s
    <2>2. s.frames \in Seq(Frame) /\ m \in Nat /\ k <= m /\ Continues(s.frames, k)
      BY <2>1, GoodFacts DEF SessionGood
    <2>3. Stream!Events(s.frames) = Between(k, m)
      BY <2>1, <2>2, EventsAre
    <2>4. s.open => s.last = published /\ m = published
      BY <2>1 DEF SessionGood
    <2> HIDE DEF m
    <2>5. all = UpTo(m) /\ Len(all) = m /\ all \in Seq(Nat)
      <3>1. all = UpTo(k) \o Between(k, m)
        BY <2>1, <2>3
      <3> HIDE DEF all
      <3>2. QED
        BY <2>1, <2>2, <3>1, Joined
    <2>6. all = [i \in DOMAIN all |-> i]
      BY <2>5 DEF UpTo
    <2>7. ASSUME NEW i \in DOMAIN s.frames
          PROVE  s.frames[i].n = k + Len(Stream!Events(SubSeq(s.frames, 1, i)))
      <3> DEFINE r == Reached(s.frames, k, i)
      <3>1. i \in 0..Len(s.frames) /\ i # 0
        BY <2>2
      <3>2. r \in Nat /\ k <= r /\ r = s.frames[i].n
        BY <2>1, <2>2, <3>1, ReachedGrows DEF Reached
      <3>3. Stream!Events(SubSeq(s.frames, 1, i)) = Between(k, r)
        BY <2>1, <2>2, <3>1, FirstFrames
      <3> HIDE DEF r
      <3>4. Len(Between(k, r)) = r - k
        BY <2>1, <3>2, Joined
      <3>5. QED
        BY <2>1, <3>2, <3>3, <3>4
    <2>8. QED
      BY <2>4, <2>5, <2>6, <2>7 DEF s, k
  <1>2. StreamInv /\ [Stream!Next]_(Stream!vars) => StreamInv'
    BY StreamStep DEF Stream!vars, streamVars
  <1>3. Stream!Spec => []StreamInv
    BY StreamStarts, <1>2, PTL DEF Stream!Spec
  <1>4. QED
    BY <1>1, <1>3, PTL

-----------------------------------------------------------------------------

(* The listings and mutations of lab 37. *)

\* Reconciler counts as the library does.
LEMMA CloudCounts == \A S : Cloud!Cardinality(S) = Cardinality(S)
  BY DEF Cloud!Cardinality, Cardinality

\* A finite set of numbers that is not empty has a largest.
LEMMA LargestIs ==
    ASSUME NEW S \in SUBSET Nat, IsFiniteSet(S), S # {}
    PROVE  Cloud!Largest(S) \in S /\ \A m \in S : m <= Cloud!Largest(S)
  <1> DEFINE above(n) == {m \in S : m > n}
             T == {Cardinality(above(n)) : n \in S}
  <1>1. \A n \in S : IsFiniteSet(above(n)) /\ Cardinality(above(n)) \in Nat
    BY FS_Subset, FS_CardinalityType
  <1>2. PICK k \in T : \A j \in T : k <= j
    <2>1. T \in SUBSET Nat /\ T # {}
      BY <1>1
    <2> HIDE DEF T
    <2>2. QED
      BY <2>1, LeastNat
  <1>3. PICK n \in S : k = Cardinality(above(n))
    BY <1>2
  <1>4. \A m \in S : m <= n
    <2>1. SUFFICES ASSUME NEW m \in S, m > n PROVE FALSE
      OBVIOUS
    <2>2. above(m) \in SUBSET above(n) /\ m \in above(n) /\ m \notin above(m)
      <3>1. m \in Nat /\ n \in Nat /\ \A x \in S : x \in Nat
        OBVIOUS
      <3>2. \A x \in S : x > m => x > n
        BY <2>1, <3>1
      <3>3. m \in above(n) /\ m \notin above(m)
        BY <2>1, <3>1
      <3>4. above(m) \subseteq above(n)
        BY <3>2
      <3>5. QED
        BY <3>3, <3>4
    <2>3. Cardinality(above(m)) >= Cardinality(above(n))
      BY <1>2, <1>3
    <2>4. IsFiniteSet(above(n)) /\ Cardinality(above(n)) \in Nat /\ Cardinality(above(m)) \in Nat
      BY <1>1
    <2> HIDE DEF above
    <2>5. above(m) = above(n)
      BY <2>2, <2>3, <2>4, FS_Subset
    <2>6. QED
      BY <2>2, <2>5
  <1>5. QED
    BY <1>4 DEF Cloud!Largest

\* The first page of a set: it is downward closed in the set, and it is full or all.
LEMMA FirstPage ==
    ASSUME NEW S \in SUBSET Nat, IsFiniteSet(S)
    PROVE  /\ Cloud!Full(S) \in SUBSET S
           /\ \A n \in Cloud!Full(S), m \in S : m <= n => m \in Cloud!Full(S)
           /\ Cloud!Full(S) = S \/ Cardinality(Cloud!Full(S)) = PageSize
  <1> DEFINE upto(n) == {m \in S : m <= n}
             F == Cloud!Full(S)
  <1>1. F = {n \in S : Cardinality(upto(n)) <= PageSize}
    <2>1. ASSUME NEW n \in S PROVE Cloud!Rank(n, S) = Cardinality(upto(n))
      BY CloudCounts DEF Cloud!Rank
    <2> HIDE DEF upto
    <2>2. QED
      BY <2>1 DEF Cloud!Full
  <1>2. \A n \in S : IsFiniteSet(upto(n)) /\ Cardinality(upto(n)) \in Nat
    BY FS_Subset, FS_CardinalityType
  <1>3. PageSize \in Nat /\ PageSize > 0
    BY CloudAssumption
  <1> HIDE DEF F
  <1>4. F \in SUBSET S /\ IsFiniteSet(F) /\ Cardinality(F) \in Nat
    BY <1>1, FS_Subset, FS_CardinalityType
  <1>5. ASSUME NEW n \in F, NEW m \in S, m <= n PROVE m \in F
    <2>1. n \in S /\ upto(m) \in SUBSET upto(n)
      <3>1. n \in S /\ n \in Nat /\ m \in Nat /\ \A x \in S : x \in Nat
        BY <1>4
      <3>2. \A x \in S : x <= m => x <= n
        BY <1>5, <3>1
      <3>3. QED
        BY <3>1, <3>2
    <2>2. Cardinality(upto(n)) <= PageSize
      BY <1>1
    <2>3. Cardinality(upto(m)) <= Cardinality(upto(n))
      <3>1. IsFiniteSet(upto(n))
        BY <1>2, <2>1
      <3> HIDE DEF upto
      <3>2. QED
        BY <2>1, <3>1, FS_Subset
    <2>4. Cardinality(upto(m)) \in Nat /\ Cardinality(upto(n)) \in Nat
      BY <1>2, <2>1
    <2> HIDE DEF upto
    <2>5. QED
      BY <1>1, <1>3, <2>2, <2>3, <2>4
  <1>6. Cardinality(F) <= PageSize
    <2>1. CASE F = {}
      BY <1>3, <2>1, FS_EmptySet
    <2>2. CASE F # {}
      <3>1. PICK y \in F : \A m \in F : m <= y
        <4>1. F \in SUBSET Nat
          BY <1>4
        <4>2. QED
          BY <1>4, <2>2, <4>1, LargestIs
      <3>2. F = upto(y)
        BY <1>4, <1>5, <3>1
      <3> HIDE DEF upto
      <3>3. QED
        BY <1>1, <3>1, <3>2
    <2>3. QED
      BY <2>1, <2>2
  <1>7. ASSUME F # S PROVE Cardinality(F) >= PageSize
    <2>1. PICK x \in S \ F : \A y \in S \ F : x <= y
      <3>1. (S \ F) \in SUBSET Nat /\ S \ F # {}
        BY <1>4, <1>7
      <3>2. QED
        BY <3>1, LeastNat
    <2>2. \A m \in F : ~(x <= m)
      BY <1>5, <2>1
    <2>3. \A m \in S : m <= x => m \in F \/ m = x
      BY <2>1
    <2>4. upto(x) = F \union {x}
      <3>1. \A m \in F : m \in S /\ m \in Nat /\ x \in Nat /\ x \in S
        BY <1>4, <2>1
      <3>2. \A m \in F : m <= x
        BY <2>2, <3>1
      <3>3. x \in S /\ x \in Nat /\ x <= x
        BY <2>1
      <3>4. \A m : m \in upto(x) <=> m \in F \/ m = x
        BY <2>3, <3>1, <3>2, <3>3
      <3>5. QED
        BY <3>4
    <2>5. Cardinality(upto(x)) > PageSize
      <3>1. ~(Cardinality(upto(x)) <= PageSize)
        BY <1>1, <2>1
      <3>2. Cardinality(upto(x)) \in Nat
        BY <1>2, <2>1
      <3> HIDE DEF upto
      <3>3. QED
        BY <1>3, <3>1, <3>2
    <2> HIDE DEF upto
    <2>6. Cardinality(upto(x)) = Cardinality(F) + 1
      <3>1. IsFiniteSet(F) /\ x \notin F
        BY <1>4, <2>1
      <3>2. Cardinality(F \union {x}) = Cardinality(F) + 1
        <4> HIDE DEF F
        <4>1. QED
          BY <3>1, FS_AddElement
      <3> HIDE DEF F
      <3>3. QED
        BY <2>4, <3>2
    <2>7. QED
      BY <1>3, <1>4, <2>5, <2>6
  <1>8. F = S \/ Cardinality(F) = PageSize
    BY <1>3, <1>4, <1>6, <1>7
  <1>9. QED
    BY <1>4, <1>5, <1>8 DEF F

\* A page of OpenStack or Kubernetes has what comes next after its cursor, up to the next one.
Continued(page, cursor) ==
    /\ page.items \subseteq Cloud!After(cursor)
    /\ page.next = 0 => page.items = Cloud!After(cursor)
    /\ page.next # 0 => /\ page.next \in Nat /\ page.next > cursor
                        /\ page.items = {n \in Cloud!After(cursor) : n <= page.next}

\* Page after page, what is left begins after the cursor.
LEMMA PagesContinue ==
    ASSUME names \subseteq Name, service \in {"openstack", "kubernetes"},
           NEW cursor \in Nat, NEW page \in Cloud!Pages(cursor)
    PROVE  Continued(page, cursor)
  <1> DEFINE S == Cloud!After(cursor)
             F == Cloud!Full(S)
  <1>1. S \in SUBSET Nat /\ IsFiniteSet(S) /\ 0 \notin S /\ \A n \in S : n > cursor
    <2>1. S \in SUBSET Name /\ \A n \in S : n > cursor
      BY DEF Cloud!After
    <2> HIDE DEF S
    <2>2. QED
      BY <2>1, CloudAssumption, FS_Subset
  <1>2. PageSize \in Nat /\ PageSize > 0
    BY CloudAssumption
  <1> HIDE DEF S
  <1>3. /\ F \in SUBSET S /\ (F = S \/ Cardinality(F) = PageSize)
        /\ \A n \in F, m \in S : m <= n => m \in F
    BY <1>1, FirstPage
  <1> HIDE DEF F
  <1>4. ASSUME NEW T \in {F, S}, T # {}
        PROVE  /\ Cloud!Largest(T) \in Nat /\ Cloud!Largest(T) > cursor /\ Cloud!Largest(T) # 0
               /\ T = {n \in S : n <= Cloud!Largest(T)}
    <2>1. T \in SUBSET S /\ T \in SUBSET Nat /\ IsFiniteSet(T)
      BY <1>1, <1>3, FS_Subset
    <2>2. Cloud!Largest(T) \in T /\ \A m \in T : m <= Cloud!Largest(T)
      BY <1>4, <2>1, LargestIs
    <2>3. \A m \in S : m <= Cloud!Largest(T) => m \in T
      BY <1>3, <2>2
    <2>4. QED
      BY <1>1, <2>1, <2>2, <2>3
  <1>5. \A T : Cardinality(T) = PageSize => T # {}
    BY <1>2, FS_EmptySet
  <1>6. CASE service = "openstack"
    <2>1. page \in Cloud!OpenStackPages(cursor)
      BY <1>6 DEF Cloud!Pages
    <2>2. PICK T \in {F, S} :
             page = [items |-> T, next |-> IF Cardinality(T) = PageSize THEN Cloud!Largest(T) ELSE 0]
      <3>1. page \in {[items |-> p, next |-> IF Cardinality(p) = PageSize THEN Cloud!Largest(p)
                                              ELSE 0] : p \in {F, S}}
        <4>1. ~(cursor # 0 /\ cursor \notin names)
          BY <2>1 DEF Cloud!OpenStackPages, Cloud!None
        <4>2. Cloud!OpenStackPages(cursor) =
                {[items |-> p, next |-> IF Cardinality(p) = PageSize THEN Cloud!Largest(p) ELSE 0] :
                    p \in {Cloud!Full(Cloud!After(cursor)), Cloud!After(cursor)}}
          BY <4>1, CloudCounts DEF Cloud!OpenStackPages, Cloud!None
        <4>3. QED
          BY <2>1, <4>2 DEF F, S
      <3>2. QED
        BY <3>1
    <2>3. page.items = T /\ page.next = IF Cardinality(T) = PageSize THEN Cloud!Largest(T) ELSE 0
      BY <2>2
    <2>4. T \in SUBSET S
      BY <1>3
    <2>5. CASE Cardinality(T) = PageSize
      <3>1. T # {}
        BY <1>5, <2>5
      <3>2. QED
        BY <1>4, <2>3, <2>4, <2>5, <3>1 DEF Continued, S
    <2>6. CASE Cardinality(T) # PageSize
      <3>1. T = S
        BY <1>3, <2>6
      <3>2. page.next = 0
        BY <2>3, <2>6
      <3>3. QED
        BY <2>3, <3>1, <3>2 DEF Continued, S
    <2>7. QED
      BY <2>5, <2>6
  <1>7. CASE service = "kubernetes"
    <2>1. page \in Cloud!KubernetesPages(cursor)
      BY <1>7 DEF Cloud!Pages
    <2>2. page = [items |-> F, next |-> IF F = S THEN 0 ELSE Cloud!Largest(F)]
      BY <2>1 DEF Cloud!KubernetesPages, Cloud!None, F, S
    <2>3. page.items = F /\ page.next = IF F = S THEN 0 ELSE Cloud!Largest(F)
      BY <2>2
    <2>4. CASE F = S
      BY <2>3, <2>4 DEF Continued, S
    <2>5. CASE F # S
      <3>1. F # {}
        BY <1>3, <1>5, <2>5
      <3>2. QED
        BY <1>3, <1>4, <2>3, <2>5, <3>1 DEF Continued, S
    <2>6. QED
      BY <2>4, <2>5
  <1>8. QED
    BY <1>6, <1>7

PageAt(cursor) == IF cursor = 0 THEN 1 ELSE cursor

\* The numbers of OpenStack and Kubernetes's names that a listing has passed.
ListedUp(l) ==
    /\ \A n \in Name : l.got[n] <= 1
    /\ l.at = "listing" => \A n \in Name : /\ n > l.cursor => l.got[n] = 0
                                           /\ n \in l.throughout /\ n <= l.cursor => l.got[n] = 1
    /\ l.at = "complete" => \A n \in l.throughout : l.got[n] = 1

\* The pages of Harbor that a listing has passed, while nothing changes.
ListedPages(l) ==
    /\ \A n \in Name : l.got[n] <= 1
    /\ l.at = "listing" =>
          /\ l.throughout = names
          /\ \A n \in Name :
                l.got[n] = IF n \in names /\ Cloud!Rank(n, names) <= (PageAt(l.cursor) - 1) * PageSize
                           THEN 1 ELSE 0
    /\ l.at = "complete" => \A n \in l.throughout : l.got[n] = 1

Listing == [at : {"idle", "listing", "complete", "repeated", "failed"}, cursor : Nat,
            seen : SUBSET Nat, got : [Name -> Nat], throughout : SUBSET Name, changes : Nat]

ListingInv ==
    /\ service \in {"openstack", "kubernetes", "harbor"}
    /\ names \subseteq Name /\ listing \in Listing /\ listing.at # "repeated"
    /\ listing.at = "idle" => /\ listing.cursor = 0 /\ listing.seen = {} /\ listing.changes = 0
                              /\ \A n \in Name : listing.got[n] = 0
    /\ listing.at = "listing" => /\ listing.throughout \subseteq names
                                 /\ \A m \in listing.seen : m <= listing.cursor
    /\ service # "harbor" => ListedUp(listing)
    /\ service = "harbor" /\ listing.changes = 0 => ListedPages(listing)

\* Places in a finite set of names count from 1.
LEMMA Ranks ==
    ASSUME names \subseteq Name
    PROVE  /\ IsFiniteSet(names) /\ Cardinality(names) \in Nat
           /\ \A n \in names : /\ Cloud!Rank(n, names) \in 1..Cardinality(names)
  <1>1. IsFiniteSet(names) /\ Cardinality(names) \in Nat
    BY CloudAssumption, FS_Subset, FS_CardinalityType
  <1>2. ASSUME NEW n \in names PROVE Cloud!Rank(n, names) \in 1..Cardinality(names)
    <2> DEFINE S == {m \in names : m <= n}
    <2>1. Cloud!Rank(n, names) = Cardinality(S)
      BY CloudCounts DEF Cloud!Rank
    <2>2. S \in SUBSET names /\ n \in S
      BY CloudAssumption
    <2> HIDE DEF S
    <2>3. IsFiniteSet(S) /\ Cardinality(S) <= Cardinality(names)
      BY <1>1, <2>2, FS_Subset
    <2>4. Cardinality(S) \in Nat /\ Cardinality(S) # 0
      BY <2>2, <2>3, FS_CardinalityType, FS_EmptySet
    <2>5. QED
      BY <1>1, <2>1, <2>3, <2>4
  <1>3. QED
    BY <1>1, <1>2

\* Where the k-th page begins and ends.
LEMMA PageEnds ==
    ASSUME NEW k \in Nat, k >= 1
    PROVE  /\ (k - 1) * PageSize \in Nat /\ k * PageSize \in Nat
           /\ (k - 1) * PageSize <= k * PageSize
           /\ ((k + 1) - 1) * PageSize = k * PageSize
  <1>1. PICK p \in Nat : p = PageSize
    BY CloudAssumption
  <1>2. PICK i \in Nat : i = k - 1 /\ k = i + 1
    OBVIOUS
  <1>3. i * p \in Nat /\ (i + 1) * p = i * p + p
    OBVIOUS
  <1>4. (k + 1) - 1 = k
    OBVIOUS
  <1>5. QED
    BY <1>1, <1>2, <1>3, <1>4

\* Reading a page of OpenStack or Kubernetes.
LEMMA ReadUp ==
    ASSUME names \subseteq Name, NEW l \in Listing, NEW r \in Listing, NEW page,
           ListedUp(l), l.at = "listing", l.throughout \subseteq names, Continued(page, l.cursor),
           page.next = 0 => r.at = "complete", page.next # 0 => r.at = "listing",
           r.cursor = page.next, r.throughout = l.throughout,
           \A n \in Name : r.got[n] = IF n \in page.items THEN l.got[n] + 1 ELSE l.got[n]
    PROVE  ListedUp(r)
  <1>1. /\ l.cursor \in Nat /\ Name \subseteq Nat /\ \A n \in Name : l.got[n] \in Nat
    BY CloudAssumption DEF Listing
  <1>2. Cloud!After(l.cursor) = {n \in names : n > l.cursor}
    BY DEF Cloud!After
  <1>3. \A n \in page.items : n \in names /\ n > l.cursor
    BY <1>2 DEF Continued
  <1>4. \A n \in Name : n > l.cursor => l.got[n] = 0
    BY DEF ListedUp
  <1>5. \A n \in Name : n \in l.throughout /\ n <= l.cursor => l.got[n] = 1
    BY DEF ListedUp
  <1>6. \A n \in Name : l.got[n] <= 1 /\ (n > l.cursor \/ n <= l.cursor)
    BY <1>1 DEF ListedUp
  <1>7. \A n \in Name : r.got[n] <= 1
    BY <1>3, <1>4, <1>6
  <1>8. \A n \in Name : n \in l.throughout /\ n <= l.cursor => r.got[n] = 1
    <2>1. \A n \in Name : n <= l.cursor => n \notin page.items
      BY <1>1, <1>3
    <2>2. QED
      BY <1>5, <2>1
  <1>9. \A n \in Name : n > l.cursor /\ n \in page.items => r.got[n] = 1
    BY <1>4
  <1>10. CASE page.next = 0
    <2>1. \A n \in Name : n \in l.throughout /\ n > l.cursor => n \in page.items
      BY <1>2, <1>10 DEF Continued
    <2>2. \A n \in Name : n \in l.throughout => r.got[n] = 1
      BY <1>6, <1>8, <1>9, <2>1
    <2>3. r.at = "complete" /\ r.throughout \subseteq Name
      BY <1>10 DEF Listing
    <2>4. QED
      BY <1>7, <2>2, <2>3 DEF ListedUp
  <1>11. CASE page.next # 0
    <2>1. /\ page.next \in Nat /\ page.next > l.cursor
          /\ \A n : n \in page.items <=> n \in names /\ n > l.cursor /\ n <= page.next
      BY <1>2, <1>11 DEF Continued
    <2>2. \A n \in Name : n > page.next => n > l.cursor /\ n \notin page.items
      BY <1>1, <2>1
    <2>3. \A n \in Name : n > page.next => r.got[n] = 0
      BY <1>4, <2>2
    <2>4. \A n \in Name : n \in l.throughout /\ n <= page.next => r.got[n] = 1
      BY <1>6, <1>8, <1>9, <2>1
    <2>5. r.at = "listing"
      BY <1>11
    <2>6. QED
      BY <1>7, <2>3, <2>4, <2>5 DEF ListedUp
  <1>12. QED
    BY <1>10, <1>11

\* A page of Harbor has a number.
LEMMA HarborPage ==
    ASSUME service = "harbor", NEW cursor \in Nat, NEW page \in Cloud!Pages(cursor)
    PROVE  LET k == PageAt(cursor) IN
           /\ page.items = {n \in names : Cloud!Rank(n, names) \in (k - 1) * PageSize + 1..k * PageSize}
           /\ page.next = IF k * PageSize < Cardinality(names) THEN k + 1 ELSE 0
  <1> DEFINE k == PageAt(cursor)
             p == [items |-> {n \in names : Cloud!Rank(n, names) \in (k - 1) * PageSize + 1..k * PageSize},
                   next |-> IF k * PageSize < Cardinality(names) THEN k + 1 ELSE 0]
  <1>1. page \in Cloud!HarborPages(cursor)
    BY DEF Cloud!Pages
  <1>2. page = p
    BY <1>1, CloudCounts DEF Cloud!HarborPages, Cloud!None, PageAt
  <1>3. QED
    BY <1>2

\* Reading a page of Harbor.
LEMMA ReadNumbered ==
    ASSUME names \subseteq Name, service = "harbor", NEW l \in Listing, NEW r \in Listing,
           NEW page \in Cloud!Pages(l.cursor),
           ListedPages(l), l.at = "listing",
           page.next = 0 => r.at = "complete", page.next # 0 => r.at = "listing",
           r.cursor = page.next, r.throughout = l.throughout,
           \A n \in Name : r.got[n] = IF n \in page.items THEN l.got[n] + 1 ELSE l.got[n]
    PROVE  ListedPages(r)
  <1> DEFINE k == PageAt(l.cursor)
             rank(n) == Cloud!Rank(n, names)
  <1>1. k \in Nat /\ k >= 1 /\ \A n \in Name : l.got[n] \in Nat
    BY DEF PageAt, Listing
  <1>2. PICK a \in Nat, b \in Nat : a = (k - 1) * PageSize /\ b = k * PageSize /\ a <= b
                                    /\ b = ((k + 1) - 1) * PageSize
    BY <1>1, PageEnds
  <1>3. /\ page.items = {n \in names : rank(n) \in a + 1..b}
        /\ page.next = IF b < Cardinality(names) THEN k + 1 ELSE 0
    BY <1>2, HarborPage DEF Listing
  <1>4. Cardinality(names) \in Nat /\ \A n \in names : rank(n) \in 1..Cardinality(names)
    BY Ranks
  <1>5. /\ l.throughout = names
        /\ \A n \in Name : l.got[n] = IF n \in names /\ rank(n) <= a THEN 1 ELSE 0
    BY <1>2 DEF ListedPages
  <1> HIDE DEF k, rank
  <1>6. \A n \in Name : r.got[n] = IF n \in names /\ rank(n) <= b THEN 1 ELSE 0
    <2>1. ASSUME NEW n \in Name PROVE r.got[n] = IF n \in names /\ rank(n) <= b THEN 1 ELSE 0
      <3>1. CASE n \notin names
        BY <1>3, <1>5, <3>1
      <3>2. CASE n \in names
        <4>1. PICK i \in Nat : i = rank(n)
          BY <1>4, <3>2
        <4>2. n \in page.items <=> a < i /\ i <= b
          BY <1>2, <1>3, <3>2, <4>1
        <4>3. l.got[n] = IF i <= a THEN 1 ELSE 0
          BY <1>5, <3>2, <4>1
        <4>4. QED
          BY <1>2, <3>2, <4>1, <4>2, <4>3
      <3>3. QED
        BY <3>1, <3>2
    <2>2. QED
      BY <2>1
  <1>7. \A n \in Name : r.got[n] <= 1
    BY <1>6
  <1>8. CASE page.next = 0
    <2>1. ~(b < Cardinality(names))
      BY <1>1, <1>3, <1>8
    <2>2. \A n \in names : rank(n) <= b
      BY <1>2, <1>4, <2>1
    <2>3. \A n \in r.throughout : r.got[n] = 1
      BY <1>5, <1>6, <2>2
    <2>4. QED
      BY <1>7, <1>8, <2>3 DEF ListedPages
  <1>9. CASE page.next # 0
    <2>1. page.next = k + 1 /\ r.at = "listing" /\ r.throughout = names
      BY <1>3, <1>5, <1>9
    <2>2. PageAt(r.cursor) = k + 1
      BY <1>1, <2>1 DEF PageAt
    <2>3. \A n \in Name : r.got[n] =
             IF n \in names /\ Cloud!Rank(n, names) <= (PageAt(r.cursor) - 1) * PageSize THEN 1 ELSE 0
      BY <1>2, <1>6, <2>2 DEF rank
    <2>4. QED
      BY <1>7, <2>1, <2>3 DEF ListedPages
  <1>10. QED
    BY <1>8, <1>9

MutationInv ==
    /\ mutation \in [at : {"running", "returned", "refused", "escaped", "raised", "unknown"},
                     idempotent : BOOLEAN, attempt : Int, effects : Nat]
    /\ ~mutation.idempotent => /\ mutation.effects <= 1
                               /\ mutation.at \in {"running", "refused", "raised"} => mutation.effects = 0

\* The page read next: the listing ends, or goes on from a cursor that it has not had.
LEMMA ReadPageGood ==
    ASSUME ListingInv, Cloud!ReadPage, service' = service
    PROVE  ListingInv'
  <1> DEFINE l == listing
  <1>1. /\ l \in Listing /\ l.at = "listing" /\ names' = names /\ names \subseteq Name
        /\ l.throughout \subseteq names /\ \A m \in l.seen : m <= l.cursor
    BY DEF ListingInv, Cloud!ReadPage
  <1> HIDE DEF l
  <1>2. PICK page \in Cloud!Pages(l.cursor) :
          listing' = [l EXCEPT
             !.at = IF page.next = 0 THEN "complete"
                    ELSE IF page.next \in l.seen \cup {l.cursor} THEN "repeated" ELSE @,
             !.cursor = page.next, !.seen = l.seen \cup {l.cursor},
             !.got = [n \in Name |-> IF n \in page.items THEN @[n] + 1 ELSE @[n]]]
    BY DEF Cloud!ReadPage, Cloud!None, l
  <1>3. l.cursor \in Nat /\ l.seen \in SUBSET Nat /\ l.got \in [Name -> Nat] /\ l.changes \in Nat
    BY <1>1 DEF Listing
  <1>4. /\ page.next \in Nat
        /\ page.next # 0 => page.next > l.cursor
        /\ service # "harbor" => Continued(page, l.cursor)
    <2>1. CASE service = "harbor"
      <3> DEFINE k == PageAt(l.cursor)
      <3>1. k \in Nat /\ k >= l.cursor
        BY <1>3 DEF PageAt
      <3>2. page.next \in {k + 1, 0}
        BY <1>3, <2>1, HarborPage
      <3> HIDE DEF k
      <3>3. QED
        BY <1>3, <2>1, <3>1, <3>2
    <2>2. CASE service # "harbor"
      <3>1. service \in {"openstack", "kubernetes"}
        BY <2>2 DEF ListingInv
      <3>2. Continued(page, l.cursor)
        BY <1>1, <1>3, <3>1, PagesContinue
      <3>3. page.next \in Nat /\ (page.next # 0 => page.next > l.cursor)
        BY <3>2 DEF Continued
      <3>4. QED
        BY <3>2, <3>3
    <2>3. QED
      BY <2>1, <2>2
  <1>5. page.next # 0 => page.next \notin l.seen \cup {l.cursor}
    BY <1>1, <1>3, <1>4
  <1> DEFINE got == [n \in Name |-> IF n \in page.items THEN l.got[n] + 1 ELSE l.got[n]]
             at == IF page.next = 0 THEN "complete" ELSE "listing"
             r == [at |-> at, cursor |-> page.next, seen |-> l.seen \cup {l.cursor}, got |-> got,
                   throughout |-> l.throughout, changes |-> l.changes]
  <1>6. listing' = r
    BY <1>1, <1>2, <1>5 DEF Listing
  <1>7. r \in Listing
    <2>1. got \in [Name -> Nat]
      BY <1>3
    <2>2. l.throughout \in SUBSET Name
      BY <1>1 DEF Listing
    <2> HIDE DEF got
    <2>3. QED
      BY <1>3, <1>4, <2>1, <2>2 DEF Listing
  <1>8. /\ page.next = 0 => r.at = "complete"
        /\ page.next # 0 => r.at = "listing"
        /\ r.cursor = page.next /\ r.throughout = l.throughout /\ r.changes = l.changes
        /\ r.seen = l.seen \cup {l.cursor}
        /\ \A n \in Name : r.got[n] = IF n \in page.items THEN l.got[n] + 1 ELSE l.got[n]
    OBVIOUS
  <1> HIDE DEF r
  <1>9. service # "harbor" => ListedUp(r)
    <2>1. service # "harbor" => ListedUp(l)
      BY DEF ListingInv, l
    <2>2. QED
      BY <1>1, <1>4, <1>7, <1>8, <2>1, ReadUp
  <1>10. service = "harbor" /\ r.changes = 0 => ListedPages(r)
    <2>1. service = "harbor" /\ l.changes = 0 => ListedPages(l)
      BY DEF ListingInv, l
    <2>2. QED
      BY <1>1, <1>7, <1>8, <2>1, ReadNumbered
  <1>11. r.at \in {"complete", "listing"} /\ (r.at = "listing" => page.next # 0)
    BY <1>8
  <1>12. r.at = "listing" => r.throughout \subseteq names /\ \A m \in r.seen : m <= r.cursor
    BY <1>1, <1>3, <1>4, <1>8, <1>11
  <1>13. QED
    BY <1>1, <1>6, <1>7, <1>9, <1>10, <1>11, <1>12 DEF ListingInv, ListedUp, ListedPages

\* No step of a catalogue loses a name that stays, or repeats a mutation.
LEMMA CatalogStep ==
    ASSUME ListingInv, MutationInv, Cloud!Cataloguing
    PROVE  ListingInv' /\ MutationInv'
  <1>1. service' = service
    BY DEF Cloud!Cataloguing, Cloud!applyVars
  <1>2. UNCHANGED <<names, listing>> => ListingInv'
    BY <1>1 DEF ListingInv, ListedPages, ListedUp
  <1>3. UNCHANGED mutation => MutationInv'
    BY DEF MutationInv
  <1>4. listing \in Listing /\ names \subseteq Name
    BY DEF ListingInv
  <1>5. CASE Cloud!BeginListing
    <2> DEFINE r == [listing EXCEPT !.at = "listing", !.throughout = names]
    <2>1. listing.at = "idle" /\ listing' = r /\ names' = names /\ mutation' = mutation
      BY <1>5 DEF Cloud!BeginListing
    <2>2. /\ r \in Listing /\ r.at = "listing" /\ r.cursor = 0 /\ r.seen = {} /\ r.changes = 0
          /\ r.throughout = names /\ \A n \in Name : r.got[n] = 0
      BY <1>4, <2>1 DEF ListingInv, Listing
    <2> HIDE DEF r
    <2>3. ListedUp(r)
      <3>1. \A n \in Name : ~(n <= 0)
        BY CloudAssumption
      <3>2. QED
        BY <2>2, <3>1 DEF ListedUp
    <2>4. ListedPages(r)
      <3>1. (PageAt(r.cursor) - 1) * PageSize = 0
        BY <2>2, CloudAssumption DEF PageAt
      <3>2. \A n \in names : ~(Cloud!Rank(n, names) <= 0)
        BY <1>4, Ranks
      <3>3. QED
        BY <2>2, <3>1, <3>2 DEF ListedPages
    <2>5. ListingInv'
      BY <1>1, <1>4, <2>1, <2>2, <2>3, <2>4 DEF ListingInv, ListedUp, ListedPages
    <2>6. QED
      BY <1>3, <2>1, <2>5
  <1>6. CASE Cloud!ReadPage
    BY <1>1, <1>3, <1>6, ReadPageGood DEF Cloud!ReadPage
  <1>7. CASE Cloud!FailPage
    <2> DEFINE r == [listing EXCEPT !.at = "failed"]
    <2>1. listing' = r /\ names' = names /\ mutation' = mutation
      BY <1>7 DEF Cloud!FailPage
    <2>2. r \in Listing /\ r.at = "failed" /\ r.got = listing.got /\ r.changes = listing.changes
      BY <1>4 DEF Listing
    <2> HIDE DEF r
    <2>3. ListingInv'
      BY <1>1, <1>4, <2>1, <2>2 DEF ListingInv, ListedUp, ListedPages
    <2>4. QED
      BY <1>3, <2>1, <2>3
  <1>8. ASSUME NEW n \in Name, Cloud!Change(n) PROVE ListingInv' /\ MutationInv'
    <2> DEFINE r == [listing EXCEPT !.changes = @ + 1, !.throughout = @ \ {n}]
    <2>1. /\ listing.at = "listing" /\ listing' = r /\ mutation' = mutation
          /\ names' = IF n \in names THEN names \ {n} ELSE names \cup {n}
      BY <1>8 DEF Cloud!Change
    <2>2. /\ r \in Listing /\ r.at = "listing" /\ r.cursor = listing.cursor /\ r.seen = listing.seen
          /\ r.got = listing.got /\ r.throughout = listing.throughout \ {n} /\ r.changes # 0
      <3>1. PICK i \in Nat : i = listing.changes + 1 /\ i # 0
        BY <1>4 DEF Listing
      <3>2. PICK T \in SUBSET Name : T = listing.throughout \ {n}
        BY <1>4 DEF Listing
      <3>3. r = [at |-> listing.at, cursor |-> listing.cursor, seen |-> listing.seen,
                 got |-> listing.got, throughout |-> T, changes |-> i]
        <4>1. listing = [at |-> listing.at, cursor |-> listing.cursor, seen |-> listing.seen,
                         got |-> listing.got, throughout |-> listing.throughout,
                         changes |-> listing.changes]
          BY <1>4 DEF Listing
        <4>2. r = [listing EXCEPT !.changes = i, !.throughout = T]
          BY <3>1, <3>2
        <4> HIDE DEF r
        <4>3. QED
          BY <4>1, <4>2
      <3> HIDE DEF r
      <3>4. QED
        BY <1>4, <2>1, <3>1, <3>2, <3>3 DEF Listing
    <2> HIDE DEF r
    <2>3. names' \subseteq Name /\ r.throughout \subseteq names'
      BY <1>4, <2>1, <2>2 DEF ListingInv
    <2>4. service # "harbor" => ListedUp(r)
      BY <2>1, <2>2 DEF ListingInv, ListedUp
    <2>5. ListingInv'
      BY <1>1, <2>1, <2>2, <2>3, <2>4 DEF ListingInv, ListedUp
    <2>6. QED
      BY <1>3, <2>1, <2>5
  <1>9. CASE Cloud!Mutate
    <2>1. UNCHANGED <<names, listing>>
      BY <1>9 DEF Cloud!Mutate
    <2> DEFINE m == mutation
    <2>2. PICK effect \in {0, 1},
               at \in {"returned", "refused", "escaped", Cloud!Again, Cloud!AfterResponseLost} :
             /\ effect = 1 => at \in {"returned", "escaped", Cloud!AfterResponseLost}
             /\ at = "returned" => effect = 1
             /\ mutation' = [m EXCEPT !.at = at, !.attempt = @ + 1, !.effects = @ + effect]
      BY <1>9 DEF Cloud!Mutate
    <2>3. /\ m.at = "running" /\ m.idempotent \in BOOLEAN /\ m.attempt \in Int /\ m.effects \in Nat
          /\ m = [at |-> m.at, idempotent |-> m.idempotent, attempt |-> m.attempt, effects |-> m.effects]
      BY <1>9 DEF Cloud!Mutate, MutationInv
    <2>4. ~m.idempotent => m.effects = 0 /\ Cloud!AfterResponseLost = "unknown"
      BY <2>3 DEF MutationInv, Cloud!AfterResponseLost
    <2>5. at \in {"running", "returned", "refused", "escaped", "raised", "unknown"}
      BY <2>2 DEF Cloud!Again, Cloud!AfterResponseLost
    <2> HIDE DEF m
    <2>6. mutation' = [at |-> at, idempotent |-> m.idempotent, attempt |-> m.attempt + 1,
                       effects |-> m.effects + effect]
      BY <2>2, <2>3
    <2>7. m.attempt + 1 \in Int /\ m.effects + effect \in Nat
      BY <2>3
    <2>8. ~m.idempotent => /\ m.effects + effect <= 1
                           /\ at \in {"running", "refused", "raised"} => m.effects + effect = 0
      BY <2>2, <2>4
    <2>9. MutationInv'
      BY <2>3, <2>5, <2>6, <2>7, <2>8 DEF MutationInv
    <2>10. QED
      BY <1>2, <2>1, <2>9
  <1>10. QED
    BY <1>5, <1>6, <1>7, <1>8, <1>9 DEF Cloud!Cataloguing

(* The reconcilers of lab 37. *)

Wanted == {Desired[c] : c \in Applier}
Resource == [value : Wanted, started : Wanted \union {0}, observed : BOOLEAN, built : BOOLEAN,
             broken : BOOLEAN]

\* What is shown as ready runs as it is described.
Honest(r) == r.observed /\ r.built => r.started = r.value

ResourcesGood(rs) ==
    /\ rs \in Seq(Resource)
    /\ \A i \in DOMAIN rs : Honest(rs[i])

\* The fields of a client's apply.
ApplyShape ==
    /\ apply = [c \in Applier |-> apply[c]]
    /\ \A c \in Applier : apply[c] = [at |-> apply[c].at, attempt |-> apply[c].attempt,
                                      now |-> apply[c].now, result |-> apply[c].result]

\* A client knows of what it wants and has seen, unless it has failed.
Knows(c) ==
    /\ apply[c].at \notin {"plan", "failed"} =>
          \A i \in DOMAIN resources : resources[i].value = Desired[c] => c \in reached
    /\ apply[c].at \in {"noop", "wait", "done"} => c \in reached

\* At most one client has begun.
Lone == \A c, d \in Applier : apply[c].at # "plan" /\ apply[d].at # "plan" => c = d

\* One client alone creates a resource only where there is none.
Single ==
    /\ Len(resources) <= 1
    /\ \A c \in Applier : apply[c].at = "create" => resources = <<>>

ApplyInv ==
    /\ service \in {"openstack", "kubernetes", "harbor"}
    /\ late \subseteq [kind : {"create", "update"}, value : Wanted]
    /\ ApplyShape /\ ResourcesGood(resources)
    /\ \A c \in Applier : apply[c].result.started = apply[c].result.value /\ Knows(c)
    /\ service # "openstack" => Len(resources) <= 1
    /\ service = "openstack" /\ ~tardy /\ Lone => Single

\* What a request makes of the resources of the name.
LEMMA EffectGood ==
    ASSUME ResourcesGood(resources), service \in {"openstack", "kubernetes", "harbor"},
           NEW kind \in {"create", "update"}, NEW v \in Wanted, Cloud!Accepts(kind)
    PROVE  LET rs == Cloud!Effect(kind, v) IN
           /\ ResourcesGood(rs)
           /\ \E i \in DOMAIN rs : rs[i].value = v
           /\ service # "openstack" \/ resources = <<>> \/ kind = "update" => Len(rs) <= 1
  <1> DEFINE rs == Cloud!Effect(kind, v)
  <1>1. resources \in Seq(Resource) /\ Len(resources) \in Nat
    BY DEF ResourcesGood
  <1>2. CASE kind = "create"
    <2> DEFINE e == Cloud!Fresh(v)
               n == Len(resources)
    <2>1. rs = Append(resources, e)
      BY <1>2 DEF Cloud!Effect
    <2>2. e \in Resource /\ e.value = v /\ Honest(e)
      BY DEF Cloud!Fresh, Resource, Honest
    <2> HIDE DEF e
    <2>3. /\ rs \in Seq(Resource) /\ DOMAIN rs = 1..(n + 1) /\ rs[n + 1] = e /\ Len(rs) = n + 1
          /\ \A i \in 1..n : rs[i] = resources[i]
      BY <1>1, <2>1, <2>2
    <2> HIDE DEF rs
    <2>4. ResourcesGood(rs)
      <3>1. \A i \in 1..(n + 1) : i = n + 1 \/ i \in DOMAIN resources
        BY <1>1
      <3>2. DOMAIN resources = 1..n
        BY <1>1
      <3> HIDE DEF n
      <3>3. QED
        BY <2>2, <2>3, <3>1, <3>2 DEF ResourcesGood
    <2>5. n + 1 \in DOMAIN rs
      BY <1>1, <2>3
    <2>6. service # "openstack" => resources = <<>>
      BY <1>2 DEF Cloud!Accepts
    <2>7. resources = <<>> => Len(rs) <= 1
      BY <2>3
    <2>8. QED
      BY <1>2, <2>2, <2>3, <2>4, <2>5, <2>6, <2>7 DEF rs
  <1>3. CASE kind = "update"
    <2>1. Len(resources) = 1 /\ rs = <<Cloud!Changed(resources[1], v)>>
      BY <1>3 DEF Cloud!Accepts, Cloud!Effect
    <2> DEFINE o == resources[1]
               e == Cloud!Changed(o, v)
    <2>2. o \in Resource /\ Honest(o)
      BY <1>1, <2>1 DEF ResourcesGood
    <2> HIDE DEF o
    <2>3. e \in Resource /\ e.value = v /\ Honest(e)
      <3>1. CASE service = "harbor"
        <4>1. e = [o EXCEPT !.value = v, !.started = v]
          BY <3>1 DEF Cloud!Changed
        <4>2. QED
          BY <2>2, <4>1 DEF Resource, Honest
      <3>2. CASE service = "openstack"
        <4>1. e = [o EXCEPT !.value = v, !.started = IF o.built THEN v ELSE @]
          BY <3>2 DEF Cloud!Changed
        <4>2. QED
          BY <2>2, <4>1 DEF Resource, Honest
      <3>3. CASE service = "kubernetes"
        <4>1. e = [o EXCEPT !.value = v, !.observed = o.observed /\ o.value = v]
          BY <3>3 DEF Cloud!Changed
        <4>2. QED
          BY <2>2, <4>1 DEF Resource, Honest
      <3>4. QED
        BY <3>1, <3>2, <3>3
    <2>4. rs = <<e>>
      BY <2>1 DEF o
    <2> HIDE DEF e, rs
    <2>5. rs \in Seq(Resource) /\ Len(rs) = 1 /\ DOMAIN rs = {1} /\ rs[1] = e
      BY <2>3, <2>4
    <2>6. QED
      BY <2>3, <2>5 DEF rs, ResourcesGood
  <1>4. QED
    BY <1>2, <1>3

\* A client's step changes what it does and its result.
Turns(c, p) ==
    /\ ApplyShape' /\ \A d \in Applier \ {c} : apply'[d] = apply[d]
    /\ apply'[c].at = p

\* A client that turns to something else keeps the rest of its apply.
LEMMA Going ==
    ASSUME ApplyShape, NEW c \in Applier, NEW p, Cloud!Go(c, p)
    PROVE  Turns(c, p) /\ apply'[c].result = apply[c].result
  <1> DEFINE e == [at |-> p, attempt |-> apply[c].attempt, now |-> apply[c].now, result |-> apply[c].result]
  <1>1. apply' = [apply EXCEPT ![c] = e]
    <2>1. apply' = [apply EXCEPT ![c] = [apply[c] EXCEPT !.at = p]]
      BY DEF Cloud!Go
    <2>2. [apply[c] EXCEPT !.at = p] = e
      BY DEF ApplyShape
    <2> HIDE DEF e
    <2>3. QED
      BY <2>1, <2>2
  <1>2. /\ e.at = p /\ e.result = apply[c].result
        /\ e = [at |-> e.at, attempt |-> e.attempt, now |-> e.now, result |-> e.result]
    OBVIOUS
  <1> HIDE DEF e
  <1>3. \A d \in Applier : apply'[d] = IF d = c THEN e ELSE apply[d]
    BY <1>1 DEF ApplyShape
  <1>4. apply' = [d \in Applier |-> apply'[d]]
    BY <1>1 DEF ApplyShape
  <1>5. ApplyShape'
    BY <1>2, <1>3, <1>4 DEF ApplyShape
  <1>6. QED
    BY <1>2, <1>3, <1>5 DEF Turns

\* A client that tries again looks first.
LEMMA Retrying ==
    ASSUME ApplyShape, NEW c \in Applier, NEW p, NEW fault, NEW after, Cloud!Retry(c, p, fault, after)
    PROVE  /\ apply'[c].result = apply[c].result
           /\ \/ Turns(c, "failed")
              \/ Turns(c, "look") /\ p \in {"look", "create", "recheck", "update"}
  <1>1. CASE Cloud!Go(c, "failed")
    BY <1>1, Going
  <1>2. CASE ~Cloud!Go(c, "failed")
    <2> DEFINE n == apply[c].attempt + 1
               m == apply[c].now + Cloud!Delay(c, after)
               e == [at |-> "look", attempt |-> n, now |-> m, result |-> apply[c].result]
    <2>1. /\ p \in {"look", "create", "recheck", "update"}
          /\ apply' = [apply EXCEPT ![c] = [@ EXCEPT !.at = "look", !.attempt = n, !.now = m]]
      BY <1>2 DEF Cloud!Retry
    <2> HIDE DEF n, m
    <2>2. apply' = [apply EXCEPT ![c] = [apply[c] EXCEPT !.at = "look", !.attempt = n, !.now = m]]
      BY <2>1
    <2>3. [apply[c] EXCEPT !.at = "look", !.attempt = n, !.now = m] = e
      <3> DEFINE o == apply[c]
      <3>1. o = [at |-> o.at, attempt |-> o.attempt, now |-> o.now, result |-> o.result]
        BY DEF ApplyShape
      <3> HIDE DEF o
      <3>2. [o EXCEPT !.at = "look", !.attempt = n, !.now = m] =
              [at |-> "look", attempt |-> n, now |-> m, result |-> o.result]
        <4>1. PICK x, y, z, w : o = [at |-> x, attempt |-> y, now |-> z, result |-> w]
          BY <3>1
        <4>2. [o EXCEPT !.at = "look", !.attempt = n, !.now = m] =
                [at |-> "look", attempt |-> n, now |-> m, result |-> w]
          <5>1. [o EXCEPT !.at = "look"] = [at |-> "look", attempt |-> y, now |-> z, result |-> w]
            BY <4>1
          <5>2. [[at |-> "look", attempt |-> y, now |-> z, result |-> w] EXCEPT !.attempt = n] =
                   [at |-> "look", attempt |-> n, now |-> z, result |-> w]
            OBVIOUS
          <5>3. [[at |-> "look", attempt |-> n, now |-> z, result |-> w] EXCEPT !.now = m] =
                   [at |-> "look", attempt |-> n, now |-> m, result |-> w]
            OBVIOUS
          <5>4. QED
            BY <5>1, <5>2, <5>3
        <4>3. o.result = w
          BY <4>1
        <4>4. QED
          BY <4>2, <4>3
      <3>3. QED
        BY <3>2 DEF o
    <2>4. /\ e.at = "look" /\ e.result = apply[c].result
          /\ e = [at |-> e.at, attempt |-> e.attempt, now |-> e.now, result |-> e.result]
      OBVIOUS
    <2> HIDE DEF e
    <2>5. /\ \A d \in Applier : apply'[d] = IF d = c THEN e ELSE apply[d]
          /\ apply' = [d \in Applier |-> apply'[d]]
      BY <2>2, <2>3 DEF ApplyShape
    <2>6. ApplyShape'
      BY <2>4, <2>5 DEF ApplyShape
    <2>7. QED
      BY <2>1, <2>4, <2>5, <2>6 DEF Turns
  <1>3. QED
    BY <1>1, <1>2

\* A step of a client that leaves the resources as they are.
LEMMA Reads ==
    ASSUME ApplyInv, NEW c \in Applier, NEW p, Turns(c, p), p # "plan",
           apply'[c].result.started = apply'[c].result.value,
           service' = service, tardy' = tardy, resources' = resources,
           late' \subseteq [kind : {"create", "update"}, value : Wanted],
           \A d \in Applier \ {c} : d \in reached => d \in reached',
           Knows(c)', p = "create" => resources = <<>>
    PROVE  ApplyInv'
  <1>1. \A d \in Applier : d # c => apply'[d] = apply[d] /\ Knows(d)'
    BY DEF ApplyInv, Turns, Knows
  <1>2. \A d \in Applier : apply'[d].result.started = apply'[d].result.value /\ Knows(d)'
    BY <1>1 DEF ApplyInv
  <1>3. Lone' => Lone
    BY <1>1 DEF Lone, Turns
  <1>4. service' = "openstack" /\ ~tardy' /\ Lone' => Single'
    BY <1>1, <1>3 DEF ApplyInv, Single, Turns
  <1>5. QED
    BY <1>2, <1>4 DEF ApplyInv, Turns, ResourcesGood

\* A step of a client whose request takes effect.
LEMMA Writes ==
    ASSUME ApplyInv, NEW c \in Applier, NEW p \in {"wait", "look", "failed"}, Turns(c, p),
           apply'[c].result = apply[c].result,
           service' = service, tardy' = tardy,
           late' \subseteq [kind : {"create", "update"}, value : Wanted],
           apply[c].at \in {"create", "update"}, Cloud!Accepts(apply[c].at),
           Cloud!Store(Cloud!Effect(apply[c].at, Desired[c]))
    PROVE  ApplyInv'
  <1> DEFINE kind == apply[c].at
             rs == Cloud!Effect(kind, Desired[c])
  <1>1. /\ ResourcesGood(rs) /\ \E i \in DOMAIN rs : rs[i].value = Desired[c]
        /\ service # "openstack" \/ resources = <<>> \/ kind = "update" => Len(rs) <= 1
    <2>1. Desired[c] \in Wanted
      BY DEF Wanted
    <2>2. QED
      BY <2>1, EffectGood DEF ApplyInv
  <1>2. /\ resources' = rs
        /\ reached' = reached \union {d \in Applier : \E i \in DOMAIN rs : rs[i].value = Desired[d]}
    BY DEF Cloud!Store
  <1> HIDE DEF rs
  <1>3. c \in reached' /\ ResourcesGood(resources)'
    BY <1>1, <1>2 DEF ResourcesGood
  <1>4. \A d \in Applier : Knows(d)'
    <2>1. \A d \in Applier : \A i \in DOMAIN resources' : resources'[i].value = Desired[d] => d \in reached'
      BY <1>2
    <2>2. \A d \in Applier : d # c /\ apply'[d].at \in {"noop", "wait", "done"} => d \in reached'
      BY <1>2 DEF ApplyInv, Knows, Turns
    <2>3. QED
      BY <1>3, <2>1, <2>2 DEF Knows
  <1>5. \A d \in Applier : apply'[d].result.started = apply'[d].result.value
    BY DEF ApplyInv, Turns
  <1>6. Lone' => Lone
    BY DEF Lone, Turns
  <1>7. service' = "openstack" /\ ~tardy' /\ Lone' => Single'
    <2> SUFFICES ASSUME service' = "openstack", ~tardy', Lone' PROVE Single'
      OBVIOUS
    <2>1. Single /\ Lone
      BY <1>6 DEF ApplyInv
    <2>2. Len(rs) <= 1
      BY <1>1, <2>1 DEF Single
    <2>3. \A d \in Applier : apply'[d].at # "create"
      BY <2>1 DEF Lone, Turns
    <2>4. QED
      BY <1>2, <2>2, <2>3 DEF Single
  <1>8. service' # "openstack" => Len(resources') <= 1
    BY <1>1, <1>2
  <1>9. QED
    BY <1>3, <1>4, <1>5, <1>7, <1>8 DEF ApplyInv, Turns

\* A step of one client sets its own apply and nobody else's.
LEMMA Setting ==
    ASSUME ApplyShape, NEW c \in Applier, NEW p, NEW n, NEW m, NEW res,
           apply' = [apply EXCEPT ![c] = [at |-> p, attempt |-> n, now |-> m, result |-> res]]
    PROVE  Turns(c, p) /\ apply'[c].result = res
  <1> DEFINE e == [at |-> p, attempt |-> n, now |-> m, result |-> res]
  <1>1. /\ e.at = p /\ e.result = res
        /\ e = [at |-> e.at, attempt |-> e.attempt, now |-> e.now, result |-> e.result]
    OBVIOUS
  <1>2. apply' = [apply EXCEPT ![c] = e]
    OBVIOUS
  <1> HIDE DEF e
  <1>3. /\ \A d \in Applier : apply'[d] = IF d = c THEN e ELSE apply[d]
        /\ apply' = [d \in Applier |-> apply'[d]]
    BY <1>2 DEF ApplyShape
  <1>4. ApplyShape'
    BY <1>1, <1>3 DEF ApplyShape
  <1>5. QED
    BY <1>1, <1>3, <1>4 DEF Turns

\* Waiting ends with a resource that is ready, or fails, or goes on.
LEMMA WaitGood ==
    ASSUME ApplyInv, NEW c \in Applier, Cloud!Wait(c)
    PROVE  ApplyInv'
  <1> DEFINE o == apply[c]
  <1>1. /\ o.at = "wait" /\ UNCHANGED <<service, late, tardy, resources, reached>>
        /\ ApplyShape /\ o = [at |-> o.at, attempt |-> o.attempt, now |-> o.now, result |-> o.result]
        /\ o.result.started = o.result.value /\ Knows(c) /\ c \in reached
        /\ late \subseteq [kind : {"create", "update"}, value : Wanted]
    BY DEF ApplyInv, ApplyShape, Knows, Cloud!Wait, Cloud!Idle
  <1>2. \A p \in {"wait", "done", "failed"} : Turns(c, p) => Knows(c)'
    BY <1>1 DEF Knows, Turns
  <1>3. CASE Cloud!Go(c, "failed")
    <2>1. Turns(c, "failed") /\ apply'[c].result = o.result
      BY <1>1, <1>3, Going
    <2>2. QED
      BY <1>1, <1>2, <2>1, Reads
  <1>4. CASE ~Cloud!Go(c, "failed")
    <2>1. Cloud!Found
      BY <1>4 DEF Cloud!Wait
    <2>2. CASE Cloud!Ready(resources[1])
      <3> DEFINE r == resources[1]
                 res == [value |-> r.value, started |-> r.started]
      <3>1. apply' = [apply EXCEPT ![c] = [@ EXCEPT !.at = "done", !.result = res]]
        BY <1>4, <2>2 DEF Cloud!Wait
      <3>2. 1 \in DOMAIN resources
        BY <2>1 DEF Cloud!Found, ApplyInv, ResourcesGood
      <3>3. r.observed /\ r.built /\ Honest(r)
        BY <2>2, <3>2 DEF Cloud!Ready, ApplyInv, ResourcesGood
      <3>4. res.started = res.value
        BY <3>3 DEF Honest
      <3> HIDE DEF res, o
      <3>5. [o EXCEPT !.at = "done", !.result = res] =
               [at |-> "done", attempt |-> o.attempt, now |-> o.now, result |-> res]
        <4>1. PICK x, y, z, w : o = [at |-> x, attempt |-> y, now |-> z, result |-> w]
          BY <1>1
        <4>2. [o EXCEPT !.at = "done"] = [at |-> "done", attempt |-> y, now |-> z, result |-> w]
          BY <4>1
        <4>3. [[at |-> "done", attempt |-> y, now |-> z, result |-> w] EXCEPT !.result = res] =
                 [at |-> "done", attempt |-> y, now |-> z, result |-> res]
          OBVIOUS
        <4>4. o.attempt = y /\ o.now = z
          BY <4>1
        <4>5. QED
          BY <4>2, <4>3, <4>4
      <3>6. apply' = [apply EXCEPT ![c] =
                        [at |-> "done", attempt |-> o.attempt, now |-> o.now, result |-> res]]
        <4>1. apply' = [apply EXCEPT ![c] = [o EXCEPT !.at = "done", !.result = res]]
          BY <3>1 DEF o
        <4>2. QED
          BY <3>5, <4>1
      <3>7. Turns(c, "done") /\ apply'[c].result = res
        BY <1>1, <3>6, Setting
      <3>8. QED
        BY <1>1, <1>2, <3>4, <3>7, Reads
    <2>3. CASE ~Cloud!Ready(resources[1])
      <3>1. apply' = [apply EXCEPT ![c].now = @ + 1]
        BY <1>4, <2>3 DEF Cloud!Wait
      <3>2. apply' = [apply EXCEPT ![c] = [o EXCEPT !.now = o.now + 1]]
        BY <3>1
      <3> DEFINE m == o.now + 1
      <3>3. apply' = [apply EXCEPT ![c] = [o EXCEPT !.now = m]]
        BY <3>2
      <3> HIDE DEF m, o
      <3>4. [o EXCEPT !.now = m] = [at |-> o.at, attempt |-> o.attempt, now |-> m, result |-> o.result]
        BY <1>1
      <3>5. apply' = [apply EXCEPT ![c] = [at |-> o.at, attempt |-> o.attempt, now |-> m, result |-> o.result]]
        BY <3>3, <3>4
      <3>6. Turns(c, "wait") /\ apply'[c].result = o.result
        BY <1>1, <3>5, Setting
      <3>7. QED
        BY <1>1, <1>2, <3>6, Reads
    <2>4. QED
      BY <2>2, <2>3
  <1>5. QED
    BY <1>3, <1>4

\* A request fails, with or without its effect.
LEMMA FaultGood ==
    ASSUME ApplyInv, NEW c \in Applier, Cloud!Fault(c)
    PROVE  ApplyInv'
  <1> DEFINE o == apply[c].at
  <1>1. /\ o \notin {"done", "failed"} /\ service' = service /\ tardy' = tardy
        /\ ApplyShape /\ apply[c].result.started = apply[c].result.value /\ Knows(c)
        /\ late \subseteq [kind : {"create", "update"}, value : Wanted]
    BY DEF ApplyInv, Cloud!Fault
  <1>2. PICK fault \in {"lost", "limited", "unavailable", "unanswered"}, after \in RetryAfter :
           /\ Cloud!Retry(c, o, fault, IF fault = "limited" THEN after ELSE 0)
           /\ \/ UNCHANGED <<resources, reached, late>>
              \/ /\ fault = "unanswered" /\ o \in {"create", "update"}
                 /\ \/ Cloud!Accepts(o) /\ Cloud!Store(Cloud!Effect(o, Desired[c])) /\ UNCHANGED late
                    \/ /\ late' = late \cup {[kind |-> o, value |-> Desired[c]]}
                       /\ UNCHANGED <<resources, reached>>
    BY DEF Cloud!Fault
  <1> DEFINE wait == IF fault = "limited" THEN after ELSE 0
  <1>3. Cloud!Retry(c, o, fault, wait)
    BY <1>2
  <1> HIDE DEF wait
  <1>4. PICK p \in {"failed", "look"} :
           /\ apply'[c].result = apply[c].result /\ Turns(c, p)
           /\ p = "look" => o \in {"look", "create", "recheck", "update"}
    BY <1>1, <1>3, Retrying
  <1>5. UNCHANGED <<resources, reached>> => Knows(c)'
    BY <1>1, <1>4 DEF Knows, Turns
  <1>6. CASE UNCHANGED <<resources, reached, late>>
    BY <1>1, <1>4, <1>5, <1>6, Reads
  <1>7. CASE /\ o \in {"create", "update"} /\ late' = late \cup {[kind |-> o, value |-> Desired[c]]}
             /\ UNCHANGED <<resources, reached>>
    <2>1. late' \subseteq [kind : {"create", "update"}, value : Wanted]
      BY <1>1, <1>7 DEF Wanted
    <2>2. QED
      BY <1>1, <1>4, <1>5, <1>7, <2>1, Reads
  <1>8. CASE /\ o \in {"create", "update"} /\ Cloud!Accepts(o)
             /\ Cloud!Store(Cloud!Effect(o, Desired[c])) /\ UNCHANGED late
    <2>1. p \in {"wait", "look", "failed"}
      OBVIOUS
    <2>2. QED
      BY <1>1, <1>4, <1>8, <2>1, Writes
  <1>9. QED
    BY <1>2, <1>6, <1>7, <1>8

\* The other requests of a client.
LEMMA ClientGood ==
    ASSUME ApplyInv, NEW c \in Applier,
           \/ Cloud!Plan(c) \/ Cloud!Noop(c) \/ Cloud!Look(c) \/ Cloud!Request(c) \/ Cloud!Recheck(c)
    PROVE  ApplyInv'
  <1>1. /\ service' = service /\ tardy' = tardy /\ late' = late
    BY DEF Cloud!Plan, Cloud!Noop, Cloud!Look, Cloud!Request, Cloud!Recheck, Cloud!Idle
  <1>2. /\ ApplyShape /\ apply[c].result.started = apply[c].result.value /\ Knows(c)
        /\ late \subseteq [kind : {"create", "update"}, value : Wanted]
        /\ resources \in Seq(Resource)
    BY DEF ApplyInv, ResourcesGood
  <1>3. /\ Cloud!Readable /\ ~Cloud!Found => resources = <<>>
        /\ Cloud!Found => DOMAIN resources = {1}
    <2>1. PICK n \in Nat : n = Len(resources) /\ DOMAIN resources = 1..n
      BY <1>2
    <2>2. n = 0 => resources = <<>>
      BY <1>2, <2>1
    <2>3. Cloud!Readable /\ ~Cloud!Found => n = 0
      BY <2>1 DEF Cloud!Readable, Cloud!Found
    <2>4. Cloud!Found => 1..n = {1}
      BY <2>1 DEF Cloud!Found
    <2>5. QED
      BY <2>1, <2>2, <2>3, <2>4
  <1>4. \A p : Cloud!Go(c, p) => /\ Turns(c, p)
                                 /\ apply'[c].result.started = apply'[c].result.value
    BY <1>2, Going
  <1>5. CASE Cloud!Plan(c)
    <2> DEFINE there == Cloud!Found /\ resources[1].value = Desired[c]
               p == IF ~Cloud!Readable THEN "failed" ELSE IF there THEN "noop" ELSE "look"
    <2>1. Cloud!Go(c, p) /\ resources' = resources
      BY <1>5 DEF Cloud!Plan
    <2>2. reached' = IF there THEN reached \cup {c} ELSE reached \ {c}
      BY <1>5 DEF Cloud!Plan
    <2>3. p # "failed" /\ ~there => \A i \in DOMAIN resources : resources[i].value # Desired[c]
      BY <1>3
    <2>4. p \in {"failed", "noop", "look"} /\ (p = "noop" => there)
      OBVIOUS
    <2> HIDE DEF p, there
    <2>5. Turns(c, p)
      BY <1>4, <2>1
    <2>6. Knows(c)'
      BY <2>1, <2>2, <2>3, <2>4, <2>5 DEF Knows, Turns
    <2>7. \A d \in Applier \ {c} : d \in reached => d \in reached'
      BY <2>2
    <2>8. QED
      BY <1>1, <1>2, <1>4, <2>1, <2>4, <2>5, <2>6, <2>7, Reads
  <1>6. CASE Cloud!Noop(c)
    <2>1. PICK p \in {"done", "failed"} : Cloud!Go(c, p)
      BY <1>6 DEF Cloud!Noop
    <2>2. UNCHANGED <<resources, reached>> /\ apply[c].at = "noop"
      BY <1>6 DEF Cloud!Noop
    <2>3. Turns(c, p)
      BY <1>4, <2>1
    <2>4. Knows(c)'
      BY <1>2, <2>2, <2>3 DEF Knows, Turns
    <2>5. QED
      BY <1>1, <1>2, <1>4, <2>1, <2>2, <2>3, <2>4, Reads
  <1>7. CASE Cloud!Look(c)
    <2>1. PICK p \in {"failed", "update", "create"} :
             Cloud!Go(c, p) /\ (p = "create" => Cloud!Readable /\ ~Cloud!Found)
      BY <1>7 DEF Cloud!Look, Cloud!LookedUp
    <2>2. UNCHANGED <<resources, reached>> /\ apply[c].at = "look"
      BY <1>7 DEF Cloud!Look, Cloud!LookedUp
    <2>3. Turns(c, p)
      BY <1>4, <2>1
    <2>4. Knows(c)'
      BY <1>2, <2>2, <2>3 DEF Knows, Turns
    <2>5. QED
      BY <1>1, <1>2, <1>3, <1>4, <2>1, <2>2, <2>3, <2>4, Reads
  <1>8. CASE Cloud!Request(c)
    <2>1. apply[c].at \in {"create", "update"}
      BY <1>8 DEF Cloud!Request
    <2>2. CASE Cloud!Accepts(apply[c].at)
      <3>1. Cloud!Store(Cloud!Effect(apply[c].at, Desired[c])) /\ Cloud!Go(c, "wait")
        BY <1>8, <2>2 DEF Cloud!Request
      <3>2. Turns(c, "wait") /\ apply'[c].result = apply[c].result
        BY <1>2, <3>1, Going
      <3>3. QED
        BY <1>1, <1>2, <2>1, <2>2, <3>1, <3>2, Writes
    <2>3. CASE ~Cloud!Accepts(apply[c].at)
      <3>1. PICK p \in {"recheck", "failed"} : Cloud!Go(c, p)
        BY <1>8, <2>3 DEF Cloud!Request
      <3>2. UNCHANGED <<resources, reached>>
        BY <1>8, <2>3 DEF Cloud!Request
      <3>3. Turns(c, p)
        BY <1>4, <3>1
      <3>4. Knows(c)'
        BY <1>2, <2>1, <3>2, <3>3 DEF Knows, Turns
      <3>5. QED
        BY <1>1, <1>2, <1>4, <3>1, <3>2, <3>3, <3>4, Reads
    <2>4. QED
      BY <2>2, <2>3
  <1>9. CASE Cloud!Recheck(c)
    <2>1. PICK p \in {"failed", "wait", "update"} :
             Cloud!Go(c, p) /\ (p = "wait" => Cloud!Found /\ resources[1].value = Desired[c])
      BY <1>9 DEF Cloud!Recheck
    <2>2. UNCHANGED <<resources, reached>> /\ apply[c].at = "recheck"
      BY <1>9 DEF Cloud!Recheck
    <2>3. Turns(c, p)
      BY <1>4, <2>1
    <2>4. p = "wait" => c \in reached
      BY <1>2, <1>3, <2>1, <2>2 DEF Knows
    <2>5. Knows(c)'
      BY <1>2, <2>2, <2>3, <2>4 DEF Knows, Turns
    <2>6. QED
      BY <1>1, <1>2, <1>4, <2>1, <2>2, <2>3, <2>5, Reads
  <1>10. QED
    BY <1>5, <1>6, <1>7, <1>8, <1>9

\* What a resource is once the cloud has changed its fields.
LEMMA ResourceFields ==
    ASSUME NEW r \in Resource, NEW x
    PROVE  /\ [r EXCEPT !.observed = x] =
                  [value |-> r.value, started |-> r.started, observed |-> x, built |-> r.built,
                   broken |-> r.broken]
           /\ [r EXCEPT !.built = x] =
                  [value |-> r.value, started |-> r.started, observed |-> r.observed, built |-> x,
                   broken |-> r.broken]
           /\ [r EXCEPT !.started = x] =
                  [value |-> r.value, started |-> x, observed |-> r.observed, built |-> r.built,
                   broken |-> r.broken]
           /\ [r EXCEPT !.broken = x] =
                  [value |-> r.value, started |-> r.started, observed |-> r.observed,
                   built |-> r.built, broken |-> x]
  <1>1. PICK v, w, o, b, k :
           r = [value |-> v, started |-> w, observed |-> o, built |-> b, broken |-> k]
    BY DEF Resource
  <1>2. r.value = v /\ r.started = w /\ r.observed = o /\ r.built = b /\ r.broken = k
    BY <1>1
  <1>3. /\ [r EXCEPT !.observed = x] =
              [value |-> v, started |-> w, observed |-> x, built |-> b, broken |-> k]
        /\ [r EXCEPT !.built = x] =
              [value |-> v, started |-> w, observed |-> o, built |-> x, broken |-> k]
        /\ [r EXCEPT !.started = x] =
              [value |-> v, started |-> x, observed |-> o, built |-> b, broken |-> k]
        /\ [r EXCEPT !.broken = x] =
              [value |-> v, started |-> w, observed |-> o, built |-> b, broken |-> x]
    BY <1>1
  <1>4. QED
    BY <1>2, <1>3

\* Nobody but clients moves.
LEMMA WorldGood ==
    ASSUME ApplyInv,
           \/ \E q \in late : Cloud!Arrive(q)
           \/ \E i \in DOMAIN resources : Cloud!Control(i)
           \/ Cloud!Delete
    PROVE  ApplyInv'
  <1>1. service' = service /\ apply' = apply /\ late' \subseteq late
    BY DEF Cloud!Arrive, Cloud!Control, Cloud!Delete
  <1>2. resources \in Seq(Resource) /\ \A i \in DOMAIN resources : Honest(resources[i])
    BY DEF ApplyInv, ResourcesGood
  <1>3. ASSUME NEW q \in late, Cloud!Arrive(q) PROVE ApplyInv'
    <2> DEFINE rs == Cloud!Effect(q.kind, q.value)
    <2>1. tardy' = TRUE /\ q.kind \in {"create", "update"} /\ q.value \in Wanted
      BY <1>3 DEF Cloud!Arrive, ApplyInv
    <2>2. CASE Cloud!Accepts(q.kind)
      <3>1. /\ resources' = rs
            /\ reached' = reached \union {d \in Applier : \E i \in DOMAIN rs : rs[i].value = Desired[d]}
        BY <1>3, <2>2 DEF Cloud!Arrive, Cloud!Store
      <3>2. /\ ResourcesGood(rs)
            /\ service # "openstack" \/ resources = <<>> \/ q.kind = "update" => Len(rs) <= 1
        BY <2>1, <2>2, EffectGood DEF ApplyInv
      <3> HIDE DEF rs
      <3>3. ResourcesGood(resources)' /\ (service # "openstack" => Len(resources') <= 1)
        BY <3>1, <3>2 DEF ResourcesGood
      <3>4. \A d \in Applier : Knows(d)'
        <4>1. \A d \in Applier : d \in reached => d \in reached'
          BY <3>1
        <4>2. \A d \in Applier : \A i \in DOMAIN resources' : resources'[i].value = Desired[d] => d \in reached'
          BY <3>1
        <4>3. QED
          BY <1>1, <4>1, <4>2 DEF ApplyInv, Knows
      <3>5. QED
        BY <1>1, <2>1, <3>3, <3>4 DEF ApplyInv, ApplyShape
    <2>3. CASE ~Cloud!Accepts(q.kind)
      <3>1. UNCHANGED <<resources, reached>>
        BY <1>3, <2>3 DEF Cloud!Arrive
      <3>2. QED
        BY <1>1, <2>1, <3>1 DEF ApplyInv, ApplyShape, Knows, ResourcesGood
    <2>4. QED
      BY <2>2, <2>3
  <1>4. ASSUME tardy' = tardy, reached' = reached, resources' \in Seq(Resource),
               Len(resources') <= Len(resources), resources # <<>>,
               \A i \in DOMAIN resources' :
                  /\ Honest(resources'[i])
                  /\ \E j \in DOMAIN resources : resources[j].value = resources'[i].value
        PROVE  ApplyInv'
    <2>1. \A d \in Applier : Knows(d)'
      BY <1>1, <1>4 DEF ApplyInv, Knows
    <2>2. Lone' <=> Lone
      BY <1>1 DEF Lone
    <2>3. Len(resources) <= 1 => Len(resources') <= 1
      <3>1. Len(resources) \in Nat /\ Len(resources') \in Nat
        BY <1>2, <1>4
      <3>2. QED
        BY <1>4, <3>1
    <2>4. Single => Single'
      BY <1>1, <1>4, <2>3 DEF Single
    <2>5. QED
      BY <1>1, <1>4, <2>1, <2>2, <2>3, <2>4 DEF ApplyInv, ApplyShape, ResourcesGood
  <1>5. CASE Cloud!Delete
    <2>1. /\ resources # <<>> /\ resources' = Tail(resources) /\ tardy' = tardy /\ reached' = reached
      BY <1>5 DEF Cloud!Delete
    <2>2. /\ resources' \in Seq(Resource) /\ Len(resources') <= Len(resources)
          /\ \A i \in DOMAIN resources' : i + 1 \in DOMAIN resources /\ resources'[i] = resources[i + 1]
      BY <1>2, <2>1
    <2>3. QED
      BY <1>2, <1>4, <2>1, <2>2
  <1>6. ASSUME NEW i \in DOMAIN resources, Cloud!Control(i) PROVE ApplyInv'
    <2> DEFINE r == resources[i]
               e == resources'[i]
    <2>1. r \in Resource /\ Honest(r)
      BY <1>2
    <2>2. tardy' = tardy /\ reached' = reached
      BY <1>6 DEF Cloud!Control
    <2>3. PICK t \in Resource : /\ resources' = [resources EXCEPT ![i] = t]
                                /\ Honest(t) /\ t.value = r.value
      <3>1. CASE ~r.observed /\ resources' = [resources EXCEPT ![i].observed = TRUE,
                                                              ![i].built = r.started = r.value]
        <4> DEFINE same == r.started = r.value
                   t == [value |-> r.value, started |-> r.started, observed |-> TRUE,
                         built |-> same, broken |-> r.broken]
        <4>1. same \in BOOLEAN /\ t \in Resource /\ t.value = r.value /\ (t.built => r.started = r.value)
          BY <2>1 DEF Resource
        <4>2. Honest(t)
          BY <4>1 DEF Honest
        <4>3. resources' = [resources EXCEPT ![i] = [[r EXCEPT !.observed = TRUE] EXCEPT !.built = same]]
          BY <1>2, <3>1
        <4> HIDE DEF same
        <4>4. [[r EXCEPT !.observed = TRUE] EXCEPT !.built = same] = t
          <5> DEFINE u == [value |-> r.value, started |-> r.started, observed |-> TRUE,
                           built |-> r.built, broken |-> r.broken]
          <5>1. [r EXCEPT !.observed = TRUE] = u
            BY <2>1, ResourceFields
          <5>2. /\ u \in Resource /\ u.value = r.value /\ u.started = r.started
                /\ u.observed = TRUE /\ u.broken = r.broken
            BY <2>1 DEF Resource
          <5> HIDE DEF u
          <5>3. [u EXCEPT !.built = same] = [value |-> u.value, started |-> u.started,
                   observed |-> u.observed, built |-> same, broken |-> u.broken]
            BY <5>2, ResourceFields
          <5>4. QED
            BY <5>1, <5>2, <5>3
        <4> HIDE DEF t
        <4>5. QED
          BY <4>1, <4>2, <4>3, <4>4
      <3>2. CASE resources' = [resources EXCEPT ![i].built = TRUE, ![i].started = r.value]
        <4> DEFINE t == [value |-> r.value, started |-> r.value, observed |-> r.observed,
                         built |-> TRUE, broken |-> r.broken]
        <4>1. t \in Resource /\ t.value = r.value /\ Honest(t)
          BY <2>1 DEF Resource, Honest
        <4>2. resources' = [resources EXCEPT ![i] = [[r EXCEPT !.built = TRUE] EXCEPT !.started = r.value]]
          BY <1>2, <3>2
        <4>3. [[r EXCEPT !.built = TRUE] EXCEPT !.started = r.value] = t
          <5> DEFINE u == [value |-> r.value, started |-> r.started, observed |-> r.observed,
                           built |-> TRUE, broken |-> r.broken]
          <5>1. [r EXCEPT !.built = TRUE] = u
            BY <2>1, ResourceFields
          <5>2. /\ u \in Resource /\ u.value = r.value /\ u.observed = r.observed
                /\ u.built = TRUE /\ u.broken = r.broken
            BY <2>1 DEF Resource
          <5> HIDE DEF u
          <5>3. [u EXCEPT !.started = r.value] = [value |-> u.value, started |-> r.value,
                   observed |-> u.observed, built |-> u.built, broken |-> u.broken]
            BY <5>2, ResourceFields
          <5>4. QED
            BY <5>1, <5>2, <5>3
        <4> HIDE DEF t
        <4>4. QED
          BY <4>1, <4>2, <4>3
      <3>3. CASE resources' = [resources EXCEPT ![i].broken = TRUE]
        <4> DEFINE t == [value |-> r.value, started |-> r.started, observed |-> r.observed,
                         built |-> r.built, broken |-> TRUE]
        <4>1. t \in Resource /\ t.value = r.value /\ Honest(t)
          BY <2>1 DEF Resource, Honest
        <4>2. resources' = [resources EXCEPT ![i] = [r EXCEPT !.broken = TRUE]]
          BY <1>2, <3>3
        <4>3. [r EXCEPT !.broken = TRUE] = t
          BY <2>1, ResourceFields
        <4> HIDE DEF t
        <4>4. QED
          BY <4>1, <4>2, <4>3
      <3>4. QED
        BY <1>6, <3>1, <3>2, <3>3 DEF Cloud!Control
    <2> HIDE DEF r, e
    <2>4. /\ resources' \in Seq(Resource) /\ Len(resources') = Len(resources) /\ resources # <<>>
          /\ DOMAIN resources' = DOMAIN resources
          /\ \A j \in DOMAIN resources : resources'[j] = IF j = i THEN t ELSE resources[j]
      BY <1>2, <2>3
    <2>5. \A j \in DOMAIN resources' :
             Honest(resources'[j]) /\ \E k \in DOMAIN resources : resources[k].value = resources'[j].value
      BY <1>2, <2>3, <2>4 DEF r
    <2>6. Len(resources') <= Len(resources)
      BY <1>2, <2>4
    <2>7. QED
      BY <1>4, <2>2, <2>4, <2>5, <2>6
  <1>7. QED
    BY <1>3, <1>5, <1>6

CloudInv == ListingInv /\ MutationInv /\ ApplyInv

\* Initially nobody has asked for anything.
LEMMA CloudStarts == Cloud!Init => CloudInv
  <1> SUFFICES ASSUME Cloud!Init PROVE CloudInv
    OBVIOUS
  <1>1. /\ service \in {"openstack", "kubernetes", "harbor"}
        /\ resources = <<>> /\ late = {} /\ names \subseteq Name
        /\ apply = [c \in Applier |-> [at |-> "plan", attempt |-> 1, now |-> 0,
                                       result |-> [value |-> 0, started |-> 0]]]
        /\ listing = [at |-> "idle", cursor |-> 0, seen |-> {}, got |-> [n \in Name |-> 0],
                      throughout |-> {}, changes |-> 0]
        /\ mutation \in [at : {"running"}, idempotent : BOOLEAN, attempt : {1}, effects : {0}]
    BY DEF Cloud!Init, Cloud!None, Cloud!NoResult
  <1>2. MutationInv
    BY <1>1 DEF MutationInv
  <1>3. listing \in Listing /\ listing.at = "idle" /\ \A n \in Name : listing.got[n] = 0
    BY <1>1 DEF Listing
  <1>4. ListingInv
    BY <1>1, <1>3 DEF ListingInv, ListedUp, ListedPages
  <1>5. ApplyShape /\ \A c \in Applier : apply[c].at = "plan" /\ apply[c].result.started = apply[c].result.value
    BY <1>1 DEF ApplyShape
  <1>6. ResourcesGood(resources) /\ Len(resources) = 0
    BY <1>1 DEF ResourcesGood
  <1>7. ApplyInv
    BY <1>1, <1>5, <1>6 DEF ApplyInv, Knows, Single
  <1>8. QED
    BY <1>2, <1>4, <1>7 DEF CloudInv

\* Every step keeps the listings, the mutations and the applies.
LEMMA CloudStep == CloudInv /\ [Cloud!Next]_(Cloud!vars) => CloudInv'
  <1> SUFFICES ASSUME CloudInv, [Cloud!Next]_(Cloud!vars) PROVE CloudInv'
    OBVIOUS
  <1>1. ListingInv /\ MutationInv /\ ApplyInv
    BY DEF CloudInv
  <1>2. UNCHANGED <<service, resources, apply, late, tardy, reached>> => ApplyInv'
    BY <1>1 DEF ApplyInv, ApplyShape, ResourcesGood, Knows, Lone, Single
  <1>3. UNCHANGED <<service, names, listing, mutation>> => ListingInv' /\ MutationInv'
    BY <1>1 DEF ListingInv, ListedPages, ListedUp, MutationInv
  <1>4. CASE Cloud!Reconciling
    <2>1. ApplyInv'
      BY <1>1, <1>4, ClientGood, WaitGood, FaultGood, WorldGood DEF Cloud!Reconciling
    <2>2. service' = service
      BY <1>4 DEF Cloud!Reconciling, Cloud!Plan, Cloud!Noop, Cloud!Look, Cloud!Request, Cloud!Recheck,
                  Cloud!Wait, Cloud!Fault, Cloud!Arrive, Cloud!Control, Cloud!Delete, Cloud!Idle
    <2>3. UNCHANGED <<names, listing, mutation>>
      BY <1>4 DEF Cloud!Reconciling, Cloud!catalogVars
    <2>4. QED
      BY <1>3, <2>1, <2>2, <2>3 DEF CloudInv
  <1>5. CASE Cloud!Cataloguing
    <2>1. ListingInv' /\ MutationInv'
      BY <1>1, <1>5, CatalogStep
    <2>2. QED
      BY <1>2, <1>5, <2>1 DEF CloudInv, Cloud!Cataloguing, Cloud!applyVars
  <1>6. CASE UNCHANGED Cloud!vars
    BY <1>2, <1>3, <1>6 DEF CloudInv, Cloud!vars, Cloud!applyVars, Cloud!catalogVars
  <1>7. QED
    BY <1>4, <1>5, <1>6 DEF Cloud!Next

\* Lab 37: for any reconcilers, whatever they want, retries, faults and deletions, on each of the
\* three services: a retry makes no second resource unless a request was applied after it had been
\* given up or another reconciler works on the name, and apply returns only what was as desired
\* since planning began and runs as it is described.  For any names and size of a page, a
\* listing that completes misses and repeats nothing that was there throughout, and a
\* mutation that cannot be repeated is applied at most once, and not at all when it was
\* refused or never got there.
THEOREM ReconcilersAlwaysConverge == Cloud!Spec => []Cloud!Converges
  <1>1. CloudInv => Cloud!Converges
    <2> SUFFICES ASSUME CloudInv PROVE Cloud!Converges
      OBVIOUS
    <2>1. Cloud!ListsAll
      <3>1. listing \in Listing /\ service \in {"openstack", "kubernetes", "harbor"}
        BY DEF CloudInv, ListingInv
      <3>2. service # "harbor" => ListedUp(listing)
        BY DEF CloudInv, ListingInv
      <3>3. service = "harbor" /\ listing.changes = 0 => ListedPages(listing)
        BY DEF CloudInv, ListingInv
      <3>4. listing.at # "repeated"
        BY DEF CloudInv, ListingInv
      <3>5. QED
        BY <3>2, <3>3, <3>4 DEF ListedUp, ListedPages, Cloud!ListsAll
    <2>2. Cloud!MutatesOnce
      BY DEF CloudInv, MutationInv, Cloud!MutatesOnce
    <2>3. Cloud!NotMultiplied
      <3> SUFFICES ASSUME Len(resources) > 1
                   PROVE  service = "openstack" /\ (tardy \/ Cardinality(Cloud!Started) > 1)
        BY CloudCounts DEF Cloud!NotMultiplied
      <3>1. ~(Len(resources) <= 1)
        BY DEF CloudInv, ApplyInv, ResourcesGood
      <3>2. service = "openstack" /\ (tardy \/ ~Lone)
        BY <3>1 DEF CloudInv, ApplyInv, Single
      <3>3. ASSUME ~Lone PROVE Cardinality(Cloud!Started) > 1
        <4>1. PICK c \in Applier, d \in Applier : c # d /\ {c, d} \in SUBSET Cloud!Started
          BY <3>3 DEF Lone, Cloud!Started
        <4>2. IsFiniteSet(Cloud!Started)
          BY CloudAssumption, FS_Subset DEF Cloud!Started
        <4>3. Cardinality({c, d}) = 2
          <5>1. IsFiniteSet({c}) /\ Cardinality({c}) = 1 /\ d \notin {c}
            BY <4>1, FS_Singleton
          <5>2. Cardinality({c} \union {d}) = Cardinality({c}) + 1
            BY <5>1, FS_AddElement
          <5>3. {c, d} = {c} \union {d}
            OBVIOUS
          <5>4. Cardinality({c, d}) = Cardinality({c} \union {d})
            BY <5>3
          <5>5. Cardinality({c, d}) = Cardinality({c}) + 1
            BY <5>2, <5>4, Zenon
          <5>6. Cardinality({c, d}) = 1 + 1
            BY <5>1, <5>5, Zenon
          <5>7. QED
            BY <5>6
        <4>4. Cardinality({c, d}) <= Cardinality(Cloud!Started) /\ Cardinality(Cloud!Started) \in Nat
          BY <4>1, <4>2, FS_Subset, FS_CardinalityType
        <4>5. QED
          BY <4>3, <4>4
      <3>4. QED
        BY <3>2, <3>3
    <2>4. Cloud!AppliedWasReached
      BY DEF CloudInv, ApplyInv, Knows, Cloud!AppliedWasReached
    <2>5. Cloud!ReturnsWhatStarted
      BY DEF CloudInv, ApplyInv, Cloud!ReturnsWhatStarted
    <2>6. QED
      BY <2>1, <2>2, <2>3, <2>4, <2>5 DEF Cloud!Converges
  <1>2. Cloud!Spec => []CloudInv
    BY CloudStarts, CloudStep, PTL DEF Cloud!Spec
  <1>3. QED
    BY <1>1, <1>2, PTL

=============================================================================
