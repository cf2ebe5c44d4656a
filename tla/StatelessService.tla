-------------------------- MODULE StatelessService --------------------------
(***************************************************************************)
(* The task service of labs/27-stateless-service: instances that share one *)
(* repository, each with its own count of requests and its own drain.  The *)
(* middleware runs on the event loop and the handlers in threads, so that  *)
(* the check of the drain, the count, the work and the end of a request    *)
(* are four steps.  _quote_etag and _normalise_etag undo each other in     *)
(* every form a client sends back, so that an etag is its number here.     *)
(***************************************************************************)
EXTENDS Integers, Sequences, FiniteSets

CONSTANTS
    Instance,
    Client,
    Key,
    MaxEtag       \* bound on the versions the repository writes

VARIABLES
    draining,     \* ServiceState._draining
    inFlight,     \* ServiceState._in_flight_requests
    ready,        \* InMemoryTaskRepository._ready
    tasks,        \* _tasks: by key, the fields with the version that wrote them
    counter,      \* _etag_counter
    call,         \* the request of each client
    known,        \* the etag each client saw last
    history       \* ghost: the versions in the order they were written

vars == <<draining, inFlight, ready, tasks, counter, call, known, history>>

NoTask == [etag |-> 0, title |-> 0, status |-> 0]

NoCall == [stage |-> "idle", instance |-> 0, kind |-> "", key |-> 0, ifMatch |-> 0,
           fields |-> {}, seen |-> {}]

Init ==
    /\ draining = [i \in Instance |-> FALSE]
    /\ inFlight = [i \in Instance |-> 0]
    /\ ready = TRUE
    /\ tasks = [k \in Key |-> NoTask]
    /\ counter = 0
    /\ call = [c \in Client |-> NoCall]
    /\ known = [c \in Client |-> [k \in Key |-> 0]]
    /\ history = <<>>

-----------------------------------------------------------------------------

\* livez and readyz only read.
Health == {"drain", "livez"}

Request(i) ==
    [NoCall EXCEPT !.stage = "sent", !.instance = i]

Send(c) ==
    /\ call[c].stage = "idle"
    /\ \E i \in Instance :
        \/ \E kind \in Health \union {"list"} : call' = [call EXCEPT ![c] = [Request(i) EXCEPT !.kind = kind]]
        \/ \E kind \in {"create", "get"}, k \in Key :
            call' = [call EXCEPT ![c] = [Request(i) EXCEPT !.kind = kind, !.key = k]]
        \/ \E k \in Key, fields \in SUBSET {"title", "status"} \ {{}} : \E e \in {0, known[c][k]} :
            call' = [call EXCEPT ![c] = [Request(i) EXCEPT !.kind = "patch", !.key = k,
                                                           !.fields = fields, !.ifMatch = e]]
    /\ UNCHANGED <<draining, inFlight, ready, tasks, counter, known, history>>

\* An instance that drains turns away what is not about its health.
TurnedAway(c) == draining[call[c].instance] /\ call[c].kind \notin Health

Check(c) ==
    /\ call[c].stage = "sent"
    /\ call' = [call EXCEPT ![c] = IF TurnedAway(c) THEN NoCall ELSE [@ EXCEPT !.stage = "checked"]]
    /\ UNCHANGED <<draining, inFlight, ready, tasks, counter, known, history>>

Start(c) ==
    /\ call[c].stage = "checked"
    /\ call' = [call EXCEPT ![c].stage = "started"]
    /\ inFlight' = [inFlight EXCEPT ![call[c].instance] = @ + 1]
    /\ UNCHANGED <<draining, ready, tasks, counter, known, history>>

\* The answer on its way: what was asked no longer matters.
Answer(c, seen) ==
    call' = [call EXCEPT ![c] = [Request(@.instance) EXCEPT !.stage = "done", !.seen = seen]]

Write(c, task) ==
    /\ counter < MaxEtag
    /\ counter' = counter + 1
    /\ tasks' = [tasks EXCEPT ![call[c].key] = [task EXCEPT !.etag = counter + 1]]
    /\ history' = Append(history, [key |-> call[c].key, basis |-> call[c].ifMatch,
                                   fields |-> call[c].fields, made |-> call[c].kind])

\* Precondition of update_task.
StillCurrent(task, ifMatch) == task.etag = ifMatch

\* The codes in the order in which the handler and the repository find them.
CodeOf(c) ==
    LET stored == tasks[call[c].key]
    IN CASE call[c].kind = "patch" /\ call[c].ifMatch = 0 -> 428
         [] OTHER ->
              IF ~ready THEN 503
              ELSE CASE call[c].kind = "list" -> 200
                     [] call[c].kind = "create" -> IF stored = NoTask THEN 201 ELSE 409
                     [] call[c].kind = "get" -> IF stored = NoTask THEN 404 ELSE 200
                     [] call[c].kind = "patch" ->
                            IF stored = NoTask THEN 404
                            ELSE IF StillCurrent(stored, call[c].ifMatch) THEN 200 ELSE 412

Patched(task, fields) ==
    [task EXCEPT !.title = IF "title" \in fields THEN counter + 1 ELSE @,
                 !.status = IF "status" \in fields THEN counter + 1 ELSE @]

Handle(c) ==
    /\ call[c].stage = "started"
    /\ \/ /\ call[c].kind = "drain"
          /\ draining' = [draining EXCEPT ![call[c].instance] = TRUE]
          /\ Answer(c, {})
          /\ UNCHANGED <<tasks, counter, history>>
       \/ /\ call[c].kind = "livez"
          /\ Answer(c, {})
          /\ UNCHANGED <<draining, tasks, counter, history>>
       \/ /\ call[c].kind = "create" /\ CodeOf(c) = 201
          /\ Write(c, [NoTask EXCEPT !.title = counter + 1, !.status = counter + 1])
          /\ Answer(c, {<<call[c].key, counter + 1>>})
          /\ UNCHANGED draining
       \/ /\ call[c].kind = "patch" /\ CodeOf(c) = 200
          /\ Write(c, Patched(tasks[call[c].key], call[c].fields))
          /\ Answer(c, {<<call[c].key, counter + 1>>})
          /\ UNCHANGED draining
       \/ /\ call[c].kind \in {"get", "list"} /\ CodeOf(c) = 200
          /\ Answer(c, {<<k, tasks[k].etag>> :
                                k \in IF call[c].kind = "list" THEN {k \in Key : tasks[k] # NoTask}
                                      ELSE {call[c].key}})
          /\ UNCHANGED <<draining, tasks, counter, history>>
       \/ /\ call[c].kind \notin Health /\ CodeOf(c) \notin {200, 201}
          /\ Answer(c, {})
          /\ UNCHANGED <<draining, tasks, counter, history>>
    /\ UNCHANGED <<inFlight, ready, known>>

\* The finally of the middleware, and the answer at the client.
Finish(c) ==
    /\ call[c].stage = "done"
    /\ inFlight' = [inFlight EXCEPT ![call[c].instance] = @ - 1]
    /\ known' = [known EXCEPT ![c] = [k \in Key |->
                    IF \E e \in 1..MaxEtag : <<k, e>> \in call[c].seen
                    THEN CHOOSE e \in 1..MaxEtag : <<k, e>> \in call[c].seen ELSE @[k]]]
    /\ call' = [call EXCEPT ![c] = NoCall]
    /\ UNCHANGED <<draining, ready, tasks, counter, history>>

SetReady ==
    /\ ready' = ~ready
    /\ UNCHANGED <<draining, inFlight, tasks, counter, call, known, history>>

Next ==
    \/ SetReady
    \/ \E c \in Client : Send(c) \/ Check(c) \/ Start(c) \/ Handle(c) \/ Finish(c)

Spec == Init /\ [][Next]_vars

-----------------------------------------------------------------------------

\* The version of a key before the n-th write, 0 if there is none.
Before(n) ==
    CHOOSE e \in 0..n - 1 :
        /\ e = 0 \/ history[e].key = history[n].key
        /\ \A later \in e + 1..n - 1 : history[later].key # history[n].key

\* Over all instances and however their requests overlap, a patch is applied to exactly the
\* version its client had seen, a key is created once, and every field is what the last
\* version that carried it wrote; an instance counts the requests it works on and no other.
UpdatesChain ==
    /\ \A n \in DOMAIN history :
        IF history[n].made = "create" THEN Before(n) = 0
        ELSE history[n].basis # 0 /\ history[n].basis = Before(n)
    /\ \A k \in Key, field \in {"title", "status"} :
        tasks[k] # NoTask =>
            LET version == tasks[k][field]
                carries(n) == history[n].key = k
                                /\ (history[n].made = "create" \/ field \in history[n].fields)
            IN carries(version) /\ \A n \in DOMAIN history : carries(n) => n <= version
    /\ \A i \in Instance :
        inFlight[i] = Cardinality({c \in Client : call[c].instance = i /\ call[c].stage \in {"started", "done"}})
=============================================================================
