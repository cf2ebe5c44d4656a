---------------------------- MODULE IdempotentCalls ----------------------------
(* The RPC of lab 19: clients that retry within one deadline, a transport that
   delays, drops and duplicates, and server workers that each keep their tasks
   and a replay cache by idempotency key.  A send runs to its end, so an attempt
   is one step; attempts of different clients interleave.  Timestamps and the
   correlation id, which the service only echoes, are left out. *)
EXTENDS Integers, Sequences, FiniteSets

CONSTANTS Client, Server,
          Script,      \* each client's calls: [method, id, body, key, budget]
          MaxRetries, Delay,
          MaxTime      \* bound

NoKey == "none"

VARIABLES clock,
          call,        \* each client's position in its script and the call under way
          outcomes,    \* what its finished calls returned or raised
          cache,       \* each server's replies by idempotency key
          tasks,       \* each server's tasks by id
          effects      \* what each server applied, in order, and by which call
vars == <<clock, call, outcomes, cache, tasks, effects>>

Ready == [at |-> "ready"]
Empty == [x \in {} |-> 0]

Init ==
    /\ clock = 0
    /\ call = [c \in Client |-> Ready]
    /\ outcomes = [c \in Client |-> <<>>]
    /\ cache = [s \in Server |-> Empty]
    /\ tasks = [s \in Server |-> Empty]
    /\ effects = [s \in Server |-> <<>>]

Position(c) == Len(outcomes[c]) + 1
Current(c) == Script[c][Position(c)]

-----------------------------------------------------------------------------
(* The service; a reply is [status, body] and a state [cache, tasks, effects] *)

Replayed(state, r) == r.key # NoKey /\ r.key \in DOMAIN state.cache

RequestFingerprint(r) == <<r.id, r.body>>

Conflicts(state, r) == Replayed(state, r) /\ state.cache[r.key] # RequestFingerprint(r)

With(f, x, value) == [y \in DOMAIN f \union {x} |-> IF y = x THEN value ELSE f[y]]

Effect(r, by) == [key |-> r.key, what |-> RequestFingerprint(r), by |-> by]

\* A submission under an id that exists overwrites it.
Submitted(state, r, by) ==
    IF Replayed(state, r) THEN state
    ELSE [cache |-> IF r.key = NoKey THEN state.cache
                    ELSE With(state.cache, r.key, RequestFingerprint(r)),
          tasks |-> With(state.tasks, r.id, r.body),
          effects |-> Append(state.effects, Effect(r, by))]

Handled(state, r, by) == IF r.method = "POST" THEN Submitted(state, r, by) ELSE state

Reply(state, r) ==
    CASE r.method = "POST" /\ Conflicts(state, r) -> [status |-> 409]
      [] r.method = "POST" /\ ~Conflicts(state, r) -> [status |-> 202, body |-> r.body]
      [] r.method = "GET" /\ r.id \in DOMAIN state.tasks -> [status |-> 200, body |-> state.tasks[r.id]]
      [] OTHER -> [status |-> 404]

State(s) == [cache |-> cache[s], tasks |-> tasks[s], effects |-> effects[s]]

-----------------------------------------------------------------------------
(* The client *)

Remaining(c) == call[c].start + Current(c).budget - clock
RemainingAfter(c, delay) == Remaining(c) - delay

Begin(c) ==
    /\ call[c] = Ready /\ Len(outcomes[c]) < Len(Script[c])
    /\ call' = [call EXCEPT ![c] = [at |-> "calling", start |-> clock, attempts |-> 0]]
    /\ UNCHANGED <<clock, outcomes, cache, tasks, effects>>

Ends(c, outcome) ==
    /\ outcomes' = [outcomes EXCEPT ![c] = Append(@, [outcome |-> outcome, at |-> clock', start |-> call[c].start])]
    /\ call' = [call EXCEPT ![c] = Ready]

\* decide_retry: a GET, or whatever carries a key.
SafeToRetry(r) == r.method = "GET" \/ r.key # NoKey

\* After a lost request or reply, or a status that may be retried.
RetryOrEnd(c) ==
    IF call[c].attempts < MaxRetries /\ SafeToRetry(Current(c))
    THEN call' = [call EXCEPT ![c].attempts = @ + 1] /\ UNCHANGED outcomes
    ELSE Ends(c, "failure")

Expire(c) ==
    /\ call[c] # Ready /\ Remaining(c) <= 0
    /\ UNCHANGED <<clock, cache, tasks, effects>>
    /\ Ends(c, "deadline")

LoseRequest(c, delay) ==
    /\ call[c] # Ready /\ Remaining(c) > 0
    /\ clock' = clock + delay
    /\ RetryOrEnd(c)
    /\ UNCHANGED <<cache, tasks, effects>>

\* A gateway before the service answers with a retryable status.
TurnAway(c, delay) ==
    /\ call[c] # Ready /\ Remaining(c) > 0
    /\ clock' = clock + delay
    /\ IF RemainingAfter(c, delay) <= 0 THEN Ends(c, "deadline") ELSE RetryOrEnd(c)
    /\ UNCHANGED <<cache, tasks, effects>>

Seen(reply) ==
    CASE reply.status \in {200, 202} -> reply.body
      [] reply.status = 404 -> "not found"
      [] OTHER -> "conflict"

InTime(c, delay) == RemainingAfter(c, delay) > 0

\* The request arrives, twice if the transport duplicates it, and the reply is the
\* second one's.
Deliver(c, s, delay, twice, dropReply) ==
    LET r == Current(c)
        by == <<c, Position(c)>>
        once == Handled(State(s), r, by)
        seen == IF twice THEN once ELSE State(s)
        after == IF twice THEN Handled(once, r, by) ELSE once
    IN /\ call[c] # Ready /\ Remaining(c) > 0
       /\ clock' = clock + delay
       /\ cache' = [cache EXCEPT ![s] = after.cache]
       /\ tasks' = [tasks EXCEPT ![s] = after.tasks]
       /\ effects' = [effects EXCEPT ![s] = after.effects]
       /\ IF dropReply THEN RetryOrEnd(c)
          ELSE Ends(c, IF InTime(c, delay) THEN Seen(Reply(seen, r)) ELSE "deadline")

Next == \E c \in Client :
    \/ Begin(c)
    \/ Expire(c)
    \/ \E delay \in Delay :
          /\ clock + delay <= MaxTime
          /\ \/ LoseRequest(c, delay)
             \/ TurnAway(c, delay)
             \/ \E s \in Server, twice, dropReply \in BOOLEAN :
                   Deliver(c, s, delay, twice, dropReply)

Spec == Init /\ [][Next]_vars

-----------------------------------------------------------------------------

\* What call n of a client left on a server; under a key it may be another call's doing.
AppliedBy(s, c, n) ==
    LET r == Script[c][n]
    IN {i \in DOMAIN effects[s] : /\ effects[s][i].key = r.key
                                  /\ effects[s][i].what = RequestFingerprint(r)
                                  /\ r.key = NoKey => effects[s][i].by = <<c, n>>}
Finished(c) == {n \in 1..Len(outcomes[c]) : Script[c][n].method = "POST"}

AppliedOnceByKey ==
    \A s \in Server : \A i, j \in DOMAIN effects[s] :
        i # j /\ effects[s][i].key # NoKey => effects[s][i].key # effects[s][j].key

OutcomeTrue(c, n) ==
    LET r == Script[c][n]
        outcome == outcomes[c][n].outcome
    IN /\ outcome = r.body => \E s \in Server : AppliedBy(s, c, n) # {}
       /\ outcome = "conflict" => \E s \in Server : AppliedBy(s, c, n) = {}
       /\ r.key = NoKey => \A s \in Server : Cardinality(AppliedBy(s, c, n)) <= 2

\* However requests are lost, delayed, doubled and retried: a server applies one request
\* at most under a key; a call that returns was applied, one that conflicts was not; and
\* without a key, for which nothing is retried, a call is applied twice at most.
TakesEffectOnce ==
    AppliedOnceByKey /\ \A c \in Client : \A n \in Finished(c) : OutcomeTrue(c, n)

\* No answer is taken after the deadline, and a call makes at most MaxRetries more
\* attempts.
DeadlineKept ==
    \A c \in Client :
        /\ call[c] # Ready => call[c].attempts <= MaxRetries
        /\ \A n \in DOMAIN outcomes[c] :
              outcomes[c][n].outcome \notin {"deadline", "failure"} =>
                  outcomes[c][n].at < outcomes[c][n].start + Script[c][n].budget
=============================================================================
