-------------------------- MODULE RetryingConsumer --------------------------
(***************************************************************************)
(* The RetryingConsumer of labs/33-load-shedding with its circuit breaker, *)
(* retry budget and dead letters.  The caller tops the budget up for every *)
(* fresh message and delivers a message again when the delay it was told   *)
(* has passed; deliveries that are due are taken in any order.             *)
(***************************************************************************)
EXTENDS Integers, FiniteSets

CONSTANTS
    Message,
    MaxAttempts,        \* application_max_attempts
    Threshold,          \* failure_threshold
    RecoveryTimeout,
    HalfOpenSuccesses,
    TokensPerRetry,     \* 1 / ratio: how many fresh messages pay for a retry
    InitialTokens, MaxTokens,      \* counted in fresh messages
    Delays,             \* what ExponentialBackoffPolicy may answer for each attempt
    MaxTime             \* bound on the clock

VARIABLES
    now,
    breaker,        \* state, _consecutive_failures, _half_open_success_count, _open_until_ms
    tokens,
    delivery,       \* where each message is
    deadLetters,
    calls,          \* auxiliary: the run of equal outcomes that ends with the last call
    retries         \* auxiliary: transient-failure retries so far

vars == <<now, breaker, tokens, delivery, deadLetters, calls, retries>>

New == [at |-> "new"]
Gone == [at |-> "gone"]

Lesser(a, b) == IF a <= b THEN a ELSE b

Init ==
    /\ now = 0
    /\ breaker = [state |-> "closed", failures |-> 0, successes |-> 0, until |-> 0]
    /\ tokens = Lesser(InitialTokens, MaxTokens)
    /\ delivery = [m \in Message |-> New]
    /\ deadLetters = {}
    /\ calls = [outcome |-> "success", count |-> 0, last |-> 0]
    /\ retries = 0

-----------------------------------------------------------------------------
(* CircuitBreaker *)

\* allow: also turns an open breaker whose time has come half open.
Refuses == breaker.state = "open" /\ now < breaker.until
Allowed ==
    IF breaker.state = "open" THEN [breaker EXCEPT !.state = "half_open", !.successes = 0]
    ELSE breaker

AfterSuccess(b) ==
    IF b.state # "half_open" THEN [b EXCEPT !.failures = 0]
    ELSE IF b.successes + 1 >= HalfOpenSuccesses
    THEN [b EXCEPT !.state = "closed", !.failures = 0, !.successes = 0]
    ELSE [b EXCEPT !.successes = @ + 1]

Opened == [state |-> "open", failures |-> 0, successes |-> 0, until |-> now + RecoveryTimeout]

BugHalfOpenCounts(b) ==
    IF b.failures + 1 >= Threshold THEN Opened ELSE [b EXCEPT !.failures = @ + 1]

AfterFailure(b) ==
    IF b.state = "half_open" \/ b.failures + 1 >= Threshold THEN Opened
    ELSE [b EXCEPT !.failures = @ + 1]

-----------------------------------------------------------------------------

Called(outcome) ==
    calls' = [outcome |-> outcome, last |-> now,
              count |-> IF calls.outcome = outcome THEN calls.count + 1 ELSE 1]

Waits(m, attempts, delay) ==
    delivery' = [delivery EXCEPT ![m] =
        [at |-> "waiting", attempts |-> attempts, due |-> now + delay]]

Dies(m, reason) ==
    /\ deadLetters' = deadLetters \union {[message |-> m, reason |-> reason]}
    /\ delivery' = [delivery EXCEPT ![m] = Gone]

\* Held back by the breaker: an attempt is counted although nothing was called.
Held(m, attempts) ==
    /\ Refuses
    /\ Waits(m, attempts + 1, breaker.until - now)
    /\ UNCHANGED <<breaker, deadLetters, calls, retries>>

Succeeds(m) ==
    /\ ~Refuses
    /\ breaker' = AfterSuccess(Allowed)
    /\ Called("success")
    /\ delivery' = [delivery EXCEPT ![m] = Gone]
    /\ UNCHANGED <<deadLetters, retries>>

\* A poison message tells the breaker nothing.
Poisons(m) ==
    /\ ~Refuses
    /\ breaker' = Allowed
    /\ Dies(m, "poison_message")
    /\ UNCHANGED <<calls, retries>>

BugBudgetNotAsked(held) == TRUE

AllowRetry(held) == held >= TokensPerRetry

\* A transient failure: the breaker hears of it, then the limit and the budget decide.
FailsTransiently(m, attempts, held) ==
    /\ ~Refuses
    /\ breaker' = AfterFailure(Allowed)
    /\ Called("failure")
    /\ \/ /\ attempts + 1 >= MaxAttempts
          /\ Dies(m, "retry_limit_reached")
          /\ tokens' = held /\ UNCHANGED retries
       \/ /\ attempts + 1 < MaxAttempts /\ ~AllowRetry(held)
          /\ Dies(m, "retry_budget_exhausted")
          /\ tokens' = held /\ UNCHANGED retries
       \/ /\ attempts + 1 < MaxAttempts /\ AllowRetry(held)
          /\ \E d \in Delays[attempts + 1] : Waits(m, attempts + 1, d)
          /\ tokens' = held - TokensPerRetry /\ retries' = retries + 1
          /\ UNCHANGED deadLetters

\* process, for a delivery made when the budget held that many tokens.
Process(m, attempts, held) ==
    /\ \/ /\ Held(m, attempts) \/ Succeeds(m) \/ Poisons(m)
          /\ tokens' = held
       \/ FailsTransiently(m, attempts, held)
    /\ UNCHANGED now

\* record_primary_request for a fresh message, then its first delivery.
Primary(m) ==
    /\ delivery[m] = New
    /\ Process(m, 0, Lesser(tokens + 1, MaxTokens))

Redeliver(m) ==
    /\ delivery[m].at = "waiting"
    /\ delivery[m].due <= now
    /\ Process(m, delivery[m].attempts, tokens)

Tick ==
    /\ now < MaxTime
    /\ now' = now + 1
    /\ UNCHANGED <<breaker, tokens, delivery, deadLetters, calls, retries>>

Next ==
    \/ \E m \in Message : Primary(m) \/ Redeliver(m)
    \/ Tick

Spec == Init /\ [][Next]_vars

-----------------------------------------------------------------------------

\* No retry storm: every retry after a failure is paid for by what the budget held
\* at first and by the fresh messages, however the failures fall.
RetriesPaidFor ==
    retries * TokensPerRetry <= InitialTokens + Cardinality({m \in Message : delivery[m] # New})

\* After the threshold of failures in a row nobody calls the dependency before the
\* recovery timeout; nor again, when a half-open probe fails.
DependencySpared ==
    [][calls' # calls /\ calls.outcome = "failure" /\ calls.count >= Threshold
          => now >= calls.last + RecoveryTimeout]_vars
=============================================================================
