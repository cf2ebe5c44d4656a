------------------------------ MODULE Reconciler ------------------------------
(* The reconcilers of lab 37 over one resource of OpenStack, Kubernetes or Harbor.
   Every request is a step of its own: it may be lost, refused for the moment, or
   answered too late, and one its client has given up may still be applied.  Others
   delete the resource, and a controller builds what the resource asks for.  Apart
   from these: a listing of all resources page by page while some come and go, and
   run_mutation with a request whose answer may be lost. *)
EXTENDS Integers, Sequences, FiniteSets

CONSTANTS Client, Attempts, Timeout, RetryAfter, Services,
          Desired,                     \* what each client wants the resource to be
          MaxFaults, MaxDeletes,       \* bounds
          Name, PageSize, MaxChanges   \* of a listing; names are numbers from 1 in their order

VARIABLES service, resources,  \* the service and its resources of the one name
          run,                 \* each client's plan and apply
          late,                \* requests their client has given up
          tardy,               \* one of them was applied after that
          reached,             \* clients whose desired state has been there since they began
          faults, deletes
applyVars == <<service, resources, run, late, tardy, reached, faults, deletes>>
VARIABLES names,               \* what a listing may return
          listing, mutation    \* list_all and run_mutation
catalogVars == <<names, listing, mutation>>
vars == <<applyVars, catalogVars>>

None == 0
NoResult == [value |-> 0, started |-> 0]
Init ==
    /\ service \in Services
    /\ resources = <<>> /\ late = {} /\ tardy = FALSE /\ reached = {}
    /\ run = [c \in Client |-> [at |-> "plan", attempt |-> 1, now |-> 0, result |-> NoResult]]
    /\ faults = 0 /\ deletes = 0
    /\ names \in SUBSET Name
    /\ listing = [at |-> "idle", cursor |-> None, seen |-> {}, got |-> [n \in Name |-> 0],
                  throughout |-> {}, changes |-> 0]
    /\ mutation \in [at : {"running"}, idempotent : BOOLEAN, attempt : {1}, effects : {0}]

-----------------------------------------------------------------------------
(* The services. *)

\* observed: the controller has seen the present generation; built: it has started all that
\* generation's replicas (old ones may still be among those that serve, see Rollout).
Fresh(v) == [value |-> v, started |-> IF service = "harbor" THEN v ELSE 0,
             observed |-> service # "kubernetes", built |-> service = "harbor", broken |-> FALSE]
Changed(r, v) ==
    CASE service = "harbor" -> [r EXCEPT !.value = v, !.started = v]
      [] service = "openstack" -> [r EXCEPT !.value = v, !.started = IF r.built THEN v ELSE @]
      [] service = "kubernetes" -> [r EXCEPT !.value = v, !.observed = r.observed /\ r.value = v]

\* OpenStack's names are not unique; a change needs exactly one resource.
Accepts(kind) == IF kind = "create" THEN service = "openstack" \/ resources = <<>>
                 ELSE Len(resources) = 1
Effect(kind, v) == IF kind = "create" THEN Append(resources, Fresh(v))
                   ELSE <<Changed(resources[1], v)>>

Store(rs) ==
    /\ resources' = rs
    /\ reached' = reached \cup {c \in Client : \E i \in DOMAIN rs : rs[i].value = Desired[c]}

-----------------------------------------------------------------------------
(* The client: requests, their answers and retries. *)

Go(c, at) == run' = [run EXCEPT ![c].at = at]
Idle == UNCHANGED <<service, late, tardy, faults, deletes>>

\* _translate and _request name the failures worth another attempt; Kubernetes's client
\* does so for a rate limit on reading alone.
Retryable(request, fault) ==
    CASE service = "openstack" -> TRUE
      [] service = "harbor" -> fault # "unavailable"
      [] service = "kubernetes" -> request = "look" /\ fault = "limited"

\* _retry_put: the delay doubles, or is longer when the service says so.
Delay(c, after) == LET backoff == 2 ^ (run[c].attempt - 1)
                   IN IF after > backoff THEN after ELSE backoff
Retry(c, request, fault, after) ==
    IF /\ request \in {"look", "create", "recheck", "update"}
       /\ Retryable(request, fault)
       /\ run[c].attempt < Attempts
       /\ run[c].now + Delay(c, after) < Timeout
    THEN run' = [run EXCEPT ![c] = [@ EXCEPT !.at = "look", !.attempt = run[c].attempt + 1,
                                             !.now = run[c].now + Delay(c, after)]]
    ELSE Go(c, "failed")

\* A read finds one resource or none; two of one name are an error of the service's.
Readable == Len(resources) <= 1
Found == Len(resources) = 1

\* plan; apply begins at once.
Plan(c) ==
    /\ run[c].at = "plan" /\ Idle
    /\ Go(c, IF ~Readable THEN "failed"
             ELSE IF Found /\ resources[1].value = Desired[c] THEN "noop" ELSE "look")
    /\ reached' = IF Found /\ resources[1].value = Desired[c] THEN reached \cup {c}
                  ELSE reached \ {c}
    /\ UNCHANGED resources

Noop(c) ==
    /\ run[c].at = "noop" /\ Idle
    /\ Go(c, IF Found THEN "done" ELSE "failed")
    /\ UNCHANGED <<resources, reached>>

LookedUp(c) == /\ run[c].at = "look"
               /\ Go(c, IF ~Readable THEN "failed" ELSE IF Found THEN "update" ELSE "create")
Look(c) == LookedUp(c) /\ Idle /\ UNCHANGED <<resources, reached>>

\* put: Harbor answers a conflict when the project has appeared since it was looked up.
Request(c) ==
    /\ run[c].at \in {"create", "update"} /\ Idle
    /\ IF Accepts(run[c].at)
       THEN Store(Effect(run[c].at, Desired[c])) /\ Go(c, "wait")
       ELSE /\ Go(c, IF service = "harbor" /\ run[c].at = "create" THEN "recheck" ELSE "failed")
            /\ UNCHANGED <<resources, reached>>

Recheck(c) ==
    /\ run[c].at = "recheck" /\ Idle
    /\ Go(c, IF ~Found THEN "failed"
             ELSE IF resources[1].value = Desired[c] THEN "wait" ELSE "update")
    /\ UNCHANGED <<resources, reached>>

Ready(r) == r.observed /\ r.built

\* _PollingOperation.wait
Wait(c) ==
    /\ run[c].at = "wait" /\ Idle
    /\ IF run[c].now >= Timeout \/ ~Found \/ (Found /\ resources[1].broken) THEN Go(c, "failed")
       ELSE IF Ready(resources[1])
       THEN run' = [run EXCEPT ![c] = [@ EXCEPT !.at = "done",
               !.result = [value |-> resources[1].value, started |-> resources[1].started]]]
       ELSE run' = [run EXCEPT ![c].now = @ + 1]
    /\ UNCHANGED <<resources, reached>>

\* A request fails: without effect, or unanswered with its effect now, later or never.
Fault(c) ==
    /\ run[c].at \notin {"done", "failed"} /\ faults < MaxFaults
    /\ faults' = faults + 1
    /\ \E fault \in {"lost", "limited", "unavailable", "unanswered"}, after \in RetryAfter :
         /\ Retry(c, run[c].at, fault, IF fault = "limited" THEN after ELSE 0)
         /\ \/ UNCHANGED <<resources, reached, late>>
            \/ /\ fault = "unanswered" /\ run[c].at \in {"create", "update"}
               /\ \/ Accepts(run[c].at) /\ Store(Effect(run[c].at, Desired[c])) /\ UNCHANGED late
                  \/ /\ late' = late \cup {[kind |-> run[c].at, value |-> Desired[c]]}
                     /\ UNCHANGED <<resources, reached>>
    /\ UNCHANGED <<service, tardy, deletes>>

-----------------------------------------------------------------------------
(* The world. *)

Arrive(request) ==
    /\ late' = late \ {request} /\ tardy' = TRUE
    /\ IF Accepts(request.kind) THEN Store(Effect(request.kind, request.value))
       ELSE UNCHANGED <<resources, reached>>
    /\ UNCHANGED <<service, run, faults, deletes>>

Delete ==
    /\ resources # <<>> /\ deletes < MaxDeletes /\ deletes' = deletes + 1
    /\ resources' = Tail(resources)
    /\ UNCHANGED <<service, run, late, tardy, reached, faults>>

\* The controller first observes a generation, then builds it; a server may break instead.
Control(i) ==
    /\ LET r == resources[i] IN
       \/ ~r.observed /\ resources' = [resources EXCEPT ![i].observed = TRUE,
                                                        ![i].built = r.started = r.value]
       \/ r.observed /\ ~r.built /\ ~r.broken
          /\ resources' = [resources EXCEPT ![i].built = TRUE, ![i].started = r.value]
       \/ service = "openstack" /\ ~r.built /\ ~r.broken
          /\ resources' = [resources EXCEPT ![i].broken = TRUE]
    /\ UNCHANGED <<service, run, late, tardy, reached, faults, deletes>>

Reconciling ==
    /\ \/ \E c \in Client : \/ Plan(c) \/ Noop(c) \/ Look(c) \/ Request(c) \/ Recheck(c)
                            \/ Wait(c) \/ Fault(c)
       \/ \E request \in late : Arrive(request)
       \/ \E i \in DOMAIN resources : Control(i)
       \/ Delete
    /\ UNCHANGED catalogVars

-----------------------------------------------------------------------------
(* list_all, and the pages the services answer. *)

Largest(S) == CHOOSE n \in S : \A m \in S : m <= n
Rank(n, S) == Cardinality({m \in S : m <= n})
After(cursor) == {n \in names : n > cursor}
Full(S) == {n \in S : Rank(n, S) <= PageSize}

\* OpenStack's page follows the name in the cursor, which must still be there, and its SDK
\* may go through all pages at once.
OpenStackPages(cursor) ==
    IF cursor # None /\ cursor \notin names THEN {}
    ELSE {[items |-> page, next |-> IF Cardinality(page) = PageSize THEN Largest(page) ELSE None] :
             page \in {Full(After(cursor)), After(cursor)}}

\* Kubernetes's token continues where the page ended.
KubernetesPages(cursor) ==
    LET page == Full(After(cursor))
    IN {[items |-> page, next |-> IF page = After(cursor) THEN None ELSE Largest(page)]}

\* Harbor's pages are numbered, over what there is when each is asked for.
HarborPages(cursor) ==
    LET number == IF cursor = None THEN 1 ELSE cursor
    IN {[items |-> {n \in names : Rank(n, names) \in (number - 1) * PageSize + 1..number * PageSize},
         next |-> IF number * PageSize < Cardinality(names) THEN number + 1 ELSE None]}

Pages(cursor) ==
    CASE service = "openstack" -> OpenStackPages(cursor)
      [] service = "kubernetes" -> KubernetesPages(cursor)
      [] service = "harbor" -> HarborPages(cursor)

BeginListing ==
    /\ listing.at = "idle"
    /\ listing' = [listing EXCEPT !.at = "listing", !.throughout = names]
    /\ UNCHANGED <<names, mutation>>

ReadPage ==
    /\ listing.at = "listing"
    /\ \E page \in Pages(listing.cursor) : LET seen == listing.seen \cup {listing.cursor} IN
         listing' = [listing EXCEPT
             !.at = IF page.next = None THEN "complete"
                    ELSE IF page.next \in seen THEN "repeated" ELSE @,
             !.cursor = page.next, !.seen = seen,
             !.got = [n \in Name |-> IF n \in page.items THEN @[n] + 1 ELSE @[n]]]
    /\ UNCHANGED <<names, mutation>>

\* The marker is gone, or the request fails: list_all does not try again.
FailPage ==
    /\ listing.at = "listing" /\ listing' = [listing EXCEPT !.at = "failed"]
    /\ UNCHANGED <<names, mutation>>

Change(n) ==
    /\ listing.at = "listing" /\ listing.changes < MaxChanges
    /\ names' = IF n \in names THEN names \ {n} ELSE names \cup {n}
    /\ listing' = [listing EXCEPT !.changes = @ + 1, !.throughout = @ \ {n}]
    /\ UNCHANGED mutation

-----------------------------------------------------------------------------
(* run_mutation with its two attempts. *)

MutationAttempts == 2
Again == IF mutation.attempt = MutationAttempts THEN "raised" ELSE "running"
AfterResponseLost == IF mutation.idempotent THEN Again ELSE "unknown"

\* Errors that are neither a lost request nor a lost answer escape at once: refusals, and
\* those of a gateway or a write that timed out, which do not say what became of the request.
Mutate ==
    /\ mutation.at = "running"
    /\ \E effect \in {0, 1}, at \in {"returned", "refused", "escaped", Again, AfterResponseLost} :
         /\ effect = 1 => at \in {"returned", "escaped", AfterResponseLost}
         /\ at = "returned" => effect = 1
         /\ mutation' = [mutation EXCEPT !.at = at, !.attempt = @ + 1, !.effects = @ + effect]
    /\ UNCHANGED <<names, listing>>

Cataloguing ==
    /\ BeginListing \/ ReadPage \/ FailPage \/ (\E n \in Name : Change(n)) \/ Mutate
    /\ UNCHANGED applyVars

Next == Reconciling \/ Cataloguing

Spec == Init /\ [][Next]_vars

-----------------------------------------------------------------------------

\* README.md:86: retries do not multiply a resource.  A reconciler that is alone makes a
\* second one only when a request it had given up was applied later, which the unique
\* names of Harbor and Kubernetes rule out too.
Started == {c \in Client : run[c].at # "plan"}
NotMultiplied ==
    Len(resources) > 1 => service = "openstack" /\ (tardy \/ Cardinality(Started) > 1)

\* Apply returns only when the resource has been as desired since planning began.
AppliedWasReached == \A c \in Client : run[c].at = "done" => c \in reached

\* What apply returns has been started as it is, not an earlier state of it.
ReturnsWhatStarted == \A c \in Client : run[c].result.started = run[c].result.value

\* A listing that completes returns whatever was there throughout, nothing twice, and never
\* stops at a cursor it had before; only numbered pages shift when something comes or goes.
ListsAll ==
    /\ listing.at # "repeated"
    /\ listing.changes = 0 \/ service # "harbor" =>
          /\ \A n \in Name : listing.got[n] <= 1
          /\ listing.at = "complete" => \A n \in listing.throughout : listing.got[n] = 1

\* A mutation that cannot be repeated is applied at most once, and one that was refused or
\* never got there has not been applied.  (What escapes when a gateway or a write timed out
\* says as little as UnknownOutcome does.)
MutatesOnce ==
    ~mutation.idempotent =>
        /\ mutation.effects <= 1
        /\ mutation.at \in {"refused", "raised"} => mutation.effects = 0

Converges == ListsAll /\ MutatesOnce /\ NotMultiplied /\ AppliedWasReached /\ ReturnsWhatStarted
=============================================================================
