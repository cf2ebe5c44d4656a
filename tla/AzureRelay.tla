------------------------------ MODULE AzureRelay ------------------------------
(* The Azure adapters of lab 09: submitters that write a task's document and then send a
   message about it, a worker that takes messages and rewrites documents, and a reader
   that goes through the documents page by page.  A call may be lost on its way there or
   back, be carried out after its caller has given it up, or be repeated by the SDK. *)
EXTENDS Integers, FiniteSets, FiniteSetsExt

CONSTANTS Submitter,
          TaskOf,                   \* the task (a number) each submitter submits
          PageSize,
          MaxRetries, MaxFaults     \* bounds

VARIABLES container, queue,         \* whether they exist
          document,                 \* each task's state, "none" without a document
          sent,                     \* how often each submitter's message reached the queue
          messages,                 \* tasks with a message that waits
          at, retries,              \* each submitter's next call or how it ended
          repeated,                 \* submitters whose SDK sent a message again
          late, tardy,              \* writes given up; one of them was carried out after that
          reset,                    \* a task went back to queued after it had run
          listing, faults
vars == <<container, queue, document, sent, messages, at, retries, repeated, late, tardy,
          reset, listing, faults>>

Task == {TaskOf[s] : s \in Submitter}
Idle == [at |-> "idle"]

Init ==
    /\ container = FALSE /\ queue = FALSE
    /\ document = [t \in Task |-> "none"]
    /\ sent = [s \in Submitter |-> 0] /\ messages = {}
    /\ at = [s \in Submitter |-> "ensure container"] /\ retries = [s \in Submitter |-> 0]
    /\ repeated = {} /\ late = {} /\ tardy = FALSE /\ reset = FALSE
    /\ listing = Idle /\ faults = 0

-----------------------------------------------------------------------------
(* What a call raises when it fails: ensure_container, ensure_queue, put_task, enqueue_task. *)

Faults == {"request lost", "response lost", "denied", "unauthenticated", "refused"}

Retryable(call, fault) ==
    \/ fault = "request lost"
    \/ fault = "response lost" /\ call # "enqueue"

\* 403 is a permission error, every other status an operation error that is not retryable.
Raised(fault) ==
    CASE fault = "denied" -> "permission error"
      [] fault = "unauthenticated" -> "authentication error"
      [] OTHER -> "operation error"

After(call) == CASE call = "ensure container" -> "ensure queue"
                 [] call = "ensure queue" -> "put"
                 [] call = "put" -> "enqueue"
                 [] call = "enqueue" -> "submitted"
Calls == {"ensure container", "ensure queue", "put", "enqueue"}

Feasible(call) == CASE call = "put" -> container [] call = "enqueue" -> queue [] OTHER -> TRUE

Write(t, state) ==
    /\ document' = [document EXCEPT ![t] = state]
    /\ reset' = (reset \/ (state = "queued" /\ document[t] \in {"running", "succeeded"}))

\* A call's effect, made times times; a container or queue that exists is a success.
Effect(s, call, times) ==
    /\ container' = (container \/ call = "ensure container")
    /\ queue' = (queue \/ call = "ensure queue")
    /\ IF call = "put" THEN Write(TaskOf[s], "queued") ELSE UNCHANGED <<document, reset>>
    /\ IF call = "enqueue"
       THEN /\ sent' = [sent EXCEPT ![s] = @ + times] /\ messages' = messages \cup {TaskOf[s]}
            /\ repeated' = IF times > 1 THEN repeated \cup {s} ELSE repeated
       ELSE UNCHANGED <<sent, messages, repeated>>
None == UNCHANGED <<container, queue, document, sent, messages, repeated, reset>>

\* The SDK may have lost an answer and sent again before the one that it returns.
Call(s) ==
    /\ at[s] \in Calls /\ Feasible(at[s])
    /\ \E times \in 1..(IF faults < MaxFaults THEN 2 ELSE 1) :
         Effect(s, at[s], times) /\ faults' = faults + times - 1
    /\ at' = [at EXCEPT ![s] = After(@)] /\ retries' = [retries EXCEPT ![s] = 0]
    /\ UNCHANGED <<late, tardy, listing>>

\* The submitter repeats what is marked as retryable and nothing else.
Fail(s, fault) ==
    /\ at[s] \in Calls /\ faults < MaxFaults /\ faults' = faults + 1
    /\ IF fault = "response lost" /\ Feasible(at[s])
       THEN \/ Effect(s, at[s], 1) /\ UNCHANGED late
            \/ None /\ late' = IF at[s] = "put" THEN late \cup {TaskOf[s]} ELSE late
       ELSE None /\ UNCHANGED late
    /\ IF Retryable(at[s], fault) /\ retries[s] < MaxRetries
       THEN retries' = [retries EXCEPT ![s] = @ + 1] /\ UNCHANGED at
       ELSE at' = [at EXCEPT ![s] = Raised(fault)] /\ UNCHANGED retries
    /\ UNCHANGED <<tardy, listing>>

Arrive(t) ==
    /\ t \in late /\ container
    /\ late' = late \ {t} /\ tardy' = TRUE /\ Write(t, "queued")
    /\ UNCHANGED <<container, queue, sent, messages, at, retries, repeated, listing, faults>>

-----------------------------------------------------------------------------
(* A worker moves a task on with put_task; whoever owns the data removes it. *)

Take(t) ==
    /\ t \in messages
    /\ messages' = messages \ {t} /\ Write(t, "running")
    /\ UNCHANGED <<container, queue, sent, at, retries, repeated, late, tardy, listing, faults>>
Finish(t) ==
    /\ document[t] = "running" /\ Write(t, "succeeded")
    /\ UNCHANGED <<container, queue, sent, messages, at, retries, repeated, late, tardy,
                   listing, faults>>
Remove(t) ==
    /\ document[t] = "succeeded" /\ document' = [document EXCEPT ![t] = "none"]
    /\ listing' = IF listing.at = "idle" THEN listing ELSE [listing EXCEPT !.throughout = @ \ {t}]
    /\ UNCHANGED <<container, queue, sent, messages, at, retries, repeated, late, tardy,
                   reset, faults>>

-----------------------------------------------------------------------------
(* iter_task_pages: names page by page, then a read of each name's document. *)

Stored == {t \in Task : document[t] # "none"}
Quiet == UNCHANGED <<container, queue, document, sent, messages, at, retries, repeated, late,
                     tardy, reset, faults>>

Begin ==
    /\ listing.at = "idle" /\ container /\ Quiet
    /\ listing' = [at |-> "listing", after |-> 0, names |-> {}, got |-> {}, throughout |-> Stored]

NextPage ==
    /\ listing.at = "listing" /\ listing.names = {} /\ Quiet
    /\ LET rest == {t \in Stored : t > listing.after}
           page == {t \in rest : Cardinality({u \in rest : u < t}) < PageSize}
       IN listing' = IF rest = {} THEN [listing EXCEPT !.at = "complete"]
                     ELSE [listing EXCEPT !.names = page, !.after = Max(page)]

GetTask ==
    /\ listing.at = "listing" /\ listing.names # {} /\ Quiet
    /\ LET t == Min(listing.names) IN
       listing' = IF document[t] = "none" THEN [listing EXCEPT !.at = "not found"]
                  ELSE [listing EXCEPT !.names = @ \ {t}, !.got = @ \cup {t}]

Next ==
    \/ \E s \in Submitter : Call(s) \/ \E fault \in Faults : Fail(s, fault)
    \/ \E t \in Task : Arrive(t) \/ Take(t) \/ Finish(t) \/ Remove(t)
    \/ Begin \/ NextPage \/ GetTask

-----------------------------------------------------------------------------

\* What was submitted has been stored and announced; and a submitter that repeats only what
\* it is told to announces its task once, if its SDK did not send again.
Announced ==
    \A s \in Submitter : /\ at[s] = "submitted" => sent[s] >= 1
                         /\ s \notin repeated => sent[s] <= 1

\* A worker always finds the document of its message, unless it was removed when a second
\* message or a second submission had it run already.
FindsDocument ==
    \A t \in messages : document[t] = "none" =>
        \/ repeated # {}
        \/ Cardinality({s \in Submitter : TaskOf[s] = t}) > 1

\* A task goes back to queued only by a write that was given up or by another submission.
StaysRun == reset => tardy \/ Cardinality(Task) < Cardinality(Submitter)

\* A listing that completes has returned every document that was there throughout; one
\* that fails met a document that was removed.
ListsAll ==
    /\ listing.at = "complete" => listing.throughout \subseteq listing.got
    /\ listing.at = "not found" => Min(listing.names) \notin listing.throughout

SubmissionsKept == Announced /\ FindsDocument /\ StaysRun /\ ListsAll
=============================================================================
