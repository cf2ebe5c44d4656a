----------------------------- MODULE WorkPipeline -----------------------------
(* The relay's ZeroMQ patterns of lab 20: a pipeline that announces every change of
   a task to bounded subscriptions, and a router that answers REQ and DEALER clients
   whose replies may be lost. *)
EXTENDS Integers, FiniteSets, Sequences, Functions

CONSTANTS Task, Worker, Subscriber, Client, RequestId, HighWater,
          MaxSubmits    \* bound

VARIABLES queue, owner,       \* copies waiting; the worker each task in flight belongs to
          stopping, sequence, \* events published are 1 to sequence
          subscription,       \* each subscriber's queue and counters
          received,           \* what each subscriber has drained
          accepted, working,  \* copies taken in; those that workers were given and still have
          finished, refused,  \* copies whose acknowledgement was taken or was an error
          replied,            \* requests the router has carried out, with their commands
          waiting, pending    \* REQ clients that wait, DEALER requests without a reply
pipeline == <<queue, owner, stopping, accepted, working, finished, refused>>
events == <<sequence, subscription, received>>
channel == <<replied, waiting, pending>>
vars == <<pipeline, events, channel>>

Nobody == "nobody"
Unsubscribed == [missed |-> -1, dropped |-> 0, queue |-> <<>>]
Init ==
    /\ queue = <<>> /\ owner = [t \in Task |-> Nobody] /\ stopping = FALSE
    /\ accepted = {} /\ working = {} /\ finished = {} /\ refused = {}
    /\ sequence = 0 /\ subscription = [s \in Subscriber |-> Unsubscribed]
    /\ received = [s \in Subscriber |-> <<>>]
    /\ replied = {} /\ waiting = {} /\ pending = {}

-----------------------------------------------------------------------------
(* Publisher and subscriptions. *)

Subscribe(s) ==
    /\ subscription[s] = Unsubscribed
    /\ subscription' = [subscription EXCEPT ![s].missed = sequence]
    /\ UNCHANGED <<pipeline, sequence, received, channel>>

Offered(subs, event) ==
    IF Len(subs.queue) >= HighWater THEN [subs EXCEPT !.dropped = @ + 1]
    ELSE [subs EXCEPT !.queue = Append(@, event)]

Publish ==
    /\ sequence' = sequence + 1
    /\ subscription' = [s \in Subscriber |->
          IF subscription[s] = Unsubscribed THEN Unsubscribed
          ELSE Offered(subscription[s], sequence + 1)]
    /\ UNCHANGED <<received, channel>>

Drain(s) ==
    /\ subscription[s].queue # <<>>
    /\ received' = [received EXCEPT ![s] = @ \o subscription[s].queue]
    /\ subscription' = [subscription EXCEPT ![s].queue = <<>>]
    /\ UNCHANGED <<pipeline, sequence, channel>>

-----------------------------------------------------------------------------
(* Pipeline.  Each call of submit takes in a copy of a task; the pipeline itself knows
   the copies apart only while they wait. *)

NewCopy(t) == [task |-> t, number |-> Cardinality(accepted) + 1]

Submit(t) ==
    /\ ~stopping /\ Cardinality(accepted) < MaxSubmits
    /\ queue' = Append(queue, NewCopy(t))
    /\ accepted' = accepted \cup {NewCopy(t)}
    /\ Publish
    /\ UNCHANGED <<owner, stopping, working, finished, refused>>

\* A second copy of a task in flight takes its entry over.
Pull(w) ==
    /\ queue # <<>>
    /\ queue' = Tail(queue)
    /\ owner' = [owner EXCEPT ![Head(queue).task] = w]
    /\ working' = working \cup {<<w, Head(queue)>>}
    /\ Publish
    /\ UNCHANGED <<stopping, accepted, finished, refused>>

\* Only the worker its entry names may finish a task; the others are told that it is not
\* theirs, or not known.
MayEnd(w, t) == owner[t] = w
Acknowledge(w, c) ==
    /\ <<w, c>> \in working
    /\ working' = working \ {<<w, c>>}
    /\ IF MayEnd(w, c.task)
       THEN /\ owner' = [owner EXCEPT ![c.task] = Nobody]
            /\ finished' = finished \cup {c}
            /\ Publish
            /\ UNCHANGED refused
       ELSE refused' = refused \cup {c} /\ UNCHANGED <<owner, finished, events, channel>>
    /\ UNCHANGED <<queue, stopping, accepted>>

RequestStop ==
    /\ ~stopping /\ stopping' = TRUE
    /\ UNCHANGED <<queue, owner, accepted, working, finished, refused, events, channel>>

Drained == stopping /\ queue = <<>> /\ \A t \in Task : owner[t] = Nobody

-----------------------------------------------------------------------------
(* Router: one reply for each client and request id, kept for whoever asks again. *)

Handle(c, id, command) ==
    replied' = IF \E r \in replied : r.client = c /\ r.id = id THEN replied
               ELSE replied \cup {[client |-> c, id |-> id, command |-> command]}

Req(c, id, command, lose) ==
    /\ c \notin waiting
    /\ Handle(c, id, command)
    /\ waiting' = IF lose THEN waiting \cup {c} ELSE waiting
    /\ UNCHANGED <<pipeline, events, pending>>

Dealer(c, id, command, lose) ==
    /\ Handle(c, id, command)
    /\ pending' = IF lose THEN pending \cup {<<c, id>>} ELSE pending \ {<<c, id>>}
    /\ UNCHANGED <<pipeline, events, waiting>>

Next ==
    \/ \E s \in Subscriber : Subscribe(s) \/ Drain(s)
    \/ \E t \in Task : Submit(t)
    \/ \E w \in Worker : Pull(w) \/ \E c \in accepted : Acknowledge(w, c)
    \/ RequestStop
    \/ \E c \in Client, id \in RequestId, command \in {"start", "cancel"}, lose \in BOOLEAN :
         Req(c, id, command, lose) \/ Dealer(c, id, command, lose)

Spec == Init /\ [][Next]_vars

-----------------------------------------------------------------------------

\* The loss counters explain every event a subscriber has not seen, and what it has seen
\* is in order and without repetition.
LossAccounted ==
    \A s \in Subscriber : subscription[s] # Unsubscribed =>
        LET seen == received[s] \o subscription[s].queue IN
        /\ subscription[s].missed + Len(seen) + subscription[s].dropped = sequence
        /\ \A i \in 1..(Len(seen) - 1) : seen[i] < seen[i + 1]

Waiting == Range(queue)
InHand == {c \in accepted : \E w \in Worker : <<w, c>> \in working}
SubmittedAgain(c) == \E d \in accepted : d # c /\ d.task = c.task

\* Every copy that was taken in is at one place: it waits once, is in the hands of one
\* worker, has been finished or was turned down, which befalls only a task that was
\* submitted again.
CopiesAccounted ==
    /\ accepted = Waiting \cup InHand \cup finished \cup refused
    /\ Waiting \cap (InHand \cup finished \cup refused) = {}
    /\ InHand \cap (finished \cup refused) = {} /\ finished \cap refused = {}
    /\ \A i, j \in DOMAIN queue : queue[i] = queue[j] => i = j
    /\ \A v, w \in Worker, c \in accepted :
          <<v, c>> \in working /\ <<w, c>> \in working => v = w
    /\ \A c \in refused : SubmittedAgain(c)

\* A pipeline that says it has drained has finished every task it took in, and only a task
\* that was submitted again may still be in somebody's hands.
DrainedIsDone ==
    Drained =>
        /\ \A c \in accepted : \E d \in finished : d.task = c.task
        /\ \A c \in InHand : SubmittedAgain(c)

\* A lost reply can be had again under its id.
Recoverable ==
    /\ \A p \in pending : \E r \in replied : r.client = p[1] /\ r.id = p[2]
    /\ \A r1, r2 \in replied : r1.client = r2.client /\ r1.id = r2.id => r1 = r2

PipelineAccounts == LossAccounted /\ CopiesAccounted /\ DrainedIsDone /\ Recoverable
=============================================================================
