----------------------------- MODULE SigRaftJobs -----------------------------
(* The job store of the SigRaft service and its WebSocket watchers.  Submissions,
   transitions and subscriptions run under one lock, so each is a step.  Every
   connection has a session thread that reads its commands and, while it watches
   a job, a sender thread that empties its mailbox; these threads, the client and
   the listener's shutdown interleave.  Commands answered without a change of
   state (reads, errors, repeated ids) and the text of answers are left out. *)
EXTENDS Naturals, Sequences, FiniteSets

CONSTANTS Task, Connection,
          Mailbox, MaxSubscriptions, MaxConnections,   \* 32 each in the code
          MaxWatches            \* bound on the watch commands of a connection

ASSUME Limits == {Mailbox, MaxSubscriptions, MaxConnections, MaxWatches} \subseteq Nat \ {0}

VARIABLES history,      \* the states of each task so far: its state is the last one
          sequence,     \* the service's event counter
          registered,   \* the connections whose subscription the service holds
          box,          \* the subscription each session and its sender share
          session, sender, stop,
          watches,      \* how many watches each connection has begun
          open,         \* whether the connection is open
          wire,         \* the events the server has sent on it for the present watch
          listener
vars == <<history, sequence, registered, box, session, sender, stop, watches, open, wire, listener>>

Final == {"succeeded", "failed"}

Allowed(state) == CASE state = "queued"  -> {"running"}
                    [] state = "running" -> Final
                    [] OTHER -> {}

NoBox == [task |-> "none"]
Ended == [at |-> "ended"]
Stored == {t \in Task : history[t] # <<>>}
State(t) == history[t][Len(history[t])]

\* A failed session has given up on its sender, which still runs.
Active == {c \in Connection : session[c] \notin {"new", "gone", "failed"}}

Init ==
    /\ history = [t \in Task |-> <<>>]
    /\ sequence = 0
    /\ registered = {}
    /\ box = [c \in Connection |-> NoBox]
    /\ session = [c \in Connection |-> "new"]
    /\ sender = [c \in Connection |-> Ended]
    /\ stop = [c \in Connection |-> FALSE]
    /\ watches = [c \in Connection |-> 0]
    /\ open = [c \in Connection |-> FALSE]
    /\ wire = [c \in Connection |-> <<>>]
    /\ listener = "up"

-----------------------------------------------------------------------------
(* The service *)

Submit(t) ==
    /\ history[t] = <<>>
    /\ history' = [history EXCEPT ![t] = <<"queued">>]
    /\ sequence' = sequence + 1
    /\ UNCHANGED <<registered, box, session, sender, stop, watches, open, wire, listener>>

BugDropsWhenFull(b, e) ==
    IF Len(b.events) < Mailbox THEN [b EXCEPT !.events = Append(@, e)] ELSE b

\* An overflowing mailbox refuses this event and every later one.
Publish(b, e) ==
    IF b.overflow THEN b
    ELSE IF Len(b.events) < Mailbox THEN [b EXCEPT !.events = Append(@, e)]
    ELSE [b EXCEPT !.overflow = TRUE]

Transition(t, state) ==
    /\ t \in Stored
    /\ state \in Allowed(State(t))
    /\ history' = [history EXCEPT ![t] = Append(@, state)]
    /\ sequence' = sequence + 1
    /\ box' = [c \in Connection |->
          IF c \in registered /\ box[c].task = t
          THEN Publish(box[c], [sequence |-> sequence', state |-> state])
          ELSE box[c]]
    /\ UNCHANGED <<registered, session, sender, stop, watches, open, wire, listener>>

-----------------------------------------------------------------------------
(* A session thread *)

Admit(c) ==
    /\ session[c] = "new"
    /\ LET admitted == listener = "up" /\ Cardinality(Active) < MaxConnections
       IN /\ session' = [session EXCEPT ![c] = IF admitted THEN "reading" ELSE "gone"]
          /\ open' = [open EXCEPT ![c] = admitted]
    /\ UNCHANGED <<history, sequence, registered, box, sender, stop, watches, wire, listener>>

BugSnapshotEarly(c, t) ==
    /\ session[c] = "reading"
    /\ box[c] = NoBox
    /\ t \in Stored
    /\ watches[c] < MaxWatches
    /\ Cardinality(registered) < MaxSubscriptions
    /\ registered' = registered \union {c}
    /\ box' = [box EXCEPT ![c] =
          [task |-> t, from |-> Len(history[t]), overflow |-> FALSE, events |-> <<>>]]
    /\ watches' = [watches EXCEPT ![c] = @ + 1]
    /\ wire' = [wire EXCEPT ![c] = <<>>]
    /\ stop' = [stop EXCEPT ![c] = FALSE]
    /\ session' = [session EXCEPT ![c] = "subscribed"]
    /\ UNCHANGED <<history, sequence, sender, open, listener>>

\* service.subscribe_task: the snapshot is the mailbox's first event.  from is not
\* in the code: it remembers where in the task's history the snapshot was taken.
Watch(c, t) ==
    /\ session[c] = "reading"
    /\ box[c] = NoBox
    /\ t \in Stored
    /\ watches[c] < MaxWatches
    /\ Cardinality(registered) < MaxSubscriptions
    /\ registered' = registered \union {c}
    /\ box' = [box EXCEPT ![c] =
          [task |-> t, from |-> Len(history[t]), overflow |-> FALSE,
           events |-> <<[sequence |-> sequence, state |-> State(t)]>>]]
    /\ watches' = [watches EXCEPT ![c] = @ + 1]
    /\ wire' = [wire EXCEPT ![c] = <<>>]
    /\ stop' = [stop EXCEPT ![c] = FALSE]
    /\ session' = [session EXCEPT ![c] = "subscribed"]
    /\ UNCHANGED <<history, sequence, sender, open, listener>>

\* The first half of stop_watch; the second waits for the sender.
StopWatch(c) ==
    /\ stop' = [stop EXCEPT ![c] = TRUE]
    /\ registered' = registered \ {c}

\* The acknowledgement goes out before the sender starts.
Acknowledge(c) ==
    /\ session[c] = "subscribed"
    /\ \/ /\ open[c]
          /\ sender' = [sender EXCEPT ![c] = [at |-> "checking"]]
          /\ session' = [session EXCEPT ![c] = "reading"]
          /\ UNCHANGED <<registered, stop>>
       \/ /\ ~open[c]
          /\ StopWatch(c)
          /\ session' = [session EXCEPT ![c] = "leaving"]
          /\ UNCHANGED sender
    /\ UNCHANGED <<history, sequence, box, watches, open, wire, listener>>

\* Without a subscription there is nothing to end and the command is only answered.
Unwatch(c) ==
    /\ session[c] = "reading"
    /\ box[c] # NoBox
    /\ StopWatch(c)
    /\ session' = [session EXCEPT ![c] = "joining"]
    /\ UNCHANGED <<history, sequence, box, sender, watches, open, wire, listener>>

\* The connection is closed, or a malformed message or too many commands close it.
Leave(c) ==
    /\ session[c] = "reading"
    /\ StopWatch(c)
    /\ session' = [session EXCEPT ![c] = "leaving"]
    /\ open' = [open EXCEPT ![c] = FALSE]
    /\ UNCHANGED <<history, sequence, box, sender, watches, wire, listener>>

Joined(c) ==
    /\ session[c] \in {"joining", "leaving"}
    /\ sender[c] = Ended
    /\ box' = [box EXCEPT ![c] = NoBox]
    /\ \/ /\ session[c] = "joining" /\ open[c]
          /\ session' = [session EXCEPT ![c] = "reading"]
       \/ /\ session[c] = "joining" /\ ~open[c]
          /\ session' = [session EXCEPT ![c] = "leaving"]
       \/ /\ session[c] = "leaving"
          /\ session' = [session EXCEPT ![c] = "gone"]
    /\ UNCHANGED <<history, sequence, registered, sender, stop, watches, open, wire, listener>>

BugWaitsForever(c) == FALSE

\* A writer that does not stop within a second loses its connection.
JoinTimeout(c) ==
    /\ session[c] \in {"joining", "leaving"}
    /\ sender[c] # Ended
    /\ open[c]
    /\ open' = [open EXCEPT ![c] = FALSE]
    /\ UNCHANGED <<history, sequence, registered, box, session, sender, stop, watches, wire, listener>>

\* Five seconds later it raises.  The end of the session's loop joins once more, and
\* a second error leaves the sender to itself.
GiveUpJoin(c) ==
    /\ session[c] \in {"joining", "leaving"}
    /\ sender[c] # Ended
    /\ ~open[c]
    /\ session' = [session EXCEPT ![c] = IF @ = "joining" THEN "leaving" ELSE "failed"]
    /\ UNCHANGED <<history, sequence, registered, box, sender, stop, watches, open, wire, listener>>

-----------------------------------------------------------------------------
(* A sender thread *)

Check(c) ==
    /\ sender[c].at = "checking"
    /\ \/ /\ stop[c]
          /\ sender' = [sender EXCEPT ![c] = Ended]
          /\ UNCHANGED open
       \/ /\ ~stop[c] /\ box[c].overflow
          /\ sender' = [sender EXCEPT ![c] = Ended]
          /\ open' = [open EXCEPT ![c] = FALSE]
       \/ /\ ~stop[c] /\ ~box[c].overflow
          /\ sender' = [sender EXCEPT ![c] = [at |-> "getting"]]
          /\ UNCHANGED open
    /\ UNCHANGED <<history, sequence, registered, box, session, stop, watches, wire, listener>>

Get(c) ==
    /\ sender[c].at = "getting"
    /\ \/ /\ box[c].events = <<>>
          /\ sender' = [sender EXCEPT ![c] = [at |-> "checking"]]
          /\ UNCHANGED box
       \/ /\ box[c].events # <<>>
          /\ sender' = [sender EXCEPT ![c] = [at |-> "sending", event |-> Head(box[c].events)]]
          /\ box' = [box EXCEPT ![c].events = Tail(@)]
    /\ UNCHANGED <<history, sequence, registered, session, stop, watches, open, wire, listener>>

Send(c) ==
    /\ sender[c].at = "sending"
    /\ \/ /\ open[c]
          /\ wire' = [wire EXCEPT ![c] = Append(@, sender[c].event)]
          /\ sender' = [sender EXCEPT ![c] = [at |-> "checking"]]
       \/ /\ ~open[c]
          /\ sender' = [sender EXCEPT ![c] = Ended]
          /\ UNCHANGED wire
    /\ UNCHANGED <<history, sequence, registered, box, session, stop, watches, open, listener>>

-----------------------------------------------------------------------------
(* The client and the listener *)

Disconnect(c) ==
    /\ open[c]
    /\ open' = [open EXCEPT ![c] = FALSE]
    /\ UNCHANGED <<history, sequence, registered, box, session, sender, stop, watches, wire, listener>>

StopListener ==
    /\ listener = "up"
    /\ listener' = "stopping"
    /\ UNCHANGED <<history, sequence, registered, box, session, sender, stop, watches, open, wire>>

BugClosesWatchersOnly ==
    /\ listener = "stopping"
    /\ listener' = "closing"
    /\ open' = [c \in Connection |-> open[c] /\ c \notin registered]
    /\ UNCHANGED <<history, sequence, registered, box, session, sender, stop, watches, wire>>

CloseConnections ==
    /\ listener = "stopping"
    /\ listener' = "closing"
    /\ open' = [c \in Connection |-> FALSE]
    /\ UNCHANGED <<history, sequence, registered, box, session, sender, stop, watches, wire>>

\* close() waits for every session it found to finish, and then for the listener's
\* own thread; either wait may run out after five seconds.
Down ==
    /\ listener = "closing"
    /\ \/ Active = {} /\ listener' = "down"
       \/ listener' = "raised"
    /\ UNCHANGED <<history, sequence, registered, box, session, sender, stop, watches, open, wire>>

SessionStep(c) == Acknowledge(c) \/ Joined(c) \/ JoinTimeout(c) \/ GiveUpJoin(c)
SenderStep(c) == Check(c) \/ Get(c) \/ Send(c)

ServiceStep(t) == Submit(t) \/ \E s \in {"running"} \union Final : Transition(t, s)

ConnectionStep(c) ==
    \/ Admit(c) \/ Unwatch(c) \/ Leave(c) \/ Disconnect(c)
    \/ \E t \in Task : Watch(c, t)
    \/ SessionStep(c) \/ SenderStep(c)

ListenerStep == StopListener \/ CloseConnections \/ Down

Next ==
    \/ \E t \in Task : ServiceStep(t)
    \/ \E c \in Connection : ConnectionStep(c)
    \/ ListenerStep

\* Threads run.  Nothing makes a client read, so a send on an open connection may
\* block for ever; a closed one raises, and ends the session's loop of commands.
Fairness ==
    /\ \A c \in Connection :
          /\ WF_vars(SessionStep(c))
          /\ WF_vars(~open[c] /\ Leave(c))
          /\ WF_vars(Check(c)) /\ WF_vars(Get(c)) /\ WF_vars(~open[c] /\ Send(c))
    /\ WF_vars(CloseConnections) /\ WF_vars(Down)

Spec == Init /\ [][Next]_vars /\ Fairness

-----------------------------------------------------------------------------
(* Properties *)

States == {"queued", "running"} \union Final

Shown(c) == [i \in 1..Len(wire[c]) |-> wire[c][i].state]

\* A subscription that has not overflowed loses nothing: what its client was shown,
\* what the sender has in hand and what the mailbox holds are, in order, the task's
\* history from the snapshot to the present.
NothingLost ==
    \A c \in registered :
        LET hand == IF sender[c].at = "sending" THEN <<sender[c].event.state>> ELSE <<>>
            held == [i \in 1..Len(box[c].events) |-> box[c].events[i].state]
        IN open[c] /\ ~box[c].overflow =>
              Shown(c) \o hand \o held
                  = SubSeq(history[box[c].task], box[c].from, Len(history[box[c].task]))

\* stop_watch ends although the client may never read again, and so does the sender
\* it joins, also when the session gives up on it.
UnwatchEnds ==
    \A c \in Connection : session[c] = "joining" ~>
        session[c] \in {"reading", "gone", "failed"} /\ sender[c] = Ended

\* close() returns or raises, and either way every session it found comes to its end,
\* whatever the sessions are doing when it is called.
CloseReturns == listener = "stopping" ~> listener \in {"down", "raised"} /\ Active = {}

\* What a client is shown refines the abstract watch.
Watched == [c \in Connection |->
    IF box[c] = NoBox THEN [task |-> "none"]
    ELSE [task |-> box[c].task, from |-> box[c].from, shown |-> Shown(c)]]

Abstract == INSTANCE JobWatch WITH watch <- Watched
ShowsHistory == Abstract!Spec
=============================================================================
