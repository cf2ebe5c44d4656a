------------------------------ MODULE JobWatch ------------------------------
(* What watching a job promises, without mailboxes, threads or sockets: a watch
   shows a stretch of the job's history that starts with the state it was in when
   the watch began and has no holes, and it shows no more of it once it is over. *)
EXTENDS Sequences, Naturals

CONSTANTS Task, Connection

VARIABLES history,   \* the states each task has gone through
          watch      \* the stretch of it each connection is being shown

NoWatch == [task |-> "none"]

Init ==
    /\ history = [t \in Task |-> <<>>]
    /\ watch = [c \in Connection |-> NoWatch]

After(states) ==
    IF states = <<>> THEN {"queued"}
    ELSE CASE states[Len(states)] = "queued"  -> {"running"}
           [] states[Len(states)] = "running" -> {"succeeded", "failed"}
           [] OTHER -> {}

Change(t) ==
    /\ \E s \in After(history[t]) : history' = [history EXCEPT ![t] = Append(@, s)]
    /\ UNCHANGED watch

Begin(c, t) ==
    /\ watch[c] = NoWatch
    /\ history[t] # <<>>
    /\ watch' = [watch EXCEPT ![c] = [task |-> t, from |-> Len(history[t]), shown |-> <<>>]]
    /\ UNCHANGED history

Show(c) ==
    LET w == watch[c]
        next == w.from + Len(w.shown)
    IN /\ w # NoWatch
       /\ next <= Len(history[w.task])
       /\ watch' = [watch EXCEPT ![c].shown = Append(@, history[w.task][next])]
       /\ UNCHANGED history

Finish(c) ==
    /\ watch[c] # NoWatch
    /\ watch' = [watch EXCEPT ![c] = NoWatch]
    /\ UNCHANGED history

Next ==
    \/ \E t \in Task : Change(t)
    \/ \E c \in Connection : Show(c) \/ Finish(c) \/ \E t \in Task : Begin(c, t)

Spec == Init /\ [][Next]_<<history, watch>>
=============================================================================
