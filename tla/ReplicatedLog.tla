---------------------------- MODULE ReplicatedLog ----------------------------
(***************************************************************************)
(* The replicated relay log, labs/25-replicated-log.                       *)
(*                                                                         *)
(* A ReplicatedRelayCluster is driven by one caller; each call is an       *)
(* action.  Elections are those of RaftElection with logs that differ and  *)
(* nodes that can be down; a leader sends its whole log, and whatever      *)
(* commits is applied to a machine that keeps the status of the jobs.      *)
(*                                                                         *)
(* leader_id and _leader_by_term are not here: no decision of this lab     *)
(* reads them (RaftElection has them).  match_index_by_peer counts only    *)
(* while its owner leads, become_leader starts it afresh, so it is zero    *)
(* for the others.  Tasks do not influence one another: there is one.      *)
(***************************************************************************)
EXTENDS Integers, FiniteSets, FiniteSetsExt, SequencesExt

CONSTANTS
    N,          \* number of nodes
    Worker,     \* workers that may claim the task
    Command,    \* the commands clients submit
    Cuts,       \* the partitions a caller sets
    MaxTerm,    \* bound: no election starts beyond this term
    MaxLog,     \* bound: no command is submitted to a log of this length
    MaxDown     \* bound: no more than this many nodes are down at once

ASSUME NAssumption == N \in Nat /\ N >= 3
ASSUME BoundsAssumption == MaxTerm \in Nat /\ MaxLog \in Nat /\ MaxDown \in Nat
ASSUME CommandAssumption ==
    Command \subseteq [kind : {"enqueue", "start", "complete"}, worker : Worker]

Node == 1..N
Term == 0..MaxTerm
Nil  == 0

VARIABLES
    currentTerm, votedFor, role,    \* as in RaftElection
    running,        \* FALSE between crash_node and restart_node
    partition,
    store,          \* log, commit_index and the entries the machine has applied
    matchIndex,     \* match_index_by_peer of each leader
    usurped,        \* auxiliary: a candidate that had stepped down became leader
    committed       \* auxiliary: the longest log a leader has committed so far

votes == <<currentTerm, votedFor>>
vars == <<currentTerm, votedFor, role, running, partition, store, matchIndex,
          usurped, committed>>

-----------------------------------------------------------------------------
(* The job state machine. *)

NoTask == [status |-> "none", worker |-> Nil]

\* RelayTaskStateMachine.apply: a command the rules refuse changes nothing.
Apply(task, c) ==
    CASE c.kind = "enqueue" /\ task.status = "none" -> [task EXCEPT !.status = "queued"]
      [] c.kind = "start" /\ task.status = "queued" -> [status |-> "running", worker |-> c.worker]
      [] c.kind = "complete" /\ task.status = "running" /\ task.worker = c.worker
            -> [task EXCEPT !.status = "completed"]
      [] OTHER -> task

\* The task after the entries a node has applied.
Task(n) == FoldLeft(LAMBDA task, e : Apply(task, e.command), NoTask, store[n].applied)

-----------------------------------------------------------------------------
(* The log of one node. *)

Lesser(a, b) == IF a <= b THEN a ELSE b

\* apply_committed_entries goes on after the last entry applied.
ApplyCommitted(s) ==
    [s EXCEPT !.applied = @ \o SubSeq(s.log, Len(@) + 1, s.commit)]

\* rebuild_state_machine replays the log from its start.
Rebuild(s) ==
    ApplyCommitted([s EXCEPT !.commit = Lesser(@, Len(s.log)), !.applied = <<>>])

\* _replace_log: the machine is rebuilt only if it is ahead of the commit index.
ReplaceLog(s, log) ==
    LET r == [s EXCEPT !.log = log, !.commit = Lesser(@, Len(log))]
    IN  IF Len(r.applied) > r.commit THEN Rebuild(r) ELSE r

\* receive_append_entries takes the leader's commit index also when it is lower.
ReceiveAppend(s, log, commit) ==
    ApplyCommitted([ReplaceLog(s, log) EXCEPT !.commit = Lesser(commit, Len(log))])

LastPosition(s) ==
    IF s.log = <<>> THEN [term |-> 0, index |-> 0]
                    ELSE [term |-> Last(s.log).term, index |-> Len(s.log)]

AtLeast(a, b) == a.term > b.term \/ (a.term = b.term /\ a.index >= b.index)

-----------------------------------------------------------------------------

Healed == {Node}

Partitions ==
    {P \in SUBSET ((SUBSET Node) \ {{}}) :
        /\ UNION P = Node
        /\ \A g, h \in P : g # h => g \cap h = {}}

ASSUME CutsAssumption == Cuts \subseteq Partitions

\* _reachable_peers: the nodes of the same group that are running.
Peers(n) == {p \in UNION {g \in partition : n \in g} : p # n /\ running[p]}

BugMajorityOffByOne == N \div 2
Majority == (N \div 2) + 1

NoMatch == [p \in Node |-> 0]

Init ==
    /\ currentTerm = [n \in Node |-> 0]
    /\ votedFor = [n \in Node |-> Nil]
    /\ role = [n \in Node |-> "follower"]
    /\ running = [n \in Node |-> TRUE]
    /\ partition = Healed
    /\ store = [n \in Node |-> [log |-> <<>>, commit |-> 0, applied |-> <<>>]]
    /\ matchIndex = [n \in Node |-> NoMatch]
    /\ usurped = FALSE
    /\ committed = <<>>

-----------------------------------------------------------------------------
(* Elections. *)

Ahead(n, t) == {p \in Peers(n) : currentTerm[p] > t}

Polled(n, t) ==
    {p \in Peers(n) : currentTerm[p] <= t /\ \A a \in Ahead(n, t) : p < a}

\* can_vote and up_to_date.
BugAnyLog(p, n, t) == currentTerm[p] < t \/ votedFor[p] \in {Nil, n}
BugVotesTwice(p, n, t) == AtLeast(LastPosition(store[n]), LastPosition(store[p]))
WouldGrant(p, n, t) ==
    /\ currentTerm[p] < t \/ votedFor[p] \in {Nil, n}
    /\ AtLeast(LastPosition(store[n]), LastPosition(store[p]))

Granted(n, t) == {n} \cup {p \in Polled(n, t) : WouldGrant(p, n, t)}

TermAfterPoll(n, t) ==
    IF Ahead(n, t) = {} THEN t ELSE currentTerm[Min(Ahead(n, t))]

\* trigger_timeout.  As in lab 24, the votes are counted also when the poll was
\* left because of a later term.  _record_leader raises when the term has another leader
\* already, but only after become_leader: what the nodes then hold is what is here.
TriggerTimeout(n) ==
    LET t == currentTerm[n] + 1
        steppedDown == Ahead(n, t) # {}
        elected == Cardinality(Granted(n, t)) >= Majority
        polled == Polled(n, t)
        yes == Granted(n, t) \ {n}
        deposed == yes \cup {p \in polled : currentTerm[p] < t}
    IN  /\ running[n]
        /\ t \in Term
        /\ currentTerm' = [m \in Node |->
              IF m = n THEN TermAfterPoll(n, t) ELSE IF m \in polled THEN t ELSE currentTerm[m]]
        /\ votedFor' = [m \in Node |->
              IF m = n THEN IF steppedDown THEN Nil ELSE n
              ELSE IF m \in yes THEN n
              ELSE IF m \in deposed THEN Nil ELSE votedFor[m]]
        /\ role' = [m \in Node |->
              IF m = n THEN IF elected THEN "leader"
                            ELSE IF steppedDown THEN "follower" ELSE "candidate"
              ELSE IF m \in deposed THEN "follower" ELSE role[m]]
        /\ matchIndex' = [m \in Node |->
              IF m = n /\ elected THEN [NoMatch EXCEPT ![n] = Len(store[n].log)]
              ELSE IF m \in deposed \cup {n} THEN NoMatch ELSE matchIndex[m]]
        /\ usurped' = (usurped \/ (elected /\ steppedDown))
        /\ UNCHANGED <<running, partition, store, committed>>

-----------------------------------------------------------------------------
(* Replication. *)

\* _advance_commit_index: the last entry of the current term that a majority
\* is known to hold.
Committable(n, s, match) ==
    {i \in (s.commit + 1)..Len(s.log) :
        /\ s.log[i].term = currentTerm[n]
        /\ Cardinality({p \in Node : match[p] >= i}) >= Majority}

\* What the followers that accept a request of leader n do to term, vote and
\* role, and the leader when some peer answers with a later term.
FollowersAccept(n) ==
    LET t == currentTerm[n]
        ahead == Ahead(n, t)
        accepting == Peers(n) \ ahead
        steppedDown == ahead # {}
    IN  /\ currentTerm' = [m \in Node |->
              IF m = n /\ steppedDown THEN Max({currentTerm[a] : a \in ahead})
              ELSE IF m \in accepting THEN t ELSE currentTerm[m]]
        /\ votedFor' = [m \in Node |->
              IF (m = n /\ steppedDown) \/ (m \in accepting /\ currentTerm[m] < t)
              THEN Nil ELSE votedFor[m]]
        /\ role' = [m \in Node |->
              IF m \in accepting \/ (m = n /\ steppedDown) THEN "follower" ELSE role[m]]

\* The match indexes of leader n after a round with this log.
MatchAfter(n, log) ==
    IF Ahead(n, currentTerm[n]) # {} THEN NoMatch
    ELSE [p \in Node |-> IF p = n \/ p \in Peers(n) THEN Len(log) ELSE matchIndex[n][p]]

\* replicate_from_leader: one round with the leader's log and commit index.
ReplicateFromLeader(n) ==
    LET s == store[n]
        accepting == Peers(n) \ Ahead(n, currentTerm[n])
    IN  /\ running[n] /\ role[n] = "leader"
        /\ FollowersAccept(n)
        /\ store' = [m \in Node |->
              IF m \in accepting THEN ReceiveAppend(store[m], s.log, s.commit) ELSE store[m]]
        /\ matchIndex' = [m \in Node |->
              IF m = n THEN MatchAfter(n, s.log)
              ELSE IF m \in accepting THEN NoMatch ELSE matchIndex[m]]
        /\ UNCHANGED <<running, partition, usurped, committed>>

\* submit_command: append, one round, advance, and a second round when the
\* commit index moved.  A leader that stepped down in the first round finds no
\* entry of its new term to commit.
SubmitCommand(n, c) ==
    LET s == store[n]
        log == Append(s.log, [term |-> currentTerm[n], command |-> c])
        accepting == Peers(n) \ Ahead(n, currentTerm[n])
        appended == [s EXCEPT !.log = log]
        match == MatchAfter(n, log)
        new == Committable(n, appended, match)
        commit == IF new = {} THEN s.commit ELSE Max(new)
        first(m) == ReceiveAppend(store[m], log, s.commit)
    IN  /\ running[n] /\ role[n] = "leader"
        /\ Len(s.log) < MaxLog
        /\ FollowersAccept(n)
        /\ store' = [m \in Node |->
              IF m = n THEN ApplyCommitted([appended EXCEPT !.commit = commit])
              ELSE IF m \notin accepting THEN store[m]
              ELSE IF new = {} THEN first(m) ELSE ReceiveAppend(first(m), log, commit)]
        /\ matchIndex' = [m \in Node |->
              IF m = n THEN match ELSE IF m \in accepting THEN NoMatch ELSE matchIndex[m]]
        /\ committed' = IF commit > Len(committed) THEN SubSeq(log, 1, commit) ELSE committed
        /\ UNCHANGED <<running, partition, usurped>>

-----------------------------------------------------------------------------

\* crash_node.
CrashNode(n) ==
    /\ Cardinality({m \in Node : ~running[m] /\ m # n}) < MaxDown
    /\ running' = [running EXCEPT ![n] = FALSE]
    /\ role' = [role EXCEPT ![n] = "follower"]
    /\ matchIndex' = [matchIndex EXCEPT ![n] = NoMatch]
    /\ UNCHANGED <<votes, partition, store, usurped, committed>>

\* restart_node: term, vote, log and commit index survive, the machine is
\* replayed.
RestartNode(n) ==
    /\ running' = [running EXCEPT ![n] = TRUE]
    /\ role' = [role EXCEPT ![n] = "follower"]
    /\ matchIndex' = [matchIndex EXCEPT ![n] = NoMatch]
    /\ store' = [store EXCEPT ![n] = Rebuild(@)]
    /\ UNCHANGED <<votes, partition, usurped, committed>>

\* set_partition and heal.
SetPartition(P) ==
    /\ partition' = P
    /\ UNCHANGED <<votes, role, running, store, matchIndex, usurped, committed>>

Next ==
    \/ \E n \in Node : TriggerTimeout(n)
    \/ \E n \in Node : ReplicateFromLeader(n)
    \/ \E n \in Node, c \in Command : SubmitCommand(n, c)
    \/ \E n \in Node : CrashNode(n)
    \/ \E n \in Node : RestartNode(n)
    \/ \E P \in Cuts : SetPartition(P)

Spec == Init /\ [][Next]_vars

-----------------------------------------------------------------------------

\* While every leader was elected for its own term, whatever two nodes have
\* applied is the same up to the shorter of the two.
AppliedAgree ==
    ~usurped => \A m, n \in Node : LET a == store[m].applied  b == store[n].applied IN
                   IsPrefix(a, b) \/ IsPrefix(b, a)

\* Two logs with the same term at the same position agree up to it.
LogMatching ==
    ~usurped => \A m, n \in Node : \A i \in 1..Lesser(Len(store[m].log), Len(store[n].log)) :
        store[m].log[i].term = store[n].log[i].term
            => SubSeq(store[m].log, 1, i) = SubSeq(store[n].log, 1, i)

\* A committed entry is in the log of the leader of the latest term: no leader
\* overwrites a committed job.  Without the first condition this is what the
\* lab says of a replacement leader, and what an election won after stepping
\* down breaks.
LeaderKeepsCommitted ==
    \A n \in Node :
        role[n] = "leader" /\ (\A m \in Node : currentTerm[m] <= currentTerm[n])
            => IsPrefix(committed, store[n].log)

CommittedAreKept == ~usurped => LeaderKeepsCommitted

\* The job is claimed by one worker: no two replicas show different owners, whatever
\* part of the log they have applied and whichever leader it came from.
OneOwner ==
    ~usurped => \A m, n \in Node :
        Task(m).worker # Nil /\ Task(n).worker # Nil => Task(m).worker = Task(n).worker

\* What the restart test of the lab says: a node that comes back still shows
\* what it had applied when it went down.
RestartKeepsApplied ==
    [][\A n \in Node : ~usurped /\ ~running[n] /\ running'[n]
          => Len(store'[n].applied) >= Len(store[n].applied)]_vars
=============================================================================
