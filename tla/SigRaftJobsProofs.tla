------------------------- MODULE SigRaftJobsProofs -------------------------
(***************************************************************************)
(* Proofs about SigRaftJobs, for every number of jobs and connections and  *)
(* every limit: a watcher loses nothing, and the service implements the    *)
(* abstract watch.  And about ConfigReload, for every set of revisions:    *)
(* the two phases leave the subsystems together.                           *)
(***************************************************************************)
EXTENDS MCSigRaftJobs, SequenceTheorems, TLAPS

Item == [sequence : Nat, state : States]
Watching == [task : Task, from : Nat, overflow : BOOLEAN, events : Seq(Item)]
Holding == [at : {"sending"}, event : Item]
Steps == {"new", "reading", "subscribed", "joining", "leaving", "gone", "failed"}

Types ==
    /\ history \in [Task -> Seq(States)]
    /\ sequence \in Nat
    /\ registered \subseteq Connection
    /\ box \in [Connection -> Watching \cup {NoBox}]
    /\ session \in [Connection -> Steps]
    /\ sender \in [Connection -> {Ended, [at |-> "checking"], [at |-> "getting"]} \cup Holding]
    /\ stop \in [Connection -> BOOLEAN]
    /\ watches \in [Connection -> Nat]
    /\ open \in [Connection -> BOOLEAN]
    /\ wire \in [Connection -> Seq(Item)]

\* What a session has done decides whether there is a subscription and a sender.
Threads(c) ==
    /\ box[c] = NoBox => sender[c] = Ended /\ c \notin registered
    /\ session[c] = "subscribed" => sender[c] = Ended /\ box[c] # NoBox /\ wire[c] = <<>>
    /\ session[c] \in {"new", "gone"} => box[c] = NoBox
    /\ stop[c] \/ session[c] \in {"joining", "leaving"} => c \notin registered
    /\ c \in registered /\ open[c] /\ ~box[c].overflow /\ session[c] # "subscribed"
          => sender[c] # Ended

\* Events show a stretch of a history that begins at a position.
Shows(h, events, from) ==
    \A i \in 1..Len(events) :
        /\ from + i - 1 <= Len(h)
        /\ events[i].state = h[from + i - 1]

Sending(c) == sender[c].at = "sending"
Live(c) == sender[c] # Ended \/ session[c] = "subscribed"

\* Where the events of the mailbox begin.
Rest(c) == box[c].from + Len(wire[c]) + (IF Sending(c) THEN 1 ELSE 0)

\* What the client was shown, what a running sender has in hand and what waits in the
\* mailbox continue each other in the task's history, and reach its end unless the
\* subscription is over or has overflowed.
Continues(c) ==
    box[c] # NoBox =>
        LET h == history[box[c].task]
        IN /\ box[c].from \in 1..Len(h)
           /\ Shows(h, wire[c], box[c].from)
           /\ Live(c) =>
                 /\ Sending(c) => Shows(h, <<sender[c].event>>, box[c].from + Len(wire[c]))
                 /\ Shows(h, box[c].events, Rest(c))
                 /\ c \in registered /\ ~box[c].overflow
                       => Rest(c) + Len(box[c].events) = Len(h) + 1

WatchInv == Types /\ \A c \in Connection : Threads(c) /\ Continues(c)

-----------------------------------------------------------------------------

\* A subscription is not the absence of one.
LEMMA NotNoBox == \A b \in Watching : b # NoBox
BY DEF Watching, NoBox

LEMMA SendersDiffer ==
    /\ \A h \in Holding : h # Ended /\ h.at = "sending" /\ h.event \in Item
    /\ [at |-> "checking"] # Ended /\ [at |-> "getting"] # Ended
    /\ Ended.at = "ended"
BY DEF Holding, Ended

LEMMA SendersHold ==
    ASSUME Types, NEW c \in Connection
    PROVE  Sending(c) <=> sender[c] \in Holding
<1>1. [at |-> "checking"].at # "sending" /\ [at |-> "getting"].at # "sending"
  OBVIOUS
<1>2. Ended.at # "sending"
  BY DEF Ended
<1>3. sender[c] \in {Ended, [at |-> "checking"], [at |-> "getting"]} \cup Holding
  BY DEF Types
<1>. QED  BY <1>1, <1>2, <1>3, SendersDiffer DEF Sending

\* What a step does not touch.
Untouched(c) ==
    /\ box'[c] = box[c] /\ sender'[c] = sender[c] /\ session'[c] = session[c]
    /\ wire'[c] = wire[c] /\ open'[c] = open[c] /\ stop'[c] = stop[c]
    /\ c \in registered' <=> c \in registered

LEMMA Frame ==
    ASSUME NEW c \in Connection, Threads(c), Continues(c), Untouched(c), UNCHANGED history
    PROVE  Threads(c)' /\ Continues(c)'
BY DEF Threads, Continues, Untouched, Shows, Live, Sending, Rest

LEMMA InitWatchInv == Init => WatchInv
BY DEF Init, WatchInv, Types, Threads, Continues, Steps, Live

-----------------------------------------------------------------------------
(* The service *)

\* A history that grows shows what it showed.
LEMMA GrowthKeepsShows ==
    ASSUME NEW h \in Seq(States), NEW s \in States, NEW events \in Seq(Item),
           NEW from \in Nat \ {0}, Shows(h, events, from)
    PROVE  Shows(Append(h, s), events, from)
<1>1. \A k \in 1..Len(h) : k <= Len(Append(h, s)) /\ Append(h, s)[k] = h[k]
  OBVIOUS
<1>2. \A i \in 1..Len(events) : from + i - 1 \in 1..Len(h)
  BY DEF Shows
<1>. QED  BY <1>1, <1>2 DEF Shows

\* What comes next in a history may be shown next.
LEMMA AppendShows ==
    ASSUME NEW h \in Seq(States), NEW events \in Seq(Item), NEW e \in Item,
           NEW from \in Nat \ {0}, Shows(h, events, from),
           Shows(h, <<e>>, from + Len(events))
    PROVE  Shows(h, Append(events, e), from)
<1>1. from + Len(events) <= Len(h) /\ e.state = h[from + Len(events)]
  <2>1. 1 \in 1..Len(<<e>>) /\ <<e>>[1] = e
    OBVIOUS
  <2>2. from + Len(events) + 1 - 1 = from + Len(events)
    OBVIOUS
  <2>. QED  BY <2>1, <2>2 DEF Shows
<1>2. /\ Len(Append(events, e)) = Len(events) + 1
      /\ \A i \in 1..Len(events) : Append(events, e)[i] = events[i]
      /\ Append(events, e)[Len(events) + 1] = e
  OBVIOUS
<1>3. ASSUME NEW i \in 1..Len(Append(events, e))
      PROVE  /\ from + i - 1 <= Len(h)
             /\ Append(events, e)[i].state = h[from + i - 1]
  <2>1. CASE i \in 1..Len(events)
    BY <1>2, <2>1 DEF Shows
  <2>2. CASE i = Len(events) + 1
    BY <1>1, <1>2, <2>2
  <2>. QED  BY <1>2, <2>1, <2>2
<1>. QED  BY <1>3 DEF Shows

\* The first of the events may be taken from the others.
LEMMA HeadShows ==
    ASSUME NEW h \in Seq(States), NEW events \in Seq(Item), events # <<>>,
           NEW from \in Nat \ {0}, Shows(h, events, from)
    PROVE  /\ Shows(h, <<Head(events)>>, from)
           /\ Shows(h, Tail(events), from + 1)
           /\ Head(events) \in Item /\ Tail(events) \in Seq(Item)
           /\ Len(Tail(events)) + 1 = Len(events)
<1>1. /\ 1 \in 1..Len(events) /\ Head(events) = events[1] /\ Head(events) \in Item
      /\ Tail(events) \in Seq(Item) /\ Len(Tail(events)) + 1 = Len(events)
      /\ \A i \in 1..Len(Tail(events)) : i + 1 \in 1..Len(events) /\ Tail(events)[i] = events[i + 1]
  OBVIOUS
<1>2. \A i \in 1..Len(<<Head(events)>>) : i = 1 /\ <<Head(events)>>[i] = events[1]
  BY <1>1
<1>. QED  BY <1>1, <1>2 DEF Shows

LEMMA SubmitInv ==
    ASSUME WatchInv, NEW t \in Task, Submit(t)
    PROVE  WatchInv'
<1>1. Types'
  BY DEF WatchInv, Types, Submit, States
<1>2. ASSUME NEW c \in Connection PROVE Threads(c)'
  BY <1>2 DEF WatchInv, Threads, Submit
<1>3. ASSUME NEW c \in Connection PROVE Continues(c)'
  <2>1. Types /\ Threads(c) /\ Continues(c)
    BY DEF WatchInv
  <2>2. CASE box[c] = NoBox
    BY <2>2 DEF Submit, Continues
  \* A task that is watched has been submitted.
  <2>3. CASE box[c] # NoBox
    <3>1. box[c] \in Watching
      BY <2>1, <2>3 DEF Types
    <3>2. Len(history[t]) = 0
      BY DEF Submit
    <3>3. box[c].task # t
      BY <2>1, <2>3, <3>1, <3>2 DEF Continues, Watching
    <3>. QED
      BY <2>1, <2>3, <3>1, <3>3
         DEF Submit, Continues, Shows, Live, Sending, Rest, Watching, Types
  <2>. QED  BY <2>2, <2>3
<1>. QED  BY <1>1, <1>2, <1>3 DEF WatchInv

LEMMA TransitionInv ==
    ASSUME WatchInv, NEW t \in Task, NEW s \in {"running"} \cup Final, Transition(t, s)
    PROVE  WatchInv'
<1>0. Types
  BY DEF WatchInv
<1>1. s \in States /\ history' = [history EXCEPT ![t] = Append(@, s)]
  BY DEF Transition, States
<1>2. PICK e \in Item : /\ e.state = s
                       /\ box' = [c \in Connection |->
                             IF c \in registered /\ box[c].task = t
                             THEN Publish(box[c], e) ELSE box[c]]
  <2>1. [sequence |-> sequence', state |-> s] \in Item
    BY <1>0, <1>1 DEF Item, Types, Transition
  <2>. QED  BY <2>1 DEF Transition
<1>3. ASSUME NEW c \in Connection, box[c] # NoBox
      PROVE  /\ box'[c] \in Watching
             /\ box'[c].task = box[c].task /\ box'[c].from = box[c].from
             /\ box[c] \in Watching
             /\ \/ /\ box'[c].events = box[c].events
                   /\ c \in registered /\ box[c].task = t => box'[c].overflow
                   /\ c \in registered /\ box[c].task # t => box'[c] = box[c]
                \/ /\ box'[c].events = Append(box[c].events, e)
                   /\ ~box[c].overflow /\ c \in registered /\ box[c].task = t
             /\ box[c].overflow => box'[c].overflow
  <2>1. box[c] \in Watching
    BY <1>0, <1>3 DEF Types
  <2>2. CASE ~(c \in registered /\ box[c].task = t)
    BY <2>1, <2>2, <1>2
  <2>3. CASE c \in registered /\ box[c].task = t
    <3>1. box'[c] = Publish(box[c], e)
      BY <2>3, <1>2
    <3>2. CASE box[c].overflow
      BY <2>1, <2>3, <3>1, <3>2 DEF Publish
    <3>3. CASE ~box[c].overflow /\ Len(box[c].events) < Mailbox
      <4>1. PICK b \in Watching : b = box[c]
        BY <2>1
      <4>2. Append(b.events, e) \in Seq(Item) /\ b.events \in Seq(Item)
        BY <1>2 DEF Watching
      <4>3. box'[c] = [b EXCEPT !.events = Append(b.events, e)]
        BY <3>1, <3>3, <4>1 DEF Publish
      <4>4. box'[c] \in Watching /\ box'[c].events = Append(b.events, e)
            /\ box'[c].task = b.task /\ box'[c].from = b.from /\ box'[c].overflow = b.overflow
        BY <4>2, <4>3 DEF Watching
      <4>. QED  BY <2>1, <2>3, <3>3, <4>1, <4>4
    <3>4. CASE ~box[c].overflow /\ ~(Len(box[c].events) < Mailbox)
      BY <2>1, <2>3, <3>1, <3>4 DEF Publish, Watching
    <3>. QED  BY <3>2, <3>3, <3>4
  <2>. QED  BY <2>2, <2>3
<1>4. Types'
  <2>1. \A c \in Connection : box'[c] \in Watching \cup {NoBox}
    <3> TAKE c \in Connection
    <3>1. CASE box[c] = NoBox
      BY <3>1, <1>2 DEF WatchInv, Threads
    <3>. QED  BY <3>1, <1>3
  <2>2. box' \in [Connection -> Watching \cup {NoBox}]
    BY <2>1, <1>2
  <2>3. history' \in [Task -> Seq(States)] /\ sequence' \in Nat
    BY <1>0, <1>1 DEF Types, Transition
  <2>. QED  BY <1>0, <2>2, <2>3 DEF Types, Transition
<1>5. ASSUME NEW c \in Connection PROVE Threads(c)'
  <2>1. Threads(c)
    BY DEF WatchInv
  <2>2. box'[c] = NoBox <=> box[c] = NoBox
    BY <1>2, <1>3, <2>1, NotNoBox DEF Threads
  <2>3. c \in registered /\ ~box'[c].overflow => ~box[c].overflow
    BY <1>3, <2>1 DEF Threads
  <2>. QED  BY <2>1, <2>2, <2>3 DEF Threads, Transition
<1>6. ASSUME NEW c \in Connection PROVE Continues(c)'
  <2>1. Types /\ Threads(c) /\ Continues(c)
    BY DEF WatchInv
  <2>2. CASE box[c] = NoBox
    BY <2>1, <2>2, <1>2 DEF Continues, Threads
  <2>3. CASE box[c] # NoBox
    <3>1. /\ box[c] \in Watching /\ wire[c] \in Seq(Item) /\ box'[c] # NoBox
          /\ box[c].task \in Task /\ box[c].from \in Nat \ {0} /\ box[c].events \in Seq(Item)
      BY <2>1, <2>3, <1>3, NotNoBox DEF Types, Watching, Continues
    <3>2. PICK h \in Seq(States), g \in Seq(States) :
             /\ h = history[box[c].task] /\ g = history'[box[c].task]
             /\ g = IF box[c].task = t THEN Append(h, s) ELSE h
      <4>1. history[box[c].task] \in Seq(States)
        BY <2>1, <3>1 DEF Types
      <4>2. history'[box[c].task] = IF box[c].task = t THEN Append(history[box[c].task], s)
                                    ELSE history[box[c].task]
        BY <2>1, <3>1, <1>1 DEF Types
      <4>3. history'[box[c].task] \in Seq(States)
        BY <4>1, <4>2, <1>1
      <4>. QED  BY <4>1, <4>2, <4>3
    <3>3. PICK n \in Nat \ {0}, r \in Nat \ {0} :
             n = box[c].from + Len(wire[c]) /\ r = Rest(c)
      <4>1. Len(wire[c]) \in Nat /\ box[c].from + Len(wire[c]) \in Nat \ {0}
        BY <3>1
      <4>2. Rest(c) \in Nat \ {0}
        BY <4>1, <3>1 DEF Rest
      <4>. QED  BY <4>1, <4>2
    <3>4. /\ UNCHANGED <<sender, session, wire, registered>>
          /\ Rest(c)' = r /\ (Live(c)' <=> Live(c)) /\ (Sending(c)' <=> Sending(c))
      BY <1>3, <2>3, <3>3 DEF Transition, Rest, Live, Sending
    <3>5. \A events \in Seq(Item), from \in Nat \ {0} :
             Shows(h, events, from) => Shows(g, events, from)
      BY <1>1, <3>2, GrowthKeepsShows
    <3>0. /\ box[c].from \in 1..Len(h) /\ Shows(h, wire[c], box[c].from)
          /\ Live(c) /\ Sending(c) => Shows(h, <<sender[c].event>>, n)
          /\ Live(c) => /\ Shows(h, box[c].events, r)
                        /\ c \in registered /\ ~box[c].overflow
                              => r + Len(box[c].events) = Len(h) + 1
      BY <2>1, <2>3, <3>2, <3>3 DEF Continues
    <3>6. box[c].from \in 1..Len(g) /\ Shows(g, wire[c], box[c].from)
      BY <3>0, <3>1, <3>2, <3>5
    <3>7. ASSUME Live(c), Sending(c) PROVE Shows(g, <<sender[c].event>>, n)
      <4>1. <<sender[c].event>> \in Seq(Item)
        BY <2>1, <3>7, SendersHold, SendersDiffer
      <4>. QED  BY <3>0, <3>5, <3>7, <4>1
    <3>8. ASSUME Live(c)
          PROVE  /\ Shows(g, box'[c].events, r)
                 /\ c \in registered /\ ~box'[c].overflow
                       => r + Len(box'[c].events) = Len(g) + 1
      <4>1. /\ Shows(g, box[c].events, r)
            /\ c \in registered /\ ~box[c].overflow => r + Len(box[c].events) = Len(h) + 1
        BY <3>0, <3>1, <3>5, <3>8
      <4>2. CASE box'[c].events = box[c].events
                 /\ (c \in registered /\ ~box'[c].overflow => g = h /\ ~box[c].overflow)
        BY <4>1, <4>2
      <4>3. CASE /\ box'[c].events = Append(box[c].events, e)
                 /\ ~box[c].overflow /\ c \in registered /\ box[c].task = t
        <5>1. r + Len(box[c].events) = Len(h) + 1 /\ g = Append(h, s)
          BY <3>2, <4>1, <4>3
        <5>2. Len(g) = Len(h) + 1 /\ g[Len(h) + 1] = e.state /\ Len(<<e>>) = 1 /\ <<e>>[1] = e
          BY <5>1, <1>1, <1>2
        <5>3. Shows(g, <<e>>, r + Len(box[c].events))
          BY <5>1, <5>2 DEF Shows
        <5>4. Shows(g, Append(box[c].events, e), r)
          BY <3>1, <4>1, <5>3, AppendShows
        <5>5. /\ Len(Append(box[c].events, e)) = Len(box[c].events) + 1
              /\ Len(box[c].events) \in Nat /\ Len(h) \in Nat
          BY <3>1
        <5>6. r + Len(Append(box[c].events, e)) = Len(g) + 1
          BY <5>1, <5>2, <5>5
        <5>. QED  BY <4>3, <5>4, <5>6
      <4>. QED  BY <2>3, <3>2, <4>2, <4>3, <1>3
    <3>9. box'[c].task = box[c].task /\ box'[c].from = box[c].from
      BY <2>3, <1>3
    <3>. QED  BY <3>2, <3>3, <3>4, <3>6, <3>7, <3>8, <3>9 DEF Continues
  <2>. QED  BY <2>2, <2>3
<1>. QED  BY <1>4, <1>5, <1>6 DEF WatchInv

-----------------------------------------------------------------------------
(* The threads, the clients and the listener *)

\* A step of one connection is judged by that connection.
LEMMA OthersKept ==
    ASSUME WatchInv, NEW c \in Connection, UNCHANGED history,
           \A d \in Connection \ {c} : Untouched(d),
           Types', Threads(c)', Continues(c)'
    PROVE  WatchInv'
<1>1. ASSUME NEW d \in Connection PROVE Threads(d)' /\ Continues(d)'
  <2>1. CASE d = c
    BY <2>1
  <2>2. CASE d # c
    BY <2>2, Frame DEF WatchInv
  <2>. QED  BY <2>1, <2>2
<1>. QED  BY <1>1 DEF WatchInv

\* Closing a connection disturbs nothing.
LEMMA ClosingKeeps ==
    ASSUME WatchInv, NEW C \in SUBSET Connection,
           open' = [c \in Connection |-> open[c] /\ c \notin C],
           UNCHANGED <<history, sequence, registered, box, session, sender, stop, watches, wire>>
    PROVE  WatchInv'
<1>1. Types'
  BY DEF WatchInv, Types
<1>2. ASSUME NEW c \in Connection PROVE Threads(c)' /\ Continues(c)'
  BY DEF WatchInv, Threads, Continues, Live, Sending, Rest
<1>. QED  BY <1>1, <1>2 DEF WatchInv

LEMMA DisconnectInv ==
    ASSUME WatchInv, NEW c \in Connection, Disconnect(c) \/ JoinTimeout(c)
    PROVE  WatchInv'
<1>1. open' = [d \in Connection |-> open[d] /\ d \notin {c}]
  BY DEF WatchInv, Types, Disconnect, JoinTimeout
<1>2. /\ {c} \in SUBSET Connection
      /\ UNCHANGED <<history, sequence, registered, box, session, sender, stop, watches, wire>>
  BY DEF Disconnect, JoinTimeout
<1>. QED  BY <1>1, <1>2, ClosingKeeps

LEMMA ListenerInv ==
    ASSUME WatchInv, ListenerStep
    PROVE  WatchInv'
<1>1. CASE CloseConnections
  <2>1. open' = [d \in Connection |-> open[d] /\ d \notin Connection]
    BY <1>1 DEF CloseConnections
  <2>. QED  BY <1>1, <2>1, ClosingKeeps DEF CloseConnections
<1>2. CASE StopListener \/ Down
  <2>1. open' = [d \in Connection |-> open[d] /\ d \notin {}]
    BY <1>2 DEF StopListener, Down, WatchInv, Types
  <2>2. {} \in SUBSET Connection
    OBVIOUS
  <2>3. UNCHANGED <<history, sequence, registered, box, session, sender, stop, watches, wire>>
    BY <1>2 DEF StopListener, Down
  <2>. QED  BY <2>1, <2>2, <2>3, ClosingKeeps
<1>. QED  BY <1>1, <1>2 DEF ListenerStep

LEMMA AdmitInv ==
    ASSUME WatchInv, NEW c \in Connection, Admit(c)
    PROVE  WatchInv'
<1>1. Types'
  BY DEF WatchInv, Types, Admit, Steps
<1>2. \A d \in Connection \ {c} : Untouched(d)
  BY DEF WatchInv, Types, Admit, Untouched
<1>3. Threads(c)' /\ Continues(c)'
  <2>1. box[c] = NoBox /\ c \notin registered /\ session'[c] \in {"reading", "gone"}
    BY DEF WatchInv, Types, Threads, Admit
  <2>. QED  BY <2>1 DEF WatchInv, Threads, Continues, Admit
<1>. QED  BY <1>1, <1>2, <1>3, OthersKept DEF Admit

\* The snapshot is the last state of the history.
LEMMA WatchedInv ==
    ASSUME WatchInv, NEW c \in Connection, NEW t \in Task, Watch(c, t)
    PROVE  WatchInv'
<1>0. PICK h \in Seq(States) : h = history[t] /\ h # <<>>
  BY DEF WatchInv, Types, Watch, Stored
<1>1. PICK b, e :
         /\ h = history[t] /\ h # <<>>
         /\ e = [sequence |-> sequence, state |-> h[Len(h)]]
         /\ b = [task |-> t, from |-> Len(h), overflow |-> FALSE, events |-> <<e>>]
         /\ box' = [box EXCEPT ![c] = b]
  BY <1>0 DEF Watch, State
<1>2. Len(h) \in 1..Len(h) /\ h[Len(h)] \in States
  BY <1>1
<1>3. e \in Item /\ b \in Watching /\ <<e>> \in Seq(Item)
  <2>1. e \in Item
    BY <1>1, <1>2 DEF WatchInv, Types, Item
  <2>2. <<e>> \in Seq(Item) /\ Len(h) \in Nat
    BY <2>1, <1>1
  <2>. QED  BY <2>1, <2>2, <1>1 DEF Watching
<1>4. Types'
  <2>1. box' \in [Connection -> Watching \cup {NoBox}]
    BY <1>1, <1>3 DEF WatchInv, Types
  <2>2. wire' \in [Connection -> Seq(Item)]
    BY DEF WatchInv, Types, Watch
  <2>3. watches' \in [Connection -> Nat] /\ session' \in [Connection -> Steps]
    BY DEF WatchInv, Types, Watch, Steps
  <2>. QED  BY <2>1, <2>2, <2>3 DEF WatchInv, Types, Watch
<1>5. \A d \in Connection \ {c} : Untouched(d)
  BY DEF WatchInv, Types, Watch, Untouched
<1>6. /\ box'[c] = b /\ b # NoBox /\ wire'[c] = <<>> /\ session'[c] = "subscribed"
      /\ sender'[c] = Ended /\ stop'[c] = FALSE /\ c \in registered'
      /\ history' = history
  BY <1>1, <1>3, NotNoBox DEF WatchInv, Types, Threads, Watch
<1>7. Threads(c)'
  BY <1>6 DEF Threads
<1>8. Continues(c)'
  <2>1. ~Sending(c)'
    BY <1>6, SendersDiffer DEF Sending
  <2>2. Rest(c)' = Len(h)
    BY <1>1, <1>2, <1>6, <2>1 DEF Rest
  <2>3. Shows(h, <<>>, Len(h)) /\ Shows(h, <<e>>, Len(h))
    BY <1>1, <1>2 DEF Shows
  <2>4. b.from = Len(h) /\ b.task = t /\ b.events = <<e>> /\ Len(b.events) = 1
    BY <1>1
  <2>. QED  BY <1>1, <1>2, <1>6, <2>1, <2>2, <2>3, <2>4 DEF Continues
<1>. QED  BY <1>4, <1>5, <1>6, <1>7, <1>8, OthersKept

\* A step that leaves the task, the events and the sender alone, or ends the sender,
\* leaves in order what the client is shown.
LEMMA StillContinues ==
    ASSUME NEW c \in Connection, Continues(c), UNCHANGED <<history, box, wire>>,
           \/ sender'[c] = Ended /\ session'[c] # "subscribed"
           \/ /\ sender'[c] = sender[c] \/ (~Sending(c) /\ ~Sending(c)')
              /\ Live(c)' => Live(c)
              /\ c \in registered' => c \in registered
    PROVE  Continues(c)'
<1>1. CASE sender'[c] = Ended /\ session'[c] # "subscribed"
  <2>1. ~Live(c)'
    BY <1>1 DEF Live
  <2>. QED  BY <2>1 DEF Continues
<1>2. CASE /\ sender'[c] = sender[c] \/ (~Sending(c) /\ ~Sending(c)')
           /\ Live(c)' => Live(c)
           /\ c \in registered' => c \in registered
  <2>1. (Sending(c)' <=> Sending(c)) /\ Rest(c)' = Rest(c)
    BY <1>2 DEF Sending, Rest
  <2>2. Sending(c) => sender'[c] = sender[c]
    BY <1>2
  <2>. QED  BY <1>2, <2>1, <2>2 DEF Continues
<1>. QED  BY <1>1, <1>2

LEMMA AcknowledgeInv ==
    ASSUME WatchInv, NEW c \in Connection, Acknowledge(c)
    PROVE  WatchInv'
<1>1. Types'
  BY DEF WatchInv, Types, Acknowledge, StopWatch, Steps
<1>2. \A d \in Connection \ {c} : Untouched(d)
  BY DEF WatchInv, Types, Acknowledge, StopWatch, Untouched
<1>3. /\ session[c] = "subscribed" /\ sender[c] = Ended /\ box[c] # NoBox
      /\ UNCHANGED <<history, box, wire>>
      /\ \/ /\ sender'[c] = [at |-> "checking"] /\ session'[c] = "reading"
            /\ UNCHANGED <<registered, stop, open>>
         \/ /\ sender'[c] = Ended /\ session'[c] = "leaving" /\ c \notin registered'
  BY DEF WatchInv, Types, Threads, Acknowledge, StopWatch
<1>4. Threads(c)'
  BY <1>3, SendersDiffer DEF WatchInv, Threads
<1>5. Continues(c)'
  <2>1. ~Sending(c) /\ Live(c)
    BY <1>3, SendersDiffer DEF Sending, Live
  <2>2. sender'[c] = [at |-> "checking"] => ~Sending(c)'
    BY DEF Sending
  <2>. QED  BY <1>3, <2>1, <2>2, StillContinues DEF WatchInv
<1>. QED  BY <1>1, <1>2, <1>3, <1>4, <1>5, OthersKept

LEMMA LeaveInv ==
    ASSUME WatchInv, NEW c \in Connection, Unwatch(c) \/ Leave(c)
    PROVE  WatchInv'
<1>1. Types'
  BY DEF WatchInv, Types, Unwatch, Leave, StopWatch, Steps
<1>2. \A d \in Connection \ {c} : Untouched(d)
  BY DEF WatchInv, Types, Unwatch, Leave, StopWatch, Untouched
<1>3. /\ session[c] = "reading" /\ session'[c] \in {"joining", "leaving"}
      /\ c \notin registered' /\ UNCHANGED <<history, box, sender, wire>>
  BY DEF WatchInv, Types, Unwatch, Leave, StopWatch
<1>4. Threads(c)'
  BY <1>3 DEF WatchInv, Threads
<1>5. Continues(c)'
  <2>1. Live(c)' => Live(c)
    BY <1>3 DEF Live
  <2>. QED  BY <1>3, <2>1, StillContinues DEF WatchInv
<1>. QED  BY <1>1, <1>2, <1>3, <1>4, <1>5, OthersKept

LEMMA JoinedInv ==
    ASSUME WatchInv, NEW c \in Connection, Joined(c)
    PROVE  WatchInv'
<1>1. Types'
  BY DEF WatchInv, Types, Joined, Steps
<1>2. \A d \in Connection \ {c} : Untouched(d)
  BY DEF WatchInv, Types, Joined, Untouched
<1>3. /\ session[c] \in {"joining", "leaving"} /\ session'[c] \in {"reading", "leaving", "gone"}
      /\ box'[c] = NoBox /\ sender'[c] = Ended /\ c \notin registered'
      /\ UNCHANGED history
  BY DEF WatchInv, Types, Threads, Joined
<1>4. Threads(c)' /\ Continues(c)'
  BY <1>3 DEF Threads, Continues
<1>. QED  BY <1>1, <1>2, <1>3, <1>4, OthersKept

LEMMA GiveUpJoinInv ==
    ASSUME WatchInv, NEW c \in Connection, GiveUpJoin(c)
    PROVE  WatchInv'
<1>1. Types'
  BY DEF WatchInv, Types, GiveUpJoin, Steps
<1>2. \A d \in Connection \ {c} : Untouched(d)
  BY DEF WatchInv, Types, GiveUpJoin, Untouched
<1>3. /\ session[c] \in {"joining", "leaving"} /\ session'[c] \in {"leaving", "failed"}
      /\ sender[c] # Ended /\ c \notin registered
      /\ UNCHANGED <<history, registered, box, sender, stop, wire, open>>
  BY DEF WatchInv, Types, Threads, GiveUpJoin
<1>4. Threads(c)' /\ Continues(c)'
  BY <1>3 DEF WatchInv, Threads, Continues, Live, Sending, Rest
<1>. QED  BY <1>1, <1>2, <1>3, <1>4, OthersKept

LEMMA CheckInv ==
    ASSUME WatchInv, NEW c \in Connection, Check(c)
    PROVE  WatchInv'
<1>1. Types'
  BY DEF WatchInv, Types, Check
<1>2. \A d \in Connection \ {c} : Untouched(d)
  BY DEF WatchInv, Types, Check, Untouched
<1>3. /\ sender[c].at = "checking" /\ UNCHANGED <<history, registered, box, session, stop, wire>>
      /\ \/ stop[c] /\ sender'[c] = Ended
         \/ open'[c] = FALSE /\ sender'[c] = Ended
         \/ sender'[c] = [at |-> "getting"] /\ open' = open
  BY DEF WatchInv, Types, Check
<1>4. sender[c] # Ended /\ ~Sending(c) /\ Live(c)
  BY <1>3, SendersDiffer DEF Sending, Live
<1>5. box[c] # NoBox /\ session[c] # "subscribed"
  BY <1>4 DEF WatchInv, Threads
<1>6. Threads(c)'
  BY <1>3, <1>5, SendersDiffer DEF WatchInv, Threads
<1>7. Continues(c)'
  <2>1. sender'[c] = [at |-> "getting"] => ~Sending(c)'
    BY DEF Sending
  <2>. QED  BY <1>3, <1>4, <1>5, <2>1, StillContinues DEF WatchInv
<1>. QED  BY <1>1, <1>2, <1>3, <1>6, <1>7, OthersKept

\* The sender takes the first event of the mailbox in hand.
LEMMA GetInv ==
    ASSUME WatchInv, NEW c \in Connection, Get(c)
    PROVE  WatchInv'
<1>0. Types /\ Threads(c) /\ Continues(c)
  BY DEF WatchInv
<1>1. /\ sender[c].at = "getting" /\ sender[c] # Ended /\ ~Sending(c) /\ Live(c)
  BY SendersDiffer DEF Get, Sending, Live
<1>2. box[c] # NoBox /\ session[c] # "subscribed"
  BY <1>0, <1>1 DEF Threads
<1>3. PICK b \in Watching, h \in Seq(States), w \in Seq(Item) :
         b = box[c] /\ h = history[b.task] /\ w = wire[c]
  BY <1>0, <1>2 DEF Types, Watching
<1>4. /\ b.events \in Seq(Item) /\ b.from \in 1..Len(h) /\ Shows(h, w, b.from)
      /\ Rest(c) = b.from + Len(w) /\ Shows(h, b.events, b.from + Len(w))
      /\ c \in registered /\ ~b.overflow
            => b.from + Len(w) + Len(b.events) = Len(h) + 1
  <2>1. b.events \in Seq(Item) /\ b.from \in Nat
    BY DEF Watching
  <2>2. Rest(c) = b.from + Len(w)
    BY <1>1, <1>3, <2>1 DEF Rest
  <2>. QED  BY <1>0, <1>1, <1>2, <1>3, <2>1, <2>2 DEF Continues
<1>5. /\ \A d \in Connection \ {c} : Untouched(d)
      /\ UNCHANGED <<history, registered, session, stop, open, wire>>
  BY <1>0 DEF Types, Get, Untouched
<1>6. CASE b.events = <<>>
  <2>1. sender' = [sender EXCEPT ![c] = [at |-> "checking"]] /\ box' = box
    BY <1>3, <1>6 DEF Get
  <2>2. Types' /\ sender'[c] = [at |-> "checking"]
    BY <1>0, <2>1 DEF Types, Get
  <2>3. Threads(c)' /\ ~Sending(c)'
    BY <1>0, <1>2, <1>5, <2>1, <2>2, SendersDiffer DEF Threads, Sending
  <2>4. Continues(c)'
    BY <1>0, <1>1, <1>5, <2>1, <2>3, StillContinues
  <2>. QED  BY <1>5, <2>2, <2>3, <2>4, OthersKept
<1>7. CASE b.events # <<>>
  <2>1. PICK e \in Item, q \in Seq(Item) :
           /\ e = Head(b.events) /\ q = Tail(b.events) /\ Len(q) + 1 = Len(b.events)
           /\ Shows(h, <<e>>, b.from + Len(w)) /\ Shows(h, q, b.from + Len(w) + 1)
    <3>1. b.from + Len(w) \in Nat \ {0}
      BY <1>4
    <3>. QED  BY <1>4, <1>7, <3>1, HeadShows
  <2>2. PICK x \in Holding, d \in Watching :
           /\ x = [at |-> "sending", event |-> e] /\ x.event = e /\ x.at = "sending"
           /\ d = [b EXCEPT !.events = q]
           /\ d.task = b.task /\ d.from = b.from /\ d.overflow = b.overflow /\ d.events = q
    <3>1. [at |-> "sending", event |-> e] \in Holding
      BY DEF Holding
    <3>2. [b EXCEPT !.events = q] \in Watching
      BY DEF Watching
    <3>. QED  BY <3>1, <3>2 DEF Watching
  <2>3. sender' = [sender EXCEPT ![c] = x] /\ box' = [box EXCEPT ![c] = d]
    BY <1>0, <1>3, <1>7, <2>1, <2>2 DEF Get, Types
  <2>4. sender'[c] = x /\ box'[c] = d /\ box'[c] # NoBox /\ sender'[c] # Ended
    BY <1>0, <2>2, <2>3, NotNoBox, SendersDiffer DEF Types
  <2>5. Types'
    BY <1>0, <1>5, <2>2, <2>3 DEF Types, Get
  <2>6. Threads(c)'
    BY <1>0, <1>2, <1>3, <1>5, <2>2, <2>4 DEF Threads
  <2>7. Continues(c)'
    <3>1. Sending(c)' /\ Rest(c)' = b.from + Len(w) + 1
      BY <1>3, <1>5, <2>2, <2>4 DEF Sending, Rest
    <3>2. Len(w) \in Nat /\ Len(q) \in Nat /\ b.from \in Nat
      BY <1>4
    <3>3. c \in registered' /\ ~d.overflow => b.from + Len(w) + 1 + Len(q) = Len(h) + 1
      BY <1>4, <1>5, <2>1, <2>2, <3>2
    <3>. QED  BY <1>3, <1>4, <1>5, <2>1, <2>2, <2>4, <3>1, <3>3 DEF Continues
  <2>. QED  BY <1>5, <2>5, <2>6, <2>7, OthersKept
<1>. QED  BY <1>6, <1>7

\* What the sender has in hand comes next.
LEMMA SendInv ==
    ASSUME WatchInv, NEW c \in Connection, Send(c)
    PROVE  WatchInv'
<1>0. Types /\ Threads(c) /\ Continues(c)
  BY DEF WatchInv
<1>1. sender[c] \in Holding /\ sender[c] # Ended /\ Sending(c) /\ Live(c)
  BY <1>0, SendersHold, SendersDiffer DEF Send, Sending, Live
<1>2. box[c] # NoBox /\ session[c] # "subscribed"
  BY <1>0, <1>1 DEF Threads
<1>3. /\ \A d \in Connection \ {c} : Untouched(d)
      /\ UNCHANGED <<history, registered, box, session, stop, open>>
  BY <1>0 DEF Types, Send, Untouched
<1>4. CASE ~open[c]
  <2>1. sender' = [sender EXCEPT ![c] = Ended] /\ wire' = wire
    BY <1>4 DEF Send
  <2>2. Types' /\ sender'[c] = Ended
    BY <1>0, <2>1 DEF Types, Send
  <2>3. Threads(c)'
    BY <1>0, <1>2, <1>3, <1>4, <2>1, <2>2 DEF Threads
  <2>4. Continues(c)'
    BY <1>0, <1>2, <1>3, <2>1, <2>2, StillContinues
  <2>. QED  BY <1>3, <2>2, <2>3, <2>4, OthersKept
<1>5. CASE open[c]
  <2>1. PICK b \in Watching, h \in Seq(States), w \in Seq(Item), e \in Item :
           b = box[c] /\ h = history[b.task] /\ w = wire[c] /\ e = sender[c].event
    BY <1>0, <1>1, <1>2, SendersDiffer DEF Types, Watching
  <2>2. /\ b.events \in Seq(Item) /\ b.from \in 1..Len(h) /\ Shows(h, w, b.from)
        /\ Shows(h, <<e>>, b.from + Len(w)) /\ Shows(h, b.events, b.from + Len(w) + 1)
        /\ c \in registered /\ ~b.overflow
              => b.from + Len(w) + 1 + Len(b.events) = Len(h) + 1
    <3>1. b.events \in Seq(Item) /\ b.from \in Nat
      BY DEF Watching
    <3>2. Rest(c) = b.from + Len(w) + 1
      BY <1>1, <2>1, <3>1 DEF Rest
    <3>. QED  BY <1>0, <1>1, <1>2, <2>1, <3>1, <3>2 DEF Continues
  <2>3. /\ wire' = [wire EXCEPT ![c] = Append(w, e)] /\ Append(w, e) \in Seq(Item)
        /\ sender' = [sender EXCEPT ![c] = [at |-> "checking"]]
    BY <1>0, <1>5, <2>1 DEF Send, Types
  <2>4. /\ wire'[c] = Append(w, e) /\ Len(Append(w, e)) = Len(w) + 1
        /\ sender'[c] = [at |-> "checking"]
    BY <1>0, <2>1, <2>3 DEF Types
  <2>5. Types'
    BY <1>0, <1>3, <2>3 DEF Types, Send
  <2>6. Threads(c)'
    BY <1>0, <1>2, <1>3, <2>4, SendersDiffer DEF Threads
  <2>7. Continues(c)'
    <3>1. ~Sending(c)'
      BY <2>4 DEF Sending
    <3>2. b.from \in Nat \ {0} /\ Len(w) \in Nat
      BY <2>2
    <3>3. Rest(c)' = b.from + Len(w) + 1
      <4>1. Rest(c)' = b.from + Len(Append(w, e)) + 0
        BY <1>3, <2>1, <2>4, <3>1 DEF Rest
      <4>2. \A x, y \in Nat : x + (y + 1) + 0 = x + y + 1
        OBVIOUS
      <4>3. Rest(c)' = b.from + (Len(w) + 1) + 0
        BY <2>4, <4>1
      <4>. QED  BY <3>2, <4>2, <4>3
    <3>4. Shows(h, Append(w, e), b.from)
      BY <2>2, <3>2, AppendShows
    <3>. QED  BY <1>3, <2>1, <2>2, <2>4, <3>1, <3>3, <3>4 DEF Continues
  <2>. QED  BY <1>3, <2>5, <2>6, <2>7, OthersKept
<1>. QED  BY <1>4, <1>5

LEMMA StepWatchInv == WatchInv /\ [Next]_vars => WatchInv'
<1> SUFFICES ASSUME WatchInv, [Next]_vars PROVE WatchInv'
  OBVIOUS
<1>1. ASSUME NEW t \in Task, ServiceStep(t) PROVE WatchInv'
  BY <1>1, SubmitInv, TransitionInv DEF ServiceStep
<1>2. ASSUME NEW c \in Connection, ConnectionStep(c) PROVE WatchInv'
  BY <1>2, AdmitInv, LeaveInv, DisconnectInv, WatchedInv, AcknowledgeInv, JoinedInv,
     GiveUpJoinInv, CheckInv, GetInv, SendInv DEF ConnectionStep, SessionStep, SenderStep
<1>3. CASE ListenerStep
  BY <1>3, ListenerInv
<1>4. CASE UNCHANGED vars
  BY <1>4 DEF vars, WatchInv, Types, Threads, Continues, Shows, Live, Sending, Rest
<1>. QED  BY <1>1, <1>2, <1>3, <1>4 DEF Next

\* A mailbox, a sender and a client's screen hold a task's history from the snapshot to
\* the present, whatever threads, clients and listener do.
THEOREM WatchInvariant == Spec => []WatchInv
BY InitWatchInv, StepWatchInv, PTL DEF Spec

\* The states of events are a sequence.
LEMMA StatesOf ==
    ASSUME NEW q \in Seq(Item)
    PROVE  /\ [i \in 1..Len(q) |-> q[i].state] \in Seq(States)
           /\ Len([i \in 1..Len(q) |-> q[i].state]) = Len(q)
<1>1. Len(q) \in Nat /\ \A i \in 1..Len(q) : q[i] \in Item
  BY LenProperties, ElementOfSeq
<1>2. [i \in 1..Len(q) |-> q[i].state] \in [1..Len(q) -> States]
  BY <1>1 DEF Item
<1>3. [i \in 1..Len(q) |-> q[i].state] \in Seq(States)
  BY <1>1, <1>2, SeqDef
<1>. QED  BY <1>1, <1>3, LenProperties

\* A stretch of a history, from a position on.
Stretch(h, s, from) == \A i \in 1..Len(s) : s[i] = h[from + i - 1]

LEMMA StretchesJoin ==
    ASSUME NEW h, NEW f \in Nat, NEW a \in Seq(States), NEW b \in Seq(States),
           Stretch(h, a, f), Stretch(h, b, f + Len(a))
    PROVE  /\ a \o b \in Seq(States) /\ Len(a \o b) = Len(a) + Len(b)
           /\ Stretch(h, a \o b, f)
<1>1. /\ a \o b \in Seq(States) /\ Len(a \o b) = Len(a) + Len(b)
      /\ \A i \in 1..(Len(a) + Len(b)) :
            (a \o b)[i] = IF i <= Len(a) THEN a[i] ELSE b[i - Len(a)]
  BY ConcatProperties
<1>2. PICK l \in Nat, m \in Nat : l = Len(a) /\ m = Len(b)
  OBVIOUS
<1>3. ASSUME NEW i \in 1..(l + m) PROVE (a \o b)[i] = h[f + i - 1]
  <2>1. CASE i <= l
    <3>1. (a \o b)[i] = a[i] /\ i \in 1..l
      BY <1>1, <1>2, <2>1
    <3>. QED  BY <1>2, <3>1 DEF Stretch
  <2>2. CASE l < i
    <3>1. (a \o b)[i] = b[i - l] /\ i - l \in 1..m
      BY <1>1, <1>2, <2>2
    <3>2. f + l + (i - l) - 1 = f + i - 1
      OBVIOUS
    <3>. QED  BY <1>2, <3>1, <3>2 DEF Stretch
  <2>3. i <= l \/ l < i
    OBVIOUS
  <2>. QED  BY <2>1, <2>2, <2>3
<1>. QED  BY <1>1, <1>2, <1>3 DEF Stretch

\* A stretch that reaches the end is what SubSeq makes of a history.
LEMMA StretchToEnd ==
    ASSUME NEW h \in Seq(States), NEW f \in 1..Len(h), NEW s \in Seq(States),
           Stretch(h, s, f), f + Len(s) = Len(h) + 1
    PROVE  s = SubSeq(h, f, Len(h))
<1>1. PICK k \in Nat, n \in Nat : k = Len(h) /\ n = Len(s)
  OBVIOUS
<1>2. \A i \in f..k : h[i] \in States
  BY <1>1, ElementOfSeq
<1>3. f \in Int /\ k \in Int /\ f <= k /\ k - f + 1 = n
  BY <1>1
<1>4. /\ SubSeq(h, f, k) \in Seq(States)
      /\ Len(SubSeq(h, f, k)) = IF f <= k THEN k - f + 1 ELSE 0
      /\ \A i \in 1..k - f + 1 : SubSeq(h, f, k)[i] = h[f + i - 1]
  BY <1>2, <1>3, SubSeqProperties
<1>5. \A i \in 1..n : s[i] = SubSeq(h, f, k)[i]
  BY <1>1, <1>3, <1>4 DEF Stretch
<1>. QED  BY <1>1, <1>3, <1>4, <1>5, SeqEqual

LEMMA WatchInvLosesNothing == WatchInv => NothingLost
<1> SUFFICES ASSUME WatchInv, NEW c \in registered, open[c], ~box[c].overflow
             PROVE  LET hand == IF sender[c].at = "sending" THEN <<sender[c].event.state>> ELSE <<>>
                        held == [i \in 1..Len(box[c].events) |-> box[c].events[i].state]
                    IN Shown(c) \o hand \o held
                          = SubSeq(history[box[c].task], box[c].from, Len(history[box[c].task]))
  BY DEF NothingLost
<1>0. c \in Connection /\ Types /\ Threads(c) /\ Continues(c)
  BY DEF WatchInv, Types
<1>1. box[c] # NoBox /\ Live(c)
  BY <1>0 DEF Threads, Live
<1>2. PICK b \in Watching, h \in Seq(States), w \in Seq(Item), q \in Seq(Item) :
         b = box[c] /\ h = history[b.task] /\ w = wire[c] /\ q = b.events
  BY <1>0, <1>1 DEF Types, Watching
<1>3. PICK f \in Nat, k \in Nat : f = b.from /\ k = IF Sending(c) THEN 1 ELSE 0
  BY DEF Watching
<1>4. /\ f \in 1..Len(h) /\ f + Len(w) + k + Len(q) = Len(h) + 1
      /\ Shows(h, w, f) /\ Shows(h, q, f + Len(w) + k)
      /\ Sending(c) => Shows(h, <<sender[c].event>>, f + Len(w))
  BY <1>0, <1>1, <1>2, <1>3 DEF Continues, Rest
<1>5. PICK shown \in Seq(States) : /\ shown = [i \in 1..Len(w) |-> w[i].state] /\ Len(shown) = Len(w)
                                  /\ Stretch(h, shown, f)
  BY <1>4, StatesOf DEF Shows, Stretch
<1>6. PICK held \in Seq(States) : /\ held = [i \in 1..Len(q) |-> q[i].state] /\ Len(held) = Len(q)
                                 /\ Stretch(h, held, f + Len(w) + k)
  BY <1>4, StatesOf DEF Shows, Stretch
<1>7. PICK hand \in Seq(States) :
         /\ hand = (IF sender[c].at = "sending" THEN <<sender[c].event.state>> ELSE <<>>)
         /\ Len(hand) = k /\ Stretch(h, hand, f + Len(w))
  <2>1. CASE Sending(c)
    <3>1. PICK e \in Item : e = sender[c].event
      BY <1>0, <2>1, SendersHold, SendersDiffer
    <3>2. e.state = h[f + Len(w) + 1 - 1]
      <4>1. 1 \in 1..Len(<<e>>) /\ <<e>>[1] = e
        OBVIOUS
      <4>. QED  BY <1>4, <2>1, <3>1, <4>1 DEF Shows
    <3>3. /\ <<e.state>> \in Seq(States) /\ Len(<<e.state>>) = 1 /\ k = 1
          /\ \A i \in 1..1 : i = 1 /\ <<e.state>>[i] = e.state
      BY <1>3, <2>1 DEF Item
    <3>. QED  BY <2>1, <3>1, <3>2, <3>3 DEF Sending, Stretch
  <2>2. CASE ~Sending(c)
    <3>1. k = 0
      BY <1>3, <2>2
    <3>2. <<>> \in Seq(States) /\ Len(<<>>) = 0 /\ Stretch(h, <<>>, f + Len(w))
      BY DEF Stretch
    <3>. QED  BY <2>2, <3>1, <3>2 DEF Sending
  <2>. QED  BY <2>1, <2>2
<1>8. shown \o hand \o held = SubSeq(h, f, Len(h))
  <2>1. f + Len(w) \in Nat /\ Len(shown) + Len(hand) = Len(w) + k
    BY <1>5, <1>7
  <2>7. Stretch(h, shown, f) /\ Stretch(h, hand, f + Len(shown))
    BY <1>5, <1>7
  <2>2. /\ shown \o hand \in Seq(States) /\ Len(shown \o hand) = Len(w) + k
        /\ Stretch(h, shown \o hand, f)
    BY <2>1, <2>7, StretchesJoin
  <2>3. f + (Len(w) + k) = f + Len(w) + k
    BY <2>1
  <2>4. PICK g \in Seq(States) : g = shown \o hand /\ Len(g) = Len(w) + k /\ Stretch(h, g, f)
    BY <2>2
  <2>5. /\ g \o held \in Seq(States) /\ Len(g \o held) = Len(g) + Len(held)
        /\ Stretch(h, g \o held, f)
    <3>1. Stretch(h, g, f) /\ Stretch(h, held, f + Len(g))
      BY <1>6, <2>3, <2>4
    <3>. QED  BY <3>1, StretchesJoin
  <2>6. f + Len(g \o held) = Len(h) + 1
    BY <1>4, <1>6, <2>4, <2>5
  <2>. QED  BY <1>4, <2>4, <2>5, <2>6, StretchToEnd
<1>. QED  BY <1>2, <1>3, <1>5, <1>6, <1>7, <1>8 DEF Shown

\* A subscription that has not overflowed loses nothing.
THEOREM WatchersLoseNothing == Spec => []NothingLost
BY WatchInvariant, WatchInvLosesNothing, PTL

-----------------------------------------------------------------------------
(* The abstract watch.  A subscription is a watch, and what its client was  *)
(* shown is the stretch of history the watch has gone through.              *)

View(c) == IF box[c] = NoBox THEN [task |-> "none"]
           ELSE [task |-> box[c].task, from |-> box[c].from, shown |-> Shown(c)]

\* A connection looks the same from outside.
LEMMA SameView ==
    ASSUME NEW c \in Connection, wire'[c] = wire[c],
           box'[c] = NoBox <=> box[c] = NoBox,
           box[c] # NoBox => box'[c].task = box[c].task /\ box'[c].from = box[c].from
    PROVE  View(c)' = View(c)
BY DEF View, Shown

LEMMA WatchedIsView ==
    /\ Watched = [c \in Connection |-> View(c)]
    /\ Watched' = [c \in Connection |-> View(c)']
BY DEF Watched, View

LEMMA InitShows == Init => Abstract!Init
BY DEF Init, Abstract!Init, Watched, Abstract!NoWatch, NoBox

\* A step that every connection sees nothing of.
LEMMA NothingSeen ==
    ASSUME \A c \in Connection : View(c)' = View(c)
    PROVE  Watched' = Watched
BY WatchedIsView

\* A step that one connection sees something of.
LEMMA OneSees ==
    ASSUME NEW c \in Connection, \A d \in Connection \ {c} : View(d)' = View(d)
    PROVE  Watched' = [Watched EXCEPT ![c] = View(c)']
BY WatchedIsView

LEMMA SubmitShows ==
    ASSUME WatchInv, NEW t \in Task, Submit(t)
    PROVE  Abstract!Change(t)
<1>1. Abstract!After(history[t]) = {"queued"}
  BY DEF Submit, Abstract!After
<1>2. history' = [history EXCEPT ![t] = Append(history[t], "queued")]
  BY DEF Submit
<1>3. Watched' = Watched
  BY SameView, NothingSeen DEF Submit
<1>. QED  BY <1>1, <1>2, <1>3 DEF Abstract!Change

\* The states of a job change as the abstract history allows.
LEMMA AllowedIsAfter ==
    ASSUME NEW h \in Seq(States), h # <<>>
    PROVE  Allowed(h[Len(h)]) \subseteq Abstract!After(h)
BY DEF Allowed, Final, Abstract!After

LEMMA TransitionShows ==
    ASSUME WatchInv, NEW t \in Task, NEW s \in {"running"} \cup Final, Transition(t, s)
    PROVE  Abstract!Change(t)
<1>1. s \in Abstract!After(history[t])
  <2>1. history[t] \in Seq(States) /\ history[t] # <<>> /\ s \in Allowed(history[t][Len(history[t])])
    BY DEF WatchInv, Types, Transition, Stored, State
  <2>. QED  BY <2>1, AllowedIsAfter
<1>2. history' = [history EXCEPT ![t] = Append(history[t], s)]
  BY DEF Transition
<1>3. ASSUME NEW c \in Connection PROVE View(c)' = View(c)
  <2>1. wire'[c] = wire[c]
    BY DEF Transition
  <2>2. CASE c \in registered
    <3>1. box[c] \in Watching
      BY <2>2 DEF WatchInv, Types, Threads
    <3>2. PICK b \in Watching : b = box[c]
      BY <3>1
    <3>3. PICK e : box'[c] = b \/ box'[c] = Publish(b, e)
      BY <3>2 DEF Transition
    <3>4. box'[c] \in {b, [b EXCEPT !.events = Append(b.events, e)], [b EXCEPT !.overflow = TRUE]}
      BY <3>3 DEF Publish
    <3>5. box'[c].task = b.task /\ box'[c].from = b.from /\ box'[c] # NoBox
      BY <3>4 DEF Watching, NoBox
    <3>. QED  BY <2>1, <3>2, <3>5, SameView, NotNoBox
  <2>3. CASE c \notin registered
    BY <2>1, <2>3, SameView DEF Transition
  <2>. QED  BY <2>2, <2>3
<1>4. Watched' = Watched
  BY <1>3, NothingSeen
<1>. QED  BY <1>1, <1>2, <1>4 DEF Abstract!Change

LEMMA WatchShows ==
    ASSUME WatchInv, NEW c \in Connection, NEW t \in Task, Watch(c, t)
    PROVE  Abstract!Begin(c, t)
<1>1. View(c) = Abstract!NoWatch
  BY DEF Watch, View, Abstract!NoWatch
<1>2. box'[c] # NoBox /\ box'[c].task = t /\ box'[c].from = Len(history[t]) /\ wire'[c] = <<>>
  BY DEF WatchInv, Types, Watch, NoBox
<1>3. Shown(c)' = <<>>
  BY <1>2 DEF Shown
<1>4. View(c)' = [task |-> t, from |-> Len(history[t]), shown |-> <<>>]
  BY <1>2, <1>3 DEF View
<1>5. ASSUME NEW d \in Connection \ {c} PROVE View(d)' = View(d)
  BY SameView DEF Watch
<1>6. history[t] # <<>> /\ history' = history
  BY DEF Watch, Stored
<1>. QED  BY <1>1, <1>4, <1>5, <1>6, OneSees, WatchedIsView DEF Abstract!Begin

LEMMA JoinedShows ==
    ASSUME WatchInv, NEW c \in Connection, Joined(c)
    PROVE  Abstract!Finish(c) \/ UNCHANGED <<history, Watched>>
<1>1. View(c)' = Abstract!NoWatch /\ history' = history
  BY DEF WatchInv, Types, Joined, View, Abstract!NoWatch
<1>2. ASSUME NEW d \in Connection \ {c} PROVE View(d)' = View(d)
  BY SameView DEF Joined
<1>3. CASE View(c) = Abstract!NoWatch
  <2>1. \A d \in Connection : View(d)' = View(d)
    BY <1>1, <1>2, <1>3
  <2>. QED  BY <1>1, <2>1, NothingSeen
<1>4. CASE View(c) # Abstract!NoWatch
  BY <1>1, <1>2, <1>4, OneSees, WatchedIsView DEF Abstract!Finish
<1>. QED  BY <1>3, <1>4

\* What the sender had in hand is the next state of the history.
LEMMA SendShows ==
    ASSUME WatchInv, NEW c \in Connection, Send(c)
    PROVE  Abstract!Show(c) \/ UNCHANGED <<history, Watched>>
<1>1. CASE ~open[c]
  <2>1. \A d \in Connection : View(d)' = View(d)
    BY <1>1, SameView DEF Send
  <2>. QED  BY <2>1, NothingSeen DEF Send
<1>2. CASE open[c]
  <2>0. Types /\ Threads(c) /\ Continues(c)
    BY DEF WatchInv
  <2>1. sender[c] \in Holding /\ sender[c] # Ended /\ Sending(c) /\ Live(c)
    BY <2>0, SendersHold, SendersDiffer DEF Send, Sending, Live
  <2>2. box[c] # NoBox
    BY <2>0, <2>1 DEF Threads
  <2>3. PICK b \in Watching, h \in Seq(States), w \in Seq(Item), e \in Item :
           b = box[c] /\ h = history[b.task] /\ w = wire[c] /\ e = sender[c].event
    BY <2>0, <2>1, <2>2, SendersDiffer DEF Types, Watching
  <2>4. b.from \in 1..Len(h) /\ Shows(h, <<e>>, b.from + Len(w))
    BY <2>0, <2>1, <2>2, <2>3 DEF Continues
  <2>5. b.from + Len(w) <= Len(h) /\ e.state = h[b.from + Len(w)]
    <3>1. 1 \in 1..Len(<<e>>) /\ <<e>>[1] = e
      OBVIOUS
    <3>2. b.from + Len(w) + 1 - 1 = b.from + Len(w)
      BY <2>4
    <3>. QED  BY <2>4, <3>1, <3>2 DEF Shows
  <2>6. wire'[c] = Append(w, e) /\ box' = box /\ history' = history
    BY <1>2, <2>0, <2>3 DEF Types, Send
  <2>7. PICK s : s = [i \in 1..Len(w) |-> w[i].state]
    OBVIOUS
  <2>8. s \in Seq(States) /\ Len(s) = Len(w) /\ Shown(c) = s
    BY <2>3, <2>7, StatesOf DEF Shown
  <2>9. Shown(c)' = Append(s, e.state)
    <3>1. Shown(c)' = [i \in 1..Len(Append(w, e)) |-> Append(w, e)[i].state]
      BY <2>6 DEF Shown
    <3>2. /\ Len(Append(w, e)) = Len(w) + 1 /\ Append(w, e)[Len(w) + 1] = e
          /\ \A i \in 1..Len(w) : Append(w, e)[i] = w[i]
      OBVIOUS
    <3>3. \A i \in 1..(Len(w) + 1) :
             Append(w, e)[i].state = IF i = Len(w) + 1 THEN e.state ELSE s[i]
      BY <2>7, <3>2
    <3>4. Append(s, e.state) = [i \in 1..(Len(w) + 1) |-> IF i = Len(w) + 1 THEN e.state ELSE s[i]]
      BY <2>8
    <3>. QED  BY <3>1, <3>2, <3>3, <3>4
  <2>10. /\ View(c) = [task |-> b.task, from |-> b.from, shown |-> s]
         /\ View(c)' = [task |-> b.task, from |-> b.from, shown |-> Append(s, e.state)]
    BY <2>2, <2>3, <2>6, <2>8, <2>9 DEF View
  <2>11. View(c) # Abstract!NoWatch
    BY <2>10 DEF Abstract!NoWatch
  <2>12. \A d \in Connection \ {c} : View(d)' = View(d)
    BY SameView DEF Send, WatchInv, Types
  <2>13. PICK v : /\ v = View(c) /\ v = Watched[c] /\ v # Abstract!NoWatch
                  /\ v.task = b.task /\ v.from = b.from /\ v.shown = s
    BY <2>10, <2>11, WatchedIsView
  <2>14. View(c)' = [v EXCEPT !.shown = Append(s, h[b.from + Len(s)])]
    <3>1. PICK x : x = Append(s, e.state)
      OBVIOUS
    <3>2. x = Append(s, h[b.from + Len(s)])
      BY <2>5, <2>8, <3>1
    <3>3. v = [task |-> b.task, from |-> b.from, shown |-> s]
      BY <2>10, <2>13
    <3>4. View(c)' = [task |-> b.task, from |-> b.from, shown |-> x]
      BY <2>10, <3>1
    <3>5. View(c)' = [v EXCEPT !.shown = x]
      BY <3>3, <3>4
    <3>. QED  BY <3>2, <3>5
  <2>15. Watched' = [Watched EXCEPT ![c] = [v EXCEPT !.shown = Append(s, h[b.from + Len(s)])]]
    BY <2>12, <2>14, OneSees
  <2>16. Watched' = [Watched EXCEPT ![c].shown = Append(@, history[v.task][v.from + Len(v.shown)])]
    BY <2>3, <2>13, <2>15
  <2>17. v.from + Len(v.shown) <= Len(history[v.task])
    BY <2>3, <2>5, <2>8, <2>13
  <2>. QED  BY <2>6, <2>13, <2>16, <2>17 DEF Abstract!Show
<1>. QED  BY <1>1, <1>2

LEMMA StepShows ==
    ASSUME WatchInv, [Next]_vars
    PROVE  [Abstract!Next]_<<history, Watched>>
<1>1. ASSUME NEW t \in Task, ServiceStep(t) PROVE Abstract!Next
  BY <1>1, SubmitShows, TransitionShows DEF ServiceStep, Abstract!Next
<1>2. ASSUME NEW c \in Connection, NEW t \in Task, Watch(c, t) PROVE Abstract!Next
  BY <1>2, WatchShows DEF Abstract!Next
<1>3. ASSUME NEW c \in Connection, Joined(c) \/ Send(c)
      PROVE  Abstract!Next \/ UNCHANGED <<history, Watched>>
  BY <1>3, JoinedShows, SendShows DEF Abstract!Next
<1>4. ASSUME NEW c \in Connection,
             Admit(c) \/ Unwatch(c) \/ Leave(c) \/ Disconnect(c) \/ Acknowledge(c) \/ JoinTimeout(c)
                \/ GiveUpJoin(c) \/ Check(c)
      PROVE  UNCHANGED <<history, Watched>>
  <2>1. UNCHANGED <<history, box, wire>>
    BY <1>4 DEF Admit, Unwatch, Leave, Disconnect, Acknowledge, JoinTimeout, GiveUpJoin, Check
  <2>. QED  BY <2>1, SameView, NothingSeen
\* The event in hand has left the mailbox, and the client has not seen it yet.
<1>5. ASSUME NEW c \in Connection, Get(c) PROVE UNCHANGED <<history, Watched>>
  <2>1. UNCHANGED <<history, wire>>
    BY <1>5 DEF Get
  <2>2. ASSUME NEW d \in Connection PROVE View(d)' = View(d)
    <3>1. box[c] # NoBox
      <4>1. sender[c] # Ended
        BY <1>5, SendersDiffer DEF Get
      <4>. QED  BY <4>1 DEF WatchInv, Threads
    <3>2. PICK b \in Watching : b = box[c]
      BY <3>1 DEF WatchInv, Types
    <3>3. box'[c] \in {b, [b EXCEPT !.events = Tail(b.events)]}
      BY <1>5, <3>2 DEF Get, WatchInv, Types
    <3>4. box'[c].task = b.task /\ box'[c].from = b.from /\ box'[c] # NoBox
      BY <3>3 DEF Watching, NoBox
    <3>5. d # c => box'[d] = box[d]
      BY <1>5 DEF Get, WatchInv, Types
    <3>. QED  BY <2>1, <3>1, <3>2, <3>4, <3>5, SameView
  <2>. QED  BY <2>1, <2>2, NothingSeen
<1>6. CASE ListenerStep \/ UNCHANGED vars
  <2>1. UNCHANGED <<history, box, wire>>
    BY <1>6 DEF ListenerStep, StopListener, CloseConnections, Down, vars
  <2>. QED  BY <2>1, SameView, NothingSeen
<1>. QED
  BY <1>1, <1>2, <1>3, <1>4, <1>5, <1>6
     DEF Next, ConnectionStep, SessionStep, SenderStep

\* The service with its threads, mailboxes and sockets implements the abstract watch.
THEOREM WatchRefinement == Spec => ShowsHistory
<1>1. Init => Abstract!Init
  BY InitShows
<1>2. WatchInv /\ [Next]_vars => [Abstract!Next]_<<history, Watched>>
  BY StepShows
<1>. QED  BY <1>1, <1>2, WatchInvariant, PTL DEF Spec, ShowsHistory, Abstract!Spec

-----------------------------------------------------------------------------
(* The two phases of a configuration reload, for any set of revisions and any
   number of edits, requests and failures. *)

Revisions == Valid \union Invalid \union {Config!Missing}
Changes == Seq([old : Valid, report : Valid \union {Config!NoReport}])

ConfigTypes ==
    /\ file \in Revisions /\ token \in Revisions
    /\ snapshot.revision \in Valid /\ requested \in BOOLEAN
    /\ live \in [1..4 -> Valid]
    /\ report \in Valid \union {Config!NoReport} /\ torn \in BOOLEAN
    /\ refresher \in [at : {"waiting", "ended"}] \union [at : {"building"}, settings : Valid]
    /\ watcher \in [at : {"starting", "waiting", "ended"}]
           \union [at : {"clearing", "probing"}, force : BOOLEAN]
           \union [at : {"reading"}, probed : Revisions]
           \union [at : {"preparing", "undoing"}, probed : Revisions,
                   candidate : Valid, changes : Changes]
           \union [at : {"undoing"}, probed : Revisions, changes : Changes]
           \union [at : {"committing"}, probed : Revisions, candidate : Valid,
                   changes : Changes, done : 0..4]

\* The settings of a subsystem are the published ones, or it is the embedder's and its
\* rollback has raised.
Own(r, s) == r = snapshot.revision \/ (s = 4 /\ torn)
Settled(s) == Own(live[s], s)

\* What the prepared changes would go back to is what is published, and the
\* subsystems that are not there yet, or there no more, are exactly those after done
\* in the commit and those the rollback has still to visit; but for a torn one.
Phases ==
    LET w == watcher
        Remembers ==
            /\ Len(w.changes) <= 4
            /\ \A i \in 1..Len(w.changes) : Own(w.changes[i].old, i)
    IN /\ w.at \notin {"committing", "undoing"} => \A s \in 1..4 : Settled(s)
       /\ w.at \in {"preparing", "committing", "undoing"} => Remembers
       /\ w.at = "committing" =>
              /\ Len(w.changes) = 4
              /\ \A s \in 1..4 : IF s <= w.done THEN live[s] = w.candidate ELSE Settled(s)
       /\ w.at = "undoing" =>
              \A s \in 1..4 : Len(w.changes) < s => Settled(s)

ConfigInv == ConfigTypes /\ Phases

LEMMA FourSubsystems ==
    DOMAIN Config!Subsystem = 1..4 /\ Len(Config!Subsystem) = 4 /\ Config!Embedded = 4
  BY DEF Config!Subsystem, Config!Embedded

LEMMA ConfigInitially == Config!Init => ConfigInv
<1>. SUFFICES ASSUME Config!Init PROVE ConfigInv
  OBVIOUS
<1>1. /\ file \in Valid /\ snapshot.revision = file /\ requested = FALSE
      /\ token \in Revisions /\ report \in Valid \union {Config!NoReport} /\ torn = FALSE
  BY DEF Config!Init, Config!ReportOf, Revisions
<1>2. live \in [1..4 -> Valid] /\ \A s \in 1..4 : live[s] = snapshot.revision
  BY <1>1, FourSubsystems DEF Config!Init
<1>3. watcher = [at |-> "starting"] /\ refresher = [at |-> "waiting"]
  BY DEF Config!Init, Config!Waiting
<1>. QED  BY <1>1, <1>2, <1>3 DEF ConfigInv, ConfigTypes, Phases, Settled, Own, Revisions

LEMMA ConfigQuiet ==
    ASSUME ConfigInv,
           \/ \E r \in Valid \union Invalid \union {Config!Missing} : Config!Edit(r)
           \/ Config!RequestReload \/ Config!Shutdown
           \/ Config!StartRefresh \/ Config!FinishRefresh
           \/ Config!Construct \/ Config!Look \/ Config!Clear \/ Config!Probe
    PROVE  ConfigInv'
<1>1. CASE \E r \in Valid \union Invalid \union {Config!Missing} : Config!Edit(r)
  BY <1>1 DEF Config!Edit, ConfigInv, ConfigTypes, Phases, Settled, Own, Revisions
<1>2. CASE Config!RequestReload \/ Config!Shutdown
  BY ZenonT(60), <1>2 DEF Config!RequestReload, Config!Shutdown, ConfigInv, ConfigTypes, Phases, Settled, Own, Revisions
<1>3. CASE Config!StartRefresh
  BY <1>3, FourSubsystems
     DEF Config!StartRefresh, Config!Analysis, Config!Ended, ConfigInv, ConfigTypes, Phases, Settled, Own
<1>4. CASE Config!FinishRefresh
  BY <1>4 DEF Config!FinishRefresh, Config!ReportOf, Config!Waiting, Config!Ended,
             ConfigInv, ConfigTypes, Phases, Settled, Own
<1>5. CASE Config!Construct
  BY <1>5 DEF Config!Construct, Config!Waiting, ConfigInv, ConfigTypes, Phases, Settled, Own
<1>6. CASE Config!Look
  BY <1>6 DEF Config!Look, Config!Waiting, Config!Ended, ConfigInv, ConfigTypes, Phases, Settled, Own
<1>7. CASE Config!Clear
  BY <1>7 DEF Config!Clear, Config!Waiting, ConfigInv, ConfigTypes, Phases, Settled, Own
<1>8. CASE Config!Probe
  BY <1>8 DEF Config!Probe, Config!Waiting, ConfigInv, ConfigTypes, Phases, Settled, Own
<1>. QED  BY <1>1, <1>2, <1>3, <1>4, <1>5, <1>6, <1>7, <1>8

LEMMA ConfigReads ==
    ASSUME ConfigInv, Config!Read
    PROVE  ConfigInv'
<1>1. /\ watcher.at = "reading" /\ watcher.probed \in Revisions
      /\ \A s \in 1..4 : Settled(s)
  BY DEF Config!Read, ConfigInv, ConfigTypes, Phases
<1>2. UNCHANGED <<file, snapshot, live, report, torn, requested, refresher>>
  BY DEF Config!Read
<1>3. token' \in Revisions
  BY DEF Config!Read, Config!TokenAfter, ConfigInv, ConfigTypes
<1>4. CASE watcher' = Config!Waiting
  BY <1>1, <1>2, <1>3, <1>4 DEF Config!Waiting, ConfigInv, ConfigTypes, Phases, Settled, Own
<1>5. CASE /\ Config!Parses(file)
           /\ watcher' = [at |-> "preparing", probed |-> watcher.probed,
                          candidate |-> file, changes |-> <<>>]
  <2>1. /\ watcher'.at = "preparing" /\ watcher'.changes = <<>>
        /\ watcher' \in [at : {"preparing", "undoing"}, probed : Revisions,
                         candidate : Valid, changes : Changes]
    BY <1>1, <1>5 DEF Config!Parses, Changes
  <2>2. ConfigTypes'
    BY <1>2, <1>3, <2>1 DEF ConfigInv, ConfigTypes
  <2>. QED  BY <1>1, <1>2, <2>1, <2>2 DEF ConfigInv, Phases, Settled, Own
<1>. QED  BY <1>4, <1>5 DEF Config!Read

LEMMA ConfigPrepares ==
    ASSUME ConfigInv, Config!Prepare
    PROVE  ConfigInv'
<1>1. /\ watcher.at = "preparing" /\ watcher.changes \in Changes
      /\ watcher \in [at : {"preparing", "undoing"}, probed : Revisions,
                      candidate : Valid, changes : Changes]
      /\ Len(watcher.changes) + 1 \in 1..4
      /\ \A s \in 1..4 : Settled(s)
      /\ \A i \in 1..Len(watcher.changes) : Own(watcher.changes[i].old, i)
  BY FourSubsystems DEF Config!Prepare, ConfigInv, ConfigTypes, Phases
<1>2. UNCHANGED <<file, snapshot, live, report, torn, token, requested, refresher>>
  BY DEF Config!Prepare
<1>3. CASE watcher' = [watcher EXCEPT !.changes =
               Append(@, [old |-> live[Len(watcher.changes) + 1], report |-> report])]
  <2> DEFINE was == watcher.changes
             change == [old |-> live[Len(was) + 1], report |-> report]
  <2>1. change \in [old : Valid, report : Valid \union {Config!NoReport}]
    BY <1>1 DEF ConfigInv, ConfigTypes
  <2>2. Own(change.old, Len(was) + 1)
    BY <1>1 DEF Settled
  <2>3. watcher'.at = "preparing" /\ watcher'.changes = Append(was, change)
    BY <1>1, <1>3
  <2>. HIDE DEF change
  <2>4. /\ Append(was, change) \in Changes /\ Len(Append(was, change)) = Len(was) + 1
        /\ \A i \in 1..Len(was) : Append(was, change)[i] = was[i]
        /\ Append(was, change)[Len(was) + 1] = change
    BY <1>1, <2>1 DEF Changes
  <2>5. \A i \in 1..Len(watcher'.changes) : Own(watcher'.changes[i].old, i)
    <3> TAKE i \in 1..Len(watcher'.changes)
    <3>1. i \in 1..Len(was) \/ i = Len(was) + 1
      BY <2>3, <2>4, <1>1 DEF Changes
    <3>. QED  BY <1>1, <2>2, <2>3, <2>4, <3>1
  <2>6. watcher' \in [at : {"preparing", "undoing"}, probed : Revisions,
                      candidate : Valid, changes : Changes]
    BY <1>1, <1>3, <2>3, <2>4
  <2>7. ConfigTypes'
    BY <1>2, <2>6 DEF ConfigInv, ConfigTypes
  <2>. QED  BY <1>1, <1>2, <2>3, <2>4, <2>5, <2>7 DEF ConfigInv, Phases, Settled, Own
<1>4. CASE watcher' = [watcher EXCEPT !.at = "undoing"]
  <2>1. /\ watcher'.at = "undoing" /\ watcher'.changes = watcher.changes
        /\ watcher' \in [at : {"preparing", "undoing"}, probed : Revisions,
                         candidate : Valid, changes : Changes]
    BY <1>1, <1>4
  <2>2. ConfigTypes'
    BY <1>2, <2>1 DEF ConfigInv, ConfigTypes
  <2>. QED  BY <1>1, <1>2, <2>1, <2>2 DEF ConfigInv, Phases, Settled, Own
<1>. QED  BY <1>3, <1>4 DEF Config!Prepare

LEMMA ConfigCommits ==
    ASSUME ConfigInv, Config!PrepareDone \/ Config!Commit \/ Config!PublishSnapshot
    PROVE  ConfigInv'
<1>1. CASE Config!PrepareDone
  <2>1. /\ watcher.at = "preparing" /\ watcher.changes \in Changes /\ Len(watcher.changes) = 4
        /\ watcher.probed \in Revisions /\ watcher.candidate \in Valid
    BY <1>1, FourSubsystems DEF Config!PrepareDone, ConfigInv, ConfigTypes
  <2>2. /\ watcher'.at = "committing" /\ watcher'.changes = watcher.changes /\ watcher'.done = 0
        /\ watcher' \in [at : {"committing"}, probed : Revisions, candidate : Valid,
                         changes : Changes, done : 0..4]
    BY <1>1, <2>1 DEF Config!PrepareDone
  <2>3. UNCHANGED <<file, snapshot, live, report, torn, token, requested, refresher>>
    BY <1>1 DEF Config!PrepareDone
  <2>4. ConfigTypes'
    BY <2>2, <2>3 DEF ConfigInv, ConfigTypes
  <2>5. /\ \A s \in 1..4 : Settled(s)'
        /\ \A i \in 1..4 : Own(watcher.changes[i].old, i)'
    BY <1>1, <2>1, <2>2, <2>3 DEF Config!PrepareDone, ConfigInv, Phases, Settled, Own
  <2>6. Len(watcher'.changes) = 4 /\ \A s \in 1..4 : ~(s <= watcher'.done)
    BY <2>1, <2>2
  <2>. QED  BY <2>2, <2>4, <2>5, <2>6 DEF ConfigInv, Phases
<1>2. CASE Config!Commit
  <2>1. /\ watcher.at = "committing" /\ watcher.done \in 0..4
        /\ watcher.probed \in Revisions /\ watcher.candidate \in Valid
        /\ watcher.changes \in Changes /\ Len(watcher.changes) = 4
        /\ watcher \in [at : {"committing"}, probed : Revisions, candidate : Valid,
                        changes : Changes, done : 0..4]
    BY <1>2 DEF Config!Commit, ConfigInv, ConfigTypes, Phases
  <2>2. UNCHANGED <<file, snapshot, torn, token, requested, refresher>> /\ watcher.done + 1 \in 1..4
    BY <1>2, FourSubsystems DEF Config!Commit
  <2>3. /\ \A s \in 1..4 : IF s <= watcher.done THEN live[s] = watcher.candidate ELSE Settled(s)
        /\ \A i \in 1..4 : Own(watcher.changes[i].old, i)
    BY <2>1 DEF ConfigInv, Phases
  <2>4. CASE /\ Config!Publish(watcher.done + 1, watcher.candidate,
                               Config!ReportOf(watcher.candidate))
             /\ watcher' = [watcher EXCEPT !.done = watcher.done + 1]
    <3>1. /\ watcher'.at = "committing" /\ watcher'.changes = watcher.changes
          /\ watcher'.candidate = watcher.candidate /\ watcher'.done = watcher.done + 1
          /\ watcher' \in [at : {"committing"}, probed : Revisions, candidate : Valid,
                           changes : Changes, done : 0..4]
      BY <2>1, <2>2, <2>4
    <3>2. live' = [live EXCEPT ![watcher.done + 1] = watcher.candidate]
             /\ report' \in Valid \union {Config!NoReport}
      BY <2>1, <2>4 DEF Config!Publish, Config!ReportOf, ConfigInv, ConfigTypes
    <3>3. ConfigTypes'
      BY <2>1, <2>2, <3>1, <3>2 DEF ConfigInv, ConfigTypes
    <3>4. \A s \in 1..4 : IF s <= watcher'.done THEN live'[s] = watcher'.candidate
                                                ELSE Settled(s)'
      <4>1. \A s \in 1..4 : live'[s] = IF s = watcher.done + 1 THEN watcher.candidate ELSE live[s]
        BY <3>2 DEF ConfigInv, ConfigTypes
      <4>2. \A s \in 1..4 : live'[s] = live[s] => Settled(s)' = Settled(s)
        BY <2>2 DEF Settled, Own
      <4>. QED  BY <2>1, <2>2, <2>3, <3>1, <4>1, <4>2
    <3>5. \A i \in 1..4 : Own(watcher.changes[i].old, i)'
      BY <2>2, <2>3, <3>1 DEF Own
    <3>. QED  BY <2>1, <2>2, <3>1, <3>3, <3>4, <3>5 DEF ConfigInv, Phases
  <2>5. CASE /\ watcher' = [at |-> "undoing", probed |-> watcher.probed,
                            changes |-> watcher.changes]
             /\ live' \in {live, [live EXCEPT ![watcher.done + 1] = watcher.candidate]}
             /\ UNCHANGED report
    <3>1. /\ watcher'.at = "undoing" /\ watcher'.changes = watcher.changes
          /\ watcher' \in [at : {"undoing"}, probed : Revisions, changes : Changes]
      BY <2>1, <2>5
    <3>2. live' \in [1..4 -> Valid]
      BY <2>1, <2>2, <2>5 DEF ConfigInv, ConfigTypes
    <3>3. ConfigTypes'
      BY <2>2, <2>5, <3>1, <3>2 DEF ConfigInv, ConfigTypes
    <3>4. Len(watcher'.changes) = 4 /\ \A s \in 1..4 : ~(Len(watcher'.changes) < s)
      <4>1. Len(watcher'.changes) = 4
        BY <2>1, <3>1
      <4>2. \A s \in 1..4 : ~(4 < s)
        OBVIOUS
      <4>. QED  BY <4>1, <4>2, Zenon
    <3>5. \A i \in 1..4 : Own(watcher.changes[i].old, i)'
      BY <2>2, <2>3, <3>1 DEF Own
    <3>. QED  BY <3>1, <3>3, <3>4, <3>5 DEF ConfigInv, Phases
  <2>. QED  BY <1>2, <2>4, <2>5 DEF Config!Commit
<1>3. CASE Config!PublishSnapshot
  <2>1. /\ watcher.at = "committing" /\ watcher.done = 4
        /\ watcher.probed \in Revisions /\ watcher.candidate \in Valid
    BY <1>3, FourSubsystems DEF Config!PublishSnapshot, ConfigInv, ConfigTypes
  <2>2. /\ UNCHANGED <<file, live, report, requested, refresher>> /\ torn' = FALSE
        /\ snapshot'.revision = watcher.candidate /\ watcher' = [at |-> "waiting"]
    BY <1>3 DEF Config!PublishSnapshot, Config!Waiting
  <2>3. token' \in Revisions
    BY <1>3, <2>1 DEF Config!PublishSnapshot, Config!TokenAfter, ConfigInv, ConfigTypes
  <2>4. \A s \in 1..4 : live[s] = watcher.candidate
    BY <2>1 DEF ConfigInv, Phases
  <2>5. \A s \in 1..4 : Settled(s)'
    BY <2>2, <2>4 DEF Settled, Own
  <2>. QED  BY <2>1, <2>2, <2>3, <2>5 DEF ConfigInv, ConfigTypes, Phases
<1>. QED  BY <1>1, <1>2, <1>3

LEMMA ConfigRollsBack ==
    ASSUME ConfigInv, Config!RollBack
    PROVE  ConfigInv'
<1>1. watcher.at = "undoing" /\ UNCHANGED <<file, snapshot, requested, refresher>>
  BY DEF Config!RollBack
<1>2. watcher.changes \in Changes /\ watcher.probed \in Revisions
  BY <1>1 DEF ConfigInv, ConfigTypes
<1>3. PICK n \in Nat : n = Len(watcher.changes)
  BY <1>2 DEF Changes
<1>4. /\ n <= 4
      /\ \A i \in 1..n : Own(watcher.changes[i].old, i)
      /\ \A s \in 1..4 : n < s => Settled(s)
  BY <1>1, <1>3, Zenon DEF ConfigInv, Phases
<1>5. watcher \in [at : {"preparing", "undoing"}, probed : Revisions,
                   candidate : Valid, changes : Changes]
               \union [at : {"undoing"}, probed : Revisions, changes : Changes]
  BY <1>1 DEF ConfigInv, ConfigTypes
\* A change is undone, or its rollback raises: either way it was the last of them.
<1>6. ASSUME n # 0,
             watcher' = [watcher EXCEPT !.changes = SubSeq(watcher.changes, 1, n - 1)],
             live' \in [1..4 -> Valid], report' \in Valid \union {Config!NoReport},
             torn' \in BOOLEAN, torn => torn', token' = token,
             \A s \in 1..4 : s # n => live'[s] = live[s],
             Settled(n)'
      PROVE  ConfigInv'
  <2> DEFINE left == SubSeq(watcher.changes, 1, n - 1)
  <2>1. n \in 1..4
    BY <1>4, <1>6
  <2>2. /\ left \in Changes /\ Len(left) = n - 1 /\ \A i \in 1..n - 1 : left[i] = watcher.changes[i]
    <3>. DEFINE Change == [old : Valid, report : Valid \union {Config!NoReport}]
    <3>1. \A i \in 1..n - 1 : i \in 1..n
      BY <2>1
    <3>2. \A i \in 1..n : watcher.changes[i] \in Change
      BY <1>2, <1>3, ElementOfSeq DEF Changes
    <3>3. 1 \in Int /\ n - 1 \in Int
      BY <2>1
    <3>. HIDE DEF Change
    <3>4. /\ left \in Seq(Change)
          /\ Len(left) = IF 1 <= n - 1 THEN (n - 1) - 1 + 1 ELSE 0
          /\ \A i \in 1..(n - 1) - 1 + 1 : left[i] = watcher.changes[1 + i - 1]
      BY <3>1, <3>2, <3>3, SubSeqProperties
    <3>5. (n - 1) - 1 + 1 = n - 1 /\ (IF 1 <= n - 1 THEN n - 1 ELSE 0) = n - 1
             /\ \A i \in 1..n - 1 : 1 + i - 1 = i
      BY <2>1
    <3>. QED  BY <3>4, <3>5 DEF Changes, Change
  <2>3. watcher' = [watcher EXCEPT !.changes = left]
    BY <1>6
  <2>. HIDE DEF left
  <2>4. watcher'.at = "undoing" /\ watcher'.changes = left
    BY <1>1, <1>5, <2>3
  <2>5. watcher' \in [at : {"preparing", "undoing"}, probed : Revisions,
                      candidate : Valid, changes : Changes]
                 \union [at : {"undoing"}, probed : Revisions, changes : Changes]
    BY <1>5, <2>2, <2>3
  <2>6. ConfigTypes'
    BY <1>1, <1>6, <2>5 DEF ConfigInv, ConfigTypes
  <2>7. \A s \in 1..4 : Len(watcher'.changes) < s => Settled(s)'
    <3>1. \A s \in 1..4 : s # n /\ Settled(s) => Settled(s)'
      BY <1>1, <1>6 DEF Settled, Own
    <3>2. \A s \in 1..4 : n - 1 < s => s = n \/ (s # n /\ n < s)
      BY <2>1
    <3>. QED  BY <1>4, <1>6, <2>2, <2>4, <3>1, <3>2, Zenon
  <2>8. /\ Len(watcher'.changes) <= 4
        /\ \A i \in 1..Len(watcher'.changes) : Own(watcher.changes[i].old, i)'
    <3>1. n - 1 <= 4 /\ \A i \in 1..n - 1 : i \in 1..n
      BY <2>1
    <3>2. \A i \in 1..n - 1 : Own(watcher.changes[i].old, i)'
      BY <1>1, <1>4, <1>6, <3>1 DEF Own
    <3>3. \A i \in 1..n - 1 : left[i].old = watcher.changes[i].old
      BY <2>2
    <3>4. ASSUME NEW i \in 1..n - 1 PROVE Own(watcher.changes[i].old, i)'
      <4>1. watcher'.changes[i].old = watcher.changes[i].old
        BY <2>4, <3>3
      <4>2. watcher.changes[i].old = snapshot.revision \/ (i = 4 /\ torn)
        BY <1>4, <3>1 DEF Own
      <4>. QED  BY <1>1, <1>6, <4>1, <4>2 DEF Own
    <3>. QED  BY <2>2, <2>4, <3>1, <3>4
  <2>. QED  BY <2>4, <2>6, <2>7, <2>8 DEF ConfigInv, Phases
<1>7. CASE /\ watcher.changes # <<>>
           /\ Config!Publish(n, watcher.changes[n].old, watcher.changes[n].report)
           /\ watcher' = [watcher EXCEPT !.changes = Config!StillToUndo(@, FALSE)]
           /\ UNCHANGED <<token, torn>>
  <2>1. n \in 1..4
    <3>1. n # 0
      BY <1>2, <1>3, <1>7 DEF Changes
    <3>. QED  BY <1>4, <3>1
  <2>2. watcher.changes[n] \in [old : Valid, report : Valid \union {Config!NoReport}]
    <3>1. n \in 1..Len(watcher.changes)
      BY <1>3, <2>1
    <3>. QED  BY <1>2, <3>1, ElementOfSeq DEF Changes
  <2>3. live' = [live EXCEPT ![n] = watcher.changes[n].old]
    BY <1>7 DEF Config!Publish
  <2>4. live' \in [1..4 -> Valid] /\ \A s \in 1..4 : s # n => live'[s] = live[s]
    BY <2>1, <2>2, <2>3 DEF ConfigInv, ConfigTypes
  <2>5. Settled(n)'
    <3>1. live'[n] = watcher.changes[n].old
      BY <2>1, <2>3 DEF ConfigInv, ConfigTypes
    <3>2. Own(watcher.changes[n].old, n)
      BY <1>4, <2>1
    <3>. QED  BY <1>1, <1>7, <3>1, <3>2 DEF Settled, Own
  <2>6. report' \in Valid \union {Config!NoReport}
    BY <1>7, <2>2 DEF Config!Publish, ConfigInv, ConfigTypes
  <2>7. watcher' = [watcher EXCEPT !.changes = SubSeq(watcher.changes, 1, n - 1)]
    BY <1>3, <1>7 DEF Config!StillToUndo
  <2>8. torn' \in BOOLEAN /\ (torn => torn') /\ token' = token /\ n # 0
    BY <1>7, <2>1 DEF ConfigInv, ConfigTypes
  <2>. QED  BY <1>6, <2>4, <2>5, <2>6, <2>7, <2>8
<1>8. CASE /\ n = Config!Embedded
           /\ torn' = TRUE
           /\ watcher' = [watcher EXCEPT !.changes = Config!StillToUndo(@, TRUE)]
           /\ UNCHANGED <<live, report, token>>
  <2>1. n = 4 /\ n # 0
    BY <1>8, FourSubsystems
  <2>2. watcher' = [watcher EXCEPT !.changes = SubSeq(watcher.changes, 1, n - 1)]
    BY <1>3, <1>8 DEF Config!StillToUndo
  <2>3. Settled(n)' /\ torn' \in BOOLEAN /\ (torn => torn')
    BY <1>8, <2>1 DEF Settled, Own
  <2>4. /\ live' \in [1..4 -> Valid] /\ report' \in Valid \union {Config!NoReport}
        /\ token' = token /\ \A s \in 1..4 : s # n => live'[s] = live[s]
    BY <1>8 DEF ConfigInv, ConfigTypes
  <2>. QED  BY <1>6, <2>1, <2>2, <2>3, <2>4
<1>9. CASE /\ watcher.changes = <<>>
           /\ watcher' = Config!Waiting /\ token' = Config!TokenAfter(watcher.probed, FALSE)
           /\ UNCHANGED <<live, report, torn>>
  <2>1. /\ watcher' = [at |-> "waiting"] /\ token' \in Revisions
    BY <1>2, <1>9 DEF Config!Waiting, Config!TokenAfter, ConfigInv, ConfigTypes
  <2>2. \A s \in 1..4 : Settled(s)'
    <3>1. n = 0
      BY <1>3, <1>9
    <3>2. \A s \in 1..4 : Settled(s)
      BY <1>4, <3>1
    <3>. QED  BY <1>1, <1>9, <3>2 DEF Settled, Own
  <2>3. UNCHANGED <<live, report, torn>>
    BY <1>9
  <2>4. ConfigTypes'
    BY <1>1, <2>1, <2>3 DEF ConfigInv, ConfigTypes
  <2>. QED  BY <2>1, <2>2, <2>4 DEF ConfigInv, Phases
<1>. QED  BY <1>3, <1>7, <1>8, <1>9 DEF Config!RollBack

\* Outside of the two phases the subsystems run with the published settings, whatever
\* is edited and requested and whichever calls raise; only the embedder's subsystem may
\* be left behind, by a rollback of its own that raised and until the next reload.
THEOREM PublishedTogetherAlways == Config!Spec => []PublishedTogether
<1>1. Config!Init => ConfigInv
  BY ConfigInitially
<1>2. ConfigInv /\ [Config!Next]_(Config!vars) => ConfigInv'
  <2>. SUFFICES ASSUME ConfigInv, [Config!Next]_(Config!vars) PROVE ConfigInv'
    OBVIOUS
  <2>1. CASE UNCHANGED Config!vars
    BY <2>1 DEF Config!vars, ConfigInv, ConfigTypes, Phases, Settled, Own
  <2>2. CASE Config!Next
    BY <2>2, ConfigQuiet, ConfigReads, ConfigPrepares, ConfigCommits, ConfigRollsBack
       DEF Config!Next, Config!WatcherStep, Config!RefresherStep
  <2>. QED  BY <2>1, <2>2
<1>3. ConfigInv => PublishedTogether
  BY FourSubsystems
     DEF ConfigInv, Phases, Settled, Own, PublishedTogether, Config!PublishedTogether
<1>. QED  BY <1>1, <1>2, <1>3, PTL DEF Config!Spec
=============================================================================
