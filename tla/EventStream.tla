------------------------------ MODULE EventStream ------------------------------
(* The event stream of lab 21: a broker that keeps all events, one session per
   connection with replay, keepalive and the expiry of its token, and a bounded
   outbound queue.  Publishing and every callback it makes are one step.  A client
   applies the frames it drains and reconnects after the last one it applied. *)
EXTENDS Integers, Sequences

CONSTANTS Client, OutboundLimit, IdleInterval, TokenLife,
          MaxEvents, MaxTime    \* bounds

VARIABLES clock, published,     \* events 1 to published
          session,              \* each client's connection and session
          applied               \* the events each client has applied
vars == <<clock, published, session, applied>>

\* A closed connection keeps the frames it had queued.
Closed(frames, code) == [open |-> FALSE, frames |-> frames, code |-> code]

Init ==
    /\ clock = 0
    /\ published = 0
    /\ session = [c \in Client |-> Closed(<<>>, 0)]
    /\ applied = [c \in Client |-> <<>>]

Event(n) == [type |-> "event", n |-> n]
Ping(n) == [type |-> "ping", n |-> n]

\* _send_frame: a full queue closes the session as slow, otherwise it counts as sent.
Sent(s, frame) ==
    IF Len(s.frames) >= OutboundLimit THEN Closed(s.frames, 4002)
    ELSE [s EXCEPT !.frames = Append(@, frame), !.sentAt = clock]

\* _deliver moves last before it sends.
Delivered(s, n) == Sent([s EXCEPT !.last = n], Event(n))

\* Replaying into a connection that a full queue has closed raises in the constructor;
\* the frames queued so far stay.
Replay(s, from, to) ==
    LET after[n \in from..to] ==
            IF n = from THEN s
            ELSE IF after[n - 1].open THEN Delivered(after[n - 1], n) ELSE after[n - 1]
    IN after[to]

BugResumesFromNow(c) == published
ResumeAfter(c) == Len(applied[c])

\* A token that has already expired is refused before any replay.
Connect(c, expires) ==
    /\ ~session[c].open
    /\ session' = [session EXCEPT ![c] =
          IF expires <= clock THEN Closed(<<>>, 4001)
          ELSE Replay([open |-> TRUE, frames |-> <<>>, expires |-> expires, sentAt |-> clock,
                       last |-> ResumeAfter(c)], ResumeAfter(c), published)]
    /\ UNCHANGED <<clock, published, applied>>

\* Open sessions are the broker's subscribers.
Publish ==
    /\ published < MaxEvents
    /\ published' = published + 1
    /\ session' = [c \in Client |-> IF session[c].open THEN Delivered(session[c], published + 1)
                                    ELSE session[c]]
    /\ UNCHANGED <<clock, applied>>

Tick(c) ==
    /\ session[c].open
    /\ \/ session[c].expires <= clock
       \/ clock - session[c].sentAt >= IdleInterval
    /\ session' = [session EXCEPT ![c] =
          IF @.expires <= clock THEN Closed(@.frames, 4001) ELSE Sent(@, Ping(@.last))]
    /\ UNCHANGED <<clock, published, applied>>

CloseForRestart(c) ==
    /\ session[c].open
    /\ session' = [session EXCEPT ![c] = Closed(@.frames, 1001)]
    /\ UNCHANGED <<clock, published, applied>>

Events(frames) ==
    LET until[i \in 0..Len(frames)] ==
            IF i = 0 THEN <<>>
            ELSE IF frames[i].type = "event" THEN Append(until[i - 1], frames[i].n)
            ELSE until[i - 1]
    IN until[Len(frames)]

\* What a client never drains before it reconnects is lost with the connection.
Drain(c) ==
    /\ session[c].frames # <<>>
    /\ applied' = [applied EXCEPT ![c] = @ \o Events(session[c].frames)]
    /\ session' = [session EXCEPT ![c].frames = <<>>]
    /\ UNCHANGED <<clock, published>>

Advance ==
    /\ clock < MaxTime
    /\ clock' = clock + 1
    /\ UNCHANGED <<published, session, applied>>

Next ==
    \/ Publish \/ Advance
    \/ \E c \in Client :
          \/ Connect(c, clock) \/ Connect(c, clock + TokenLife)
          \/ Tick(c) \/ CloseForRestart(c) \/ Drain(c)

Spec == Init /\ [][Next]_vars

-----------------------------------------------------------------------------

\* However connections fill up, expire, restart and are replaced: a client applies every
\* event once and in order, an open session has queued all that was published, and a
\* ping names the last event before it.
StreamContinuous ==
    \A c \in Client :
        LET s == session[c]
            all == applied[c] \o Events(s.frames)
        IN /\ all = [i \in DOMAIN all |-> i]
           /\ s.open => Len(all) = published /\ s.last = published
           /\ \A i \in DOMAIN s.frames : s.frames[i].type = "ping" =>
                 s.frames[i].n = Len(applied[c]) + Len(Events(SubSeq(s.frames, 1, i)))
=============================================================================
