----------------------------- MODULE EchoService -----------------------------
(* The echo servers of lab 12: EchoServer with its accept thread, a thread for every
   connection and close() from a third one, and DatagramEchoServer with a client that
   sends again when no answer came in time.  Bytes of a connection are counted, as TCP
   keeps their order; datagrams are numbered by the exchange they belong to. *)
EXTENDS Integers, Sequences, FiniteSets

CONSTANTS Conn, ReadSize, Buffer,       \* Buffer: what TCP holds for a client that does not read
          MaxBytes,                     \* bound on what each client sends
          MaxAttempts, MaxExchanges     \* max_attempts, and a bound

VARIABLES
    stop,       \* _stop_requested
    listener,   \* [open: the socket, set: is self._listener still set?, backlog]
    acceptor,   \* the accept thread, with the connection in its hands
    conn,       \* what each client sent, was sent back, and received
    sock,       \* the server's socket of each connection
    handler,    \* each connection's thread
    known,      \* _clients and _client_threads
    closer      \* the thread in close(), with what it took from the sets
tcpVars == <<stop, listener, acceptor, conn, sock, handler, known, closer>>

VARIABLES dropFirst, serving, requests, replies, exchange, answers
udpVars == <<dropFirst, serving, requests, replies, exchange, answers>>
vars == <<tcpVars, udpVars>>

Nobody == "nobody"
Smaller(a, b) == IF a < b THEN a ELSE b

ConnectionsInit ==
    /\ stop = FALSE
    /\ listener = [open |-> FALSE, set |-> FALSE, backlog |-> {}]
    /\ acceptor = [at |-> "new", conn |-> Nobody]
    /\ conn = [k \in Conn |-> [at |-> "new", sent |-> 0, read |-> 0, echoed |-> 0, got |-> 0]]
    /\ sock = [k \in Conn |-> "none"]
    /\ handler = [k \in Conn |-> [at |-> "new", left |-> 0]]
    /\ known = [clients |-> {}, threads |-> {}]
    /\ closer = [at |-> "idle", clients |-> {}, threads |-> {}]

-----------------------------------------------------------------------------
(* Clients. *)

Others == UNCHANGED <<stop, acceptor, handler, sock, known, closer>>

Connect(k) ==
    /\ conn[k].at = "new" /\ listener.open
    /\ conn' = [conn EXCEPT ![k].at = "open"]
    /\ listener' = [listener EXCEPT !.backlog = @ \cup {k}]
    /\ Others
SendBytes(k) ==
    /\ conn[k].at = "open" /\ conn[k].sent < MaxBytes[k] /\ sock[k] # "closed"
    /\ conn' = [conn EXCEPT ![k].sent = @ + 1] /\ UNCHANGED listener /\ Others
ShutdownWrite(k) ==
    /\ conn[k].at = "open" /\ conn' = [conn EXCEPT ![k].at = "half"] /\ UNCHANGED listener /\ Others
Receive(k) ==
    /\ conn[k].at \in {"open", "half"} /\ conn[k].got < conn[k].echoed
    /\ conn' = [conn EXCEPT ![k].got = conn[k].echoed] /\ UNCHANGED listener /\ Others
CloseClient(k) ==
    /\ conn[k].at \in {"open", "half"} /\ conn' = [conn EXCEPT ![k].at = "closed"]
    /\ UNCHANGED listener /\ Others

-----------------------------------------------------------------------------
(* start and _accept_loop. *)

Start ==
    /\ acceptor.at = "new"
    /\ listener' = [open |-> TRUE, set |-> TRUE, backlog |-> {}]
    /\ acceptor' = [acceptor EXCEPT !.at = "check"]
    /\ UNCHANGED <<stop, conn, sock, handler, known, closer>>

\* The loop reads self._listener after it looked at the event: close() may have cleared it,
\* and the AttributeError ends the thread.
CheckStop ==
    /\ acceptor.at = "check"
    /\ acceptor' = [acceptor EXCEPT !.at = IF stop THEN "ended" ELSE "reading"]
    /\ UNCHANGED <<stop, listener, conn, sock, handler, known, closer>>
ReadListener ==
    /\ acceptor.at = "reading"
    /\ acceptor' = [acceptor EXCEPT !.at = IF listener.set THEN "accepting" ELSE "ended"]
    /\ UNCHANGED <<stop, listener, conn, sock, handler, known, closer>>

Accept ==
    /\ acceptor.at = "accepting"
    /\ \/ /\ ~listener.open /\ acceptor' = [acceptor EXCEPT !.at = "ended"]
          /\ UNCHANGED <<listener, sock>>
       \/ acceptor' = [acceptor EXCEPT !.at = "check"] /\ UNCHANGED <<listener, sock>>
       \/ \E k \in listener.backlog :
             /\ listener.open
             /\ acceptor' = [at |-> "accepted", conn |-> k]
             /\ listener' = [listener EXCEPT !.backlog = @ \ {k}]
             /\ sock' = [sock EXCEPT ![k] = "open"]
    /\ UNCHANGED <<stop, conn, handler, known, closer>>

\* The sets are filled under the lock; the thread starts after it.
Register ==
    /\ acceptor.at = "accepted"
    /\ known' = [clients |-> known.clients \cup {acceptor.conn},
                 threads |-> known.threads \cup {acceptor.conn}]
    /\ acceptor' = [acceptor EXCEPT !.at = "registered"]
    /\ UNCHANGED <<stop, listener, conn, sock, handler, closer>>
StartHandler ==
    /\ acceptor.at = "registered"
    /\ handler' = [handler EXCEPT ![acceptor.conn].at = "check"]
    /\ acceptor' = [at |-> "check", conn |-> Nobody]
    /\ UNCHANGED <<stop, listener, conn, sock, known, closer>>

-----------------------------------------------------------------------------
(* _handle_client *)

Goes(k, at) == handler' = [handler EXCEPT ![k].at = at]
Unread(k) == conn[k].sent - conn[k].read

Handle(k) ==
    /\ \/ handler[k].at = "check" /\ Goes(k, IF stop THEN "leaving" ELSE "recv") /\ UNCHANGED conn
       \/ /\ handler[k].at = "recv"
          /\ \/ Goes(k, "check") /\ UNCHANGED conn                          \* TimeoutError
             \/ /\ sock[k] = "closed" \/ conn[k].at = "closed"              \* OSError
                /\ Goes(k, "leaving") /\ UNCHANGED conn
             \/ /\ Unread(k) = 0 /\ conn[k].at # "open"                     \* no chunk
                /\ Goes(k, "leaving") /\ UNCHANGED conn
             \/ \E size \in 1..Smaller(Unread(k), ReadSize) :
                   /\ sock[k] = "open"
                   /\ handler' = [handler EXCEPT ![k] = [at |-> "sending", left |-> size]]
                   /\ conn' = [conn EXCEPT ![k].read = @ + size]
    /\ UNCHANGED <<stop, listener, acceptor, sock, known, closer>>

\* A send takes as much as there is room for, and times out when there is none.
Send(k) ==
    /\ handler[k].at = "sending"
    /\ \/ \E size \in 1..Smaller(handler[k].left, Buffer - (conn[k].echoed - conn[k].got)) :
             /\ sock[k] = "open"
             /\ conn' = [conn EXCEPT ![k].echoed = @ + size]
             /\ handler' = [handler EXCEPT ![k] =
                   [at |-> IF @.left = size THEN "check" ELSE "sending", left |-> @.left - size]]
       \/ /\ sock[k] = "closed" \/ conn[k].at = "closed" \/ conn[k].echoed - conn[k].got = Buffer
          /\ Goes(k, "leaving") /\ UNCHANGED conn
    /\ UNCHANGED <<stop, listener, acceptor, sock, known, closer>>

Leave(k) ==
    /\ handler[k].at = "leaving" /\ Goes(k, "closing")
    /\ known' = [clients |-> known.clients \ {k}, threads |-> known.threads \ {k}]
    /\ UNCHANGED <<stop, listener, acceptor, conn, sock, closer>>
End(k) ==
    /\ handler[k].at = "closing" /\ Goes(k, "ended")
    /\ sock' = [sock EXCEPT ![k] = "closed"]
    /\ UNCHANGED <<stop, listener, acceptor, conn, known, closer>>

-----------------------------------------------------------------------------
(* close *)

Closes(from, to) == closer.at = from /\ closer' = [closer EXCEPT !.at = to]

RequestStop ==
    /\ acceptor.at # "new" /\ Closes("idle", "stopping") /\ stop' = TRUE
    /\ UNCHANGED <<listener, acceptor, conn, sock, handler, known>>
CloseListener ==
    /\ \/ /\ Closes("stopping", "clearing")
          /\ listener' = [listener EXCEPT !.open = FALSE, !.backlog = {}]
       \/ Closes("clearing", "taking") /\ listener' = [listener EXCEPT !.set = FALSE]
    /\ UNCHANGED <<stop, acceptor, conn, sock, handler, known>>
TakeKnown ==
    /\ closer.at = "taking"
    /\ closer' = [at |-> "clients", clients |-> known.clients, threads |-> known.threads]
    /\ UNCHANGED <<stop, listener, acceptor, conn, sock, handler, known>>
CloseClients ==
    /\ closer.at = "clients"
    /\ IF closer.clients = {} THEN closer' = [closer EXCEPT !.at = "acceptor"] /\ UNCHANGED sock
       ELSE \E k \in closer.clients : /\ sock' = [sock EXCEPT ![k] = "closed"]
                                      /\ closer' = [closer EXCEPT !.clients = @ \ {k}]
    /\ UNCHANGED <<stop, listener, acceptor, conn, handler, known>>

\* A join gives up after a second only on a thread that waits in accept, recv or send.
JoinAcceptor ==
    /\ acceptor.at \in {"ended", "accepting"} /\ Closes("acceptor", "threads")
    /\ UNCHANGED <<stop, listener, acceptor, conn, sock, handler, known>>
JoinThreads ==
    /\ closer.at = "threads"
    /\ IF closer.threads = {} THEN closer' = [closer EXCEPT !.at = "closed"]
       ELSE \E k \in closer.threads :
            \/ handler[k].at = "new" /\ closer' = [closer EXCEPT !.at = "raised"]
            \/ /\ handler[k].at \in {"ended", "recv", "sending"}
               /\ closer' = [closer EXCEPT !.threads = @ \ {k}]
    /\ UNCHANGED <<stop, listener, acceptor, conn, sock, handler, known>>

Server == \/ CheckStop \/ ReadListener \/ Accept \/ Register \/ StartHandler
          \/ \E k \in Conn : Handle(k) \/ Send(k) \/ Leave(k) \/ End(k)
          \/ CloseListener \/ TakeKnown \/ CloseClients \/ JoinAcceptor \/ JoinThreads

Connections ==
    /\ \/ \E k \in Conn : \/ Connect(k) \/ SendBytes(k) \/ ShutdownWrite(k) \/ Receive(k)
                          \/ CloseClient(k)
       \/ Start \/ RequestStop \/ Server
    /\ UNCHANGED udpVars

-----------------------------------------------------------------------------
(* DatagramEchoServer and DatagramEchoClient over a network that loses datagrams. *)

DatagramsInit ==
    /\ dropFirst \in BOOLEAN /\ serving = TRUE
    /\ requests = <<>> /\ replies = <<>> /\ answers = <<>>
    /\ exchange = [number |-> 0, attempt |-> 0]

\* exchange: the first send, or one more when no answer came in time.
SendRequest ==
    /\ \/ /\ exchange.attempt = 0 /\ exchange.number < MaxExchanges
          /\ exchange' = [number |-> exchange.number + 1, attempt |-> 1]
       \/ /\ exchange.attempt \in 1..(MaxAttempts - 1) /\ replies = <<>>
          /\ exchange' = [exchange EXCEPT !.attempt = @ + 1]
    /\ requests' = Append(requests, exchange'.number)
    /\ UNCHANGED <<dropFirst, serving, replies, answers>>
Outcome(response) ==
    /\ answers' = Append(answers, [response |-> response, attempts |-> exchange.attempt])
    /\ exchange' = [exchange EXCEPT !.attempt = 0]
    /\ UNCHANGED <<dropFirst, serving, requests>>
ReceiveReply ==
    /\ exchange.attempt > 0 /\ replies # <<>>
    /\ Outcome(Head(replies)) /\ replies' = Tail(replies)
GiveUp == /\ exchange.attempt = MaxAttempts /\ replies = <<>>
          /\ Outcome(0) /\ UNCHANGED replies
\* The kernel tells a client that nobody listens, before it hands over what has arrived.
Unreachable == ~serving /\ exchange.attempt > 0 /\ Outcome(0) /\ UNCHANGED replies

Serve ==
    /\ serving /\ requests # <<>>
    /\ requests' = Tail(requests)
    /\ replies' = IF dropFirst THEN replies ELSE Append(replies, Head(requests))
    /\ dropFirst' = FALSE
    /\ UNCHANGED <<serving, exchange, answers>>
StopServing == serving /\ serving' = FALSE
               /\ UNCHANGED <<dropFirst, requests, replies, exchange, answers>>
Lose == /\ \/ requests # <<>> /\ requests' = Tail(requests) /\ UNCHANGED replies
           \/ replies # <<>> /\ replies' = Tail(replies) /\ UNCHANGED requests
        /\ UNCHANGED <<dropFirst, serving, exchange, answers>>

Datagrams ==
    /\ SendRequest \/ ReceiveReply \/ GiveUp \/ Unreachable \/ Serve \/ StopServing \/ Lose
    /\ UNCHANGED tcpVars

Init == ConnectionsInit /\ DatagramsInit
Next == Connections \/ Datagrams

-----------------------------------------------------------------------------

\* A connection whose client has sent all it had ends with everything echoed, unless the
\* server was closed or the client did not read.
EchoWhole ==
    \A k \in Conn : handler[k].at = "ended" /\ handler[k].left = 0 /\ ~stop /\ conn[k].at = "half"
        => conn[k].echoed = conn[k].sent

\* close() joins no thread that was not started, and when no thread has anything left to do
\* after it, all have ended and their sockets are closed.
CloseSettles ==
    /\ closer.at # "raised"
    /\ closer.at = "closed" /\ ~ENABLED Server =>
          /\ acceptor.at = "ended" /\ known.clients = {}
          /\ \A k \in Conn : sock[k] # "open" /\ handler[k].at \in {"new", "ended"}

\* Nothing in a datagram names its exchange, so that an answer that comes too late is taken
\* for a later exchange's.  What holds of any answers: they are taken in the order of the
\* exchanges they belong to, after their requests, and each request is answered once at
\* most; an exchange that was sent once and had its own answer disturbs no later one.
AnswersInTurn ==
    LET taken(m) == {n \in DOMAIN answers : answers[n].response = m}
    IN \A n \in DOMAIN answers :
          /\ answers[n].response <= n
          /\ Cardinality(taken(n)) <= answers[n].attempts
          /\ \A m \in 1..n : answers[n].response # 0 => answers[m].response <= answers[n].response

EchoRight == EchoWhole /\ CloseSettles /\ AnswersInTurn
=============================================================================
