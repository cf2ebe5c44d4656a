----------------------------- MODULE FrameReader -----------------------------
(***************************************************************************)
(* The framing of labs/16-framed-protocol: send_frame over a writer that   *)
(* takes a part of what it is given, a stream that arrives in chunks of    *)
(* any size, and IncrementalFrameReader over its BoundedRingBuffer.  A     *)
(* header is the length of the payload, big-endian, in HeaderSize digits.  *)
(***************************************************************************)
EXTENDS Integers, SequencesExt

CONSTANTS
    HeaderSize,   \* HEADER_SIZE
    Base,         \* values of a byte
    MaxSize,      \* maximum_frame_size of the reader; the sender's may be larger
    Capacities,   \* the capacities a reader is made with
    Payload,      \* the payloads sent, sequences of bytes
    MaxFrames     \* bound on the frames of a stream

VARIABLES
    outgoing,     \* send_frame: what is left of the frame
    sent,         \* the payloads whose sending has begun
    closed,       \* the sender has ended
    wire,         \* bytes on their way
    fed,          \* ghost: how many bytes the reader was given
    buffer,       \* the reader's ring: storage, head and size
    received,     \* the frames that feed and finish returned
    outcome       \* how the reader ended

vars == <<outgoing, sent, closed, wire, fed, buffer, received, outcome>>

Digits(n) == [i \in 1..HeaderSize |-> (n \div Base ^ (HeaderSize - i)) % Base]

Number(digits) == FoldLeft(LAMBDA n, d : n * Base + d, 0, digits)

EncodeFrame(payload) == Digits(Len(payload)) \o payload

-----------------------------------------------------------------------------
(* BoundedRingBuffer.                                                      *)

Capacity(b) == Len(b.storage)
Free(b) == Capacity(b) - b.size
Smaller(a, b) == IF a < b THEN a ELSE b

\* The data behind the tail up to the end of the storage, the rest from its start.
Write(b, raw) ==
    LET tail == (b.head + b.size) % Capacity(b)
        first == Smaller(Len(raw), Capacity(b) - tail)
    IN [b EXCEPT
            !.storage = [i \in DOMAIN @ |->
                CASE i \in tail + 1..tail + first -> raw[i - tail]
                  [] i \in 1..Len(raw) - first -> raw[first + i]
                  [] OTHER -> @[i]],
            !.size = @ + Len(raw)]

Peek(b, size) ==
    LET first == Smaller(size, Capacity(b) - b.head)
    IN [i \in 1..size |-> b.storage[IF i <= first THEN b.head + i ELSE i - first]]

\* An empty buffer starts over at the front.
Dropped(b, size) ==
    [b EXCEPT !.head = IF b.size = size THEN 0 ELSE (@ + size) % Capacity(b),
              !.size = @ - size]

-----------------------------------------------------------------------------
(* IncrementalFrameReader.                                                 *)

\* A mutant: a frame that is just complete waits for another byte.
BugIncomplete(b, frameSize) == b.size <= frameSize

Incomplete(b, frameSize) == b.size < frameSize

\* _drain_frames: every complete frame, or the refusal of a length beyond the maximum.
RECURSIVE Drain(_, _)
Drain(b, frames) ==
    LET length == Number(Peek(b, HeaderSize))
        payload == Dropped(b, HeaderSize)
    IN IF b.size < HeaderSize THEN [buffer |-> b, frames |-> frames, error |-> "none"]
       ELSE IF length > MaxSize THEN [buffer |-> b, frames |-> frames, error |-> "too large"]
       ELSE IF Incomplete(b, HeaderSize + length)
       THEN [buffer |-> b, frames |-> frames, error |-> "none"]
       ELSE Drain(Dropped(payload, length), Append(frames, Peek(payload, length)))

\* feed: the ring takes what it has room for, then gives up what is complete.
RECURSIVE Feed(_, _, _)
Feed(b, remaining, frames) ==
    IF remaining = <<>> THEN [buffer |-> b, frames |-> frames, error |-> "none"]
    ELSE LET room == IF Free(b) = 0 THEN Drain(b, <<>>)
                     ELSE [buffer |-> b, frames |-> <<>>, error |-> "none"]
             accepted == Smaller(Len(remaining), Free(room.buffer))
             after == Drain(Write(room.buffer, SubSeq(remaining, 1, accepted)), frames \o room.frames)
         IN IF room.error # "none" THEN room
            ELSE IF Free(b) = 0 /\ room.frames = <<>> THEN [room EXCEPT !.error = "full"]
            ELSE IF after.error # "none" THEN after
            ELSE Feed(after.buffer, SubSeq(remaining, accepted + 1, Len(remaining)), after.frames)

-----------------------------------------------------------------------------

Init ==
    /\ outgoing = <<>>
    /\ sent = <<>>
    /\ closed = FALSE
    /\ wire = <<>>
    /\ fed = 0
    /\ \E capacity \in Capacities :
        buffer = [storage |-> [i \in 1..capacity |-> 0], head |-> 0, size |-> 0]
    /\ received = <<>>
    /\ outcome = "open"

SendFrame(payload) ==
    /\ ~closed
    /\ outgoing = <<>>
    /\ Len(sent) < MaxFrames
    /\ outgoing' = EncodeFrame(payload)
    /\ sent' = Append(sent, payload)
    /\ UNCHANGED <<closed, wire, fed, buffer, received, outcome>>

\* The writer takes the first n bytes, which the loop goes on behind.
Taken(n) ==
    /\ outgoing # <<>>
    /\ wire' = wire \o SubSeq(outgoing, 1, n)
    /\ outgoing' = SubSeq(outgoing, n + 1, Len(outgoing))
    /\ UNCHANGED <<sent, closed, fed, buffer, received, outcome>>

\* The sender ends between frames, or when its writer makes no progress.
Close ==
    /\ ~closed
    /\ closed' = TRUE
    /\ outgoing' = <<>>
    /\ UNCHANGED <<sent, wire, fed, buffer, received, outcome>>

\* The frames of a call that fails are lost with it, and the reader stays as it is.
Arrive(n) ==
    /\ outcome \in {"open", "too large", "full"}
    /\ LET result == Feed(buffer, SubSeq(wire, 1, n), <<>>)
       IN /\ buffer' = result.buffer
          /\ received' = IF result.error = "none" THEN received \o result.frames ELSE received
          /\ outcome' = IF result.error = "none" THEN outcome ELSE result.error
    /\ wire' = SubSeq(wire, n + 1, Len(wire))
    /\ fed' = fed + n
    /\ UNCHANGED <<outgoing, sent, closed>>

Finish ==
    /\ closed
    /\ wire = <<>>
    /\ outcome = "open"
    /\ LET result == Drain(buffer, <<>>)
       IN /\ received' = received \o result.frames
          /\ outcome' = IF result.buffer.size = 0 THEN "clean" ELSE "mid-frame"
          /\ buffer' = result.buffer
    /\ UNCHANGED <<outgoing, sent, closed, wire, fed>>

Next ==
    \/ \E payload \in Payload : SendFrame(payload)
    \/ \E n \in 1..Len(outgoing) : Taken(n)
    \/ Close
    \/ \E n \in 1..Len(wire) : Arrive(n)
    \/ Finish

-----------------------------------------------------------------------------

\* Where the n-th frame of the stream ends.
End(n) == FoldLeft(LAMBDA sum, p : sum + HeaderSize + Len(p), 0, SubSeq(sent, 1, n))

TooLarge(n) == Len(sent[n]) > MaxSize

\* The first frame beyond the reader's maximum whose header has been fed.
Refusal == {n \in DOMAIN sent : TooLarge(n) /\ End(n - 1) + HeaderSize <= fed}

\* However the stream is cut, the reader has returned exactly the frames that are complete,
\* never runs out of room, refuses a frame that is too large as soon as its header is
\* there, and tells an end inside a frame from one between frames.
FramesIntact ==
    /\ outcome # "full"
    /\ (outcome = "too large") = (Refusal # {})
    /\ received = SubSeq(sent, 1, Len(received))
    /\ Refusal = {} =>
        /\ End(Len(received)) <= fed
        /\ \A n \in DOMAIN sent : n > Len(received) => End(n) > fed
        /\ outcome = "clean" => fed = End(Len(received))
        /\ outcome = "mid-frame" => fed # End(Len(received))
=============================================================================
