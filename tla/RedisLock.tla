------------------------------ MODULE RedisLock ------------------------------
(***************************************************************************)
(* The Redis-style lock of labs/26-distributed-lock: RedisStyleLockService *)
(* over the InMemoryRedisStore, for one key.                               *)
(*                                                                         *)
(* Every client keeps the handle of its last acquisition and may come back *)
(* with it late.  The lock service is shared or each client has its own;   *)
(* it makes no difference, as the digest depends on the source only.       *)
(***************************************************************************)
EXTENDS Integers

CONSTANTS
    Client,
    Ttl,        \* ttl_ms of every lock
    MaxTime     \* bound on the clock

None == "none"

NoLock == [owner |-> None, expires |-> 0]
NoHandle == 0

VARIABLES
    now,            \* the clock
    lock,           \* _records of the key
    handle,         \* expires_at_ms of the handle each client has not released
    scriptLoaded,   \* is the release script in the volatile cache?
    naive           \* auxiliary: release_naive has been used

vars == <<now, lock, handle, scriptLoaded, naive>>

-----------------------------------------------------------------------------

\* The record _purge_if_expired leaves.
Current == IF lock.expires > now THEN lock ELSE NoLock

Init ==
    /\ now = 0
    /\ lock = NoLock
    /\ handle = [c \in Client |-> NoHandle]
    /\ scriptLoaded = TRUE
    /\ naive = FALSE

\* acquire, when SET NX PX finds no record.
Acquire(c) ==
    /\ Current = NoLock
    /\ lock' = [owner |-> c, expires |-> now + Ttl]
    /\ handle' = [handle EXCEPT ![c] = now + Ttl]
    /\ UNCHANGED <<now, scriptLoaded, naive>>

\* release_naive: DEL whatever the key holds.
ReleaseNaive(c) ==
    /\ handle[c] # NoHandle
    /\ lock' = NoLock
    /\ handle' = [handle EXCEPT ![c] = NoHandle]
    /\ naive' = TRUE
    /\ UNCHANGED <<now, scriptLoaded>>

\* release_compare_and_delete; on NOSCRIPT the script is loaded again and run,
\* so that the release happens in any case.
BugDeletesUncompared(c) ==
    /\ handle[c] # NoHandle
    /\ lock' = NoLock
    /\ handle' = [handle EXCEPT ![c] = NoHandle]
    /\ scriptLoaded' = TRUE
    /\ UNCHANGED <<now, naive>>
ReleaseCompareAndDelete(c) ==
    /\ handle[c] # NoHandle
    /\ lock' = IF Current.owner = c THEN NoLock ELSE Current
    /\ handle' = [handle EXCEPT ![c] = NoHandle]
    /\ scriptLoaded' = TRUE
    /\ UNCHANGED <<now, naive>>

\* script_flush by an operator.
ScriptFlush ==
    /\ scriptLoaded' = FALSE
    /\ UNCHANGED <<now, lock, handle, naive>>

\* SimulationClock.advance.
Advance ==
    /\ now < MaxTime
    /\ now' = now + 1
    /\ UNCHANGED <<lock, handle, scriptLoaded, naive>>

Next ==
    \/ \E c \in Client : Acquire(c)
    \/ \E c \in Client : ReleaseNaive(c)
    \/ \E c \in Client : ReleaseCompareAndDelete(c)
    \/ ScriptFlush
    \/ Advance

Spec == Init /\ [][Next]_vars

-----------------------------------------------------------------------------

\* Compare-and-delete preserves the new holder: a client whose handle has not
\* run out is the one the record names, however late the releases of earlier
\* holders arrive, as long as nobody uses the naive release.
HolderOwnsTheLock ==
    ~naive => \A c \in Client : handle[c] > now => lock = [owner |-> c, expires |-> handle[c]]
=============================================================================
