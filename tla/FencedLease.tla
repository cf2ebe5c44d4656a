----------------------------- MODULE FencedLease -----------------------------
(***************************************************************************)
(* Leases with fence tokens, labs/26-distributed-lock: FencedLeaseManager  *)
(* for one key, the FencedRelayStore and the FencedScheduleLedger its      *)
(* holders write to, and the RelayScheduler that composes manager and      *)
(* ledger.                                                                 *)
(*                                                                         *)
(* Calls run one at a time under a manual clock; a holder may be paused    *)
(* between any two of its calls for as long as the clock is advanced.  A   *)
(* RelayScheduler keeps nothing between two try_schedule calls, so         *)
(* restart_instance changes no state that is here.                         *)
(***************************************************************************)
EXTENDS Integers

CONSTANTS
    Client,         \* lease holders and scheduler instances
    Ttl,            \* ttl_ms of every lease
    IntervalMs,     \* interval_ms of the SchedulerSimulation
    MaxTime,        \* bound on the clock
    MaxFence        \* bound on the number of grants

ASSUME PositiveAssumption == Ttl \in Nat \ {0} /\ IntervalMs \in Nat \ {0}
ASSUME BoundsAssumption == MaxTime \in Nat /\ MaxFence \in Nat

None == "none"
ASSUME NoneAssumption == None \notin Client

Time == 0..MaxTime
Fence == 0..MaxFence
Lease == [owner : Client, fence : Fence, expires : Time \cup ((MaxTime + 1)..(MaxTime + Ttl))]
NoLease == [owner |-> None, fence |-> 0, expires |-> 0]
Interval == 0..(MaxTime \div IntervalMs)

VARIABLES
    now,            \* the clock
    fenceCounter,   \* _fence_counters of the key
    lease,          \* _leases of the key
    held,           \* the FencedLease each client last received
    value,          \* the store's value: who wrote it and with which fence
    highestFence,   \* _highest_fence_by_resource of the store
    ledgerFence,    \* _highest_fence of the ledger
    decisions,      \* the ledger's _intervals
    grantee,        \* auxiliary: to whom each fence was granted
    released        \* auxiliary: the fences whose holders called release

vars == <<now, fenceCounter, lease, held, value, highestFence, ledgerFence,
          decisions, grantee, released>>

-----------------------------------------------------------------------------

\* What _purge_if_expired leaves behind.
Live == lease # NoLease /\ lease.expires > now

\* current_interval_start, counted in intervals.
CurrentInterval == now \div IntervalMs

Nobody == [owner |-> None, fence |-> 0]

Init ==
    /\ now = 0
    /\ fenceCounter = 0
    /\ lease = NoLease
    /\ held = [c \in Client |-> NoLease]
    /\ value = Nobody
    /\ highestFence = 0
    /\ ledgerFence = 0
    /\ decisions = [i \in Interval |-> Nobody]
    /\ grantee = [f \in Fence |-> None]
    /\ released = {}

\* A grant carries the next fence; the counter outlives the lease.
BugFenceOfLastLease == lease.fence + 1
NextFence == fenceCounter + 1

Granted(c) == [owner |-> c, fence |-> NextFence, expires |-> now + Ttl]

Count(c) ==
    /\ ~Live
    /\ NextFence \in Fence
    /\ fenceCounter' = NextFence
    /\ grantee' = [grantee EXCEPT ![NextFence] = c]

\* FencedLeaseManager.acquire.
Acquire(c) ==
    /\ Count(c)
    /\ lease' = Granted(c)
    /\ held' = [held EXCEPT ![c] = Granted(c)]
    /\ UNCHANGED <<now, value, highestFence, ledgerFence, decisions, released>>

\* release: only the very lease that is active is deleted.
BugReleasesAny(c) ==
    /\ held[c] # NoLease
    /\ lease' = NoLease
    /\ released' = released \cup {held[c].fence}
    /\ UNCHANGED <<now, fenceCounter, held, value, highestFence, ledgerFence, decisions, grantee>>
Release(c) ==
    /\ held[c] # NoLease
    /\ lease' = IF Live /\ lease # held[c] THEN lease ELSE NoLease
    /\ released' = released \cup {held[c].fence}
    /\ UNCHANGED <<now, fenceCounter, held, value, highestFence, ledgerFence, decisions, grantee>>

\* FencedRelayStore.write; a lower fence raises StaleFenceError.
BugAcceptsStaleWrite(f) == TRUE
StoreAccepts(f) == f >= highestFence

Write(c) ==
    /\ held[c] # NoLease
    /\ StoreAccepts(held[c].fence)
    /\ highestFence' = held[c].fence
    /\ value' = [owner |-> c, fence |-> held[c].fence]
    /\ UNCHANGED <<now, fenceCounter, lease, held, ledgerFence, decisions, grantee, released>>

\* FencedScheduleLedger.record of the current interval: the first decision of
\* an interval stays.
LedgerAccepts(f) == f >= ledgerFence

RecordInterval(c, f) ==
    /\ ledgerFence' = f
    /\ decisions' = IF decisions[CurrentInterval] # Nobody THEN decisions
                    ELSE [decisions EXCEPT ![CurrentInterval] = [owner |-> c, fence |-> f]]

Record(c) ==
    /\ held[c] # NoLease
    /\ LedgerAccepts(held[c].fence)
    /\ RecordInterval(c, held[c].fence)
    /\ UNCHANGED <<now, fenceCounter, lease, held, value, highestFence, grantee, released>>

\* RelayScheduler.try_schedule: acquire, record, release in one call.  Were the
\* fence stale, the exception would leave the lease behind.
TrySchedule(c) ==
    /\ Count(c)
    /\ IF LedgerAccepts(NextFence)
       THEN RecordInterval(c, NextFence) /\ lease' = NoLease
       ELSE UNCHANGED <<ledgerFence, decisions>> /\ lease' = Granted(c)
    /\ UNCHANGED <<now, held, value, highestFence, released>>

\* SimulationClock.advance.
Advance ==
    /\ now < MaxTime
    /\ now' = now + 1
    /\ UNCHANGED <<fenceCounter, lease, held, value, highestFence, ledgerFence, decisions, grantee, released>>

Next ==
    \/ \E c \in Client : Acquire(c)
    \/ \E c \in Client : Release(c)
    \/ \E c \in Client : Write(c)
    \/ \E c \in Client : Record(c)
    \/ \E c \in Client : TrySchedule(c)
    \/ Advance

Spec == Init /\ [][Next]_vars

-----------------------------------------------------------------------------

TypeOK ==
    /\ now \in Time
    /\ fenceCounter \in Fence
    /\ lease \in Lease \cup {NoLease}
    /\ held \in [Client -> Lease \cup {NoLease}]
    /\ value \in [owner : Client, fence : Fence] \cup {Nobody}
    /\ highestFence \in Fence
    /\ ledgerFence \in Fence
    /\ decisions \in [Interval -> [owner : Client, fence : Fence] \cup {Nobody}]
    /\ grantee \in [Fence -> Client \cup {None}]
    /\ released \subseteq Fence

\* The holder of the active lease is never fenced out: neither the store nor
\* the ledger has seen a fence above its own, so a legal write or try_schedule
\* does not raise StaleFenceError, which would leave the lease behind
\* (try_schedule has no handler for it).
HolderIsAccepted ==
    Live => highestFence <= lease.fence /\ ledgerFence <= lease.fence

\* Only its holder or the clock ends a lease: until it calls release, a client
\* whose lease has not run out is the active holder, whatever releases of
\* earlier leases arrive late (release compares the whole lease).
OnlyHolderEndsLease ==
    \A c \in Client :
        held[c] # NoLease /\ held[c].expires > now /\ held[c].fence \notin released
            => lease = held[c]

\* A fence names one grant: whatever was stored or decided under it came from
\* the client it was granted to.
FenceNamesItsHolder ==
    /\ value # Nobody => grantee[value.fence] = value.owner
    /\ \A i \in Interval :
          decisions[i] # Nobody => grantee[decisions[i].fence] = decisions[i].owner
    /\ \A c \in Client : held[c] # NoLease => grantee[held[c].fence] = c

\* Once the holder of the active lease has written, a paused earlier holder
\* cannot change the value while the lease lasts (FencedRelayStore.write).
HolderKeepsItsValue ==
    [][Live /\ value.fence = lease.fence => value' = value]_vars

\* The decision about an interval is made once and never replaced.
DecisionStands ==
    [][\A i \in Interval : decisions[i] # Nobody => decisions'[i] = decisions[i]]_vars
=============================================================================
