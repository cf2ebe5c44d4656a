--------------------------- MODULE TaskRepository ---------------------------
(***************************************************************************)
(* The CosmosTaskRepository of labs/29-kv-store over its fake container:   *)
(* conditional writes by etag and items that expire.  Clients read an item *)
(* and patch it later with what they computed from it; here each adds one  *)
(* to a count the item carries.  Every operation drops what has expired    *)
(* first.                                                                  *)
(***************************************************************************)
EXTENDS Integers

CONSTANTS
    Client, Key,
    DefaultTtl,     \* the policy's default_ttl_seconds
    Ttl,            \* the ttl_seconds that callers give
    MaxEtag,        \* bound on the writes
    MaxTime         \* bound on the clock

VARIABLES
    now, items,
    etag,       \* the etag given last
    seen,       \* the items clients have read and may patch
    history     \* auxiliary: what became of each key since it was created

vars == <<now, items, etag, seen, history>>

NoItem == [etag |-> 0]

Init ==
    /\ now = 0
    /\ items = [k \in Key |-> NoItem]
    /\ etag = 0
    /\ seen = [c \in Client |-> [k \in Key |-> NoItem]]
    /\ history = [k \in Key |-> [increments |-> 0, expires |-> 0]]

\* _purge_expired
Kept == [k \in Key |-> IF items[k] # NoItem /\ items[k].expires <= now THEN NoItem ELSE items[k]]

Stored(k, count, ttl) ==
    /\ etag < MaxEtag
    /\ etag' = etag + 1
    /\ items' = [Kept EXCEPT ![k] = [etag |-> etag + 1, count |-> count, expires |-> now + ttl]]

Create(k, ttl) ==
    \/ /\ Kept[k] = NoItem
       /\ Stored(k, 0, ttl)
       /\ history' = [history EXCEPT ![k] = [increments |-> 0, expires |-> now + ttl]]
       /\ UNCHANGED <<now, seen>>
    \/ /\ Kept[k] # NoItem
       /\ items' = Kept
       /\ UNCHANGED <<now, etag, seen, history>>

Get(c, k) ==
    /\ items' = Kept
    /\ seen' = IF Kept[k] = NoItem THEN seen ELSE [seen EXCEPT ![c][k] = Kept[k]]
    /\ UNCHANGED <<now, etag, history>>

\* query_tasks, whose answer nobody patches from.
Query ==
    /\ items' = Kept
    /\ UNCHANGED <<now, etag, seen, history>>

BugAnyEtag(k, given) == Kept[k] # NoItem

Matches(k, given) == Kept[k] # NoItem /\ Kept[k].etag = given

\* _remaining_ttl_seconds
Remaining(item) == item.expires - now

\* patch_task with the etag of what the client has read.
Patch(c, k) ==
    /\ seen[c][k] # NoItem
    /\ \/ /\ Matches(k, seen[c][k].etag)
          /\ Stored(k, seen[c][k].count + 1, Remaining(Kept[k]))
          /\ history' = [history EXCEPT ![k].increments = @ + 1]
          /\ UNCHANGED <<now, seen>>
       \/ /\ ~Matches(k, seen[c][k].etag)
          /\ items' = Kept
          /\ UNCHANGED <<now, etag, seen, history>>

Advance ==
    /\ now < MaxTime
    /\ now' = now + 1
    /\ UNCHANGED <<items, etag, seen, history>>

Next ==
    \/ \E k \in Key, ttl \in Ttl \union {DefaultTtl} : Create(k, ttl)
    \/ \E c \in Client, k \in Key : Get(c, k) \/ Patch(c, k)
    \/ Query
    \/ Advance

Spec == Init /\ [][Next]_vars

-----------------------------------------------------------------------------

\* An item is what its creation and the acknowledged patches made of it: no increment
\* is lost or repeated, also across expiry and recreation under the same key, and no
\* patch moves the time at which it expires.
ItemMatchesHistory ==
    \A k \in Key : items[k] # NoItem =>
        /\ items[k].count = history[k].increments
        /\ items[k].expires = history[k].expires
=============================================================================
