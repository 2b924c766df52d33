--------------------------- MODULE ConnectionCache ---------------------------
(***************************************************************************)
(* The set of connections an archiver keeps open between results           *)
(* (ExpiringSet of expiringset.py, as rabbitmq/archive uses it).  One      *)
(* thread asks for a connection by its key and publishes on it; expired    *)
(* ones are dropped when they are asked for, or by a purge that is made    *)
(* only when something is asked for.  Time passes between any two looks at *)
(* the clock.                                                              *)
(***************************************************************************)
EXTENDS Integers

CONSTANTS
    Key,            \* what connections are asked for by
    CacheTimes,     \* the times to live they are asked for with
    PurgeInterval,
    MaxItem,        \* bound on the connections that are made
    MaxNow          \* bound on the clock

VARIABLES
    clock,
    items,          \* key -> [item, expires], for the keys that are in the set
    next_purge,
    request,        \* what the thread is at: [at, key, ttl, since]
    made,           \* the connections made so far, numbered
    failed          \* those on which publishing failed

cvars == <<clock, items, next_purge, request, made, failed>>

CacheInit ==
    /\ clock = 0 /\ items = <<>> /\ next_purge = PurgeInterval
    /\ request = [at |-> "none"]
    /\ made = 0 /\ failed = {}

Goto(at) == request' = [request EXCEPT !.at = at]
With(key, record) == [k \in DOMAIN items \cup {key} |-> IF k = key THEN record ELSE items[k]]
Without(keys) == [k \in DOMAIN items \ keys |-> items[k]]
Expired(k) == items[k].expires < clock

\* A key is asked for, with the time it is to be kept (None is no time).
Ask(k, ttl) ==
    /\ request.at = "none"
    /\ request' = [at |-> "purge", key |-> k, ttl |-> ttl, since |-> clock]
    /\ UNCHANGED <<clock, items, next_purge, made, failed>>

\* purge(force=False).
purge ==
    /\ request.at = "purge" /\ Goto("get")
    /\ IF clock < next_purge THEN UNCHANGED <<items, next_purge>>
       ELSE /\ items' = Without({k \in DOMAIN items : Expired(k)})
            /\ next_purge' = clock + PurgeInterval
    /\ UNCHANGED <<clock, made, failed>>

\* The record is there and has not expired, or it is dropped.
Get ==
    /\ request.at = "get"
    /\ IF request.key \notin DOMAIN items THEN Goto("create") /\ UNCHANGED items
       ELSE IF Expired(request.key)
       THEN Goto("create") /\ items' = Without({request.key})
       ELSE Goto("stamp") /\ UNCHANGED items
    /\ UNCHANGED <<clock, next_purge, made, failed>>

\* The creator connects, which may fail: the exception leaves nothing behind.
\* A new record has no time of expiry yet.
Create ==
    /\ request.at = "create"
    /\ \/ /\ made < MaxItem /\ made' = made + 1
          /\ items' = With(request.key, [item |-> made + 1, expires |-> clock])
          /\ Goto("stamp")
       \/ /\ Goto("failed") /\ UNCHANGED <<items, made>>
    /\ UNCHANGED <<clock, next_purge, failed>>

\* Fetching changes the time of expiry, whatever it was.
Stamp ==
    /\ request.at = "stamp" /\ Goto("publish")
    /\ items' = [items EXCEPT ![request.key].expires = clock + request.ttl]
    /\ UNCHANGED <<clock, next_purge, made, failed>>

Publish ==
    /\ request.at = "publish"
    /\ \/ request' = [at |-> "none"] /\ UNCHANGED failed
       \/ Goto("failed") /\ failed' = failed \cup {items[request.key].item}
    /\ UNCHANGED <<clock, items, next_purge, made>>

\* Mutant: only what has expired is dropped.
ExpireIfExpired ==
    /\ request.at = "failed" /\ request' = [at |-> "none"]
    /\ items' = Without({k \in DOMAIN items \cap {request.key} : Expired(k)})
    /\ UNCHANGED <<clock, next_purge, made, failed>>

\* expire(key, missing_ok=True): whatever went wrong, the key is dropped.
expire ==
    /\ request.at = "failed" /\ request' = [at |-> "none"]
    /\ items' = Without({request.key})
    /\ UNCHANGED <<clock, next_purge, made, failed>>

Pass ==
    /\ clock < MaxNow /\ clock' = clock + 1
    /\ UNCHANGED <<items, next_purge, request, made, failed>>

CacheNext ==
    \/ purge \/ Get \/ Create \/ Stamp \/ Publish \/ expire \/ Pass
    \/ \E k \in Key, ttl \in CacheTimes : Ask(k, ttl)

----------------------------------------------------------------------------

\* A connection on which publishing failed is not given out again; and whatever
\* is asked for, what nobody asks for any more does not stay for longer than the
\* interval between purges after it has expired (expiringset.py 107-110).
ChannelsSound ==
    request.at = "publish" =>
        /\ items[request.key].item \notin failed
        /\ \A k \in DOMAIN items : items[k].expires >= request.since - PurgeInterval

=============================================================================
