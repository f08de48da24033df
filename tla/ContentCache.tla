---------------------------- MODULE ContentCache ----------------------------
(***************************************************************************)
(* The content cache (internal/cache/cache.go) and its use by the proxy    *)
(* (internal/proxy/proxy.go: step 6 of ServeHTTP, modifyResponse, storable *)
(* and cachingBody).  A miss tees the backend's response into a buffer     *)
(* while it streams to the client and stores it at the end of the body.    *)
(* Lookups, removals of expired entries and stores of several requests     *)
(* interleave: only the LRU operations themselves are atomic.              *)
(***************************************************************************)
EXTENDS LRU

CONSTANTS
    Keys,         \* method, host and URI of a request
    Threads,      \* request goroutines
    TTLs,         \* the TTLs a configuration may give
    Sizes,        \* body lengths in chunks
    MaxObject,    \* Cache.MaxObjectSize in chunks, 0 for no limit
    MaxEntries,   \* objects the LRU holds
    MaxTransfer,  \* bound on the duration of a transfer
    MaxTime       \* bound on the clock

ASSUME CacheAssumption ==
    /\ {MaxObject, MaxTransfer, MaxTime} \subseteq Nat
    /\ MaxEntries \in Nat \ {0}
    /\ TTLs \subseteq Nat /\ Sizes \subseteq Nat

VARIABLES
    clock,  \* the wall clock
    lru,    \* the keys in the cache, least recently used first
    store,  \* the entry of each key, NoEntry when it is not cached
    th      \* the request each goroutine is serving

vars == <<clock, lru, store, th>>

-----------------------------------------------------------------------------

\* A response: public says that status, Set-Cookie, Cache-Control and Vary
\* allow storing it; sized that Content-Length announces its size.
Response == [public : BOOLEAN, size : Sizes, sized : BOOLEAN]

\* An object in the cache; born is when its response was made.
Entry == [resp : Response, body : Nat, born : Nat, stored : Nat, expires : Nat]

NoEntry == [expires |-> -1]

Idle == [pc |-> "idle"]

\* A request that looks at the entry it found, one that the backend has to
\* answer, and one whose answer is being teed.
Lookup == [pc : {"check", "remove", "hit"}, key : Keys, e : Entry]
Fetch == [pc : {"fetch"}, key : Keys]
Tee == [pc : {"tee"}, key : Keys, resp : Response, ttl : TTLs,
        born : Nat, got : Nat, tooBig : BOOLEAN]

\* Mutation of Added: the cache grows without bound.
AddedUnbounded(k) == Touched(lru, k)

\* The LRU after k was added.
Added(k) == Inserted(lru, k, MaxEntries)

Cached(k) == Holds(lru, k)

storable(resp) ==
    /\ resp.public
    /\ ~(resp.sized /\ MaxObject > 0 /\ resp.size > MaxObject)

-----------------------------------------------------------------------------
(* Cache.Get *)

\* The lookup in the LRU; a key that is there becomes the most recent.
Get(t, k) ==
    /\ th[t] = Idle
    /\ th' = [th EXCEPT ![t] = IF Cached(k)
                               THEN [pc |-> "check", key |-> k, e |-> store[k]]
                               ELSE [pc |-> "fetch", key |-> k]]
    /\ lru' = IF Cached(k) THEN Touched(lru, k) ELSE lru
    /\ UNCHANGED <<clock, store>>

\* Mutation of CheckExpiry: a stale object is served while it is there.
CheckExpiryNever(t) ==
    /\ th[t].pc = "check"
    /\ th' = [th EXCEPT ![t].pc = "hit"]
    /\ UNCHANGED <<clock, lru, store>>

\* The expiry check, on the entry found before.
CheckExpiry(t) ==
    /\ th[t].pc = "check"
    /\ th' = [th EXCEPT ![t].pc = IF clock > th[t].e.expires THEN "remove" ELSE "hit"]
    /\ UNCHANGED <<clock, lru, store>>

\* The removal, of whatever the key holds by now.
Remove(t) ==
    LET k == th[t].key IN
    /\ th[t].pc = "remove"
    /\ lru' = Drop(lru, k)
    /\ store' = [store EXCEPT ![k] = NoEntry]
    /\ th' = [th EXCEPT ![t] = [pc |-> "fetch", key |-> k]]
    /\ UNCHANGED clock

\* serveCacheHit.
ServeCacheHit(t) ==
    /\ th[t].pc = "hit"
    /\ th' = [th EXCEPT ![t] = Idle]
    /\ UNCHANGED <<clock, lru, store>>

-----------------------------------------------------------------------------
(* A miss. *)

\* modifyResponse: what may be stored is teed, anything else only streams
\* through (as does the 502 page when there is no response).
ModifyResponse(t, resp, ttl) ==
    /\ th[t].pc = "fetch"
    /\ th' = [th EXCEPT ![t] =
                IF storable(resp)
                THEN [pc |-> "tee", key |-> th[t].key, resp |-> resp, ttl |-> ttl,
                      born |-> clock, got |-> 0, tooBig |-> FALSE]
                ELSE Idle]
    /\ UNCHANGED <<clock, lru, store>>

\* cachingBody.Read: one more chunk for the buffer, unless it is too big.
Read(t) ==
    LET b == th[t] IN
    /\ b.pc = "tee" /\ b.got < b.resp.size
    /\ th' = [th EXCEPT ![t].got = @ + 1,
                        ![t].tooBig = b.tooBig \/ (MaxObject > 0 /\ b.got + 1 > MaxObject)]
    /\ UNCHANGED <<clock, lru, store>>

\* The entry that a complete body leaves.
NewEntry(b) == [resp |-> b.resp, body |-> b.got, born |-> b.born,
                stored |-> clock, expires |-> clock + b.ttl]

\* Put.
Put(k, e) ==
    /\ lru' = Added(k)
    /\ store' = [x \in Keys |-> IF x = k THEN e
                                ELSE IF Holds(Added(k), x) THEN store[x] ELSE NoEntry]

\* Mutation of ReadEOF: a body that was given up is stored as far as it went.
ReadEOFPartial(t) ==
    LET b == th[t] IN
    /\ b.pc = "tee" /\ (b.got = b.resp.size \/ b.tooBig)
    /\ Put(b.key, NewEntry(b))
    /\ th' = [th EXCEPT ![t] = Idle]
    /\ UNCHANGED clock

\* cachingBody.Read at the end of the body: the object is committed.
ReadEOF(t) ==
    LET b == th[t] IN
    /\ b.pc = "tee" /\ b.got = b.resp.size
    /\ IF b.tooBig THEN UNCHANGED <<lru, store>> ELSE Put(b.key, NewEntry(b))
    /\ th' = [th EXCEPT ![t] = Idle]
    /\ UNCHANGED clock

\* The client or the backend closes before the end of the body.
Close(t) ==
    /\ th[t].pc = "tee" /\ th[t].got < th[t].resp.size
    /\ th' = [th EXCEPT ![t] = Idle]
    /\ UNCHANGED <<clock, lru, store>>

Tick ==
    /\ clock < MaxTime
    /\ \A t \in Threads : th[t].pc = "tee" => clock - th[t].born < MaxTransfer
    /\ clock' = clock + 1
    /\ UNCHANGED <<lru, store, th>>

-----------------------------------------------------------------------------

Init ==
    /\ clock = 0
    /\ lru = <<>>
    /\ store = [k \in Keys |-> NoEntry]
    /\ th = [t \in Threads |-> Idle]

Next ==
    \/ \E t \in Threads, k \in Keys : Get(t, k)
    \/ \E t \in Threads, resp \in Response, ttl \in TTLs : ModifyResponse(t, resp, ttl)
    \/ \E t \in Threads : \/ CheckExpiry(t) \/ Remove(t) \/ ServeCacheHit(t)
                          \/ Read(t) \/ ReadEOF(t) \/ Close(t)
    \/ Tick

Spec == Init /\ [][Next]_vars

-----------------------------------------------------------------------------
(* Properties *)

\* The variables have their types: the LRU is within its capacity, holds each
\* key once, and exactly the keys in it have an entry.
TypeOK ==
    /\ clock \in Nat
    /\ lru \in Seq(Keys) /\ Distinct(lru) /\ Len(lru) <= MaxEntries
    /\ store \in [Keys -> Entry \cup {NoEntry}]
    /\ th \in [Threads -> Lookup \cup Fetch \cup Tee \cup {Idle}]
    /\ \A k \in Keys : Cached(k) <=> store[k] # NoEntry

\* "Only whole, successfully delivered responses are stored" (proxy.go:541):
\* whatever is cached is the complete body of a public response within the
\* size limit, also when the size was not announced and the limit was
\* exceeded, or the client left, in the middle of the body.
OnlyWholeObjects ==
    \A k \in Keys : Cached(k) =>
        /\ store[k].resp.public
        /\ store[k].body = store[k].resp.size
        /\ MaxObject > 0 => store[k].body <= MaxObject

\* A hit shows the backend's content of at most TTL plus one transfer ago,
\* whatever overtook what (the time is stamped at the end of the body, not
\* when the response was made).
HitsAreFresh ==
    [][\A t \in Threads : th[t].pc = "check" /\ th'[t].pc = "hit" =>
          \E ttl \in TTLs : clock - th[t].e.born <= ttl + MaxTransfer]_vars
=============================================================================
