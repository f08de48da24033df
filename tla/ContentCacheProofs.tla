------------------------- MODULE ContentCacheProofs -------------------------
(***************************************************************************)
(* The content cache, for every number of keys, goroutines, sizes, TTLs    *)
(* and entries: what is stored is whole, and what is served is fresh.      *)
(***************************************************************************)
EXTENDS ContentCache, LRUProofs, TLAPS

-----------------------------------------------------------------------------
(* The inductive invariant *)

\* The complete body of a public response within the size limit, stamped at
\* its end, at most one transfer after the response was made.
Good(e) ==
    /\ e.resp.public
    /\ e.body = e.resp.size
    /\ MaxObject > 0 => e.body <= MaxObject
    /\ \E ttl \in TTLs : e.expires = e.stored + ttl
    /\ e.stored - e.born <= MaxTransfer

\* A body being teed is that of a public response, and is known to be too big
\* as soon as it is.
Teeing(b) ==
    /\ b.resp.public
    /\ b.got <= b.resp.size
    /\ MaxObject > 0 /\ b.got > MaxObject => b.tooBig
    /\ clock - b.born <= MaxTransfer

StoreGood == \A k \in Keys : store[k] # NoEntry => Good(store[k])

LookupsGood == \A t \in Threads : th[t] \in Lookup => Good(th[t].e)

TeesGood == \A t \in Threads : th[t] \in Tee => Teeing(th[t])

Inv == TypeOK /\ StoreGood /\ LookupsGood /\ TeesGood

-----------------------------------------------------------------------------
(* Records *)

\* No object is taken for the absent one.
LEMMA EntryIsOne ==
    ASSUME NEW e \in Entry
    PROVE  e # NoEntry
  BY DEF Entry, NoEntry

\* The phases of a request tell its records apart.
LEMMA Phases ==
    ASSUME NEW r \in Lookup \cup Fetch \cup Tee \cup {Idle}
    PROVE  /\ r.pc \in {"check", "remove", "hit"} <=> r \in Lookup
           /\ r.pc = "fetch" <=> r \in Fetch
           /\ r.pc = "tee" <=> r \in Tee
           /\ r \in Lookup => r \notin Tee
           /\ r \in Fetch => r \notin Tee /\ r \notin Lookup
           /\ Idle \notin Lookup /\ Idle \notin Tee
  <1>1. Idle.pc = "idle"
    BY DEF Idle
  <1>2. \A x \in Lookup : x.pc \in {"check", "remove", "hit"}
    BY DEF Lookup
  <1>3. \A x \in Fetch : x.pc = "fetch"
    BY DEF Fetch
  <1>4. \A x \in Tee : x.pc = "tee"
    BY DEF Tee
  <1> QED BY <1>1, <1>2, <1>3, <1>4

-----------------------------------------------------------------------------
(* The steps *)

LEMMA InitInv == Init => Inv
  <1> SUFFICES ASSUME Init PROVE Inv
    OBVIOUS
  <1>1. lru \in Seq(Keys) /\ Len(lru) = 0 /\ DOMAIN lru = {}
    BY DEF Init
  <1>2. Distinct(lru) /\ \A k \in Keys : ~Cached(k)
    BY <1>1 DEF Distinct, Cached, Holds
  <1>3. \A k \in Keys : store[k] = NoEntry
    BY DEF Init
  <1>4. TypeOK
    BY <1>1, <1>2, <1>3, CacheAssumption DEF Init, TypeOK
  <1>5. StoreGood
    BY <1>3 DEF StoreGood
  <1>6. \A t \in Threads : th[t] = Idle
    BY DEF Init
  <1>7. Idle \notin Lookup /\ Idle \notin Tee
    BY Phases
  <1> QED BY <1>4, <1>5, <1>6, <1>7 DEF Inv, LookupsGood, TeesGood

\* A step that only moves one request on, and the entries with it.
LEMMA RequestMoves ==
    ASSUME Inv, NEW t \in Threads, NEW r \in Lookup \cup Fetch \cup Tee \cup {Idle},
           th' = [th EXCEPT ![t] = r], clock' = clock,
           r \in Lookup => Good(r.e), r \in Tee => Teeing(r)
    PROVE  /\ th' \in [Threads -> Lookup \cup Fetch \cup Tee \cup {Idle}]
           /\ LookupsGood' /\ TeesGood'
  <1>1. th \in [Threads -> Lookup \cup Fetch \cup Tee \cup {Idle}]
    BY DEF Inv, TypeOK
  <1>2. th' \in [Threads -> Lookup \cup Fetch \cup Tee \cup {Idle}]
    BY <1>1
  <1>3. \A u \in Threads : th'[u] = IF u = t THEN r ELSE th[u]
    BY <1>1
  <1>4. LookupsGood'
    BY <1>3 DEF Inv, LookupsGood, Good
  <1>5. TeesGood'
    BY <1>3 DEF Inv, TeesGood, Teeing
  <1> QED BY <1>2, <1>4, <1>5

LEMMA GetInv ==
    ASSUME Inv, NEW t \in Threads, NEW k \in Keys, Get(t, k)
    PROVE  Inv'
  <1>1. /\ clock \in Nat /\ lru \in Seq(Keys) /\ Distinct(lru) /\ Len(lru) <= MaxEntries
        /\ store \in [Keys -> Entry \cup {NoEntry}]
        /\ \A x \in Keys : Cached(x) <=> store[x] # NoEntry
    BY DEF Inv, TypeOK
  <1>2. clock' = clock /\ store' = store
    BY DEF Get
  <1>3. /\ lru' \in Seq(Keys) /\ Distinct(lru') /\ Len(lru') <= MaxEntries
        /\ \A x : Holds(lru', x) <=> Holds(lru, x)
    <2>1. CASE Cached(k)
      <3>1. Holds(lru, k) /\ lru' = Touched(lru, k)
        BY <2>1 DEF Get, Cached
      <3>2. /\ lru' \in Seq(Keys) /\ Distinct(lru')
            /\ \A x : Holds(lru', x) <=> Holds(lru, x) \/ x = k
            /\ Len(lru') = Len(lru)
        BY <1>1, <3>1, TouchedFacts
      <3> QED BY <1>1, <3>1, <3>2
    <2>2. CASE ~Cached(k)
      BY <1>1, <2>2 DEF Get
    <2> QED BY <2>1, <2>2
  <1>4. StoreGood'
    BY <1>2 DEF Inv, StoreGood, Good
  <1>5. /\ th' \in [Threads -> Lookup \cup Fetch \cup Tee \cup {Idle}]
        /\ LookupsGood' /\ TeesGood'
    <2>1. CASE Cached(k)
      <3> DEFINE r == [pc |-> "check", key |-> k, e |-> store[k]]
      <3>1. store[k] \in Entry /\ Good(store[k])
        BY <1>1, <2>1 DEF Inv, StoreGood
      <3>2. r \in Lookup /\ r.e = store[k]
        BY <3>1 DEF Lookup
      <3>3. th' = [th EXCEPT ![t] = r]
        BY <2>1 DEF Get
      <3> HIDE DEF r
      <3>4. r \notin Tee
        BY <3>2, Phases
      <3> QED BY <1>2, <3>1, <3>2, <3>3, <3>4, RequestMoves
    <2>2. CASE ~Cached(k)
      <3> DEFINE r == [pc |-> "fetch", key |-> k]
      <3>1. r \in Fetch
        BY DEF Fetch
      <3>2. th' = [th EXCEPT ![t] = r]
        BY <2>2 DEF Get
      <3> HIDE DEF r
      <3>3. r \notin Tee /\ r \notin Lookup
        BY <3>1, Phases
      <3> QED BY <1>2, <3>1, <3>2, <3>3, RequestMoves
    <2> QED BY <2>1, <2>2
  <1>6. TypeOK'
    BY <1>1, <1>2, <1>3, <1>5 DEF TypeOK, Cached
  <1> QED BY <1>4, <1>5, <1>6 DEF Inv

\* The steps that leave the clock and the cache alone.
LEMMA CacheAlone ==
    ASSUME Inv, NEW t \in Threads, NEW r \in Lookup \cup Fetch \cup Tee \cup {Idle},
           th' = [th EXCEPT ![t] = r], UNCHANGED <<clock, lru, store>>,
           r \in Lookup => Good(r.e), r \in Tee => Teeing(r)
    PROVE  Inv'
  <1>1. clock' = clock /\ lru' = lru /\ store' = store
    OBVIOUS
  <1>2. /\ th' \in [Threads -> Lookup \cup Fetch \cup Tee \cup {Idle}]
        /\ LookupsGood' /\ TeesGood'
    BY <1>1, RequestMoves
  <1>3. TypeOK'
    BY <1>1, <1>2 DEF Inv, TypeOK, Cached
  <1>4. StoreGood'
    BY <1>1 DEF Inv, StoreGood, Good
  <1> QED BY <1>2, <1>3, <1>4 DEF Inv

LEMMA CheckExpiryInv ==
    ASSUME Inv, NEW t \in Threads, CheckExpiry(t)
    PROVE  Inv'
  <1> DEFINE p == IF clock > th[t].e.expires THEN "remove" ELSE "hit"
             r == [th[t] EXCEPT !.pc = p]
  <1>1. th[t] \in Lookup /\ Good(th[t].e)
    BY Phases DEF CheckExpiry, Inv, TypeOK, LookupsGood
  <1>2. r \in Lookup /\ r.e = th[t].e
    BY <1>1 DEF Lookup
  <1>3. th' = [th EXCEPT ![t] = r] /\ UNCHANGED <<clock, lru, store>>
    BY DEF CheckExpiry
  <1> HIDE DEF r
  <1>4. r \notin Tee
    BY <1>2, Phases
  <1> QED BY <1>1, <1>2, <1>3, <1>4, CacheAlone

LEMMA RemoveInv ==
    ASSUME Inv, NEW t \in Threads, Remove(t)
    PROVE  Inv'
  <1> DEFINE k == th[t].key
             r == [pc |-> "fetch", key |-> k]
  <1>1. /\ clock \in Nat /\ lru \in Seq(Keys) /\ Distinct(lru) /\ Len(lru) <= MaxEntries
        /\ store \in [Keys -> Entry \cup {NoEntry}]
        /\ \A x \in Keys : Holds(lru, x) <=> store[x] # NoEntry
    BY DEF Inv, TypeOK, Cached
  <1>2. k \in Keys
    <2>1. th[t] \in Lookup
      BY Phases DEF Remove, Inv, TypeOK
    <2> QED BY <2>1 DEF Lookup
  <1>3. /\ clock' = clock /\ lru' = Drop(lru, k) /\ store' = [store EXCEPT ![k] = NoEntry]
        /\ th' = [th EXCEPT ![t] = r]
    BY DEF Remove
  <1>4. r \in Fetch
    BY <1>2 DEF Fetch
  <1> HIDE DEF r, k
  <1>5. r \notin Tee /\ r \notin Lookup
    BY <1>4, Phases
  <1>6. /\ th' \in [Threads -> Lookup \cup Fetch \cup Tee \cup {Idle}]
        /\ LookupsGood' /\ TeesGood'
    BY <1>3, <1>4, <1>5, RequestMoves
  <1>7. /\ lru' \in Seq(Keys) /\ Distinct(lru') /\ Len(lru') <= MaxEntries
        /\ \A x : Holds(lru', x) <=> Holds(lru, x) /\ x # k
    <2>1. /\ lru' \in Seq(Keys) /\ Distinct(lru')
          /\ \A x : Holds(lru', x) <=> Holds(lru, x) /\ x # k
          /\ Len(lru') = IF Holds(lru, k) THEN Len(lru) - 1 ELSE Len(lru)
      BY <1>1, <1>3, DropFacts
    <2>2. Len(lru) \in Nat
      BY <1>1
    <2>3. Len(lru') <= MaxEntries
      BY <1>1, <2>1, <2>2, CacheAssumption
    <2> QED BY <2>1, <2>3
  <1>8. \A x \in Keys : store'[x] = IF x = k THEN NoEntry ELSE store[x]
    BY <1>1, <1>3
  <1>9. store' \in [Keys -> Entry \cup {NoEntry}]
    BY <1>1, <1>3
  <1>10. \A x \in Keys : Holds(lru', x) <=> store'[x] # NoEntry
    BY <1>1, <1>7, <1>8
  <1>11. TypeOK'
    BY <1>1, <1>3, <1>6, <1>7, <1>9, <1>10 DEF TypeOK, Cached
  <1>12. StoreGood'
    BY <1>8 DEF Inv, StoreGood, Good
  <1> QED BY <1>6, <1>11, <1>12 DEF Inv

LEMMA ToIdleInv ==
    ASSUME Inv, NEW t \in Threads, th' = [th EXCEPT ![t] = Idle],
           UNCHANGED <<clock, lru, store>>
    PROVE  Inv'
  <1>1. Idle \notin Lookup /\ Idle \notin Tee
    BY Phases
  <1> QED BY <1>1, CacheAlone

LEMMA ModifyResponseInv ==
    ASSUME Inv, NEW t \in Threads, NEW resp \in Response, NEW ttl \in TTLs,
           ModifyResponse(t, resp, ttl)
    PROVE  Inv'
  <1> DEFINE r == [pc |-> "tee", key |-> th[t].key, resp |-> resp, ttl |-> ttl,
                   born |-> clock, got |-> 0, tooBig |-> FALSE]
  <1>1. CASE storable(resp)
    <2>1. th[t] \in Fetch /\ clock \in Nat
      BY Phases DEF ModifyResponse, Inv, TypeOK
    <2>2. th[t].key \in Keys
      BY <2>1 DEF Fetch
    <2>3. r \in Tee
      BY <2>1, <2>2 DEF Tee
    <2>4. resp.public /\ resp.size \in Nat
      BY <1>1, CacheAssumption DEF storable, Response
    <2>5. Teeing(r)
      BY <2>1, <2>4, CacheAssumption DEF Teeing
    <2>6. th' = [th EXCEPT ![t] = r] /\ UNCHANGED <<clock, lru, store>>
      BY <1>1 DEF ModifyResponse
    <2> HIDE DEF r
    <2>7. r \notin Lookup
      BY <2>3, Phases
    <2> QED BY <2>3, <2>5, <2>6, <2>7, CacheAlone
  <1>2. CASE ~storable(resp)
    <2>1. th' = [th EXCEPT ![t] = Idle] /\ UNCHANGED <<clock, lru, store>>
      BY <1>2 DEF ModifyResponse
    <2> QED BY <2>1, ToIdleInv
  <1> QED BY <1>1, <1>2

LEMMA ReadInv ==
    ASSUME Inv, NEW t \in Threads, Read(t)
    PROVE  Inv'
  <1> DEFINE b == th[t]
             big == b.tooBig \/ (MaxObject > 0 /\ b.got + 1 > MaxObject)
             g == [b EXCEPT !.got = b.got + 1]
             r == [g EXCEPT !.tooBig = big]
  <1>1. b \in Tee /\ Teeing(b) /\ clock \in Nat
    BY Phases DEF Read, Inv, TypeOK, TeesGood
  <1>2. big \in BOOLEAN
    BY <1>1 DEF Tee
  <1>3. /\ b.resp.size \in Nat /\ b.got \in Nat /\ b.born \in Nat
        /\ b.got < b.resp.size
    BY <1>1, CacheAssumption DEF Read, Tee, Response
  <1>4. MaxObject > 0 /\ b.got + 1 > MaxObject => big
    OBVIOUS
  <1>5. th' = [th EXCEPT ![t] = r] /\ UNCHANGED <<clock, lru, store>>
    BY DEF Read
  <1> HIDE DEF big
  <1>6. g \in Tee
    BY <1>1, <1>3 DEF Tee
  <1>7. g.resp = b.resp /\ g.got = b.got + 1 /\ g.born = b.born
    BY <1>1 DEF Tee
  <1> HIDE DEF g
  <1>8. r \in Tee
    BY <1>2, <1>6 DEF Tee
  <1>9. r.resp = b.resp /\ r.got = b.got + 1 /\ r.tooBig = big /\ r.born = b.born
    BY <1>6, <1>7 DEF Tee
  <1> HIDE DEF r
  <1>10. Teeing(r)
    BY <1>1, <1>3, <1>4, <1>9 DEF Teeing
  <1>11. r \notin Lookup
    BY <1>8, Phases
  <1> QED BY <1>5, <1>8, <1>10, <1>11, CacheAlone

\* The body that is complete and not too big leaves a good entry.
LEMMA NewEntryGood ==
    ASSUME Inv, NEW b \in Tee, Teeing(b), b.got = b.resp.size, ~b.tooBig
    PROVE  NewEntry(b) \in Entry /\ Good(NewEntry(b))
  <1>1. /\ clock \in Nat /\ b.ttl \in TTLs /\ b.ttl \in Nat /\ b.born \in Nat
        /\ b.got \in Nat /\ b.resp \in Response
    BY CacheAssumption DEF Inv, TypeOK, Tee
  <1>2. NewEntry(b) \in Entry
    BY <1>1 DEF NewEntry, Entry
  <1>3. Good(NewEntry(b))
    BY <1>1, CacheAssumption DEF NewEntry, Good, Teeing
  <1> QED BY <1>2, <1>3

LEMMA ReadEOFInv ==
    ASSUME Inv, NEW t \in Threads, ReadEOF(t)
    PROVE  Inv'
  <1> DEFINE b == th[t]
  <1>1. b \in Tee /\ Teeing(b) /\ clock \in Nat /\ b.got = b.resp.size
    BY Phases DEF ReadEOF, Inv, TypeOK, TeesGood
  <1>2. th' = [th EXCEPT ![t] = Idle] /\ clock' = clock
    BY DEF ReadEOF
  <1>3. CASE b.tooBig
    <2>1. UNCHANGED <<clock, lru, store>>
      BY <1>3 DEF ReadEOF
    <2> QED BY <1>2, <2>1, ToIdleInv
  <1>4. CASE ~b.tooBig
    <2> DEFINE k == b.key
               e == NewEntry(b)
    <2>1. Put(k, e)
      BY <1>4 DEF ReadEOF
    <2>2. k \in Keys
      BY <1>1 DEF Tee
    <2>3. e \in Entry /\ Good(e)
      BY <1>1, <1>4, NewEntryGood
    <2> HIDE DEF k, e
    <2>4. /\ lru \in Seq(Keys) /\ Distinct(lru) /\ Len(lru) <= MaxEntries
          /\ store \in [Keys -> Entry \cup {NoEntry}]
          /\ \A x \in Keys : Holds(lru, x) <=> store[x] # NoEntry
      BY DEF Inv, TypeOK, Cached
    <2>5. /\ lru' \in Seq(Keys) /\ Distinct(lru') /\ Len(lru') <= MaxEntries
          /\ Holds(lru', k) /\ \A x : Holds(lru', x) => Holds(lru, x) \/ x = k
      <3>1. lru' = Inserted(lru, k, MaxEntries)
        BY <2>1 DEF Put, Added
      <3> QED BY <2>2, <2>4, <3>1, InsertedFacts, CacheAssumption
    <2>6. store' = [x \in Keys |-> IF x = k THEN e
                                   ELSE IF Holds(lru', x) THEN store[x] ELSE NoEntry]
      BY <2>1 DEF Put
    <2>7. store' \in [Keys -> Entry \cup {NoEntry}]
      BY <2>3, <2>4, <2>6
    <2>8. \A x \in Keys : Holds(lru', x) <=> store'[x] # NoEntry
      BY <2>3, <2>4, <2>5, <2>6, EntryIsOne
    <2>9. \A x \in Keys : store'[x] # NoEntry => Good(store'[x])
      BY <2>3, <2>6 DEF Inv, StoreGood
    <2>10. Idle \notin Lookup /\ Idle \notin Tee
      BY Phases
    <2>11. /\ th' \in [Threads -> Lookup \cup Fetch \cup Tee \cup {Idle}]
           /\ LookupsGood' /\ TeesGood'
      BY <1>2, <2>10, RequestMoves
    <2>12. TypeOK'
      BY <1>1, <1>2, <2>5, <2>7, <2>8, <2>11 DEF TypeOK, Cached
    <2>13. StoreGood'
      BY <2>9 DEF StoreGood, Good
    <2> QED BY <2>11, <2>12, <2>13 DEF Inv
  <1> QED BY <1>3, <1>4

\* A transfer that the clock would make too long has ended before.
LEMMA TickInv ==
    ASSUME Inv, Tick
    PROVE  Inv'
  <1>1. clock \in Nat /\ clock' = clock + 1 /\ lru' = lru /\ store' = store /\ th' = th
    BY DEF Inv, TypeOK, Tick
  <1>2. TypeOK'
    BY <1>1 DEF Inv, TypeOK, Cached
  <1>3. StoreGood'
    BY <1>1 DEF Inv, StoreGood, Good
  <1>4. LookupsGood'
    BY <1>1 DEF Inv, LookupsGood, Good
  <1>5. ASSUME NEW t \in Threads, th[t] \in Tee
        PROVE  Teeing(th[t])'
    <2>1. Teeing(th[t]) /\ th[t].pc = "tee" /\ th[t].born \in Nat
      BY <1>5, Phases DEF Inv, TeesGood, Tee
    <2>2. clock - th[t].born < MaxTransfer
      BY <2>1 DEF Tick
    <2>3. clock + 1 - th[t].born <= MaxTransfer
      BY <1>1, <2>1, <2>2, CacheAssumption
    <2> QED BY <1>1, <2>1, <2>3 DEF Teeing
  <1>6. TeesGood'
    BY <1>1, <1>5 DEF TeesGood
  <1> QED BY <1>2, <1>3, <1>4, <1>6 DEF Inv

LEMMA NextInv == Inv /\ [Next]_vars => Inv'
  <1> SUFFICES ASSUME Inv, [Next]_vars PROVE Inv'
    OBVIOUS
  <1>1. ASSUME NEW t \in Threads, NEW k \in Keys, Get(t, k) PROVE Inv'
    BY <1>1, GetInv
  <1>2. ASSUME NEW t \in Threads, NEW resp \in Response, NEW ttl \in TTLs,
               ModifyResponse(t, resp, ttl)
        PROVE  Inv'
    BY <1>2, ModifyResponseInv
  <1>3. ASSUME NEW t \in Threads, CheckExpiry(t) PROVE Inv'
    BY <1>3, CheckExpiryInv
  <1>4. ASSUME NEW t \in Threads, Remove(t) PROVE Inv'
    BY <1>4, RemoveInv
  <1>5. ASSUME NEW t \in Threads, ServeCacheHit(t) PROVE Inv'
    BY <1>5, ToIdleInv DEF ServeCacheHit
  <1>6. ASSUME NEW t \in Threads, Read(t) PROVE Inv'
    BY <1>6, ReadInv
  <1>7. ASSUME NEW t \in Threads, ReadEOF(t) PROVE Inv'
    BY <1>7, ReadEOFInv
  <1>8. ASSUME NEW t \in Threads, Close(t) PROVE Inv'
    BY <1>8, ToIdleInv DEF Close
  <1>9. CASE Tick
    BY <1>9, TickInv
  <1>10. CASE UNCHANGED vars
    BY <1>10 DEF vars, Inv, TypeOK, Cached, StoreGood, LookupsGood, TeesGood, Good, Teeing
  <1> QED BY <1>1, <1>2, <1>3, <1>4, <1>5, <1>6, <1>7, <1>8, <1>9, <1>10 DEF Next

-----------------------------------------------------------------------------
(* The theorems *)

\* The inductive invariant holds of every behaviour of the cache.
THEOREM Invariant == Spec => []Inv
  BY InitInv, NextInv, PTL DEF Spec

\* The LRU never exceeds its capacity nor holds a key twice, and the store has
\* an object for exactly the keys in it, whatever interleaves with what.
THEOREM CacheTypes == Spec => []TypeOK
  <1>1. Inv => TypeOK
    BY DEF Inv
  <1> QED BY Invariant, <1>1, PTL

\* Nothing but the complete body of a public response within the size limit is
\* ever in the cache (proxy.go:541).
THEOREM WholeObjects == Spec => []OnlyWholeObjects
  <1>1. Inv => OnlyWholeObjects
    BY DEF Inv, TypeOK, StoreGood, Good, OnlyWholeObjects
  <1> QED BY Invariant, <1>1, PTL

\* A hit is never older than a TTL of the configuration and one transfer.
THEOREM FreshHits == Spec => HitsAreFresh
  <1>1. ASSUME Inv, Next, NEW t \in Threads, th[t].pc = "check", th'[t].pc = "hit"
        PROVE  \E ttl \in TTLs : clock - th[t].e.born <= ttl + MaxTransfer
    <2>1. th[t] \in Lookup /\ Good(th[t].e) /\ clock \in Nat
      BY <1>1, Phases DEF Inv, TypeOK, LookupsGood
    <2>2. th[t].e.born \in Nat /\ th[t].e.stored \in Nat /\ th[t].e.expires \in Nat
      BY <2>1 DEF Lookup, Entry
    <2>3. ~(clock > th[t].e.expires)
      <3>1. th'[t] # th[t] /\ th[t] # Idle /\ th[t].pc # "remove" /\ th[t].pc # "hit"
            /\ th[t].pc # "fetch" /\ th[t].pc # "tee"
        BY <1>1 DEF Idle
      <3>2. th \in [Threads -> Lookup \cup Fetch \cup Tee \cup {Idle}]
        BY <1>1 DEF Inv, TypeOK
      <3>3. CheckExpiry(t)
        <4>1. ASSUME NEW u \in Threads, NEW r, th' = [th EXCEPT ![u] = r]
              PROVE  u = t
          BY <3>1, <3>2, <4>1
        <4> QED BY <1>1, <3>1, <3>2, <4>1
              DEF Next, Get, ModifyResponse, CheckExpiry, Remove, ServeCacheHit, Read, ReadEOF,
                  Close, Tick
      <3>4. th'[t] = [th[t] EXCEPT !.pc = IF clock > th[t].e.expires THEN "remove" ELSE "hit"]
        BY <3>2, <3>3 DEF CheckExpiry
      <3>5. th'[t].pc = IF clock > th[t].e.expires THEN "remove" ELSE "hit"
        BY <2>1, <3>4 DEF Lookup
      <3> QED BY <1>1, <3>5
    <2>4. PICK ttl \in TTLs : th[t].e.expires = th[t].e.stored + ttl
      BY <2>1 DEF Good
    <2>5. th[t].e.stored - th[t].e.born <= MaxTransfer
      BY <2>1 DEF Good
    <2>6. clock - th[t].e.born <= ttl + MaxTransfer
      BY <2>1, <2>2, <2>3, <2>4, <2>5, CacheAssumption
    <2> QED BY <2>6
  <1>2. Inv /\ [Next]_vars =>
          [\A t \in Threads : th[t].pc = "check" /\ th'[t].pc = "hit" =>
              \E ttl \in TTLs : clock - th[t].e.born <= ttl + MaxTransfer]_vars
    BY <1>1
  <1> QED BY Invariant, <1>2, PTL DEF Spec, HitsAreFresh
=============================================================================
