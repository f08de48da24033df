--------------------------- MODULE SessionTracker ---------------------------
(***************************************************************************)
(* The session tracker (internal/session/tracker.go): per session a record *)
(* of the recent hits, in an LRU cache with a TTL, under one mutex.        *)
(*                                                                         *)
(* A request goroutine evaluates a behavioural rule on a snapshot taken    *)
(* under the lock, judges it with a clock read after the unlock, and, when *)
(* the rule does not fire, records its own hit only after the backend has  *)
(* answered.  Other requests of the session run in between.                *)
(***************************************************************************)
EXTENDS LRU, FiniteSets

CONSTANTS
    Keys,               \* session keys
    Paths,              \* request paths
    Threads,            \* request goroutines
    Matchers,           \* the session-matchers of the loaded rules, all enforcing
    MaxEntries,         \* sessions the LRU holds
    TTL,                \* idle time after which a session is forgotten
    maxPageviewStamps,  \* hits kept per session (64 in the code)
    MaxTime             \* bound on the clock

\* The behavioural rule whose limit the properties are about: at most Limit
\* hits per session within Window, all endpoints combined.
CONSTANTS Limit, Window

CheckType == {"session-seen-before", "challenge-passed", "min-prior-pageviews",
              "rate-limit", "endpoint-rate-limit", "last-path-matches", "unknown"}

Check == [type : CheckType, value : Nat, window : Nat, match : Paths \cup {""},
          negate : BOOLEAN]

RateLimit == [condition |-> "and",
              checks |-> {[type |-> "rate-limit", value |-> Limit, window |-> Window,
                           match |-> "", negate |-> FALSE]}]

ASSUME TrackerAssumption ==
    /\ MaxEntries \in Nat \ {0} /\ maxPageviewStamps \in Nat \ {0}
    /\ {TTL, MaxTime} \subseteq Nat
    /\ Limit \in Nat /\ Window \in Nat \ {0}
    /\ "" \notin Paths
    /\ Matchers \subseteq [condition : {"and", "or"}, checks : SUBSET Check]

ASSUME FiniteThreads == IsFiniteSet(Threads)

VARIABLES
    clock,  \* the wall clock
    lru,    \* the keys in the cache, least recently used first
    rec,    \* the record of each key, NoRecord when it is not cached
    th      \* the request each goroutine is serving

vars == <<clock, lru, rec, th>>

-----------------------------------------------------------------------------

Hit == [ts : Nat, path : Paths]

\* History: a hit and the goroutine that recorded it.
HitBy == [ts : Nat, path : Paths, by : Threads]

NoRecord == [seen |-> FALSE, lastSeen |-> 0, lastPath |-> "", passed |-> FALSE,
             pageviews |-> <<>>, all |-> <<>>]

NewRecord == [NoRecord EXCEPT !.seen = TRUE]

\* "all" is history: the hits in the window, without the cap on stamps.
Record_ == [seen : BOOLEAN, lastSeen : Nat, lastPath : Paths \cup {""},
            passed : BOOLEAN, pageviews : Seq(Hit), all : Seq(HitBy)]

Idle == [pc |-> "idle"]

\* A request between two rules or past the last one, and one that judges a
\* snapshot.
Under == [pc : {"eval", "forward"}, key : Keys, path : Paths, todo : SUBSET Matchers]
Judging == [pc : {"judge"}, key : Keys, path : Paths, todo : SUBSET Matchers,
            sm : Matchers, snap : Record_]

\* Number of hits within a window (all of them when it is zero), to one path
\* or, with "", to any.
countWithin(hits, path, window, now) ==
    Cardinality({i \in DOMAIN hits : /\ path \in {"", hits[i].path}
                                     /\ window = 0 \/ hits[i].ts > now - window})

\* One check, on a snapshot of the record.
evalCheck(c, r, path, now) ==
    CASE c.type = "session-seen-before" -> r.seen
      [] c.type = "challenge-passed"    -> r.passed
      [] c.type = "min-prior-pageviews" -> countWithin(r.pageviews, "", c.window, now) >= c.value
      [] c.type = "rate-limit"          -> countWithin(r.pageviews, "", c.window, now) > c.value
      [] c.type = "endpoint-rate-limit" ->
            countWithin(r.pageviews, IF c.match = "" THEN path ELSE c.match,
                        c.window, now) + 1 >= c.value
      [] c.type = "last-path-matches"   -> r.lastPath # "" /\ c.match = r.lastPath
      [] OTHER                          -> FALSE

\* Whether the rule fires.  A rule without checks never does.
Fires(sm, r, path, now) ==
    /\ sm.checks # {}
    /\ IF sm.condition = "and"
       THEN \A c \in sm.checks : evalCheck(c, r, path, now) # c.negate
       ELSE \E c \in sm.checks : evalCheck(c, r, path, now) # c.negate

-----------------------------------------------------------------------------
(* The LRU cache. *)

\* The cache after k was put in or used: it is the most recent, and the least
\* recent is evicted when there are too many.
Added(k) == Inserted(lru, k, MaxEntries)

\* get: the record of k, unless it is missing or idle for longer than TTL.
Stale(r) == clock - r.lastSeen > TTL

get(k) == IF rec[k].seen /\ ~Stale(rec[k]) THEN rec[k] ELSE NoRecord

\* What a lookup leaves behind: k is most recent, or removed when stale.
Looked(k) ==
    /\ lru' = IF ~rec[k].seen THEN lru
              ELSE IF Stale(rec[k]) THEN Drop(lru, k) ELSE Touched(lru, k)
    /\ rec' = [rec EXCEPT ![k] = get(k)]

\* The record of k is replaced; who was evicted loses his.
Store(k, r) ==
    /\ lru' = Added(k)
    /\ rec' = [x \in Keys |-> IF x = k THEN r
                              ELSE IF Holds(Added(k), x) THEN rec[x]
                              ELSE NoRecord]

\* The record of k, or a new one.
Current(k) == IF get(k).seen THEN get(k) ELSE NewRecord

-----------------------------------------------------------------------------
(* A request: Evaluate, judge, and Record. *)

\* Mutation of Trimmed: the cap keeps the oldest hits.
TrimmedOldest(hits) ==
    IF Len(hits) > maxPageviewStamps THEN SubSeq(hits, 1, maxPageviewStamps) ELSE hits

\* Mutation of Trimmed: no cap.
TrimmedNever(hits) == hits

\* At most maxPageviewStamps hits are kept, the latest.
Trimmed(hits) ==
    IF Len(hits) > maxPageviewStamps
    THEN SubSeq(hits, Len(hits) - maxPageviewStamps + 1, Len(hits)) ELSE hits

\* History: the hits from the first on after which all are in the window.
Kept(hits) ==
    LET Cuts == {i \in 0..Len(hits) : \A j \in (i + 1)..Len(hits) : hits[j].ts > clock - Window}
        n    == CHOOSE i \in Cuts : \A j \in Cuts : i <= j
    IN  SubSeq(hits, n + 1, Len(hits))

\* The record with one more hit.
WithHit(r, path, t) ==
    [seen |-> TRUE, lastSeen |-> clock, lastPath |-> path, passed |-> r.passed,
     pageviews |-> Trimmed(Append(r.pageviews, [ts |-> clock, path |-> path])),
     all |-> Append(Kept(r.all), [ts |-> clock, path |-> path, by |-> t])]

\* The request once no rule is left, or the next one is due.
Passed(r) == [pc |-> IF r.todo = {} THEN "forward" ELSE "eval",
              key |-> r.key, path |-> r.path, todo |-> r.todo]

\* A request: every rule is evaluated, one after the other.
Arrive(t, k, path) ==
    /\ th[t] = Idle
    /\ th' = [th EXCEPT ![t] = Passed([key |-> k, path |-> path, todo |-> Matchers])]
    /\ UNCHANGED <<clock, lru, rec>>

\* The snapshot of the record (without the history), under the lock.
Evaluate(t, sm) ==
    LET r == th[t] IN
    /\ r.pc = "eval" /\ sm \in r.todo
    /\ Looked(r.key)
    /\ th' = [th EXCEPT ![t] = [pc |-> "judge", key |-> r.key, path |-> r.path,
                                todo |-> r.todo \ {sm}, sm |-> sm,
                                snap |-> [get(r.key) EXCEPT !.all = <<>>]]]
    /\ UNCHANGED clock

\* Mutation of Judge: the rule is applied to an empty record.
JudgeCold(t) ==
    LET r == th[t] IN
    /\ r.pc = "judge"
    /\ th' = [th EXCEPT ![t] = IF Fires(r.sm, NoRecord, r.path, clock) THEN Idle ELSE Passed(r)]
    /\ UNCHANGED <<clock, lru, rec>>

\* The checks, after the unlock and with a clock of their own: a request that
\* a rule refuses leaves no hit, one that passes them all is forwarded.
Judge(t) ==
    LET r == th[t] IN
    /\ r.pc = "judge"
    /\ th' = [th EXCEPT ![t] = IF Fires(r.sm, r.snap, r.path, clock) THEN Idle ELSE Passed(r)]
    /\ UNCHANGED <<clock, lru, rec>>

\* Mutation of Record: the record is always begun anew.
RecordAnew(t) ==
    /\ th[t].pc = "forward"
    /\ Store(th[t].key, WithHit(NewRecord, th[t].path, t))
    /\ th' = [th EXCEPT ![t] = Idle]
    /\ UNCHANGED clock

\* The backend has answered.
Record(t) ==
    /\ th[t].pc = "forward"
    /\ Store(th[t].key, WithHit(Current(th[t].key), th[t].path, t))
    /\ th' = [th EXCEPT ![t] = Idle]
    /\ UNCHANGED clock

-----------------------------------------------------------------------------
(* The challenge flow. *)

MarkChallengePassed(k) ==
    /\ Store(k, [Current(k) EXCEPT !.passed = TRUE, !.lastSeen = clock])
    /\ UNCHANGED <<clock, th>>

ChallengePassed(k) ==
    /\ Looked(k)
    /\ UNCHANGED <<clock, th>>

Tick ==
    /\ clock < MaxTime
    /\ clock' = clock + 1
    /\ UNCHANGED <<lru, rec, th>>

-----------------------------------------------------------------------------

Init ==
    /\ clock = 0
    /\ lru = <<>>
    /\ rec = [k \in Keys |-> NoRecord]
    /\ th = [t \in Threads |-> Idle]

Next ==
    \/ \E t \in Threads, k \in Keys, path \in Paths : Arrive(t, k, path)
    \/ \E t \in Threads, sm \in Matchers : Evaluate(t, sm)
    \/ \E t \in Threads : Judge(t) \/ Record(t)
    \/ \E k \in Keys : MarkChallengePassed(k) \/ ChallengePassed(k)
    \/ Tick

Spec == Init /\ [][Next]_vars

-----------------------------------------------------------------------------
(* Properties *)

\* The variables have their types: the cache holds each key once, as many as
\* it may, and exactly the cached keys have a record, of bounded length.
TypeOK ==
    /\ clock \in Nat
    /\ lru \in Seq(Keys) /\ Len(lru) <= MaxEntries
    /\ Distinct(lru)
    /\ rec \in [Keys -> Record_]
    /\ \A k \in Keys : rec[k].seen <=> Holds(lru, k)
    /\ \A k \in Keys : Len(rec[k].pageviews) <= maxPageviewStamps
    /\ th \in [Threads -> Under \cup Judging \cup {Idle}]

\* The limit of a rate-limit rule is exceeded only by what was in flight: of
\* the requests of one session, at most Limit plus one per goroutine pass the
\* rule within any window of the record's life, although the check
\* (tracker.go:138-155) and the recording of the hit (tracker.go:88-106) are far
\* apart.  The limit must be below the number of stamps that are kept: nothing
\* in the code demands it, and a larger one never refuses anybody.
OvershootBounded ==
    RateLimit \in Matchers /\ Limit < maxPageviewStamps =>
        \A k \in Keys : Len(rec[k].all) <= Limit + Cardinality(Threads)

\* Keeping only maxPageviewStamps hits never hides that a session is over a
\* limit below that: the capped list answers the rate-limit check as the full
\* one would (tracker.go:98-101).
StampsSuffice ==
    Limit < maxPageviewStamps =>
        \A k \in Keys :
            (countWithin(rec[k].pageviews, "", Window, clock) > Limit)
                <=> (countWithin(rec[k].all, "", Window, clock) > Limit)

\* A session keeps its passed challenge until it has been idle for longer
\* than the TTL, or as many other sessions as the cache holds were used since.
GraceKept ==
    [][\A k \in Keys : rec[k].passed /\ ~rec'[k].passed =>
          Stale(rec[k]) \/ (~rec'[k].seen /\ lru[1] = k /\ Len(lru) = MaxEntries)]_vars
=============================================================================
