---------------------------- MODULE RateGovernor ----------------------------
(***************************************************************************)
(* The proactive guard (internal/protect/protect.go): the stateless anomaly *)
(* score of a request, and the per-address flood governor, a token bucket  *)
(* per client address in an LRU cache.  The options are read with the      *)
(* configuration at the start of a request, the clock before the lock, so  *)
(* buckets are charged with clocks out of order and with the burst of a    *)
(* configuration that a hot reload has replaced.                           *)
(*                                                                         *)
(* A token is counted in 1/Window parts: the refill of Burst/Window tokens *)
(* per second is Burst parts, and the arithmetic is exact.  (The code      *)
(* computes in float64.)                                                   *)
(***************************************************************************)
EXTENDS LRU, FiniteSets

CONSTANTS
    IPs,              \* client addresses
    Threads,          \* request goroutines
    Requests,         \* shapes of requests, a subset of Shape
    Threshold,        \* AnomalyOptions.Threshold
    Bursts,           \* values of RateOptions.Burst; 0 is a governor that is off
    Window,           \* RateOptions.Window in ticks
    SensitiveWeight,  \* RateOptions.SensitiveWeight
    MaxIPs,           \* buckets the LRU holds
    MaxTime,          \* bound on the clock
    MaxDelay,         \* bound on the time between the start of a request and its charge
    MaxReloads        \* bound on the hot reloads

\* What the guard sees of a request: method, User-Agent, the two headers a
\* browser sends, and what its URL contains.
Shape == [method : {"GET", "POST", "TRACE"}, ua : {"browser", "empty", "offensive", "script"},
          accept : BOOLEAN, language : BOOLEAN, scanner : BOOLEAN, injection : BOOLEAN,
          overlong : BOOLEAN, sensitive : BOOLEAN]

ASSUME GovernorAssumption ==
    /\ Requests \subseteq Shape
    /\ Bursts \subseteq Nat
    /\ {Window, MaxIPs, Threshold} \subseteq Nat \ {0}
    /\ {SensitiveWeight, MaxTime, MaxDelay, MaxReloads} \subseteq Nat

VARIABLES
    clock,    \* the wall clock
    burst,    \* RateOptions.Burst of the configuration in force
    lru,      \* the addresses with a bucket, least recently used first
    bucket,   \* the bucket of each address
    th,       \* the request of each goroutine
    reloads,  \* hot reloads so far
    force,    \* history: the bursts in force during each tick
    spent     \* history: per address and time, the cost its bucket admitted since

vars == <<clock, burst, lru, bucket, th, reloads, force, spent>>

-----------------------------------------------------------------------------
(* The anomaly score *)

\* The weight of each signal.
weight == [offensiveUA |-> 100, badMethod |-> 100, scannerPath |-> 55, injection |-> 55,
           emptyUA |-> 35, scriptUA |-> 25, noAccept |-> 20, noAccLang |-> 10, overlong |-> 20]

\* The signals of a request; the headers count for a GET only.
Signals(r) ==
    {x \in DOMAIN weight :
        CASE x = "offensiveUA" -> r.ua = "offensive"
          [] x = "emptyUA"     -> r.ua = "empty"
          [] x = "scriptUA"    -> r.ua = "script"
          [] x = "badMethod"   -> r.method = "TRACE"
          [] x = "noAccept"    -> r.method = "GET" /\ ~r.accept
          [] x = "noAccLang"   -> r.method = "GET" /\ ~r.language
          [] x = "scannerPath" -> r.scanner
          [] x = "injection"   -> r.injection
          [] x = "overlong"    -> r.overlong}

\* The sum of the weights w of the signals.
Total(r, w) ==
    LET Points(x) == IF x \in Signals(r) THEN w[x] ELSE 0
    IN  Points("badMethod") + Points("emptyUA") + Points("offensiveUA") + Points("scriptUA")
        + Points("noAccept") + Points("noAccLang") + Points("scannerPath") + Points("injection")
        + Points("overlong")

\* Mutation of anomalyScore: a signal about headers counts as much as a probe.
anomalyScoreHeaders(r) == Total(r, [weight EXCEPT !.emptyUA = 55, !.noAccept = 55])

anomalyScore(r) == Total(r, weight)

\* The requests that Assess flags.
Anomalous == {r \in Requests : anomalyScore(r) >= Threshold}

-----------------------------------------------------------------------------
(* The token bucket *)

Time == 0..MaxTime

\* A request that is assessed, and one that waits for the lock.
Assessed == [pc : {"assess"}, ip : IPs, burst : Bursts, now : Time]
Waiting == [pc : {"lock"}, ip : IPs, burst : Bursts \ {0}, cost : Nat, now : Time]
Flagged == [pc |-> "flagged"]
Idle == [pc |-> "idle"]

\* The parts of a full bucket.
Full(b) == b * Window

\* The parts a request costs: sensitive paths weigh more.
Cost(sensitive) == Window * (IF sensitive /\ SensitiveWeight > 1 THEN SensitiveWeight ELSE 1)

Tracked(ip) == Holds(lru, ip)

\* buckets.Get followed, for a new address, by buckets.Add.
Used(ip) == Inserted(lru, ip, MaxIPs)

\* Adding the bucket of ip evicts that of x.
Evicted(x, ip) == ~Holds(Used(ip), x)

NoBucket == [tokens |-> 0, last |-> 0]

Nothing == [s \in Time |-> 0]

NewBucket(b, now) == [tokens |-> Full(b), last |-> now]

\* No more than a full bucket.
Capped(n, b) == IF n > Full(b) THEN Full(b) ELSE n

\* Mutation of Refilled: a clock that went backwards is taken as it is.
RefilledBackwards(x, b, now) ==
    [tokens |-> Capped(x.tokens + (now - x.last) * b, b), last |-> now]

\* Mutation of Refilled: the bucket is not capped at the burst.
RefilledUncapped(x, b, now) ==
    IF now > x.last THEN [tokens |-> x.tokens + (now - x.last) * b, last |-> now] ELSE x

\* Mutation of Refilled: every look at the bucket restarts the refill.
RefilledLost(x, b, now) ==
    IF now > x.last THEN [tokens |-> Capped(x.tokens + (now - x.last - 1) * b, b), last |-> now]
    ELSE x

\* Bucket x at time now, under a burst of b.  A bucket that holds more than
\* b, from a configuration with a larger burst, is cut when time has passed.
Refilled(x, b, now) ==
    IF now > x.last THEN [tokens |-> Capped(x.tokens + (now - x.last) * b, b), last |-> now]
    ELSE x

-----------------------------------------------------------------------------

\* A request reads the configuration.
Arrive(t, ip) ==
    /\ th[t] = Idle
    /\ th' = [th EXCEPT ![t] = [pc |-> "assess", ip |-> ip, burst |-> burst, now |-> clock]]
    /\ UNCHANGED <<clock, burst, lru, bucket, reloads, force, spent>>

\* Assess: an anomalous request is acted on and costs nothing; a governor
\* that is off (Enabled, or a burst of 0) lets the others pass; else the
\* clock is read.
Assess(t, r) ==
    LET q == th[t] IN
    /\ q.pc = "assess"
    /\ th' = [th EXCEPT ![t] =
          IF r \in Anomalous THEN Flagged
          ELSE IF q.burst = 0 THEN Idle
          ELSE [pc |-> "lock", ip |-> q.ip, burst |-> q.burst, cost |-> Cost(r.sensitive), now |-> clock]]
    /\ UNCHANGED <<clock, burst, lru, bucket, reloads, force, spent>>

\* The proxy acts on an anomalous request (module Proxy).
Act(t) ==
    /\ th[t].pc = "flagged"
    /\ th' = [th EXCEPT ![t] = Idle]
    /\ UNCHANGED <<clock, burst, lru, bucket, reloads, force, spent>>

\* The bucket a request finds, refilled.
Found(t) ==
    LET x == IF Tracked(th[t].ip) THEN bucket[th[t].ip] ELSE NewBucket(th[t].burst, th[t].now)
    IN  Refilled(x, th[t].burst, th[t].now)

Admits(t) == Found(t).tokens >= th[t].cost

\* The critical section: refill, and charge if the tokens suffice.
Allow(t) ==
    LET ip   == th[t].ip
        cost == IF Admits(t) THEN th[t].cost ELSE 0
    IN
    /\ th[t].pc = "lock"
    /\ lru' = Used(ip)
    /\ bucket' = [x \in IPs |-> IF x = ip THEN [tokens |-> Found(t).tokens - cost, last |-> Found(t).last]
                               ELSE IF Evicted(x, ip) THEN NoBucket ELSE bucket[x]]
    /\ spent' = [x \in IPs |->
          IF x = ip THEN [s \in Time |-> spent[x][s] + (IF s <= clock THEN cost ELSE 0)]
          ELSE IF Evicted(x, ip) THEN Nothing ELSE spent[x]]
    /\ th' = [th EXCEPT ![t] = Idle]
    /\ UNCHANGED <<clock, burst, reloads, force>>

\* A hot reload of protection.rate_limit; the buckets stay.
Reload(b) ==
    /\ reloads < MaxReloads
    /\ b # burst
    /\ burst' = b
    /\ reloads' = reloads + 1
    /\ force' = [force EXCEPT ![clock] = @ \cup {b}]
    /\ UNCHANGED <<clock, lru, bucket, th, spent>>

Tick ==
    /\ clock < MaxTime
    /\ \A t \in Threads : th[t].pc \in {"assess", "lock"} => clock - th[t].now < MaxDelay
    /\ clock' = clock + 1
    /\ force' = [force EXCEPT ![clock'] = {burst}]
    /\ UNCHANGED <<burst, lru, bucket, th, reloads, spent>>

-----------------------------------------------------------------------------

Init ==
    /\ clock = 0
    /\ burst \in Bursts
    /\ lru = <<>>
    /\ bucket = [ip \in IPs |-> NoBucket]
    /\ th = [t \in Threads |-> Idle]
    /\ reloads = 0
    /\ force = [s \in Time |-> IF s = 0 THEN {burst} ELSE {}]
    /\ spent = [ip \in IPs |-> Nothing]

Next ==
    \/ \E t \in Threads, ip \in IPs : Arrive(t, ip)
    \/ \E t \in Threads, r \in Requests : Assess(t, r)
    \/ \E t \in Threads : Act(t) \/ Allow(t)
    \/ \E b \in Bursts : Reload(b)
    \/ Tick

\* The governor serves forever; only the bound on the clock stops it.
Spec == Init /\ [][Next]_vars

-----------------------------------------------------------------------------
(* Properties *)

\* The variables have their types; a bucket is never in debt and never holds
\* more than a burst, and no bucket or waiting request is from the future.
TypeOK ==
    /\ clock \in Time
    /\ burst \in Bursts
    /\ lru \in Seq(IPs) /\ Len(lru) <= MaxIPs
    /\ Distinct(lru)
    /\ bucket \in [IPs -> [tokens : Nat, last : Nat]]
    /\ \A ip \in IPs : bucket[ip].last <= clock /\ \E b \in Bursts : bucket[ip].tokens <= Full(b)
    /\ th \in [Threads -> Assessed \cup Waiting \cup {Flagged, Idle}]
    /\ \A t \in Threads : th[t].pc = "lock" => th[t].now <= clock
    /\ reloads \in 0..MaxReloads
    /\ force \in [Time -> SUBSET Bursts]
    /\ spent \in [IPs -> [Time -> Nat]]

\* The bursts that requests charged since time s may have read: the delay of
\* a request reaches back twice, from its charge to its start and, for a
\* bucket it does not cut, to the start of the request that filled it.
ReadSince(s) ==
    {b \in Bursts \ {0} : \E u \in Time : u >= s - 2 * MaxDelay /\ b \in force[u]}

\* The budget: in any stretch of time a tracked address is admitted for at
\* most a burst of tokens plus what is refilled meanwhile, at a burst per
\* window; a clock read before the lock stretches the time by its delay and
\* no more.  The burst is the largest in force since then: a reload that
\* lowers it binds the buckets that were filled before (protect.go:118-137).
BudgetHolds ==
    \A ip \in IPs, s \in 0..clock, b \in Bursts \cup {0} :
        (\A x \in ReadSince(s) : x <= b) =>
            spent[ip][s] <= Full(b) + (clock - s + MaxDelay) * b

\* A client within its budget is never throttled: whoever is refused has
\* been admitted, within the last window, for so much that this request
\* would exceed a burst in force meanwhile (or asks for more than that in one
\* request).
ThrottledForCause ==
    [][\A t \in Threads : Allow(t) /\ ~Admits(t) =>
          LET s == IF th[t].now < Window THEN 0 ELSE th[t].now - Window + 1
          IN  \E b \in ReadSince(s) : th[t].cost + spent[th[t].ip][s] > Full(b)]_vars

Unmistakable == {r \in Requests : r.ua = "offensive" \/ r.method = "TRACE"}

Probing == {r \in Requests : (r.scanner \/ r.injection) /\ Cardinality(Signals(r)) > 1}

\* "A single unmistakable signal ... is worth the default threshold on its
\* own; softer signals must combine" (protect.go:176-177): the tool of an
\* attacker or an abusive method is always flagged, and nothing else is
\* unless its URL probes and another signal joins in; whoever only lacks
\* the headers of a browser is left to the governor.
AnomalyForCause ==
    [][\A t \in Threads, r \in Requests : Assess(t, r) =>
          /\ r \in Unmistakable => th'[t].pc = "flagged"
          /\ th'[t].pc = "flagged" => r \in Unmistakable \cup Probing]_vars
=============================================================================
