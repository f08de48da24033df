------------------------- MODULE RateGovernorProofs -------------------------
(***************************************************************************)
(* The proactive guard, for every number of addresses and goroutines, all  *)
(* bursts, windows and weights, and any delay of a request: nobody gets    *)
(* more than the budget, nobody within it is refused, and a request is     *)
(* flagged as anomalous only for cause.                                    *)
(***************************************************************************)
EXTENDS RateGovernor, LRUProofs, FiniteSetTheorems, NaturalsInduction,
        WellFoundedInduction, TLAPS

-----------------------------------------------------------------------------
(* The inductive invariant *)

Bucket == [tokens : Nat, last : Nat]

\* Burst b was in force at time n, or at most MaxDelay before.
Read(f, b, n) == b # 0 /\ \E u \in Time : n - MaxDelay <= u /\ u <= n /\ b \in f[u]

\* A request is not older than MaxDelay, nor is what it read.
RequestsInTime ==
    \A t \in Threads :
        /\ th[t] \in Assessed => /\ th[t].now <= clock /\ clock - th[t].now <= MaxDelay
                                 /\ th[t].burst \in force[th[t].now]
        /\ th[t] \in Waiting => /\ th[t].now <= clock /\ clock - th[t].now <= MaxDelay
                                /\ Read(force, th[t].burst, th[t].now)

\* A bucket holds no more than a burst that was in force when it was filled.
Filled(f, x) == \E b \in Bursts : Read(f, b, x.last) /\ x.tokens <= Full(b)

BucketsFilled ==
    \A ip \in IPs :
        /\ Tracked(ip) => Filled(force, bucket[ip])
        /\ ~Tracked(ip) => bucket[ip] = NoBucket /\ spent[ip] = Nothing

\* The future is empty.
FutureEmpty ==
    /\ burst \in force[clock]
    /\ \A u \in Time : u > clock => force[u] = {} /\ \A ip \in IPs : spent[ip][u] = 0

\* Bounds on what a bucket holds and has given since time s, when every burst
\* read since is at most, or at least, b.
AtMost(x, given, s, b) ==
    given > 0 => /\ x.last >= s - MaxDelay
                 /\ x.tokens + given <= Full(b) + (x.last - s + MaxDelay) * b

AtLeast(x, given, s, b) ==
    \/ x.tokens + given >= Full(b)
    \/ s > 0 /\ x.tokens + given >= (x.last - s + 1) * b

Bounds ==
    \A ip \in IPs, s \in 0..clock, b \in Bursts \cup {0} :
        /\ (\A x \in ReadSince(s) : x <= b) => AtMost(bucket[ip], spent[ip][s], s, b)
        /\ Tracked(ip) /\ (\A x \in ReadSince(s) : b <= x) => AtLeast(bucket[ip], spent[ip][s], s, b)

Inv ==
    /\ TypeOK
    /\ RequestsInTime
    /\ BucketsFilled
    /\ FutureEmpty
    /\ Bounds

-----------------------------------------------------------------------------
(* The operators *)

LEMMA Constants ==
    /\ Bursts \subseteq Nat /\ Window \in Nat \ {0} /\ MaxIPs \in Nat \ {0} /\ Threshold \in Nat \ {0}
    /\ SensitiveWeight \in Nat /\ MaxTime \in Nat /\ MaxDelay \in Nat /\ MaxReloads \in Nat
  BY GovernorAssumption

\* A set of numbers that is not empty has a least one.
LEMMA LeastExists ==
    ASSUME NEW S \in SUBSET Nat, S # {}
    PROVE  \E n \in S : \A m \in S : n <= m
  <1>1. PICK x \in S : \A y \in S : ~(<<y, x>> \in OpToRel(<, Nat))
    <2>1. IsWellFoundedOn(OpToRel(<, Nat), Nat)
      BY NatLessThanWellFounded
    <2> QED BY <2>1, WFMin
  <1>2. \A y \in S : ~(y < x)
    BY <1>1 DEF OpToRel
  <1> QED BY <1>2

LEMMA Products ==
    /\ \A m, n, b \in Int : m * b + n * b = (m + n) * b
    /\ \A n, b \in Nat : n * b \in Nat
    /\ \A m, n, b \in Nat : m <= n => b * m <= b * n
    /\ \A m, n, b \in Nat : m <= n => m * b <= n * b
  OBVIOUS

LEMMA FullFacts ==
    /\ \A b \in Nat : Full(b) \in Nat
    /\ \A a, b \in Nat : a <= b => Full(a) <= Full(b)
  BY Constants, Products DEF Full

LEMMA CostFacts ==
    ASSUME NEW sensitive \in BOOLEAN
    PROVE  Cost(sensitive) \in Nat /\ Cost(sensitive) > 0
  <1> DEFINE w == IF sensitive /\ SensitiveWeight > 1 THEN SensitiveWeight ELSE 1
  <1>1. w \in Nat \ {0}
    BY Constants
  <1> HIDE DEF w
  <1>2. Window * w \in Nat /\ Window * w > 0
    BY <1>1, Constants
  <1> QED BY <1>2 DEF Cost, w

\* A refill: no more than the time allows, and no less unless the bucket is
\* full.
LEMMA RefillFacts ==
    ASSUME NEW x \in Bucket, NEW b \in Nat, NEW now \in Nat
    PROVE  LET f == Refilled(x, b, now) IN
           /\ f \in Bucket /\ f.last >= now /\ f.last >= x.last
           /\ f.last = IF now > x.last THEN now ELSE x.last
           /\ now > x.last => f.tokens <= Full(b)
           /\ ~(now > x.last) => f = x
           /\ f.tokens <= x.tokens + (f.last - x.last) * b
           /\ f.tokens = Full(b) \/ f.tokens = x.tokens + (f.last - x.last) * b
  <1> DEFINE f == Refilled(x, b, now)
             n == x.tokens + (now - x.last) * b
  <1>1. x.tokens \in Nat /\ x.last \in Nat /\ x = [tokens |-> x.tokens, last |-> x.last]
    BY DEF Bucket
  <1>2. Full(b) \in Nat
    BY FullFacts
  <1>3. CASE now > x.last
    <2>1. now - x.last \in Nat
      BY <1>1, <1>3
    <2>2. (now - x.last) * b \in Nat
      BY <2>1, Products
    <2>3. n \in Nat
      BY <1>1, <2>2
    <2>4. f = [tokens |-> Capped(n, b), last |-> now]
      BY <1>3 DEF Refilled
    <2> HIDE DEF n
    <2>5. Capped(n, b) \in Nat /\ Capped(n, b) <= n /\ Capped(n, b) <= Full(b)
          /\ Capped(n, b) \in {n, Full(b)}
      BY <1>2, <2>3 DEF Capped
    <2>6. f.tokens = Capped(n, b) /\ f.last = now /\ f \in Bucket
      BY <2>4, <2>5 DEF Bucket
    <2> HIDE DEF f
    <2> QED BY <1>1, <1>3, <2>5, <2>6 DEF f, n
  <1>4. CASE ~(now > x.last)
    <2>1. f = x
      BY <1>4 DEF Refilled
    <2>2. (x.last - x.last) * b = 0
      BY <1>1
    <2> HIDE DEF f
    <2> QED BY <1>1, <1>4, <2>1, <2>2 DEF f
  <1> QED BY <1>3, <1>4

-----------------------------------------------------------------------------
(* The bursts that were read *)

\* What was read at most MaxDelay before s is among what counts since s.
LEMMA ReadCounts ==
    ASSUME NEW b \in Bursts, NEW n \in Int, NEW s \in Int, Read(force, b, n), n >= s - MaxDelay
    PROVE  b \in ReadSince(s)
  <1>1. PICK u \in Time : n - MaxDelay <= u /\ b \in force[u] /\ b # 0
    BY DEF Read
  <1>2. u \in Int /\ u >= s - 2 * MaxDelay
    BY <1>1, Constants DEF Time
  <1> QED BY <1>1, <1>2 DEF ReadSince

LEMMA ReadSinceTypes ==
    ASSUME NEW s
    PROVE  ReadSince(s) \in SUBSET (Bursts \ {0})
  BY DEF ReadSince

\* More in force: what was read stays read.
LEMMA ForceGrows ==
    ASSUME force \in [Time -> SUBSET Bursts], force' \in [Time -> SUBSET Bursts],
           \A u \in Time : force[u] \subseteq force'[u]
    PROVE  /\ \A b, n : Read(force, b, n) => Read(force', b, n)
           /\ \A x : Filled(force, x) => Filled(force', x)
           /\ \A s : ReadSince(s) \subseteq ReadSince(s)'
  <1>1. \A b, n : Read(force, b, n) => Read(force', b, n)
    BY DEF Read
  <1>2. \A x : Filled(force, x) => Filled(force', x)
    BY <1>1 DEF Filled
  <1>3. \A s : ReadSince(s) \subseteq ReadSince(s)'
    BY DEF ReadSince
  <1> QED BY <1>1, <1>2, <1>3

\* With every burst that counts, more b are bounds; the bounds themselves do
\* not depend on them.
LEMMA BoundsKept ==
    ASSUME Bounds, bucket' = bucket, spent' = spent, lru' = lru, clock' = clock,
           \A s : ReadSince(s) \subseteq ReadSince(s)'
    PROVE  Bounds'
  BY DEF Bounds, Tracked

-----------------------------------------------------------------------------
(* Requests *)

LEMMA RequestParts ==
    /\ \A q \in Assessed : q.pc = "assess" /\ q.ip \in IPs /\ q.burst \in Bursts /\ q.now \in Time
                           /\ q \notin Waiting
    /\ \A q \in Waiting : q.pc = "lock" /\ q.ip \in IPs /\ q.burst \in Bursts \ {0}
                          /\ q.cost \in Nat /\ q.now \in Time /\ q \notin Assessed
    /\ \A q \in {Flagged, Idle} : q.pc \in {"flagged", "idle"} /\ q \notin Assessed \cup Waiting
  BY DEF Assessed, Waiting, Flagged, Idle

\* Request q of a goroutine fits the clock and what was in force.
InTime(q) ==
    /\ q \in Assessed => q.now <= clock /\ clock - q.now <= MaxDelay /\ q.burst \in force[q.now]
    /\ q \in Waiting => q.now <= clock /\ clock - q.now <= MaxDelay /\ Read(force, q.burst, q.now)

\* One goroutine moves on, and nothing else changes.
LEMMA RequestMoves ==
    ASSUME Inv, NEW t \in Threads, NEW q \in Assessed \cup Waiting \cup {Flagged, Idle},
           InTime(q), th' = [th EXCEPT ![t] = q],
           UNCHANGED <<clock, burst, lru, bucket, reloads, force, spent>>
    PROVE  Inv'
  <1> DEFINE Q == Assessed \cup Waiting \cup {Flagged, Idle}
  <1>1. th \in [Threads -> Q] /\ clock \in Time
    BY DEF Inv, TypeOK
  <1>2. th' \in [Threads -> Q] /\ th'[t] = q /\ \A u \in Threads : u # t => th'[u] = th[u]
    <2> HIDE DEF Q
    <2> QED BY <1>1 DEF Q
  <1>3. \A u \in Threads : InTime(th'[u])
    BY <1>2 DEF Inv, RequestsInTime, InTime
  <1>4. RequestsInTime'
    BY <1>3 DEF RequestsInTime, InTime
  <1>5. \A u \in Threads : th'[u].pc = "lock" => th'[u].now <= clock
    BY <1>2, <1>3, RequestParts DEF InTime
  <1>6. TypeOK'
    BY <1>2, <1>5 DEF Inv, TypeOK
  <1>7. BucketsFilled' /\ FutureEmpty'
    BY DEF Inv, BucketsFilled, FutureEmpty, Tracked
  <1>8. Bounds'
    BY DEF Inv, Bounds, ReadSince, Tracked
  <1> QED BY <1>4, <1>6, <1>7, <1>8 DEF Inv

LEMMA ArriveKeeps ==
    ASSUME Inv, NEW t \in Threads, NEW ip \in IPs, Arrive(t, ip)
    PROVE  Inv'
  <1> DEFINE q == [pc |-> "assess", ip |-> ip, burst |-> burst, now |-> clock]
  <1>1. clock \in Time /\ burst \in Bursts /\ burst \in force[clock]
    BY DEF Inv, TypeOK, FutureEmpty
  <1>2. q \in Assessed /\ q.now = clock /\ q.burst = burst
    BY <1>1 DEF Assessed
  <1>3. th' = [th EXCEPT ![t] = q] /\ UNCHANGED <<clock, burst, lru, bucket, reloads, force, spent>>
    BY DEF Arrive
  <1> HIDE DEF q
  <1>4. InTime(q)
    <2>1. clock <= clock /\ clock - clock <= MaxDelay
      BY <1>1, Constants DEF Time
    <2> QED BY <1>1, <1>2, <2>1, RequestParts DEF InTime
  <1> QED BY <1>2, <1>3, <1>4, RequestMoves

LEMMA AssessKeeps ==
    ASSUME Inv, NEW t \in Threads, NEW r \in Requests, Assess(t, r)
    PROVE  Inv'
  <1> DEFINE p == th[t]
             w == [pc |-> "lock", ip |-> p.ip, burst |-> p.burst, cost |-> Cost(r.sensitive),
                   now |-> clock]
             q == IF r \in Anomalous THEN Flagged ELSE IF p.burst = 0 THEN Idle ELSE w
  <1>1. /\ p.pc = "assess" /\ th' = [th EXCEPT ![t] = q]
        /\ UNCHANGED <<clock, burst, lru, bucket, reloads, force, spent>>
    BY DEF Assess
  <1>2. /\ p \in Assessed /\ p.now \in Time /\ p.burst \in Bursts /\ p.ip \in IPs
        /\ p.now <= clock /\ clock - p.now <= MaxDelay /\ p.burst \in force[p.now]
        /\ clock \in Time
    <2>1. p \in Assessed \cup Waiting \cup {Flagged, Idle} /\ clock \in Time
      BY DEF Inv, TypeOK
    <2>2. p \in Assessed
      BY <1>1, <2>1, RequestParts
    <2> QED BY <2>1, <2>2, RequestParts DEF Inv, RequestsInTime
  <1> HIDE DEF p
  <1>3. Cost(r.sensitive) \in Nat
    BY CostFacts, GovernorAssumption DEF Shape
  <1>4. ASSUME p.burst # 0
        PROVE  w \in Waiting /\ InTime(w)
    <2>1. w \in Waiting /\ w.now = clock /\ w.burst = p.burst
      BY <1>2, <1>3, <1>4 DEF Waiting
    <2> HIDE DEF w
    <2>2. clock <= clock /\ clock - clock <= MaxDelay /\ clock - MaxDelay <= p.now
      BY <1>2, Constants DEF Time
    <2>3. Read(force, p.burst, clock)
      BY <1>2, <1>4, <2>2 DEF Read
    <2> QED BY <2>1, <2>2, <2>3, RequestParts DEF InTime
  <1> HIDE DEF w
  <1>5. q \in {Flagged, Idle} \/ (p.burst # 0 /\ q = w)
    OBVIOUS
  <1> HIDE DEF q
  <1>6. q \in Assessed \cup Waiting \cup {Flagged, Idle} /\ InTime(q)
    BY <1>4, <1>5, RequestParts DEF InTime
  <1> QED BY <1>1, <1>6, RequestMoves

LEMMA ActKeeps ==
    ASSUME Inv, NEW t \in Threads, Act(t)
    PROVE  Inv'
  <1>1. InTime(Idle)
    BY RequestParts DEF InTime
  <1> QED BY <1>1, RequestMoves DEF Act

-----------------------------------------------------------------------------
(* The configuration and the clock *)

LEMMA ReloadKeeps ==
    ASSUME Inv, NEW b \in Bursts, Reload(b)
    PROVE  Inv'
  <1>1. /\ burst' = b /\ reloads < MaxReloads /\ reloads' = reloads + 1
        /\ force' = [force EXCEPT ![clock] = @ \cup {b}]
        /\ UNCHANGED <<clock, lru, bucket, th, spent>>
    BY DEF Reload
  <1>2. clock \in Time /\ force \in [Time -> SUBSET Bursts] /\ reloads \in 0..MaxReloads
    BY DEF Inv, TypeOK
  <1>3. /\ force' \in [Time -> SUBSET Bursts] /\ b \in force'[clock]
        /\ \A u \in Time : force[u] \subseteq force'[u]
        /\ \A u \in Time : u # clock => force'[u] = force[u]
    BY <1>1, <1>2
  <1>4. /\ \A c, n : Read(force, c, n) => Read(force', c, n)
        /\ \A x : Filled(force, x) => Filled(force', x)
        /\ \A s : ReadSince(s) \subseteq ReadSince(s)'
    BY <1>2, <1>3, ForceGrows
  <1>5. reloads' \in 0..MaxReloads
    BY <1>1, <1>2, Constants
  <1>6. TypeOK'
    BY <1>1, <1>3, <1>5 DEF Inv, TypeOK
  <1>7. RequestsInTime'
    BY <1>1, <1>3, <1>4, RequestParts DEF Inv, RequestsInTime
  <1>8. BucketsFilled'
    BY <1>1, <1>4 DEF Inv, BucketsFilled, Tracked
  <1>9. FutureEmpty'
    <2>1. \A u \in Time : u > clock => u # clock
      BY <1>2 DEF Time
    <2> QED BY <1>1, <1>3, <2>1 DEF Inv, FutureEmpty
  <1>10. Bounds'
    BY <1>1, <1>4, BoundsKept DEF Inv
  <1> QED BY <1>6, <1>7, <1>8, <1>9, <1>10 DEF Inv

LEMMA TickKeeps ==
    ASSUME Inv, Tick
    PROVE  Inv'
  <1>1. /\ clock < MaxTime /\ clock' = clock + 1
        /\ \A t \in Threads : th[t].pc \in {"assess", "lock"} => clock - th[t].now < MaxDelay
        /\ force' = [force EXCEPT ![clock'] = {burst}]
        /\ UNCHANGED <<burst, lru, bucket, th, reloads, spent>>
    BY DEF Tick
  <1>2. /\ clock \in Time /\ force \in [Time -> SUBSET Bursts] /\ burst \in Bursts
        /\ th \in [Threads -> Assessed \cup Waiting \cup {Flagged, Idle}]
        /\ bucket \in [IPs -> Bucket]
        /\ \A ip \in IPs : bucket[ip].last <= clock
    BY DEF Inv, TypeOK, Bucket
  <1>3. clock' \in Time /\ clock' > clock /\ clock \in Nat /\ clock' \in Nat
    BY <1>1, <1>2, Constants DEF Time
  <1>4. /\ force' \in [Time -> SUBSET Bursts] /\ burst \in force'[clock']
        /\ \A u \in Time : u # clock' => force'[u] = force[u]
    BY <1>1, <1>2, <1>3
  <1>5. \A u \in Time : force[u] \subseteq force'[u]
    <2>1. force[clock'] = {}
      BY <1>3 DEF Inv, FutureEmpty
    <2> QED BY <1>4, <2>1
  <1>6. /\ \A c, n : Read(force, c, n) => Read(force', c, n)
        /\ \A x : Filled(force, x) => Filled(force', x)
        /\ \A s : ReadSince(s) \subseteq ReadSince(s)'
    BY <1>2, <1>4, <1>5, ForceGrows
  <1>7. \A t \in Threads : th[t] \in Assessed \cup Waiting =>
            th[t].now <= clock' /\ clock' - th[t].now <= MaxDelay
    <2> TAKE t \in Threads
    <2> HAVE th[t] \in Assessed \cup Waiting
    <2>1. th[t].pc \in {"assess", "lock"} /\ th[t].now \in Nat
      BY RequestParts, Constants DEF Time
    <2>2. th[t].now <= clock /\ clock - th[t].now < MaxDelay
      BY <1>1, <2>1 DEF Inv, RequestsInTime
    <2> QED BY <1>1, <1>3, <2>1, <2>2, Constants
  <1>8. RequestsInTime'
    <2>1. \A t \in Threads : th[t] \in Assessed => th[t].burst \in force'[th[t].now]
      BY <1>5, RequestParts DEF Inv, RequestsInTime
    <2>2. \A t \in Threads : th[t] \in Waiting => Read(force', th[t].burst, th[t].now)
      BY <1>6 DEF Inv, RequestsInTime
    <2> QED BY <1>1, <1>7, <2>1, <2>2 DEF RequestsInTime
  <1>9. TypeOK'
    <2>1. \A ip \in IPs : bucket[ip].last <= clock'
      <3> TAKE ip \in IPs
      <3>1. bucket[ip].last \in Nat /\ bucket[ip].last <= clock
        BY <1>2 DEF Bucket
      <3> QED BY <1>1, <1>3, <3>1
    <2>2. \A t \in Threads : th[t].pc = "lock" => th[t].now <= clock'
      BY <1>2, <1>7, RequestParts
    <2> QED BY <1>1, <1>3, <1>4, <2>1, <2>2 DEF Inv, TypeOK
  <1>10. BucketsFilled'
    BY <1>1, <1>6 DEF Inv, BucketsFilled, Tracked
  <1>11. FutureEmpty'
    <2>1. \A u \in Time : u > clock' => u > clock /\ u # clock'
      BY <1>1, <1>3 DEF Time
    <2> QED BY <1>1, <1>4, <2>1 DEF Inv, FutureEmpty
  <1>12. Bounds'
    <2> SUFFICES ASSUME NEW ip \in IPs, NEW s \in 0..(clock'), NEW b \in Bursts \cup {0}
                 PROVE  /\ (\A x \in ReadSince(s)' : x <= b) => AtMost(bucket[ip], spent[ip][s], s, b)
                        /\ Tracked(ip) /\ (\A x \in ReadSince(s)' : b <= x) =>
                              AtLeast(bucket[ip], spent[ip][s], s, b)
      BY <1>1 DEF Bounds, Tracked
    <2>1. CASE s \in 0..clock
      BY <1>6, <2>1 DEF Inv, Bounds
    <2>2. CASE s = clock'
      <3>1. spent[ip][s] = 0
        BY <1>3, <2>2 DEF Inv, FutureEmpty
      <3>2. b \in Nat /\ bucket[ip].tokens \in Nat /\ bucket[ip].last \in Nat
            /\ bucket[ip].last <= clock
        BY <1>2, Constants DEF Bucket
      <3>3. AtMost(bucket[ip], spent[ip][s], s, b)
        BY <3>1 DEF AtMost
      <3>4. AtLeast(bucket[ip], spent[ip][s], s, b)
        <4> DEFINE m == bucket[ip].last - s + 1
        <4>1. m \in Int /\ m <= 0 /\ s > 0
          BY <1>1, <1>3, <2>2, <3>2
        <4> HIDE DEF m
        <4>2. m * b <= 0 /\ m * b \in Int
          BY <3>2, <4>1
        <4>3. bucket[ip].tokens + spent[ip][s] >= m * b
          BY <3>1, <3>2, <4>2
        <4> QED BY <4>1, <4>3 DEF AtLeast, m
      <3> QED BY <3>3, <3>4
    <2>3. s \in 0..clock \/ s = clock'
      BY <1>1, <1>3
    <2> QED BY <2>1, <2>2, <2>3
  <1> QED BY <1>8, <1>9, <1>10, <1>11, <1>12 DEF Inv

-----------------------------------------------------------------------------
(* The charge *)

\* The bounds on a bucket after a refill under burst c, and after a charge.
LEMMA BoundsRefilled ==
    ASSUME NEW x \in Bucket, NEW f \in Bucket, NEW given \in Nat, NEW s \in Nat, NEW b \in Nat,
           NEW c \in Nat, f.last >= x.last, f.tokens <= x.tokens + (f.last - x.last) * c
    PROVE  /\ given > 0 /\ c <= b /\ AtMost(x, given, s, b) => AtMost(f, given, s, b)
           /\ /\ b <= c /\ AtLeast(x, given, s, b)
              /\ f.tokens = Full(c) \/ f.tokens = x.tokens + (f.last - x.last) * c
              => AtLeast(f, given, s, b)
  <1> DEFINE d == f.last - x.last
             m == x.last - s + MaxDelay
             n == x.last - s + 1
  <1>1. /\ x.tokens \in Nat /\ x.last \in Nat /\ f.tokens \in Nat /\ f.last \in Nat
        /\ Full(b) \in Nat /\ Full(c) \in Nat /\ d \in Nat /\ m \in Int /\ n \in Int
    BY FullFacts, Constants DEF Bucket
  <1>2. /\ f.last - s + MaxDelay = m + d /\ f.last - s + 1 = n + d
    BY <1>1, Constants
  <1>3. m * b + d * b = (m + d) * b /\ n * b + d * b = (n + d) * b
    BY <1>1, Products
  <1>4. d * b \in Nat /\ d * c \in Nat
    BY <1>1, Products
  <1>5. f.tokens <= x.tokens + d * c
    OBVIOUS
  <1> HIDE DEF d, m, n
  <1>6. m * b \in Int /\ n * b \in Int /\ (m + d) * b \in Int /\ (n + d) * b \in Int
    BY <1>1
  <1>7. ASSUME given > 0, c <= b, AtMost(x, given, s, b)
        PROVE  AtMost(f, given, s, b)
    <2>1. d * c <= d * b
      BY <1>1, <1>7, Products
    <2>2. x.last >= s - MaxDelay /\ x.tokens + given <= Full(b) + m * b
      BY <1>7 DEF AtMost, m
    <2>3. f.tokens + given <= Full(b) + (m + d) * b
      BY <1>1, <1>3, <1>4, <1>5, <1>6, <2>1, <2>2
    <2>4. f.last >= s - MaxDelay
      BY <1>1, <2>2, Constants
    <2> QED BY <1>2, <2>3, <2>4 DEF AtMost
  <1>8. ASSUME b <= c, AtLeast(x, given, s, b),
               f.tokens = Full(c) \/ f.tokens = x.tokens + (f.last - x.last) * c
        PROVE  AtLeast(f, given, s, b)
    <2>1. d * b <= d * c /\ Full(b) <= Full(c)
      BY <1>1, <1>8, Products, FullFacts
    <2>2. CASE f.tokens = Full(c)
      <3>1. f.tokens + given >= Full(b)
        BY <1>1, <2>1, <2>2
      <3> QED BY <3>1 DEF AtLeast
    <2>3. CASE f.tokens = x.tokens + (f.last - x.last) * c
      <3>0. f.tokens = x.tokens + d * c
        BY <2>3 DEF d
      <3>1. CASE x.tokens + given >= Full(b)
        <4>1. f.tokens + given >= Full(b)
          BY <1>1, <1>4, <3>0, <3>1
        <4> QED BY <4>1 DEF AtLeast
      <3>2. CASE s > 0 /\ x.tokens + given >= n * b
        <4>1. f.tokens + given >= (n + d) * b
          BY <1>1, <1>3, <1>4, <1>6, <2>1, <3>0, <3>2
        <4> QED BY <1>2, <3>2, <4>1 DEF AtLeast
      <3> QED BY <1>8, <3>1, <3>2 DEF AtLeast, n
    <2> QED BY <1>8, <2>2, <2>3
  <1> QED BY <1>7, <1>8

LEMMA BoundsCharged ==
    ASSUME NEW f \in Bucket, NEW given \in Nat, NEW cost \in Nat, cost <= f.tokens,
           NEW s \in Nat, NEW b \in Nat
    PROVE  LET g == [tokens |-> f.tokens - cost, last |-> f.last] IN
           /\ g \in Bucket
           /\ given > 0 /\ AtMost(f, given, s, b) => AtMost(g, given + cost, s, b)
           /\ AtLeast(f, given, s, b) => AtLeast(g, given + cost, s, b)
  <1> DEFINE g == [tokens |-> f.tokens - cost, last |-> f.last]
  <1>1. f.tokens \in Nat /\ f.last \in Nat
    BY DEF Bucket
  <1>2. g.tokens = f.tokens - cost /\ g.last = f.last /\ g \in Bucket
    BY <1>1 DEF Bucket
  <1> HIDE DEF g
  <1>3. g.tokens + (given + cost) = f.tokens + given
    BY <1>1, <1>2
  <1>4. given > 0 /\ AtMost(f, given, s, b) => AtMost(g, given + cost, s, b)
    BY <1>2, <1>3 DEF AtMost
  <1>5. AtLeast(f, given, s, b) => AtLeast(g, given + cost, s, b)
    BY <1>2, <1>3 DEF AtLeast
  <1> QED BY <1>2, <1>4, <1>5 DEF g

\* The bucket a waiting request finds.
LEMMA FoundFacts ==
    ASSUME Inv, NEW t \in Threads, th[t].pc = "lock"
    PROVE  LET q  == th[t]
               ip == q.ip
               f  == Found(t)
           IN
           /\ q \in Waiting /\ ip \in IPs /\ q.burst \in Bursts \ {0} /\ q.cost \in Nat
           /\ q.now \in Nat /\ q.now <= clock /\ clock - q.now <= MaxDelay
           /\ Read(force, q.burst, q.now)
           /\ f \in Bucket /\ f.last >= q.now /\ f.last <= clock
           /\ Filled(force, f)
           /\ ~Tracked(ip) => f.tokens = Full(q.burst)
           /\ Tracked(ip) =>
                 /\ f.last >= bucket[ip].last
                 /\ f.tokens <= bucket[ip].tokens + (f.last - bucket[ip].last) * q.burst
                 /\ \/ f.tokens = Full(q.burst)
                    \/ f.tokens = bucket[ip].tokens + (f.last - bucket[ip].last) * q.burst
  <1> DEFINE q  == th[t]
             ip == q.ip
             f  == Found(t)
             x  == IF Tracked(ip) THEN bucket[ip] ELSE NewBucket(q.burst, q.now)
  <1>1. /\ q \in Waiting /\ ip \in IPs /\ q.burst \in Bursts \ {0} /\ q.burst \in Nat
        /\ q.cost \in Nat /\ q.now \in Nat
        /\ q.now <= clock /\ clock - q.now <= MaxDelay /\ Read(force, q.burst, q.now)
        /\ clock \in Nat
    <2>1. q \in Waiting
      BY RequestParts DEF Inv, TypeOK
    <2>2. Time \subseteq Nat
      BY Constants DEF Time
    <2> QED BY <2>1, <2>2, RequestParts, Constants DEF Inv, RequestsInTime, TypeOK
  <1>2. bucket[ip] \in Bucket /\ bucket[ip].last <= clock /\ (Tracked(ip) => Filled(force, bucket[ip]))
    BY <1>1 DEF Inv, TypeOK, Bucket, BucketsFilled
  <1>3. Full(q.burst) \in Nat
    BY <1>1, FullFacts
  <1>4. f = Refilled(x, q.burst, q.now)
    BY DEF Found
  <1>5. CASE Tracked(ip)
    <2>1. x = bucket[ip]
      BY <1>5
    <2> HIDE DEF q, x, f
    <2>2. /\ f \in Bucket /\ f.last >= q.now /\ f.last >= x.last
          /\ f.last = IF q.now > x.last THEN q.now ELSE x.last
          /\ q.now > x.last => f.tokens <= Full(q.burst)
          /\ ~(q.now > x.last) => f = x
          /\ f.tokens <= x.tokens + (f.last - x.last) * q.burst
          /\ f.tokens = Full(q.burst) \/ f.tokens = x.tokens + (f.last - x.last) * q.burst
      <3>1. x \in Bucket /\ q.burst \in Nat /\ q.now \in Nat
        BY <1>1, <1>2, <2>1
      <3> DEFINE g == Refilled(x, q.burst, q.now)
      <3>2. /\ g \in Bucket /\ g.last >= q.now /\ g.last >= x.last
            /\ g.last = IF q.now > x.last THEN q.now ELSE x.last
            /\ q.now > x.last => g.tokens <= Full(q.burst)
            /\ ~(q.now > x.last) => g = x
            /\ g.tokens <= x.tokens + (g.last - x.last) * q.burst
            /\ g.tokens = Full(q.burst) \/ g.tokens = x.tokens + (g.last - x.last) * q.burst
        BY <3>1, RefillFacts
      <3> QED BY <1>4, <3>2
    <2>3. f.last <= clock
      BY <1>1, <1>2, <2>1, <2>2
    <2>4. Filled(force, f)
      <3>1. CASE q.now > x.last
        BY <1>1, <2>2, <3>1 DEF Filled
      <3>2. CASE ~(q.now > x.last)
        BY <1>2, <1>5, <2>1, <2>2, <3>2
      <3> QED BY <3>1, <3>2
    <2> QED BY <1>1, <1>5, <2>1, <2>2, <2>3, <2>4 DEF q, f
  <1>6. CASE ~Tracked(ip)
    <2>1. x = [tokens |-> Full(q.burst), last |-> q.now]
      BY <1>6 DEF NewBucket
    <2> HIDE DEF q, x, f
    <2>2. x \in Bucket /\ x.tokens = Full(q.burst) /\ x.last = q.now
      BY <1>1, <1>3, <2>1 DEF Bucket
    <2>3. ~(q.now > x.last)
      BY <1>1, <2>2
    <2>4. f = x
      BY <1>4, <2>3 DEF Refilled
    <2>5. f.last >= q.now /\ f.last <= clock /\ f.tokens <= Full(q.burst)
      BY <1>1, <1>3, <2>2, <2>4
    <2>6. Filled(force, f)
      BY <1>1, <2>2, <2>4, <2>5 DEF Filled
    <2> QED BY <1>1, <1>6, <2>2, <2>4, <2>5, <2>6 DEF q, f
  <1> QED BY <1>5, <1>6

LEMMA AllowKeeps ==
    ASSUME Inv, NEW t \in Threads, Allow(t)
    PROVE  Inv'
  <1> DEFINE q    == th[t]
             ip   == q.ip
             c    == q.burst
             f    == Found(t)
             cost == IF Admits(t) THEN q.cost ELSE 0
             g    == [tokens |-> f.tokens - cost, last |-> f.last]
  <1>1. /\ q.pc = "lock" /\ lru' = Used(ip)
        /\ bucket' = [x \in IPs |-> IF x = ip THEN g
                                    ELSE IF Evicted(x, ip) THEN NoBucket ELSE bucket[x]]
        /\ spent' = [x \in IPs |->
              IF x = ip THEN [s \in Time |-> spent[x][s] + (IF s <= clock THEN cost ELSE 0)]
              ELSE IF Evicted(x, ip) THEN Nothing ELSE spent[x]]
        /\ th' = [th EXCEPT ![t] = Idle]
        /\ UNCHANGED <<clock, burst, reloads, force>>
    BY DEF Allow
  <1>2. /\ q \in Waiting /\ ip \in IPs /\ c \in Bursts \ {0} /\ q.cost \in Nat
        /\ q.now \in Nat /\ q.now <= clock /\ clock - q.now <= MaxDelay
        /\ Read(force, c, q.now)
        /\ f \in Bucket /\ f.last >= q.now /\ f.last <= clock
        /\ Filled(force, f)
        /\ ~Tracked(ip) => f.tokens = Full(c)
        /\ Tracked(ip) =>
              /\ f.last >= bucket[ip].last
              /\ f.tokens <= bucket[ip].tokens + (f.last - bucket[ip].last) * c
              /\ f.tokens = Full(c) \/ f.tokens = bucket[ip].tokens + (f.last - bucket[ip].last) * c
    BY <1>1, FoundFacts
  <1>3. /\ clock \in Time /\ clock \in Nat /\ burst \in Bursts /\ lru \in Seq(IPs)
        /\ Len(lru) <= MaxIPs /\ Distinct(lru)
        /\ bucket \in [IPs -> Bucket] /\ force \in [Time -> SUBSET Bursts]
        /\ spent \in [IPs -> [Time -> Nat]]
        /\ th \in [Threads -> Assessed \cup Waiting \cup {Flagged, Idle}]
        /\ Time = 0..MaxTime
    BY Constants DEF Inv, TypeOK, Bucket, Time
  <1>4. f.tokens \in Nat /\ f.last \in Nat /\ c \in Nat /\ c \in Bursts
    BY <1>2, Constants DEF Bucket
  <1>5. cost \in Nat /\ cost <= f.tokens
    BY <1>2, <1>4 DEF Admits
  <1>6. g \in Bucket /\ g.tokens = f.tokens - cost /\ g.last = f.last
    BY <1>4, <1>5 DEF Bucket
  <1>7. /\ lru' \in Seq(IPs) /\ Distinct(lru') /\ Len(lru') <= MaxIPs /\ Holds(lru', ip)
        /\ \A x : Holds(lru', x) => Holds(lru, x) \/ x = ip
    <2> DEFINE n == Inserted(lru, ip, MaxIPs)
    <2>1. /\ n \in Seq(IPs) /\ Distinct(n) /\ Len(n) <= MaxIPs /\ Holds(n, ip)
          /\ \A x : Holds(n, x) => Holds(lru, x) \/ x = ip
      BY <1>2, <1>3, InsertedFacts, Constants
    <2>2. lru' = n
      BY <1>1 DEF Used
    <2> QED BY <2>1, <2>2
  <1>8. /\ bucket'[ip] = g
        /\ \A s \in Time : spent'[ip][s] = spent[ip][s] + (IF s <= clock THEN cost ELSE 0)
        /\ \A x \in IPs : x # ip /\ Holds(lru', x) => bucket'[x] = bucket[x] /\ spent'[x] = spent[x]
        /\ \A x \in IPs : x # ip /\ ~Holds(lru', x) => bucket'[x] = NoBucket /\ spent'[x] = Nothing
    <2>1. \A x \in IPs : Evicted(x, ip) <=> ~Holds(lru', x)
      BY <1>1 DEF Evicted
    <2> HIDE DEF g, cost, ip
    <2> QED BY <1>1, <1>2, <2>1
  <1>9. /\ bucket' \in [IPs -> Bucket] /\ spent' \in [IPs -> [Time -> Nat]]
        /\ NoBucket \in Bucket /\ Nothing \in [Time -> Nat]
    <2>1. NoBucket \in Bucket /\ Nothing \in [Time -> Nat]
      BY DEF NoBucket, Bucket, Nothing
    <2> HIDE DEF g, cost, ip
    <2>2. [s \in Time |-> spent[ip][s] + (IF s <= clock THEN cost ELSE 0)] \in [Time -> Nat]
      <3>1. \A s \in Time : spent[ip][s] \in Nat
        BY <1>2, <1>3
      <3>2. \A s \in Time : (IF s <= clock THEN cost ELSE 0) \in Nat
        BY <1>5
      <3>3. \A s \in Time : spent[ip][s] + (IF s <= clock THEN cost ELSE 0) \in Nat
        BY <3>1, <3>2
      <3> QED BY <3>3
    <2>3. \A x \in IPs : bucket[x] \in Bucket /\ spent[x] \in [Time -> Nat]
      BY <1>3
    <2> QED BY <1>1, <1>6, <2>1, <2>2, <2>3
  <1> HIDE DEF g, cost, f, c, ip, q
  <1>10. TypeOK'
    <2>1. /\ th' \in [Threads -> Assessed \cup Waiting \cup {Flagged, Idle}]
          /\ th'[t] = Idle /\ \A u \in Threads : u # t => th'[u] = th[u]
      BY <1>1, <1>3
    <2>2. \A u \in Threads : th'[u].pc = "lock" => th'[u].now <= clock
      BY <2>1, RequestParts DEF Inv, TypeOK
    <2>3. ASSUME NEW x \in IPs
          PROVE  bucket'[x].last <= clock /\ \E b \in Bursts : bucket'[x].tokens <= Full(b)
      <3>1. CASE x = ip
        <4>1. PICK b \in Bursts : f.tokens <= Full(b)
          BY <1>2 DEF Filled
        <4>2. Full(b) \in Nat
          BY FullFacts, Constants
        <4>3. f.tokens - cost <= Full(b)
          BY <1>4, <1>5, <4>1, <4>2
        <4> QED BY <1>2, <1>6, <1>8, <3>1, <4>3
      <3>2. CASE x # ip /\ Holds(lru', x)
        BY <1>8, <3>2 DEF Inv, TypeOK
      <3>3. CASE x # ip /\ ~Holds(lru', x)
        <4>1. bucket'[x].last = 0 /\ bucket'[x].tokens = 0
          BY <1>8, <3>3 DEF NoBucket
        <4>2. Full(burst) \in Nat
          BY <1>3, FullFacts, Constants
        <4>3. 0 <= clock /\ 0 <= Full(burst)
          BY <1>3, <4>2
        <4> QED BY <1>3, <4>1, <4>3
      <3> QED BY <3>1, <3>2, <3>3
    <2> QED BY <1>1, <1>7, <1>9, <2>1, <2>2, <2>3 DEF Inv, TypeOK, Bucket
  <1>11. RequestsInTime'
    <2>1. th'[t] = Idle /\ \A u \in Threads : u # t => th'[u] = th[u]
      BY <1>1, <1>3
    <2> QED BY <1>1, <2>1, RequestParts DEF Inv, RequestsInTime
  <1>12. BucketsFilled'
    <2> SUFFICES ASSUME NEW x \in IPs
                 PROVE  /\ Holds(lru', x) => Filled(force', bucket'[x])
                        /\ ~Holds(lru', x) => bucket'[x] = NoBucket /\ spent'[x] = Nothing
      BY DEF BucketsFilled, Tracked
    <2>1. CASE x = ip
      <3>1. PICK b \in Bursts : Read(force, b, f.last) /\ f.tokens <= Full(b)
        BY <1>2 DEF Filled
      <3>2. Full(b) \in Nat
        BY FullFacts, Constants
      <3>3. g.tokens <= Full(b)
        BY <1>4, <1>5, <1>6, <3>1, <3>2
      <3> QED BY <1>1, <1>6, <1>7, <1>8, <2>1, <3>1, <3>3 DEF Filled
    <2>2. CASE x # ip
      BY <1>1, <1>7, <1>8, <2>2 DEF Inv, BucketsFilled, Tracked
    <2> QED BY <2>1, <2>2
  <1>13. FutureEmpty'
    <2> SUFFICES ASSUME NEW u \in Time, u > clock, NEW x \in IPs
                 PROVE  spent'[x][u] = 0
      BY <1>1 DEF Inv, FutureEmpty
    <2>1. spent[x][u] = 0 /\ ~(u <= clock)
      BY <1>3 DEF Inv, FutureEmpty
    <2>2. CASE x = ip
      <3>1. spent'[ip][u] = spent[ip][u] + 0
        BY <1>8, <2>1
      <3> QED BY <2>1, <2>2, <3>1
    <2>3. CASE x # ip
      BY <1>8, <2>1, <2>3 DEF Nothing
    <2> QED BY <2>2, <2>3
  <1>14. ASSUME NEW s \in 0..clock, NEW b \in Bursts \cup {0}
         PROVE  /\ (\A x \in ReadSince(s) : x <= b) => AtMost(bucket'[ip], spent'[ip][s], s, b)
                /\ (\A x \in ReadSince(s) : b <= x) => AtLeast(bucket'[ip], spent'[ip][s], s, b)
    <2> DEFINE given == spent[ip][s]
    <2>1. s \in Time /\ s \in Nat /\ s <= clock /\ b \in Nat
      BY <1>3, Constants
    <2>2. given \in Nat /\ spent'[ip][s] = given + cost /\ bucket[ip] \in Bucket
      BY <1>2, <1>3, <1>8, <2>1
    <2>3. q.now >= s - MaxDelay /\ f.last >= s - MaxDelay /\ q.now \in Int /\ f.last \in Int /\ s \in Int
      <3>1. /\ q.now \in Int /\ f.last \in Int /\ s \in Int /\ clock \in Int /\ MaxDelay \in Int
            /\ clock - q.now <= MaxDelay /\ q.now <= f.last /\ s <= clock
        BY <1>2, <1>3, <1>4, <2>1, Constants DEF Waiting, Time
      <3> QED BY <3>1
    <2>4. c \in ReadSince(s)
      BY <1>2, <1>4, <2>3, ReadCounts
    <2>5. ~Tracked(ip) => given = 0
      BY <1>2, <2>1 DEF Inv, BucketsFilled, Nothing
    <2>6. /\ given > 0 /\ AtMost(f, given, s, b) => AtMost(g, given + cost, s, b)
          /\ AtLeast(f, given, s, b) => AtLeast(g, given + cost, s, b)
      BY <1>2, <1>5, <2>1, <2>2, BoundsCharged DEF g
    <2> HIDE DEF given
    <2>7. ASSUME \A x \in ReadSince(s) : x <= b
          PROVE  AtMost(g, given + cost, s, b)
      <3>1. CASE given > 0
        <4>1. Tracked(ip)
          BY <2>5, <3>1
        <4>2. AtMost(bucket[ip], given, s, b)
          BY <1>2, <2>7 DEF Inv, Bounds, given
        <4>3. c <= b
          BY <2>4, <2>7
        <4>4. AtMost(f, given, s, b)
          BY <1>2, <1>4, <2>1, <2>2, <3>1, <4>1, <4>2, <4>3, BoundsRefilled
        <4> QED BY <2>6, <3>1, <4>4
      <3>2. CASE given = 0
        <4>1. PICK d \in Bursts : Read(force, d, f.last) /\ f.tokens <= Full(d)
          BY <1>2 DEF Filled
        <4>2. d \in ReadSince(s)
          BY <2>3, <4>1, ReadCounts
        <4>3. d <= b /\ d \in Nat
          BY <2>7, <4>2, Constants
        <4>4. Full(d) <= Full(b) /\ Full(b) \in Nat /\ Full(d) \in Nat
          BY <2>1, <4>3, FullFacts
        <4> DEFINE m == f.last - s + MaxDelay
        <4>5. m \in Nat
          BY <1>4, <2>1, <2>3, Constants
        <4> HIDE DEF m
        <4>6. m * b \in Nat
          BY <2>1, <4>5, Products
        <4>7. g.tokens + (given + cost) <= Full(b) + m * b
          BY <1>4, <1>5, <1>6, <3>2, <4>1, <4>4, <4>6
        <4> QED BY <1>6, <2>3, <4>7 DEF AtMost, m
      <3> QED BY <2>2, <3>1, <3>2
    <2>8. ASSUME \A x \in ReadSince(s) : b <= x
          PROVE  AtLeast(g, given + cost, s, b)
      <3>1. b <= c
        BY <2>4, <2>8
      <3>2. CASE Tracked(ip)
        <4>1. AtLeast(bucket[ip], given, s, b)
          BY <1>2, <2>8, <3>2 DEF Inv, Bounds, given
        <4>2. AtLeast(f, given, s, b)
          BY <1>2, <1>4, <2>1, <2>2, <3>1, <3>2, <4>1, BoundsRefilled
        <4> QED BY <2>6, <4>2
      <3>3. CASE ~Tracked(ip)
        <4>1. f.tokens = Full(c) /\ Full(b) <= Full(c) /\ Full(b) \in Nat /\ Full(c) \in Nat
          BY <1>2, <1>4, <2>1, <3>1, <3>3, FullFacts
        <4>2. f.tokens + given >= Full(b)
          BY <2>2, <4>1
        <4> QED BY <2>6, <4>2 DEF AtLeast
      <3> QED BY <3>2, <3>3
    <2> QED BY <1>8, <2>2, <2>7, <2>8
  <1>15. Bounds'
    <2> SUFFICES ASSUME NEW x \in IPs, NEW s \in 0..clock, NEW b \in Bursts \cup {0}
                 PROVE  /\ (\A y \in ReadSince(s) : y <= b) => AtMost(bucket'[x], spent'[x][s], s, b)
                        /\ Holds(lru', x) /\ (\A y \in ReadSince(s) : b <= y) =>
                              AtLeast(bucket'[x], spent'[x][s], s, b)
      BY <1>1 DEF Bounds, Tracked, ReadSince
    <2>1. CASE x = ip
      BY <1>14, <2>1
    <2>2. CASE x # ip /\ Holds(lru', x)
      BY <1>7, <1>8, <2>2 DEF Inv, Bounds, Tracked
    <2>3. CASE x # ip /\ ~Holds(lru', x)
      <3>1. s \in Time
        BY <1>3, Constants
      <3>2. spent'[x][s] = 0
        BY <1>8, <2>3, <3>1 DEF Nothing
      <3> QED BY <2>3, <3>2 DEF AtMost
    <2> QED BY <2>1, <2>2, <2>3
  <1> QED BY <1>10, <1>11, <1>12, <1>13, <1>15 DEF Inv

-----------------------------------------------------------------------------
(* The theorems *)

\* The buckets, the requests and what each bucket has given fit together in
\* every reachable state (protect.go:103-137).
THEOREM Invariant == Spec => []Inv
  <1>1. Init => Inv
    <2> SUFFICES ASSUME Init PROVE Inv
      OBVIOUS
    <2>1. /\ clock = 0 /\ burst \in Bursts /\ lru = <<>> /\ bucket = [ip \in IPs |-> NoBucket]
          /\ th = [t \in Threads |-> Idle] /\ reloads = 0
          /\ force = [s \in Time |-> IF s = 0 THEN {burst} ELSE {}]
          /\ spent = [ip \in IPs |-> Nothing]
      BY DEF Init
    <2>2. 0 \in Time /\ clock \in Time /\ burst \in Nat /\ Full(burst) \in Nat
      BY <2>1, FullFacts, Constants DEF Time
    <2>3. /\ lru \in Seq(IPs) /\ Len(lru) <= MaxIPs /\ Distinct(lru)
          /\ \A ip \in IPs : ~Tracked(ip)
      <3>1. lru \in Seq(IPs) /\ Len(lru) = 0 /\ DOMAIN lru = {}
        BY <2>1
      <3> QED BY <3>1, Constants DEF Distinct, Tracked, Holds
    <2>4. /\ NoBucket \in Bucket /\ NoBucket.tokens = 0 /\ NoBucket.last = 0
          /\ Nothing \in [Time -> Nat] /\ \A s \in Time : Nothing[s] = 0
      BY DEF NoBucket, Bucket, Nothing
    <2>5. /\ bucket \in [IPs -> Bucket] /\ \A ip \in IPs : bucket[ip] = NoBucket
          /\ spent \in [IPs -> [Time -> Nat]] /\ \A ip \in IPs : spent[ip] = Nothing
          /\ force \in [Time -> SUBSET Bursts] /\ force[0] = {burst}
          /\ \A u \in Time : u # 0 => force[u] = {}
      BY <2>1, <2>2, <2>4
    <2>6. TypeOK
      <3>1. \A ip \in IPs : bucket[ip].last <= clock /\ bucket[ip].tokens <= Full(burst)
        BY <2>1, <2>2, <2>4, <2>5
      <3>2. reloads \in 0..MaxReloads
        BY <2>1, Constants
      <3> QED BY <2>1, <2>2, <2>3, <2>5, <3>1, <3>2, RequestParts DEF TypeOK, Bucket
    <2>7. RequestsInTime
      BY <2>1, RequestParts DEF RequestsInTime
    <2>8. BucketsFilled
      BY <2>3, <2>5 DEF BucketsFilled
    <2>9. FutureEmpty
      <3>1. \A u \in Time : u > clock => u # 0
        BY <2>1 DEF Time
      <3> QED BY <2>1, <2>4, <2>5, <3>1 DEF FutureEmpty
    <2>10. Bounds
      <3>1. \A s \in 0..clock : s \in Time
        BY <2>1, <2>2
      <3> QED BY <2>3, <2>4, <2>5, <3>1 DEF Bounds, AtMost
    <2> QED BY <2>6, <2>7, <2>8, <2>9, <2>10 DEF Inv
  <1>2. Inv /\ [Next]_vars => Inv'
    <2> SUFFICES ASSUME Inv, [Next]_vars PROVE Inv'
      OBVIOUS
    <2>1. CASE UNCHANGED vars
      BY <2>1 DEF vars, Inv, TypeOK, RequestsInTime, BucketsFilled, FutureEmpty, Bounds, Tracked,
                  ReadSince
    <2> QED BY <2>1, ArriveKeeps, AssessKeeps, ActKeeps, AllowKeeps, ReloadKeeps, TickKeeps DEF Next
  <1> QED BY <1>1, <1>2, PTL DEF Spec

\* No bucket is ever in debt, above a burst or ahead of the clock, and the
\* governor never tracks more addresses than it may (protect.go:115-135).
THEOREM GovernorTypes == Spec => []TypeOK
  <1>1. Inv => TypeOK
    BY DEF Inv
  <1> QED BY <1>1, Invariant, PTL

\* In any stretch of time an address gets a burst and the refill at most,
\* whatever the order in which requests reach the lock and whatever a reload
\* changes (protect.go:103-137).
THEOREM BudgetIsHeld == Spec => []BudgetHolds
  <1>1. ASSUME Inv, NEW ip \in IPs, NEW s \in 0..clock, NEW b \in Bursts \cup {0},
               \A x \in ReadSince(s) : x <= b
        PROVE  spent[ip][s] <= Full(b) + (clock - s + MaxDelay) * b
    <2> DEFINE given == spent[ip][s]
               x == bucket[ip]
               m == x.last - s + MaxDelay
               n == clock - s + MaxDelay
    <2>1. /\ clock \in Nat /\ s \in Nat /\ s <= clock /\ b \in Nat /\ Full(b) \in Nat
          /\ given \in Nat /\ x.tokens \in Nat /\ x.last \in Nat /\ x.last <= clock
      <3>1. clock \in Nat /\ s \in Time /\ s \in Nat /\ s <= clock /\ b \in Nat
        BY <1>1, Constants DEF Inv, TypeOK, Time
      <3>2. Full(b) \in Nat
        BY <3>1, FullFacts
      <3>3. given \in Nat /\ x \in Bucket /\ x.last <= clock
        BY <1>1, <3>1 DEF Inv, TypeOK, Bucket
      <3> QED BY <3>1, <3>2, <3>3 DEF Bucket
    <2>2. AtMost(x, given, s, b)
      BY <1>1 DEF Inv, Bounds
    <2>3. n \in Nat
      BY <2>1, Constants
    <2>4. n * b \in Nat
      BY <2>1, <2>3, Products
    <2>5. CASE given = 0
      BY <2>1, <2>4, <2>5
    <2>6. CASE given > 0
      <3>1. x.last >= s - MaxDelay /\ x.tokens + given <= Full(b) + m * b
        BY <2>2, <2>6 DEF AtMost
      <3>2. m \in Nat /\ m <= n
        BY <2>1, <3>1, Constants
      <3> HIDE DEF m, n, x, given
      <3>3. m * b <= n * b /\ m * b \in Nat
        BY <2>1, <2>3, <3>2, Products
      <3>4. given <= Full(b) + n * b
        BY <2>1, <2>4, <3>1, <3>3 DEF x
      <3> QED BY <3>4 DEF given, n
    <2> QED BY <2>1, <2>5, <2>6
  <1>2. Inv => BudgetHolds
    BY <1>1 DEF BudgetHolds
  <1> QED BY <1>2, Invariant, PTL

\* Whoever is refused has used up, within the last window, a burst that was in
\* force meanwhile (protect.go:124-136).
THEOREM ThrottlingHasCause == Spec => ThrottledForCause
  <1> DEFINE From(q) == IF q.now < Window THEN 0 ELSE q.now - Window + 1
             A == \A t \in Threads : Allow(t) /\ ~Admits(t) =>
                     LET s == IF th[t].now < Window THEN 0 ELSE th[t].now - Window + 1
                     IN  \E b \in ReadSince(s) : th[t].cost + spent[th[t].ip][s] > Full(b)
  <1>1. ASSUME Inv, NEW t \in Threads, Allow(t), ~Admits(t)
        PROVE  \E b \in ReadSince(From(th[t])) : th[t].cost + spent[th[t].ip][From(th[t])] > Full(b)
    <2> DEFINE q  == th[t]
               ip == q.ip
               c  == q.burst
               f  == Found(t)
               s  == From(q)
               given == spent[ip][s]
    <2>1. /\ ip \in IPs /\ c \in Bursts \ {0} /\ q.cost \in Nat
          /\ q.now \in Nat /\ q.now <= clock /\ clock - q.now <= MaxDelay
          /\ Read(force, c, q.now)
          /\ f \in Bucket /\ f.last >= q.now /\ f.last <= clock
          /\ ~Tracked(ip) => f.tokens = Full(c)
          /\ Tracked(ip) =>
                /\ f.last >= bucket[ip].last
                /\ f.tokens <= bucket[ip].tokens + (f.last - bucket[ip].last) * c
                /\ f.tokens = Full(c) \/ f.tokens = bucket[ip].tokens + (f.last - bucket[ip].last) * c
      BY <1>1, FoundFacts DEF Allow
    <2>2. f.tokens \in Nat /\ f.last \in Nat /\ f.tokens < q.cost
      <3>1. f.tokens \in Nat /\ f.last \in Nat
        BY <2>1 DEF Bucket
      <3>2. ~(f.tokens >= q.cost)
        BY <1>1 DEF Admits
      <3> HIDE DEF f, q
      <3> QED BY <2>1, <3>1, <3>2
    <2>3. s \in Nat /\ s <= q.now /\ (s = 0 \/ q.now - s + 1 = Window)
      BY <2>1, Constants
    <2>4. /\ clock \in Nat /\ s \in 0..clock /\ s \in Time /\ c \in Nat /\ c \in Bursts
          /\ bucket[ip] \in Bucket /\ given \in Nat
      <3>1. clock \in Nat /\ s \in 0..clock /\ s \in Time /\ c \in Nat /\ c \in Bursts
        <4>1. clock \in Time
          BY <1>1 DEF Inv, TypeOK
        <4> HIDE DEF s, q, c
        <4>2. clock \in Nat /\ s \in 0..clock /\ s \in Time
          BY <2>1, <2>3, <4>1, Constants DEF Time
        <4> QED BY <2>1, <4>2, Constants
      <3> QED BY <1>1, <2>1, <3>1 DEF Inv, TypeOK, Bucket
    <2> HIDE DEF q, ip, c, f, s, given, From
    <2>5. c \in ReadSince(s)
      <3>1. q.now \in Int /\ s \in Int /\ q.now >= s - MaxDelay
        BY <2>1, <2>3, Constants
      <3> QED BY <2>1, <2>4, <3>1, ReadCounts
    <2>6. ReadSince(s) \in SUBSET Nat /\ ReadSince(s) \in SUBSET Bursts
      BY ReadSinceTypes, Constants
    <2>7. PICK b \in ReadSince(s) : \A x \in ReadSince(s) : b <= x
      BY <2>5, <2>6, LeastExists
    <2>8. b \in Nat /\ b \in Bursts /\ b <= c /\ Full(b) \in Nat /\ Full(c) \in Nat /\ Full(b) <= Full(c)
      BY <2>4, <2>5, <2>6, <2>7, FullFacts
    <2>9. AtLeast(f, given, s, b)
      <3>1. CASE Tracked(ip)
        <4>1. AtLeast(bucket[ip], given, s, b)
          BY <1>1, <2>1, <2>4, <2>7, <2>8, <3>1 DEF Inv, Bounds, given
        <4> QED BY <2>1, <2>3, <2>4, <2>8, <3>1, <4>1, BoundsRefilled
      <3>2. CASE ~Tracked(ip)
        <4>1. f.tokens + given >= Full(b)
          BY <2>1, <2>2, <2>4, <2>8, <3>2
        <4> QED BY <4>1 DEF AtLeast
      <3> QED BY <3>1, <3>2
    <2>10. f.tokens + given >= Full(b)
      <3>1. CASE s > 0 /\ f.tokens + given >= (f.last - s + 1) * b
        <4> DEFINE m == f.last - s + 1
        <4>1. m \in Nat /\ Window <= m
          BY <2>1, <2>2, <2>3, <3>1, Constants
        <4> HIDE DEF m
        <4>2. Window * b <= m * b /\ Window * b \in Nat /\ m * b \in Nat
          BY <2>8, <4>1, Products, Constants
        <4>3. Full(b) = Window * b
          BY <2>8, Constants DEF Full
        <4>4. f.tokens + given >= m * b
          BY <3>1 DEF m
        <4> QED BY <2>2, <2>4, <4>2, <4>3, <4>4
      <3> QED BY <2>9, <3>1 DEF AtLeast
    <2>11. q.cost + given > Full(b)
      BY <2>1, <2>2, <2>4, <2>8, <2>10
    <2> QED BY <2>7, <2>11 DEF q, ip, s, given
  <1>2. Inv /\ [Next]_vars => [A]_vars
    <2> SUFFICES ASSUME Inv, NEW t \in Threads, Allow(t), ~Admits(t)
                 PROVE  \E b \in ReadSince(From(th[t])) :
                           th[t].cost + spent[th[t].ip][From(th[t])] > Full(b)
      OBVIOUS
    <2> QED BY <1>1
  <1> HIDE DEF A
  <1>3. Spec => [][A]_vars
    BY <1>2, Invariant, PTL DEF Spec
  <1> QED BY <1>3 DEF ThrottledForCause, A

-----------------------------------------------------------------------------
(* The anomaly score *)

\* The signals of a request, one by one.
LEMMA SignalFacts ==
    ASSUME NEW r
    PROVE  /\ "badMethod" \in Signals(r) <=> r.method = "TRACE"
           /\ "emptyUA" \in Signals(r) <=> r.ua = "empty"
           /\ "offensiveUA" \in Signals(r) <=> r.ua = "offensive"
           /\ "scriptUA" \in Signals(r) <=> r.ua = "script"
           /\ "noAccept" \in Signals(r) <=> r.method = "GET" /\ ~r.accept
           /\ "noAccLang" \in Signals(r) <=> r.method = "GET" /\ ~r.language
           /\ "scannerPath" \in Signals(r) <=> r.scanner
           /\ "injection" \in Signals(r) <=> r.injection
           /\ "overlong" \in Signals(r) <=> r.overlong
           /\ IsFiniteSet(Signals(r))
  <1> DEFINE N == {"badMethod", "emptyUA", "offensiveUA", "scriptUA", "noAccept", "noAccLang",
                   "scannerPath", "injection", "overlong"}
  <1>1. DOMAIN weight = N
    BY DEF weight
  <1>2. IsFiniteSet(N)
    <2>1. ASSUME NEW x, NEW y, NEW z
          PROVE  IsFiniteSet({x, y, z})
      <3>1. {x, y, z} = ({x} \cup {y}) \cup {z}
        OBVIOUS
      <3>2. IsFiniteSet({x} \cup {y})
        BY FS_Singleton, FS_AddElement
      <3> QED BY <3>1, <3>2, FS_AddElement
    <2> DEFINE A == {"badMethod", "emptyUA", "offensiveUA"}
               B == {"scriptUA", "noAccept", "noAccLang"}
               C == {"scannerPath", "injection", "overlong"}
    <2>2. IsFiniteSet(A) /\ IsFiniteSet(B) /\ IsFiniteSet(C)
      BY <2>1
    <2>3. N = (A \cup B) \cup C
      OBVIOUS
    <2> HIDE DEF A, B, C
    <2>4. IsFiniteSet(A \cup B)
      BY <2>2, FS_Union
    <2>5. IsFiniteSet((A \cup B) \cup C)
      BY <2>2, <2>4, FS_Union
    <2> QED BY <2>3, <2>5
  <1>3. Signals(r) \subseteq N
    BY <1>1 DEF Signals
  <1>4. IsFiniteSet(Signals(r))
    BY <1>2, <1>3, FS_Subset
  <1> QED BY <1>1, <1>4 DEF Signals

\* Two signals are more than one.
LEMMA TwoSignals ==
    ASSUME NEW r, NEW x \in Signals(r), NEW y \in Signals(r), x # y
    PROVE  Cardinality(Signals(r)) > 1
  <1>1. IsFiniteSet(Signals(r))
    BY SignalFacts
  <1>2. Cardinality({x, y}) = 2
    <2>1. IsFiniteSet({x}) /\ Cardinality({x}) = 1
      BY FS_Singleton
    <2>2. Cardinality({x} \cup {y}) = Cardinality({x}) + 1
      BY <2>1, FS_AddElement
    <2>3. {x, y} = {x} \cup {y}
      OBVIOUS
    <2> QED BY <2>1, <2>2, <2>3
  <1>3. Cardinality({x, y}) <= Cardinality(Signals(r)) /\ Cardinality(Signals(r)) \in Nat
    BY <1>1, FS_Subset, FS_CardinalityType
  <1> QED BY <1>2, <1>3

\* Nothing but the tool or the method of an attacker, or a probe in company,
\* reaches 86; the former reach 100.
LEMMA ScoreFacts ==
    ASSUME NEW r \in Requests
    PROVE  /\ anomalyScore(r) \in Nat
           /\ r \in Unmistakable => anomalyScore(r) >= 100
           /\ anomalyScore(r) >= 86 => r \in Unmistakable \cup Probing
  <1> DEFINE P(x, n) == IF x \in Signals(r) THEN n ELSE 0
             rest == P("emptyUA", 35) + P("scriptUA", 25) + P("noAccept", 20) + P("noAccLang", 10)
                     + P("overlong", 20)
             a == P("badMethod", 100)
             b == P("offensiveUA", 100)
             c == P("scannerPath", 55)
             d == P("injection", 55)
  <1>1. /\ weight["badMethod"] = 100 /\ weight["offensiveUA"] = 100 /\ weight["scannerPath"] = 55
        /\ weight["injection"] = 55 /\ weight["emptyUA"] = 35 /\ weight["scriptUA"] = 25
        /\ weight["noAccept"] = 20 /\ weight["noAccLang"] = 10 /\ weight["overlong"] = 20
    BY DEF weight
  <1>2. anomalyScore(r) = a + b + c + d + rest
    BY <1>1 DEF anomalyScore, Total
  <1>3. /\ rest \in Nat /\ rest <= 85
        /\ rest > 0 => \E x \in {"emptyUA", "scriptUA", "noAccept", "noAccLang", "overlong"} :
                          x \in Signals(r)
    BY SignalFacts
  <1>4. a \in {0, 100} /\ b \in {0, 100} /\ c \in {0, 55} /\ d \in {0, 55}
    OBVIOUS
  <1>5. /\ r \in Unmistakable <=> a = 100 \/ b = 100
        /\ c = 55 => "scannerPath" \in Signals(r)
        /\ d = 55 => "injection" \in Signals(r)
    BY SignalFacts DEF Unmistakable
  <1> HIDE DEF rest, a, b, c, d
  <1>6. anomalyScore(r) \in Nat /\ (r \in Unmistakable => anomalyScore(r) >= 100)
    BY <1>2, <1>3, <1>4, <1>5
  <1>7. ASSUME anomalyScore(r) >= 86, r \notin Unmistakable
        PROVE  r \in Probing
    <2>1. a = 0 /\ b = 0
      BY <1>4, <1>5, <1>7
    <2>2. (c = 55 /\ d = 55) \/ (c = 55 /\ rest > 0) \/ (d = 55 /\ rest > 0)
      BY <1>2, <1>3, <1>4, <1>7, <2>1
    <2>3. Cardinality(Signals(r)) > 1
      BY <1>3, <1>5, <2>2, TwoSignals
    <2>4. r.scanner \/ r.injection
      BY <1>5, <2>2, SignalFacts
    <2> QED BY <2>3, <2>4 DEF Probing
  <1> QED BY <1>6, <1>7

\* With a threshold between 86 and 100 (100 is the default) the anomaly score
\* flags the unmistakable, and nothing else but a probe in company
\* (protect.go:174-272).
THEOREM AnomalyHasCause == Threshold \in 86..100 => (Spec => AnomalyForCause)
  <1> SUFFICES ASSUME Threshold \in 86..100 PROVE Spec => AnomalyForCause
    OBVIOUS
  <1> DEFINE A == \A t \in Threads, r \in Requests : Assess(t, r) =>
                     /\ r \in Unmistakable => th'[t].pc = "flagged"
                     /\ th'[t].pc = "flagged" => r \in Unmistakable \cup Probing
  <1>1. ASSUME Inv, NEW t \in Threads, NEW r \in Requests, Assess(t, r)
        PROVE  /\ r \in Unmistakable => th'[t].pc = "flagged"
               /\ th'[t].pc = "flagged" => r \in Unmistakable \cup Probing
    <2> DEFINE w == [pc |-> "lock", ip |-> th[t].ip, burst |-> th[t].burst,
                     cost |-> Cost(r.sensitive), now |-> clock]
    <2>1. th \in [Threads -> Assessed \cup Waiting \cup {Flagged, Idle}]
      BY <1>1 DEF Inv, TypeOK
    <2>2. th'[t] = IF r \in Anomalous THEN Flagged ELSE IF th[t].burst = 0 THEN Idle ELSE w
      BY <1>1, <2>1 DEF Assess
    <2>3. w.pc # "flagged" /\ Idle.pc # "flagged" /\ Flagged.pc = "flagged"
      BY DEF Idle, Flagged
    <2> HIDE DEF w
    <2>4. th'[t].pc = "flagged" <=> r \in Anomalous
      BY <2>2, <2>3
    <2>5. /\ r \in Unmistakable => r \in Anomalous
          /\ r \in Anomalous => r \in Unmistakable \cup Probing
      <3>1. /\ anomalyScore(r) \in Nat
            /\ r \in Unmistakable => anomalyScore(r) >= 100
            /\ anomalyScore(r) >= 86 => r \in Unmistakable \cup Probing
        BY ScoreFacts
      <3>2. r \in Anomalous <=> anomalyScore(r) >= Threshold
        BY DEF Anomalous
      <3>3. /\ anomalyScore(r) >= 100 => anomalyScore(r) >= Threshold
            /\ anomalyScore(r) >= Threshold => anomalyScore(r) >= 86
        BY <3>1
      <3> QED BY <3>1, <3>2, <3>3
    <2> QED BY <2>4, <2>5
  <1>2. Inv /\ [Next]_vars => [A]_vars
    BY <1>1
  <1> HIDE DEF A
  <1>3. Spec => [][A]_vars
    BY <1>2, Invariant, PTL DEF Spec
  <1> QED BY <1>3 DEF AnomalyForCause, A
=============================================================================
