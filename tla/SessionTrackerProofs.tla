------------------------ MODULE SessionTrackerProofs ------------------------
(***************************************************************************)
(* The session tracker, for every number of sessions, goroutines, rules,   *)
(* stamps and every limit: for limits below the cap on the stamps, the cap *)
(* hides nothing and the limit is exceeded at most once per goroutine; a   *)
(* larger limit never refuses anybody.                                     *)
(***************************************************************************)
EXTENDS SessionTracker, LRUProofs, FiniteSetTheorems, NaturalsInduction,
        WellFoundedInduction, TLAPS

-----------------------------------------------------------------------------
(* The inductive invariant *)

Sorted(s) == \A i, j \in DOMAIN s : i <= j => s[i].ts <= s[j].ts

\* More hits than the limit allows, the i-th the last of them, are in the
\* window.
Full(s, i, now) == i > Limit /\ s[i - Limit].ts > now - Window

Ordered(r, now) ==
    /\ Sorted(r.pageviews) /\ Sorted(r.all)
    /\ \A i \in DOMAIN r.pageviews : r.pageviews[i].ts <= now
    /\ \A i \in DOMAIN r.all : r.all[i].ts <= now

\* The stamps and the history of a record end alike; what only the stamps
\* remember has left the window, and what they forgot did not fit.
Alike(r, now) ==
    LET pv == r.pageviews
        all == r.all
    IN  /\ Len(all) > Len(pv) => Len(pv) = maxPageviewStamps
        /\ \A d \in 0..Len(pv) : d < Len(pv) /\ d < Len(all) =>
                pv[Len(pv) - d].ts = all[Len(all) - d].ts
        /\ \A i \in 1..(Len(pv) - Len(all)) : pv[i].ts <= now - Window

\* A record the tracker may keep.
Sound(r, now) ==
    /\ r \in Record_ /\ Ordered(r, now) /\ Alike(r, now)
    /\ Len(r.pageviews) <= maxPageviewStamps
    /\ r.passed => r.seen

\* The cache: exactly the keys in the order have a record, and it is sound.
CacheSound ==
    /\ clock \in Nat
    /\ lru \in Seq(Keys) /\ Len(lru) <= MaxEntries /\ Distinct(lru)
    /\ rec \in [Keys -> Record_]
    /\ \A k \in Keys : rec[k].seen <=> Holds(lru, k)
    /\ \A k \in Keys : Sound(rec[k], clock)

\* The requests: a snapshot is sorted, and only who has passed every rule is
\* forwarded.
RequestsSound ==
    /\ th \in [Threads -> Under \cup Judging \cup {Idle}]
    /\ \A t \in Threads : th[t] \in Judging => Sorted(th[t].snap.pageviews)
    /\ \A t \in Threads : th[t].pc = "forward" => th[t].todo = {}

\* A goroutine that has passed the rate-limit rule, and one that judges it.
PassedTheLimit(r) ==
    /\ r \in Under \cup Judging /\ RateLimit \notin r.todo
    /\ r \in Judging => r.sm # RateLimit

JudgesTheLimit(r) == r \in Judging /\ r.sm = RateLimit

\* Up to each hit of goroutine t the session was not over the limit.
WithinLimit(t, all, now) ==
    \A i \in DOMAIN all : all[i].by = t => ~Full(all, i, now)

\* The stamps pv tell as much: were it over the limit, they would show it.
ShownBy(t, all, pv) ==
    \A i \in DOMAIN all : all[i].by = t /\ i > Limit =>
        Len(pv) > Limit /\ all[i - Limit].ts <= pv[Len(pv) - Limit].ts

\* A goroutine past the rate-limit rule saw each hit it recorded before; one
\* that judges the rule has them in its snapshot.
OwnSeen(t, r, recs, now) ==
    /\ PassedTheLimit(r) => WithinLimit(t, recs[r.key].all, now)
    /\ JudgesTheLimit(r) => ShownBy(t, recs[r.key].all, r.snap.pageviews)

OwnHitsSeen == \A t \in Threads : OwnSeen(t, th[t], rec, clock)

\* Two hits in the window by the same goroutine: the first is within the limit.
Once(all) ==
    \A i, j \in DOMAIN all : i < j /\ all[i].by = all[j].by => i <= Limit

OnceBeyondTheLimit == \A k \in Keys : Once(rec[k].all)

\* The rule is loaded and the stamps suffice to tell that its limit is exceeded.
Enforced == RateLimit \in Matchers /\ Limit < maxPageviewStamps

Inv ==
    /\ CacheSound
    /\ RequestsSound
    /\ Enforced => OwnHitsSeen /\ OnceBeyondTheLimit

-----------------------------------------------------------------------------
(* The operators *)

\* A set of numbers that is not empty has a least one.
LEMMA LeastExists ==
    ASSUME NEW S \in SUBSET Nat, S # {}
    PROVE  \E n \in S : \A m \in S : n <= m
  <1>1. PICK x \in S : \A y \in S : ~(<<y, x>> \in OpToRel(<, Nat))
    <2>1. IsWellFoundedOn(OpToRel(<, Nat), Nat)
      BY NatLessThanWellFounded
    <2> QED BY <2>1, WFMin
  <1>2. \A y \in S : ~(y < x)
    BY <1>1 DEF OpToRel
  <1> QED BY <1>2

\* The constants the arithmetic needs.
LEMMA Constants ==
    /\ MaxEntries \in Nat \ {0} /\ maxPageviewStamps \in Nat \ {0} /\ TTL \in Nat
    /\ Window \in Nat \ {0} /\ Limit \in Nat
  BY TrackerAssumption

LEMMA Rest ==
    ASSUME NEW a \in Int, NEW b \in Int, a <= b
    PROVE  (IF a + 1 <= b THEN b - (a + 1) + 1 ELSE 0) = b - a
  OBVIOUS

\* Of sorted hits exactly the ones in the window are kept.
LEMMA KeptFacts ==
    ASSUME clock \in Nat, NEW s \in Seq(HitBy), Sorted(s)
    PROVE  \E o \in 0..Len(s) :
              /\ Kept(s) \in Seq(HitBy) /\ Len(Kept(s)) = Len(s) - o
              /\ \A i \in 1..(Len(s) - o) : Kept(s)[i] = s[i + o]
              /\ \A i \in 1..o : s[i].ts <= clock - Window
              /\ \A i \in (o + 1)..Len(s) : s[i].ts > clock - Window
  <1> DEFINE Cuts == {i \in 0..Len(s) : \A j \in (i + 1)..Len(s) : s[j].ts > clock - Window}
             n == CHOOSE i \in Cuts : \A j \in Cuts : i <= j
  <1>0. Len(s) \in Nat /\ DOMAIN s = 1..Len(s) /\ \A i \in 1..Len(s) : s[i] \in HitBy
    OBVIOUS
  <1>1. Cuts \in SUBSET Nat /\ Len(s) \in Cuts
    BY <1>0
  <1>2. n \in Cuts /\ \A j \in Cuts : n <= j
    BY <1>1, LeastExists
  <1>3. Kept(s) = SubSeq(s, n + 1, Len(s))
    BY DEF Kept
  <1> HIDE DEF n
  <1>4. n \in 0..Len(s) /\ \A j \in (n + 1)..Len(s) : s[j].ts > clock - Window
    BY <1>2
  <1>5. /\ Kept(s) \in Seq(HitBy) /\ Len(Kept(s)) = Len(s) - n
        /\ \A i \in 1..(Len(s) - n) : Kept(s)[i] = s[i + n]
    <2>1. \A i \in (n + 1)..Len(s) : s[i] \in HitBy
      BY <1>0, <1>4
    <2>2. /\ SubSeq(s, n + 1, Len(s)) \in Seq(HitBy)
          /\ Len(SubSeq(s, n + 1, Len(s))) =
                IF n + 1 <= Len(s) THEN Len(s) - (n + 1) + 1 ELSE 0
          /\ \A i \in 1..(Len(s) - (n + 1) + 1) :
                SubSeq(s, n + 1, Len(s))[i] = s[(n + 1) + i - 1]
      BY <1>0, <1>4, <2>1, SubSeqProperties
    <2>3. \A i \in 1..(Len(s) - n) : i \in 1..(Len(s) - (n + 1) + 1) /\ (n + 1) + i - 1 = i + n
      BY <1>0, <1>4
    <2>4. (IF n + 1 <= Len(s) THEN Len(s) - (n + 1) + 1 ELSE 0) = Len(s) - n
      <3>1. n \in Int /\ Len(s) \in Int /\ n <= Len(s)
        BY <1>0, <1>4
      <3> QED BY <3>1, Rest
    <2>5. \A i \in 1..(Len(s) - n) : SubSeq(s, n + 1, Len(s))[i] = s[i + n]
      <3> TAKE i \in 1..(Len(s) - n)
      <3>1. SubSeq(s, n + 1, Len(s))[i] = s[(n + 1) + i - 1]
        BY <2>2, <2>3
      <3> QED BY <2>3, <3>1
    <2> QED BY <1>3, <2>2, <2>4, <2>5
  <1>6. ASSUME NEW i \in 1..n
        PROVE  s[i].ts <= clock - Window
    <2>1. n - 1 \in 0..Len(s) /\ n \in 1..Len(s) /\ i \in 1..Len(s)
      BY <1>0, <1>4
    <2>2. n - 1 \notin Cuts
      <3>1. ~(n <= n - 1)
        BY <1>4
      <3> QED BY <1>2, <3>1
    <2>3. PICK j \in ((n - 1) + 1)..Len(s) : ~(s[j].ts > clock - Window)
      BY <2>1, <2>2
    <2>4. j = n
      BY <1>0, <1>4, <2>3
    <2>5. s[i].ts <= s[n].ts
      BY <1>0, <2>1 DEF Sorted
    <2>6. s[i].ts \in Nat /\ s[n].ts \in Nat
      BY <1>0, <2>1 DEF HitBy
    <2> QED BY <2>3, <2>4, <2>5, <2>6, Constants
  <1> HIDE DEF Cuts
  <1> QED BY <1>4, <1>5, <1>6

\* The cap drops the oldest hits, and only those that are too many.
LEMMA TrimmedFacts ==
    ASSUME NEW s \in Seq(Hit)
    PROVE  \E o \in 0..Len(s) :
              /\ Trimmed(s) \in Seq(Hit) /\ Len(Trimmed(s)) = Len(s) - o
              /\ \A i \in 1..(Len(s) - o) : Trimmed(s)[i] = s[i + o]
              /\ Len(s) - o <= maxPageviewStamps
              /\ o > 0 => Len(s) - o = maxPageviewStamps
  <1>0. Len(s) \in Nat /\ \A i \in 1..Len(s) : s[i] \in Hit
    OBVIOUS
  <1>1. CASE Len(s) > maxPageviewStamps
    <2> DEFINE o == Len(s) - maxPageviewStamps
               m == Len(s) - maxPageviewStamps + 1
    <2>1. o \in 0..Len(s) /\ m \in Int /\ m <= Len(s) /\ m >= 1
      BY <1>0, <1>1, Constants
    <2>2. /\ SubSeq(s, m, Len(s)) \in Seq(Hit)
          /\ Len(SubSeq(s, m, Len(s))) = IF m <= Len(s) THEN Len(s) - m + 1 ELSE 0
          /\ \A i \in 1..(Len(s) - m + 1) : SubSeq(s, m, Len(s))[i] = s[m + i - 1]
      BY <1>0, <2>1, SubSeqProperties
    <2>3. Trimmed(s) = SubSeq(s, m, Len(s))
      BY <1>1 DEF Trimmed
    <2>4. Len(s) - m + 1 = Len(s) - o /\ Len(s) - o = maxPageviewStamps
      BY <1>0, Constants
    <2>5. \A i \in 1..(Len(s) - o) : Trimmed(s)[i] = s[i + o]
      <3> TAKE i \in 1..(Len(s) - o)
      <3>1. m + i - 1 = i + o /\ i \in 1..(Len(s) - m + 1)
        BY <1>0, <2>4, Constants
      <3>2. SubSeq(s, m, Len(s))[i] = s[m + i - 1]
        BY <2>2, <3>1
      <3> QED BY <2>3, <3>1, <3>2
    <2>6. Trimmed(s) \in Seq(Hit) /\ Len(Trimmed(s)) = Len(s) - o
      BY <2>1, <2>2, <2>3, <2>4
    <2>7. Len(s) - o <= maxPageviewStamps
      BY <2>4, Constants
    <2> HIDE DEF o, m
    <2> QED BY <2>1, <2>4, <2>5, <2>6, <2>7
  <1>2. CASE ~(Len(s) > maxPageviewStamps)
    <2>1. Trimmed(s) = s
      BY <1>2 DEF Trimmed
    <2>2. 0 \in 0..Len(s)
      BY <1>0
    <2> WITNESS 0 \in 0..Len(s)
    <2> QED BY <1>0, <1>2, <2>1, Constants
  <1> QED BY <1>1, <1>2

\* The rate-limit check counts over the limit exactly when the hit `Limit` before
\* the last is in the window.
LEMMA CountIsFull ==
    ASSUME NEW now \in Nat, NEW s, NEW S, s \in Seq(S), \A i \in 1..Len(s) : s[i].ts \in Nat, Sorted(s)
    PROVE  countWithin(s, "", Window, now) > Limit <=> Full(s, Len(s), now)
  <1> DEFINE C == {i \in DOMAIN s : "" \in {"", s[i].path} /\ (Window = 0 \/ s[i].ts > now - Window)}
             n == Len(s)
  <1>0. n \in Nat /\ DOMAIN s = 1..n
    OBVIOUS
  <1>1. C = {i \in 1..n : s[i].ts > now - Window} /\ countWithin(s, "", Window, now) = Cardinality(C)
    BY <1>0, Constants DEF countWithin
  <1> HIDE DEF C
  <1>2. IsFiniteSet(1..n) /\ IsFiniteSet(C) /\ Cardinality(C) \in Nat
    <2>1. IsFiniteSet(1..n)
      BY <1>0, FS_Interval
    <2>2. IsFiniteSet(C)
      BY <1>1, <2>1, FS_Subset
    <2> QED BY <2>1, <2>2, FS_CardinalityType
  <1>3. ASSUME Full(s, n, now)
        PROVE  Cardinality(C) > Limit
    <2> DEFINE a == n - Limit
    <2>1. a \in 1..n /\ s[a].ts > now - Window
      BY <1>0, <1>3, Constants DEF Full
    <2>2. \A i \in a..n : i \in 1..n /\ s[a].ts <= s[i].ts
      BY <1>0, <2>1 DEF Sorted
    <2>3. (a..n) \subseteq C
      <3> SUFFICES ASSUME NEW i \in a..n PROVE i \in C
        OBVIOUS
      <3>1. s[i].ts \in Nat /\ s[a].ts \in Nat /\ s[a].ts <= s[i].ts /\ i \in 1..n
        BY <2>1, <2>2
      <3>2. s[i].ts > now - Window
        BY <2>1, <3>1, Constants
      <3> QED BY <1>1, <3>1, <3>2
    <2>4. Cardinality(a..n) = Limit + 1
      <3>1. a \in Int /\ n \in Int
        BY <1>0, Constants
      <3>2. Cardinality(a..n) = IF a > n THEN 0 ELSE n - a + 1
        BY <3>1, FS_Interval
      <3> QED BY <1>0, <2>1, <3>2, Constants
    <2>5. Cardinality(a..n) <= Cardinality(C)
      BY <1>2, <2>3, FS_Subset
    <2> QED BY <1>2, <2>4, <2>5, Constants
  <1>4. ASSUME ~Full(s, n, now)
        PROVE  Cardinality(C) <= Limit
    <2> DEFINE a == IF n > Limit THEN n - Limit + 1 ELSE 1
    <2>1. C \subseteq a..n
      <3> SUFFICES ASSUME NEW i \in C PROVE i \in a..n
        OBVIOUS
      <3>1. i \in 1..n /\ s[i].ts > now - Window
        BY <1>1
      <3>2. CASE n > Limit
        <4>1. n - Limit \in 1..n /\ ~(s[n - Limit].ts > now - Window)
          BY <1>0, <1>4, <3>2, Constants DEF Full
        <4>2. i <= n - Limit => s[i].ts <= s[n - Limit].ts
          BY <1>0, <3>1, <4>1 DEF Sorted
        <4>3. s[i].ts \in Nat /\ s[n - Limit].ts \in Nat
          BY <3>1, <4>1
        <4>4. ~(i <= n - Limit)
          BY <3>1, <4>1, <4>2, <4>3, Constants
        <4> QED BY <1>0, <3>1, <3>2, <4>4, Constants
      <3>3. CASE ~(n > Limit)
        BY <3>1, <3>3
      <3> QED BY <3>2, <3>3
    <2>2. a \in Int /\ n \in Int
      BY <1>0, Constants
    <2>3. IsFiniteSet(a..n) /\ Cardinality(a..n) = IF a > n THEN 0 ELSE n - a + 1
      BY <2>2, FS_Interval
    <2>4. Cardinality(a..n) <= Limit /\ Cardinality(a..n) \in Nat
      <3>1. a <= n + 1 /\ n - a + 1 <= Limit
        BY <1>0, Constants
      <3> HIDE DEF a
      <3> QED BY <1>0, <2>2, <2>3, <3>1, Constants
    <2>5. Cardinality(C) <= Cardinality(a..n)
      BY <2>1, <2>3, FS_Subset
    <2> QED BY <1>2, <2>4, <2>5, Constants
  <1>5. Cardinality(C) <= Limit => ~(Cardinality(C) > Limit)
    BY <1>2, Constants
  <1> QED BY <1>1, <1>3, <1>4, <1>5

\* What the rate-limit rule decides.
LEMMA RateLimitFires ==
    ASSUME NEW r, NEW path, NEW now
    PROVE  Fires(RateLimit, r, path, now) <=> countWithin(r.pageviews, "", Window, now) > Limit
  <1> DEFINE c == [type |-> "rate-limit", value |-> Limit, window |-> Window,
                   match |-> "", negate |-> FALSE]
             b == countWithin(r.pageviews, "", Window, now) > Limit
  <1>1. evalCheck(c, r, path, now) = b
    BY DEF evalCheck
  <1>3. c.negate = FALSE
    OBVIOUS
  <1>4. RateLimit.checks = {c} /\ RateLimit.condition = "and"
    BY DEF RateLimit
  <1> HIDE DEF c
  <1>5. Fires(RateLimit, r, path, now) <=> evalCheck(c, r, path, now) # FALSE
    BY <1>3, <1>4 DEF Fires
  <1>6. b \in BOOLEAN
    OBVIOUS
  <1> HIDE DEF b
  <1>7. Fires(RateLimit, r, path, now) <=> b
    BY <1>1, <1>5, <1>6
  <1> QED BY <1>7 DEF b

-----------------------------------------------------------------------------
(* A record with one more hit *)

\* The history after a hit: what left the window is dropped from its front.
LEMMA HistoryAfterHit ==
    ASSUME clock \in Nat, NEW s \in Seq(HitBy), Sorted(s), NEW e \in HitBy
    PROVE  \E o \in 0..Len(s) :
              LET a == Append(Kept(s), e) IN
              /\ a \in Seq(HitBy) /\ Len(a) = Len(s) - o + 1
              /\ a[Len(s) - o + 1] = e
              /\ \A i \in 1..(Len(s) - o) : a[i] = s[i + o]
              /\ \A i \in 1..o : s[i].ts <= clock - Window
              /\ \A i \in (o + 1)..Len(s) : s[i].ts > clock - Window
  <1>1. PICK o \in 0..Len(s) :
              /\ Kept(s) \in Seq(HitBy) /\ Len(Kept(s)) = Len(s) - o
              /\ \A i \in 1..(Len(s) - o) : Kept(s)[i] = s[i + o]
              /\ \A i \in 1..o : s[i].ts <= clock - Window
              /\ \A i \in (o + 1)..Len(s) : s[i].ts > clock - Window
    BY KeptFacts
  <1> DEFINE k == Kept(s)
             a == Append(k, e)
  <1>2. k \in Seq(HitBy) /\ Len(k) = Len(s) - o
    BY <1>1
  <1> HIDE DEF k
  <1>3. /\ a \in Seq(HitBy) /\ Len(a) = Len(k) + 1 /\ a[Len(k) + 1] = e
        /\ \A i \in 1..Len(k) : a[i] = k[i]
    BY <1>2, AppendProperties
  <1> HIDE DEF a
  <1>4. /\ a \in Seq(HitBy) /\ Len(a) = Len(s) - o + 1
        /\ a[Len(s) - o + 1] = e
        /\ \A i \in 1..(Len(s) - o) : a[i] = k[i]
    BY <1>2, <1>3
  <1>5. \A i \in 1..(Len(s) - o) : a[i] = s[i + o]
    BY <1>1, <1>4 DEF k
  <1> QED BY <1>1, <1>4, <1>5 DEF a, k

\* The stamps after a hit: what does not fit is dropped from their front.
LEMMA StampsAfterHit ==
    ASSUME NEW s \in Seq(Hit), NEW e \in Hit
    PROVE  \E o \in 0..(Len(s) + 1) :
              LET p == Trimmed(Append(s, e)) IN
              /\ p \in Seq(Hit) /\ Len(p) = Len(s) + 1 - o
              /\ o <= Len(s) /\ p[Len(s) + 1 - o] = e
              /\ \A i \in 1..(Len(s) - o) : p[i] = s[i + o]
              /\ Len(p) <= maxPageviewStamps
              /\ o > 0 => Len(p) = maxPageviewStamps
  <1> DEFINE a == Append(s, e)
             p == Trimmed(a)
  <1>1. /\ a \in Seq(Hit) /\ Len(a) = Len(s) + 1 /\ a[Len(s) + 1] = e
        /\ \A i \in 1..Len(s) : a[i] = s[i]
    BY AppendProperties
  <1>2. Len(s) \in Nat
    OBVIOUS
  <1> HIDE DEF a
  <1>3. PICK o \in 0..Len(a) :
              /\ p \in Seq(Hit) /\ Len(p) = Len(a) - o
              /\ \A i \in 1..(Len(a) - o) : p[i] = a[i + o]
              /\ Len(a) - o <= maxPageviewStamps
              /\ o > 0 => Len(a) - o = maxPageviewStamps
    BY <1>1, TrimmedFacts
  <1> HIDE DEF p
  <1>4. o \in 0..(Len(s) + 1) /\ Len(p) = Len(s) + 1 - o /\ o <= Len(s)
    BY <1>1, <1>2, <1>3, Constants
  <1>5. p[Len(s) + 1 - o] = e
    <2>1. Len(s) + 1 - o \in 1..(Len(a) - o) /\ (Len(s) + 1 - o) + o = Len(s) + 1
      BY <1>1, <1>2, <1>4
    <2>2. p[Len(s) + 1 - o] = a[(Len(s) + 1 - o) + o]
      BY <1>3, <2>1
    <2> QED BY <1>1, <2>1, <2>2
  <1>6. ASSUME NEW i \in 1..(Len(s) - o)
        PROVE  p[i] = s[i + o]
    <2>1. i \in 1..(Len(a) - o) /\ i + o \in 1..Len(s)
      BY <1>1, <1>2, <1>4
    <2> QED BY <1>1, <1>3, <2>1
  <1>7. Len(p) <= maxPageviewStamps /\ (o > 0 => Len(p) = maxPageviewStamps)
    BY <1>3
  <1> QED BY <1>3, <1>4, <1>5, <1>6, <1>7 DEF p, a

LEMMA HitIsSound ==
    ASSUME clock \in Nat, NEW r, Sound(r, clock), NEW path \in Paths, NEW t \in Threads
    PROVE  Sound(WithHit(r, path, t), clock) /\ WithHit(r, path, t).seen
  <1> DEFINE w  == WithHit(r, path, t)
             pv == r.pageviews
             al == r.all
             h  == [ts |-> clock, path |-> path]
             e  == [ts |-> clock, path |-> path, by |-> t]
             p  == Trimmed(Append(pv, h))
             a  == Append(Kept(al), e)
  <1>1. /\ w = [seen |-> TRUE, lastSeen |-> clock, lastPath |-> path, passed |-> r.passed,
                pageviews |-> p, all |-> a]
        /\ h \in Hit /\ h.ts = clock /\ e \in HitBy /\ e.ts = clock
    BY DEF WithHit, Hit, HitBy
  <1>2. /\ r.passed \in BOOLEAN /\ pv \in Seq(Hit) /\ al \in Seq(HitBy)
        /\ Len(pv) \in Nat /\ Len(al) \in Nat
        /\ DOMAIN pv = 1..Len(pv) /\ DOMAIN al = 1..Len(al)
        /\ Len(pv) <= maxPageviewStamps
        /\ Sorted(pv) /\ Sorted(al)
    <2>1. r \in Record_ /\ Len(pv) <= maxPageviewStamps /\ Sorted(pv) /\ Sorted(al)
      BY DEF Sound, Ordered
    <2>2. r.passed \in BOOLEAN /\ pv \in Seq(Hit) /\ al \in Seq(HitBy)
      BY <2>1 DEF Record_
    <2> HIDE DEF pv, al
    <2> QED BY <2>1, <2>2
  <1>3. /\ \A i \in 1..Len(pv) : pv[i].ts \in Nat /\ pv[i].ts <= clock
        /\ \A i \in 1..Len(al) : al[i].ts \in Nat /\ al[i].ts <= clock
    <2>1. /\ \A i \in DOMAIN pv : pv[i].ts <= clock
          /\ \A i \in DOMAIN al : al[i].ts <= clock
      BY DEF Sound, Ordered
    <2> HIDE DEF pv, al
    <2>2. /\ \A i \in 1..Len(pv) : pv[i] \in Hit
          /\ \A i \in 1..Len(al) : al[i] \in HitBy
      BY <1>2
    <2> QED BY <1>2, <2>1, <2>2 DEF Hit, HitBy
  <1>4. /\ Len(al) > Len(pv) => Len(pv) = maxPageviewStamps
        /\ \A d \in Nat : d < Len(pv) /\ d < Len(al) =>
                pv[Len(pv) - d].ts = al[Len(al) - d].ts
        /\ \A i \in 1..(Len(pv) - Len(al)) : pv[i].ts <= clock - Window
    BY DEF Sound, Alike
  <1> HIDE DEF w, pv, al, h, e
  <1>5. PICK q \in 0..(Len(pv) + 1) :
              /\ p \in Seq(Hit) /\ Len(p) = Len(pv) + 1 - q
              /\ q <= Len(pv) /\ p[Len(pv) + 1 - q] = h
              /\ \A i \in 1..(Len(pv) - q) : p[i] = pv[i + q]
              /\ Len(p) <= maxPageviewStamps
              /\ q > 0 => Len(p) = maxPageviewStamps
    BY <1>1, <1>2, StampsAfterHit
  <1>6. PICK o \in 0..Len(al) :
              /\ a \in Seq(HitBy) /\ Len(a) = Len(al) - o + 1
              /\ a[Len(al) - o + 1] = e
              /\ \A i \in 1..(Len(al) - o) : a[i] = al[i + o]
              /\ \A i \in 1..o : al[i].ts <= clock - Window
              /\ \A i \in (o + 1)..Len(al) : al[i].ts > clock - Window
    BY <1>1, <1>2, HistoryAfterHit
  <1> HIDE DEF p, a
  <1>7. /\ Len(p) \in Nat /\ Len(a) \in Nat /\ q \in Nat /\ o \in Nat /\ o <= Len(al)
        /\ DOMAIN p = 1..Len(p) /\ DOMAIN a = 1..Len(a)
        /\ Len(p) = Len(pv) + 1 - q /\ q <= Len(pv) /\ Len(p) <= maxPageviewStamps
        /\ q > 0 => Len(p) = maxPageviewStamps
        /\ Len(a) = Len(al) - o + 1
        /\ Len(pv) \in Nat /\ Len(al) \in Nat
    BY <1>2, <1>5, <1>6
  <1>8. w.pageviews = p /\ w.all = a /\ w.seen /\ w \in Record_
    BY <1>1, <1>2, <1>5, <1>6 DEF Record_
  <1>9. Ordered(w, clock)
    <2>1. \A i \in 1..Len(p) : p[i].ts \in Nat /\ p[i].ts <= clock
      <3> TAKE i \in 1..Len(p)
      <3>1. CASE i = Len(pv) + 1 - q
        BY <1>1, <1>5, <3>1
      <3>2. CASE i # Len(pv) + 1 - q
        <4>1. i \in 1..(Len(pv) - q) /\ i + q \in 1..Len(pv)
          BY <1>7, <3>2
        <4> QED BY <1>3, <1>5, <4>1
      <3> QED BY <3>1, <3>2
    <2>2. \A i \in 1..Len(a) : a[i].ts \in Nat /\ a[i].ts <= clock
      <3> TAKE i \in 1..Len(a)
      <3>1. CASE i = Len(al) - o + 1
        BY <1>1, <1>6, <3>1
      <3>2. CASE i # Len(al) - o + 1
        <4>1. i \in 1..(Len(al) - o) /\ i + o \in 1..Len(al)
          BY <1>7, <3>2
        <4> QED BY <1>3, <1>6, <4>1
      <3> QED BY <3>1, <3>2
    <2>3. Sorted(p)
      <3> SUFFICES ASSUME NEW i \in 1..Len(p), NEW j \in 1..Len(p), i <= j
                   PROVE  p[i].ts <= p[j].ts
        BY <1>7 DEF Sorted
      <3>1. CASE j = Len(pv) + 1 - q
        BY <1>1, <1>5, <2>1, <3>1
      <3>2. CASE j # Len(pv) + 1 - q
        <4>1. /\ i \in 1..(Len(pv) - q) /\ j \in 1..(Len(pv) - q)
              /\ i + q \in 1..Len(pv) /\ j + q \in 1..Len(pv) /\ i + q <= j + q
          BY <1>7, <3>2
        <4>2. p[i] = pv[i + q] /\ p[j] = pv[j + q]
          BY <1>5, <4>1
        <4> QED BY <1>2, <4>1, <4>2 DEF Sorted
      <3> QED BY <3>1, <3>2
    <2>4. Sorted(a)
      <3> SUFFICES ASSUME NEW i \in 1..Len(a), NEW j \in 1..Len(a), i <= j
                   PROVE  a[i].ts <= a[j].ts
        BY <1>7 DEF Sorted
      <3>1. CASE j = Len(al) - o + 1
        BY <1>1, <1>6, <2>2, <3>1
      <3>2. CASE j # Len(al) - o + 1
        <4>1. /\ i \in 1..(Len(al) - o) /\ j \in 1..(Len(al) - o)
              /\ i + o \in 1..Len(al) /\ j + o \in 1..Len(al) /\ i + o <= j + o
          BY <1>7, <3>2
        <4>2. a[i] = al[i + o] /\ a[j] = al[j + o]
          BY <1>6, <4>1
        <4> QED BY <1>2, <4>1, <4>2 DEF Sorted
      <3> QED BY <3>1, <3>2
    <2> QED BY <1>7, <1>8, <2>1, <2>2, <2>3, <2>4 DEF Ordered
  <1>10. Alike(w, clock)
    <2>1. Len(a) > Len(p) => Len(p) = maxPageviewStamps
      <3>1. Len(al) > Len(pv) => Len(pv) = maxPageviewStamps
        BY <1>4
      <3>2. CASE q > 0
        BY <1>7, <3>2
      <3>3. CASE q = 0
        <4>1. Len(p) = Len(pv) + 1
          BY <1>7, <3>3
        <4>2. Len(a) > Len(p) => Len(al) > Len(pv)
          BY <1>7, <4>1
        <4> QED BY <1>7, <3>1, <4>1, <4>2, Constants
      <3> QED BY <1>7, <3>2, <3>3
    <2>2. ASSUME NEW d \in Nat, d < Len(p), d < Len(a)
          PROVE  p[Len(p) - d].ts = a[Len(a) - d].ts
      <3>1. CASE d = 0
        <4>1. Len(p) - d = Len(pv) + 1 - q /\ Len(a) - d = Len(al) - o + 1
          BY <1>7, <3>1
        <4> QED BY <1>1, <1>5, <1>6, <4>1
      <3>2. CASE d # 0
        <4>1. /\ d - 1 \in Nat /\ d - 1 < Len(pv) /\ d - 1 < Len(al)
              /\ Len(p) - d \in 1..(Len(pv) - q) /\ Len(a) - d \in 1..(Len(al) - o)
              /\ (Len(p) - d) + q = Len(pv) - (d - 1)
              /\ (Len(a) - d) + o = Len(al) - (d - 1)
          BY <1>7, <2>2, <3>2
        <4>2. p[Len(p) - d] = pv[Len(pv) - (d - 1)]
          BY <1>5, <4>1
        <4>3. a[Len(a) - d] = al[Len(al) - (d - 1)]
          BY <1>6, <4>1
        <4> QED BY <1>4, <4>1, <4>2, <4>3
      <3> QED BY <3>1, <3>2
    <2>3. ASSUME NEW i \in 1..(Len(p) - Len(a))
          PROVE  p[i].ts <= clock - Window
      <3>1. /\ i \in Nat /\ i \in 1..(Len(pv) - q) /\ i + q \in 1..Len(pv)
            /\ i + q <= Len(pv) - Len(al) + o
        BY <1>7, <2>3
      <3>2. p[i] = pv[i + q]
        BY <1>5, <3>1
      <3>3. CASE i + q <= Len(pv) - Len(al)
        <4>1. i + q \in 1..(Len(pv) - Len(al))
          BY <1>7, <3>1, <3>3
        <4> QED BY <1>4, <3>2, <4>1
      <3>4. CASE ~(i + q <= Len(pv) - Len(al))
        <4> DEFINE d == Len(pv) - (i + q)
        <4>1. /\ d \in Nat /\ d < Len(pv) /\ d < Len(al) /\ Len(al) - d \in 1..o
              /\ Len(pv) - d = i + q
          BY <1>7, <3>1, <3>4
        <4> HIDE DEF d
        <4>2. pv[i + q].ts = al[Len(al) - d].ts
          BY <1>4, <4>1
        <4> QED BY <1>6, <3>2, <4>1, <4>2
      <3> QED BY <3>3, <3>4
    <2> QED BY <1>8, <2>1, <2>2, <2>3 DEF Alike
  <1>11. w.passed => w.seen
    BY <1>8
  <1> QED BY <1>5, <1>8, <1>9, <1>10, <1>11 DEF Sound, w

-----------------------------------------------------------------------------
(* Sound records *)

\* What a sound record is made of.
LEMMA SoundParts ==
    ASSUME NEW r, NEW now, Sound(r, now)
    PROVE  /\ r.seen \in BOOLEAN /\ r.passed \in BOOLEAN
           /\ r.pageviews \in Seq(Hit) /\ r.all \in Seq(HitBy)
           /\ Len(r.pageviews) \in Nat /\ Len(r.all) \in Nat
           /\ DOMAIN r.pageviews = 1..Len(r.pageviews) /\ DOMAIN r.all = 1..Len(r.all)
           /\ Sorted(r.pageviews) /\ Sorted(r.all)
           /\ \A i \in 1..Len(r.pageviews) : r.pageviews[i].ts \in Nat /\ r.pageviews[i].ts <= now
           /\ \A i \in 1..Len(r.all) : r.all[i].ts \in Nat /\ r.all[i].ts <= now
  <1> DEFINE pv == r.pageviews
             al == r.all
  <1>1. /\ r \in Record_ /\ Sorted(pv) /\ Sorted(al)
        /\ \A i \in DOMAIN pv : pv[i].ts <= now
        /\ \A i \in DOMAIN al : al[i].ts <= now
    BY DEF Sound, Ordered
  <1>2. r.seen \in BOOLEAN /\ r.passed \in BOOLEAN /\ pv \in Seq(Hit) /\ al \in Seq(HitBy)
    BY <1>1 DEF Record_
  <1> HIDE DEF pv, al
  <1>3. /\ \A i \in 1..Len(pv) : pv[i] \in Hit
        /\ \A i \in 1..Len(al) : al[i] \in HitBy
        /\ DOMAIN pv = 1..Len(pv) /\ DOMAIN al = 1..Len(al)
        /\ Len(pv) \in Nat /\ Len(al) \in Nat
    BY <1>2
  <1>4. /\ \A i \in 1..Len(pv) : pv[i].ts \in Nat /\ pv[i].ts <= now
        /\ \A i \in 1..Len(al) : al[i].ts \in Nat /\ al[i].ts <= now
    BY <1>1, <1>3 DEF Hit, HitBy
  <1> QED BY <1>1, <1>2, <1>3, <1>4 DEF pv, al

\* The stamps of a sound record show what the full history would.
LEMMA SoundTells ==
    ASSUME NEW now \in Nat, NEW r, Sound(r, now), Limit < maxPageviewStamps
    PROVE  countWithin(r.pageviews, "", Window, now) > Limit
               <=> countWithin(r.all, "", Window, now) > Limit
  <1> DEFINE pv == r.pageviews
             al == r.all
             m  == Len(pv)
             n  == Len(al)
  <1>1. /\ pv \in Seq(Hit) /\ al \in Seq(HitBy) /\ m \in Nat /\ n \in Nat
        /\ Sorted(pv) /\ Sorted(al)
        /\ \A i \in 1..m : pv[i].ts \in Nat
        /\ \A i \in 1..n : al[i].ts \in Nat
    BY SoundParts
  <1>2. /\ n > m => m = maxPageviewStamps
        /\ \A d \in 0..m : d < m /\ d < n => pv[m - d].ts = al[n - d].ts
        /\ \A i \in 1..(m - n) : pv[i].ts <= now - Window
    BY DEF Sound, Alike
  <1> HIDE DEF pv, al
  <1>3. /\ countWithin(pv, "", Window, now) > Limit <=> Full(pv, m, now)
        /\ countWithin(al, "", Window, now) > Limit <=> Full(al, n, now)
    BY <1>1, CountIsFull
  <1> HIDE DEF m, n
  <1>4. n > Limit => m > Limit
    <2>1. n > m => m = maxPageviewStamps
      BY <1>2
    <2> QED BY <1>1, <2>1, Constants
  <1>5. Full(pv, m, now) => n > Limit
    <2> SUFFICES ASSUME m > Limit, pv[m - Limit].ts > now - Window, ~(n > Limit)
                 PROVE  FALSE
      BY DEF Full
    <2>1. m - Limit \in 1..(m - n) /\ m - Limit \in 1..m
      BY <1>1, Constants
    <2>2. pv[m - Limit].ts <= now - Window /\ pv[m - Limit].ts \in Nat
      BY <1>1, <1>2, <2>1
    <2> QED BY <2>2, Constants
  <1>6. m > Limit /\ n > Limit => pv[m - Limit].ts = al[n - Limit].ts
    <2>1. m > Limit => Limit \in 0..m
      BY <1>1, Constants
    <2> QED BY <1>2, <2>1
  <1>7. Full(pv, m, now) <=> Full(al, n, now)
    BY <1>4, <1>5, <1>6 DEF Full
  <1> QED BY <1>3, <1>7 DEF pv, al

\* A sound record stays so while time passes.
LEMMA SoundLater ==
    ASSUME NEW now \in Nat, NEW r, Sound(r, now)
    PROVE  Sound(r, now + 1)
  <1> DEFINE pv == r.pageviews
             al == r.all
             later == now + 1
  <1>1. /\ DOMAIN pv = 1..Len(pv) /\ DOMAIN al = 1..Len(al)
        /\ Len(pv) \in Nat /\ Len(al) \in Nat
        /\ \A i \in 1..Len(pv) : pv[i].ts \in Nat /\ pv[i].ts <= now
        /\ \A i \in 1..Len(al) : al[i].ts \in Nat /\ al[i].ts <= now
        /\ Sorted(pv) /\ Sorted(al)
    BY SoundParts
  <1>2. /\ Len(al) > Len(pv) => Len(pv) = maxPageviewStamps
        /\ \A d \in 0..Len(pv) : d < Len(pv) /\ d < Len(al) =>
                pv[Len(pv) - d].ts = al[Len(al) - d].ts
        /\ \A i \in 1..(Len(pv) - Len(al)) : pv[i].ts <= now - Window
    BY DEF Sound, Alike
  <1> HIDE DEF pv, al
  <1>3. /\ \A i \in DOMAIN pv : pv[i].ts <= later
        /\ \A i \in DOMAIN al : al[i].ts <= later
    BY <1>1
  <1>4. \A i \in 1..(Len(pv) - Len(al)) : pv[i].ts <= later - Window
    <2> TAKE i \in 1..(Len(pv) - Len(al))
    <2>1. i \in 1..Len(pv)
      BY <1>1
    <2>2. pv[i].ts \in Nat /\ pv[i].ts <= now - Window
      BY <1>1, <1>2, <2>1
    <2> QED BY <2>2, Constants
  <1> HIDE DEF later
  <1>5. Ordered(r, later)
    BY <1>1, <1>3 DEF Ordered, pv, al
  <1>6. Alike(r, later)
    BY <1>2, <1>4 DEF Alike, pv, al
  <1>7. Sound(r, later)
    BY <1>5, <1>6 DEF Sound
  <1> QED BY <1>7 DEF later

\* No record, and a new one, are sound.
LEMMA EmptySound ==
    ASSUME NEW now \in Nat
    PROVE  /\ Sound(NoRecord, now) /\ ~NoRecord.seen /\ ~NoRecord.passed
           /\ NoRecord.all = <<>> /\ NoRecord.pageviews = <<>>
           /\ Sound(NewRecord, now) /\ NewRecord.seen /\ ~NewRecord.passed
           /\ NewRecord.all = <<>>
  <1>1. NoRecord \in Record_ /\ NewRecord \in Record_
    <2>1. <<>> \in Seq(Hit) /\ <<>> \in Seq(HitBy) /\ "" \in Paths \cup {""} /\ 0 \in Nat
      OBVIOUS
    <2>2. NoRecord \in Record_
      BY <2>1 DEF NoRecord, Record_
    <2>3. NewRecord \in Record_
      BY <2>2 DEF NewRecord, Record_
    <2> QED BY <2>2, <2>3
  <1>2. /\ ~NoRecord.seen /\ ~NoRecord.passed /\ NoRecord.all = <<>> /\ NoRecord.pageviews = <<>>
        /\ NewRecord.seen /\ ~NewRecord.passed /\ NewRecord.all = <<>> /\ NewRecord.pageviews = <<>>
    BY DEF NoRecord, NewRecord
  <1>3. ASSUME NEW r \in {NoRecord, NewRecord}
        PROVE  Sound(r, now)
    <2>1. r.pageviews = <<>> /\ r.all = <<>>
      BY <1>2
    <2>2. r \in Record_ /\ (r.passed => r.seen)
      BY <1>1, <1>2
    <2>3. Len(<<>>) = 0 /\ DOMAIN <<>> = {}
      OBVIOUS
    <2>4. Ordered(r, now)
      BY <2>1, <2>3 DEF Ordered, Sorted
    <2>5. Alike(r, now)
      BY <2>1, <2>3 DEF Alike
    <2> QED BY <2>1, <2>2, <2>3, <2>4, <2>5, Constants DEF Sound
  <1> QED BY <1>2, <1>3

\* What a lookup finds.
LEMMA GetFacts ==
    ASSUME CacheSound, NEW k \in Keys
    PROVE  /\ get(k) \in {rec[k], NoRecord} /\ Sound(get(k), clock)
           /\ get(k).all \in {rec[k].all, <<>>}
           /\ get(k).seen => get(k) = rec[k]
           /\ ~get(k).seen => get(k) = NoRecord /\ (rec[k].seen => Stale(rec[k]))
  <1>1. Sound(rec[k], clock) /\ clock \in Nat
    BY DEF CacheSound
  <1>2. Sound(NoRecord, clock) /\ ~NoRecord.seen /\ NoRecord.all = <<>>
    BY <1>1, EmptySound
  <1>3. CASE rec[k].seen /\ ~Stale(rec[k])
    <2>1. get(k) = rec[k]
      BY <1>3 DEF get
    <2> QED BY <1>1, <1>3, <2>1
  <1>4. CASE ~(rec[k].seen /\ ~Stale(rec[k]))
    <2>1. get(k) = NoRecord
      BY <1>4 DEF get
    <2> QED BY <1>2, <1>4, <2>1
  <1> QED BY <1>3, <1>4

\* The record that a write begins with.
LEMMA CurrentFacts ==
    ASSUME CacheSound, NEW k \in Keys
    PROVE  /\ Sound(Current(k), clock) /\ Current(k).seen
           /\ Current(k).all \in {rec[k].all, <<>>}
           /\ rec[k].passed /\ ~Current(k).passed => Stale(rec[k])
  <1>1. clock \in Nat /\ Sound(rec[k], clock)
    BY DEF CacheSound
  <1>2. rec[k].passed => rec[k].seen
    BY <1>1 DEF Sound
  <1>3. Sound(NewRecord, clock) /\ NewRecord.seen /\ ~NewRecord.passed /\ NewRecord.all = <<>>
    BY <1>1, EmptySound
  <1>4. CASE get(k).seen
    <2>1. Current(k) = rec[k] /\ rec[k].seen
      BY <1>4, GetFacts DEF Current
    <2> QED BY <1>1, <2>1
  <1>5. CASE ~get(k).seen
    <2>1. Current(k) = NewRecord
      BY <1>5 DEF Current
    <2> QED BY <1>2, <1>3, <1>5, <2>1, GetFacts
  <1> QED BY <1>4, <1>5

-----------------------------------------------------------------------------
(* The cache *)

\* A lookup: a record is kept, or forgotten when it is stale.
LEMMA LookupKeepsSound ==
    ASSUME CacheSound, NEW k \in Keys, Looked(k), clock' = clock
    PROVE  /\ CacheSound' /\ rec'[k] = get(k)
           /\ \A x \in Keys : rec'[x].all \in {rec[x].all, <<>>}
           /\ \A x \in Keys : rec[x].passed /\ ~rec'[x].passed => Stale(rec[x])
  <1>1. /\ clock \in Nat /\ lru \in Seq(Keys) /\ Len(lru) <= MaxEntries /\ Distinct(lru)
        /\ rec \in [Keys -> Record_]
        /\ \A x \in Keys : rec[x].seen <=> Holds(lru, x)
        /\ \A x \in Keys : Sound(rec[x], clock)
    BY DEF CacheSound
  <1>2. /\ lru' = IF ~rec[k].seen THEN lru
                  ELSE IF Stale(rec[k]) THEN Drop(lru, k) ELSE Touched(lru, k)
        /\ rec' = [rec EXCEPT ![k] = get(k)]
    BY DEF Looked
  <1>3. /\ rec'[k] = get(k) /\ \A x \in Keys : x # k => rec'[x] = rec[x]
        /\ get(k) \in Record_ /\ Sound(get(k), clock)
    BY <1>1, <1>2, GetFacts DEF Sound
  <1>4. rec' \in [Keys -> Record_] /\ \A x \in Keys : Sound(rec'[x], clock)
    BY <1>1, <1>2, <1>3
  <1>5. \A x \in Keys : rec'[x].all \in {rec[x].all, <<>>}
    BY <1>3, GetFacts
  <1>6. ~NoRecord.seen /\ ~NoRecord.passed /\ (rec[k].passed => rec[k].seen)
    BY <1>1, EmptySound DEF Sound
  <1>7. \A x \in Keys : rec[x].passed /\ ~rec'[x].passed => Stale(rec[x])
    BY <1>3, <1>6, GetFacts
  <1>8. /\ lru' \in Seq(Keys) /\ Len(lru') <= MaxEntries /\ Distinct(lru')
        /\ \A x \in Keys : rec'[x].seen <=> Holds(lru', x)
    <2>1. CASE ~rec[k].seen
      <3>1. lru' = lru /\ ~get(k).seen
        BY <1>2, <1>6, <2>1 DEF get
      <3> QED BY <1>1, <1>3, <2>1, <3>1
    <2>2. CASE rec[k].seen /\ Stale(rec[k])
      <3>1. lru' = Drop(lru, k) /\ ~get(k).seen /\ Len(lru) \in Nat
        BY <1>1, <1>2, <1>6, <2>2 DEF get
      <3>2. /\ lru' \in Seq(Keys) /\ Distinct(lru')
            /\ \A x : Holds(lru', x) <=> Holds(lru, x) /\ x # k
            /\ Len(lru') = IF Holds(lru, k) THEN Len(lru) - 1 ELSE Len(lru)
        BY <1>1, <3>1, DropFacts
      <3>3. Len(lru') <= MaxEntries
        BY <1>1, <3>1, <3>2, Constants
      <3> QED BY <1>1, <1>3, <3>1, <3>2, <3>3
    <2>3. CASE rec[k].seen /\ ~Stale(rec[k])
      <3>1. lru' = Touched(lru, k) /\ get(k) = rec[k]
        BY <1>2, <2>3 DEF get
      <3>2. /\ Touched(lru, k) \in Seq(Keys) /\ Distinct(Touched(lru, k))
            /\ \A x : Holds(Touched(lru, k), x) <=> Holds(lru, x) \/ x = k
            /\ Len(Touched(lru, k)) = IF Holds(lru, k) THEN Len(lru) ELSE Len(lru) + 1
        BY <1>1, TouchedFacts
      <3> QED BY <1>1, <1>3, <2>3, <3>1, <3>2
    <2> QED BY <2>1, <2>2, <2>3
  <1>9. CacheSound'
    BY <1>1, <1>4, <1>8 DEF CacheSound
  <1> QED BY <1>3, <1>5, <1>7, <1>9

\* A write: at most the least recently used session goes.
LEMMA StoreKeepsSound ==
    ASSUME CacheSound, NEW k \in Keys, NEW r, Sound(r, clock), r.seen, Store(k, r),
           clock' = clock
    PROVE  /\ CacheSound' /\ rec'[k] = r
           /\ \A x \in Keys : x # k => rec'[x].all \in {rec[x].all, <<>>}
           /\ \A x \in Keys : x # k /\ rec[x].passed /\ ~rec'[x].passed =>
                 ~rec'[x].seen /\ lru[1] = x /\ Len(lru) = MaxEntries
  <1>1. /\ clock \in Nat /\ lru \in Seq(Keys) /\ Len(lru) <= MaxEntries /\ Distinct(lru)
        /\ rec \in [Keys -> Record_]
        /\ \A x \in Keys : rec[x].seen <=> Holds(lru, x)
        /\ \A x \in Keys : Sound(rec[x], clock)
    BY DEF CacheSound
  <1>2. /\ lru' = Inserted(lru, k, MaxEntries)
        /\ rec' = [x \in Keys |-> IF x = k THEN r ELSE IF Holds(lru', x) THEN rec[x] ELSE NoRecord]
    BY DEF Store, Added
  <1>3. /\ lru' \in Seq(Keys) /\ Distinct(lru') /\ Len(lru') <= MaxEntries /\ Holds(lru', k)
        /\ \A x : Holds(lru', x) => Holds(lru, x) \/ x = k
        /\ \A x : Holds(lru, x) /\ ~Holds(lru', x) =>
              x # k /\ x = lru[1] /\ Len(lru) = MaxEntries /\ ~Holds(lru, k)
    BY <1>1, <1>2, InsertedFacts, Constants
  <1>4. Sound(NoRecord, clock) /\ ~NoRecord.seen /\ ~NoRecord.passed /\ NoRecord.all = <<>>
    BY <1>1, EmptySound
  <1>5. /\ rec'[k] = r
        /\ \A x \in Keys : x # k /\ Holds(lru', x) => rec'[x] = rec[x]
        /\ \A x \in Keys : x # k /\ ~Holds(lru', x) => rec'[x] = NoRecord
        /\ DOMAIN rec' = Keys /\ rec' = [x \in Keys |-> rec'[x]]
    BY <1>2
  <1>6. \A x \in Keys : Sound(rec'[x], clock)
    BY <1>1, <1>4, <1>5
  <1>7. rec' \in [Keys -> Record_]
    BY <1>5, <1>6 DEF Sound
  <1>8. \A x \in Keys : rec'[x].seen <=> Holds(lru', x)
    BY <1>1, <1>3, <1>4, <1>5
  <1>9. CacheSound'
    BY <1>1, <1>3, <1>6, <1>7, <1>8 DEF CacheSound
  <1>10. \A x \in Keys : x # k => rec'[x].all \in {rec[x].all, <<>>}
    BY <1>4, <1>5
  <1>11. ASSUME NEW x \in Keys, x # k, rec[x].passed, ~rec'[x].passed
         PROVE  ~rec'[x].seen /\ lru[1] = x /\ Len(lru) = MaxEntries
    <2>1. rec'[x] = NoRecord /\ ~Holds(lru', x)
      BY <1>5, <1>11
    <2>2. Holds(lru, x)
      BY <1>1, <1>11 DEF Sound
    <2> QED BY <1>3, <1>4, <2>1, <2>2
  <1> QED BY <1>5, <1>9, <1>10, <1>11

-----------------------------------------------------------------------------
(* The limit *)

\* Of no hits nothing is beyond the limit.
LEMMA NothingBeyond ==
    /\ \A t, now : WithinLimit(t, <<>>, now)
    /\ \A t, pv : ShownBy(t, <<>>, pv)
    /\ Once(<<>>)
  <1>1. DOMAIN <<>> = {}
    OBVIOUS
  <1> QED BY <1>1 DEF WithinLimit, ShownBy, Once

\* Hits have a time.
LEMMA Stamped ==
    \A s \in Seq(HitBy) \cup Seq(Hit) :
        Len(s) \in Nat /\ DOMAIN s = 1..Len(s) /\ \A i \in 1..Len(s) : s[i].ts \in Nat
  <1>1. ASSUME NEW s \in Seq(HitBy)
        PROVE  Len(s) \in Nat /\ DOMAIN s = 1..Len(s) /\ \A i \in 1..Len(s) : s[i].ts \in Nat
    <2>1. \A i \in 1..Len(s) : s[i] \in HitBy
      OBVIOUS
    <2> QED BY <2>1 DEF HitBy
  <1>2. ASSUME NEW s \in Seq(Hit)
        PROVE  Len(s) \in Nat /\ DOMAIN s = 1..Len(s) /\ \A i \in 1..Len(s) : s[i].ts \in Nat
    <2>1. \A i \in 1..Len(s) : s[i] \in Hit
      OBVIOUS
    <2> QED BY <2>1 DEF Hit
  <1> QED BY <1>1, <1>2

\* What has left the window does not come back.
LEMMA WithinLater ==
    ASSUME NEW now \in Nat, NEW t, NEW s \in Seq(HitBy), WithinLimit(t, s, now)
    PROVE  WithinLimit(t, s, now + 1)
  <1>1. Len(s) \in Nat /\ DOMAIN s = 1..Len(s) /\ \A i \in 1..Len(s) : s[i].ts \in Nat
    BY Stamped
  <1> DEFINE later == now + 1
  <1>2. ASSUME NEW i \in 1..Len(s), s[i].by = t
        PROVE  ~Full(s, i, later)
    <2>1. ~Full(s, i, now)
      BY <1>1, <1>2 DEF WithinLimit
    <2>2. CASE i > Limit
      <3>1. i - Limit \in 1..Len(s)
        BY <1>1, <2>2, Constants
      <3>2. s[i - Limit].ts \in Nat /\ ~(s[i - Limit].ts > now - Window)
        BY <1>1, <2>1, <2>2, <3>1 DEF Full
      <3>3. ~(s[i - Limit].ts > later - Window)
        BY <3>2, Constants
      <3> HIDE DEF later
      <3> QED BY <3>3 DEF Full
    <2>3. CASE ~(i > Limit)
      BY <2>3 DEF Full
    <2> QED BY <2>2, <2>3
  <1> HIDE DEF later
  <1>3. WithinLimit(t, s, later)
    BY <1>1, <1>2 DEF WithinLimit
  <1> QED BY <1>3 DEF later

\* The stamps of a sound record show every hit of its history.
LEMMA SnapshotShows ==
    ASSUME NEW now \in Nat, NEW r, Sound(r, now), NEW t, Limit < maxPageviewStamps
    PROVE  ShownBy(t, r.all, r.pageviews)
  <1> DEFINE pv == r.pageviews
             al == r.all
             m  == Len(pv)
             n  == Len(al)
  <1>1. /\ m \in Nat /\ n \in Nat /\ DOMAIN al = 1..n /\ Sorted(al)
        /\ \A i \in 1..n : al[i].ts \in Nat
    BY SoundParts
  <1>2. /\ n > m => m = maxPageviewStamps
        /\ \A d \in Nat : d < m /\ d < n => pv[m - d].ts = al[n - d].ts
    <2>1. /\ n > m => m = maxPageviewStamps
          /\ \A d \in 0..m : d < m /\ d < n => pv[m - d].ts = al[n - d].ts
      BY DEF Sound, Alike
    <2> HIDE DEF pv, al, m, n
    <2>2. \A d \in Nat : d < m => d \in 0..m
      BY <1>1
    <2> QED BY <2>1, <2>2
  <1> HIDE DEF pv, al, m, n
  <1>3. ASSUME NEW i \in DOMAIN al, i > Limit
        PROVE  m > Limit /\ al[i - Limit].ts <= pv[m - Limit].ts
    <2>1. i \in 1..n /\ n > Limit /\ i - Limit \in 1..n /\ n - Limit \in 1..n
          /\ i - Limit <= n - Limit
      BY <1>1, <1>3, Constants
    <2>2. m > Limit
      <3>1. n > m => m = maxPageviewStamps
        BY <1>2
      <3> QED BY <1>1, <2>1, <3>1, Constants
    <2>3. pv[m - Limit].ts = al[n - Limit].ts
      BY <1>1, <1>2, <2>1, <2>2, Constants
    <2>4. al[i - Limit].ts <= al[n - Limit].ts
      BY <1>1, <2>1 DEF Sorted
    <2> QED BY <2>2, <2>3, <2>4
  <1> QED BY <1>3 DEF ShownBy, pv, al, m

\* A snapshot that shows them and is not over the limit: none of them is.
LEMMA JudgedWithin ==
    ASSUME NEW now \in Nat, NEW t, NEW s \in Seq(HitBy), NEW pv \in Seq(Hit), Sorted(pv),
           ShownBy(t, s, pv), ~Full(pv, Len(pv), now)
    PROVE  WithinLimit(t, s, now)
  <1>1. /\ Len(pv) \in Nat /\ \A i \in 1..Len(pv) : pv[i].ts \in Nat
        /\ Len(s) \in Nat /\ DOMAIN s = 1..Len(s) /\ \A i \in 1..Len(s) : s[i].ts \in Nat
    BY Stamped
  <1>2. ASSUME NEW i \in 1..Len(s), s[i].by = t, i > Limit
        PROVE  ~(s[i - Limit].ts > now - Window)
    <2>1. Len(pv) > Limit /\ s[i - Limit].ts <= pv[Len(pv) - Limit].ts
      BY <1>1, <1>2 DEF ShownBy
    <2>2. ~(pv[Len(pv) - Limit].ts > now - Window)
      BY <2>1 DEF Full
    <2>3. i - Limit \in 1..Len(s) /\ Len(pv) - Limit \in 1..Len(pv)
      BY <1>1, <1>2, <2>1, Constants
    <2>4. s[i - Limit].ts \in Nat /\ pv[Len(pv) - Limit].ts \in Nat
      BY <1>1, <2>3
    <2> QED BY <2>1, <2>2, <2>4, Constants
  <1> QED BY <1>1, <1>2 DEF WithinLimit, Full

\* One more hit, by who is within the limit.
LEMMA HitKeepsLimit ==
    ASSUME clock \in Nat, NEW s \in Seq(HitBy), Sorted(s), NEW e \in HitBy
    PROVE  LET a == Append(Kept(s), e) IN
           /\ \A t : t # e.by /\ WithinLimit(t, s, clock) => WithinLimit(t, a, clock)
           /\ \A t, pv : t # e.by /\ ShownBy(t, s, pv) => ShownBy(t, a, pv)
           /\ Once(s) /\ WithinLimit(e.by, s, clock) => Once(a)
  <1> DEFINE a == Append(Kept(s), e)
             n == Len(s)
  <1>1. PICK o \in 0..n :
              /\ a \in Seq(HitBy) /\ Len(a) = n - o + 1
              /\ a[n - o + 1] = e
              /\ \A i \in 1..(n - o) : a[i] = s[i + o]
              /\ \A i \in (o + 1)..n : s[i].ts > clock - Window
    BY HistoryAfterHit
  <1>2. n \in Nat /\ o \in Nat /\ DOMAIN s = 1..n /\ DOMAIN a = 1..(n - o + 1) /\ o <= n
    BY <1>1
  <1> HIDE DEF a, n
  <1>3. ASSUME NEW i \in 1..(n - o)
        PROVE  /\ i + o \in 1..n /\ a[i] = s[i + o]
               /\ i > Limit => i - Limit \in 1..(n - o) /\ i + o > Limit
                               /\ a[i - Limit] = s[(i + o) - Limit]
                               /\ s[(i + o) - Limit].ts > clock - Window
    <2>1. i + o \in 1..n /\ a[i] = s[i + o]
      BY <1>1, <1>2
    <2>2. ASSUME i > Limit
          PROVE  i - Limit \in 1..(n - o) /\ i + o > Limit /\ (i - Limit) + o = (i + o) - Limit
                 /\ (i + o) - Limit \in (o + 1)..n
      BY <1>2, <2>2, Constants
    <2> QED BY <1>1, <2>1, <2>2
  <1>4. ASSUME NEW i \in 1..(n - o + 1), i # n - o + 1
        PROVE  i \in 1..(n - o)
    BY <1>2, <1>4
  <1>5. ASSUME NEW t, t # e.by, WithinLimit(t, s, clock)
        PROVE  WithinLimit(t, a, clock)
    <2> SUFFICES ASSUME NEW i \in 1..(n - o + 1), a[i].by = t PROVE ~Full(a, i, clock)
      BY <1>2 DEF WithinLimit
    <2>1. i \in 1..(n - o)
      BY <1>1, <1>4, <1>5
    <2>2. ~Full(s, i + o, clock)
      BY <1>2, <1>3, <1>5, <2>1 DEF WithinLimit
    <2> QED BY <1>3, <2>1, <2>2 DEF Full
  <1>6. ASSUME NEW t, NEW pv, t # e.by, ShownBy(t, s, pv)
        PROVE  ShownBy(t, a, pv)
    <2> SUFFICES ASSUME NEW i \in 1..(n - o + 1), a[i].by = t, i > Limit
                 PROVE  Len(pv) > Limit /\ a[i - Limit].ts <= pv[Len(pv) - Limit].ts
      BY <1>2 DEF ShownBy
    <2>1. i \in 1..(n - o)
      BY <1>1, <1>4, <1>6
    <2> QED BY <1>2, <1>3, <1>6, <2>1 DEF ShownBy
  <1>7. ASSUME Once(s), WithinLimit(e.by, s, clock)
        PROVE  Once(a)
    <2> SUFFICES ASSUME NEW i \in 1..(n - o + 1), NEW j \in 1..(n - o + 1), i < j,
                        a[i].by = a[j].by
                 PROVE  i <= Limit
      BY <1>2 DEF Once
    <2>1. i \in 1..(n - o) /\ i \in Nat
      BY <1>2
    <2>2. CASE j \in 1..(n - o)
      <3>1. i + o \in 1..n /\ j + o \in 1..n /\ s[i + o].by = s[j + o].by /\ i + o < j + o
        BY <1>2, <1>3, <2>1, <2>2
      <3>2. i + o <= Limit
        BY <1>2, <1>7, <3>1 DEF Once
      <3> QED BY <1>2, <2>1, <3>2, Constants
    <2>3. CASE j = n - o + 1
      <3> SUFFICES ASSUME i > Limit PROVE FALSE
        BY <2>1, Constants
      <3>1. a[i].by = e.by
        BY <1>1, <2>3
      <3>2. ~Full(s, i + o, clock)
        BY <1>2, <1>3, <1>7, <2>1, <3>1 DEF WithinLimit
      <3> QED BY <1>3, <2>1, <3>2 DEF Full
    <2> QED BY <1>4, <2>2, <2>3
  <1> QED BY <1>5, <1>6, <1>7 DEF a

-----------------------------------------------------------------------------
(* Requests *)

LEMMA RequestParts ==
    /\ \A r \in Under \cup Judging :
          r.key \in Keys /\ r.path \in Paths /\ r.todo \in SUBSET Matchers
    /\ \A r \in Under : r.pc \in {"eval", "forward"} /\ r \notin Judging
    /\ \A r \in Judging : /\ r.pc = "judge" /\ r.sm \in Matchers /\ r.snap \in Record_
                          /\ r.snap.pageviews \in Seq(Hit)
    /\ Idle \notin Under \cup Judging /\ Idle.pc = "idle"
  BY DEF Under, Judging, Idle, Record_

\* A request that passed a rule waits for the next one, or is forwarded.
LEMMA PassedIs ==
    ASSUME NEW r, r.key \in Keys, r.path \in Paths, r.todo \in SUBSET Matchers
    PROVE  /\ Passed(r) \in Under /\ Passed(r).key = r.key /\ Passed(r).todo = r.todo
           /\ Passed(r).pc = "forward" => Passed(r).todo = {}
  <1> DEFINE c == IF r.todo = {} THEN "forward" ELSE "eval"
  <1>1. Passed(r) = [pc |-> c, key |-> r.key, path |-> r.path, todo |-> r.todo]
    BY DEF Passed
  <1>2. c \in {"eval", "forward"} /\ (c = "forward" => r.todo = {})
    OBVIOUS
  <1> HIDE DEF c
  <1> QED BY <1>1, <1>2 DEF Under

\* One goroutine moves on.
LEMMA RequestMoves ==
    ASSUME RequestsSound, NEW t \in Threads, NEW r \in Under \cup Judging \cup {Idle},
           th' = [th EXCEPT ![t] = r],
           r \in Judging => Sorted(r.snap.pageviews),
           r.pc = "forward" => r.todo = {}
    PROVE  /\ RequestsSound' /\ th'[t] = r
           /\ \A u \in Threads : u # t => th'[u] = th[u]
  <1>1. /\ th \in [Threads -> Under \cup Judging \cup {Idle}]
        /\ \A u \in Threads : th[u] \in Judging => Sorted(th[u].snap.pageviews)
        /\ \A u \in Threads : th[u].pc = "forward" => th[u].todo = {}
    BY DEF RequestsSound
  <1> DEFINE R == Under \cup Judging \cup {Idle}
  <1>2. /\ th' \in [Threads -> R]
        /\ th'[t] = r
        /\ \A u \in Threads : u # t => th'[u] = th[u]
    <2> r \in R /\ th \in [Threads -> R]
      BY <1>1
    <2> HIDE DEF R
    <2> QED OBVIOUS
  <1>3. \A u \in Threads : th'[u] \in Judging => Sorted(th'[u].snap.pageviews)
    BY <1>1, <1>2
  <1>4. \A u \in Threads : th'[u].pc = "forward" => th'[u].todo = {}
    BY <1>1, <1>2
  <1> QED BY <1>2, <1>3, <1>4 DEF RequestsSound

\* Forgetting hits hides none from who has seen them.
LEMMA SeenKept ==
    ASSUME NEW t, NEW r, NEW recs, NEW more, NEW now, OwnSeen(t, r, recs, now),
           r \in Under \cup Judging => more[r.key].all \in {recs[r.key].all, <<>>}
    PROVE  OwnSeen(t, r, more, now)
  <1>1. CASE r \in Under \cup Judging
    BY <1>1, NothingBeyond DEF OwnSeen
  <1>2. CASE r \notin Under \cup Judging
    BY <1>2 DEF OwnSeen, PassedTheLimit, JudgesTheLimit
  <1> QED BY <1>1, <1>2

LEMMA IdleSeen ==
    ASSUME NEW t, NEW recs, NEW now
    PROVE  OwnSeen(t, Idle, recs, now)
  BY RequestParts DEF OwnSeen, PassedTheLimit, JudgesTheLimit

LEMMA ArriveKeeps ==
    ASSUME Inv, NEW t \in Threads, NEW k \in Keys, NEW path \in Paths, Arrive(t, k, path)
    PROVE  Inv'
  <1> DEFINE q == [key |-> k, path |-> path, todo |-> Matchers]
             r == Passed(q)
  <1>0. CacheSound /\ RequestsSound
    BY DEF Inv
  <1>1. th' = [th EXCEPT ![t] = r] /\ clock' = clock /\ lru' = lru /\ rec' = rec
    BY DEF Arrive
  <1>2. q.key \in Keys /\ q.path \in Paths /\ q.todo \in SUBSET Matchers /\ q.todo = Matchers
    OBVIOUS
  <1> HIDE DEF q
  <1>3. r \in Under /\ r.todo = Matchers /\ (r.pc = "forward" => r.todo = {})
    BY <1>2, PassedIs
  <1> HIDE DEF r
  <1>4. r \notin Judging
    BY <1>3, RequestParts
  <1>5. /\ RequestsSound' /\ th'[t] = r
        /\ \A u \in Threads : u # t => th'[u] = th[u]
    BY <1>0, <1>1, <1>3, <1>4, RequestMoves
  <1>6. CacheSound'
    BY <1>0, <1>1 DEF CacheSound
  <1>7. ASSUME Enforced
        PROVE  OwnHitsSeen' /\ OnceBeyondTheLimit'
    <2>1. OwnHitsSeen /\ OnceBeyondTheLimit
      BY <1>7 DEF Inv
    <2>2. OwnSeen(t, r, rec, clock)
      BY <1>3, <1>4, <1>7 DEF Enforced, OwnSeen, PassedTheLimit, JudgesTheLimit
    <2>3. \A u \in Threads : OwnSeen(u, th'[u], rec', clock')
      BY <1>1, <1>5, <2>1, <2>2 DEF OwnHitsSeen
    <2> QED BY <1>1, <2>1, <2>3 DEF OwnHitsSeen, OnceBeyondTheLimit
  <1> QED BY <1>5, <1>6, <1>7 DEF Inv

LEMMA EvaluateKeeps ==
    ASSUME Inv, NEW t \in Threads, NEW sm \in Matchers, Evaluate(t, sm)
    PROVE  Inv'
  <1> DEFINE r == th[t]
             g == get(r.key)
             s == [g EXCEPT !.all = <<>>]
             q == [pc |-> "judge", key |-> r.key, path |-> r.path,
                   todo |-> r.todo \ {sm}, sm |-> sm, snap |-> s]
  <1>0. CacheSound /\ RequestsSound
    BY DEF Inv
  <1>1. /\ r.pc = "eval" /\ sm \in r.todo /\ Looked(r.key)
        /\ th' = [th EXCEPT ![t] = q] /\ clock' = clock
    BY DEF Evaluate
  <1>2. r \in Under /\ r.key \in Keys /\ r.path \in Paths /\ r.todo \in SUBSET Matchers
    <2>1. r \in Under \cup Judging \cup {Idle}
      BY <1>0 DEF RequestsSound
    <2> QED BY <1>1, <2>1, RequestParts
  <1>3. Sound(g, clock) /\ g.all \in {rec[r.key].all, <<>>}
    BY <1>0, <1>2, GetFacts
  <1>4. CacheSound' /\ rec'[r.key] = g /\ \A x \in Keys : rec'[x].all \in {rec[x].all, <<>>}
    BY <1>0, <1>1, <1>2, LookupKeepsSound
  <1>5. s \in Record_ /\ s.pageviews = g.pageviews /\ Sorted(g.pageviews)
    <2>1. g \in Record_ /\ Sorted(g.pageviews)
      BY <1>3, SoundParts DEF Sound
    <2> HIDE DEF g
    <2>2. <<>> \in Seq(HitBy)
      OBVIOUS
    <2> QED BY <2>1, <2>2 DEF Record_
  <1> HIDE DEF s, g
  <1>6. /\ q \in Judging /\ q.pc = "judge" /\ q.key = r.key /\ q.todo = r.todo \ {sm}
        /\ q.sm = sm /\ q.snap = s
    BY <1>2, <1>5 DEF Judging
  <1> HIDE DEF q, r
  <1>7. q \in Under \cup Judging \cup {Idle} /\ Sorted(q.snap.pageviews) /\ q.pc # "forward"
    BY <1>5, <1>6
  <1>8. /\ RequestsSound' /\ th'[t] = q
        /\ \A u \in Threads : u # t => th'[u] = th[u]
    BY <1>0, <1>1, <1>7, RequestMoves
  <1>9. ASSUME Enforced
        PROVE  OwnHitsSeen' /\ OnceBeyondTheLimit'
    <2>1. OwnHitsSeen /\ OnceBeyondTheLimit
      BY <1>9 DEF Inv
    <2>2. ASSUME NEW u \in Threads, u # t
          PROVE  OwnSeen(u, th'[u], rec', clock')
      <3>1. OwnSeen(u, th[u], rec, clock)
        BY <2>1 DEF OwnHitsSeen
      <3>2. th[u] \in Under \cup Judging => rec'[th[u].key].all \in {rec[th[u].key].all, <<>>}
        BY <1>4, RequestParts
      <3>3. OwnSeen(u, th[u], rec', clock)
        BY <3>1, <3>2, SeenKept
      <3> QED BY <1>1, <1>8, <2>2, <3>3
    <2>3. OwnSeen(t, q, rec', clock')
      <3>1. OwnSeen(t, r, rec, clock)
        BY <2>1 DEF OwnHitsSeen, r
      <3>2. PassedTheLimit(q) => PassedTheLimit(r)
        BY <1>2, <1>6, RequestParts DEF PassedTheLimit
      <3>3. ASSUME PassedTheLimit(q)
            PROVE  WithinLimit(t, rec'[q.key].all, clock')
        <4>1. WithinLimit(t, rec[r.key].all, clock)
          BY <3>1, <3>2, <3>3 DEF OwnSeen
        <4> QED BY <1>1, <1>2, <1>4, <1>6, <4>1, NothingBeyond
      <3>4. ShownBy(t, rec'[q.key].all, q.snap.pageviews)
        <4>1. clock \in Nat
          BY <1>0 DEF CacheSound
        <4>2. ShownBy(t, g.all, g.pageviews)
          BY <1>3, <1>9, <4>1, SnapshotShows DEF Enforced
        <4> QED BY <1>4, <1>5, <1>6, <4>2
      <3> QED BY <3>3, <3>4 DEF OwnSeen
    <2>4. \A u \in Threads : OwnSeen(u, th'[u], rec', clock')
      BY <1>8, <2>2, <2>3
    <2>5. \A x \in Keys : Once(rec'[x].all)
      BY <1>4, <2>1, NothingBeyond DEF OnceBeyondTheLimit
    <2> QED BY <2>4, <2>5 DEF OwnHitsSeen, OnceBeyondTheLimit
  <1> QED BY <1>4, <1>8, <1>9 DEF Inv

LEMMA JudgeKeeps ==
    ASSUME Inv, NEW t \in Threads, Judge(t)
    PROVE  Inv'
  <1> DEFINE r == th[t]
             q == IF Fires(r.sm, r.snap, r.path, clock) THEN Idle ELSE Passed(r)
  <1>0. CacheSound /\ RequestsSound
    BY DEF Inv
  <1>1. r.pc = "judge" /\ th' = [th EXCEPT ![t] = q] /\ clock' = clock /\ lru' = lru /\ rec' = rec
    BY DEF Judge
  <1>2. /\ r \in Judging /\ r.key \in Keys /\ r.path \in Paths /\ r.todo \in SUBSET Matchers
        /\ r.snap.pageviews \in Seq(Hit) /\ Sorted(r.snap.pageviews)
    <2>1. r \in Under \cup Judging \cup {Idle} /\ (r \in Judging => Sorted(r.snap.pageviews))
      BY <1>0 DEF RequestsSound
    <2> QED BY <1>1, <2>1, RequestParts
  <1> HIDE DEF r
  <1>3. /\ Passed(r) \in Under /\ Passed(r).key = r.key /\ Passed(r).todo = r.todo
        /\ Passed(r).pc = "forward" => Passed(r).todo = {}
    BY <1>2, PassedIs
  <1>4. /\ q \in Under \cup Judging \cup {Idle} /\ q \notin Judging
        /\ q.pc = "forward" => q.todo = {}
    BY <1>3, RequestParts
  <1>5. /\ q = Idle \/ (q = Passed(r) /\ ~Fires(r.sm, r.snap, r.path, clock))
    OBVIOUS
  <1> HIDE DEF q
  <1>6. /\ RequestsSound' /\ th'[t] = q
        /\ \A u \in Threads : u # t => th'[u] = th[u]
    BY <1>0, <1>1, <1>4, RequestMoves
  <1>7. CacheSound'
    BY <1>0, <1>1 DEF CacheSound
  <1>8. ASSUME Enforced
        PROVE  OwnHitsSeen' /\ OnceBeyondTheLimit'
    <2>1. OwnHitsSeen /\ OnceBeyondTheLimit
      BY <1>8 DEF Inv
    <2>2. OwnSeen(t, r, rec, clock)
      BY <2>1 DEF OwnHitsSeen, r
    <2>3. OwnSeen(t, q, rec, clock)
      <3>1. CASE q = Idle
        BY <3>1, IdleSeen
      <3>2. CASE q = Passed(r) /\ ~Fires(r.sm, r.snap, r.path, clock)
        <4>1. ~JudgesTheLimit(q)
          BY <1>4 DEF JudgesTheLimit
        <4>2. ASSUME PassedTheLimit(q)
              PROVE  WithinLimit(t, rec[r.key].all, clock)
          <5>1. RateLimit \notin r.todo
            BY <1>3, <3>2, <4>2 DEF PassedTheLimit
          <5>2. CASE r.sm # RateLimit
            BY <1>2, <2>2, <5>1, <5>2 DEF OwnSeen, PassedTheLimit
          <5>3. CASE r.sm = RateLimit
            <6>1. ShownBy(t, rec[r.key].all, r.snap.pageviews)
              BY <1>2, <2>2, <5>3 DEF OwnSeen, JudgesTheLimit
            <6>2. /\ clock \in Nat
                  /\ \A i \in 1..Len(r.snap.pageviews) : r.snap.pageviews[i].ts \in Nat
              BY <1>0, <1>2, Stamped DEF CacheSound
            <6>3. ~(countWithin(r.snap.pageviews, "", Window, clock) > Limit)
              BY <3>2, <5>3, RateLimitFires
            <6>4. ~Full(r.snap.pageviews, Len(r.snap.pageviews), clock)
              BY <1>2, <6>2, <6>3, CountIsFull
            <6>5. rec[r.key].all \in Seq(HitBy)
              BY <1>0, <1>2, SoundParts DEF CacheSound
            <6> QED BY <1>2, <6>1, <6>2, <6>4, <6>5, JudgedWithin
          <5> QED BY <5>2, <5>3
        <4> QED BY <1>3, <3>2, <4>1, <4>2 DEF OwnSeen
      <3> QED BY <1>5, <3>1, <3>2
    <2>4. \A u \in Threads : OwnSeen(u, th'[u], rec', clock')
      BY <1>1, <1>6, <2>1, <2>3 DEF OwnHitsSeen
    <2> QED BY <1>1, <2>1, <2>4 DEF OwnHitsSeen, OnceBeyondTheLimit
  <1> QED BY <1>6, <1>7, <1>8 DEF Inv

LEMMA RecordKeeps ==
    ASSUME Inv, NEW t \in Threads, Record(t)
    PROVE  Inv'
  <1> DEFINE k == th[t].key
             path == th[t].path
             c == Current(k)
             w == WithHit(c, path, t)
             e == [ts |-> clock, path |-> path, by |-> t]
  <1>0. CacheSound /\ RequestsSound /\ clock \in Nat
    BY DEF Inv, CacheSound
  <1>1. th[t].pc = "forward" /\ Store(k, w) /\ th' = [th EXCEPT ![t] = Idle] /\ clock' = clock
    BY DEF Record
  <1>2. th[t] \in Under /\ k \in Keys /\ path \in Paths /\ th[t].todo = {}
    <2>1. th[t] \in Under \cup Judging \cup {Idle} /\ th[t].todo = {}
      BY <1>0, <1>1 DEF RequestsSound
    <2> QED BY <1>1, <2>1, RequestParts
  <1>3. Sound(c, clock) /\ c.all \in {rec[k].all, <<>>}
    BY <1>0, <1>2, CurrentFacts
  <1>4. /\ e \in HitBy /\ e.by = t
        /\ w.all = Append(Kept(c.all), e)
    BY <1>0, <1>2 DEF WithHit, HitBy
  <1> HIDE DEF k, path, c, e
  <1>5. Sound(w, clock) /\ w.seen
    BY <1>0, <1>2, <1>3, HitIsSound
  <1> HIDE DEF w
  <1>6. /\ CacheSound' /\ rec'[k] = w
        /\ \A x \in Keys : x # k => rec'[x].all \in {rec[x].all, <<>>}
    BY <1>0, <1>1, <1>2, <1>5, StoreKeepsSound
  <1>7. /\ RequestsSound' /\ th'[t] = Idle
        /\ \A u \in Threads : u # t => th'[u] = th[u]
    BY <1>0, <1>1, RequestMoves, RequestParts
  <1>8. ASSUME Enforced
        PROVE  OwnHitsSeen' /\ OnceBeyondTheLimit'
    <2>1. OwnHitsSeen /\ OnceBeyondTheLimit
      BY <1>8 DEF Inv
    <2>2. /\ \A u : u # t /\ WithinLimit(u, c.all, clock) => WithinLimit(u, w.all, clock)
          /\ \A u, pv : u # t /\ ShownBy(u, c.all, pv) => ShownBy(u, w.all, pv)
          /\ Once(c.all) /\ WithinLimit(t, c.all, clock) => Once(w.all)
      <3>1. c.all \in Seq(HitBy) /\ Sorted(c.all)
        BY <1>3, SoundParts
      <3> QED BY <1>0, <1>4, <3>1, HitKeepsLimit
    <2>3. ASSUME NEW u \in Threads, u # t
          PROVE  OwnSeen(u, th'[u], rec', clock')
      <3>1. OwnSeen(u, th[u], rec, clock)
        BY <2>1 DEF OwnHitsSeen
      <3>2. CASE th[u] \in Under \cup Judging /\ th[u].key = k
        <4>1. PassedTheLimit(th[u]) => WithinLimit(u, c.all, clock)
          BY <1>3, <3>1, <3>2, NothingBeyond DEF OwnSeen
        <4>2. JudgesTheLimit(th[u]) => ShownBy(u, c.all, th[u].snap.pageviews)
          BY <1>3, <3>1, <3>2, NothingBeyond DEF OwnSeen
        <4>3. OwnSeen(u, th[u], rec', clock)
          BY <1>6, <2>2, <2>3, <3>2, <4>1, <4>2 DEF OwnSeen
        <4> QED BY <1>1, <1>7, <2>3, <4>3
      <3>3. CASE ~(th[u] \in Under \cup Judging /\ th[u].key = k)
        <4>1. th[u] \in Under \cup Judging => rec'[th[u].key].all \in {rec[th[u].key].all, <<>>}
          BY <1>6, <3>3, RequestParts
        <4>2. OwnSeen(u, th[u], rec', clock)
          BY <3>1, <4>1, SeenKept
        <4> QED BY <1>1, <1>7, <2>3, <4>2
      <3> QED BY <3>2, <3>3
    <2>4. \A u \in Threads : OwnSeen(u, th'[u], rec', clock')
      BY <1>7, <2>3, IdleSeen
    <2>5. Once(w.all)
      <3>1. PassedTheLimit(th[t])
        BY <1>2, RequestParts DEF PassedTheLimit
      <3>2. WithinLimit(t, rec[k].all, clock)
        BY <2>1, <3>1 DEF OwnHitsSeen, OwnSeen, k
      <3>3. WithinLimit(t, c.all, clock) /\ Once(c.all)
        BY <1>2, <1>3, <2>1, <3>2, NothingBeyond DEF OnceBeyondTheLimit
      <3> QED BY <2>2, <3>3
    <2>6. \A x \in Keys : Once(rec'[x].all)
      BY <1>6, <2>1, <2>5, NothingBeyond DEF OnceBeyondTheLimit
    <2> QED BY <2>4, <2>6 DEF OwnHitsSeen, OnceBeyondTheLimit
  <1> QED BY <1>6, <1>7, <1>8 DEF Inv

\* The requests do not change and no session gains a hit.
LEMMA OnlyForgotten ==
    ASSUME Inv, CacheSound', th' = th, clock' = clock,
           \A x \in Keys : rec'[x].all \in {rec[x].all, <<>>}
    PROVE  Inv'
  <1>1. RequestsSound'
    BY DEF Inv, RequestsSound
  <1>2. ASSUME Enforced
        PROVE  OwnHitsSeen' /\ OnceBeyondTheLimit'
    <2>1. OwnHitsSeen /\ OnceBeyondTheLimit
      BY <1>2 DEF Inv
    <2>2. ASSUME NEW u \in Threads
          PROVE  OwnSeen(u, th'[u], rec', clock')
      <3>1. OwnSeen(u, th[u], rec, clock)
        BY <2>1 DEF OwnHitsSeen
      <3>2. th[u] \in Under \cup Judging => rec'[th[u].key].all \in {rec[th[u].key].all, <<>>}
        BY RequestParts
      <3> QED BY <3>1, <3>2, SeenKept
    <2>3. \A x \in Keys : Once(rec'[x].all)
      BY <2>1, NothingBeyond DEF OnceBeyondTheLimit
    <2> QED BY <2>2, <2>3 DEF OwnHitsSeen, OnceBeyondTheLimit
  <1> QED BY <1>1, <1>2 DEF Inv

\* The record that a passed challenge leaves.
LEMMA GraceSound ==
    ASSUME CacheSound, NEW k \in Keys
    PROVE  LET m == [Current(k) EXCEPT !.passed = TRUE, !.lastSeen = clock] IN
           Sound(m, clock) /\ m.seen /\ m.passed /\ m.all = Current(k).all
  <1> DEFINE c == Current(k)
             m == [c EXCEPT !.passed = TRUE, !.lastSeen = clock]
             a == [c EXCEPT !.passed = TRUE]
             b == [a EXCEPT !.lastSeen = clock]
  <1>1. Sound(c, clock) /\ c.seen /\ clock \in Nat
    BY CurrentFacts DEF CacheSound
  <1> HIDE DEF c
  <1>2. c \in Record_
    BY <1>1 DEF Sound
  <1>3. /\ a \in Record_ /\ a.seen = c.seen /\ a.passed = TRUE
        /\ a.pageviews = c.pageviews /\ a.all = c.all
    BY <1>2 DEF Record_
  <1>4. m = b
    OBVIOUS
  <1> HIDE DEF a, m
  <1>5. /\ b \in Record_ /\ b.seen = a.seen /\ b.passed = a.passed
        /\ b.pageviews = a.pageviews /\ b.all = a.all
    BY <1>1, <1>3 DEF Record_
  <1> HIDE DEF b
  <1>6. m \in Record_ /\ m.seen = c.seen /\ m.passed /\ m.pageviews = c.pageviews /\ m.all = c.all
    BY <1>3, <1>4, <1>5
  <1>7. Ordered(m, clock) /\ Alike(m, clock) /\ Len(m.pageviews) <= maxPageviewStamps
    BY <1>1, <1>6 DEF Sound, Ordered, Alike
  <1> QED BY <1>1, <1>6, <1>7 DEF Sound, m, c

LEMMA TickKeeps ==
    ASSUME Inv, Tick
    PROVE  Inv'
  <1>0. CacheSound /\ RequestsSound /\ clock \in Nat
    BY DEF Inv, CacheSound
  <1>1. clock' = clock + 1 /\ lru' = lru /\ rec' = rec /\ th' = th
    BY DEF Tick
  <1>2. clock' \in Nat /\ \A k \in Keys : Sound(rec'[k], clock')
    BY <1>0, <1>1, SoundLater DEF CacheSound
  <1>3. CacheSound'
    BY <1>0, <1>1, <1>2 DEF CacheSound
  <1>4. RequestsSound'
    BY <1>0, <1>1 DEF RequestsSound
  <1>5. ASSUME Enforced
        PROVE  OwnHitsSeen' /\ OnceBeyondTheLimit'
    <2>1. OwnHitsSeen /\ OnceBeyondTheLimit
      BY <1>5 DEF Inv
    <2>2. ASSUME NEW u \in Threads
          PROVE  OwnSeen(u, th[u], rec, clock + 1)
      <3>1. OwnSeen(u, th[u], rec, clock)
        BY <2>1 DEF OwnHitsSeen
      <3>2. ASSUME PassedTheLimit(th[u])
            PROVE  WithinLimit(u, rec[th[u].key].all, clock + 1)
        <4>1. th[u].key \in Keys
          BY <3>2, RequestParts DEF PassedTheLimit
        <4>2. rec[th[u].key].all \in Seq(HitBy)
          BY <1>0, <4>1, SoundParts DEF CacheSound
        <4>3. WithinLimit(u, rec[th[u].key].all, clock)
          BY <3>1, <3>2 DEF OwnSeen
        <4> QED BY <1>0, <4>2, <4>3, WithinLater
      <3> QED BY <3>1, <3>2 DEF OwnSeen
    <2>3. \A u \in Threads : OwnSeen(u, th'[u], rec', clock')
      BY <1>1, <2>2
    <2> QED BY <1>1, <2>1, <2>3 DEF OwnHitsSeen, OnceBeyondTheLimit
  <1> QED BY <1>3, <1>4, <1>5 DEF Inv

-----------------------------------------------------------------------------
(* The theorems *)

\* The records, the order of the cache and the requests are sound in every
\* reachable state, and a goroutine never passes the rate-limit rule blind to
\* its own hits (tracker.go).
THEOREM Invariant == Spec => []Inv
  <1>1. Init => Inv
    <2> SUFFICES ASSUME Init PROVE Inv
      OBVIOUS
    <2>1. /\ clock = 0 /\ clock \in Nat /\ lru = <<>> /\ rec = [k \in Keys |-> NoRecord]
          /\ th = [t \in Threads |-> Idle]
      BY DEF Init
    <2>2. Sound(NoRecord, clock) /\ ~NoRecord.seen /\ NoRecord.all = <<>>
      BY <2>1, EmptySound
    <2>3. lru \in Seq(Keys) /\ Len(lru) = 0 /\ DOMAIN lru = {}
      BY <2>1
    <2>4. CacheSound
      <3>1. Len(lru) <= MaxEntries
        BY <2>3, Constants
      <3>2. Distinct(lru) /\ \A k \in Keys : ~Holds(lru, k)
        BY <2>3 DEF Distinct, Holds
      <3>3. NoRecord \in Record_
        BY <2>2 DEF Sound
      <3> HIDE DEF NoRecord
      <3>4. rec \in [Keys -> Record_] /\ \A k \in Keys : rec[k] = NoRecord
        BY <2>1, <3>3
      <3> QED BY <2>1, <2>2, <2>3, <3>1, <3>2, <3>4 DEF CacheSound
    <2>5. RequestsSound
      BY <2>1, RequestParts DEF RequestsSound
    <2>6. OwnHitsSeen
      BY <2>1, IdleSeen DEF OwnHitsSeen
    <2>7. OnceBeyondTheLimit
      BY <2>1, <2>2, NothingBeyond DEF OnceBeyondTheLimit
    <2> QED BY <2>4, <2>5, <2>6, <2>7 DEF Inv
  <1>2. Inv /\ [Next]_vars => Inv'
    <2> SUFFICES ASSUME Inv, [Next]_vars PROVE Inv'
      OBVIOUS
    <2>0. CacheSound
      BY DEF Inv
    <2>1. ASSUME NEW t \in Threads, NEW k \in Keys, NEW path \in Paths, Arrive(t, k, path)
          PROVE  Inv'
      BY <2>1, ArriveKeeps
    <2>2. ASSUME NEW t \in Threads, NEW sm \in Matchers, Evaluate(t, sm)
          PROVE  Inv'
      BY <2>2, EvaluateKeeps
    <2>3. ASSUME NEW t \in Threads, Judge(t)
          PROVE  Inv'
      BY <2>3, JudgeKeeps
    <2>4. ASSUME NEW t \in Threads, Record(t)
          PROVE  Inv'
      BY <2>4, RecordKeeps
    <2>5. ASSUME NEW k \in Keys, MarkChallengePassed(k)
          PROVE  Inv'
      <3> DEFINE m == [Current(k) EXCEPT !.passed = TRUE, !.lastSeen = clock]
      <3>1. Sound(m, clock) /\ m.seen /\ m.all = Current(k).all
        BY <2>0, GraceSound
      <3>2. Store(k, m) /\ clock' = clock /\ th' = th
        BY <2>5 DEF MarkChallengePassed
      <3> HIDE DEF m
      <3>3. /\ CacheSound' /\ rec'[k] = m
            /\ \A x \in Keys : x # k => rec'[x].all \in {rec[x].all, <<>>}
        BY <2>0, <3>1, <3>2, StoreKeepsSound
      <3>4. \A x \in Keys : rec'[x].all \in {rec[x].all, <<>>}
        BY <2>0, <3>1, <3>3, CurrentFacts
      <3> QED BY <3>2, <3>3, <3>4, OnlyForgotten
    <2>6. ASSUME NEW k \in Keys, ChallengePassed(k)
          PROVE  Inv'
      <3>1. Looked(k) /\ clock' = clock /\ th' = th
        BY <2>6 DEF ChallengePassed
      <3>2. CacheSound' /\ \A x \in Keys : rec'[x].all \in {rec[x].all, <<>>}
        BY <2>0, <3>1, LookupKeepsSound
      <3> QED BY <3>1, <3>2, OnlyForgotten
    <2>7. CASE Tick
      BY <2>7, TickKeeps
    <2>8. CASE UNCHANGED vars
      BY <2>8 DEF vars, Inv, CacheSound, RequestsSound, OwnHitsSeen, OnceBeyondTheLimit
    <2> QED BY <2>1, <2>2, <2>3, <2>4, <2>5, <2>6, <2>7, <2>8 DEF Next
  <1> QED BY <1>1, <1>2, PTL DEF Spec

\* The cache never holds more sessions than it may, a key at most once, and
\* exactly the cached keys have a record with at most maxPageviewStamps stamps
\* (tracker.go:88-134).
THEOREM TrackerTypes == Spec => []TypeOK
  <1>1. Inv => TypeOK
    BY DEF Inv, CacheSound, RequestsSound, Sound, TypeOK
  <1> QED BY <1>1, Invariant, PTL

\* The stamps that are kept answer the rate-limit check as all of them would
\* (tracker.go:98-101 and 171-186), for every limit below their number.
THEOREM CapHidesNothing == Spec => []StampsSuffice
  <1>1. Inv => StampsSuffice
    BY SoundTells DEF Inv, CacheSound, StampsSuffice
  <1> QED BY <1>1, Invariant, PTL

\* A limit that is not below their number never refuses anybody: no record and
\* no snapshot ever shows more hits than the limit allows (tracker.go:98-101).
THEOREM LargeLimitNeverFires ==
    Spec => [](Limit >= maxPageviewStamps =>
                  \A k \in Keys : ~(countWithin(rec[k].pageviews, "", Window, clock) > Limit))
  <1>1. ASSUME Inv, Limit >= maxPageviewStamps, NEW k \in Keys
        PROVE  ~(countWithin(rec[k].pageviews, "", Window, clock) > Limit)
    <2> DEFINE pv == rec[k].pageviews
    <2>1. Sound(rec[k], clock) /\ clock \in Nat
      BY <1>1 DEF Inv, CacheSound
    <2>2. /\ pv \in Seq(Hit) /\ Sorted(pv) /\ Len(pv) \in Nat
          /\ \A i \in 1..Len(pv) : pv[i].ts \in Nat
      BY <2>1, SoundParts
    <2>3. Len(pv) <= maxPageviewStamps
      BY <2>1 DEF Sound
    <2> HIDE DEF pv
    <2>4. ~Full(pv, Len(pv), clock)
      BY <1>1, <2>2, <2>3, Constants DEF Full
    <2>5. countWithin(pv, "", Window, clock) > Limit <=> Full(pv, Len(pv), clock)
      BY <2>1, <2>2, CountIsFull
    <2> QED BY <2>4, <2>5 DEF pv
  <1>2. Inv => (Limit >= maxPageviewStamps =>
                  \A k \in Keys : ~(countWithin(rec[k].pageviews, "", Window, clock) > Limit))
    BY <1>1
  <1> QED BY <1>2, Invariant, PTL

\* At most one hit per goroutine is beyond the limit of a rate-limit rule, if
\* that limit is below maxPageviewStamps, however the checks and the recordings
\* interleave, within the life of a record.
THEOREM OvershootIsBounded == Spec => []OvershootBounded
  <1>1. ASSUME Inv, Enforced, NEW k \in Keys
        PROVE  Len(rec[k].all) <= Limit + Cardinality(Threads)
    <2> DEFINE all == rec[k].all
               n == Len(all)
               B == (Limit + 1)..n
               f == [i \in B |-> all[i].by]
    <2>1. /\ all \in Seq(HitBy) /\ n \in Nat /\ DOMAIN all = 1..n
          /\ \A i \in 1..n : all[i] \in HitBy
      <3>1. all \in Seq(HitBy)
        BY <1>1, SoundParts DEF Inv, CacheSound
      <3> HIDE DEF all
      <3> QED BY <3>1
    <2>2. \A i, j \in 1..n : i < j /\ all[i].by = all[j].by => i <= Limit
      BY <1>1, <2>1 DEF Inv, OnceBeyondTheLimit, Once
    <2> HIDE DEF all, n
    <2>3. \A i \in B : i \in 1..n /\ ~(i <= Limit) /\ all[i].by \in Threads /\ i \in Int
      BY <2>1, Constants DEF HitBy
    <2>4. f \in [B -> Threads] /\ \A i, j \in B : f[i] = f[j] => i = j
      <3>1. f \in [B -> Threads] /\ \A i \in B : f[i] = all[i].by
        BY <2>3
      <3>2. ASSUME NEW i \in B, NEW j \in B, all[i].by = all[j].by
            PROVE  i = j
        <4>1. ~(i < j) /\ ~(j < i)
          BY <2>2, <2>3, <3>2
        <4> QED BY <2>3, <4>1
      <3> QED BY <3>1, <3>2
    <2>5. /\ IsFiniteSet(B)
          /\ Cardinality(B) = IF Limit + 1 > n THEN 0 ELSE n - (Limit + 1) + 1
      BY <2>1, FS_Interval, Constants
    <2>6. Cardinality(Threads) \in Nat
      BY FiniteThreads, FS_CardinalityType
    <2>7. Cardinality(B) <= Cardinality(Threads)
      BY <2>4, FiniteThreads, FS_Injection DEF ExistsInjection, Injection, IsInjective
    <2> HIDE DEF B
    <2>8. n <= Limit + Cardinality(Threads)
      BY <2>1, <2>5, <2>6, <2>7, Constants
    <2> QED BY <2>8 DEF n, all
  <1>2. Inv => OvershootBounded
    BY <1>1 DEF OvershootBounded, Enforced
  <1> QED BY <1>2, Invariant, PTL

\* A passed challenge is lost only with a session that was idle too long or
\* was the least recently used of a full cache (tracker.go:109-134).
THEOREM GraceIsKept == Spec => GraceKept
  <1> DEFINE A == \A k \in Keys : rec[k].passed /\ ~rec'[k].passed =>
                     Stale(rec[k]) \/ (~rec'[k].seen /\ lru[1] = k /\ Len(lru) = MaxEntries)
  <1>1. Inv /\ [Next]_vars => [A]_vars
    <2> SUFFICES ASSUME Inv, Next PROVE A
      OBVIOUS
    <2>0. CacheSound /\ RequestsSound /\ clock \in Nat
      BY DEF Inv, CacheSound
    <2>1. CASE rec' = rec
      BY <2>1
    <2>2. ASSUME NEW k \in Keys, Looked(k), clock' = clock
          PROVE  A
      BY <2>0, <2>2, LookupKeepsSound
    <2>3. ASSUME NEW k \in Keys, NEW r, Sound(r, clock), r.seen, Store(k, r), clock' = clock,
                 rec[k].passed /\ ~r.passed => Stale(rec[k])
          PROVE  A
      <3>1. /\ rec'[k] = r
            /\ \A x \in Keys : x # k /\ rec[x].passed /\ ~rec'[x].passed =>
                  ~rec'[x].seen /\ lru[1] = x /\ Len(lru) = MaxEntries
        BY <2>0, <2>3, StoreKeepsSound
      <3> QED BY <2>3, <3>1
    <2>4. ASSUME NEW t \in Threads, NEW sm \in Matchers, Evaluate(t, sm)
          PROVE  A
      <3>1. th[t].pc = "eval" /\ Looked(th[t].key) /\ clock' = clock
        BY <2>4 DEF Evaluate
      <3>2. th[t].key \in Keys
        BY <2>0, <3>1, RequestParts DEF RequestsSound
      <3> QED BY <2>2, <3>1, <3>2
    <2>5. ASSUME NEW t \in Threads, Record(t)
          PROVE  A
      <3> DEFINE k == th[t].key
                 w == WithHit(Current(k), th[t].path, t)
      <3>1. th[t].pc = "forward" /\ Store(k, w) /\ clock' = clock
        BY <2>5 DEF Record
      <3>2. k \in Keys /\ th[t].path \in Paths
        BY <2>0, <3>1, RequestParts DEF RequestsSound
      <3>3. w.passed = Current(k).passed
        BY DEF WithHit
      <3>4. Sound(w, clock) /\ w.seen /\ (rec[k].passed /\ ~w.passed => Stale(rec[k]))
        BY <2>0, <3>2, <3>3, CurrentFacts, HitIsSound
      <3> HIDE DEF w, k
      <3> QED BY <2>3, <3>1, <3>2, <3>4
    <2>6. ASSUME NEW k \in Keys, MarkChallengePassed(k)
          PROVE  A
      <3> DEFINE m == [Current(k) EXCEPT !.passed = TRUE, !.lastSeen = clock]
      <3>1. Sound(m, clock) /\ m.seen /\ m.passed
        BY <2>0, GraceSound
      <3>2. Store(k, m) /\ clock' = clock
        BY <2>6 DEF MarkChallengePassed
      <3> HIDE DEF m
      <3> QED BY <2>3, <3>1, <3>2
    <2>7. ASSUME NEW k \in Keys, ChallengePassed(k)
          PROVE  A
      BY <2>2, <2>7 DEF ChallengePassed
    <2> HIDE DEF A
    <2> QED BY <2>1, <2>4, <2>5, <2>6, <2>7 DEF Next, Arrive, Judge, Tick
  <1> HIDE DEF A
  <1>2. Spec => [][A]_vars
    BY <1>1, Invariant, PTL DEF Spec
  <1> QED BY <1>2 DEF GraceKept, A
=============================================================================
