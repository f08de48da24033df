----------------------------- MODULE LRUProofs ------------------------------
(***************************************************************************)
(* What the operations on an LRU cache return, for every set K of keys: no *)
(* key is ever in it twice, and the only key that leaves without being     *)
(* dropped is the least recent one of a cache that is full.                *)
(***************************************************************************)
EXTENDS LRU, SequenceTheorems, TLAPS

\* A sequence of n elements given by its elements.
LEMMA SeqOf ==
    ASSUME NEW K, NEW n \in Nat, NEW f \in [1..n -> K]
    PROVE  f \in Seq(K) /\ Len(f) = n /\ DOMAIN f = 1..n
  BY SeqDef

\* Drop takes k out, and nothing else.
LEMMA DropFacts ==
    ASSUME NEW K, NEW s \in Seq(K), Distinct(s), NEW k
    PROVE  /\ Drop(s, k) \in Seq(K)
           /\ Distinct(Drop(s, k))
           /\ \A x : Holds(Drop(s, k), x) <=> Holds(s, x) /\ x # k
           /\ Len(Drop(s, k)) = IF Holds(s, k) THEN Len(s) - 1 ELSE Len(s)
  <1>1. CASE ~Holds(s, k)
    BY <1>1 DEF Drop, Holds
  <1>2. CASE Holds(s, k)
    <2> DEFINE p == CHOOSE i \in DOMAIN s : s[i] = k
               n == Len(s) - 1
               d == [i \in 1..n |-> s[IF i < p THEN i ELSE i + 1]]
    <2>0. DOMAIN s = 1..Len(s) /\ Len(s) \in Nat /\ \A i \in 1..Len(s) : s[i] \in K
      OBVIOUS
    <2>1. p \in 1..Len(s) /\ s[p] = k
      BY <1>2, <2>0 DEF Holds
    <2>2. Drop(s, k) = d /\ n \in Nat
      BY <1>2, <2>0, <2>1 DEF Drop
    <2> HIDE DEF p
    <2>3. d \in [1..n -> K]
      BY <2>0, <2>1
    <2>4. d \in Seq(K) /\ Len(d) = n /\ DOMAIN d = 1..n
      BY <2>2, <2>3, SeqOf
    <2>5. \A i \in 1..Len(s) : s[i] = k => i = p
      BY <2>0, <2>1 DEF Distinct
    <2>6. Distinct(d)
      <3> SUFFICES ASSUME NEW i \in 1..n, NEW j \in 1..n, d[i] = d[j]
                   PROVE  i = j
        BY <2>4 DEF Distinct
      <3> DEFINE a == IF i < p THEN i ELSE i + 1
                 b == IF j < p THEN j ELSE j + 1
      <3>1. a \in 1..Len(s) /\ b \in 1..Len(s) /\ s[a] = s[b]
        BY <2>0, <2>1
      <3>2. a = b
        BY <2>0, <3>1 DEF Distinct
      <3> QED BY <2>0, <2>1, <3>2
    <2>7. ASSUME NEW x, Holds(d, x)
          PROVE  Holds(s, x) /\ x # k
      <3>1. PICK i \in 1..n : d[i] = x
        BY <2>4, <2>7 DEF Holds
      <3>2. CASE i < p
        BY <2>0, <2>1, <2>5, <3>1, <3>2 DEF Holds
      <3>3. CASE ~(i < p)
        <4>1. x = s[i + 1] /\ i + 1 \in 1..Len(s) /\ i + 1 # p
          BY <2>0, <2>1, <3>1, <3>3
        <4> QED BY <2>0, <2>5, <4>1 DEF Holds
      <3> QED BY <3>2, <3>3
    <2>8. ASSUME NEW x, Holds(s, x), x # k
          PROVE  Holds(d, x)
      <3>1. PICK i \in 1..Len(s) : s[i] = x
        BY <2>0, <2>8 DEF Holds
      <3>2. i # p
        BY <2>1, <2>8, <3>1
      <3>3. CASE i < p
        <4>1. i \in 1..n /\ d[i] = x
          BY <2>0, <2>1, <3>1, <3>3
        <4> QED BY <2>4, <4>1 DEF Holds
      <3>4. CASE i > p
        <4>1. i - 1 \in 1..n /\ d[i - 1] = x
          BY <2>0, <2>1, <3>1, <3>4
        <4> QED BY <2>4, <4>1 DEF Holds
      <3> QED BY <2>0, <2>1, <3>2, <3>3, <3>4
    <2> QED BY <1>2, <2>2, <2>4, <2>6, <2>7, <2>8
  <1> QED BY <1>1, <1>2

\* A key that is used is in the cache, and the others stay.
LEMMA TouchedFacts ==
    ASSUME NEW K, NEW s \in Seq(K), Distinct(s), NEW k \in K
    PROVE  /\ Touched(s, k) \in Seq(K)
           /\ Distinct(Touched(s, k))
           /\ \A x : Holds(Touched(s, k), x) <=> Holds(s, x) \/ x = k
           /\ Len(Touched(s, k)) = IF Holds(s, k) THEN Len(s) ELSE Len(s) + 1
           /\ Touched(s, k)[Len(Touched(s, k))] = k
           /\ Len(Touched(s, k)) > 1 /\ ~Holds(s, k) => Touched(s, k)[1] = s[1]
  <1> DEFINE d == Drop(s, k)
             t == Append(d, k)
  <1>1. /\ d \in Seq(K) /\ Distinct(d) /\ (\A x : Holds(d, x) <=> Holds(s, x) /\ x # k)
        /\ Len(d) = IF Holds(s, k) THEN Len(s) - 1 ELSE Len(s)
        /\ ~Holds(s, k) => d = s
    BY DropFacts DEF Drop
  <1> HIDE DEF d
  <1>2. /\ t \in Seq(K) /\ Len(t) = Len(d) + 1 /\ Len(d) \in Nat /\ Len(s) \in Nat
        /\ \A i \in 1..Len(d) : t[i] = d[i]
        /\ t[Len(d) + 1] = k
        /\ DOMAIN t = 1..(Len(d) + 1) /\ DOMAIN d = 1..Len(d)
    BY <1>1
  <1>3. Touched(s, k) = t
    BY DEF Touched, d
  <1> HIDE DEF t
  <1>4. Distinct(t)
    <2>1. \A i \in 1..Len(d) : d[i] # k
      BY <1>1, <1>2 DEF Holds
    <2> QED BY <1>1, <1>2, <2>1 DEF Distinct
  <1>5. ASSUME NEW x
        PROVE  Holds(t, x) <=> Holds(s, x) \/ x = k
    <2>1. Holds(t, x) <=> Holds(d, x) \/ x = k
      BY <1>2 DEF Holds
    <2> QED BY <1>1, <2>1
  <1> QED BY <1>1, <1>2, <1>3, <1>4, <1>5

\* A key that is inserted is in the cache, which is within its bound; at most
\* one other key leaves, the least recent of a full cache that did not hold k.
LEMMA InsertedFacts ==
    ASSUME NEW K, NEW s \in Seq(K), Distinct(s), NEW k \in K,
           NEW max \in Nat \ {0}, Len(s) <= max
    PROVE  LET n == Inserted(s, k, max) IN
           /\ n \in Seq(K)
           /\ Distinct(n)
           /\ Len(n) <= max
           /\ Holds(n, k)
           /\ \A x : Holds(n, x) => Holds(s, x) \/ x = k
           /\ \A x : Holds(s, x) /\ ~Holds(n, x) =>
                 x # k /\ x = s[1] /\ Len(s) = max /\ ~Holds(s, k)
  <1> DEFINE t == Touched(s, k)
             n == Inserted(s, k, max)
  <1>1. /\ t \in Seq(K) /\ Distinct(t) /\ (\A x : Holds(t, x) <=> Holds(s, x) \/ x = k)
        /\ Len(t) = IF Holds(s, k) THEN Len(s) ELSE Len(s) + 1
        /\ t[Len(t)] = k /\ (Len(t) > 1 /\ ~Holds(s, k) => t[1] = s[1])
    BY TouchedFacts
  <1>2. n = IF Len(t) > max THEN Tail(t) ELSE t
    BY DEF Inserted
  <1> SUFFICES /\ n \in Seq(K) /\ Distinct(n) /\ Len(n) <= max /\ Holds(n, k)
               /\ \A x : Holds(n, x) => Holds(s, x) \/ x = k
               /\ \A x : Holds(s, x) /\ ~Holds(n, x) =>
                     x # k /\ x = s[1] /\ Len(s) = max /\ ~Holds(s, k)
    OBVIOUS
  <1> HIDE DEF t, n
  <1>3. CASE Len(t) <= max
    <2>1. Len(t) \in Nat
      BY <1>1
    <2>2. n = t
      BY <1>2, <1>3, <2>1
    <2>3. Holds(t, k) /\ \A x : Holds(s, x) => Holds(t, x)
      BY <1>1
    <2> QED BY <1>1, <1>3, <2>2, <2>3
  <1>4. CASE Len(t) > max
    <2>1. Len(s) \in Nat /\ Len(t) \in Nat /\ DOMAIN t = 1..Len(t)
      BY <1>1
    <2>2. Len(s) = max /\ ~Holds(s, k) /\ Len(t) = max + 1 /\ Len(t) > 1
      BY <1>1, <1>4, <2>1
    <2>3. t # <<>>
      BY <2>2
    <2>4. /\ n \in Seq(K) /\ Len(n) = max
          /\ \A i \in 1..max : n[i] = t[i + 1]
          /\ DOMAIN n = 1..max
      BY <1>1, <1>2, <1>4, <2>2, <2>3
    <2>5. Distinct(n)
      <3> SUFFICES ASSUME NEW i \in 1..max, NEW j \in 1..max, n[i] = n[j]
                   PROVE  i = j
        BY <2>4 DEF Distinct
      <3>1. i + 1 \in 1..Len(t) /\ j + 1 \in 1..Len(t) /\ t[i + 1] = t[j + 1]
        BY <2>2, <2>4
      <3>2. i + 1 = j + 1
        BY <1>1, <2>1, <3>1 DEF Distinct
      <3> QED BY <3>2
    <2>6. Holds(n, k)
      <3>1. n[max] = k /\ max \in DOMAIN n
        BY <1>1, <2>2, <2>4
      <3> QED BY <3>1 DEF Holds
    <2>7. \A x : Holds(n, x) => Holds(t, x)
      BY <2>1, <2>2, <2>4 DEF Holds
    <2>8. ASSUME NEW x, Holds(t, x), ~Holds(n, x)
          PROVE  x = t[1]
      <3>1. PICK i \in 1..Len(t) : t[i] = x
        BY <2>1, <2>8 DEF Holds
      <3>2. CASE i # 1
        <4>1. i - 1 \in 1..max /\ n[i - 1] = x
          BY <2>2, <2>4, <3>1, <3>2
        <4> QED BY <2>4, <2>8, <4>1 DEF Holds
      <3> QED BY <3>1, <3>2
    <2>9. t[1] = s[1]
      BY <1>1, <2>2
    <2>10. \A x : Holds(n, x) => Holds(s, x) \/ x = k
      BY <1>1, <2>7
    <2>11. ASSUME NEW x, Holds(s, x), ~Holds(n, x)
           PROVE  x # k /\ x = s[1] /\ Len(s) = max /\ ~Holds(s, k)
      <3>1. Holds(t, x) /\ x # k
        BY <1>1, <2>2, <2>11
      <3> QED BY <2>2, <2>8, <2>9, <2>11, <3>1
    <2>12. Len(n) <= max
      BY <2>4
    <2> QED BY <2>4, <2>5, <2>6, <2>10, <2>11, <2>12
  <1>5. Len(t) \in Nat
    BY <1>1
  <1> QED BY <1>3, <1>4, <1>5
=============================================================================
