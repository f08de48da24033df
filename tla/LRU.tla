--------------------------------- MODULE LRU --------------------------------
(***************************************************************************)
(* The order of the keys in an LRU cache (hashicorp/golang-lru, as the     *)
(* content cache, the session tracker and the flood governor use it): a    *)
(* sequence of keys, each once, least recently used first.                 *)
(***************************************************************************)
EXTENDS Integers, Sequences

Holds(s, k) == \E i \in DOMAIN s : s[i] = k

Distinct(s) == \A i, j \in DOMAIN s : s[i] = s[j] => i = j

\* Without k.
Drop(s, k) ==
    LET p == CHOOSE i \in DOMAIN s : s[i] = k
    IN  IF Holds(s, k) THEN [i \in 1..(Len(s) - 1) |-> s[IF i < p THEN i ELSE i + 1]] ELSE s

\* k becomes the most recent.
Touched(s, k) == Append(Drop(s, k), k)

\* k is put into a cache of max keys; the least recent goes when there are too
\* many.
Inserted(s, k, max) ==
    LET t == Touched(s, k) IN IF Len(t) > max THEN Tail(t) ELSE t
=============================================================================
