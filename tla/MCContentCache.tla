--------------------------- MODULE MCContentCache ---------------------------
\* Model-checking instance of the content cache.
EXTENDS ContentCache, TLC

Symmetry == Permutations(Threads) \cup Permutations(Keys)
=============================================================================
