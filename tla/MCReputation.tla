---------------------------- MODULE MCReputation ----------------------------
\* Model-checking instances of the reputation manager.
EXTENDS Reputation, TLC

\* Request goroutines are interchangeable.
ThreadSymmetry == Permutations(Threads)

\* All of the state but the last line of the log, which no step reads and of
\* which the properties of this run say nothing but its type: states that differ
\* in nothing else are checked once.
WithoutLog == <<clock, entries, db, th, incidents, forgiven, banned, crashes>>
=============================================================================
