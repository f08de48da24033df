-------------------------- MODULE MCSessionTracker --------------------------
\* Model-checking instance of the session tracker.
EXTENDS SessionTracker, TLC

Is(type, value, window, match, negate) ==
    [type |-> type, value |-> value, window |-> window, match |-> match, negate |-> negate]

\* The rate-limit rule, and one that combines the other checks: too many hits
\* on one endpoint from a session that nothing speaks for.
MCMatchers ==
    {RateLimit,
     [condition |-> "and",
      checks |-> {Is("endpoint-rate-limit", 2, 0, "", FALSE),
                  Is("challenge-passed", 0, 0, "", TRUE),
                  Is("session-seen-before", 0, 0, "", FALSE),
                  Is("last-path-matches", 0, 0, "a", FALSE),
                  Is("min-prior-pageviews", 3, 1, "", TRUE)}]}

Symmetry == Permutations(Threads) \cup Permutations(Keys)
=============================================================================
