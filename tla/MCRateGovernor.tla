--------------------------- MODULE MCRateGovernor ---------------------------
\* Model-checking instance of the proactive guard.
EXTENDS RateGovernor, TLC

Plain == [method |-> "GET", ua |-> "browser", accept |-> TRUE, language |-> TRUE, scanner |-> FALSE,
          injection |-> FALSE, overlong |-> FALSE, sensitive |-> FALSE]

Bare == [Plain EXCEPT !.ua = "empty", !.accept = FALSE, !.language = FALSE, !.overlong = TRUE]

\* Requests on both sides of the threshold: the most that soft signals reach
\* without a probe, probes alone, and probes with company.
MCRequests ==
    {Plain, [Plain EXCEPT !.sensitive = TRUE], Bare, [Bare EXCEPT !.ua = "script"],
     [Plain EXCEPT !.ua = "offensive"], [Plain EXCEPT !.method = "TRACE"],
     [Plain EXCEPT !.scanner = TRUE], [Plain EXCEPT !.scanner = TRUE, !.injection = TRUE],
     [Bare EXCEPT !.injection = TRUE], [Bare EXCEPT !.method = "POST", !.scanner = TRUE]}

Symmetry == Permutations(Threads) \cup Permutations(IPs)
=============================================================================
