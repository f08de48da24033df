---------------------------- MODULE MCHotReload -----------------------------
\* Model-checking instances of hot reload.
EXTENDS HotReload

MCNames == {"www", "api", "*", "_"}
MCWildcard == [n \in MCNames |-> IF n \in {"www", "api"} THEN "*" ELSE ""]

\* The Apache host serves one name that an nginx host serves too, and the rest
\* by a wildcard; another host has no key.
MCNginxSites == <<[cert |-> "c1", key |-> "k1", names |-> {"www", "_"}],
                  [cert |-> "c1", key |-> "", names |-> {"api"}]>>
MCApacheSites == <<[cert |-> "c2", key |-> "k2", names |-> {"www", "*"}]>>

NoSites == <<>>
=============================================================================
