------------------------------ MODULE MCProxy -------------------------------
\* Model-checking instances of the request pipeline.
EXTENDS Proxy, TLC

CONSTANTS browser, bot, ip1, ip2

\* Both come from one address (NAT); the bot also sends a forwarding header.
MCPeer == browser :> ip1 @@ bot :> ip1
MCForwarded == browser :> "" @@ bot :> ip2

-----------------------------------------------------------------------------
(* Templates *)

PathPattern(paths) == [rel |-> "path", covers |-> paths, query |-> FALSE]

Http(method, patterns, matchers) ==
    [method |-> method, path |-> patterns, raw |-> {}, matchers |-> matchers, and |-> TRUE,
     action |-> "", session |-> ""]

Word(part, w, negative) ==
    [part |-> part, words |-> {w}, regex |-> {}, and |-> FALSE, negative |-> negative]

Template(action, session, http) ==
    [id |-> "t", action |-> action, session |-> session, http |-> http]

\* A challenge on the login and the admin page, its action nested in the
\* http block; a log-only and a ban rule for the same probe, the ban with a raw
\* request line; an action that does not exist; a rule without an action, which
\* blocks; one with session matchers and no action, which only logs; one that
\* does not compile and one whose path is the bare base URL.
MCRules ==
  <<Template("", "", <<[Http("", {PathPattern({"login", "admin"})}, {}) EXCEPT !.action = "challenge"]>>),
    Template("log-only", "", <<Http("", {}, {Word("all", "probe", FALSE)})>>),
    Template("ban", "", <<[Http("GET", {}, {Word("body", "probe", FALSE)})
                             EXCEPT !.raw = {[method |-> "POST", path |-> PathPattern({"admin"})]}]>>),
    Template("unknown", "cold", <<Http("", {PathPattern({"odd"})}, {})>>),
    Template("", "", <<Http("", {}, {Word("path", "sqli", FALSE), Word("user-agent", "friend", TRUE)})>>),
    Template("", "cold", <<Http("", {PathPattern({"odd"})}, {})>>),
    Template("block", "", <<Http("", {}, {[Word("all", "probe", FALSE) EXCEPT !.regex = {"bad"}]})>>),
    Template("block", "", <<Http("", {[rel |-> "", covers |-> {"home"}, query |-> FALSE]}, {})>>)>>

MCRuleSets == {MCRules}

Page(method, paths, inPath, inBody, tail) ==
    [method |-> method, path |-> paths, uri |-> paths, tail |-> tail,
     holds |-> [path |-> inPath, header |-> {}, body |-> inBody]]

\* The browser opens the home page and the login page.  The bot probes: with a
\* path that only matches normalized (the challenge, the log-only and the ban
\* rule all match), on a page that only the log-only rule knows, past the
\* inspected part of the body, where no rule looks, with a path that a rule
\* knows, and on the page of the unknown action.
MCPages ==
    browser :> {Page("GET", {"home"}, {}, {}, {}), Page("GET", {"login"}, {}, {}, {})}
    @@ bot :> {Page("POST", {"x//admin", "admin"}, {}, {"probe"}, {}),
               Page("GET", {"home"}, {"sqli"}, {}, {}),
               Page("GET", {"odd"}, {}, {}, {}),
               Page("POST", {"home"}, {}, {"probe"}, {}),
               Page("POST", {"home"}, {}, {"probe"}, {"probe"})}

-----------------------------------------------------------------------------

\* A hot reload may switch fail_open, the challenge, the access lists and the
\* trusted proxies.
Cfg(white, black, trusted, challenge, failOpen) ==
    [whitelist |-> white, blocklist |-> black, trusted |-> trusted,
     challenge |-> challenge, failOpen |-> failOpen]

\* In the last one the browser's address is on both lists (the whitelist wins)
\* and the bot's forwarding header counts.
MCConfigs == {Cfg({}, {}, {}, TRUE, FALSE), Cfg({}, {}, {}, FALSE, TRUE),
              Cfg({ip1}, {ip1, ip2}, {ip1}, TRUE, FALSE)}

SlotSymmetry == Permutations(Slots)
=============================================================================
