------------------------------- MODULE Proxy --------------------------------
(***************************************************************************)
(* The request pipeline (internal/proxy/proxy.go, ServeHTTP and            *)
(* applyAction) with the parts it drives: static access lists, reputation, *)
(* the challenge flow, session grace, the detection engine and the         *)
(* proactive guard.  Requests of several clients are in flight at once;    *)
(* every action below is one call into a shared component, so requests     *)
(* interleave between any two of them.                                     *)
(*                                                                         *)
(* The reputation manager appears here as the abstract store that module   *)
(* Reputation implements (without its disk: no restart happens here), and  *)
(* with the torn reads of its Lookup; the expiry of a reputation entry, of *)
(* a session record and of a challenge token may happen at any time.       *)
(***************************************************************************)
EXTENDS Detect, ReputationValues, FiniteSets

CONSTANTS
    Slots,           \* requests that can be in flight at once
    Clients,         \* user agents
    IPs,             \* client addresses
    Peer,            \* the address each client connects from
    Forwarded,       \* the address in its forwarding headers, "" for none
    Configs,         \* the configurations a hot reload may install
    Cookies,         \* the clients that return cookies
    Pages,           \* per client: the requests it makes
    RuleSets,        \* the template directories a hot reload may load
    GuardVerdicts,   \* what the proactive guard may answer ("none" = let pass)
    MayPanic,        \* whether a pipeline stage may panic
    MaxSids          \* bound on the session ids a client has in use at once

Config == [whitelist : SUBSET IPs, blocklist : SUBSET IPs,
           trusted : SUBSET IPs, challenge : BOOLEAN, failOpen : BOOLEAN]

ASSUME ProxyAssumption ==
    /\ Peer \in [Clients -> IPs] /\ Forwarded \in [Clients -> IPs \cup {""}]
    /\ Configs \subseteq Config
    /\ Cookies \subseteq Clients
    /\ GuardVerdicts \subseteq Action \cup {"none"}
    /\ BlockThreshold \in Nat \ {0} /\ MaxSids \in Nat \ {0}
    /\ MayPanic \in BOOLEAN
    /\ RuleSets \subseteq Seq(TemplateFile)

ASSUME SlotsAssumption == IsFiniteSet(Slots)

VARIABLES
    rep,       \* the reputation of each address
    plain,     \* history: per address, the violations since it was last clean
               \* that were challenges of visitors who have not solved one yet
    seen,      \* session keys with a live record
    passed,    \* session keys that solved a challenge
    cookie,    \* the session id in each client's cookie jar, 0 for none
    token,     \* whether somebody holds a challenge token, perhaps expired
               \* (a token is bound neither to a client nor to an address)
    req        \* the request in each slot

vars == <<rep, plain, seen, passed, cookie, token, req>>

-----------------------------------------------------------------------------

NoRequest == [pc |-> "idle"]

Busy(r) == req[r].pc # "idle"
IP(r) == req[r].ip

\* Forwarding headers count only when the peer is a trusted proxy.
RealClientIP(c, cfg) ==
    IF Peer[c] \in cfg.trusted /\ Forwarded[c] # "" THEN Forwarded[c] ELSE Peer[c]

\* ensureSession: a valid signed cookie names the session, otherwise the
\* address does, and a fresh cookie rides on the response.
SidKey(c, n) == <<c, n>>
IPKey(ip) == <<ip, 0>>
Keys == {SidKey(c, n) : c \in Clients, n \in 1..MaxSids} \cup {IPKey(ip) : ip \in IPs}

\* A session id is random and never repeats; here, one that nobody holds,
\* carries or remembers any more.
FreshSids(c) ==
    {n \in 1..MaxSids : /\ n # cookie[c]
                        /\ SidKey(c, n) \notin seen
                        /\ \A r \in Slots : Busy(r) /\ req[r].client = c =>
                               req[r].sid # n /\ (req[r].pc # "answered" => req[r].key # SidKey(c, n))}

Goto(r, pc) == req' = [req EXCEPT ![r].pc = pc]

\* The response is decided; it has yet to reach the client.  Of the page only
\* this counts: whether it carries a fresh challenge token, and the cookie.
Answered(c, page, sid) ==
    [pc |-> "answered", client |-> c, token |-> page = "challenge", sid |-> sid]

Answer(r, page) ==
    req' = [req EXCEPT ![r] = Answered(@.client, page, @.sid)]

-----------------------------------------------------------------------------
(* Reputation, as the pipeline uses it. *)

RegisterViolation(ip, isPlain) ==
    IF rep[ip].state = "blocked" THEN UNCHANGED <<rep, plain>>
    ELSE /\ \E v \in AfterViolation(rep[ip]) : rep' = [rep EXCEPT ![ip] = v]
         /\ plain' = [plain EXCEPT ![ip] = @ + (IF isPlain THEN 1 ELSE 0)]

MarkClean(ip) ==
    /\ rep' = [rep EXCEPT ![ip] = Clean]
    /\ plain' = [plain EXCEPT ![ip] = 0]

Block(ip) ==
    /\ rep' = [rep EXCEPT ![ip] = Banned]
    /\ plain' = [plain EXCEPT ![ip] = 0]

\* Lookup reads the state without the lock.  A read that races with the store
\* of a block into a greylisted entry yields a string that is neither.  (A torn
\* "clean" is treated like a clean one, and Block replaces the entry.)
TornRead(ip) ==
    /\ rep[ip].state = "greylisted"
    /\ \E u \in Slots : req[u].pc = "punish" /\ IP(u) = ip /\ req[u].todo # "ban"
    /\ \E v \in AfterViolation(rep[ip]) : v.state = "blocked"

-----------------------------------------------------------------------------
(* ServeHTTP *)

\* A request arrives: the configuration snapshot, the static lists, then the
\* session identity (a whitelisted request gets its cookie from
\* modifyResponse instead).
Arrive(r, c, ask, cfg) ==
    LET ip     == RealClientIP(c, cfg)
        denied == ip \in cfg.blocklist \ cfg.whitelist
        mint   == ~denied /\ c \in Cookies /\ cookie[c] = 0
    IN
    /\ ~Busy(r)
    /\ mint => FreshSids(c) # {}
    /\ req' = [req EXCEPT ![r] =
          IF denied THEN Answered(c, "blocked", 0)
          ELSE [pc |-> IF ip \in cfg.whitelist THEN "forward" ELSE "lookup",
                client |-> c, ip |-> ip, ask |-> ask, cfg |-> cfg,
                key |-> IF cookie[c] = 0 THEN IPKey(ip) ELSE SidKey(c, cookie[c]),
                sid |-> IF mint THEN First(FreshSids(c)) ELSE 0,
                todo |-> "none", record |-> FALSE, panicked |-> FALSE,
                met |-> "none",     \* history: the state its address had at the lookup
                raced |-> FALSE,    \* history: then a violation of it was being stored
                graced |-> FALSE,   \* history: its session had passed a challenge
                                    \* when its address was found greylisted
                abuse |-> FALSE,    \* history: a block or ban rule matched
                cleared |-> FALSE,  \* history: no rule and no guard objected
                spared |-> FALSE,   \* history: its session had passed a challenge
                                    \* when the rule asked for one
                sent |-> 0]]        \* history: times handed to the backend
    /\ UNCHANGED <<rep, plain, seen, passed, cookie, token>>

\* The request goes on past the reputation check.
Admit(r, pc) ==
    req' = [req EXCEPT ![r].pc = pc, ![r].met = rep[IP(r)].state,
                       ![r].raced = TornRead(IP(r))]

\* What Lookup may return.
Seen(r) == {rep[IP(r)].state} \cup (IF TornRead(IP(r)) THEN {"torn"} ELSE {})

\* Mutation of Lookup: the verify endpoint is served before the block check.
LookupVerifyFirst(r) ==
    /\ req[r].pc = "lookup"
    /\ \E st \in Seen(r) :
          \/ req[r].ask = "verify" /\ Admit(r, "verify")
          \/ req[r].ask # "verify" /\ st = "blocked" /\ Answer(r, "blocked")
          \/ req[r].ask # "verify" /\ st = "greylisted" /\ Admit(r, "grace")
          \/ req[r].ask # "verify" /\ st \in {"clean", "torn"} /\ Admit(r, "inspect")
    /\ UNCHANGED <<rep, plain, seen, passed, cookie, token>>

\* Mutation of Lookup: a greylisted address is served like a clean one.
LookupNoGreylist(r) ==
    LET st == rep[IP(r)].state IN
    /\ req[r].pc = "lookup"
    /\ \/ st = "blocked" /\ Answer(r, "blocked")
       \/ st # "blocked" /\ req[r].ask = "verify" /\ Admit(r, "verify")
       \/ st # "blocked" /\ req[r].ask # "verify" /\ Admit(r, "inspect")
    /\ UNCHANGED <<rep, plain, seen, passed, cookie, token>>

\* (1)-(3) the reputation switch; its default case is for clean addresses and
\* for what it does not know.
Lookup(r) ==
    /\ req[r].pc = "lookup"
    /\ \E st \in Seen(r) :
          \/ st = "blocked" /\ Answer(r, "blocked")
          \/ st # "blocked" /\ req[r].ask = "verify" /\ Admit(r, "verify")
          \/ st = "greylisted" /\ req[r].ask # "verify" /\ Admit(r, "grace")
          \/ st \in {"clean", "torn"} /\ req[r].ask # "verify" /\ Admit(r, "inspect")
    /\ UNCHANGED <<rep, plain, seen, passed, cookie, token>>

\* Mutation of Grace: any session with a record will do.
GraceSeen(r) ==
    /\ req[r].pc = "grace"
    /\ IF req[r].cfg.challenge /\ req[r].key \notin seen
       THEN Answer(r, "challenge")
       ELSE req' = [req EXCEPT ![r].pc = "inspect", ![r].graced = req[r].key \in passed]
    /\ UNCHANGED <<rep, plain, seen, passed, cookie, token>>

\* A greylisted client is challenged unless its session has passed one.
Grace(r) ==
    /\ req[r].pc = "grace"
    /\ IF req[r].cfg.challenge /\ req[r].key \notin passed
       THEN Answer(r, "challenge")
       ELSE req' = [req EXCEPT ![r].pc = "inspect", ![r].graced = req[r].key \in passed]
    /\ UNCHANGED <<rep, plain, seen, passed, cookie, token>>

\* validateToken and verifyPoW may refuse any token, as forged, expired or
\* unsolved; they accept none that was not issued.
Accepted == IF token THEN BOOLEAN ELSE {FALSE}

\* HandleVerify: a token that is not accepted gets a fresh challenge; a good one
\* first cleans the address, then marks the session.
Verify(r) ==
    /\ req[r].pc = "verify"
    /\ \E ok \in Accepted :
          \/ ok /\ MarkClean(IP(r)) /\ Goto(r, "pass")
          \/ ~ok /\ UNCHANGED <<rep, plain>> /\ Answer(r, "challenge")
    /\ UNCHANGED <<seen, passed, cookie, token>>

Pass(r) ==
    /\ req[r].pc = "pass"
    /\ passed' = passed \cup {req[r].key}
    /\ seen' = seen \cup {req[r].key}
    /\ Answer(r, "redirect")
    /\ UNCHANGED <<rep, plain, cookie, token>>

Abuse == {"block", "ban"}

\* buildView: of the body only the first maxInspectBody bytes are inspected;
\* tail is what occurs only after them.
BuildView(page) ==
    [method |-> page.method, path |-> page.path, uri |-> page.uri,
     holds |-> [page.holds EXCEPT !["body"] = @ \ page.tail]]

\* The signature lists the engine may hold.
Engines == {LoadDir(templates) : templates \in RuleSets}

\* Behavioural rules are in module SessionTracker; here the only session check
\* is that the session has no record yet.
Evaluate(session, key) == session # "" => key \notin seen

Matching(r, sigs, page) ==
    {i \in DOMAIN sigs : /\ HttpMatch(sigs[i], BuildView(page))
                         /\ Evaluate(sigs[i].session, req[r].key)}

\* Where applyAction takes a verdict: log-only forwards, a challenge depends on
\* the session, and everything else is punished, what it does not know too.
Case(todo) ==
    CASE todo = "log-only"  -> "forward"
      [] todo = "challenge" -> "act"
      [] OTHER              -> "punish"

\* (4)-(5) buildView and the engine.  What the request asks for matters from
\* here on, and is chosen here.
Inspect1(r) ==
    /\ req[r].pc = "inspect"
    /\ \E sigs \in Engines, page \in Pages[req[r].client] :
          LET holds == Matching(r, sigs, page)
              act   == Inspect(sigs, holds)
          IN  req' = [req EXCEPT ![r].pc = IF act = "none" THEN "guard" ELSE Case(act),
                                 ![r].todo = act,
                                 ![r].abuse = \E i \in holds : sigs[i].action \in Abuse]
    /\ UNCHANGED <<rep, plain, seen, passed, cookie, token>>

\* (5b) the proactive guard, whose verdict depends on traffic outside this model.
Guard(r) ==
    /\ req[r].pc = "guard"
    /\ \E v \in GuardVerdicts :
          req' = [req EXCEPT ![r].pc = IF v = "none" THEN "forward" ELSE Case(v),
                             ![r].record = (v = "none"), ![r].cleared = (v = "none"), ![r].todo = v]
    /\ UNCHANGED <<rep, plain, seen, passed, cookie, token>>

-----------------------------------------------------------------------------
(* applyAction *)

\* A challenge does not count for this session.
Spare(r) ==
    req' = [req EXCEPT ![r].pc = "forward", ![r].record = TRUE,
                       ![r].spared = (req[r].key \in passed)]

\* Mutation of Act: a challenge spares everybody.
ActSparesAll(r) ==
    /\ req[r].pc = "act"
    /\ Spare(r)
    /\ UNCHANGED <<rep, plain, seen, passed, cookie, token>>

\* A challenge spares sessions that passed one.
Act(r) ==
    /\ req[r].pc = "act"
    /\ IF req[r].key \in passed THEN Spare(r) ELSE Goto(r, "punish")
    /\ UNCHANGED <<rep, plain, seen, passed, cookie, token>>

\* A visitor that has only been challenged, and has not solved one yet.
Plain(r) == /\ req[r].todo = "challenge" /\ req[r].cfg.challenge
            /\ ~req[r].graced /\ ~req[r].raced

\* RegisterViolation (or Block for a ban), then the page.
Punish(r) ==
    LET todo == req[r].todo IN
    /\ req[r].pc = "punish"
    /\ IF todo = "ban" THEN Block(IP(r)) ELSE RegisterViolation(IP(r), Plain(r))
    /\ Answer(r, IF todo = "challenge" THEN "challenge"
                 ELSE IF todo = "rate-limit" THEN "limited" ELSE "blocked")
    /\ UNCHANGED <<seen, passed, cookie, token>>

-----------------------------------------------------------------------------
(* Forwarding, and what follows it. *)

Forward(r) ==
    /\ req[r].pc = "forward"
    /\ req' = [req EXCEPT ![r].sent = @ + 1, ![r].pc = "sent"]
    /\ UNCHANGED <<rep, plain, seen, passed, cookie, token>>

\* (6) a cacheable request may find its response in the content cache.
ServeCacheHit(r) ==
    /\ req[r].pc = "forward" /\ req[r].cleared /\ ~req[r].panicked
    /\ Goto(r, "sent")
    /\ UNCHANGED <<rep, plain, seen, passed, cookie, token>>

\* The client goes away in the middle of the response: the reverse proxy
\* panics with ErrAbortHandler and nothing more happens.
Abort(r) ==
    /\ req[r].pc = "sent" /\ req[r].sent > 0
    /\ req' = [req EXCEPT ![r] = NoRequest]
    /\ UNCHANGED <<rep, plain, seen, passed, cookie, token>>

\* The end of a request that was served; a clean pageview is recorded.
Record(r) ==
    /\ req[r].pc = "sent"
    /\ seen' = IF req[r].record THEN seen \cup {req[r].key} ELSE seen
    /\ Answer(r, "site")
    /\ UNCHANGED <<rep, plain, passed, cookie, token>>

\* The fail-open path of recover: nothing the pipeline found out counts any more.
Recovered(r) ==
    req' = [req EXCEPT ![r].panicked = TRUE, ![r].pc = "forward", ![r].record = FALSE,
                       ![r].todo = "none", ![r].met = "none", ![r].raced = FALSE,
                       ![r].graced = FALSE, ![r].cleared = FALSE, ![r].spared = FALSE]

\* A stage panics and the deferred recover takes over: with fail_open the
\* request is forwarded (perhaps again), otherwise the client gets a 503.
Panic(r) ==
    /\ MayPanic
    /\ Busy(r) /\ req[r].pc # "answered" /\ ~req[r].panicked
    /\ IF req[r].cfg.failOpen
       THEN Recovered(r)
       ELSE Answer(r, IF req[r].pc = "sent" THEN "site" ELSE "blocked")
    /\ UNCHANGED <<rep, plain, seen, passed, cookie, token>>

-----------------------------------------------------------------------------
(* The client, and the passing of time. *)

\* The response reaches the client: cookie jar and challenge page.
Deliver(r) ==
    LET c == req[r].client IN
    /\ req[r].pc = "answered"
    /\ cookie' = [cookie EXCEPT ![c] = IF req[r].sid # 0 THEN req[r].sid ELSE @]
    /\ token' = (token \/ req[r].token)
    /\ req' = [req EXCEPT ![r] = NoRequest]
    /\ UNCHANGED <<rep, plain, seen, passed>>

\* The client went away before the response.
Lose(r) ==
    /\ req[r].pc = "answered"
    /\ req' = [req EXCEPT ![r] = NoRequest]
    /\ UNCHANGED <<rep, plain, seen, passed, cookie, token>>

\* A reputation entry reaches its TTL.
Lapse(ip) ==
    /\ rep[ip] # Clean
    /\ MarkClean(ip)
    /\ UNCHANGED <<seen, passed, cookie, token, req>>

\* Mutation of Forget: the flag of a passed challenge outlives its record.
ForgetKeepsGrace(k) ==
    /\ k \in seen
    /\ seen' = seen \ {k}
    /\ UNCHANGED <<rep, plain, passed, cookie, token, req>>

\* A session record is evicted or reaches its TTL.
Forget(k) ==
    /\ k \in seen
    /\ seen' = seen \ {k}
    /\ passed' = passed \ {k}
    /\ UNCHANGED <<rep, plain, cookie, token, req>>

-----------------------------------------------------------------------------

Init ==
    /\ rep = [ip \in IPs |-> Clean] /\ plain = [ip \in IPs |-> 0]
    /\ seen = {} /\ passed = {}
    /\ cookie = [c \in Clients |-> 0]
    /\ token = FALSE
    /\ req = [r \in Slots |-> NoRequest]

Serve(r) ==
    \/ Lookup(r) \/ Grace(r) \/ Verify(r) \/ Pass(r) \/ Inspect1(r) \/ Guard(r)
    \/ Act(r) \/ Punish(r) \/ Forward(r) \/ ServeCacheHit(r) \/ Abort(r) \/ Record(r)

Next ==
    \/ \E r \in Slots, c \in Clients :
          \E ask \in {"page", "verify"}, cfg \in Configs : Arrive(r, c, ask, cfg)
    \/ \E r \in Slots : Serve(r) \/ Panic(r) \/ Deliver(r) \/ Lose(r)
    \/ \E ip \in IPs : Lapse(ip)
    \/ \E k \in Keys : Forget(k)

Spec == Init /\ [][Next]_vars

-----------------------------------------------------------------------------
(* Properties *)

InPipeline(r) == req[r].pc \notin {"idle", "answered"}

\* The variables have their types.
TypeOK ==
    /\ rep \in [IPs -> Value] /\ plain \in [IPs -> Nat]
    /\ seen \subseteq Keys /\ passed \subseteq seen
    /\ cookie \in [Clients -> 0..MaxSids]
    /\ token \in BOOLEAN
    /\ \A r \in Slots : req[r].pc = "answered" =>
          req[r] \in [pc : {"answered"}, client : Clients, token : BOOLEAN, sid : 0..MaxSids]
    /\ \A r \in Slots : InPipeline(r) =>
          /\ req[r].client \in Clients /\ req[r].key \in Keys /\ req[r].cfg \in Configs
          /\ req[r].todo \in Action \cup {"none"} /\ req[r].sent \in 0..2

\* A request reaches the backend only with a right to: its address is
\* whitelisted, fail_open turned a panic into a pass, or the verdict lets it
\* through (no rule and no guard objection, log-only, or a challenge that its
\* session had already passed when the rule asked for it, proxy.go:345).  In
\* particular a block, ban, rate-limit or unknown verdict is never followed by
\* a forward, and only a panic sends a request twice.
ForwardedRightfully ==
    \A r \in Slots : InPipeline(r) /\ req[r].sent > 0 =>
        \/ IP(r) \in req[r].cfg.whitelist
        \/ req[r].panicked /\ req[r].cfg.failOpen
        \/ /\ req[r].sent = 1
           /\ \/ req[r].todo = "log-only" \/ req[r].cleared
              \/ req[r].todo = "challenge" /\ req[r].spared
           /\ req[r].ask = "page"

\* A request that a block or ban rule matched never reaches the backend,
\* whatever else it matched, in whatever order the rules were loaded, and
\* whether or not its session passed a challenge ("Abuse rules below still
\* enforce regardless", proxy.go:343).  A rate-limit rule has no such
\* guarantee: a challenge outranks it (engine.go:117-135).
AbuseRulesEnforced ==
    \A r \in Slots : InPipeline(r) /\ req[r].sent > 0 /\ req[r].abuse => req[r].panicked

\* A verify request that was let through before the address was blocked.
EarlyVerify(r, ip) == req[r].pc = "verify" /\ IP(r) = ip /\ req[r].met # "blocked"

\* A blocked address stays blocked until its entry lapses, unless a solved
\* challenge was already past the reputation check when the block fell: no
\* sequence of requests sent after the block can lift it (proxy.go:232-236
\* comes before HandleVerify).
BlockHolds ==
    [][\A ip \in IPs : rep[ip].state = "blocked" /\ rep'[ip].state # "blocked"
          => Lapse(ip) \/ \E r \in Slots : EarlyVerify(r, ip) /\ Verify(r)]_vars

\* Being challenged alone does not get a visitor blocked: the violations that
\* challenge rules charge to sessions that have not solved one never outnumber
\* the requests in flight, because the first one greylists the address and later
\* requests are answered before they count (proxy.go:237-248).  Only a
\* visitor with BlockThreshold requests in flight at once is at risk.
ChallengeStrikesBounded ==
    \A ip \in IPs : plain[ip] <= Cardinality(Slots)

\* A request that met a greylisted address is not served before its session has
\* passed a challenge (proxy.go:237-248).  The way around it is a race: the
\* unlocked read in Lookup is torn by the store of a block, the string is none
\* of the states, and the default case serves the request as if its address
\* were clean (reputation.go:167).
GreylistHolds ==
    \A r \in Slots : InPipeline(r) /\ req[r].sent > 0 /\ req[r].met = "greylisted" =>
        \/ req[r].graced \/ ~req[r].cfg.challenge
        \/ req[r].raced \/ req[r].panicked
=============================================================================
