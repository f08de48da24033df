# Smoker: TLA+ models and proofs

Smoker is a reverse proxy with an application firewall: nftables redirects
public HTTP and HTTPS traffic to it, it judges every request by access lists,
the reputation of the client address, signatures, behavioural rules and a
flood governor, and forwards what passes to the real web server. This
directory holds TLA+ models of its stateful parts, the TLC configurations
that check them on small instances, and TLAPS proofs of every safety property
these runs check. Paths below are relative to the root of the repository.

## 1. Inventory

| component | state | operations | talks to |
|---|---|---|---|
| reputation manager (`internal/reputation`) | map address -> entry (state, since, expiry, violations) under a RWMutex; BoltDB bucket | `Open`/`load`, `Lookup`, `RegisterViolation`, `MarkClean`, `Block`, `persist`, `delete`, `emit` | called by the pipeline and by the challenge module; writes `reputation.log` by a callback |
| request pipeline (`internal/proxy/proxy.go`) | none of its own; one goroutine per request | `ServeHTTP`, `applyAction`, `forward`, `modifyResponse`, the deferred recover | everything below |
| detection engine (`internal/detect`) | pointer to the compiled signatures | `ParseTemplate`, `Compile`, `LoadDir`, `Inspect`, `Reload` | session tracker, hot reload |
| session tracker (`internal/session`) | LRU of records under a mutex, idle TTL | `Record`, `Evaluate`, `MarkChallengePassed`, `ChallengePassed` | engine, pipeline, challenge |
| challenge module (`internal/challenge`) | none: tokens are signed and carry their own expiry | `ServeChallenge`, `HandleVerify` | reputation (`MarkClean`), tracker (`MarkChallengePassed`) |
| proactive guard (`internal/protect`) | LRU of token buckets under a mutex | `Assess`, `allow`, `anomalyScore` | pipeline |
| content cache (`internal/cache`, `cachingBody`) | LRU of whole responses | `Get`, `Put`, tee of a body | pipeline |
| configuration (`internal/config`) | atomic pointer to a snapshot | `Load`, `Reload`, `Watch`, `WatchAccessLists` | files, fsnotify, git-sync loops of `main.go` |
| process life (`cmd/smoker/main.go`) | listeners, stage of `run`/`shutdown` | start, signals, drain, exit | firewall controller, systemd |
| firewall controller (`internal/firewall`) | nftables rules in the kernel | `EnableRedirect`, `DisableRedirect` | netlink |
| certificate store (`internal/tlsterm`) | map name -> certificate under a RWMutex | `Reload`, `GetCertificate` | callback of the configuration watcher, TLS handshakes |
| logging (`internal/logging`) | five open files | `Open`, `Reopen`, `Close` | logrotate, signal loop of `main.go` |
| bootstrap (`internal/bootstrap`) | the default files on disk | `NeedsInit`, `Ensure`, `Install` | first run, `--init` |
| HTTP/3 (`cmd/smoker/http3.go`) | a third listener | listen, `Close` | pipeline |
| compression, status writer, original destination | - | - | pipeline |

What is hard to get right here, and hard to test:

* **Concurrency.** Every request is a goroutine; the reputation manager reads
  entries outside its lock and writes the database after it; the tracker
  evaluates on a snapshot and records much later; the cache is filled while
  the body streams; five goroutines reload files and publish by pointer swap.
* **Time.** Entries, sessions, tokens, cached objects and buckets all live by a
  clock that is read at another moment than the state it is compared with.
* **Failure.** Crashes between memory and database, clients that leave,
  panics with fail-open, failing netlink calls, a redirect that outlives the
  process.

`PROJECT.json` lists every hazard at its line with the properties that guard it.

## 2. Modules

| module | models | composed of |
|---|---|---|
| `ReputationValues` | state and strikes of an address, and how a violation changes them | - |
| `ReputationStore` | what the reputation store promises: atomic verdicts, late and unordered writes to disk, restarts | extends `ReputationValues` |
| `Reputation` | the reputation manager, at the grain of critical sections, transactions and unlocked reads | implements `ReputationStore` (`INSTANCE ... WITH`) |
| `Detect` | templates, their compilation, matching and precedence, as operators | - |
| `Proxy` | the request pipeline with trusted proxies, access lists, reputation, challenge, grace, engine, guard, recover | extends `Detect` and `ReputationValues` |
| `LRU` | the order of the keys of an LRU cache, as operators | - |
| `SessionTracker` | the tracker with all checks, LRU, TTL and the cap on stamps | extends `LRU` |
| `RateGovernor` | the guard: anomaly score and token buckets, under hot reload of the burst | extends `LRU` |
| `ContentCache` | the cache and the code that feeds it | extends `LRU` |
| `CertStore` | virtual hosts, pairs and `GetCertificate`, as operators | - |
| `HotReload` | watchers, debounce timers, sync loops, publication of configuration, templates and certificates | extends `CertStore` |
| `Logging` | the log files and logrotate | - |
| `Lifecycle` | provisioning, `run`, signals, `shutdown`, redirect, systemd | extends `Logging` |
| `MC*` | instances for TLC | one per module |
| `ReputationProofs`, `ProxyProofs`, `SessionTrackerProofs`, `RateGovernorProofs`, `ContentCacheProofs`, `HotReloadProofs`, `LifecycleProofs` | the theorems about a component | extend its module and TLAPS |
| `LRUProofs` | lemmas about `LRU` | extended by the proofs of the three components with an LRU |

How state and actions correspond to code is in the comments of the modules
and, definition by definition with line numbers, in the `map` of
`PROJECT.json`. Definitions that only exist for checking (mutations, history
variables) say so.

### Reputation

`entries` is the Go map, `db` the bucket, `th[t]` the operation goroutine `t`
is in. `Lookup` copies the *pointer* to an entry and lets go of the lock; the
model keeps that distinction: while `th[t].live` the goroutine sees in-place
changes by `RegisterViolation`, and `Detached` freezes the object when
`MarkClean`, `Block` or a delete takes it out of the map. `persist` is two
steps: `Marshal` serialises the object without a lock, which for `MarkClean` and
`Block` is the shared one and for `RegisterViolation` a copy, and `Persist` is
the transaction that writes these bytes, however old they are by then. The string
`State` read
without the lock during a store may be "torn". A crash loses `entries` and
reloads from `db` (`Loaded`); with `DbFaults` a transaction may fail, which
every caller ignores. `incidents`, `forgiven` and `banned` are history.

Violations are a set of (id, timestamp): the slice only matters by its length.
A serialisation that overlaps a critical section, so that its bytes mix two
values of the entry, and the array of timestamps shared by an entry and its
snapshot, are not modelled.

### Proxy

A request is a record with a program counter; each action is one call into a
shared component. The configuration is read once per request (`cfg`), as in
`ServeHTTP`, and decides whether forwarding headers count (`RealClientIP`). A
client makes requests out of `Pages`, and the engine holds what `Detect!LoadDir`
makes of one of `RuleSets`: the templates of the instance go through
`ParseTemplate` and `Compile`, and `HttpMatch` decides what matches. Reputation
is the abstract store that `Reputation` implements, without its disk, and
`TornRead` adds the one thing the store does not promise: `Lookup` reads
`State` without the lock, and what it reads while a block is being stored is
none of the states. Reputation entries lapse and sessions are forgotten at any
time, and a token that was issued may be refused at any time, as expired or
unsolved, so the properties do not depend on the TTLs. A token is
bound to nobody, as in `issueToken`. Responses can be lost, and cookies with
them. Behavioural rules are in `SessionTracker`; here the only one is that the
session has no record yet. `graced`, `cleared`, `spared` and `raced` are
history of a request: which check let it go on, and `spared` that its session had
passed a challenge when a rule asked for one.

### Detect

Text is abstracted: a word, an expression or a path pattern is known by what it
occurs in. What stays is the control: which values of a template win, what a
missing action means, which templates are skipped, which part of a request a
matcher looks at (the name of a header other than `header` is never found), and
how words, matchers and blocks combine.

### ReputationStore and the refinement

`ReputationStore` has no goroutines, locks, clocks or pointers. A verdict
replaces the reputation of an address at once; the value goes to disk later, in
any order, or never; a restart brings back what is on disk, or a clean address.
`Reputation!ImplementsStore` maps the Go map to `rep`, the bucket to `disk`, and
to `pending` what goroutines hold before their transaction: the bytes once they
are serialised, the object before. Three things make the mapping more than a
formality: `MarkClean` and `Block` serialise the shared object, so a later
violation changes what an earlier call writes (`Set` may drop pending values);
bytes that are serialised stay as they are and may be written last, over a newer
value; and a failed transaction leaves the value pending or drops it.

### SessionTracker, RateGovernor, ContentCache

One LRU each, a sequence of keys with the least recent first (`LRU`). The
tracker's `all` is history: the hits of the window without the cap, each with
the goroutine that recorded it (`by`). The guard first scores the shape of a
request (`Signals`, `weight`); what it flags is acted on by the pipeline and
costs no tokens. The governor counts tokens in 1/`Window` parts, which makes
the code's float64 arithmetic exact; rounding is not modelled. A request reads
its options at its start (`Arrive`), the clock later (`Assess`), and is charged
later still (`Allow`); `Reload` changes the burst in between. The other options
(window, weight, sensitive paths, threshold, the switch of the anomaly score) are
hot-reloaded by the code too and fixed in the model. Two variables are
history: `force[u]` is the set of bursts in force at time `u`, and
`spent[ip][s]` what `ip` was admitted for since time `s`, as long as its bucket
was tracked. In the
cache a response has a size in chunks and may or may not announce it.

### HotReload

Files are version numbers; `Broken` is a `config.yaml` or a template that does
not parse, validate or compile, `Absent` a template that is not there. A load
reads the configuration, then the lists, then publishes; templates are listed,
then read one by one while others change, then swapped in; the watcher of
`config.yaml` goes on to the certificates, pair by pair. A removed templates
directory loses its watch, and nobody adds it again. Lists are read with their
subdirectories, which no watch covers, any more than a directory that was missing
at the start: with `DeepLists` an edit may raise no event. `reload_sync` has it
on, as its sync repairs what no event told; `reload_stale` has it off, so that
its counterexample is not this one. Certificates are renewed one
file at a time and no watch sees it; `Touch` is the save of `config.yaml` that
has them loaded. Of the pairs that fit and serve a name the last one counts
(`Certificates`). The three access lists are one, as each reload reads all of
them, and so are their sync loops.

### Lifecycle

The redirect is a bit of kernel state that survives the process. `fault` is
history: the last thing that went wrong since a start came past its boot, namely
a netlink call, which the code only logs, a start that ended in an error, or a
signal before `signal.Notify`. A start may fail any number of times
(`StartFails`): a broken `config.yaml` or a locked database is the same at the
next one. systemd restarts until its start limit (`GiveUp`). A first run writes
the default files in the order of the walk and may die after any of them; a later
start looks at `config.yaml` only. The default pages, last in the walk, are left
out: nothing depends on them being there.

A listener opens in a goroutine of its own, which may come to it while another
server is already being drained; one that was told to shut down stays "shut".
`conns` counts the requests of a TCP server, `upgraded` the connections that a
handler took over (WebSocket), of which the server no longer knows and for which
`Shutdown` does not wait. HTTP/3 is a server that is closed and not drained, so
its requests are not counted.

`sig` is the channel with its two places: a signal that finds it full is lost.
`Reopen` goes through the streams one by one and stops at the first error, while
logrotate moves files and owes a SIGHUP. An open log file is either the one at
its path or one that was moved ("current", "moved"), so that the number of
rotations needs no bound.

## 3. Runs

Passing runs:

| run | instance | shows |
|---|---|---|
| `reputation_concurrent` | 1 address, 2 goroutines, threshold 2, window and TTLs 1 (clean TTL 0), clock to 3, 2 violations, 1 crash, failing transactions; 1.2 million states up to the last line of the log (a `VIEW`), which no step reads | `JustifiedBlocks`: no block without cause in map, database, snapshot or dangling pointer. `UnblockedOnlyBy`: the only ways an unexpired block ends. `ImplementsStore`: the refinement |
| `reputation_sequential` | 1 goroutine, clock to 5, 3 violations, 1 crash | what is promised if calls do not overlap: `DurableWhenQuiet`, `LogTellsState`, `NoMissedBlock`, `BlockLastsItsTTL`, and `BlockEnds` (liveness) |
| `pipeline` | 2 requests in flight, 2 clients behind one address, one with a forwarding header, 3 configurations, 8 templates (nested, missing and unknown actions, a raw request, a negative matcher, two that must not match), 7 kinds of requests, one of which a challenge, a log-only and a ban rule match, panics; 1.7 million states | `ForwardedRightfully`, `AbuseRulesEnforced`, `ChallengeStrikesBounded`, `GreylistHolds`, `BlockHolds` |
| `session_limit` | 2 sessions in a cache of 1, 2 goroutines, limit 2, cap 3; 0.7 million states | `OvershootBounded`, `StampsSuffice`, `GraceKept` |
| `governor_budget` | 2 addresses in a cache of 1, 2 goroutines, bursts 0 (off), 1 and 2 with one reload, window 2, weight 2, clock to 4, 10 shapes of requests on both sides of the threshold; 1.2 million states | `BudgetHolds`, `ThrottledForCause`, `AnomalyForCause` |
| `cache_objects` | 2 keys in a cache of 1, 2 goroutines, sizes 0-2 with limit 1, TTL 1 or 2 | `OnlyWholeObjects`, `HitsAreFresh` |
| `reload_sync` | 2 changes of files, 2 templates, 3 virtual hosts with 4 files, sync loops on; 1.0 million states | `BadFilesAlone`, `Converges` (liveness); no broken configuration is published (`TypeOK`) |
| `lifecycle` | 3 servers, 1 connection per TCP server, 2 log streams with any number of rotations, 1 crash, any number of failing starts; 0.4 million states | `PolicyInstalled`, `FilteredWhileServing`, `NoRequestCut`, and the liveness of `ShutdownEnds`, `BlackholeEnds`, `LogsFollow` |

Runs that end in a counterexample, each a disagreement between the code and a
line of the repository (quoted under `findings`):

* `reputation_lost_ban`: `Lookup` finds an entry expired, another goroutine
  bans the address, `Lookup` deletes the ban (`reputation.go:158-163`).
* `reputation_lost_write`: two goroutines persist in the opposite order of
  their changes to the map; after a restart the address has another state.
* `reload_stale`: a reload that read the access lists before an edit publishes
  after the reload that the edit caused; without a sync loop the edit is not
  in force until something else changes.
* `lifecycle_dead`: a process that dies leaves the redirect, although
  `fail_open` is documented to remove it; only `shutdown()` does.

The bounds are enough for the cases that matter: two goroutines are what it
takes for one to overtake the other, a cache of one for every use to evict,
two file changes for a load to be overtaken, limits just above and
below the number of steps the clock allows, one crash for a restart in any
stage. `MaxTime`, `MaxIncidents`, `MaxCrashes`, `MaxEdits`, `MaxConns`,
`MaxDelay`, `MaxTransfer`, `MaxReloads` and `MaxSids` bound the state space and
model nothing in the code, with two exceptions. `MaxDelay` and `MaxTransfer`
appear in the properties: they say how stale a clock or how slow a transfer may
be. And `BlackholeEnds` needs that crashes come to an end, which `MaxCrashes`
says; starts that fail are not counted by it. Symmetry is used for goroutines and keys in runs without
liveness properties. Deadlock is checked except in `reload_stale`, where a
system without edits rightly comes to rest.

Conditions worth knowing, found while checking:

* `NoMissedBlock` needs `greylist_ttl >= window`; `Config.validate` does not
  demand it. With a shorter `greylist_ttl` violations are forgotten early.
* `StampsSuffice` and `OvershootBounded` are about limits below
  `maxPageviewStamps` (64), which neither `Compile` nor the documentation
  demands; a rule with a limit of 64 or more never fires
  (`LargeLimitNeverFires`). Both are about the hits within one life of a
  session's record.
* `AbuseRulesEnforced` holds for block and ban. A rate-limit rule is outranked
  by a challenge rule, and a session that has passed a challenge is then
  forwarded, although the comment at `proxy.go:343` lists rate-limit too.
* `ForwardedRightfully`: an action the engine does not know is refused when it
  wins, but a challenge rule outranks it as well.
* `BlockHolds` allows a verify request that had passed the reputation check
  before the block fell to clear it.
* `BudgetHolds` is about an address while it is tracked; eviction from the LRU
  starts a fresh burst. After a reload that lowers the burst the old one may
  still be spent for twice the time a request takes: a late request charges a
  bucket that another late request filled. With once that time TLC finds a
  counterexample.
* `AnomalyForCause`: a flagged request costs no tokens, so one that the action
  lets pass (log-only, or a challenge the session has passed) escapes the flood
  governor as well.
* `GreylistHolds` excuses a request whose `Lookup` raced with the store of a
  block: it is served as if its address were clean.
* `BadFilesAlone` excuses the names of a certificate that was reloaded between
  the two files of a renewal, and all rules of a templates directory that was
  removed: the empty rule set replaces the loaded one.
* `OnlyWholeObjects` takes a body for whole when its end is a clean EOF. A body
  delimited by the end of the connection that the backend cuts short ends like
  that, and is outside the model.
* `HitsAreFresh` bounds the age of a hit by the largest TTL, not by that of the
  entry.
* `PolicyInstalled` starts from a machine without files; a `config.yaml` put
  there by hand keeps the default files from ever being written.
* `FilteredWhileServing` excuses a failed netlink call, and a start with the
  firewall switched off, which is modelled like one.
* `NoRequestCut` is about requests over TCP; upgraded connections and requests
  over HTTP/3 are cut off without a wait.
* `BlackholeEnds` excuses a start that fails. The redirect then stays, with
  `fail_open` too, until an operator mends the cause.
* `ShutdownEnds` is about a SIGTERM that finds room in the channel; behind two
  waiting SIGHUPs it is dropped.

### Fairness

* `Reputation`: goroutines with work to do get to run and are handed the lock
  (Go's scheduler, `sync.RWMutex` does not starve writers), the clock
  advances, and a blocked client keeps asking. Without the last, expired
  entries stay: only `Lookup` removes them.
* `HotReload`: goroutines run, timers fire, tickers tick, git commands end.
  Nobody has to edit, and git has to change nothing.
* `Lifecycle`: the process takes its steps, listeners come to an answer, the
  shutdown timer fires, systemd restarts after a failure
  (`internal/bootstrap/smoker.service`), logrotate runs its postrotate script
  once it has moved files. Nothing is assumed of requests, signals or the
  operator, nor of whether a start fails or systemd gives up.

## 4. Proofs

TLAPS checks the theorems below for every value of the constants: any number of
addresses, sessions, goroutines, requests in flight, templates, files, crashes
and reloads, and any configuration the assumptions admit. Each rests on an
inductive invariant (`Inv`, or the parts named below); TLC checked the invariant
on the instance of the run before it was proved. Proofs of preservation go
action by action.

**Reputation** (`ReputationProofs`)

* `TypeCorrect`. `TypeInv` is `TypeOK`, `PointerOK` and `FiniteIncidents`: types
  alone do not say that a pointer held by a goroutine is to an entry that
  exists, and without it `Lookup` could log or answer "absent".
* `BlocksAreJustified`. `JustifiedBlocks` is not inductive, because nothing ties
  the violations an entry carries to those that happened. `Provenance` adds that
  every entry, wherever it is copied to, only carries reported violations;
  escalation then blocks only with a full window (`EscalatedIsWellFounded`), and
  causes are never lost (`CausesStay`, `HistoryGrows`).
* `UnblockingIsLimited`. `LockInv` says that one goroutine at a time is inside
  the critical section of `RegisterViolation` and that its entry is not blocked,
  so the in-place update never lowers a block.
* `ManagerImplementsStore`: the step simulation behind `ImplementsStore`.
  `StepRefines`, `CallRefines` and `CrashRefines` map every step to one of the
  store or to a stutter; `CommitIsViolation` (a commit under the lock is the
  abstract violation, counted by the pruned set of timestamps) and
  `ReplacedIsSet` (a detached object leaves the set of pending values, bytes
  that are serialised stay in it) carry it.
* `SequentialIsDurable`, `SequentialLogIsTrue`, `SequentialMissesNoBlock` and
  `SequentialBlocksLast` are about a manager that one goroutine at a time uses
  (`OneAtATime`). That is a hypothesis and not an assumption, since the runs
  `reputation_lost_ban` and `reputation_lost_write` refute the first and the
  last of them without it. Durability also needs transactions that do not fail
  (`~DbFaults`), and no missed block needs `GreylistTTL >= Window`. The
  invariants say which operation still owes a write (`DurableInv`) or a line of
  the log (`LogInv`), that an entry counts every violation a later one can still
  meet in one window (`CountedInv`), and that a `Lookup` about to delete has the
  entry of the map, expired (`LookupInv`).

**Pipeline** (`ProxyProofs`): `PipelineTypes`, `ForwardsAreRightful`,
`AbuseIsEnforced`, `GreylistIsHeld`, `StrikesAreBounded`, `BlocksHold`. `Sound`
says of each request in flight, from its own record, how often it was sent
(`Counted`), why it may be forwarded (`Entitled`) and what reputation it met
(`Admitted`). `Strikes` is about all of them: the plain challenges charged to an
address and the requests that may still charge one are together no more than
the slots, and a clean address has none. `AbuseIsEnforced` uses what `Inspect`
returns for every set of templates: when a block or ban rule matches, the
verdict is one of these two (`InspectVerdict`).

**Session tracker** (`SessionTrackerProofs`): `TrackerTypes`, `CapHidesNothing`,
`OvershootIsBounded`, `LargeLimitNeverFires`, `GraceIsKept`. The limit is any
natural number: the second and the third say what they say of limits below the
cap (`Enforced`), and `LargeLimitNeverFires` what becomes of the others. `Alike` compares the capped list of a record
with the full one from their ends; with both sorted by time they agree on being
over the limit. For the overshoot, `OwnHitsSeen` says that a goroutine that
passed the rate-limit rule, or judges it, has seen its own earlier hits, so that
no goroutine records two hits beyond the limit within a window
(`OnceBeyondTheLimit`); the hits beyond it then map one to one to goroutines.

**Flood governor** (`RateGovernorProofs`): `GovernorTypes`, `BudgetIsHeld`,
`ThrottlingHasCause`, `AnomalyHasCause`. `Bounds` is the accounting: what a
bucket holds plus what it gave since time `s` is at most a burst plus the refill
from `s` to the bucket's own clock (`AtMost`), and at least a burst or the refill
(`AtLeast`), for any `b` above or below all bursts that may have been read
since. `BucketsFilled` ties the contents of a bucket to a burst that was in
force at most `MaxDelay` before it was last filled. `AnomalyHasCause` has the
hypothesis `Threshold \in 86..100`: all signals that are neither unmistakable nor
a probe sum to 85, and 100, the default, is the weight of an unmistakable one.

**Content cache** (`ContentCacheProofs`): `CacheTypes`, `WholeObjects`,
`FreshHits`. The invariant says the same of the objects in the store and of
those a lookup holds (`Good`), and of a body being teed that it is public, and
known to be too big as soon as it is (`Teeing`).

**Hot reload** (`HotReloadProofs`): `ReloadTypes`, `BadFilesHarmNoOther`. What is
published can only be trusted if the same holds of what each goroutine has read
and not yet published: `LoadSound` says that no rule and no pair that was never
bad is missing from it (`Read`, `Covers`), and `FilesSound` that what was never
bad is good now, when it is read.

**Process life** (`LifecycleProofs`): `LifecycleTypes`, `ServingIsFiltered`
(`RedirectInv` follows the redirect from the netlink call to the last step of the
shutdown, where every listener is shut), `RequestsAreDrained` (with `DrainInv`: a
server that is shut and drained of the requests it knows of stays drained until
the deadline; a request that upgrades leaves that count) and
`FirstRunUsable` (the order of the walk makes it inductive: the configuration
is never on disk without the policy before it).

Assumptions are named, stated in the module that declares the constants, and
evaluated by TLC in its runs. They give the constants their types (durations and
bounds are natural numbers; thresholds, windows and cache sizes positive, as the
code's defaults make them), and: sets of goroutines and request slots that are
counted are finite (`SlotsAssumption`, `FiniteThreads`, `ThreadsAssumption`); templates and pairs are sequences of well-formed
records, and no certificate file has an empty name (`ReloadAssumption`).

Only model-checked: liveness (`BlockEnds`, `Converges`, `ShutdownEnds`,
`BlackholeEnds`, `LogsFollow`), which is outside the prover's reach, as are
`ENABLED` and the absence of deadlock. Where a proof needs the least or the
greatest of a set of numbers it takes it from the well-foundedness of `<`
(`WFMin`); induction over sequences is avoided by stating what matters of a
sequence index by index.

## 5. Not modelled

* Text: YAML, prefixes, regular expressions, percent-decoding, the tables of
  markers, the text of virtual hosts. Definitions take what matches as input.
* The HMAC and the proof of work of tokens and session ids (valid or not), the
  rendering of pages, `safeReturn`.
* The backend: which one is chosen, the headers rewritten for it, the retry of
  a buffered body, its errors. None of it changes state of the program.
* Compression, status capture, original-destination lookup, durations: data
  transformations without shared state.
* The copy of the binary and the unit file at installation, the command line,
  `resolveSecret`, the default pages.
* Contents of files that a crash has cut short, and of a `config.yaml` that is
  empty in mid-save (valid, and read as the defaults).
* The array of timestamps that an entry and its snapshot share
  (`reputation.go:209`), and float64 rounding in the governor.

The whole model has one clock per module and no clock that is set back.

## 6. Plan

Every invariant and every action property of the passing runs is a theorem.
What is left:

* the composition as a theorem: `Proxy` uses the abstract reputation without
  its disk, and that a store without restarts and pending writes is what the
  pipeline needs is so far only said in section 2;
* lemmas about `Detect` that say what `LoadDir` and `Inspect` return, beyond the
  facts `AbuseIsEnforced` uses;
* the eventualities, of which only the safety part (what a step may not undo)
  is within the prover's reach.
