----------------------------- MODULE Reputation -----------------------------
(***************************************************************************)
(* The IP reputation manager (internal/reputation/reputation.go): a map    *)
(* from IP to entry guarded by a RWMutex, backed by BoltDB.  Request       *)
(* goroutines (Threads) call Lookup, RegisterViolation, MarkClean and      *)
(* Block; each action below is one stretch of code between two points      *)
(* where another goroutine may run: a critical section, a database         *)
(* transaction, an unlocked read of a shared entry, a log line.            *)
(*                                                                         *)
(* Lookup keeps a POINTER to the entry after it releases the read lock;    *)
(* MarkClean and Block serialise the very object they put into the map,    *)
(* after the unlock, and RegisterViolation a copy; the bytes reach the     *)
(* database in a transaction of their own, later still.  th[t].live says   *)
(* that the pointer is still the one in the map (the thread sees in-place  *)
(* changes); when the map slot is replaced or deleted the pointer keeps    *)
(* the last contents of the old object (Detached).                         *)
(***************************************************************************)
EXTENDS Integers, FiniteSets

CONSTANTS
    IPs,             \* client addresses
    Threads,         \* request goroutines
    BlockThreshold,  \* Config.BlockThreshold
    Window,          \* Config.Window
    GreylistTTL,     \* Config.GreylistTTL
    BlockTTL,        \* Config.BlockTTL
    CleanTTL,        \* Config.CleanTTL
    MaxTime,         \* bound on the clock
    MaxIncidents,    \* bound on the violations reported per IP
    MaxCrashes,      \* bound on process crashes
    DbFaults         \* whether a database transaction may fail

ASSUME ConfigAssumption ==
    /\ BlockThreshold \in Nat \ {0}   \* Config.validate rejects anything else
    /\ {Window, GreylistTTL, BlockTTL, CleanTTL} \subseteq Nat
    /\ {MaxTime, MaxIncidents, MaxCrashes} \subseteq Nat
    /\ DbFaults \in BOOLEAN

ASSUME ThreadsAssumption == IsFiniteSet(Threads)

VARIABLES
    clock,      \* the wall clock
    entries,    \* Manager.entries
    db,         \* the BoltDB bucket
    th,         \* per goroutine: the operation it is in
    logged,     \* per IP: the last line of reputation.log
    incidents,  \* history: per IP, every violation ever counted
    forgiven,   \* history: per IP, the violations wiped by a later verdict
    banned,     \* history: the IPs some rule banned outright
    crashes     \* number of crashes so far

history == <<incidents, forgiven, banned>>

vars == <<clock, entries, db, th, logged, incidents, forgiven, banned, crashes>>

-----------------------------------------------------------------------------

State == {"clean", "greylisted", "blocked"}

\* A violation is a timestamp; the id keeps two equal timestamps apart, so
\* that the slice of timestamps can be a set and its length a cardinality.
Violation == [id : Nat, at : Nat]

\* "absent" stands for a key that is not in the map (or not in the bucket).
Entry == [state : State \cup {"absent"}, since : Nat, expiry : Nat,
          violations : SUBSET Violation]

NoEntry == [state |-> "absent", since |-> 0, expiry |-> 0, violations |-> {}]

NewEntry(s, now, ttl) ==
    [state |-> s, since |-> now, expiry |-> now + ttl, violations |-> {}]

\* now.After(e.Expiry); a zero Expiry never expires.
Expired(e, now) == e.expiry # 0 /\ now > e.expiry

PC == {"idle", "lkExpiry", "lkState", "lkDelete", "lkDb", "lkEmit",
       "rvLock", "rvHold", "marshal", "persist", "emit"}

\* What Lookup may hand to the proxy.  "torn" is the outcome of a string read
\* that races with the two-word store of another State.
Answer == State \cup {"none", "torn"}

Thread == [pc : PC, ip : IPs, now : Nat, live : BOOLEAN, e : Entry,
           from : State, to : State, answer : Answer]

\* from and to are those of the Transition the operation will report.
Op(pc, ip, now, live, from, to) ==
    [pc |-> pc, ip |-> ip, now |-> now, live |-> live, e |-> NoEntry,
     from |-> from, to |-> to, answer |-> "none"]

Return(ip, a) == [Op("idle", ip, 0, FALSE, "clean", "clean") EXCEPT !.answer = a]

-----------------------------------------------------------------------------

\* What the thread's pointer, snapshot or serialised entry holds.
Pointee(t) == IF th[t].live THEN entries[th[t].ip] ELSE th[t].e

\* RegisterViolation is inside its critical section.
Locked == \E t \in Threads : th[t].pc = "rvHold"

\* The map slot of ip stops pointing to its current object: whoever still
\* holds a pointer to that object keeps what it contains now.
Detached(ip) ==
    [u \in Threads |-> IF th[u].live /\ th[u].ip = ip
                       THEN [th[u] EXCEPT !.live = FALSE, !.e = entries[ip]]
                       ELSE th[u]]

\* Mutation of StateOf: the map access without its ok check.
StateOfUnchecked(e) == e.state

\* State of an IP as RegisterViolation, MarkClean and Block read it.
StateOf(e) == IF e.state = "absent" THEN "clean" ELSE e.state

Idle(t) == th[t].pc = "idle"

\* Mutation of Pruned: violations outside the window still count.
PrunedNever(vs, now) == vs

\* Append the violation, keep the ones after the cutoff.
Pruned(vs, now) == {v \in vs : v.at > now - Window}

\* Mutation of Escalated: blocks one violation too late.
EscalatedLate(e, v) ==
    LET vs == Pruned(e.violations \cup {v}, v.at)
        s  == IF Cardinality(vs) > BlockThreshold THEN "blocked" ELSE "greylisted"
    IN  [state |-> s, since |-> v.at, violations |-> vs,
         expiry |-> v.at + (IF s = "blocked" THEN BlockTTL ELSE GreylistTTL)]

\* The entry after one more violation: blocked from the threshold on.
Escalated(e, v) ==
    LET vs == Pruned(e.violations \cup {v}, v.at)
        s  == IF Cardinality(vs) >= BlockThreshold THEN "blocked" ELSE "greylisted"
    IN  [state |-> s, since |-> v.at, violations |-> vs,
         expiry |-> v.at + (IF s = "blocked" THEN BlockTTL ELSE GreylistTTL)]

\* The violation thread t is about to record, and the entry it will leave.
Incident(t) == [id |-> Cardinality(incidents[th[t].ip]) + 1, at |-> th[t].now]

Updated(t) == Escalated(entries[th[t].ip], Incident(t))

\* A database transaction: atomic, its error ignored by every caller.
Write(ip, e) ==
    \/ db' = [db EXCEPT ![ip] = e]
    \/ DbFaults /\ UNCHANGED db

-----------------------------------------------------------------------------
(* Lookup *)

LookupGet(t, ip) ==
    /\ Idle(t)
    /\ ~Locked
    /\ th' = [th EXCEPT ![t] =
                IF entries[ip].state = "absent"
                THEN Return(ip, "clean")
                ELSE Op("lkExpiry", ip, 0, TRUE, "clean", "clean")]
    /\ UNCHANGED <<clock, entries, db, logged, history, crashes>>

\* Mutation of LookupExpiry: the TTL is never applied.
LookupExpiryIgnored(t) ==
    /\ th[t].pc = "lkExpiry"
    /\ th' = [th EXCEPT ![t].pc = "lkState"]
    /\ UNCHANGED <<clock, entries, db, logged, history, crashes>>

\* The unlocked read of e.Expiry.
LookupExpiry(t) ==
    /\ th[t].pc = "lkExpiry"
    /\ th' = [th EXCEPT ![t].pc =
                IF Expired(Pointee(t), clock) THEN "lkDelete" ELSE "lkState"]
    /\ UNCHANGED <<clock, entries, db, logged, history, crashes>>

\* A RegisterViolation is about to store another State in the object that
\* thread t points to.
StoreInFlight(t) ==
    /\ th[t].live
    /\ \E u \in Threads : /\ th[u].pc = "rvHold"
                          /\ th[u].ip = th[t].ip
                          /\ Updated(u).state # entries[th[u].ip].state

\* The unlocked read of e.State.
LookupState(t) ==
    /\ th[t].pc = "lkState"
    /\ \E a \in {Pointee(t).state} \cup (IF StoreInFlight(t) THEN {"torn"} ELSE {}) :
          th' = [th EXCEPT ![t] = Return(th[t].ip, a)]
    /\ UNCHANGED <<clock, entries, db, logged, history, crashes>>

\* The entry is deleted whatever it holds by now.
LookupDelete(t) ==
    LET ip == th[t].ip IN
    /\ th[t].pc = "lkDelete"
    /\ ~Locked
    /\ entries' = [entries EXCEPT ![ip] = NoEntry]
    /\ th' = [Detached(ip) EXCEPT ![t].pc = "lkDb"]
    /\ forgiven' = IF entries[ip].state = "blocked"
                   THEN [forgiven EXCEPT ![ip] = incidents[ip]]
                   ELSE forgiven
    /\ UNCHANGED <<clock, db, logged, incidents, banned, crashes>>

\* Mutation of LookupDbDelete: the expiry is not reported.
LookupDbDeleteSilent(t) ==
    /\ th[t].pc = "lkDb"
    /\ Write(th[t].ip, NoEntry)
    /\ th' = [th EXCEPT ![t] = Return(th[t].ip, "clean")]
    /\ UNCHANGED <<clock, entries, logged, history, crashes>>

LookupDbDelete(t) ==
    /\ th[t].pc = "lkDb"
    /\ Write(th[t].ip, NoEntry)
    /\ th' = [th EXCEPT ![t].pc = "lkEmit"]
    /\ UNCHANGED <<clock, entries, logged, history, crashes>>

LookupEmit(t) ==
    /\ th[t].pc = "lkEmit"
    /\ logged' = [logged EXCEPT ![th[t].ip] = [from |-> th[t].e.state, to |-> "clean"]]
    /\ th' = [th EXCEPT ![t] = Return(th[t].ip, "clean")]
    /\ UNCHANGED <<clock, entries, db, history, crashes>>

-----------------------------------------------------------------------------
(* RegisterViolation *)

InFlight(ip) == Cardinality({t \in Threads : th[t].pc \in {"rvLock", "rvHold"}
                                              /\ th[t].ip = ip})

\* The timestamp is taken before the lock.
RegisterViolation(t, ip) ==
    /\ Idle(t)
    /\ Cardinality(incidents[ip]) + InFlight(ip) < MaxIncidents
    /\ th' = [th EXCEPT ![t] = Op("rvLock", ip, clock, FALSE, "clean", "clean")]
    /\ UNCHANGED <<clock, entries, db, logged, history, crashes>>

\* Mutation of ViolationLock: a blocked entry is escalated like any other.
ViolationLockDowngrade(t) ==
    LET ip == th[t].ip IN
    /\ th[t].pc = "rvLock"
    /\ ~Locked
    /\ th' = [th EXCEPT ![t].pc = "rvHold", ![t].from = StateOf(entries[ip])]
    /\ entries' = [entries EXCEPT ![ip] =
          IF @.state = "absent"
          THEN [NoEntry EXCEPT !.state = "clean", !.since = th[t].now]
          ELSE @]
    /\ UNCHANGED <<clock, db, logged, history, crashes>>

\* mu.Lock, the map access, and the early return for a blocked entry.
ViolationLock(t) ==
    LET ip == th[t].ip IN
    /\ th[t].pc = "rvLock"
    /\ ~Locked
    /\ IF entries[ip].state = "blocked"
       THEN /\ th' = [th EXCEPT ![t] = Return(ip, "none")]
            /\ UNCHANGED entries
       ELSE /\ th' = [th EXCEPT ![t].pc = "rvHold", ![t].from = StateOf(entries[ip])]
            /\ entries' = [entries EXCEPT ![ip] =
                  IF @.state = "absent"
                  THEN [NoEntry EXCEPT !.state = "clean", !.since = th[t].now]
                  ELSE @]
    /\ UNCHANGED <<clock, db, logged, history, crashes>>

\* Mutation of ViolationCommit: the snapshot is not persisted.
ViolationCommitVolatile(t) ==
    LET ip == th[t].ip IN
    /\ th[t].pc = "rvHold"
    /\ entries' = [entries EXCEPT ![ip] = Updated(t)]
    /\ incidents' = [incidents EXCEPT ![ip] = @ \cup {Incident(t)}]
    /\ th' = [th EXCEPT ![t].pc = "emit", ![t].to = Updated(t).state]
    /\ UNCHANGED <<clock, db, logged, forgiven, banned, crashes>>

\* The in-place update, the snapshot and mu.Unlock.
ViolationCommit(t) ==
    LET ip == th[t].ip IN
    /\ th[t].pc = "rvHold"
    /\ entries' = [entries EXCEPT ![ip] = Updated(t)]
    /\ incidents' = [incidents EXCEPT ![ip] = @ \cup {Incident(t)}]
    /\ th' = [th EXCEPT ![t].pc = "persist", ![t].e = Updated(t), ![t].to = Updated(t).state]
    /\ UNCHANGED <<clock, db, logged, forgiven, banned, crashes>>

-----------------------------------------------------------------------------
(* MarkClean and Block replace the entry in one critical section. *)

\* Mutation of Replace: the old object is persisted, not the new one.
ReplaceStale(t, ip, e) ==
    /\ Idle(t)
    /\ ~Locked
    /\ entries' = [entries EXCEPT ![ip] = e]
    /\ th' = [Detached(ip) EXCEPT ![t] =
                [Op("marshal", ip, 0, FALSE, StateOf(entries[ip]), e.state)
                    EXCEPT !.e = entries[ip]]]
    /\ forgiven' = [forgiven EXCEPT ![ip] = incidents[ip]]

Replace(t, ip, e) ==
    /\ Idle(t)
    /\ ~Locked
    /\ entries' = [entries EXCEPT ![ip] = e]
    /\ th' = [Detached(ip) EXCEPT ![t] =
                Op("marshal", ip, 0, TRUE, StateOf(entries[ip]), e.state)]
    /\ forgiven' = [forgiven EXCEPT ![ip] = incidents[ip]]

MarkClean(t, ip) ==
    /\ Replace(t, ip, NewEntry("clean", clock, CleanTTL))
    /\ UNCHANGED <<clock, db, logged, incidents, banned, crashes>>

Block(t, ip) ==
    /\ Replace(t, ip, NewEntry("blocked", clock, BlockTTL))
    /\ banned' = banned \cup {ip}
    /\ UNCHANGED <<clock, db, logged, incidents, crashes>>

-----------------------------------------------------------------------------
(* The common tail: serialise the entry, write it, report a changed state.  *)

\* json.Marshal of the object that MarkClean or Block has put into the map, as
\* it is by now.  (The copy of RegisterViolation cannot change any more.)
Marshal(t) ==
    /\ th[t].pc = "marshal"
    /\ th' = [th EXCEPT ![t].pc = "persist", ![t].e = Pointee(t), ![t].live = FALSE]
    /\ UNCHANGED <<clock, entries, db, logged, history, crashes>>

\* The transaction writes these bytes, whatever has happened meanwhile.
Persist(t) ==
    LET op == th[t] IN
    /\ op.pc = "persist"
    /\ Write(op.ip, op.e)
    /\ th' = [th EXCEPT ![t] = IF op.from # op.to
                               THEN Op("emit", op.ip, 0, FALSE, op.from, op.to)
                               ELSE Return(op.ip, "none")]
    /\ UNCHANGED <<clock, entries, logged, history, crashes>>

Emit(t) ==
    LET op == th[t] IN
    /\ op.pc = "emit"
    /\ logged' = [logged EXCEPT ![op.ip] = [from |-> op.from, to |-> op.to]]
    /\ th' = [th EXCEPT ![t] = Return(op.ip, "none")]
    /\ UNCHANGED <<clock, entries, db, history, crashes>>

-----------------------------------------------------------------------------
(* Environment: time, and a crash followed by Open. *)

Tick ==
    /\ clock < MaxTime
    /\ clock' = clock + 1
    /\ UNCHANGED <<entries, db, th, logged, history, crashes>>

\* load: what has expired meanwhile stays in the bucket and out of the map.
Loaded == [ip \in IPs |-> IF Expired(db[ip], clock) THEN NoEntry ELSE db[ip]]

Crash ==
    /\ crashes < MaxCrashes
    /\ crashes' = crashes + 1
    /\ entries' = Loaded
    /\ th' = [t \in Threads |-> Return(th[t].ip, "none")]
    /\ UNCHANGED <<clock, db, logged, history>>

-----------------------------------------------------------------------------

Init ==
    /\ clock = 1
    /\ entries = [ip \in IPs |-> NoEntry]
    /\ db = [ip \in IPs |-> NoEntry]
    /\ th \in [Threads -> {Return(ip, "none") : ip \in IPs}]
    /\ logged = [ip \in IPs |-> [from |-> "clean", to |-> "clean"]]
    /\ incidents = [ip \in IPs |-> {}]
    /\ forgiven = [ip \in IPs |-> {}]
    /\ banned = {}
    /\ crashes = 0

ThreadStep(t) ==
    \/ LookupExpiry(t) \/ LookupState(t) \/ LookupDelete(t)
    \/ LookupDbDelete(t) \/ LookupEmit(t)
    \/ ViolationLock(t) \/ ViolationCommit(t)
    \/ Marshal(t) \/ Persist(t) \/ Emit(t)

Call(t, ip) ==
    \/ LookupGet(t, ip) \/ RegisterViolation(t, ip)
    \/ MarkClean(t, ip) \/ Block(t, ip)

Next ==
    \/ \E t \in Threads : ThreadStep(t)
    \/ \E t \in Threads, ip \in IPs : Call(t, ip)
    \/ Tick
    \/ Crash

Spec == Init /\ [][Next]_vars

(* Every operation a goroutine has begun is carried on: the Go scheduler    *)
(* runs every runnable goroutine, sync.RWMutex hands the lock to waiters,   *)
(* the clock advances, and a client that is blocked keeps asking.           *)
Fairness ==
    /\ WF_clock(Tick)
    /\ \A t \in Threads : SF_vars(ThreadStep(t))
    /\ \A ip \in IPs : SF_vars(\E t \in Threads : LookupGet(t, ip))

FairSpec == Spec /\ Fairness

-----------------------------------------------------------------------------
(* Properties *)

\* The variables have their types.
TypeOK ==
    /\ clock \in Nat
    /\ entries \in [IPs -> Entry]
    /\ db \in [IPs -> Entry]
    /\ th \in [Threads -> Thread]
    /\ logged \in [IPs -> [from : State, to : State]]
    /\ incidents \in [IPs -> SUBSET Violation]
    /\ forgiven \in [IPs -> SUBSET Violation]
    /\ banned \subseteq IPs
    /\ crashes \in Nat

\* What can justify a block of ip at time `since`: a rule banned the IP
\* outright, or BlockThreshold violations lie inside the sliding window.
Justified(ip, since) ==
    \/ ip \in banned
    \/ Cardinality({v \in incidents[ip] : v.at > since - Window}) >= BlockThreshold

\* No IP is ever blocked without cause: wherever a blocked entry lives (the
\* map, the database, the snapshot or pointer a goroutine still holds, also
\* after any number of crashes and reordered writes) the threshold was really
\* reached within the window before the block (reputation.go:198-203), or the
\* IP was banned (Block).
JustifiedBlocks ==
    \A ip \in IPs :
        /\ entries[ip].state = "blocked" => Justified(ip, entries[ip].since)
        /\ db[ip].state = "blocked" => Justified(ip, db[ip].since)
        /\ \A t \in Threads : th[t].ip = ip /\ th[t].e.state = "blocked"
                                => Justified(ip, th[t].e.since)

BlockedNow(ip) == entries[ip].state = "blocked" /\ clock <= entries[ip].expiry

\* An unexpired block ends only through a passed challenge, a restart, or a
\* Lookup on its way to delete an entry it found expired before; in
\* particular no RegisterViolation downgrades it (reputation.go:180-184).
UnblockedOnlyBy ==
    [][\A ip \in IPs : BlockedNow(ip) /\ entries'[ip].state # "blocked"
          => \/ Crash
             \/ \E t \in Threads : MarkClean(t, ip)
             \/ \E t \in Threads : th[t].ip = ip /\ LookupDelete(t)]_vars

\* A block lasts until its expiry unless the client passes a challenge or the
\* process restarts: "every subsequent request fails fast at the reputation
\* check for block_ttl" (internal/proxy/proxy.go:361).
BlockLastsItsTTL ==
    [][\A ip \in IPs : BlockedNow(ip) /\ entries'[ip].state # "blocked"
          => Crash \/ \E t \in Threads : MarkClean(t, ip)]_vars

Quiet == \A t \in Threads : Idle(t)

\* Between operations the database holds what a restart needs: it agrees with
\* the map except for entries whose TTL ran out (persist and delete follow
\* every change of the map).
DurableWhenQuiet ==
    Quiet => \A ip \in IPs :
                entries[ip] # db[ip] => entries[ip] = NoEntry /\ Expired(db[ip], clock)

\* Between operations the last line of reputation.log about an IP names the
\* state the IP is in ("Every transition is emitted", reputation.go:8); a
\* restart may drop expired entries without a line.
LogTellsState ==
    Quiet /\ crashes = 0 =>
        \A ip \in IPs : logged[ip].to = StateOf(entries[ip])

\* An IP is not left greylisted once the violations that no later verdict
\* wiped reach the threshold inside one window ("blocked outright after N
\* violations within a sliding window", reputation.go:4-5).
NoMissedBlock ==
    crashes = 0 =>
        \A ip \in IPs : entries[ip].state = "greylisted" =>
            Cardinality({v \in incidents[ip] \ forgiven[ip] :
                            v.at > entries[ip].since - Window}) < BlockThreshold

\* A block that is not renewed comes to an end for a client that keeps
\* asking: Lookup's TTL check removes it (reputation.go:158-165).
BlockEnds ==
    \A ip \in IPs, x \in 1..(MaxTime - 1) :
        (entries[ip].state = "blocked" /\ entries[ip].expiry = x)
            ~> ~(entries[ip].state = "blocked" /\ entries[ip].expiry = x)

-----------------------------------------------------------------------------
(* The abstract store that the proxy relies on.  An entry stands for its    *)
(* state and the number of its violations; on their way to disk are the     *)
(* entries yet to be serialised, as they are now, the bytes yet to be       *)
(* written, as they were, and the deletions.                                *)

ValueOf(e) == [state |-> StateOf(e), strikes |-> Cardinality(e.violations)]

InMemory == [ip \in IPs |-> ValueOf(entries[ip])]

OnDisk == [ip \in IPs |-> ValueOf(db[ip])]

Pending ==
    [ip \in IPs |->
        {ValueOf(Pointee(t)) : t \in {u \in Threads : th[u].pc = "marshal" /\ th[u].ip = ip}}
        \cup {ValueOf(th[t].e) : t \in {u \in Threads : th[u].pc = "persist" /\ th[u].ip = ip}}
        \cup {ValueOf(NoEntry) : t \in {u \in Threads : th[u].pc = "lkDb" /\ th[u].ip = ip}}]

Store == INSTANCE ReputationStore WITH rep <- InMemory, pending <- Pending, disk <- OnDisk

\* The manager, with its goroutines, pointers and late writes, behaves as the
\* abstract store: a verdict is never applied in part, a violation adds at
\* most one strike and blocks exactly from the threshold on, a blocked address
\* takes no violation, and disk holds only what was once decided and on its
\* way there, if perhaps no longer true (reputation.go:127-252).
ImplementsStore == Store!Spec
=============================================================================
