----------------------------- MODULE HotReload ------------------------------
(***************************************************************************)
(* Hot reload of the configuration, the access lists, the templates and    *)
(* the certificates: config.Manager (Load, Reload, Watch,                  *)
(* WatchAccessLists), detect.LoadDir and WatchTemplates, CertStore.Reload, *)
(* and the git-sync loops of main.go.  Five goroutines read files one      *)
(* after another, while others change them, and then publish what they     *)
(* read by swapping a pointer; nothing keeps one from publishing an old    *)
(* reading after another has published a newer one.                        *)
(***************************************************************************)
EXTENDS CertStore

CONSTANTS
    NumRules,     \* number of template files
    PemFiles,     \* the certificate and key files
    SyncEnabled,  \* whether the sync intervals are positive
    DeepLists,    \* whether list files may lie where no watch sees them
    MaxEdits      \* bound on the changes of files

ASSUME ReloadAssumption ==
    /\ {SyncEnabled, DeepLists} \subseteq BOOLEAN /\ {NumRules, MaxEdits} \subseteq Nat
    /\ "" \notin PemFiles
    /\ Pairs \in Seq([cert : PemFiles, key : PemFiles, names : SUBSET Names])

VARIABLES
    disk,     \* the version of config.yaml and of the lists
    rules,    \* the version of each template file
    pem,      \* the generation of each certificate or key file
    edits,    \* number of changes so far
    event,    \* per watched directory: fsnotify events wait to be read
    timer,    \* per debounced directory: the timer is armed
    watched,  \* whether the watch on the templates directory still exists
    current,  \* Manager.current: the versions of config.yaml and of the lists
    engine,   \* the version of each template in the engine
    byName,   \* CertStore.byName
    spoiled,  \* history: the rules and pairs whose files were bad at some time
    ld        \* the load each goroutine is in

files == <<disk, rules, pem, edits, spoiled>>
published == <<current, engine, byName>>
vars == <<files, event, timer, watched, published, ld>>

-----------------------------------------------------------------------------

Directories == {"config", "lists", "templates"}
Debounced == {"lists", "templates"}

\* The goroutines: the watcher of each directory, and two sync loops (those
\* of the whitelist, the blocklist and the trusted proxies do the same).
Loops == {"listSync", "templateSync"}
Loaders == Directories \cup Loops

Rules == 1..NumRules

\* config.yaml that does not parse or validate, a template that does not parse
\* or compile, and a template file that does not exist.
Broken == -1
Absent == -2

\* What the engine holds of a template file.
Loaded(v) == IF v = Absent THEN Broken ELSE v

Idle == [pc |-> "idle"]

\* What a goroutine does first: the configuration, or only the templates.
First(l) == IF l \in {"templates", "templateSync"}
            THEN [pc |-> "loadDir"] ELSE [pc |-> "load"]

Version == 0..MaxEdits

-----------------------------------------------------------------------------
(* Files change, and fsnotify says so. *)

\* One more change, and an event if a watch on the directory sees it.
Changed(d, seen) ==
    /\ edits < MaxEdits
    /\ edits' = edits + 1
    /\ event' = [event EXCEPT ![d] = @ \/ seen]

\* An operator edits config.yaml, which may be left broken, or a list.  The
\* lists are read from subdirectories too, but only the directories that were
\* there at the start are watched, without what is below them.
Edit(d) ==
    /\ \E seen \in BOOLEAN : (seen \/ (d = "lists" /\ DeepLists)) /\ Changed(d, seen)
    /\ \E v \in {edits + 1} \cup (IF d = "config" THEN {Broken} ELSE {}) :
          disk' = [disk EXCEPT ![d] = v]
    /\ UNCHANGED <<rules, pem, spoiled>>

\* Somebody writes (perhaps badly, perhaps half) or removes a template.
EditRule(i) ==
    /\ Changed("templates", watched)
    /\ \E v \in {edits + 1, Broken, Absent} :
          /\ rules' = [rules EXCEPT ![i] = v]
          /\ spoiled' = [spoiled EXCEPT !.rules = @ \cup (IF v < 0 THEN {i} ELSE {})]
    /\ UNCHANGED <<disk, pem>>

\* The templates directory is removed; the watch goes with it, and nobody adds
\* it again when the directory comes back.
RemoveDir ==
    /\ Changed("templates", watched)
    /\ rules' = [i \in Rules |-> Absent]
    /\ spoiled' = [spoiled EXCEPT !.rules = Rules]
    /\ UNCHANGED <<disk, pem>>

\* A certificate or a key is renewed, one file at a time.  No watch sees it.
Renew(f) ==
    /\ edits < MaxEdits
    /\ edits' = edits + 1
    /\ pem' = [pem EXCEPT ![f] = @ + 1]
    /\ spoiled' = [spoiled EXCEPT !.pairs = @ \cup {i \in DOMAIN Pairs : ~Fits(Pairs[i], pem')}]
    /\ UNCHANGED <<disk, rules, event>>

\* What the certificate files hold: of the pairs that fit and serve a name,
\* the last one counts.
Serving(d) == {i \in DOMAIN Pairs : Fits(Pairs[i], pem) /\ d \in Pairs[i].names}

Certificates ==
    [d \in {n \in Names : Serving(n) # {}} |->
        LET last == CHOOSE i \in Serving(d) : \A j \in Serving(d) : j <= i
        IN  [file |-> Pairs[last].cert, gen |-> pem[Pairs[last].cert]]]

\* config.yaml is saved as it was, an event and no change: after a renewal, it
\* is what has the certificates loaded again.
Touch ==
    /\ byName # Certificates /\ ~event["config"]
    /\ event' = [event EXCEPT !["config"] = TRUE]
    /\ UNCHANGED files

FilesChange ==
    /\ \/ (\E d \in {"config", "lists"} : Edit(d)) /\ UNCHANGED watched
       \/ (\E i \in Rules : EditRule(i)) /\ UNCHANGED watched
       \/ RemoveDir /\ watched' = FALSE
       \/ (Touch \/ \E f \in PemFiles : Renew(f)) /\ UNCHANGED watched
    /\ UNCHANGED <<timer, published, ld>>

\* A round of a sync loop begins: SyncRepo writes the files of the repository
\* one by one.  A failure of git is only logged, and the reload follows in any
\* case.
Sync(l) ==
    /\ SyncEnabled /\ ld[l] = Idle
    /\ ld' = [ld EXCEPT ![l] = [pc |-> "git"]]
    /\ UNCHANGED <<files, event, timer, watched, published>>

Checkout(l) ==
    /\ ld[l].pc = "git"
    /\ IF l = "listSync" THEN Edit("lists")
       ELSE \E i \in Rules : EditRule(i) /\ rules'[i] # Absent
    /\ UNCHANGED <<timer, watched, published, ld>>

\* Mutation of SyncDone: nothing is reloaded when git has failed.
SyncDoneUnlessFailed(l) ==
    /\ ld[l].pc = "git"
    /\ \E failed \in BOOLEAN : ld' = [ld EXCEPT ![l] = IF failed THEN Idle ELSE First(l)]
    /\ UNCHANGED <<files, event, timer, watched, published>>

SyncDone(l) ==
    /\ ld[l].pc = "git"
    /\ ld' = [ld EXCEPT ![l] = First(l)]
    /\ UNCHANGED <<files, event, timer, watched, published>>

\* The watcher of config.yaml loads at every event.
ConfigEvent ==
    /\ ld["config"] = Idle /\ event["config"]
    /\ event' = [event EXCEPT !["config"] = FALSE]
    /\ ld' = [ld EXCEPT !["config"] = First("config")]
    /\ UNCHANGED <<files, timer, watched, published>>

\* The other two arm a timer at an event, and load when it fires.
Arm(d) ==
    /\ ld[d] = Idle /\ event[d]
    /\ event' = [event EXCEPT ![d] = FALSE]
    /\ timer' = [timer EXCEPT ![d] = TRUE]
    /\ UNCHANGED <<files, watched, published, ld>>

Fire(d) ==
    /\ ld[d] = Idle /\ timer[d]
    /\ timer' = [timer EXCEPT ![d] = FALSE]
    /\ ld' = [ld EXCEPT ![d] = First(d)]
    /\ UNCHANGED <<files, event, watched, published>>

-----------------------------------------------------------------------------
(* Load *)

\* Mutation of LoadConfig: a broken file is taken for what it says.
LoadConfigBroken(l) ==
    /\ ld[l].pc = "load"
    /\ ld' = [ld EXCEPT ![l] = [pc |-> "lists", config |-> disk["config"]]]
    /\ UNCHANGED <<files, event, timer, watched, published>>

\* config.yaml is read and validated; an error ends the reload.
LoadConfig(l) ==
    /\ ld[l].pc = "load"
    /\ ld' = [ld EXCEPT ![l] = IF disk["config"] = Broken THEN Idle
                               ELSE [pc |-> "lists", config |-> disk["config"]]]
    /\ UNCHANGED <<files, event, timer, watched, published>>

\* loadAccessListFiles
LoadAccessListFiles(l) ==
    /\ ld[l].pc = "lists"
    /\ ld' = [ld EXCEPT ![l] = [pc |-> "store", config |-> ld[l].config, lists |-> disk["lists"]]]
    /\ UNCHANGED <<files, event, timer, watched, published>>

\* m.current.Store; the watcher of config.yaml goes on to the templates.
Store(l) ==
    /\ ld[l].pc = "store"
    /\ current' = [config |-> ld[l].config, lists |-> ld[l].lists]
    /\ ld' = [ld EXCEPT ![l] = IF l = "config" THEN [pc |-> "loadDir"] ELSE Idle]
    /\ UNCHANGED <<files, event, timer, watched, engine, byName>>

-----------------------------------------------------------------------------
(* loadTemplates *)

\* The names in the directory; one that is missing is an empty one.
LoadDir(l) ==
    /\ ld[l].pc = "loadDir"
    /\ ld' = [ld EXCEPT ![l] = [pc |-> "walk", got |-> <<>>,
                               listed |-> {i \in Rules : rules[i] # Absent}]]
    /\ UNCHANGED <<files, event, timer, watched, published>>

\* The walk goes on with what was got so far.
Walking(l, got) == [ld EXCEPT ![l] = [pc |-> "walk", got |-> got, listed |-> ld[l].listed]]

\* Mutation of LoadRule: a bad template ends the walk.
LoadRuleAborts(l) ==
    LET got == ld[l].got
        i == Len(got) + 1
    IN
    /\ ld[l].pc = "walk" /\ i \in Rules
    /\ ld' = Walking(l, [j \in 1..(IF rules[i] < 0 THEN NumRules ELSE i) |->
                            IF j < i THEN got[j] ELSE Loaded(rules[i])])
    /\ UNCHANGED <<files, event, timer, watched, published>>

\* The next file is read, parsed and compiled, or skipped.
LoadRule(l) ==
    LET got == ld[l].got
        i == Len(got) + 1
    IN
    /\ ld[l].pc = "walk" /\ i \in Rules
    /\ ld' = Walking(l, Append(got, IF i \in ld[l].listed THEN Loaded(rules[i]) ELSE Broken))
    /\ UNCHANGED <<files, event, timer, watched, published>>

\* engine.Reload; the watcher of config.yaml goes on to the certificates.
Swap(l) ==
    /\ ld[l].pc = "walk" /\ Len(ld[l].got) = NumRules
    /\ engine' = ld[l].got
    /\ ld' = [ld EXCEPT ![l] = IF l = "config" THEN [pc |-> "certs", tried |-> 0, next |-> <<>>]
                               ELSE Idle]
    /\ UNCHANGED <<files, event, timer, watched, current, byName>>

-----------------------------------------------------------------------------
(* certStore.Reload *)

ReloadPair(l) ==
    LET i == ld[l].tried + 1 IN
    /\ ld[l].pc = "certs" /\ i \in DOMAIN Pairs
    /\ ld' = [ld EXCEPT ![l] = [pc |-> "certs", tried |-> i,
                                next |-> LoadPair(ld[l].next, Pairs[i], pem)]]
    /\ UNCHANGED <<files, event, timer, watched, published>>

ReloadSwap(l) ==
    /\ ld[l].pc = "certs" /\ ld[l].tried = Len(Pairs)
    /\ byName' = ld[l].next
    /\ ld' = [ld EXCEPT ![l] = Idle]
    /\ UNCHANGED <<files, event, timer, watched, current, engine>>

-----------------------------------------------------------------------------

\* After the loads of the start.
Init ==
    /\ disk = [d \in {"config", "lists"} |-> 0]
    /\ rules = [i \in Rules |-> 0]
    /\ pem = [f \in PemFiles |-> 0]
    /\ edits = 0
    /\ spoiled = [rules |-> {}, pairs |-> {}]
    /\ event = [d \in Directories |-> FALSE]
    /\ timer = [d \in Debounced |-> FALSE]
    /\ watched = TRUE
    /\ current = [config |-> 0, lists |-> 0]
    /\ engine = rules
    /\ byName = Certificates
    /\ ld = [l \in Loaders |-> Idle]

LoadStep(l) ==
    \/ LoadConfig(l) \/ LoadAccessListFiles(l) \/ Store(l)
    \/ LoadDir(l) \/ LoadRule(l) \/ Swap(l)
    \/ ReloadPair(l) \/ ReloadSwap(l)

Next ==
    \/ FilesChange
    \/ \E l \in Loops : Sync(l) \/ Checkout(l) \/ SyncDone(l)
    \/ ConfigEvent
    \/ \E d \in Debounced : Arm(d) \/ Fire(d)
    \/ \E l \in Loaders : LoadStep(l)

Spec == Init /\ [][Next]_vars

(* The goroutines run, timers fire, tickers tick, git ends; files need not  *)
(* change.                                                                  *)
Fairness ==
    /\ \A l \in Loaders : WF_vars(LoadStep(l))
    /\ \A l \in Loops : WF_vars(Sync(l)) /\ WF_vars(SyncDone(l))
    /\ WF_vars(ConfigEvent)
    /\ \A d \in Debounced : WF_vars(Arm(d)) /\ WF_vars(Fire(d))

FairSpec == Spec /\ Fairness

-----------------------------------------------------------------------------
(* Properties *)

\* The variables have their types; in particular no broken configuration is
\* ever published: "the old config is retained" (config.go:570).
TypeOK ==
    /\ disk \in [{"config", "lists"} -> Version \cup {Broken}]
    /\ rules \in [Rules -> Version \cup {Broken, Absent}]
    /\ pem \in [PemFiles -> Version]
    /\ edits \in Version
    /\ event \in [Directories -> BOOLEAN] /\ timer \in [Debounced -> BOOLEAN]
    /\ watched \in BOOLEAN
    /\ current \in [config : Version, lists : Version]
    /\ engine \in [Rules -> Version \cup {Broken}]
    /\ DOMAIN byName \subseteq Names

\* A bad file takes nothing down but itself ("a single bad CVE template from an
\* external feed must not take down the WAF", loader.go:23; "Missing/unreadable
\* pairs are skipped", certloader.go:97): a template whose file has always been
\* good is in force at all times, and a host name whose pair has always fitted
\* is always served a certificate, whatever reloads overlap and whatever
\* happens to the other files.  A removed templates directory is a bad file of
\* every rule.
BadFilesAlone ==
    /\ \A i \in Rules \ spoiled.rules : engine[i] # Broken
    /\ \A i \in DOMAIN Pairs : \A n \in Names :
          /\ i \notin spoiled.pairs
          /\ n \in Pairs[i].names \/ Wildcard[n] \in Pairs[i].names
          => GetCertificate(byName, n) # NoCert

ListsInSync ==
    disk["config"] # Broken => current = [config |-> disk["config"], lists |-> disk["lists"]]

\* Once files stop changing, requests end up with what is on disk, for good:
\* configuration, access lists and every template that is readable ("Templates
\* recompile without a restart", README.md:197).  Overlapping loads may publish
\* an old reading last, and a removed directory takes its watch along; the next
\* round of a sync loop repairs both.
Converges == <>[](ListsInSync /\ engine = [i \in Rules |-> Loaded(rules[i])])

=============================================================================
