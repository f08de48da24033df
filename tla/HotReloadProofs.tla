-------------------------- MODULE HotReloadProofs ---------------------------
(***************************************************************************)
(* Proofs about hot reload: whatever loads overlap, no broken              *)
(* configuration is published, and a bad file takes nothing down but       *)
(* itself.                                                                 *)
(*                                                                         *)
(* BadFilesAlone speaks of what is published.  It is inductive only        *)
(* together with the same of what each goroutine has read so far and not   *)
(* yet published, and with what the history tells of the files: those that *)
(* were never bad are good now, when the next one of them is read.         *)
(***************************************************************************)
EXTENDS HotReload, WellFoundedInduction, NaturalsInduction, TLAPS

\* The files: their types, and what is not spoiled is good.
FilesSound ==
    /\ disk \in [{"config", "lists"} -> Version \cup {Broken}]
    /\ disk["lists"] # Broken
    /\ rules \in [Rules -> Version \cup {Broken, Absent}]
    /\ edits \in Version
    /\ pem \in [PemFiles -> 0..edits]
    /\ spoiled \in [rules : SUBSET Rules, pairs : SUBSET DOMAIN Pairs]
    /\ \A i \in Rules \ spoiled.rules : rules[i] \notin {Broken, Absent}
    /\ \A i \in DOMAIN Pairs \ spoiled.pairs : Fits(Pairs[i], pem)

\* fsnotify: the types of what waits to be read.
EventsSound ==
    /\ event \in [Directories -> BOOLEAN] /\ timer \in [Debounced -> BOOLEAN]
    /\ watched \in BOOLEAN

\* A map of certificates after the first n pairs: each name in it has one, and
\* the names of each of these pairs are in it, but for the bad ones.
Covers(next, n, bad) ==
    /\ DOMAIN next \subseteq Names
    /\ \A d \in DOMAIN next : next[d] # NoCert
    /\ \A i \in (1..n) \ bad : Pairs[i].names \subseteq DOMAIN next

\* The templates read so far: none is broken, but for the bad ones.
Read(got, bad) ==
    /\ got \in Seq(Version \cup {Broken})
    /\ \A i \in (1..Len(got)) \ bad : got[i] # Broken

\* What a goroutine in load s has read and not published.
LoadSound(s, sp) ==
    /\ s.pc \in {"lists", "store"} => s.config \in Version
    /\ s.pc = "store" => s.lists \in Version
    /\ s.pc = "walk" => Read(s.got, sp.rules) /\ Rules \ sp.rules \subseteq s.listed
    /\ s.pc = "certs" => s.tried \in 0..Len(Pairs) /\ Covers(s.next, s.tried, sp.pairs)

LoadsSound == DOMAIN ld = Loaders /\ \A l \in Loaders : LoadSound(ld[l], spoiled)

PublishedSound ==
    /\ current \in [config : Version, lists : Version]
    /\ engine \in [Rules -> Version \cup {Broken}]
    /\ \A i \in Rules \ spoiled.rules : engine[i] # Broken
    /\ Covers(byName, Len(Pairs), spoiled.pairs)

\* The inductive invariant.
Inv == FilesSound /\ EventsSound /\ LoadsSound /\ PublishedSound

-----------------------------------------------------------------------------
(* Lemmas *)

LEMMA Bounds == NumRules \in Nat /\ MaxEdits \in Nat
  BY ReloadAssumption

LEMMA SeqFacts ==
    ASSUME NEW S, NEW q \in Seq(S)
    PROVE  /\ DOMAIN q = 1..Len(q) /\ Len(q) \in Nat
           /\ \A i \in DOMAIN q : q[i] \in S
  OBVIOUS

LEMMA PairFacts ==
    /\ DOMAIN Pairs = 1..Len(Pairs) /\ Len(Pairs) \in Nat
    /\ \A i \in DOMAIN Pairs : Pairs[i] \in [cert : PemFiles, key : PemFiles, names : SUBSET Names]
  <1> DEFINE S == [cert : PemFiles, key : PemFiles, names : SUBSET Names]
  <1>1. Pairs \in Seq(S)
    BY ReloadAssumption
  <1> HIDE DEF S
  <1>2. /\ DOMAIN Pairs = 1..Len(Pairs) /\ Len(Pairs) \in Nat
        /\ \A i \in DOMAIN Pairs : Pairs[i] \in S
    BY <1>1, SeqFacts
  <1> QED BY <1>2 DEF S

LEMMA PairTypes ==
    ASSUME NEW i \in DOMAIN Pairs
    PROVE  /\ Pairs[i].cert \in PemFiles /\ Pairs[i].key \in PemFiles /\ Pairs[i].names \subseteq Names
           /\ Pairs[i].cert # ""
  <1>1. Pairs[i] \in [cert : PemFiles, key : PemFiles, names : SUBSET Names]
    BY PairFacts
  <1>2. Pairs[i].cert \in PemFiles /\ Pairs[i].key \in PemFiles /\ Pairs[i].names \subseteq Names
    BY <1>1
  <1>3. "" \notin PemFiles
    BY ReloadAssumption
  <1> QED BY <1>2, <1>3

\* A certificate that was read from a file is one.
LEMMA FileIsCert ==
    ASSUME NEW i \in DOMAIN Pairs, NEW g
    PROVE  [file |-> Pairs[i].cert, gen |-> g] # NoCert
  BY PairTypes DEF NoCert

LEMMA Last ==
    ASSUME NEW n \in Nat, NEW S \in SUBSET (1..n), S # {}
    PROVE  \E i \in S : \A j \in S : j <= i
  <1> DEFINE T == {n - i : i \in S}
  <1>1. T \in SUBSET Nat /\ T # {}
    <2>1. \A i \in S : n - i \in Nat
      OBVIOUS
    <2> QED BY <2>1
  <1>2. PICK x \in T : \A y \in T : ~(<<y, x>> \in OpToRel(<, Nat))
    <2>1. IsWellFoundedOn(OpToRel(<, Nat), Nat)
      BY NatLessThanWellFounded
    <2> HIDE DEF T
    <2> QED BY <1>1, <2>1, WFMin
  <1>3. \A y \in T : ~(y < x)
    BY <1>1, <1>2 DEF OpToRel
  <1>4. PICK i \in S : x = n - i
    BY <1>2
  <1>5. \A j \in S : n - j \in T
    OBVIOUS
  <1>6. \A j \in S : j <= i
    <2> SUFFICES ASSUME NEW j \in S PROVE j <= i
      OBVIOUS
    <2>1. ~(n - j < n - i) /\ i \in Int /\ j \in Int
      BY <1>3, <1>4, <1>5
    <2> QED BY <2>1
  <1> QED BY <1>6

\* The certificates of the start: every pair fits.
LEMMA CertificatesCover ==
    ASSUME \A i \in DOMAIN Pairs : Fits(Pairs[i], pem)
    PROVE  Covers(Certificates, Len(Pairs), {})
  <1> DEFINE served == {n \in Names : Serving(n) # {}}
             last(d) == CHOOSE i \in Serving(d) : \A j \in Serving(d) : j <= i
             cert(d) == [file |-> Pairs[last(d)].cert, gen |-> pem[Pairs[last(d)].cert]]
  <1>1. Certificates = [d \in served |-> cert(d)]
    BY DEF Certificates
  <1>2. \A d \in served : last(d) \in DOMAIN Pairs
    <2> SUFFICES ASSUME NEW d \in served PROVE last(d) \in DOMAIN Pairs
      OBVIOUS
    <2>1. Serving(d) \in SUBSET (1..Len(Pairs)) /\ Serving(d) # {}
      BY PairFacts DEF Serving
    <2>2. \E i \in Serving(d) : \A j \in Serving(d) : j <= i
      BY <2>1, Last, PairFacts
    <2>3. last(d) \in Serving(d)
      BY <2>2
    <2> QED BY <2>3 DEF Serving
  <1>3. \A d \in served : cert(d) # NoCert
    BY <1>2, FileIsCert
  <1>4. \A i \in 1..Len(Pairs) : Pairs[i].names \subseteq served
    BY PairTypes, PairFacts DEF Serving
  <1> HIDE DEF served, cert
  <1>5. served \subseteq Names
    BY DEF served
  <1> QED BY <1>1, <1>3, <1>4, <1>5 DEF Covers

\* One round of Reload.
LEMMA LoadPairCovers ==
    ASSUME NEW next, NEW n \in Nat, NEW bad, NEW files_, Covers(next, n, bad),
           n + 1 \in DOMAIN Pairs, n + 1 \notin bad => Fits(Pairs[n + 1], files_)
    PROVE  Covers(LoadPair(next, Pairs[n + 1], files_), n + 1, bad)
  <1> DEFINE i == n + 1
             fits == Fits(Pairs[i], files_)
             after == LoadPair(next, Pairs[i], files_)
             names == IF fits THEN Pairs[i].names ELSE {}
             cert == [file |-> Pairs[i].cert, gen |-> files_[Pairs[i].cert]]
  <1>1. after = [d \in DOMAIN next \cup names |-> IF d \in names THEN cert ELSE next[d]]
    BY DEF LoadPair
  <1>2. cert # NoCert
    BY FileIsCert
  <1>3. names \subseteq Names
    BY PairTypes
  <1>4. \A j \in (1..i) \ bad : j \in (1..n) \ bad \/ (j = i /\ names = Pairs[i].names)
    OBVIOUS
  <1> HIDE DEF names, cert, after
  <1>5. \A j \in (1..i) \ bad : Pairs[j].names \subseteq DOMAIN after
    BY <1>1, <1>4 DEF Covers
  <1>6. \A d \in DOMAIN after : after[d] # NoCert
    BY <1>1, <1>2 DEF Covers
  <1>7. DOMAIN after \subseteq Names
    BY <1>1, <1>3 DEF Covers
  <1> QED BY <1>5, <1>6, <1>7 DEF Covers, after

\* Another file goes bad: less is claimed of what was read before.
LEMMA CoversAnyway ==
    ASSUME NEW next, NEW n, NEW a, NEW b, Covers(next, n, a), a \subseteq b
    PROVE  Covers(next, n, b)
  BY DEF Covers

LEMMA ReadAnyway ==
    ASSUME NEW got, NEW a, NEW b, Read(got, a), a \subseteq b
    PROVE  Read(got, b)
  BY DEF Read

LEMMA LoadAnyway ==
    ASSUME NEW s, NEW a, NEW b, LoadSound(s, a), a.rules \subseteq b.rules, a.pairs \subseteq b.pairs
    PROVE  LoadSound(s, b)
  <1>1. s.pc = "walk" => Read(s.got, b.rules)
    BY ReadAnyway DEF LoadSound
  <1>2. s.pc = "certs" => Covers(s.next, s.tried, b.pairs)
    BY CoversAnyway DEF LoadSound
  <1> QED BY <1>1, <1>2 DEF LoadSound

-----------------------------------------------------------------------------
(* Steps *)

LEMMA InitSound == Init => Inv
  <1> SUFFICES ASSUME Init PROVE Inv
    OBVIOUS
  <1>1. FilesSound
    <2>1. 0 \in Version /\ Version = 0..MaxEdits
      BY Bounds DEF Version
    <2>2. \A i \in DOMAIN Pairs : Fits(Pairs[i], pem)
      BY PairTypes DEF Init, Fits
    <2> QED BY <2>1, <2>2 DEF Init, FilesSound, Broken, Absent
  <1>2. EventsSound
    BY DEF Init, EventsSound
  <1>3. LoadsSound
    BY DEF Init, LoadsSound, LoadSound, Idle
  <1>4. PublishedSound
    <2>1. Covers(byName, Len(Pairs), {})
      <3>1. \A i \in DOMAIN Pairs : Fits(Pairs[i], pem)
        BY PairTypes DEF Init, Fits
      <3> QED BY <3>1, CertificatesCover DEF Init
    <2>2. 0 \in Version
      BY Bounds DEF Version
    <2> QED BY <2>1, <2>2 DEF Init, PublishedSound, Broken
  <1> QED BY <1>1, <1>2, <1>3, <1>4 DEF Inv

\* Files go bad and never good again, as the history has it: what was read and
\* what is published stays sound.
LEMMA SpoiledMore ==
    ASSUME Inv, spoiled.rules \subseteq spoiled'.rules, spoiled.pairs \subseteq spoiled'.pairs,
           UNCHANGED <<published, ld>>
    PROVE  LoadsSound' /\ PublishedSound'
  <1>1. LoadsSound'
    BY LoadAnyway DEF Inv, LoadsSound, published
  <1>2. PublishedSound'
    BY CoversAnyway DEF Inv, PublishedSound, published
  <1> QED BY <1>1, <1>2

LEMMA EditSound ==
    ASSUME Inv, NEW d \in {"config", "lists"}, Edit(d)
    PROVE  FilesSound' /\ event' \in [Directories -> BOOLEAN]
  <1>1. edits + 1 \in Version /\ edits \in Version /\ Version = 0..MaxEdits
    BY Bounds DEF Inv, FilesSound, Edit, Changed, Version
  <1>2. event' \in [Directories -> BOOLEAN]
    BY DEF Inv, EventsSound, Edit, Changed
  <1>3. disk' \in [{"config", "lists"} -> Version \cup {Broken}] /\ disk'["lists"] # Broken
    BY <1>1, Bounds DEF Inv, FilesSound, Edit, Broken
  <1>4. edits' \in Version /\ pem' \in [PemFiles -> 0..edits']
    BY <1>1, Bounds DEF Inv, FilesSound, Edit, Changed
  <1> QED BY <1>2, <1>3, <1>4 DEF Inv, FilesSound, Edit

LEMMA EditRuleSound ==
    ASSUME Inv, NEW i \in Rules, EditRule(i)
    PROVE  /\ FilesSound' /\ event' \in [Directories -> BOOLEAN]
           /\ spoiled.rules \subseteq spoiled'.rules /\ spoiled.pairs \subseteq spoiled'.pairs
  <1>1. edits + 1 \in Version /\ edits \in Version /\ Version = 0..MaxEdits
    BY Bounds DEF Inv, FilesSound, EditRule, Changed, Version
  <1>2. event' \in [Directories -> BOOLEAN]
    BY DEF Inv, EventsSound, EditRule, Changed
  <1>3. edits' \in Version /\ pem' \in [PemFiles -> 0..edits']
    BY <1>1, Bounds DEF Inv, FilesSound, EditRule, Changed
  <1>4. PICK v \in {edits + 1, Broken, Absent} :
          /\ rules' = [rules EXCEPT ![i] = v]
          /\ spoiled' = [spoiled EXCEPT !.rules = @ \cup (IF v < 0 THEN {i} ELSE {})]
    BY DEF EditRule
  <1>5. spoiled' \in [rules : SUBSET Rules, pairs : SUBSET DOMAIN Pairs]
    BY <1>4 DEF Inv, FilesSound
  <1>6. /\ spoiled.rules \subseteq spoiled'.rules /\ spoiled.pairs = spoiled'.pairs
        /\ v < 0 => i \in spoiled'.rules
    BY <1>4 DEF Inv, FilesSound
  <1>7. rules' \in [Rules -> Version \cup {Broken, Absent}]
    BY <1>1, <1>4 DEF Inv, FilesSound
  <1>8. v \in {Broken, Absent} => v < 0
    BY DEF Broken, Absent
  <1>9. \A j \in Rules \ spoiled'.rules : rules'[j] \notin {Broken, Absent}
    BY <1>4, <1>6, <1>8 DEF Inv, FilesSound
  <1> QED BY <1>2, <1>3, <1>5, <1>6, <1>7, <1>9 DEF Inv, FilesSound, EditRule

LEMMA RemoveDirSound ==
    ASSUME Inv, RemoveDir
    PROVE  /\ FilesSound' /\ event' \in [Directories -> BOOLEAN]
           /\ spoiled.rules \subseteq spoiled'.rules /\ spoiled.pairs \subseteq spoiled'.pairs
  <1>1. edits + 1 \in Version /\ edits \in Version /\ Version = 0..MaxEdits
    BY Bounds DEF Inv, FilesSound, RemoveDir, Changed, Version
  <1>2. event' \in [Directories -> BOOLEAN]
    BY DEF Inv, EventsSound, RemoveDir, Changed
  <1>3. edits' \in Version /\ pem' \in [PemFiles -> 0..edits']
    BY <1>1, Bounds DEF Inv, FilesSound, RemoveDir, Changed
  <1> QED BY <1>2, <1>3 DEF Inv, FilesSound, RemoveDir

LEMMA RenewSound ==
    ASSUME Inv, NEW f \in PemFiles, Renew(f)
    PROVE  /\ FilesSound' /\ event' = event
           /\ spoiled.rules \subseteq spoiled'.rules /\ spoiled.pairs \subseteq spoiled'.pairs
  <1>1. edits + 1 \in Version /\ edits \in Version /\ Version = 0..MaxEdits
    BY Bounds DEF Inv, FilesSound, Renew, Version
  <1>2. edits' \in Version /\ pem' \in [PemFiles -> 0..edits']
    BY <1>1, Bounds DEF Inv, FilesSound, Renew
  <1> DEFINE misfits == {i \in DOMAIN Pairs : ~Fits(Pairs[i], pem')}
  <1>3. \A i \in DOMAIN Pairs \ misfits : Fits(Pairs[i], pem')
    OBVIOUS
  <1>4. misfits \subseteq DOMAIN Pairs /\ spoiled' = [spoiled EXCEPT !.pairs = @ \cup misfits]
    BY DEF Renew
  <1> HIDE DEF misfits
  <1>5. /\ spoiled' \in [rules : SUBSET Rules, pairs : SUBSET DOMAIN Pairs]
        /\ spoiled'.rules = spoiled.rules /\ spoiled'.pairs = spoiled.pairs \cup misfits
    BY <1>4 DEF Inv, FilesSound
  <1>6. \A i \in DOMAIN Pairs \ spoiled'.pairs : Fits(Pairs[i], pem')
    BY <1>3, <1>5
  <1> QED BY <1>2, <1>5, <1>6 DEF Inv, FilesSound, Renew

LEMMA FilesChangeSound == ASSUME Inv, FilesChange PROVE Inv'
  <1>1. timer' = timer /\ UNCHANGED <<published, ld>>
    BY DEF FilesChange
  <1>2. CASE (\E d \in {"config", "lists"} : Edit(d)) /\ UNCHANGED watched
    <2>1. spoiled' = spoiled
      BY <1>2 DEF Edit
    <2>2. FilesSound' /\ event' \in [Directories -> BOOLEAN]
      BY <1>2, EditSound
    <2>3. EventsSound'
      BY <1>1, <1>2, <2>2 DEF Inv, EventsSound
    <2> QED BY <1>1, <2>1, <2>2, <2>3, SpoiledMore DEF Inv
  <1>3. CASE (\E i \in Rules : EditRule(i)) /\ UNCHANGED watched
    <2>1. /\ FilesSound' /\ event' \in [Directories -> BOOLEAN]
          /\ spoiled.rules \subseteq spoiled'.rules /\ spoiled.pairs \subseteq spoiled'.pairs
      BY <1>3, EditRuleSound
    <2>2. EventsSound'
      BY <1>1, <1>3, <2>1 DEF Inv, EventsSound
    <2> QED BY <1>1, <2>1, <2>2, SpoiledMore DEF Inv
  <1>4. CASE RemoveDir /\ watched' = FALSE
    <2>1. /\ FilesSound' /\ event' \in [Directories -> BOOLEAN]
          /\ spoiled.rules \subseteq spoiled'.rules /\ spoiled.pairs \subseteq spoiled'.pairs
      BY <1>4, RemoveDirSound
    <2>2. EventsSound'
      BY <1>1, <1>4, <2>1 DEF Inv, EventsSound
    <2> QED BY <1>1, <2>1, <2>2, SpoiledMore DEF Inv
  <1>5. CASE Touch /\ UNCHANGED watched
    <2>1. FilesSound' /\ spoiled' = spoiled
      BY <1>5 DEF Inv, Touch, FilesSound, files
    <2>2. EventsSound'
      BY <1>1, <1>5 DEF Inv, EventsSound, Touch
    <2> QED BY <1>1, <2>1, <2>2, SpoiledMore DEF Inv
  <1>6. CASE (\E f \in PemFiles : Renew(f)) /\ UNCHANGED watched
    <2>1. /\ FilesSound' /\ event' = event
          /\ spoiled.rules \subseteq spoiled'.rules /\ spoiled.pairs \subseteq spoiled'.pairs
      BY <1>6, RenewSound
    <2>2. EventsSound'
      BY <1>1, <1>6, <2>1 DEF Inv, EventsSound
    <2> QED BY <1>1, <2>1, <2>2, SpoiledMore DEF Inv
  <1> QED BY <1>2, <1>3, <1>4, <1>5, <1>6 DEF FilesChange

LEMMA CheckoutSound == ASSUME Inv, NEW l \in Loops, Checkout(l) PROVE Inv'
  <1>1. UNCHANGED <<timer, watched, published, ld>>
    BY DEF Checkout
  <1>2. CASE Edit("lists")
    <2>1. spoiled' = spoiled
      BY <1>2 DEF Edit
    <2>2. FilesSound' /\ event' \in [Directories -> BOOLEAN]
      BY <1>2, EditSound
    <2>3. EventsSound'
      BY <1>1, <2>2 DEF Inv, EventsSound
    <2> QED BY <1>1, <2>1, <2>2, <2>3, SpoiledMore DEF Inv
  <1>3. CASE \E i \in Rules : EditRule(i)
    <2>1. /\ FilesSound' /\ event' \in [Directories -> BOOLEAN]
          /\ spoiled.rules \subseteq spoiled'.rules /\ spoiled.pairs \subseteq spoiled'.pairs
      BY <1>3, EditRuleSound
    <2>2. EventsSound'
      BY <1>1, <2>1 DEF Inv, EventsSound
    <2> QED BY <1>1, <2>1, <2>2, SpoiledMore DEF Inv
  <1> QED BY <1>2, <1>3 DEF Checkout

\* A goroutine goes on: only its own load changes.
LEMMA LoadsKept ==
    ASSUME Inv, NEW l \in Loaders, NEW s, LoadSound(s, spoiled),
           ld' = [ld EXCEPT ![l] = s], UNCHANGED files
    PROVE  FilesSound' /\ LoadsSound'
  <1>1. FilesSound'
    BY DEF Inv, FilesSound, files
  <1>2. spoiled' = spoiled
    BY DEF files
  <1>3. LoadsSound'
    BY <1>2 DEF Inv, LoadsSound
  <1> QED BY <1>1, <1>3

\* The loads that have read nothing yet.
LEMMA NothingRead ==
    /\ \A l : LoadSound(First(l), spoiled)
    /\ LoadSound(Idle, spoiled) /\ LoadSound([pc |-> "git"], spoiled)
    /\ LoadSound([pc |-> "loadDir"], spoiled)
  BY DEF LoadSound, First, Idle

LEMMA PublishedKept ==
    ASSUME Inv, UNCHANGED <<files, published>>
    PROVE  PublishedSound'
  BY DEF Inv, PublishedSound, files, published

LEMMA LoadStepSound == ASSUME Inv, NEW l \in Loaders, LoadStep(l) PROVE Inv'
  <1> DEFINE s == ld[l]
  <1>1. LoadSound(s, spoiled) /\ FilesSound
    BY DEF Inv, LoadsSound
  <1>2. UNCHANGED <<files, event, timer, watched>>
    BY DEF LoadStep, LoadConfig, LoadAccessListFiles, Store, LoadDir, LoadRule, Swap,
           ReloadPair, ReloadSwap
  <1>3. EventsSound'
    BY <1>2 DEF Inv, EventsSound
  <1>4. spoiled' = spoiled
    BY <1>2 DEF files
  <1>5. CASE LoadConfig(l)
    <2> DEFINE t == IF disk["config"] = Broken THEN Idle
                    ELSE [pc |-> "lists", config |-> disk["config"]]
    <2>1. LoadSound(t, spoiled)
      BY <1>1, NothingRead DEF LoadSound, FilesSound
    <2>2. ld' = [ld EXCEPT ![l] = t] /\ UNCHANGED published
      BY <1>5 DEF LoadConfig
    <2> HIDE DEF t
    <2> QED BY <1>2, <1>3, <2>1, <2>2, LoadsKept, PublishedKept DEF Inv
  <1>6. CASE LoadAccessListFiles(l)
    <2> DEFINE t == [pc |-> "store", config |-> ld[l].config, lists |-> disk["lists"]]
    <2>1. LoadSound(t, spoiled)
      BY <1>1, <1>6 DEF LoadSound, FilesSound, LoadAccessListFiles
    <2>2. ld' = [ld EXCEPT ![l] = t] /\ UNCHANGED published
      BY <1>6 DEF LoadAccessListFiles
    <2> HIDE DEF t
    <2> QED BY <1>2, <1>3, <2>1, <2>2, LoadsKept, PublishedKept DEF Inv
  <1>7. CASE Store(l)
    <2> DEFINE t == IF l = "config" THEN [pc |-> "loadDir"] ELSE Idle
    <2>1. LoadSound(t, spoiled)
      BY NothingRead
    <2>2. ld' = [ld EXCEPT ![l] = t] /\ UNCHANGED <<engine, byName>>
      BY <1>7 DEF Store
    <2>3. current' \in [config : Version, lists : Version]
      BY <1>1, <1>7 DEF LoadSound, Store
    <2>4. PublishedSound'
      BY <1>4, <2>2, <2>3 DEF Inv, PublishedSound
    <2> HIDE DEF t
    <2> QED BY <1>2, <1>3, <2>1, <2>2, <2>4, LoadsKept DEF Inv
  <1>8. CASE LoadDir(l)
    <2> DEFINE t == [pc |-> "walk", got |-> <<>>, listed |-> {i \in Rules : rules[i] # Absent}]
    <2>1. Read(<<>>, spoiled.rules)
      BY DEF Read
    <2>2. LoadSound(t, spoiled)
      BY <1>1, <2>1 DEF LoadSound, FilesSound
    <2>3. ld' = [ld EXCEPT ![l] = t] /\ UNCHANGED published
      BY <1>8 DEF LoadDir
    <2> HIDE DEF t
    <2> QED BY <1>2, <1>3, <2>2, <2>3, LoadsKept, PublishedKept DEF Inv
  <1>9. CASE LoadRule(l)
    <2> DEFINE i == Len(s.got) + 1
               v == IF i \in s.listed THEN Loaded(rules[i]) ELSE Broken
               t == [pc |-> "walk", got |-> Append(s.got, v), listed |-> s.listed]
    <2>1. Read(s.got, spoiled.rules) /\ Rules \ spoiled.rules \subseteq s.listed /\ i \in Rules
      BY <1>1, <1>9 DEF LoadSound, LoadRule
    <2>2. v \in Version \cup {Broken} /\ (i \notin spoiled.rules => v # Broken)
      BY <1>1, <2>1 DEF FilesSound, Loaded
    <2> HIDE DEF v
    <2>3. Read(Append(s.got, v), spoiled.rules)
      BY <2>1, <2>2 DEF Read
    <2>4. LoadSound(t, spoiled)
      BY <2>1, <2>3 DEF LoadSound
    <2>5. ld' = [ld EXCEPT ![l] = t] /\ UNCHANGED published
      BY <1>9 DEF LoadRule, Walking, v
    <2> HIDE DEF t
    <2> QED BY <1>2, <1>3, <2>4, <2>5, LoadsKept, PublishedKept DEF Inv
  <1>10. CASE Swap(l)
    <2> DEFINE t == IF l = "config" THEN [pc |-> "certs", tried |-> 0, next |-> <<>>] ELSE Idle
    <2>1. Read(s.got, spoiled.rules) /\ Len(s.got) = NumRules
      BY <1>1, <1>10 DEF LoadSound, Swap
    <2>2. ld' = [ld EXCEPT ![l] = t] /\ engine' = s.got /\ UNCHANGED <<current, byName>>
      BY <1>10 DEF Swap
    <2>3. PublishedSound'
      BY <1>4, <2>1, <2>2, SeqFacts DEF Inv, PublishedSound, Read, Rules
    <2>4. Covers(<<>>, 0, spoiled.pairs)
      BY DEF Covers
    <2>5. LoadSound(t, spoiled)
      BY <2>4, NothingRead, PairFacts DEF LoadSound
    <2> HIDE DEF t
    <2> QED BY <1>2, <1>3, <2>2, <2>3, <2>5, LoadsKept DEF Inv
  <1>11. CASE ReloadPair(l)
    <2> DEFINE i == s.tried + 1
               next == LoadPair(s.next, Pairs[i], pem)
               t == [pc |-> "certs", tried |-> i, next |-> next]
    <2>1. s.tried \in 0..Len(Pairs) /\ Covers(s.next, s.tried, spoiled.pairs) /\ i \in DOMAIN Pairs
      BY <1>1, <1>11 DEF LoadSound, ReloadPair
    <2>2. i \notin spoiled.pairs => Fits(Pairs[i], pem)
      BY <1>1, <2>1 DEF FilesSound
    <2>3. Covers(next, i, spoiled.pairs)
      BY <2>1, <2>2, LoadPairCovers, PairFacts
    <2>4. ld' = [ld EXCEPT ![l] = t] /\ UNCHANGED published
      BY <1>11 DEF ReloadPair
    <2> HIDE DEF next
    <2>5. LoadSound(t, spoiled)
      BY <2>1, <2>3, PairFacts DEF LoadSound
    <2> HIDE DEF t
    <2> QED BY <1>2, <1>3, <2>4, <2>5, LoadsKept, PublishedKept DEF Inv
  <1>12. CASE ReloadSwap(l)
    <2>1. Covers(s.next, Len(Pairs), spoiled.pairs)
      BY <1>1, <1>12 DEF LoadSound, ReloadSwap
    <2>2. ld' = [ld EXCEPT ![l] = Idle] /\ byName' = s.next /\ UNCHANGED <<current, engine>>
      BY <1>12 DEF ReloadSwap
    <2>3. PublishedSound'
      BY <1>4, <2>1, <2>2 DEF Inv, PublishedSound
    <2> QED BY <1>2, <1>3, <2>2, <2>3, LoadsKept, NothingRead DEF Inv
  <1> QED BY <1>5, <1>6, <1>7, <1>8, <1>9, <1>10, <1>11, <1>12 DEF LoadStep

LEMMA NextSound == ASSUME Inv, [Next]_vars PROVE Inv'
  <1>1. CASE FilesChange
    BY <1>1, FilesChangeSound
  <1>2. ASSUME NEW l \in Loops, Sync(l) PROVE Inv'
    <2>1. UNCHANGED <<files, event, timer, watched, published>> /\ ld' = [ld EXCEPT ![l] = [pc |-> "git"]]
      BY <1>2 DEF Sync
    <2>2. EventsSound'
      BY <2>1 DEF Inv, EventsSound
    <2> QED BY <2>1, <2>2, LoadsKept, NothingRead, PublishedKept DEF Inv, Loaders
  <1>3. ASSUME NEW l \in Loops, Checkout(l) PROVE Inv'
    BY <1>3, CheckoutSound
  <1>4. ASSUME NEW l \in Loops, SyncDone(l) PROVE Inv'
    <2>1. UNCHANGED <<files, event, timer, watched, published>> /\ ld' = [ld EXCEPT ![l] = First(l)]
      BY <1>4 DEF SyncDone
    <2>2. EventsSound'
      BY <2>1 DEF Inv, EventsSound
    <2> QED BY <2>1, <2>2, LoadsKept, NothingRead, PublishedKept DEF Inv, Loaders
  <1>5. CASE ConfigEvent
    <2>1. /\ UNCHANGED <<files, timer, watched, published>> /\ ld' = [ld EXCEPT !["config"] = First("config")]
          /\ event' = [event EXCEPT !["config"] = FALSE]
      BY <1>5 DEF ConfigEvent
    <2>2. EventsSound'
      BY <2>1 DEF Inv, EventsSound
    <2>3. "config" \in Loaders
      BY DEF Loaders, Directories
    <2> QED BY <2>1, <2>2, <2>3, LoadsKept, NothingRead, PublishedKept DEF Inv
  <1>6. ASSUME NEW d \in Debounced, Arm(d) PROVE Inv'
    <2>1. /\ UNCHANGED <<files, watched, published, ld>>
          /\ event' = [event EXCEPT ![d] = FALSE] /\ timer' = [timer EXCEPT ![d] = TRUE]
      BY <1>6 DEF Arm
    <2>2. EventsSound'
      BY <2>1 DEF Inv, EventsSound
    <2>3. FilesSound' /\ spoiled' = spoiled
      BY <2>1 DEF Inv, FilesSound, files
    <2> QED BY <2>1, <2>2, <2>3, SpoiledMore DEF Inv
  <1>7. ASSUME NEW d \in Debounced, Fire(d) PROVE Inv'
    <2>1. /\ UNCHANGED <<files, event, watched, published>> /\ ld' = [ld EXCEPT ![d] = First(d)]
          /\ timer' = [timer EXCEPT ![d] = FALSE]
      BY <1>7 DEF Fire
    <2>2. EventsSound'
      BY <2>1 DEF Inv, EventsSound
    <2>3. d \in Loaders
      BY DEF Loaders, Directories, Debounced
    <2> QED BY <2>1, <2>2, <2>3, LoadsKept, NothingRead, PublishedKept DEF Inv
  <1>8. ASSUME NEW l \in Loaders, LoadStep(l) PROVE Inv'
    BY <1>8, LoadStepSound
  <1>9. CASE UNCHANGED vars
    <2>1. UNCHANGED <<files, event, timer, watched, published, ld>>
      BY <1>9 DEF vars
    <2>2. EventsSound'
      BY <2>1 DEF Inv, EventsSound
    <2>3. FilesSound' /\ spoiled' = spoiled
      BY <2>1 DEF Inv, FilesSound, files
    <2> QED BY <2>1, <2>2, <2>3, SpoiledMore DEF Inv
  <1> QED BY <1>1, <1>2, <1>3, <1>4, <1>5, <1>6, <1>7, <1>8, <1>9 DEF Next

-----------------------------------------------------------------------------
(* Theorems *)

\* Published and unpublished readings are sound as the history of the files
\* allows, whatever the loads of the five goroutines overlap with.
THEOREM Invariant == Spec => []Inv
  BY InitSound, NextSound, PTL DEF Spec

\* Types of the files, of fsnotify and of what is published; in particular the
\* configuration in force is one that validated (Manager.Reload keeps the old
\* one otherwise).
THEOREM ReloadTypes == Spec => []TypeOK
  <1>1. Inv => TypeOK
    <2> SUFFICES ASSUME Inv PROVE TypeOK
      OBVIOUS
    <2>1. 0..edits \subseteq Version
      BY Bounds DEF Inv, FilesSound, Version
    <2> QED BY <2>1 DEF Inv, FilesSound, EventsSound, PublishedSound, Covers, TypeOK
  <1> QED BY <1>1, Invariant, PTL

\* A template whose file was never bad is in force, and a name whose pair
\* always fitted is served a certificate, by name or by wildcard: LoadDir and
\* CertStore.Reload skip bad files and nothing else.
THEOREM BadFilesHarmNoOther == Spec => []BadFilesAlone
  <1>1. Inv => BadFilesAlone
    <2> SUFFICES ASSUME Inv PROVE BadFilesAlone
      OBVIOUS
    <2>1. \A i \in Rules \ spoiled.rules : engine[i] # Broken
      BY DEF Inv, PublishedSound
    <2>2. ASSUME NEW i \in DOMAIN Pairs, NEW n \in Names, i \notin spoiled.pairs,
                 n \in Pairs[i].names \/ Wildcard[n] \in Pairs[i].names
          PROVE  GetCertificate(byName, n) # NoCert
      <3>1. Pairs[i].names \subseteq DOMAIN byName /\ \A d \in DOMAIN byName : byName[d] # NoCert
        BY <2>2, PairFacts DEF Inv, PublishedSound, Covers
      <3>2. CASE n \in DOMAIN byName
        BY <3>1, <3>2 DEF GetCertificate
      <3>3. CASE n \notin DOMAIN byName
        <4>1. Wildcard[n] \in DOMAIN byName
          BY <2>2, <3>1, <3>3
        <4> QED BY <3>1, <3>3, <4>1 DEF GetCertificate
      <3> QED BY <3>2, <3>3
    <2> QED BY <2>1, <2>2 DEF BadFilesAlone
  <1> QED BY <1>1, Invariant, PTL
=============================================================================
