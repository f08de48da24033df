-------------------------- MODULE ReputationProofs --------------------------
(***************************************************************************)
(* Proofs about the reputation manager, for every set of IPs and           *)
(* goroutines and every configuration.  The types and the pointers kept by *)
(* Lookup form one inductive invariant (TypeInv); the provenance of every  *)
(* entry forms a second one on top of it (Provenance).                     *)
(***************************************************************************)
EXTENDS Reputation, FiniteSetTheorems, TLAPS

\* A pointer into the map is to an existing entry and is only held between
\* Lookup's read of the map and its last read of the entry, or until MarkClean
\* and Block have serialised it; an entry that is logged, persisted or judged
\* is never the absent one.
PointerOK ==
    \A t \in Threads :
        /\ th[t].live => /\ th[t].pc \in {"lkExpiry", "lkState", "lkDelete", "marshal"}
                         /\ entries[th[t].ip].state # "absent"
        /\ ~th[t].live /\ th[t].pc \notin {"idle", "rvLock", "rvHold", "emit"}
              => th[t].e.state # "absent"

\* Only finitely many violations are ever counted.
FiniteIncidents == \A ip \in IPs : IsFiniteSet(incidents[ip])

TypeInv == TypeOK /\ PointerOK /\ FiniteIncidents

-----------------------------------------------------------------------------
(* Facts about the operators. *)

\* The constants the arithmetic needs.
LEMMA Constants ==
    /\ BlockThreshold \in Nat /\ Window \in Nat /\ GreylistTTL \in Nat
    /\ BlockTTL \in Nat /\ CleanTTL \in Nat
  BY ConfigAssumption

\* The names used below are names.
LEMMA Names ==
    /\ "clean" \in State /\ "blocked" \in State
    /\ "none" \in Answer /\ "clean" \in Answer
    /\ "lkExpiry" \in PC /\ "lkDb" \in PC /\ "rvLock" \in PC
    /\ "marshal" \in PC /\ "persist" \in PC /\ "emit" \in PC
    /\ 0 \in Nat /\ TRUE \in BOOLEAN /\ FALSE \in BOOLEAN
  BY DEF State, Answer, PC

\* NoEntry and the entries MarkClean and Block make are entries.
LEMMA EntryTypes ==
    /\ NoEntry \in Entry
    /\ \A now, ttl \in Nat, s \in State : NewEntry(s, now, ttl) \in Entry
  BY DEF NoEntry, NewEntry, Entry, State

\* The record of an idle goroutine.
LEMMA ReturnType ==
    ASSUME NEW ip \in IPs, NEW a \in Answer
    PROVE  /\ Return(ip, a) \in Thread
           /\ Return(ip, a).pc = "idle"
           /\ Return(ip, a).ip = ip
           /\ Return(ip, a).live = FALSE
           /\ Return(ip, a).e = NoEntry
  BY EntryTypes DEF Return, Op, Thread, PC, State

\* Moving a goroutine's program counter changes nothing else.
LEMMA PcUpdate ==
    ASSUME NEW r \in Thread, NEW pc \in PC
    PROVE  LET n == [r EXCEPT !.pc = pc] IN
           /\ n \in Thread /\ n.pc = pc
           /\ n.ip = r.ip /\ n.live = r.live /\ n.e = r.e
  BY DEF Thread

\* Escalation turns an entry into a greylisted or blocked one.
LEMMA EscalatedType ==
    ASSUME NEW e \in Entry, NEW v \in Violation
    PROVE  /\ Escalated(e, v) \in Entry
           /\ Escalated(e, v).state # "absent"
  BY Constants DEF Escalated, Pruned, Entry, State, Violation

\* The current incident is a violation as soon as incidents are finite sets.
LEMMA IncidentType ==
    ASSUME TypeOK, NEW t \in Threads, IsFiniteSet(incidents[th[t].ip])
    PROVE  Incident(t) \in Violation
  <1>1. Cardinality(incidents[th[t].ip]) \in Nat
    BY FS_CardinalityType
  <1> QED BY <1>1 DEF Incident, Violation, TypeOK, Thread

\* Taking an object out of the map leaves every goroutine a well-formed
\* record that no longer points into that slot.
LEMMA DetachedType ==
    ASSUME TypeInv, NEW ip \in IPs
    PROVE  /\ Detached(ip) \in [Threads -> Thread]
           /\ \A u \in Threads :
                /\ Detached(ip)[u].pc = th[u].pc
                /\ Detached(ip)[u].ip = th[u].ip
                /\ Detached(ip)[u].live => th[u].live /\ th[u].ip # ip
                /\ Detached(ip)[u].e \in {th[u].e, entries[th[u].ip]}
                /\ ~Detached(ip)[u].live /\ th[u].pc \notin {"idle", "rvLock", "rvHold", "emit"}
                      => Detached(ip)[u].e.state # "absent"
  BY ZenonT(60) DEF Detached, TypeInv, TypeOK, PointerOK, Thread

-----------------------------------------------------------------------------
(* Types and pointers. *)

\* A fresh manager is well typed.
LEMMA InitTypeInv == Init => TypeInv
  <1> SUFFICES ASSUME Init PROVE TypeInv
    OBVIOUS
  <1>1. th \in [Threads -> Thread] /\ \A t \in Threads : th[t].pc = "idle" /\ ~th[t].live
    <2>1. \A ip \in IPs : LET r == Return(ip, "none")
                          IN  r \in Thread /\ r.pc = "idle" /\ ~r.live
      BY ReturnType DEF Answer
    <2> QED BY <2>1 DEF Init
  <1>2. IsFiniteSet({})
    BY FS_EmptySet
  <1> QED BY <1>1, <1>2, EntryTypes DEF Init, TypeInv, TypeOK, PointerOK, FiniteIncidents, State

\* Every step inside an operation keeps the types and the pointers sound.
LEMMA StepTypeInv ==
    ASSUME TypeInv, NEW t \in Threads, ThreadStep(t)
    PROVE  TypeInv'
  <1> USE DEF TypeInv
  <1> DEFINE ip == th[t].ip
  <1>0. /\ ip \in IPs /\ th[t] \in Thread /\ entries[ip] \in Entry /\ Pointee(t) \in Entry
    BY DEF TypeOK, Thread, Pointee
  <1>00. \A i \in IPs, a \in {"none", "clean"} :
            LET r == Return(i, a)
            IN  r \in Thread /\ r.pc = "idle" /\ r.ip = i /\ ~r.live /\ r.e = NoEntry
    BY ReturnType, ZenonT(60) DEF Answer, State
  <1>1. CASE LookupExpiry(t)
    BY <1>0, <1>1, ZenonT(60) DEF LookupExpiry, TypeOK, PointerOK, FiniteIncidents, Thread, PC, history
  <1>2. CASE LookupState(t)
    <2>1. PICK a \in {Pointee(t).state, "torn"} : th' = [th EXCEPT ![t] = Return(ip, a)]
      BY <1>2 DEF LookupState
    <2>2. a \in Answer
      BY <1>0, <1>2 DEF LookupState, Pointee, PointerOK, Entry, Answer, State
    <2> QED BY <1>0, <1>2, <2>1, <2>2, ReturnType, ZenonT(60)
            DEF LookupState, TypeOK, PointerOK, FiniteIncidents, history
  <1>3. CASE LookupDelete(t)
    <2> DEFINE D == Detached(ip)
               n == [D[t] EXCEPT !.pc = "lkDb"]
    <2>0. D \in [Threads -> Thread] /\ th' = [D EXCEPT ![t] = n]
      BY <1>0, <1>3, DetachedType DEF LookupDelete
    <2> HIDE DEF D
    <2>00. n \in Thread /\ n.pc = "lkDb" /\ n.ip = D[t].ip /\ n.live = D[t].live /\ n.e = D[t].e
      
      <3>1. D[t] \in Thread
        BY <2>0
      <3> QED BY <3>1, PcUpdate, Names
    <2> HIDE DEF n
    <2>1. th' \in [Threads -> Thread]
      BY <2>0, <2>00
    <2>2. entries' \in [IPs -> Entry] /\ forgiven' \in [IPs -> SUBSET Violation]
      BY <1>0, <1>3, EntryTypes DEF LookupDelete, TypeOK
    <2>3. \A u \in Threads : /\ th'[u].ip = th[u].ip
                             /\ th'[u].live => th[u].live /\ th[u].ip # ip
                             /\ ~th'[u].live /\ th[u].pc \notin {"idle", "rvLock", "rvHold", "emit"}
                                   => th'[u].e.state # "absent"
                             /\ u # t => th'[u].pc = th[u].pc
      BY <1>0, <2>0, <2>00, DetachedType DEF D
    <2>4. th[t].pc = "lkDelete" /\ th'[t].pc = "lkDb"
      BY <1>3, <2>0, <2>00 DEF LookupDelete
    <2>5. \A i \in IPs \ {ip} : entries'[i] = entries[i]
      BY <1>3 DEF LookupDelete, TypeOK
    <2>6. PointerOK'
      BY <1>0, <2>3, <2>4, <2>5 DEF PointerOK, TypeOK, Thread
    <2> QED BY <1>3, <2>1, <2>2, <2>6 DEF LookupDelete, TypeOK, FiniteIncidents
  <1>4. CASE LookupDbDelete(t)
    <2>1. db' \in [IPs -> Entry]
      BY <1>0, <1>4, EntryTypes DEF LookupDbDelete, Write, TypeOK
    <2> QED BY <1>0, <1>4, <2>1 DEF LookupDbDelete, TypeOK, PointerOK, FiniteIncidents, Thread, PC, history
  <1>5. CASE LookupEmit(t)
    <2>1. th[t].e.state \in State
      BY <1>0, <1>5 DEF LookupEmit, PointerOK, Thread, Entry
    <2> QED BY <1>0, <1>00, <1>5, <2>1
            DEF LookupEmit, TypeOK, PointerOK, FiniteIncidents, State, history
  <1>6. CASE ViolationLock(t)
    <2>1. CASE entries[ip].state = "blocked"
      <3> DEFINE n == Return(ip, "none")
      <3>1. th' = [th EXCEPT ![t] = n] /\ n \in Thread /\ n.pc = "idle" /\ ~n.live
        BY <1>0, <1>00, <1>6, <2>1 DEF ViolationLock
      <3> HIDE DEF n
      <3> QED BY <1>6, <2>1, <3>1
              DEF ViolationLock, TypeOK, PointerOK, FiniteIncidents, history
    <2>2. CASE entries[ip].state # "blocked"
      <3>1. StateOf(entries[ip]) \in State
        BY <1>0 DEF StateOf, Entry, State
      <3> DEFINE n == [th[t] EXCEPT !.pc = "rvHold", !.from = StateOf(entries[ip])]
                 e == IF entries[ip].state = "absent"
                      THEN [NoEntry EXCEPT !.state = "clean", !.since = th[t].now]
                      ELSE entries[ip]
      <3>2. n \in Thread /\ n.pc = "rvHold" /\ n.live = th[t].live /\ n.ip = ip
        BY <1>0, <3>1 DEF Thread, PC
      <3>3. e \in Entry /\ e.state # "absent"
        BY <1>0 DEF Thread, Entry, State, NoEntry
      <3>4. th' = [th EXCEPT ![t] = n] /\ entries' = [entries EXCEPT ![ip] = e]
        BY <1>6, <2>2 DEF ViolationLock, TypeOK
      <3> HIDE DEF n, e
      <3>5. th' \in [Threads -> Thread] /\ entries' \in [IPs -> Entry]
        BY <1>0, <3>2, <3>3, <3>4 DEF TypeOK
      <3>6. ~th[t].live
        BY <1>6 DEF ViolationLock, PointerOK
      <3>7. PointerOK'
        BY <1>0, <3>2, <3>3, <3>4, <3>6 DEF PointerOK, TypeOK, Thread
      <3> QED BY <1>6, <2>2, <3>5, <3>7 DEF ViolationLock, TypeOK, FiniteIncidents, history
    <2> QED BY <2>1, <2>2
  <1>7. CASE ViolationCommit(t)
    <2>1. Incident(t) \in Violation
      BY <1>0, IncidentType DEF FiniteIncidents
    <2>2. Updated(t) \in Entry /\ Updated(t).state # "absent" /\ Updated(t).state \in State
      BY <1>0, <2>1, EscalatedType DEF Updated, Entry
    <2>3. IsFiniteSet(incidents[ip] \cup {Incident(t)})
      BY <1>0, FS_AddElement DEF FiniteIncidents
    <2>4. th' \in [Threads -> Thread] /\ entries' \in [IPs -> Entry]
      BY <1>0, <1>7, <2>2 DEF ViolationCommit, TypeOK, Thread, PC
    <2>5. incidents' \in [IPs -> SUBSET Violation] /\ FiniteIncidents'
      BY <1>0, <1>7, <2>1, <2>3 DEF ViolationCommit, TypeOK, FiniteIncidents
    <2>6. PointerOK'
      BY <1>0, <1>7, <2>2 DEF ViolationCommit, PointerOK, TypeOK, Thread
    <2> QED BY <1>7, <2>4, <2>5, <2>6 DEF ViolationCommit, TypeOK
  <1>8. CASE Persist(t)
    <2>1. db' \in [IPs -> Entry]
      BY <1>0, <1>8 DEF Persist, Write, TypeOK, Thread
    <2> DEFINE m == Op("emit", ip, 0, FALSE, th[t].from, th[t].to)
               n == IF th[t].from # th[t].to THEN m ELSE Return(ip, "none")
    <2>0. m \in Thread /\ m.pc = "emit" /\ ~m.live
      BY <1>0, EntryTypes, Names DEF Op, Thread
    <2>2. n \in Thread /\ n.pc \in {"emit", "idle"} /\ ~n.live
      BY <1>0, <1>00, <2>0
    <2>3. th' = [th EXCEPT ![t] = n]
      BY <1>8 DEF Persist
    <2> HIDE DEF m, n
    <2>5. th' \in [Threads -> Thread]
      BY <2>2, <2>3 DEF TypeOK
    <2>6. PointerOK'
      BY <1>8, <2>2, <2>3 DEF Persist, PointerOK, TypeOK
    <2> QED BY <1>8, <2>1, <2>5, <2>6 DEF Persist, TypeOK, FiniteIncidents, history
  <1>9. CASE Emit(t)
    <2>1. th[t].to \in State /\ th[t].from \in State
      BY <1>0 DEF Thread
    <2> DEFINE n == Return(ip, "none")
    <2>2. th' = [th EXCEPT ![t] = n] /\ n \in Thread /\ n.pc = "idle" /\ ~n.live
      BY <1>0, <1>00, <1>9 DEF Emit
    <2>3. logged' \in [IPs -> [from : State, to : State]]
      BY <1>0, <1>9, <2>1 DEF Emit, TypeOK
    <2> HIDE DEF n
    <2> QED BY <1>9, <2>2, <2>3 DEF Emit, TypeOK, PointerOK, FiniteIncidents, history
  <1>10. CASE Marshal(t)
    <2> DEFINE n == [th[t] EXCEPT !.pc = "persist", !.e = Pointee(t), !.live = FALSE]
    <2>1. Pointee(t).state # "absent"
      BY <1>0, <1>10 DEF Marshal, Pointee, PointerOK
    <2>2. n \in Thread /\ n.pc = "persist" /\ ~n.live /\ n.e.state # "absent"
      BY <1>0, <2>1, Names DEF Thread
    <2>3. th' = [th EXCEPT ![t] = n]
      BY <1>10 DEF Marshal, TypeOK
    <2> HIDE DEF n
    <2>4. th' \in [Threads -> Thread]
      BY <2>2, <2>3 DEF TypeOK
    <2>5. PointerOK'
      BY <1>10, <2>2, <2>3 DEF Marshal, PointerOK, TypeOK
    <2> QED BY <1>10, <2>4, <2>5 DEF Marshal, TypeOK, FiniteIncidents, history
  <1> QED BY <1>1, <1>2, <1>3, <1>4, <1>5, <1>6, <1>7, <1>8, <1>9, <1>10 DEF ThreadStep

\* So does the beginning of every operation.
LEMMA CallTypeInv ==
    ASSUME TypeInv, NEW t \in Threads, NEW ip \in IPs, Call(t, ip)
    PROVE  TypeInv'
  <1> USE DEF TypeInv
  <1>0. clock \in Nat /\ entries[ip] \in Entry /\ StateOf(entries[ip]) \in State
    BY DEF TypeOK, Entry, StateOf, State
  <1>1. CASE LookupGet(t, ip)
    <2> DEFINE n == IF entries[ip].state = "absent" THEN Return(ip, "clean")
                    ELSE Op("lkExpiry", ip, 0, TRUE, "clean", "clean")
    <2>1. /\ n \in Thread /\ n.pc \in {"idle", "lkExpiry"} /\ n.ip = ip
          /\ n.live => n.pc = "lkExpiry" /\ entries[ip].state # "absent"
          /\ ~n.live => n.pc = "idle"
      <3>1. CASE entries[ip].state = "absent"
        BY <3>1, ReturnType, Names
      <3>2. CASE entries[ip].state # "absent"
        BY <3>2, EntryTypes, Names DEF Op, Thread
      <3> QED BY <3>1, <3>2
    <2>2. th' = [th EXCEPT ![t] = n]
      BY <1>1 DEF LookupGet
    <2> HIDE DEF n
    <2> QED BY <1>1, <2>1, <2>2, ZenonT(60) DEF LookupGet, TypeOK, PointerOK, FiniteIncidents, history
  <1>2. CASE RegisterViolation(t, ip)
    <2> DEFINE n == Op("rvLock", ip, clock, FALSE, "clean", "clean")
    <2>1. n \in Thread /\ n.pc = "rvLock" /\ ~n.live
      BY <1>0, EntryTypes, Names DEF Op, Thread
    <2>2. th' = [th EXCEPT ![t] = n]
      BY <1>2 DEF RegisterViolation
    <2> HIDE DEF n
    <2> QED BY <1>2, <2>1, <2>2 DEF RegisterViolation, TypeOK, PointerOK, FiniteIncidents, history
  <1>3. ASSUME NEW e \in Entry, e.state # "absent", Replace(t, ip, e), banned' \subseteq IPs,
               UNCHANGED <<clock, db, logged, incidents, crashes>>
        PROVE  TypeInv'
    <2> DEFINE D == Detached(ip)
               n == Op("marshal", ip, 0, TRUE, StateOf(entries[ip]), e.state)
    <2>1. n \in Thread /\ n.pc = "marshal" /\ n.live /\ n.ip = ip
      BY <1>0, <1>3, EntryTypes, Names DEF Op, Thread, Entry
    <2>2. th' = [D EXCEPT ![t] = n]
      BY <1>3 DEF Replace
    <2>3. /\ D \in [Threads -> Thread]
          /\ \A u \in Threads :
                /\ D[u].pc = th[u].pc /\ D[u].ip = th[u].ip
                /\ D[u].live => th[u].live /\ th[u].ip # ip
                /\ ~D[u].live /\ th[u].pc \notin {"idle", "rvLock", "rvHold", "emit"}
                      => D[u].e.state # "absent"
      BY DetachedType
    <2> HIDE DEF D, n
    <2>0. entries' \in [IPs -> Entry]
      BY <1>3 DEF Replace, TypeOK
    <2>4. th' \in [Threads -> Thread]
      BY <2>1, <2>2, <2>3
    <2>5. entries'[ip] = e /\ \A i \in IPs \ {ip} : entries'[i] = entries[i]
      BY <1>3 DEF Replace, TypeOK
    <2>6. PointerOK'
      BY <1>3, <2>1, <2>2, <2>3, <2>5 DEF PointerOK, TypeOK, Thread
    <2>7. forgiven' \in [IPs -> SUBSET Violation]
      BY <1>3 DEF Replace, TypeOK
    <2> QED BY <1>3, <2>0, <2>4, <2>6, <2>7 DEF TypeOK, FiniteIncidents
  <1>4. CASE MarkClean(t, ip)
    <2> DEFINE e == NewEntry("clean", clock, CleanTTL)
    <2>1. e \in Entry /\ e.state # "absent"
      BY <1>0, EntryTypes, Constants DEF NewEntry, State
    <2>2. Replace(t, ip, e) /\ UNCHANGED <<clock, db, logged, incidents, banned, crashes>>
      BY <1>4 DEF MarkClean
    <2> HIDE DEF e
    <2> QED BY <1>3, <2>1, <2>2 DEF TypeOK
  <1>5. CASE Block(t, ip)
    <2> DEFINE e == NewEntry("blocked", clock, BlockTTL)
    <2>1. e \in Entry /\ e.state # "absent"
      BY <1>0, EntryTypes, Constants DEF NewEntry, State
    <2>2. /\ Replace(t, ip, e) /\ UNCHANGED <<clock, db, logged, incidents, crashes>>
          /\ banned' = banned \cup {ip}
      BY <1>5 DEF Block
    <2> HIDE DEF e
    <2> QED BY <1>3, <2>1, <2>2 DEF TypeOK
  <1> QED BY <1>1, <1>2, <1>4, <1>5 DEF Call

\* So do the passing of time and a crash with its reload from the database.
LEMMA EnvTypeInv == TypeInv /\ (Tick \/ Crash) => TypeInv'
  <1> SUFFICES ASSUME TypeInv, Tick \/ Crash PROVE TypeInv'
    OBVIOUS
  <1>1. CASE Tick
    BY <1>1 DEF Tick, TypeInv, TypeOK, PointerOK, FiniteIncidents, history
  <1>2. CASE Crash
    <2>1. \A t \in Threads : LET r == Return(th[t].ip, "none")
                             IN  r \in Thread /\ r.pc = "idle" /\ ~r.live
      <3>1. \A t \in Threads : th[t].ip \in IPs
        BY DEF TypeInv, TypeOK, Thread
      <3> QED BY <3>1, ReturnType, Names
    <2>2. th' \in [Threads -> Thread] /\ \A t \in Threads : th'[t].pc = "idle" /\ ~th'[t].live
      BY <1>2, <2>1 DEF Crash
    <2>3. entries' \in [IPs -> Entry]
      BY <1>2, EntryTypes DEF Crash, Loaded, TypeInv, TypeOK
    <2> QED BY <1>2, <2>2, <2>3 DEF Crash, TypeInv, TypeOK, PointerOK, FiniteIncidents, history
  <1> QED BY <1>1, <1>2

\* Types and pointers are inductive.
LEMMA NextTypeInv == TypeInv /\ [Next]_vars => TypeInv'
  <1> SUFFICES ASSUME TypeInv, [Next]_vars PROVE TypeInv'
    OBVIOUS
  <1>1. CASE UNCHANGED vars
    BY <1>1 DEF vars, TypeInv, TypeOK, PointerOK, FiniteIncidents
  <1> QED BY <1>1, StepTypeInv, CallTypeInv, EnvTypeInv DEF Next

\* The types hold in every reachable state of the concurrent manager, and no
\* goroutine judges, logs or persists an entry that does not exist.
THEOREM TypeCorrect == Spec => [](TypeOK /\ PointerOK)
  <1>2. TypeInv => TypeOK /\ PointerOK
    BY DEF TypeInv
  <1> QED BY InitTypeInv, NextTypeInv, <1>2, PTL DEF Spec
-----------------------------------------------------------------------------
(* Provenance: every entry, wherever it is, only counts violations that     *)
(* were reported, and is blocked only with a cause.  JustifiedBlocks alone  *)
(* is not inductive: nothing would tie the violations an entry carries to   *)
(* the ones that happened.                                                  *)

WellFounded(ip, e, reported, outright) ==
    /\ e.violations \subseteq reported
    /\ e.state = "absent" => e.violations = {}
    /\ e.state = "blocked" =>
          \/ ip \in outright
          \/ Cardinality({v \in reported : v.at > e.since - Window}) >= BlockThreshold

Provenance ==
    /\ \A ip \in IPs : /\ WellFounded(ip, entries[ip], incidents[ip], banned)
                       /\ WellFounded(ip, db[ip], incidents[ip], banned)
    /\ \A t \in Threads : WellFounded(th[t].ip, th[t].e, incidents[th[t].ip], banned)

\* A cause is never taken away: more reports and more bans keep it.
LEMMA CausesStay ==
    ASSUME NEW ip, NEW e \in Entry, NEW r1, NEW r2, NEW o1, NEW o2,
           IsFiniteSet(r2), r2 \subseteq Violation, r1 \subseteq r2, o1 \subseteq o2,
           WellFounded(ip, e, r1, o1)
    PROVE  WellFounded(ip, e, r2, o2)
  <1> DEFINE C(r) == {v \in r : v.at > e.since - Window}
  <1>1. C(r1) \subseteq C(r2) /\ IsFiniteSet(C(r2))
    BY FS_Subset
  <1>2. /\ Cardinality(C(r1)) <= Cardinality(C(r2))
        /\ Cardinality(C(r1)) \in Nat /\ Cardinality(C(r2)) \in Nat
    BY <1>1, FS_Subset, FS_CardinalityType
  <1> HIDE DEF C
  <1>3. Cardinality(C(r1)) >= BlockThreshold => Cardinality(C(r2)) >= BlockThreshold
    BY <1>2, Constants
  <1> QED BY <1>3 DEF WellFounded, C

\* An absent or fresh clean entry needs no cause.
LEMMA CleanIsWellFounded ==
    ASSUME NEW ip, NEW r, NEW o
    PROVE  /\ WellFounded(ip, NoEntry, r, o)
           /\ \A now, ttl : WellFounded(ip, NewEntry("clean", now, ttl), r, o)
           /\ \A now : WellFounded(ip, [NoEntry EXCEPT !.state = "clean", !.since = now], r, o)
  BY DEF WellFounded, NoEntry, NewEntry

\* Escalation blocks only when the threshold is reached inside the window.
LEMMA EscalatedIsWellFounded ==
    ASSUME NEW ip, NEW e \in Entry, NEW v \in Violation, NEW r, NEW o,
           IsFiniteSet(r), r \subseteq Violation, e.violations \subseteq r, v \in r
    PROVE  WellFounded(ip, Escalated(e, v), r, o)
  <1> DEFINE vs == Pruned(e.violations \cup {v}, v.at)
             C  == {w \in r : w.at > v.at - Window}
  <1>1. vs \subseteq C /\ IsFiniteSet(C) /\ vs \subseteq r
    BY FS_Subset DEF Pruned
  <1>2. Cardinality(vs) <= Cardinality(C) /\ Cardinality(vs) \in Nat /\ Cardinality(C) \in Nat
    BY <1>1, FS_Subset, FS_CardinalityType
  <1>3. /\ Escalated(e, v).violations = vs
        /\ Escalated(e, v).since = v.at
        /\ Escalated(e, v).state = "blocked" => Cardinality(vs) >= BlockThreshold
    BY DEF Escalated
  <1>4. Escalated(e, v).state = "blocked" => Cardinality(C) >= BlockThreshold
    BY <1>2, <1>3, Constants
  <1>5. Escalated(e, v).state # "absent"
    BY EscalatedType
  <1> QED BY <1>1, <1>3, <1>4, <1>5 DEF WellFounded

\* No step forgets a report or a ban.
LEMMA HistoryGrows ==
    ASSUME TypeInv, [Next]_vars
    PROVE  banned \subseteq banned' /\ \A ip \in IPs : incidents[ip] \subseteq incidents'[ip]
  <1>1. CASE UNCHANGED vars
    BY <1>1 DEF vars
  <1>2. ASSUME NEW t \in Threads, ThreadStep(t)
        PROVE  banned \subseteq banned' /\ \A ip \in IPs : incidents[ip] \subseteq incidents'[ip]
    <2>1. CASE ViolationCommit(t)
      BY <2>1 DEF ViolationCommit, TypeInv, TypeOK
    <2>2. CASE ~ViolationCommit(t)
      <3>1. UNCHANGED <<incidents, banned>>
        BY <1>2, <2>2 DEF ThreadStep, LookupExpiry, LookupState, LookupDelete, LookupDbDelete,
                          LookupEmit, ViolationLock, Marshal, Persist, Emit, history
      <3> QED BY <3>1
    <2> QED BY <2>1, <2>2
  <1>3. ASSUME NEW t \in Threads, NEW i \in IPs, Call(t, i)
        PROVE  banned \subseteq banned' /\ \A ip \in IPs : incidents[ip] \subseteq incidents'[ip]
    BY <1>3 DEF Call, LookupGet, RegisterViolation, MarkClean, Block, history
  <1>4. CASE Tick \/ Crash
    BY <1>4 DEF Tick, Crash, history
  <1> QED BY <1>1, <1>2, <1>3, <1>4 DEF Next

\* Every blocked entry, wherever it is copied to, keeps its cause.
LEMMA NextProvenance == TypeInv /\ TypeInv' /\ Provenance /\ [Next]_vars => Provenance'
  <1> SUFFICES ASSUME TypeInv, TypeInv', Provenance, [Next]_vars PROVE Provenance'
    OBVIOUS
  <1> DEFINE Good(ip, e) == WellFounded(ip, e, incidents'[ip], banned')
  \* What was well founded before the step still is.
  <1>1. /\ \A ip \in IPs : Good(ip, entries[ip]) /\ Good(ip, db[ip])
        /\ \A t \in Threads : Good(th[t].ip, th[t].e)
    <2>1. \A ip \in IPs : IsFiniteSet(incidents'[ip]) /\ incidents'[ip] \subseteq Violation
      BY DEF TypeInv, TypeOK, FiniteIncidents
    <2>2. /\ \A ip \in IPs : entries[ip] \in Entry /\ db[ip] \in Entry
          /\ \A t \in Threads : th[t].ip \in IPs /\ th[t].e \in Entry
      BY DEF TypeInv, TypeOK, Thread
    <2> QED BY <2>1, <2>2, HistoryGrows, CausesStay DEF Provenance
  <1>2. \A ip \in IPs : /\ Good(ip, NoEntry)
                        /\ \A now, ttl : Good(ip, NewEntry("clean", now, ttl))
    BY CleanIsWellFounded
  <1>3. \A t \in Threads : th[t].ip \in IPs /\ th[t] \in Thread
    BY DEF TypeInv, TypeOK, Thread
  <1>4. \A ip \in IPs : \A a \in Answer : Return(ip, a).ip = ip /\ Return(ip, a).e = NoEntry
    BY ReturnType
  <1>5. SUFFICES /\ \A ip \in IPs : Good(ip, entries'[ip]) /\ Good(ip, db'[ip])
                 /\ \A t \in Threads : Good(th'[t].ip, th'[t].e)
    BY DEF Provenance
  <1>6. ASSUME NEW ip \in IPs, NEW u \in Threads
        PROVE  Good(Detached(ip)[u].ip, Detached(ip)[u].e)
    BY <1>1, <1>3, DetachedType DEF TypeInv
  <1> HIDE DEF Good
  <1>7. CASE UNCHANGED vars
    BY <1>1, <1>7 DEF vars
  <1>8. ASSUME NEW t \in Threads, ThreadStep(t)
        PROVE  /\ \A ip \in IPs : Good(ip, entries'[ip]) /\ Good(ip, db'[ip])
               /\ \A u \in Threads : Good(th'[u].ip, th'[u].e)
    <2>1. CASE LookupExpiry(t)
      BY <1>1, <1>3, <2>1 DEF LookupExpiry, TypeInv, TypeOK, Thread
    <2>2. CASE LookupState(t)
      <3>1. PICK a : th' = [th EXCEPT ![t] = Return(th[t].ip, a)]
        BY <2>2 DEF LookupState
      <3>2. Return(th[t].ip, a).ip = th[t].ip /\ Return(th[t].ip, a).e = NoEntry
        BY DEF Return, Op
      <3> QED BY <1>1, <1>2, <1>3, <2>2, <3>1, <3>2 DEF LookupState, TypeInv, TypeOK
    <2>3. CASE LookupDelete(t)
      <3>1. \A u \in Threads : th'[u].ip = Detached(th[t].ip)[u].ip /\ th'[u].e = Detached(th[t].ip)[u].e
        <4> DEFINE D == Detached(th[t].ip)
        <4>1. D \in [Threads -> Thread] /\ th' = [D EXCEPT ![t].pc = "lkDb"]
          BY <1>3, <2>3, DetachedType DEF LookupDelete
        <4> HIDE DEF D
        <4> QED BY <4>1 DEF D, Thread
      <3>2. \A u \in Threads : Good(th'[u].ip, th'[u].e)
        BY <1>3, <1>6, <3>1
      <3> QED BY <1>1, <1>2, <1>3, <2>3, <3>2 DEF LookupDelete, TypeInv, TypeOK
    <2>4. CASE LookupDbDelete(t)
      <3>1. \A ip \in IPs : Good(ip, db'[ip])
        BY <1>1, <1>2, <1>3, <2>4 DEF LookupDbDelete, Write, TypeInv, TypeOK
      <3>2. \A u \in Threads : th'[u].ip = th[u].ip /\ th'[u].e = th[u].e
        BY <1>3, <2>4 DEF LookupDbDelete, TypeInv, TypeOK, Thread
      <3> QED BY <1>1, <2>4, <3>1, <3>2 DEF LookupDbDelete
    <2>5. CASE LookupEmit(t)
      BY <1>1, <1>2, <1>3, <1>4, Names, <2>5 DEF LookupEmit, TypeInv, TypeOK
    <2>6. CASE ViolationLock(t)
      <3>1. Good(th[t].ip, [NoEntry EXCEPT !.state = "clean", !.since = th[t].now])
        BY CleanIsWellFounded DEF Good
      <3>2. \A ip \in IPs : Good(ip, entries'[ip])
        BY <1>1, <1>3, <2>6, <3>1 DEF ViolationLock, TypeInv, TypeOK
      <3>3. \A u \in Threads : Good(th'[u].ip, th'[u].e)
        <4>1. CASE entries[th[t].ip].state = "blocked"
          BY <1>1, <1>2, <1>3, <1>4, Names, <2>6, <4>1 DEF ViolationLock, TypeInv, TypeOK
        <4>2. CASE entries[th[t].ip].state # "blocked"
          <5> DEFINE n == [th[t] EXCEPT !.pc = "rvHold", !.from = StateOf(entries[th[t].ip])]
          <5>1. n.ip = th[t].ip /\ n.e = th[t].e
            BY <1>3 DEF Thread
          <5>2. th' = [th EXCEPT ![t] = n]
            BY <2>6, <4>2 DEF ViolationLock, TypeInv, TypeOK
          <5> HIDE DEF n
          <5> QED BY <1>1, <5>1, <5>2 DEF TypeInv, TypeOK
        <4> QED BY <4>1, <4>2
      <3> QED BY <1>1, <2>6, <3>2, <3>3 DEF ViolationLock
    <2>7. CASE ViolationCommit(t)
      <3> DEFINE ip == th[t].ip
      <3>1. Incident(t) \in Violation /\ Incident(t) \in incidents'[ip]
        BY <1>3, <2>7, IncidentType DEF TypeInv, TypeOK, FiniteIncidents, ViolationCommit
      <3>2. Good(ip, Updated(t))
        <4>1. entries[ip] \in Entry /\ entries[ip].violations \subseteq incidents'[ip]
          BY <1>1, <1>3 DEF TypeInv, TypeOK, Good, WellFounded
        <4>2. IsFiniteSet(incidents'[ip]) /\ incidents'[ip] \subseteq Violation
          BY <1>3 DEF TypeInv, TypeOK, FiniteIncidents
        <4> QED BY <3>1, <4>1, <4>2, EscalatedIsWellFounded DEF Updated, Good
      <3>3. \A u \in Threads : Good(th'[u].ip, th'[u].e)
        <4> DEFINE n == [th[t] EXCEPT !.pc = "persist", !.e = Updated(t), !.to = Updated(t).state]
        <4>1. th' = [th EXCEPT ![t] = n] /\ n.ip = ip /\ n.e = Updated(t)
          BY <1>3, <2>7 DEF ViolationCommit, TypeInv, TypeOK, Thread
        <4> HIDE DEF n
        <4> QED BY <1>1, <3>2, <4>1 DEF TypeInv, TypeOK
      <3> QED BY <1>1, <1>3, <2>7, <3>2, <3>3 DEF ViolationCommit, TypeInv, TypeOK
    <2>8. CASE Persist(t)
      <3>1. \A ip \in IPs : Good(ip, db'[ip])
        BY <1>1, <1>3, <2>8 DEF Persist, Write, TypeInv, TypeOK
      <3>2. \A u \in Threads : Good(th'[u].ip, th'[u].e)
        <4> DEFINE n == IF th[t].from # th[t].to
                        THEN Op("emit", th[t].ip, 0, FALSE, th[t].from, th[t].to)
                        ELSE Return(th[t].ip, "none")
        <4>1. n.ip = th[t].ip /\ n.e = NoEntry
          BY <1>3, <1>4, Names DEF Op
        <4>2. th' = [th EXCEPT ![t] = n]
          BY <2>8 DEF Persist
        <4> HIDE DEF n
        <4> QED BY <1>1, <1>2, <1>3, <4>1, <4>2 DEF TypeInv, TypeOK
      <3> QED BY <1>1, <2>8, <3>1, <3>2 DEF Persist
    <2>9. CASE Emit(t)
      BY <1>1, <1>2, <1>3, <1>4, Names, <2>9 DEF Emit, TypeInv, TypeOK
    <2>10. CASE Marshal(t)
      <3> DEFINE n == [th[t] EXCEPT !.pc = "persist", !.e = Pointee(t), !.live = FALSE]
      <3>1. th' = [th EXCEPT ![t] = n] /\ n.ip = th[t].ip /\ n.e = Pointee(t)
        BY <1>3, <2>10 DEF Marshal, TypeInv, TypeOK, Thread
      <3>2. Good(th[t].ip, Pointee(t))
        BY <1>1, <1>3 DEF Pointee
      <3> HIDE DEF n
      <3> QED BY <1>1, <2>10, <3>1, <3>2 DEF Marshal, TypeInv, TypeOK
    <2> QED BY <1>8, <2>1, <2>2, <2>3, <2>4, <2>5, <2>6, <2>7, <2>8, <2>9, <2>10 DEF ThreadStep
  <1>9. ASSUME NEW t \in Threads, NEW ip \in IPs, Call(t, ip)
        PROVE  /\ \A i \in IPs : Good(i, entries'[i]) /\ Good(i, db'[i])
               /\ \A u \in Threads : Good(th'[u].ip, th'[u].e)
    <2>1. CASE LookupGet(t, ip)
      <3> DEFINE n == IF entries[ip].state = "absent" THEN Return(ip, "clean")
                      ELSE Op("lkExpiry", ip, 0, TRUE, "clean", "clean")
      <3>1. n.ip = ip /\ n.e = NoEntry
        BY <1>4, Names DEF Op
      <3>2. th' = [th EXCEPT ![t] = n]
        BY <2>1 DEF LookupGet
      <3> HIDE DEF n
      <3> QED BY <1>1, <1>2, <2>1, <3>1, <3>2 DEF LookupGet, TypeInv, TypeOK
    <2>2. CASE RegisterViolation(t, ip)
      BY <1>1, <1>2, <2>2 DEF RegisterViolation, Op, TypeInv, TypeOK
    <2>3. ASSUME NEW e, Good(ip, e), Replace(t, ip, e), UNCHANGED db
          PROVE  /\ \A i \in IPs : Good(i, entries'[i]) /\ Good(i, db'[i])
                 /\ \A u \in Threads : Good(th'[u].ip, th'[u].e)
      <3> DEFINE n == Op("marshal", ip, 0, TRUE, StateOf(entries[ip]), e.state)
                 D == Detached(ip)
      <3>1. n.ip = ip /\ n.e = NoEntry
        BY DEF Op
      <3>2. th' = [D EXCEPT ![t] = n] /\ D \in [Threads -> Thread]
        BY <2>3, DetachedType DEF Replace
      <3>3. \A u \in Threads : Good(D[u].ip, D[u].e)
        BY <1>6
      <3> HIDE DEF n, D
      <3>4. \A u \in Threads : Good(th'[u].ip, th'[u].e)
        BY <1>2, <3>1, <3>2, <3>3
      <3> QED BY <1>1, <2>3, <3>4 DEF Replace, TypeInv, TypeOK
    <2>4. CASE MarkClean(t, ip)
      <3>1. Good(ip, NewEntry("clean", clock, CleanTTL))
        BY <1>2
      <3> QED BY <2>3, <2>4, <3>1 DEF MarkClean
    <2>5. CASE Block(t, ip)
      <3>1. Good(ip, NewEntry("blocked", clock, BlockTTL))
        BY <2>5 DEF Block, Good, WellFounded, NewEntry
      <3> QED BY <2>3, <2>5, <3>1 DEF Block
    <2> QED BY <1>9, <2>1, <2>2, <2>4, <2>5 DEF Call
  <1>10. CASE Tick
    BY <1>1, <1>10 DEF Tick
  <1>11. CASE Crash
    BY <1>1, <1>2, <1>3, <1>4, Names, <1>11 DEF Crash, Loaded, TypeInv, TypeOK
  <1> QED BY <1>7, <1>8, <1>9, <1>10, <1>11 DEF Next

\* No IP is blocked without cause, in memory, on disk or in flight, for any
\* number of goroutines, crashes, failed and reordered database writes
\* (RegisterViolation's threshold, reputation.go:186-208, and Block).
THEOREM BlocksAreJustified == Spec => []JustifiedBlocks
  <1>1. Init => Provenance
    <2> SUFFICES ASSUME Init PROVE Provenance
      OBVIOUS
    <2>1. \A t \in Threads : th[t].e = NoEntry
      <3>1. \A ip \in IPs : Return(ip, "none").e = NoEntry
        BY ReturnType, Names
      <3> QED BY <3>1 DEF Init
    <2> QED BY <2>1, CleanIsWellFounded DEF Init, Provenance
  <1>3. TypeInv /\ Provenance => JustifiedBlocks
    BY DEF Provenance, WellFounded, JustifiedBlocks, Justified
  <1> QED BY InitTypeInv, NextTypeInv, <1>1, <1>3, NextProvenance, PTL DEF Spec
-----------------------------------------------------------------------------
(* The critical section. *)

\* RegisterViolation's critical section excludes every other writer, and the
\* entry it works on is not blocked.
LockInv ==
    /\ \A t, u \in Threads : th[t].pc = "rvHold" /\ th[u].pc = "rvHold" => t = u
    /\ \A t \in Threads : th[t].pc = "rvHold" => entries[th[t].ip].state # "blocked"

\* Who may be inside the critical section after a step, and that only the
\* holder of the lock changes the map.
LEMMA SectionStep ==
    ASSUME TypeInv, NEW t \in Threads,
           ThreadStep(t) \/ \E ip \in IPs : Call(t, ip)
    PROVE  /\ \A u \in Threads \ {t} : th'[u].pc = th[u].pc /\ th'[u].ip = th[u].ip
           /\ th'[t].pc = "rvHold" =>
                  /\ ~Locked /\ th'[t].ip = th[t].ip
                  /\ entries'[th[t].ip].state # "blocked"
           /\ entries' # entries => ~Locked \/ ViolationCommit(t)
  <1> DEFINE Goal ==
        /\ \A u \in Threads \ {t} : th'[u].pc = th[u].pc /\ th'[u].ip = th[u].ip
        /\ th'[t].pc = "rvHold" =>
               /\ ~Locked /\ th'[t].ip = th[t].ip
               /\ entries'[th[t].ip].state # "blocked"
        /\ entries' # entries => ~Locked \/ ViolationCommit(t)
  <1>0. th \in [Threads -> Thread] /\ th[t] \in Thread /\ th[t].ip \in IPs
    BY DEF TypeInv, TypeOK, Thread
  <1>1. \A ip, a : Return(ip, a).pc = "idle"
    BY DEF Return, Op
  <1>2. CASE LookupExpiry(t)
    BY <1>0, <1>2 DEF LookupExpiry, Thread
  <1>3. CASE LookupState(t)
    BY <1>0, <1>1, <1>3 DEF LookupState
  <1>4. CASE LookupDelete(t)
    <2> DEFINE D == Detached(th[t].ip)
    <2>1. /\ D \in [Threads -> Thread]
          /\ \A u \in Threads : D[u].pc = th[u].pc /\ D[u].ip = th[u].ip
      BY <1>0, DetachedType
    <2>2. th' = [D EXCEPT ![t].pc = "lkDb"]
      BY <1>4 DEF LookupDelete
    <2> HIDE DEF D
    <2>3. th'[t].pc = "lkDb" /\ \A u \in Threads \ {t} : th'[u] = D[u]
      BY <2>1, <2>2 DEF Thread
    <2> QED BY <1>4, <2>1, <2>3 DEF LookupDelete
  <1>5. CASE LookupDbDelete(t)
    BY <1>0, <1>5 DEF LookupDbDelete, Thread
  <1>6. CASE LookupEmit(t)
    BY <1>0, <1>1, <1>6 DEF LookupEmit
  <1>7. CASE ViolationLock(t)
    <2>1. CASE entries[th[t].ip].state = "blocked"
      BY <1>0, <1>1, <1>7, <2>1 DEF ViolationLock
    <2>2. CASE entries[th[t].ip].state # "blocked"
      <3>1. ~Locked /\ \A u \in Threads \ {t} : th'[u] = th[u]
        BY <1>0, <1>7, <2>2 DEF ViolationLock
      <3>2. th'[t].ip = th[t].ip
        BY <1>0, <1>7, <2>2 DEF ViolationLock, Thread
      <3>3. entries'[th[t].ip].state # "blocked"
        <4> DEFINE e == IF entries[th[t].ip].state = "absent"
                        THEN [NoEntry EXCEPT !.state = "clean", !.since = th[t].now]
                        ELSE entries[th[t].ip]
        <4>1. e.state # "blocked"
          BY <2>2 DEF NoEntry
        <4>2. entries' = [entries EXCEPT ![th[t].ip] = e]
          BY <1>7, <2>2 DEF ViolationLock, TypeInv, TypeOK
        <4> HIDE DEF e
        <4> QED BY <1>0, <4>1, <4>2 DEF TypeInv, TypeOK
      <3> QED BY <3>1, <3>2, <3>3
    <2> QED BY <2>1, <2>2
  <1>8. CASE ViolationCommit(t)
    BY <1>0, <1>8 DEF ViolationCommit, Thread
  <1>9. CASE Persist(t)
    <2> DEFINE n == IF th[t].from # th[t].to
                    THEN Op("emit", th[t].ip, 0, FALSE, th[t].from, th[t].to)
                    ELSE Return(th[t].ip, "none")
    <2>1. n.pc # "rvHold" /\ th' = [th EXCEPT ![t] = n] /\ entries' = entries
      BY <1>1, <1>9 DEF Persist, Op
    <2> HIDE DEF n
    <2> QED BY <1>0, <2>1
  <1>10. CASE Emit(t)
    BY <1>0, <1>1, <1>10 DEF Emit
  <1>11. ASSUME NEW ip \in IPs, Call(t, ip)
         PROVE  Goal
    <2>1. CASE LookupGet(t, ip)
      <3> DEFINE n == IF entries[ip].state = "absent" THEN Return(ip, "clean")
                      ELSE Op("lkExpiry", ip, 0, TRUE, "clean", "clean")
      <3>1. n.pc # "rvHold" /\ th' = [th EXCEPT ![t] = n] /\ entries' = entries
        BY <1>1, <2>1 DEF LookupGet, Op
      <3> HIDE DEF n
      <3> QED BY <1>0, <3>1
    <2>2. CASE RegisterViolation(t, ip)
      BY <1>0, <2>2 DEF RegisterViolation, Op
    <2>3. ASSUME NEW e, Replace(t, ip, e)
          PROVE  Goal
      <3> DEFINE D == Detached(ip)
                 n == Op("marshal", ip, 0, TRUE, StateOf(entries[ip]), e.state)
      <3>1. /\ D \in [Threads -> Thread]
            /\ \A u \in Threads : D[u].pc = th[u].pc /\ D[u].ip = th[u].ip
        BY DetachedType
      <3>2. n.pc # "rvHold" /\ th' = [D EXCEPT ![t] = n] /\ ~Locked
        BY <2>3 DEF Replace, Op
      <3> HIDE DEF D, n
      <3> QED BY <3>1, <3>2
    <2> QED BY <1>11, <2>1, <2>2, <2>3 DEF Call, MarkClean, Block
  <1>12. CASE Marshal(t)
    BY <1>0, <1>12 DEF Marshal, Thread
  <1> QED BY <1>2, <1>3, <1>4, <1>5, <1>6, <1>7, <1>8, <1>9, <1>10, <1>11, <1>12 DEF ThreadStep

\* At most one goroutine is in the critical section, on an entry that is not
\* blocked.
LEMMA NextLockInv == TypeInv /\ LockInv /\ [Next]_vars => LockInv'
  <1> SUFFICES ASSUME TypeInv, LockInv, [Next]_vars PROVE LockInv'
    OBVIOUS
  <1>1. CASE UNCHANGED vars
    BY <1>1 DEF vars, LockInv
  <1>2. ASSUME NEW t \in Threads, ThreadStep(t) \/ \E ip \in IPs : Call(t, ip)
        PROVE  LockInv'
    <2>1. /\ \A u \in Threads \ {t} : th'[u].pc = th[u].pc /\ th'[u].ip = th[u].ip
          /\ th'[t].pc = "rvHold" =>
                /\ ~Locked /\ th'[t].ip = th[t].ip
                /\ entries'[th[t].ip].state # "blocked"
          /\ entries' # entries => ~Locked \/ ViolationCommit(t)
      BY <1>2, SectionStep
    <2>2. ViolationCommit(t) => \A u \in Threads \ {t} : th[u].pc # "rvHold"
      BY DEF ViolationCommit, LockInv
    <2> QED BY <2>1, <2>2 DEF LockInv, Locked
  <1>3. CASE Tick
    BY <1>3 DEF Tick, LockInv
  <1>4. CASE Crash
    <2>1. \A t \in Threads : th'[t].pc = "idle"
      BY <1>4 DEF Crash, Return, Op
    <2> QED BY <2>1 DEF LockInv
  <1> QED BY <1>1, <1>2, <1>3, <1>4 DEF Next

\* An unexpired block ends only through MarkClean, a crash, or a Lookup that
\* had found an expired entry for the IP: no violation report downgrades it,
\* whatever the interleaving (reputation.go:180-184 under the lock).
THEOREM UnblockingIsLimited == Spec => UnblockedOnlyBy
  <1> DEFINE Limited ==
        \A ip \in IPs : BlockedNow(ip) /\ entries'[ip].state # "blocked"
          => \/ Crash
             \/ \E t \in Threads : MarkClean(t, ip)
             \/ \E t \in Threads : th[t].ip = ip /\ LookupDelete(t)
  <1>1. Init => LockInv
    <2> SUFFICES ASSUME Init PROVE LockInv
      OBVIOUS
    <2>1. \A ip \in IPs : Return(ip, "none").pc = "idle"
      BY ReturnType, Names
    <2>2. \A t \in Threads : th[t].pc = "idle"
      BY <2>1 DEF Init
    <2> QED BY <2>2 DEF LockInv
  <1>2. TypeInv /\ LockInv /\ [Next]_vars => [Limited]_vars
    <2> SUFFICES ASSUME TypeInv, LockInv, Next, NEW ip \in IPs,
                        BlockedNow(ip), entries'[ip].state # "blocked"
                 PROVE  \/ Crash
                        \/ \E t \in Threads : MarkClean(t, ip)
                        \/ \E t \in Threads : th[t].ip = ip /\ LookupDelete(t)
      OBVIOUS
    <2>1. ASSUME NEW t \in Threads, ThreadStep(t)
          PROVE  th[t].ip = ip /\ LookupDelete(t)
      <3>1. CASE LookupDelete(t)
        BY <3>1 DEF LookupDelete, BlockedNow, TypeInv, TypeOK
      <3>2. CASE ViolationLock(t)
        BY <3>2 DEF ViolationLock, BlockedNow, TypeInv, TypeOK
      <3>3. CASE ViolationCommit(t)
        BY <3>3 DEF ViolationCommit, LockInv, BlockedNow, TypeInv, TypeOK
      <3>4. CASE UNCHANGED entries
        BY <3>4 DEF BlockedNow
      <3> QED BY <2>1, <3>1, <3>2, <3>3, <3>4
              DEF ThreadStep, LookupExpiry, LookupState, LookupDbDelete, LookupEmit, Marshal, Persist, Emit
    <2>2. ASSUME NEW t \in Threads, NEW i \in IPs, Call(t, i)
          PROVE  MarkClean(t, ip)
      <3>1. CASE MarkClean(t, i)
        BY <3>1 DEF MarkClean, Replace, BlockedNow, TypeInv, TypeOK
      <3>2. CASE Block(t, i)
        BY <3>2 DEF Block, Replace, NewEntry, BlockedNow, TypeInv, TypeOK
      <3>3. CASE UNCHANGED entries
        BY <3>3 DEF BlockedNow
      <3> QED BY <2>2, <3>1, <3>2, <3>3 DEF Call, LookupGet, RegisterViolation
    <2>3. ~Tick
      BY DEF Tick, BlockedNow
    <2> QED BY <2>1, <2>2, <2>3 DEF Next
  <1> QED BY InitTypeInv, NextTypeInv, NextLockInv, <1>1, <1>2, PTL DEF Spec, UnblockedOnlyBy

-----------------------------------------------------------------------------
(* The manager implements the abstract store of the proxy.                  *)

\* Goroutine u has yet to write the value v of ip to disk.
Owes(u, ip, v) ==
    /\ th[u].ip = ip
    /\ \/ th[u].pc = "marshal" /\ v = ValueOf(Pointee(u))
       \/ th[u].pc = "persist" /\ v = ValueOf(th[u].e)
       \/ th[u].pc = "lkDb" /\ v = ValueOf(NoEntry)

\* What is pending is what some goroutine owes, before and after a step.
LEMMA PendingIs ==
    /\ \A ip \in IPs : \A v : v \in Pending[ip] <=> \E u \in Threads : Owes(u, ip, v)
    /\ \A ip \in IPs : \A v : v \in Pending'[ip] <=> \E u \in Threads : Owes(u, ip, v)'
  BY DEF Pending, Owes, Pointee

\* The mapping is a triple of functions on the addresses.
LEMMA MappingIs ==
    /\ InMemory = [ip \in IPs |-> InMemory[ip]]
    /\ InMemory' = [ip \in IPs |-> InMemory'[ip]]
    /\ OnDisk = [ip \in IPs |-> OnDisk[ip]]
    /\ OnDisk' = [ip \in IPs |-> OnDisk'[ip]]
    /\ Pending = [ip \in IPs |-> Pending[ip]]
    /\ Pending' = [ip \in IPs |-> Pending'[ip]]
    /\ \A ip \in IPs : /\ InMemory[ip] = ValueOf(entries[ip]) /\ InMemory'[ip] = ValueOf(entries'[ip])
                       /\ OnDisk[ip] = ValueOf(db[ip]) /\ OnDisk'[ip] = ValueOf(db'[ip])
  BY DEF InMemory, OnDisk, Pending

\* An entry stands for a value of the store, the absent one and a fresh clean
\* one for Clean, a fresh ban for Banned.
LEMMA ValueTypes ==
    /\ ValueOf(NoEntry) = Store!Clean
    /\ \A now, ttl : ValueOf(NewEntry("clean", now, ttl)) = Store!Clean
    /\ \A now, ttl : ValueOf(NewEntry("blocked", now, ttl)) = Store!Banned
    /\ \A e \in Entry : IsFiniteSet(e.violations) => ValueOf(e) \in Store!Value
    /\ Store!Clean \in Store!Value
  <1>1. Cardinality({}) = 0
    BY FS_EmptySet
  <1>2. ASSUME NEW e \in Entry, IsFiniteSet(e.violations)
        PROVE  ValueOf(e) \in Store!Value
    <2>1. Cardinality(e.violations) \in Nat
      BY <1>2, FS_CardinalityType
    <2>2. StateOf(e) \in Store!State
      BY DEF StateOf, Entry, State, Store!State
    <2> QED BY <2>1, <2>2 DEF ValueOf, Store!Value
  <1>3. ValueOf(NoEntry) = Store!Clean
    BY <1>1 DEF ValueOf, StateOf, NoEntry, Store!Clean
  <1>4. \A now, ttl : ValueOf(NewEntry("clean", now, ttl)) = Store!Clean
    BY <1>1 DEF ValueOf, StateOf, NewEntry, Store!Clean
  <1>5. \A now, ttl : ValueOf(NewEntry("blocked", now, ttl)) = Store!Banned
    BY <1>1 DEF ValueOf, StateOf, NewEntry, Store!Banned
  <1>6. Store!Clean \in Store!Value
    BY DEF Store!Clean, Store!Value, Store!State
  <1> QED BY <1>2, <1>3, <1>4, <1>5, <1>6

\* The violations of an entry are finitely many, and one that is absent from
\* the map has none.
LEMMA EntriesFinite ==
    ASSUME TypeInv, Provenance, NEW ip \in IPs
    PROVE  /\ entries[ip] \in Entry /\ IsFiniteSet(entries[ip].violations)
           /\ db[ip] \in Entry /\ IsFiniteSet(db[ip].violations)
           /\ entries[ip].state = "absent" => entries[ip].violations = {}
  <1>1. /\ entries[ip] \in Entry /\ db[ip] \in Entry /\ IsFiniteSet(incidents[ip])
        /\ entries[ip].violations \subseteq incidents[ip]
        /\ db[ip].violations \subseteq incidents[ip]
        /\ entries[ip].state = "absent" => entries[ip].violations = {}
    BY DEF TypeInv, TypeOK, FiniteIncidents, Provenance, WellFounded
  <1> QED BY <1>1, FS_Subset

\* A step that changes neither map nor bucket nor what anybody owes is
\* invisible to the users of the store.
LEMMA InvisibleStep ==
    ASSUME \A ip \in IPs : ValueOf(entries'[ip]) = ValueOf(entries[ip]),
           db' = db,
           \A u \in Threads, ip \in IPs : \A v : Owes(u, ip, v)' <=> Owes(u, ip, v)
    PROVE  UNCHANGED Store!vars
  <1>1. \A ip \in IPs : InMemory'[ip] = InMemory[ip] /\ OnDisk'[ip] = OnDisk[ip]
    BY MappingIs
  <1>2. \A ip \in IPs : Pending'[ip] = Pending[ip]
    BY PendingIs
  <1> QED BY <1>1, <1>2, MappingIs DEF Store!vars

\* A goroutine that moves without touching an entry, neither to nor from a
\* write, is invisible.
LEMMA InvisibleMove ==
    ASSUME TypeInv, NEW t \in Threads, NEW r, th' = [th EXCEPT ![t] = r],
           UNCHANGED <<entries, db>>,
           r.pc \notin {"marshal", "persist", "lkDb"},
           th[t].pc \notin {"marshal", "persist", "lkDb"}
    PROVE  UNCHANGED Store!vars
  <1>1. \A u \in Threads : th'[u] = IF u = t THEN r ELSE th[u]
    BY DEF TypeInv, TypeOK
  <1>2. \A u \in Threads, ip \in IPs : \A v : Owes(u, ip, v)' <=> Owes(u, ip, v)
    BY <1>1 DEF Owes, Pointee
  <1> QED BY <1>2, InvisibleStep

\* A replaced or deleted entry becomes v, and what others owe stays, also when
\* they hold a pointer to the old entry; t now owes v.
LEMMA ReplacedIsSet ==
    ASSUME TypeInv, NEW t \in Threads, NEW ip \in IPs, NEW e, NEW r,
           entries' = [entries EXCEPT ![ip] = e], db' = db,
           th' = [Detached(ip) EXCEPT ![t] = r],
           \A i \in IPs : \A v : Owes(t, i, v)' <=> i = ip /\ v = ValueOf(e),
           \A i \in IPs : \A v : ~Owes(t, i, v)
    PROVE  Store!Set(ip, ValueOf(e))
  <1> DEFINE D == Detached(ip)
  <1>1. \A i \in IPs : entries'[i] = IF i = ip THEN e ELSE entries[i]
    BY DEF TypeInv, TypeOK
  <1>2. D \in [Threads -> Thread]
    BY DetachedType
  <1>3. \A u \in Threads \ {t} : th'[u] = D[u]
    BY <1>2
  <1>4. \A u \in Threads : th[u] \in Thread /\ th[u].ip \in IPs
    BY DEF TypeInv, TypeOK, Thread
  <1>5. ASSUME NEW u \in Threads \ {t}, NEW i \in IPs, NEW v
        PROVE  Owes(u, i, v)' <=> Owes(u, i, v)
    <2>1. CASE th[u].live /\ th[u].ip = ip
      <3> DEFINE a == [th[u] EXCEPT !.live = FALSE]
      <3>0. a \in Thread /\ a.live = FALSE /\ a.pc = th[u].pc /\ a.ip = ip
        BY <1>4, <2>1 DEF Thread
      <3>1. th'[u] = [a EXCEPT !.e = entries[ip]]
        BY <1>3, <2>1 DEF Detached
      <3> HIDE DEF a
      <3>2. /\ th'[u].live = FALSE /\ th'[u].e = entries[ip]
            /\ th'[u].pc = th[u].pc /\ th'[u].ip = ip
        BY <3>0, <3>1 DEF Thread
      <3>3. th[u].pc # "persist"
        BY <2>1 DEF TypeInv, PointerOK
      <3> QED BY <2>1, <3>2, <3>3 DEF Owes, Pointee
    <2>2. CASE ~(th[u].live /\ th[u].ip = ip)
      <3>1. th'[u] = th[u]
        BY <1>3, <2>2 DEF Detached
      <3>2. Pointee(u)' = Pointee(u)
        BY <1>1, <1>4, <2>2, <3>1 DEF Pointee
      <3> QED BY <3>1, <3>2 DEF Owes
    <2> QED BY <2>1, <2>2
  <1>6. ASSUME NEW i \in IPs
        PROVE  Pending'[i] = IF i = ip THEN Pending[i] \cup {ValueOf(e)} ELSE Pending[i]
    <2>1. \A v : v \in Pending'[i] <=> v \in Pending[i] \/ (i = ip /\ v = ValueOf(e))
      BY <1>5, PendingIs
    <2> QED BY <2>1
  <1>7. Pending' = [Pending EXCEPT ![ip] = Pending[ip] \cup {ValueOf(e)}]
    BY <1>6, MappingIs
  <1>8. InMemory' = [InMemory EXCEPT ![ip] = ValueOf(e)]
    BY <1>1, MappingIs
  <1>9. OnDisk' = OnDisk
    BY MappingIs
  <1> QED BY <1>7, <1>8, <1>9 DEF Store!Set

\* A goroutine that writes what it owes, or fails to.
LEMMA WriteIsFlush ==
    ASSUME TypeInv, NEW t \in Threads, NEW ip \in IPs, NEW e, NEW r, Write(ip, e),
           UNCHANGED entries, th' = [th EXCEPT ![t] = r],
           \A i \in IPs : \A v : Owes(t, i, v) <=> i = ip /\ v = ValueOf(e),
           r.pc \notin {"marshal", "persist", "lkDb"}
    PROVE  Store!Flush(ip)
  <1> DEFINE w == ValueOf(e)
  <1>1. \A u \in Threads : th'[u] = IF u = t THEN r ELSE th[u]
    BY DEF TypeInv, TypeOK
  <1>2. \A u \in Threads \ {t}, i \in IPs : \A v : Owes(u, i, v)' <=> Owes(u, i, v)
    BY <1>1 DEF Owes, Pointee
  <1>3. \A i \in IPs : \A v : ~Owes(t, i, v)'
    BY <1>1 DEF Owes
  <1>4. w \in Pending[ip]
    BY PendingIs
  <1>5. InMemory' = InMemory
    BY DEF InMemory
  <1>6. OnDisk' = [OnDisk EXCEPT ![ip] = w] \/ OnDisk' = OnDisk
    <2>1. CASE db' = [db EXCEPT ![ip] = e]
      <3>1. \A i \in IPs : db'[i] = IF i = ip THEN e ELSE db[i]
        BY <2>1 DEF TypeInv, TypeOK
      <3> QED BY <3>1, MappingIs
    <2>2. CASE db' = db
      BY <2>2 DEF OnDisk
    <2> QED BY <2>1, <2>2 DEF Write
  <1>7. \A i \in IPs \ {ip} : Pending'[i] = Pending[i]
    BY <1>2, <1>3, PendingIs
  <1>8. \A v : v # w => (v \in Pending'[ip] <=> v \in Pending[ip])
    BY <1>2, <1>3, PendingIs
  <1>9. Pending' = [Pending EXCEPT ![ip] = Pending[ip] \ {w}] \/ Pending' = Pending
    <2>1. CASE w \in Pending'[ip]
      <3>1. Pending'[ip] = Pending[ip]
        BY <1>4, <1>8, <2>1
      <3> QED BY <1>7, <3>1, MappingIs
    <2>2. CASE w \notin Pending'[ip]
      <3>1. Pending'[ip] = Pending[ip] \ {w}
        BY <1>8, <2>2
      <3> QED BY <1>7, <3>1, MappingIs
    <2> QED BY <2>1, <2>2
  <1> QED BY <1>4, <1>5, <1>6, <1>9 DEF Store!Flush

\* A violation that is committed adds at most one strike and blocks exactly
\* from the threshold on.
LEMMA EscalatedIsAfterViolation ==
    ASSUME NEW e \in Entry, IsFiniteSet(e.violations), NEW x
    PROVE  ValueOf(Escalated(e, x)) \in Store!AfterViolation(ValueOf(e))
  <1> DEFINE all == e.violations \cup {x}
             vs == Pruned(all, x.at)
             n == Cardinality(vs)
  <1>1. IsFiniteSet(all) /\ Cardinality(all) <= Cardinality(e.violations) + 1
        /\ Cardinality(all) \in Nat /\ Cardinality(e.violations) \in Nat
    <2>1. /\ IsFiniteSet(all)
          /\ Cardinality(all) = IF x \in e.violations THEN Cardinality(e.violations)
                                ELSE Cardinality(e.violations) + 1
      BY FS_AddElement
    <2> QED BY <2>1, FS_CardinalityType
  <1>2. vs \subseteq all
    BY DEF Pruned
  <1>3. n \in Nat /\ n <= Cardinality(e.violations) + 1
    <2>1. IsFiniteSet(vs) /\ Cardinality(vs) <= Cardinality(all)
      BY <1>1, <1>2, FS_Subset
    <2>2. n \in Nat
      BY <2>1, FS_CardinalityType
    <2> QED BY <1>1, <2>1, <2>2
  <1>4. /\ Escalated(e, x).violations = vs
        /\ Escalated(e, x).state = IF n >= BlockThreshold THEN "blocked" ELSE "greylisted"
    BY DEF Escalated
  <1> HIDE DEF vs
  <1>5. ValueOf(Escalated(e, x))
          = [state |-> IF n >= BlockThreshold THEN "blocked" ELSE "greylisted", strikes |-> n]
    BY <1>4 DEF ValueOf, StateOf
  <1>6. ValueOf(e).strikes = Cardinality(e.violations)
    BY DEF ValueOf
  <1> HIDE DEF n
  <1>7. n \in 0..(ValueOf(e).strikes + 1)
    BY <1>1, <1>3, <1>6
  <1> QED BY <1>5, <1>7 DEF Store!AfterViolation

\* The commit of a violation: whoever is about to write a pointer to the entry
\* will write the new value.
LEMMA CommitIsViolation ==
    ASSUME TypeInv, Provenance, LockInv, NEW t \in Threads, ViolationCommit(t)
    PROVE  Store!RegisterViolation(th[t].ip)
  <1>0. PICK ip \in IPs : ip = th[t].ip
    BY DEF TypeInv, TypeOK, Thread
  <1>00. PICK e : e = Updated(t)
    OBVIOUS
  <1> DEFINE v == ValueOf(e)
             old == {w \in Pending[ip] : \E u \in Threads \ {t} : ~th[u].live /\ Owes(u, ip, w)}
  <1>1. th[t].pc = "rvHold" /\ entries[ip].state # "blocked"
    BY <1>0 DEF ViolationCommit, LockInv
  <1>2. entries[ip] \in Entry /\ IsFiniteSet(entries[ip].violations)
    BY EntriesFinite
  <1>3. v \in Store!AfterViolation(InMemory[ip])
    BY <1>0, <1>00, <1>2, EscalatedIsAfterViolation, MappingIs DEF Updated
  <1>4. InMemory[ip].state # "blocked"
    BY <1>1, MappingIs DEF ValueOf, StateOf
  <1>5. entries' = [entries EXCEPT ![ip] = e] /\ db' = db
    BY <1>0, <1>00 DEF ViolationCommit
  <1>6. \A i \in IPs : entries'[i] = IF i = ip THEN e ELSE entries[i]
    BY <1>5 DEF TypeInv, TypeOK
  <1>7. \A u \in Threads : th[u] \in Thread /\ th[u].ip \in IPs
    BY DEF TypeInv, TypeOK, Thread
  <1>8. \A u \in Threads \ {t} : th'[u] = th[u]
    BY DEF ViolationCommit, TypeInv, TypeOK
  <1>9. th'[t].pc = "persist" /\ th'[t].ip = ip /\ th'[t].e = e /\ ~th'[t].live
    <2>1. ~th[t].live
      BY <1>1 DEF TypeInv, PointerOK
    <2> DEFINE a == [th[t] EXCEPT !.pc = "persist"]
               b == [a EXCEPT !.e = e]
               c == [b EXCEPT !.to = e.state]
    <2>2. /\ DOMAIN a = DOMAIN th[t] /\ a.pc = "persist" /\ a.ip = ip /\ ~a.live
      BY <1>0, <1>7, <2>1 DEF Thread
    <2>3. DOMAIN a = {"pc", "ip", "now", "live", "e", "from", "to", "answer"}
      BY <1>7, <2>2 DEF Thread
    <2>4. th' = [th EXCEPT ![t] = c]
      BY <1>00 DEF ViolationCommit
    <2> HIDE DEF a
    <2>5. /\ DOMAIN b = DOMAIN a /\ b.pc = "persist" /\ b.ip = ip /\ ~b.live /\ b.e = e
      BY <2>2, <2>3
    <2> HIDE DEF b
    <2>6. c.pc = "persist" /\ c.ip = ip /\ ~c.live /\ c.e = e
      BY <2>3, <2>5
    <2> HIDE DEF c
    <2> QED BY <2>4, <2>6 DEF TypeInv, TypeOK
  <1> HIDE DEF v
  <1>10. \A i \in IPs : \A w : Owes(t, i, w)' <=> i = ip /\ w = v
    BY <1>9 DEF Owes, Pointee, v
  <1>11. \A i \in IPs : \A w : ~Owes(t, i, w)
    BY <1>1 DEF Owes
  <1>12. ASSUME NEW u \in Threads \ {t}, NEW i \in IPs, NEW w, ~(th[u].live /\ th[u].ip = ip)
         PROVE  Owes(u, i, w)' <=> Owes(u, i, w)
    <2>1. Pointee(u)' = Pointee(u)
      BY <1>6, <1>7, <1>8, <1>12 DEF Pointee
    <2> QED BY <1>8, <2>1 DEF Owes
  <1>13. ASSUME NEW u \in Threads \ {t}, NEW i \in IPs, NEW w, th[u].live, th[u].ip = ip,
                Owes(u, i, w)'
         PROVE  i = ip /\ w = v
    <2>1. Pointee(u)' = e
      BY <1>6, <1>8, <1>13 DEF Pointee
    <2>2. th[u].pc \notin {"lkDb", "persist"}
      BY <1>13 DEF TypeInv, PointerOK
    <2> QED BY <1>8, <1>13, <2>1, <2>2 DEF Owes, v
  <1>14. ASSUME NEW u \in Threads, NEW i \in IPs \ {ip}, NEW w
         PROVE  Owes(u, i, w)' <=> Owes(u, i, w)
    <2>1. CASE u = t
      BY <1>10, <1>11, <2>1
    <2>2. CASE u # t /\ th[u].live /\ th[u].ip = ip
      BY <1>8, <2>2 DEF Owes
    <2>3. CASE u # t /\ ~(th[u].live /\ th[u].ip = ip)
      BY <1>12, <2>3
    <2> QED BY <2>1, <2>2, <2>3
  <1>15. \A i \in IPs \ {ip} : Pending'[i] = Pending[i]
    BY <1>14, PendingIs
  <1>16. Pending'[ip] = old \cup {v}
    <2>1. ASSUME NEW w \in Pending'[ip]
          PROVE  w \in old \cup {v}
      <3>1. PICK u \in Threads : Owes(u, ip, w)'
        BY PendingIs
      <3>2. CASE u = t
        BY <1>10, <3>1, <3>2
      <3>3. CASE u # t /\ th[u].live /\ th[u].ip = ip
        BY <1>13, <3>1, <3>3
      <3>4. CASE u # t /\ ~(th[u].live /\ th[u].ip = ip)
        <4>1. Owes(u, ip, w)
          BY <1>12, <3>1, <3>4
        <4>2. ~th[u].live
          BY <3>4, <4>1 DEF Owes
        <4> QED BY <3>4, <4>1, <4>2, PendingIs
      <3> QED BY <3>2, <3>3, <3>4
    <2>2. v \in Pending'[ip]
      BY <1>10, PendingIs
    <2>3. ASSUME NEW w \in old
          PROVE  w \in Pending'[ip]
      <3>1. PICK u \in Threads \ {t} : ~th[u].live /\ Owes(u, ip, w)
        OBVIOUS
      <3>2. Owes(u, ip, w)'
        BY <1>12, <3>1
      <3> QED BY <3>2, PendingIs
    <2> HIDE DEF old
    <2> QED BY <2>1, <2>2, <2>3
  <1>17. old \in SUBSET Pending[ip]
    OBVIOUS
  <1> HIDE DEF old
  <1>18. Pending' = [Pending EXCEPT ![ip] = old \cup {v}]
    BY <1>15, <1>16, MappingIs
  <1>19. InMemory' = [InMemory EXCEPT ![ip] = v]
    BY <1>6, MappingIs DEF v
  <1>20. OnDisk' = OnDisk
    BY <1>5, MappingIs
  <1>21. Store!Set(ip, v)
    BY <1>17, <1>18, <1>19, <1>20 DEF Store!Set
  <1> QED BY <1>0, <1>3, <1>4, <1>21 DEF Store!RegisterViolation

\* Every step inside an operation is a step of the store, or invisible.
LEMMA StepRefines ==
    ASSUME TypeInv, Provenance, LockInv, NEW t \in Threads, ThreadStep(t)
    PROVE  [Store!Next]_Store!vars
  <1>0. PICK ip \in IPs : ip = th[t].ip
    BY DEF TypeInv, TypeOK, Thread
  <1>1. th[t] \in Thread /\ entries[ip] \in Entry
    BY DEF TypeInv, TypeOK
  <1>2. \A i, a : Return(i, a).pc = "idle"
    BY DEF Return, Op
  <1>3. CASE LookupExpiry(t)
    <2> DEFINE p == IF Expired(Pointee(t), clock) THEN "lkDelete" ELSE "lkState"
               r == [th[t] EXCEPT !.pc = p]
    <2>1. th' = [th EXCEPT ![t] = r] /\ UNCHANGED <<entries, db>> /\ th[t].pc = "lkExpiry"
      BY <1>3 DEF LookupExpiry
    <2>2. r.pc \notin {"marshal", "persist", "lkDb"}
      BY <1>1 DEF Thread
    <2> HIDE DEF r
    <2> QED BY <2>1, <2>2, InvisibleMove
  <1>4. CASE LookupState(t)
    <2>1. PICK a : th' = [th EXCEPT ![t] = Return(th[t].ip, a)]
      BY <1>4 DEF LookupState
    <2>2. UNCHANGED <<entries, db>> /\ th[t].pc = "lkState"
      BY <1>4 DEF LookupState
    <2> QED BY <1>2, <2>1, <2>2, InvisibleMove
  <1>5. CASE LookupDelete(t)
    <2> DEFINE D == Detached(ip)
               r == [D[t] EXCEPT !.pc = "lkDb"]
    <2>1. D \in [Threads -> Thread] /\ D[t].ip = ip
      BY <1>0, DetachedType
    <2>2. th' = [D EXCEPT ![t] = r] /\ entries' = [entries EXCEPT ![ip] = NoEntry] /\ db' = db
      BY <1>0, <1>5 DEF LookupDelete
    <2>3. D[t] \in Thread
      BY <2>1
    <2> HIDE DEF D
    <2>4. r.pc = "lkDb" /\ r.ip = ip
      BY <2>1, <2>3 DEF Thread
    <2>5. th'[t] = r
      BY <2>1, <2>2
    <2> HIDE DEF r
    <2>6. \A i \in IPs : \A v : Owes(t, i, v)' <=> i = ip /\ v = ValueOf(NoEntry)
      BY <2>4, <2>5 DEF Owes
    <2>7. \A i \in IPs : \A v : ~Owes(t, i, v)
      BY <1>5 DEF LookupDelete, Owes
    <2>8. Store!Set(ip, ValueOf(NoEntry))
      BY <2>2, <2>6, <2>7, ReplacedIsSet DEF D
    <2>9. Store!MarkClean(ip)
      BY <2>8, ValueTypes DEF Store!MarkClean
    <2> QED BY <2>9 DEF Store!Next
  <1>6. CASE LookupDbDelete(t)
    <2> DEFINE r == [th[t] EXCEPT !.pc = "lkEmit"]
    <2>1. th' = [th EXCEPT ![t] = r] /\ UNCHANGED entries /\ Write(ip, NoEntry)
      BY <1>0, <1>6 DEF LookupDbDelete
    <2>2. r.pc \notin {"marshal", "persist", "lkDb"}
      BY <1>1 DEF Thread
    <2>3. \A i \in IPs : \A v : Owes(t, i, v) <=> i = ip /\ v = ValueOf(NoEntry)
      BY <1>0, <1>6 DEF LookupDbDelete, Owes
    <2> HIDE DEF r
    <2>4. Store!Flush(ip)
      BY <2>1, <2>2, <2>3, WriteIsFlush
    <2> QED BY <2>4 DEF Store!Next
  <1>7. CASE LookupEmit(t)
    <2>1. /\ th' = [th EXCEPT ![t] = Return(th[t].ip, "clean")]
          /\ UNCHANGED <<entries, db>> /\ th[t].pc = "lkEmit"
      BY <1>7 DEF LookupEmit
    <2> QED BY <1>2, <2>1, InvisibleMove
  <1>8. CASE ViolationLock(t)
    <2>1. CASE entries[ip].state = "blocked"
      <3>1. /\ th' = [th EXCEPT ![t] = Return(ip, "none")]
            /\ UNCHANGED <<entries, db>> /\ th[t].pc = "rvLock"
        BY <1>0, <1>8, <2>1 DEF ViolationLock
      <3> QED BY <1>2, <3>1, InvisibleMove
    <2>2. CASE entries[ip].state # "blocked"
      <3> DEFINE a == [th[t] EXCEPT !.pc = "rvHold"]
                 r == [a EXCEPT !.from = StateOf(entries[ip])]
                 e == IF entries[ip].state = "absent"
                      THEN [NoEntry EXCEPT !.state = "clean", !.since = th[t].now]
                      ELSE entries[ip]
      <3>1. /\ th' = [th EXCEPT ![t] = r] /\ entries' = [entries EXCEPT ![ip] = e]
            /\ db' = db /\ th[t].pc = "rvLock"
        BY <1>0, <1>8, <2>2 DEF ViolationLock, TypeInv, TypeOK
      <3>2. a \in Thread /\ a.pc = "rvHold"
        BY <1>1 DEF Thread, PC
      <3> HIDE DEF a
      <3>3. r.pc = "rvHold"
        BY <3>2 DEF Thread
      <3> HIDE DEF r
      <3>4. ValueOf(e) = ValueOf(entries[ip])
        <4>1. CASE entries[ip].state = "absent"
          <5>1. entries[ip].violations = {}
            BY <4>1, EntriesFinite
          <5>2. e.state = "clean" /\ e.violations = {}
            BY <4>1 DEF NoEntry
          <5> HIDE DEF e
          <5> QED BY <4>1, <5>1, <5>2 DEF ValueOf, StateOf
        <4>2. CASE entries[ip].state # "absent"
          BY <4>2
        <4> QED BY <4>1, <4>2
      <3>5. entries[ip].state # "absent" => e = entries[ip]
        OBVIOUS
      <3> HIDE DEF e
      <3>6. \A i \in IPs : entries'[i] = IF i = ip THEN e ELSE entries[i]
        BY <3>1 DEF TypeInv, TypeOK
      <3>7. \A u \in Threads : th'[u] = IF u = t THEN r ELSE th[u]
        BY <3>1 DEF TypeInv, TypeOK
      <3>8. ASSUME NEW u \in Threads, NEW i \in IPs, NEW v
            PROVE  Owes(u, i, v)' <=> Owes(u, i, v)
        <4>1. CASE u = t
          BY <3>1, <3>3, <3>7, <4>1 DEF Owes
        <4>2. CASE u # t
          <5>1. th[u].ip \in IPs
            BY DEF TypeInv, TypeOK, Thread
          <5>2. th[u].live => entries[th[u].ip].state # "absent"
            BY DEF TypeInv, PointerOK
          <5>3. Pointee(u)' = Pointee(u)
            BY <3>5, <3>6, <3>7, <4>2, <5>1, <5>2 DEF Pointee
          <5> QED BY <3>7, <4>2, <5>3 DEF Owes
        <4> QED BY <4>1, <4>2
      <3> QED BY <3>1, <3>4, <3>6, <3>8, InvisibleStep
    <2> QED BY <2>1, <2>2
  <1>9. CASE ViolationCommit(t)
    BY <1>0, <1>9, CommitIsViolation DEF Store!Next
  <1>10. CASE Persist(t)
    <2> DEFINE r == IF th[t].from # th[t].to
                    THEN Op("emit", ip, 0, FALSE, th[t].from, th[t].to)
                    ELSE Return(ip, "none")
    <2>1. th' = [th EXCEPT ![t] = r] /\ UNCHANGED entries
      BY <1>0, <1>10 DEF Persist
    <2>2. r.pc \notin {"marshal", "persist", "lkDb"}
      BY <1>2 DEF Op
    <2> HIDE DEF r
    <2>3. PICK e : e = th[t].e
      OBVIOUS
    <2>4. Write(ip, e)
      BY <1>0, <1>10, <2>3 DEF Persist
    <2>5. \A i \in IPs : \A v : Owes(t, i, v) <=> i = ip /\ v = ValueOf(e)
      BY <1>0, <1>10, <2>3 DEF Persist, Owes
    <2>6. Store!Flush(ip)
      BY <2>1, <2>2, <2>4, <2>5, WriteIsFlush
    <2> QED BY <2>6 DEF Store!Next
  <1>11. CASE Emit(t)
    <2>1. /\ th' = [th EXCEPT ![t] = Return(th[t].ip, "none")]
          /\ UNCHANGED <<entries, db>> /\ th[t].pc = "emit"
      BY <1>11 DEF Emit
    <2> QED BY <1>2, <2>1, InvisibleMove
  \* The bytes are the entry as it is now: t owes what it owed.
  <1>12. CASE Marshal(t)
    <2> DEFINE r == [th[t] EXCEPT !.pc = "persist", !.e = Pointee(t), !.live = FALSE]
    <2>1. th' = [th EXCEPT ![t] = r] /\ UNCHANGED <<entries, db>> /\ th[t].pc = "marshal"
      BY <1>12 DEF Marshal
    <2>2. r.pc = "persist" /\ r.ip = th[t].ip /\ r.e = Pointee(t)
      BY <1>1 DEF Thread
    <2> HIDE DEF r
    <2>3. \A u \in Threads : th'[u] = IF u = t THEN r ELSE th[u]
      BY <2>1 DEF TypeInv, TypeOK
    <2>4. \A u \in Threads, i \in IPs : \A v : Owes(u, i, v)' <=> Owes(u, i, v)
      BY <2>1, <2>2, <2>3 DEF Owes, Pointee
    <2> QED BY <2>1, <2>4, InvisibleStep
  <1> QED BY <1>3, <1>4, <1>5, <1>6, <1>7, <1>8, <1>9, <1>10, <1>11, <1>12 DEF ThreadStep

\* So is the beginning of every operation.
LEMMA CallRefines ==
    ASSUME TypeInv, NEW t \in Threads, NEW ip \in IPs, Call(t, ip)
    PROVE  [Store!Next]_Store!vars
  <1>1. CASE LookupGet(t, ip)
    <2> DEFINE r == IF entries[ip].state = "absent" THEN Return(ip, "clean")
                    ELSE Op("lkExpiry", ip, 0, TRUE, "clean", "clean")
    <2>1. /\ th' = [th EXCEPT ![t] = r] /\ UNCHANGED <<entries, db>>
          /\ th[t].pc \notin {"marshal", "persist", "lkDb"}
      BY <1>1 DEF LookupGet, Idle
    <2>2. r.pc \notin {"marshal", "persist", "lkDb"}
      BY DEF Return, Op
    <2> HIDE DEF r
    <2> QED BY <2>1, <2>2, InvisibleMove
  <1>2. CASE RegisterViolation(t, ip)
    <2> DEFINE r == Op("rvLock", ip, clock, FALSE, "clean", "clean")
    <2>1. /\ th' = [th EXCEPT ![t] = r] /\ UNCHANGED <<entries, db>>
          /\ th[t].pc \notin {"marshal", "persist", "lkDb"}
      BY <1>2 DEF RegisterViolation, Idle
    <2>2. r.pc \notin {"marshal", "persist", "lkDb"}
      BY DEF Op
    <2> HIDE DEF r
    <2> QED BY <2>1, <2>2, InvisibleMove
  <1>3. ASSUME NEW e, Replace(t, ip, e), db' = db
        PROVE  Store!Set(ip, ValueOf(e))
    <2> DEFINE D == Detached(ip)
               r == Op("marshal", ip, 0, TRUE, StateOf(entries[ip]), e.state)
    <2>1. /\ th' = [D EXCEPT ![t] = r] /\ entries' = [entries EXCEPT ![ip] = e]
          /\ th[t].pc = "idle"
      BY <1>3 DEF Replace, Idle
    <2>2. r.pc = "marshal" /\ r.ip = ip /\ r.live
      BY DEF Op
    <2> HIDE DEF r
    <2>3. th'[t] = r
      BY <2>1, DetachedType
    <2>4. entries'[ip] = e
      BY <2>1 DEF TypeInv, TypeOK
    <2>5. \A i \in IPs : \A v : Owes(t, i, v)' <=> i = ip /\ v = ValueOf(e)
      BY <2>2, <2>3, <2>4 DEF Owes, Pointee
    <2>6. \A i \in IPs : \A v : ~Owes(t, i, v)
      BY <2>1 DEF Owes
    <2> QED BY <1>3, <2>1, <2>5, <2>6, ReplacedIsSet
  <1>4. CASE MarkClean(t, ip)
    <2>1. Store!Set(ip, ValueOf(NewEntry("clean", clock, CleanTTL)))
      BY <1>3, <1>4 DEF MarkClean
    <2> QED BY <2>1, ValueTypes DEF Store!Next, Store!MarkClean
  <1>5. CASE Block(t, ip)
    <2>1. Store!Set(ip, ValueOf(NewEntry("blocked", clock, BlockTTL)))
      BY <1>3, <1>5 DEF Block
    <2> QED BY <2>1, ValueTypes DEF Store!Next, Store!Block
  <1> QED BY <1>1, <1>2, <1>4, <1>5 DEF Call

\* A crash with its reload is a restart of the store.
LEMMA CrashRefines ==
    ASSUME TypeInv, Provenance, Crash
    PROVE  Store!Restart
  <1>1. \A ip \in IPs : entries'[ip] \in {db[ip], NoEntry} /\ db'[ip] = db[ip]
    BY DEF Crash, Loaded
  <1>2. \A ip \in IPs : InMemory'[ip] \in {OnDisk[ip], Store!Clean}
    BY <1>1, MappingIs, ValueTypes
  <1>3. \A ip \in IPs : OnDisk[ip] \in Store!Value
    BY MappingIs, EntriesFinite, ValueTypes
  <1>4. \A ip \in IPs : InMemory'[ip] \in Store!Value
    BY <1>2, <1>3, ValueTypes
  <1>5. InMemory' \in [IPs -> Store!Value]
    BY <1>4, MappingIs
  <1>6. \A u \in Threads : th'[u].pc = "idle"
    BY DEF Crash, Return, Op
  <1>7. \A ip \in IPs : Pending'[ip] = {}
    BY <1>6, PendingIs DEF Owes
  <1>8. Pending' = [ip \in IPs |-> {}]
    BY <1>7, MappingIs
  <1>9. OnDisk' = OnDisk
    BY <1>1, MappingIs
  <1> QED BY <1>2, <1>5, <1>8, <1>9 DEF Store!Restart

\* The manager, with its goroutines, pointers, late and failed writes and
\* crashes, implements the abstract store that module Proxy relies on
\* (reputation.go:151-252): every step is one operation of the store on one
\* address, one write, a restart, or nothing.
THEOREM ManagerImplementsStore == Spec => ImplementsStore
  <1>1. Init => Store!Init
    <2> SUFFICES ASSUME Init PROVE Store!Init
      OBVIOUS
    <2>1. \A ip \in IPs : entries[ip] = NoEntry /\ db[ip] = NoEntry
      BY DEF Init
    <2>2. \A u \in Threads : th[u].pc = "idle"
      <3>1. \A ip \in IPs : Return(ip, "none").pc = "idle"
        BY ReturnType, Names
      <3> QED BY <3>1 DEF Init
    <2>3. \A ip \in IPs : Pending[ip] = {}
      BY <2>2, PendingIs DEF Owes
    <2>4. \A ip \in IPs : InMemory[ip] = Store!Clean /\ OnDisk[ip] = Store!Clean
      BY <2>1, MappingIs, ValueTypes
    <2> QED BY <2>3, <2>4, MappingIs DEF Store!Init
  <1>2. Init => Provenance /\ LockInv
    <2> SUFFICES ASSUME Init PROVE Provenance /\ LockInv
      OBVIOUS
    <2>1. \A ip \in IPs : Return(ip, "none").e = NoEntry /\ Return(ip, "none").pc = "idle"
      BY ReturnType, Names
    <2>2. \A t \in Threads : th[t].e = NoEntry /\ th[t].pc = "idle"
      BY <2>1 DEF Init
    <2> QED BY <2>2, CleanIsWellFounded, ZenonT(60) DEF Init, Provenance, LockInv
  <1>3. TypeInv /\ Provenance /\ LockInv /\ [Next]_vars => [Store!Next]_Store!vars
    <2> SUFFICES ASSUME TypeInv, Provenance, LockInv, [Next]_vars
                 PROVE  [Store!Next]_Store!vars
      OBVIOUS
    <2>1. ASSUME entries' = entries, db' = db, th' = th
          PROVE  UNCHANGED Store!vars
      BY <2>1 DEF Store!vars, InMemory, OnDisk, Pending, Pointee
    <2>2. CASE UNCHANGED vars \/ Tick
      BY <2>1, <2>2 DEF vars, Tick
    <2>3. CASE Crash
      BY <2>3, CrashRefines DEF Store!Next
    <2> QED BY <2>2, <2>3, StepRefines, CallRefines DEF Next
  <1> QED BY InitTypeInv, NextTypeInv, NextProvenance, NextLockInv, <1>1, <1>2, <1>3, PTL
          DEF Spec, ImplementsStore, Store!Spec

-----------------------------------------------------------------------------
(* One operation at a time.  What the runs with several goroutines refute   *)
(* holds when a single one uses the manager: nothing is lost between map    *)
(* and bucket, every transition is logged, and no block is missed.          *)

OneAtATime == \A t, u \in Threads : t = u

\* Map and bucket agree on ip, but for an expired entry that a reload skipped.
Agrees(ip) == entries[ip] # db[ip] => entries[ip] = NoEntry /\ Expired(db[ip], clock)

\* Map and bucket agree except on the address of an operation that has still
\* to write, and what it will write is what the map holds.
DurableInv ==
    /\ \A t \in Threads :
          /\ th[t].pc \in {"marshal", "persist"} => Pointee(t) = entries[th[t].ip]
          /\ th[t].pc = "lkDb" => entries[th[t].ip] = NoEntry
    /\ \A ip \in IPs :
          \/ Agrees(ip)
          \/ \E t \in Threads : /\ th[t].ip = ip
                                /\ th[t].pc \in {"rvHold", "lkDb", "marshal", "persist"}

\* The last line about ip names its state.
Told(ip) == logged[ip].to = StateOf(entries[ip])

\* The log tells the state except on the address of an operation that has
\* still to report, and that knows what the last line said.
LogInv ==
    crashes = 0 =>
        /\ \A t \in Threads :
              LET now == StateOf(entries[th[t].ip]) IN
              /\ th[t].pc = "rvHold" => th[t].from = now
              /\ th[t].pc \in {"marshal", "persist"} =>
                    th[t].from = logged[th[t].ip].to /\ th[t].to = now
              /\ th[t].pc = "emit" => th[t].to = now
              /\ th[t].pc \in {"lkDb", "lkEmit"} => now = "clean"
        /\ \A ip \in IPs :
              \/ Told(ip)
              \/ \E t \in Threads :
                    /\ th[t].ip = ip
                    /\ th[t].pc \in {"lkDb", "lkEmit", "marshal", "persist", "emit"}

\* The violations of ip that no later verdict wiped.
Unforgiven(ip) == incidents[ip] \ forgiven[ip]

\* The entry counts every unforgiven violation that a violation at `now` or
\* later can still meet inside one window, and too few of them for a block.
Counted(ip, now) ==
    LET e == entries[ip] IN
    /\ e.state \in {"absent", "clean"} => \A v \in Unforgiven(ip) : v.at + Window <= now
    /\ e.state = "greylisted" =>
          /\ e.since <= now /\ e.expiry = e.since + GreylistTTL
          /\ \A v \in Unforgiven(ip) :
                v.at <= e.since /\ (v.at > e.since - Window => v \in e.violations)
          /\ Cardinality(e.violations) < BlockThreshold

CountedInv ==
    crashes = 0 =>
        /\ \A ip \in IPs : Counted(ip, clock)
        /\ \A t \in Threads :
              /\ th[t].pc \in {"rvLock", "rvHold"} =>
                    th[t].now <= clock /\ Counted(th[t].ip, th[t].now)
              /\ th[t].pc \in {"lkExpiry", "lkState", "lkDelete"} => th[t].live
              /\ th[t].pc = "lkDelete" => Expired(entries[th[t].ip], clock)

\* Where each step leaves the goroutine that takes it.
LEMMA StepMoves ==
    ASSUME TypeInv, NEW t \in Threads
    PROVE  /\ LookupExpiry(t) =>
                 /\ th'[t].pc = IF Expired(Pointee(t), clock) THEN "lkDelete" ELSE "lkState"
                 /\ th'[t].ip = th[t].ip /\ th'[t].live = th[t].live
           /\ LookupState(t) \/ LookupEmit(t) \/ Emit(t) => th'[t].pc = "idle"
           /\ LookupDelete(t) => th'[t].pc = "lkDb" /\ th'[t].ip = th[t].ip
           /\ LookupDbDelete(t) => th'[t].pc = "lkEmit" /\ th'[t].ip = th[t].ip
           /\ ViolationLock(t) =>
                 IF entries[th[t].ip].state = "blocked" THEN th'[t].pc = "idle"
                 ELSE /\ th'[t].pc = "rvHold" /\ th'[t].ip = th[t].ip
                      /\ th'[t].now = th[t].now /\ th'[t].from = StateOf(entries[th[t].ip])
           /\ ViolationCommit(t) =>
                 /\ th'[t].pc = "persist" /\ th'[t].ip = th[t].ip /\ th'[t].from = th[t].from
                 /\ th'[t].e = Updated(t) /\ th'[t].to = Updated(t).state
                 /\ th'[t].live = th[t].live /\ th'[t].now = th[t].now
           /\ Persist(t) =>
                 IF th[t].from = th[t].to THEN th'[t].pc = "idle"
                 ELSE th'[t].pc = "emit" /\ th'[t].ip = th[t].ip /\ th'[t].to = th[t].to
           /\ Marshal(t) =>
                 /\ th'[t].pc = "persist" /\ th'[t].ip = th[t].ip /\ th'[t].from = th[t].from
                 /\ th'[t].to = th[t].to /\ th'[t].e = Pointee(t) /\ ~th'[t].live
  <1>0. th \in [Threads -> Thread] /\ th[t] \in Thread /\ th[t].ip \in IPs
    BY DEF TypeInv, TypeOK, Thread
  <1>1. \A ip, a : Return(ip, a).pc = "idle"
    BY DEF Return, Op
  <1>2. LookupExpiry(t) =>
           /\ th'[t].pc = IF Expired(Pointee(t), clock) THEN "lkDelete" ELSE "lkState"
           /\ th'[t].ip = th[t].ip /\ th'[t].live = th[t].live
    BY <1>0 DEF LookupExpiry, Thread
  <1>3. LookupState(t) \/ LookupEmit(t) \/ Emit(t) => th'[t].pc = "idle"
    BY <1>0, <1>1 DEF LookupState, LookupEmit, Emit
  <1>4. LookupDelete(t) => th'[t].pc = "lkDb" /\ th'[t].ip = th[t].ip
    <2> DEFINE D == Detached(th[t].ip)
    <2>1. D \in [Threads -> Thread] /\ D[t].ip = th[t].ip
      BY <1>0, DetachedType
    <2>2. LookupDelete(t) => th' = [D EXCEPT ![t].pc = "lkDb"]
      BY DEF LookupDelete
    <2> HIDE DEF D
    <2> QED BY <2>1, <2>2 DEF Thread
  <1>5. LookupDbDelete(t) => th'[t].pc = "lkEmit" /\ th'[t].ip = th[t].ip
    BY <1>0 DEF LookupDbDelete, Thread
  <1>6. ASSUME ViolationLock(t)
        PROVE  IF entries[th[t].ip].state = "blocked" THEN th'[t].pc = "idle"
               ELSE /\ th'[t].pc = "rvHold" /\ th'[t].ip = th[t].ip
                    /\ th'[t].now = th[t].now /\ th'[t].from = StateOf(entries[th[t].ip])
    <2>1. CASE entries[th[t].ip].state = "blocked"
      BY <1>0, <1>1, <1>6, <2>1 DEF ViolationLock
    <2>2. CASE entries[th[t].ip].state # "blocked"
      <3> DEFINE a == [th[t] EXCEPT !.pc = "rvHold"]
                 b == [a EXCEPT !.from = StateOf(entries[th[t].ip])]
      <3>1. a \in Thread /\ a.pc = "rvHold" /\ a.ip = th[t].ip /\ a.now = th[t].now
        BY <1>0 DEF Thread, PC
      <3>2. th'[t] = b
        BY <1>0, <1>6, <2>2 DEF ViolationLock
      <3> HIDE DEF a
      <3>3. /\ b.pc = "rvHold" /\ b.ip = th[t].ip /\ b.now = th[t].now
            /\ b.from = StateOf(entries[th[t].ip])
        BY <3>1 DEF Thread
      <3> QED BY <2>2, <3>2, <3>3
    <2> QED BY <2>1, <2>2
  <1>7. ASSUME ViolationCommit(t)
        PROVE  /\ th'[t].pc = "persist" /\ th'[t].ip = th[t].ip /\ th'[t].from = th[t].from
               /\ th'[t].e = Updated(t) /\ th'[t].to = Updated(t).state
               /\ th'[t].live = th[t].live /\ th'[t].now = th[t].now
    <2> DEFINE a == [th[t] EXCEPT !.pc = "persist"]
               b == [a EXCEPT !.e = Updated(t)]
               c == [b EXCEPT !.to = Updated(t).state]
    <2>1. DOMAIN th[t] = {"pc", "ip", "now", "live", "e", "from", "to", "answer"}
      BY <1>0 DEF Thread
    <2>2. /\ DOMAIN a = DOMAIN th[t] /\ a.pc = "persist" /\ a.ip = th[t].ip
          /\ a.from = th[t].from /\ a.live = th[t].live /\ a.now = th[t].now
      BY <1>0 DEF Thread
    <2>3. th'[t] = c
      BY <1>0, <1>7 DEF ViolationCommit
    <2> HIDE DEF a
    <2>4. /\ DOMAIN b = DOMAIN a /\ b.pc = a.pc /\ b.ip = a.ip /\ b.from = a.from
          /\ b.live = a.live /\ b.now = a.now /\ b.e = Updated(t)
      BY <2>1, <2>2
    <2> HIDE DEF b
    <2>5. /\ c.pc = b.pc /\ c.ip = b.ip /\ c.from = b.from /\ c.live = b.live
          /\ c.now = b.now /\ c.e = b.e /\ c.to = Updated(t).state
      BY <2>1, <2>2, <2>4
    <2> HIDE DEF c
    <2> QED BY <2>2, <2>3, <2>4, <2>5
  <1>8. ASSUME Persist(t)
        PROVE  IF th[t].from = th[t].to THEN th'[t].pc = "idle"
               ELSE th'[t].pc = "emit" /\ th'[t].ip = th[t].ip /\ th'[t].to = th[t].to
    <2>1. CASE th[t].from = th[t].to
      BY <1>0, <1>1, <1>8, <2>1 DEF Persist
    <2>2. CASE th[t].from # th[t].to
      <3> DEFINE r == Op("emit", th[t].ip, 0, FALSE, th[t].from, th[t].to)
      <3>1. r.pc = "emit" /\ r.ip = th[t].ip /\ r.to = th[t].to
        BY DEF Op
      <3>2. th'[t] = r
        BY <1>0, <1>8, <2>2 DEF Persist
      <3> QED BY <2>2, <3>1, <3>2
    <2> QED BY <2>1, <2>2
  <1>9. ASSUME Marshal(t)
        PROVE  /\ th'[t].pc = "persist" /\ th'[t].ip = th[t].ip /\ th'[t].from = th[t].from
               /\ th'[t].to = th[t].to /\ th'[t].e = Pointee(t) /\ ~th'[t].live
    <2> DEFINE p == Pointee(t)
               a == [th[t] EXCEPT !.pc = "persist"]
               b == [a EXCEPT !.e = p]
               c == [b EXCEPT !.live = FALSE]
    <2>1. DOMAIN th[t] = {"pc", "ip", "now", "live", "e", "from", "to", "answer"}
      BY <1>0 DEF Thread
    <2>2. /\ DOMAIN a = DOMAIN th[t] /\ a.pc = "persist" /\ a.ip = th[t].ip
          /\ a.from = th[t].from /\ a.to = th[t].to
      BY <1>0 DEF Thread
    <2>3. th'[t] = c
      BY <1>0, <1>9 DEF Marshal
    <2> HIDE DEF a, p
    <2>4. /\ DOMAIN b = DOMAIN a /\ b.pc = a.pc /\ b.ip = a.ip /\ b.from = a.from
          /\ b.to = a.to /\ b.e = p
      BY <2>1, <2>2
    <2> HIDE DEF b
    <2>5. /\ c.pc = b.pc /\ c.ip = b.ip /\ c.from = b.from /\ c.to = b.to
          /\ c.e = b.e /\ c.live = FALSE
      BY <2>1, <2>2, <2>4
    <2> HIDE DEF c
    <2> QED BY <2>2, <2>3, <2>4, <2>5 DEF p
  <1> HIDE DEF TypeInv
  <1> QED BY <1>2, <1>3, <1>4, <1>5, <1>6, <1>7, <1>8, <1>9

\* Where the beginning of an operation leaves its goroutine.
LEMMA CallMoves ==
    ASSUME TypeInv, NEW t \in Threads, NEW ip \in IPs
    PROVE  /\ LookupGet(t, ip) =>
                 IF entries[ip].state = "absent" THEN th'[t].pc = "idle"
                 ELSE th'[t].pc = "lkExpiry" /\ th'[t].ip = ip /\ th'[t].live
           /\ RegisterViolation(t, ip) =>
                 th'[t].pc = "rvLock" /\ th'[t].ip = ip /\ th'[t].now = clock
           /\ \A e : Replace(t, ip, e) =>
                 /\ th'[t].pc = "marshal" /\ th'[t].ip = ip /\ th'[t].live
                 /\ th'[t].from = StateOf(entries[ip]) /\ th'[t].to = e.state
  <1>0. th \in [Threads -> Thread]
    BY DEF TypeInv, TypeOK
  <1>1. LookupGet(t, ip) =>
           IF entries[ip].state = "absent" THEN th'[t].pc = "idle"
           ELSE th'[t].pc = "lkExpiry" /\ th'[t].ip = ip /\ th'[t].live
    <2>1. Return(ip, "clean").pc = "idle"
      BY DEF Return, Op
    <2> DEFINE r == Op("lkExpiry", ip, 0, TRUE, "clean", "clean")
    <2>2. r.pc = "lkExpiry" /\ r.ip = ip /\ r.live
      BY DEF Op
    <2> HIDE DEF r
    <2>3. LookupGet(t, ip) =>
            th'[t] = IF entries[ip].state = "absent" THEN Return(ip, "clean") ELSE r
      BY <1>0 DEF LookupGet, r
    <2> QED BY <2>1, <2>2, <2>3
  <1>2. RegisterViolation(t, ip) =>
           th'[t].pc = "rvLock" /\ th'[t].ip = ip /\ th'[t].now = clock
    BY <1>0 DEF RegisterViolation, Op
  <1>3. ASSUME NEW e, Replace(t, ip, e)
        PROVE  /\ th'[t].pc = "marshal" /\ th'[t].ip = ip /\ th'[t].live
               /\ th'[t].from = StateOf(entries[ip]) /\ th'[t].to = e.state
    <2> DEFINE r == Op("marshal", ip, 0, TRUE, StateOf(entries[ip]), e.state)
    <2>1. /\ r.pc = "marshal" /\ r.ip = ip /\ r.live
          /\ r.from = StateOf(entries[ip]) /\ r.to = e.state
      BY DEF Op
    <2>2. Detached(ip) \in [Threads -> Thread]
      BY DetachedType
    <2>3. th' = [Detached(ip) EXCEPT ![t] = r]
      BY <1>3 DEF Replace
    <2> HIDE DEF r
    <2> QED BY <2>1, <2>2, <2>3
  <1> QED BY <1>1, <1>2, <1>3

\* A crash leaves every goroutine idle.
LEMMA CrashMoves == Crash => \A t \in Threads : th'[t].pc = "idle"
  BY DEF Crash, Return, Op

\* With a single goroutine and a sound database every step keeps map and bucket
\* in agreement, or leaves the goroutine with the write that restores it.
LEMMA NextDurable ==
    ASSUME OneAtATime, ~DbFaults, TypeInv, TypeInv', DurableInv, [Next]_vars
    PROVE  DurableInv'
  <1>0. /\ entries \in [IPs -> Entry] /\ db \in [IPs -> Entry] /\ th \in [Threads -> Thread]
        /\ \A t \in Threads : th[t].ip \in IPs
        /\ clock \in Nat
    BY DEF TypeInv, TypeOK, Thread
  <1>1. CASE UNCHANGED vars
    BY <1>1 DEF vars, DurableInv, Agrees, Pointee
  <1>2. CASE Tick
    <2>1. entries' = entries /\ db' = db /\ th' = th /\ clock' = clock + 1
      BY <1>2 DEF Tick
    <2>2. \A ip \in IPs : Agrees(ip) => Agrees(ip)'
      <3>1. \A ip \in IPs : db[ip].expiry \in Nat
        BY <1>0 DEF Entry
      <3> QED BY <1>0, <2>1, <3>1 DEF Agrees, Expired
    <2> QED BY <2>1, <2>2 DEF DurableInv, Pointee
  <1>3. CASE Crash
    <2>1. \A ip \in IPs : Agrees(ip)'
      BY <1>3 DEF Crash, Loaded, Agrees
    <2>2. \A t \in Threads : th'[t].pc = "idle"
      BY <1>3, CrashMoves
    <2> QED BY <2>1, <2>2 DEF DurableInv
  \* A step that leaves map and bucket alone, to a point without a write.
  <1>4. ASSUME NEW t \in Threads, UNCHANGED <<entries, db, clock>>,
               th[t].pc \notin {"rvHold", "lkDb", "marshal", "persist"},
               th'[t].pc \notin {"lkDb", "marshal", "persist"}
        PROVE  DurableInv'
    <2>1. \A ip \in IPs : Agrees(ip)
      BY <1>4 DEF DurableInv, OneAtATime
    <2> QED BY <1>4, <2>1 DEF DurableInv, OneAtATime, Agrees
  \* A step that writes what the map holds.
  <1>5. ASSUME NEW t \in Threads, UNCHANGED <<entries, clock>>,
               db' = [db EXCEPT ![th[t].ip] = entries[th[t].ip]],
               th'[t].pc \notin {"lkDb", "marshal", "persist"}
        PROVE  DurableInv'
    <2>1. \A ip \in IPs : Agrees(ip)'
      BY <1>0, <1>5 DEF DurableInv, OneAtATime, Agrees
    <2> QED BY <1>5, <2>1 DEF DurableInv, OneAtATime
  \* A step that changes the entry of its goroutine.
  <1>6. ASSUME NEW t \in Threads, UNCHANGED <<db, clock>>,
               th[t].pc \notin {"lkDb", "marshal", "persist"},
               th'[t].pc \in {"rvHold", "lkDb", "marshal", "persist"},
               \A ip \in IPs : ip # th'[t].ip => entries'[ip] = entries[ip],
               th[t].pc = "rvHold" => th'[t].ip = th[t].ip,
               th'[t].pc \in {"marshal", "persist"} => Pointee(t)' = entries'[th'[t].ip],
               th'[t].pc = "lkDb" => entries'[th'[t].ip] = NoEntry
        PROVE  DurableInv'
    <2>1. \A ip \in IPs : ip # th'[t].ip => Agrees(ip)'
      BY <1>6 DEF DurableInv, OneAtATime, Agrees
    <2> QED BY <1>6, <2>1 DEF DurableInv, OneAtATime
  <1>7. ASSUME NEW t \in Threads, ThreadStep(t) PROVE DurableInv'
    <2>1. CASE LookupExpiry(t)
      BY <1>4, <2>1, StepMoves DEF LookupExpiry
    <2>2. CASE LookupState(t)
      BY <1>4, <2>2, StepMoves DEF LookupState
    <2>3. CASE LookupEmit(t)
      BY <1>4, <2>3, StepMoves DEF LookupEmit
    <2>4. CASE Emit(t)
      BY <1>4, <2>4, StepMoves DEF Emit
    <2>5. CASE LookupDelete(t)
      <3>1. th'[t].pc = "lkDb" /\ th'[t].ip = th[t].ip
        BY <2>5, StepMoves
      <3>2. \A ip \in IPs : entries'[ip] = IF ip = th[t].ip THEN NoEntry ELSE entries[ip]
        BY <1>0, <2>5 DEF LookupDelete
      <3>3. UNCHANGED <<db, clock>> /\ th[t].pc = "lkDelete"
        BY <2>5 DEF LookupDelete
      <3> QED BY <1>0, <1>6, <3>1, <3>2, <3>3
    <2>6. CASE LookupDbDelete(t)
      <3>1. th'[t].pc = "lkEmit"
        BY <2>6, StepMoves
      <3>2. entries[th[t].ip] = NoEntry
        BY <2>6 DEF DurableInv, LookupDbDelete
      <3>3. UNCHANGED <<entries, clock>> /\ db' = [db EXCEPT ![th[t].ip] = NoEntry]
        BY <2>6 DEF LookupDbDelete, Write
      <3> QED BY <1>5, <3>1, <3>2, <3>3
    <2>7. CASE ViolationLock(t)
      <3>1. CASE entries[th[t].ip].state = "blocked"
        <4>1. th'[t].pc = "idle"
          BY <2>7, <3>1, StepMoves
        <4> QED BY <1>4, <2>7, <3>1, <4>1 DEF ViolationLock
      <3>2. CASE entries[th[t].ip].state # "blocked"
        <4>1. th'[t].pc = "rvHold" /\ th'[t].ip = th[t].ip
          BY <2>7, <3>2, StepMoves
        <4>2. UNCHANGED <<db, clock>> /\ th[t].pc = "rvLock"
          BY <2>7 DEF ViolationLock
        <4>3. \A ip \in IPs : ip # th[t].ip => entries'[ip] = entries[ip]
          BY <1>0, <2>7, <3>2 DEF ViolationLock
        <4> QED BY <1>6, <4>1, <4>2, <4>3
      <3> QED BY <3>1, <3>2
    <2>8. CASE ViolationCommit(t)
      <3>1. /\ th'[t].pc = "persist" /\ th'[t].ip = th[t].ip /\ th'[t].e = Updated(t)
            /\ th'[t].live = th[t].live
        BY <2>8, StepMoves
      <3>2. ~th[t].live
        BY <2>8 DEF ViolationCommit, TypeInv, PointerOK
      <3>3. \A ip \in IPs : entries'[ip] = IF ip = th[t].ip THEN Updated(t) ELSE entries[ip]
        BY <1>0, <2>8 DEF ViolationCommit
      <3>4. UNCHANGED <<db, clock>> /\ th[t].pc = "rvHold"
        BY <2>8 DEF ViolationCommit
      <3>5. Pointee(t)' = entries'[th'[t].ip]
        BY <1>0, <3>1, <3>2, <3>3 DEF Pointee
      <3> QED BY <1>6, <3>1, <3>3, <3>4, <3>5
    <2>9. CASE Persist(t)
      <3>1. th'[t].pc \in {"idle", "emit"}
        BY <2>9, StepMoves
      <3>2. th[t].e = entries[th[t].ip]
        BY <2>9 DEF DurableInv, Persist, Pointee, TypeInv, PointerOK
      <3>3. UNCHANGED <<entries, clock>> /\ db' = [db EXCEPT ![th[t].ip] = th[t].e]
        BY <2>9 DEF Persist, Write
      <3> QED BY <1>5, <3>1, <3>2, <3>3
    <2>10. CASE Marshal(t)
      <3>1. /\ th'[t].pc = "persist" /\ th'[t].ip = th[t].ip
            /\ th'[t].e = Pointee(t) /\ ~th'[t].live
        BY <2>10, StepMoves
      <3>2. UNCHANGED <<entries, db, clock>> /\ th[t].pc = "marshal"
        BY <2>10 DEF Marshal
      <3>3. Pointee(t)' = entries'[th'[t].ip]
        BY <3>1, <3>2 DEF DurableInv, Pointee
      <3>4. \A ip \in IPs : ip # th'[t].ip => Agrees(ip)'
        BY <3>1, <3>2 DEF DurableInv, OneAtATime, Agrees
      <3> QED BY <3>1, <3>3, <3>4 DEF DurableInv, OneAtATime
    <2> QED BY <1>7, <2>1, <2>2, <2>3, <2>4, <2>5, <2>6, <2>7, <2>8, <2>9, <2>10 DEF ThreadStep
  <1>8. ASSUME NEW t \in Threads, NEW ip \in IPs, Call(t, ip) PROVE DurableInv'
    <2>1. CASE LookupGet(t, ip)
      <3>1. th'[t].pc \in {"idle", "lkExpiry"}
        BY <2>1, CallMoves
      <3> QED BY <1>4, <2>1, <3>1 DEF LookupGet, Idle
    <2>2. CASE RegisterViolation(t, ip)
      <3>1. th'[t].pc = "rvLock"
        BY <2>2, CallMoves
      <3> QED BY <1>4, <2>2, <3>1 DEF RegisterViolation, Idle
    <2>3. ASSUME NEW e, Replace(t, ip, e), UNCHANGED <<db, clock>> PROVE DurableInv'
      <3>1. th'[t].pc = "marshal" /\ th'[t].ip = ip /\ th'[t].live
        BY <2>3, CallMoves
      <3>2. Pointee(t)' = entries'[th'[t].ip]
        BY <3>1 DEF Pointee
      <3>3. th[t].pc = "idle" /\ \A i \in IPs : i # ip => entries'[i] = entries[i]
        BY <1>0, <2>3 DEF Replace, Idle
      <3> QED BY <1>6, <2>3, <3>1, <3>2, <3>3
    <2> QED BY <1>8, <2>1, <2>2, <2>3 DEF Call, MarkClean, Block
  <1> QED BY <1>1, <1>2, <1>3, <1>7, <1>8 DEF Next

\* Used by one goroutine at a time, with a database that does not fail, the
\* manager loses nothing: between operations the bucket holds what a restart
\* needs, after any number of crashes (persist follows every change of the map,
\* reputation.go:209-252).
THEOREM SequentialIsDurable == OneAtATime /\ ~DbFaults => (Spec => []DurableWhenQuiet)
  <1> SUFFICES ASSUME OneAtATime, ~DbFaults PROVE Spec => []DurableWhenQuiet
    OBVIOUS
  <1>1. Init => DurableInv
    <2> SUFFICES ASSUME Init PROVE DurableInv
      OBVIOUS
    <2>1. \A ip \in IPs : Return(ip, "none").pc = "idle"
      BY ReturnType, Names
    <2>2. \A t \in Threads : th[t].pc = "idle"
      BY <2>1 DEF Init
    <2> QED BY <2>2 DEF Init, DurableInv, Agrees
  <1>2. TypeInv /\ TypeInv' /\ DurableInv /\ [Next]_vars => DurableInv'
    BY NextDurable
  <1>3. DurableInv => DurableWhenQuiet
    BY DEF DurableInv, Agrees, DurableWhenQuiet, Quiet, Idle
  <1> QED BY InitTypeInv, NextTypeInv, <1>1, <1>2, <1>3, PTL DEF Spec

\* With a single goroutine every step keeps the log true, or leaves the
\* goroutine with the line that makes it so.
LEMMA NextLog ==
    ASSUME OneAtATime, TypeInv, LogInv, [Next]_vars
    PROVE  LogInv'
  <1>0. /\ entries \in [IPs -> Entry] /\ logged \in [IPs -> [from : State, to : State]]
        /\ \A t \in Threads : th[t].ip \in IPs
        /\ crashes \in Nat
    BY DEF TypeInv, TypeOK, Thread
  <1>1. CASE UNCHANGED vars \/ Tick
    BY <1>1 DEF vars, Tick, LogInv, Told
  <1>2. CASE Crash
    <2>1. crashes' # 0
      BY <1>0, <1>2 DEF Crash
    <2> QED BY <2>1 DEF LogInv
  \* A step after which nothing is left to report.
  <1>3. ASSUME NEW t \in Threads, crashes' = crashes,
               th'[t].pc \notin {"rvHold", "marshal", "persist", "emit", "lkDb", "lkEmit"},
               crashes = 0 => \A ip \in IPs : Told(ip)'
        PROVE  LogInv'
    BY <1>3 DEF LogInv, OneAtATime
  <1>4. ASSUME NEW t \in Threads, UNCHANGED <<entries, logged, crashes>>,
               th[t].pc \notin {"marshal", "persist", "emit", "lkDb", "lkEmit"},
               th'[t].pc \notin {"rvHold", "marshal", "persist", "emit", "lkDb", "lkEmit"}
        PROVE  LogInv'
    <2>1. crashes = 0 => \A ip \in IPs : Told(ip)'
      BY <1>4 DEF LogInv, OneAtATime, Told
    <2> QED BY <1>3, <1>4, <2>1
  \* A step that reports the state.
  <1>5. ASSUME NEW t \in Threads, UNCHANGED <<entries, crashes>>, NEW line,
               logged' = [logged EXCEPT ![th[t].ip] = line],
               crashes = 0 => line.to = StateOf(entries[th[t].ip]),
               th'[t].pc = "idle"
        PROVE  LogInv'
    <2>1. crashes = 0 => \A ip \in IPs : Told(ip)'
      BY <1>0, <1>5 DEF LogInv, OneAtATime, Told
    <2> QED BY <1>3, <1>5, <2>1
  \* A step that changes the entry of its goroutine, which knows both states.
  <1>6. ASSUME NEW t \in Threads, UNCHANGED <<logged, crashes>>, th'[t].ip \in IPs,
               th[t].pc \notin {"marshal", "persist", "emit", "lkDb", "lkEmit"},
               th'[t].pc \in {"marshal", "persist"},
               \A ip \in IPs : ip # th'[t].ip => entries'[ip] = entries[ip],
               crashes = 0 => th'[t].from = StateOf(entries[th'[t].ip]),
               th'[t].to = StateOf(entries'[th'[t].ip])
        PROVE  LogInv'
    <2>1. crashes = 0 => \A ip \in IPs : Told(ip)
      BY <1>6 DEF LogInv, OneAtATime
    <2>2. crashes = 0 => \A ip \in IPs : ip # th'[t].ip => Told(ip)'
      BY <1>6, <2>1 DEF Told
    <2>3. crashes = 0 => th'[t].from = logged'[th'[t].ip].to
      BY <1>6, <2>1 DEF Told
    <2> QED BY <1>6, <2>2, <2>3 DEF LogInv, OneAtATime
  <1>7. ASSUME NEW t \in Threads, ThreadStep(t) PROVE LogInv'
    <2>1. CASE LookupExpiry(t)
      BY <1>4, <2>1, StepMoves DEF LookupExpiry
    <2>2. CASE LookupState(t)
      BY <1>4, <2>2, StepMoves DEF LookupState
    <2>3. CASE LookupEmit(t)
      <3>1. th'[t].pc = "idle"
        BY <2>3, StepMoves
      <3> DEFINE line == [from |-> th[t].e.state, to |-> "clean"]
      <3>2. /\ UNCHANGED <<entries, crashes>> /\ logged' = [logged EXCEPT ![th[t].ip] = line]
            /\ line.to = "clean"
        BY <2>3 DEF LookupEmit
      <3> HIDE DEF line
      <3>3. crashes = 0 => StateOf(entries[th[t].ip]) = "clean"
        BY <2>3 DEF LookupEmit, LogInv
      <3> QED BY <1>5, <3>1, <3>2, <3>3
    <2>4. CASE Emit(t)
      <3>1. th'[t].pc = "idle"
        BY <2>4, StepMoves
      <3> DEFINE line == [from |-> th[t].from, to |-> th[t].to]
      <3>2. /\ UNCHANGED <<entries, crashes>> /\ logged' = [logged EXCEPT ![th[t].ip] = line]
            /\ line.to = th[t].to
        BY <2>4 DEF Emit
      <3> HIDE DEF line
      <3>3. crashes = 0 => StateOf(entries[th[t].ip]) = th[t].to
        BY <2>4 DEF Emit, LogInv
      <3> QED BY <1>5, <3>1, <3>2, <3>3
    <2>5. CASE LookupDelete(t)
      <3>1. th'[t].pc = "lkDb" /\ th'[t].ip = th[t].ip
        BY <2>5, StepMoves
      <3>2. /\ \A ip \in IPs : entries'[ip] = IF ip = th[t].ip THEN NoEntry ELSE entries[ip]
            /\ UNCHANGED <<logged, crashes>> /\ th[t].pc = "lkDelete"
        BY <1>0, <2>5 DEF LookupDelete
      <3>3. StateOf(entries'[th'[t].ip]) = "clean"
        BY <1>0, <3>1, <3>2 DEF StateOf, NoEntry
      <3>4. crashes = 0 => \A ip \in IPs : ip # th[t].ip => Told(ip)'
        BY <3>2 DEF LogInv, OneAtATime, Told
      <3> QED BY <3>1, <3>2, <3>3, <3>4 DEF LogInv, OneAtATime
    <2>6. CASE LookupDbDelete(t)
      <3>1. th'[t].pc = "lkEmit" /\ th'[t].ip = th[t].ip
        BY <2>6, StepMoves
      <3>2. UNCHANGED <<entries, logged, crashes>> /\ th[t].pc = "lkDb"
        BY <2>6 DEF LookupDbDelete
      <3> QED BY <3>1, <3>2 DEF LogInv, OneAtATime, Told
    <2>7. CASE ViolationLock(t)
      <3>1. CASE entries[th[t].ip].state = "blocked"
        <4>1. th'[t].pc = "idle"
          BY <2>7, <3>1, StepMoves
        <4> QED BY <1>4, <2>7, <3>1, <4>1 DEF ViolationLock
      <3>2. CASE entries[th[t].ip].state # "blocked"
        <4> DEFINE e == IF entries[th[t].ip].state = "absent"
                        THEN [NoEntry EXCEPT !.state = "clean", !.since = th[t].now]
                        ELSE entries[th[t].ip]
        <4>1. /\ th'[t].pc = "rvHold" /\ th'[t].ip = th[t].ip
              /\ th'[t].from = StateOf(entries[th[t].ip])
          BY <2>7, <3>2, StepMoves
        <4>2. UNCHANGED <<logged, crashes>> /\ th[t].pc = "rvLock"
          BY <2>7 DEF ViolationLock
        <4>3. entries' = [entries EXCEPT ![th[t].ip] = e]
          BY <1>0, <2>7, <3>2 DEF ViolationLock
        <4>4. StateOf(e) = StateOf(entries[th[t].ip])
          <5>1. CASE entries[th[t].ip].state = "absent"
            <6>1. e.state = "clean"
              BY <5>1 DEF NoEntry
            <6> HIDE DEF e
            <6> QED BY <5>1, <6>1 DEF StateOf
          <5>2. CASE entries[th[t].ip].state # "absent"
            BY <5>2
          <5> QED BY <5>1, <5>2
        <4> HIDE DEF e
        <4>5. \A ip \in IPs : StateOf(entries'[ip]) = StateOf(entries[ip])
          BY <1>0, <4>3, <4>4
        <4>6. crashes = 0 => \A ip \in IPs : Told(ip)'
          BY <4>2, <4>5 DEF LogInv, OneAtATime, Told
        <4> QED BY <1>0, <4>1, <4>2, <4>5, <4>6 DEF LogInv, OneAtATime
      <3> QED BY <3>1, <3>2
    <2>8. CASE ViolationCommit(t)
      <3>1. /\ th'[t].pc = "persist" /\ th'[t].ip = th[t].ip /\ th'[t].from = th[t].from
            /\ th'[t].to = Updated(t).state
        BY <2>8, StepMoves
      <3>2. \A ip \in IPs : entries'[ip] = IF ip = th[t].ip THEN Updated(t) ELSE entries[ip]
        BY <1>0, <2>8 DEF ViolationCommit
      <3>3. UNCHANGED <<logged, crashes>> /\ th[t].pc = "rvHold"
        BY <2>8 DEF ViolationCommit
      <3>4. Updated(t).state # "absent"
        BY DEF Updated, Escalated
      <3>5. th'[t].to = StateOf(entries'[th'[t].ip])
        BY <1>0, <3>1, <3>2, <3>4 DEF StateOf
      <3>6. crashes = 0 => th'[t].from = StateOf(entries[th'[t].ip])
        BY <3>1, <3>3 DEF LogInv
      <3> QED BY <1>0, <1>6, <3>1, <3>2, <3>3, <3>5, <3>6
    <2>9. CASE Persist(t)
      <3>1. UNCHANGED <<entries, logged, crashes>> /\ th[t].pc = "persist"
        BY <2>9 DEF Persist
      <3>2. CASE th[t].from = th[t].to
        <4>1. th'[t].pc = "idle"
          BY <2>9, <3>2, StepMoves
        <4>2. crashes = 0 => \A ip \in IPs : Told(ip)'
          BY <3>1, <3>2 DEF LogInv, OneAtATime, Told
        <4> QED BY <1>3, <3>1, <4>1, <4>2
      <3>3. CASE th[t].from # th[t].to
        <4>1. th'[t].pc = "emit" /\ th'[t].ip = th[t].ip /\ th'[t].to = th[t].to
          BY <2>9, <3>3, StepMoves
        <4> QED BY <3>1, <4>1 DEF LogInv, OneAtATime, Told
      <3> QED BY <3>2, <3>3
    <2>10. CASE Marshal(t)
      <3>1. /\ th'[t].pc = "persist" /\ th'[t].ip = th[t].ip
            /\ th'[t].from = th[t].from /\ th'[t].to = th[t].to
        BY <2>10, StepMoves
      <3>2. UNCHANGED <<entries, logged, crashes>> /\ th[t].pc = "marshal"
        BY <2>10 DEF Marshal
      <3> QED BY <3>1, <3>2 DEF LogInv, OneAtATime, Told
    <2> QED BY <1>7, <2>1, <2>2, <2>3, <2>4, <2>5, <2>6, <2>7, <2>8, <2>9, <2>10 DEF ThreadStep
  <1>8. ASSUME NEW t \in Threads, NEW ip \in IPs, Call(t, ip) PROVE LogInv'
    <2>1. CASE LookupGet(t, ip)
      <3>1. th'[t].pc \in {"idle", "lkExpiry"}
        BY <2>1, CallMoves
      <3> QED BY <1>4, <2>1, <3>1 DEF LookupGet, Idle
    <2>2. CASE RegisterViolation(t, ip)
      <3>1. th'[t].pc = "rvLock"
        BY <2>2, CallMoves
      <3> QED BY <1>4, <2>2, <3>1 DEF RegisterViolation, Idle
    <2>3. ASSUME NEW e, Replace(t, ip, e), UNCHANGED <<logged, crashes>>, e.state # "absent"
          PROVE  LogInv'
      <3>1. /\ th'[t].pc = "marshal" /\ th'[t].ip = ip
            /\ th'[t].from = StateOf(entries[ip]) /\ th'[t].to = e.state
        BY <2>3, CallMoves
      <3>2. /\ th[t].pc = "idle" /\ \A i \in IPs : i # ip => entries'[i] = entries[i]
            /\ entries'[ip] = e
        BY <1>0, <2>3 DEF Replace, Idle
      <3>3. th'[t].to = StateOf(entries'[th'[t].ip])
        BY <2>3, <3>1, <3>2 DEF StateOf
      <3> QED BY <1>6, <2>3, <3>1, <3>2, <3>3
    <2>4. \A s, now, ttl : NewEntry(s, now, ttl).state = s
      BY DEF NewEntry
    <2> QED BY <1>8, <2>1, <2>2, <2>3, <2>4 DEF Call, MarkClean, Block
  <1> QED BY <1>1, <1>2, <1>7, <1>8 DEF Next

\* Used by one goroutine at a time, and until it first crashes, the manager
\* leaves no transition out of its log ("Every transition is emitted",
\* reputation.go:8), whatever the database does.
THEOREM SequentialLogIsTrue == OneAtATime => (Spec => []LogTellsState)
  <1> SUFFICES ASSUME OneAtATime PROVE Spec => []LogTellsState
    OBVIOUS
  <1>1. Init => LogInv
    <2> SUFFICES ASSUME Init PROVE LogInv
      OBVIOUS
    <2>1. \A ip \in IPs : Return(ip, "none").pc = "idle"
      BY ReturnType, Names
    <2>2. \A t \in Threads : th[t].pc = "idle"
      BY <2>1 DEF Init
    <2>3. \A ip \in IPs : Told(ip)
      BY DEF Init, Told, StateOf, NoEntry
    <2> QED BY <2>2, <2>3 DEF LogInv
  <1>2. TypeInv /\ LogInv /\ [Next]_vars => LogInv'
    BY NextLog
  <1>3. LogInv => LogTellsState
    BY DEF LogInv, Told, LogTellsState, Quiet, Idle
  <1> QED BY InitTypeInv, NextTypeInv, <1>1, <1>2, <1>3, PTL DEF Spec

\* What is counted at one time is counted later.
LEMMA CountedLater ==
    ASSUME TypeInv, NEW ip \in IPs, NEW now \in Nat, NEW later \in Nat, now <= later,
           Counted(ip, now)
    PROVE  Counted(ip, later)
  <1>1. entries[ip].since \in Nat /\ \A v \in Unforgiven(ip) : v.at \in Nat
    BY DEF TypeInv, TypeOK, Entry, Unforgiven, Violation
  <1> QED BY <1>1, Constants DEF Counted

\* One more violation, counted at its own time, which is not before the last
\* one: the entry counts it and still all that matter.
LEMMA CommitCounts ==
    ASSUME TypeInv, TypeInv', Provenance', NEW t \in Threads, ViolationCommit(t),
           Counted(th[t].ip, th[t].now),
           entries[th[t].ip].state # "blocked"
    PROVE  Counted(th[t].ip, th[t].now)'
  <1>0. PICK ip \in IPs : ip = th[t].ip
    BY DEF TypeInv, TypeOK, Thread
  <1>1. PICK now \in Nat : now = th[t].now
    BY DEF TypeInv, TypeOK, Thread
  <1>2. PICK x : x = Incident(t)
    OBVIOUS
  <1> DEFINE e == entries[ip]
             vs == Pruned(e.violations \cup {x}, now)
  <1>3. x.at = now
    BY <1>1, <1>2 DEF Incident
  <1>4. /\ e \in Entry /\ e.since \in Nat
        /\ \A v \in Unforgiven(ip) : v.at \in Nat
    BY DEF TypeInv, TypeOK, Entry, Unforgiven, Violation
  <1>5. /\ entries'[ip].violations = vs /\ entries'[ip].since = now
        /\ entries'[ip].state = IF Cardinality(vs) >= BlockThreshold THEN "blocked" ELSE "greylisted"
        /\ entries'[ip].state = "greylisted" => entries'[ip].expiry = now + GreylistTTL
    <2>1. entries'[ip] = Escalated(entries[ip], x)
      BY <1>0, <1>2 DEF ViolationCommit, Updated, TypeInv, TypeOK
    <2> QED BY <1>3, <2>1 DEF Escalated
  <1>6. incidents'[ip] = incidents[ip] \cup {x} /\ forgiven' = forgiven
    BY <1>0, <1>2 DEF ViolationCommit, TypeInv, TypeOK
  <1>7. ASSUME NEW v \in Unforgiven(ip)'
        PROVE  v.at <= now /\ (v.at > now - Window => v \in vs)
    <2>1. v = x \/ v \in Unforgiven(ip)
      BY <1>6 DEF Unforgiven
    <2>2. CASE v = x
      BY <1>3, <2>2 DEF Pruned
    <2>3. CASE v \in Unforgiven(ip) /\ e.state \in {"absent", "clean"}
      <3>1. v.at + Window <= now
        BY <1>0, <1>1, <2>3 DEF Counted
      <3> QED BY <1>4, <2>3, <3>1, Constants
    <2>4. CASE v \in Unforgiven(ip) /\ e.state = "greylisted"
      <3>1. e.since <= now /\ v.at <= e.since /\ (v.at > e.since - Window => v \in e.violations)
        BY <1>0, <1>1, <2>4 DEF Counted
      <3>2. v.at \in Nat
        BY <1>4, <2>4
      <3>3. v.at > now - Window => v \in e.violations
        BY <1>4, <3>1, <3>2, Constants
      <3>4. v.at <= now
        BY <1>4, <3>1, <3>2
      <3> QED BY <3>3, <3>4 DEF Pruned
    <2>5. e.state \in {"absent", "clean", "greylisted"}
      BY <1>0, <1>4 DEF Entry, State
    <2> QED BY <2>1, <2>2, <2>3, <2>4, <2>5
  <1>8. Cardinality(vs) \in Nat
    <2>1. IsFiniteSet(vs)
      <3>1. IsFiniteSet(incidents'[ip]) /\ entries'[ip].violations \subseteq incidents'[ip]
        BY DEF TypeInv, FiniteIncidents, Provenance, WellFounded
      <3> QED BY <1>5, <3>1, FS_Subset
    <2> QED BY <2>1, FS_CardinalityType
  <1>9. entries'[ip].state = "greylisted" => Cardinality(vs) < BlockThreshold
    BY <1>5, <1>8, Constants
  <1>10. entries'[ip].state \in {"greylisted", "blocked"}
    BY <1>5
  <1> HIDE DEF vs
  <1>11. LET f == entries'[ip] IN
         /\ f.state \notin {"absent", "clean"}
         /\ f.state = "greylisted" =>
              /\ f.since <= now /\ f.expiry = f.since + GreylistTTL
              /\ \A v \in Unforgiven(ip)' :
                    v.at <= f.since /\ (v.at > f.since - Window => v \in f.violations)
              /\ Cardinality(f.violations) < BlockThreshold
    BY <1>5, <1>7, <1>9, <1>10
  <1>12. th'[t].ip = ip /\ th'[t].now = now
    BY <1>0, <1>1, StepMoves
  <1> QED BY <1>11, <1>12 DEF Counted

\* With a single goroutine, and a greylisting that outlasts the window, no step
\* loses count.
LEMMA NextCounted ==
    ASSUME OneAtATime, GreylistTTL >= Window, TypeInv, TypeInv', Provenance', LockInv,
           CountedInv, [Next]_vars
    PROVE  CountedInv'
  <1>0. /\ entries \in [IPs -> Entry] /\ clock \in Nat /\ crashes \in Nat
        /\ \A t \in Threads : th[t].ip \in IPs /\ th[t].now \in Nat
    BY DEF TypeInv, TypeOK, Thread
  <1>1. CASE UNCHANGED vars
    BY <1>1 DEF vars, CountedInv, Counted, Unforgiven
  <1>2. CASE Crash
    <2>1. crashes' # 0
      BY <1>0, <1>2 DEF Crash
    <2> QED BY <2>1 DEF CountedInv
  \* It remains to look at the steps before the first crash.
  <1>3. CASE crashes' # 0
    BY <1>3 DEF CountedInv
  <1>4. CASE Tick /\ crashes' = 0
    <2>1. /\ UNCHANGED <<entries, incidents, forgiven, th, crashes>> /\ clock' = clock + 1
          /\ crashes = 0
      BY <1>4 DEF Tick, history
    <2>2. \A ip \in IPs : Counted(ip, clock + 1)
      BY <1>0, <2>1, CountedLater DEF CountedInv
    <2>3. \A ip \in IPs : Counted(ip, clock)'
      BY <2>1, <2>2 DEF Counted, Unforgiven
    <2>4. ASSUME NEW t \in Threads
          PROVE  /\ th'[t].pc \in {"rvLock", "rvHold"} =>
                       th'[t].now <= clock' /\ Counted(th[t].ip, th[t].now)'
                 /\ th'[t].pc \in {"lkExpiry", "lkState", "lkDelete"} => th'[t].live
                 /\ th'[t].pc = "lkDelete" => Expired(entries[th[t].ip], clock)'
      <3>1. th[t].pc \in {"rvLock", "rvHold"} => th[t].now <= clock /\ Counted(th[t].ip, th[t].now)
        BY <2>1 DEF CountedInv
      <3>2. th[t].pc \in {"rvLock", "rvHold"} =>
                 th'[t].now <= clock' /\ Counted(th[t].ip, th[t].now)'
        BY <1>0, <2>1, <3>1 DEF Counted, Unforgiven
      <3>3. entries[th[t].ip].expiry \in Nat
        BY <1>0 DEF Entry
      <3>4. th[t].pc = "lkDelete" => Expired(entries[th[t].ip], clock)'
        BY <1>0, <2>1, <3>3 DEF CountedInv, Expired
      <3> QED BY <2>1, <3>2, <3>4 DEF CountedInv
    <2> QED BY <2>3, <2>4 DEF CountedInv
  \* A step that leaves the counts alone.
  <1>5. ASSUME NEW t \in Threads, UNCHANGED <<entries, incidents, forgiven, clock, crashes>>,
               crashes' = 0,
               th'[t].pc \in {"rvLock", "rvHold"} => th'[t].now = clock,
               th'[t].pc \in {"lkExpiry", "lkState", "lkDelete"} => th'[t].live,
               th'[t].pc = "lkDelete" => Expired(entries[th'[t].ip], clock)
        PROVE  CountedInv'
    <2>1. \A ip \in IPs : Counted(ip, clock) /\ Counted(ip, clock)'
      BY <1>5 DEF CountedInv, Counted, Unforgiven
    <2>2. th'[t].ip \in IPs
      BY DEF TypeInv, TypeOK, Thread
    <2>3. th'[t].pc \in {"rvLock", "rvHold"} =>
              th'[t].now <= clock' /\ Counted(th[t].ip, th[t].now)'
      <3> SUFFICES ASSUME th'[t].pc \in {"rvLock", "rvHold"}
                   PROVE  th'[t].now <= clock' /\ Counted(th[t].ip, th[t].now)'
        OBVIOUS
      <3>1. th'[t].now = clock
        BY <1>5
      <3>2. Counted(th[t].ip, clock)'
        BY <2>1, <2>2
      <3>3. Counted(th[t].ip, th[t].now)'
        BY <1>5, <3>1, <3>2 DEF Counted
      <3> QED BY <1>0, <1>5, <3>1, <3>3
    <2>4. th'[t].pc = "lkDelete" => Expired(entries[th[t].ip], clock)'
      BY <1>5 DEF Expired
    <2> QED BY <1>5, <2>1, <2>3, <2>4 DEF CountedInv, OneAtATime
  \* A step that changes the entry of its goroutine and leaves it counted.
  <1>6. ASSUME NEW t \in Threads, UNCHANGED <<clock, crashes>>, crashes' = 0,
               th'[t].pc \notin {"rvLock", "rvHold", "lkExpiry", "lkState", "lkDelete"},
               \A ip \in IPs : ip # th'[t].ip =>
                   /\ entries'[ip] = entries[ip] /\ incidents'[ip] = incidents[ip]
                   /\ forgiven'[ip] = forgiven[ip],
               Counted(th[t].ip, clock)'
        PROVE  CountedInv'
    <2>1. ASSUME NEW ip \in IPs
          PROVE  Counted(ip, clock)'
      <3>1. CASE ip = th'[t].ip
        BY <1>6, <3>1 DEF Counted, Unforgiven
      <3>2. CASE ip # th'[t].ip
        <4>1. Counted(ip, clock)
          BY <1>6 DEF CountedInv
        <4> QED BY <1>6, <3>2, <4>1 DEF Counted, Unforgiven
      <3> QED BY <3>1, <3>2
    <2> QED BY <1>6, <2>1 DEF CountedInv, OneAtATime
  <1>7. ASSUME NEW t \in Threads, ThreadStep(t), crashes' = 0 PROVE CountedInv'
    <2>0. crashes = 0 /\ clock' = clock
      BY <1>7 DEF ThreadStep, LookupExpiry, LookupState, LookupDelete, LookupDbDelete,
                  LookupEmit, ViolationLock, ViolationCommit, Marshal, Persist, Emit
    <2>1. CASE LookupExpiry(t)
      <3>1. /\ th'[t].pc = IF Expired(Pointee(t), clock) THEN "lkDelete" ELSE "lkState"
            /\ th'[t].ip = th[t].ip /\ th'[t].live = th[t].live
        BY <2>1, StepMoves
      <3>2. th[t].live
        BY <2>0, <2>1 DEF LookupExpiry, CountedInv
      <3>3. th'[t].pc = "lkDelete" => Expired(entries[th'[t].ip], clock)
        BY <3>1, <3>2 DEF Pointee
      <3>4. UNCHANGED <<entries, incidents, forgiven, clock, crashes>>
        BY <2>1 DEF LookupExpiry, history
      <3> QED BY <1>5, <1>7, <3>1, <3>2, <3>3, <3>4
    <2>2. CASE LookupState(t) \/ LookupEmit(t) \/ Emit(t)
      <3>1. th'[t].pc = "idle"
        BY <2>2, StepMoves
      <3>2. UNCHANGED <<entries, incidents, forgiven, clock, crashes>>
        BY <2>2 DEF LookupState, LookupEmit, Emit, history
      <3> QED BY <1>5, <1>7, <3>1, <3>2
    <2>3. CASE LookupDbDelete(t) \/ Marshal(t) \/ Persist(t)
      <3>1. th'[t].pc \in {"lkEmit", "persist", "idle", "emit"}
        BY <2>3, StepMoves
      <3>2. UNCHANGED <<entries, incidents, forgiven, clock, crashes>>
        BY <2>3 DEF LookupDbDelete, Marshal, Persist, history
      <3> QED BY <1>5, <1>7, <3>1, <3>2
    <2>4. CASE LookupDelete(t)
      <3>0. PICK ip \in IPs : ip = th[t].ip
        BY <1>0
      <3>1. th'[t].pc = "lkDb" /\ th'[t].ip = ip
        BY <2>4, <3>0, StepMoves
      <3>2. /\ \A i \in IPs : entries'[i] = IF i = ip THEN NoEntry ELSE entries[i]
            /\ incidents' = incidents
            /\ \A i \in IPs : i # ip => forgiven'[i] = forgiven[i]
            /\ forgiven'[ip] = IF entries[ip].state = "blocked" THEN incidents[ip] ELSE forgiven[ip]
            /\ th[t].pc = "lkDelete"
        BY <1>0, <2>4, <3>0 DEF LookupDelete, TypeInv, TypeOK
      <3>3. Counted(ip, clock) /\ Expired(entries[ip], clock)
        BY <2>0, <3>0, <3>2 DEF CountedInv
      <3>4. /\ entries[ip].state \in {"absent", "clean", "greylisted", "blocked"}
            /\ entries[ip].since \in Nat /\ entries[ip].expiry \in Nat
        BY <1>0 DEF Entry, State
      <3>5. ASSUME NEW v \in Unforgiven(ip)'
            PROVE  v.at + Window <= clock
        <4>1. entries[ip].state # "blocked" /\ v \in Unforgiven(ip) /\ v.at \in Nat
          BY <3>2 DEF Unforgiven, TypeInv, TypeOK, Violation
        <4>2. CASE entries[ip].state \in {"absent", "clean"}
          BY <3>3, <4>1, <4>2 DEF Counted
        <4>3. CASE entries[ip].state = "greylisted"
          <5>1. entries[ip].expiry = entries[ip].since + GreylistTTL /\ v.at <= entries[ip].since
            BY <3>3, <4>1, <4>3 DEF Counted
          <5>2. clock > entries[ip].expiry
            BY <3>3 DEF Expired
          <5> QED BY <1>0, <3>4, <4>1, <5>1, <5>2, Constants
        <4> QED BY <3>4, <4>1, <4>2, <4>3
      <3>6. entries'[ip].state = "absent"
        BY <3>2 DEF NoEntry
      <3>7. Counted(ip, clock)'
        BY <2>0, <3>5, <3>6 DEF Counted
      <3>8. Counted(th[t].ip, clock)'
        BY <3>1, <3>7 DEF Counted, Unforgiven
      <3> QED BY <1>6, <1>7, <2>0, <3>1, <3>2, <3>8
    <2>5. CASE ViolationLock(t)
      <3>0. PICK ip \in IPs : ip = th[t].ip
        BY <1>0
      <3>00. UNCHANGED <<incidents, forgiven>> /\ th[t].pc = "rvLock"
        BY <2>5 DEF ViolationLock, history
      <3>1. CASE entries[ip].state = "blocked"
        <4>1. th'[t].pc = "idle"
          BY <2>5, <3>0, <3>1, StepMoves
        <4>2. entries' = entries
          BY <2>5, <3>0, <3>1 DEF ViolationLock
        <4> QED BY <1>5, <1>7, <2>0, <3>00, <4>1, <4>2
      <3>2. CASE entries[ip].state # "blocked"
        <4> DEFINE e == IF entries[ip].state = "absent"
                        THEN [NoEntry EXCEPT !.state = "clean", !.since = th[t].now]
                        ELSE entries[ip]
        <4>1. th'[t].pc = "rvHold" /\ th'[t].ip = ip /\ th'[t].now = th[t].now
          BY <2>5, <3>0, <3>2, StepMoves
        <4>2. entries' = [entries EXCEPT ![ip] = e]
          BY <1>0, <2>5, <3>0, <3>2 DEF ViolationLock
        <4>3. \/ e = entries[ip]
              \/ e.state = "clean" /\ entries[ip].state = "absent"
          BY DEF NoEntry
        <4> HIDE DEF e
        <4>4. \A i \in IPs : entries'[i] = IF i = ip THEN e ELSE entries[i]
          BY <1>0, <4>2
        <4>5. ASSUME NEW i \in IPs, NEW now, Counted(i, now)
              PROVE  Counted(i, now)'
          <5>1. Unforgiven(i)' = Unforgiven(i)
            BY <3>00 DEF Unforgiven
          <5>2. CASE entries'[i] = entries[i]
            BY <4>5, <5>1, <5>2 DEF Counted
          <5>3. CASE entries'[i].state = "clean" /\ entries[i].state = "absent"
            BY <4>5, <5>1, <5>3 DEF Counted
          <5> QED BY <4>3, <4>4, <5>2, <5>3
        <4>6. \A i \in IPs : Counted(i, clock)'
          BY <2>0, <4>5 DEF CountedInv, Counted
        <4>7. th[t].now <= clock /\ Counted(ip, th[t].now)
          BY <2>0, <3>0, <3>00 DEF CountedInv
        <4>8. PICK now : now = th[t].now
          OBVIOUS
        <4>9. Counted(ip, now)'
          BY <4>5, <4>7, <4>8
        <4>10. Counted(th[t].ip, th[t].now)'
          BY <4>1, <4>8, <4>9 DEF Counted, Unforgiven
        <4> QED BY <2>0, <4>1, <4>6, <4>7, <4>10 DEF CountedInv, OneAtATime
      <3> QED BY <3>1, <3>2
    <2>6. CASE ViolationCommit(t)
      <3>0. PICK ip \in IPs : ip = th[t].ip
        BY <1>0
      <3>1. th'[t].pc = "persist" /\ th'[t].ip = ip /\ th'[t].now = th[t].now
        BY <2>6, <3>0, StepMoves
      <3>2. /\ \A i \in IPs : i # ip => entries'[i] = entries[i] /\ incidents'[i] = incidents[i]
            /\ forgiven' = forgiven /\ th[t].pc = "rvHold"
        BY <1>0, <2>6, <3>0 DEF ViolationCommit, TypeInv, TypeOK
      <3>3. th[t].now <= clock /\ Counted(th[t].ip, th[t].now)
        BY <2>0, <3>2 DEF CountedInv
      <3>4. entries[th[t].ip].state # "blocked"
        BY <3>2 DEF LockInv
      <3>5. Counted(th[t].ip, th[t].now)'
        BY <2>6, <3>3, <3>4, CommitCounts
      <3>6. Counted(th[t].ip, clock)'
        <4>1. /\ Counted(th[t].ip, th[t].now)' => \A v \in Unforgiven(ip)' : v.at \in Nat
              /\ entries'[ip].since \in Nat
          BY DEF TypeInv, TypeOK, Entry, Unforgiven, Violation
        <4>2. th'[t].now <= clock' /\ th'[t].now \in Nat /\ clock' \in Nat
          BY <1>0, <2>0, <3>1, <3>3
        <4> QED BY <3>1, <3>5, <4>1, <4>2, Constants DEF Counted
      <3> QED BY <1>6, <1>7, <2>0, <3>1, <3>2, <3>6
    <2> QED BY <1>7, <2>1, <2>2, <2>3, <2>4, <2>5, <2>6 DEF ThreadStep
  <1>8. ASSUME NEW t \in Threads, NEW ip \in IPs, Call(t, ip), crashes' = 0 PROVE CountedInv'
    <2>1. CASE LookupGet(t, ip)
      <3>1. \/ th'[t].pc = "idle"
            \/ th'[t].pc = "lkExpiry" /\ th'[t].live
        BY <2>1, CallMoves
      <3> QED BY <1>5, <1>8, <2>1, <3>1 DEF LookupGet, history
    <2>2. CASE RegisterViolation(t, ip)
      <3>1. th'[t].pc = "rvLock" /\ th'[t].now = clock
        BY <2>2, CallMoves
      <3> QED BY <1>5, <1>8, <2>2, <3>1 DEF RegisterViolation, history
    <2>3. ASSUME NEW e, Replace(t, ip, e), UNCHANGED <<clock, incidents, crashes>>,
                 e.state # "greylisted"
          PROVE  CountedInv'
      <3>1. th'[t].pc = "marshal" /\ th'[t].ip = ip
        BY <2>3, CallMoves
      <3>2. /\ \A i \in IPs : i # ip => entries'[i] = entries[i] /\ forgiven'[i] = forgiven[i]
            /\ entries'[ip] = e /\ forgiven'[ip] = incidents[ip]
        BY <1>0, <2>3 DEF Replace, TypeInv, TypeOK
      <3>3. Counted(th[t].ip, clock)'
        BY <2>3, <3>1, <3>2 DEF Counted, Unforgiven
      <3> QED BY <1>6, <1>8, <2>3, <3>1, <3>2, <3>3
    <2>4. \A s, now, ttl : NewEntry(s, now, ttl).state = s
      BY DEF NewEntry
    <2> QED BY <1>8, <2>1, <2>2, <2>3, <2>4 DEF Call, MarkClean, Block
  <1> QED BY <1>1, <1>2, <1>3, <1>4, <1>7, <1>8 DEF Next

\* Used by one goroutine at a time, with a greylisting that outlasts the
\* window and until it first crashes, the manager misses no block: an address
\* it keeps greylisted has fewer unforgiven violations than the threshold in
\* the window before its last one (reputation.go:4-5, 186-208).
THEOREM SequentialMissesNoBlock ==
    OneAtATime /\ GreylistTTL >= Window => (Spec => []NoMissedBlock)
  <1> SUFFICES ASSUME OneAtATime, GreylistTTL >= Window PROVE Spec => []NoMissedBlock
    OBVIOUS
  <1>1. Init => Provenance /\ LockInv /\ CountedInv
    <2> SUFFICES ASSUME Init PROVE Provenance /\ LockInv /\ CountedInv
      OBVIOUS
    <2>1. \A ip \in IPs : Return(ip, "none").e = NoEntry /\ Return(ip, "none").pc = "idle"
      BY ReturnType, Names
    <2>2. \A t \in Threads : th[t].e = NoEntry /\ th[t].pc = "idle"
      BY <2>1 DEF Init
    <2>3. \A ip \in IPs : Counted(ip, clock)
      BY DEF Init, Counted, Unforgiven, NoEntry
    <2>4. Provenance /\ LockInv
      BY <2>2, CleanIsWellFounded, ZenonT(60) DEF Init, Provenance, LockInv
    <2>5. CountedInv
      BY <2>2, <2>3 DEF CountedInv
    <2> QED BY <2>4, <2>5
  <1>2. TypeInv /\ TypeInv' /\ Provenance' /\ LockInv /\ CountedInv /\ [Next]_vars => CountedInv'
    BY NextCounted
  <1>3. TypeInv /\ Provenance /\ CountedInv => NoMissedBlock
    <2> SUFFICES ASSUME TypeInv, Provenance, CountedInv, crashes = 0, NEW ip \in IPs,
                        entries[ip].state = "greylisted"
                 PROVE  Cardinality({v \in incidents[ip] \ forgiven[ip] :
                                        v.at > entries[ip].since - Window}) < BlockThreshold
      BY DEF NoMissedBlock
    <2> DEFINE C == {v \in incidents[ip] \ forgiven[ip] : v.at > entries[ip].since - Window}
    <2>1. C \subseteq entries[ip].violations /\ Cardinality(entries[ip].violations) < BlockThreshold
      BY DEF CountedInv, Counted, Unforgiven
    <2>2. IsFiniteSet(entries[ip].violations)
      BY EntriesFinite
    <2> HIDE DEF C
    <2>3. /\ Cardinality(C) <= Cardinality(entries[ip].violations)
          /\ Cardinality(C) \in Nat /\ Cardinality(entries[ip].violations) \in Nat
      BY <2>1, <2>2, FS_Subset, FS_CardinalityType
    <2>4. Cardinality(C) < BlockThreshold
      BY <2>1, <2>3, Constants
    <2> QED BY <2>4 DEF C
  <1> QED BY InitTypeInv, NextTypeInv, NextProvenance, NextLockInv, <1>1, <1>2, <1>3, PTL DEF Spec

\* A Lookup on its way to the delete has found the entry expired, and it still
\* is the entry of the map.
LookupInv ==
    \A t \in Threads :
        /\ th[t].pc \in {"lkExpiry", "lkDelete"} => th[t].live
        /\ th[t].pc = "lkDelete" => Expired(entries[th[t].ip], clock)

LEMMA NextLookup ==
    ASSUME OneAtATime, TypeInv, LookupInv, [Next]_vars
    PROVE  LookupInv'
  <1>1. CASE UNCHANGED vars
    BY <1>1 DEF vars, LookupInv
  <1>2. CASE Tick
    <2>1. \A ip \in IPs : Expired(entries[ip], clock) => Expired(entries'[ip], clock')
      <3> SUFFICES ASSUME NEW ip \in IPs, Expired(entries[ip], clock)
                   PROVE  Expired(entries'[ip], clock')
        OBVIOUS
      <3>1. entries[ip].expiry \in Nat /\ clock \in Nat
        BY DEF TypeInv, TypeOK, Entry
      <3> QED BY <1>2, <3>1 DEF Tick, Expired
    <2>2. \A t \in Threads : th[t].ip \in IPs
      BY DEF TypeInv, TypeOK, Thread
    <2> QED BY <1>2, <2>1, <2>2 DEF Tick, LookupInv
  <1>3. CASE Crash
    BY <1>3, CrashMoves DEF LookupInv
  <1>4. ASSUME NEW t \in Threads, ThreadStep(t) PROVE LookupInv'
    <2>1. \A u \in Threads : u = t
      BY DEF OneAtATime
    <2>2. CASE LookupExpiry(t)
      <3>1. /\ th'[t].pc = IF Expired(Pointee(t), clock) THEN "lkDelete" ELSE "lkState"
            /\ th'[t].ip = th[t].ip /\ th'[t].live = th[t].live
            /\ entries' = entries /\ clock' = clock
        BY <2>2, StepMoves DEF LookupExpiry
      <3>2. th[t].live
        BY <2>2 DEF LookupExpiry, LookupInv
      <3> QED BY <2>1, <3>1, <3>2 DEF LookupInv, Pointee
    <2>3. CASE ~LookupExpiry(t)
      <3>1. th'[t].pc \notin {"lkExpiry", "lkDelete"}
        BY <1>4, <2>3, StepMoves DEF ThreadStep
      <3> QED BY <2>1, <3>1 DEF LookupInv
    <2> QED BY <2>2, <2>3
  <1>5. ASSUME NEW t \in Threads, NEW ip \in IPs, Call(t, ip) PROVE LookupInv'
    <2>1. \A u \in Threads : u = t
      BY DEF OneAtATime
    <2>2. th'[t].pc # "lkDelete" /\ (th'[t].pc = "lkExpiry" => th'[t].live)
      BY <1>5, CallMoves DEF Call, MarkClean, Block
    <2> QED BY <2>1, <2>2 DEF LookupInv
  <1> QED BY <1>1, <1>2, <1>3, <1>4, <1>5 DEF Next

\* Used by one goroutine at a time, a block stands until it expires, the client
\* passes a challenge or the process restarts: the delete of a Lookup, which
\* several goroutines can turn against a fresh block (the finding at
\* reputation.go:160), then meets only the entry it found expired.
THEOREM SequentialBlocksLast == OneAtATime => (Spec => BlockLastsItsTTL)
  <1> SUFFICES ASSUME OneAtATime PROVE Spec => BlockLastsItsTTL
    OBVIOUS
  <1> DEFINE Lasts ==
        \A ip \in IPs : BlockedNow(ip) /\ entries'[ip].state # "blocked"
          => Crash \/ \E t \in Threads : MarkClean(t, ip)
             Limited ==
        \A ip \in IPs : BlockedNow(ip) /\ entries'[ip].state # "blocked"
          => \/ Crash
             \/ \E t \in Threads : MarkClean(t, ip)
             \/ \E t \in Threads : th[t].ip = ip /\ LookupDelete(t)
  <1>1. Init => LookupInv
    <2> SUFFICES ASSUME Init PROVE LookupInv
      OBVIOUS
    <2>1. \A ip \in IPs : Return(ip, "none").pc = "idle"
      BY ReturnType, Names
    <2>2. \A t \in Threads : th[t].pc = "idle"
      BY <2>1 DEF Init
    <2> QED BY <2>2 DEF LookupInv
  <1>2. TypeInv /\ LookupInv /\ [Next]_vars => LookupInv'
    BY NextLookup
  <1>3. TypeInv /\ LookupInv /\ [Limited]_vars => [Lasts]_vars
    <2> SUFFICES ASSUME TypeInv, LookupInv, NEW ip \in IPs, BlockedNow(ip),
                        NEW t \in Threads, th[t].ip = ip, LookupDelete(t)
                 PROVE  FALSE
      OBVIOUS
    <2>1. Expired(entries[ip], clock)
      BY DEF LookupDelete, LookupInv
    <2>2. entries[ip].expiry \in Nat /\ clock \in Nat
      BY DEF TypeInv, TypeOK, Entry
    <2> QED BY <2>1, <2>2 DEF BlockedNow, Expired
  <1>4. Spec => [][Limited]_vars
    BY UnblockingIsLimited DEF UnblockedOnlyBy
  <1> QED BY InitTypeInv, NextTypeInv, <1>1, <1>2, <1>3, <1>4, PTL DEF Spec, BlockLastsItsTTL
=============================================================================
