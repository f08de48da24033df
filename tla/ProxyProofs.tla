---------------------------- MODULE ProxyProofs -----------------------------
(***************************************************************************)
(* Proofs about the request pipeline, for any number of requests in        *)
(* flight, any clients, addresses, configurations and rule sets.           *)
(*                                                                         *)
(* The inductive invariant has three parts.  Types gives every slot one of *)
(* three kinds of records; Sound says what a request that is being served  *)
(* went through, from its own record alone; Strikes relates the plain      *)
(* challenges charged to an address to the requests still in flight.       *)
(***************************************************************************)
EXTENDS Proxy, FiniteSetTheorems, SequenceTheorems, WellFoundedInduction, TLAPS

\* The stages of a request that is being served.
Stages == {"lookup", "grace", "verify", "pass", "inspect", "guard", "act", "punish",
           "forward", "sent"}

\* The stages between the reputation check and the verdict on a request.
Undecided == {"inspect", "guard", "act", "punish"}

Serving == [pc : Stages, client : Clients, ip : IPs, ask : {"page", "verify"}, cfg : Configs,
            key : Keys, sid : 0..MaxSids, todo : Action \cup {"none"}, record : BOOLEAN,
            panicked : BOOLEAN, met : State \cup {"none"}, raced : BOOLEAN,
            graced : BOOLEAN, abuse : BOOLEAN, cleared : BOOLEAN, spared : BOOLEAN,
            sent : Nat]

Answering == [pc : {"answered"}, client : Clients, token : BOOLEAN, sid : 0..MaxSids]

\* The variables have their types, the slots too.
Types ==
    /\ rep \in [IPs -> Value] /\ plain \in [IPs -> Nat]
    /\ seen \subseteq Keys /\ passed \subseteq seen
    /\ cookie \in [Clients -> 0..MaxSids]
    /\ token \in BOOLEAN
    /\ req \in [Slots -> {NoRequest} \cup Answering \cup Serving]

\* What a request that was served so far went through.
\*   - It was handed to the backend at most once, and once more after a panic.
Counted(q) ==
    /\ q.sent <= (IF q.pc = "sent" THEN 1 ELSE 0) + (IF q.panicked THEN 1 ELSE 0)
    /\ q.panicked => q.cfg.failOpen /\ q.pc \in {"forward", "sent"}

\*   - It is forwarded by right, and no rule against abuse let it go.
Entitled(q) ==
    /\ q.pc \in Undecided \cup {"grace"} => q.ask = "page"
    /\ q.pc \in {"forward", "sent"} =>
          \/ q.ip \in q.cfg.whitelist
          \/ q.panicked
          \/ /\ \/ q.todo = "log-only" \/ q.cleared
                \/ q.todo = "challenge" /\ q.spared
             /\ q.ask = "page"
    /\ q.pc = "act" => q.todo = "challenge"
    /\ q.abuse /\ ~q.panicked => q.pc = "punish" /\ q.todo \in Abuse

\*   - It met an address that was not blocked, and if that was greylisted its
\*     session has passed a challenge.
Admitted(q) ==
    /\ q.pc = "verify" => q.met # "blocked"
    /\ q.pc = "grace" => q.met = "greylisted"
    /\ q.pc \in Undecided => q.met \in {"clean", "greylisted"}
    /\ q.pc \in Undecided \cup {"forward", "sent"} /\ q.met = "greylisted" =>
          q.graced \/ ~q.cfg.challenge \/ q.raced

Sound == \A r \in Slots : InPipeline(r) => Counted(req[r]) /\ Entitled(req[r]) /\ Admitted(req[r])

\* The requests that may yet charge a plain challenge to ip.
Chargeable(ip) ==
    {r \in Slots : req[r].pc \in Undecided /\ req[r].ip = ip /\ req[r].met = "clean"}

\* A clean address has no strikes, and every strike has used up a slot.
Strikes ==
    \A ip \in IPs :
        /\ rep[ip].state = "clean" => plain[ip] = 0
        /\ plain[ip] + Cardinality(Chargeable(ip)) <= Cardinality(Slots)

Inv == Types /\ Sound /\ Strikes

-----------------------------------------------------------------------------
(* Facts about the operators. *)

\* A set of numbers that is not empty has a least one, and First is it.
LEMMA FirstIsLeast ==
    ASSUME NEW S \in SUBSET Nat, S # {}
    PROVE  First(S) \in S /\ \A j \in S : First(S) <= j
  <1>1. PICK x \in S : \A y \in S : ~(<<y, x>> \in OpToRel(<, Nat))
    <2>1. IsWellFoundedOn(OpToRel(<, Nat), Nat)
      BY NatLessThanWellFounded
    <2> QED BY <2>1, WFMin
  <1>2. \A y \in S : ~(y < x)
    BY <1>1 DEF OpToRel
  <1>3. \A y \in S : x <= y
    BY <1>2
  <1> QED BY <1>3 DEF First

\* Of a list of values the first that is given is one of them.
LEMMA FirstGivenType ==
    ASSUME NEW S, NEW none \in S, NEW a \in S, NEW f \in Seq(S)
    PROVE  FirstGiven(<<a>> \o f, none) \in S
  <1> DEFINE values == <<a>> \o f
             given == {i \in DOMAIN values : values[i] # none}
  <1>1. values \in Seq(S)
    OBVIOUS
  <1>2. DOMAIN values \subseteq Nat /\ \A i \in DOMAIN values : values[i] \in S
    <2> HIDE DEF values
    <2> QED BY <1>1
  <1>3. given # {} => First(given) \in given
    BY <1>2, FirstIsLeast
  <1> QED BY <1>2, <1>3 DEF FirstGiven

\* A loaded signature has one of the actions the pipeline knows.
LEMMA EngineTypes ==
    ASSUME NEW sigs \in Engines
    PROVE  DOMAIN sigs \subseteq Nat /\ \A i \in DOMAIN sigs : sigs[i].action \in Action
  <1>1. PICK ts \in Seq(TemplateFile) : sigs = LoadDir(ts)
    BY ProxyAssumption DEF Engines
  <1>2. DOMAIN ts \subseteq Nat /\ \A i \in DOMAIN ts : ts[i] \in TemplateFile
    OBVIOUS
  <1>3. ASSUME NEW t \in TemplateFile
        PROVE  ParseTemplate(t).action \in Action \cup {""}
    <2> DEFINE S == Action \cup {""}
               f == [i \in DOMAIN t.http |-> t.http[i].action]
    <2>1. t.http \in Seq(HTTPBlock) /\ t.action \in S
      BY DEF TemplateFile
    <2>2. Len(t.http) \in Nat /\ DOMAIN t.http = 1..Len(t.http)
      BY <2>1, LenProperties
    <2>3. \A i \in DOMAIN t.http : t.http[i].action \in S
      <3>1. \A i \in DOMAIN t.http : t.http[i] \in HTTPBlock
        BY <2>1, <2>2, ElementOfSeq
      <3> QED BY <3>1 DEF HTTPBlock
    <2>4. f \in [1..Len(t.http) -> S]
      BY <2>2, <2>3
    <2> HIDE DEF S
    <2>5. f \in Seq(S)
      BY <2>2, <2>4, SeqDef
    <2>6. FirstGiven(<<t.action>> \o f, "") \in S
      BY <2>1, <2>5, FirstGivenType DEF S
    <2> QED BY <2>6 DEF ParseTemplate, TemplateFile, S
  <1>4. \A t \in TemplateFile : Compile(ParseTemplate(t)).action \in Action
    BY <1>3 DEF Compile, EffectiveAction, Action
  <1> QED BY <1>1, <1>2, <1>4 DEF LoadDir

\* The engine's verdict is the action of a rule that holds and that none of
\* the others outranks; in particular a block or ban rule that holds decides.
LEMMA InspectVerdict ==
    ASSUME NEW sigs \in Engines, NEW holds \in SUBSET DOMAIN sigs
    PROVE  LET act == Inspect(sigs, holds) IN
           /\ act \in Action \cup {"none"}
           /\ act = "none" <=> holds = {}
           /\ (\E i \in holds : sigs[i].action \in Abuse) => act \in Abuse
  <1>1. holds \subseteq Nat /\ \A i \in holds : sigs[i].action \in Action
    BY EngineTypes
  <1> DEFINE rank(i) == actionRank(sigs[i].action)
             strongest == {i \in holds : \A j \in holds : rank(i) >= rank(j)}
  <1>2. \A i \in holds : rank(i) \in 1..5
    BY <1>1 DEF actionRank
  <1>3. CASE holds = {}
    BY <1>3 DEF Inspect
  <1>4. CASE holds # {}
    <2>1. strongest # {}
      <3> HIDE DEF rank
      <3>1. CASE \E i \in holds : rank(i) = 5
        BY <1>2, <3>1
      <3>2. CASE (\A i \in holds : rank(i) < 5) /\ \E i \in holds : rank(i) = 4
        BY <1>2, <3>2
      <3>3. CASE (\A i \in holds : rank(i) < 4) /\ \E i \in holds : rank(i) = 3
        BY <1>2, <3>3
      <3>4. CASE (\A i \in holds : rank(i) < 3) /\ \E i \in holds : rank(i) = 2
        BY <1>2, <3>4
      <3>5. CASE \A i \in holds : rank(i) < 2
        BY <1>2, <1>4, <3>5
      <3> QED BY <1>2, <3>1, <3>2, <3>3, <3>4, <3>5
    <2>2. First(strongest) \in strongest
      BY <1>1, <2>1, FirstIsLeast
    <2>3. PICK w \in holds : /\ Inspect(sigs, holds) = sigs[w].action
                             /\ \A j \in holds : rank(w) >= rank(j)
      BY <1>4, <2>2 DEF Inspect
    <2>4. sigs[w].action \in Action /\ sigs[w].action # "none"
      BY <1>1 DEF Action
    <2>5. ASSUME NEW i \in holds, sigs[i].action \in Abuse
          PROVE  sigs[w].action \in Abuse
      BY <2>3, <2>5 DEF actionRank, Abuse
    <2> QED BY <1>4, <2>3, <2>4, <2>5
  <1> QED BY <1>3, <1>4

-----------------------------------------------------------------------------
(* Requests. *)

Request == {NoRequest} \cup Answering \cup Serving

\* A request record is of the kind its stage says.
LEMMA Kinds ==
    ASSUME NEW q \in Request
    PROVE  /\ q.pc \in Stages => q \in Serving
           /\ q.pc = "answered" => q \in Answering
           /\ q.pc \notin {"idle", "answered"} => q \in Serving
           /\ q \in Serving => q.pc \in Stages
  BY DEF Request, NoRequest, Answering, Serving, Stages

\* The stages from which a request can still be forwarded are no answers.
LEMMA StageNames == \A pc \in Stages : pc \notin {"idle", "answered"}
  BY DEF Stages

SoundReq(q) == Counted(q) /\ Entitled(q) /\ Admitted(q)

\* The slot of r is all that changes, and its new request is sound.
StepsTo(r, n) ==
    /\ req' = [req EXCEPT ![r] = n]
    /\ n \in Request
    /\ n.pc \notin {"idle", "answered"} => SoundReq(n)

LEMMA SlotStep ==
    ASSUME Types, Sound, NEW r \in Slots, NEW n, StepsTo(r, n)
    PROVE  req' \in [Slots -> Request] /\ Sound'
  <1>1. req \in [Slots -> Request]
    BY DEF Types, Request
  <1>2. req' \in [Slots -> Request]
    BY <1>1 DEF StepsTo
  <1>3. ASSUME NEW u \in Slots, InPipeline(u)'
        PROVE  SoundReq(req[u])'
    <2>1. CASE u = r
      BY <1>1, <1>3, <2>1 DEF StepsTo, InPipeline, SoundReq, Counted, Entitled, Admitted
    <2>2. CASE u # r
      BY <1>1, <1>3, <2>2 DEF StepsTo, InPipeline, Sound, SoundReq, Counted, Entitled, Admitted
    <2> QED BY <2>1, <2>2
  <1> QED BY <1>2, <1>3 DEF Sound, SoundReq

\* An answer ends the service.
LEMMA AnswerStep ==
    ASSUME Types, NEW r \in Slots, InPipeline(r), NEW page, Answer(r, page)
    PROVE  \E n : StepsTo(r, n) /\ n.pc = "answered"
  <1> DEFINE n == Answered(req[r].client, page, req[r].sid)
  <1>1. req[r] \in Serving /\ req \in [Slots -> Request]
    BY Kinds DEF Types, Request, InPipeline
  <1>2. n \in Answering /\ n.pc = "answered"
    BY <1>1 DEF Answered, Answering, Serving
  <1>3. req' = [req EXCEPT ![r] = n]
    BY <1>1 DEF Answer, Types
  <1> QED BY <1>2, <1>3 DEF StepsTo, Request

\* A request becomes chargeable only when it meets a clean address.
NoNewCharge(r, n) ==
    n.pc \in Undecided /\ n.met = "clean" =>
        \/ req[r].pc \in Undecided /\ req[r].met = "clean" /\ req[r].ip = n.ip
        \/ rep[n.ip].state = "clean"

\* Every stage of the pipeline leaves a sound request: the argument that a
\* verdict, once reached, decides what becomes of the request.
LEMMA ServeStep ==
    ASSUME Types, Sound, NEW r \in Slots, Serve(r)
    PROVE  \E n : StepsTo(r, n) /\ NoNewCharge(r, n)
  <1> DEFINE q == req[r]
  <1>0. req \in [Slots -> Request] /\ q \in Request
    BY DEF Types, Request
  <1>00. ASSUME NEW page, InPipeline(r), Answer(r, page)
         PROVE  \E n : StepsTo(r, n) /\ NoNewCharge(r, n)
    BY <1>00, AnswerStep DEF NoNewCharge, Undecided
  <1>000. ASSUME q.pc \in Stages
          PROVE  q \in Serving /\ InPipeline(r) /\ SoundReq(q)
    BY <1>0, <1>000, Kinds, StageNames DEF InPipeline, Sound, SoundReq
  <1>0000. ASSUME NEW n \in Serving, req' = [req EXCEPT ![r] = n], SoundReq(n), NoNewCharge(r, n)
           PROVE  \E m : StepsTo(r, m) /\ NoNewCharge(r, m)
    BY <1>0000 DEF StepsTo, Request
  <1> USE DEF NoNewCharge, Undecided, Stages
  <1>1. CASE Lookup(r)
    <2>1. q \in Serving /\ InPipeline(r) /\ SoundReq(q) /\ q.pc = "lookup"
      BY <1>1, <1>000 DEF Lookup
    <2>2. rep[q.ip].state \in State
      BY <2>1 DEF Types, Serving, Value
    <2>3. PICK st \in Seen(r) :
            \/ st = "blocked" /\ Answer(r, "blocked")
            \/ st # "blocked" /\ q.ask = "verify" /\ Admit(r, "verify")
            \/ st = "greylisted" /\ q.ask # "verify" /\ Admit(r, "grace")
            \/ st \in {"clean", "torn"} /\ q.ask # "verify" /\ Admit(r, "inspect")
      BY <1>1 DEF Lookup
    <2>4. \/ st = rep[q.ip].state
          \/ st = "torn" /\ TornRead(q.ip) /\ rep[q.ip].state = "greylisted"
      BY <2>3 DEF Seen, TornRead, IP
    <2> DEFINE n(pc) == [q EXCEPT !.pc = pc, !.met = rep[q.ip].state, !.raced = TornRead(q.ip)]
    <2>5. ASSUME NEW pc \in {"verify", "grace", "inspect"}, Admit(r, pc)
          PROVE  /\ req' = [req EXCEPT ![r] = n(pc)]
                 /\ n(pc) \in Serving
      <3>1. TornRead(q.ip) \in BOOLEAN
        BY DEF TornRead
      <3>2. req' = [req EXCEPT ![r] = n(pc)]
        BY <1>0, <2>5 DEF Admit, IP
      <3>3. n(pc) \in Serving
        BY <2>1, <2>2, <3>1, <2>5 DEF Serving
      <3> QED BY <3>2, <3>3
    <2>6. CASE st = "blocked" /\ Answer(r, "blocked")
      BY <1>00, <2>1, <2>6
    <2>7. CASE st # "blocked" /\ q.ask = "verify" /\ Admit(r, "verify")
      <3>1. SoundReq(n("verify"))
        BY <2>1, <2>4, <2>7 DEF SoundReq, Counted, Entitled, Admitted, Serving
      <3>2. NoNewCharge(r, n("verify"))
        BY <2>1 DEF Serving
      <3> QED BY <1>0000, <2>5, <2>7, <3>1, <3>2
    <2>8. CASE st = "greylisted" /\ q.ask # "verify" /\ Admit(r, "grace")
      <3>1. SoundReq(n("grace"))
        BY <2>1, <2>4, <2>8 DEF SoundReq, Counted, Entitled, Admitted, Serving
      <3>2. NoNewCharge(r, n("grace"))
        BY <2>1 DEF Serving
      <3> QED BY <1>0000, <2>5, <2>8, <3>1, <3>2
    <2>9. CASE st \in {"clean", "torn"} /\ q.ask # "verify" /\ Admit(r, "inspect")
      <3>1. SoundReq(n("inspect"))
        BY <2>1, <2>2, <2>4, <2>9 DEF SoundReq, Counted, Entitled, Admitted, Serving, State
      <3>2. NoNewCharge(r, n("inspect"))
        BY <2>1 DEF Serving
      <3> QED BY <1>0000, <2>5, <2>9, <3>1, <3>2
    <2> QED BY <2>3, <2>6, <2>7, <2>8, <2>9
  <1>2. CASE Grace(r)
    <2>1. q \in Serving /\ InPipeline(r) /\ SoundReq(q) /\ q.pc = "grace"
      BY <1>2, <1>000 DEF Grace
    <2> DEFINE has == q.key \in passed
               n == [q EXCEPT !.pc = "inspect", !.graced = has]
    <2>2. CASE q.cfg.challenge /\ q.key \notin passed
      BY <1>2, <1>00, <2>1, <2>2 DEF Grace
    <2>3. CASE ~(q.cfg.challenge /\ q.key \notin passed)
      <3>1. req' = [req EXCEPT ![r] = n]
        BY <1>0, <1>2, <2>3 DEF Grace
      <3>2. has \in BOOLEAN /\ (q.cfg.challenge => has)
        BY <2>3
      <3> HIDE DEF has
      <3>3. n \in Serving
        BY <2>1, <3>2 DEF Serving
      <3>4. SoundReq(n)
        BY <2>1, <3>2 DEF SoundReq, Counted, Entitled, Admitted, Serving
      <3>5. NoNewCharge(r, n)
        BY <2>1 DEF Serving, SoundReq, Admitted
      <3> QED BY <1>0000, <3>1, <3>3, <3>4, <3>5
    <2> QED BY <2>2, <2>3
  <1>3. CASE Verify(r)
    <2>1. q \in Serving /\ InPipeline(r) /\ SoundReq(q) /\ q.pc = "verify"
      BY <1>3, <1>000 DEF Verify
    <2> DEFINE n == [q EXCEPT !.pc = "pass"]
    <2>2. CASE Answer(r, "challenge")
      BY <1>00, <2>1, <2>2
    <2>3. CASE Goto(r, "pass")
      <3>1. req' = [req EXCEPT ![r] = n]
        BY <1>0, <2>3 DEF Goto
      <3>2. n \in Serving
        BY <2>1 DEF Serving
      <3>3. SoundReq(n)
        BY <2>1 DEF SoundReq, Counted, Entitled, Admitted, Serving
      <3>4. NoNewCharge(r, n)
        BY <2>1 DEF Serving
      <3> QED BY <1>0000, <3>1, <3>2, <3>3, <3>4
    <2> QED BY <1>3, <2>2, <2>3 DEF Verify
  <1>4. CASE Pass(r)
    BY <1>4, <1>000, <1>00 DEF Pass
  <1>5. CASE Inspect1(r)
    <2>1. q \in Serving /\ InPipeline(r) /\ SoundReq(q) /\ q.pc = "inspect"
      BY <1>5, <1>000 DEF Inspect1
    <2>2. PICK sigs \in Engines, page \in Pages[q.client] :
            LET holds == Matching(r, sigs, page)
                act   == Inspect(sigs, holds)
            IN  req' = [req EXCEPT ![r].pc = IF act = "none" THEN "guard" ELSE Case(act),
                                   ![r].todo = act,
                                   ![r].abuse = \E i \in holds : sigs[i].action \in Abuse]
      BY <1>5 DEF Inspect1
    <2> DEFINE holds == Matching(r, sigs, page)
               act == Inspect(sigs, holds)
               bad == \E i \in holds : sigs[i].action \in Abuse
               n == [q EXCEPT !.pc = IF act = "none" THEN "guard" ELSE Case(act),
                              !.todo = act, !.abuse = bad]
    <2>3. holds \subseteq DOMAIN sigs
      BY DEF Matching
    <2>4. /\ act \in Action \cup {"none"}
          /\ act = "none" <=> holds = {}
          /\ bad => act \in Abuse
          /\ bad \in BOOLEAN
      BY <2>3, InspectVerdict
    <2>5. req' = [req EXCEPT ![r] = n]
      BY <1>0, <2>2
    <2>6. bad => act # "none"
      BY <2>4
    <2> HIDE DEF holds, act, bad
    <2>7. n \in Serving
      BY <2>1, <2>4 DEF Serving, Stages, Case
    <2>8. SoundReq(n)
      BY <2>1, <2>4, <2>6 DEF SoundReq, Counted, Entitled, Admitted, Serving, Case, Abuse,
                              Undecided
    <2>9. NoNewCharge(r, n)
      BY <2>1 DEF Serving
    <2> QED BY <1>0000, <2>5, <2>7, <2>8, <2>9
  <1>6. CASE Guard(r)
    <2>1. q \in Serving /\ InPipeline(r) /\ SoundReq(q) /\ q.pc = "guard"
      BY <1>6, <1>000 DEF Guard
    <2>2. PICK v \in GuardVerdicts :
            req' = [req EXCEPT ![r].pc = IF v = "none" THEN "forward" ELSE Case(v),
                               ![r].record = (v = "none"), ![r].cleared = (v = "none"),
                               ![r].todo = v]
      BY <1>6 DEF Guard
    <2> DEFINE n == [q EXCEPT !.pc = IF v = "none" THEN "forward" ELSE Case(v),
                              !.record = (v = "none"), !.cleared = (v = "none"), !.todo = v]
    <2>3. req' = [req EXCEPT ![r] = n]
      BY <1>0, <2>2
    <2>4. n \in Serving
      <3>1. v \in Action \cup {"none"}
        BY ProxyAssumption
      <3> QED BY <2>1, <3>1 DEF Serving, Stages, Case
    <2>5. SoundReq(n)
      BY <2>1 DEF SoundReq, Counted, Entitled, Admitted, Serving, Case, Abuse, Undecided
    <2>6. NoNewCharge(r, n)
      BY <2>1 DEF Serving
    <2> QED BY <1>0000, <2>3, <2>4, <2>5, <2>6
  <1>7. CASE Act(r)
    <2>1. q \in Serving /\ InPipeline(r) /\ SoundReq(q) /\ q.pc = "act"
      BY <1>7, <1>000 DEF Act
    <2> DEFINE n1 == [q EXCEPT !.pc = "forward", !.record = TRUE, !.spared = (q.key \in passed)]
               n2 == [q EXCEPT !.pc = "punish"]
    <2>2. \/ req' = [req EXCEPT ![r] = n1] /\ q.key \in passed
          \/ req' = [req EXCEPT ![r] = n2]
      BY <1>0, <1>7 DEF Act, Spare, Goto
    <2>3. n1 \in Serving /\ n2 \in Serving
      <3>1. n2 \in Serving
        BY <2>1 DEF Serving
      <3>2. \A b \in BOOLEAN : [q EXCEPT !.pc = "forward", !.record = TRUE, !.spared = b] \in Serving
        BY <2>1 DEF Serving, Stages
      <3>3. (q.key \in passed) \in BOOLEAN
        OBVIOUS
      <3>4. n1 \in Serving
        BY <3>2, <3>3, Zenon
      <3> QED BY <3>1, <3>4
    <2>4. /\ q.key \in passed => SoundReq(n1)
          /\ SoundReq(n2)
      BY <2>1 DEF SoundReq, Counted, Entitled, Admitted, Serving, Abuse
    <2>5. n2.met = q.met /\ n2.ip = q.ip /\ n2.pc = "punish" /\ n1.pc = "forward"
      BY <2>1 DEF Serving
    <2>6. NoNewCharge(r, n1) /\ NoNewCharge(r, n2)
      BY <2>1, <2>5
    <2> HIDE DEF n1, n2
    <2> QED BY <1>0000, <2>2, <2>3, <2>4, <2>6
  <1>8. CASE Punish(r)
    <2>1. InPipeline(r)
      BY <1>8, <1>000 DEF Punish
    <2>2. PICK page : Answer(r, page)
      BY <1>8 DEF Punish
    <2> QED BY <1>00, <2>1, <2>2
  <1>9. CASE Forward(r) \/ ServeCacheHit(r)
    <2>1. q \in Serving /\ InPipeline(r) /\ SoundReq(q) /\ q.pc = "forward"
      BY <1>9, <1>000 DEF Forward, ServeCacheHit
    <2> DEFINE n1 == [q EXCEPT !.sent = @ + 1, !.pc = "sent"]
               n2 == [q EXCEPT !.pc = "sent"]
    <2>2. req' = [req EXCEPT ![r] = n1] \/ req' = [req EXCEPT ![r] = n2]
      BY <1>0, <1>9 DEF Forward, ServeCacheHit, Goto
    <2>3. n1 \in Serving
      <3>1. q.sent + 1 \in Nat
        BY <2>1 DEF Serving
      <3> QED BY <2>1, <3>1 DEF Serving
    <2>4. n2 \in Serving
      BY <2>1 DEF Serving
    <2>5. SoundReq(n1) /\ SoundReq(n2)
      BY <2>1 DEF SoundReq, Counted, Entitled, Admitted, Serving
    <2>6. NoNewCharge(r, n1) /\ NoNewCharge(r, n2)
      BY <2>1 DEF Serving
    <2> HIDE DEF n1, n2
    <2> QED BY <1>0000, <2>2, <2>3, <2>4, <2>5, <2>6
  <1>10. CASE Abort(r)
    <2>1. req' = [req EXCEPT ![r] = NoRequest] /\ NoRequest.pc = "idle"
      BY <1>10 DEF Abort, NoRequest
    <2> QED BY <2>1 DEF StepsTo, Request
  <1>11. CASE Record(r)
    BY <1>11, <1>000, <1>00 DEF Record
  <1> QED BY <1>1, <1>2, <1>3, <1>4, <1>5, <1>6, <1>7, <1>8, <1>9, <1>10, <1>11 DEF Serve

\* A fresh session id is one, when there is any.
LEMMA FreshSid ==
    ASSUME NEW c, FreshSids(c) # {}
    PROVE  First(FreshSids(c)) \in 1..MaxSids
  <1>1. FreshSids(c) \in SUBSET Nat /\ FreshSids(c) \subseteq 1..MaxSids
    BY DEF FreshSids
  <1> QED BY <1>1, FirstIsLeast

\* An arriving request has everything still before it.
LEMMA ArriveStep ==
    ASSUME Types, NEW r \in Slots, NEW c \in Clients, NEW ask \in {"page", "verify"},
           NEW cfg \in Configs, Arrive(r, c, ask, cfg)
    PROVE  \E n : StepsTo(r, n) /\ NoNewCharge(r, n)
  <1> DEFINE ip == RealClientIP(c, cfg)
             denied == ip \in cfg.blocklist \ cfg.whitelist
             mint == ~denied /\ c \in Cookies /\ cookie[c] = 0
             key == IF cookie[c] = 0 THEN IPKey(ip) ELSE SidKey(c, cookie[c])
             sid == IF mint THEN First(FreshSids(c)) ELSE 0
             n == [pc |-> IF ip \in cfg.whitelist THEN "forward" ELSE "lookup",
                   client |-> c, ip |-> ip, ask |-> ask, cfg |-> cfg, key |-> key, sid |-> sid,
                   todo |-> "none", record |-> FALSE, panicked |-> FALSE, met |-> "none",
                   raced |-> FALSE, graced |-> FALSE, abuse |-> FALSE, cleared |-> FALSE,
                   spared |-> FALSE, sent |-> 0]
  <1>1. ip \in IPs
    BY ProxyAssumption DEF RealClientIP
  <1>2. MaxSids \in Nat /\ cookie[c] \in 0..MaxSids
    BY ProxyAssumption DEF Types
  <1>3. key \in Keys
    <2>1. CASE cookie[c] = 0
      BY <1>1, <2>1 DEF Keys
    <2>2. CASE cookie[c] # 0
      <3>1. cookie[c] \in 1..MaxSids
        BY <1>2, <2>2
      <3> QED BY <2>2, <3>1 DEF Keys
    <2> QED BY <2>1, <2>2
  <1>4. sid \in 0..MaxSids
    <2>1. CASE mint
      <3>1. First(FreshSids(c)) \in 1..MaxSids
        BY <2>1, FreshSid DEF Arrive
      <3> QED BY <1>2, <2>1, <3>1
    <2>2. CASE ~mint
      BY <1>2, <2>2
    <2> QED BY <2>1, <2>2
  <1>5. req' = [req EXCEPT ![r] = IF denied THEN Answered(c, "blocked", 0) ELSE n]
    BY DEF Arrive
  <1> HIDE DEF ip, key, sid
  <1>6. CASE denied
    <2> DEFINE a == Answered(c, "blocked", 0)
    <2>1. a \in Answering /\ a.pc = "answered"
      BY <1>2 DEF Answered, Answering
    <2> HIDE DEF a
    <2>2. req' = [req EXCEPT ![r] = a]
      BY <1>5, <1>6 DEF a
    <2> QED BY <2>1, <2>2 DEF StepsTo, Request, NoNewCharge, Undecided
  <1>7. CASE ~denied
    <2>1. n \in Serving
      BY <1>1, <1>3, <1>4 DEF Serving, Stages
    <2>2. SoundReq(n)
      BY DEF SoundReq, Counted, Entitled, Admitted, Undecided
    <2>3. n.pc \notin Undecided
      BY DEF Undecided
    <2>4. req' = [req EXCEPT ![r] = n]
      BY <1>5, <1>7
    <2> HIDE DEF n
    <2> QED BY <2>1, <2>2, <2>3, <2>4 DEF StepsTo, Request, NoNewCharge
  <1> QED BY <1>6, <1>7

\* A panic ends the service, or with fail_open excuses what follows.
LEMMA PanicStep ==
    ASSUME Types, Sound, NEW r \in Slots, Panic(r)
    PROVE  \E n : StepsTo(r, n) /\ NoNewCharge(r, n)
  <1> DEFINE q == req[r]
  <1>0. req \in [Slots -> Request] /\ q \in Request
    BY DEF Types, Request
  <1>1. q \in Serving /\ InPipeline(r) /\ SoundReq(q) /\ ~q.panicked
    BY <1>0, Kinds DEF Panic, Busy, InPipeline, Sound, SoundReq
  <1>2. CASE ~q.cfg.failOpen
    <2>1. PICK page : Answer(r, page)
      BY <1>2 DEF Panic
    <2> QED BY <1>1, <2>1, AnswerStep DEF NoNewCharge, Undecided
  <1>3. CASE q.cfg.failOpen
    <2> DEFINE n == [q EXCEPT !.panicked = TRUE, !.pc = "forward", !.record = FALSE,
                              !.todo = "none", !.met = "none", !.raced = FALSE,
                              !.graced = FALSE, !.cleared = FALSE, !.spared = FALSE]
    <2>1. req' = [req EXCEPT ![r] = n]
      BY <1>0, <1>3 DEF Panic, Recovered
    <2>2. n \in Serving
      BY <1>1 DEF Serving, Stages
    <2>3. SoundReq(n) /\ n.pc = "forward"
      BY <1>1, <1>3 DEF SoundReq, Counted, Entitled, Admitted, Undecided, Serving
    <2> HIDE DEF n
    <2> QED BY <2>1, <2>2, <2>3 DEF StepsTo, Request, NoNewCharge, Undecided
  <1> QED BY <1>2, <1>3

\* The slot of an answered request becomes free.
LEMMA FreeStep ==
    ASSUME NEW r \in Slots, req' = [req EXCEPT ![r] = NoRequest]
    PROVE  \E n : StepsTo(r, n) /\ NoNewCharge(r, n)
  <1>1. NoRequest.pc = "idle" /\ NoRequest \in Request
    BY DEF NoRequest, Request
  <1> HIDE DEF NoRequest
  <1> QED BY <1>1 DEF StepsTo, NoNewCharge, Undecided

-----------------------------------------------------------------------------
(* Types and soundness. *)

\* The values a reputation can take.
LEMMA Values ==
    /\ Clean \in Value /\ Banned \in Value
    /\ Clean.state = "clean" /\ Banned.state = "blocked"
    /\ \A v \in Value : \A w \in AfterViolation(v) :
          w \in Value /\ w.state \in {"greylisted", "blocked"}
  <1>1. ASSUME NEW v \in Value, NEW w \in AfterViolation(v)
        PROVE  w \in Value /\ w.state \in {"greylisted", "blocked"}
    <2>1. v.strikes \in Nat
      BY DEF Value
    <2>2. PICK n \in 0..(v.strikes + 1) :
             w = [state |-> IF n >= BlockThreshold THEN "blocked" ELSE "greylisted", strikes |-> n]
      BY DEF AfterViolation
    <2> QED BY <2>1, <2>2 DEF Value, State
  <1>2. /\ Clean \in Value /\ Banned \in Value
        /\ Clean.state = "clean" /\ Banned.state = "blocked"
    BY DEF Clean, Banned, Value, State
  <1> QED BY <1>1, <1>2

\* The reputation after a violation, a ban or a passed challenge.
LEMMA RepTypes ==
    ASSUME Types, NEW ip \in IPs,
           \/ \E b \in BOOLEAN : RegisterViolation(ip, b)
           \/ MarkClean(ip)
           \/ Block(ip)
           \/ UNCHANGED <<rep, plain>>
    PROVE  rep' \in [IPs -> Value] /\ plain' \in [IPs -> Nat]
  <1>0. rep \in [IPs -> Value] /\ plain \in [IPs -> Nat]
    BY DEF Types
  <1>1. CASE \E b \in BOOLEAN : RegisterViolation(ip, b)
    <2>1. PICK b \in BOOLEAN : RegisterViolation(ip, b)
      BY <1>1
    <2>2. CASE rep[ip].state = "blocked"
      BY <1>0, <2>1, <2>2 DEF RegisterViolation
    <2>3. CASE rep[ip].state # "blocked"
      <3>1. PICK v \in AfterViolation(rep[ip]) : rep' = [rep EXCEPT ![ip] = v]
        BY <2>1, <2>3 DEF RegisterViolation
      <3>2. v \in Value
        BY <1>0, Values
      <3>3. plain' = [plain EXCEPT ![ip] = @ + (IF b THEN 1 ELSE 0)]
        BY <2>1, <2>3 DEF RegisterViolation
      <3> QED BY <1>0, <3>1, <3>2, <3>3
    <2> QED BY <2>2, <2>3
  <1>2. CASE MarkClean(ip) \/ Block(ip)
    BY <1>0, <1>2, Values DEF MarkClean, Block
  <1> QED BY <1>0, <1>1, <1>2

\* Every step is a step of one slot, or of none.
LEMMA OneSlot ==
    ASSUME Types, Sound, Next
    PROVE  \/ \E r \in Slots : \E n : StepsTo(r, n) /\ NoNewCharge(r, n)
           \/ UNCHANGED req
  <1>1. CASE \E r \in Slots, c \in Clients :
               \E ask \in {"page", "verify"}, cfg \in Configs : Arrive(r, c, ask, cfg)
    BY <1>1, ArriveStep
  <1>2. CASE \E r \in Slots : Serve(r) \/ Panic(r) \/ Deliver(r) \/ Lose(r)
    <2>1. PICK r \in Slots : Serve(r) \/ Panic(r) \/ Deliver(r) \/ Lose(r)
      BY <1>2
    <2>2. CASE Deliver(r) \/ Lose(r)
      BY <2>2, FreeStep DEF Deliver, Lose
    <2> QED BY <2>1, <2>2, ServeStep, PanicStep
  <1>3. CASE \/ \E ip \in IPs : Lapse(ip)
             \/ \E k \in Keys : Forget(k)
    BY <1>3 DEF Lapse, Forget
  <1> QED BY <1>1, <1>2, <1>3 DEF Next

\* How a step changes the reputation.
LEMMA RepStep ==
    ASSUME Types, Next
    PROVE  \/ UNCHANGED <<rep, plain>>
           \/ \E ip \in IPs : Lapse(ip)
           \/ \E r \in Slots : /\ Verify(r) \/ Punish(r)
                               /\ req[r] \in Serving
  <1>1. CASE \E r \in Slots : Serve(r)
    <2>1. PICK r \in Slots : Serve(r)
      BY <1>1
    <2>2. ASSUME Verify(r) \/ Punish(r)
          PROVE  req[r] \in Serving
      <3>1. req[r] \in Request /\ req[r].pc \in Stages
        BY <2>2 DEF Verify, Punish, Stages, Types, Request
      <3> QED BY <3>1, Kinds
    <2> QED BY <2>1, <2>2 DEF Serve, Lookup, Grace, Pass, Inspect1, Guard, Act, Forward,
                              ServeCacheHit, Abort, Record
  <1>2. CASE \E r \in Slots : Panic(r) \/ Deliver(r) \/ Lose(r)
    BY <1>2 DEF Panic, Deliver, Lose
  <1>3. CASE \E r \in Slots, c \in Clients :
               \E ask \in {"page", "verify"}, cfg \in Configs : Arrive(r, c, ask, cfg)
    BY <1>3 DEF Arrive
  <1>4. CASE \/ \E ip \in IPs : Lapse(ip)
             \/ \E k \in Keys : Forget(k)
    BY <1>4 DEF Forget
  <1> QED BY <1>1, <1>2, <1>3, <1>4 DEF Next

\* A step keeps the types and leaves every request sound.
LEMMA TypesStep ==
    ASSUME Types, Sound, Next
    PROVE  Types' /\ Sound'
  <1>1. req' \in [Slots -> Request] /\ Sound'
    <2>1. CASE UNCHANGED req
      BY <2>1 DEF Types, Request, Sound, InPipeline, Counted, Entitled, Admitted
    <2> QED BY <2>1, OneSlot, SlotStep
  <1>2. rep' \in [IPs -> Value] /\ plain' \in [IPs -> Nat]
    <2>1. CASE UNCHANGED <<rep, plain>>
      BY <2>1 DEF Types
    <2>2. CASE \E ip \in IPs : Lapse(ip)
      BY <2>2, RepTypes DEF Lapse
    <2>3. ASSUME NEW r \in Slots, Verify(r) \/ Punish(r), req[r] \in Serving
          PROVE  rep' \in [IPs -> Value] /\ plain' \in [IPs -> Nat]
      <3>1. IP(r) \in IPs
        BY <2>3 DEF IP, Serving
      <3>2. Plain(r) \in BOOLEAN
        BY DEF Plain
      <3>3. CASE Verify(r)
        <4>1. MarkClean(IP(r)) \/ UNCHANGED <<rep, plain>>
          BY <3>3 DEF Verify
        <4> QED BY <3>1, <4>1, RepTypes
      <3>4. CASE Punish(r)
        <4>1. Block(IP(r)) \/ RegisterViolation(IP(r), Plain(r))
          BY <3>4 DEF Punish
        <4>2. Block(IP(r)) \/ \E b \in BOOLEAN : RegisterViolation(IP(r), b)
          BY <3>2, <4>1
        <4> QED BY <3>1, <4>2, RepTypes
      <3> QED BY <2>3, <3>3, <3>4
    <2> QED BY <2>1, <2>2, <2>3, RepStep
  <1>3. seen' \subseteq Keys /\ passed' \subseteq seen'
    <2>0. seen \subseteq Keys /\ passed \subseteq seen
      BY DEF Types
    <2>1. ASSUME NEW r \in Slots, Pass(r) \/ Record(r)
          PROVE  req[r].key \in Keys
      <3>1. req[r] \in Request /\ req[r].pc \in Stages
        BY <2>1 DEF Pass, Record, Stages, Types, Request
      <3> QED BY <3>1, Kinds DEF Serving
    <2>2. \/ seen' = seen /\ passed' = passed
          \/ \E r \in Slots : Pass(r) \/ Record(r)
          \/ \E k \in Keys : Forget(k)
      BY ZenonT(60) DEF Next, Arrive, Serve, Lookup, Grace, Verify, Inspect1, Guard, Act, Punish,
             Forward, ServeCacheHit, Abort, Panic, Deliver, Lose, Lapse
    <2>3. CASE \E r \in Slots : Pass(r) \/ Record(r)
      BY <2>0, <2>1, <2>3 DEF Pass, Record
    <2>4. CASE \E k \in Keys : Forget(k)
      BY <2>0, <2>4 DEF Forget
    <2> QED BY <2>0, <2>2, <2>3, <2>4
  <1>4. cookie' \in [Clients -> 0..MaxSids] /\ token' \in BOOLEAN
    <2>0. cookie \in [Clients -> 0..MaxSids] /\ token \in BOOLEAN
      BY DEF Types
    <2>1. CASE \E r \in Slots : Deliver(r)
      <3>1. PICK r \in Slots : Deliver(r)
        BY <2>1
      <3>2. req[r] \in Answering
        BY <3>1, Kinds DEF Deliver, Types, Request
      <3>3. req[r].client \in Clients /\ req[r].sid \in 0..MaxSids /\ req[r].token \in BOOLEAN
        BY <3>2 DEF Answering
      <3>4. cookie' \in [Clients -> 0..MaxSids]
        BY <2>0, <3>1, <3>3 DEF Deliver
      <3>5. token' \in BOOLEAN
        BY <2>0, <3>1, <3>3 DEF Deliver
      <3> QED BY <3>4, <3>5
    <2>2. \/ cookie' = cookie /\ token' = token
          \/ \E r \in Slots : Deliver(r)
      BY ZenonT(60) DEF Next, Arrive, Serve, Lookup, Grace, Verify, Pass, Inspect1, Guard, Act, Punish,
             Forward, ServeCacheHit, Abort, Record, Panic, Lose, Lapse, Forget
    <2> QED BY <2>0, <2>1, <2>2
  <1> QED BY <1>1, <1>2, <1>3, <1>4 DEF Types, Request

-----------------------------------------------------------------------------
(* Strikes. *)

\* The requests of an address that may be charged are slots.
LEMMA ChargeableSize ==
    ASSUME NEW ip
    PROVE  /\ IsFiniteSet(Chargeable(ip))
           /\ Cardinality(Chargeable(ip)) \in Nat /\ Cardinality(Slots) \in Nat
           /\ Cardinality(Chargeable(ip)) <= Cardinality(Slots)
  <1>1. Chargeable(ip) \subseteq Slots
    BY DEF Chargeable
  <1> QED BY <1>1, SlotsAssumption, FS_Subset, FS_CardinalityType

\* An address that is charged nothing, or that no request joins, keeps its
\* balance.
LEMMA BalanceStep ==
    ASSUME Types, Types', Strikes, NEW ip \in IPs,
           \/ plain'[ip] = 0
           \/ plain'[ip] = plain[ip] /\ Chargeable(ip)' \subseteq Chargeable(ip)
    PROVE  plain'[ip] + Cardinality(Chargeable(ip)') <= Cardinality(Slots)
  <1>1. /\ IsFiniteSet(Chargeable(ip)) /\ Cardinality(Chargeable(ip)) \in Nat
        /\ Cardinality(Slots) \in Nat
    BY ChargeableSize
  <1>2. Chargeable(ip)' \subseteq Slots
    BY DEF Chargeable
  <1>3. /\ IsFiniteSet(Chargeable(ip)') /\ Cardinality(Chargeable(ip)') \in Nat
        /\ Cardinality(Chargeable(ip)') <= Cardinality(Slots)
    BY <1>2, SlotsAssumption, FS_Subset, FS_CardinalityType
  <1>4. CASE plain'[ip] = 0
    BY <1>3, <1>4
  <1>5. CASE plain'[ip] = plain[ip] /\ Chargeable(ip)' \subseteq Chargeable(ip)
    <2>1. Cardinality(Chargeable(ip)') <= Cardinality(Chargeable(ip))
      BY <1>1, <1>5, FS_Subset
    <2>2. plain[ip] \in Nat /\ plain[ip] + Cardinality(Chargeable(ip)) <= Cardinality(Slots)
      BY DEF Types, Strikes
    <2> QED BY <1>1, <1>3, <1>5, <2>1, <2>2
  <1> QED BY <1>4, <1>5

\* A step of one slot adds to the chargeable requests of an address only while
\* the address is clean.
LEMMA ChargeableStep ==
    ASSUME Types, NEW r \in Slots, NEW n, StepsTo(r, n), NoNewCharge(r, n), NEW ip \in IPs
    PROVE  Chargeable(ip)' \subseteq Chargeable(ip) \/ rep[ip].state = "clean"
  <1>1. req \in [Slots -> Request]
    BY DEF Types, Request
  <1>2. \A u \in Slots : req'[u] = IF u = r THEN n ELSE req[u]
    BY <1>1 DEF StepsTo
  <1> QED BY <1>2 DEF Chargeable, NoNewCharge

\* A step keeps the balance of every address: a violation that counts as a
\* plain challenge is charged by a request that was chargeable, and no longer is.
LEMMA StrikesStep ==
    ASSUME Inv, Next
    PROVE  Strikes'
  <1> USE DEF Inv
  <1>0. Types' /\ Sound'
    BY TypesStep
  <1>1. \A ip \in IPs : Chargeable(ip)' \subseteq Chargeable(ip) \/ rep[ip].state = "clean"
    <2>1. CASE UNCHANGED req
      BY <2>1 DEF Chargeable
    <2> QED BY <2>1, OneSlot, ChargeableStep
  <1>2. ASSUME NEW ip \in IPs,
               \/ plain'[ip] = plain[ip] /\ rep'[ip] = rep[ip]
               \/ plain'[ip] = 0
        PROVE  plain'[ip] + Cardinality(Chargeable(ip)') <= Cardinality(Slots)
    <2>1. plain'[ip] = 0 \/ (plain'[ip] = plain[ip] /\ Chargeable(ip)' \subseteq Chargeable(ip))
      BY <1>1, <1>2 DEF Strikes
    <2> QED BY <1>0, <2>1, BalanceStep
  <1>3. ASSUME NEW ip \in IPs,
               \/ plain'[ip] = plain[ip] /\ rep'[ip] = rep[ip]
               \/ plain'[ip] = 0
        PROVE  /\ rep'[ip].state = "clean" => plain'[ip] = 0
               /\ plain'[ip] + Cardinality(Chargeable(ip)') <= Cardinality(Slots)
    BY <1>2, <1>3 DEF Strikes
  <1>4. ASSUME NEW i \in IPs, MarkClean(i) \/ Block(i), NEW ip \in IPs
        PROVE  plain'[ip] = 0 \/ (plain'[ip] = plain[ip] /\ rep'[ip] = rep[ip])
    BY <1>4 DEF MarkClean, Block, Types
  <1>5. CASE UNCHANGED <<rep, plain>>
    <2>1. \A ip \in IPs : plain'[ip] = plain[ip] /\ rep'[ip] = rep[ip]
      BY <1>5
    <2> QED BY <1>3, <2>1 DEF Strikes
  <1>6. CASE \E ip \in IPs : Lapse(ip)
    BY <1>3, <1>4, <1>6 DEF Strikes, Lapse
  <1>7. ASSUME NEW r \in Slots, Verify(r), req[r] \in Serving
        PROVE  Strikes'
    <2>1. IP(r) \in IPs
      BY <1>7 DEF IP, Serving
    <2>2. MarkClean(IP(r)) \/ UNCHANGED <<rep, plain>>
      BY <1>7 DEF Verify
    <2> QED BY <1>3, <1>4, <1>5, <2>1, <2>2 DEF Strikes
  <1>8. ASSUME NEW r \in Slots, Punish(r), req[r] \in Serving
        PROVE  Strikes'
    <2>1. PICK i \in IPs : i = req[r].ip /\ i = IP(r)
      BY <1>8 DEF IP, Serving
    <2>2. CASE Block(i) \/ rep[i].state = "blocked"
      <3>1. Block(i) \/ UNCHANGED <<rep, plain>>
        BY <1>8, <2>1, <2>2 DEF Punish, RegisterViolation
      <3> QED BY <1>3, <1>4, <1>5, <2>1, <3>1 DEF Strikes
    <2>3. CASE ~Block(i) /\ rep[i].state # "blocked"
      <3>1. PICK v \in AfterViolation(rep[i]) : rep' = [rep EXCEPT ![i] = v]
        BY <1>8, <2>1, <2>3 DEF Punish, RegisterViolation
      <3>2. plain' = [plain EXCEPT ![i] = @ + (IF Plain(r) THEN 1 ELSE 0)]
        BY <1>8, <2>1, <2>3 DEF Punish, RegisterViolation
      <3>3. v.state # "clean"
        <4>1. rep[i] \in Value
          BY <2>1 DEF Types
        <4> QED BY <4>1, Values
      <3>4. \A ip \in IPs \ {i} : plain'[ip] = plain[ip] /\ rep'[ip] = rep[ip]
        BY <2>1, <3>1, <3>2 DEF Types
      <3>5. rep'[i].state # "clean"
        BY <2>1, <3>1, <3>3 DEF Types
      <3>6. plain'[i] + Cardinality(Chargeable(i)') <= Cardinality(Slots)
        <4>1. Chargeable(i)' = Chargeable(i) \ {r}
          <5>1. PICK page : Answer(r, page)
            BY <1>8 DEF Punish
          <5> DEFINE n == Answered(req[r].client, page, req[r].sid)
          <5>2. \A u \in Slots : req'[u] = IF u = r THEN n ELSE req[u]
            BY <5>1 DEF Answer, Types
          <5>3. n.pc \notin Undecided
            BY DEF Answered, Undecided
          <5> HIDE DEF n
          <5> QED BY <5>2, <5>3 DEF Chargeable
        <4>2. CASE Plain(r)
          <5>1. r \in Chargeable(i)
            <6>1. Admitted(req[r]) /\ req[r].pc = "punish"
              BY <1>8 DEF Punish, Sound, InPipeline
            <6>2. req[r].met = "clean"
              BY <4>2, <6>1 DEF Admitted, Plain, Undecided
            <6> QED BY <2>1, <6>1, <6>2 DEF Chargeable, Undecided
          <5>2. Cardinality(Chargeable(i)') = Cardinality(Chargeable(i)) - 1
            BY <4>1, <5>1, ChargeableSize, FS_RemoveElement
          <5>3. plain'[i] = plain[i] + 1 /\ plain[i] \in Nat
            BY <2>1, <3>2, <4>2 DEF Types
          <5>4. plain[i] + Cardinality(Chargeable(i)) <= Cardinality(Slots)
            BY <2>1 DEF Strikes
          <5> QED BY <5>2, <5>3, <5>4, ChargeableSize
        <4>3. CASE ~Plain(r)
          <5>1. plain'[i] = plain[i]
            BY <2>1, <3>2, <4>3 DEF Types
          <5>2. Chargeable(i)' \subseteq Chargeable(i)
            BY <4>1
          <5> QED BY <1>0, <2>1, <5>1, <5>2, BalanceStep
        <4> QED BY <4>2, <4>3
      <3>7. ASSUME NEW ip \in IPs
            PROVE  /\ rep'[ip].state = "clean" => plain'[ip] = 0
                   /\ plain'[ip] + Cardinality(Chargeable(ip)') <= Cardinality(Slots)
        <4>1. CASE ip = i
          BY <3>5, <3>6, <4>1
        <4>2. CASE ip # i
          BY <1>3, <3>4, <4>2
        <4> QED BY <4>1, <4>2
      <3> QED BY <3>7 DEF Strikes
    <2> QED BY <2>2, <2>3
  <1> QED BY <1>5, <1>6, <1>7, <1>8, RepStep

-----------------------------------------------------------------------------
(* The theorems. *)

\* The proxy starts with no request and every address clean.
LEMMA InitInv == Init => Inv
  <1> SUFFICES ASSUME Init PROVE Inv
    OBVIOUS
  <1>1. NoRequest.pc = "idle"
    BY DEF NoRequest
  <1>2. MaxSids \in Nat
    BY ProxyAssumption
  <1>3. Types
    <2>1. rep \in [IPs -> Value] /\ plain \in [IPs -> Nat]
      BY Values DEF Init
    <2>2. cookie \in [Clients -> 0..MaxSids]
      BY <1>2 DEF Init
    <2>3. req \in [Slots -> {NoRequest} \cup Answering \cup Serving]
      BY DEF Init
    <2> QED BY <2>1, <2>2, <2>3 DEF Init, Types
  <1>4. Sound
    BY <1>1 DEF Init, Sound, InPipeline
  <1>5. Strikes
    <2>1. \A ip \in IPs : plain[ip] = 0 /\ Cardinality(Chargeable(ip)) <= Cardinality(Slots)
      BY ChargeableSize DEF Init
    <2> QED BY <2>1, ChargeableSize DEF Strikes
  <1> QED BY <1>3, <1>4, <1>5 DEF Inv

\* Every step of the pipeline, of its clients and of time keeps the invariant.
LEMMA NextInv == Inv /\ [Next]_vars => Inv'
  <1> SUFFICES ASSUME Inv, [Next]_vars PROVE Inv'
    OBVIOUS
  <1>1. CASE Next
    BY <1>1, TypesStep, StrikesStep DEF Inv
  <1>2. CASE UNCHANGED vars
    BY <1>2 DEF vars, Inv, Types, Sound, InPipeline, Counted, Entitled, Admitted, Strikes, Chargeable
  <1> QED BY <1>1, <1>2

\* The three parts hold at all times; the theorems below read off them.
THEOREM Invariant == Spec => []Inv
  BY InitInv, NextInv, PTL DEF Spec

\* The variables have their types (TypeOK), with any number of requests in
\* flight: in particular a passed challenge never outlives its session record,
\* and a request is handed to the backend at most twice.
THEOREM PipelineTypes == Spec => []TypeOK
  <1>1. Inv => TypeOK
    <2> SUFFICES ASSUME Inv PROVE TypeOK
      OBVIOUS
    <2>1. ASSUME NEW r \in Slots
          PROVE  /\ req[r].pc = "answered" => req[r] \in Answering
                 /\ InPipeline(r) => req[r] \in Serving /\ Counted(req[r])
      <3>1. req[r] \in Request
        BY DEF Inv, Types, Request
      <3> QED BY <3>1, Kinds DEF Inv, Sound, InPipeline
    <2>2. ASSUME NEW r \in Slots, InPipeline(r)
          PROVE  req[r].sent \in 0..2
      BY <2>1, <2>2 DEF Counted, Serving
    <2> QED BY <2>1, <2>2 DEF TypeOK, Inv, Types, Answering, Serving
  <1> QED BY <1>1, Invariant, PTL

\* No request reaches the backend without a right to (ForwardedRightfully):
\* whatever other requests, reloads, panics and expiries come in between, a
\* block, ban, rate-limit or unknown verdict is never followed by a forward
\* (applyAction), a challenge only when the session had passed one at the time
\* of the verdict (proxy.go:345), and only a panic sends a request twice.
THEOREM ForwardsAreRightful == Spec => []ForwardedRightfully
  <1>1. Inv => ForwardedRightfully
    <2> SUFFICES ASSUME Inv, NEW r \in Slots, InPipeline(r), req[r].sent > 0
                 PROVE  \/ IP(r) \in req[r].cfg.whitelist
                        \/ req[r].panicked /\ req[r].cfg.failOpen
                        \/ /\ req[r].sent = 1
                           /\ \/ req[r].todo = "log-only" \/ req[r].cleared
                              \/ req[r].todo = "challenge" /\ req[r].spared
                           /\ req[r].ask = "page"
      BY DEF ForwardedRightfully
    <2>1. req[r] \in Serving /\ Counted(req[r]) /\ Entitled(req[r])
      BY Kinds DEF Inv, Types, Request, Sound, InPipeline
    <2>2. req[r].pc = "sent" \/ req[r].panicked
      BY <2>1 DEF Counted, Serving
    <2>3. req[r].pc \in {"forward", "sent"}
      BY <2>1, <2>2 DEF Counted
    <2>4. ~req[r].panicked => req[r].sent = 1
      BY <2>1, <2>2 DEF Counted, Serving
    <2> QED BY <2>1, <2>3, <2>4 DEF Counted, Entitled, IP
  <1> QED BY <1>1, Invariant, PTL

\* A request that a block or ban rule matched never reaches the backend
\* (AbuseRulesEnforced), whatever the rules, their order and the other rules
\* that matched: a consequence of the engine's ranking (InspectVerdict) and of
\* applyAction having no way from such a verdict to forward.
THEOREM AbuseIsEnforced == Spec => []AbuseRulesEnforced
  <1>1. Inv => AbuseRulesEnforced
    <2> SUFFICES ASSUME Inv, NEW r \in Slots, InPipeline(r), req[r].sent > 0, req[r].abuse
                 PROVE  req[r].panicked
      BY DEF AbuseRulesEnforced
    <2>1. req[r] \in Serving /\ Counted(req[r]) /\ Entitled(req[r])
      BY Kinds DEF Inv, Types, Request, Sound, InPipeline
    <2>2. req[r].pc = "sent" \/ req[r].panicked
      BY <2>1 DEF Counted, Serving
    <2> QED BY <2>1, <2>2 DEF Entitled
  <1> QED BY <1>1, Invariant, PTL

\* A greylisted address is not served before its session passes a challenge
\* (GreylistHolds), unless the unlocked read of its state was torn.
THEOREM GreylistIsHeld == Spec => []GreylistHolds
  <1>1. Inv => GreylistHolds
    <2> SUFFICES ASSUME Inv, NEW r \in Slots, InPipeline(r), req[r].sent > 0,
                        req[r].met = "greylisted"
                 PROVE  \/ req[r].graced \/ ~req[r].cfg.challenge
                        \/ req[r].raced \/ req[r].panicked
      BY DEF GreylistHolds
    <2>1. req[r] \in Serving /\ Counted(req[r]) /\ Admitted(req[r])
      BY Kinds DEF Inv, Types, Request, Sound, InPipeline
    <2>2. req[r].pc = "sent" \/ req[r].panicked
      BY <2>1 DEF Counted, Serving
    <2> QED BY <2>1, <2>2 DEF Admitted
  <1> QED BY <1>1, Invariant, PTL

\* Challenges alone charge an address at most once per request in flight
\* (ChallengeStrikesBounded), for every number of slots.
THEOREM StrikesAreBounded == Spec => []ChallengeStrikesBounded
  <1>1. Inv => ChallengeStrikesBounded
    <2> SUFFICES ASSUME Inv, NEW ip \in IPs PROVE plain[ip] <= Cardinality(Slots)
      BY DEF ChallengeStrikesBounded
    <2>1. plain[ip] \in Nat /\ plain[ip] + Cardinality(Chargeable(ip)) <= Cardinality(Slots)
      BY DEF Inv, Types, Strikes
    <2> QED BY <2>1, ChargeableSize
  <1> QED BY <1>1, Invariant, PTL

\* No request sent after a block can lift it (BlockHolds): a blocked address
\* becomes anything else only when its entry lapses, or through a verify
\* request that had passed the reputation check before.
THEOREM BlocksHold == Spec => BlockHolds
  <1>1. ASSUME Inv, [Next]_vars, NEW ip \in IPs,
               rep[ip].state = "blocked", rep'[ip].state # "blocked"
        PROVE  Lapse(ip) \/ \E r \in Slots : EarlyVerify(r, ip) /\ Verify(r)
    <2>1. rep \in [IPs -> Value]
      BY <1>1 DEF Inv, Types
    <2>2. Next /\ ~UNCHANGED <<rep, plain>>
      BY <1>1 DEF vars
    <2>3. CASE \E i \in IPs : Lapse(i)
      <3>1. PICK i \in IPs : Lapse(i)
        BY <2>3
      <3>2. ip = i
        BY <1>1, <2>1, <3>1 DEF Lapse, MarkClean
      <3> QED BY <3>1, <3>2
    <2>4. ASSUME NEW r \in Slots, Verify(r), req[r] \in Serving
          PROVE  EarlyVerify(r, ip)
      <3>1. MarkClean(IP(r)) /\ req[r].pc = "verify"
        BY <2>2, <2>4 DEF Verify
      <3>2. ip = IP(r)
        BY <1>1, <2>1, <3>1 DEF MarkClean
      <3>3. Admitted(req[r])
        BY <1>1, <3>1 DEF Inv, Sound, InPipeline
      <3> QED BY <3>1, <3>2, <3>3 DEF Admitted, EarlyVerify
    <2>5. ASSUME NEW r \in Slots, Punish(r), req[r] \in Serving
          PROVE  FALSE
      <3> DEFINE i == IP(r)
      <3>1. Block(i) \/ RegisterViolation(i, Plain(r))
        BY <2>5 DEF Punish
      <3> HIDE DEF i
      <3>2. CASE Block(i)
        BY <1>1, <2>1, <3>2, Values DEF Block
      <3>3. CASE RegisterViolation(i, Plain(r))
        BY <1>1, <2>1, <2>2, <3>3 DEF RegisterViolation
      <3> QED BY <3>1, <3>2, <3>3
    <2> QED BY <1>1, <2>2, <2>3, <2>4, <2>5, RepStep DEF Inv
  <1>2. Inv /\ [Next]_vars =>
          [\A ip \in IPs : rep[ip].state = "blocked" /\ rep'[ip].state # "blocked"
             => Lapse(ip) \/ \E r \in Slots : EarlyVerify(r, ip) /\ Verify(r)]_vars
    BY <1>1
  <1> QED BY <1>2, Invariant, PTL DEF Spec, BlockHolds
=============================================================================
