-------------------------- MODULE LifecycleProofs ---------------------------
(***************************************************************************)
(* Proofs about the life of the process: its types, that nobody is served  *)
(* without the redirect, that a shutdown cuts requests off only late, and  *)
(* that an interrupted first run leaves a usable installation.             *)
(***************************************************************************)
EXTENDS Lifecycle, TLAPS

\* The conjuncts of TypeOK about the sockets, about the signals and about the
\* rest; with TypeOKLogs they make it up.
SocketsOK ==
    /\ listener \in [Server -> {"closed", "open", "failed", "shut"}]
    /\ conns \in [TCP -> Nat] /\ upgraded \in [TCP -> Nat]
    /\ \A s \in TCP : conns[s] + upgraded[s] <= MaxConns

\* A process that is gone has nothing open.
NothingOpen ==
    ~Running => listener = NoServer /\ conns = NoConns /\ upgraded = NoConns /\ ~fw

SignalsOK == sig \in Seq({"HUP", "TERM"}) /\ Len(sig) <= 2

StateOK ==
    /\ phase \in Phase /\ layout \subseteq Default
    /\ {failOpen, redirect, fw, late} \subseteq BOOLEAN
    /\ crashes \in 0..MaxCrashes
    /\ fault \in Fault

\* TypeOK in those parts.
LEMMA TypeParts ==
    TypeOK <=> StateOK /\ SignalsOK /\ SocketsOK /\ TypeOKLogs /\ NothingOpen
  BY DEF TypeOK, StateOK, SignalsOK, SocketsOK, NothingOpen

\* The end of a process is well typed: everything it had is closed.
LEMMA GoneTypes ==
    ASSUME TypeOK, NEW end \in {"stopped", "dead"}, Gone(end), owed' \in BOOLEAN
    PROVE  /\ SignalsOK' /\ SocketsOK' /\ TypeOKLogs'
           /\ phase' \in Phase /\ fw' \in BOOLEAN /\ late' \in BOOLEAN
           /\ NothingOpen'
<1>2. SocketsOK'
  BY LifecycleAssumption DEF Gone, SocketsOK, NoServer, NoConns
<1>3. SignalsOK'
  BY DEF Gone, SignalsOK
<1>4. TypeOKLogs'
  BY DEF Gone, CloseLogs, TypeOK, TypeOKLogs
<1> QED
  BY <1>2, <1>3, <1>4 DEF Gone, Phase, Running, NothingOpen, NoServer, NoConns

\* The channel takes a signal or loses it, and never holds more than two.
LEMMA DeliverTypes ==
    ASSUME SignalsOK, NEW x \in {"HUP", "TERM"}, Deliver(x) PROVE SignalsOK'
  BY DEF SignalsOK, Deliver

\* Taking a signal leaves the others.
LEMMA TakeTypes ==
    ASSUME SignalsOK, sig # <<>>, sig' = Tail(sig) PROVE SignalsOK'
  BY DEF SignalsOK

\* A signal, whatever the process does with it.
LEMMA SignalTypes ==
    ASSUME TypeOK, NEW x \in {"HUP", "TERM"}, Signal(x), owed' \in BOOLEAN PROVE TypeOK'
<1>0. StateOK /\ SignalsOK /\ SocketsOK /\ TypeOKLogs
  BY TypeParts
<1>1. CASE phase \in Early /\ Gone("stopped") /\ fault' = "signal"
  <2>1. StateOK'
    BY <1>0, <1>1, GoneTypes DEF Signal, StateOK, Fault
  <2> QED
    BY <1>1, <2>1, GoneTypes DEF TypeOK, StateOK, SignalsOK, SocketsOK, NothingOpen
<1>2. CASE phase = "serving" /\ Deliver(x) /\ UNCHANGED <<phase, fw, servers, fault, logs>>
  <2>1. SignalsOK'
    BY <1>0, <1>2, DeliverTypes
  <2>2. StateOK' /\ SocketsOK' /\ TypeOKLogs' /\ Running'
    BY <1>0, <1>2 DEF Signal, StateOK, SocketsOK, TypeOKLogs, Running, servers, logs
  <2> QED
    BY <2>1, <2>2 DEF TypeOK, StateOK, SignalsOK, SocketsOK
<1>3. CASE UNCHANGED <<phase, sig, fw, servers, fault, logs>>
  BY <1>3 DEF Signal, TypeOK, TypeOKLogs, Running, servers, logs
<1> QED
  BY <1>1, <1>2, <1>3 DEF Signal

\* The streams keep their types through rotation and Reopen.
LEMMA LogTypes ==
    ASSUME TypeOKLogs,
           \/ OpenLogs /\ UNCHANGED owed
           \/ ReopenBegin /\ UNCHANGED owed
           \/ \E s \in Streams : (Reopen(s) /\ UNCHANGED owed) \/ Rotate(s)
    PROVE  TypeOKLogs'
<1> USE DEF TypeOKLogs
<1>1. CASE OpenLogs /\ UNCHANGED owed
  BY <1>1 DEF OpenLogs
<1>2. CASE ReopenBegin /\ UNCHANGED owed
  BY <1>2 DEF ReopenBegin
<1>3. ASSUME NEW s \in Streams, Reopen(s), UNCHANGED owed PROVE TypeOKLogs'
  BY <1>3 DEF Reopen
<1>4. ASSUME NEW s \in Streams, Rotate(s) PROVE TypeOKLogs'
  BY <1>4 DEF Rotate
<1> QED
  BY <1>1, <1>2, <1>3, <1>4

\* A step of any kind keeps the types: processes come and go, and sockets,
\* counters and flags stay what they are.
LEMMA NextTypeOK == TypeOK /\ [Next]_vars => TypeOK'
<1> SUFFICES ASSUME TypeOK, [Next]_vars PROVE TypeOK'
  OBVIOUS
<1>0. /\ StateOK /\ SignalsOK /\ SocketsOK /\ TypeOKLogs
      /\ NothingOpen
  BY TypeParts
<1>a. owed \in BOOLEAN
  BY <1>0 DEF TypeOKLogs
<1>b. ASSUME StateOK', SignalsOK', SocketsOK', TypeOKLogs', NothingOpen' \/ Running'
      PROVE  TypeOK'
  BY <1>b DEF TypeOK, StateOK, SignalsOK, SocketsOK, NothingOpen
<1>c. ASSUME UNCHANGED <<logs, owed>> PROVE TypeOKLogs'
  BY <1>0, <1>c DEF TypeOKLogs, logs
<1>d. ASSUME UNCHANGED sig PROVE SignalsOK'
  BY <1>0, <1>d DEF SignalsOK
<1>e. ASSUME UNCHANGED servers PROVE SocketsOK'
  BY <1>0, <1>e DEF SocketsOK, servers
<1>1. CASE Boot
  <2>1. StateOK' /\ Running'
    BY <1>0, <1>1 DEF Boot, StateOK, Phase, Early, Fault, Running, servers
  <2>2. TypeOKLogs'
    BY <1>0, <1>1, LogTypes DEF Boot
  <2> QED
    BY <1>1, <1>b, <1>d, <1>e, <2>1, <2>2 DEF Boot
<1>2. CASE Begin \/ Ensure \/ Install
  <2>1. StateOK'
    BY <1>0, <1>2 DEF Begin, Ensure, Install, StateOK, Phase, Early, firewall, servers
  <2>2. NothingOpen'
    BY <1>0, <1>2 DEF Begin, Ensure, Install, NothingOpen, Running, firewall, servers
  <2> QED
    BY <1>2, <1>b, <1>c, <1>d, <1>e, <2>1, <2>2 DEF Begin, Ensure, Install
<1>3. CASE EnableRedirect \/ Notify
  <2>1. StateOK' /\ Running'
    BY <1>0, <1>3 DEF EnableRedirect, Notify, StateOK, Phase, Early, Fault, Running, firewall, servers
  <2> QED
    BY <1>3, <1>b, <1>c, <1>d, <1>e, <2>1 DEF EnableRedirect, Notify
<1>4. ASSUME NEW s \in Server, Listen(s) PROVE TypeOK'
  <2>1. StateOK' /\ Running'
    BY <1>0, <1>4 DEF Listen, StateOK, Shutting, Running, firewall
  <2>2. SocketsOK'
    BY <1>0, <1>4 DEF Listen, SocketsOK
  <2> QED
    BY <1>4, <1>b, <1>c, <1>d, <2>1, <2>2 DEF Listen
<1>5. ASSUME NEW s \in TCP, Accept(s) \/ Finish(s) \/ Upgrade(s) \/ Disconnect(s)
      PROVE  TypeOK'
  <2>1. Running
    BY <1>0, <1>5 DEF Accept, Finish, Upgrade, Disconnect, NothingOpen, NoServer, NoConns, Server
  <2>2. StateOK' /\ Running'
    BY <1>0, <1>5, <2>1 DEF Accept, Finish, Upgrade, Disconnect, StateOK, Running, firewall
  <2>3. SocketsOK'
    <3>1. CASE Accept(s)
      BY <1>0, <3>1, LifecycleAssumption DEF Accept, SocketsOK
    <3>2. CASE Finish(s)
      BY <1>0, <3>2, LifecycleAssumption DEF Finish, SocketsOK
    <3>3. CASE Upgrade(s)
      BY <1>0, <3>3, LifecycleAssumption DEF Upgrade, SocketsOK
    <3>4. CASE Disconnect(s)
      BY <1>0, <3>4, LifecycleAssumption DEF Disconnect, SocketsOK
    <3> QED
      BY <1>5, <3>1, <3>2, <3>3, <3>4
  <2> QED
    BY <1>5, <1>b, <1>c, <1>d, <2>2, <2>3 DEF Accept, Finish, Upgrade, Disconnect
<1>6. CASE ReopenLogs
  <2>1. SignalsOK'
    BY <1>0, <1>6, TakeTypes DEF ReopenLogs, Take
  <2>2. TypeOKLogs'
    BY <1>0, <1>6, LogTypes DEF ReopenLogs
  <2>3. StateOK' /\ Running'
    BY <1>0, <1>6 DEF ReopenLogs, Take, StateOK, Running, firewall, servers
  <2> QED
    BY <1>6, <1>b, <1>e, <2>1, <2>2, <2>3 DEF ReopenLogs
<1>7. ASSUME NEW s \in Streams, ReopenLog(s) \/ RotateLog(s) PROVE TypeOK'
  <2>1. TypeOKLogs'
    BY <1>0, <1>7, LogTypes DEF ReopenLog, RotateLog
  <2>2. StateOK' /\ NothingOpen'
    BY <1>0, <1>7 DEF ReopenLog, RotateLog, StateOK, NothingOpen, Running, firewall, servers
  <2> QED
    BY <1>7, <1>b, <1>d, <1>e, <2>1, <2>2 DEF ReopenLog, RotateLog
<1>8. CASE Terminate \/ DrainHTTP \/ CloseHTTP3
  <2>1. StateOK' /\ Running'
    BY <1>0, <1>8 DEF Terminate, DrainHTTP, CloseHTTP3, StateOK, Phase, Shutting, Running, firewall
  <2>2. SocketsOK'
    BY <1>0, <1>8 DEF Terminate, DrainHTTP, CloseHTTP3, CloseListener, SocketsOK, Server, TCP
  <2>3. SignalsOK'
    <3>1. CASE Terminate
      BY <3>1 DEF Terminate, SignalsOK
    <3> QED
      BY <1>8, <1>d, <3>1 DEF DrainHTTP, CloseHTTP3
  <2> QED
    BY <1>8, <1>b, <1>c, <2>1, <2>2, <2>3 DEF Terminate, DrainHTTP, CloseHTTP3
<1>9. CASE DrainHTTPS \/ Deadline
  <2>1. StateOK' /\ Running'
    BY <1>0, <1>9 DEF DrainHTTPS, Deadline, StateOK, Phase, Shutting, Running, firewall, servers
  <2>2. SocketsOK'
    BY <1>0, <1>9 DEF DrainHTTPS, Deadline, SocketsOK, servers
  <2> QED
    BY <1>9, <1>b, <1>c, <1>d, <2>1, <2>2 DEF DrainHTTPS, Deadline
<1>10. CASE DisableRedirect
  <2>1. owed' \in BOOLEAN /\ Gone("stopped")
    BY <1>10, <1>a DEF DisableRedirect
  <2>2. StateOK'
    BY <1>0, <1>10, <2>1, GoneTypes DEF DisableRedirect, StateOK, Fault
  <2> QED
    BY <1>b, <2>1, <2>2, GoneTypes
<1>11. CASE Kill
  <2>1. owed' \in BOOLEAN /\ Gone("dead")
    BY <1>11, <1>a DEF Kill
  <2>2. crashes' \in 0..MaxCrashes
    BY <1>0, <1>11, LifecycleAssumption DEF Kill, StateOK
  <2>3. StateOK'
    BY <1>0, <1>11, <2>1, <2>2, GoneTypes DEF Kill, StateOK
  <2> QED
    BY <1>b, <2>1, <2>3, GoneTypes
<1>12. CASE Restart \/ Start
  <2>1. StateOK' /\ Running'
    BY <1>0, <1>12 DEF Restart, Start, StateOK, Phase, Early, Running, firewall, servers
  <2> QED
    BY <1>12, <1>b, <1>c, <1>d, <1>e, <2>1 DEF Restart, Start
<1>13. CASE Stop \/ PostRotate
  BY <1>13, <1>a, SignalTypes DEF Stop, PostRotate
<1>14. CASE UNCHANGED vars
  BY <1>14 DEF vars, firewall, servers, logs, TypeOK, TypeOKLogs, Running
<1>15. CASE StartFails
  <2>1. owed' \in BOOLEAN /\ Gone("dead")
    BY <1>15, <1>a DEF StartFails
  <2>2. StateOK'
    BY <1>0, <1>15, <2>1, GoneTypes DEF StartFails, StateOK, Fault
  <2> QED
    BY <1>b, <2>1, <2>2, GoneTypes
<1>16. CASE GiveUp
  <2>1. StateOK' /\ NothingOpen'
    BY <1>0, <1>16 DEF GiveUp, StateOK, Phase, NothingOpen, Running, firewall, servers
  <2> QED
    BY <1>16, <1>b, <1>c, <1>d, <1>e, <2>1 DEF GiveUp
<1> QED
  BY <1>1, <1>2, <1>3, <1>4, <1>5, <1>6, <1>7, <1>8, <1>9, <1>10, <1>11, <1>12,
     <1>13, <1>14, <1>15, <1>16 DEF Next, Step, Listens

\* The types hold for any number of streams, connections and crashes.
THEOREM LifecycleTypes == Spec => []TypeOK
<1>1. Init => TypeOK
  <2> SUFFICES ASSUME Init PROVE TypeOK
    OBVIOUS
  <2>1. crashes \in 0..MaxCrashes
    BY LifecycleAssumption DEF Init
  <2>3. TypeOKLogs
    BY DEF Init, InitLogs, TypeOKLogs
  <2>4. SocketsOK
    BY LifecycleAssumption DEF Init, SocketsOK, NoServer, NoConns
  <2>5. SignalsOK
    BY DEF Init, SignalsOK
  <2> QED
    BY <2>1, <2>3, <2>4, <2>5 DEF Init, TypeOK, SocketsOK, SignalsOK, Phase, Early, Fault, Running
<1> QED
  BY <1>1, NextTypeOK, PTL DEF Spec

-----------------------------------------------------------------------------

\* Where run() and shutdown() may have a server listening: after the redirect
\* was asked for and before its end is decided.
Exposed == phase \in {"starting", "serving"} \cup Shutting

\* Servers listen only there, and there the redirect is in place unless netlink
\* refused it.
RedirectInv ==
    /\ (\E s \in Server : listener[s] = "open") => Exposed
    /\ Exposed => redirect \/ fault = "netlink"

\* Every step keeps that: Boot, which forgets what failed, comes before any
\* listener, and only the last step of the process takes the rules away.
LEMMA NextRedirectInv == RedirectInv /\ [Next]_vars => RedirectInv'
<1> SUFFICES ASSUME RedirectInv, [Next]_vars PROVE RedirectInv'
  OBVIOUS
<1> USE DEF RedirectInv, Exposed, Shutting
<1>1. CASE Begin \/ Ensure \/ Install \/ Boot
  BY <1>1 DEF Begin, Ensure, Install, Boot, firewall, servers
<1>2. CASE EnableRedirect \/ Notify
  BY <1>2 DEF EnableRedirect, Notify, firewall, servers
<1>3. ASSUME NEW s \in Server, Listen(s) PROVE RedirectInv'
  BY <1>3 DEF Listen, firewall
<1>4. CASE Terminate \/ DrainHTTP
  <2>1. ASSUME NEW s \in Server, listener'[s] = "open" PROVE Exposed'
    BY <1>4 DEF Terminate, DrainHTTP
  <2> QED
    BY <1>4, <2>1 DEF Terminate, Take, DrainHTTP, firewall
<1>5. CASE DrainHTTPS \/ Deadline
  BY <1>5 DEF DrainHTTPS, Deadline, firewall, servers
<1>6. CASE CloseHTTP3
  BY <1>6 DEF CloseHTTP3, firewall
<1>7. CASE StartFails \/ DisableRedirect \/ Kill
  BY <1>7 DEF StartFails, DisableRedirect, Kill, Gone, NoServer
<1>8. CASE Stop \/ PostRotate
  BY <1>8 DEF Stop, PostRotate, Signal, Gone, NoServer, servers
<1>9. CASE Restart \/ GiveUp \/ Start
  BY <1>9 DEF Restart, GiveUp, Start, firewall, servers
<1>10. ASSUME NEW s \in TCP, Accept(s) \/ Finish(s) \/ Upgrade(s) \/ Disconnect(s)
       PROVE  RedirectInv'
  BY <1>10 DEF Accept, Finish, Upgrade, Disconnect, firewall
<1>11. CASE ReopenLogs \/ (\E s \in Streams : ReopenLog(s) \/ RotateLog(s))
  BY <1>11 DEF ReopenLogs, ReopenLog, RotateLog, firewall, servers
<1>12. CASE UNCHANGED vars
  BY <1>12 DEF vars, firewall, servers
<1> QED
  BY <1>1, <1>2, <1>3, <1>4, <1>5, <1>6, <1>7, <1>8, <1>9, <1>10, <1>11, <1>12
     DEF Next, Step, Listens

\* No server answers beside a backend that traffic reaches directly: the redirect
\* is there from before the first listener opens until after the last one, HTTP/3
\* included, has closed (main.go:289-308, 366-389, 414-428).
THEOREM ServingIsFiltered == Spec => []FilteredWhileServing
<1>1. Init => RedirectInv
  BY DEF Init, RedirectInv, Exposed, Shutting, NoServer
<1>2. RedirectInv => FilteredWhileServing
  BY DEF RedirectInv, FilteredWhileServing
<1> QED
  BY <1>1, <1>2, NextRedirectInv, PTL DEF Spec

-----------------------------------------------------------------------------

\* What the stages of shutdown leave behind: a TCP server whose turn is over no
\* longer listens, never will, and has no request in flight, unless the deadline
\* passed.
DrainInv ==
    /\ phase \in Shutting => listener["http"] = "shut"
    /\ phase \in Shutting \ {"drainHTTP"} => listener["https"] = "shut" /\ Drained("http")
    /\ phase \in {"closeHTTP3", "firewall"} => Drained("https")

\* The stages keep what the earlier ones achieved: nothing is accepted on a
\* closed listener and the deadline does not come back.
LEMMA NextDrainInv == TypeOK /\ DrainInv /\ [Next]_vars => DrainInv'
<1> SUFFICES ASSUME TypeOK, DrainInv, [Next]_vars PROVE DrainInv'
  OBVIOUS
<1>0. /\ listener \in [Server -> {"closed", "open", "failed", "shut"}]
      /\ conns \in [TCP -> Nat]
      /\ TCP = {"http", "https"} /\ TCP \subseteq Server
  BY DEF TypeOK, Server, TCP
<1> USE <1>0 DEF DrainInv, Drained, Shutting
<1>1. CASE Begin \/ Ensure \/ Install \/ Boot \/ StartFails \/ EnableRedirect \/ Notify
  BY <1>1 DEF Begin, Ensure, Install, Boot, StartFails, EnableRedirect, Notify, Gone
<1>2. ASSUME NEW s \in Server, Listen(s) PROVE DrainInv'
  BY <1>2 DEF Listen
<1>3. CASE Terminate
  BY <1>3 DEF Terminate, CloseListener
<1>4. CASE DrainHTTP
  BY <1>4 DEF DrainHTTP, CloseListener
<1>5. CASE DrainHTTPS \/ Deadline
  BY <1>5 DEF DrainHTTPS, Deadline, servers
<1>6. CASE CloseHTTP3
  BY <1>6 DEF CloseHTTP3
<1>7. CASE DisableRedirect \/ Kill
  BY <1>7 DEF DisableRedirect, Kill, Gone
<1>8. CASE Stop \/ PostRotate
  BY <1>8 DEF Stop, PostRotate, Signal, Gone, servers
<1>9. CASE Restart \/ GiveUp \/ Start
  BY <1>9 DEF Restart, GiveUp, Start
<1>10. ASSUME NEW s \in TCP, Accept(s) PROVE DrainInv'
  BY <1>10 DEF Accept
<1>11. ASSUME NEW s \in TCP, Finish(s) PROVE DrainInv'
  BY <1>11 DEF Finish
<1>12. CASE ReopenLogs \/ (\E s \in Streams : ReopenLog(s) \/ RotateLog(s))
  BY <1>12 DEF ReopenLogs, ReopenLog, RotateLog, servers
<1>13. CASE UNCHANGED vars
  BY <1>13 DEF vars, servers
<1>14. ASSUME NEW s \in TCP, Upgrade(s) \/ Disconnect(s) PROVE DrainInv'
  BY <1>14 DEF Upgrade, Disconnect
<1> QED
  BY <1>1, <1>2, <1>3, <1>4, <1>5, <1>6, <1>7, <1>8, <1>9, <1>10, <1>11, <1>12, <1>13,
     <1>14 DEF Next, Step, Listens

\* A shutdown ends with TCP requests in flight only when its 25 s have passed,
\* for any number of connections (http.Server.Shutdown one after the other
\* under one deadline, main.go:412-415).  Connections that were upgraded are not
\* among them: the servers no longer have those, and they are cut off.
THEOREM RequestsAreDrained == Spec => NoRequestCut
<1>1. Init => DrainInv
  BY DEF Init, DrainInv, Shutting
<1>2. DrainInv =>
        [phase = "firewall" /\ phase' = "stopped" => (\A s \in TCP : conns[s] = 0) \/ late]_vars
  BY DEF DrainInv, Drained, Shutting, TCP
<1> QED
  BY <1>1, <1>2, NextDrainInv, LifecycleTypes, PTL DEF Spec, NoRequestCut

-----------------------------------------------------------------------------

\* The files are written in the order of the walk, so that the configuration
\* is never without the policy; and run() goes on only with a configuration.
LayoutInv ==
    /\ "config" \in layout => "logrotate" \in layout
    /\ PolicyInstalled

\* Every step keeps the order: only Ensure and Install write files, each the
\* first one that is missing.
LEMMA NextLayoutInv == LayoutInv /\ [Next]_vars => LayoutInv'
<1> SUFFICES ASSUME LayoutInv, [Next]_vars PROVE LayoutInv'
  OBVIOUS
<1> USE DEF LayoutInv, PolicyInstalled, Running
<1>1. ASSUME NEW f, Missing(f), layout' = layout \cup {f}
      PROVE  "config" \in layout' => "logrotate" \in layout'
  BY <1>1 DEF Missing, Skel
<1>2. CASE Begin
  BY <1>2 DEF Begin, NeedsInit
<1>3. CASE Ensure
  <2>1. CASE layout = Default /\ phase' = "boot" /\ UNCHANGED layout
    BY <2>1 DEF Default, Skel
  <2>2. CASE UNCHANGED phase /\ \E f \in Default : Missing(f) /\ layout' = layout \cup {f}
    BY <1>1, <1>3, <2>2 DEF Ensure
  <2> QED
    BY <1>3, <2>1, <2>2 DEF Ensure
<1>4. CASE Install
  BY <1>1, <1>4 DEF Install
<1>5. CASE Boot \/ StartFails
  BY <1>5 DEF Boot, StartFails, Gone
<1>6. CASE EnableRedirect \/ Notify \/ Terminate \/ DrainHTTP \/ DrainHTTPS \/ CloseHTTP3
  BY <1>6 DEF EnableRedirect, Notify, Terminate, Take, DrainHTTP, DrainHTTPS, CloseHTTP3
<1>7. CASE DisableRedirect \/ Kill \/ Restart \/ GiveUp \/ Start
  BY <1>7 DEF DisableRedirect, Kill, Restart, GiveUp, Start, Gone
<1>8. CASE Stop \/ PostRotate
  BY <1>8 DEF Stop, PostRotate, Signal, Gone
<1>9. CASE Listens \/ Deadline \/ ReopenLogs
  BY <1>9 DEF Listens, Listen, Deadline, ReopenLogs
<1>10. CASE \/ \E s \in Streams : ReopenLog(s) \/ RotateLog(s)
            \/ \E s \in TCP : Accept(s) \/ Finish(s) \/ Upgrade(s) \/ Disconnect(s)
  BY <1>10 DEF ReopenLog, RotateLog, Accept, Finish, Upgrade, Disconnect
<1>11. CASE UNCHANGED vars
  BY <1>11 DEF vars
<1> QED
  BY <1>2, <1>3, <1>4, <1>5, <1>6, <1>7, <1>8, <1>9, <1>10, <1>11 DEF Next, Step

\* Whatever crash interrupts the first run, a service that comes past it has
\* its configuration and its logrotate policy.
THEOREM FirstRunUsable == Spec => []PolicyInstalled
<1>1. Init => LayoutInv
  BY DEF Init, LayoutInv, PolicyInstalled
<1>2. LayoutInv => PolicyInstalled
  BY DEF LayoutInv
<1> QED
  BY <1>1, <1>2, NextLayoutInv, PTL DEF Spec
=============================================================================
