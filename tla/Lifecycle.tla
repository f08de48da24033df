----------------------------- MODULE Lifecycle ------------------------------
(***************************************************************************)
(* The life of the process (cmd/smoker/main.go: run and shutdown), with    *)
(* the first-run provisioning (internal/bootstrap), the log streams        *)
(* (module Logging), and the nftables redirect                             *)
(* (internal/firewall/firewall_linux.go), which is kernel state and        *)
(* outlives it.  While the redirect is installed, public traffic goes to   *)
(* the proxy's ports, whether or not anybody listens there; without it,    *)
(* traffic reaches the backend directly.                                   *)
(***************************************************************************)
EXTENDS Logging, Integers, Sequences

CONSTANTS
    HTTP3,       \* listen.http3
    MaxConns,    \* bound on the connections of a server
    MaxCrashes   \* bound on crashes and kills

ASSUME LifecycleAssumption ==
    HTTP3 \in BOOLEAN /\ MaxConns \in Nat \ {0} /\ MaxCrashes \in Nat

VARIABLES
    phase,     \* where run() is; "stopped" after exit 0, "dead" after any other end
    layout,    \* the default files that are on disk
    sig,       \* the channel that signal.Notify fills
    failOpen,  \* firewall.fail_open as the last complete start read it
    redirect,  \* whether the kernel holds the redirect rules
    fw,        \* whether run() has a firewall controller
    listener,  \* per server: "closed" (not yet open), "open", "failed" or "shut"
    conns,     \* per TCP server: requests in flight; nothing waits for HTTP/3's
    upgraded,  \* per TCP server: connections that a handler has hijacked
    late,      \* whether the 25 s of shutdown have passed
    crashes,   \* number of crashes so far
    fault      \* history: what failed last, since the last start that came past
               \* its boot

\* What only the servers, or only the firewall code, change.
servers == <<listener, conns, upgraded, late>>
firewall == <<failOpen, redirect, fw>>
vars == <<phase, layout, sig, firewall, servers, crashes, fault, logs, owed>>

-----------------------------------------------------------------------------

TCP == {"http", "https"}
Server == TCP \cup (IF HTTP3 THEN {"http3"} ELSE {})

\* The stages of run() and shutdown() in order, and the ends.
Early == {"init", "ensure", "boot", "redirect", "starting"}
Shutting == {"drainHTTP", "drainHTTPS", "closeHTTP3", "firewall"}
Phase == Early \cup {"serving"} \cup Shutting \cup {"stopped", "dead"}

\* A netlink call failed, a start failed, or a signal came before run() asked
\* for signals.
Fault == {"none", "netlink", "start", "signal"}

Running == phase \notin {"stopped", "dead"}

NoServer == [s \in Server |-> "closed"]
NoConns == [s \in TCP |-> 0]

\* Somebody answers the redirected traffic.
Listening == \E s \in TCP : listener[s] = "open"

\* The process is gone: the kernel closes its files and sockets and keeps the
\* rules.
Gone(end) ==
    /\ phase' = end
    /\ fw' = FALSE
    /\ listener' = NoServer /\ conns' = NoConns /\ upgraded' = NoConns /\ late' = FALSE
    /\ sig' = <<>>
    /\ CloseLogs

-----------------------------------------------------------------------------
(* bootstrap *)

\* The embedded files in the order of the walk, which is lexical.  The pages come
\* after these, and nothing looks at whether they are there.
Skel == <<"logrotate", "config">>
Default == {Skel[i] : i \in DOMAIN Skel}

\* Mutation of Missing: the files are written in any order.
MissingAny(f) == f \in Default \ layout

\* f is the next file Ensure has to write; files that exist are skipped.
Missing(f) ==
    \E i \in DOMAIN Skel : /\ f = Skel[i] /\ f \notin layout
                           /\ \A j \in 1..(i - 1) : Skel[j] \in layout

\* NeedsInit looks at the configuration file only.
NeedsInit == "config" \notin layout

Begin ==
    /\ phase = "init"
    /\ phase' = IF NeedsInit THEN "ensure" ELSE "boot"
    /\ UNCHANGED <<layout, sig, firewall, servers, crashes, fault, logs, owed>>

Ensure ==
    /\ phase = "ensure"
    /\ IF layout = Default THEN phase' = "boot" /\ UNCHANGED layout
       ELSE /\ \E f \in Default : Missing(f) /\ layout' = layout \cup {f}
            /\ UNCHANGED phase
    /\ UNCHANGED <<sig, firewall, servers, crashes, fault, logs, owed>>

\* smoker --init, by hand; it may be interrupted as well.
Install ==
    /\ phase = "stopped"
    /\ \E f \in Default : Missing(f) /\ layout' = layout \cup {f}
    /\ UNCHANGED <<phase, sig, firewall, servers, crashes, fault, logs, owed>>

-----------------------------------------------------------------------------
(* run *)

\* Configuration, logs, database, tracker, ...: all of it went well.
Boot ==
    /\ phase = "boot"
    /\ failOpen' \in BOOLEAN
    /\ phase' = "redirect"
    /\ fault' = "none"
    /\ OpenLogs
    /\ UNCHANGED <<layout, sig, redirect, fw, servers, crashes, owed>>

\* A default file cannot be written, the configuration is broken, the database
\* is locked, ...: run() returns the error and the process exits with 1.  The
\* next start meets the same file again, so this may happen any number of times.
StartFails ==
    /\ phase \in {"ensure", "boot"}
    /\ Gone("dead")
    /\ fault' = "start"
    /\ UNCHANGED <<layout, failOpen, redirect, crashes, owed>>

\* firewall.New and EnableRedirect, one netlink transaction; failures are
\* logged and the start goes on.  A controller that could not install its
\* rules is still there at shutdown.  A start with the firewall switched off
\* is like one where firewall.New failed.
EnableRedirect ==
    /\ phase = "redirect"
    /\ phase' = "starting"
    /\ \/ redirect' = TRUE /\ fw' = TRUE /\ UNCHANGED fault
       \/ \E ok \in BOOLEAN : fw' = ok /\ fault' = "netlink" /\ UNCHANGED redirect
    /\ UNCHANGED <<layout, sig, failOpen, servers, crashes, logs, owed>>

\* ListenAndServe in a goroutine of its own, which may come to it when the
\* shutdown has already begun; a failure is only logged.
Listen(s) ==
    /\ phase \in {"starting", "serving"} \cup Shutting /\ listener[s] = "closed"
    /\ \E outcome \in {"open", "failed"} : listener' = [listener EXCEPT ![s] = outcome]
    /\ UNCHANGED <<phase, layout, sig, firewall, conns, upgraded, late, crashes, fault, logs, owed>>

\* signal.Notify, the last thing run() does before it waits.
Notify ==
    /\ phase = "starting"
    /\ phase' = "serving"
    /\ UNCHANGED <<layout, sig, firewall, servers, crashes, fault, logs, owed>>

Accept(s) ==
    /\ listener[s] = "open" /\ conns[s] + upgraded[s] < MaxConns
    /\ conns' = [conns EXCEPT ![s] = @ + 1]
    /\ UNCHANGED <<phase, layout, sig, firewall, listener, upgraded, late, crashes, fault,
                   logs, owed>>

Finish(s) ==
    /\ conns[s] > 0
    /\ conns' = [conns EXCEPT ![s] = @ - 1]
    /\ UNCHANGED <<phase, layout, sig, firewall, listener, upgraded, late, crashes, fault,
                   logs, owed>>

\* A request to upgrade the connection (WebSocket) is answered 101 and the
\* reverse proxy takes the connection over from the HTTP/1 server, which no
\* longer knows of it.
Upgrade(s) ==
    /\ conns[s] > 0
    /\ conns' = [conns EXCEPT ![s] = @ - 1]
    /\ upgraded' = [upgraded EXCEPT ![s] = @ + 1]
    /\ UNCHANGED <<phase, layout, sig, firewall, listener, late, crashes, fault, logs, owed>>

\* One end of an upgraded connection closes it.
Disconnect(s) ==
    /\ upgraded[s] > 0
    /\ upgraded' = [upgraded EXCEPT ![s] = @ - 1]
    /\ UNCHANGED <<phase, layout, sig, firewall, listener, conns, late, crashes, fault,
                   logs, owed>>

-----------------------------------------------------------------------------
(* Signals *)

\* Mutation of Deliver: a channel without a buffer.
DeliverUnbuffered(x) ==
    sig' = IF phase = "serving" /\ left = {} /\ sig = <<>> THEN <<x>> ELSE sig

\* Mutation of Deliver: a channel without a bound.
DeliverUnbounded(x) ==
    sig' = IF \A i \in DOMAIN sig : sig[i] = "HUP" THEN Append(sig, x) ELSE sig

\* The channel holds two signals; one that finds it full is lost, and one
\* behind a SIGTERM is never read.
Deliver(x) ==
    sig' = IF Len(sig) < 2 /\ (\A i \in DOMAIN sig : sig[i] = "HUP") THEN Append(sig, x) ELSE sig

\* A signal before Notify ends the process on the spot, and systemd takes that
\* for a stop somebody asked for.  Once shutdown has begun nobody reads the
\* channel any more.
Signal(x) ==
    /\ \/ /\ phase \in Early
          /\ fault' = "signal"
          /\ Gone("stopped")
       \/ /\ phase = "serving"
          /\ Deliver(x)
          /\ UNCHANGED <<phase, fw, servers, fault, logs>>
       \/ /\ phase \notin Early \cup {"serving"}
          /\ UNCHANGED <<phase, sig, fw, servers, fault, logs>>
    /\ UNCHANGED <<layout, failOpen, redirect, crashes>>

\* SIGTERM or SIGINT.
Stop == phase \in Early \cup {"serving"} /\ Signal("TERM") /\ UNCHANGED owed

\* systemctl reload, by logrotate when it has moved its files.
PostRotate == owed /\ owed' = FALSE /\ Signal("HUP")

\* logrotate has a policy for the files once bootstrap has put it there.
RotateLog(s) ==
    /\ "logrotate" \in layout
    /\ Rotate(s)
    /\ UNCHANGED <<phase, layout, sig, firewall, servers, crashes, fault>>

\* The signal loop takes the next signal.
Take(x) ==
    /\ phase = "serving" /\ left = {}
    /\ sig # <<>> /\ Head(sig) = x

ReopenLogs ==
    /\ Take("HUP")
    /\ sig' = Tail(sig)
    /\ ReopenBegin
    /\ UNCHANGED <<phase, layout, firewall, servers, crashes, fault, owed>>

ReopenLog(s) ==
    /\ Reopen(s)
    /\ UNCHANGED <<phase, layout, sig, firewall, servers, crashes, fault, owed>>

-----------------------------------------------------------------------------
(* shutdown *)

\* Server.Shutdown: the listener closes at once, and one that has yet to open
\* never will.
CloseListener(s) == listener' = [listener EXCEPT ![s] = "shut"]

\* Mutation of Terminate: the bypass is opened before the servers are drained.
TerminateBypassFirst ==
    /\ Take("TERM")
    /\ sig' = <<>>
    /\ phase' = "drainHTTP"
    /\ CloseListener("http")
    /\ redirect' = (redirect /\ ~(fw /\ failOpen))
    /\ UNCHANGED <<layout, failOpen, fw, conns, upgraded, late, crashes, fault, logs, owed>>

\* SIGTERM or SIGINT is taken: the HTTP server stops listening.
Terminate ==
    /\ Take("TERM")
    /\ sig' = <<>>
    /\ phase' = "drainHTTP"
    /\ CloseListener("http")
    /\ UNCHANGED <<layout, firewall, conns, upgraded, late, crashes, fault, logs, owed>>

\* The common deadline of both servers passes.
Deadline ==
    /\ phase \in {"drainHTTP", "drainHTTPS"} /\ ~late
    /\ late' = TRUE
    /\ UNCHANGED <<phase, layout, sig, firewall, listener, conns, upgraded, crashes, fault, logs, owed>>

\* Server.Shutdown waits for the connections the server still has: those that
\* were hijacked are no longer among them.
Drained(s) == conns[s] = 0 \/ late

\* Mutation of DrainHTTP: HTTPS is not waited for.
DrainHTTPOnly ==
    /\ phase = "drainHTTP" /\ Drained("http")
    /\ phase' = "closeHTTP3"
    /\ CloseListener("https")
    /\ UNCHANGED <<layout, sig, firewall, conns, upgraded, late, crashes, fault, logs, owed>>

\* Only when HTTP is drained does HTTPS stop listening.
DrainHTTP ==
    /\ phase = "drainHTTP" /\ Drained("http")
    /\ phase' = "drainHTTPS"
    /\ CloseListener("https")
    /\ UNCHANGED <<layout, sig, firewall, conns, upgraded, late, crashes, fault, logs, owed>>

\* Mutation of DrainHTTPS: the deadline is ignored.
DrainHTTPSForever ==
    /\ phase = "drainHTTPS" /\ conns["https"] = 0
    /\ phase' = "closeHTTP3"
    /\ UNCHANGED <<layout, sig, firewall, servers, crashes, fault, logs, owed>>

DrainHTTPS ==
    /\ phase = "drainHTTPS" /\ Drained("https")
    /\ phase' = "closeHTTP3"
    /\ UNCHANGED <<layout, sig, firewall, servers, crashes, fault, logs, owed>>

\* The HTTP/3 server, which has gone on accepting until now, is closed and not
\* drained: its requests are cut off.
CloseHTTP3 ==
    /\ phase = "closeHTTP3"
    /\ phase' = "firewall"
    /\ listener' = [s \in Server |-> IF s = "http3" THEN "shut" ELSE listener[s]]
    /\ UNCHANGED <<layout, sig, firewall, conns, upgraded, late, crashes, fault, logs, owed>>

\* Mutation of DisableRedirect: the redirect is never removed.
DisableRedirectNever ==
    /\ phase = "firewall"
    /\ Gone("stopped")
    /\ UNCHANGED <<layout, failOpen, redirect, crashes, fault, owed>>

\* The end state of the firewall; then the deferred calls close the database
\* and the logs, and the process exits with 0.
DisableRedirect ==
    /\ phase = "firewall"
    /\ \/ redirect' = (redirect /\ ~(fw /\ failOpen)) /\ UNCHANGED fault
       \/ fw /\ failOpen /\ fault' = "netlink" /\ UNCHANGED redirect
    /\ Gone("stopped")
    /\ UNCHANGED <<layout, failOpen, crashes, owed>>

-----------------------------------------------------------------------------
(* The environment *)

\* SIGKILL, a fatal error of the runtime, the OOM killer.
Kill ==
    /\ Running /\ crashes < MaxCrashes
    /\ crashes' = crashes + 1
    /\ Gone("dead")
    /\ UNCHANGED <<layout, failOpen, redirect, fault, owed>>

\* systemd restarts after a failure (Restart=on-failure).
Restart ==
    /\ phase = "dead"
    /\ phase' = "init"
    /\ UNCHANGED <<layout, sig, firewall, servers, crashes, fault, logs, owed>>

\* ... until starts have failed too often (its start limit, at the default).
GiveUp ==
    /\ phase = "dead" /\ fault = "start"
    /\ phase' = "stopped"
    /\ UNCHANGED <<layout, sig, firewall, servers, crashes, fault, logs, owed>>

\* The operator starts the service again.
Start ==
    /\ phase = "stopped"
    /\ phase' = "init"
    /\ UNCHANGED <<layout, sig, firewall, servers, crashes, fault, logs, owed>>

-----------------------------------------------------------------------------

\* A machine where the service has never run.
Init ==
    /\ phase = "init" /\ layout = {}
    /\ sig = <<>>
    /\ failOpen \in BOOLEAN
    /\ redirect = FALSE /\ fw = FALSE
    /\ listener = NoServer /\ conns = NoConns /\ upgraded = NoConns
    /\ late = FALSE
    /\ crashes = 0 /\ fault = "none"
    /\ InitLogs

\* Steps of the main goroutine.
Step ==
    \/ Begin \/ Ensure \/ Boot \/ EnableRedirect \/ Notify
    \/ ReopenLogs \/ \E s \in Streams : ReopenLog(s)
    \/ Terminate \/ DrainHTTP \/ DrainHTTPS \/ CloseHTTP3 \/ DisableRedirect

Listens == \E s \in Server : Listen(s)

Next ==
    \/ Step \/ StartFails \/ Listens \/ Deadline
    \/ Kill \/ Restart \/ GiveUp \/ Start \/ Install
    \/ Stop \/ PostRotate \/ \E s \in Streams : RotateLog(s)
    \/ \E s \in TCP : Accept(s) \/ Finish(s) \/ Upgrade(s) \/ Disconnect(s)

Spec == Init /\ [][Next]_vars

(* The process runs, its timer fires, systemd restarts it and logrotate     *)
(* comes to its postrotate.  Nothing says that a request ends, that a       *)
(* signal comes, or that anybody starts again.                              *)
Fairness ==
    /\ WF_vars(Step) /\ WF_vars(Listens) /\ WF_vars(Deadline)
    /\ WF_vars(Restart) /\ WF_vars(PostRotate)

FairSpec == Spec /\ Fairness

-----------------------------------------------------------------------------
(* Properties *)

\* The variables have their types; without a process nothing listens.
TypeOK ==
    /\ phase \in Phase /\ layout \subseteq Default
    /\ sig \in Seq({"HUP", "TERM"}) /\ Len(sig) <= 2
    /\ {failOpen, redirect, fw, late} \subseteq BOOLEAN
    /\ listener \in [Server -> {"closed", "open", "failed", "shut"}]
    /\ conns \in [TCP -> Nat] /\ upgraded \in [TCP -> Nat]
    /\ \A s \in TCP : conns[s] + upgraded[s] <= MaxConns
    /\ crashes \in 0..MaxCrashes
    /\ fault \in Fault
    /\ TypeOKLogs
    /\ ~Running => listener = NoServer /\ conns = NoConns /\ upgraded = NoConns /\ ~fw

\* A proxy that answers is one the traffic comes through: the redirect is in
\* place before the first server listens and stays until the last one, HTTP/3
\* included, has stopped, with fail_open too (main.go:411-428), unless netlink
\* refused it.  In particular no client reaches the backend unfiltered while
\* the others are still being drained.
FilteredWhileServing ==
    (\E s \in Server : listener[s] = "open") /\ fault # "netlink" => redirect

\* A shutdown cuts requests over TCP off only when its 25 s have passed: only
\* then can one of them find the reputation database closed, and its verdict
\* lost.  Neither upgraded connections, which http.Server.Shutdown does not wait
\* for (statuswriter.go:47), nor requests over HTTP/3 (main.go:416-418) have such
\* protection.
NoRequestCut ==
    [][phase = "firewall" /\ phase' = "stopped" => (\A s \in TCP : conns[s] = 0) \/ late]_vars

\* A SIGTERM that found room in the channel ends the process, whatever signals
\* are before it and whatever the requests in flight do.
ShutdownEnds ==
    ((\E i \in DOMAIN sig : sig[i] = "TERM") \/ phase = "drainHTTP") ~> ~Running

\* With fail_open, traffic is not lost for good: a redirect to ports where
\* nobody listens (before the listeners open, while connections drain, after
\* a crash) is followed by listeners or by its removal, unless netlink or a
\* listen call failed, the process was told to stop while it started, or a
\* start failed: then the redirect stays until an operator mends its cause.
BlackholeEnds ==
    LET excused == fault # "none" \/ \E s \in TCP : listener[s] = "failed"
        lost == failOpen /\ redirect /\ ~Listening /\ ~excused
    IN  lost ~> ~lost

\* A file that logrotate has moved away is let go: every stream that writes to
\* one comes to write to the file in its place ("smoker reopens its files",
\* README.md:293), unless a file cannot be opened or the process ends.  In
\* particular no SIGHUP is lost that matters, though the channel holds only two
\* and Reopen may be under way when files are moved again.
LogsFollow ==
    \A s \in Streams : fd[s] = "moved" ~> fd[s] # "moved" \/ denied

\* A service that has come past its first run has a configuration and a
\* logrotate policy, at whatever file a crash interrupted the provisioning: the
\* walk of bootstrap.Ensure comes to the configuration, the one file NeedsInit
\* looks for, only after the policy (bootstrap.go:77-110).  What comes after the
\* configuration may be missing for good; fallbackPage (challenge.go:267) stands
\* in for the pages.
PolicyInstalled ==
    Running /\ phase \notin {"init", "ensure"} => {"config", "logrotate"} \subseteq layout

\* "FailOpen: if the proxy dies, remove DNAT so traffic reaches the backend
\* directly" (internal/config/config.go:89).
DeadIsBypassed == failOpen /\ phase = "dead" => ~redirect
=============================================================================
