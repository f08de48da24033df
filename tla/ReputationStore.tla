-------------------------- MODULE ReputationStore ---------------------------
(***************************************************************************)
(* What the rest of the program may rely on of the reputation store        *)
(* (the interface Store, internal/reputation/reputation.go:72-82), without *)
(* goroutines, locks, clocks or pointers.  An address has a state and a    *)
(* number of counted violations (strikes); every change of it is written   *)
(* to disk later, in any order, or not at all.  Module Reputation          *)
(* implements this one; module Proxy uses it.                              *)
(***************************************************************************)
EXTENDS ReputationValues

CONSTANT IPs

VARIABLES
    rep,      \* the reputation of each address
    pending,  \* per address: the values on their way to disk
    disk      \* the reputation of each address on disk

vars == <<rep, pending, disk>>

-----------------------------------------------------------------------------

\* The reputation becomes v and v is on its way to disk.  A value that has
\* yet to be written may be overtaken by v: a writer that still holds a
\* pointer to the entry writes what the entry holds by then.
Set(ip, v) ==
    /\ rep' = [rep EXCEPT ![ip] = v]
    /\ \E old \in SUBSET pending[ip] :
          pending' = [pending EXCEPT ![ip] = old \cup {v}]
    /\ UNCHANGED disk

\* A violation of an address that is not blocked.
RegisterViolation(ip) ==
    /\ rep[ip].state # "blocked"
    /\ \E v \in AfterViolation(rep[ip]) : Set(ip, v)

\* A passed challenge, or the end of an entry.
MarkClean(ip) == Set(ip, Clean)

Block(ip) == Set(ip, Banned)

\* A database transaction, or the failure of one.
Flush(ip) ==
    \E v \in pending[ip] :
        /\ disk' = [disk EXCEPT ![ip] = v] \/ UNCHANGED disk
        /\ pending' = [pending EXCEPT ![ip] = @ \ {v}] \/ UNCHANGED pending
        /\ UNCHANGED rep

\* After a restart an address is what the disk says of it, or clean.
Restart ==
    /\ rep' \in [IPs -> Value]
    /\ \A ip \in IPs : rep'[ip] \in {disk[ip], Clean}
    /\ pending' = [ip \in IPs |-> {}]
    /\ UNCHANGED disk

-----------------------------------------------------------------------------

Init ==
    /\ rep = [ip \in IPs |-> Clean]
    /\ pending = [ip \in IPs |-> {}]
    /\ disk = [ip \in IPs |-> Clean]

Next ==
    \/ \E ip \in IPs : RegisterViolation(ip) \/ MarkClean(ip) \/ Block(ip) \/ Flush(ip)
    \/ Restart

Spec == Init /\ [][Next]_vars
=============================================================================
