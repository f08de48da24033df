------------------------------ MODULE Logging -------------------------------
(***************************************************************************)
(* The log streams (internal/logging/logging.go) and logrotate, which      *)
(* moves their files away (skel/etc/logrotate.d/smoker).  A descriptor     *)
(* goes on writing to the file it was opened for, wherever that has been   *)
(* moved to.                                                               *)
(***************************************************************************)

CONSTANTS
    Streams   \* the log streams

VARIABLES
    fd,      \* per stream: "closed", or writes to the "current" or a "moved" file
    left,    \* the streams that Reopen has yet to come to
    denied,  \* whether the last Reopen met an error
    owed     \* whether logrotate has moved files and not yet run postrotate

logs == <<fd, left, denied>>

-----------------------------------------------------------------------------

\* Open, with O_CREATE.
OpenLogs ==
    /\ fd' = [s \in Streams |-> "current"]
    /\ UNCHANGED <<left, denied>>

\* The end of the process, with or without Close.
CloseLogs ==
    /\ fd' = [s \in Streams |-> "closed"]
    /\ left' = {} /\ denied' = FALSE

\* Reopen takes the lock and goes through the map, in no particular order.
ReopenBegin ==
    /\ left' = Streams /\ denied' = FALSE
    /\ UNCHANGED fd

\* reopenFile.reopen: the new file is opened before the old one is closed.  An
\* error keeps the old one, and Reopen stops there.
Reopen(s) ==
    /\ s \in left
    /\ \/ /\ fd' = [fd EXCEPT ![s] = "current"]
          /\ left' = left \ {s}
          /\ UNCHANGED denied
       \/ left' = {} /\ denied' = TRUE /\ UNCHANGED fd

\* logrotate moves one file after another, and runs postrotate at the end.
Rotate(s) ==
    /\ fd' = [fd EXCEPT ![s] = IF @ = "closed" THEN @ ELSE "moved"]
    /\ owed' = TRUE
    /\ UNCHANGED <<left, denied>>

InitLogs ==
    /\ fd = [s \in Streams |-> "closed"]
    /\ left = {} /\ denied = FALSE /\ owed = FALSE

TypeOKLogs ==
    /\ fd \in [Streams -> {"closed", "current", "moved"}]
    /\ left \subseteq Streams
    /\ {denied, owed} \subseteq BOOLEAN
=============================================================================
