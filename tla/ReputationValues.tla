-------------------------- MODULE ReputationValues --------------------------
(***************************************************************************)
(* The reputation of one address as its users see it: a state and the      *)
(* number of violations that count, and how the two change together        *)
(* (internal/reputation/reputation.go).                                    *)
(***************************************************************************)
EXTENDS Integers

CONSTANT BlockThreshold  \* Config.BlockThreshold

State == {"clean", "greylisted", "blocked"}

Value == [state : State, strikes : Nat]

Clean == [state |-> "clean", strikes |-> 0]

\* Block bans without counting.
Banned == [state |-> "blocked", strikes |-> 0]

\* A violation counts for one, and older ones may have left the window
\* meanwhile; the address is blocked from the threshold on.
AfterViolation(v) ==
    {[state |-> IF n >= BlockThreshold THEN "blocked" ELSE "greylisted", strikes |-> n]
        : n \in 0..(v.strikes + 1)}
=============================================================================
