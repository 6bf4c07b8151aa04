-------------------------- MODULE LaunchLifecycle --------------------------
(***************************************************************************)
(* What the launch chain promises a provider job that reads the frontier:  *)
(* every dispatch is reserved, launched and retired in that order, each at *)
(* most once, and at most Cap of them are reserved or launched together.   *)
(* "The union of pending intents and active pointers is capped at 18       *)
(* launches per scope ... Crash recovery materializes the exact canonical  *)
(* chain without replaying provider work" (crates/milk-carton/README.md).  *)
(***************************************************************************)
EXTENDS Integers, FiniteSets

CONSTANTS Dispatches, Cap

VARIABLE phase   \* unborn, reserved, launched or retired

Live(p) == {d \in Dispatches : p[d] \in {"reserved", "launched"}}

Init == phase = [d \in Dispatches |-> "unborn"]

\* A dispatch is admitted while there is room.
Reserve(d) ==
    /\ phase[d] = "unborn"
    /\ Cardinality(Live(phase)) < Cap
    /\ phase' = [phase EXCEPT ![d] = "reserved"]

\* Its pointer appears.
Launch(d) ==
    /\ phase[d] = "reserved"
    /\ phase' = [phase EXCEPT ![d] = "launched"]

\* It ends, with or without ever having been launched.
Retire(d) ==
    /\ phase[d] \in {"reserved", "launched"}
    /\ phase' = [phase EXCEPT ![d] = "retired"]

Next == \E d \in Dispatches : Reserve(d) \/ Launch(d) \/ Retire(d)

Spec == Init /\ [][Next]_phase
=============================================================================
