----------------------------- MODULE TickTurns -----------------------------
(***************************************************************************)
(* What the tick lease promises the control store: the tick processes of a *)
(* scope take turns.  "This control-store lease ... serializes scheduled,  *)
(* manual, local, and overlapping tick processes"                          *)
(* (crates/milk-carton/README.md).                                         *)
(***************************************************************************)
CONSTANT Tickers

VARIABLE inside   \* the processes that are mutating control state

Init == inside = {}

\* A process enters the mutation when nobody is inside.
Enter(t) == inside = {} /\ inside' = {t}

\* The process that is inside leaves, by finishing, failing or dying.
Leave(t) == inside = {t} /\ inside' = {}

Next == \E t \in Tickers : Enter(t) \/ Leave(t)

Spec == Init /\ [][Next]_inside
=============================================================================
