-------------------------- MODULE StudentPipeline --------------------------
(***************************************************************************)
(* What the student stages promise whoever reads them: students fly one at *)
(* a time, every student is trained once, is fanned out only if that went  *)
(* well, and is joined once, when all that can be reported has been; what  *)
(* was reported is never taken back.  A student that expires stays where   *)
(* it is, and its stages may still report.                                 *)
(***************************************************************************)
CONSTANTS Jobs, Variants

VARIABLES
    flying,    \* the student whose stages may still run, if any
    stage,     \* of each: unborn, training, failed, trained, branching, joined
    reported   \* the branches that have reported

vars == <<flying, stage, reported>>

Init ==
    /\ flying = {} /\ reported = {}
    /\ stage = [j \in Jobs |-> "unborn"]

Goto(j, s) == stage' = [stage EXCEPT ![j] = s]

\* A student that expires before its start never flies.
Start(j) ==
    /\ flying = {} /\ stage[j] = "unborn"
    /\ Goto(j, "training")
    /\ flying' \in {{}, {j}} /\ UNCHANGED reported

Train(j) ==
    /\ stage[j] = "training"
    /\ Goto(j, "trained") \/ Goto(j, "failed")
    /\ UNCHANGED <<flying, reported>>

FanOut(j) ==
    /\ stage[j] = "trained"
    /\ Goto(j, "branching")
    /\ UNCHANGED <<flying, reported>>

Report(j, v) ==
    /\ stage[j] = "branching" /\ <<j, v>> \notin reported
    /\ reported' = reported \cup {<<j, v>>}
    /\ UNCHANGED <<flying, stage>>

Join(j) ==
    /\ \/ stage[j] = "failed"
       \/ stage[j] = "branching" /\ \A v \in Variants : <<j, v>> \in reported
    /\ Goto(j, "joined")
    /\ flying' = flying \ {j} /\ UNCHANGED reported

Expire == flying' = {} /\ UNCHANGED <<stage, reported>>

Next ==
    \/ \E j \in Jobs : \/ Start(j) \/ Train(j) \/ FanOut(j) \/ Join(j)
                       \/ \E v \in Variants : Report(j, v)
    \/ Expire

Spec == Init /\ [][Next]_vars
=============================================================================
