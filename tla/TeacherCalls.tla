---------------------------- MODULE TeacherCalls ---------------------------
(***************************************************************************)
(* What teacher runs promise about a call: it is started or forgone, once  *)
(* and for good; only a call that was started gets a verdict, and keeps it;*)
(* and the one run that it belongs to tells at most once what it came to,  *)
(* truly, with every other call of the run.  A verdict may still come when *)
(* the run has said that the call is ambiguous.                            *)
(***************************************************************************)
CONSTANT Jobs

VARIABLES
    call,      \* of each job: open, started or forgone
    verdict,   \* none, usable or unusable
    told       \* what a run result says of it, if one does

vars == <<call, verdict, told>>

Init ==
    /\ call = [j \in Jobs |-> "open"] /\ verdict = [j \in Jobs |-> "none"]
    /\ told = [j \in Jobs |-> {}]

Decide(j) ==
    /\ call[j] = "open"
    /\ \E c \in {"started", "forgone"} : call' = [call EXCEPT ![j] = c]
    /\ UNCHANGED <<verdict, told>>

Answer(j) ==
    /\ call[j] = "started" /\ verdict[j] = "none"
    /\ \E v \in {"usable", "unusable"} : verdict' = [verdict EXCEPT ![j] = v]
    /\ UNCHANGED <<call, told>>

\* What may be told of a call.
Truth(j) ==
    IF call[j] = "open" THEN {}
    ELSE IF call[j] = "forgone" THEN {"not_started"}
    ELSE IF verdict[j] = "none" THEN {"ambiguous"} ELSE {"ambiguous", "ready"}

Tell(run) ==
    /\ \A j \in run : told[j] = {} /\ Truth(j) # {}
    /\ \E said \in [run -> {"ready", "ambiguous", "not_started"}] :
          /\ \A j \in run : said[j] \in Truth(j)
          /\ told' = [j \in Jobs |-> IF j \in run THEN {said[j]} ELSE told[j]]
    /\ UNCHANGED <<call, verdict>>

Next ==
    \/ \E j \in Jobs : Decide(j) \/ Answer(j)
    \/ \E run \in SUBSET Jobs : Tell(run)

Spec == Init /\ [][Next]_vars
=============================================================================
