---------------------------- MODULE MCGpuLaunch ----------------------------
(***************************************************************************)
(* TLC instances of GpuLaunch: a train job, its fanout, teacher runs.     *)
(***************************************************************************)
EXTENDS GpuLaunch

CONSTANTS train, fanout, teacher, second

\* The fanout follows the train job; the teacher runs follow nothing.
FanoutAfterTrain ==
    [d \in Dispatches |-> IF d = fanout THEN train ELSE NoDispatch]

\* The teacher runs expire first.
Deadlines == [d \in Dispatches |-> IF d \in {teacher, second} THEN 1 ELSE 2]
=============================================================================
