-------------------------- MODULE MCCaptureWriter --------------------------
(***************************************************************************)
(* TLC instances of CaptureWriter: traces of two hours and sizes, one of   *)
(* another writer's identity, and a flush.                                 *)
(***************************************************************************)
EXTENDS CaptureWriter

CONSTANTS small, large, alien, first

Sizes      == [t \in Traces |-> IF t = large THEN 2 ELSE 1]
OccurredIn == [t \in Traces |-> IF t = large THEN 2 ELSE 1]
=============================================================================
