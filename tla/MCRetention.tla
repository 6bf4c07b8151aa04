---------------------------- MODULE MCRetention ----------------------------
(***************************************************************************)
(* TLC instances of Retention: one trace, and requests that submit the     *)
(* same outcome of it.                                                     *)
(***************************************************************************)
EXTENDS Retention

CONSTANTS trace, outcome, capture, first, second

Stores   == [w \in Writers |-> IF w = capture THEN trace ELSE outcome]
Concerns == [s \in Sources |-> trace]
=============================================================================
