---------------------------- MODULE MCTickLease ----------------------------
(***************************************************************************)
(* TLC instances of TickLease.                                             *)
(***************************************************************************)
EXTENDS TickLease, TLC

CONSTANTS t1, t2, t3

\* One clock ahead of the others by the whole margin.
OneAhead == [t \in Tickers |-> IF t = t2 THEN 1 ELSE 0]

\* The processes whose clocks agree are interchangeable.
Symmetry == Permutations({t1, t3})

ASSUME TimelyConfigured == Lag = 0 => Timely
=============================================================================
