------------------------------ MODULE MCProxy ------------------------------
EXTENDS Proxy, TLC

Symmetry == Permutations(Requests)
=============================================================================
