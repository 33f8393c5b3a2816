------------------------------- MODULE MCBroker -------------------------------
(* Broker for TLC; the numbers of routers and sessions are left to grow with   *)
(* the faults, which are bounded.                                              *)
EXTENDS Broker

CONSTANTS c1, c2, c3, n1, f1

TwoConns == {c1, c2}
ThreeConns == {c1, c2, c3}

\* Connections are interchangeable; liveness is checked without it.
Symmetry == Permutations(ThreeConns)
=============================================================================
