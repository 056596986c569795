--------------------------- MODULE MCSessionCache ---------------------------
(* Instances of SessionCache for TLC.                                      *)
EXTENDS SessionCache, TLC

CONSTANTS c1, c2, k1, k2, k3

\* The names of servers are interchangeable.
Names == Permutations(Keys)
=============================================================================
