--------------------------- MODULE MCCertExchange ---------------------------
(* Instances of CertExchange for TLC.                                      *)
EXTENDS CertExchange, TLC

CONSTANTS c1, c2, c3, e1, e2, e3, d1, d2

\* A credential that lives too long at first and expires in the end, and with it one
\* of another algorithm.
OnePair == <<[alg |-> "p384", valid |-> 2]>>
TwoPairs == OnePair \o <<[alg |-> "p256", valid |-> 1]>>

OneCert == <<d1>>
TwoCerts == <<d1, d2>>

Sym == Permutations(Conns) \cup Permutations(Entries)
=============================================================================
