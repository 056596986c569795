---------------------------- MODULE MCTicketKeys ----------------------------
(* Instances of TicketKeys for TLC.                                        *)
EXTENDS TicketKeys, TLC

CONSTANTS s1, s2, admin, b1, b2, b3, b4

\* Two connections at a time, and the application that sets keys and clones.
ServersAndAdmin == (s1 :> {"serve"}) @@ (s2 :> {"serve"}) @@ (admin :> {"set", "clone"})

TwoServers == [t \in {s1, s2} |-> {"serve"}]
ServerAndSetter == (s1 :> {"serve"}) @@ (admin :> {"set"})

\* The two connections are interchangeable.
Servers == Permutations({s1, s2})

OneServer == (s1 :> {"serve"})
=============================================================================
