------------------------------ MODULE Agreement ------------------------------
(***************************************************************************)
(* What a handshake promises.  The server commits to the parameters of the *)
(* connection once, the client answers exactly those or fails, and the     *)
(* server completes only with what the client answered.                    *)
(***************************************************************************)
EXTENDS Sequences

CONSTANT Certs    \* the identities a client may answer with

VARIABLES
    offer,        \* << >>, or the parameters the server committed to
    answer,       \* << >>, or what the client confirmed, with its identity
    accepted,     \* << >>, or what the server completed with
    clientEnd, serverEnd

vars == <<offer, answer, accepted, clientEnd, serverEnd>>

Init ==
    /\ offer = << >> /\ answer = << >> /\ accepted = << >>
    /\ clientEnd = "running" /\ serverEnd = "running"

Commit ==
    /\ serverEnd = "running" /\ offer = << >>
    /\ Len(offer') = 1 /\ serverEnd' \in {"running", "failed"}
    /\ UNCHANGED <<answer, accepted, clientEnd>>

Confirm ==
    /\ clientEnd = "running" /\ offer # << >>
    /\ answer' \in {<< [parameters |-> offer[1], cert |-> k] >> : k \in Certs}
    /\ clientEnd' \in {"complete", "failed"}
    /\ UNCHANGED <<offer, accepted, serverEnd>>

Accept ==
    /\ serverEnd = "running" /\ answer # << >>
    /\ accepted' = answer /\ serverEnd' = "complete"
    /\ UNCHANGED <<offer, answer, clientEnd>>

ClientFails ==
    /\ clientEnd = "running" /\ clientEnd' = "failed"
    /\ UNCHANGED <<offer, answer, accepted, serverEnd>>

ServerFails ==
    /\ serverEnd = "running" /\ serverEnd' = "failed"
    /\ UNCHANGED <<offer, answer, accepted, clientEnd>>

Next == Commit \/ Confirm \/ Accept \/ ClientFails \/ ServerFails

Spec == Init /\ [][Next]_vars
=============================================================================
