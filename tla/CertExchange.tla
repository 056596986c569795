---------------------------- MODULE CertExchange ----------------------------
(***************************************************************************)
(* Certificates from the Config of one side to the connections of the      *)
(* other: SharedCertificate proves an identity, and its peer verifies it   *)
(* (readServerCertificate with verifyServerCertificate, or                 *)
(* readClientCertificate).  A client keeps the chain through CertCache for *)
(* as long as the connection lives; a server parses it and keeps it alone. *)
(***************************************************************************)
EXTENDS SharedCertificate, CertCache, FiniteSets

CONSTANTS
    Chain,        \* the certificates of the message, leaf first
    DCMaxTTL,
    MaxTime       \* bound: ticks of the clock, which starts at notBefore

ASSUME ChainAssumption == Chain \in Seq(Ders) \ {<< >>}
ASSUME CallersAssumption == Callers = Conns /\ IsFiniteSet(Conns)
ASSUME TimeAssumption == DCMaxTTL \in Nat /\ MaxTime \in Nat

VARIABLES
    holds,        \* activeCertHandles, also while verifyServerCertificate fills it
    now

vars == <<certVars, pc, cacheVars, holds, now>>

Done == {"failed", "rejected", "closed"}

TypeOK ==
    /\ CertTypeOK /\ CacheTypeOK
    /\ pc \in [Conns -> {"start", "setkey", "setdc", "copy", "flag", "scheme", "useDC",
                         "sign", "signed", "open"} \cup Done]
    /\ holds \in [Conns -> Seq(Entries)]
    /\ now \in 0..MaxTime

Init ==
    /\ CertInit /\ CacheInit
    /\ pc = [c \in Conns |-> "start"]
    /\ holds = [c \in Conns |-> << >>]
    /\ now = 0

Prove(c) == ProverStep(c) /\ UNCHANGED <<cacheVars, holds, now>>

-----------------------------------------------------------------------------
(* verifyServerCertificate.                                                *)

\* newCert for the next certificate of the chain.
NewCert(c) ==
    /\ role = "server" /\ pc[c] = "signed" /\ Len(holds[c]) < Len(Chain)
    /\ LoadCert(c, Chain[Len(holds[c]) + 1])
    /\ UNCHANGED <<certVars, pc, holds, now>>

NewCertStep(c) == CallerStep(c) /\ UNCHANGED <<certVars, pc, holds, now>>

TakeHandle(c) ==
    /\ call[c].pc = "ok"
    /\ holds' = [holds EXCEPT ![c] = Append(@, call[c].entry)]
    /\ Proceed(c, "idle", none)
    /\ UNCHANGED <<certVars, pc, table, raw, refs, live, dead, evicting, now>>

\* The handles of e that connection c has.
Handles(c, e) == {c} \X {i \in DOMAIN holds[c] : holds[c][i] = e}

\* A faulty variant: the handles stay reachable.
AbandonKeeps(c, l) ==
    /\ holds' = [holds EXCEPT ![c] = << >>]
    /\ Goto(c, l)
    /\ UNCHANGED <<certVars, table, raw, refs, live, dead, evicting, now>>

\* The connection and its handles become garbage.
Abandon(c, l) ==
    /\ live' = [e \in Entries |-> live[e] - Cardinality(Handles(c, e))]
    /\ dead' = [e \in Entries |-> dead[e] + Cardinality(Handles(c, e))]
    /\ holds' = [holds EXCEPT ![c] = << >>]
    /\ Goto(c, l)
    /\ UNCHANGED <<certVars, table, raw, refs, evicting, now>>

\* A certificate of the chain cannot be parsed.
ChainFails(c) ==
    /\ call[c].pc = "failed"
    /\ Proceed(c, "idle", none)
    /\ Abandon(c, "failed")

-----------------------------------------------------------------------------
(* The signature.                                                          *)

\* A faulty variant: the end of the validity is accepted.
IsExpiredAfter(i) == now > Pairs[i].valid

IsExpired(i) == ~(now < Pairs[i].valid)

InvalidTTL(i) == Pairs[i].valid > now + DCMaxTTL

\* Validate and processDelegatedCredentialFromServer or FromClient.
Validate(c, i) ==
    /\ Pairs[i].alg \in offer[c]
    /\ ~IsExpired(i) /\ ~InvalidTTL(i)
    /\ sigAlg[c] = Pairs[i].alg

\* verifyHandshakeSignature with the key of the credential, or else of the leaf.  Any of
\* the algorithms of ECDSA will do for it.
SignatureVerifies(c) == sigKey[c] = Shown(c)

Accepts(c) == (Shown(c) # nilDC => Validate(c, Shown(c))) /\ SignatureVerifies(c)

\* All certificates are parsed; a server does so by itself.
ChainRead(c) ==
    pc[c] = "signed" /\ (role = "server" => Len(holds[c]) = Len(Chain) /\ call[c].pc = "idle")

Accept(c) ==
    /\ ChainRead(c) /\ Accepts(c)
    /\ Goto(c, "open")
    /\ UNCHANGED <<certVars, cacheVars, holds, now>>

Reject(c) ==
    /\ ChainRead(c) /\ ~Accepts(c)
    /\ Abandon(c, "rejected")
    /\ UNCHANGED call

Close(c) ==
    /\ pc[c] = "open"
    /\ Abandon(c, "closed")
    /\ UNCHANGED call

Finalizer == FinalizerStep /\ UNCHANGED <<certVars, pc, holds, now>>

Tick ==
    /\ now < MaxTime
    /\ now' = now + 1
    /\ UNCHANGED <<certVars, pc, cacheVars, holds>>

ConnStep(c) ==
    \/ Prove(c) \/ NewCert(c) \/ NewCertStep(c) \/ TakeHandle(c) \/ ChainFails(c)
    \/ Accept(c) \/ Reject(c)

Next == (\E c \in Conns : ConnStep(c) \/ Close(c)) \/ Finalizer \/ Tick

Spec == Init /\ [][Next]_vars

\* Goroutines run, and so does the one of the finalizers.  Nobody must close a
\* connection.
FairSpec ==
    /\ Spec
    /\ \A c \in Conns : WF_vars(ConnStep(c))
    /\ WF_vars(Finalizer)

-----------------------------------------------------------------------------
(* Properties.                                                             *)

\* Every handshake has a Certificate of its own, or all choose the same credential.
Uniform ==
    source = "copy" \/ \E i \in PrivateKeys : \A c \in Conns : GetDelegatedCredential(c) = i

\* "PrivateKey contains the private key corresponding to the public key in Leaf": a
\* CertificateVerify is made with the key of the credential its Certificate message
\* shows or, without one, with the key of the leaf, whatever other handshakes do.
ShownKeySigns ==
    \A c \in Conns : pc[c] \in {"signed", "open"} =>
        sigKey[c] = Shown(c) /\ sigAlg[c] = KeyAlg(Shown(c))

\* Handshakes that use copies, or that all choose the same credential of a shared
\* Certificate, are rejected only for the time: the credential is expired or would be
\* valid for too long.
RejectedForTime ==
    [][\A c \in Conns : Uniform /\ Reject(c) =>
         Shown(c) # nilDC /\ (now >= Pairs[Shown(c)].valid \/ Pairs[Shown(c)].valid - now > DCMaxTTL)]_vars

\* Whatever the handshakes of the prover do to each other, a connection opens only
\* if the identity shown was proven with its own key, at a time at which the
\* credential was valid and had no more than DCMaxTTL to live.
OpenedIsProven ==
    [][\A c \in Conns : pc[c] # "open" /\ pc'[c] = "open" =>
         /\ sigKey[c] = Shown(c)
         /\ Shown(c) # nilDC => LET v == Pairs[Shown(c)].valid IN now < v /\ v - now <= DCMaxTTL]_vars

\* The handles of e that connections hold, and those that wait to be taken.
Held(e) == UNION {Handles(c, e) : c \in Conns}
Taking(e) == {c \in Conns : call[c].pc = "ok" /\ call[c].entry = e}

\* The reachable handles of an entry are those that connections hold or are about to
\* take: a handshake that fails halfway through a chain gives all of them back.
HandlesAccounted ==
    \A e \in Entries : live[e] = Cardinality(Held(e)) + Cardinality(Taking(e))

\* Once every connection is over the table is empty, although evict goes by the
\* encoding and races newCert.
EmptyInTheEnd ==
    <>[](\A c \in Conns : pc[c] \in Done) => <>[](\A d \in Ders : table[d] = none)
=============================================================================
