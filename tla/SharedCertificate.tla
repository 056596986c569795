------------------------- MODULE SharedCertificate -------------------------
(***************************************************************************)
(* The side of a TLS 1.3 handshake that proves its identity, with          *)
(* Delegated Credentials: pickCertificate and sendServerCertificate        *)
(* (handshake_server_tls13.go) or sendClientCertificate                    *)
(* (handshake_client_tls13.go).  Both write the credential they choose and *)
(* its private key into the Certificate that getCertificate or             *)
(* getClientCertificate returned: a pointer into the Config, or one to a   *)
(* copy.  Every access to the Certificate is a step, as handshakes run     *)
(* concurrently and no lock is taken.                                      *)
(***************************************************************************)
EXTENDS Naturals, Sequences

CONSTANTS
    Conns,        \* the connections of one Config
    Roles,        \* who proves its identity: subset of {"server", "client"}
    Sources,      \* what the Certificate is: subset of {"shared", "copy"}
    Pairs,        \* DelegatedCredentials: a sequence of [alg, valid]
    LeafAlg, Algs,   \* all of ECDSA: a key signs with the hash of any of them
    Offers        \* what peers offer: a set of sets of DC algorithms, {} for no DCs

ASSUME RolesAssumption == Roles \subseteq {"server", "client"} /\ Sources \subseteq {"shared", "copy"}
ASSUME PairsAssumption == Pairs \in Seq([alg : Algs, valid : Nat])
ASSUME AlgsAssumption == LeafAlg \in Algs /\ \A o \in Offers : o \subseteq Algs

\* A private key: leaf, or the one of a credential.
leaf == 0
PrivateKeys == 0..Len(Pairs)
KeyAlg(k) == IF k = leaf THEN LeafAlg ELSE Pairs[k].alg
nilDC == 0

VARIABLES
    role, source,
    shared,       \* the Certificate of the Config: PrivateKey and DelegatedCredential
    copies,       \* the copy of each handshake, when source is "copy"
    offer,        \* the DC algorithms the peer of a connection offers
    pc,
    pair,         \* the credential a handshake has chosen, or nilDC
    sigAlg,
    certMsg,      \* certificate.DelegatedCredential and delegatedCredential
    sigKey        \* the key that signed the CertificateVerify

certVars == <<role, source, shared, copies, offer, pair, sigAlg, certMsg, sigKey>>

Cert == [key : PrivateKeys, dc : PrivateKeys]

CertTypeOK ==
    /\ role \in Roles /\ source \in Sources
    /\ shared \in Cert /\ copies \in [Conns -> Cert]
    /\ offer \in [Conns -> Offers]
    /\ pair \in [Conns -> PrivateKeys] /\ sigAlg \in [Conns -> Algs]
    /\ certMsg \in [Conns -> [dc : PrivateKeys, flag : BOOLEAN]]
    /\ sigKey \in [Conns -> PrivateKeys]

CertInit ==
    /\ role \in Roles /\ source \in Sources
    /\ shared = [key |-> leaf, dc |-> nilDC]
    /\ copies = [c \in Conns |-> [key |-> leaf, dc |-> nilDC]]
    /\ offer \in [Conns -> Offers]
    /\ pair = [c \in Conns |-> nilDC]
    /\ sigAlg = [c \in Conns |-> LeafAlg]
    /\ certMsg = [c \in Conns |-> [dc |-> nilDC, flag |-> FALSE]]
    /\ sigKey = [c \in Conns |-> leaf]

Goto(c, l) == pc' = [pc EXCEPT ![c] = l]

\* hs.cert, and an assignment to a field of it.
HsCert(c) == IF source = "shared" THEN shared ELSE copies[c]

SetField(c, f, v) ==
    IF source = "shared" THEN shared' = [shared EXCEPT ![f] = v] /\ UNCHANGED copies
                         ELSE copies' = [copies EXCEPT ![c][f] = v] /\ UNCHANGED shared

\* getDelegatedCredential and getClientDelegatedCredential: the first credential
\* with an algorithm the peer offers.
Usable(c) == {i \in DOMAIN Pairs : Pairs[i].alg \in offer[c]}
GetDelegatedCredential(c) ==
    IF Usable(c) = {} THEN nilDC ELSE CHOOSE i \in Usable(c) : \A j \in Usable(c) : i <= j

\* selectSignatureScheme reads the private key.
SelectSignatureScheme(c) == sigAlg' = [sigAlg EXCEPT ![c] = KeyAlg(HsCert(c).key)]

-----------------------------------------------------------------------------
(* pickCertificate.                                                        *)

PickCertificate(c) ==
    /\ role = "server" /\ pc[c] = "start"
    /\ SelectSignatureScheme(c)
    /\ pair' = [pair EXCEPT ![c] = GetDelegatedCredential(c)]
    /\ Goto(c, IF GetDelegatedCredential(c) = nilDC THEN "copy" ELSE "setkey")
    /\ UNCHANGED <<role, source, shared, copies, offer, certMsg, sigKey>>

\* A faulty variant: the signature algorithm of the certificate is kept.
SetPrivateKeyOnly(c) ==
    /\ role = "server" /\ pc[c] = "setkey"
    /\ SetField(c, "key", pair[c])
    /\ Goto(c, "setdc")
    /\ UNCHANGED <<role, source, offer, pair, sigAlg, certMsg, sigKey>>

SetPrivateKey(c) ==
    /\ role = "server" /\ pc[c] = "setkey"
    /\ sigAlg' = [sigAlg EXCEPT ![c] = Pairs[pair[c]].alg]
    /\ SetField(c, "key", pair[c])
    /\ Goto(c, "setdc")
    /\ UNCHANGED <<role, source, offer, pair, certMsg, sigKey>>

SetDelegatedCredential(c) ==
    /\ role = "server" /\ pc[c] = "setdc"
    /\ SetField(c, "dc", pair[c])
    /\ Goto(c, "copy")
    /\ UNCHANGED <<role, source, offer, pair, sigAlg, certMsg, sigKey>>

-----------------------------------------------------------------------------
(* sendClientCertificate up to its Certificate message: the credential is  *)
(* written first and the key last.                                         *)

ChooseClientCredential(c) ==
    /\ role = "client" /\ pc[c] = "start"
    /\ pair' = [pair EXCEPT ![c] = GetDelegatedCredential(c)]
    /\ IF GetDelegatedCredential(c) = nilDC
       THEN UNCHANGED <<shared, copies>>
       ELSE SetField(c, "dc", GetDelegatedCredential(c))
    /\ Goto(c, "copy")
    /\ UNCHANGED <<role, source, offer, sigAlg, certMsg, sigKey>>

-----------------------------------------------------------------------------
(* The Certificate message of both: a copy of the Certificate, and whether *)
(* it has a credential, which is read again.  A copy that is torn by an    *)
(* assignment has the old pointer: a nil one is left out, as none is.      *)

CopyCertificate(c) ==
    /\ pc[c] = "copy"
    /\ certMsg' = [certMsg EXCEPT ![c].dc = HsCert(c).dc]
    /\ Goto(c, "flag")
    /\ UNCHANGED <<role, source, shared, copies, offer, pair, sigAlg, sigKey>>

WriteCertificate(c) ==
    /\ pc[c] = "flag"
    /\ certMsg' = [certMsg EXCEPT ![c].flag = offer[c] # {} /\ HsCert(c).dc # nilDC]
    /\ Goto(c, IF role = "server" THEN "sign" ELSE "scheme")
    /\ UNCHANGED <<role, source, shared, copies, offer, pair, sigAlg, sigKey>>

\* The rest of sendClientCertificate.
ClientScheme(c) ==
    /\ role = "client" /\ pc[c] = "scheme"
    /\ SelectSignatureScheme(c)
    /\ Goto(c, IF certMsg[c].flag THEN "useDC" ELSE "sign")
    /\ UNCHANGED <<role, source, shared, copies, offer, pair, certMsg, sigKey>>

ClientUseCredential(c) ==
    /\ role = "client" /\ pc[c] = "useDC"
    /\ IF pair[c] = nilDC
       THEN SetField(c, "dc", nilDC) /\ UNCHANGED sigAlg
       ELSE /\ sigAlg' = [sigAlg EXCEPT ![c] = Pairs[pair[c]].alg]
            /\ SetField(c, "key", pair[c])
    /\ Goto(c, "sign")
    /\ UNCHANGED <<role, source, offer, pair, certMsg, sigKey>>

\* CertificateVerify, by the key that the Certificate has now.
Sign(c) ==
    /\ pc[c] = "sign"
    /\ sigKey' = [sigKey EXCEPT ![c] = HsCert(c).key]
    /\ Goto(c, "signed")
    /\ UNCHANGED <<role, source, shared, copies, offer, pair, sigAlg, certMsg>>

\* The credential on the wire: marshalCertificate leaves out a nil one.
Shown(c) == IF certMsg[c].flag THEN certMsg[c].dc ELSE nilDC

ProverStep(c) ==
    \/ PickCertificate(c) \/ SetPrivateKey(c) \/ SetDelegatedCredential(c)
    \/ ChooseClientCredential(c) \/ CopyCertificate(c) \/ WriteCertificate(c)
    \/ ClientScheme(c) \/ ClientUseCredential(c) \/ Sign(c)
=============================================================================
