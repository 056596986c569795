------------------------- MODULE Handshake13_proofs -------------------------
(***************************************************************************)
(* Handshake13 implements Agreement, for any set of Configs.               *)
(* A client accepts the Finished of the server only over its own           *)
(* transcript, so the two transcripts are equal.  The inductive invariant  *)
(* AgreementInv says that each of them tells whether ECH was accepted and  *)
(* a session resumed, so the two sides agree on these as well; and that    *)
(* the length of what the client said after the server's Finished tells    *)
(* which certificate it sent.  There is a lemma per operator of the model, *)
(* then one per action: the action keeps the invariant, and is a step of   *)
(* Agreement or leaves it as it is.                                        *)
(***************************************************************************)
EXTENDS Handshake13, TLAPS

-----------------------------------------------------------------------------
(* Notation.                                                               *)

IsSeq(q) == \E S : q \in Seq(S)
Elems(q) == {q[i] : i \in DOMAIN q}

-----------------------------------------------------------------------------
(* The inductive invariant.                                                *)

HelloFields == {"type", "random", "serverName", "groups", "keyShares", "pskModes", "psk", "binder",
                "mtls", "ech"}
ClientFields == {"pc", "result", "after", "ticket", "hello", "inner", "private", "sealer", "offered",
                 "greased", "accepted", "retryConfigs", "transcript", "transcriptInner", "usingPSK",
                 "certReq", "in", "out", "resumption", "label"}
ServerFields == {"pc", "result", "after", "ech", "hello", "group", "transcript", "usingPSK", "peer",
                 "in", "out", "trafficSecret", "clientFinished", "asked"}
EchFields == {"offered", "greased", "accepted", "configId", "opener", "retryConfigs"}

IsHello(h) == DOMAIN h = HelloFields /\ h.type = "clientHello"

\* An inner hello: it carries the client's own random.
InnerHello(h) == IsHello(h) /\ h.ech = InnerECH /\ h.random = "base"

\* A hello on the wire under the configuration k is no inner hello.  A client that offers ECH
\* seals an inner hello in it and gives it another random; any other client seals nothing.
WireHello(h, k) ==
    /\ IsHello(h)
    /\ IF k.client.ech.use = "offer"
       THEN /\ h.ech.variant = "outer" /\ "context" \in DOMAIN h.ech.payload
            /\ h.random = "outer" /\ InnerHello(h.ech.payload.plaintext)
       ELSE \/ h.ech = NoECH
            \/ h.ech.variant = "outer" /\ "context" \notin DOMAIN h.ech.payload

\* A transcript that begins with a hello and its answer, after a HelloRetryRequest or not, tells
\* whether the hello was the inner one and whether the answer resumed a session.
Direct(t, accepted, psk) ==
    /\ Len(t) >= 2 /\ t[1].type = "clientHello"
    /\ t[1].ech = InnerECH <=> accepted = TRUE
    /\ t[2].psk = psk
Retried(t, accepted, psk) ==
    /\ Len(t) >= 4 /\ t[1].type = "messageHash" /\ t[3].type = "clientHello"
    /\ t[3].ech = InnerECH <=> accepted = TRUE
    /\ t[4].psk = psk
Tells(t, accepted, psk) == Direct(t, accepted, psk) \/ Retried(t, accepted, psk)

\* A client whose second hello was not the inner one has no hello in that transcript.
Headless(t) == Len(t) >= 3 /\ t[1].type = "messageHash" /\ t[3].type = "serverHello"

\* The transcript of a client that waits for a ServerHello, and that of the inner hello.
OneHello(t) == Len(t) = 1 /\ t[1].type = "clientHello"
TwoHellos(t) == Len(t) = 3 /\ t[1].type = "messageHash" /\ t[3].type = "clientHello"
OneHash(t) == Len(t) = 2 /\ t[1].type = "messageHash"
First(c) ==
    /\ OneHello(c.transcript) /\ c.transcript[1].ech # InnerECH
    /\ c.offered => OneHello(c.transcriptInner) /\ c.transcriptInner[1].ech = InnerECH
Second(c) ==
    /\ TwoHellos(c.transcript) /\ c.transcript[3].ech # InnerECH
    /\ c.offered => \/ TwoHellos(c.transcriptInner) /\ c.transcriptInner[3].ech = InnerECH
                    \/ OneHash(c.transcriptInner)

Asking == {"start", "serverHello", "secondServerHello"}
Answered == {"parameters", "certificate", "requested", "verify", "finished"}

Asks(c, k) ==
    /\ c.pc # "start" => /\ WireHello(c.hello, k) /\ IsHello(c.inner)
                         /\ c.offered => InnerHello(c.inner) /\ k.client.ech.use = "offer"
    /\ c.pc = "secondServerHello" => Second(c)

ClientBase(c) ==
    /\ DOMAIN c = ClientFields /\ c.accepted \in BOOLEAN
    /\ IsSeq(c.transcript) /\ IsSeq(c.transcriptInner)

ClientOK(c, k) ==
    /\ ClientBase(c)
    /\ c.pc \in Asking => Asks(c, k)
    /\ c.pc \in Answered => Tells(c.transcript, c.accepted, c.usingPSK) \/ Headless(c.transcript)
    /\ c.pc # "done" => c.result = "none" /\ c.in.stage # "application"
    /\ c.result = "complete" => c.in.stage = "application"

EchOK(ech, k) ==
    /\ DOMAIN ech = EchFields
    /\ ech.accepted \in BOOLEAN
    /\ DOMAIN ech.opener = {"enc", "key", "seq"} /\ ech.opener.seq \in Nat
    /\ ech.accepted => ech.opener.seq # 0 /\ k.client.ech.use = "offer"

\* The certificate the client sent, by the length of what was said after the server's Finished.
Sent(t, over, cert) ==
    \/ Len(t) = Len(over) /\ cert = "none"
    \/ Len(t) = Len(over) + 1 /\ cert = "none"
    \/ Len(t) = Len(over) + 2 /\ t[Len(over) + 1].cert = cert

\* What the server has read since it committed.
ServerReads(s) ==
    LET over == s.trafficSecret.over
    IN /\ s.pc = "certificate" => Len(s.transcript) = Len(over)
       /\ s.pc = "verify" => Len(s.transcript) = Len(over) + 1 /\ s.transcript[Len(over) + 1].cert = s.peer
       /\ s.pc = "finished" => Sent(s.clientFinished.over, over, s.peer)

Committed(s) ==
    /\ s.trafficSecret.stage = "application"
    /\ IsSeq(s.trafficSecret.over)
    /\ Tells(s.trafficSecret.over, s.ech.accepted, s.usingPSK)

ServerBase(s, k) ==
    /\ DOMAIN s = ServerFields /\ EchOK(s.ech, k) /\ IsSeq(s.transcript)
    /\ s.trafficSecret # Plain => Committed(s)

\* A server that has not committed yet.
Listens(s) ==
    /\ s.trafficSecret = Plain /\ s.peer = "none"
    /\ s.pc = "hello" => s.transcript = << >> /\ ~s.ech.accepted
    /\ s.pc = "secondHello" => /\ OneHash(s.transcript)
                               /\ s.ech.accepted => s.hello.random = "base"

ServerOK(s, k) ==
    /\ ServerBase(s, k)
    /\ s.pc \in {"hello", "secondHello"} => Listens(s)
    /\ s.pc \in {"certificate", "verify", "finished"} => s.trafficSecret # Plain /\ ServerReads(s)
    /\ s.pc # "done" => s.result = "none"

\* What the client said between the server's Finished and its own.
Said(t, c, k) ==
    LET over == c.in.over
    IN IF ~c.certReq THEN Len(t) = Len(over)
       ELSE IF k.client.cert = "none" THEN Len(t) = Len(over) + 1
       ELSE Len(t) = Len(over) + 2 /\ t[Len(over) + 1].cert = k.client.cert

ToServerOK(r, c, k) ==
    /\ r.msg.type = "clientHello" => WireHello(r.msg, k)
    /\ r.msg.type = "certificate" => r.msg.cert = k.client.cert
    /\ r.msg.type = "finished" => c.in.stage = "application" /\ Said(r.msg.mac.over, c, k)

\* The Finished of a server fixes the secret it committed to.
ToClientOK(r, s) ==
    /\ r.msg.type = "serverHello" => DOMAIN r.msg = {"type", "retry", "group", "psk", "confirm"}
    /\ r.msg.type = "finished" =>
         /\ s.trafficSecret # Plain
         /\ s.trafficSecret = Secret("application", r.msg.mac.psk, r.msg.mac.share,
                                     Append(r.msg.mac.over, [type |-> "finished"]))
    /\ r.key.stage = "application" => r.msg.type \in {"alert", "newSessionTicket"}

\* A client that confirmed has the server's secret, verdict and resumption.
Agree(c, s) ==
    c.in.stage = "application" =>
      /\ s.trafficSecret # Plain /\ c.in = s.trafficSecret
      /\ c.accepted = s.ech.accepted /\ c.usingPSK = s.usingPSK

ToServerInv(w, c, k) == IsSeq(w) /\ \A r \in Elems(w) : ToServerOK(r, c, k)
ToClientInv(w, s) == IsSeq(w) /\ \A r \in Elems(w) : ToClientOK(r, s)

\* The inductive invariant.
AgreementInv ==
    /\ config \in Configurations
    /\ ClientOK(client, config) /\ ServerOK(server, config)
    /\ ToServerInv(toServer, client, config) /\ ToClientInv(toClient, server)
    /\ Agree(client, server)

-----------------------------------------------------------------------------
(* Sequences.                                                              *)

\* Append.
LEMMA Appended ==
  ASSUME NEW q, NEW e, IsSeq(q)
  PROVE  /\ IsSeq(Append(q, e)) /\ Len(q) \in Nat /\ Len(Append(q, e)) = Len(q) + 1
         /\ Append(q, e)[Len(q) + 1] = e
         /\ \A i \in 1..Len(q) : Append(q, e)[i] = q[i]
<1>1. PICK S : q \in Seq(S)
  BY DEF IsSeq
<1>2. q \in Seq(S \cup {e}) /\ e \in S \cup {e}
  BY <1>1
<1>3. Append(q, e) \in Seq(S \cup {e})
  BY <1>2
<1>4. IsSeq(Append(q, e))
  BY <1>3 DEF IsSeq
<1> QED
  BY <1>2, <1>3, <1>4

\* Concat.
LEMMA Joined ==
  ASSUME NEW p, NEW q, IsSeq(p), IsSeq(q)
  PROVE  /\ IsSeq(p \o q) /\ Len(p) \in Nat /\ Len(q) \in Nat /\ Len(p \o q) = Len(p) + Len(q)
         /\ \A i \in 1..Len(p) : (p \o q)[i] = p[i]
         /\ \A i \in 1..Len(q) : (p \o q)[Len(p) + i] = q[i]
         /\ Elems(p \o q) = Elems(p) \cup Elems(q)
<1>1. PICK S : p \in Seq(S)
  BY DEF IsSeq
<1>2. PICK T : q \in Seq(T)
  BY DEF IsSeq
<1>3. p \in Seq(S \cup T) /\ q \in Seq(S \cup T)
  BY <1>1, <1>2
<1>4. p \o q \in Seq(S \cup T)
  BY <1>3
<1>5. IsSeq(p \o q)
  BY <1>4 DEF IsSeq
<1>6. /\ Len(p) \in Nat /\ Len(q) \in Nat /\ Len(p \o q) = Len(p) + Len(q)
      /\ \A i \in 1..Len(p) : (p \o q)[i] = p[i]
      /\ \A i \in 1..Len(q) : (p \o q)[Len(p) + i] = q[i]
  BY <1>3
<1>7. DOMAIN p = 1..Len(p) /\ DOMAIN q = 1..Len(q) /\ DOMAIN (p \o q) = 1..(Len(p) + Len(q))
  BY <1>3, <1>4, <1>6
<1>8. Elems(p \o q) \subseteq Elems(p) \cup Elems(q)
  <2> SUFFICES ASSUME NEW i \in 1..(Len(p) + Len(q))
               PROVE  (p \o q)[i] \in Elems(p) \cup Elems(q)
    BY <1>7 DEF Elems
  <2>1. CASE i <= Len(p)
    <3>1. i \in 1..Len(p)
      BY <2>1, <1>6
    <3> QED
      BY <3>1, <1>6, <1>7 DEF Elems
  <2>2. CASE ~(i <= Len(p))
    <3>1. i - Len(p) \in 1..Len(q) /\ i = Len(p) + (i - Len(p))
      BY <2>2, <1>6
    <3> QED
      BY <3>1, <1>6, <1>7 DEF Elems
  <2> QED
    BY <2>1, <2>2
<1>9. Elems(p) \subseteq Elems(p \o q)
  <2> SUFFICES ASSUME NEW i \in 1..Len(p)
               PROVE  p[i] \in Elems(p \o q)
    BY <1>7 DEF Elems
  <2>1. i \in 1..(Len(p) + Len(q))
    BY <1>6
  <2> QED
    BY <2>1, <1>6, <1>7 DEF Elems
<1>10. Elems(q) \subseteq Elems(p \o q)
  <2> SUFFICES ASSUME NEW i \in 1..Len(q)
               PROVE  q[i] \in Elems(p \o q)
    BY <1>7 DEF Elems
  <2>1. Len(p) + i \in 1..(Len(p) + Len(q))
    BY <1>6
  <2> QED
    BY <2>1, <1>6, <1>7 DEF Elems
<1> QED
  BY <1>5, <1>6, <1>8, <1>9, <1>10

\* Tail, Head.
LEMMA Taken ==
  ASSUME NEW q, IsSeq(q), q # << >>
  PROVE  /\ IsSeq(Tail(q)) /\ Head(q) \in Elems(q) /\ Elems(Tail(q)) \subseteq Elems(q)
<1>1. PICK S : q \in Seq(S)
  BY DEF IsSeq
<1>2. Tail(q) \in Seq(S) /\ Len(q) \in Nat \ {0} /\ Len(Tail(q)) = Len(q) - 1
  BY <1>1
<1>3. DOMAIN q = 1..Len(q) /\ DOMAIN Tail(q) = 1..(Len(q) - 1) /\ Head(q) = q[1]
  BY <1>1, <1>2
<1>4. \A i \in 1..(Len(q) - 1) : Tail(q)[i] = q[i + 1] /\ i + 1 \in 1..Len(q)
  BY <1>1, <1>2
<1>5. Elems(Tail(q)) \subseteq Elems(q)
  BY <1>3, <1>4 DEF Elems
<1>6. IsSeq(Tail(q))
  BY <1>2 DEF IsSeq
<1>7. 1 \in DOMAIN q
  BY <1>2, <1>3
<1>8. Head(q) \in Elems(q)
  BY <1>3, <1>7 DEF Elems
<1> QED
  BY <1>5, <1>6, <1>8

\* SubSeq.
LEMMA Lost ==
  ASSUME NEW q, IsSeq(q), NEW i \in 0..Len(q)
  PROVE  /\ IsSeq(SubSeq(q, 1, i)) /\ Elems(SubSeq(q, 1, i)) \subseteq Elems(q)
<1>1. PICK S : q \in Seq(S)
  BY DEF IsSeq
<1>2. Len(q) \in Nat /\ DOMAIN q = 1..Len(q)
  BY <1>1
<1>3. i \in Nat /\ i <= Len(q)
  BY <1>2
<1>4. SubSeq(q, 1, i) \in Seq(S) /\ Len(SubSeq(q, 1, i)) = i
  BY <1>1, <1>2, <1>3
<1>5. DOMAIN SubSeq(q, 1, i) = 1..i
  BY <1>3, <1>4
<1>6. \A j \in 1..i : SubSeq(q, 1, i)[j] = q[j] /\ j \in 1..Len(q)
  BY <1>1, <1>2, <1>3
<1>7. Elems(SubSeq(q, 1, i)) \subseteq Elems(q)
  BY <1>2, <1>5, <1>6 DEF Elems
<1>8. IsSeq(SubSeq(q, 1, i))
  BY <1>4 DEF IsSeq
<1> QED
  BY <1>7, <1>8

\* One more element.
LEMMA JoinedOne ==
  ASSUME NEW t, NEW e, IsSeq(t)
  PROVE  /\ IsSeq(t \o << e >>) /\ Len(t) \in Nat /\ Len(t \o << e >>) = Len(t) + 1
         /\ (t \o << e >>)[Len(t) + 1] = e
<1>1. PICK S : t \in Seq(S)
  BY DEF IsSeq
<1>2. t \in Seq(S \cup {e}) /\ << e >> \in Seq(S \cup {e})
  BY <1>1
<1>3. t \o << e >> \in Seq(S \cup {e}) /\ Len(t) \in Nat /\ Len(t \o << e >>) = Len(t) + 1
  BY <1>2
<1>4. (t \o << e >>)[Len(t) + 1] = e
  BY <1>2, <1>3
<1> QED
  BY <1>3, <1>4 DEF IsSeq

\* A sequence of one element, and of none.
LEMMA Small ==
  ASSUME NEW e
  PROVE  /\ IsSeq(<< e >>) /\ Elems(<< e >>) = {e} /\ Len(<< e >>) = 1 /\ << e >>[1] = e
         /\ IsSeq(<< >>) /\ Elems(<< >>) = {} /\ Len(<< >>) = 0
<1>1. << e >> \in Seq({e}) /\ << >> \in Seq({e})
  OBVIOUS
<1>2. IsSeq(<< e >>) /\ IsSeq(<< >>)
  BY <1>1, Zenon DEF IsSeq
<1>3. DOMAIN << e >> = {1} /\ << e >>[1] = e
  OBVIOUS
<1>4. Elems(<< e >>) = {e}
  BY <1>3 DEF Elems
<1>5. Elems(<< >>) = {}
  BY DEF Elems
<1> QED
  BY <1>2, <1>3, <1>4, <1>5

\* The records of a flight carry its messages under one key.
LEMMA Packed ==
  ASSUME NEW key, NEW q, IsSeq(q)
  PROVE  /\ IsSeq(Records(key, q))
         /\ Elems(Records(key, q)) = {[key |-> key, msg |-> m] : m \in Elems(q)}
<1>1. PICK S : q \in Seq(S)
  BY DEF IsSeq
<1>2. Len(q) \in Nat /\ DOMAIN q = 1..Len(q) /\ \A i \in DOMAIN q : q[i] \in S
  BY <1>1
<1>3. DOMAIN Records(key, q) = DOMAIN q /\ \A i \in DOMAIN q : Records(key, q)[i] = [key |-> key, msg |-> q[i]]
  BY DEF Records
<1>4. Elems(Records(key, q)) = {[key |-> key, msg |-> m] : m \in Elems(q)}
  BY <1>3, Zenon DEF Elems
<1>5. Records(key, q) \in [1..Len(q) -> {[key |-> key, msg |-> m] : m \in S}]
  BY <1>2, Zenon DEF Records
<1>6. Records(key, q) \in Seq({[key |-> key, msg |-> m] : m \in S})
  BY <1>2, <1>5
<1>7. IsSeq(Records(key, q))
  BY <1>6 DEF IsSeq
<1> QED
  BY <1>4, <1>7

-----------------------------------------------------------------------------
(* Hellos.                                                                 *)

\* makeClientHello.
LEMMA MadeHello ==
  ASSUME NEW k, NEW random
  PROVE  LET h == makeClientHello(k, random)
         IN IsHello(h) /\ h.ech = NoECH /\ h.random = random
BY Zenon DEF makeClientHello, IsHello, HelloFields

\* An outer hello with an inner hello in its payload.
Outer(u) ==
    /\ IsHello(u) /\ u.ech.variant = "outer" /\ "context" \in DOMAIN u.ech.payload
    /\ InnerHello(u.ech.payload.plaintext)

\* echUpdateClientHelloOuter seals the inner hello.
LEMMA SealedHello ==
  ASSUME NEW h, NEW inner, NEW sealer, NEW id, NEW enc, IsHello(h), InnerHello(inner)
  PROVE  /\ Outer(echUpdateClientHelloOuter(h, inner, sealer, id, enc))
         /\ echUpdateClientHelloOuter(h, inner, sealer, id, enc).random = h.random
<1> DEFINE outer == [h EXCEPT !.keyShares = inner.keyShares, !.ech = OuterECH(id, enc)]
           aad == echEncodeClientHelloOuterAAD(outer)
           plain == echEncodeClientHelloInner(inner)
           payload == Seal(sealer, plain, aad)
           u == echUpdateClientHelloOuter(h, inner, sealer, id, enc)
<1>1. u = [outer EXCEPT !.ech.payload = payload]
  BY Zenon DEF echUpdateClientHelloOuter
<1>2. DOMAIN outer = HelloFields /\ outer.type = "clientHello" /\ outer.random = h.random
      /\ outer.ech = OuterECH(id, enc)
  BY Zenon DEF IsHello, HelloFields
<1>3. InnerHello(plain)
  BY Zenon DEF echEncodeClientHelloInner, InnerHello, IsHello, HelloFields
<1>4. "context" \in DOMAIN payload /\ payload.plaintext = plain
  BY Zenon DEF Seal
<1> HIDE DEF outer, aad, plain, payload, u
<1>5. DOMAIN u = HelloFields /\ u.type = outer.type /\ u.random = outer.random
      /\ u.ech = [OuterECH(id, enc) EXCEPT !.payload = payload]
  BY <1>1, <1>2, Zenon DEF HelloFields
<1>6. u.ech.variant = "outer" /\ u.ech.payload = payload
  BY <1>5, Zenon DEF OuterECH
<1>7. Outer(u) /\ u.random = h.random
  BY <1>2, <1>3, <1>4, <1>5, <1>6, Zenon DEF IsHello, Outer
<1> QED
  BY <1>7, Zenon DEF u

\* What a client decides to send: offer is a result of echOfferOrGrease.
OfferOK(offer, k) ==
    /\ WireHello(offer.hello, k) /\ IsHello(offer.inner)
    /\ offer.offered => InnerHello(offer.inner) /\ k.client.ech.use = "offer"

\* echOfferOrGrease seals an inner hello, or none.
LEMMA Offers ==
  ASSUME NEW k, k.client.ech.use \in {"off", "grease", "offer"}
  PROVE  OfferOK(echOfferOrGrease(k.client), k)
<1> DEFINE base == makeClientHello(k.client, "base")
           inner == [base EXCEPT !.ech = InnerECH]
           fresh == [makeClientHello(k.client, "outer") EXCEPT !.serverName = "public"]
           sealer == Context("offer", k.client.ech.key)
           greased == [base EXCEPT !.ech = OuterECH(k.client.ech.configId, "grease")]
           outer == echUpdateClientHelloOuter(fresh, inner, sealer, k.client.ech.configId, "offer")
           o == echOfferOrGrease(k.client)
<1>1. IsHello(base) /\ base.ech = NoECH /\ base.random = "base"
  BY MadeHello, Zenon
<1>2. InnerHello(inner)
  BY <1>1, Zenon DEF InnerHello, IsHello, HelloFields
<1>3. IsHello(fresh) /\ fresh.random = "outer"
  <2>1. PICK f : f = makeClientHello(k.client, "outer")
    BY Zenon
  <2>2. IsHello(f) /\ f.random = "outer"
    BY <2>1, MadeHello, Zenon
  <2> QED
    BY <2>1, <2>2, Zenon DEF IsHello, HelloFields
<1>4. Outer(outer) /\ outer.random = "outer"
  <2> HIDE DEF fresh, inner, sealer
  <2>1. Outer(outer) /\ outer.random = fresh.random
    BY <1>2, <1>3, SealedHello
  <2> QED
    BY <1>3, <2>1
<1>5. /\ IsHello(greased) /\ greased.ech.variant = "outer"
      /\ "context" \notin DOMAIN greased.ech.payload
  <2>1. IsHello(greased) /\ greased.ech = OuterECH(k.client.ech.configId, "grease")
    <3> HIDE DEF base
    <3> QED
      BY <1>1, Zenon DEF IsHello, HelloFields
  <2>2. greased.ech.variant = "outer" /\ greased.ech.payload = NoPayload
    <3> HIDE DEF greased
    <3> QED
      BY <2>1 DEF OuterECH
  <2>3. "context" \notin DOMAIN NoPayload
    BY DEF NoPayload
  <2> QED
    BY <2>1, <2>2, <2>3, Zenon
<1>6. CASE k.client.ech.use = "off"
  <2>1. o = [hello |-> base, inner |-> base, sealer |-> NoContext, offered |-> FALSE, greased |-> FALSE]
    BY <1>6 DEF echOfferOrGrease
  <2> HIDE DEF o, base
  <2>2. o.hello = base /\ o.inner = base /\ ~o.offered
    BY <2>1
  <2> QED
    BY <1>1, <1>6, <2>2 DEF OfferOK, WireHello, o
<1>7. CASE k.client.ech.use = "grease"
  <2>1. o = [hello |-> greased, inner |-> base, sealer |-> NoContext, offered |-> FALSE, greased |-> TRUE]
    BY <1>7 DEF echOfferOrGrease
  <2> HIDE DEF o, base, greased
  <2>2. o.hello = greased /\ o.inner = base /\ ~o.offered
    BY <2>1
  <2> QED
    BY <1>1, <1>5, <1>7, <2>2 DEF OfferOK, WireHello, o
<1>8. CASE k.client.ech.use = "offer"
  <2>1. o = [hello |-> outer, inner |-> inner, sealer |-> Used(sealer), offered |-> TRUE, greased |-> FALSE]
    BY <1>8 DEF echOfferOrGrease
  <2> HIDE DEF o, inner, outer, sealer
  <2>2. o.hello = outer /\ o.inner = inner
    BY <2>1
  <2> QED
    BY <1>2, <1>4, <1>8, <2>2, Zenon DEF OfferOK, WireHello, InnerHello, Outer, o
<1> QED
  BY <1>6, <1>7, <1>8

\* The session and its binder change nothing else.
LEMMA Loads ==
  ASSUME NEW h, NEW k, WireHello(h, k)
  PROVE  WireHello(loadSession(h), k)
<1> DEFINE u == loadSession(h)
<1>1. DOMAIN h = HelloFields
  BY Zenon DEF WireHello, IsHello
<1>2. PICK o : o = [h EXCEPT !.pskModes = TRUE, !.psk = config.client.session]
  BY Zenon
<1>3. DOMAIN o = HelloFields /\ o.type = h.type /\ o.random = h.random /\ o.ech = h.ech
  BY <1>1, <1>2, Zenon DEF HelloFields
<1>4. u = h \/ \E b : u = [o EXCEPT !.binder = b]
  BY <1>2, Zenon DEF loadSession
<1>5. DOMAIN u = HelloFields /\ u.type = h.type /\ u.random = h.random /\ u.ech = h.ech
  BY <1>1, <1>3, <1>4, Zenon DEF HelloFields
<1> HIDE DEF u
<1>6. WireHello(u, k)
  BY <1>5, Zenon DEF WireHello, IsHello
<1> QED
  BY <1>6, Zenon DEF u

\* A second hello has the random and the extension of the first.
LEMMA Seconds ==
  ASSUME NEW h, NEW group, NEW t, IsHello(h), NEW u, u = SecondHello(h, group, t)
  PROVE  IsHello(u) /\ u.random = h.random /\ u.ech = h.ech
<1>1. PICK o : o = [h EXCEPT !.keyShares = KeyShares(<< group >>, "retry"), !.binder = << >>]
  BY Zenon
<1>2. IsHello(o) /\ o.random = h.random /\ o.ech = h.ech
  BY <1>1, Zenon DEF IsHello, HelloFields
<1>3. PICK b : u = [o EXCEPT !.binder = b]
  BY <1>1, Zenon DEF SecondHello
<1> QED
  BY <1>2, <1>3, Zenon DEF IsHello, HelloFields

-----------------------------------------------------------------------------
(* The client-facing server's verdict.                                     *)

\* The server goes on with the inner hello exactly if it accepted.
Verdict(h, ech) ==
    /\ h.ech = InnerECH <=> ech.accepted = TRUE
    /\ ech.accepted => h.random = "base"

\* A result of echAcceptOrReject, from the state ech.  A server that accepted the first hello
\* may go on with an outer one, whose random is not that of the first.
ResultOK(r, ech, k) ==
    /\ EchOK(r.ech, k) /\ IsHello(r.hello) /\ r.alert # "complete"
    /\ r.alert = "none" => Verdict(r.hello, r.ech) \/ (ech.accepted /\ r.hello.random = "outer")

\* A hello of the wire is not the inner one.
LEMMA NotInner ==
  ASSUME NEW h, NEW k, WireHello(h, k)
  PROVE  h.ech # InnerECH
<1>1. InnerECH.variant = "inner" /\ NoECH.variant = "absent"
  BY DEF InnerECH, NoECH
<1>2. h.ech = NoECH \/ h.ech.variant = "outer"
  BY Zenon DEF WireHello
<1> QED
  BY <1>1, <1>2

\* The server goes on with the hello it read.
LEMMA GoesOn ==
  ASSUME NEW h, NEW k, NEW e, NEW ech, WireHello(h, k), EchOK(e, k), e.accepted = ech.accepted
  PROVE  ResultOK(Continue(e, h), ech, k)
<1> DEFINE r == Continue(e, h)
<1>1. r.ech = e /\ r.hello = h /\ r.alert = "none"
  BY DEF Continue
<1> HIDE DEF r
<1>2. IsHello(h) /\ h.ech # InnerECH
  BY NotInner, Zenon DEF WireHello
<1>3. CASE e.accepted = FALSE
  BY <1>1, <1>2, <1>3 DEF ResultOK, Verdict, r
<1>4. CASE e.accepted = TRUE
  <2>1. h.random = "outer"
    BY <1>4, Zenon DEF EchOK, WireHello
  <2> QED
    BY <1>1, <1>2, <1>4, <2>1 DEF ResultOK, r
<1>5. e.accepted \in BOOLEAN
  BY Zenon DEF EchOK
<1> QED
  BY <1>3, <1>4, <1>5, Zenon

\* The server ends with an alert.
LEMMA GivesUp ==
  ASSUME NEW h, NEW k, NEW e, NEW ech, NEW alert, WireHello(h, k), EchOK(e, k),
         alert \notin {"none", "complete"}
  PROVE  ResultOK(Abort(e, h, alert), ech, k)
<1> DEFINE r == Abort(e, h, alert)
<1>1. r.ech = e /\ r.hello = h /\ r.alert = alert
  BY DEF Abort
<1> HIDE DEF r
<1> QED
  BY <1>1 DEF ResultOK, WireHello, r

\* The opener of the first hello stays.
LEMMA Provides ==
  ASSUME NEW h, NEW k, NEW ech, NEW ks, EchOK(ech, k)
  PROVE  EchOK(Provided(ech, ks, h), k) /\ Provided(ech, ks, h).accepted = ech.accepted
<1> DEFINE p == Provided(ech, ks, h)
<1>1. /\ DOMAIN p = EchFields /\ p.accepted = ech.accepted
      /\ p.opener = IF ech.opener = NoContext /\ h.ech.configId \in DOMAIN ks
                    THEN Context(h.ech.enc, ks[h.ech.configId]) ELSE ech.opener
  BY Zenon DEF Provided, EchOK, EchFields
<1> HIDE DEF p
<1>2. NoContext.seq = 0
  BY DEF NoContext
<1>3. CASE p.opener = ech.opener
  BY <1>1, <1>3, Zenon DEF EchOK, p
<1>4. CASE ech.opener = NoContext /\ p.opener = Context(h.ech.enc, ks[h.ech.configId])
  <2>1. DOMAIN p.opener = {"enc", "key", "seq"} /\ p.opener.seq = 0
    BY <1>4 DEF Context
  <2>2. ~ech.accepted
    BY <1>2, <1>4 DEF EchOK
  <2> QED
    BY <1>1, <2>1, <2>2 DEF EchOK, p
<1> QED
  BY <1>1, <1>3, <1>4, Zenon DEF p

\* The payload opens to an inner hello.
LEMMA Opens13 ==
  ASSUME NEW h, NEW k, NEW e, NEW ech, WireHello(h, k), h.ech.variant = "outer", EchOK(e, k),
         "context" \in DOMAIN h.ech.payload
  PROVE  ResultOK(Continue([e EXCEPT !.offered = TRUE, !.accepted = TRUE, !.opener = Used(@)],
                           echDecodeClientHelloInner(h.ech.payload.plaintext, h)), ech, k)
<1> DEFINE d == [e EXCEPT !.offered = TRUE, !.accepted = TRUE, !.opener = Used(@)]
           u == echDecodeClientHelloInner(h.ech.payload.plaintext, h)
           r == Continue(d, u)
<1>1. k.client.ech.use = "offer" /\ InnerHello(h.ech.payload.plaintext)
  <2>1. NoECH.variant # "outer"
    BY DEF NoECH
  <2> QED
    BY <2>1, Zenon DEF WireHello
<1>2. InnerHello(u)
  BY <1>1, Zenon DEF InnerHello, IsHello, HelloFields, echDecodeClientHelloInner
<1>3. DOMAIN d = EchFields /\ d.accepted = TRUE /\ d.opener = Used(e.opener)
  BY Zenon DEF EchOK, EchFields
<1>4. DOMAIN Used(e.opener) = {"enc", "key", "seq"} /\ Used(e.opener).seq = e.opener.seq + 1
  BY Zenon DEF EchOK, Used
<1>5. e.opener.seq + 1 \in Nat /\ e.opener.seq + 1 # 0
  BY DEF EchOK
<1> HIDE DEF d, u
<1>6. EchOK(d, k)
  <2>1. DOMAIN d.opener = {"enc", "key", "seq"} /\ d.opener.seq \in Nat /\ d.opener.seq # 0
    BY <1>3, <1>4, <1>5, Zenon
  <2> QED
    BY <1>1, <1>3, <2>1, Zenon DEF EchOK
<1>7. r.ech = d /\ r.hello = u /\ r.alert = "none"
  BY DEF Continue
<1> HIDE DEF r
<1>8. ResultOK(r, ech, k)
  BY <1>2, <1>3, <1>6, <1>7, Zenon DEF ResultOK, Verdict, InnerHello
<1> QED
  BY <1>8, Zenon DEF r, d, u

\* A rejection.
LEMMA Rejects ==
  ASSUME NEW h, NEW k, NEW e, NEW ech, WireHello(h, k), EchOK(e, k), e.accepted = ech.accepted
  PROVE  ResultOK(Reject(e, h), ech, k)
<1>1. PICK d : d = [e EXCEPT !.greased = TRUE]
  BY Zenon
<1>2. EchOK(d, k) /\ d.accepted = ech.accepted
  BY <1>1, Zenon DEF EchOK, EchFields
<1>3. Reject(e, h) = Continue(d, h)
  BY <1>1, Zenon DEF Reject
<1> QED
  BY <1>2, <1>3, GoesOn, Zenon

\* echAcceptOrReject.
LEMMA Decides ==
  ASSUME NEW h, NEW k, NEW ech, NEW can, NEW ks, NEW after, WireHello(h, k), EchOK(ech, k)
  PROVE  ResultOK(echAcceptOrReject(ech, can, ks, h, after), ech, k)
<1> DEFINE r == echAcceptOrReject(ech, can, ks, h, after)
<1>1. PICK p : p = Provided(ech, ks, h)
  BY Zenon
<1>2. EchOK(p, k) /\ p.accepted = ech.accepted
  <2>1. EchOK(Provided(ech, ks, h), k) /\ Provided(ech, ks, h).accepted = ech.accepted
    BY Provides
  <2> QED
    BY <1>1, <2>1
<1>3. h.ech = NoECH \/ h.ech.variant = "outer"
  BY Zenon DEF WireHello
<1>4. CASE ~can
  <2>1. r = Continue(ech, h)
    BY <1>4, NotInner DEF echAcceptOrReject
  <2> QED
    BY <2>1, GoesOn, Zenon
<1>5. CASE can /\ h.ech = NoECH
  <2>1. r = Abort(ech, h, "missing_extension") \/ r = Continue(ech, h)
    <3>1. h.ech # InnerECH
      BY NotInner, Zenon
    <3>2. NoECH.variant # "outer"
      BY DEF NoECH
    <3> QED
      BY <1>5, <3>1, <3>2 DEF echAcceptOrReject
  <2> QED
    BY <2>1, GoesOn, GivesUp
<1>6. CASE can /\ h.ech.variant = "outer"
  <2>1. r = Abort(ech, h, "illegal_parameter") \/ r = Opened(p, h, after)
    <3>1. h.ech # InnerECH
      BY NotInner, Zenon
    <3>2. NoECH.variant # "outer"
      BY DEF NoECH
    <3> QED
      BY <1>1, <1>6, <3>1, <3>2 DEF echAcceptOrReject
  <2>2. ResultOK(Abort(ech, h, "illegal_parameter"), ech, k)
    BY GivesUp
  <2>3. ResultOK(Opened(p, h, after), ech, k)
    <3>1. ResultOK(Reject(p, h), ech, k)
      BY <1>2, Rejects, Zenon
    <3>2. ResultOK(Abort(p, h, "decrypt_error"), ech, k)
      BY <1>2, GivesUp
    <3>3. CASE p.opener # NoContext /\ Opens(p.opener, h)
      <4>1. "context" \in DOMAIN h.ech.payload
        BY <3>3, Zenon DEF Opens
      <4>2. Opened(p, h, after) =
              Continue([p EXCEPT !.offered = TRUE, !.accepted = TRUE, !.opener = Used(@)],
                       echDecodeClientHelloInner(h.ech.payload.plaintext, h))
        BY <3>3 DEF Opened
      <4>3. ResultOK(Continue([p EXCEPT !.offered = TRUE, !.accepted = TRUE, !.opener = Used(@)],
                       echDecodeClientHelloInner(h.ech.payload.plaintext, h)), ech, k)
        BY <1>2, <1>6, <4>1, Opens13, Zenon
      <4> QED
        BY <4>2, <4>3
    <3>4. CASE p.opener = NoContext \/ ~Opens(p.opener, h)
      <4>1. Opened(p, h, after) \in {Reject(p, h), Abort(p, h, "decrypt_error")}
        BY <3>4 DEF Opened
      <4> QED
        BY <3>1, <3>2, <4>1, Zenon
    <3> QED
      BY <3>3, <3>4, Zenon
  <2> QED
    BY <2>1, <2>2, <2>3, Zenon
<1> QED
  BY <1>3, <1>4, <1>5, <1>6, Zenon

-----------------------------------------------------------------------------
(* Transcripts.                                                            *)

\* The transcript u goes on from t.
Extends(t, u) ==
    /\ IsSeq(u) /\ Len(t) \in Nat /\ Len(u) \in Nat /\ Len(t) <= Len(u)
    /\ \A i \in 1..Len(t) : u[i] = t[i]

\* A ServerHello.
IsAnswer(m) == DOMAIN m = {"type", "retry", "group", "psk", "confirm"} /\ m.type = "serverHello"

\* A message adds one entry to a transcript.
LEMMA Adds ==
  ASSUME NEW m, NEW t, IsSeq(t)
  PROVE  Extends(t, transcriptMsg(m, t)) /\ Len(transcriptMsg(m, t)) = Len(t) + 1
<1>1. PICK x : transcriptMsg(m, t) = Append(t, x)
  BY Zenon DEF transcriptMsg
<1>2. /\ IsSeq(Append(t, x)) /\ Len(t) \in Nat /\ Len(Append(t, x)) = Len(t) + 1
      /\ \A i \in 1..Len(t) : Append(t, x)[i] = t[i]
  BY Appended
<1>3. Len(t) + 1 \in Nat /\ Len(t) <= Len(t) + 1
  BY <1>2
<1> QED
  BY <1>1, <1>2, <1>3, Zenon DEF Extends

\* A hello adds itself, and so does a client's Certificate.
LEMMA AddsItself ==
  ASSUME NEW m, NEW t, IsSeq(t), m.type \in {"clientHello", "certificate"}
  PROVE  transcriptMsg(m, t)[Len(t) + 1] = m
<1>1. transcriptMsg(m, t) = Append(t, m)
  BY DEF transcriptMsg
<1> QED
  BY <1>1, Appended, Zenon

\* A Finished adds that there was one.
LEMMA AddsFinished ==
  ASSUME NEW m, NEW t, m.type = "finished"
  PROVE  transcriptMsg(m, t) = Append(t, [type |-> "finished"])
BY DEF transcriptMsg

\* A ServerHello adds its choice of a session.
LEMMA AddsAnswer ==
  ASSUME NEW m, NEW t, IsSeq(t), IsAnswer(m)
  PROVE  /\ transcriptMsg(m, t)[Len(t) + 1].type = "serverHello"
         /\ transcriptMsg(m, t)[Len(t) + 1].psk = m.psk
<1>1. PICK x : x = [m EXCEPT !.confirm = Unconfirmed]
  BY Zenon
<1>2. x.type = "serverHello" /\ x.psk = m.psk
  BY <1>1, Zenon DEF IsAnswer
<1>3. transcriptMsg(m, t) = Append(t, x)
  BY <1>1 DEF transcriptMsg, IsAnswer
<1>4. transcriptMsg(m, t)[Len(t) + 1] = x
  BY <1>3, Appended, Zenon
<1> QED
  BY <1>2, <1>4, Zenon

\* Going on from a transcript that goes on.
LEMMA ExtendsFurther ==
  ASSUME NEW t, NEW u, NEW v, Extends(t, u), Extends(u, v)
  PROVE  Extends(t, v)
<1>1. Len(t) \in Nat /\ Len(u) \in Nat /\ Len(v) \in Nat /\ Len(t) <= Len(u) /\ Len(u) <= Len(v)
  BY Zenon DEF Extends
<1>2. Len(t) <= Len(v) /\ \A i \in 1..Len(t) : i \in 1..Len(u)
  BY <1>1
<1> QED
  BY <1>1, <1>2, Zenon DEF Extends

\* What a transcript tells stays.
LEMMA TellsOn ==
  ASSUME NEW t, NEW u, NEW accepted, NEW psk, Extends(t, u)
  PROVE  /\ Tells(t, accepted, psk) => Tells(u, accepted, psk)
         /\ Headless(t) => Headless(u)
<1>1. Len(t) \in Nat /\ Len(u) \in Nat /\ Len(t) <= Len(u) /\ \A i \in 1..Len(t) : u[i] = t[i]
  BY Zenon DEF Extends
<1>2. ASSUME Len(t) >= 2 PROVE Len(u) >= 2 /\ u[1] = t[1] /\ u[2] = t[2]
  BY <1>1, <1>2
<1>3. ASSUME Len(t) >= 3 PROVE Len(u) >= 3 /\ u[1] = t[1] /\ u[3] = t[3]
  BY <1>1, <1>3
<1>4. ASSUME Len(t) >= 4 PROVE Len(u) >= 4 /\ u[1] = t[1] /\ u[3] = t[3] /\ u[4] = t[4]
  BY <1>1, <1>4
<1>5. Direct(t, accepted, psk) => Direct(u, accepted, psk)
  BY <1>2, Zenon DEF Direct
<1>6. Retried(t, accepted, psk) => Retried(u, accepted, psk)
  BY <1>4, Zenon DEF Retried
<1>7. Headless(t) => Headless(u)
  BY <1>3, Zenon DEF Headless
<1> QED
  BY <1>5, <1>6, <1>7, Zenon DEF Tells

\* The answer to the only hello.
LEMMA TellsFirst ==
  ASSUME NEW t, NEW m, NEW accepted, IsSeq(t), IsAnswer(m), OneHello(t),
         t[1].ech = InnerECH <=> accepted = TRUE
  PROVE  Tells(transcriptMsg(m, t), accepted, m.psk)
<1> DEFINE u == transcriptMsg(m, t)
<1>1. Len(u) = Len(t) + 1 /\ \A i \in 1..Len(t) : u[i] = t[i]
  BY Adds DEF Extends
<1>2. u[Len(t) + 1].psk = m.psk
  BY AddsAnswer, Zenon
<1>3. Len(t) = 1 /\ t[1].type = "clientHello"
  BY Zenon DEF OneHello
<1> HIDE DEF u
<1>4. Len(u) >= 2 /\ u[1] = t[1] /\ u[2].psk = m.psk
  BY <1>1, <1>2, <1>3
<1>5. Direct(u, accepted, m.psk)
  BY <1>3, <1>4, Zenon DEF Direct
<1> QED
  BY <1>5, Zenon DEF Tells, u

\* The answer to the second hello.
LEMMA TellsSecond ==
  ASSUME NEW t, NEW m, NEW accepted, IsSeq(t), IsAnswer(m), TwoHellos(t),
         t[3].ech = InnerECH <=> accepted = TRUE
  PROVE  Tells(transcriptMsg(m, t), accepted, m.psk)
<1> DEFINE u == transcriptMsg(m, t)
<1>1. Len(u) = Len(t) + 1 /\ \A i \in 1..Len(t) : u[i] = t[i]
  BY Adds DEF Extends
<1>2. u[Len(t) + 1].psk = m.psk
  BY AddsAnswer, Zenon
<1>3. Len(t) = 3 /\ t[1].type = "messageHash" /\ t[3].type = "clientHello"
  BY Zenon DEF TwoHellos
<1> HIDE DEF u
<1>4. Len(u) >= 4 /\ u[1] = t[1] /\ u[3] = t[3] /\ u[4].psk = m.psk
  BY <1>1, <1>2, <1>3
<1>5. Retried(u, accepted, m.psk)
  BY <1>3, <1>4, Zenon DEF Retried
<1> QED
  BY <1>5, Zenon DEF Tells, u

\* The answer in a transcript without a second hello.
LEMMA TellsNothing ==
  ASSUME NEW t, NEW m, IsSeq(t), IsAnswer(m), OneHash(t)
  PROVE  Headless(transcriptMsg(m, t))
<1> DEFINE u == transcriptMsg(m, t)
<1>1. Len(u) = Len(t) + 1 /\ \A i \in 1..Len(t) : u[i] = t[i]
  BY Adds, Zenon DEF Extends
<1>2. u[Len(t) + 1].type = "serverHello"
  BY AddsAnswer, Zenon
<1>3. Len(t) = 2 /\ t[1].type = "messageHash"
  BY Zenon DEF OneHash
<1> HIDE DEF u
<1>4. Len(u) >= 3 /\ u[1] = t[1] /\ u[3].type = "serverHello"
  BY <1>1, <1>2, <1>3
<1>5. Headless(u)
  BY <1>3, <1>4, Zenon DEF Headless
<1> QED
  BY <1>5, Zenon DEF u

\* A hello after nothing, and one after a HelloRetryRequest.
LEMMA HelloSaid ==
  ASSUME NEW t, NEW h, IsSeq(t), IsHello(h), NEW u, u = transcriptMsg(h, t)
  PROVE  /\ IsSeq(u)
         /\ t = << >> => OneHello(u) /\ u[1] = h
         /\ OneHash(t) => TwoHellos(u) /\ u[3] = h
<1>1. IsSeq(u) /\ Len(u) = Len(t) + 1 /\ \A i \in 1..Len(t) : u[i] = t[i]
  BY Adds DEF Extends
<1>2. u[Len(t) + 1] = h /\ h.type = "clientHello"
  BY AddsItself DEF IsHello
<1>3. ASSUME t = << >> PROVE OneHello(u) /\ u[1] = h
  <2>1. Len(t) = 0
    BY <1>3
  <2>2. Len(u) = 1 /\ u[1] = h
    BY <1>1, <1>2, <2>1
  <2> QED
    BY <1>2, <2>2, Zenon DEF OneHello
<1>4. ASSUME OneHash(t) PROVE TwoHellos(u) /\ u[3] = h
  <2>1. Len(t) = 2 /\ t[1].type = "messageHash"
    BY <1>4, Zenon DEF OneHash
  <2>2. Len(u) = 3 /\ u[1] = t[1] /\ u[3] = h
    BY <1>1, <1>2, <2>1
  <2> QED
    BY <1>2, <2>1, <2>2, Zenon DEF TwoHellos
<1> QED
  BY <1>1, <1>3, <1>4, Zenon

\* The transcript after a HelloRetryRequest.
LEMMA HashSaid ==
  ASSUME NEW t, NEW m, NEW u, u = transcriptMsg(m, messageHash(t))
  PROVE  IsSeq(u) /\ OneHash(u)
<1> DEFINE v == messageHash(t)
<1>1. IsSeq(v) /\ Len(v) = 1 /\ v[1].type = "messageHash"
  BY Small DEF messageHash
<1> HIDE DEF v
<1>2. IsSeq(u) /\ Len(u) = Len(v) + 1 /\ \A i \in 1..Len(v) : u[i] = v[i]
  BY <1>1, Adds DEF Extends, v
<1>3. Len(u) = 2 /\ u[1] = v[1]
  BY <1>1, <1>2
<1> QED
  BY <1>1, <1>2, <1>3, Zenon DEF OneHash

\* Two readers of one transcript agree.
LEMMA TellsOnce ==
  ASSUME NEW t, NEW a, NEW b, NEW p, NEW q, a \in BOOLEAN, b \in BOOLEAN,
         Tells(t, a, p) \/ Headless(t), Tells(t, b, q)
  PROVE  a = b /\ p = q
<1>1. Direct(t, a, p) /\ Direct(t, b, q) => a = b /\ p = q
  BY Zenon DEF Direct
<1>2. Retried(t, a, p) /\ Retried(t, b, q) => a = b /\ p = q
  BY Zenon DEF Retried
<1>3. ~(Direct(t, a, p) /\ Retried(t, b, q)) /\ ~(Retried(t, a, p) /\ Direct(t, b, q))
  BY DEF Direct, Retried
<1>4. ~(Headless(t) /\ Direct(t, b, q)) /\ ~(Headless(t) /\ Retried(t, b, q))
  BY DEF Direct, Retried, Headless
<1> QED
  BY <1>1, <1>2, <1>3, <1>4, Zenon DEF Tells

-----------------------------------------------------------------------------
(* Steps of the agreement.                                                 *)

AgreementStep == [Promise!Next]_(Promise!vars)

\* The client answers nothing: it goes on or fails.
LEMMA ClientStutters ==
  ASSUME UNCHANGED <<config, server>>, ClientAnswer(client', config') = ClientAnswer(client, config),
         End(client') = End(client) \/ (End(client) = "running" /\ End(client') = "failed")
  PROVE  AgreementStep
<1>1. /\ ServerOffer(server)' = ServerOffer(server) /\ ServerAccepted(server)' = ServerAccepted(server)
      /\ End(server)' = End(server)
  BY DEF ServerOffer, ServerAccepted, End
<1>2. ClientAnswer(client, config)' = ClientAnswer(client', config') /\ End(client)' = End(client')
  BY DEF ClientAnswer, End
<1>3. CASE End(client') = End(client)
  BY <1>1, <1>2, <1>3, Zenon DEF AgreementStep, Promise!vars
<1>4. CASE End(client) = "running" /\ End(client') = "failed"
  <2>1. Promise!ClientFails
    BY <1>1, <1>2, <1>4, Zenon DEF Promise!ClientFails
  <2> QED
    BY <2>1, Zenon DEF AgreementStep, Promise!Next
<1> QED
  BY <1>3, <1>4, Zenon

\* The client answers with what the server offered.
LEMMA ClientConfirms ==
  ASSUME UNCHANGED <<config, server>>, End(client) = "running", End(client') \in {"complete", "failed"},
         ServerOffer(server) # << >>, NEW cert \in Certificates,
         ClientAnswer(client', config') = << [parameters |-> ServerOffer(server)[1], cert |-> cert] >>
  PROVE  AgreementStep
<1>1. /\ ServerOffer(server)' = ServerOffer(server) /\ ServerAccepted(server)' = ServerAccepted(server)
      /\ End(server)' = End(server)
  BY DEF ServerOffer, ServerAccepted, End
<1>2. ClientAnswer(client, config)' = ClientAnswer(client', config') /\ End(client)' = End(client')
  BY DEF ClientAnswer, End
<1>3. Promise!Confirm
  BY <1>1, <1>2, Zenon DEF Promise!Confirm
<1> QED
  BY <1>3, Zenon DEF AgreementStep, Promise!Next

\* The server accepts nothing: it goes on, commits or fails.
LEMMA ServerStutters ==
  ASSUME UNCHANGED <<config, client>>, ServerAccepted(server') = ServerAccepted(server),
         \/ ServerOffer(server') = ServerOffer(server) /\ End(server') = End(server)
         \/ /\ End(server) = "running" /\ End(server') = "failed"
            /\ ServerOffer(server') = ServerOffer(server)
         \/ /\ End(server) = "running" /\ End(server') \in {"running", "failed"}
            /\ ServerOffer(server) = << >> /\ Len(ServerOffer(server')) = 1
  PROVE  AgreementStep
<1>1. ClientAnswer(client, config)' = ClientAnswer(client, config) /\ End(client)' = End(client)
  BY DEF ClientAnswer, End
<1>2. /\ ServerOffer(server)' = ServerOffer(server') /\ ServerAccepted(server)' = ServerAccepted(server')
      /\ End(server)' = End(server')
  BY DEF ServerOffer, ServerAccepted, End
<1>3. CASE ServerOffer(server') = ServerOffer(server) /\ End(server') = End(server)
  BY <1>1, <1>2, <1>3, Zenon DEF AgreementStep, Promise!vars
<1>4. CASE /\ End(server) = "running" /\ End(server') = "failed"
           /\ ServerOffer(server') = ServerOffer(server)
  <2>1. Promise!ServerFails
    BY <1>1, <1>2, <1>4, Zenon DEF Promise!ServerFails
  <2> QED
    BY <2>1, Zenon DEF AgreementStep, Promise!Next
<1>5. CASE /\ End(server) = "running" /\ End(server') \in {"running", "failed"}
           /\ ServerOffer(server) = << >> /\ Len(ServerOffer(server')) = 1
  <2>1. Promise!Commit
    BY <1>1, <1>2, <1>5, Zenon DEF Promise!Commit
  <2> QED
    BY <2>1, Zenon DEF AgreementStep, Promise!Next
<1> QED
  BY <1>3, <1>4, <1>5, Zenon

\* The server accepts what the client answered.
LEMMA ServerAccepts ==
  ASSUME UNCHANGED <<config, client>>, ServerOffer(server') = ServerOffer(server),
         End(server) = "running", End(server') = "complete", ClientAnswer(client, config) # << >>,
         ServerAccepted(server') = ClientAnswer(client, config)
  PROVE  AgreementStep
<1>1. ClientAnswer(client, config)' = ClientAnswer(client, config) /\ End(client)' = End(client)
  BY DEF ClientAnswer, End
<1>2. /\ ServerOffer(server)' = ServerOffer(server') /\ ServerAccepted(server)' = ServerAccepted(server')
      /\ End(server)' = End(server')
  BY DEF ServerOffer, ServerAccepted, End
<1>3. Promise!Accept
  BY <1>1, <1>2, Zenon DEF Promise!Accept
<1> QED
  BY <1>3, Zenon DEF AgreementStep, Promise!Next

-----------------------------------------------------------------------------
(* A step of a client that has not confirmed.                              *)

\* A client on its way, or failed.
ClientRuns(d, k) == ClientOK(d, k) /\ d.in.stage # "application" /\ d.result # "complete"

\* What such a client may send.
Early(w, k) ==
    /\ IsSeq(w)
    /\ \A r \in Elems(w) : /\ r.msg.type \in {"clientHello", "alert"}
                           /\ r.msg.type = "clientHello" => WireHello(r.msg, k)

ClientReads == toClient' = toClient \/ (toClient # << >> /\ toClient' = Tail(toClient))
ServerTakesOne == toServer' = toServer \/ (toServer # << >> /\ toServer' = Tail(toServer))

\* The invariant of the next state, spelled out.
LEMMA NextInv ==
  ASSUME config' \in Configurations, ClientOK(client', config'), ServerOK(server', config'),
         ToServerInv(toServer', client', config'), ToClientInv(toClient', server'),
         Agree(client', server')
  PROVE  AgreementInv'
BY DEF AgreementInv

\* A client that fails.
LEMMA ClientFailure ==
  ASSUME NEW d, NEW k, NEW why, ClientBase(d), d.in.stage # "application", why # "complete"
  PROVE  ClientRuns(FailedClient(d, why), k)
<1> DEFINE f == FailedClient(d, why)
<1>1. /\ DOMAIN f = ClientFields /\ f.pc = "done" /\ f.result = why /\ f.in = d.in
      /\ f.accepted = d.accepted /\ f.transcript = d.transcript /\ f.transcriptInner = d.transcriptInner
  <2>1. PICK g : g = Failed(d, why)
    BY Zenon
  <2>2. /\ DOMAIN g = ClientFields /\ g.pc = "done" /\ g.result = why /\ g.in = d.in
        /\ g.accepted = d.accepted /\ g.transcript = d.transcript
        /\ g.transcriptInner = d.transcriptInner
    BY <2>1, Zenon DEF ClientBase, ClientFields, Failed
  <2>3. f = [g EXCEPT !.ticket = "none"]
    BY <2>1, Zenon DEF FailedClient
  <2> HIDE DEF f
  <2> QED
    BY <2>2, <2>3, Zenon DEF ClientFields
<1> HIDE DEF f
<1>2. ClientBase(f)
  BY <1>1, Zenon DEF ClientBase
<1>3. f.pc \notin Asking /\ f.pc \notin Answered
  BY <1>1 DEF Asking, Answered
<1>4. ClientRuns(f, k)
  BY <1>1, <1>2, <1>3, Zenon DEF ClientRuns, ClientOK
<1> QED
  BY <1>4, Zenon DEF f

\* What is sent arrives behind what is under way, or is lost.
LEMMA ClientSent ==
  ASSUME NEW d, NEW w, ClientSends(d, w)
  PROVE  /\ client' = d \/ client' = FailedClient(d, "broken")
         /\ toServer' = toServer \/ toServer' = toServer \o w
         /\ UNCHANGED <<config, server, keys, cut>>
BY Zenon DEF ClientSends

\* A client that has not confirmed keeps the invariant, whatever it does.
LEMMA ClientRun ==
  ASSUME AgreementInv, client.pc # "done", NEW d, NEW w, ClientRuns(d, config), Early(w, config),
         ClientSends(d, w), ClientReads
  PROVE  AgreementInv' /\ AgreementStep
<1>1. ClientRuns(client', config) /\ UNCHANGED <<config, server, keys, cut>>
  <2>1. ClientBase(d) /\ d.in.stage # "application"
    BY Zenon DEF ClientRuns, ClientOK
  <2>2. ClientRuns(FailedClient(d, "broken"), config)
    BY <2>1, ClientFailure
  <2> QED
    BY <2>2, ClientSent, Zenon
<1>2. client.in.stage # "application" /\ client.result = "none"
  BY Zenon DEF AgreementInv, ClientOK
<1>3. ToServerInv(toServer', client', config)
  <2>1. IsSeq(toServer) /\ \A r \in Elems(toServer) : ToServerOK(r, client, config)
    BY Zenon DEF AgreementInv, ToServerInv
  <2>2. \A r \in Elems(toServer) : ToServerOK(r, client', config)
    BY <1>2, <2>1, Zenon DEF ToServerOK
  <2>3. IsSeq(w) /\ \A r \in Elems(w) : ToServerOK(r, client', config)
    BY DEF Early, ToServerOK
  <2>4. IsSeq(toServer \o w) /\ Elems(toServer \o w) = Elems(toServer) \cup Elems(w)
    BY <2>1, <2>3, Joined, Zenon
  <2>5. ToServerInv(toServer, client', config) /\ ToServerInv(toServer \o w, client', config)
    BY <2>1, <2>2, <2>3, <2>4, Zenon DEF ToServerInv
  <2> QED
    BY <2>5, ClientSent, Zenon
<1>4. ToClientInv(toClient', server)
  <2>1. IsSeq(toClient) /\ \A r \in Elems(toClient) : ToClientOK(r, server)
    BY Zenon DEF AgreementInv, ToClientInv
  <2>2. toClient # << >> => IsSeq(Tail(toClient)) /\ Elems(Tail(toClient)) \subseteq Elems(toClient)
    BY <2>1, Taken, Zenon
  <2> QED
    BY <2>1, <2>2, Zenon DEF ToClientInv, ClientReads
<1>5. Agree(client', server)
  BY <1>1, Zenon DEF Agree, ClientRuns
<1>6. AgreementInv'
  <2>1. /\ config' = config /\ server' = server /\ config \in Configurations
        /\ ServerOK(server, config) /\ ClientOK(client', config)
    BY <1>1, Zenon DEF AgreementInv, ClientRuns
  <2>2. /\ config' \in Configurations /\ ClientOK(client', config') /\ ServerOK(server', config')
        /\ ToServerInv(toServer', client', config') /\ ToClientInv(toClient', server')
        /\ Agree(client', server')
    BY <1>3, <1>4, <1>5, <2>1, Zenon
  <2> QED
    BY <2>2, NextInv, Zenon
<1>7. AgreementStep
  <2>1. ClientAnswer(client', config') = << >> /\ ClientAnswer(client, config) = << >>
    BY <1>1, <1>2, Zenon DEF ClientAnswer, ClientRuns
  <2>2. End(client) = "running" /\ End(client') \in {"running", "failed"}
    BY <1>1 DEF End, ClientRuns
  <2> QED
    BY <1>1, <2>1, <2>2, ClientStutters
<1> QED
  BY <1>6, <1>7

-----------------------------------------------------------------------------
(* The client's handlers up to readServerFinished.                         *)

\* The handler leaves a client that runs, or that failed, and sends what such a client may.
ClientMoves == \E d, w : ClientRuns(d, config) /\ Early(w, config) /\ ClientSends(d, w)

\* A handler that ends so keeps the invariant.
LEMMA ClientHandled ==
  ASSUME AgreementInv, client.pc # "done", ClientMoves, ClientReads
  PROVE  AgreementInv' /\ AgreementStep
<1>1. PICK d, w : ClientRuns(d, config) /\ Early(w, config) /\ ClientSends(d, w)
  BY Zenon DEF ClientMoves
<1> QED
  BY <1>1, ClientRun, Zenon

\* A handler that sends nothing.
LEMMA ClientQuiet ==
  ASSUME NEW d, ClientRuns(d, config), ClientSends(d, << >>)
  PROVE  ClientMoves
<1>1. Early(<< >>, config)
  BY Small, Zenon DEF Early
<1> QED
  BY <1>1, Zenon DEF ClientMoves

\* A handler that fails.
LEMMA ClientGivesUp ==
  ASSUME NEW d, NEW alert, ClientBase(d), d.in.stage # "application", alert # "complete",
         ClientFails(d, alert)
  PROVE  ClientMoves
<1>1. PICK r : r = [key |-> d.out, msg |-> [type |-> "alert", alert |-> alert]]
  BY Zenon
<1>2. Alert(d.out, alert) = << r >>
  BY <1>1, Zenon DEF Alert
<1>3. r.msg.type = "alert"
  BY <1>1
<1>4. IsSeq(<< r >>) /\ Elems(<< r >>) = {r}
  BY Small, Zenon
<1>5. Early(Alert(d.out, alert), config)
  BY <1>2, <1>3, <1>4 DEF Early
<1>6. ClientRuns(FailedClient(d, alert), config)
  BY ClientFailure, Zenon
<1> QED
  BY <1>5, <1>6, Zenon DEF ClientMoves, ClientFails

\* One hello on the wire.
LEMMA OneHelloSent ==
  ASSUME NEW h, NEW k, WireHello(h, k)
  PROVE  Early(Records(Plain, << h >>), k)
<1>1. IsSeq(<< h >>) /\ Elems(<< h >>) = {h}
  BY Small, Zenon
<1>2. IsSeq(Records(Plain, << h >>)) /\ Elems(Records(Plain, << h >>)) = {[key |-> Plain, msg |-> h]}
  BY <1>1, Packed
<1>3. h.type = "clientHello"
  BY Zenon DEF WireHello, IsHello
<1> QED
  BY <1>2, <1>3 DEF Early

\* What the client's Config is known for.
LEMMA ConfigFacts ==
  ASSUME AgreementInv
  PROVE  /\ config.client.cert \in Certificates
         /\ config.client.ech.use \in {"off", "grease", "offer"}
BY ConfigurationsAssumption, Zenon DEF AgreementInv

\* The first hello.
LEMMA SendsHello ==
  ASSUME AgreementInv, SendClientHello
  PROVE  AgreementInv' /\ AgreementStep
<1>1. PICK o : o = echOfferOrGrease(config.client)
  BY Zenon
<1>2. OfferOK(o, config)
  <2>1. OfferOK(echOfferOrGrease(config.client), config)
    BY ConfigFacts, Offers
  <2> QED
    BY <1>1, <2>1
<1>3. PICK h : h = loadSession(o.hello)
  BY Zenon
<1>4. WireHello(h, config)
  BY <1>2, <1>3, Loads, Zenon DEF OfferOK
<1>5. PICK d : d = [client EXCEPT !.pc = "serverHello", !.hello = h, !.inner = o.inner,
                         !.sealer = o.sealer, !.offered = o.offered,
                         !.greased = o.greased, !.ticket = h.psk]
  BY Zenon
<1>6. client.pc = "start" /\ ClientSends(d, Records(Plain, << h >>)) /\ toClient' = toClient
  BY <1>1, <1>3, <1>5, Zenon DEF SendClientHello
<1>7. ClientBase(client) /\ client.result = "none" /\ client.in.stage # "application"
  BY <1>6 DEF AgreementInv, ClientOK
<1>8. /\ DOMAIN d = ClientFields /\ d.pc = "serverHello" /\ d.hello = h /\ d.inner = o.inner
      /\ d.offered = o.offered /\ d.accepted = client.accepted /\ d.transcript = client.transcript
      /\ d.transcriptInner = client.transcriptInner /\ d.in = client.in /\ d.result = client.result
  BY <1>5, <1>7, Zenon DEF ClientBase, ClientFields
<1>9. Asks(d, config)
  BY <1>2, <1>4, <1>8 DEF Asks, OfferOK
<1>10. ClientRuns(d, config)
  <2>1. ClientBase(d)
    BY <1>7, <1>8, Zenon DEF ClientBase
  <2>2. d.pc \notin Answered /\ d.pc # "done" /\ d.result # "complete" /\ d.result = "none"
    BY <1>7, <1>8 DEF Answered
  <2> QED
    BY <1>7, <1>8, <1>9, <2>1, <2>2, Zenon DEF ClientRuns, ClientOK
<1>11. ClientMoves
  BY <1>4, <1>6, <1>10, OneHelloSent, Zenon DEF ClientMoves
<1>12. client.pc # "done" /\ ClientReads
  BY <1>6, Zenon DEF ClientReads
<1> QED
  BY <1>11, <1>12, ClientHandled, Zenon

\* The ServerHello that is not a HelloRetryRequest.
LEMMA ReadsAnswer ==
  ASSUME NEW c, NEW m, ClientBase(c), c.in.stage # "application", c.result = "none",
         First(c) \/ Second(c), IsAnswer(m), ProcessServerHello(c, m)
  PROVE  ClientMoves
<1> DEFINE confirmed == /\ c.offered
                        /\ m.confirm = Confirmation(c.inner.random, transcriptMsg(m, c.transcriptInner))
<1>1. PICK d : d = [c EXCEPT !.accepted = confirmed,
                       !.hello = IF confirmed THEN c.inner ELSE @,
                       !.transcript = transcriptMsg(m, IF confirmed THEN c.transcriptInner ELSE @)]
  BY Zenon
<1>2. /\ DOMAIN d = ClientFields /\ d.accepted = confirmed
      /\ d.transcript = transcriptMsg(m, IF confirmed THEN c.transcriptInner ELSE c.transcript)
      /\ d.transcriptInner = c.transcriptInner /\ d.in = c.in /\ d.result = c.result
  BY <1>1, Zenon DEF ClientBase, ClientFields
<1>3. (c.offered /\ confirmed) \/ ~confirmed
  BY Zenon
<1>4. \/ ClientFails(d, "unexpected_message") \/ ClientFails(d, "illegal_parameter")
      \/ \E secret : /\ secret.stage = "handshake"
                     /\ ClientSends([d EXCEPT !.pc = "parameters", !.usingPSK = m.psk,
                                              !.in = secret, !.out = secret], << >>)
  <2>1. PICK secret : secret = Secret("handshake", IF m.psk THEN d.hello.psk ELSE "none",
                                      c.private[CHOOSE i \in Private(c, m.group) : TRUE], d.transcript)
    BY Zenon
  <2>2. secret.stage = "handshake"
    BY <2>1 DEF Secret
  <2>3. \/ ClientFails(d, "unexpected_message") \/ ClientFails(d, "illegal_parameter")
        \/ ClientSends([d EXCEPT !.pc = "parameters", !.usingPSK = m.psk,
                                      !.in = secret, !.out = secret], << >>)
    BY <1>1, <2>1 DEF ProcessServerHello
  <2> QED
    BY <2>2, <2>3, Zenon
<1> HIDE DEF confirmed
<1>5. d.accepted \in BOOLEAN /\ (d.accepted = TRUE <=> confirmed) /\ (confirmed => c.offered)
  <2>1. confirmed \in BOOLEAN /\ (confirmed => c.offered)
    BY DEF confirmed
  <2> QED
    BY <1>2, <2>1
<1>6. ClientBase(d)
  <2>1. IsSeq(transcriptMsg(m, c.transcript)) /\ IsSeq(transcriptMsg(m, c.transcriptInner))
    BY Adds, Zenon DEF ClientBase, Extends
  <2> QED
    BY <1>2, <1>5, <2>1, Zenon DEF ClientBase
<1>7. Tells(d.transcript, d.accepted, m.psk) \/ Headless(d.transcript)
  <2>1. IsSeq(c.transcript) /\ IsSeq(c.transcriptInner)
    BY Zenon DEF ClientBase
  <2>2. CASE confirmed
    <3>1. d.transcript = transcriptMsg(m, c.transcriptInner) /\ d.accepted = TRUE /\ c.offered
      BY <1>2, <1>5, <2>2
    <3>2. \/ OneHello(c.transcriptInner) /\ c.transcriptInner[1].ech = InnerECH
          \/ TwoHellos(c.transcriptInner) /\ c.transcriptInner[3].ech = InnerECH
          \/ OneHash(c.transcriptInner)
      BY <3>1, Zenon DEF First, Second
    <3> QED
      BY <2>1, <3>1, <3>2, TellsFirst, TellsSecond, TellsNothing, Zenon
  <2>3. CASE ~confirmed
    <3>1. d.transcript = transcriptMsg(m, c.transcript) /\ d.accepted # TRUE
      BY <1>2, <1>5, <2>3, Zenon
    <3>2. \/ OneHello(c.transcript) /\ c.transcript[1].ech # InnerECH
          \/ TwoHellos(c.transcript) /\ c.transcript[3].ech # InnerECH
      BY <3>1, Zenon DEF First, Second
    <3> QED
      BY <2>1, <3>1, <3>2, TellsFirst, TellsSecond, Zenon
  <2> QED
    BY <2>2, <2>3, Zenon
<1>8. ASSUME NEW secret, secret.stage = "handshake",
             ClientSends([d EXCEPT !.pc = "parameters", !.usingPSK = m.psk,
                                   !.in = secret, !.out = secret], << >>)
      PROVE  ClientMoves
  <2>1. PICK e : e = [d EXCEPT !.pc = "parameters", !.usingPSK = m.psk, !.in = secret, !.out = secret]
    BY Zenon
  <2>2. /\ DOMAIN e = ClientFields /\ e.pc = "parameters" /\ e.usingPSK = m.psk /\ e.in = secret
        /\ e.accepted = d.accepted /\ e.transcript = d.transcript
        /\ e.transcriptInner = d.transcriptInner /\ e.result = d.result
    BY <1>2, <2>1, Zenon DEF ClientFields
  <2>3. ClientBase(e) /\ (Tells(e.transcript, e.accepted, e.usingPSK) \/ Headless(e.transcript))
    BY <1>6, <1>7, <2>2, Zenon DEF ClientBase
  <2>4. /\ e.pc \notin Asking /\ e.pc # "done" /\ e.result = "none" /\ e.result # "complete"
        /\ e.in.stage # "application"
    BY <1>2, <1>8, <2>2 DEF Asking
  <2>5. ClientRuns(e, config)
    BY <2>3, <2>4, Zenon DEF ClientRuns, ClientOK
  <2> QED
    BY <1>8, <2>1, <2>5, ClientQuiet, Zenon
<1>9. d.in.stage # "application"
  BY <1>2
<1>10. ClientFails(d, "unexpected_message") \/ ClientFails(d, "illegal_parameter") => ClientMoves
  BY <1>6, <1>9, ClientGivesUp
<1> QED
  BY <1>4, <1>8, <1>10, Zenon

\* A HelloRetryRequest and the second hello.
LEMMA Retries ==
  ASSUME NEW c, NEW m, ClientBase(c), c.in.stage # "application", c.result = "none",
         WireHello(c.hello, config), IsHello(c.inner),
         c.offered => InnerHello(c.inner) /\ config.client.ech.use = "offer",
         ProcessHelloRetryRequest(c, m)
  PROVE  ClientMoves
<1>1. PICK t, ti : /\ t = transcriptMsg(m, messageHash(c.transcript))
                   /\ ti = transcriptMsg(m, messageHash(c.transcriptInner))
  BY Zenon
<1>2. IsSeq(t) /\ OneHash(t) /\ IsSeq(ti) /\ OneHash(ti)
  BY <1>1, HashSaid, Zenon
<1> DEFINE isInner == c.offered /\ m.confirm = Confirmation(c.inner.random, ti)
<1>3. PICK hello : hello = SecondHello(IF isInner THEN c.inner ELSE c.hello, m.group, t)
  BY Zenon
<1>4. PICK outer : outer = IF isInner
                 THEN echUpdateClientHelloOuter(c.hello, hello, c.sealer, c.hello.ech.configId, "none")
                 ELSE hello
  BY Zenon
<1>5. PICK d : d = [c EXCEPT !.pc = "secondServerHello", !.hello = outer,
                !.inner = IF isInner THEN hello ELSE @,
                !.private = KeyShares(<< m.group >>, "retry"),
                !.sealer = IF isInner THEN Used(@) ELSE @,
                !.transcript = transcriptMsg(outer, t),
                !.transcriptInner = IF isInner THEN transcriptMsg(hello, ti) ELSE ti]
  BY Zenon
<1>6. ClientSends(d, Records(Plain, << outer >>)) \/ ClientFails(c, "illegal_parameter")
  BY <1>1, <1>3, <1>4, <1>5 DEF ProcessHelloRetryRequest
<1>7. /\ DOMAIN d = ClientFields /\ d.pc = "secondServerHello" /\ d.hello = outer
      /\ d.inner = IF isInner THEN hello ELSE c.inner
      /\ d.transcript = transcriptMsg(outer, t)
      /\ d.transcriptInner = IF isInner THEN transcriptMsg(hello, ti) ELSE ti
      /\ d.offered = c.offered /\ d.accepted = c.accepted /\ d.in = c.in /\ d.result = c.result
  BY <1>5, Zenon DEF ClientBase, ClientFields
<1>8. IsHello(c.hello)
  BY Zenon DEF WireHello
<1>9. isInner => c.offered
  BY Zenon
<1> HIDE DEF isInner
<1>10. ASSUME isInner PROVE WireHello(outer, config) /\ Asks(d, config) /\ ClientBase(d)
  <2>1. InnerHello(c.inner) /\ config.client.ech.use = "offer" /\ hello = SecondHello(c.inner, m.group, t)
        /\ outer = echUpdateClientHelloOuter(c.hello, hello, c.sealer, c.hello.ech.configId, "none")
    BY <1>3, <1>4, <1>9, <1>10, Zenon
  <2>2. InnerHello(hello)
    <3>1. IsHello(hello) /\ hello.random = c.inner.random /\ hello.ech = c.inner.ech
      BY <2>1, Seconds DEF InnerHello
    <3> QED
      BY <2>1, <3>1, Zenon DEF InnerHello
  <2>3. Outer(outer) /\ outer.random = c.hello.random
    BY <1>8, <2>1, <2>2, SealedHello
  <2>4. WireHello(outer, config)
    BY <2>1, <2>3, Zenon DEF WireHello, Outer
  <2>5. /\ IsSeq(d.transcript) /\ TwoHellos(d.transcript) /\ d.transcript[3] = outer
    BY <1>2, <1>7, <2>3, HelloSaid DEF Outer
  <2>6. /\ IsSeq(d.transcriptInner) /\ TwoHellos(d.transcriptInner) /\ d.transcriptInner[3] = hello
        /\ d.inner = hello
    BY <1>2, <1>7, <1>10, <2>2, HelloSaid DEF InnerHello
  <2>7. Second(d)
    BY <2>2, <2>4, <2>5, <2>6, NotInner, Zenon DEF Second, InnerHello
  <2>8. Asks(d, config)
    BY <1>7, <2>1, <2>2, <2>4, <2>6, <2>7, Zenon DEF Asks, InnerHello
  <2>9. ClientBase(d)
    BY <1>7, <2>5, <2>6, Zenon DEF ClientBase
  <2> QED
    BY <2>4, <2>8, <2>9
<1>11. ASSUME ~isInner PROVE WireHello(outer, config) /\ Asks(d, config) /\ ClientBase(d)
  <2>1. hello = SecondHello(c.hello, m.group, t) /\ outer = hello
    BY <1>3, <1>4, <1>11, Zenon
  <2>2. IsHello(outer) /\ outer.random = c.hello.random /\ outer.ech = c.hello.ech
    BY <1>8, <2>1, Seconds
  <2>3. WireHello(outer, config)
    BY <2>2, Zenon DEF WireHello
  <2>4. /\ IsSeq(d.transcript) /\ TwoHellos(d.transcript) /\ d.transcript[3] = outer
    BY <1>2, <1>7, <2>2, HelloSaid
  <2>5. d.transcriptInner = ti /\ d.inner = c.inner
    BY <1>7, <1>11, Zenon
  <2>6. Second(d)
    BY <1>2, <2>3, <2>4, <2>5, NotInner, Zenon DEF Second
  <2>7. Asks(d, config)
    BY <1>7, <2>3, <2>5, <2>6, Zenon DEF Asks
  <2>8. ClientBase(d)
    BY <1>2, <1>7, <2>4, <2>5, Zenon DEF ClientBase
  <2> QED
    BY <2>3, <2>7, <2>8
<1>12. WireHello(outer, config) /\ Asks(d, config) /\ ClientBase(d)
  BY <1>10, <1>11, Zenon
<1>13. ClientRuns(d, config)
  <2>1. /\ d.pc \notin Answered /\ d.pc # "done" /\ d.result = "none" /\ d.result # "complete"
        /\ d.in.stage # "application"
    BY <1>7 DEF Answered
  <2> QED
    BY <1>12, <2>1, Zenon DEF ClientRuns, ClientOK
<1>14. ClientSends(d, Records(Plain, << outer >>)) => ClientMoves
  BY <1>12, <1>13, OneHelloSent, Zenon DEF ClientMoves
<1>15. ClientFails(c, "illegal_parameter") => ClientMoves
  BY ClientGivesUp
<1> QED
  BY <1>6, <1>14, <1>15, Zenon

\* The message the client takes is one the server sent.
LEMMA ClientTakesOne ==
  ASSUME AgreementInv, NEW pc, NEW type, ClientTakes(pc, type)
  PROVE  /\ client.pc = pc /\ Head(toClient).msg.type = type /\ ToClientOK(Head(toClient), server)
         /\ ClientReads
<1>1. /\ client.pc = pc /\ toClient # << >> /\ Head(toClient).msg.type = type
      /\ toClient' = Tail(toClient)
  BY Zenon DEF ClientTakes
<1>2. IsSeq(toClient) /\ \A r \in Elems(toClient) : ToClientOK(r, server)
  BY Zenon DEF AgreementInv, ToClientInv
<1>3. Head(toClient) \in Elems(toClient)
  BY <1>1, <1>2, Taken, Zenon
<1> QED
  BY <1>1, <1>2, <1>3, Zenon DEF ClientReads

\* What is known of a client that has not confirmed.
LEMMA ClientWaits ==
  ASSUME AgreementInv, client.pc # "done"
  PROVE  ClientBase(client) /\ client.in.stage # "application" /\ client.result = "none"
BY Zenon DEF AgreementInv, ClientOK

\* The first ServerHello.
LEMMA ReadsServerHello ==
  ASSUME AgreementInv, ClientReadServerHello
  PROVE  AgreementInv' /\ AgreementStep
<1>1. PICK m : m = Head(toClient).msg
  BY Zenon
<1>2. PICK c : c = [client EXCEPT !.transcript = transcriptMsg(client.hello, << >>),
                                  !.transcriptInner = transcriptMsg(client.inner, << >>)]
  BY Zenon
<1>3. /\ ClientTakes("serverHello", "serverHello")
      /\ IF m.retry THEN ProcessHelloRetryRequest(c, m) ELSE ProcessServerHello(c, m)
  BY <1>1, <1>2, Zenon DEF ClientReadServerHello
<1>4. /\ client.pc = "serverHello" /\ m.type = "serverHello" /\ ToClientOK(Head(toClient), server)
      /\ ClientReads
  BY <1>1, <1>3, ClientTakesOne
<1>5. client.pc # "done" /\ client.pc \in Asking /\ client.pc # "start"
  BY <1>4 DEF Asking
<1>6. ClientBase(client) /\ client.in.stage # "application" /\ client.result = "none"
  BY <1>5, ClientWaits, Zenon
<1>7. /\ WireHello(client.hello, config) /\ IsHello(client.inner) /\ IsHello(client.hello)
      /\ client.offered => InnerHello(client.inner) /\ config.client.ech.use = "offer"
  BY <1>5, Zenon DEF AgreementInv, ClientOK, Asks, WireHello
<1>8. IsAnswer(m)
  BY <1>1, <1>4, Zenon DEF ToClientOK, IsAnswer
<1>9. /\ DOMAIN c = ClientFields /\ c.transcript = transcriptMsg(client.hello, << >>)
      /\ c.transcriptInner = transcriptMsg(client.inner, << >>)
      /\ c.hello = client.hello /\ c.inner = client.inner /\ c.offered = client.offered
      /\ c.accepted = client.accepted /\ c.in = client.in /\ c.result = client.result
  BY <1>2, <1>6, Zenon DEF ClientBase, ClientFields
<1>10. /\ IsSeq(c.transcript) /\ OneHello(c.transcript) /\ c.transcript[1] = client.hello
       /\ IsSeq(c.transcriptInner) /\ OneHello(c.transcriptInner)
       /\ c.transcriptInner[1] = client.inner
  <2>1. IsSeq(<< >>)
    BY Small, Zenon
  <2> QED
    BY <1>7, <1>9, <2>1, HelloSaid
<1>11. First(c)
  BY <1>7, <1>9, <1>10, NotInner, Zenon DEF First, InnerHello
<1>12. ClientBase(c)
  BY <1>6, <1>9, <1>10, Zenon DEF ClientBase
<1>13. c.in.stage # "application" /\ c.result = "none"
  BY <1>6, <1>9, Zenon
<1>14. ProcessServerHello(c, m) => ClientMoves
  BY <1>8, <1>11, <1>12, <1>13, ReadsAnswer, Zenon
<1>15. ProcessHelloRetryRequest(c, m) => ClientMoves
  <2>1. /\ WireHello(c.hello, config) /\ IsHello(c.inner)
        /\ c.offered => InnerHello(c.inner) /\ config.client.ech.use = "offer"
    BY <1>7, <1>9, Zenon
  <2> QED
    BY <1>12, <1>13, <2>1, Retries, Zenon
<1> QED
  BY <1>3, <1>4, <1>5, <1>14, <1>15, ClientHandled, Zenon

\* The ServerHello after a HelloRetryRequest.
LEMMA ReadsSecondServerHello ==
  ASSUME AgreementInv, ClientReadSecondServerHello
  PROVE  AgreementInv' /\ AgreementStep
<1>1. PICK m : m = Head(toClient).msg
  BY Zenon
<1>2. ClientTakes("secondServerHello", "serverHello") /\ ProcessServerHello(client, m)
  BY <1>1, Zenon DEF ClientReadSecondServerHello
<1>3. /\ client.pc = "secondServerHello" /\ m.type = "serverHello"
      /\ ToClientOK(Head(toClient), server) /\ ClientReads
  BY <1>1, <1>2, ClientTakesOne
<1>4. client.pc # "done" /\ client.pc \in Asking
  BY <1>3 DEF Asking
<1>5. ClientBase(client) /\ client.in.stage # "application" /\ client.result = "none"
  BY <1>4, ClientWaits, Zenon
<1>6. Second(client)
  BY <1>3, <1>4, Zenon DEF AgreementInv, ClientOK, Asks
<1>7. IsAnswer(m)
  BY <1>1, <1>3, Zenon DEF ToClientOK, IsAnswer
<1>8. ClientMoves
  BY <1>2, <1>5, <1>6, <1>7, ReadsAnswer, Zenon
<1> QED
  BY <1>3, <1>4, <1>8, ClientHandled, Zenon

\* The client d has read one more message of the server's flight than the client has.
Follows(d, m) ==
    /\ DOMAIN d = ClientFields /\ d.pc \in Answered
    /\ d.transcript = transcriptMsg(m, client.transcript)
    /\ d.transcriptInner = client.transcriptInner /\ d.accepted = client.accepted
    /\ d.usingPSK = client.usingPSK /\ d.in = client.in /\ d.result = client.result

\* Such a client runs.
LEMMA FlightRead ==
  ASSUME AgreementInv, client.pc \in Answered, NEW m, NEW d, Follows(d, m)
  PROVE  ClientRuns(d, config)
<1>1. client.pc # "done"
  BY DEF Answered
<1>2. ClientBase(client) /\ client.in.stage # "application" /\ client.result = "none"
  BY <1>1, ClientWaits, Zenon
<1>3. Tells(client.transcript, client.accepted, client.usingPSK) \/ Headless(client.transcript)
  BY Zenon DEF AgreementInv, ClientOK
<1>4. Extends(client.transcript, d.transcript)
  <2>1. IsSeq(client.transcript)
    BY <1>2, Zenon DEF ClientBase
  <2> QED
    BY <2>1, Adds DEF Follows
<1>5. Tells(d.transcript, d.accepted, d.usingPSK) \/ Headless(d.transcript)
  <2>1. Tells(d.transcript, client.accepted, client.usingPSK) \/ Headless(d.transcript)
    BY <1>3, <1>4, TellsOn, Zenon
  <2> QED
    BY <2>1, Zenon DEF Follows
<1>6. ClientBase(d)
  BY <1>2, <1>4, Zenon DEF ClientBase, Follows, Extends
<1>7. d.pc # "done" /\ d.pc \notin Asking /\ d.result = "none" /\ d.result # "complete"
      /\ d.in.stage # "application"
  BY <1>2 DEF Follows, Answered, Asking
<1> QED
  BY <1>5, <1>6, <1>7, Zenon DEF ClientRuns, ClientOK

\* Going on with the flight, or failing, after a message of it.
LEMMA FlightHandled ==
  ASSUME AgreementInv, client.pc \in Answered, NEW m, NEW d, Follows(d, m), NEW alert,
         alert # "complete", ClientSends(d, << >>) \/ ClientFails(d, alert) \/ ClientFails(client, alert),
         ClientReads
  PROVE  AgreementInv' /\ AgreementStep
<1>1. client.pc # "done"
  BY DEF Answered
<1>2. ClientRuns(d, config)
  BY FlightRead, Zenon
<1>3. ClientBase(d) /\ d.in.stage # "application"
  BY <1>2, Zenon DEF ClientRuns, ClientOK
<1>4. ClientBase(client) /\ client.in.stage # "application"
  BY <1>1, ClientWaits, Zenon
<1>5. ClientMoves
  BY <1>2, <1>3, <1>4, ClientQuiet, ClientGivesUp, Zenon
<1> QED
  BY <1>1, <1>5, ClientHandled, Zenon

\* EncryptedExtensions.
LEMMA ReadsParameters ==
  ASSUME AgreementInv, ClientReadParameters
  PROVE  AgreementInv' /\ AgreementStep
<1>1. PICK m : m = Head(toClient).msg
  BY Zenon
<1>2. PICK d : d = [client EXCEPT !.transcript = transcriptMsg(m, @),
                            !.retryConfigs = client.offered /\ m.retryConfigs,
                            !.pc = IF client.usingPSK THEN "finished" ELSE "certificate"]
  BY Zenon
<1>3. /\ ClientTakes("parameters", "encryptedExtensions")
      /\ ClientFails(d, "unsupported_extension") \/ ClientSends(d, << >>)
  BY <1>1, <1>2, Zenon DEF ClientReadParameters
<1>4. client.pc = "parameters" /\ ClientReads
  BY <1>3, ClientTakesOne, Zenon
<1>5. client.pc \in Answered /\ DOMAIN client = ClientFields
  BY <1>4 DEF Answered, AgreementInv, ClientOK, ClientBase
<1>6. Follows(d, m)
  <2>1. d.pc \in {"finished", "certificate"}
    BY <1>2, <1>5, Zenon DEF ClientFields
  <2>2. d.pc \in Answered
    BY <2>1 DEF Answered
  <2> QED
    BY <1>2, <1>5, <2>2, Zenon DEF Follows, ClientFields
<1>7. "unsupported_extension" # "complete"
  OBVIOUS
<1> QED
  BY <1>3, <1>4, <1>5, <1>6, <1>7, FlightHandled, Zenon

\* CertificateRequest.
LEMMA ReadsCertificateRequest ==
  ASSUME AgreementInv, ClientReadCertificateRequest
  PROVE  AgreementInv' /\ AgreementStep
<1>1. PICK m : m = Head(toClient).msg
  BY Zenon
<1>2. PICK d : d = [client EXCEPT !.pc = "requested", !.certReq = TRUE, !.transcript = transcriptMsg(m, @)]
  BY Zenon
<1>3. ClientTakes("certificate", "certificateRequest") /\ ClientSends(d, << >>)
  BY <1>1, <1>2, Zenon DEF ClientReadCertificateRequest
<1>4. client.pc = "certificate" /\ ClientReads
  BY <1>3, ClientTakesOne, Zenon
<1>5. client.pc \in Answered /\ DOMAIN client = ClientFields /\ "requested" \in Answered
  BY <1>4 DEF Answered, AgreementInv, ClientOK, ClientBase
<1>6. Follows(d, m)
  BY <1>2, <1>5, Zenon DEF Follows, ClientFields
<1>7. "broken" # "complete"
  OBVIOUS
<1> QED
  BY <1>3, <1>4, <1>5, <1>6, <1>7, FlightHandled, Zenon

\* Certificate.
LEMMA ReadsCertificate ==
  ASSUME AgreementInv, NEW pc \in {"certificate", "requested"}, ClientReadCertificate(pc)
  PROVE  AgreementInv' /\ AgreementStep
<1>1. PICK m : m = Head(toClient).msg
  BY Zenon
<1>2. PICK d : d = [client EXCEPT !.pc = "verify", !.transcript = transcriptMsg(m, @)]
  BY Zenon
<1>3. ClientTakes(pc, "certificate") /\ (ClientSends(d, << >>) \/ ClientFails(d, "bad_certificate"))
  BY <1>1, <1>2, Zenon DEF ClientReadCertificate
<1>4. client.pc = pc /\ ClientReads
  BY <1>3, ClientTakesOne, Zenon
<1>5. client.pc \in Answered /\ DOMAIN client = ClientFields /\ "verify" \in Answered
  BY <1>4 DEF Answered, AgreementInv, ClientOK, ClientBase
<1>6. Follows(d, m)
  BY <1>2, <1>5, Zenon DEF Follows, ClientFields
<1>7. "bad_certificate" # "complete"
  OBVIOUS
<1> QED
  BY <1>3, <1>4, <1>5, <1>6, <1>7, FlightHandled, Zenon

\* CertificateVerify.
LEMMA ReadsCertificateVerify ==
  ASSUME AgreementInv, ClientReadCertificateVerify
  PROVE  AgreementInv' /\ AgreementStep
<1>1. PICK m : m = Head(toClient).msg
  BY Zenon
<1>2. PICK d : d = [client EXCEPT !.pc = "finished", !.transcript = transcriptMsg(m, @)]
  BY Zenon
<1>3. /\ ClientTakes("verify", "certificateVerify")
      /\ ClientSends(d, << >>) \/ ClientFails(client, "decrypt_error")
  BY <1>1, <1>2, Zenon DEF ClientReadCertificateVerify
<1>4. client.pc = "verify" /\ ClientReads
  BY <1>3, ClientTakesOne, Zenon
<1>5. client.pc \in Answered /\ DOMAIN client = ClientFields /\ "finished" \in Answered
  BY <1>4 DEF Answered, AgreementInv, ClientOK, ClientBase
<1>6. Follows(d, m)
  BY <1>2, <1>5, Zenon DEF Follows, ClientFields
<1>7. "decrypt_error" # "complete"
  OBVIOUS
<1> QED
  BY <1>3, <1>4, <1>5, <1>6, <1>7, FlightHandled, Zenon

\* A message the client does not take, and a broken connection.
LEMMA ClientStops ==
  ASSUME AgreementInv, ClientRefuses \/ ClientReadBroken
  PROVE  AgreementInv' /\ AgreementStep
<1>1. client.pc # "done" /\ ClientReads
  BY DEF ClientRefuses, ClientReadBroken, ClientReads
<1>2. ClientBase(client) /\ client.in.stage # "application"
  BY <1>1, ClientWaits, Zenon
<1>3. \A why \in {"remote", "broken"} : ClientRuns(FailedClient(client, why), config)
  BY <1>2, ClientFailure
<1>4. ASSUME ClientReadBroken PROVE ClientMoves
  <2>1. ClientSends(FailedClient(client, "broken"), << >>)
    BY <1>4 DEF ClientReadBroken, ClientSends
  <2> QED
    BY <1>3, <2>1, ClientQuiet
<1>5. ASSUME ClientRefuses PROVE ClientMoves
  <2>1. PICK why : why = Objection(client.in, Head(toClient))
    BY Zenon
  <2>2. ClientSends(FailedClient(client, "remote"), << >>) \/ ClientFails(client, why)
    BY <1>5, <2>1, Zenon DEF ClientRefuses
  <2>3. why # "complete"
    BY <2>1 DEF Objection
  <2>4. ClientSends(FailedClient(client, "remote"), << >>) => ClientMoves
    BY <1>3, ClientQuiet
  <2> QED
    BY <1>2, <2>2, <2>3, <2>4, ClientGivesUp, Zenon
<1> QED
  BY <1>1, <1>4, <1>5, ClientHandled, Zenon

-----------------------------------------------------------------------------
(* The client confirms.                                                    *)

\* The certificate of the client and its signature, as ClientFlight makes them.
FlightMade(t4, t5, t6, req, cert, certificate, verify) ==
    /\ certificate = IF req THEN << [type |-> "certificate", cert |-> cert] >> ELSE << >>
    /\ t5 = t4 \o certificate
    /\ verify = IF req /\ cert # "none"
                THEN << [type |-> "certificateVerify", by |-> "client", over |-> t5] >> ELSE << >>
    /\ t6 = IF verify = << >> THEN t5 ELSE transcriptMsg(verify[1], t5)

\* The transcript t6 of the client's Finished shows how many messages came after t4, and
\* the certificate.
FlightShows(t4, t6, req, cert, certificate, verify) ==
    /\ IsSeq(t6) /\ IsSeq(certificate) /\ IsSeq(verify)
    /\ \A m \in Elems(certificate) : m.type = "certificate" /\ m.cert = cert
    /\ \A m \in Elems(verify) : m.type = "certificateVerify"
    /\ IF ~req THEN Len(t6) = Len(t4)
       ELSE IF cert = "none" THEN Len(t6) = Len(t4) + 1
       ELSE Len(t6) = Len(t4) + 2 /\ t6[Len(t4) + 1].cert = cert

\* What the client says is in the transcript of its Finished.
LEMMA FlightSaid ==
  ASSUME NEW t4, NEW t5, NEW t6, NEW req, NEW cert, NEW certificate, NEW verify, IsSeq(t4),
         FlightMade(t4, t5, t6, req, cert, certificate, verify)
  PROVE  FlightShows(t4, t6, req, cert, certificate, verify)
<1> USE DEF FlightMade, FlightShows
<1>1. PICK cm : cm = [type |-> "certificate", cert |-> cert]
  BY Zenon
<1>2. PICK vm : vm = [type |-> "certificateVerify", by |-> "client", over |-> t5]
  BY Zenon
<1>3. /\ cm.type = "certificate" /\ cm.cert = cert /\ vm.type = "certificateVerify"
  BY <1>1, <1>2
<1>4. CASE ~req
  <2>1. certificate = << >> /\ verify = << >> /\ t5 = t4 \o << >> /\ t6 = t5
    BY <1>4, Zenon
  <2>2. IsSeq(<< >>) /\ Elems(<< >>) = {} /\ Len(<< >>) = 0
    BY Small, Zenon
  <2>3. IsSeq(t5) /\ Len(t4) \in Nat /\ Len(t5) = Len(t4) + 0
    BY <2>1, <2>2, Joined
  <2>4. Len(t5) = Len(t4)
    BY <2>3
  <2> QED
    BY <1>4, <2>1, <2>2, <2>3, <2>4, Zenon
<1>5. CASE req
  <2>1. certificate = << cm >> /\ t5 = t4 \o << cm >>
    BY <1>1, <1>5, Zenon
  <2>2. IsSeq(<< cm >>) /\ Elems(<< cm >>) = {cm} /\ Len(<< cm >>) = 1 /\ << cm >>[1] = cm
    BY Small, Zenon
  <2>3. /\ IsSeq(t5) /\ Len(t4) \in Nat /\ Len(t5) = Len(t4) + 1 /\ t5[Len(t4) + 1] = cm
    BY <2>1, JoinedOne, Zenon
  <2>4. \A m \in Elems(certificate) : m.type = "certificate" /\ m.cert = cert
    BY <1>3, <2>1, <2>2, Zenon
  <2>5. CASE cert = "none"
    <3>1. verify = << >> /\ t6 = t5
      BY <2>5, Zenon
    <3>2. IsSeq(<< >>) /\ Elems(<< >>) = {}
      BY Small, Zenon
    <3> QED
      BY <1>5, <2>1, <2>2, <2>3, <2>4, <2>5, <3>1, <3>2, Zenon
  <2>6. CASE cert # "none"
    <3>1. verify = << vm >>
      BY <1>2, <1>5, <2>6, Zenon
    <3>2. IsSeq(<< vm >>) /\ Elems(<< vm >>) = {vm} /\ << vm >>[1] = vm /\ << vm >> # << >>
      BY Small
    <3>3. t6 = transcriptMsg(vm, t5)
      BY <3>1, <3>2, Zenon
    <3>4. Extends(t5, t6) /\ Len(t6) = Len(t5) + 1
      <4>1. IsSeq(t5)
        BY <2>3, Zenon
      <4>2. Extends(t5, transcriptMsg(vm, t5)) /\ Len(transcriptMsg(vm, t5)) = Len(t5) + 1
        BY <4>1, Adds, Zenon
      <4> QED
        BY <3>3, <4>2, Zenon
    <3>5. IsSeq(t6) /\ Len(t6) = Len(t4) + 2 /\ t6[Len(t4) + 1] = cm
      <4>1. IsSeq(t6) /\ \A i \in 1..Len(t5) : t6[i] = t5[i]
        BY <3>4, Zenon DEF Extends
      <4>2. Len(t4) + 1 \in 1..Len(t5) /\ Len(t6) = Len(t4) + 2
        BY <2>3, <3>4
      <4> QED
        BY <2>3, <4>1, <4>2, Zenon
    <3> QED
      BY <1>3, <1>5, <2>1, <2>2, <2>4, <2>6, <3>1, <3>2, <3>5, Zenon
  <2> QED
    BY <2>5, <2>6, Zenon
<1> QED
  BY <1>4, <1>5, Zenon

\* The client x has confirmed with the application secret app.
Confirms(x, app) ==
    /\ DOMAIN x = ClientFields /\ x.pc = "done" /\ x.in = app
    /\ x.accepted = client.accepted /\ x.usingPSK = client.usingPSK /\ x.certReq = client.certReq
    /\ IsSeq(x.transcript) /\ IsSeq(x.transcriptInner)

\* A failure does not undo it.
LEMMA ConfirmsFailed ==
  ASSUME NEW x, NEW app, NEW why, Confirms(x, app)
  PROVE  Confirms(FailedClient(x, why), app)
<1>1. PICK g : g = Failed(x, why)
  BY Zenon
<1>2. Confirms(g, app)
  BY <1>1, Zenon DEF Confirms, ClientFields, Failed
<1>3. PICK f : f = [g EXCEPT !.ticket = "none"]
  BY Zenon
<1>4. Confirms(f, app)
  BY <1>2, <1>3, Zenon DEF Confirms, ClientFields
<1>5. FailedClient(x, why) = f
  BY <1>1, <1>3, Zenon DEF FailedClient
<1> QED
  BY <1>4, <1>5, Zenon

\* The flight of a client, and what it carries.
FlightSends(w, app) ==
    /\ IsSeq(w)
    /\ \A r \in Elems(w) :
         \/ r.msg.type \in {"certificateVerify", "alert"}
         \/ r.msg.type = "certificate" /\ r.msg.cert = config.client.cert
         \/ /\ r.msg.type = "finished"
            /\ \A x : Confirms(x, app) => Said(r.msg.mac.over, x, config)

\* ClientFlight.
LEMMA ClientFlightSent ==
  ASSUME NEW app, ClientBase(client), ClientFlight(client),
         app = Secret("application", client.in.psk, client.in.share,
                      transcriptMsg([type |-> "finished"], client.transcript))
  PROVE  \E x, w : Confirms(x, app) /\ FlightSends(w, app) /\ ClientSends(x, w)
<1>1. PICK t4 : t4 = transcriptMsg([type |-> "finished"], client.transcript)
  BY Zenon
<1>2. PICK cert : cert = config.client.cert
  BY Zenon
<1>3. PICK certificate : certificate = IF client.certReq THEN << [type |-> "certificate", cert |-> cert] >>
                                       ELSE << >>
  BY Zenon
<1>4. PICK t5 : t5 = t4 \o certificate
  BY Zenon
<1>5. PICK verify : verify = IF client.certReq /\ cert # "none"
                  THEN << [type |-> "certificateVerify", by |-> "client", over |-> t5] >> ELSE << >>
  BY Zenon
<1>6. PICK t6 : t6 = IF verify = << >> THEN t5 ELSE transcriptMsg(verify[1], t5)
  BY Zenon
<1>7. PICK fin : fin = [type |-> "finished", mac |-> finishedHash("client", client.out, t6)]
  BY Zenon
<1>8. PICK t7 : t7 = transcriptMsg([type |-> "finished"], t6)
  BY Zenon
<1>9. PICK d : d = [client EXCEPT !.pc = "done", !.result = "complete", !.transcript = t7, !.in = app,
                       !.out = app, !.resumption = Secret("resumption", client.in.psk, client.in.share, t7)]
  BY Zenon
<1>10. PICK w : w = Records(client.out, certificate \o verify \o << fin >>)
  BY Zenon
<1>11. PICK a : a = Alert(app, "ech_required")
  BY Zenon
<1>12. ClientSends(FailedClient(d, "ech_required"), w \o a) \/ ClientSends(d, w)
  BY <1>1, <1>2, <1>3, <1>4, <1>5, <1>6, <1>7, <1>8, <1>9, <1>10, <1>11, ZenonT(60)
     DEF ClientFlight
<1>13. IsSeq(client.transcript) /\ IsSeq(client.transcriptInner) /\ DOMAIN client = ClientFields
  BY Zenon DEF ClientBase
<1>14. IsSeq(t4)
  BY <1>1, <1>13, Adds DEF Extends
<1>15. /\ IsSeq(t6) /\ IsSeq(certificate) /\ IsSeq(verify)
       /\ \A m \in Elems(certificate) : m.type = "certificate" /\ m.cert = cert
       /\ \A m \in Elems(verify) : m.type = "certificateVerify"
       /\ IF ~client.certReq THEN Len(t6) = Len(t4)
          ELSE IF cert = "none" THEN Len(t6) = Len(t4) + 1
          ELSE Len(t6) = Len(t4) + 2 /\ t6[Len(t4) + 1].cert = cert
  <2>1. FlightMade(t4, t5, t6, client.certReq, cert, certificate, verify)
    BY <1>3, <1>4, <1>5, <1>6, Zenon DEF FlightMade
  <2>2. FlightShows(t4, t6, client.certReq, cert, certificate, verify)
    BY <1>14, <2>1, FlightSaid, Zenon
  <2> QED
    BY <2>2, Zenon DEF FlightShows
<1>16. IsSeq(t7)
  BY <1>8, <1>15, Adds DEF Extends
<1>17. Confirms(d, app)
  BY <1>9, <1>13, <1>16, Zenon DEF Confirms, ClientFields
<1>18. fin.type = "finished" /\ fin.mac.over = t6 /\ app.over = t4
  BY <1>1, <1>7 DEF finishedHash, Secret
<1>19. \A x : Confirms(x, app) => Said(fin.mac.over, x, config)
  BY <1>2, <1>15, <1>18, Zenon DEF Confirms, Said
<1>20. /\ IsSeq(w)
       /\ \A r \in Elems(w) : \E m \in Elems(certificate) \cup Elems(verify) \cup {fin} : r.msg = m
  <2>1. IsSeq(<< fin >>) /\ Elems(<< fin >>) = {fin}
    BY Small, Zenon
  <2>2. /\ IsSeq(certificate \o verify)
        /\ Elems(certificate \o verify) = Elems(certificate) \cup Elems(verify)
    BY <1>15, Joined, Zenon
  <2>3. /\ IsSeq(certificate \o verify \o << fin >>)
        /\ Elems(certificate \o verify \o << fin >>) = Elems(certificate) \cup Elems(verify) \cup {fin}
    BY <2>1, <2>2, Joined
  <2>4. /\ IsSeq(w)
        /\ Elems(w) = {[key |-> client.out, msg |-> m] : m \in Elems(certificate \o verify \o << fin >>)}
    BY <1>10, <2>3, Packed
  <2> QED
    BY <2>3, <2>4
<1>21. FlightSends(w, app)
  BY <1>2, <1>15, <1>18, <1>19, <1>20, Zenon DEF FlightSends
<1>22. FlightSends(w \o a, app)
  <2>1. PICK r : r = [key |-> app, msg |-> [type |-> "alert", alert |-> "ech_required"]]
    BY Zenon
  <2>2. a = << r >> /\ r.msg.type = "alert"
    BY <1>11, <2>1 DEF Alert
  <2>3. IsSeq(a) /\ Elems(a) = {r}
    BY <2>2, Small, Zenon
  <2>4. IsSeq(w \o a) /\ Elems(w \o a) = Elems(w) \cup {r}
    BY <1>20, <2>3, Joined
  <2> QED
    BY <1>21, <2>2, <2>4, Zenon DEF FlightSends
<1> QED
  BY <1>12, <1>17, <1>21, <1>22, ConfirmsFailed, Zenon

\* The Finished that the client verifies fixes the secret of the server.
LEMMA SameSecret ==
  ASSUME NEW r, NEW s, NEW in, NEW t, ToClientOK(r, s), r.msg.type = "finished",
         r.msg.mac = finishedHash("server", in, t)
  PROVE  /\ s.trafficSecret # Plain
         /\ s.trafficSecret = Secret("application", in.psk, in.share,
                                     transcriptMsg([type |-> "finished"], t))
<1>1. r.msg.mac.psk = in.psk /\ r.msg.mac.share = in.share /\ r.msg.mac.over = t
  BY DEF finishedHash
<1>2. transcriptMsg([type |-> "finished"], t) = Append(t, [type |-> "finished"])
  <2>1. [type |-> "finished"].type = "finished"
    BY Zenon
  <2> QED
    BY <2>1, AddsFinished, Zenon
<1>3. /\ s.trafficSecret # Plain
      /\ s.trafficSecret = Secret("application", r.msg.mac.psk, r.msg.mac.share,
                                  Append(r.msg.mac.over, [type |-> "finished"]))
  BY Zenon DEF ToClientOK
<1> QED
  BY <1>1, <1>2, <1>3, Zenon

\* A client that confirms keeps the invariant, and confirms what the server offered.
LEMMA ClientConfirmed ==
  ASSUME AgreementInv, client.pc # "done", NEW app, NEW x, NEW w, Confirms(x, app), FlightSends(w, app),
         ClientSends(x, w), ClientReads, app.stage = "application", server.trafficSecret # Plain,
         app = server.trafficSecret, client.accepted = server.ech.accepted,
         client.usingPSK = server.usingPSK
  PROVE  AgreementInv' /\ AgreementStep
<1>1. Confirms(client', app) /\ UNCHANGED <<config, server, keys, cut>>
  <2>1. Confirms(FailedClient(x, "broken"), app)
    BY ConfirmsFailed
  <2>2. client' = x \/ client' = FailedClient(x, "broken")
    BY ClientSent, Zenon
  <2>3. UNCHANGED <<config, server, keys, cut>>
    BY Zenon DEF ClientSends
  <2> QED
    BY <2>1, <2>2, <2>3, Zenon
<1>2. client.in.stage # "application" /\ ClientBase(client)
  BY ClientWaits, Zenon
<1>3. ClientOK(client', config)
  <2>1. client'.pc = "done" /\ client'.pc \notin Asking /\ client'.pc \notin Answered
    BY <1>1 DEF Confirms, Asking, Answered
  <2>2. ClientBase(client') /\ client'.in.stage = "application"
    BY <1>1, <1>2, Zenon DEF ClientBase, Confirms
  <2> QED
    BY <2>1, <2>2, Zenon DEF ClientOK
<1>4. Agree(client', server)
  BY <1>1, Zenon DEF Agree, Confirms
<1>5. ToServerInv(toServer', client', config)
  <2>1. IsSeq(toServer) /\ \A r \in Elems(toServer) : ToServerOK(r, client, config)
    BY Zenon DEF AgreementInv, ToServerInv
  <2>2. \A r \in Elems(toServer) : ToServerOK(r, client', config)
    BY <1>2, <2>1, Zenon DEF ToServerOK
  <2>3. client'.in.stage = "application"
    BY <1>1, Zenon DEF Confirms
  <2>4. ASSUME NEW r \in Elems(w) PROVE ToServerOK(r, client', config)
    <3>1. CASE r.msg.type \in {"certificateVerify", "alert"}
      BY <3>1 DEF ToServerOK
    <3>2. CASE r.msg.type = "certificate" /\ r.msg.cert = config.client.cert
      BY <3>2 DEF ToServerOK
    <3>3. CASE r.msg.type = "finished" /\ Said(r.msg.mac.over, client', config)
      BY <2>3, <3>3 DEF ToServerOK
    <3> QED
      BY <1>1, <3>1, <3>2, <3>3, Zenon DEF FlightSends
  <2>5. IsSeq(w)
    BY Zenon DEF FlightSends
  <2>6. IsSeq(toServer \o w) /\ Elems(toServer \o w) = Elems(toServer) \cup Elems(w)
    BY <2>1, <2>5, Joined, Zenon
  <2>7. ToServerInv(toServer, client', config) /\ ToServerInv(toServer \o w, client', config)
    BY <2>1, <2>2, <2>4, <2>6, Zenon DEF ToServerInv
  <2> QED
    BY <2>7, ClientSent, Zenon
<1>6. ToClientInv(toClient', server)
  <2>1. IsSeq(toClient) /\ \A r \in Elems(toClient) : ToClientOK(r, server)
    BY Zenon DEF AgreementInv, ToClientInv
  <2>2. toClient # << >> => IsSeq(Tail(toClient)) /\ Elems(Tail(toClient)) \subseteq Elems(toClient)
    BY <2>1, Taken, Zenon
  <2> QED
    BY <2>1, <2>2, Zenon DEF ToClientInv, ClientReads
<1>7. AgreementInv'
  <2>1. config' = config /\ server' = server /\ config \in Configurations /\ ServerOK(server, config)
    BY <1>1, Zenon DEF AgreementInv
  <2>2. /\ config' \in Configurations /\ ClientOK(client', config') /\ ServerOK(server', config')
        /\ ToServerInv(toServer', client', config') /\ ToClientInv(toClient', server')
        /\ Agree(client', server')
    BY <1>3, <1>4, <1>5, <1>6, <2>1, Zenon
  <2> QED
    BY <2>2, NextInv, Zenon
<1>8. AgreementStep
  <2>1. PICK cert : cert = IF client.certReq THEN config.client.cert ELSE "none"
    BY Zenon
  <2>2. cert \in Certificates
    <3>1. "none" \in Certificates
      BY DEF Certificates
    <3> QED
      BY <2>1, <3>1, ConfigFacts, Zenon
  <2>3. PICK p : p = Parameters(server.trafficSecret, server.ech.accepted, server.usingPSK)
    BY Zenon
  <2>4. ServerOffer(server) = << p >>
    BY <2>3, Zenon DEF ServerOffer
  <2>5. ClientAnswer(client', config') = << [parameters |-> p, cert |-> cert] >>
    BY <1>1, <2>1, <2>3, Zenon DEF ClientAnswer, Confirms
  <2>6. ServerOffer(server) # << >> /\ ServerOffer(server)[1] = p
    BY <2>4
  <2>7. End(client) = "running" /\ End(client') \in {"complete", "failed"}
    BY <1>1 DEF End, Confirms
  <2>8. ClientAnswer(client', config') = << [parameters |-> ServerOffer(server)[1], cert |-> cert] >>
    BY <2>5, <2>6, Zenon
  <2> QED
    BY <1>1, <2>2, <2>6, <2>7, <2>8, ClientConfirms, Zenon
<1> QED
  BY <1>7, <1>8

\* The server's Finished.
LEMMA ReadsFinished ==
  ASSUME AgreementInv, ClientReadFinished
  PROVE  AgreementInv' /\ AgreementStep
<1>1. PICK r : r = Head(toClient)
  BY Zenon
<1>2. /\ ClientTakes("finished", "finished")
      /\ \/ r.msg.mac = finishedHash("server", client.in, client.transcript) /\ ClientFlight(client)
         \/ ClientFails(client, "decrypt_error")
  BY <1>1, Zenon DEF ClientReadFinished
<1>3. client.pc = "finished" /\ r.msg.type = "finished" /\ ToClientOK(r, server) /\ ClientReads
  BY <1>1, <1>2, ClientTakesOne
<1>4. client.pc # "done" /\ client.pc \in Answered
  BY <1>3 DEF Answered
<1>5. ClientBase(client) /\ client.in.stage # "application"
  BY <1>4, ClientWaits, Zenon
<1>6. CASE ClientFails(client, "decrypt_error")
  <2>1. ClientMoves
    BY <1>5, <1>6, ClientGivesUp
  <2> QED
    BY <1>3, <1>4, <2>1, ClientHandled, Zenon
<1>7. CASE r.msg.mac = finishedHash("server", client.in, client.transcript) /\ ClientFlight(client)
  <2>1. PICK t4 : t4 = transcriptMsg([type |-> "finished"], client.transcript)
    BY Zenon
  <2>2. PICK app : app = Secret("application", client.in.psk, client.in.share, t4)
    BY Zenon
  <2>3. server.trafficSecret # Plain /\ server.trafficSecret = app
    <3>1. /\ server.trafficSecret # Plain
          /\ server.trafficSecret = Secret("application", client.in.psk, client.in.share,
                                           transcriptMsg([type |-> "finished"], client.transcript))
      BY <1>3, <1>7, SameSecret
    <3> QED
      BY <2>1, <2>2, <3>1, Zenon
  <2>4. app.stage = "application" /\ app.over = t4
    BY <2>2 DEF Secret
  <2>5. PICK x, w : Confirms(x, app) /\ FlightSends(w, app) /\ ClientSends(x, w)
    BY <1>5, <1>7, <2>1, <2>2, ClientFlightSent, Zenon
  <2>6. Tells(t4, client.accepted, client.usingPSK) \/ Headless(t4)
    <3>1. Tells(client.transcript, client.accepted, client.usingPSK) \/ Headless(client.transcript)
      BY <1>4, Zenon DEF AgreementInv, ClientOK
    <3>2. Extends(client.transcript, t4)
      BY <1>5, <2>1, Adds, Zenon DEF ClientBase
    <3> QED
      BY <3>1, <3>2, TellsOn, Zenon
  <2>7. Tells(t4, server.ech.accepted, server.usingPSK) /\ server.ech.accepted \in BOOLEAN
    BY <2>3, <2>4, Zenon DEF AgreementInv, ServerOK, ServerBase, Committed, EchOK
  <2>8. client.accepted \in BOOLEAN
    BY <1>5, Zenon DEF ClientBase
  <2>9. client.accepted = server.ech.accepted /\ client.usingPSK = server.usingPSK
    BY <2>6, <2>7, <2>8, TellsOnce
  <2> QED
    BY <1>3, <1>4, <2>3, <2>4, <2>5, <2>9, ClientConfirmed, Zenon
<1> QED
  BY <1>2, <1>6, <1>7, Zenon

\* Tickets and alerts after the handshake change nothing that was agreed.
LEMMA ReadsAfter ==
  ASSUME AgreementInv, ClientReadAfter
  PROVE  AgreementInv' /\ AgreementStep
<1>1. PICK r : r = Head(toClient)
  BY Zenon
<1>2. /\ client.result = "complete" /\ toClient # << >> /\ toClient' = Tail(toClient)
      /\ UNCHANGED <<config, server, toServer, keys, cut>>
  BY Zenon DEF ClientReadAfter
<1>3. ClientOK(client, config) /\ IsSeq(toClient) /\ \A e \in Elems(toClient) : ToClientOK(e, server)
  BY Zenon DEF AgreementInv, ToClientInv
<1>4. ToClientOK(r, server) /\ IsSeq(Tail(toClient)) /\ Elems(Tail(toClient)) \subseteq Elems(toClient)
  BY <1>1, <1>2, <1>3, Taken, Zenon
<1>5. client.in.stage = "application" /\ client.pc = "done" /\ DOMAIN client = ClientFields
  BY <1>2, <1>3 DEF ClientOK, ClientBase
<1>6. r.key = client.in => r.msg.type \in {"alert", "newSessionTicket"}
  BY <1>4, <1>5, Zenon DEF ToClientOK
<1>7. \/ client' = [client EXCEPT !.after = "bad_record_mac"]
      \/ client' = [client EXCEPT !.after = r.msg.alert]
      \/ client' = [client EXCEPT !.ticket = "new", !.label = r.msg.label]
      \/ client' = client
  BY <1>1, <1>6 DEF ClientReadAfter
<1>8. Confirms(client', client.in) /\ client'.result = client.result
  <2>1. Confirms(client, client.in)
    BY <1>3, <1>5, Zenon DEF Confirms, ClientOK, ClientBase
  <2>2. CASE client' = [client EXCEPT !.after = "bad_record_mac"]
    BY <1>5, <2>1, <2>2, Zenon DEF Confirms, ClientFields
  <2>3. CASE client' = [client EXCEPT !.after = r.msg.alert]
    BY <1>5, <2>1, <2>3, Zenon DEF Confirms, ClientFields
  <2>4. CASE client' = [client EXCEPT !.ticket = "new", !.label = r.msg.label]
    BY <1>5, <2>1, <2>4, Zenon DEF Confirms, ClientFields
  <2>5. CASE client' = client
    BY <2>1, <2>5, Zenon DEF Confirms
  <2> QED
    BY <1>7, <2>2, <2>3, <2>4, <2>5, Zenon
<1>9. ClientOK(client', config)
  <2>1. client'.pc = "done" /\ client'.pc \notin Asking /\ client'.pc \notin Answered
    BY <1>8 DEF Confirms, Asking, Answered
  <2>2. ClientBase(client') /\ client'.in.stage = "application"
    BY <1>3, <1>5, <1>8, Zenon DEF ClientOK, ClientBase, Confirms
  <2> QED
    BY <2>1, <2>2, Zenon DEF ClientOK
<1>10. Agree(client', server)
  BY <1>8, Zenon DEF AgreementInv, Agree, Confirms
<1>11. ToServerInv(toServer, client', config)
  BY <1>8, Zenon DEF AgreementInv, ToServerInv, ToServerOK, Said, Confirms
<1>12. AgreementInv'
  <2>1. /\ config' = config /\ server' = server /\ toServer' = toServer /\ config \in Configurations
        /\ ServerOK(server, config) /\ ToClientInv(toClient', server)
    BY <1>2, <1>3, <1>4, Zenon DEF AgreementInv, ToClientInv
  <2>2. /\ config' \in Configurations /\ ClientOK(client', config') /\ ServerOK(server', config')
        /\ ToServerInv(toServer', client', config') /\ ToClientInv(toClient', server')
        /\ Agree(client', server')
    BY <1>9, <1>10, <1>11, <2>1, Zenon
  <2> QED
    BY <2>2, NextInv, Zenon
<1>13. AgreementStep
  <2>1. ClientAnswer(client', config') = ClientAnswer(client, config)
    BY <1>2, <1>8, Zenon DEF ClientAnswer, Confirms
  <2>2. End(client') = End(client)
    BY <1>5, <1>8 DEF End, Confirms
  <2> QED
    BY <1>2, <2>1, <2>2, ClientStutters, Zenon
<1> QED
  BY <1>12, <1>13

-----------------------------------------------------------------------------
(* A step of a server that does not complete.                              *)

\* A server that has committed keeps to it.
Keeps(d, s) ==
    s.trafficSecret # Plain => /\ d.trafficSecret = s.trafficSecret
                               /\ d.ech.accepted = s.ech.accepted /\ d.usingPSK = s.usingPSK

\* The server s goes on as d, or fails.
ServerRuns(d, s, k) == ServerOK(d, k) /\ d.result # "complete" /\ Keeps(d, s)

\* A server that fails.
LEMMA ServerFailure ==
  ASSUME NEW d, NEW s, NEW k, NEW why, ServerBase(d, k), Keeps(d, s), why # "complete"
  PROVE  ServerRuns(Failed(d, why), s, k) /\ Failed(d, why).trafficSecret = d.trafficSecret
<1>1. PICK f : f = Failed(d, why)
  BY Zenon
<1>2. /\ DOMAIN f = ServerFields /\ f.pc = "done" /\ f.result = why /\ f.ech = d.ech
      /\ f.transcript = d.transcript /\ f.trafficSecret = d.trafficSecret /\ f.usingPSK = d.usingPSK
  BY <1>1, Zenon DEF ServerBase, ServerFields, Failed
<1>3. ServerBase(f, k)
  BY <1>2, Zenon DEF ServerBase, Committed
<1>4. f.pc \notin {"hello", "secondHello"} /\ f.pc \notin {"certificate", "verify", "finished"}
  BY <1>2
<1>5. ServerOK(f, k)
  BY <1>2, <1>3, <1>4, Zenon DEF ServerOK
<1>6. Keeps(f, s)
  BY <1>2, Zenon DEF Keeps
<1>7. ServerRuns(f, s, k)
  BY <1>2, <1>5, <1>6, Zenon DEF ServerRuns
<1> QED
  BY <1>1, <1>2, <1>7, Zenon

\* What is sent arrives behind what is under way, or is lost.
LEMMA ServerSent ==
  ASSUME NEW d, NEW w, ServerSends(d, w)
  PROVE  /\ server' = d \/ server' = Failed(d, "broken")
         /\ toClient' = toClient \/ toClient' = toClient \o w
         /\ UNCHANGED <<config, client, keys, cut>>
BY Zenon DEF ServerSends

\* What the client still has to read fits a server that keeps to its commitment.
LEMMA StillRead ==
  ASSUME NEW w, NEW s, NEW d, ToClientInv(w, s), Keeps(d, s)
  PROVE  ToClientInv(w, d)
BY Zenon DEF ToClientInv, ToClientOK, Keeps

\* The server takes a record or none.
LEMMA ServerLeft ==
  ASSUME NEW c, NEW k, ToServerInv(toServer, c, k), ServerTakesOne
  PROVE  ToServerInv(toServer', c, k)
<1>1. IsSeq(toServer) /\ \A r \in Elems(toServer) : ToServerOK(r, c, k)
  BY Zenon DEF ToServerInv
<1>2. toServer # << >> => IsSeq(Tail(toServer)) /\ Elems(Tail(toServer)) \subseteq Elems(toServer)
  BY <1>1, Taken, Zenon
<1> QED
  BY <1>1, <1>2, Zenon DEF ToServerInv, ServerTakesOne

\* A server that does not complete keeps the invariant, whatever it does.
LEMMA ServerRun ==
  ASSUME AgreementInv, server.pc # "done", NEW d, NEW w, ServerRuns(d, server, config),
         ToClientInv(w, d), ServerSends(d, w), ServerTakesOne
  PROVE  AgreementInv' /\ AgreementStep
<1>1. UNCHANGED <<config, client, keys, cut>>
  BY ServerSent, Zenon
<1>2. ServerRuns(server', server, config) /\ server'.trafficSecret = d.trafficSecret
  <2>1. ServerBase(d, config) /\ Keeps(d, server)
    BY Zenon DEF ServerRuns, ServerOK
  <2>2. /\ ServerRuns(Failed(d, "broken"), server, config)
        /\ Failed(d, "broken").trafficSecret = d.trafficSecret
    BY <2>1, ServerFailure
  <2>3. server' = d \/ server' = Failed(d, "broken")
    BY ServerSent, Zenon
  <2> QED
    BY <2>2, <2>3, Zenon
<1>3. ServerOK(server', config) /\ server'.result # "complete" /\ Keeps(server', server)
  BY <1>2, Zenon DEF ServerRuns
<1>4. ToClientInv(toClient', server')
  <2>1. ToClientInv(toClient, server')
    BY <1>3, StillRead, Zenon DEF AgreementInv
  <2>2. ToClientInv(w, server')
    BY <1>2, Zenon DEF ToClientInv, ToClientOK
  <2>3. IsSeq(toClient) /\ IsSeq(w)
    BY <2>1, <2>2, Zenon DEF ToClientInv
  <2>4. IsSeq(toClient \o w) /\ Elems(toClient \o w) = Elems(toClient) \cup Elems(w)
    BY <2>3, Joined, Zenon
  <2>5. ToClientInv(toClient \o w, server')
    BY <2>1, <2>2, <2>4, Zenon DEF ToClientInv
  <2>6. toClient' = toClient \/ toClient' = toClient \o w
    BY ServerSent, Zenon
  <2> QED
    BY <2>1, <2>5, <2>6, Zenon
<1>5. ToServerInv(toServer', client, config)
  BY ServerLeft, Zenon DEF AgreementInv
<1>6. Agree(client, server')
  BY <1>3, Zenon DEF AgreementInv, Agree, Keeps
<1>7. AgreementInv'
  <2>1. config' = config /\ client' = client /\ config \in Configurations /\ ClientOK(client, config)
    BY <1>1, Zenon DEF AgreementInv
  <2>2. /\ config' \in Configurations /\ ClientOK(client', config') /\ ServerOK(server', config')
        /\ ToServerInv(toServer', client', config') /\ ToClientInv(toClient', server')
        /\ Agree(client', server')
    BY <1>3, <1>4, <1>5, <1>6, <2>1, Zenon
  <2> QED
    BY <2>2, NextInv, Zenon
<1>8. AgreementStep
  <2>1. server.result = "none"
    BY Zenon DEF AgreementInv, ServerOK
  <2>2. ServerAccepted(server') = << >> /\ ServerAccepted(server) = << >>
    BY <1>3, <2>1 DEF ServerAccepted
  <2>3. End(server) = "running" /\ End(server') \in {"running", "failed"}
    BY <1>3 DEF End
  <2>4. CASE server.trafficSecret # Plain
    <3>1. ServerOffer(server') = ServerOffer(server)
      BY <1>3, <2>4, Zenon DEF Keeps, ServerOffer
    <3> QED
      BY <1>1, <2>2, <2>3, <3>1, ServerStutters
  <2>5. CASE server.trafficSecret = Plain /\ server'.trafficSecret = Plain
    <3>1. ServerOffer(server') = ServerOffer(server)
      BY <2>5, Zenon DEF ServerOffer
    <3> QED
      BY <1>1, <2>2, <2>3, <3>1, ServerStutters
  <2>6. CASE server.trafficSecret = Plain /\ server'.trafficSecret # Plain
    <3>1. PICK p : p = Parameters(server'.trafficSecret, server'.ech.accepted, server'.usingPSK)
      BY Zenon
    <3>2. ServerOffer(server) = << >> /\ ServerOffer(server') = << p >>
      BY <2>6, <3>1, Zenon DEF ServerOffer
    <3>3. Len(ServerOffer(server')) = 1
      BY <3>2, Small, Zenon
    <3> QED
      BY <1>1, <2>2, <2>3, <3>2, <3>3, ServerStutters, Zenon
  <2> QED
    BY <2>4, <2>5, <2>6, Zenon
<1> QED
  BY <1>7, <1>8

-----------------------------------------------------------------------------
(* The server's handlers.                                                  *)

\* The handler leaves a server that runs, or that failed.
ServerMoves ==
    \E d, w : ServerRuns(d, server, config) /\ ToClientInv(w, d) /\ ServerSends(d, w)

\* A handler that ends so keeps the invariant.
LEMMA ServerHandled ==
  ASSUME AgreementInv, server.pc # "done", ServerMoves, ServerTakesOne
  PROVE  AgreementInv' /\ AgreementStep
<1>1. PICK d, w : ServerRuns(d, server, config) /\ ToClientInv(w, d) /\ ServerSends(d, w)
  BY Zenon DEF ServerMoves
<1> QED
  BY <1>1, ServerRun, Zenon

\* A handler that sends nothing.
LEMMA ServerQuiet ==
  ASSUME NEW d, ServerRuns(d, server, config), ServerSends(d, << >>)
  PROVE  ServerMoves
<1>1. ToClientInv(<< >>, d)
  BY Small, Zenon DEF ToClientInv
<1> QED
  BY <1>1, Zenon DEF ServerMoves

\* A handler that fails.
LEMMA ServerGivesUp ==
  ASSUME NEW d, NEW alert, ServerBase(d, config), Keeps(d, server), alert # "complete",
         ServerFails(d, alert)
  PROVE  ServerMoves
<1>1. PICK r : r = [key |-> d.out, msg |-> [type |-> "alert", alert |-> alert]]
  BY Zenon
<1>2. Alert(d.out, alert) = << r >>
  BY <1>1, Zenon DEF Alert
<1>3. r.msg.type = "alert"
  BY <1>1
<1>4. IsSeq(<< r >>) /\ Elems(<< r >>) = {r}
  BY Small, Zenon
<1>5. PICK f : f = Failed(d, alert)
  BY Zenon
<1>6. ToClientOK(r, f)
  BY <1>3 DEF ToClientOK
<1>7. ToClientInv(Alert(d.out, alert), f)
  BY <1>2, <1>4, <1>6, Zenon DEF ToClientInv
<1>8. ServerRuns(f, server, config)
  BY <1>5, ServerFailure, Zenon
<1> QED
  BY <1>5, <1>7, <1>8, Zenon DEF ServerMoves, ServerFails

\* sendSessionTickets.
LEMMA TicketsSent ==
  ASSUME NEW s, NEW u, DOMAIN s = ServerFields, IsSeq(s.transcript), u = sendSessionTickets(s)
  PROVE  /\ DOMAIN u.state = ServerFields /\ IsSeq(u.state.transcript)
         /\ u.state.clientFinished.over = s.transcript
         /\ u.state.ech = s.ech /\ u.state.usingPSK = s.usingPSK /\ u.state.peer = s.peer
         /\ u.state.trafficSecret = s.trafficSecret /\ u.state.result = s.result
         /\ IsSeq(u.records) /\ \A r \in Elems(u.records) : r.msg.type = "newSessionTicket"
<1>1. PICK mac : mac = finishedHash("client", s.in, s.transcript)
  BY Zenon
<1>2. PICK t : t = transcriptMsg([type |-> "finished"], s.transcript)
  BY Zenon
<1>3. PICK m : m = [type |-> "newSessionTicket", label |-> Secret("resumption", s.in.psk, s.in.share, t)]
  BY Zenon
<1>4. PICK d : d = [s EXCEPT !.clientFinished = mac, !.transcript = t]
  BY Zenon
<1>5. PICK w : w = IF config.server.tickets /\ ~config.server.echAfter /\ s.hello.pskModes
                   THEN Records(s.out, << m >>) ELSE << >>
  BY Zenon
<1>6. u = [state |-> d, records |-> w]
  BY <1>1, <1>2, <1>3, <1>4, <1>5, Zenon DEF sendSessionTickets
<1>7. u.state = d /\ u.records = w
  BY <1>6
<1>8. /\ DOMAIN d = ServerFields /\ d.transcript = t /\ d.clientFinished = mac
      /\ d.ech = s.ech /\ d.usingPSK = s.usingPSK /\ d.peer = s.peer
      /\ d.trafficSecret = s.trafficSecret /\ d.result = s.result
  BY <1>4, Zenon DEF ServerFields
<1>9. IsSeq(t)
  BY <1>2, Adds, Zenon DEF Extends
<1>10. mac.over = s.transcript /\ m.type = "newSessionTicket"
  BY <1>1, <1>3 DEF finishedHash
<1>11. IsSeq(w) /\ \A r \in Elems(w) : r.msg.type = "newSessionTicket"
  <2>1. IsSeq(<< m >>) /\ Elems(<< m >>) = {m} /\ IsSeq(<< >>) /\ Elems(<< >>) = {}
    BY Small, Zenon
  <2>2. IsSeq(Records(s.out, << m >>)) /\ Elems(Records(s.out, << m >>)) = {[key |-> s.out, msg |-> m]}
    BY <2>1, Packed
  <2> QED
    BY <1>5, <1>10, <2>1, <2>2
<1> QED
  BY <1>7, <1>8, <1>9, <1>10, <1>11, Zenon

\* The server s has read, or needs, no more than the client's Finished.
Concluding(s, k) ==
    /\ ServerBase(s, k) /\ s.trafficSecret # Plain /\ s.result = "none"
    /\ Sent(s.transcript, s.trafficSecret.over, s.peer)
Concluded(s, k, u, d) ==
    /\ ServerOK(d, k) /\ d.result # "complete" /\ d.trafficSecret = s.trafficSecret
    /\ d.ech = s.ech /\ d.usingPSK = s.usingPSK
    /\ ToClientInv(u.records, d)

\* The server waits for the client's Finished.
LEMMA Concludes ==
  ASSUME NEW s, NEW k, Concluding(s, k)
  PROVE  Concluded(s, k, sendSessionTickets(s), [sendSessionTickets(s).state EXCEPT !.pc = "finished"])
<1> USE DEF Concluding
<1>a. PICK u : u = sendSessionTickets(s)
  BY Zenon
<1>b. PICK d : d = [u.state EXCEPT !.pc = "finished"]
  BY Zenon
<1>1. DOMAIN s = ServerFields /\ IsSeq(s.transcript) /\ EchOK(s.ech, k) /\ Committed(s)
  BY Zenon DEF ServerBase
<1>2. /\ DOMAIN u.state = ServerFields /\ IsSeq(u.state.transcript)
      /\ u.state.clientFinished.over = s.transcript
      /\ u.state.ech = s.ech /\ u.state.usingPSK = s.usingPSK /\ u.state.peer = s.peer
      /\ u.state.trafficSecret = s.trafficSecret /\ u.state.result = s.result
      /\ IsSeq(u.records) /\ \A r \in Elems(u.records) : r.msg.type = "newSessionTicket"
  BY <1>1, <1>a, TicketsSent
<1>3. PICK v : v = u.state
  BY Zenon
<1>4. /\ DOMAIN d = ServerFields /\ IsSeq(d.transcript) /\ d.pc = "finished"
      /\ d.clientFinished.over = s.transcript /\ d.ech = s.ech /\ d.usingPSK = s.usingPSK
      /\ d.peer = s.peer /\ d.trafficSecret = s.trafficSecret /\ d.result = s.result
  <2>1. d = [v EXCEPT !.pc = "finished"]
    BY <1>3, <1>b, Zenon
  <2> QED
    BY <1>2, <1>3, <2>1, Zenon DEF ServerFields
<1>5. ServerBase(d, k)
  BY <1>1, <1>4, Zenon DEF ServerBase, Committed
<1>6. /\ d.pc \notin {"hello", "secondHello"} /\ d.pc # "certificate" /\ d.pc # "verify"
      /\ d.result # "complete" /\ d.result = "none"
  BY <1>4
<1>7. ServerReads(d)
  BY <1>4, <1>6, Zenon DEF ServerReads
<1>8. ServerOK(d, k)
  BY <1>4, <1>5, <1>6, <1>7, Zenon DEF ServerOK
<1>9. \A r : r.msg.type = "newSessionTicket" => ToClientOK(r, d)
  BY DEF ToClientOK
<1> QED
  <2>1. Concluded(s, k, u, d)
    BY <1>2, <1>4, <1>6, <1>8, <1>9, Zenon DEF ToClientInv, Concluded
  <2> QED
    BY <1>a, <1>b, <2>1, Zenon

\* A server that has read a hello and not answered it.
Heard(s) ==
    /\ DOMAIN s = ServerFields /\ EchOK(s.ech, config) /\ IsSeq(s.transcript) /\ IsHello(s.hello)
    /\ s.trafficSecret = Plain /\ s.peer = "none" /\ s.result = "none"
    /\ Verdict(s.hello, s.ech)

\* HelloRetryRequest.
LEMMA AsksAgain ==
  ASSUME NEW s, Heard(s), server.trafficSecret = Plain, HelloRetryRequest(s)
  PROVE  ServerMoves
<1>1. PICK t0 : t0 = transcriptMsg(s.hello, s.transcript)
  BY Zenon
<1>2. PICK request : request = serverHelloMsg(TRUE, s.group, FALSE)
  BY Zenon
<1>3. PICK t : t = transcriptMsg(request, messageHash(t0))
  BY Zenon
<1>4. PICK confirm : confirm = IF echIsInner(s.hello) THEN Confirmation(s.hello.random, t) ELSE Unconfirmed
  BY Zenon
<1>5. PICK m : m = [request EXCEPT !.confirm = confirm]
  BY Zenon
<1>6. PICK d : d = [s EXCEPT !.pc = "secondHello", !.transcript = t]
  BY Zenon
<1>7. ServerSends(d, Records(Plain, << m >>))
  BY <1>1, <1>2, <1>3, <1>4, <1>5, <1>6, Zenon DEF HelloRetryRequest
<1>8. IsSeq(t) /\ OneHash(t)
  BY <1>3, HashSaid, Zenon
<1>9. /\ DOMAIN d = ServerFields /\ d.pc = "secondHello" /\ d.transcript = t /\ d.ech = s.ech
      /\ d.hello = s.hello /\ d.trafficSecret = s.trafficSecret /\ d.peer = s.peer /\ d.result = s.result
  BY <1>6, Zenon DEF Heard, ServerFields
<1>10. ServerBase(d, config)
  BY <1>8, <1>9, Zenon DEF Heard, ServerBase
<1>11. /\ d.pc # "hello" /\ d.pc \notin {"certificate", "verify", "finished"} /\ d.result # "complete"
       /\ d.result = "none"
  BY <1>9 DEF Heard
<1>12. Listens(d)
  BY <1>8, <1>9, <1>11, Zenon DEF Heard, Listens, Verdict
<1>13. ServerRuns(d, server, config)
  BY <1>10, <1>11, <1>12, Zenon DEF ServerRuns, ServerOK, Keeps
<1>14. DOMAIN m = {"type", "retry", "group", "psk", "confirm"} /\ m.type = "serverHello"
  BY <1>2, <1>5 DEF serverHelloMsg
<1>15. ToClientInv(Records(Plain, << m >>), d)
  <2>1. IsSeq(<< m >>) /\ Elems(<< m >>) = {m}
    BY Small, Zenon
  <2>2. PICK r : r = [key |-> Plain, msg |-> m]
    BY Zenon
  <2>3. IsSeq(Records(Plain, << m >>)) /\ Elems(Records(Plain, << m >>)) = {r}
    BY <2>1, <2>2, Packed
  <2>4. r.msg = m /\ r.key.stage = "plain"
    BY <2>2 DEF Plain
  <2>5. ToClientOK(r, d)
    BY <1>14, <2>4 DEF ToClientOK
  <2> QED
    BY <2>3, <2>5, Zenon DEF ToClientInv
<1> QED
  BY <1>7, <1>13, <1>15, Zenon DEF ServerMoves

\* Going on with a list of messages.
LEMMA AddsMany ==
  ASSUME NEW t, NEW b, IsSeq(t), IsSeq(b)
  PROVE  Extends(t, t \o b) /\ IsSeq(t \o b)
<1>1. PICK u : u = t \o b
  BY Zenon
<1>2. /\ IsSeq(u) /\ Len(t) \in Nat /\ Len(b) \in Nat /\ Len(u) = Len(t) + Len(b)
      /\ \A i \in 1..Len(t) : u[i] = t[i]
  BY <1>1, Joined
<1>3. Len(u) \in Nat /\ Len(t) <= Len(u)
  BY <1>2
<1> QED
  BY <1>1, <1>2, <1>3, Zenon DEF Extends

\* The messages between the ServerHello and the Finished.
Middle == {"encryptedExtensions", "certificateRequest", "certificate", "certificateVerify"}
IsMiddle(b) == IsSeq(b) /\ \A m \in Elems(b) : m.type \in Middle

\* None, one, and one list after another.
LEMMA Middles ==
  /\ IsMiddle(<< >>)
  /\ \A m : m.type \in Middle => IsMiddle(<< m >>)
  /\ \A a, b : IsMiddle(a) /\ IsMiddle(b) => IsMiddle(a \o b)
<1>1. IsMiddle(<< >>)
  BY Small, Zenon DEF IsMiddle
<1>2. ASSUME NEW m, m.type \in Middle PROVE IsMiddle(<< m >>)
  <2>1. IsSeq(<< m >>) /\ Elems(<< m >>) = {m}
    BY Small, Zenon
  <2> QED
    BY <1>2, <2>1, Zenon DEF IsMiddle
<1>3. ASSUME NEW a, NEW b, IsMiddle(a), IsMiddle(b) PROVE IsMiddle(a \o b)
  <2>1. IsSeq(a \o b) /\ Elems(a \o b) = Elems(a) \cup Elems(b)
    BY <1>3, Joined, Zenon DEF IsMiddle
  <2> QED
    BY <1>3, <2>1, Zenon DEF IsMiddle
<1> QED
  BY <1>1, <1>2, <1>3, Zenon

\* The ServerHello, and the transcript t1 with it, tell the verdict and the session.
Answers(s, hello, t1) ==
    /\ IsAnswer(hello) /\ IsSeq(t1)
    /\ Tells(t1, s.ech.accepted, s.usingPSK)

\* How sendServerParameters makes them.
HelloMade(s, plainHello, t0, hello, t1) ==
    /\ plainHello = serverHelloMsg(FALSE, s.group, s.usingPSK)
    /\ t0 = transcriptMsg(s.hello, s.transcript)
    /\ hello = IF echIsInner(s.hello)
               THEN [plainHello EXCEPT !.confirm =
                       Confirmation(s.hello.random, transcriptMsg(plainHello, t0))]
               ELSE plainHello
    /\ t1 = transcriptMsg(hello, t0)

\* A ServerHello made so tells both.
LEMMA AnswersHello ==
  ASSUME NEW s, Heard(s), s.transcript = << >> \/ OneHash(s.transcript),
         NEW plainHello, NEW t0, NEW hello, NEW t1, HelloMade(s, plainHello, t0, hello, t1)
  PROVE  Answers(s, hello, t1)
<1>1. IsAnswer(plainHello) /\ plainHello.psk = s.usingPSK
  <2>1. plainHello = serverHelloMsg(FALSE, s.group, s.usingPSK)
    BY Zenon DEF HelloMade
  <2> QED
    BY <2>1 DEF IsAnswer, serverHelloMsg
<1>2. IsAnswer(hello) /\ hello.psk = s.usingPSK
  <2>1. PICK c : c = Confirmation(s.hello.random, transcriptMsg(plainHello, t0))
    BY Zenon
  <2>2. hello = plainHello \/ hello = [plainHello EXCEPT !.confirm = c]
    BY <2>1, Zenon DEF HelloMade
  <2> QED
    BY <1>1, <2>2, Zenon DEF IsAnswer
<1>3. IsSeq(s.transcript) /\ IsHello(s.hello) /\ (s.hello.ech = InnerECH <=> s.ech.accepted = TRUE)
  BY Zenon DEF Heard, Verdict
<1>4. t0 = transcriptMsg(s.hello, s.transcript) /\ t1 = transcriptMsg(hello, t0)
  BY Zenon DEF HelloMade
<1>5. /\ IsSeq(t0)
      /\ s.transcript = << >> => OneHello(t0) /\ t0[1] = s.hello
      /\ OneHash(s.transcript) => TwoHellos(t0) /\ t0[3] = s.hello
  BY <1>3, <1>4, HelloSaid
<1>6. Tells(t1, s.ech.accepted, hello.psk)
  <2>1. CASE s.transcript = << >>
    <3>1. OneHello(t0) /\ (t0[1].ech = InnerECH <=> s.ech.accepted = TRUE)
      BY <1>3, <1>5, <2>1, Zenon
    <3> QED
      BY <1>2, <1>4, <1>5, <3>1, TellsFirst, Zenon
  <2>2. CASE OneHash(s.transcript)
    <3>1. TwoHellos(t0) /\ (t0[3].ech = InnerECH <=> s.ech.accepted = TRUE)
      BY <1>3, <1>5, <2>2, Zenon
    <3> QED
      BY <1>2, <1>4, <1>5, <3>1, TellsSecond, Zenon
  <2> QED
    BY <2>1, <2>2, Zenon
<1>7. IsSeq(t1)
  BY <1>4, <1>5, Adds DEF Extends
<1> QED
  BY <1>2, <1>6, <1>7, Zenon DEF Answers

\* The records of the flight up to the Finished, for a server that commits to app.
LEMMA FlightCommits ==
  ASSUME NEW hello, NEW secret, NEW b, NEW fin, NEW app, NEW d, IsAnswer(hello), secret.stage = "handshake",
         IsMiddle(b), fin.type = "finished", d.trafficSecret = app, app # Plain,
         app = Secret("application", fin.mac.psk, fin.mac.share, Append(fin.mac.over, [type |-> "finished"]))
  PROVE  ToClientInv(Records(Plain, << hello >>) \o Records(secret, b \o << fin >>), d)
<1>1. PICK r1 : r1 = [key |-> Plain, msg |-> hello]
  BY Zenon
<1>2. r1.msg = hello /\ r1.key.stage = "plain"
  BY <1>1 DEF Plain
<1>3. ToClientOK(r1, d)
  BY <1>2 DEF ToClientOK, IsAnswer
<1>4. IsSeq(Records(Plain, << hello >>)) /\ Elems(Records(Plain, << hello >>)) = {r1}
  <2>1. IsSeq(<< hello >>) /\ Elems(<< hello >>) = {hello}
    BY Small, Zenon
  <2> QED
    BY <1>1, <2>1, Packed
<1>5. /\ IsSeq(b \o << fin >>) /\ Elems(b \o << fin >>) = Elems(b) \cup {fin}
  <2>1. IsSeq(<< fin >>) /\ Elems(<< fin >>) = {fin} /\ IsSeq(b)
    BY Small, Zenon DEF IsMiddle
  <2> QED
    BY <2>1, Joined
<1>6. /\ IsSeq(Records(secret, b \o << fin >>))
      /\ Elems(Records(secret, b \o << fin >>)) = {[key |-> secret, msg |-> m] : m \in Elems(b \o << fin >>)}
  BY <1>5, Packed
<1>7. ASSUME NEW r \in Elems(Records(secret, b \o << fin >>)) PROVE ToClientOK(r, d)
  <2>1. PICK m \in Elems(b) \cup {fin} : r = [key |-> secret, msg |-> m]
    BY <1>5, <1>6, <1>7, Zenon
  <2>2. r.key = secret /\ r.msg = m
    BY <2>1
  <2>3. CASE m \in Elems(b)
    <3>1. m.type \in Middle
      BY <2>3, Zenon DEF IsMiddle
    <3>2. r.msg.type # "serverHello" /\ r.msg.type # "finished" /\ r.key.stage # "application"
      BY <2>2, <3>1 DEF Middle
    <3> QED
      BY <3>2, Zenon DEF ToClientOK
  <2>4. CASE m = fin
    <3>1. r.msg.type # "serverHello" /\ r.key.stage # "application" /\ r.msg = fin
      BY <2>2, <2>4
    <3> QED
      BY <3>1, Zenon DEF ToClientOK
  <2> QED
    BY <2>1, <2>3, <2>4, Zenon
<1>8. PICK w1 : w1 = Records(Plain, << hello >>)
  BY Zenon
<1>9. PICK w2 : w2 = Records(secret, b \o << fin >>)
  BY Zenon
<1>10. IsSeq(w1 \o w2) /\ Elems(w1 \o w2) = Elems(w1) \cup Elems(w2)
  BY <1>4, <1>6, <1>8, <1>9, Joined, Zenon
<1>11. ToClientInv(w1 \o w2, d)
  BY <1>3, <1>4, <1>7, <1>8, <1>9, <1>10, Zenon DEF ToClientInv
<1> QED
  BY <1>8, <1>9, <1>11, Zenon

\* What the server says after its ServerHello: before and verify, and the transcripts.
MiddleMade(s, t1, before, t2, verify, t3) ==
    LET parameters == << [type |-> "encryptedExtensions",
                          retryConfigs |-> ~s.ech.accepted /\ s.ech.retryConfigs] >>
        request == IF requestClientCert(s) THEN << [type |-> "certificateRequest"] >> ELSE << >>
        certificate == << [type |-> "certificate", names |-> config.server.names] >>
    IN /\ before = IF s.usingPSK THEN parameters ELSE parameters \o request \o certificate
       /\ t2 = t1 \o before
       /\ verify = IF s.usingPSK THEN << >>
                   ELSE << [type |-> "certificateVerify", by |-> "server", over |-> t2] >>
       /\ t3 = IF s.usingPSK THEN t2 ELSE transcriptMsg(verify[1], t2)

\* It goes on from the ServerHello.
LEMMA SaysMiddle ==
  ASSUME NEW s, NEW t1, NEW before, NEW t2, NEW verify, NEW t3, IsSeq(t1),
         MiddleMade(s, t1, before, t2, verify, t3)
  PROVE  IsMiddle(before \o verify) /\ Extends(t1, t3)
<1>1. PICK pm : pm = [type |-> "encryptedExtensions", retryConfigs |-> ~s.ech.accepted /\ s.ech.retryConfigs]
  BY Zenon
<1>2. PICK qm : qm = [type |-> "certificateRequest"]
  BY Zenon
<1>3. PICK cm : cm = [type |-> "certificate", names |-> config.server.names]
  BY Zenon
<1>4. PICK vm : vm = [type |-> "certificateVerify", by |-> "server", over |-> t2]
  BY Zenon
<1>5. PICK q : q = IF requestClientCert(s) THEN << qm >> ELSE << >>
  BY Zenon
<1>6. pm.type \in Middle /\ qm.type \in Middle /\ cm.type \in Middle /\ vm.type \in Middle
  BY <1>1, <1>2, <1>3, <1>4 DEF Middle
<1>7. /\ before = << pm >> \/ before = << pm >> \o q \o << cm >>
      /\ t2 = t1 \o before
      /\ verify = IF s.usingPSK THEN << >> ELSE << vm >>
      /\ t3 = IF s.usingPSK THEN t2 ELSE transcriptMsg(verify[1], t2)
  BY <1>1, <1>2, <1>3, <1>4, <1>5, Zenon DEF MiddleMade
<1>8. IsMiddle(<< pm >>) /\ IsMiddle(q) /\ IsMiddle(<< cm >>) /\ IsMiddle(verify)
  BY <1>5, <1>6, <1>7, Middles, Zenon
<1>9. IsMiddle(before)
  <2>1. IsMiddle(<< pm >> \o q)
    BY <1>8, Middles, Zenon
  <2>2. IsMiddle(<< pm >> \o q \o << cm >>)
    BY <1>8, <2>1, Middles, Zenon
  <2> QED
    BY <1>7, <1>8, <2>2, Zenon
<1>10. IsMiddle(before \o verify)
  BY <1>8, <1>9, Middles, Zenon
<1>11. Extends(t1, t2) /\ IsSeq(t2)
  BY <1>7, <1>9, AddsMany, Zenon DEF IsMiddle
<1>12. Extends(t1, t3)
  <2>1. CASE t3 = t2
    BY <1>11, <2>1, Zenon
  <2>2. CASE t3 = transcriptMsg(verify[1], t2)
    <3>1. Extends(t2, t3)
      BY <1>11, <2>2, Adds, Zenon
    <3> QED
      BY <1>11, <3>1, ExtendsFurther, Zenon
  <2> QED
    BY <1>7, <2>1, <2>2, Zenon
<1> QED
  BY <1>10, <1>12, Zenon

\* The secrets, the Finished and the transcript t4 the server commits to.
SecretsMade(s, t1, t3, share, secret, fin, t4, app) ==
    /\ secret = Secret("handshake", IF s.usingPSK THEN s.hello.psk ELSE "none", share, t1)
    /\ fin = [type |-> "finished", mac |-> finishedHash("server", secret, t3)]
    /\ t4 = transcriptMsg(fin, t3)
    /\ app = Secret("application", secret.psk, share, t4)

\* The Finished fixes the secret.
LEMMA FixesSecret ==
  ASSUME NEW s, NEW t1, NEW t3, NEW share, NEW secret, NEW fin, NEW t4, NEW app,
         SecretsMade(s, t1, t3, share, secret, fin, t4, app), IsSeq(t3)
  PROVE  /\ secret.stage = "handshake" /\ fin.type = "finished" /\ app.stage = "application" /\ app # Plain
         /\ app.over = t4 /\ Extends(t3, t4)
         /\ app = Secret("application", fin.mac.psk, fin.mac.share,
                         Append(fin.mac.over, [type |-> "finished"]))
<1>1. secret.stage = "handshake" /\ secret.share = share
  BY DEF SecretsMade, Secret
<1>2. fin = [type |-> "finished", mac |-> finishedHash("server", secret, t3)] /\ t4 = transcriptMsg(fin, t3)
  BY Zenon DEF SecretsMade
<1>3. app = Secret("application", secret.psk, share, t4)
  BY Zenon DEF SecretsMade
<1>4. app.stage = "application" /\ app.over = t4
  BY <1>3 DEF Secret
<1>5. app # Plain
  <2>1. Plain.stage = "plain"
    BY DEF Plain
  <2> QED
    BY <1>4, <2>1
<1>6. fin.type = "finished" /\ fin.mac = finishedHash("server", secret, t3)
  BY <1>2
<1>7. fin.mac.psk = secret.psk /\ fin.mac.share = secret.share /\ fin.mac.over = t3
  BY <1>6 DEF finishedHash
<1>8. t4 = Append(t3, [type |-> "finished"])
  BY <1>2, <1>6, AddsFinished, ZenonT(30)
<1>9. Extends(t3, t4)
  BY <1>2, Adds, Zenon
<1> QED
  BY <1>1, <1>3, <1>4, <1>5, <1>6, <1>7, <1>8, <1>9, Zenon

\* The flight in four parts: the Finished and what follows it, the CertificateVerify, the
\* messages before it, the ServerHello.
FlightFinished(s, hello, share, secret, b, t3) ==
    LET fin == [type |-> "finished", mac |-> finishedHash("server", secret, t3)]
        t4 == transcriptMsg(fin, t3)
        app == Secret("application", secret.psk, share, t4)
        sent == [s EXCEPT !.transcript = t4, !.in = secret, !.out = app, !.trafficSecret = app]
        tickets == sendSessionTickets(sent)
        records == Records(Plain, << hello >>) \o Records(secret, b \o << fin >>)
    IN IF requestClientCert(s)
       THEN ServerSends([sent EXCEPT !.pc = "certificate"], records)
       ELSE ServerSends([tickets.state EXCEPT !.pc = "finished"], records \o tickets.records)

FlightVerify(s, hello, share, secret, before, t2) ==
    LET verify == IF s.usingPSK THEN << >>
                  ELSE << [type |-> "certificateVerify", by |-> "server", over |-> t2] >>
        t3 == IF s.usingPSK THEN t2 ELSE transcriptMsg(verify[1], t2)
    IN FlightFinished(s, hello, share, secret, before \o verify, t3)

FlightMiddle(s, hello, share, secret, t1) ==
    LET parameters == << [type |-> "encryptedExtensions",
                          retryConfigs |-> ~s.ech.accepted /\ s.ech.retryConfigs] >>
        request == IF requestClientCert(s) THEN << [type |-> "certificateRequest"] >> ELSE << >>
        certificate == << [type |-> "certificate", names |-> config.server.names] >>
        before == IF s.usingPSK THEN parameters ELSE parameters \o request \o certificate
    IN FlightVerify(s, hello, share, secret, before, t1 \o before)

FlightHello(s) ==
    LET plainHello == serverHelloMsg(FALSE, s.group, s.usingPSK)
        t0 == transcriptMsg(s.hello, s.transcript)
        hello == IF echIsInner(s.hello)
                 THEN [plainHello EXCEPT !.confirm =
                         Confirmation(s.hello.random, transcriptMsg(plainHello, t0))]
                 ELSE plainHello
        t1 == transcriptMsg(hello, t0)
        share == s.hello.keyShares[CHOOSE i \in SharesFor(s.hello, s.group) : TRUE]
        secret == Secret("handshake", IF s.usingPSK THEN s.hello.psk ELSE "none", share, t1)
    IN FlightMiddle(s, hello, share, secret, t1)

\* They are the flight.
LEMMA FlightInParts ==
  ASSUME NEW s, ServerFlight(s)
  PROVE  FlightHello(s)
BY Zenon DEF ServerFlight, FlightHello, FlightMiddle, FlightVerify, FlightFinished

\* The flight: the server commits, and waits for the client's Certificate or Finished.
LEMMA Answers13 ==
  ASSUME NEW s, Heard(s), s.transcript = << >> \/ OneHash(s.transcript), server.trafficSecret = Plain,
         ServerFlight(s)
  PROVE  ServerMoves
<1>1. PICK plainHello : plainHello = serverHelloMsg(FALSE, s.group, s.usingPSK)
  BY Zenon
<1>2. PICK t0 : t0 = transcriptMsg(s.hello, s.transcript)
  BY Zenon
<1>3. PICK hello : hello = IF echIsInner(s.hello)
                           THEN [plainHello EXCEPT !.confirm =
                                   Confirmation(s.hello.random, transcriptMsg(plainHello, t0))]
                           ELSE plainHello
  BY Zenon
<1>4. PICK t1 : t1 = transcriptMsg(hello, t0)
  BY Zenon
<1>5. PICK share : share = s.hello.keyShares[CHOOSE i \in SharesFor(s.hello, s.group) : TRUE]
  BY Zenon
<1>6. PICK secret : secret = Secret("handshake", IF s.usingPSK THEN s.hello.psk ELSE "none", share, t1)
  BY Zenon
<1>7. PICK before :
        before = IF s.usingPSK
                 THEN << [type |-> "encryptedExtensions",
                          retryConfigs |-> ~s.ech.accepted /\ s.ech.retryConfigs] >>
                 ELSE << [type |-> "encryptedExtensions",
                          retryConfigs |-> ~s.ech.accepted /\ s.ech.retryConfigs] >>
                      \o (IF requestClientCert(s) THEN << [type |-> "certificateRequest"] >> ELSE << >>)
                      \o << [type |-> "certificate", names |-> config.server.names] >>
  BY Zenon
<1>8. PICK t2 : t2 = t1 \o before
  BY Zenon
<1>9. PICK verify : verify = IF s.usingPSK THEN << >>
                             ELSE << [type |-> "certificateVerify", by |-> "server", over |-> t2] >>
  BY Zenon
<1>10. PICK t3 : t3 = IF s.usingPSK THEN t2 ELSE transcriptMsg(verify[1], t2)
  BY Zenon
<1>11. PICK fin : fin = [type |-> "finished", mac |-> finishedHash("server", secret, t3)]
  BY Zenon
<1>12. PICK t4 : t4 = transcriptMsg(fin, t3)
  BY Zenon
<1>13. PICK app : app = Secret("application", secret.psk, share, t4)
  BY Zenon
<1>14. PICK sent : sent = [s EXCEPT !.transcript = t4, !.in = secret, !.out = app, !.trafficSecret = app]
  BY Zenon
<1>15. PICK u : u = sendSessionTickets(sent)
  BY Zenon
<1>16. PICK w : w = Records(Plain, << hello >>) \o Records(secret, before \o verify \o << fin >>)
  BY Zenon
<1>17. \/ ServerSends([sent EXCEPT !.pc = "certificate"], w)
       \/ ServerSends([u.state EXCEPT !.pc = "finished"], w \o u.records)
  <2>1. FlightHello(s)
    BY FlightInParts, Zenon
  <2>2. FlightMiddle(s, hello, share, secret, t1)
    BY <1>1, <1>2, <1>3, <1>4, <1>5, <1>6, <2>1, Zenon DEF FlightHello
  <2>3. FlightVerify(s, hello, share, secret, before, t2)
    BY <1>7, <1>8, <2>2, Zenon DEF FlightMiddle
  <2>4. FlightFinished(s, hello, share, secret, before \o verify, t3)
    BY <1>9, <1>10, <2>3, Zenon DEF FlightVerify
  <2> QED
    BY <1>11, <1>12, <1>13, <1>14, <1>15, <1>16, <2>4, Zenon DEF FlightFinished
<1>18. IsAnswer(hello) /\ IsSeq(t1) /\ Tells(t1, s.ech.accepted, s.usingPSK)
  <2>1. HelloMade(s, plainHello, t0, hello, t1)
    BY <1>1, <1>2, <1>3, <1>4, Zenon DEF HelloMade
  <2> QED
    BY <2>1, AnswersHello, Zenon DEF Answers
<1>19. IsMiddle(before \o verify) /\ Extends(t1, t3)
  <2>1. MiddleMade(s, t1, before, t2, verify, t3)
    BY <1>7, <1>8, <1>9, <1>10, Zenon DEF MiddleMade
  <2> QED
    BY <1>18, <2>1, SaysMiddle, Zenon
<1>20. /\ secret.stage = "handshake" /\ fin.type = "finished" /\ app.stage = "application" /\ app # Plain
       /\ app.over = t4 /\ Extends(t3, t4)
       /\ app = Secret("application", fin.mac.psk, fin.mac.share,
                       Append(fin.mac.over, [type |-> "finished"]))
  <2>1. SecretsMade(s, t1, t3, share, secret, fin, t4, app)
    BY <1>6, <1>11, <1>12, <1>13, Zenon DEF SecretsMade
  <2>2. IsSeq(t3)
    BY <1>19, Zenon DEF Extends
  <2> QED
    BY <2>1, <2>2, FixesSecret, Zenon
<1>21. IsSeq(t4) /\ Tells(t4, s.ech.accepted, s.usingPSK)
  <2>1. Extends(t1, t4)
    BY <1>19, <1>20, ExtendsFurther, Zenon
  <2> QED
    BY <1>18, <2>1, TellsOn, Zenon DEF Extends
<1>22. /\ DOMAIN sent = ServerFields /\ sent.transcript = t4 /\ sent.trafficSecret = app /\ sent.ech = s.ech
       /\ sent.usingPSK = s.usingPSK /\ sent.peer = s.peer /\ sent.result = s.result
  BY <1>14, Zenon DEF Heard, ServerFields
<1>23. EchOK(s.ech, config) /\ s.peer = "none" /\ s.result = "none"
  BY Zenon DEF Heard
<1>24. ServerBase(sent, config)
  BY <1>20, <1>21, <1>22, <1>23, Zenon DEF ServerBase, Committed
<1>25. \A d : d.trafficSecret = app => ToClientInv(w, d)
  <2>1. \A b : IsMiddle(b) => \A d : d.trafficSecret = app =>
          ToClientInv(Records(Plain, << hello >>) \o Records(secret, b \o << fin >>), d)
    BY <1>18, <1>20, FlightCommits, Zenon
  <2> QED
    BY <1>16, <1>19, <2>1, Zenon
<1>26. CASE ServerSends([sent EXCEPT !.pc = "certificate"], w)
  <2>1. PICK d : d = [sent EXCEPT !.pc = "certificate"]
    BY Zenon
  <2>2. /\ DOMAIN d = ServerFields /\ d.pc = "certificate" /\ d.transcript = t4 /\ d.trafficSecret = app
        /\ d.ech = s.ech /\ d.usingPSK = s.usingPSK /\ d.result = s.result
    BY <1>22, <2>1, Zenon DEF ServerFields
  <2>3. ServerBase(d, config)
    BY <1>20, <1>21, <1>23, <2>2, Zenon DEF ServerBase, Committed
  <2>4. /\ d.pc \notin {"hello", "secondHello"} /\ d.pc # "verify" /\ d.pc # "finished"
        /\ d.result # "complete"
    BY <1>23, <2>2
  <2>5. ServerReads(d)
    BY <1>20, <2>2, <2>4, Zenon DEF ServerReads
  <2>6. ServerRuns(d, server, config)
    BY <1>20, <1>23, <2>2, <2>3, <2>4, <2>5, Zenon DEF ServerRuns, ServerOK, Keeps
  <2> QED
    BY <1>25, <1>26, <2>1, <2>2, <2>6, Zenon DEF ServerMoves
<1>27. CASE ServerSends([u.state EXCEPT !.pc = "finished"], w \o u.records)
  <2>1. PICK d : d = [u.state EXCEPT !.pc = "finished"]
    BY Zenon
  <2>2. Sent(sent.transcript, sent.trafficSecret.over, sent.peer)
    BY <1>20, <1>22, <1>23, Zenon DEF Sent
  <2>3. Concluding(sent, config)
    BY <1>20, <1>22, <1>23, <1>24, <2>2, Zenon DEF Concluding
  <2>4. /\ ServerOK(d, config) /\ d.result # "complete" /\ d.trafficSecret = sent.trafficSecret
        /\ ToClientInv(u.records, d)
    <3>1. Concluded(sent, config, sendSessionTickets(sent),
                    [sendSessionTickets(sent).state EXCEPT !.pc = "finished"])
      BY <2>3, Concludes, Zenon
    <3>2. Concluded(sent, config, u, d)
      BY <1>15, <2>1, <3>1, Zenon
    <3> QED
      BY <3>2, Zenon DEF Concluded
  <2>5. ServerRuns(d, server, config)
    BY <2>4, Zenon DEF ServerRuns, Keeps
  <2>6. ToClientInv(w, d)
    BY <1>22, <1>25, <2>4, Zenon
  <2>7. ToClientInv(w \o u.records, d)
    <3>1. /\ IsSeq(w \o u.records)
          /\ Elems(w \o u.records) = Elems(w) \cup Elems(u.records)
      BY <2>4, <2>6, Joined, Zenon DEF ToClientInv
    <3> QED
      BY <2>4, <2>6, <3>1, Zenon DEF ToClientInv
  <2> QED
    BY <1>27, <2>1, <2>5, <2>7, Zenon DEF ServerMoves
<1> QED
  BY <1>17, <1>26, <1>27, Zenon

\* checkForResumption.
LEMMA Responds ==
  ASSUME NEW s, Heard(s), s.transcript = << >> \/ OneHash(s.transcript), server.trafficSecret = Plain,
         Respond(s)
  PROVE  ServerMoves
<1>1. PICK d : d = [s EXCEPT !.usingPSK = Resumable(s.hello)]
  BY Zenon
<1>2. ServerFails(s, "decrypt_error") \/ ServerFlight(d)
  BY <1>1, Zenon DEF Respond
<1>3. CASE ServerFails(s, "decrypt_error")
  <2>1. ServerBase(s, config) /\ Keeps(s, server)
    BY Zenon DEF Heard, ServerBase, Keeps
  <2> QED
    BY <1>3, <2>1, ServerGivesUp
<1>4. CASE ServerFlight(d)
  <2>1. /\ DOMAIN d = ServerFields /\ d.ech = s.ech /\ d.transcript = s.transcript /\ d.hello = s.hello
        /\ d.trafficSecret = s.trafficSecret /\ d.peer = s.peer /\ d.result = s.result
    BY <1>1, Zenon DEF Heard, ServerFields
  <2>2. Heard(d)
    BY <2>1, Zenon DEF Heard
  <2> QED
    BY <1>4, <2>1, <2>2, Answers13, Zenon
<1> QED
  BY <1>2, <1>3, <1>4, Zenon

\* The record that a handler of the server takes.
LEMMA ServerTakesIt ==
  ASSUME AgreementInv, NEW pc, NEW type, ServerTakes(pc, type)
  PROVE  /\ server.pc = pc /\ Head(toServer).msg.type = type
         /\ ToServerOK(Head(toServer), client, config) /\ ServerTakesOne
<1>1. /\ server.pc = pc /\ toServer # << >> /\ Head(toServer).msg.type = type
      /\ toServer' = Tail(toServer)
  BY Zenon DEF ServerTakes
<1>2. IsSeq(toServer) /\ \A r \in Elems(toServer) : ToServerOK(r, client, config)
  BY Zenon DEF AgreementInv, ToServerInv
<1>3. Head(toServer) \in Elems(toServer)
  BY <1>1, <1>2, Taken, Zenon
<1> QED
  BY <1>1, <1>2, <1>3, Zenon DEF ServerTakesOne

\* The first hello.
LEMMA ReadsHello ==
  ASSUME AgreementInv, ServerReadHello
  PROVE  AgreementInv' /\ AgreementStep
<1>1. PICK h : h = Head(toServer).msg
  BY Zenon
<1>2. PICK r : r = echAcceptOrReject(server.ech, config.server.ech, keys, h, FALSE)
  BY Zenon
<1>3. PICK s : s = [server EXCEPT !.ech = r.ech, !.hello = r.hello, !.asked = keys]
  BY Zenon
<1>4. PICK d : d = [s EXCEPT !.group = SelectedGroup(r.hello)]
  BY Zenon
<1>5. /\ ServerTakes("hello", "clientHello")
      /\ \/ r.alert # "none" /\ ServerFails(s, r.alert)
         \/ ServerFails(s, "handshake_failure")
         \/ r.alert = "none" /\ (HelloRetryRequest(d) \/ Respond(d))
  BY <1>1, <1>2, <1>3, <1>4, Zenon DEF ServerReadHello
<1>6. server.pc = "hello" /\ WireHello(h, config) /\ ServerTakesOne
  BY <1>1, <1>5, ServerTakesIt DEF ToServerOK
<1>7. ServerOK(server, config)
  BY Zenon DEF AgreementInv
<1>8. /\ DOMAIN server = ServerFields /\ EchOK(server.ech, config) /\ server.transcript = << >>
      /\ ~server.ech.accepted /\ server.trafficSecret = Plain /\ server.peer = "none"
      /\ server.result = "none" /\ server.pc # "done"
  BY <1>6, <1>7 DEF ServerOK, ServerBase, Listens
<1>9. ResultOK(r, server.ech, config)
  <2>1. ResultOK(echAcceptOrReject(server.ech, config.server.ech, keys, h, FALSE), server.ech, config)
    BY <1>6, <1>8, Decides, Zenon
  <2> QED
    BY <1>2, <2>1, Zenon
<1>10. /\ DOMAIN s = ServerFields /\ s.ech = r.ech /\ s.hello = r.hello /\ s.transcript = server.transcript
       /\ s.trafficSecret = server.trafficSecret /\ s.peer = server.peer /\ s.result = server.result
  BY <1>3, <1>8, Zenon DEF ServerFields
<1>11. /\ DOMAIN d = ServerFields /\ d.ech = r.ech /\ d.hello = r.hello /\ d.transcript = server.transcript
       /\ d.trafficSecret = server.trafficSecret /\ d.peer = server.peer /\ d.result = server.result
  BY <1>4, <1>10, Zenon DEF ServerFields
<1>12. EchOK(r.ech, config) /\ IsHello(r.hello) /\ r.alert # "complete" /\ IsSeq(<< >>)
  BY <1>9, Small, Zenon DEF ResultOK
<1>13. ServerBase(s, config) /\ Keeps(s, server)
  BY <1>8, <1>10, <1>12, Zenon DEF ServerBase, Keeps
<1>14. ASSUME r.alert = "none" PROVE Heard(d) /\ d.transcript = << >>
  <2>1. Verdict(r.hello, r.ech)
    BY <1>8, <1>9, <1>14, Zenon DEF ResultOK
  <2> QED
    BY <1>8, <1>11, <1>12, <2>1, Zenon DEF Heard, Verdict
<1>15. ServerMoves
  <2>1. CASE ServerFails(s, r.alert)
    BY <1>12, <1>13, <2>1, ServerGivesUp, Zenon
  <2>2. CASE ServerFails(s, "handshake_failure")
    BY <1>13, <2>2, ServerGivesUp
  <2>3. CASE r.alert = "none" /\ HelloRetryRequest(d)
    BY <1>8, <1>14, <2>3, AsksAgain, Zenon
  <2>4. CASE r.alert = "none" /\ Respond(d)
    BY <1>8, <1>14, <2>4, Responds, Zenon
  <2> QED
    BY <1>5, <2>1, <2>2, <2>3, <2>4, Zenon
<1> QED
  BY <1>6, <1>8, <1>15, ServerHandled, Zenon

\* The second hello: a server that accepted ECH has the inner hello's random to hold it to.
LEMMA ReadsSecondHello ==
  ASSUME AgreementInv, ServerReadSecondHello
  PROVE  AgreementInv' /\ AgreementStep
<1>1. PICK h : h = Head(toServer).msg
  BY Zenon
<1>2. PICK r : r = echAcceptOrReject(server.ech, config.server.echAfter, keys, h, TRUE)
  BY Zenon
<1>3. PICK s : s = [server EXCEPT !.ech = r.ech, !.hello = r.hello]
  BY Zenon
<1>4. /\ ServerTakes("secondHello", "clientHello")
      /\ \/ r.alert # "none" /\ ServerFails(s, r.alert)
         \/ ServerFails(s, "illegal_parameter")
         \/ r.alert = "none" /\ ~illegalClientHelloChange(r.hello, server.hello) /\ Respond(s)
  BY <1>1, <1>2, <1>3, Zenon DEF ServerReadSecondHello
<1>5. server.pc = "secondHello" /\ WireHello(h, config) /\ ServerTakesOne
  BY <1>1, <1>4, ServerTakesIt DEF ToServerOK
<1>6. ServerOK(server, config)
  BY Zenon DEF AgreementInv
<1>7. /\ DOMAIN server = ServerFields /\ EchOK(server.ech, config) /\ OneHash(server.transcript)
      /\ IsSeq(server.transcript) /\ (server.ech.accepted => server.hello.random = "base")
  BY <1>5, <1>6 DEF ServerOK, ServerBase, Listens
<1>8. /\ server.trafficSecret = Plain /\ server.peer = "none" /\ server.result = "none"
      /\ server.pc # "done"
  BY <1>5, <1>6 DEF ServerOK, Listens
<1>9. ResultOK(r, server.ech, config)
  <2>1. ResultOK(echAcceptOrReject(server.ech, config.server.echAfter, keys, h, TRUE), server.ech, config)
    BY <1>5, <1>7, Decides, Zenon
  <2> QED
    BY <1>2, <2>1, Zenon
<1>10. /\ DOMAIN s = ServerFields /\ s.ech = r.ech /\ s.hello = r.hello /\ s.transcript = server.transcript
       /\ s.trafficSecret = server.trafficSecret /\ s.peer = server.peer /\ s.result = server.result
  BY <1>3, <1>7, Zenon DEF ServerFields
<1>11. EchOK(r.ech, config) /\ IsHello(r.hello) /\ r.alert # "complete"
  BY <1>9, Zenon DEF ResultOK
<1>12. ServerBase(s, config) /\ Keeps(s, server)
  BY <1>7, <1>8, <1>10, <1>11, Zenon DEF ServerBase, Keeps
<1>13. ASSUME r.alert = "none", ~illegalClientHelloChange(r.hello, server.hello)
       PROVE  Heard(s) /\ OneHash(s.transcript)
  <2>1. r.hello.random = server.hello.random
    BY <1>13, Zenon DEF illegalClientHelloChange
  <2>2. ~(server.ech.accepted /\ r.hello.random = "outer")
    BY <1>7, <2>1
  <2>3. Verdict(r.hello, r.ech)
    BY <1>9, <1>13, <2>2, Zenon DEF ResultOK
  <2> QED
    BY <1>7, <1>8, <1>10, <1>11, <2>3, Zenon DEF Heard, Verdict
<1>14. ServerMoves
  <2>1. CASE ServerFails(s, r.alert)
    BY <1>11, <1>12, <2>1, ServerGivesUp, Zenon
  <2>2. CASE ServerFails(s, "illegal_parameter")
    BY <1>12, <2>2, ServerGivesUp
  <2>3. CASE r.alert = "none" /\ ~illegalClientHelloChange(r.hello, server.hello) /\ Respond(s)
    BY <1>8, <1>13, <2>3, Responds, Zenon
  <2> QED
    BY <1>4, <2>1, <2>2, <2>3, Zenon
<1> QED
  BY <1>5, <1>8, <1>14, ServerHandled, Zenon

\* A server that waits for the client's second flight.
LEMMA ServerWaits ==
  ASSUME AgreementInv, server.pc \in {"certificate", "verify", "finished"}
  PROVE  /\ ServerBase(server, config) /\ server.trafficSecret # Plain /\ ServerReads(server)
         /\ server.result = "none" /\ server.pc # "done" /\ Committed(server)
         /\ DOMAIN server = ServerFields /\ IsSeq(server.transcript) /\ EchOK(server.ech, config)
<1>1. ServerOK(server, config) /\ server.pc # "done"
  BY DEF AgreementInv
<1>2. ServerBase(server, config) /\ server.trafficSecret # Plain /\ ServerReads(server) /\ server.result = "none"
  BY <1>1, Zenon DEF ServerOK
<1> QED
  BY <1>1, <1>2, Zenon DEF ServerBase

\* A server that goes on to wait for the Finished.
LEMMA ServerConcludes ==
  ASSUME NEW s, Concluding(s, config), s.trafficSecret = server.trafficSecret, s.ech = server.ech,
         s.usingPSK = server.usingPSK,
         ServerSends([sendSessionTickets(s).state EXCEPT !.pc = "finished"], sendSessionTickets(s).records)
  PROVE  ServerMoves
<1>1. PICK u : u = sendSessionTickets(s)
  BY Zenon
<1>2. PICK d : d = [u.state EXCEPT !.pc = "finished"]
  BY Zenon
<1>3. Concluded(s, config, u, d)
  <2>1. Concluded(s, config, sendSessionTickets(s), [sendSessionTickets(s).state EXCEPT !.pc = "finished"])
    BY Concludes, Zenon
  <2> QED
    BY <1>1, <1>2, <2>1, Zenon
<1>4. ServerRuns(d, server, config) /\ ToClientInv(u.records, d)
  BY <1>3, Zenon DEF Concluded, ServerRuns, Keeps
<1>5. ServerSends(d, u.records)
  BY <1>1, <1>2, Zenon
<1> QED
  BY <1>4, <1>5, Zenon DEF ServerMoves

\* The client's Certificate.
LEMMA ReadsClientCertificate ==
  ASSUME AgreementInv, ServerReadCertificate
  PROVE  AgreementInv' /\ AgreementStep
<1>1. PICK m : m = Head(toServer).msg
  BY Zenon
<1>2. PICK s : s = [server EXCEPT !.peer = Head(toServer).msg.cert,
                                  !.transcript = transcriptMsg(Head(toServer).msg, @)]
  BY Zenon
<1>3. ServerTakes("certificate", "certificate")
  BY Zenon DEF ServerReadCertificate
<1>4. server.pc = "certificate" /\ m.type = "certificate" /\ m.cert = config.client.cert /\ ServerTakesOne
  BY <1>1, <1>3, ServerTakesIt DEF ToServerOK
<1>5. m.cert \in {"none", "untrusted", "trusted"}
  BY <1>4, ConfigFacts, Zenon DEF Certificates
<1>6. \/ ServerFails(s, "certificate_required") \/ ServerFails(s, "unknown_ca")
      \/ /\ m.cert = "none"
         /\ ServerSends([sendSessionTickets(s).state EXCEPT !.pc = "finished"], sendSessionTickets(s).records)
      \/ ServerSends([s EXCEPT !.pc = "verify"], << >>)
  <2>1. CASE m.cert = "none"
    <3>1. Head(toServer).msg.cert = "none"
      BY <1>1, <2>1, Zenon
    <3> QED
      BY <1>2, <2>1, <3>1, Zenon DEF ServerReadCertificate
  <2>2. CASE m.cert = "untrusted"
    <3>1. Head(toServer).msg.cert = "untrusted"
      BY <1>1, <2>2, Zenon
    <3> QED
      BY <1>2, <2>2, <3>1, Zenon DEF ServerReadCertificate
  <2>3. CASE m.cert = "trusted"
    <3>1. Head(toServer).msg.cert = "trusted"
      BY <1>1, <2>3, Zenon
    <3> QED
      BY <1>2, <2>3, <3>1, Zenon DEF ServerReadCertificate
  <2> QED
    BY <1>5, <2>1, <2>2, <2>3, Zenon
<1>7. server.pc \in {"certificate", "verify", "finished"}
  BY <1>4
<1>8. /\ ServerBase(server, config) /\ server.trafficSecret # Plain /\ ServerReads(server)
      /\ server.result = "none" /\ server.pc # "done" /\ Committed(server)
      /\ DOMAIN server = ServerFields /\ IsSeq(server.transcript) /\ EchOK(server.ech, config)
  BY <1>7, ServerWaits, Zenon
<1>9. PICK t : t = transcriptMsg(m, server.transcript)
  BY Zenon
<1>10. /\ IsSeq(t) /\ Len(t) = Len(server.transcript) + 1 /\ t[Len(server.transcript) + 1] = m
  BY <1>4, <1>8, <1>9, Adds, AddsItself DEF Extends
<1>11. Len(server.transcript) = Len(server.trafficSecret.over)
  BY <1>4, <1>8, Zenon DEF ServerReads
<1>12. /\ DOMAIN s = ServerFields /\ s.transcript = t /\ s.peer = m.cert /\ s.ech = server.ech
       /\ s.usingPSK = server.usingPSK /\ s.trafficSecret = server.trafficSecret /\ s.result = server.result
  BY <1>1, <1>2, <1>8, <1>9, Zenon DEF ServerFields
<1>13. ServerBase(s, config) /\ Keeps(s, server)
  BY <1>8, <1>10, <1>12, Zenon DEF ServerBase, Committed, Keeps
<1>14. ServerMoves
  <2>1. CASE ServerFails(s, "certificate_required")
    BY <1>13, <2>1, ServerGivesUp
  <2>2. CASE ServerFails(s, "unknown_ca")
    BY <1>13, <2>2, ServerGivesUp
  <2>3. CASE /\ m.cert = "none"
             /\ ServerSends([sendSessionTickets(s).state EXCEPT !.pc = "finished"],
                            sendSessionTickets(s).records)
    <3>1. Sent(s.transcript, s.trafficSecret.over, s.peer)
      BY <1>10, <1>11, <1>12, <2>3, Zenon DEF Sent
    <3>2. Concluding(s, config)
      BY <1>8, <1>12, <1>13, <3>1, Zenon DEF Concluding
    <3> QED
      BY <1>12, <2>3, <3>2, ServerConcludes, Zenon
  <2>4. CASE ServerSends([s EXCEPT !.pc = "verify"], << >>)
    <3>1. PICK d : d = [s EXCEPT !.pc = "verify"]
      BY Zenon
    <3>2. /\ DOMAIN d = ServerFields /\ d.pc = "verify" /\ d.transcript = t /\ d.peer = m.cert
          /\ d.ech = server.ech /\ d.usingPSK = server.usingPSK /\ d.trafficSecret = server.trafficSecret
          /\ d.result = server.result
      BY <1>12, <3>1, Zenon DEF ServerFields
    <3>3. ServerBase(d, config) /\ Keeps(d, server)
      BY <1>8, <1>10, <3>2, Zenon DEF ServerBase, Committed, Keeps
    <3>4. /\ d.pc \notin {"hello", "secondHello"} /\ d.pc # "certificate" /\ d.pc # "finished"
          /\ d.result # "complete"
      BY <1>8, <3>2
    <3>5. ServerReads(d)
      BY <1>10, <1>11, <3>2, <3>4, Zenon DEF ServerReads
    <3>6. ServerRuns(d, server, config)
      BY <1>8, <3>2, <3>3, <3>4, <3>5, Zenon DEF ServerRuns, ServerOK
    <3> QED
      BY <2>4, <3>1, <3>6, ServerQuiet, Zenon
  <2> QED
    BY <1>6, <2>1, <2>2, <2>3, <2>4, Zenon
<1> QED
  BY <1>4, <1>8, <1>14, ServerHandled, Zenon

\* The client's CertificateVerify.
LEMMA ReadsClientVerify ==
  ASSUME AgreementInv, ServerReadCertificateVerify
  PROVE  AgreementInv' /\ AgreementStep
<1>1. PICK m : m = Head(toServer).msg
  BY Zenon
<1>2. PICK s : s = [server EXCEPT !.transcript = transcriptMsg(Head(toServer).msg, @)]
  BY Zenon
<1>3. /\ ServerTakes("verify", "certificateVerify")
      /\ \/ ServerSends([sendSessionTickets(s).state EXCEPT !.pc = "finished"], sendSessionTickets(s).records)
         \/ ServerFails(server, "decrypt_error")
  BY <1>2, Zenon DEF ServerReadCertificateVerify
<1>4. server.pc = "verify" /\ ServerTakesOne
  BY <1>3, ServerTakesIt, Zenon
<1>5. server.pc \in {"certificate", "verify", "finished"}
  BY <1>4
<1>6. /\ ServerBase(server, config) /\ server.trafficSecret # Plain /\ ServerReads(server)
      /\ server.result = "none" /\ server.pc # "done" /\ Committed(server)
      /\ DOMAIN server = ServerFields /\ IsSeq(server.transcript) /\ EchOK(server.ech, config)
  BY <1>5, ServerWaits, Zenon
<1>7. PICK t : t = transcriptMsg(m, server.transcript)
  BY Zenon
<1>8. PICK over : over = server.trafficSecret.over
  BY Zenon
<1>9. /\ Len(server.transcript) = Len(over) + 1 /\ server.transcript[Len(over) + 1].cert = server.peer
      /\ IsSeq(over)
  BY <1>4, <1>6, <1>8, Zenon DEF ServerReads, Committed
<1>10. /\ IsSeq(t) /\ Len(t) = Len(server.transcript) + 1
       /\ \A i \in 1..Len(server.transcript) : t[i] = server.transcript[i]
  <2>1. Extends(server.transcript, t) /\ Len(t) = Len(server.transcript) + 1
    BY <1>6, <1>7, Adds, Zenon
  <2> QED
    BY <2>1, Zenon DEF Extends
<1>11. Len(t) = Len(over) + 2 /\ t[Len(over) + 1] = server.transcript[Len(over) + 1]
  <2>1. Len(over) \in Nat
    BY <1>9, Appended, Zenon
  <2> QED
    BY <1>9, <1>10, <2>1
<1>12. /\ DOMAIN s = ServerFields /\ s.transcript = t /\ s.peer = server.peer /\ s.ech = server.ech
       /\ s.usingPSK = server.usingPSK /\ s.trafficSecret = server.trafficSecret /\ s.result = server.result
  BY <1>1, <1>2, <1>6, <1>7, Zenon DEF ServerFields
<1>13. Concluding(s, config)
  <2>1. ServerBase(s, config)
    BY <1>6, <1>10, <1>12, Zenon DEF ServerBase, Committed
  <2>2. Sent(s.transcript, s.trafficSecret.over, s.peer)
    BY <1>8, <1>9, <1>11, <1>12, Zenon DEF Sent
  <2> QED
    BY <1>6, <1>12, <2>1, <2>2, Zenon DEF Concluding
<1>14. ServerMoves
  <2>1. CASE ServerFails(server, "decrypt_error")
    <3>1. Keeps(server, server)
      BY Zenon DEF Keeps
    <3> QED
      BY <1>6, <2>1, <3>1, ServerGivesUp
  <2>2. CASE ServerSends([sendSessionTickets(s).state EXCEPT !.pc = "finished"],
                         sendSessionTickets(s).records)
    BY <1>12, <1>13, <2>2, ServerConcludes, Zenon
  <2> QED
    BY <1>3, <2>1, <2>2, Zenon
<1> QED
  BY <1>4, <1>6, <1>14, ServerHandled, Zenon

\* Said, by the transcript of the server's Finished.
SaidAfter(t, over, req, cert) ==
    IF ~req THEN Len(t) = Len(over)
    ELSE IF cert = "none" THEN Len(t) = Len(over) + 1
    ELSE Len(t) = Len(over) + 2 /\ t[Len(over) + 1].cert = cert

\* What the server read and what the client said are one transcript, so the certificate is one.
LEMMA SameCertificate ==
  ASSUME NEW t, NEW over, NEW peer, Sent(t, over, peer), NEW req, NEW cert, Len(over) \in Nat,
         SaidAfter(t, over, req, cert)
  PROVE  peer = IF req THEN cert ELSE "none"
<1>1. Len(over) # Len(over) + 1 /\ Len(over) # Len(over) + 2 /\ Len(over) + 1 # Len(over) + 2
  OBVIOUS
<1> QED
  BY <1>1, Zenon DEF Sent, SaidAfter

\* The client's Finished: the server completes with what the client confirmed.
LEMMA ServerCompletes ==
  ASSUME AgreementInv, server.pc = "finished", ServerTakesOne, NEW r, ToServerOK(r, client, config),
         r.msg.type = "finished", r.msg.mac = server.clientFinished,
         ServerSends([server EXCEPT !.pc = "done", !.result = "complete", !.in = server.trafficSecret], << >>)
  PROVE  AgreementInv' /\ AgreementStep
<1>1. PICK d : d = [server EXCEPT !.pc = "done", !.result = "complete", !.in = server.trafficSecret]
  BY Zenon
<1>2. ServerSends(d, << >>)
  BY <1>1, Zenon
<1>3. server.pc \in {"certificate", "verify", "finished"}
  OBVIOUS
<1>4. /\ ServerBase(server, config) /\ server.trafficSecret # Plain /\ ServerReads(server)
      /\ server.result = "none" /\ server.pc # "done" /\ Committed(server)
      /\ DOMAIN server = ServerFields /\ IsSeq(server.transcript) /\ EchOK(server.ech, config)
  BY <1>3, ServerWaits, Zenon
<1>5. /\ DOMAIN d = ServerFields /\ d.pc = "done" /\ d.result = "complete" /\ d.ech = server.ech
      /\ d.transcript = server.transcript /\ d.usingPSK = server.usingPSK /\ d.peer = server.peer
      /\ d.trafficSecret = server.trafficSecret
  BY <1>1, <1>4, Zenon DEF ServerFields
<1>6. ServerBase(d, config) /\ Keeps(d, server)
  BY <1>4, <1>5, Zenon DEF ServerBase, Committed, Keeps
<1>7. CASE server' = Failed(d, "broken")
  <2>1. ServerRuns(Failed(d, "broken"), server, config)
    BY <1>6, ServerFailure
  <2>2. PICK f : f = Failed(d, "broken")
    BY Zenon
  <2>3. ServerSends(f, << >>)
    BY <1>2, <1>7, <2>2 DEF ServerSends
  <2>4. ServerMoves
    BY <2>1, <2>2, <2>3, ServerQuiet, Zenon
  <2> QED
    BY <1>4, <2>4, ServerHandled, Zenon
<1>8. CASE server' = d
  <2>1. UNCHANGED <<config, client, keys, cut>>
    BY <1>2, ServerSent, Zenon
  <2>2. toClient' = toClient
    <3>1. toClient' = toClient \/ toClient' = toClient \o << >>
      BY <1>2, ServerSent, Zenon
    <3>2. IsSeq(toClient)
      BY Zenon DEF AgreementInv, ToClientInv
    <3>3. toClient \o << >> = toClient
      BY <3>2 DEF IsSeq
    <3> QED
      BY <3>1, <3>3, Zenon
  <2>3. ServerOK(d, config)
    <3>1. d.pc \notin {"hello", "secondHello"} /\ d.pc \notin {"certificate", "verify", "finished"}
      BY <1>5
    <3> QED
      BY <1>5, <1>6, <3>1, Zenon DEF ServerOK
  <2>4. ToClientInv(toClient, d)
    BY <1>6, StillRead, Zenon DEF AgreementInv
  <2>5. ToServerInv(toServer', client, config)
    BY ServerLeft, Zenon DEF AgreementInv
  <2>6. Agree(client, d)
    BY <1>6, Zenon DEF AgreementInv, Agree, Keeps
  <2>7. AgreementInv'
    <3>1. config' = config /\ client' = client /\ config \in Configurations /\ ClientOK(client, config)
      BY <2>1, Zenon DEF AgreementInv
    <3>2. /\ config' \in Configurations /\ ClientOK(client', config') /\ ServerOK(server', config')
          /\ ToServerInv(toServer', client', config') /\ ToClientInv(toClient', server')
          /\ Agree(client', server')
      BY <1>8, <2>2, <2>3, <2>4, <2>5, <2>6, <3>1, Zenon
    <3> QED
      BY <3>2, NextInv, Zenon
  <2>8. AgreementStep
    <3>1. client.in.stage = "application" /\ Said(r.msg.mac.over, client, config)
      BY Zenon DEF ToServerOK
    <3>2. /\ client.in = server.trafficSecret /\ client.accepted = server.ech.accepted
          /\ client.usingPSK = server.usingPSK
      BY <3>1, Zenon DEF AgreementInv, Agree
    <3>3. Sent(server.clientFinished.over, server.trafficSecret.over, server.peer)
      BY <1>4, Zenon DEF ServerReads
    <3>4. Len(server.trafficSecret.over) \in Nat
      <4>1. IsSeq(server.trafficSecret.over)
        BY <1>4, Zenon DEF Committed
      <4> QED
        BY <4>1, Appended, Zenon
    <3>5. PICK t : t = server.clientFinished.over
      BY Zenon
    <3>6. PICK over : over = server.trafficSecret.over
      BY Zenon
    <3>7. SaidAfter(t, over, client.certReq, config.client.cert)
      BY <3>1, <3>2, <3>5, <3>6, Zenon DEF Said, SaidAfter
    <3>8. server.peer = IF client.certReq THEN config.client.cert ELSE "none"
      <4>1. Sent(t, over, server.peer) /\ Len(over) \in Nat
        BY <3>3, <3>4, <3>5, <3>6, Zenon
      <4> QED
        BY <3>7, <4>1, SameCertificate
    <3>9. ServerOffer(server') = ServerOffer(server)
      BY <1>5, <1>8, Zenon DEF ServerOffer
    <3>10. End(server) = "running" /\ End(server') = "complete"
      BY <1>4, <1>5, <1>8 DEF End
    <3>11. PICK a : a = [parameters |-> Parameters(server.trafficSecret, server.ech.accepted, server.usingPSK),
                         cert |-> server.peer]
      BY Zenon
    <3>12. ClientAnswer(client, config) = << a >>
      BY <3>1, <3>2, <3>8, <3>11, Zenon DEF ClientAnswer
    <3>13. ServerAccepted(server') = << a >>
      BY <1>5, <1>8, <3>11, Zenon DEF ServerAccepted
    <3>14. << a >> # << >>
      OBVIOUS
    <3> QED
      BY <2>1, <3>9, <3>10, <3>12, <3>13, <3>14, ServerAccepts, Zenon
  <2> QED
    BY <2>7, <2>8
<1> QED
  BY <1>2, <1>7, <1>8, ServerSent, Zenon

\* The client's Finished.
LEMMA ReadsClientFinished ==
  ASSUME AgreementInv, ServerReadFinished
  PROVE  AgreementInv' /\ AgreementStep
<1>1. PICK r : r = Head(toServer)
  BY Zenon
<1>2. /\ ServerTakes("finished", "finished")
      /\ \/ /\ r.msg.mac = server.clientFinished
            /\ ServerSends([server EXCEPT !.pc = "done", !.result = "complete",
                                          !.in = server.trafficSecret], << >>)
         \/ ServerFails(server, "decrypt_error")
  BY <1>1, Zenon DEF ServerReadFinished
<1>3. /\ server.pc = "finished" /\ r.msg.type = "finished" /\ ToServerOK(r, client, config)
      /\ ServerTakesOne
  BY <1>1, <1>2, ServerTakesIt
<1>4. CASE ServerFails(server, "decrypt_error")
  <2>1. server.pc \in {"certificate", "verify", "finished"}
    BY <1>3
  <2>2. ServerBase(server, config) /\ Keeps(server, server) /\ server.pc # "done"
    BY <2>1, ServerWaits, Zenon DEF Keeps
  <2>3. ServerMoves
    BY <1>4, <2>2, ServerGivesUp
  <2> QED
    BY <1>3, <2>2, <2>3, ServerHandled, Zenon
<1>5. CASE /\ r.msg.mac = server.clientFinished
           /\ ServerSends([server EXCEPT !.pc = "done", !.result = "complete",
                                         !.in = server.trafficSecret], << >>)
  BY <1>3, <1>5, ServerCompletes, Zenon
<1> QED
  BY <1>2, <1>4, <1>5, Zenon

\* A message the server does not take, and a broken connection.
LEMMA ServerStops ==
  ASSUME AgreementInv, ServerRefuses \/ ServerReadBroken
  PROVE  AgreementInv' /\ AgreementStep
<1>1. server.pc # "done" /\ ServerTakesOne
  BY DEF ServerRefuses, ServerReadBroken, ServerTakesOne
<1>2. ServerBase(server, config) /\ Keeps(server, server)
  BY Zenon DEF AgreementInv, ServerOK, Keeps
<1>3. /\ ServerRuns(Failed(server, "remote"), server, config)
      /\ ServerRuns(Failed(server, "broken"), server, config)
  BY <1>2, ServerFailure
<1>4. ASSUME ServerReadBroken PROVE ServerMoves
  <2>1. ServerSends(Failed(server, "broken"), << >>)
    BY <1>4 DEF ServerReadBroken, ServerSends
  <2> QED
    BY <1>3, <2>1, ServerQuiet, Zenon
<1>5. ASSUME ServerRefuses PROVE ServerMoves
  <2>1. PICK objection : objection = Objection(server.in, Head(toServer))
    BY Zenon
  <2>2. objection # "complete"
    BY <2>1 DEF Objection
  <2>3. ServerSends(Failed(server, "remote"), << >>) \/ ServerFails(server, objection)
    BY <1>5, <2>1, Zenon DEF ServerRefuses
  <2>4. CASE ServerSends(Failed(server, "remote"), << >>)
    BY <1>3, <2>4, ServerQuiet, Zenon
  <2>5. CASE ServerFails(server, objection)
    BY <1>2, <2>2, <2>5, ServerGivesUp, Zenon
  <2> QED
    BY <2>3, <2>4, <2>5, Zenon
<1> QED
  BY <1>1, <1>4, <1>5, ServerHandled, Zenon

\* An alert after the handshake changes nothing that was agreed.
LEMMA ServerReadsAfter ==
  ASSUME AgreementInv, ServerReadAfter
  PROVE  AgreementInv' /\ AgreementStep
<1>1. PICK alert : alert = Head(toServer).msg.alert
  BY Zenon
<1>2. PICK ech : ech = AfterAlert(server.ech, alert)
  BY Zenon
<1>3. ServerOK(server, config)
  BY Zenon DEF AgreementInv
<1>4. /\ server.result = "complete" /\ ServerTakesOne /\ UNCHANGED <<config, client, toClient, keys, cut>>
  BY Zenon DEF ServerReadAfter, ServerTakesOne
<1>5. server.pc = "done" /\ DOMAIN server = ServerFields /\ EchOK(server.ech, config) /\ IsSeq(server.transcript)
  BY <1>3, <1>4 DEF ServerOK, ServerBase
<1>6. EchOK(ech, config) /\ ech.accepted = server.ech.accepted
  BY <1>2, <1>5, Zenon DEF EchOK, EchFields, AfterAlert
<1>7. \/ server' = [server EXCEPT !.after = "bad_record_mac"]
      \/ server' = [server EXCEPT !.after = alert, !.ech = ech]
  BY <1>1, <1>2, Zenon DEF ServerReadAfter
<1>8. /\ DOMAIN server' = ServerFields /\ server'.pc = server.pc /\ server'.result = server.result
      /\ server'.transcript = server.transcript /\ server'.trafficSecret = server.trafficSecret
      /\ server'.usingPSK = server.usingPSK /\ server'.peer = server.peer
      /\ EchOK(server'.ech, config) /\ server'.ech.accepted = server.ech.accepted
  <2>1. CASE server' = [server EXCEPT !.after = "bad_record_mac"]
    BY <1>5, <2>1, Zenon DEF ServerFields
  <2>2. CASE server' = [server EXCEPT !.after = alert, !.ech = ech]
    BY <1>5, <1>6, <2>2, Zenon DEF ServerFields
  <2> QED
    BY <1>7, <2>1, <2>2, Zenon
<1>9. ServerOK(server', config)
  <2>1. ServerBase(server', config)
    BY <1>3, <1>5, <1>8, Zenon DEF ServerOK, ServerBase, Committed
  <2>2. /\ server'.pc \notin {"hello", "secondHello"} /\ server'.pc \notin {"certificate", "verify", "finished"}
        /\ server'.pc = "done"
    BY <1>5, <1>8
  <2> QED
    BY <2>1, <2>2, Zenon DEF ServerOK
<1>10. Keeps(server', server)
  BY <1>8, Zenon DEF Keeps
<1>11. AgreementInv'
  <2>1. ToClientInv(toClient, server') /\ ToServerInv(toServer', client, config)
    BY <1>4, <1>10, StillRead, ServerLeft, Zenon DEF AgreementInv
  <2>2. Agree(client, server')
    BY <1>10, Zenon DEF AgreementInv, Agree, Keeps
  <2>3. /\ config' = config /\ client' = client /\ toClient' = toClient /\ config \in Configurations
        /\ ClientOK(client, config)
    BY <1>4, Zenon DEF AgreementInv
  <2>4. /\ config' \in Configurations /\ ClientOK(client', config') /\ ServerOK(server', config')
        /\ ToServerInv(toServer', client', config') /\ ToClientInv(toClient', server')
        /\ Agree(client', server')
    BY <1>9, <2>1, <2>2, <2>3, Zenon
  <2> QED
    BY <2>4, NextInv, Zenon
<1>12. AgreementStep
  <2>1. ServerAccepted(server') = ServerAccepted(server)
    BY <1>8, Zenon DEF ServerAccepted
  <2>2. ServerOffer(server') = ServerOffer(server)
    BY <1>8, Zenon DEF ServerOffer
  <2>3. End(server') = End(server)
    BY <1>8, Zenon DEF End
  <2> QED
    BY <1>4, <2>1, <2>2, <2>3, ServerStutters, Zenon
<1> QED
  BY <1>11, <1>12

-----------------------------------------------------------------------------
(* The handshake implements the agreement.                                 *)

\* Nothing moves.
LEMMA NothingMoves ==
  ASSUME AgreementInv, UNCHANGED <<config, client, server>>, ToServerInv(toServer', client, config),
         ToClientInv(toClient', server)
  PROVE  AgreementInv' /\ AgreementStep
<1>1. AgreementInv'
  <2>1. /\ config' = config /\ client' = client /\ server' = server /\ config \in Configurations
        /\ ClientOK(client, config) /\ ServerOK(server, config) /\ Agree(client, server)
    BY Zenon DEF AgreementInv
  <2>2. /\ config' \in Configurations /\ ClientOK(client', config') /\ ServerOK(server', config')
        /\ ToServerInv(toServer', client', config') /\ ToClientInv(toClient', server')
        /\ Agree(client', server')
    BY <2>1, Zenon
  <2> QED
    BY <2>2, NextInv, Zenon
<1>2. AgreementStep
  <2>1. ClientAnswer(client', config') = ClientAnswer(client, config) /\ End(client') = End(client)
    BY Zenon
  <2>2. UNCHANGED <<config, server>>
    BY Zenon
  <2> QED
    BY <2>1, <2>2, ClientStutters, Zenon
<1> QED
  BY <1>1, <1>2

\* The keys of the provider change, or the connection breaks.
LEMMA RotatesOrBreaks ==
  ASSUME AgreementInv, Rotate \/ Cut \/ UNCHANGED vars
  PROVE  AgreementInv' /\ AgreementStep
<1>1. ToServerInv(toServer, client, config) /\ ToClientInv(toClient, server)
  BY Zenon DEF AgreementInv
<1>2. CASE Rotate \/ UNCHANGED vars
  BY <1>1, <1>2, NothingMoves DEF Rotate, vars
<1>3. CASE Cut
  <2>1. PICK i \in 0..Len(toServer), j \in 0..Len(toClient) :
          toServer' = SubSeq(toServer, 1, i) /\ toClient' = SubSeq(toClient, 1, j)
    BY <1>3, Zenon DEF Cut
  <2>2. ToServerInv(toServer', client, config)
    BY <1>1, <2>1, Lost, Zenon DEF ToServerInv
  <2>3. ToClientInv(toClient', server)
    BY <1>1, <2>1, Lost, Zenon DEF ToClientInv
  <2>4. UNCHANGED <<config, client, server>>
    BY <1>3, Zenon DEF Cut
  <2> QED
    BY <2>2, <2>3, <2>4, NothingMoves, Zenon
<1> QED
  BY <1>2, <1>3, Zenon

\* A handshake begins with nothing offered, answered or accepted.
LEMMA Begins ==
  ASSUME Init
  PROVE  AgreementInv /\ Promise!Init
<1>1. /\ config \in Configurations /\ toServer = << >> /\ toClient = << >>
  BY Zenon DEF Init
<1>2. /\ DOMAIN client = ClientFields /\ client.pc = "start" /\ client.result = "none"
      /\ client.accepted = FALSE /\ client.transcript = << >> /\ client.transcriptInner = << >>
      /\ client.in = Plain
  BY Zenon DEF Init, ClientFields
<1>3. /\ DOMAIN server = ServerFields /\ server.pc = "hello" /\ server.result = "none"
      /\ server.ech = NoECHState /\ server.transcript = << >> /\ server.peer = "none"
      /\ server.trafficSecret = Plain
  BY ZenonT(30) DEF Init, ServerFields
<1>4. IsSeq(<< >>) /\ Elems(<< >>) = {} /\ Plain.stage # "application"
  <2>1. Plain.stage = "plain"
    BY DEF Plain
  <2>2. Plain.stage # "application"
    BY <2>1
  <2> QED
    BY <2>2, Small, Zenon
<1>5. ClientOK(client, config)
  <2>1. ClientBase(client)
    BY <1>2, <1>4, Zenon DEF ClientBase
  <2>2. client.pc \notin Answered /\ client.pc # "secondServerHello" /\ client.result # "complete"
    BY <1>2 DEF Answered
  <2>3. Asks(client, config)
    BY <1>2, <2>2, Zenon DEF Asks
  <2> QED
    BY <1>2, <1>4, <2>1, <2>2, <2>3, Zenon DEF ClientOK
<1>6. ServerOK(server, config)
  <2>1. EchOK(NoECHState, config) /\ ~NoECHState.accepted
    BY DEF EchOK, NoECHState, EchFields, NoContext
  <2>2. ServerBase(server, config)
    BY <1>3, <1>4, <2>1, Zenon DEF ServerBase
  <2>3. server.pc # "secondHello" /\ server.pc \notin {"certificate", "verify", "finished"}
    BY <1>3
  <2>4. Listens(server)
    BY <1>3, <2>1, <2>3, Zenon DEF Listens
  <2> QED
    BY <1>3, <2>2, <2>3, <2>4, Zenon DEF ServerOK
<1>7. AgreementInv
  BY <1>1, <1>2, <1>4, <1>5, <1>6, Zenon DEF AgreementInv, ToServerInv, ToClientInv, Agree
<1>8. Promise!Init
  <2>1. ServerOffer(server) = << >> /\ End(client) = "running"
    BY <1>2, <1>3 DEF ServerOffer, End
  <2>2. ClientAnswer(client, config) = << >> /\ ServerAccepted(server) = << >> /\ End(server) = "running"
    BY <1>2, <1>3, <1>4 DEF ClientAnswer, ServerAccepted, End
  <2> QED
    BY <2>1, <2>2, Zenon DEF Promise!Init
<1> QED
  BY <1>7, <1>8

\* Every step keeps the invariant and is a step of the agreement or none.
LEMMA StepsAgree ==
  ASSUME AgreementInv, [Next]_vars
  PROVE  AgreementInv' /\ AgreementStep
<1>1. CASE ClientNext
  BY <1>1, SendsHello, ReadsServerHello, ReadsSecondServerHello, ReadsParameters, ReadsCertificateRequest,
     ReadsCertificate, ReadsCertificateVerify, ReadsFinished, ClientStops, ReadsAfter, Zenon DEF ClientNext
<1>2. CASE ServerNext
  BY <1>2, ReadsHello, ReadsSecondHello, ReadsClientCertificate, ReadsClientVerify, ReadsClientFinished,
     ServerStops, ServerReadsAfter, Zenon DEF ServerNext
<1>3. CASE Rotate \/ Cut \/ UNCHANGED vars
  BY <1>3, RotatesOrBreaks, Zenon
<1> QED
  BY <1>1, <1>2, <1>3, Zenon DEF Next

\* Whatever the two Configs, wherever the connection breaks and whenever the keys of the ECH
\* provider change: a client completes, or fails with ech_required, only on the secret, the ECH
\* verdict and the resumption that the server committed to, and a server completes only with
\* those and with the certificate that this client sent.
THEOREM HandshakeAgrees == Spec => ImplementsAgreement
<1>1. Init => AgreementInv /\ Promise!Init
  BY Begins, Zenon
<1>2. AgreementInv /\ [Next]_vars => AgreementInv' /\ [Promise!Next]_(Promise!vars)
  BY StepsAgree, Zenon DEF AgreementStep
<1> QED
  BY <1>1, <1>2, PTL DEF Spec, ImplementsAgreement, Promise!Spec
=============================================================================
