----------------------------- MODULE Handshake13 -----------------------------
(***************************************************************************)
(* A client and a server of this package run the TLS 1.3 handshake over a  *)
(* connection that may break: key shares and HelloRetryRequest, Encrypted  *)
(* ClientHello, resumption, client authentication, session tickets and the *)
(* alerts.  There is one action per message read; what the handler writes  *)
(* before it reads again is part of it.                                    *)
(* Cryptography is symbolic: a secret, MAC or signature is the record of   *)
(* what it was computed from, equal only to one computed from the same.    *)
(***************************************************************************)
EXTENDS ClientHello

CONSTANT Configurations   \* pairs of a client's and a server's Config

\* What a client has to show when it is asked for a certificate.
Certificates == {"none", "untrusted", "trusted"}

ASSUME ConfigurationsAssumption ==
    \A k \in Configurations : /\ k.client.cert \in Certificates
                               /\ k.client.ech.use \in {"off", "grease", "offer"}

VARIABLES
    config,     \* [client, server]
    client,     \* Conn and clientHandshakeStateTLS13
    server,     \* Conn and serverHandshakeStateTLS13
    toServer,   \* records under way: the key they are protected with, and a message
    toClient,
    keys,       \* the keys the ECH provider knows
    cut         \* the connection broke

vars == <<config, client, server, toServer, toClient, keys, cut>>

Plain == [stage |-> "plain"]

\* Secrets of the key schedule: both traffic secrets of a stage, or the resumption secret.
Secret(stage, psk, share, transcript) ==
    [stage |-> stage, psk |-> psk, share |-> share, over |-> transcript]

\* The key of a Finished comes from a handshake secret, whose transcript is a prefix of "over".
finishedHash(by, secret, transcript) ==
    [by |-> by, psk |-> secret.psk, share |-> secret.share, over |-> transcript]

\* The ECH confirmation in ServerHello.random or in the HelloRetryRequest, and other bytes there.
Confirmation(random, transcript) == [random |-> random, over |-> transcript]
Unconfirmed == [random |-> "fresh"]

serverHelloMsg(retry, group, psk) ==
    [type |-> "serverHello", retry |-> retry, group |-> group, psk |-> psk, confirm |-> Unconfirmed]

\* What a message adds to a transcript: a field computed from the transcript adds nothing to it.
transcriptMsg(m, transcript) ==
    Append(transcript, CASE m.type = "serverHello" -> [m EXCEPT !.confirm = Unconfirmed]
                         [] m.type \in {"finished", "certificateVerify"} -> [type |-> m.type]
                         [] OTHER -> m)

messageHash(transcript) == << [type |-> "messageHash", of |-> transcript] >>

Records(key, messages) == [i \in DOMAIN messages |-> [key |-> key, msg |-> messages[i]]]
Alert(key, alert) == << [key |-> key, msg |-> [type |-> "alert", alert |-> alert]] >>

requiresClientCert(auth) == auth \in {"RequireAny", "RequireAndVerify"}
verifiesClientCert(auth) == auth \in {"VerifyIfGiven", "RequireAndVerify"}

Init ==
    /\ config \in Configurations
    /\ client = [pc |-> "start", result |-> "none", after |-> "none", ticket |-> "none",
                 hello |-> makeClientHello(config.client, "base"),
                 inner |-> makeClientHello(config.client, "base"),
                 private |-> KeyShares(config.client.guess, "base"),
                 sealer |-> NoContext, offered |-> FALSE, greased |-> FALSE, accepted |-> FALSE,
                 retryConfigs |-> FALSE, transcript |-> << >>, transcriptInner |-> << >>,
                 usingPSK |-> FALSE, certReq |-> FALSE, in |-> Plain, out |-> Plain,
                 resumption |-> Plain, label |-> Plain]
    /\ server = [pc |-> "hello", result |-> "none", after |-> "none",
                 ech |-> NoECHState, hello |-> makeClientHello(config.client, "base"),
                 group |-> "none", transcript |-> << >>, usingPSK |-> FALSE, peer |-> "none",
                 in |-> Plain, out |-> Plain, trafficSecret |-> Plain, clientFinished |-> Plain,
                 asked |-> config.server.keys]    \* history: the keys at the first hello
    /\ toServer = << >> /\ toClient = << >>
    /\ keys = config.server.keys
    /\ cut = FALSE

-----------------------------------------------------------------------------
(* What a step of either side does to its state and to the connection.     *)

Failed(side, why) == [side EXCEPT !.pc = "done", !.result = why]

\* A client that offered a session drops it from its cache.
FailedClient(c, why) == [Failed(c, why) EXCEPT !.ticket = "none"]

\* On a broken connection a write fails, or is lost.
ClientSends(c, records) ==
    /\ client' \in IF cut THEN {c, FailedClient(c, "broken")} ELSE {c}
    /\ toServer' = IF cut THEN toServer ELSE toServer \o records
    /\ UNCHANGED <<config, server, keys, cut>>

ServerSends(s, records) ==
    /\ server' \in IF cut THEN {s, Failed(s, "broken")} ELSE {s}
    /\ toClient' = IF cut THEN toClient ELSE toClient \o records
    /\ UNCHANGED <<config, client, keys, cut>>

\* sendAlert, the error, and the flush that handshakeContext does on an error.
ClientFails(c, alert) == ClientSends(FailedClient(c, alert), Alert(c.out, alert))
ServerFails(s, alert) == ServerSends(Failed(s, alert), Alert(s.out, alert))

\* The next message is one that the handler waiting at pc can take.
ClientTakes(pc, type) ==
    /\ client.pc = pc /\ toClient # << >>
    /\ Head(toClient).key = client.in /\ Head(toClient).msg.type = type
    /\ toClient' = Tail(toClient)

ServerTakes(pc, type) ==
    /\ server.pc = pc /\ toServer # << >>
    /\ Head(toServer).key = server.in /\ Head(toServer).msg.type = type
    /\ toServer' = Tail(toServer)

-----------------------------------------------------------------------------
(* The client's hello.                                                     *)

\* loadSession: the pre_shared_key extension and its binder.  A session of the cache has
\* passed the client's own checks.
loadSession(hello) ==
    LET offer == [hello EXCEPT !.pskModes = TRUE, !.psk = config.client.session]
    IN CASE ~config.client.cache \/ config.client.ech.use # "off" -> hello
         [] OTHER -> [offer EXCEPT !.binder = IF offer.psk = "none" THEN << >>
                                              ELSE << offer.psk, << offer >> >>]

SendClientHello ==
    LET offer == echOfferOrGrease(config.client)
        hello == loadSession(offer.hello)
    IN /\ client.pc = "start"
       /\ ClientSends([client EXCEPT !.pc = "serverHello", !.hello = hello, !.inner = offer.inner,
                         !.sealer = offer.sealer, !.offered = offer.offered,
                         !.greased = offer.greased, !.ticket = hello.psk],
                      Records(Plain, << hello >>))
       /\ UNCHANGED toClient

-----------------------------------------------------------------------------
(* The server's answer.                                                    *)

\* The group of processClientHello: the first of the server's that the client supports.
Common(hello) == {i \in DOMAIN config.server.groups :
                    \E j \in DOMAIN hello.groups : hello.groups[j] = config.server.groups[i]}
SelectedGroup(hello) == config.server.groups[CHOOSE i \in Common(hello) : \A j \in Common(hello) : i <= j]
SharesFor(hello, group) == {i \in DOMAIN hello.keyShares : hello.keyShares[i].group = group}

\* checkForResumption: the ticket is known and fits ClientAuth.  "plain" carries no client
\* certificate, "unverified" and "verified" carry one, the latter with chains.
Resumable(hello) ==
    LET auth == config.server.auth
    IN /\ config.server.tickets /\ ~config.server.echAfter /\ hello.pskModes
       /\ hello.psk \in {"plain", "unverified", "verified"}
       /\ requiresClientCert(auth) => hello.psk # "plain"
       /\ auth = "None" => hello.psk = "plain"
       /\ verifiesClientCert(auth) => hello.psk # "unverified"

BinderOK(s) ==
    s.hello.binder = << s.hello.psk, Append(s.transcript, [s.hello EXCEPT !.binder = << >>]) >>

\* The mTLS flag is agreed when both sides support it.
requestClientCert(s) ==
    \/ s.hello.mtls /\ config.server.mtls
    \/ config.server.auth # "None" /\ ~s.usingPSK

\* sendSessionTickets: the Finished to expect from the client, and the ticket.
sendSessionTickets(s) ==
    LET mac == finishedHash("client", s.in, s.transcript)
        transcript == transcriptMsg([type |-> "finished"], s.transcript)
        psk == Secret("resumption", s.in.psk, s.in.share, transcript)
    IN [state |-> [s EXCEPT !.clientFinished = mac, !.transcript = transcript],
        records |-> IF config.server.tickets /\ ~config.server.echAfter /\ s.hello.pskModes
                    THEN Records(s.out, << [type |-> "newSessionTicket", label |-> psk] >>)
                    ELSE << >>]

\* sendServerParameters, sendServerCertificate, sendServerFinished and the flush.
ServerFlight(s) ==
    LET plainHello == serverHelloMsg(FALSE, s.group, s.usingPSK)
        t0 == transcriptMsg(s.hello, s.transcript)
        hello == IF echIsInner(s.hello)
                 THEN [plainHello EXCEPT !.confirm =
                         Confirmation(s.hello.random, transcriptMsg(plainHello, t0))]
                 ELSE plainHello
        t1 == transcriptMsg(hello, t0)
        share == s.hello.keyShares[CHOOSE i \in SharesFor(s.hello, s.group) : TRUE]
        secret == Secret("handshake", IF s.usingPSK THEN s.hello.psk ELSE "none", share, t1)
        parameters == << [type |-> "encryptedExtensions",
                          retryConfigs |-> ~s.ech.accepted /\ s.ech.retryConfigs] >>
        request == IF requestClientCert(s) THEN << [type |-> "certificateRequest"] >> ELSE << >>
        certificate == << [type |-> "certificate", names |-> config.server.names] >>
        before == IF s.usingPSK THEN parameters ELSE parameters \o request \o certificate
        t2 == t1 \o before
        verify == IF s.usingPSK THEN << >>
                  ELSE << [type |-> "certificateVerify", by |-> "server", over |-> t2] >>
        t3 == IF s.usingPSK THEN t2 ELSE transcriptMsg(verify[1], t2)
        finished == [type |-> "finished", mac |-> finishedHash("server", secret, t3)]
        t4 == transcriptMsg(finished, t3)
        app == Secret("application", secret.psk, share, t4)
        sent == [s EXCEPT !.transcript = t4, !.in = secret, !.out = app, !.trafficSecret = app]
        tickets == sendSessionTickets(sent)
        records == Records(Plain, << hello >>) \o Records(secret, before \o verify \o << finished >>)
    IN IF requestClientCert(s)
       THEN ServerSends([sent EXCEPT !.pc = "certificate"], records)
       ELSE ServerSends([tickets.state EXCEPT !.pc = "finished"], records \o tickets.records)

\* checkForResumption, then the flight.
Respond(s) ==
    IF Resumable(s.hello) /\ ~BinderOK(s)
    THEN ServerFails(s, "decrypt_error")
    ELSE ServerFlight([s EXCEPT !.usingPSK = Resumable(s.hello)])

\* doHelloRetryRequest up to its read.
HelloRetryRequest(s) ==
    LET hash == messageHash(transcriptMsg(s.hello, s.transcript))
        request == serverHelloMsg(TRUE, s.group, FALSE)
        confirm == IF echIsInner(s.hello)
                   THEN Confirmation(s.hello.random, transcriptMsg(request, hash)) ELSE Unconfirmed
    IN ServerSends([s EXCEPT !.pc = "secondHello", !.transcript = transcriptMsg(request, hash)],
                   Records(Plain, << [request EXCEPT !.confirm = confirm] >>))

\* readClientHello and processClientHello.
ServerReadHello ==
    LET r == echAcceptOrReject(server.ech, config.server.ech, keys, Head(toServer).msg, FALSE)
        s == [server EXCEPT !.ech = r.ech, !.hello = r.hello, !.asked = keys]
        group == SelectedGroup(r.hello)
    IN /\ ServerTakes("hello", "clientHello")
       /\ CASE r.alert # "none" -> ServerFails(s, r.alert)
            [] r.alert = "none" /\ Common(r.hello) = {} -> ServerFails(s, "handshake_failure")
            [] r.alert = "none" /\ Common(r.hello) # {} ->
                 IF SharesFor(r.hello, group) = {} THEN HelloRetryRequest([s EXCEPT !.group = group])
                 ELSE Respond([s EXCEPT !.group = group])

\* The rest of doHelloRetryRequest; the Config may be GetConfigForClient's by now.
ServerReadSecondHello ==
    LET r == echAcceptOrReject(server.ech, config.server.echAfter, keys, Head(toServer).msg, TRUE)
        s == [server EXCEPT !.ech = r.ech, !.hello = r.hello]
        oneShare == Len(r.hello.keyShares) = 1 /\ r.hello.keyShares[1].group = server.group
    IN /\ ServerTakes("secondHello", "clientHello")
       /\ CASE r.alert # "none" -> ServerFails(s, r.alert)
            [] r.alert = "none" /\ (~oneShare \/ illegalClientHelloChange(r.hello, server.hello)) ->
                 ServerFails(s, "illegal_parameter")
            [] OTHER -> Respond(s)

-----------------------------------------------------------------------------
(* The client reads the server's answer.                                   *)

Private(c, group) == {i \in DOMAIN c.private : c.private[i].group = group}

\* handshake from the ECH confirmation to establishHandshakeKeys.
ProcessServerHello(c, m) ==
    LET confirmed == /\ c.offered
                     /\ m.confirm = Confirmation(c.inner.random, transcriptMsg(m, c.transcriptInner))
        d == [c EXCEPT !.accepted = confirmed,
                       !.hello = IF confirmed THEN c.inner ELSE @,
                       !.transcript = transcriptMsg(m, IF confirmed THEN c.transcriptInner ELSE @)]
        share == c.private[CHOOSE i \in Private(c, m.group) : TRUE]
        secret == Secret("handshake", IF m.psk THEN d.hello.psk ELSE "none", share, d.transcript)
    IN CASE m.retry -> ClientFails(d, "unexpected_message")
         [] ~m.retry /\ (\/ Private(c, m.group) = {}
                         \/ m.psk /\ d.offered /\ ~confirmed
                         \/ m.psk /\ d.hello.psk = "none") ->
              ClientFails(d, "illegal_parameter")
         [] OTHER -> ClientSends([d EXCEPT !.pc = "parameters", !.usingPSK = m.psk,
                                           !.in = secret, !.out = secret], << >>)

\* The hello that answers a HelloRetryRequest: a share of the selected group, a new binder.
SecondHello(hello, group, transcript) ==
    LET second == [hello EXCEPT !.keyShares = KeyShares(<< group >>, "retry"), !.binder = << >>]
    IN [second EXCEPT !.binder = IF second.psk = "none" THEN << >>
                                 ELSE << second.psk, Append(transcript, second) >>]

\* processHelloRetryRequest up to its read.
ProcessHelloRetryRequest(c, m) ==
    LET t == transcriptMsg(m, messageHash(c.transcript))
        ti == transcriptMsg(m, messageHash(c.transcriptInner))
        isInner == c.offered /\ m.confirm = Confirmation(c.inner.random, ti)
        hello == SecondHello(IF isInner THEN c.inner ELSE c.hello, m.group, t)
        outer == IF isInner
                 THEN echUpdateClientHelloOuter(c.hello, hello, c.sealer, c.hello.ech.configId, "none")
                 ELSE hello
        d == [c EXCEPT !.pc = "secondServerHello", !.hello = outer,
                !.inner = IF isInner THEN hello ELSE @,
                !.private = KeyShares(<< m.group >>, "retry"),
                !.sealer = IF isInner THEN Used(@) ELSE @,
                !.transcript = transcriptMsg(outer, t),
                !.transcriptInner = IF isInner THEN transcriptMsg(hello, ti) ELSE ti]
    IN IF (\E i \in DOMAIN hello.groups : hello.groups[i] = m.group) /\ Private(c, m.group) = {}
       THEN ClientSends(d, Records(Plain, << outer >>))
       ELSE ClientFails(c, "illegal_parameter")

ClientReadServerHello ==
    LET c == [client EXCEPT !.transcript = transcriptMsg(client.hello, << >>),
                            !.transcriptInner = transcriptMsg(client.inner, << >>)]
        m == Head(toClient).msg
    IN /\ ClientTakes("serverHello", "serverHello")
       /\ IF m.retry THEN ProcessHelloRetryRequest(c, m) ELSE ProcessServerHello(c, m)

ClientReadSecondServerHello ==
    /\ ClientTakes("secondServerHello", "serverHello")
    /\ ProcessServerHello(client, Head(toClient).msg)

\* readServerParameters.
ClientReadParameters ==
    LET m == Head(toClient).msg
        c == [client EXCEPT !.transcript = transcriptMsg(m, @),
                            !.retryConfigs = client.offered /\ m.retryConfigs,
                            !.pc = IF client.usingPSK THEN "finished" ELSE "certificate"]
    IN /\ ClientTakes("parameters", "encryptedExtensions")
       /\ IF client.accepted /\ m.retryConfigs THEN ClientFails(c, "unsupported_extension")
          ELSE ClientSends(c, << >>)

\* readServerCertificate with verifyServerCertificate, one message at a time.
ClientReadCertificateRequest ==
    /\ ClientTakes("certificate", "certificateRequest")
    /\ ClientSends([client EXCEPT !.pc = "requested", !.certReq = TRUE,
                      !.transcript = transcriptMsg(Head(toClient).msg, @)], << >>)

ClientReadCertificate(pc) ==
    LET m == Head(toClient).msg
        name == IF client.offered /\ ~client.accepted THEN client.hello.serverName ELSE "private"
        c == [client EXCEPT !.pc = "verify", !.transcript = transcriptMsg(m, @)]
    IN /\ ClientTakes(pc, "certificate")
       /\ IF name \in m.names THEN ClientSends(c, << >>) ELSE ClientFails(c, "bad_certificate")

ClientReadCertificateVerify ==
    LET m == Head(toClient).msg
        c == [client EXCEPT !.pc = "finished", !.transcript = transcriptMsg(m, @)]
    IN /\ ClientTakes("verify", "certificateVerify")
       /\ IF m.by = "server" /\ m.over = client.transcript THEN ClientSends(c, << >>)
          ELSE ClientFails(client, "decrypt_error")

\* readServerFinished, sendClientCertificate, sendClientFinished, abortIfRequired, the flush.
ClientFlight(c) ==
    LET m == [type |-> "finished"]
        t4 == transcriptMsg(m, c.transcript)
        app == Secret("application", c.in.psk, c.in.share, t4)
        cert == config.client.cert
        certificate == IF c.certReq THEN << [type |-> "certificate", cert |-> cert] >> ELSE << >>
        t5 == t4 \o certificate
        verify == IF c.certReq /\ cert # "none"
                  THEN << [type |-> "certificateVerify", by |-> "client", over |-> t5] >> ELSE << >>
        t6 == IF verify = << >> THEN t5 ELSE transcriptMsg(verify[1], t5)
        finished == << [type |-> "finished", mac |-> finishedHash("client", c.out, t6)] >>
        t7 == transcriptMsg(m, t6)
        d == [c EXCEPT !.pc = "done", !.result = "complete", !.transcript = t7, !.in = app, !.out = app,
                       !.resumption = Secret("resumption", c.in.psk, c.in.share, t7)]
        records == Records(c.out, certificate \o verify \o finished)
    IN IF c.offered /\ ~c.accepted
       THEN ClientSends(FailedClient(d, "ech_required"), records \o Alert(app, "ech_required"))
       ELSE ClientSends(d, records)

ClientReadFinished ==
    /\ ClientTakes("finished", "finished")
    /\ IF Head(toClient).msg.mac = finishedHash("server", client.in, client.transcript)
       THEN ClientFlight(client)
       ELSE ClientFails(client, "decrypt_error")

-----------------------------------------------------------------------------
(* The server reads the client's second flight.                            *)

\* readClientCertificate with processCertsFromClient.
ServerReadCertificate ==
    LET cert == Head(toServer).msg.cert
        auth == config.server.auth
        s == [server EXCEPT !.peer = cert, !.transcript = transcriptMsg(Head(toServer).msg, @)]
        tickets == sendSessionTickets(s)
    IN /\ ServerTakes("certificate", "certificate")
       /\ CASE cert = "none" /\ requiresClientCert(auth) -> ServerFails(s, "certificate_required")
            [] cert = "none" /\ ~requiresClientCert(auth) ->
                 ServerSends([tickets.state EXCEPT !.pc = "finished"], tickets.records)
            [] cert = "untrusted" /\ verifiesClientCert(auth) -> ServerFails(s, "unknown_ca")
            [] cert = "trusted" \/ (cert = "untrusted" /\ ~verifiesClientCert(auth)) ->
                 ServerSends([s EXCEPT !.pc = "verify"], << >>)

ServerReadCertificateVerify ==
    LET m == Head(toServer).msg
        tickets == sendSessionTickets([server EXCEPT !.transcript = transcriptMsg(m, @)])
    IN /\ ServerTakes("verify", "certificateVerify")
       /\ IF m.by = "client" /\ m.over = server.transcript
          THEN ServerSends([tickets.state EXCEPT !.pc = "finished"], tickets.records)
          ELSE ServerFails(server, "decrypt_error")

ServerReadFinished ==
    /\ ServerTakes("finished", "finished")
    /\ IF Head(toServer).msg.mac = server.clientFinished
       THEN ServerSends([server EXCEPT !.pc = "done", !.result = "complete",
                                       !.in = server.trafficSecret], << >>)
       ELSE ServerFails(server, "decrypt_error")

-----------------------------------------------------------------------------
(* Alerts, messages out of order, a broken connection; after the handshake. *)

\* What the handlers that wait for a message take.
Wanted(pc) == CASE pc \in {"hello", "secondHello"} -> {"clientHello"}
                [] pc \in {"serverHello", "secondServerHello"} -> {"serverHello"}
                [] pc = "parameters" -> {"encryptedExtensions"}
                [] pc = "requested" -> {"certificate"}
                [] pc = "verify" -> {"certificateVerify"}
                [] pc = "finished" -> {"finished"}
                [] OTHER -> {}
ClientWanted == IF client.pc = "certificate" THEN {"certificateRequest", "certificate"} ELSE Wanted(client.pc)
ServerWanted == IF server.pc = "certificate" THEN {"certificate"} ELSE Wanted(server.pc)

\* The alert that answers a record that is neither wanted nor an alert.
Objection(in, record) ==
    IF in # record.key /\ in # Plain /\ record.key # Plain THEN "bad_record_mac" ELSE "unexpected_message"

ClientRefuses ==
    LET r == Head(toClient)
    IN /\ client.pc \notin {"start", "done"} /\ toClient # << >>
       /\ ~(r.key = client.in /\ r.msg.type \in ClientWanted)
       /\ toClient' = Tail(toClient)
       /\ IF r.key = client.in /\ r.msg.type = "alert"
          THEN ClientSends(FailedClient(client, "remote"), << >>)
          ELSE ClientFails(client, Objection(client.in, r))

ServerRefuses ==
    LET r == Head(toServer)
    IN /\ server.pc # "done" /\ toServer # << >>
       /\ ~(r.key = server.in /\ r.msg.type \in ServerWanted)
       /\ toServer' = Tail(toServer)
       /\ IF r.key = server.in /\ r.msg.type = "alert"
          THEN ServerSends(Failed(server, "remote"), << >>)
          ELSE ServerFails(server, Objection(server.in, r))

ClientReadBroken ==
    /\ cut /\ client.pc \notin {"start", "done"} /\ toClient = << >>
    /\ client' = FailedClient(client, "broken")
    /\ UNCHANGED <<config, server, toServer, toClient, keys, cut>>

ServerReadBroken ==
    /\ cut /\ server.pc # "done" /\ toServer = << >>
    /\ server' = Failed(server, "broken")
    /\ UNCHANGED <<config, client, toServer, toClient, keys, cut>>

\* Read after the handshake: a session ticket (handleNewSessionTicket) or an alert.
ClientReadAfter ==
    LET r == Head(toClient)
        stores == config.client.cache /\ config.client.ech.use = "off"
    IN /\ client.result = "complete" /\ client.after = "none" /\ toClient # << >>
       /\ toClient' = Tail(toClient)
       /\ client' = CASE r.key # client.in -> [client EXCEPT !.after = "bad_record_mac"]
                      [] r.key = client.in /\ r.msg.type = "alert" -> [client EXCEPT !.after = r.msg.alert]
                      [] r.key = client.in /\ r.msg.type = "newSessionTicket" ->
                           IF stores THEN [client EXCEPT !.ticket = "new", !.label = r.msg.label] ELSE client
       /\ UNCHANGED <<config, server, toServer, keys, cut>>

\* An ech_required alert tells the server that its client did offer ECH.
AfterAlert(ech, alert) ==
    [ech EXCEPT !.offered = @ \/ (ech.greased /\ alert = "ech_required"),
                !.greased = @ /\ alert # "ech_required"]

ServerReadAfter ==
    LET r == Head(toServer)
    IN /\ server.result = "complete" /\ server.after = "none" /\ toServer # << >>
       /\ toServer' = Tail(toServer)
       /\ server' = IF r.key # server.in THEN [server EXCEPT !.after = "bad_record_mac"]
                    ELSE [server EXCEPT !.after = r.msg.alert, !.ech = AfterAlert(@, r.msg.alert)]
       /\ UNCHANGED <<config, client, toClient, keys, cut>>

-----------------------------------------------------------------------------

\* The operator replaces the keys of the ECH provider.  Only the reading of a hello sees it.
Rotate ==
    /\ keys # config.server.rotated /\ server.pc \in {"hello", "secondHello"}
    /\ keys' = config.server.rotated
    /\ UNCHANGED <<config, client, server, toServer, toClient, cut>>

\* The connection breaks: a suffix of what is under way is lost.
Cut ==
    /\ ~cut /\ cut' = TRUE
    /\ \E i \in 0..Len(toServer), j \in 0..Len(toClient) :
         toServer' = SubSeq(toServer, 1, i) /\ toClient' = SubSeq(toClient, 1, j)
    /\ UNCHANGED <<config, client, server, keys>>

ClientNext ==
    \/ SendClientHello \/ ClientReadServerHello \/ ClientReadSecondServerHello
    \/ ClientReadParameters \/ ClientReadCertificateRequest
    \/ \E pc \in {"certificate", "requested"} : ClientReadCertificate(pc)
    \/ ClientReadCertificateVerify \/ ClientReadFinished
    \/ ClientRefuses \/ ClientReadBroken \/ ClientReadAfter

ServerNext ==
    \/ ServerReadHello \/ ServerReadSecondHello \/ ServerReadCertificate
    \/ ServerReadCertificateVerify \/ ServerReadFinished
    \/ ServerRefuses \/ ServerReadBroken \/ ServerReadAfter

Next == ClientNext \/ ServerNext \/ Rotate \/ Cut

Spec == Init /\ [][Next]_vars

\* Both sides keep running; the connection need not break nor the operator act.
FairSpec == Spec /\ WF_vars(ClientNext) /\ WF_vars(ServerNext)

-----------------------------------------------------------------------------
(* What the two sides agree on.                                            *)

Parameters(secret, accepted, resumed) == [secret |-> secret, accepted |-> accepted, resumed |-> resumed]
End(side) == CASE side.pc # "done" -> "running" [] side.pc = "done" ->
                  IF side.result = "complete" THEN "complete" ELSE "failed"

\* What a server committed to, a client confirmed, and a server completed with.
ServerOffer(s) ==
    IF s.trafficSecret = Plain THEN << >>
    ELSE << Parameters(s.trafficSecret, s.ech.accepted, s.usingPSK) >>
ClientAnswer(c, k) ==
    IF c.in.stage # "application" THEN << >>
    ELSE << [parameters |-> Parameters(c.in, c.accepted, c.usingPSK),
             cert |-> IF c.certReq THEN k.client.cert ELSE "none"] >>
ServerAccepted(s) ==
    IF s.result # "complete" THEN << >>
    ELSE << [parameters |-> Parameters(s.trafficSecret, s.ech.accepted, s.usingPSK), cert |-> s.peer] >>

Promise == INSTANCE Agreement WITH
    Certs <- Certificates,
    offer <- ServerOffer(server), answer <- ClientAnswer(client, config),
    accepted <- ServerAccepted(server), clientEnd <- End(client), serverEnd <- End(server)

\* The handshake implements Agreement: a client completes, or fails with ech_required, only
\* on the secrets, ECH verdict and resumption the server committed to, and a server only
\* with the client's own Finished and the certificate that client sent.
ImplementsAgreement == Promise!Spec
==============================================================================
