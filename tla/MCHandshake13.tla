---------------------------- MODULE MCHandshake13 ----------------------------
(* Handshake13 for TLC: families of configurations, and what each one must   *)
(* come to.                                                                  *)
EXTENDS Handshake13, SequencesExt, TLC

CONSTANT Families    \* which of the families below

NoKeys == << >>

BaseClient == [groups |-> << "x25519", "kyber" >>, guess |-> << "x25519" >>, mtls |-> FALSE,
               ech |-> [use |-> "off", configId |-> 0, key |-> "none"],
               cache |-> FALSE, session |-> "none", cert |-> "none"]
BaseServer == [groups |-> << "x25519" >>, mtls |-> FALSE, ech |-> FALSE, echAfter |-> FALSE,
               keys |-> NoKeys, rotated |-> NoKeys, tickets |-> TRUE, auth |-> "None",
               names |-> {"private", "public"}]

Pair(c, s) == [client |-> c, server |-> s]

Off == BaseClient.ech
Grease == [Off EXCEPT !.use = "grease", !.configId = 1]
Offer(configId, key) == [use |-> "offer", configId |-> configId, key |-> key]

\* Key shares, HelloRetryRequest and the certificate's names.
Groups ==
    {Pair([BaseClient EXCEPT !.guess = guess], [BaseServer EXCEPT !.groups = groups, !.names = names]) :
       guess \in {<< >>, << "kyber" >>, << "x25519", "kyber" >>},
       groups \in {<< "x25519" >>, << "kyber", "x25519" >>, << "p256" >>},
       names \in {{"private"}, {"public"}}}

\* ECH: a configuration the provider knows, one whose identifier it knows with another key,
\* one it learns or forgets while the handshake runs, GREASE, and a server without ECH.
Encrypted ==
    {Pair([BaseClient EXCEPT !.guess = guess, !.ech = ech, !.cache = session # "none", !.session = session],
          [BaseServer EXCEPT !.ech = on, !.echAfter = on, !.names = names,
             !.keys = IF on THEN known.before ELSE NoKeys, !.rotated = IF on THEN known.after ELSE NoKeys]) :
       guess \in {<< "x25519" >>, << "kyber" >>},
       ech \in {Off, Grease, Offer(1, "A"), Offer(1, "B"), Offer(2, "B")},
       on \in BOOLEAN, session \in {"none", "plain"},
       names \in {{"private", "public"}, {"private"}, {"public"}},
       known \in {[before |-> 1 :> "A", after |-> 2 :> "B"], [before |-> 1 :> "A", after |-> 1 :> "B"],
                  [before |-> NoKeys, after |-> 1 :> "A"]}}

Auths == {"None", "Request", "RequireAny", "VerifyIfGiven", "RequireAndVerify"}

\* Sessions against client authentication.
Resumed ==
    {Pair([BaseClient EXCEPT !.guess = guess, !.cache = TRUE, !.session = session, !.cert = cert],
          [BaseServer EXCEPT !.auth = auth, !.tickets = tickets]) :
       guess \in {<< "x25519" >>, << "kyber" >>},
       session \in {"none", "foreign", "plain", "unverified", "verified"},
       cert \in Certificates, auth \in Auths, tickets \in BOOLEAN}

\* Client authentication with the mTLS flag, and with ECH accepted or rejected.
Authenticated ==
    {Pair([BaseClient EXCEPT !.guess = guess, !.mtls = mtls, !.cert = cert, !.ech = ech],
          [BaseServer EXCEPT !.mtls = TRUE, !.auth = auth, !.ech = TRUE, !.echAfter = TRUE,
                             !.keys = 1 :> "A", !.rotated = 1 :> "A"]) :
       guess \in {<< "x25519" >>, << "kyber" >>}, mtls \in BOOLEAN, cert \in Certificates,
       ech \in {Off, Offer(1, "A"), Offer(1, "B")}, auth \in Auths}

\* The mTLS flag on both sides and a session the server resumes.
FlagAndSession ==
    {Pair([BaseClient EXCEPT !.mtls = TRUE, !.cache = TRUE, !.session = "plain", !.cert = "trusted"],
          [BaseServer EXCEPT !.mtls = TRUE])}

\* GetConfigForClient returns a Config with ECH off, or on, between the two hellos.
ForClient ==
    {Pair([BaseClient EXCEPT !.guess = << "kyber" >>, !.ech = Offer(1, "A")],
          [BaseServer EXCEPT !.ech = on, !.echAfter = ~on, !.keys = 1 :> "A", !.rotated = 1 :> "A"]) :
       on \in BOOLEAN}

MCConfigurations ==
    UNION {CASE f = "groups" -> Groups [] f = "encrypted" -> Encrypted [] f = "resumed" -> Resumed
             [] f = "authenticated" -> Authenticated [] f = "flag" -> FlagAndSession
             [] f = "forclient" -> ForClient : f \in Families}

-----------------------------------------------------------------------------

Quiet == client.pc # "start" /\ toClient = << >> /\ toServer = << >>

\* What the two Configs, and the provider's keys at the first hello, come to.
Expected ==
    LET c == config.client
        s == config.server
        offered == c.ech.use = "offer"
        accepted == offered /\ s.ech /\ c.ech.configId \in DOMAIN server.asked
                    /\ server.asked[c.ech.configId] = c.ech.key
        noGroup == ToSet(c.groups) \cap ToSet(s.groups) = {}
        resumed == /\ c.cache /\ c.ech.use = "off" /\ s.tickets /\ ~s.ech
                   /\ \/ c.session = "plain" /\ ~requiresClientCert(s.auth)
                      \/ c.session = "unverified" /\ s.auth \in {"Request", "RequireAny"}
                      \/ c.session = "verified" /\ s.auth # "None"
        misnamed == ~resumed /\ (IF offered /\ ~accepted THEN "public" ELSE "private") \notin s.names
        asked == ~resumed /\ (s.auth # "None" \/ (c.mtls /\ s.mtls))
        refusal == CASE asked /\ c.cert = "none" /\ requiresClientCert(s.auth) -> "certificate_required"
                     [] asked /\ c.cert = "untrusted" /\ verifiesClientCert(s.auth) -> "unknown_ca"
                     [] OTHER -> "none"
        ticket == c.cache /\ c.ech.use = "off" /\ s.tickets /\ ~s.ech
    IN [client |-> CASE noGroup -> "remote" [] ~noGroup /\ misnamed -> "bad_certificate"
                     [] ~noGroup /\ ~misnamed -> IF offered /\ ~accepted THEN "ech_required" ELSE "complete",
        server |-> CASE noGroup -> "handshake_failure" [] ~noGroup /\ misnamed -> "remote"
                     [] ~noGroup /\ ~misnamed -> IF refusal = "none" THEN "complete" ELSE refusal,
        accepted |-> accepted, resumed |-> resumed, peer |-> IF asked THEN c.cert ELSE "none",
        clientAfter |-> refusal, serverAfter |-> IF offered /\ ~accepted THEN "ech_required" ELSE "none",
        ticket |-> ticket /\ refusal = "none"]

\* When no message is under way on a connection that did not break, nobody waits for one,
\* and the handshake has ended as the two Configs say: who
\* completes, who fails with which alert and what the other then reads, whether ECH was
\* accepted, whether the session was resumed, whose certificate the server has, and a new
\* ticket whose secret both sides share.  HelloRetryRequest, the keys of the ECH provider
\* changing under way and the order of the steps make no difference.
Outcome ==
    Quiet /\ ~cut =>
      /\ client.pc = "done" /\ server.pc = "done"
      /\ client.result = Expected.client /\ server.result = Expected.server
      /\ server.ech.accepted = Expected.accepted
      /\ client.result = "complete" =>
           /\ client.accepted = Expected.accepted /\ client.usingPSK = Expected.resumed
           /\ client.after = Expected.clientAfter
           /\ client.ticket = "new" <=> Expected.ticket
           /\ Expected.ticket => client.label = client.resumption
      /\ server.result = "complete" =>
           /\ server.usingPSK = Expected.resumed /\ server.peer = Expected.peer
           /\ server.after = Expected.serverAfter
           /\ config.server.ech => server.ech.offered = (config.client.ech.use = "offer")
      /\ client.result = "ech_required" =>
           /\ config.server.ech /\ DOMAIN server.asked # {} => client.retryConfigs
           /\ client.retryConfigs => config.server.ech

\* A name of up to MaxNameLen bytes is padded to it, as the comment of
\* echEncodeClientHelloInner says ("add max(0, L - D) bytes of padding").
MaxNameLen == 40
NamePadded ==
    \A base \in 0..31, nameLen \in 1..MaxNameLen :
      PaddingLen(base + nameLen, nameLen, MaxNameLen) >= MaxNameLen - nameLen

\* Whatever the Configs and wherever the connection breaks, both sides stop waiting.
HandshakesEnd == <>(client.pc = "done" /\ server.pc = "done")
=============================================================================
