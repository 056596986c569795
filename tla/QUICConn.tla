------------------------------ MODULE QUICConn ------------------------------
(***************************************************************************)
(* A client and a server QUICConn (quic.go) and the QUIC implementations   *)
(* that use them.  Each side is two goroutines: the user, who calls the    *)
(* methods of the QUICConn one at a time, and the handshake, which Start   *)
(* spawns.  They hand the connection to each other over the unbuffered     *)
(* channels blockedc and signalc, until the handshake closes both.  The    *)
(* users carry the data of the events to the other side.                   *)
(*                                                                         *)
(* Handshake messages are names; each is sent in Frags pieces, which       *)
(* arrive in their order, any number of them in one call of HandleData.    *)
(* Secrets are left out: an event names its encryption level.              *)
(***************************************************************************)
EXTENDS Naturals, Sequences

CONSTANTS
    Frags,        \* pieces of a message
    OfferEarly,   \* the client resumes a session that allows 0-RTT
    MayRetry,     \* the server may send a HelloRetryRequest
    MayFail,      \* the sides whose handshake may fail a check
    MayCancel,    \* the sides whose context may be cancelled, or which call Close
    BadTicket     \* the client may refuse the server's session ticket

Sides == {"client", "server"}

ASSUME FragsAssumption == Frags \in Nat \ {0}
ASSUME SidesAssumption == MayFail \subseteq Sides /\ MayCancel \subseteq Sides
ASSUME FlagsAssumption == {OfferEarly, MayRetry, BadTicket} \subseteq BOOLEAN

Levels == {"Initial", "Early", "Handshake", "Application"}
Kinds == {"SetReadSecret", "SetWriteSecret", "WriteData", "TransportParameters",
          "TransportParametersRequired", "RejectedEarlyData", "HandshakeDone"}
Messages == {"ClientHello", "HelloRetryRequest", "ServerHello", "EncryptedExtensions",
             "EarlyAccepted", "Finished", "NewSessionTicket"}

VARIABLES
    conn,  \* conn[s]: the QUICConn of side s, its Conn and its two goroutines
    net    \* net[s]: the pieces on their way to side s

vars == <<conn, net>>

Other(s) == IF s = "client" THEN "server" ELSE "client"

Piece == [level : Levels, msg : Messages]

\* What the user of side s does, and where the handshake is.
Calls == {"idle", "start", "hd_signal", "hd_blocked", "hd_lock", "hd_post", "tp_signal",
          "tp_blocked", "close", "cs_lock"}
Places == {"none", "run", "blocked", "signal", "relock", "unwind", "closing", "done"}
Steps == {"params", "read_hello", "read_hello2", "read_ee", "read_fin"}

TypeOK ==
    /\ net \in [Sides -> Seq(Piece)]
    /\ DOMAIN conn = Sides
    /\ \A s \in Sides :
         /\ conn[s].call \in Calls /\ conn[s].place \in Places /\ conn[s].step \in Steps
         /\ conn[s].handshakeMutex \in {"free", "user", "handshake"}
         /\ conn[s].readbuf \in Seq(Piece) /\ conn[s].hand \in Seq(Piece)
         /\ conn[s].inLevel \in Levels /\ conn[s].outLevel \in Levels
         /\ conn[s].secrets \subseteq Levels /\ conn[s].log \in Seq(Kinds \X Levels)
         /\ {conn[s].started, conn[s].transportParams, conn[s].paramsEarly, conn[s].canceled,
             conn[s].isHandshakeComplete, conn[s].handshakeErr, conn[s].early,
             conn[s].sessionTicketSent, conn[s].alert, conn[s].wrongLevel, conn[s].asked}
              \subseteq BOOLEAN

Init ==
    /\ net = [s \in Sides |-> << >>]
    /\ conn = [s \in Sides |->
         [call |-> "idle", place |-> "none",
          step |-> IF s = "client" THEN "params" ELSE "read_hello",
          handshakeMutex |-> "free",
          readbuf |-> << >>,             \* c.quic.readbuf
          hand |-> << >>,                \* c.hand
          events |-> << >>,              \* c.quic.events from nextEvent on
          log |-> << >>,                 \* the kinds and levels of all events so far
          inLevel |-> "Initial",         \* c.in.level
          outLevel |-> "Initial",        \* c.out.level
          secrets |-> {"Initial"},       \* the levels whose packets the user can read
          started |-> FALSE,
          transportParams |-> FALSE,     \* c.quic.transportParams != nil
          paramsEarly |-> FALSE,         \* they were set before Start
          canceled |-> FALSE,            \* c.quic.cancelc is closed
          isHandshakeComplete |-> FALSE,
          handshakeErr |-> FALSE,        \* c.handshakeErr != nil
          early |-> s = "client" /\ OfferEarly,  \* hello.earlyData, hs.earlyData
          sessionTicketSent |-> FALSE,
          alert |-> FALSE,               \* sendAlert was called with data left in hand
          wrongLevel |-> FALSE,          \* HandleData refused data
          asked |-> FALSE]]              \* ConnectionState was called

-----------------------------------------------------------------------------
(* The events, as functions from a connection c to what it becomes.        *)

Noted(c, kind, level) ==
    LET e == [kind |-> kind, level |-> level, data |-> << >>]
    IN  [c EXCEPT !.events = Append(@, e), !.log = Append(@, <<kind, level>>)]

\* quicWriteCryptoData: the data joins the last event if that has the same level.
Wrote(c, m) ==
    LET n == Len(c.events)
        data == [i \in 1..Frags |-> [level |-> c.outLevel, msg |-> m]]
        d == IF n = 0 \/ c.events[n].kind # "WriteData" \/ c.events[n].level # c.outLevel
             THEN Noted(c, "WriteData", c.outLevel) ELSE c
    IN  [d EXCEPT !.events[Len(d.events)].data = @ \o data]

\* The message at the head of c.hand, and c without it.
HasMessage(c) == Len(c.hand) >= Frags
Took(c) == [c EXCEPT !.hand = SubSeq(@, Frags + 1, Len(@))]

\* Data left over when the keys change is answered by an alert, and the
\* handshake goes on.
Checked(c) == [c EXCEPT !.alert = @ \/ c.hand # << >>]

\* Both directions get handshake keys, the writing one application keys.
\* A faulty variant forgets the reading one.
HandshakeKeysOut(c) ==
    Noted(Noted(Checked([c EXCEPT !.outLevel = "Handshake"]), "SetWriteSecret", "Handshake"),
          "SetReadSecret", "Handshake")

HandshakeKeys(c) ==
    Noted(Noted(Checked([c EXCEPT !.inLevel = "Handshake", !.outLevel = "Handshake"]),
                "SetWriteSecret", "Handshake"),
          "SetReadSecret", "Handshake")

ApplicationKeys(c) ==
    Noted(Checked([c EXCEPT !.outLevel = "Application"]), "SetWriteSecret", "Application")

Closing(c) == [c EXCEPT !.place = "closing"]

\* The end of handshakeContext.  A faulty variant hands out the 1-RTT read secret
\* before the handshake is done.
CompletedEarlySecret(c) ==
    Closing(Noted(Noted([c EXCEPT !.isHandshakeComplete = TRUE],
                        "SetReadSecret", "Application"),
                  "HandshakeDone", "Application"))

Completed(c) ==
    Closing(Noted(Noted([c EXCEPT !.isHandshakeComplete = TRUE],
                        "HandshakeDone", "Application"),
                  "SetReadSecret", "Application"))

Failed(c) == Closing([c EXCEPT !.handshakeErr = TRUE])

-----------------------------------------------------------------------------
(* The handshake goroutine.                                                *)

Becomes(s, c) == conn' = [conn EXCEPT ![s] = c] /\ UNCHANGED net

\* The step l of the handshake of s runs; the step that reads m has it.
Runs(s, l) == conn[s].place = "run" /\ conn[s].step = l

Reads(s, l, m) == Runs(s, l) /\ HasMessage(conn[s]) /\ conn[s].hand[1].msg = m

\* The start of quicWaitForSignal.  A faulty variant keeps handshakeMutex.
WaitLocked(c) == [c EXCEPT !.place = "blocked"]

Wait(c) == [c EXCEPT !.place = "blocked", !.handshakeMutex = "free"]

\* quicReadHandshakeBytes.
NeedData(s) ==
    /\ conn[s].place = "run" /\ conn[s].step # "params" /\ ~HasMessage(conn[s])
    /\ Becomes(s, Wait(conn[s]))

\* quicGetTransportParameters.
Required == <<"TransportParametersRequired", "Initial">>

HasLogged(c, e) == \E i \in DOMAIN c.log : c.log[i] = e

NeedParams(s) ==
    /\ Runs(s, "params") /\ ~conn[s].transportParams
    /\ Becomes(s, Wait(IF HasLogged(conn[s], Required) THEN conn[s]
                       ELSE Noted(conn[s], "TransportParametersRequired", "Initial")))

\* quicWaitForSignal: the rendezvous with the user, or the cancellation.
BlockedSend(s) ==
    LET c == conn[s] IN
    /\ c.place = "blocked" /\ c.call \in {"start", "hd_blocked", "tp_blocked", "close"}
    /\ Becomes(s, [c EXCEPT !.place = "signal",
                            !.call = IF @ = "close" THEN "close" ELSE "idle"])

SignalSend(s) ==
    LET c == conn[s] IN
    /\ c.place = "signal" /\ c.call \in {"hd_signal", "tp_signal"}
    /\ Becomes(s, [c EXCEPT !.place = "relock", !.hand = @ \o c.readbuf, !.readbuf = << >>,
                            !.call = IF @ = "hd_signal" THEN "hd_blocked" ELSE "tp_blocked"])

CancelTo(s, l) ==
    /\ conn[s].place \in {"blocked", "signal"} /\ conn[s].canceled
    /\ Becomes(s, [conn[s] EXCEPT !.place = l])

\* A faulty variant: the cancellation is not reported.
WaitCanceledGoesOn(s) == CancelTo(s, "relock")

WaitCanceled(s) == CancelTo(s, "unwind")

Relock(s) ==
    /\ conn[s].place = "relock" /\ conn[s].handshakeMutex = "free"
    /\ Becomes(s, [conn[s] EXCEPT !.place = "run", !.handshakeMutex = "handshake"])

Unwind(s) ==
    /\ conn[s].place = "unwind" /\ conn[s].handshakeMutex = "free"
    /\ Becomes(s, Failed([conn[s] EXCEPT !.handshakeMutex = "handshake"]))

\* A message or a check of the handshake fails.
Abort(s) ==
    /\ conn[s].place = "run" /\ s \in MayFail
    /\ Becomes(s, Failed(conn[s]))

\* blockedc is closed; signalc is closed next, and the mutex is unlocked.
CloseChannels(s) ==
    /\ conn[s].place = "closing"
    /\ Becomes(s, [conn[s] EXCEPT !.place = "done", !.handshakeMutex = "free"])

\* clientHandshake.
ClientHello(s) ==
    LET c == Wrote([conn[s] EXCEPT !.step = "read_hello"], "ClientHello") IN
    /\ s = "client" /\ Runs(s, "params") /\ conn[s].transportParams
    /\ Becomes(s, IF c.early THEN Noted(c, "SetWriteSecret", "Early") ELSE c)

\* quicRejectedEarlyData.
Reject(c) == Noted([c EXCEPT !.early = FALSE], "RejectedEarlyData", "Early")

ClientRetry(s) ==
    LET c == Took([conn[s] EXCEPT !.step = "read_hello2"]) IN
    /\ s = "client" /\ Reads(s, "read_hello", "HelloRetryRequest")
    /\ Becomes(s, Wrote(IF c.early THEN Reject(c) ELSE c, "ClientHello"))

ClientKeys(s) ==
    /\ s = "client" /\ \E l \in {"read_hello", "read_hello2"} : Reads(s, l, "ServerHello")
    /\ Becomes(s, HandshakeKeys(Took([conn[s] EXCEPT !.step = "read_ee"])))

\* readServerParameters.  A faulty variant does not look at the server's answer to
\* early data.
ClientParametersUnread(s, m) ==
    /\ s = "client" /\ m \in {"EncryptedExtensions", "EarlyAccepted"} /\ Reads(s, "read_ee", m)
    /\ Becomes(s, Noted(Took([conn[s] EXCEPT !.step = "read_fin"]),
                        "TransportParameters", "Handshake"))

ClientParameters(s, m) ==
    LET c == Noted(Took([conn[s] EXCEPT !.step = "read_fin"]),
                   "TransportParameters", "Handshake") IN
    /\ s = "client" /\ m \in {"EncryptedExtensions", "EarlyAccepted"} /\ Reads(s, "read_ee", m)
    /\ Becomes(s, IF c.early /\ m = "EncryptedExtensions" THEN Reject(c) ELSE c)

\* readServerFinished, sendClientFinished and the end of the handshake.
ClientFinished(s) ==
    LET c == [Took(conn[s]) EXCEPT !.inLevel = "Application"] IN
    /\ s = "client" /\ Reads(s, "read_fin", "Finished")
    /\ Becomes(s, Completed(ApplicationKeys(Wrote(c, "Finished"))))

\* doHelloRetryRequest.
ServerRetry(s) ==
    /\ s = "server" /\ MayRetry /\ Reads(s, "read_hello", "ClientHello")
    /\ Becomes(s, Wrote(Took([conn[s] EXCEPT !.step = "read_hello2"]), "HelloRetryRequest"))

\* processClientHello, checkForResumption and the ServerHello.  Early data is
\* accepted or not; a retried ClientHello offers none.
ServerHello(s, accept) ==
    LET c == Noted(Took([conn[s] EXCEPT !.step = "params", !.early = accept]),
                   "TransportParameters", "Initial")
        d == IF accept THEN Noted(c, "SetReadSecret", "Early") ELSE c IN
    /\ s = "server"
    /\ \/ Reads(s, "read_hello", "ClientHello") /\ (accept => OfferEarly)
       \/ Reads(s, "read_hello2", "ClientHello") /\ ~accept
    /\ Becomes(s, HandshakeKeys(Wrote(d, "ServerHello")))

\* The rest of the server's flight; then the Finished of the client.
ServerFlight(s) ==
    LET c == [conn[s] EXCEPT !.step = "read_fin"]
        ee == IF c.early THEN "EarlyAccepted" ELSE "EncryptedExtensions" IN
    /\ s = "server" /\ Runs(s, "params") /\ conn[s].transportParams
    /\ Becomes(s, ApplicationKeys(Wrote(Wrote(c, ee), "Finished")))

ServerFinished(s) ==
    /\ s = "server" /\ Reads(s, "read_fin", "Finished")
    /\ Becomes(s, Completed([Took(conn[s]) EXCEPT !.inLevel = "Application"]))

-----------------------------------------------------------------------------
(* The user of side s.                                                     *)

Idle(s) == conn[s].call = "idle"

\* blockedc and signalc are closed.
BlockedClosed(s) == conn[s].place \in {"closing", "done"}
SignalClosed(s) == conn[s].place = "done"

\* handshakeContext locks handshakeMutex before the user can call anything else.
Start(s) ==
    /\ Idle(s) /\ ~conn[s].started
    /\ Becomes(s, [conn[s] EXCEPT !.started = TRUE, !.call = "start", !.place = "run",
                                  !.handshakeMutex = "handshake"])

\* The user's context is cancelled.
Cancel(s) ==
    /\ s \in MayCancel /\ ~conn[s].canceled
    /\ Becomes(s, [conn[s] EXCEPT !.canceled = TRUE])

\* The user acts on the event: it sends the data, and installs the secret.
NextEvent(s) ==
    /\ Idle(s) /\ conn[s].events # << >>
    /\ LET e == Head(conn[s].events) IN
         /\ conn' = [conn EXCEPT ![s].events = Tail(@),
                                 ![s].secrets = IF e.kind = "SetReadSecret"
                                                THEN @ \cup {e.level} ELSE @]
         /\ net' = [net EXCEPT ![Other(s)] = @ \o e.data]

\* Before Start the parameters are only stored, later the handshake is woken.
\* A faulty variant never wakes it.
SetTransportParametersSilent(s) ==
    /\ Idle(s) /\ ~conn[s].transportParams
    /\ Becomes(s, [conn[s] EXCEPT !.transportParams = TRUE,
                                  !.paramsEarly = ~conn[s].started])

SetTransportParameters(s) ==
    /\ Idle(s) /\ ~conn[s].transportParams
    /\ Becomes(s, [conn[s] EXCEPT !.transportParams = TRUE,
                                  !.paramsEarly = ~conn[s].started,
                                  !.call = IF conn[s].started THEN "tp_signal" ELSE "idle"])

\* The first n pieces on their way, of one level that the user has the secret of.
HandleData(s, n) ==
    LET level == net[s][1].level
        c == conn[s] IN
    /\ Idle(s) /\ c.started
    /\ n \in DOMAIN net[s] /\ level \in c.secrets
    /\ \A i \in 1..n : net[s][i].level = level
    /\ net' = [net EXCEPT ![s] = SubSeq(@, n + 1, Len(@))]
    /\ conn' = [conn EXCEPT ![s] =
         IF c.inLevel # level THEN [c EXCEPT !.wrongLevel = TRUE]
         ELSE [c EXCEPT !.readbuf = SubSeq(net[s], 1, n), !.call = "hd_signal"]]

\* The channels are closed: the receiving user goes on.
ReceiveClosed(s) ==
    LET c == conn[s]
        next == [start |-> "idle", close |-> "idle", hd_signal |-> "hd_blocked",
                 hd_blocked |-> "hd_lock", tp_signal |-> "tp_blocked", tp_blocked |-> "idle"] IN
    /\ \/ c.call \in {"start", "close", "hd_blocked", "tp_blocked"} /\ BlockedClosed(s)
       \/ c.call \in {"hd_signal", "tp_signal"} /\ SignalClosed(s)
    /\ Becomes(s, [c EXCEPT !.call = next[@]])

\* HandleData after the handshake.
PostLock(s) ==
    LET c == conn[s] IN
    /\ c.call = "hd_lock" /\ c.handshakeMutex = "free"
    /\ Becomes(s, [c EXCEPT !.call = "hd_post", !.handshakeMutex = "user",
                            !.hand = @ \o c.readbuf, !.readbuf = << >>])

\* handlePostHandshakeMessage: a client takes a NewSessionTicket, or refuses it.
PostMessage(s, refuse) ==
    LET c == conn[s] IN
    /\ c.call = "hd_post" /\ HasMessage(c) /\ ~c.handshakeErr
    /\ refuse => BadTicket
    /\ Becomes(s, [Took(c) EXCEPT !.handshakeErr = refuse \/ c.hand[1].msg # "NewSessionTicket"
                                                         \/ s = "server"])

PostReturn(s) ==
    LET c == conn[s] IN
    /\ c.call = "hd_post" /\ (~HasMessage(c) \/ c.handshakeErr)
    /\ Becomes(s, [c EXCEPT !.call = "idle", !.handshakeMutex = "free"])

SendSessionTicket(s) ==
    LET c == conn[s] IN
    /\ Idle(s) /\ s = "server" /\ c.isHandshakeComplete /\ ~c.sessionTicketSent
    /\ Becomes(s, Wrote([c EXCEPT !.sessionTicketSent = TRUE], "NewSessionTicket"))

Close(s) ==
    /\ Idle(s) /\ conn[s].started /\ s \in MayCancel
    /\ Becomes(s, [conn[s] EXCEPT !.canceled = TRUE, !.call = "close"])

ConnectionState(s) ==
    /\ Idle(s) /\ ~conn[s].asked
    /\ Becomes(s, [conn[s] EXCEPT !.asked = TRUE, !.call = "cs_lock"])

ConnectionStateReturn(s) ==
    /\ conn[s].call = "cs_lock" /\ conn[s].handshakeMutex = "free"
    /\ Becomes(s, [conn[s] EXCEPT !.call = "idle"])

-----------------------------------------------------------------------------
Handshake(s) ==
    \/ NeedData(s) \/ NeedParams(s) \/ BlockedSend(s) \/ SignalSend(s) \/ WaitCanceled(s)
    \/ Relock(s) \/ Unwind(s) \/ CloseChannels(s)
    \/ ClientHello(s) \/ ClientRetry(s) \/ ClientKeys(s) \/ ClientFinished(s)
    \/ \E m \in Messages : ClientParameters(s, m)
    \/ ServerRetry(s) \/ ServerFlight(s) \/ ServerFinished(s)
    \/ \E accept \in BOOLEAN : ServerHello(s, accept)

\* A call in progress goes on.
Return(s) ==
    \/ ReceiveClosed(s) \/ PostLock(s) \/ PostReturn(s) \/ ConnectionStateReturn(s)
    \/ \E refuse \in BOOLEAN : PostMessage(s, refuse)

\* The calls a QUIC implementation makes to get the handshake done.
Deliver(s) == \E n \in DOMAIN net[s] : HandleData(s, n)

Next ==
    \E s \in Sides :
      \/ Handshake(s) \/ Abort(s) \/ Return(s)
      \/ Start(s) \/ NextEvent(s) \/ SetTransportParameters(s) \/ Deliver(s)
      \/ Cancel(s) \/ Close(s) \/ SendSessionTicket(s) \/ ConnectionState(s)

Spec == Init /\ [][Next]_vars

\* Goroutines run; a QUIC implementation starts the handshake, takes its events,
\* delivers the data and answers the request for transport parameters.
Fairness ==
    \A s \in Sides :
      /\ WF_vars(Handshake(s)) /\ WF_vars(Return(s))
      /\ WF_vars(Start(s)) /\ WF_vars(NextEvent(s)) /\ WF_vars(Deliver(s))
      /\ WF_vars(HasLogged(conn[s], Required) /\ SetTransportParameters(s))

FairSpec == Spec /\ Fairness

-----------------------------------------------------------------------------
(* Properties.                                                             *)

\* The two goroutines never own the connection at once.  While the handshake works
\* on c.hand, readbuf and the events (quic.go, the comment at readbuf) the user waits
\* in Start, HandleData or SetTransportParameters; while the user handles messages
\* after the handshake, the handshake has returned.  handshakeMutex agrees.
Handover ==
    /\ TypeOK
    /\ \A s \in Sides :
         LET c == conn[s] IN
         /\ c.place \in {"run", "relock", "blocked"} => c.call \in {"start", "hd_blocked", "tp_blocked"}
         /\ c.call = "hd_post" <=> c.handshakeMutex = "user"
         /\ c.handshakeMutex = "user" => c.place = "done"
         /\ c.place \in {"run", "closing"} <=> c.handshakeMutex = "handshake"

\* Event a, if it was returned, is preceded by event b.
After(c, a, b) ==
    \A i \in DOMAIN c.log : c.log[i] = a => \E j \in 1..(i - 1) : c.log[j] = b

\* The order of the events that a QUIC implementation relies on: no data before the
\* secret that protects it, the 1-RTT read secret after HandshakeDone (conn.go: "MUST
\* NOT decrypt 1-RTT packets prior to completing the handshake"), RejectedEarlyData
\* before any application keys, and no request for transport parameters that were
\* set before Start.
EventsInOrder ==
    \A s \in Sides :
      LET c == conn[s] IN
      /\ \A l \in Levels \ {"Initial"} : After(c, <<"WriteData", l>>, <<"SetWriteSecret", l>>)
      /\ After(c, <<"SetReadSecret", "Application">>, <<"HandshakeDone", "Application">>)
      /\ \A i, j \in DOMAIN c.log :
           c.log[i] = <<"RejectedEarlyData", "Early">>
             /\ c.log[j] \in {"SetReadSecret", "SetWriteSecret"} \X {"Application"} => i < j
      /\ c.paramsEarly => ~HasLogged(c, Required)

\* Between two sides that follow the protocol, whatever way messages are cut and
\* joined, HandleData never refuses data for its level, and no data is left in c.hand
\* when the keys change.
LevelsAgree == \A s \in Sides : ~conn[s].wrongLevel /\ ~conn[s].alert

\* When both handshakes are complete the sides agree on early data: the client
\* returned RejectedEarlyData exactly if it offered what the server did not read.
EarlyDataAgreed ==
    (\A s \in Sides : conn[s].isHandshakeComplete) =>
      LET read == HasLogged(conn["server"], <<"SetReadSecret", "Early">>)
      IN  /\ conn["client"].early = read
          /\ HasLogged(conn["client"], <<"RejectedEarlyData", "Early">>) = (OfferEarly /\ ~read)

\* conn.go on isHandshakeComplete: "isHandshakeComplete is true implies
\* handshakeErr == nil".
CompleteImpliesNoError ==
    \A s \in Sides : conn[s].isHandshakeComplete => ~conn[s].handshakeErr

\* Every call returns, Close included, whether the handshake is blocked, cancelled,
\* failed or complete, and whatever the other side does.
CallsReturn == \A s \in Sides : ~Idle(s) ~> Idle(s)

\* Both handshakes complete if none fails and nobody cancels, whenever the
\* transport parameters are set.
HandshakesComplete ==
    [](\A s \in Sides : ~conn[s].handshakeErr /\ ~conn[s].canceled)
      => <>(\A s \in Sides : conn[s].isHandshakeComplete)

=============================================================================
